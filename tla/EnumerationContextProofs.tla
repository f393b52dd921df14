--------------------- MODULE EnumerationContextProofs ---------------------
(***************************************************************************)
(* Proofs about EnumerationContext, for any numbers of enumerations,       *)
(* request threads, objects and requests, under the timing assumptions of  *)
(* DisciplinedSpec: no object is lost, and a context is removed by one     *)
(* thread, after the client and the providers have done with it.           *)
(*                                                                         *)
(* The argument gives each context in the table at most one thread that    *)
(* works on it for the client (Serving), at most one that has found it     *)
(* (Looking), and at most one that removes it (Removing), which is there   *)
(* only when the others are not.  The last response of the providers       *)
(* closes the sum of objects that were produced, cached and delivered.     *)
(* Contexts whose providers answered while they were given up (overtaken)  *)
(* are followed too, but only one thread removes the others.               *)
(***************************************************************************)
EXTENDS EnumerationContext, FiniteSetTheorems, TLAPS

ClientSteps ==
    {"idle", "issue", "waiting", "release", "remove", "pull", "close", "wrongpull"}
ProviderSteps ==
    {"none", "running", "put", "check", "asleep", "release", "remove", "done"}

Context ==
    [closed: BOOLEAN, complete: BOOLEAN, processing: BOOLEAN, error: BOOLEAN,
     cache: Nat, saved: Clients \cup {NoClient}, savedCount: Counts \cup {0},
     timer: {"off", "on", "expired"}, empties: Nat, zeroPulls: Nat, given: BOOLEAN,
     produced: Nat, delivered: Nat, ended: {"no", "complete", "error", "timedout"},
     requests: Nat]

ClientRecord == [at: ClientSteps, on: SUBSET Contexts, count: Counts \cup {0}]
ProviderRecord == [at: ProviderSteps, objects: {0, 1}, last: BOOLEAN]
TimeoutRecord ==
    [at: {"stopped", "sleep", "remove", "delete", "clean", "answer", "giveup", "discard",
          "exit"},
     remove: SUBSET Contexts, active: SUBSET Contexts, on: SUBSET Contexts]

\* The types, with natural numbers for what is bounded below.
Typed ==
    /\ ctx \in [Contexts -> Context]
    /\ table \subseteq Contexts /\ freed \subseteq Contexts /\ locked \subseteq Contexts
    /\ tableLock \in BOOLEAN
    /\ client \in [Clients -> ClientRecord]
    /\ provider \in [Contexts -> ProviderRecord]
    /\ timeout \in TimeoutRecord
    /\ overtaken \subseteq Contexts
-----------------------------------------------------------------------------
\* What each context satisfies.  The contexts that the timer thread removes because they
\* are done with, the one whose empty response it has counted, and the one that it removes
\* because its providers are given up.
Expiring == timeout.remove \cup (IF timeout.at = "delete" THEN timeout.on ELSE {})
Counted == IF timeout.at \in {"answer", "giveup"} THEN timeout.on ELSE {}
GivenUp == IF timeout.at = "discard" THEN timeout.on ELSE {}

\* The contexts whose lock the timer thread has to clean them.
Cleaned == timeout.active \cup Counted

Releases(k, c) == At(k, "release", c) \/ At(k, "remove", c)

\* A context that was not created is not used.
Unborn(c) ==
    provider[c].at = "none" =>
        /\ ctx[c] = NewContext
        /\ c \notin table \cup freed \cup locked \cup overtaken
        /\ c \notin Expiring \cup Cleaned \cup GivenUp
        /\ \A k \in Clients : client[k].on # {c}

\* One that was is in the table or deleted; then everybody has done with it.
Known(c) ==
    /\ provider[c].at # "none" => c \in table \cup freed
    /\ c \in freed => c \notin table /\ ctx[c].closed /\ ctx[c].complete

\* The client's request that is being processed.  One that is saved found the cache empty,
\* and while one is processed the timer runs only for one that is saved.
Serving(c) ==
    /\ \A k \in Clients : At(k, "issue", c) =>
          /\ ctx[c].processing /\ ~ctx[c].closed
          /\ ctx[c].timer = "off" /\ ctx[c].saved = NoClient
          /\ c \notin Cleaned
    /\ \A k \in Clients : At(k, "waiting", c) <=> ctx[c].saved = k
    /\ ctx[c].saved # NoClient =>
          ctx[c].processing /\ ~ctx[c].closed /\ ctx[c].cache = 0
    /\ ctx[c].processing /\ ~ctx[c].closed /\ ctx[c].timer # "off" => ctx[c].saved # NoClient
    /\ \A j, k \in Clients : At(j, "issue", c) /\ At(k, "issue", c) => j = k

\* The request that has found the context.
Looking(c) ==
    /\ \A k \in Found(c) : At(k, "wrongpull", c) => ~ctx[c].processing
    /\ Found(c) # {} => c \in table /\ c \notin locked /\ ~ctx[c].closed
    /\ \A j, k \in Found(c) : j = k

\* The round of the timer thread in which the context is cleaned, and the providers that
\* it gives up: they are at work and have not delivered since the last round, or the
\* context is overtaken.
Cleaning(c) ==
    /\ c \in Cleaned =>
          /\ c \in table /\ c \in locked /\ ctx[c].timer = "off"
          /\ c \notin Expiring \cup GivenUp
          /\ provider[c].at \notin {"release", "remove", "asleep"}
          /\ \A k \in Clients : ~Releases(k, c)
          /\ ctx[c].closed \/ ctx[c].saved # NoClient
    /\ GivingUp(c) => c \in overtaken \/ provider[c].at \in {"running", "done"}
    /\ c \in overtaken => GivingUp(c) \/ c \in freed
    /\ c \in GivenUp =>
          /\ ctx[c].closed /\ ctx[c].complete /\ c \notin Expiring
          /\ c \in overtaken \/ c \in table
          /\ \A k \in Clients : ~Releases(k, c)

\* The thread that removes the context.
Removing(c) ==
    /\ \A k \in Clients : Releases(k, c) =>
          /\ c \in table /\ ctx[c].closed /\ ctx[c].complete
          /\ provider[c].at = "done" /\ c \notin Expiring
          /\ \A j \in Clients : Releases(j, c) => j = k
    /\ provider[c].at \in {"release", "remove"} =>
          /\ ctx[c].closed /\ ctx[c].complete
          /\ c \in overtaken \/ (c \in table /\ c \notin Expiring)
    /\ c \in Expiring =>
          c \in table /\ ctx[c].closed /\ ctx[c].complete /\ provider[c].at = "done"
    /\ \A k \in Clients : At(k, "release", c) => c \in locked
    /\ provider[c].at = "release" => c \in locked
    /\ c \in timeout.remove => c \in locked

\* No time-out of the context has ended.
Calm(c) == ctx[c].timer # "expired" /\ c \notin timeout.active

\* The providers are at work until they are complete or given up.  The timer counts from
\* their last response: while they put it, look at the cache or sleep there, there are
\* fewer empty responses than it takes to give them up.
Providing(c) ==
    /\ ctx[c].complete /\ c \in table =>
          c \in GivenUp \/ provider[c].at \in {"done", "release", "remove"}
    /\ ctx[c].complete /\ ~ctx[c].closed => provider[c].at = "done"
    /\ provider[c].at \in {"put", "check"} /\ c \notin overtaken => c \in table
    /\ provider[c].at = "put" /\ c \notin overtaken =>
          ctx[c].empties = 0 \/ (ctx[c].empties <= 1 /\ Calm(c))
    /\ provider[c].at = "check" /\ c \notin overtaken =>
          /\ ctx[c].empties <= 2 /\ (ctx[c].empties <= 1 \/ (ctx[c].closed /\ Calm(c)))
          /\ ctx[c].closed \/ ctx[c].empties = 0 \/ Calm(c)
    /\ provider[c].at = "asleep" =>
          ~ctx[c].closed /\ ctx[c].cache > CacheLimit /\ ctx[c].empties <= 1

\* Objects that are in a response.
InPut(c) == IF provider[c].at = "put" THEN provider[c].objects ELSE 0

Summed(c) ==
    /\ ctx[c].ended = "complete" =>
          /\ ctx[c].closed /\ ctx[c].complete /\ ctx[c].delivered = ctx[c].produced
          /\ provider[c].at \in {"done", "release", "remove"}
    /\ ~ctx[c].closed => ctx[c].delivered + ctx[c].cache = ctx[c].produced - InPut(c)

\* The bounds of the counts.
Bounded(c) ==
    /\ ctx[c].produced <= MaxObjects
    /\ ctx[c].delivered <= ctx[c].produced
    /\ ctx[c].closed => ctx[c].cache = 0
    /\ ctx[c].cache <= CacheLimit + 1
    /\ provider[c].at \in {"running", "put"} => ctx[c].cache <= CacheLimit
    /\ ctx[c].empties <= FinalTargetCount
    /\ c \in table => ctx[c].empties < FinalTargetCount \/ GivingUp(c)
    /\ ctx[c].requests <= MaxRequests
    /\ ctx[c].zeroPulls <= ctx[c].requests
    /\ Found(c) # {} => ctx[c].zeroPulls < ctx[c].requests

\* Who has the lock of the table.
TableLocked ==
    /\ \A k \in Clients : client[k].at = "remove" =>
          /\ tableLock /\ timeout.at \notin {"remove", "delete"}
          /\ \A c \in Contexts : provider[c].at # "remove"
    /\ \A c \in Contexts : provider[c].at = "remove" =>
          tableLock /\ timeout.at \notin {"remove", "delete"}
    /\ \A j, k \in Clients : client[j].at = "remove" /\ client[k].at = "remove" => j = k
    /\ \A c, d \in Contexts : provider[c].at = "remove" /\ provider[d].at = "remove" => c = d
    /\ timeout.at \in {"remove", "delete"} => tableLock

\* What the timer thread is working on.
Rounds ==
    /\ IF timeout.at \in {"delete", "answer", "giveup", "discard"}
       THEN \E c \in Contexts : timeout.on = {c}
       ELSE timeout.on = {}
    /\ timeout.on \cap (timeout.remove \cup timeout.active) = {}
    /\ timeout.remove # {} => timeout.at \in {"remove", "delete"}
    /\ timeout.active # {} =>
          timeout.at \in {"remove", "delete", "clean", "answer", "giveup", "discard"}

OfContext(c) ==
    /\ Unborn(c) /\ Known(c) /\ Serving(c) /\ Looking(c)
    /\ Cleaning(c) /\ Removing(c) /\ Providing(c) /\ Summed(c) /\ Bounded(c)

EnumInv ==
    /\ Typed /\ TableLocked /\ Rounds
    /\ \A c \in Contexts : OfContext(c)

-----------------------------------------------------------------------------
\* A step that does not touch what is said of the context d.
Still(d) ==
    /\ ctx'[d] = ctx[d] /\ provider'[d] = provider[d]
    /\ d \in table' <=> d \in table
    /\ d \in freed' <=> d \in freed
    /\ d \in locked' <=> d \in locked
    /\ d \in overtaken' <=> d \in overtaken
    /\ d \in timeout'.remove <=> d \in timeout.remove
    /\ d \in timeout'.active <=> d \in timeout.active
    /\ d \in Expiring' <=> d \in Expiring
    /\ d \in Counted' <=> d \in Counted
    /\ d \in GivenUp' <=> d \in GivenUp
    /\ GivingUp(d)' <=> GivingUp(d)
    /\ \A k \in Clients :
          \/ client'[k] = client[k]
          \/ client[k].on # {d} /\ client'[k].on # {d}
          \/ client[k].at = "idle" /\ client'[k].on # {d}

\* What is said of a context holds on.
LEMMA Untouched ==
    ASSUME NEW d \in Contexts, OfContext(d), Still(d)
    PROVE  OfContext(d)'
<1> DEFINE atSame(k, s) == At(k, s, d)' <=> At(k, s, d)
<1>1. \A k \in Clients :
          /\ atSame(k, "issue") /\ atSame(k, "waiting") /\ atSame(k, "release")
          /\ atSame(k, "remove") /\ atSame(k, "pull") /\ atSame(k, "close")
          /\ atSame(k, "wrongpull")
  BY DEF Still, At
<1>2. Found(d)' = Found(d)
  BY <1>1 DEF Found
<1>3. \A k \in Clients : Releases(k, d)' <=> Releases(k, d)
  BY <1>1 DEF Releases
<1> HIDE DEF atSame
<1>4. d \in Cleaned' <=> d \in Cleaned
  BY DEF Still, Cleaned
<1>5. Unborn(d)' /\ Known(d)'
  <2>1. (\A k \in Clients : client[k].on # {d}) => \A k \in Clients : client'[k].on # {d}
    BY DEF Still
  <2>2. QED
    BY <1>4, <2>1 DEF Still, OfContext, Unborn, Known
<1>6. Serving(d)' /\ Looking(d)'
  <2>1. Found(d) \subseteq Clients
    BY DEF Found
  <2>2. Serving(d)'
    BY <1>1, <1>4 DEF atSame, Still, OfContext, Serving
  <2>3. Looking(d)'
    BY <1>1, <1>2, <2>1 DEF atSame, Still, OfContext, Looking
  <2>4. QED
    BY <2>2, <2>3
<1>7. Cleaning(d)' /\ Removing(d)'
  BY <1>1, <1>3, <1>4 DEF atSame, Still, OfContext, Cleaning, Removing
<1>8. Providing(d)' /\ Summed(d)' /\ Bounded(d)'
  BY <1>2 DEF Still, OfContext, Providing, Calm, Summed, InPut, Bounded
<1>9. QED
  BY <1>5, <1>6, <1>7, <1>8 DEF OfContext

\* What the timer thread works on is not changed.
TimerStill ==
    /\ UNCHANGED <<Expiring, Counted, GivenUp, Cleaned, overtaken>>
    /\ UNCHANGED <<timeout.active, timeout.remove, timeout.on>>
    /\ \A d \in Contexts : GivingUp(d)' <=> GivingUp(d)

\* It is not by a step of another thread.
LEMMA TimerUnmoved ==
    ASSUME UNCHANGED <<timeout, overtaken>>
    PROVE  TimerStill
BY DEF TimerStill, Expiring, Counted, GivenUp, Cleaned, GivingUp

\* Providers are given up between the count and the removal.
LEMMA GivingUpWhen ==
    ASSUME NEW c \in Contexts
    PROVE  /\ GivingUp(c) => c \in Cleaned \cup GivenUp
           /\ c \in GivenUp => GivingUp(c)
           /\ c \notin Cleaned => c \notin timeout.active
           /\ c \notin Expiring => c \notin timeout.remove
BY DEF GivingUp, Cleaned, Counted, GivenUp, Expiring

\* They are not given up in a context that the timer thread does not clean and that is
\* open or done with.
LEMMA NotGivenUp ==
    ASSUME NEW c \in Contexts, OfContext(c), c \notin Cleaned,
           \/ ~ctx[c].closed
           \/ c \in table /\ provider[c].at \in {"put", "check"} /\ c \notin overtaken
           \/ c \in Expiring
           \/ \E k \in Clients : Releases(k, c)
    PROVE  ~GivingUp(c) /\ c \notin GivenUp /\ c \notin overtaken
BY GivingUpWhen DEF OfContext, Cleaning, Known, Removing

USE DEF TimerStill

\* setClientClosed changes three members.
LEMMA ClosedMembers ==
    ASSUME NEW x \in Context
    PROVE  /\ Closed(x) \in Context
           /\ Closed(x).closed = TRUE /\ Closed(x).processing = FALSE /\ Closed(x).cache = 0
           /\ Closed(x).complete = x.complete /\ Closed(x).error = x.error
           /\ Closed(x).saved = x.saved /\ Closed(x).savedCount = x.savedCount
           /\ Closed(x).timer = x.timer /\ Closed(x).empties = x.empties
           /\ Closed(x).zeroPulls = x.zeroPulls /\ Closed(x).given = x.given
           /\ Closed(x).produced = x.produced /\ Closed(x).delivered = x.delivered
           /\ Closed(x).ended = x.ended /\ Closed(x).requests = x.requests
BY DEF Context, Closed

\* isTimedOut changes the timer.
LEMMA TimerMembers ==
    ASSUME NEW x \in Context
    PROVE  /\ TimerCleared(x) \in Context
           /\ TimerCleared(x).timer = IF x.timer = "expired" THEN "off" ELSE x.timer
           /\ TimerCleared(x).closed = x.closed /\ TimerCleared(x).processing = x.processing
           /\ TimerCleared(x).cache = x.cache
           /\ TimerCleared(x).complete = x.complete /\ TimerCleared(x).error = x.error
           /\ TimerCleared(x).saved = x.saved /\ TimerCleared(x).savedCount = x.savedCount
           /\ TimerCleared(x).empties = x.empties
           /\ TimerCleared(x).zeroPulls = x.zeroPulls /\ TimerCleared(x).given = x.given
           /\ TimerCleared(x).produced = x.produced /\ TimerCleared(x).delivered = x.delivered
           /\ TimerCleared(x).ended = x.ended /\ TimerCleared(x).requests = x.requests
BY DEF Context, TimerCleared

\* A request that is saved is forgotten.
LEMMA SavedMembers ==
    ASSUME NEW x \in Context
    PROVE  /\ NoneSaved(x) \in Context
           /\ NoneSaved(x).saved = NoClient
           /\ NoneSaved(x).timer = x.timer
           /\ NoneSaved(x).closed = x.closed /\ NoneSaved(x).processing = x.processing
           /\ NoneSaved(x).cache = x.cache
           /\ NoneSaved(x).complete = x.complete /\ NoneSaved(x).error = x.error
           /\ NoneSaved(x).empties = x.empties
           /\ NoneSaved(x).zeroPulls = x.zeroPulls /\ NoneSaved(x).given = x.given
           /\ NoneSaved(x).produced = x.produced /\ NoneSaved(x).delivered = x.delivered
           /\ NoneSaved(x).ended = x.ended /\ NoneSaved(x).requests = x.requests
BY DEF Context, NoneSaved

\* A response makes y of the open context x: it moves objects from the cache to the
\* client, and says that the enumeration is complete when there is none left and the
\* providers are.
AfterIssue(x, y) ==
    /\ y \in Context
    /\ y.processing = FALSE
    /\ y.complete = x.complete /\ y.error = x.error
    /\ y.saved = x.saved /\ y.savedCount = x.savedCount /\ y.empties = x.empties
    /\ y.zeroPulls = x.zeroPulls /\ y.produced = x.produced /\ y.requests = x.requests
    /\ y.delivered <= x.delivered + x.cache /\ y.cache <= x.cache
    /\ y.closed => y.cache = 0 /\ y.timer = x.timer /\ (y.complete \/ y.error)
    /\ y.closed /\ y.ended = "complete" =>
          y.complete /\ ~x.error /\ y.delivered = x.delivered + x.cache
    /\ ~y.closed =>
          /\ y.delivered + y.cache = x.delivered + x.cache
          /\ y.ended = x.ended /\ y.timer \in {"on", x.timer}
          /\ ~y.error

\* _issueImmediateOpenOrPullResponseMessage leaves an open context so.
LEMMA IssuedMembers ==
    ASSUME NEW x \in Context, ~x.closed, NEW count \in Nat
    PROVE  AfterIssue(x, Issued(x, count))
<1> DEFINE y == Issued(x, count)
<1> SUFFICES AfterIssue(x, y)
  OBVIOUS
<1> DEFINE z == Moved(x, count)
           n == IF x.error THEN 0 ELSE IF x.cache < count THEN x.cache ELSE count
<1>1. n \in Nat /\ n <= x.cache
  BY DEF Context
<1> DEFINE left == x.cache - n
           sent == x.delivered + n
<1>2. z = [x EXCEPT !.cache = left, !.delivered = sent]
  BY DEF Moved, Context
<1>3. x.cache \in Nat /\ x.delivered \in Nat
  BY DEF Context
<1> HIDE DEF n
<1>4. left \in Nat /\ sent \in Nat
  BY <1>3, <1>1
<1> HIDE DEF left, sent, z
<1>5. /\ z \in Context /\ z.cache = left /\ z.delivered = sent
      /\ z.closed = x.closed /\ z.complete = x.complete /\ z.processing = x.processing
      /\ z.error = x.error /\ z.saved = x.saved /\ z.savedCount = x.savedCount
      /\ z.timer = x.timer /\ z.empties = x.empties /\ z.zeroPulls = x.zeroPulls
      /\ z.produced = x.produced /\ z.ended = x.ended /\ z.requests = x.requests
  BY <1>2, <1>4 DEF Context
<1>6. y = IF SequenceEnds(z)
          THEN [Closed(z) EXCEPT !.ended = IF x.error THEN "error" ELSE "complete"]
          ELSE [Waiting(z) EXCEPT !.given = TRUE]
  BY DEF Issued, z
<1> USE DEF left, sent
<1> HIDE DEF y
<1>7. CASE SequenceEnds(z)
  <2> DEFINE w == Closed(z)
  <2>1. /\ w \in Context /\ w.closed = TRUE /\ w.processing = FALSE /\ w.cache = 0
        /\ w.complete = z.complete /\ w.error = z.error
        /\ w.saved = z.saved /\ w.savedCount = z.savedCount
        /\ w.timer = z.timer /\ w.empties = z.empties
        /\ w.zeroPulls = z.zeroPulls /\ w.given = z.given
        /\ w.produced = z.produced /\ w.delivered = z.delivered
        /\ w.ended = z.ended /\ w.requests = z.requests
    BY <1>5, ClosedMembers
  <2>2. y = [w EXCEPT !.ended = IF x.error THEN "error" ELSE "complete"]
    BY <1>6, <1>7
  <2> HIDE DEF w
  <2>3. /\ y \in Context /\ y.closed = TRUE /\ y.processing = FALSE /\ y.cache = 0
        /\ y.complete = w.complete /\ y.error = w.error
        /\ y.saved = w.saved /\ y.savedCount = w.savedCount
        /\ y.timer = w.timer /\ y.empties = w.empties
        /\ y.zeroPulls = w.zeroPulls
        /\ y.produced = w.produced /\ y.delivered = w.delivered
        /\ y.requests = w.requests
        /\ y.ended = IF x.error THEN "error" ELSE "complete"
    BY <2>1, <2>2 DEF Context
  <2>4. (z.complete /\ z.cache = 0) \/ z.error
    BY <1>7 DEF SequenceEnds
  <2>5. x.cache \in Nat /\ x.delivered \in Nat /\ x.error \in BOOLEAN
    BY DEF Context
  <2>6. y.complete = x.complete /\ y.error = x.error /\ y.delivered = x.delivered + n
    BY <1>5, <2>1, <2>3
  <2>7. y.complete \/ y.error
    BY <1>5, <2>4, <2>6
  <2>8. ~x.error => y.complete /\ n = x.cache
    BY <1>1, <1>5, <2>4, <2>5, <2>6
  <2>9. y.ended # "timedout" /\ (y.ended = "complete" => ~x.error)
    BY <2>3
  <2>10. QED
    BY <1>1, <1>5, <2>1, <2>3, <2>5, <2>6, <2>7, <2>8, <2>9 DEF AfterIssue
<1>8. CASE ~SequenceEnds(z)
  <2>1. y = [z EXCEPT !.processing = FALSE, !.timer = IF TimeoutSet THEN "on" ELSE @,
                      !.given = TRUE]
    BY <1>5, <1>6, <1>8 DEF Waiting, Context
  <2>2. /\ y \in Context /\ y.closed = z.closed /\ y.processing = FALSE /\ y.cache = z.cache
        /\ y.complete = z.complete /\ y.error = z.error
        /\ y.saved = z.saved /\ y.savedCount = z.savedCount
        /\ y.timer = (IF TimeoutSet THEN "on" ELSE z.timer) /\ y.empties = z.empties
        /\ y.zeroPulls = z.zeroPulls
        /\ y.produced = z.produced /\ y.delivered = z.delivered
        /\ y.requests = z.requests /\ y.ended = z.ended
    BY <1>5, <2>1 DEF Context
  <2>3. ~z.error
    BY <1>8 DEF SequenceEnds
  <2>4. x.cache \in Nat /\ x.delivered \in Nat
    BY DEF Context
  <2>5. QED
    BY <1>1, <1>5, <2>2, <2>3, <2>4 DEF AfterIssue
<1>9. QED
  BY <1>7, <1>8

\* No context is in use at first.
LEMMA InitInv == Init => EnumInv
<1> SUFFICES ASSUME Init PROVE EnumInv
  OBVIOUS
<1>1. /\ NewContext \in Context
      /\ NewContext.closed = FALSE /\ NewContext.complete = FALSE /\ NewContext.timer = "off"
      /\ NewContext.saved = NoClient /\ NewContext.ended = "no"
      /\ NewContext.cache = 0 /\ NewContext.produced = 0 /\ NewContext.delivered = 0
      /\ NewContext.empties = 0 /\ NewContext.requests = 0 /\ NewContext.zeroPulls = 0
  BY DEF NewContext, Context, NoClient
<1>2. Typed
  BY <1>1
  DEF Init, Typed, Idle, ClientSteps, ProviderSteps, ClientRecord, ProviderRecord, TimeoutRecord
<1>3. TableLocked /\ Rounds
  BY DEF Init, TableLocked, Rounds, Idle
<1>4. ASSUME NEW c \in Contexts PROVE OfContext(c)
  <2>1. /\ ctx[c] = NewContext /\ provider[c].at = "none"
        /\ \A k \in Clients : client[k].on # {c} /\ ~(client[k].on = {c})
        /\ c \notin table \cup freed \cup locked \cup overtaken
        /\ c \notin Expiring \cup Cleaned \cup GivenUp \cup timeout.remove
        /\ ~GivingUp(c)
    BY DEF Init, Idle, Expiring, Cleaned, Counted, GivenUp, GivingUp
  <2>2. \A k \in Clients : k # NoClient
    BY EnumerationAssumption DEF NoClient
  <2>3. Found(c) = {}
    BY <2>1 DEF Found, At
  <2>4. Unborn(c) /\ Known(c) /\ Serving(c) /\ Looking(c)
    BY <1>1, <2>1, <2>2, <2>3 DEF Unborn, Known, Serving, Looking, At
  <2>5. Cleaning(c) /\ Removing(c) /\ Providing(c)
    BY <1>1, <2>1 DEF Cleaning, Removing, Providing, Releases, At
  <2>6. Summed(c) /\ Bounded(c)
    BY <1>1, <2>1, <2>3, EnumerationAssumption DEF Summed, Bounded, InPut
  <2>7. QED
    BY <2>4, <2>5, <2>6 DEF OfContext
<1>5. QED
  BY <1>2, <1>3, <1>4 DEF EnumInv

-----------------------------------------------------------------------------
\* The client and its request.

\* The members of a context have their types.
LEMMA MemberTypes ==
    ASSUME NEW x \in Context
    PROVE  /\ x.closed \in BOOLEAN /\ x.complete \in BOOLEAN
           /\ x.processing \in BOOLEAN /\ x.error \in BOOLEAN
           /\ x.cache \in Nat /\ x.empties \in Nat /\ x.zeroPulls \in Nat
           /\ x.produced \in Nat /\ x.delivered \in Nat /\ x.requests \in Nat
           /\ x.saved \in Clients \cup {NoClient}
           /\ x.timer \in {"off", "on", "expired"}
BY DEF Context

\* The counts of requests are natural numbers.
LEMMA CountTypes ==
    ASSUME Typed
    PROVE  /\ \A c \in Contexts : ctx[c] \in Context /\ ctx[c].savedCount \in Nat
           /\ \A k \in Clients : client[k].count \in Nat
<1>1. Counts \cup {0} \subseteq Nat
  BY EnumerationAssumption
<1>2. \A c \in Contexts : ctx[c] \in Context /\ ctx[c].savedCount \in Counts \cup {0}
  BY DEF Typed, Context
<1>3. \A k \in Clients : client[k].count \in Counts \cup {0}
  BY DEF Typed, ClientRecord
<1>4. QED
  BY <1>1, <1>2, <1>3

\* A thread goes on to another step.
LEMMA ClientMoves ==
    ASSUME Typed, NEW k \in Clients, NEW step \in ClientSteps, Goto(k, step)
    PROVE  /\ client' \in [Clients -> ClientRecord]
           /\ client'[k].at = step /\ client'[k].on = client[k].on
           /\ client'[k].count = client[k].count
           /\ \A j \in Clients \ {k} : client'[j] = client[j]
BY DEF Typed, Goto, ClientRecord

\* A thread has answered its request.
LEMMA ClientLeaves ==
    ASSUME Typed, NEW k \in Clients, client' = [client EXCEPT ![k] = Idle]
    PROVE  /\ client' \in [Clients -> ClientRecord]
           /\ client'[k].at = "idle" /\ client'[k].on = {}
           /\ \A j \in Clients \ {k} : client'[j] = client[j]
BY DEF Typed, Idle, ClientRecord, ClientSteps

\* A signal can only wake a provider that sleeps.
LEMMA Signalled ==
    ASSUME Typed, NEW c \in Contexts, NEW b, Signal(c, b)
    PROVE  /\ provider' \in [Contexts -> ProviderRecord]
           /\ provider'[c].at \in {provider[c].at, "check"}
           /\ provider'[c].at # provider[c].at => provider[c].at = "asleep"
           /\ b => provider'[c].at # "asleep"
           /\ provider'[c].objects = provider[c].objects
           /\ \A d \in Contexts \ {c} : provider'[d] = provider[d]
<1>1. /\ Woken(c, b) \in ProviderSteps /\ Woken(c, b) \in {provider[c].at, "check"}
      /\ Woken(c, b) # provider[c].at => provider[c].at = "asleep"
      /\ b => Woken(c, b) # "asleep"
  BY DEF Typed, Woken, ProviderRecord, ProviderSteps
<1> DEFINE w == Woken(c, b)
<1>2. provider' = [provider EXCEPT ![c].at = w] /\ w \in ProviderSteps
  BY <1>1 DEF Signal
<1>3. /\ w \in {provider[c].at, "check"} /\ (w # provider[c].at => provider[c].at = "asleep")
      /\ b => w # "asleep"
  BY <1>1
<1> HIDE DEF w
<1>4. QED
  BY <1>2, <1>3 DEF Typed, ProviderRecord

\* Starting the timer thread does not change what it works on.
LEMMA TimerStarted ==
    ASSUME Typed, StartTimerThread \/ UNCHANGED timeout, UNCHANGED overtaken
    PROVE  /\ timeout' \in TimeoutRecord
           /\ TimerStill
           /\ timeout'.at \in {timeout.at, "sleep"}
           /\ timeout'.at # timeout.at => timeout.at = "stopped"
<1>1. CASE UNCHANGED timeout
  BY <1>1, TimerUnmoved DEF Typed
<1>2. CASE timeout.at = "stopped" /\ timeout' = [timeout EXCEPT !.at = "sleep"]
  <2>1. /\ timeout' \in TimeoutRecord /\ timeout'.at = "sleep"
        /\ UNCHANGED <<timeout.active, timeout.remove, timeout.on>>
    BY <1>2 DEF Typed, TimeoutRecord
  <2>2. QED
    BY <1>2, <2>1 DEF Expiring, Counted, GivenUp, Cleaned, GivingUp
<1>3. QED
  BY <1>1, <1>2 DEF StartTimerThread

\* A step that lets no request find a context leaves what is said of the one that
\* has: by the timing assumptions nothing happened to its context.
LEMMA StillLooking ==
    ASSUME Typed, NEW c \in Contexts, OfContext(c), FoundFresh,
           \A k \in Clients : \/ client'[k] = client[k]
                              \/ client'[k].at \notin {"pull", "close", "wrongpull"},
           c \in table /\ ~ctx[c].closed /\ ctx'[c] = ctx[c] /\ c \notin locked
              => c \in table'
    PROVE  /\ Looking(c)'
           /\ Found(c)' # {} => Found(c) # {} /\ ctx'[c] = ctx[c]
<1>1. /\ Found(c)' \subseteq Found(c)
      /\ Found(c) \subseteq Clients
      /\ \A k \in Found(c)' : At(k, "wrongpull", c)' => At(k, "wrongpull", c)
  BY DEF Found, At
<1>2. Found(c)' # {} => Found(c) # {} /\ ctx'[c] = ctx[c] /\ c \notin locked'
  BY <1>1 DEF FoundFresh
<1>3. Looking(c)
  BY DEF OfContext
<1>4. QED
  BY <1>1, <1>2, <1>3 DEF Looking

\* createContext and the start of the providers.
LEMMA OpenStep ==
    ASSUME EnumInv, FoundFresh, NEW k \in Clients, NEW c \in Contexts, NEW n \in Counts,
           Open(k, c, n)
    PROVE  EnumInv'
<1>1. /\ client[k].at = "idle" /\ provider[c].at = "none" /\ ~tableLock
      /\ ctx[c] = NewContext
      /\ c \notin table \cup freed \cup locked \cup overtaken
      /\ c \notin Expiring \cup Cleaned \cup GivenUp
      /\ c \notin timeout.active /\ ~GivingUp(c)
      /\ \A j \in Clients : client[j].on # {c}
  BY GivingUpWhen DEF Open, EnumInv, OfContext, Unborn
<1>2. /\ provider'[c].at = "running" /\ \A d \in Contexts \ {c} : provider'[d] = provider[d]
      /\ client'[k].at = "issue" /\ client'[k].on = {c}
      /\ \A j \in Clients \ {k} : client'[j] = client[j]
      /\ table' = table \cup {c}
      /\ UNCHANGED <<ctx, freed, locked, tableLock, timeout, overtaken>>
      /\ TimerStill
  BY TimerUnmoved DEF Open, EnumInv, Typed, lockVars, ClientRecord, ProviderRecord
<1>3. Typed'
  BY DEF Open, EnumInv, Typed, lockVars, ClientRecord, ProviderRecord, ClientSteps,
         ProviderSteps
<1>4. TableLocked' /\ Rounds'
  BY <1>2 DEF EnumInv, TableLocked, Rounds
<1>5. ASSUME NEW d \in Contexts, d # c PROVE OfContext(d)'
  <2>1. Still(d)
    BY <1>1, <1>2, <1>5 DEF Still
  <2>2. QED
    BY <2>1, <1>5, Untouched DEF EnumInv
<1>6. OfContext(c)'
  <2>1. Looking(c)' /\ Found(c)' = {}
    BY <1>1, <1>2, StillLooking DEF EnumInv, Found, At
  <2>2. /\ ctx'[c].closed = FALSE /\ ctx'[c].complete = FALSE /\ ctx'[c].processing = TRUE
        /\ ctx'[c].saved = NoClient /\ ctx'[c].ended = "no" /\ ctx'[c].timer = "off"
        /\ ctx'[c].cache = 0 /\ ctx'[c].produced = 0 /\ ctx'[c].delivered = 0
        /\ ctx'[c].empties = 0 /\ ctx'[c].requests = 0 /\ ctx'[c].zeroPulls = 0
    BY <1>1, <1>2 DEF NewContext
  <2>3. \A j \in Clients : j # NoClient
    BY EnumerationAssumption DEF NoClient
  <2>4. Unborn(c)' /\ Known(c)'
    BY <1>1, <1>2 DEF Unborn, Known
  <2>5. Serving(c)'
    BY <1>1, <1>2, <2>2, <2>3 DEF Serving, At
  <2>6. Cleaning(c)' /\ Removing(c)' /\ Providing(c)'
    BY <1>1, <1>2, <2>2 DEF Cleaning, Removing, Providing, Releases, At, Expiring
  <2>7. Summed(c)' /\ Bounded(c)'
    BY <1>1, <1>2, <2>1, <2>2, EnumerationAssumption DEF Summed, Bounded, InPut
  <2>8. QED
    BY <2>1, <2>4, <2>5, <2>6, <2>7 DEF OfContext
<1>7. QED
  BY <1>3, <1>4, <1>5, <1>6 DEF EnumInv

\* issueOpenOrPullResponseMessage with a response.  When it is the last one and the
\* providers are complete, nobody else removes the context, because it was open.
LEMMA IssueNowStep ==
    ASSUME EnumInv, FoundFresh, NEW k \in Clients, NEW c \in Contexts, IssueNow(k, c)
    PROVE  EnumInv'
<1> DEFINE x == ctx[c]
           y == Issued(x, client[k].count)
<1>1. /\ At(k, "issue", c) /\ c \notin locked
      /\ x.processing /\ ~x.closed /\ x.timer = "off" /\ x.saved = NoClient
      /\ c \notin Cleaned /\ c \notin timeout.active
      /\ c \notin GivenUp /\ c \notin overtaken /\ ~GivingUp(c)
      /\ OfContext(c) /\ provider[c].at # "none" /\ c \in table
  <2>1. /\ At(k, "issue", c) /\ c \notin locked
        /\ x.processing /\ ~x.closed /\ x.timer = "off" /\ x.saved = NoClient
        /\ c \notin Cleaned
        /\ OfContext(c) /\ provider[c].at # "none" /\ c \in table
    BY DEF IssueNow, EnumInv, OfContext, Serving, Unborn, Known, CanLock, At
  <2>2. QED
    BY <2>1, NotGivenUp, GivingUpWhen
<1>2. x \in Context /\ client[k].count \in Nat
  BY CountTypes DEF EnumInv
<1>3. AfterIssue(x, y)
  BY <1>2, <1>1, IssuedMembers
<1>4. /\ x.cache \in Nat /\ x.delivered \in Nat /\ x.produced \in Nat
      /\ x.empties \in Nat /\ x.requests \in Nat /\ x.zeroPulls \in Nat
      /\ y.cache \in Nat /\ y.delivered \in Nat
      /\ x.complete \in BOOLEAN /\ y.closed \in BOOLEAN
  BY <1>2, <1>3, MemberTypes DEF AfterIssue
<1> DEFINE ends == y.closed /\ y.complete
<1>5. /\ ctx'[c] = y /\ \A d \in Contexts \ {c} : ctx'[d] = ctx[d]
      /\ ctx' \in [Contexts -> Context]
      /\ locked' = IF ends THEN locked \cup {c} ELSE locked
      /\ UNCHANGED <<table, freed, tableLock>>
  BY <1>3 DEF IssueNow, EnumInv, Typed, AfterIssue
<1>6. /\ provider' \in [Contexts -> ProviderRecord]
      /\ provider'[c].at \in {provider[c].at, "check"}
      /\ provider'[c].at # provider[c].at => provider[c].at = "asleep"
      /\ provider'[c].at # "asleep"
      /\ provider'[c].objects = provider[c].objects
      /\ \A d \in Contexts \ {c} : provider'[d] = provider[d]
  <2>1. provider[c].at = "asleep" => ~x.complete
    BY <1>1 DEF OfContext, Providing
  <2>2. Signal(c, ~x.error \/ ~x.complete)
    BY DEF IssueNow
  <2>3. QED
    BY <2>1, <2>2, Signalled DEF EnumInv
<1>7. /\ timeout' \in TimeoutRecord
      /\ TimerStill
      /\ timeout'.at \in {timeout.at, "sleep"}
      /\ timeout'.at # timeout.at => timeout.at = "stopped"
  BY TimerStarted DEF IssueNow, EnumInv, TimerFor
<1>8. /\ client' \in [Clients -> ClientRecord]
      /\ client'[k].at = (IF ends THEN "release" ELSE "idle")
      /\ ends => client'[k].on = {c}
      /\ ~ends => client'[k].on = {}
      /\ \A j \in Clients \ {k} : client'[j] = client[j]
  BY <1>1, ClientMoves, ClientLeaves DEF IssueNow, EnumInv, ClientSteps, At
<1> HIDE DEF y
<1> USE DEF AfterIssue
<1>9. Typed'
  BY <1>5, <1>6, <1>7, <1>8
  DEF EnumInv, Typed
<1>10. TableLocked' /\ Rounds'
  BY <1>1, <1>5, <1>6, <1>7, <1>8 DEF EnumInv, TableLocked, Rounds, At
<1>11. ASSUME NEW d \in Contexts, d # c PROVE OfContext(d)'
  <2>1. Still(d)
    BY <1>1, <1>5, <1>6, <1>7, <1>11, <1>8 DEF Still, At
  <2>2. QED
    BY <2>1, <1>11, Untouched DEF EnumInv
<1>12. OfContext(c)'
  <2>1. Looking(c)' /\ (Found(c)' # {} => Found(c) # {} /\ ctx'[c] = ctx[c])
    BY <1>1, <1>5, <1>8, StillLooking DEF EnumInv
  <2>2. \A j \in Clients : j # NoClient
    BY EnumerationAssumption DEF NoClient
  <2>3. Unborn(c)' /\ Known(c)'
    BY <1>1, <1>5, <1>6 DEF OfContext, Unborn, Known
  <2>4. Serving(c)'
    BY <1>1, <1>3, <1>5, <1>7, <1>8, <2>2 DEF OfContext, Serving, At
  <2>5. Cleaning(c)'
    BY <1>1, <1>7
    DEF Cleaning
  <2>6. Removing(c)'
    BY <1>1, <1>3, <1>5, <1>6, <1>7, <1>8
    DEF OfContext, Removing, Providing, Releases, At, Expiring
  <2>7. Providing(c)'
    <3>1. Calm(c)'
      BY <1>1, <1>3, <1>5, <1>7 DEF Calm
    <3>2. Providing(c)
      BY <1>1 DEF OfContext
    <3>3. provider'[c].at # "asleep" /\ (x.complete => provider'[c].at = provider[c].at)
      BY <1>1, <1>6, <3>2 DEF Providing
    <3>4. QED
      BY <1>1, <1>3, <1>4, <1>5, <1>6, <3>1, <3>2, <3>3 DEF Providing
  <2>8. Summed(c)'
    <3>1. Summed(c) /\ (x.complete => provider[c].at = "done")
      BY <1>1 DEF OfContext, Providing
    <3>2. InPut(c) \in {0, 1} /\ (provider[c].at = "done" => InPut(c) = 0)
      BY DEF InPut, EnumInv, Typed, ProviderRecord
    <3>3. InPut(c)' = InPut(c)
      BY <1>6 DEF InPut
    <3>4. x.complete => provider'[c].at = "done"
      BY <1>6, <3>1
    <3>5. y.ended = "complete" => y.closed
      BY <1>1, <1>3, <3>1 DEF Summed
    <3>6. QED
      BY <1>1, <1>3, <1>5, <1>4, <3>1, <3>2, <3>3, <3>4, <3>5 DEF Summed
  <2>9. Bounded(c)'
    <3>1. Bounded(c) /\ Summed(c)
      BY <1>1 DEF OfContext
    <3>2. InPut(c) \in {0, 1}
      BY DEF InPut, EnumInv, Typed, ProviderRecord
    <3>3. CacheLimit \in Nat
      BY EnumerationAssumption
    <3>4. QED
      BY <1>1, <1>3, <1>5, <1>6, <1>4, <2>1, <3>1, <3>2, <3>3 DEF Bounded, Summed
  <2>10. QED
    BY <2>1, <2>3, <2>4, <2>5, <2>6, <2>7, <2>8, <2>9 DEF OfContext
<1>13. QED
  BY <1>9, <1>10, <1>11, <1>12 DEF EnumInv

\* The request is saved until a response or a time-out comes.
LEMMA IssueLaterStep ==
    ASSUME EnumInv, FoundFresh, NEW k \in Clients, NEW c \in Contexts, IssueLater(k, c)
    PROVE  EnumInv'
<1> DEFINE x == ctx[c]
           y == ctx'[c]
<1>1. /\ At(k, "issue", c) /\ c \notin locked
      /\ x.processing /\ ~x.closed /\ x.timer = "off" /\ x.saved = NoClient
      /\ c \notin Cleaned /\ c \notin timeout.active
      /\ c \notin GivenUp /\ c \notin overtaken /\ ~GivingUp(c)
      /\ OfContext(c) /\ provider[c].at # "none" /\ c \in table
      /\ \A j \in Clients : j # NoClient
      /\ x.cache = 0
  <2>1. /\ At(k, "issue", c) /\ c \notin locked
        /\ x.processing /\ ~x.closed /\ x.timer = "off" /\ x.saved = NoClient
        /\ c \notin Cleaned
        /\ OfContext(c) /\ provider[c].at # "none" /\ c \in table
        /\ \A j \in Clients : j # NoClient
    BY EnumerationAssumption
    DEF IssueLater, EnumInv, OfContext, Serving, Unborn, Known, CanLock, At, NoClient
  <2>2. x.cache = 0
    BY MemberTypes DEF IssueLater, HasResponse, EnumInv, Typed
  <2>3. QED
    BY <2>1, <2>2, NotGivenUp, GivingUpWhen
<1>2. /\ client[k].count \in Counts \cup {0} /\ ctx \in [Contexts -> Context]
      /\ x \in Context
  BY DEF EnumInv, Typed, ClientRecord
<1>3. /\ ctx' = [ctx EXCEPT ![c] = y] /\ y \in Context
      /\ y.saved = k /\ y.timer = "on"
      /\ y.closed = x.closed /\ y.complete = x.complete /\ y.processing = x.processing
      /\ y.cache = x.cache /\ y.empties = x.empties /\ y.zeroPulls = x.zeroPulls
      /\ y.produced = x.produced /\ y.delivered = x.delivered /\ y.ended = x.ended
      /\ y.requests = x.requests
  BY <1>2 DEF IssueLater, Context
<1> HIDE DEF y
<1>4. /\ client' \in [Clients -> ClientRecord]
      /\ client'[k].at = "waiting" /\ client'[k].on = {c}
      /\ \A j \in Clients \ {k} : client'[j] = client[j]
  BY <1>1, ClientMoves DEF IssueLater, EnumInv, ClientSteps, At
<1>5. /\ timeout' \in TimeoutRecord
      /\ TimerStill
      /\ timeout'.at \in {timeout.at, "sleep"}
      /\ timeout'.at # timeout.at => timeout.at = "stopped"
      /\ UNCHANGED <<table, freed, locked, tableLock, provider>>
  BY TimerStarted DEF IssueLater, EnumInv, lockVars
<1>6. Typed'
  BY <1>2, <1>3, <1>4, <1>5 DEF EnumInv, Typed
<1>7. TableLocked' /\ Rounds'
  BY <1>1, <1>4, <1>5 DEF EnumInv, TableLocked, Rounds, At
<1>8. ASSUME NEW d \in Contexts, d # c PROVE OfContext(d)'
  <2>1. Still(d)
    BY <1>1, <1>3, <1>4, <1>5, <1>8 DEF Still, At
  <2>2. QED
    BY <2>1, <1>8, Untouched DEF EnumInv
<1>9. OfContext(c)'
  <2>1. ctx'[c] = y
    BY <1>2, <1>3
  <2>2. Looking(c)' /\ (Found(c)' # {} => Found(c) # {} /\ ctx'[c] = ctx[c])
    BY <1>4, <1>5, StillLooking DEF EnumInv, OfContext
  <2>3. Unborn(c)' /\ Known(c)'
    BY <1>1, <1>3, <1>5, <2>1 DEF OfContext, Unborn, Known
  <2>4. Serving(c)'
    <3>1. \A j \in Clients : ~At(j, "issue", c)'
      BY <1>1, <1>4 DEF OfContext, Serving, At
    <3>2. \A j \in Clients : j # k => ~At(j, "waiting", c)'
      BY <1>1, <1>4 DEF OfContext, Serving, At
    <3>3. At(k, "waiting", c)'
      BY <1>4 DEF At
    <3>4. QED
      BY <1>1, <1>3, <2>1, <3>1, <3>2, <3>3 DEF Serving
  <2>5. Cleaning(c)' /\ Removing(c)' /\ Providing(c)'
    BY <1>1, <1>3, <1>4, <1>5, <2>1
    DEF OfContext, Cleaning, Removing, Providing, Releases, At
  <2>6. Summed(c)' /\ Bounded(c)'
    BY <1>1, <1>3, <1>5, <2>1, <2>2 DEF OfContext, Summed, Bounded, InPut
  <2>7. QED
    BY <2>2, <2>3, <2>4, <2>5, <2>6 DEF OfContext
<1>10. QED
  BY <1>6, <1>7, <1>8, <1>9 DEF EnumInv

\* releaseContext: the lock of the context is given up for that of the table.
LEMMA ReleaseStep ==
    ASSUME EnumInv, FoundFresh, NEW k \in Clients, NEW c \in Contexts,
           At(k, "release", c), Unlocks(c), Goto(k, "remove"),
           UNCHANGED <<table, freed, ctx, provider, timeout, overtaken>>
    PROVE  EnumInv'
<1>1. /\ OfContext(c) /\ ~tableLock /\ c \in locked
      /\ ctx[c].closed /\ ctx[c].complete /\ provider[c].at = "done" /\ c \notin Expiring
      /\ c \notin Cleaned /\ c \notin timeout.active /\ c \notin timeout.remove
      /\ c \notin GivenUp /\ c \notin overtaken /\ ~GivingUp(c)
      /\ \A j \in Clients : Releases(j, c) => j = k
  <2>1. Releases(k, c) /\ c \notin Cleaned /\ OfContext(c)
    BY DEF EnumInv, OfContext, Cleaning, Releases
  <2>2. QED
    BY <2>1, NotGivenUp, GivingUpWhen DEF Unlocks, OfContext, Removing
<1>2. /\ client' \in [Clients -> ClientRecord]
      /\ client'[k].at = "remove" /\ client'[k].on = {c}
      /\ \A j \in Clients \ {k} : client'[j] = client[j]
  BY ClientMoves DEF EnumInv, ClientSteps, At
<1>3. /\ tableLock' = TRUE /\ locked' = locked \ {c}
      /\ UNCHANGED <<table, freed, ctx, provider, timeout, overtaken>>
      /\ TimerStill
  BY TimerUnmoved DEF Unlocks
<1>4. Typed'
  BY <1>2, <1>3 DEF EnumInv, Typed
<1>5. TableLocked' /\ Rounds'
  BY <1>1, <1>2, <1>3 DEF EnumInv, TableLocked, Rounds
<1>6. ASSUME NEW d \in Contexts, d # c PROVE OfContext(d)'
  <2>1. Still(d)
    BY <1>2, <1>3, <1>6 DEF Still, At
  <2>2. QED
    BY <2>1, <1>6, Untouched DEF EnumInv
<1>7. OfContext(c)'
  <2>1. Looking(c)' /\ (Found(c)' # {} => Found(c) # {} /\ ctx'[c] = ctx[c])
    BY <1>2, <1>3, StillLooking DEF EnumInv, OfContext
  <2>2. Unborn(c)' /\ Known(c)' /\ Serving(c)'
    BY <1>1, <1>2, <1>3 DEF OfContext, Unborn, Known, Serving, At
  <2>3. Cleaning(c)' /\ Removing(c)' /\ Providing(c)'
    <3>1. Cleaning(c)'
      BY <1>1, <1>3 DEF Cleaning
    <3>2. Removing(c)'
      BY <1>1, <1>2, <1>3 DEF OfContext, Removing, Releases, At
    <3>3. Providing(c)'
      BY <1>1, <1>3 DEF OfContext, Providing, Calm
    <3>4. QED
      BY <3>1, <3>2, <3>3
  <2>4. Summed(c)' /\ Bounded(c)'
    BY <1>1, <1>3, <2>1 DEF OfContext, Summed, Bounded, InPut
  <2>5. QED
    BY <2>1, <2>2, <2>3, <2>4 DEF OfContext
<1>8. QED
  BY <1>4, <1>5, <1>6, <1>7 DEF EnumInv

\* _removeContext after it.
LEMMA RemoveStep ==
    ASSUME EnumInv, FoundFresh, NEW k \in Clients, NEW c \in Contexts,
           At(k, "remove", c), Removes(c), client' = [client EXCEPT ![k] = Idle],
           tableLock' = FALSE, UNCHANGED <<locked, ctx, provider, timeout, overtaken>>
    PROVE  EnumInv'
<1>1. /\ OfContext(c) /\ c \in table
      /\ ctx[c].closed /\ ctx[c].complete /\ provider[c].at = "done" /\ c \notin Expiring
      /\ c \notin Cleaned /\ c \notin timeout.active
      /\ c \notin GivenUp /\ c \notin overtaken /\ ~GivingUp(c)
      /\ \A j \in Clients : Releases(j, c) => j = k
      /\ timeout.at \notin {"remove", "delete"} /\ client[k].at = "remove"
  <2>1. Releases(k, c) /\ c \notin Cleaned /\ OfContext(c)
    BY DEF EnumInv, OfContext, Cleaning, Releases
  <2>2. QED
    BY <2>1, NotGivenUp, GivingUpWhen DEF EnumInv, OfContext, Removing, TableLocked, At
<1>2. /\ client' \in [Clients -> ClientRecord]
      /\ client'[k].at = "idle" /\ client'[k].on = {}
      /\ \A j \in Clients \ {k} : client'[j] = client[j]
  BY ClientLeaves DEF EnumInv
<1>3. /\ table' = table \ {c} /\ freed' = freed \cup {c}
      /\ tableLock' = FALSE
      /\ UNCHANGED <<locked, ctx, provider, timeout, overtaken>>
      /\ TimerStill
  BY <1>1, TimerUnmoved DEF Removes, Removed
<1>4. Typed'
  BY <1>2, <1>3 DEF EnumInv, Typed
<1>5. TableLocked' /\ Rounds'
  BY <1>1, <1>2, <1>3 DEF EnumInv, TableLocked, Rounds
<1>6. ASSUME NEW d \in Contexts, d # c PROVE OfContext(d)'
  <2>1. Still(d)
    BY <1>2, <1>3, <1>6 DEF Still, At
  <2>2. QED
    BY <2>1, <1>6, Untouched DEF EnumInv
<1>7. OfContext(c)'
  <2>1. Looking(c)' /\ (Found(c)' # {} => Found(c) # {} /\ ctx'[c] = ctx[c])
    BY <1>1, <1>2, <1>3, StillLooking DEF EnumInv, OfContext
  <2>2. Unborn(c)' /\ Known(c)' /\ Serving(c)'
    BY <1>1, <1>2, <1>3 DEF OfContext, Unborn, Known, Serving, At
  <2>3. Cleaning(c)' /\ Removing(c)' /\ Providing(c)'
    BY <1>1, <1>2, <1>3
    DEF OfContext, Cleaning, Removing, Providing, Calm, Releases, At
  <2>4. Summed(c)' /\ Bounded(c)'
    BY <1>1, <1>3, <2>1 DEF OfContext, Summed, Bounded, InPut
  <2>5. QED
    BY <2>1, <2>2, <2>3, <2>4 DEF OfContext
<1>8. QED
  BY <1>4, <1>5, <1>6, <1>7 DEF EnumInv

\* The lookup of a request: it is the only one that waits for the context.
LEMMA FindStep ==
    ASSUME EnumInv, FoundFresh, NEW k \in Clients, NEW c \in Contexts,
           NEW kind \in {"pull", "close", "wrongpull"}, NEW n \in Counts \cup {0},
           Find(k, c, kind, n), kind = "wrongpull" => ~ctx[c].processing
    PROVE  EnumInv'
<1> DEFINE x == ctx[c]
           y == ctx'[c]
<1>1. /\ client[k].at = "idle" /\ x.requests < MaxRequests
      /\ c \in table /\ ~x.closed /\ OfContext(c) /\ provider[c].at # "none"
      /\ ctx \in [Contexts -> Context] /\ x \in Context
      /\ x.requests \in Nat /\ x.zeroPulls \in Nat
  BY MemberTypes DEF Find, EnumInv, OfContext, Unborn, Typed
<1>2. /\ ctx' = [ctx EXCEPT ![c] = y] /\ y \in Context
      /\ y.requests = x.requests + 1 /\ y.timer = x.timer /\ y.saved = x.saved
      /\ y.closed = x.closed /\ y.complete = x.complete /\ y.processing = x.processing
      /\ y.cache = x.cache /\ y.empties = x.empties /\ y.zeroPulls = x.zeroPulls
      /\ y.produced = x.produced /\ y.delivered = x.delivered /\ y.ended = x.ended
  <2>1. ctx' = [ctx EXCEPT ![c].requests = @ + 1]
    BY DEF Find
  <2>2. QED
    BY <1>1, <2>1 DEF Context
<1> HIDE DEF y
<1>3. /\ client' \in [Clients -> ClientRecord]
      /\ client'[k].at = kind /\ client'[k].on = {c}
      /\ \A j \in Clients \ {k} : client'[j] = client[j]
      /\ UNCHANGED <<table, freed, locked, tableLock, provider, timeout, overtaken>>
      /\ TimerStill
  BY TimerUnmoved DEF Find, EnumInv, Typed, ClientRecord, ClientSteps, lockVars
<1>4. Typed'
  BY <1>1, <1>2, <1>3 DEF EnumInv, Typed
<1>5. TableLocked' /\ Rounds'
  BY <1>1, <1>3 DEF EnumInv, TableLocked, Rounds
<1>6. ASSUME NEW d \in Contexts, d # c PROVE OfContext(d)'
  <2>1. Still(d)
    BY <1>1, <1>2, <1>3, <1>6 DEF Still
  <2>2. QED
    BY <2>1, <1>6, Untouched DEF EnumInv
<1>7. OfContext(c)'
  <2>1. ctx'[c] = y
    BY <1>1, <1>2
  <2>2. Found(c)' = {k}
    <3>1. k \in Found(c)' /\ Found(c)' \subseteq Clients
      BY <1>3 DEF Found, At
    <3>2. Cardinality(Found(c)') = 1 /\ IsFiniteSet(Found(c)')
      BY <3>1, FS_Subset, EnumerationAssumption DEF FoundFresh
    <3>3. PICK j : Found(c)' = {j}
      BY <3>2, FS_Singleton
    <3>4. QED
      BY <3>1, <3>3
  <2>3. Looking(c)'
    BY <1>1, <1>2, <1>3, <2>1, <2>2 DEF FoundFresh, Looking, At
  <2>4. Unborn(c)' /\ Known(c)' /\ Serving(c)'
    BY <1>1, <1>2, <1>3, <2>1 DEF OfContext, Unborn, Known, Serving, At
  <2>5. Cleaning(c)' /\ Removing(c)' /\ Providing(c)'
    BY <1>1, <1>2, <1>3, <2>1
    DEF OfContext, Cleaning, Removing, Providing, Calm, Releases, At
  <2>6. Summed(c)'
    BY <1>1, <1>2, <1>3, <2>1 DEF OfContext, Summed, InPut
  <2>7. Bounded(c)'
    BY <1>1, <1>2, <1>3, <2>1, EnumerationAssumption DEF OfContext, Bounded
  <2>8. QED
    BY <2>3, <2>4, <2>5, <2>6, <2>7 DEF OfContext
<1>8. QED
  BY <1>4, <1>5, <1>6, <1>7 DEF EnumInv

\* A request that is rejected has left the context as it was, or closed an idle one.
LEMMA RejectStep ==
    ASSUME EnumInv, FoundFresh, NEW k \in Clients, NEW c \in Contexts, k \in Found(c),
           NEW y \in Context, Reject(k, c, y),
           y.complete = ctx[c].complete, y.saved = ctx[c].saved,
           y.empties = ctx[c].empties, y.zeroPulls = ctx[c].zeroPulls,
           y.produced = ctx[c].produced, y.delivered = ctx[c].delivered,
           y.requests = ctx[c].requests, y.timer \in {ctx[c].timer, "off"},
           y.ended \in {ctx[c].ended, "timedout"},
           IF y.closed THEN ~ctx[c].processing /\ y.cache = 0 /\ ~y.processing
           ELSE y.cache = ctx[c].cache /\ y.processing = ctx[c].processing
    PROVE  EnumInv'
<1> DEFINE x == ctx[c]
<1>1. /\ OfContext(c) /\ ~x.closed /\ c \in table /\ c \notin locked
      /\ x.saved # NoClient => x.processing
      /\ provider[c].at # "none" /\ c \notin Cleaned /\ c \notin timeout.active
      /\ c \notin GivenUp /\ c \notin overtaken /\ ~GivingUp(c)
      /\ \A j \in Found(c) : j = k
  <2>1. /\ OfContext(c) /\ ~x.closed /\ c \in table /\ c \notin locked
        /\ x.saved # NoClient => x.processing
        /\ provider[c].at # "none" /\ c \notin Cleaned
        /\ \A j \in Found(c) : j = k
    BY DEF EnumInv, OfContext, Looking, Serving, Unborn, Cleaning
  <2>2. QED
    BY <2>1, NotGivenUp, GivingUpWhen
<1>2. /\ client' \in [Clients -> ClientRecord]
      /\ client'[k].at = "idle" /\ client'[k].on = {}
      /\ \A j \in Clients \ {k} : client'[j] = client[j]
  BY ClientLeaves DEF EnumInv, Reject
<1>3. /\ provider' \in [Contexts -> ProviderRecord]
      /\ provider'[c].at \in {provider[c].at, "check"}
      /\ provider'[c].at # provider[c].at => provider[c].at = "asleep"
      /\ y.closed => provider'[c].at # "asleep"
      /\ ~y.closed => provider'[c].at = provider[c].at
      /\ provider'[c].objects = provider[c].objects
      /\ \A d \in Contexts \ {c} : provider'[d] = provider[d]
  <2>1. provider[c].at = "asleep" => ~x.complete
    BY <1>1 DEF OfContext, Providing
  <2>2. Signal(c, y.closed /\ ~y.complete)
    BY DEF Reject
  <2>3. ~y.closed => provider' = [provider EXCEPT ![c].at = provider[c].at]
    BY <2>2 DEF Signal, Woken
  <2>4. ~y.closed => provider'[c].at = provider[c].at
    BY <2>3 DEF EnumInv, Typed, ProviderRecord
  <2>5. QED
    BY <2>1, <2>2, <2>4, Signalled DEF EnumInv
<1>4. /\ ctx' \in [Contexts -> Context]
      /\ ctx'[c] = y /\ \A d \in Contexts \ {c} : ctx'[d] = ctx[d]
      /\ UNCHANGED <<table, freed, locked, tableLock, timeout, overtaken>>
      /\ TimerStill
  BY TimerUnmoved DEF EnumInv, Typed, Reject, lockVars
<1>5. Typed'
  BY <1>2, <1>3, <1>4 DEF EnumInv, Typed
<1>6. At(k, "pull", c) \/ At(k, "close", c) \/ At(k, "wrongpull", c)
  BY DEF Found
<1>7. TableLocked' /\ Rounds'
  BY <1>2, <1>3, <1>4 DEF EnumInv, TableLocked, Rounds
<1>8. ASSUME NEW d \in Contexts, d # c PROVE OfContext(d)'
  <2>1. Still(d)
    BY <1>2, <1>3, <1>4, <1>6, <1>8 DEF Still, At
  <2>2. QED
    BY <2>1, <1>8, Untouched DEF EnumInv
<1>9. OfContext(c)'
  <2>1. Looking(c)' /\ Found(c)' = {}
    BY <1>1, <1>2 DEF Looking, Found, At
  <2>2. Unborn(c)' /\ Known(c)'
    BY <1>1, <1>3, <1>4 DEF OfContext, Unborn, Known
  <2>3. Serving(c)'
    BY <1>1, <1>2, <1>4, <1>6 DEF OfContext, Serving, At
  <2>4. Cleaning(c)' /\ Removing(c)' /\ Providing(c)'
    <3>1. Cleaning(c)'
      BY <1>1, <1>4 DEF Cleaning
    <3>2. Removing(c)'
      BY <1>1, <1>2, <1>3, <1>4 DEF OfContext, Removing, Releases, At
    <3>3. Providing(c)'
      <4>1. /\ x.empties \in Nat /\ y.closed \in BOOLEAN /\ x.closed \in BOOLEAN
            /\ y.closed \/ y.cache = x.cache
        BY MemberTypes DEF EnumInv, Typed
      <4>2. Calm(c) => Calm(c)'
        BY <1>4 DEF Calm
      <4>3. Providing(c)
        BY <1>1 DEF OfContext
      <4>4. provider'[c].at # provider[c].at => x.empties <= 1 /\ y.closed
        BY <1>3, <4>1, <4>3 DEF Providing
      <4>5. ctx'[c] = y /\ y.empties = x.empties /\ y.complete = x.complete
        BY <1>4
      <4>6. /\ y.complete /\ c \in table' =>
                  provider'[c].at \in {"done", "release", "remove"}
            /\ y.complete /\ ~y.closed => provider'[c].at = "done"
        BY <1>1, <1>3, <1>4, <4>1, <4>3 DEF Providing
      <4>7. provider'[c].at = "put" =>
                 y.empties = 0 \/ (y.empties <= 1 /\ Calm(c)')
        BY <1>1, <1>3, <4>2, <4>3, <4>5 DEF Providing
      <4>8. provider'[c].at = "check" =>
               /\ y.empties <= 2 /\ (y.empties <= 1 \/ (y.closed /\ Calm(c)'))
               /\ y.closed \/ y.empties = 0 \/ Calm(c)'
        BY <1>1, <1>3, <4>1, <4>2, <4>3, <4>4, <4>5 DEF Providing
      <4>9. provider'[c].at = "asleep" =>
               ~y.closed /\ y.cache > CacheLimit /\ y.empties <= 1
        BY <1>1, <1>3, <4>1, <4>3, <4>5 DEF Providing
      <4>10. QED
        BY <1>1, <1>4, <4>5, <4>6, <4>7, <4>8, <4>9 DEF Providing
    <3>4. QED
      BY <3>1, <3>2, <3>3
  <2>5. Summed(c)'
    BY <1>1, <1>3, <1>4 DEF OfContext, Summed, InPut
  <2>6. Bounded(c)'
    <3>1. x.cache \in Nat /\ x.produced \in Nat /\ CacheLimit \in Nat
      BY MemberTypes, EnumerationAssumption DEF EnumInv, Typed
    <3>2. QED
      BY <1>1, <1>3, <1>4, <2>1, <3>1 DEF OfContext, Bounded
  <2>7. QED
    BY <2>1, <2>2, <2>3, <2>4, <2>5, <2>6 DEF OfContext
<1>10. QED
  BY <1>5, <1>7, <1>8, <1>9 DEF EnumInv

\* The four ways to be rejected.
LEMMA RejectedStep ==
    ASSUME EnumInv, FoundFresh, NEW k \in Clients, NEW c \in Contexts,
           \/ PullOfWrongType(k, c) \/ PullWhileProcessing(k, c) \/ PullTimedOut(k, c)
           \/ CloseRejected(k, c)
    PROVE  EnumInv'
<1> DEFINE x == ctx[c]
<1>1. k \in Found(c) /\ x \in Context
  BY DEF Found, PullOfWrongType, PullWhileProcessing, PullTimedOut, CloseRejected, EnumInv,
         Typed
<1>2. ~x.closed /\ x.closed \in BOOLEAN
  BY <1>1, MemberTypes DEF EnumInv, OfContext, Looking
<1>3. CASE PullOfWrongType(k, c)
  <2>1. ~x.processing /\ Reject(k, c, Closed(x))
    BY <1>1, <1>3 DEF PullOfWrongType, EnumInv, OfContext, Looking
  <2>2. QED
    BY <1>1, <2>1, ClosedMembers, RejectStep
<1>4. CASE PullWhileProcessing(k, c)
  <2>1. Reject(k, c, x)
    BY <1>4 DEF PullWhileProcessing
  <2>2. QED
    BY <1>1, <1>2, <2>1, RejectStep
<1>5. CASE PullTimedOut(k, c)
  <2> DEFINE v == TimerCleared(x)
             w == Closed(v)
             y == [w EXCEPT !.ended = "timedout"]
  <2>1. ~x.processing /\ Reject(k, c, y)
    BY <1>5 DEF PullTimedOut
  <2>2. /\ v \in Context /\ v.complete = x.complete /\ v.saved = x.saved
        /\ v.empties = x.empties /\ v.zeroPulls = x.zeroPulls
        /\ v.produced = x.produced /\ v.delivered = x.delivered
        /\ v.requests = x.requests /\ v.timer \in {x.timer, "off"}
    BY <1>1, TimerMembers
  <2> HIDE DEF v
  <2>3. /\ w \in Context /\ w.complete = v.complete /\ w.saved = v.saved
        /\ w.empties = v.empties /\ w.zeroPulls = v.zeroPulls
        /\ w.produced = v.produced /\ w.delivered = v.delivered
        /\ w.requests = v.requests /\ w.timer = v.timer
        /\ w.closed = TRUE /\ w.cache = 0 /\ w.processing = FALSE
    BY <2>2, ClosedMembers
  <2> HIDE DEF w
  <2>4. /\ y \in Context /\ y.complete = w.complete /\ y.saved = w.saved
        /\ y.empties = w.empties /\ y.zeroPulls = w.zeroPulls
        /\ y.produced = w.produced /\ y.delivered = w.delivered
        /\ y.requests = w.requests /\ y.timer = w.timer
        /\ y.closed = TRUE /\ y.cache = 0 /\ y.processing = FALSE /\ y.ended = "timedout"
    BY <2>3 DEF Context
  <2> HIDE DEF y
  <2>5. QED
    BY <1>1, <2>1, <2>2, <2>3, <2>4, RejectStep
<1>6. CASE CloseRejected(k, c)
  <2>1. Reject(k, c, TimerCleared(x))
    BY <1>6 DEF CloseRejected
  <2>2. QED
    BY <1>1, <1>2, <2>1, TimerMembers, RejectStep
<1>7. QED
  BY <1>3, <1>4, <1>5, <1>6

\* A pull request that is accepted is the only one being processed.
LEMMA PullAcceptedStep ==
    ASSUME EnumInv, FoundFresh, NEW k \in Clients, NEW c \in Contexts, PullAccepted(k, c)
    PROVE  EnumInv'
<1> DEFINE x == ctx[c]
           y == ctx'[c]
           zeros == IF client[k].count = 0 THEN x.zeroPulls + 1 ELSE 0
           broken == x.error \/ zeros > ZeroPullLimit
<1>1. /\ At(k, "pull", c) /\ c \notin locked /\ ~x.processing /\ k \in Found(c)
      /\ x \in Context
  BY DEF PullAccepted, CanLock, Found, EnumInv, Typed
<1>2. /\ OfContext(c) /\ ~x.closed /\ c \in table
      /\ x.saved = NoClient
      /\ provider[c].at # "none" /\ c \notin Cleaned /\ c \notin timeout.active
      /\ c \notin GivenUp /\ c \notin overtaken /\ ~GivingUp(c)
      /\ \A j \in Found(c) : j = k
      /\ x.zeroPulls < x.requests
      /\ \A j \in Clients : ~At(j, "issue", c)
  <2>1. /\ OfContext(c) /\ ~x.closed /\ c \in table
        /\ x.saved = NoClient
        /\ provider[c].at # "none" /\ c \notin Cleaned
        /\ \A j \in Found(c) : j = k
        /\ x.zeroPulls < x.requests
        /\ \A j \in Clients : ~At(j, "issue", c)
    BY <1>1 DEF EnumInv, OfContext, Looking, Serving, Unborn, Cleaning, Bounded
  <2>2. QED
    BY <2>1, NotGivenUp, GivingUpWhen
<1>3. x.zeroPulls \in Nat /\ x.requests \in Nat /\ zeros \in Nat /\ zeros <= x.requests
  BY <1>1, <1>2, MemberTypes
<1>4. ctx' = [ctx EXCEPT ![c] = [x EXCEPT !.processing = TRUE, !.timer = "off",
                                          !.zeroPulls = zeros, !.error = broken]]
  BY <1>1 DEF PullAccepted, Context
<1>5. broken \in BOOLEAN
  BY <1>1 DEF Context
<1> HIDE DEF broken
<1>6. /\ ctx' \in [Contexts -> Context] /\ \A d \in Contexts \ {c} : ctx'[d] = ctx[d]
      /\ y \in Context /\ y.processing = TRUE /\ y.timer = "off" /\ y.zeroPulls = zeros
      /\ y.closed = x.closed /\ y.complete = x.complete /\ y.saved = x.saved
      /\ y.cache = x.cache /\ y.empties = x.empties /\ y.requests = x.requests
      /\ y.produced = x.produced /\ y.delivered = x.delivered /\ y.ended = x.ended
  <2> HIDE DEF zeros
  <2> DEFINE w == [x EXCEPT !.processing = TRUE, !.timer = "off",
                            !.zeroPulls = zeros, !.error = broken]
  <2>1. /\ w \in Context /\ w.processing = TRUE /\ w.timer = "off" /\ w.zeroPulls = zeros
        /\ w.closed = x.closed /\ w.complete = x.complete /\ w.saved = x.saved
        /\ w.cache = x.cache /\ w.empties = x.empties /\ w.requests = x.requests
        /\ w.produced = x.produced /\ w.delivered = x.delivered /\ w.ended = x.ended
    BY <1>1, <1>3, <1>5 DEF Context
  <2>2. ctx' = [ctx EXCEPT ![c] = w]
    BY <1>4
  <2> HIDE DEF w
  <2>3. QED
    BY <2>1, <2>2 DEF EnumInv, Typed
<1> HIDE DEF y, zeros
<1>7. /\ client' \in [Clients -> ClientRecord]
      /\ client'[k].at = "issue" /\ client'[k].on = {c}
      /\ \A j \in Clients \ {k} : client'[j] = client[j]
      /\ UNCHANGED <<table, freed, locked, tableLock, provider, timeout, overtaken>>
      /\ TimerStill
  BY <1>1, ClientMoves, TimerUnmoved DEF PullAccepted, EnumInv, ClientSteps, At, lockVars
<1>8. Typed'
  BY <1>6, <1>7 DEF EnumInv, Typed
<1>9. TableLocked' /\ Rounds'
  BY <1>1, <1>7 DEF EnumInv, TableLocked, Rounds
<1>10. ASSUME NEW d \in Contexts, d # c PROVE OfContext(d)'
  <2>1. Still(d)
    BY <1>1, <1>6, <1>7, <1>10 DEF Still, At
  <2>2. QED
    BY <2>1, <1>10, Untouched DEF EnumInv
<1>11. OfContext(c)'
  <2>1. ctx'[c] = y
    BY DEF y
  <2>2. Looking(c)' /\ Found(c)' = {}
    BY <1>2, <1>7 DEF Looking, Found, At
  <2>3. Unborn(c)' /\ Known(c)'
    BY <1>2, <1>6, <1>7, <2>1 DEF OfContext, Unborn, Known
  <2>4. Serving(c)'
    BY <1>1, <1>2, <1>6, <1>7, <2>1 DEF OfContext, Serving, At
  <2>5. Cleaning(c)' /\ Removing(c)' /\ Providing(c)'
    BY <1>1, <1>2, <1>6, <1>7, <2>1
    DEF OfContext, Cleaning, Removing, Providing, Calm, Releases, At
  <2>6. Summed(c)'
    BY <1>6, <1>7, <1>2, <2>1 DEF OfContext, Summed, InPut
  <2>7. Bounded(c)'
    BY <1>2, <1>3, <1>6, <1>7, <2>1, <2>2 DEF OfContext, Bounded
  <2>8. QED
    BY <2>2, <2>3, <2>4, <2>5, <2>6, <2>7 DEF OfContext
<1>12. QED
  BY <1>8, <1>9, <1>10, <1>11 DEF EnumInv

\* A close request that is accepted removes the context when the providers are
\* complete; otherwise their last response does.
LEMMA CloseAcceptedStep ==
    ASSUME EnumInv, FoundFresh, NEW k \in Clients, NEW c \in Contexts, CloseAccepted(k, c)
    PROVE  EnumInv'
<1> DEFINE x == ctx[c]
           v == [x EXCEPT !.timer = "off"]
           y == Closed(v)
<1>1. /\ At(k, "close", c) /\ c \notin locked /\ ~x.processing /\ k \in Found(c)
      /\ x \in Context /\ x.complete \in BOOLEAN
  BY MemberTypes DEF CloseAccepted, CanLock, Found, EnumInv, Typed
<1>2. /\ OfContext(c) /\ ~x.closed /\ c \in table
      /\ x.saved = NoClient
      /\ provider[c].at # "none" /\ c \notin Cleaned /\ c \notin timeout.active
      /\ c \notin GivenUp /\ c \notin overtaken /\ ~GivingUp(c)
      /\ \A j \in Found(c) : j = k
  <2>1. /\ OfContext(c) /\ ~x.closed /\ c \in table
        /\ x.saved = NoClient
        /\ provider[c].at # "none" /\ c \notin Cleaned
        /\ \A j \in Found(c) : j = k
    BY <1>1 DEF EnumInv, OfContext, Looking, Serving, Unborn, Cleaning
  <2>2. QED
    BY <2>1, NotGivenUp, GivingUpWhen
<1>3. /\ y \in Context /\ y.timer = "off" /\ y.complete = x.complete /\ y.saved = x.saved
      /\ y.empties = x.empties /\ y.zeroPulls = x.zeroPulls
      /\ y.produced = x.produced /\ y.delivered = x.delivered /\ y.requests = x.requests
      /\ y.closed = TRUE /\ y.cache = 0 /\ y.processing = FALSE /\ y.ended = x.ended
  <2>1. /\ v \in Context /\ v.timer = "off" /\ v.complete = x.complete /\ v.saved = x.saved
        /\ v.empties = x.empties /\ v.zeroPulls = x.zeroPulls /\ v.ended = x.ended
        /\ v.produced = x.produced /\ v.delivered = x.delivered /\ v.requests = x.requests
    BY <1>1 DEF Context
  <2> HIDE DEF v
  <2>2. QED
    BY <2>1, ClosedMembers
<1>4. /\ ctx'[c] = y /\ \A d \in Contexts \ {c} : ctx'[d] = ctx[d]
      /\ ctx' \in [Contexts -> Context]
      /\ locked' = IF x.complete THEN locked \cup {c} ELSE locked
      /\ UNCHANGED <<table, freed, tableLock, timeout, overtaken>>
      /\ TimerStill
  <2>1. ctx' = [ctx EXCEPT ![c] = y]
    BY DEF CloseAccepted
  <2> HIDE DEF y
  <2>2. QED
    BY <1>3, <2>1, TimerUnmoved DEF CloseAccepted, EnumInv, Typed
<1> HIDE DEF y
<1>5. /\ provider' \in [Contexts -> ProviderRecord]
      /\ provider'[c].at \in {provider[c].at, "check"}
      /\ provider'[c].at # provider[c].at => provider[c].at = "asleep"
      /\ provider'[c].at # "asleep"
      /\ provider'[c].objects = provider[c].objects
      /\ \A d \in Contexts \ {c} : provider'[d] = provider[d]
  <2>1. provider[c].at = "asleep" => ~x.complete
    BY <1>2 DEF OfContext, Providing
  <2>2. QED
    BY <2>1, Signalled DEF EnumInv, CloseAccepted
<1>6. /\ client' \in [Clients -> ClientRecord]
      /\ client'[k].at = (IF x.complete THEN "release" ELSE "idle")
      /\ x.complete => client'[k].on = {c}
      /\ ~x.complete => client'[k].on = {}
      /\ \A j \in Clients \ {k} : client'[j] = client[j]
  BY <1>1, ClientMoves, ClientLeaves DEF CloseAccepted, EnumInv, ClientSteps, At
<1>7. Typed'
  BY <1>4, <1>5, <1>6 DEF EnumInv, Typed
<1>8. TableLocked' /\ Rounds'
  BY <1>1, <1>4, <1>5, <1>6 DEF EnumInv, TableLocked, Rounds
<1>9. ASSUME NEW d \in Contexts, d # c PROVE OfContext(d)'
  <2>1. Still(d)
    BY <1>1, <1>4, <1>5, <1>6, <1>9 DEF Still, At
  <2>2. QED
    BY <2>1, <1>9, Untouched DEF EnumInv
<1>10. OfContext(c)'
  <2>1. Looking(c)' /\ Found(c)' = {}
    BY <1>2, <1>6 DEF Looking, Found, At
  <2>2. Unborn(c)' /\ Known(c)'
    BY <1>2, <1>4, <1>5 DEF OfContext, Unborn, Known
  <2>3. Serving(c)'
    BY <1>1, <1>2, <1>3, <1>4, <1>6 DEF OfContext, Serving, At
  <2>4. Cleaning(c)' /\ Providing(c)'
    <3>1. Cleaning(c)'
      BY <1>2, <1>4 DEF Cleaning
    <3>2. Calm(c)'
      BY <1>2, <1>3, <1>4 DEF Calm
    <3>3. x.empties \in Nat
      BY <1>1, MemberTypes
    <3>4. Providing(c)'
      BY <1>2, <1>3, <1>4, <1>5, <3>2, <3>3 DEF OfContext, Providing
    <3>5. QED
      BY <3>1, <3>4
  <2>5. Removing(c)'
    BY <1>1, <1>2, <1>3, <1>4, <1>5, <1>6
    DEF OfContext, Removing, Providing, Releases, At
  <2>6. Summed(c)'
    BY <1>2, <1>3, <1>4, <1>5 DEF OfContext, Summed, InPut
  <2>7. Bounded(c)'
    <3>1. CacheLimit \in Nat
      BY EnumerationAssumption
    <3>2. QED
      BY <1>2, <1>3, <1>4, <1>5, <2>1, <3>1 DEF OfContext, Bounded
  <2>8. QED
    BY <2>1, <2>2, <2>3, <2>4, <2>5, <2>6, <2>7 DEF OfContext
<1>11. QED
  BY <1>7, <1>8, <1>9, <1>10 DEF EnumInv

-----------------------------------------------------------------------------
\* The providers.

\* A response comes from providers that are not complete, and the timer counts from it.
LEMMA DeliverStep ==
    ASSUME EnumInv, FoundFresh, NEW c \in Contexts, Deliver(c)
    PROVE  EnumInv'
<1> DEFINE x == ctx[c]
<1>1. /\ OfContext(c) /\ provider[c].at = "running" /\ c \in table
      /\ x.ended # "complete" /\ (x.closed \/ ~x.complete)
      /\ x \in Context
  BY DEF Deliver, EnumInv, Typed, OfContext, Known, Providing, Summed
<1>2. PICK n \in {0, 1}, last \in BOOLEAN, failed \in BOOLEAN :
        /\ n = 1 => x.produced < MaxObjects
        /\ ctx' = [ctx EXCEPT ![c].produced = @ + n, ![c].empties = 0,
                              ![c].error = @ \/ failed]
        /\ provider' = [provider EXCEPT ![c] = [at |-> "put", objects |-> n, last |-> last]]
  BY DEF Deliver
<1>3. /\ x.produced \in Nat /\ x.cache \in Nat /\ x.delivered \in Nat
      /\ MaxObjects \in Nat /\ FinalTargetCount \in Nat /\ FinalTargetCount > 2
  BY <1>1, MemberTypes, EnumerationAssumption
<1> DEFINE sum == x.produced + n
           broken == x.error \/ failed
           y == [x EXCEPT !.produced = sum, !.empties = 0, !.error = broken]
<1>4. ctx' = [ctx EXCEPT ![c] = y]
  BY <1>1, <1>2 DEF Context
<1>5. sum \in Nat /\ broken \in BOOLEAN
  BY <1>1, <1>3, MemberTypes
<1> HIDE DEF sum, broken
<1>6. /\ y \in Context /\ y.produced = sum /\ y.empties = 0
      /\ y.closed = x.closed /\ y.complete = x.complete /\ y.processing = x.processing
      /\ y.saved = x.saved /\ y.timer = x.timer /\ y.cache = x.cache
      /\ y.delivered = x.delivered /\ y.ended = x.ended /\ y.requests = x.requests
      /\ y.zeroPulls = x.zeroPulls
  BY <1>1, <1>5 DEF Context
<1> HIDE DEF y
<1> USE DEF sum
<1>7. /\ ctx' \in [Contexts -> Context] /\ ctx'[c] = y
      /\ \A d \in Contexts \ {c} : ctx'[d] = ctx[d] /\ provider'[d] = provider[d]
      /\ provider' \in [Contexts -> ProviderRecord]
      /\ provider'[c].at = "put" /\ provider'[c].objects = n
      /\ UNCHANGED <<table, freed, locked, tableLock, client, timeout>>
      /\ UNCHANGED <<Expiring, Counted, GivenUp, Cleaned>>
      /\ \A d \in Contexts : GivingUp(d)' <=> GivingUp(d)
      /\ overtaken' = IF GivingUp(c) THEN overtaken \cup {c} ELSE overtaken
  <2>1. /\ ctx' \in [Contexts -> Context] /\ ctx'[c] = y
        /\ \A d \in Contexts \ {c} : ctx'[d] = ctx[d]
    BY <1>4, <1>6 DEF EnumInv, Typed
  <2>2. [at |-> "put", objects |-> n, last |-> last] \in ProviderRecord
    BY DEF ProviderRecord, ProviderSteps
  <2>3. /\ provider' \in [Contexts -> ProviderRecord]
        /\ provider'[c].at = "put" /\ provider'[c].objects = n
        /\ \A d \in Contexts \ {c} : provider'[d] = provider[d]
    BY <1>2, <2>2 DEF EnumInv, Typed
  <2>4. QED
    BY <2>1, <2>3 DEF Deliver, lockVars, Expiring, Counted, GivenUp, Cleaned, GivingUp
<1>8. Typed'
  BY <1>7 DEF EnumInv, Typed
<1>9. TableLocked' /\ Rounds'
  BY <1>1, <1>7 DEF EnumInv, TableLocked, Rounds
<1>10. ASSUME NEW d \in Contexts, d # c PROVE OfContext(d)'
  <2>1. Still(d)
    BY <1>7, <1>10 DEF Still
  <2>2. QED
    BY <2>1, <1>10, Untouched DEF EnumInv
<1>11. OfContext(c)'
  <2>1. Looking(c)' /\ (Found(c)' # {} => Found(c) # {} /\ ctx'[c] = ctx[c])
    BY <1>1, <1>7, StillLooking DEF EnumInv
  <2>2. Unborn(c)' /\ Known(c)' /\ Serving(c)'
    BY <1>1, <1>6, <1>7 DEF OfContext, Unborn, Known, Serving, At
  <2>3. Cleaning(c)' /\ Removing(c)' /\ Providing(c)'
    <3>1. c \in Contexts /\ (GivingUp(c) => c \in overtaken')
      BY <1>7
    <3>2. Cleaning(c)'
      BY <1>1, <1>6, <1>7, <3>1 DEF OfContext, Cleaning, Releases, At
    <3>3. Removing(c)'
      BY <1>1, <1>6, <1>7 DEF OfContext, Removing, Releases, At
    <3>4. Providing(c)'
      BY <1>1, <1>6, <1>7, <3>1, GivingUpWhen DEF OfContext, Providing, Cleaning
    <3>5. QED
      BY <3>2, <3>3, <3>4
  <2>4. Summed(c)'
    BY <1>1, <1>3, <1>6, <1>7 DEF OfContext, Summed, InPut
  <2>5. Bounded(c)'
    BY <1>1, <1>2, <1>3, <1>6, <1>7, <2>1 DEF OfContext, Bounded
  <2>6. QED
    BY <2>1, <2>2, <2>3, <2>4, <2>5 DEF OfContext
<1>12. QED
  BY <1>8, <1>9, <1>10, <1>11 DEF EnumInv

\* What is left to a provider whose context was deleted or that looks at the cache.
LEMMA DiscardWaitStep ==
    ASSUME EnumInv, FoundFresh, NEW c \in Contexts, Discard(c) \/ WaitCacheSize(c)
    PROVE  EnumInv'
<1> DEFINE x == ctx[c]
<1>1. /\ OfContext(c) /\ provider[c].at \in {"running", "check"}
      /\ provider[c].at = "running" => c \notin table /\ c \in freed
      /\ x.closed => x.cache = 0
      /\ c \notin table => x.closed
      /\ x.complete => x.closed
  BY DEF Discard, WaitCacheSize, EnumInv, OfContext, Known, Providing, Bounded
<1>2. /\ provider' \in [Contexts -> ProviderRecord]
      /\ provider'[c].at \in {"done", "asleep", "running"}
      /\ provider'[c].at = "done" => c \in freed
      /\ provider'[c].at = "asleep" =>
            provider[c].at = "check" /\ ~x.closed /\ x.cache > CacheLimit /\ ~x.complete
      /\ provider'[c].at = "running" =>
            provider[c].at = "check" /\ (x.closed \/ x.complete \/ ~(x.cache > CacheLimit))
      /\ \A d \in Contexts \ {c} : provider'[d] = provider[d]
      /\ UNCHANGED <<ctx, table, freed, locked, tableLock, client, timeout, overtaken>>
      /\ TimerStill
  BY TimerUnmoved
  DEF Discard, WaitCacheSize, EnumInv, Typed, ProviderRecord, ProviderSteps, lockVars
<1>3. Typed'
  BY <1>2 DEF EnumInv, Typed
<1>4. TableLocked' /\ Rounds'
  BY <1>1, <1>2 DEF EnumInv, TableLocked, Rounds
<1>5. ASSUME NEW d \in Contexts, d # c PROVE OfContext(d)'
  <2>1. Still(d)
    BY <1>2, <1>5 DEF Still
  <2>2. QED
    BY <2>1, <1>5, Untouched DEF EnumInv
<1>6. OfContext(c)'
  <2>1. Looking(c)' /\ (Found(c)' # {} => Found(c) # {} /\ ctx'[c] = ctx[c])
    BY <1>1, <1>2, StillLooking DEF EnumInv
  <2>2. Unborn(c)' /\ Known(c)' /\ Serving(c)'
    BY <1>1, <1>2 DEF OfContext, Unborn, Known, Serving, At
  <2>3. Cleaning(c)' /\ Removing(c)' /\ Providing(c)'
    <3>1. provider'[c].at = "asleep" =>
             c \notin Cleaned /\ ~GivingUp(c) /\ c \notin overtaken
      <4>1. CacheLimit \in Nat
        BY EnumerationAssumption
      <4>2. provider'[c].at = "asleep" => c \notin Cleaned
        BY <1>1, <1>2, <4>1 DEF OfContext, Cleaning, Serving
      <4>3. QED
        BY <1>1, <1>2, <4>2, NotGivenUp
    <3>2. Cleaning(c)'
      BY <1>1, <1>2, <3>1 DEF OfContext, Cleaning, Releases, At
    <3>3. Removing(c)'
      BY <1>1, <1>2 DEF OfContext, Removing, Releases, At
    <3>4. x.empties \in Nat
      BY MemberTypes DEF EnumInv, Typed
    <3>5. Providing(c)'
      BY <1>1, <1>2, <3>1, <3>4 DEF OfContext, Known, Providing
    <3>6. QED
      BY <3>2, <3>3, <3>5
  <2>4. Summed(c)'
    BY <1>1, <1>2 DEF OfContext, Summed, InPut
  <2>5. Bounded(c)'
    <3>1. x.cache \in Nat /\ CacheLimit \in Nat
      BY MemberTypes, EnumerationAssumption DEF EnumInv, Typed
    <3>2. provider'[c].at = "running" => x.cache <= CacheLimit
      BY <1>1, <1>2, <3>1
    <3>3. QED
      BY <1>1, <1>2, <2>1, <3>1, <3>2 DEF OfContext, Bounded
  <2>6. QED
    BY <2>1, <2>2, <2>3, <2>4, <2>5 DEF OfContext
<1>7. QED
  BY <1>3, <1>4, <1>5, <1>6 DEF EnumInv

\* A saved request is answered by whoever has a response for it.
LEMMA AnsweredClient ==
    ASSUME EnumInv, NEW c \in Contexts, Answered(c)
    PROVE  /\ client' \in [Clients -> ClientRecord]
           /\ \A k \in Clients : ctx[c].saved = k =>
                 /\ client[k].at = "waiting" /\ client[k].on = {c}
                 /\ client'[k].at = "idle" /\ client'[k].on = {}
           /\ \A k \in Clients : ctx[c].saved # k => client'[k] = client[k]
<1>1. \A k \in Clients : client'[k] = IF ctx[c].saved = k THEN Idle ELSE client[k]
  BY DEF Answered
<1>2. Idle \in ClientRecord /\ Idle.at = "idle" /\ Idle.on = {}
  BY DEF Idle, ClientRecord, ClientSteps
<1>3. client' \in [Clients -> ClientRecord]
  BY <1>2 DEF Answered, EnumInv, Typed
<1>4. QED
  BY <1>1, <1>2, <1>3 DEF EnumInv, OfContext, Serving, At

\* What a response makes of the context.
LEMMA PutMembers ==
    ASSUME EnumInv, NEW c \in Contexts, Put(c)
    PROVE  LET x == ctx[c]
               y == ctx'[c]
               n == provider[c].objects
               last == provider[c].last
           IN  /\ ctx' \in [Contexts -> Context] /\ y \in Context
               /\ \A d \in Contexts \ {c} : ctx'[d] = ctx[d]
               /\ y.complete <=> last \/ (x.closed /\ x.complete)
               /\ y.saved # NoClient => y.cache = 0
               /\ y.empties = x.empties /\ y.zeroPulls = x.zeroPulls
               /\ y.produced = x.produced /\ y.requests = x.requests
               /\ y.timer \in {x.timer, "on"}
               /\ x.closed =>
                     /\ y.closed /\ y.cache = 0 /\ y.delivered = x.delivered
                     /\ y.ended = x.ended /\ y.processing = x.processing
                     /\ y.saved = NoClient /\ x.saved = NoClient
               /\ ~x.closed /\ y.closed =>
                     /\ y.cache = 0 /\ y.delivered <= x.delivered + x.cache + n
                     /\ y.ended = "complete" => last /\ y.delivered = x.delivered + x.cache + n
               /\ ~y.closed =>
                     /\ y.delivered + y.cache = x.delivered + x.cache + n
                     /\ y.cache <= x.cache + n /\ y.ended = x.ended
               /\ IF y.saved = x.saved
                  THEN /\ y.processing = x.processing /\ y.closed = x.closed
                       /\ y.timer = x.timer
                       /\ UNCHANGED <<client, timeout>>
                  ELSE /\ ~x.closed /\ y.saved = NoClient /\ ~y.processing
                       /\ Answered(c) /\ TimerFor(y)
<1> DEFINE x == ctx[c]
           n == provider[c].objects
           last == provider[c].last
           z == Cached(x, n, last)
           y == IF x.closed THEN [NoneSaved(z) EXCEPT !.complete = @ \/ last]
                ELSE IF x.saved # NoClient /\ HasResponse(z, x.savedCount)
                THEN NoneSaved(Issued(z, x.savedCount))
                ELSE z
<1>1. /\ OfContext(c) /\ provider[c].at = "put" /\ (~x.closed => ~x.complete)
      /\ x.closed => x.cache = 0 /\ x.saved = NoClient
      /\ n \in {0, 1} /\ last \in BOOLEAN
  BY DEF Put, EnumInv, Typed, ProviderRecord, OfContext, Providing, Bounded, Serving
<1>2. /\ x \in Context /\ x.savedCount \in Nat /\ x.closed \in BOOLEAN
      /\ x.cache \in Nat /\ x.delivered \in Nat /\ x.complete \in BOOLEAN
  BY CountTypes, MemberTypes DEF EnumInv
<1>3. /\ ctx' = [ctx EXCEPT ![c] = y]
      /\ IF ~x.closed /\ y.saved # x.saved THEN Answered(c) /\ TimerFor(y)
         ELSE UNCHANGED <<client, timeout>>
  BY DEF Put
<1>4. ASSUME ~x.closed
      PROVE  /\ z \in Context /\ z.cache = x.cache + n /\ z.complete = last
             /\ z.closed = x.closed /\ z.processing = x.processing /\ z.saved = x.saved
             /\ z.empties = x.empties /\ z.zeroPulls = x.zeroPulls /\ z.timer = x.timer
             /\ z.produced = x.produced /\ z.delivered = x.delivered /\ z.ended = x.ended
             /\ z.requests = x.requests /\ z.savedCount = x.savedCount
  <2> DEFINE sum == x.cache + n
  <2>1. z = [x EXCEPT !.cache = sum, !.complete = last] /\ sum \in Nat
    BY <1>1, <1>2, <1>4 DEF Cached, Context
  <2> HIDE DEF sum, z, last
  <2>2. QED
    BY <1>1, <1>2, <2>1 DEF Context, sum
<1>5. /\ y \in Context
      /\ y.complete <=> last \/ (x.closed /\ x.complete)
      /\ y.saved # NoClient => y.cache = 0
      /\ y.empties = x.empties /\ y.zeroPulls = x.zeroPulls
      /\ y.produced = x.produced /\ y.requests = x.requests
      /\ y.timer \in {x.timer, "on"}
      /\ x.closed =>
            /\ y.closed /\ y.cache = 0 /\ y.delivered = x.delivered
            /\ y.ended = x.ended /\ y.processing = x.processing
            /\ y.saved = NoClient /\ x.saved = NoClient
      /\ ~x.closed /\ y.closed =>
            /\ y.cache = 0 /\ y.delivered <= x.delivered + x.cache + n
            /\ y.ended = "complete" => last /\ y.delivered = x.delivered + x.cache + n
      /\ ~y.closed =>
            /\ y.delivered + y.cache = x.delivered + x.cache + n
            /\ y.cache <= x.cache + n /\ y.ended = x.ended
      /\ y.saved = x.saved =>
            y.processing = x.processing /\ y.closed = x.closed /\ y.timer = x.timer
      /\ y.saved # x.saved => ~x.closed /\ y.saved = NoClient /\ ~y.processing
  <2>1. CASE x.closed
    <3> DEFINE v == NoneSaved(x)
    <3>1. /\ v \in Context /\ v.saved = NoClient
          /\ v.timer = x.timer
          /\ v.closed = x.closed /\ v.processing = x.processing
          /\ v.cache = x.cache /\ v.complete = x.complete
          /\ v.empties = x.empties /\ v.zeroPulls = x.zeroPulls
          /\ v.produced = x.produced /\ v.delivered = x.delivered
          /\ v.ended = x.ended /\ v.requests = x.requests
      BY <1>2, SavedMembers
    <3>2. y = [v EXCEPT !.complete = @ \/ last]
      BY <2>1 DEF Cached
    <3> HIDE DEF v, y
    <3>3. (v.complete \/ last) \in BOOLEAN /\ v.complete = x.complete
      BY <1>1, <1>2, <3>1
    <3>4. /\ y \in Context /\ y.complete = (x.complete \/ last)
          /\ y.saved = NoClient /\ y.timer = x.timer
          /\ y.closed = x.closed /\ y.processing = x.processing
          /\ y.cache = x.cache
          /\ y.empties = x.empties /\ y.zeroPulls = x.zeroPulls
          /\ y.produced = x.produced /\ y.delivered = x.delivered
          /\ y.ended = x.ended /\ y.requests = x.requests
      BY <1>1, <1>2, <3>1, <3>2, <3>3 DEF Context
    <3>5. QED
      BY <1>1, <2>1, <3>4
  <2>2. CASE ~x.closed /\ x.saved # NoClient /\ HasResponse(z, x.savedCount)
    <3> DEFINE w == Issued(z, x.savedCount)
    <3>1. y = NoneSaved(w) /\ ~z.closed
      BY <1>4, <2>2
    <3> HIDE DEF y, z
    <3>2. AfterIssue(z, w)
      BY <1>2, <1>4, <2>2, <3>1, IssuedMembers
    <3> HIDE DEF w
    <3>3. /\ y \in Context /\ y.saved = NoClient /\ y.timer = w.timer
          /\ y.closed = w.closed /\ y.processing = w.processing
          /\ y.cache = w.cache /\ y.complete = w.complete
          /\ y.empties = w.empties /\ y.zeroPulls = w.zeroPulls
          /\ y.produced = w.produced /\ y.delivered = w.delivered
          /\ y.ended = w.ended /\ y.requests = w.requests
      BY <3>1, <3>2, SavedMembers DEF AfterIssue
    <3>4. /\ w.delivered \in Nat /\ w.cache \in Nat /\ w.closed \in BOOLEAN
          /\ w.timer \in {z.timer, "on"}
      BY <3>2, MemberTypes DEF AfterIssue
    <3>5. QED
      BY <1>1, <1>2, <1>4, <2>2, <3>2, <3>3, <3>4 DEF AfterIssue
  <2>3. CASE ~x.closed /\ ~(x.saved # NoClient /\ HasResponse(z, x.savedCount))
    <3>1. y = z
      BY <2>3
    <3>2. z.saved # NoClient => z.cache = 0
      BY <1>1, <1>2, <1>4, <2>3 DEF HasResponse
    <3> HIDE DEF y, z
    <3>3. QED
      BY <1>1, <1>2, <1>4, <2>3, <3>1, <3>2
  <2>4. QED
    BY <1>2, <2>1, <2>2, <2>3
<1> HIDE DEF y
<1>6. /\ ctx' \in [Contexts -> Context] /\ ctx'[c] = y
      /\ \A d \in Contexts \ {c} : ctx'[d] = ctx[d]
  BY <1>3, <1>5 DEF EnumInv, Typed
<1>7. QED
  BY <1>3, <1>5, <1>6

\* The last response of a closed context releases it: nobody else does, because the
\* others do it only when the providers are complete.
LEMMA PutStep ==
    ASSUME EnumInv, FoundFresh, NEW c \in Contexts, Put(c)
    PROVE  EnumInv'
<1> DEFINE x == ctx[c]
           y == ctx'[c]
           n == provider[c].objects
           last == provider[c].last
           next == IF last THEN IF y.closed THEN "release" ELSE "done" ELSE "check"
<1>1. /\ OfContext(c) /\ provider[c].at = "put" /\ c \notin locked
      /\ c \notin Cleaned /\ c \notin Expiring /\ c \notin timeout.remove
      /\ \A k \in Clients : ~Releases(k, c)
      /\ IF c \in overtaken THEN x.closed /\ x.complete
         ELSE /\ c \in table /\ ~x.complete /\ ~GivingUp(c) /\ c \notin GivenUp
              /\ x.empties = 0 \/ (x.empties <= 1 /\ Calm(c))
      /\ n \in {0, 1} /\ last \in BOOLEAN
      /\ x.cache <= CacheLimit
  <2>1. /\ OfContext(c) /\ provider[c].at = "put" /\ c \notin locked
        /\ c \notin Cleaned /\ c \notin Expiring
        /\ \A k \in Clients : ~Releases(k, c)
        /\ n \in {0, 1} /\ last \in BOOLEAN
        /\ x.cache <= CacheLimit
    BY DEF Put, CanLock, EnumInv, OfContext, Cleaning, Removing, Bounded, Typed,
           ProviderRecord
  <2>2. CASE c \in overtaken
    BY <2>1, <2>2, GivingUpWhen DEF OfContext, Cleaning, Known
  <2>3. CASE c \notin overtaken
    <3>1. c \in table /\ ~GivingUp(c) /\ c \notin GivenUp
      BY <2>1, <2>3, NotGivenUp DEF OfContext, Providing
    <3>2. QED
      BY <2>1, <2>3, <3>1, GivingUpWhen DEF OfContext, Providing
  <2>4. QED
    BY <2>2, <2>3
<1>2. /\ ctx' \in [Contexts -> Context] /\ y \in Context
      /\ \A d \in Contexts \ {c} : ctx'[d] = ctx[d]
      /\ y.complete <=> last \/ (x.closed /\ x.complete)
      /\ y.saved # NoClient => y.cache = 0
      /\ y.empties = x.empties /\ y.zeroPulls = x.zeroPulls
      /\ y.produced = x.produced /\ y.requests = x.requests
      /\ y.timer \in {x.timer, "on"}
      /\ x.closed =>
            /\ y.closed /\ y.cache = 0 /\ y.delivered = x.delivered
            /\ y.ended = x.ended /\ y.processing = x.processing
            /\ y.saved = NoClient /\ x.saved = NoClient
      /\ ~x.closed /\ y.closed =>
            /\ y.cache = 0 /\ y.delivered <= x.delivered + x.cache + n
            /\ y.ended = "complete" => last /\ y.delivered = x.delivered + x.cache + n
      /\ ~y.closed =>
            /\ y.delivered + y.cache = x.delivered + x.cache + n
            /\ y.cache <= x.cache + n /\ y.ended = x.ended
      /\ IF y.saved = x.saved
         THEN /\ y.processing = x.processing /\ y.closed = x.closed
              /\ y.timer = x.timer
              /\ UNCHANGED <<client, timeout>>
         ELSE /\ ~x.closed /\ y.saved = NoClient /\ ~y.processing
              /\ Answered(c) /\ TimerFor(y)
  BY PutMembers
<1>3. /\ x.cache \in Nat /\ x.delivered \in Nat /\ x.produced \in Nat
      /\ y.cache \in Nat /\ y.delivered \in Nat
      /\ x.closed \in BOOLEAN /\ y.closed \in BOOLEAN
      /\ CacheLimit \in Nat
      /\ \A k \in Clients : k # NoClient
  BY <1>2, MemberTypes, EnumerationAssumption DEF EnumInv, Typed, NoClient
<1>4. /\ provider' = [provider EXCEPT ![c].at = next]
      /\ locked' = (IF next = "release" THEN locked \cup {c} ELSE locked)
      /\ UNCHANGED <<table, freed, tableLock, overtaken>>
  <2> DEFINE z == Cached(x, n, last)
             v == IF x.closed THEN [NoneSaved(z) EXCEPT !.complete = @ \/ last]
                  ELSE IF x.saved # NoClient /\ HasResponse(z, x.savedCount)
                  THEN NoneSaved(Issued(z, x.savedCount))
                  ELSE z
  <2>1. /\ ctx' = [ctx EXCEPT ![c] = v]
        /\ provider' = [provider EXCEPT ![c].at = AfterPut(v, last)]
        /\ locked' = (IF AfterPut(v, last) = "release" THEN locked \cup {c} ELSE locked)
        /\ UNCHANGED <<table, freed, tableLock, overtaken>>
    BY DEF Put
  <2> HIDE DEF v
  <2>2. v = y
    BY <2>1 DEF EnumInv, Typed
  <2>3. AfterPut(v, last) = next
    BY <2>2 DEF AfterPut
  <2>4. QED
    BY <2>1, <2>3
<1>5. /\ provider' \in [Contexts -> ProviderRecord]
      /\ provider'[c].at = next
      /\ \A d \in Contexts \ {c} : provider'[d] = provider[d]
  BY <1>4 DEF EnumInv, Typed, ProviderRecord, ProviderSteps
<1> HIDE DEF y
<1>6. /\ timeout' \in TimeoutRecord
      /\ TimerStill
      /\ timeout'.at \in {timeout.at, "sleep"}
      /\ timeout'.at # timeout.at => timeout.at = "stopped"
  BY <1>2, <1>4, TimerStarted, TimerUnmoved DEF EnumInv, TimerFor
<1>7. /\ client' \in [Clients -> ClientRecord]
      /\ \A k \in Clients :
            \/ client'[k] = client[k] /\ (y.saved # x.saved => x.saved # k)
            \/ /\ client[k].at = "waiting" /\ client[k].on = {c} /\ x.saved = k
               /\ client'[k].at = "idle" /\ client'[k].on = {} /\ y.saved # x.saved
  <2>1. CASE y.saved = x.saved
    BY <1>2, <2>1 DEF EnumInv, Typed
  <2>2. CASE y.saved # x.saved
    BY <1>2, <2>2, AnsweredClient
  <2>3. QED
    BY <2>1, <2>2
<1>8. Typed'
  BY <1>2, <1>4, <1>5, <1>6, <1>7 DEF EnumInv, Typed
<1>9. TableLocked' /\ Rounds'
  <2>1. next # "remove"
    OBVIOUS
  <2>2. QED
    BY <1>1, <1>4, <1>5, <1>6, <1>7, <2>1 DEF EnumInv, TableLocked, Rounds
<1>10. ASSUME NEW d \in Contexts, d # c PROVE OfContext(d)'
  <2>1. Still(d)
    <3>1. ctx'[d] = ctx[d] /\ (d \in locked' <=> d \in locked)
      BY <1>2, <1>4, <1>10
    <3>2. \A k \in Clients : \/ client'[k] = client[k]
                             \/ client[k].on # {d} /\ client'[k].on # {d}
      BY <1>7, <1>10
    <3>3. QED
      BY <1>4, <1>5, <1>6, <1>10, <3>1, <3>2 DEF Still
  <2>2. QED
    BY <2>1, <1>10, Untouched DEF EnumInv
<1>11. OfContext(c)'
  <2>1. ctx'[c] = y
    BY DEF y
  <2>2. Looking(c)' /\ (Found(c)' # {} => Found(c) # {} /\ ctx'[c] = ctx[c])
    BY <1>1, <1>4, <1>7, StillLooking DEF EnumInv
  <2>3. Unborn(c)' /\ Known(c)'
    BY <1>1, <1>2, <1>4, <1>5, <2>1 DEF OfContext, Unborn, Known
  <2>4. Serving(c)'
    <3>1. CASE y.saved = x.saved
      <4>1. /\ client' = client
            /\ y.processing = x.processing /\ y.closed = x.closed
            /\ y.timer = x.timer /\ UNCHANGED timeout
        BY <1>2, <3>1
      <4>2. y.saved # NoClient => y.cache = 0
        BY <1>2
      <4>3. QED
        BY <1>1, <1>6, <2>1, <3>1, <4>1, <4>2 DEF OfContext, Serving, At
    <3>2. CASE y.saved # x.saved
      <4>1. y.saved = NoClient /\ x.saved # NoClient /\ ~y.processing
        BY <1>2, <3>2
      <4>2. \A k \in Clients : ~At(k, "issue", c)' /\ ~At(k, "waiting", c)'
        BY <1>1, <1>7, <3>2, <4>1 DEF OfContext, Serving, At
      <4>3. QED
        BY <1>3, <2>1, <4>1, <4>2 DEF Serving
    <3>3. QED
      BY <3>1, <3>2
  <2>5. Cleaning(c)'
    <3>1. \A k \in Clients : ~Releases(k, c)'
      BY <1>1, <1>7 DEF Releases, At
    <3>2. /\ c \in GivenUp => y.closed /\ y.complete
          /\ c \notin Cleaned' /\ c \notin Expiring'
      BY <1>1, <1>2, <1>6
    <3>3. QED
      BY <1>1, <1>4, <1>6, <2>1, <3>1, <3>2 DEF OfContext, Cleaning
  <2>6. Removing(c)'
    <3>1. \A k \in Clients : ~Releases(k, c)'
      BY <1>1, <1>7 DEF Releases, At
    <3>2. c \notin Expiring' /\ c \notin timeout'.remove
      BY <1>1, <1>6
    <3>3. QED
      BY <1>1, <1>2, <1>4, <1>5, <2>1, <3>1, <3>2 DEF Removing, Releases
  <2>7. Providing(c)'
    <3>1. Calm(c) => Calm(c)'
      BY <1>2, <1>6, <2>1 DEF Calm
    <3>2. CASE c \in overtaken
      BY <1>1, <1>2, <1>4, <1>5, <1>6, <2>1, <3>2 DEF OfContext, Providing
    <3>3. CASE c \notin overtaken
      <4>1. x.empties \in Nat
        BY MemberTypes DEF EnumInv, Typed
      <4>2. QED
        BY <1>1, <1>2, <1>3, <1>4, <1>5, <1>6, <2>1, <3>1, <3>3, <4>1 DEF Providing
    <3>4. QED
      BY <3>2, <3>3
  <2>8. Summed(c)'
    <3>1. InPut(c)' = 0 /\ InPut(c) = n
      BY <1>1, <1>5 DEF InPut
    <3>2. ~x.closed => x.delivered + x.cache = x.produced - n
      BY <1>1, <3>1 DEF OfContext, Summed
    <3>3. x.ended # "complete"
      BY <1>1 DEF OfContext, Summed
    <3>4. QED
      BY <1>1, <1>2, <1>3, <1>5, <2>1, <3>1, <3>2, <3>3 DEF Summed
  <2>9. Bounded(c)'
    <3>1. ~x.closed => x.delivered + x.cache + n <= x.produced
      BY <1>1, <1>3 DEF OfContext, Summed, InPut
    <3>2. y.delivered <= x.produced
      BY <1>1, <1>2, <1>3, <3>1 DEF OfContext, Bounded
    <3>3. y.closed => y.cache = 0
      BY <1>2, <1>3
    <3>4. y.cache <= CacheLimit + 1
      <4>1. y.cache = 0 \/ y.cache <= x.cache + n
        BY <1>2, <1>3, <3>3
      <4>2. QED
        BY <1>1, <1>3, <4>1
    <3>5. QED
      BY <1>1, <1>2, <1>4, <1>5, <1>6, <2>1, <2>2, <3>2, <3>3, <3>4
      DEF OfContext, Bounded
  <2>10. QED
    BY <2>2, <2>3, <2>4, <2>5, <2>6, <2>7, <2>8, <2>9 DEF OfContext
<1>12. QED
  BY <1>8, <1>9, <1>10, <1>11 DEF EnumInv

\* The thread of the last response gives the context's lock up for that of the table,
\* and removes the context.
LEMMA ProviderReleasesStep ==
    ASSUME EnumInv, FoundFresh, NEW c \in Contexts, ProviderReleases(c)
    PROVE  EnumInv'
<1>1. /\ OfContext(c) /\ provider[c].at \in {"release", "remove"}
      /\ c \in table \cup freed /\ ctx[c].closed /\ ctx[c].complete
      /\ c \notin Expiring /\ c \notin timeout.remove /\ c \notin Cleaned
      /\ \A j \in Clients : ~Releases(j, c)
      /\ GivingUp(c) => c \in overtaken
      /\ c \in GivenUp => c \in overtaken
      /\ c \notin overtaken => c \in table
      /\ c \in freed => c \notin table
  <2>1. /\ OfContext(c) /\ provider[c].at \in {"release", "remove"}
        /\ c \in table \cup freed /\ ctx[c].closed /\ ctx[c].complete
        /\ c \notin Expiring /\ c \notin Cleaned
        /\ \A j \in Clients : ~Releases(j, c)
        /\ GivingUp(c) => c \in overtaken
        /\ c \notin overtaken => c \in table
        /\ c \in freed => c \notin table
    BY DEF ProviderReleases, EnumInv, OfContext, Known, Removing, Cleaning
  <2>2. QED
    BY <2>1, GivingUpWhen
<1>2. CASE provider[c].at = "release"
  <2>1. /\ ~tableLock /\ tableLock' = TRUE /\ locked' = locked \ {c}
        /\ provider' = [provider EXCEPT ![c].at = "remove"]
        /\ UNCHANGED <<table, freed, ctx, client, timeout, overtaken>>
        /\ TimerStill
    BY <1>2, TimerUnmoved DEF ProviderReleases, Unlocks
  <2>2. /\ provider' \in [Contexts -> ProviderRecord] /\ provider'[c].at = "remove"
        /\ \A d \in Contexts \ {c} : provider'[d] = provider[d]
    BY <2>1 DEF EnumInv, Typed, ProviderRecord, ProviderSteps
  <2>3. Typed'
    BY <2>1, <2>2 DEF EnumInv, Typed
  <2>4. TableLocked' /\ Rounds'
    BY <2>1, <2>2 DEF EnumInv, TableLocked, Rounds
  <2>5. ASSUME NEW d \in Contexts, d # c PROVE OfContext(d)'
    <3>1. Still(d)
      BY <2>1, <2>2, <2>5 DEF Still
    <3>2. QED
      BY <3>1, <2>5, Untouched DEF EnumInv
  <2>6. OfContext(c)'
    <3>1. Looking(c)' /\ (Found(c)' # {} => Found(c) # {} /\ ctx'[c] = ctx[c])
      BY <1>1, <2>1, StillLooking DEF EnumInv
    <3>2. Unborn(c)' /\ Known(c)' /\ Serving(c)'
      BY <1>1, <2>1, <2>2 DEF OfContext, Unborn, Known, Serving, At
    <3>3. Cleaning(c)' /\ Removing(c)' /\ Providing(c)'
      BY <1>1, <1>2, <2>1, <2>2
      DEF OfContext, Cleaning, Removing, Providing, Releases, At
    <3>4. Summed(c)' /\ Bounded(c)'
      BY <1>1, <1>2, <2>1, <2>2, <3>1 DEF OfContext, Summed, Bounded, InPut
    <3>5. QED
      BY <3>1, <3>2, <3>3, <3>4 DEF OfContext
  <2>7. QED
    BY <2>3, <2>4, <2>5, <2>6 DEF EnumInv
<1>3. CASE provider[c].at = "remove"
  <2>1. /\ tableLock' = FALSE /\ table' = table \ {c} /\ freed' = freed \cup {c}
        /\ provider' = [provider EXCEPT ![c].at = "done"]
        /\ UNCHANGED <<locked, ctx, client, timeout, overtaken>>
        /\ TimerStill
    BY <1>1, <1>3, TimerUnmoved DEF ProviderReleases, Removes, Removed
  <2>2. /\ provider' \in [Contexts -> ProviderRecord] /\ provider'[c].at = "done"
        /\ \A d \in Contexts \ {c} : provider'[d] = provider[d]
    BY <2>1 DEF EnumInv, Typed, ProviderRecord, ProviderSteps
  <2>3. Typed'
    BY <2>1, <2>2 DEF EnumInv, Typed
  <2>4. TableLocked' /\ Rounds'
    BY <1>3, <2>1, <2>2 DEF EnumInv, TableLocked, Rounds
  <2>5. ASSUME NEW d \in Contexts, d # c PROVE OfContext(d)'
    <3>1. Still(d)
      BY <2>1, <2>2, <2>5 DEF Still
    <3>2. QED
      BY <3>1, <2>5, Untouched DEF EnumInv
  <2>6. OfContext(c)'
    <3>1. Looking(c)' /\ (Found(c)' # {} => Found(c) # {} /\ ctx'[c] = ctx[c])
      BY <1>1, <2>1, StillLooking DEF EnumInv
    <3>2. Unborn(c)' /\ Known(c)' /\ Serving(c)'
      BY <1>1, <2>1, <2>2 DEF OfContext, Unborn, Known, Serving, At
    <3>3. Cleaning(c)' /\ Removing(c)' /\ Providing(c)'
      <4>1. c \in freed' /\ \A j \in Clients : ~Releases(j, c)'
        <5>1. c \in freed'
          BY <2>1
        <5>2. ASSUME NEW j \in Clients PROVE ~Releases(j, c)'
          BY <1>1, <2>1 DEF Releases, At
        <5>3. QED
          BY <5>1, <5>2
      <4>2. Cleaning(c)'
        BY <1>1, <2>1, <2>2, <4>1 DEF OfContext, Cleaning
      <4>3. Removing(c)'
        BY <1>1, <2>1, <2>2, <4>1 DEF Removing, Releases
      <4>4. Providing(c)'
        BY <1>1, <2>1, <2>2 DEF Providing
      <4>5. QED
        BY <4>2, <4>3, <4>4
    <3>4. Summed(c)' /\ Bounded(c)'
      BY <1>1, <1>3, <2>1, <2>2, <3>1 DEF OfContext, Summed, Bounded, InPut
    <3>5. QED
      BY <3>1, <3>2, <3>3, <3>4 DEF OfContext
  <2>7. QED
    BY <2>3, <2>4, <2>5, <2>6 DEF EnumInv
<1>4. QED
  BY <1>1, <1>2, <1>3

-----------------------------------------------------------------------------
\* The timer thread.

\* A time-out ends; no response is being put then.
LEMMA ExpireStep ==
    ASSUME EnumInv, FoundFresh, ResponsePrompt, NEW c \in Contexts, Expire(c)
    PROVE  EnumInv'
<1> DEFINE x == ctx[c]
           y == ctx'[c]
<1>1. /\ OfContext(c) /\ c \in table /\ x.timer = "on" /\ x \in Context
      /\ provider[c].at \notin {"put", "check"}
      /\ provider[c].at # "none" /\ c \notin Cleaned
      /\ \A k \in Clients : ~At(k, "issue", c)
  BY DEF Expire, ResponsePrompt, EnumInv, Typed, OfContext, Unborn, Cleaning, Serving
<1>2. /\ ctx' \in [Contexts -> Context] /\ \A d \in Contexts \ {c} : ctx'[d] = ctx[d]
      /\ y.timer = "expired" /\ y.saved = x.saved
      /\ y.closed = x.closed /\ y.complete = x.complete /\ y.processing = x.processing
      /\ y.cache = x.cache /\ y.empties = x.empties /\ y.zeroPulls = x.zeroPulls
      /\ y.produced = x.produced /\ y.delivered = x.delivered /\ y.ended = x.ended
      /\ y.requests = x.requests
      /\ UNCHANGED <<table, freed, locked, tableLock, client, provider, timeout, overtaken>>
      /\ TimerStill
  BY <1>1, TimerUnmoved DEF Expire, EnumInv, Typed, Context, lockVars
<1>3. Typed'
  BY <1>2 DEF EnumInv, Typed
<1>4. TableLocked' /\ Rounds'
  BY <1>2 DEF EnumInv, TableLocked, Rounds
<1>5. ASSUME NEW d \in Contexts, d # c PROVE OfContext(d)'
  <2>1. Still(d)
    BY <1>2, <1>5 DEF Still
  <2>2. QED
    BY <2>1, <1>5, Untouched DEF EnumInv
<1>6. OfContext(c)'
  <2>1. Looking(c)' /\ (Found(c)' # {} => Found(c) # {} /\ ctx'[c] = ctx[c])
    BY <1>1, <1>2, StillLooking DEF EnumInv
  <2>2. Unborn(c)' /\ Known(c)' /\ Serving(c)'
    BY <1>1, <1>2 DEF OfContext, Unborn, Known, Serving, At
  <2>3. Cleaning(c)' /\ Removing(c)' /\ Providing(c)'
    BY <1>1, <1>2 DEF OfContext, Cleaning, Removing, Providing, Releases, At
  <2>4. Summed(c)' /\ Bounded(c)'
    BY <1>1, <1>2, <2>1 DEF OfContext, Summed, Bounded, InPut
  <2>5. QED
    BY <2>1, <2>2, <2>3, <2>4 DEF OfContext
<1>7. QED
  BY <1>3, <1>4, <1>5, <1>6 DEF EnumInv

\* The contexts whose time is over are closed when no request of theirs is processed;
\* the ones that are complete are to be removed, the others to be cleaned.
LEMMA ScanStep ==
    ASSUME EnumInv, FoundFresh, Scan
    PROVE  EnumInv'
<1> DEFINE expired == {c \in table : ctx[c].timer = "expired" /\ CanLock(c)}
           idle == {c \in expired : ~ctx[c].processing}
           remove == {c \in idle : ctx[c].complete}
           active == expired \ remove
<1>1. /\ timeout.at = "sleep" /\ ~tableLock
      /\ timeout.remove = {} /\ timeout.active = {} /\ timeout.on = {}
      /\ Expiring = {} /\ Counted = {} /\ GivenUp = {} /\ Cleaned = {}
      /\ \A c \in Contexts : ~GivingUp(c)
      /\ \A k \in Clients : client[k].at # "remove"
      /\ \A c \in Contexts : provider[c].at # "remove"
      /\ expired \subseteq table /\ table \subseteq Contexts
  BY DEF Scan, EnumInv, Typed, Rounds, TableLocked, Expiring, Counted, GivenUp, Cleaned,
         GivingUp
<1>2. /\ ctx' = [c \in Contexts |-> IF c \in idle THEN Closed(TimerCleared(ctx[c]))
                                    ELSE IF c \in expired THEN TimerCleared(ctx[c])
                                    ELSE ctx[c]]
      /\ provider' = [c \in Contexts |->
                         [provider[c] EXCEPT !.at = Woken(c, c \in idle \ remove)]]
      /\ locked' = locked \cup expired
      /\ tableLock' = (remove # {})
      /\ timeout' = [at |-> IF table = {} THEN "exit"
                            ELSE IF remove # {} THEN "remove" ELSE "clean",
                     remove |-> remove, active |-> active, on |-> {}]
      /\ UNCHANGED <<table, freed, client, overtaken>>
  BY DEF Scan
<1>3. /\ timeout' \in TimeoutRecord
      /\ timeout'.remove = remove /\ timeout'.active = active /\ timeout'.on = {}
      /\ Expiring' = remove /\ Counted' = {} /\ GivenUp' = {} /\ Cleaned' = active
      /\ \A c \in Contexts : ~GivingUp(c)'
      /\ remove # {} => timeout'.at = "remove" /\ tableLock'
      /\ remove = {} => timeout'.at \in {"exit", "clean"}
      /\ active # {} => timeout'.at \in {"remove", "clean"}
  BY <1>1, <1>2 DEF TimeoutRecord, Expiring, Counted, GivenUp, Cleaned, GivingUp
<1>4. \A c \in Contexts :
         /\ provider'[c] \in ProviderRecord
         /\ provider'[c].at \in {provider[c].at, "check"}
         /\ provider'[c].at # provider[c].at => provider[c].at = "asleep"
         /\ provider'[c].objects = provider[c].objects
         /\ c \notin expired => provider'[c] = provider[c]
         /\ c \in idle \ remove => provider'[c].at # "asleep"
  <2> SUFFICES ASSUME NEW c \in Contexts
               PROVE  /\ provider'[c] \in ProviderRecord
                      /\ provider'[c].at \in {provider[c].at, "check"}
                      /\ provider'[c].at # provider[c].at => provider[c].at = "asleep"
                      /\ provider'[c].objects = provider[c].objects
                      /\ c \notin expired => provider'[c] = provider[c]
                      /\ c \in idle \ remove => provider'[c].at # "asleep"
    OBVIOUS
  <2> DEFINE w == Woken(c, c \in idle \ remove)
  <2>1. /\ w \in ProviderSteps /\ w \in {provider[c].at, "check"}
        /\ w # provider[c].at => provider[c].at = "asleep" /\ c \in expired
        /\ c \in idle \ remove => w # "asleep"
    BY DEF EnumInv, Typed, Woken, ProviderRecord, ProviderSteps
  <2>2. provider'[c] = [provider[c] EXCEPT !.at = w]
    BY <1>2
  <2>3. provider[c] \in ProviderRecord
    BY DEF EnumInv, Typed
  <2> HIDE DEF w, expired, idle, remove
  <2>4. QED
    BY <2>1, <2>2, <2>3 DEF ProviderRecord
<1>5. \A c \in Contexts :
         /\ ctx'[c] \in Context
         /\ c \notin expired => ctx'[c] = ctx[c]
         /\ c \in expired =>
               /\ ctx'[c].timer = "off"
               /\ ctx'[c].complete = ctx[c].complete /\ ctx'[c].saved = ctx[c].saved
               /\ ctx'[c].empties = ctx[c].empties /\ ctx'[c].zeroPulls = ctx[c].zeroPulls
               /\ ctx'[c].produced = ctx[c].produced /\ ctx'[c].ended = ctx[c].ended
               /\ ctx'[c].delivered = ctx[c].delivered
               /\ ctx'[c].requests = ctx[c].requests
               /\ IF c \in idle
                  THEN ctx'[c].closed /\ ctx'[c].cache = 0 /\ ~ctx'[c].processing
                  ELSE /\ ctx'[c].closed = ctx[c].closed /\ ctx'[c].cache = ctx[c].cache
                       /\ ctx'[c].processing = ctx[c].processing
  <2> SUFFICES ASSUME NEW c \in Contexts
               PROVE  /\ ctx'[c] \in Context
                      /\ c \notin expired => ctx'[c] = ctx[c]
                      /\ c \in expired =>
                            /\ ctx'[c].timer = "off"
                            /\ ctx'[c].complete = ctx[c].complete
                            /\ ctx'[c].saved = ctx[c].saved
                            /\ ctx'[c].empties = ctx[c].empties
                            /\ ctx'[c].zeroPulls = ctx[c].zeroPulls
                            /\ ctx'[c].produced = ctx[c].produced
                            /\ ctx'[c].ended = ctx[c].ended
                            /\ ctx'[c].delivered = ctx[c].delivered
                            /\ ctx'[c].requests = ctx[c].requests
                            /\ IF c \in idle
                               THEN /\ ctx'[c].closed /\ ctx'[c].cache = 0
                                    /\ ~ctx'[c].processing
                               ELSE /\ ctx'[c].closed = ctx[c].closed
                                    /\ ctx'[c].cache = ctx[c].cache
                                    /\ ctx'[c].processing = ctx[c].processing
    OBVIOUS
  <2>1. ctx[c] \in Context /\ (c \in idle => c \in expired)
        /\ (c \in expired => ctx[c].timer = "expired")
    BY DEF EnumInv, Typed
  <2>2. ctx'[c] = IF c \in idle THEN Closed(TimerCleared(ctx[c]))
                  ELSE IF c \in expired THEN TimerCleared(ctx[c]) ELSE ctx[c]
    BY <1>2
  <2> HIDE DEF idle, expired
  <2> DEFINE v == TimerCleared(ctx[c])
  <2>3. /\ v \in Context /\ v.timer = (IF ctx[c].timer = "expired" THEN "off" ELSE ctx[c].timer)
        /\ v.closed = ctx[c].closed /\ v.processing = ctx[c].processing
        /\ v.cache = ctx[c].cache /\ v.complete = ctx[c].complete
        /\ v.saved = ctx[c].saved /\ v.empties = ctx[c].empties
        /\ v.zeroPulls = ctx[c].zeroPulls
        /\ v.produced = ctx[c].produced /\ v.delivered = ctx[c].delivered
        /\ v.ended = ctx[c].ended /\ v.requests = ctx[c].requests
    BY <2>1, TimerMembers
  <2> HIDE DEF v
  <2>4. /\ Closed(v) \in Context
        /\ Closed(v).closed = TRUE /\ Closed(v).processing = FALSE /\ Closed(v).cache = 0
        /\ Closed(v).complete = v.complete
        /\ Closed(v).saved = v.saved
        /\ Closed(v).timer = v.timer /\ Closed(v).empties = v.empties
        /\ Closed(v).zeroPulls = v.zeroPulls
        /\ Closed(v).produced = v.produced /\ Closed(v).delivered = v.delivered
        /\ Closed(v).ended = v.ended /\ Closed(v).requests = v.requests
    BY <2>3, ClosedMembers
  <2>5. CASE c \in idle
    <3>1. ctx'[c] = Closed(v)
      BY <2>2, <2>5 DEF v
    <3>2. QED
      BY <2>1, <2>3, <2>4, <2>5, <3>1
  <2>6. CASE c \in expired /\ c \notin idle
    <3>1. ctx'[c] = v
      BY <2>2, <2>6 DEF v
    <3>2. QED
      BY <2>1, <2>3, <2>6, <3>1
  <2>7. CASE c \notin expired
    BY <2>1, <2>2, <2>7
  <2>8. QED
    BY <2>5, <2>6, <2>7
<1>6. Typed'
  <2>1. ctx' \in [Contexts -> Context] /\ provider' \in [Contexts -> ProviderRecord]
    <3>1. /\ ctx' = [c \in Contexts |-> ctx'[c]]
          /\ provider' = [c \in Contexts |-> provider'[c]]
      BY <1>2
    <3>2. QED
      BY <1>4, <1>5, <3>1
  <2>2. QED
    BY <1>1, <1>2, <1>3, <2>1 DEF EnumInv, Typed
<1>7. TableLocked' /\ Rounds'
  <2>1. client' = client /\ \A c \in Contexts : provider'[c].at # "remove"
    BY <1>1, <1>2, <1>4
  <2> HIDE DEF remove, active
  <2>2. timeout'.at # "delete" /\ timeout'.on \cap timeout'.remove = {}
    BY <1>3
  <2>3. QED
    BY <1>1, <1>3, <2>1, <2>2 DEF TableLocked, Rounds
<1>8. ASSUME NEW d \in Contexts, d \notin expired PROVE OfContext(d)'
  <2>1. Still(d)
    BY <1>1, <1>2, <1>3, <1>4, <1>5, <1>8 DEF Still
  <2>2. QED
    BY <2>1, Untouched DEF EnumInv
<1>9. ASSUME NEW c \in expired PROVE OfContext(c)'
  <2> DEFINE x == ctx[c]
             y == ctx'[c]
  <2>1. /\ c \in Contexts /\ OfContext(c) /\ c \in table /\ c \notin locked
        /\ x.timer = "expired" /\ provider[c].at # "none" /\ c \notin overtaken
        /\ ~GivingUp(c)
        /\ c \in idle <=> ~x.processing
        /\ c \in remove <=> ~x.processing /\ x.complete
        /\ c \in active <=> c \notin remove
    BY <1>1 DEF EnumInv, OfContext, Unborn, Known, Cleaning, CanLock
  <2>2. /\ provider[c].at \notin {"release", "remove"}
        /\ \A k \in Clients : ~Releases(k, c) /\ ~At(k, "issue", c)
        /\ x.complete => provider[c].at = "done"
        /\ provider[c].at = "put" => x.empties = 0
        /\ provider[c].at = "check" => x.empties <= 1 /\ (x.closed \/ x.empties = 0)
        /\ provider[c].at = "asleep" =>
              ~x.closed /\ x.cache > CacheLimit /\ x.empties <= 1
        /\ x.processing /\ ~x.closed => x.saved # NoClient /\ x.cache = 0
        /\ ~x.processing => x.saved = NoClient
        /\ x.cache \in Nat /\ x.empties \in Nat /\ CacheLimit \in Nat
    <3>1. x.cache \in Nat /\ x.empties \in Nat /\ CacheLimit \in Nat
      BY <2>1, MemberTypes, EnumerationAssumption DEF EnumInv, Typed
    <3>2. QED
      BY <1>1, <2>1, <3>1
      DEF OfContext, Removing, Serving, Providing, Calm, Releases, At
  <2>3. /\ y.timer = "off" /\ y.complete = x.complete /\ y.saved = x.saved
        /\ y.empties = x.empties /\ y.zeroPulls = x.zeroPulls
        /\ y.produced = x.produced /\ y.ended = x.ended /\ y.delivered = x.delivered
        /\ y.requests = x.requests
        /\ IF ~x.processing THEN y.closed /\ y.cache = 0 /\ ~y.processing
           ELSE y.closed = x.closed /\ y.cache = x.cache /\ y.processing = x.processing
    BY <1>5, <2>1
  <2>4. /\ provider'[c].at \in {provider[c].at, "check"}
        /\ provider'[c].at # provider[c].at => provider[c].at = "asleep"
        /\ provider'[c].objects = provider[c].objects
        /\ c \in locked' /\ table' = table /\ freed' = freed /\ client' = client
        /\ timeout'.remove = remove /\ timeout'.active = active
        /\ Expiring' = remove /\ Cleaned' = active /\ GivenUp' = {} /\ ~GivingUp(c)'
        /\ overtaken' = overtaken
        /\ ~x.processing /\ c \notin remove => provider'[c].at # "asleep"
    BY <1>2, <1>3, <1>4, <2>1
  <2> HIDE DEF y, expired, idle, remove, active
  <2>5. ctx'[c] = y
    BY DEF y
  <2>6. Looking(c)' /\ (Found(c)' # {} => Found(c) # {} /\ ctx'[c] = ctx[c])
    BY <2>1, <2>4, StillLooking DEF EnumInv
  <2>7. Unborn(c)' /\ Known(c)'
    BY <2>1, <2>3, <2>4, <2>5 DEF OfContext, Unborn, Known
  <2>8. Serving(c)'
    BY <2>1, <2>2, <2>3, <2>4, <2>5 DEF OfContext, Serving, At
  <2>9. Cleaning(c)' /\ Removing(c)'
    <3>1. x.processing => ~x.complete \/ c \notin remove
      BY <2>1
    <3>2. \A k \in Clients : ~Releases(k, c)'
      BY <2>2, <2>4 DEF Releases, At
    <3>3. Cleaning(c)'
      <4>1. c \in active => provider'[c].at # "asleep"
        BY <2>1, <2>2, <2>4
      <4>2. QED
        BY <2>1, <2>2, <2>3, <2>4, <2>5, <3>1, <3>2, <4>1 DEF OfContext, Cleaning
    <3>4. Removing(c)'
      BY <2>1, <2>2, <2>3, <2>4, <2>5, <3>1, <3>2 DEF Removing, Releases
    <3>5. QED
      BY <3>3, <3>4
  <2>10. Providing(c)'
    <3>1. provider'[c].at = "asleep" => provider[c].at = "asleep" /\ x.processing
      BY <2>1, <2>2, <2>4
    <3>2. provider'[c].at = "check" =>
             /\ provider[c].at = "check" \/ (provider[c].at = "asleep" /\ ~x.processing)
             /\ y.empties <= 1 /\ (y.closed \/ y.empties = 0)
      BY <2>1, <2>2, <2>3, <2>4
    <3>3. QED
      BY <2>1, <2>2, <2>3, <2>4, <2>5, <3>1, <3>2 DEF OfContext, Providing
  <2>11. Summed(c)'
    BY <2>1, <2>2, <2>3, <2>4, <2>5 DEF OfContext, Summed, InPut
  <2>12. Bounded(c)'
    BY <2>1, <2>2, <2>3, <2>4, <2>5, <2>6 DEF OfContext, Bounded
  <2>13. QED
    BY <2>6, <2>7, <2>8, <2>9, <2>10, <2>11, <2>12 DEF OfContext
<1>10. QED
  BY <1>6, <1>7, <1>8, <1>9 DEF EnumInv

\* The complete ones are removed one after the other.
LEMMA RemoveExpiredStep ==
    ASSUME EnumInv, FoundFresh, RemoveExpired
    PROVE  EnumInv'
<1>1. CASE timeout.at = "remove"
  <2>1. PICK c \in timeout.remove :
          /\ locked' = locked \ {c}
          /\ timeout' = [timeout EXCEPT !.at = "delete", !.remove = @ \ {c}, !.on = {c}]
          /\ UNCHANGED <<table, freed, tableLock, ctx, client, provider, overtaken>>
    BY <1>1 DEF RemoveExpired
  <2>2. /\ c \in Contexts /\ OfContext(c) /\ timeout.on = {} /\ tableLock
        /\ c \in table /\ ctx[c].closed /\ ctx[c].complete /\ provider[c].at = "done"
        /\ c \notin Cleaned /\ c \in Expiring /\ ~GivingUp(c) /\ c \notin overtaken
        /\ c \notin GivenUp /\ c \notin timeout.active
        /\ \A k \in Clients : ~Releases(k, c)
    <3>1. c \in Contexts /\ OfContext(c) /\ timeout.on = {} /\ tableLock /\ c \in Expiring
      BY <1>1, <2>1 DEF EnumInv, Typed, TimeoutRecord, Rounds, TableLocked, Expiring
    <3>2. /\ c \in table /\ ctx[c].closed /\ ctx[c].complete /\ provider[c].at = "done"
          /\ c \notin Cleaned /\ \A k \in Clients : ~Releases(k, c)
      BY <3>1 DEF OfContext, Cleaning, Removing
    <3>3. QED
      BY <3>1, <3>2, NotGivenUp, GivingUpWhen
  <2>3. /\ timeout' \in TimeoutRecord
        /\ timeout'.at = "delete" /\ timeout'.on = {c}
        /\ timeout'.remove = timeout.remove \ {c} /\ timeout'.active = timeout.active
        /\ Expiring' = Expiring
        /\ UNCHANGED <<Counted, GivenUp, Cleaned>>
        /\ \A d \in Contexts : ~GivingUp(d) /\ ~GivingUp(d)'
    <3>1. /\ timeout' \in TimeoutRecord
          /\ timeout'.at = "delete" /\ timeout'.on = {c}
          /\ timeout'.remove = timeout.remove \ {c} /\ timeout'.active = timeout.active
      BY <2>1, <2>2 DEF EnumInv, Typed, TimeoutRecord
    <3>2. QED
      BY <1>1, <2>1, <3>1 DEF Expiring, Counted, GivenUp, Cleaned, GivingUp
  <2>4. Typed'
    BY <2>1, <2>3 DEF EnumInv, Typed
  <2>5. TableLocked' /\ Rounds'
    BY <1>1, <2>1, <2>2, <2>3 DEF EnumInv, TableLocked, Rounds
  <2>6. ASSUME NEW d \in Contexts, d # c PROVE OfContext(d)'
    <3>1. Still(d)
      BY <2>1, <2>2, <2>3, <2>6 DEF Still
    <3>2. QED
      BY <3>1, <2>6, Untouched DEF EnumInv
  <2>7. OfContext(c)'
    <3>1. Looking(c)' /\ (Found(c)' # {} => Found(c) # {} /\ ctx'[c] = ctx[c])
      BY <2>1, <2>2, StillLooking DEF EnumInv
    <3>2. Unborn(c)' /\ Known(c)' /\ Serving(c)'
      BY <2>1, <2>2, <2>3 DEF OfContext, Unborn, Known, Serving, At
    <3>3. Cleaning(c)' /\ Removing(c)' /\ Providing(c)'
      BY <2>1, <2>2, <2>3 DEF OfContext, Cleaning, Removing, Providing, Releases, At
    <3>4. Summed(c)' /\ Bounded(c)'
      BY <2>1, <2>2, <3>1 DEF OfContext, Summed, Bounded, InPut
    <3>5. QED
      BY <3>1, <3>2, <3>3, <3>4 DEF OfContext
  <2>8. QED
    BY <2>4, <2>5, <2>6, <2>7, <2>2 DEF EnumInv
<1>2. CASE timeout.at = "delete"
  <2>1. PICK c \in timeout.on :
          /\ Removes(c)
          /\ tableLock' = (timeout.remove # {})
          /\ timeout' = [timeout EXCEPT !.at = IF timeout.remove # {} THEN "remove" ELSE "clean",
                                        !.on = {}]
          /\ UNCHANGED <<locked, ctx, client, provider, overtaken>>
    BY <1>2 DEF RemoveExpired
  <2>2. /\ c \in Contexts /\ OfContext(c) /\ timeout.on = {c} /\ tableLock
        /\ c \in table /\ ctx[c].closed /\ ctx[c].complete /\ provider[c].at = "done"
        /\ c \notin Cleaned /\ c \notin timeout.remove /\ c \in Expiring
        /\ ~GivingUp(c) /\ c \notin overtaken /\ c \notin GivenUp
        /\ \A k \in Clients : ~Releases(k, c) /\ client[k].at # "remove"
        /\ \A d \in Contexts : provider[d].at # "remove"
    <3>1. /\ c \in Contexts /\ OfContext(c) /\ timeout.on = {c} /\ tableLock
          /\ c \in Expiring /\ c \notin timeout.remove
          /\ \A k \in Clients : client[k].at # "remove"
          /\ \A d \in Contexts : provider[d].at # "remove"
      BY <1>2, <2>1 DEF EnumInv, Typed, TimeoutRecord, Rounds, TableLocked, Expiring
    <3>2. /\ c \in table /\ ctx[c].closed /\ ctx[c].complete /\ provider[c].at = "done"
          /\ c \notin Cleaned /\ \A k \in Clients : ~Releases(k, c)
      BY <3>1 DEF OfContext, Cleaning, Removing
    <3>3. QED
      BY <3>1, <3>2, NotGivenUp, GivingUpWhen
  <2>3. /\ timeout' \in TimeoutRecord
        /\ timeout'.at = (IF timeout.remove # {} THEN "remove" ELSE "clean")
        /\ timeout'.on = {}
        /\ timeout'.remove = timeout.remove /\ timeout'.active = timeout.active
        /\ Expiring' = Expiring \ {c}
        /\ UNCHANGED <<Counted, GivenUp, Cleaned>>
        /\ \A d \in Contexts : ~GivingUp(d) /\ ~GivingUp(d)'
        /\ timeout.remove # {} => tableLock'
        /\ timeout.remove = {} => ~tableLock'
    <3>1. /\ timeout \in TimeoutRecord
          /\ (IF timeout.remove # {} THEN "remove" ELSE "clean") \in {"remove", "clean"}
      BY DEF EnumInv, Typed
    <3>2. /\ timeout' \in TimeoutRecord
          /\ timeout'.at = (IF timeout.remove # {} THEN "remove" ELSE "clean")
          /\ timeout'.on = {}
          /\ timeout'.remove = timeout.remove /\ timeout'.active = timeout.active
      BY <2>1, <3>1 DEF TimeoutRecord
    <3>3. Expiring' = timeout.remove /\ Expiring = timeout.remove \cup {c}
      BY <2>2, <3>2 DEF Expiring
    <3>4. /\ UNCHANGED <<Counted, GivenUp, Cleaned>>
          /\ \A d \in Contexts : ~GivingUp(d) /\ ~GivingUp(d)'
      BY <1>2, <3>2 DEF Counted, GivenUp, Cleaned, GivingUp
    <3>5. QED
      BY <2>1, <2>2, <3>2, <3>3, <3>4
  <2>4. table' = table \ {c} /\ freed' = freed \cup {c}
    BY <2>1, <2>2 DEF Removes, Removed
  <2>5. Typed'
    BY <2>1, <2>2, <2>3, <2>4 DEF EnumInv, Typed
  <2>6. TableLocked' /\ Rounds'
    BY <2>1, <2>2, <2>3 DEF TableLocked, Rounds
  <2>7. ASSUME NEW d \in Contexts, d # c PROVE OfContext(d)'
    <3>1. Still(d)
      BY <2>1, <2>2, <2>3, <2>4, <2>7 DEF Still
    <3>2. QED
      BY <3>1, <2>7, Untouched DEF EnumInv
  <2>8. OfContext(c)'
    <3>1. Looking(c)' /\ (Found(c)' # {} => Found(c) # {} /\ ctx'[c] = ctx[c])
      BY <2>1, <2>2, StillLooking DEF EnumInv
    <3>2. Unborn(c)' /\ Known(c)' /\ Serving(c)'
      BY <2>1, <2>2, <2>3, <2>4 DEF OfContext, Unborn, Known, Serving, At
    <3>3. Cleaning(c)' /\ Removing(c)' /\ Providing(c)'
      BY <2>1, <2>2, <2>3, <2>4 DEF OfContext, Cleaning, Removing, Providing, Releases, At
    <3>4. Summed(c)' /\ Bounded(c)'
      BY <2>1, <2>2, <2>4, <3>1 DEF OfContext, Summed, Bounded, InPut
    <3>5. QED
      BY <3>1, <3>2, <3>3, <3>4 DEF OfContext
  <2>9. QED
    BY <2>5, <2>6, <2>7, <2>8, <2>2 DEF EnumInv
<1>3. QED
  BY <1>1, <1>2 DEF RemoveExpired

\* What the cleaning of a context makes of it.
LEMMA CleanMembers ==
    ASSUME EnumInv, NEW c \in Contexts, CleanActiveContext(c)
    PROVE  LET x == ctx[c]
               y == ctx'[c]
               final == timeout.at = "giveup"
           IN  /\ ctx' \in [Contexts -> Context] /\ y \in Context
               /\ \A d \in Contexts \ {c} : ctx'[d] = ctx[d]
               /\ y.empties = x.empties /\ y.zeroPulls = x.zeroPulls
               /\ y.produced = x.produced /\ y.requests = x.requests
               /\ y.saved = NoClient /\ y.timer \in {"off", "on"}
               /\ final => y.closed /\ y.complete
               /\ ~final => y.complete = x.complete
               /\ x.closed => y.closed
               /\ ~y.closed => ~y.processing
               /\ y.closed => y.cache = 0 /\ y.delivered <= x.delivered + x.cache
               /\ ~y.closed =>
                     /\ y.delivered + y.cache = x.delivered + x.cache
                     /\ y.cache <= x.cache /\ y.ended = x.ended
               /\ y.ended = "complete" =>
                     \/ x.closed /\ y.ended = x.ended /\ y.delivered = x.delivered
                     \/ /\ ~x.closed /\ x.complete /\ y.closed
                        /\ y.delivered = x.delivered + x.cache
<1> DEFINE x == ctx[c]
           final == timeout.at = "giveup"
           y == [x EXCEPT !.savedCount = 0, !.complete = @ \/ final, !.error = @ \/ final]
           z == IF y.closed THEN IF y.complete THEN y ELSE [y EXCEPT !.timer = "on"]
                ELSE IF y.saved # NoClient THEN NoneSaved(Issued(y, 0)) ELSE y
           r == IF final THEN Closed(z) ELSE z
<1>1. /\ OfContext(c) /\ x \in Context /\ x.timer = "off"
      /\ x.closed => x.saved = NoClient /\ x.cache = 0
      /\ x.ended = "complete" => x.closed
      /\ x.closed \/ x.saved # NoClient
  BY DEF CleanActiveContext, EnumInv, Typed, OfContext, Cleaning, Cleaned, Counted, Serving,
         Bounded, Summed
<1>2. /\ x.empties \in Nat /\ x.complete \in BOOLEAN /\ x.error \in BOOLEAN
      /\ x.cache \in Nat /\ x.delivered \in Nat /\ x.closed \in BOOLEAN
  BY <1>1, MemberTypes
<1>3. ctx' = [ctx EXCEPT ![c] = r]
  BY DEF CleanActiveContext
<1> HIDE DEF r
<1>4. /\ y \in Context /\ y.empties = x.empties /\ y.complete = (x.complete \/ final)
      /\ y.error = (x.error \/ final) /\ y.closed = x.closed /\ y.processing = x.processing
      /\ y.cache = x.cache /\ y.saved = x.saved /\ y.timer = x.timer
      /\ y.zeroPulls = x.zeroPulls /\ y.produced = x.produced
      /\ y.delivered = x.delivered /\ y.ended = x.ended /\ y.requests = x.requests
  <2> DEFINE done == x.complete \/ final
             broken == x.error \/ final
  <2>1. y = [x EXCEPT !.savedCount = 0, !.complete = done, !.error = broken]
    BY <1>1 DEF Context
  <2>2. done \in BOOLEAN /\ broken \in BOOLEAN
    BY <1>2
  <2> HIDE DEF done, broken, y, final
  <2>3. /\ y \in Context /\ y.empties = x.empties /\ y.complete = done
        /\ y.error = broken /\ y.closed = x.closed /\ y.processing = x.processing
        /\ y.cache = x.cache /\ y.saved = x.saved /\ y.timer = x.timer
        /\ y.zeroPulls = x.zeroPulls /\ y.produced = x.produced
        /\ y.delivered = x.delivered /\ y.ended = x.ended /\ y.requests = x.requests
    BY <1>1, <2>1, <2>2 DEF Context
  <2>4. QED
    BY <2>3 DEF done, broken
<1> HIDE DEF y, final
<1>5. /\ z \in Context /\ z.empties = x.empties /\ z.zeroPulls = x.zeroPulls
      /\ z.produced = x.produced /\ z.requests = x.requests
      /\ z.saved = NoClient /\ z.timer \in {"off", "on"}
      /\ z.complete = (x.complete \/ final)
      /\ x.closed => z.closed
      /\ ~z.closed => ~z.processing
      /\ z.closed => z.cache = 0
      /\ z.delivered + z.cache <= x.delivered + x.cache /\ z.cache <= x.cache
      /\ ~z.closed => z.delivered + z.cache = x.delivered + x.cache /\ z.ended = x.ended
      /\ z.ended = "complete" =>
            \/ x.closed /\ z.ended = x.ended /\ z.delivered = x.delivered
            \/ /\ ~x.closed /\ x.complete /\ z.closed
               /\ z.delivered = x.delivered + x.cache
  <2>1. CASE x.closed
    <3>1. z = y \/ z = [y EXCEPT !.timer = "on"]
      BY <1>4, <2>1
    <3>2. /\ z \in Context /\ z.timer \in {y.timer, "on"}
          /\ z.empties = y.empties /\ z.complete = y.complete
          /\ z.closed = y.closed /\ z.cache = y.cache /\ z.saved = y.saved
          /\ z.zeroPulls = y.zeroPulls /\ z.produced = y.produced
          /\ z.delivered = y.delivered /\ z.ended = y.ended /\ z.requests = y.requests
      <4> HIDE DEF z
      <4>1. QED
        BY <1>4, <3>1 DEF Context
    <3> HIDE DEF z
    <3>3. QED
      BY <1>1, <1>2, <1>4, <2>1, <3>2
  <2>2. CASE ~x.closed /\ x.saved # NoClient
    <3> DEFINE w == Issued(y, 0)
    <3>1. z = NoneSaved(w) /\ ~y.closed
      BY <1>2, <1>4, <2>2
    <3> HIDE DEF z
    <3>2. AfterIssue(y, w)
      BY <1>4, <3>1, IssuedMembers
    <3> HIDE DEF w
    <3>3. /\ z \in Context /\ z.saved = NoClient /\ z.timer = w.timer
          /\ z.closed = w.closed /\ z.processing = w.processing
          /\ z.cache = w.cache /\ z.complete = w.complete
          /\ z.empties = w.empties /\ z.zeroPulls = w.zeroPulls
          /\ z.produced = w.produced /\ z.delivered = w.delivered
          /\ z.ended = w.ended /\ z.requests = w.requests
      BY <3>1, <3>2, SavedMembers DEF AfterIssue
    <3>4. w.delivered \in Nat /\ w.cache \in Nat /\ w.closed \in BOOLEAN
      BY <3>2, MemberTypes DEF AfterIssue
    <3>5. w.closed => w.cache = 0 /\ w.timer = y.timer
      BY <3>2 DEF AfterIssue
    <3>6. w.ended = "complete" =>
            x.complete /\ w.closed /\ w.delivered = x.delivered + x.cache
      <4>1. CASE w.closed
        BY <1>2, <1>4, <3>2, <4>1 DEF AfterIssue
      <4>2. CASE ~w.closed
        BY <1>1, <1>4, <2>2, <3>2, <4>2 DEF AfterIssue
      <4>3. QED
        BY <4>1, <4>2
    <3>7. w.delivered + w.cache <= x.delivered + x.cache
      BY <1>2, <1>4, <3>2, <3>4, <3>5 DEF AfterIssue
    <3>8. QED
      BY <1>1, <1>2, <1>4, <2>2, <3>2, <3>3, <3>4, <3>5, <3>6, <3>7 DEF AfterIssue
  <2>3. CASE ~x.closed /\ x.saved = NoClient
    BY <1>1, <2>3
  <2>4. QED
    BY <1>2, <2>1, <2>2, <2>3
<1> HIDE DEF z
<1>6. /\ r \in Context /\ r.empties = z.empties /\ r.zeroPulls = z.zeroPulls
      /\ r.produced = z.produced /\ r.requests = z.requests
      /\ r.saved = z.saved /\ r.timer = z.timer /\ r.complete = z.complete
      /\ r.delivered = z.delivered /\ r.ended = z.ended
      /\ IF final THEN r.closed /\ r.cache = 0 ELSE r = z
  <2>1. CASE final
    BY <1>5, <2>1, ClosedMembers DEF r
  <2>2. CASE ~final
    BY <1>5, <2>2 DEF r
  <2>3. QED
    BY <2>1, <2>2
<1>7. /\ ctx' \in [Contexts -> Context] /\ ctx'[c] = r
      /\ \A d \in Contexts \ {c} : ctx'[d] = ctx[d]
  BY <1>3, <1>6 DEF EnumInv, Typed
<1>8. /\ z.delivered \in Nat /\ z.cache \in Nat /\ z.closed \in BOOLEAN
  BY <1>5, MemberTypes
<1>9. /\ final => r.closed /\ r.complete
      /\ ~final => r.complete = x.complete
      /\ x.closed => r.closed
      /\ ~r.closed => ~r.processing
      /\ r.closed => r.cache = 0 /\ r.delivered <= x.delivered + x.cache
      /\ ~r.closed =>
            /\ r.delivered + r.cache = x.delivered + x.cache
            /\ r.cache <= x.cache /\ r.ended = x.ended
      /\ r.ended = "complete" =>
            \/ x.closed /\ r.ended = x.ended /\ r.delivered = x.delivered
            \/ ~x.closed /\ x.complete /\ r.closed /\ r.delivered = x.delivered + x.cache
  <2>1. CASE final
    <3>1. r.closed /\ r.cache = 0 /\ r.complete
      BY <1>5, <1>6, <2>1
    <3>2. r.delivered <= x.delivered + x.cache
      BY <1>2, <1>5, <1>6, <1>8
    <3>3. r.ended = "complete" =>
            \/ x.closed /\ r.ended = x.ended /\ r.delivered = x.delivered
            \/ ~x.closed /\ x.complete /\ r.delivered = x.delivered + x.cache
      BY <1>5, <1>6
    <3>4. QED
      BY <2>1, <3>1, <3>2, <3>3
  <2>2. CASE ~final
    BY <1>2, <1>5, <1>6, <1>8, <2>2
  <2>3. QED
    BY <2>1, <2>2
<1>10. QED
  BY <1>5, <1>6, <1>7, <1>9 DEF final

\* Providers that were silent too often are given up; they are at work then, because a
\* response clears the count, and so is the one that has just come.
LEMMA CountEmptyStep ==
    ASSUME EnumInv, FoundFresh, NEW c \in Contexts, CountEmpty(c)
    PROVE  EnumInv'
<1> DEFINE x == ctx[c]
           y == ctx'[c]
           final == x.empties + 1 >= FinalTargetCount
<1>1. /\ OfContext(c) /\ timeout.at = "clean" /\ c \in timeout.active /\ ~tableLock
      /\ timeout.on = {} /\ timeout.remove = {} /\ timeout \in TimeoutRecord
      /\ ctx \in [Contexts -> Context] /\ x \in Context
  BY DEF CountEmpty, EnumInv, Typed, Rounds
<1>2. /\ c \in Cleaned /\ ~GivingUp(c) /\ c \notin GivenUp
      /\ c \in table /\ c \in locked /\ x.timer = "off" /\ c \notin Expiring
      /\ c \notin overtaken /\ provider[c].at \notin {"none", "release", "remove", "asleep"}
      /\ \A k \in Clients : ~At(k, "issue", c) /\ ~Releases(k, c)
      /\ Found(c) = {}
      /\ x.closed \/ x.saved # NoClient
  <2>1. c \in Cleaned /\ ~GivingUp(c) /\ c \notin GivenUp
    BY <1>1 DEF Cleaned, GivingUp, GivenUp
  <2>2. /\ c \in table /\ c \in locked /\ x.timer = "off" /\ c \notin Expiring
        /\ c \notin overtaken /\ provider[c].at \notin {"none", "release", "remove", "asleep"}
        /\ \A k \in Clients : ~At(k, "issue", c) /\ ~Releases(k, c)
        /\ x.closed \/ x.saved # NoClient
    BY <1>1, <2>1 DEF OfContext, Unborn, Known, Cleaning, Serving
  <2>3. Found(c) = {}
    BY <1>1, <2>2 DEF OfContext, Looking
  <2>4. QED
    BY <2>1, <2>2, <2>3
<1>3. /\ x.empties \in Nat /\ x.closed \in BOOLEAN
      /\ FinalTargetCount \in Nat /\ FinalTargetCount > 2
  BY <1>1, MemberTypes, EnumerationAssumption
<1>4. /\ provider[c].at = "put" => x.empties = 0
      /\ provider[c].at = "check" => x.empties <= 1 /\ (x.closed \/ x.empties = 0)
      /\ x.empties < FinalTargetCount
  BY <1>1, <1>2, <1>3 DEF OfContext, Providing, Calm, Bounded
<1>5. /\ ctx' = [ctx EXCEPT ![c] = y] /\ y \in Context
      /\ y.empties = x.empties + 1 /\ y.timer = x.timer /\ y.saved = x.saved
      /\ y.closed = x.closed /\ y.complete = x.complete /\ y.processing = x.processing
      /\ y.cache = x.cache /\ y.zeroPulls = x.zeroPulls
      /\ y.produced = x.produced /\ y.delivered = x.delivered /\ y.ended = x.ended
      /\ y.requests = x.requests
  <2> DEFINE sum == x.empties + 1
  <2>1. ctx' = [ctx EXCEPT ![c].empties = sum] /\ sum \in Nat
    BY <1>1, <1>3 DEF CountEmpty
  <2> HIDE DEF sum
  <2>2. QED
    BY <1>1, <2>1 DEF Context, sum
<1> HIDE DEF y
<1>6. /\ timeout' \in TimeoutRecord
      /\ timeout'.at = (IF final THEN "giveup" ELSE "answer")
      /\ timeout'.on = {c} /\ timeout'.remove = {}
      /\ timeout'.active = timeout.active \ {c}
      /\ UNCHANGED <<table, freed, locked, tableLock, client, provider, overtaken>>
  <2> DEFINE step == IF final THEN "giveup" ELSE "answer"
  <2>1. /\ timeout' = [timeout EXCEPT !.at = step, !.active = @ \ {c}, !.on = {c}]
        /\ UNCHANGED <<table, freed, locked, tableLock, client, provider, overtaken>>
    BY DEF CountEmpty, lockVars
  <2>2. step \in {"giveup", "answer"}
    OBVIOUS
  <2> HIDE DEF step
  <2>3. /\ timeout' \in TimeoutRecord /\ timeout'.at = step
        /\ timeout'.on = {c} /\ timeout'.remove = {}
        /\ timeout'.active = timeout.active \ {c}
    BY <1>1, <2>1, <2>2 DEF TimeoutRecord
  <2>4. QED
    BY <2>1, <2>3 DEF step
<1> HIDE DEF final
<1>7. /\ Expiring' = Expiring /\ GivenUp' = GivenUp /\ Cleaned' = Cleaned
      /\ Counted = {} /\ Counted' = {c}
      /\ \A d \in Contexts : ~GivingUp(d) /\ (GivingUp(d)' <=> d = c /\ final)
  BY <1>1, <1>6 DEF Expiring, GivenUp, Cleaned, Counted, GivingUp
<1>8. Typed'
  BY <1>1, <1>5, <1>6 DEF EnumInv, Typed
<1>9. TableLocked' /\ Rounds'
  <2>1. timeout'.at \in {"giveup", "answer"}
    BY <1>6
  <2>2. QED
    BY <1>1, <1>6, <2>1 DEF EnumInv, TableLocked, Rounds
<1>10. ASSUME NEW d \in Contexts, d # c PROVE OfContext(d)'
  <2>1. Still(d)
    BY <1>1, <1>5, <1>6, <1>7, <1>10 DEF Still
  <2>2. QED
    BY <2>1, <1>10, Untouched DEF EnumInv
<1>11. OfContext(c)'
  <2>1. ctx'[c] = y
    BY <1>1, <1>5
  <2>2. Looking(c)' /\ Found(c)' = {}
    BY <1>2, <1>6 DEF Looking, Found, At
  <2>3. Unborn(c)' /\ Known(c)'
    BY <1>1, <1>2, <1>5, <1>6, <2>1 DEF OfContext, Unborn, Known
  <2>4. Serving(c)'
    BY <1>1, <1>2, <1>5, <1>6, <2>1 DEF OfContext, Serving, At
  <2>5. Cleaning(c)'
    <3>1. \A k \in Clients : ~Releases(k, c)'
      BY <1>2, <1>6 DEF Releases, At
    <3>2. final => provider[c].at \in {"running", "done"}
      <4>1. provider[c].at \in ProviderSteps
        BY DEF EnumInv, Typed, ProviderRecord
      <4>2. QED
        BY <1>2, <1>3, <1>4, <4>1 DEF ProviderSteps, final
    <3>3. QED
      BY <1>2, <1>5, <1>6, <1>7, <2>1, <3>1, <3>2 DEF Cleaning
  <2>6. Removing(c)'
    <3>1. \A k \in Clients : ~Releases(k, c)'
      BY <1>2, <1>6 DEF Releases, At
    <3>2. QED
      BY <1>2, <1>6, <1>7, <3>1 DEF Removing, Releases
  <2>7. Providing(c)'
    <3>1. Calm(c)'
      BY <1>2, <1>5, <1>6, <2>1 DEF Calm
    <3>2. QED
      BY <1>1, <1>2, <1>3, <1>4, <1>5, <1>6, <1>7, <2>1, <3>1 DEF OfContext, Providing
  <2>8. Summed(c)'
    BY <1>1, <1>5, <1>6, <2>1 DEF OfContext, Summed, InPut
  <2>9. Bounded(c)'
    <3>1. y.empties <= FinalTargetCount /\ (~final => y.empties < FinalTargetCount)
      BY <1>3, <1>4, <1>5 DEF final
    <3>2. QED
      BY <1>1, <1>5, <1>6, <1>7, <2>1, <2>2, <3>1 DEF OfContext, Bounded
  <2>10. QED
    BY <2>2, <2>3, <2>4, <2>5, <2>6, <2>7, <2>8, <2>9 DEF OfContext
<1>12. QED
  BY <1>8, <1>9, <1>10, <1>11 DEF EnumInv

\* What the client still waits for is answered, and the context unlocked.
LEMMA CleanStep ==
    ASSUME EnumInv, FoundFresh, NEW c \in Contexts, CleanActiveContext(c)
    PROVE  EnumInv'
<1> DEFINE x == ctx[c]
           y == ctx'[c]
           final == timeout.at = "giveup"
<1>1. /\ OfContext(c) /\ c \in Cleaned /\ c \in table /\ c \in locked
      /\ timeout.at \in {"answer", "giveup"} /\ timeout.on = {c} /\ timeout.remove = {}
      /\ c \notin timeout.active /\ c \notin GivenUp /\ (GivingUp(c) <=> final)
      /\ c \notin Expiring
      /\ provider[c].at \notin {"none", "release", "remove", "asleep"}
      /\ \A k \in Clients : ~Releases(k, c) /\ ~At(k, "issue", c)
      /\ ~final => x.empties < FinalTargetCount /\ c \notin overtaken
      /\ final => c \in overtaken \/ provider[c].at \in {"running", "done"}
      /\ Found(c) = {}
  <2>1. /\ OfContext(c) /\ timeout.at \in {"answer", "giveup"} /\ c \in timeout.on
        /\ timeout.on = {c} /\ timeout.remove = {} /\ c \notin timeout.active
    BY DEF CleanActiveContext, EnumInv, Rounds
  <2>2. c \in Cleaned /\ c \notin GivenUp /\ (GivingUp(c) <=> final)
    BY <2>1 DEF Cleaned, Counted, GivenUp, GivingUp
  <2>3. /\ c \in table /\ c \in locked /\ c \notin Expiring
        /\ provider[c].at \notin {"none", "release", "remove", "asleep"}
        /\ \A k \in Clients : ~Releases(k, c) /\ ~At(k, "issue", c)
        /\ ~final => x.empties < FinalTargetCount /\ c \notin overtaken
        /\ final => c \in overtaken \/ provider[c].at \in {"running", "done"}
    BY <2>1, <2>2 DEF OfContext, Unborn, Known, Serving, Cleaning, Bounded
  <2>4. Found(c) = {}
    BY <2>1, <2>3 DEF OfContext, Looking
  <2>5. QED
    BY <2>1, <2>2, <2>3, <2>4
<1>2. /\ ctx' \in [Contexts -> Context] /\ y \in Context
      /\ \A d \in Contexts \ {c} : ctx'[d] = ctx[d]
      /\ y.empties = x.empties /\ y.zeroPulls = x.zeroPulls
      /\ y.produced = x.produced /\ y.requests = x.requests
      /\ y.saved = NoClient /\ y.timer \in {"off", "on"}
      /\ final => y.closed /\ y.complete
      /\ ~final => y.complete = x.complete
      /\ x.closed => y.closed
      /\ ~y.closed => ~y.processing
      /\ y.closed => y.cache = 0 /\ y.delivered <= x.delivered + x.cache
      /\ ~y.closed =>
            /\ y.delivered + y.cache = x.delivered + x.cache
            /\ y.cache <= x.cache /\ y.ended = x.ended
      /\ y.ended = "complete" =>
            \/ x.closed /\ y.ended = x.ended /\ y.delivered = x.delivered
            \/ /\ ~x.closed /\ x.complete /\ y.closed
               /\ y.delivered = x.delivered + x.cache
  BY CleanMembers
<1>3. /\ x.cache \in Nat /\ x.delivered \in Nat /\ x.produced \in Nat
      /\ y.cache \in Nat /\ y.delivered \in Nat
      /\ x.closed \in BOOLEAN /\ y.closed \in BOOLEAN
      /\ x.empties \in Nat /\ CacheLimit \in Nat /\ FinalTargetCount \in Nat
      /\ \A k \in Clients : k # NoClient
  BY <1>2, MemberTypes, EnumerationAssumption DEF EnumInv, Typed, NoClient
<1>4. /\ provider' = provider
      /\ UNCHANGED <<table, freed, tableLock, overtaken>>
  <2>1. PICK b : Signal(c, b)
    BY DEF CleanActiveContext
  <2>2. Woken(c, b) = provider[c].at
    BY <1>1 DEF Woken
  <2>3. provider' = [provider EXCEPT ![c].at = provider[c].at]
    BY <2>1, <2>2 DEF Signal
  <2>4. provider' = provider
    BY <2>3 DEF EnumInv, Typed, ProviderRecord
  <2>5. QED
    BY <2>4 DEF CleanActiveContext
<1>5. /\ locked' = locked \ {c}
      /\ timeout' = [timeout EXCEPT !.at = IF final THEN "discard" ELSE "clean",
                                    !.on = IF final THEN @ ELSE {}]
      /\ IF x.closed THEN UNCHANGED client ELSE Answered(c)
  BY DEF CleanActiveContext
<1> HIDE DEF y
<1>6. /\ timeout' \in TimeoutRecord
      /\ timeout'.at = (IF final THEN "discard" ELSE "clean")
      /\ timeout'.on = (IF final THEN {c} ELSE {})
      /\ timeout'.remove = {} /\ timeout'.active = timeout.active
  <2> DEFINE step == IF final THEN "discard" ELSE "clean"
             on == IF final THEN {c} ELSE {}
  <2>1. timeout' = [timeout EXCEPT !.at = step, !.on = on]
    BY <1>1, <1>5
  <2>2. step \in {"discard", "clean"} /\ on \subseteq Contexts
    OBVIOUS
  <2> HIDE DEF step, on
  <2>3. /\ timeout' \in TimeoutRecord /\ timeout'.at = step /\ timeout'.on = on
        /\ timeout'.remove = timeout.remove /\ timeout'.active = timeout.active
    BY <2>1, <2>2 DEF EnumInv, Typed, TimeoutRecord
  <2>4. QED
    BY <1>1, <2>3 DEF step, on
<1>7. /\ Expiring' = Expiring /\ Counted = {c} /\ Counted' = {}
      /\ Cleaned' = Cleaned \ {c} /\ GivenUp = {}
      /\ GivenUp' = (IF final THEN {c} ELSE {})
      /\ \A d \in Contexts : GivingUp(d)' <=> GivingUp(d)
  BY <1>1, <1>6 DEF Expiring, Counted, Cleaned, GivenUp, GivingUp
<1> HIDE DEF final
<1>8. /\ client' \in [Clients -> ClientRecord]
      /\ \A k \in Clients :
            \/ client'[k] = client[k] /\ x.saved # k
            \/ /\ client[k].at = "waiting" /\ client[k].on = {c}
               /\ client'[k].at = "idle" /\ client'[k].on = {}
  <2>1. CASE x.closed
    <3>1. client' = client
      BY <1>5, <2>1
    <3>2. x.saved = NoClient
      BY <1>1, <2>1 DEF OfContext, Serving
    <3>3. QED
      BY <1>3, <3>1, <3>2 DEF EnumInv, Typed
  <2>2. CASE ~x.closed
    BY <1>5, <2>2, AnsweredClient
  <2>3. QED
    BY <2>1, <2>2
<1>9. Typed'
  BY <1>2, <1>4, <1>5, <1>6, <1>8 DEF EnumInv, Typed
<1>10. TableLocked' /\ Rounds'
  BY <1>1, <1>4, <1>5, <1>6, <1>8 DEF EnumInv, TableLocked, Rounds
<1>11. ASSUME NEW d \in Contexts, d # c PROVE OfContext(d)'
  <2>1. /\ \A k \in Clients : \/ client'[k] = client[k]
                              \/ client[k].on # {d} /\ client'[k].on # {d}
        /\ (d \in locked' <=> d \in locked) /\ d \notin GivenUp /\ d \notin GivenUp'
    BY <1>5, <1>7, <1>8, <1>11
  <2>2. Still(d)
    BY <1>1, <1>2, <1>4, <1>6, <1>7, <1>11, <2>1 DEF Still
  <2>3. QED
    BY <2>2, <1>11, Untouched DEF EnumInv
<1>12. OfContext(c)'
  <2>1. ctx'[c] = y
    BY DEF y
  <2>2. Looking(c)' /\ Found(c)' = {}
    BY <1>1, <1>8 DEF Looking, Found, At
  <2>3. Unborn(c)' /\ Known(c)'
    BY <1>1, <1>2, <1>4, <2>1 DEF OfContext, Unborn, Known
  <2>4. Serving(c)'
    <3>1. \A k \in Clients : ~At(k, "issue", c)' /\ ~At(k, "waiting", c)'
      BY <1>1, <1>8 DEF OfContext, Serving, At
    <3>2. QED
      BY <1>2, <1>3, <2>1, <3>1 DEF Serving
  <2>5. Cleaning(c)'
    <3>1. \A k \in Clients : ~Releases(k, c)'
      BY <1>1, <1>8 DEF Releases, At
    <3>2. c \notin Cleaned' /\ (c \in GivenUp' => final) /\ (c \in overtaken => final)
      BY <1>1, <1>7
    <3>3. QED
      BY <1>1, <1>2, <1>4, <1>7, <2>1, <3>1, <3>2 DEF Cleaning
  <2>6. Removing(c)'
    <3>1. \A k \in Clients : ~Releases(k, c)' /\ ~At(k, "release", c)'
      BY <1>1, <1>8 DEF Releases, At
    <3>2. provider'[c].at \notin {"release", "remove"}
      BY <1>1, <1>4
    <3>3. c \notin Expiring' /\ c \notin timeout'.remove
      BY <1>1, <1>6, <1>7
    <3>4. QED
      BY <3>1, <3>2, <3>3 DEF Removing
  <2>7. Providing(c)'
    <3>1. Calm(c)'
      BY <1>1, <1>2, <1>6, <2>1 DEF Calm
    <3>2. CASE final
      BY <1>1, <1>2, <1>4, <1>7, <2>1, <3>1, <3>2 DEF OfContext, Providing
    <3>3. CASE ~final
      BY <1>1, <1>2, <1>4, <1>7, <2>1, <3>1, <3>3 DEF OfContext, Providing
    <3>4. QED
      BY <3>2, <3>3
  <2>8. Summed(c)'
    <3>1. InPut(c)' = InPut(c) /\ InPut(c) \in {0, 1}
      BY <1>4 DEF InPut, EnumInv, Typed, ProviderRecord
    <3>2. y.ended = "complete" => y.closed /\ y.complete /\ y.delivered = y.produced
      <4>1. ASSUME x.closed, y.ended = x.ended, y.ended = "complete",
                   y.delivered = x.delivered
            PROVE  y.closed /\ y.complete /\ y.delivered = y.produced
        BY <1>1, <1>2, <4>1 DEF OfContext, Summed
      <4>2. ASSUME x.complete, y.closed, y.delivered = x.delivered + x.cache, ~x.closed
            PROVE  y.closed /\ y.complete /\ y.delivered = y.produced
        <5>1. InPut(c) = 0
          BY <1>1, <4>2 DEF OfContext, Providing, InPut
        <5>2. QED
          <6>1. x.delivered + x.cache = x.produced - 0
            BY <1>1, <4>2, <5>1 DEF OfContext, Summed
          <6>2. y.complete
            BY <1>2, <4>2
          <6>3. QED
            BY <1>2, <1>3, <4>2, <6>1, <6>2
      <4>3. QED
        BY <1>2, <4>1, <4>2
    <3>3. QED
      <4>1. y.ended = "complete" => provider'[c].at \in {"done", "release", "remove"}
        BY <1>1, <1>2, <1>4 DEF OfContext, Providing, Summed
      <4>2. QED
        BY <1>1, <1>2, <1>3, <2>1, <3>1, <3>2, <4>1 DEF OfContext, Summed
  <2>9. Bounded(c)'
    <3>1. x.closed => x.cache = 0
      BY <1>1 DEF OfContext, Bounded
    <3>2. ~x.closed => x.delivered + x.cache <= x.produced
      <4>1. InPut(c) \in {0, 1}
        BY DEF InPut, EnumInv, Typed, ProviderRecord
      <4>2. QED
        BY <1>1, <1>3, <4>1 DEF OfContext, Summed
    <3>3. y.delivered <= x.produced
      BY <1>1, <1>2, <1>3, <3>1, <3>2 DEF OfContext, Bounded
    <3>4. y.cache <= x.cache
      BY <1>2, <1>3
    <3>5. QED
      BY <1>1, <1>2, <1>3, <1>4, <1>7, <2>1, <2>2, <3>3, <3>4 DEF OfContext, Bounded
  <2>10. QED
    BY <2>2, <2>3, <2>4, <2>5, <2>6, <2>7, <2>8, <2>9 DEF OfContext
<1>13. QED
  BY <1>9, <1>10, <1>11, <1>12 DEF EnumInv

\* The context whose providers are given up is deleted, whoever else is about to remove it.
LEMMA RemoveGivenUpStep ==
    ASSUME EnumInv, FoundFresh, RemoveGivenUp
    PROVE  EnumInv'
<1>1. PICK c \in timeout.on :
        /\ timeout.at = "discard" /\ Removes(c)
        /\ timeout' = [timeout EXCEPT !.at = "clean", !.on = {}]
        /\ UNCHANGED <<ctx, locked, tableLock, client, provider, overtaken>>
  BY DEF RemoveGivenUp, lockVars
<1>2. /\ c \in Contexts /\ OfContext(c) /\ timeout.on = {c} /\ timeout.remove = {}
      /\ c \notin timeout.active /\ timeout \in TimeoutRecord
      /\ c \in GivenUp /\ GivingUp(c) /\ c \notin Cleaned
  BY <1>1 DEF EnumInv, Typed, Rounds, GivenUp, GivingUp, Cleaned, Counted, TimeoutRecord
<1>3. /\ ctx[c].closed /\ ctx[c].complete /\ c \notin Expiring
      /\ c \in table \cup freed /\ Found(c) = {} /\ provider[c].at # "asleep"
      /\ provider[c].at # "none"
      /\ c \in overtaken \/ provider[c].at \in {"running", "done"}
      /\ \A k \in Clients : ~Releases(k, c)
  BY <1>2 DEF OfContext, Cleaning, Unborn, Known, Looking, Providing
<1>4. table' = table \ {c} /\ freed' = freed \cup {c}
  BY <1>1, <1>3 DEF Removes, Removed
<1>5. /\ timeout' \in TimeoutRecord /\ timeout'.at = "clean" /\ timeout'.on = {}
      /\ timeout'.remove = timeout.remove /\ timeout'.active = timeout.active
  BY <1>1, <1>2 DEF TimeoutRecord
<1>6. /\ Expiring' = Expiring /\ Counted' = Counted /\ Cleaned' = Cleaned
      /\ GivenUp = {c} /\ GivenUp' = {}
      /\ \A d \in Contexts : ~GivingUp(d)' /\ (GivingUp(d) <=> d = c)
  BY <1>1, <1>2, <1>5 DEF Expiring, Counted, Cleaned, GivenUp, GivingUp
<1>7. Typed'
  BY <1>1, <1>2, <1>4, <1>5 DEF EnumInv, Typed
<1>8. TableLocked' /\ Rounds'
  BY <1>1, <1>2, <1>5 DEF EnumInv, TableLocked, Rounds
<1>9. ASSUME NEW d \in Contexts, d # c PROVE OfContext(d)'
  <2>1. Still(d)
    BY <1>1, <1>4, <1>5, <1>6, <1>9 DEF Still
  <2>2. QED
    BY <2>1, <1>9, Untouched DEF EnumInv
<1>10. OfContext(c)'
  <2>1. Looking(c)' /\ Found(c)' = {}
    BY <1>1, <1>3 DEF Looking, Found, At
  <2>2. Unborn(c)' /\ Known(c)' /\ Serving(c)'
    BY <1>1, <1>2, <1>3, <1>4, <1>6 DEF OfContext, Unborn, Known, Serving, At
  <2>3. Cleaning(c)'
    BY <1>2, <1>4, <1>6 DEF Cleaning
  <2>4. Removing(c)'
    <3>1. \A k \in Clients : ~Releases(k, c)'
      BY <1>1, <1>3 DEF Releases, At
    <3>2. QED
      BY <1>1, <1>2, <1>3, <1>5, <1>6, <3>1 DEF OfContext, Removing, Releases
  <2>5. Providing(c)'
    BY <1>1, <1>3, <1>4 DEF Providing
  <2>6. Summed(c)' /\ Bounded(c)'
    BY <1>1, <1>2, <1>4, <2>1 DEF OfContext, Summed, Bounded, InPut
  <2>7. QED
    BY <2>1, <2>2, <2>3, <2>4, <2>5, <2>6 DEF OfContext
<1>11. QED
  BY <1>7, <1>8, <1>9, <1>10 DEF EnumInv

\* The end of a round, and of the timer thread.
LEMMA RoundEndsStep ==
    ASSUME EnumInv, EndScan \/ ThreadExit \/ UNCHANGED vars
    PROVE  EnumInv'
<1>1. /\ UNCHANGED <<ctx, table, freed, locked, tableLock, client, provider, overtaken>>
      /\ timeout'.remove = timeout.remove /\ timeout'.active = timeout.active
      /\ timeout'.on = timeout.on /\ timeout' \in TimeoutRecord
      /\ \/ timeout'.at = timeout.at
         \/ timeout'.at \in {"exit", "sleep", "stopped"} /\ timeout.at \in {"clean", "exit"}
            /\ timeout.active = {}
  BY DEF EndScan, ThreadExit, vars, lockVars, EnumInv, Typed, Rounds, TimeoutRecord
<1>2. \A c \in Contexts : OfContext(c)'
  <2>1. TimerStill
    BY <1>1 DEF Expiring, Counted, GivenUp, Cleaned, GivingUp
  <2>2. \A c \in Contexts : Still(c)
    BY <1>1, <2>1 DEF Still
  <2>3. QED
    BY <2>2, Untouched DEF EnumInv
<1>3. Typed'
  BY <1>1 DEF EnumInv, Typed
<1>4. TableLocked'
  BY <1>1 DEF EnumInv, TableLocked
<1>5. Rounds'
  BY <1>1 DEF EnumInv, Rounds
<1>6. QED
  BY <1>2, <1>3, <1>4, <1>5 DEF EnumInv

\* A request of a client keeps the invariant.
LEMMA RequestStep ==
    ASSUME EnumInv, FoundFresh, Harmless, NEW k \in Clients, NEW c \in Contexts, Request(k, c)
    PROVE  EnumInv'
<1>1. CASE \E n \in Counts : Open(k, c, n)
  BY <1>1, OpenStep
<1>2. CASE \E n \in Counts : Find(k, c, "pull", n)
  BY <1>2, FindStep
<1>3. CASE Find(k, c, "close", 0)
  BY <1>3, FindStep
<1>4. CASE Find(k, c, "wrongpull", 0)
  <2>1. ~ctx[c].processing
    BY <1>4 DEF Harmless
  <2>2. QED
    BY <1>4, <2>1, FindStep
<1>5. QED
  BY <1>1, <1>2, <1>3, <1>4 DEF Request

\* A step of a request thread does.
LEMMA ClientThreadStep ==
    ASSUME EnumInv, FoundFresh, NEW k \in Clients, ClientStep(k)
    PROVE  EnumInv'
<1>1. PICK c \in Contexts :
          \/ IssueNow(k, c)
          \/ IssueLater(k, c)
          \/ ReleaseContext(k, c)
          \/ PullOfWrongType(k, c)
          \/ PullWhileProcessing(k, c)
          \/ PullTimedOut(k, c)
          \/ PullAccepted(k, c)
          \/ CloseRejected(k, c)
          \/ CloseAccepted(k, c)
  BY DEF ClientStep
<1>2. CASE IssueNow(k, c)
  BY <1>2, IssueNowStep
<1>3. CASE IssueLater(k, c)
  BY <1>3, IssueLaterStep
<1>4. CASE ReleaseContext(k, c)
  <2>1. CASE At(k, "release", c) /\ Unlocks(c) /\ Goto(k, "remove")
             /\ UNCHANGED <<table, freed, ctx, provider, timeout, overtaken>>
    BY <2>1, ReleaseStep
  <2>2. CASE At(k, "remove", c) /\ Removes(c) /\ client' = [client EXCEPT ![k] = Idle]
             /\ tableLock' = FALSE
             /\ UNCHANGED <<locked, ctx, provider, timeout, overtaken>>
    BY <2>2, RemoveStep
  <2>3. QED
    BY <1>4, <2>1, <2>2 DEF ReleaseContext
<1>5. CASE \/ PullOfWrongType(k, c) \/ PullWhileProcessing(k, c) \/ PullTimedOut(k, c)
           \/ CloseRejected(k, c)
  BY <1>5, RejectedStep
<1>6. CASE PullAccepted(k, c)
  BY <1>6, PullAcceptedStep
<1>7. CASE CloseAccepted(k, c)
  BY <1>7, CloseAcceptedStep
<1>8. QED
  BY <1>1, <1>2, <1>3, <1>4, <1>5, <1>6, <1>7

\* The invariant is inductive.
LEMMA StepInv == EnumInv /\ [DisciplinedNext]_vars => EnumInv'
<1> SUFFICES ASSUME EnumInv, [DisciplinedNext]_vars
             PROVE  EnumInv'
  OBVIOUS
<1>1. CASE UNCHANGED vars
  BY <1>1, RoundEndsStep
<1>2. CASE DisciplinedNext
  <2>1. FoundFresh /\ Harmless /\ ResponsePrompt
    BY <1>2 DEF DisciplinedNext
  <2>2. CASE \E k \in Clients, c \in Contexts : Request(k, c)
    BY <2>1, <2>2, RequestStep
  <2>3. CASE \E k \in Clients : ClientStep(k)
    BY <2>1, <2>3, ClientThreadStep
  <2>4. CASE \E c \in Contexts : Deliver(c)
    BY <2>1, <2>4, DeliverStep
  <2>5. CASE \E c \in Contexts : ProviderStep(c)
    <3>1. PICK c \in Contexts : ProviderStep(c)
      BY <2>5
    <3>2. QED
      BY <2>1, <3>1, DiscardWaitStep, PutStep, ProviderReleasesStep DEF ProviderStep
  <2>6. CASE \E c \in Contexts : Expire(c)
    BY <2>1, <2>6, ExpireStep
  <2>7. CASE TimerStep
    BY <2>1, <2>7, ScanStep, RemoveExpiredStep, CountEmptyStep, CleanStep,
       RemoveGivenUpStep, RoundEndsStep
    DEF TimerStep
  <2>8. QED
    BY <1>2, <2>2, <2>3, <2>4, <2>5, <2>6, <2>7 DEF DisciplinedNext, Next
<1>3. QED
  BY <1>1, <1>2

\* It holds in every state under the timing assumptions.
LEMMA Invariant == DisciplinedSpec => []EnumInv
BY InitInv, StepInv, PTL DEF DisciplinedSpec
-----------------------------------------------------------------------------
\* The members of the contexts, the tables and the locks have their types and bounds: the
\* cache is over its limit by one response at most, and providers are given up after
\* FinalTargetCount empty responses.
THEOREM TypeCorrect == DisciplinedSpec => []TypeOK
<1>1. EnumInv => TypeOK
  <2> SUFFICES ASSUME EnumInv
               PROVE  TypeOK
    OBVIOUS
  <2>1. CacheLimit \in Nat /\ FinalTargetCount \in Nat /\ MaxObjects \in Nat
        /\ MaxRequests \in Nat
    BY EnumerationAssumption
  <2>2. \A c \in Contexts :
            /\ ctx[c] \in Context
            /\ ctx[c].cache \in 0..(CacheLimit + 1)
            /\ ctx[c].empties \in 0..FinalTargetCount
            /\ ctx[c].zeroPulls \in 0..MaxRequests
            /\ ctx[c].produced \in 0..MaxObjects /\ ctx[c].delivered \in 0..MaxObjects
            /\ ctx[c].requests \in 0..MaxRequests
    <3> SUFFICES ASSUME NEW c \in Contexts
                 PROVE  /\ ctx[c] \in Context
                        /\ ctx[c].cache \in 0..(CacheLimit + 1)
                        /\ ctx[c].empties \in 0..FinalTargetCount
                        /\ ctx[c].zeroPulls \in 0..MaxRequests
                        /\ ctx[c].produced \in 0..MaxObjects
                        /\ ctx[c].delivered \in 0..MaxObjects
                        /\ ctx[c].requests \in 0..MaxRequests
      OBVIOUS
    <3>1. ctx[c] \in Context /\ Bounded(c)
      BY DEF EnumInv, Typed, OfContext
    <3>2. /\ ctx[c].cache \in Nat /\ ctx[c].empties \in Nat /\ ctx[c].zeroPulls \in Nat
          /\ ctx[c].produced \in Nat /\ ctx[c].delivered \in Nat /\ ctx[c].requests \in Nat
      BY <3>1, MemberTypes
    <3>3. QED
      BY <2>1, <3>1, <3>2 DEF Bounded
  <2>3. QED
    BY <2>2 DEF EnumInv, Typed, TypeOK, Context
<1>2. QED
  BY <1>1, Invariant, PTL

\* One thread removes a context, and only after the client and the providers have done
\* with it: no request is saved in it, and no provider waits in it.  The contexts for
\* which that fails are the ones whose providers answered while they were given up.
THEOREM RemovedByOne == DisciplinedSpec => []ReleasedOnce
<1>1. EnumInv => ReleasedOnce
  <2> SUFFICES ASSUME EnumInv, NEW c \in Contexts, c \notin overtaken, Removers(c) # {}
               PROVE  /\ Cardinality(Removers(c)) = 1
                      /\ c \in table /\ ctx[c].closed /\ ctx[c].complete
                      /\ ctx[c].saved = NoClient
                      /\ provider[c].at \notin {"put", "check", "asleep"}
    BY DEF ReleasedOnce
  <2>1. /\ Removing(c) /\ Serving(c)
        /\ c \in GivenUp =>
              /\ c \in table /\ ctx[c].closed /\ ctx[c].complete
              /\ provider[c].at \in {"running", "done"} /\ c \notin Expiring
              /\ \A k \in Clients : ~Releases(k, c)
    BY GivingUpWhen DEF EnumInv, OfContext, Cleaning
  <2>2. Removers(c) = {k \in Clients : Releases(k, c)}
            \cup (IF provider[c].at \in {"release", "remove"} THEN {"provider"} ELSE {})
            \cup (IF c \in Expiring \cup GivenUp THEN {"timer"} ELSE {})
    BY DEF Removers, Releases, Expiring, GivenUp
  <2>3. /\ c \in table /\ ctx[c].closed /\ ctx[c].complete
        /\ provider[c].at \notin {"put", "check", "asleep"}
    BY <2>1, <2>2 DEF Removing
  <2>4. \E r : Removers(c) = {r}
    <3>1. CASE \E k \in Clients : Releases(k, c)
      <4>1. PICK k \in Clients : Releases(k, c)
        BY <3>1
      <4>2. Removers(c) = {k}
        BY <2>1, <2>2, <4>1 DEF Removing
      <4>3. QED
        BY <4>2
    <3>2. CASE provider[c].at \in {"release", "remove"}
      <4>1. Removers(c) = {"provider"}
        BY <2>1, <2>2, <3>2 DEF Removing
      <4>2. QED
        BY <4>1
    <3>3. CASE c \in Expiring \cup GivenUp
      <4>1. Removers(c) = {"timer"}
        BY <2>1, <2>2, <3>3 DEF Removing
      <4>2. QED
        BY <4>1
    <3>4. QED
      BY <2>2, <3>1, <3>2, <3>3
  <2>5. Cardinality(Removers(c)) = 1
    BY <2>4, FS_Singleton
  <2>6. QED
    BY <2>1, <2>3, <2>5 DEF Serving
<1>2. QED
  BY <1>1, Invariant, PTL

\* No object is lost: a client that was told that the enumeration is complete has all that
\* the providers delivered, and while the context is open the rest is in the cache.
THEOREM ObjectsKept == DisciplinedSpec => []NothingLost
<1>1. EnumInv => NothingLost
  BY DEF EnumInv, OfContext, Summed, InPut, NothingLost
<1>2. QED
  BY <1>1, Invariant, PTL

\* The timer thread cleans only contexts that are in the table, locked by it, and closed
\* or in use by a request that is saved (PEGASUS_DEBUG_ASSERT in _cleanActiveContext).
CleanedInUse ==
    \A c \in Contexts :
        c \in timeout.active \/ (timeout.at \in {"answer", "giveup"} /\ c \in timeout.on) =>
            /\ c \in table \cap locked
            /\ ctx[c].closed \/ (ctx[c].processing /\ ctx[c].saved # NoClient)

\* The assertion of the timer thread holds in every round.
THEOREM CleanedWhileInUse == DisciplinedSpec => []CleanedInUse
<1>1. EnumInv => CleanedInUse
  BY DEF EnumInv, Typed, TimeoutRecord, OfContext, Serving, Cleaning, Cleaned, Counted,
         CleanedInUse
<1>2. QED
  BY <1>1, Invariant, PTL
=============================================================================
