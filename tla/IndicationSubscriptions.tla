---------------------- MODULE IndicationSubscriptions ----------------------
(***************************************************************************)
(* Creating and deleting enabled subscriptions while indications arrive    *)
(* (IndicationService/IndicationService.cpp).  A subscription that is      *)
(* being created is in the normalized table and counted as uncommitted; it *)
(* is then in the repository and in the table of active subscriptions,     *)
(* which indications are matched against.  A provider may generate         *)
(* indications for it as soon as it is asked to serve it, so indications   *)
(* wait while any creation is uncommitted; the thread that ends the last   *)
(* one delivers them.                                                      *)
(*                                                                         *)
(* Several threads handle requests at once.  Each generating thread waits  *)
(* for the response to an indication before it sends the next one          *)
(* (DeliveryStatus).  A subscription may be created several times; its     *)
(* incarnations are counted to tell its indications apart.                 *)
(***************************************************************************)
EXTENDS Integers, Sequences, FiniteSets

CONSTANTS
    Clients,            \* threads that handle create and delete requests
    Subscriptions,      \* paths of subscriptions
    DeletesHappen,      \* whether subscriptions are deleted as well
    MaxCreations,       \* bound: creations begun for one path
    MaxIndications      \* bound: indications generated

ASSUME SubscriptionAssumption ==
    /\ IsFiniteSet(Clients)
    /\ DeletesHappen \in BOOLEAN
    /\ MaxCreations \in Nat \ {0}
    /\ MaxIndications \in Nat

VARIABLES
    normalized,     \* _normalizedSubscriptionTable
    uncommitted,    \* _uncommittedCreateSubscriptionRequests
    repository,     \* incarnation of each path in the repository, or 0
    active,         \* subscriptions in the SubscriptionTable
    serving,        \* incarnation for which the providers serve a path, or 0
    client,         \* what each thread does, for which path and incarnation
    waiting,        \* _deliveryWaitIndications
    indication,     \* the indications and how far they are
    begun,          \* history: creations begun for each path
    ended,          \* history: incarnations cancelled or deleted
    astray          \* history: paths for which the active table went wrong

tableVars   == <<normalized, uncommitted, repository, active>>
historyVars == <<begun, ended, astray>>
vars == <<tableVars, serving, client, waiting, indication, historyVars>>

Indications == 1..MaxIndications

NotCreating == uncommitted = 0

Goto(c, step) == client' = [client EXCEPT ![c].at = step]

\* A thread is at its next step, for incarnation inc of the path in sub, or for
\* the indication ind.
Resting == [at |-> "idle", sub |-> {}, inc |-> 0, ind |-> 0]

Idle(c) == client' = [client EXCEPT ![c] = Resting]

\* It goes on to deliver the indications that wait.
GoDrain(c) == client' = [client EXCEPT ![c] = [Resting EXCEPT !.at = "drain"]]

At(c, step, s) == client[c].at = step /\ client[c].sub = {s}

\* Some thread is at one of these steps for the path.
Busy(steps, s) == \E c \in Clients : client[c].at \in steps /\ client[c].sub = {s}

Deletions == {"deleted", "deactivate"}
-----------------------------------------------------------------------------
Init ==
    /\ normalized = [s \in Subscriptions |-> "absent"]
    /\ uncommitted = 0
    /\ repository = [s \in Subscriptions |-> 0]
    /\ active = {}
    /\ serving = [s \in Subscriptions |-> 0]
    /\ client = [c \in Clients |-> Resting]
    /\ waiting = <<>>
    /\ indication = [i \in Indications |->
                        [at |-> "none", sub |-> {}, incarnation |-> 0]]
    /\ begun = [s \in Subscriptions |-> 0]
    /\ ended = {}
    /\ astray = {}

\* The path is neither a subscription nor being created.
Unknown(s) == normalized[s] = "absent"

\* _handleCreateInstanceRequest and beginCreateSubscription.  A path that is
\* known is refused with an exception.
BeginCreate(c, s) ==
    /\ client[c].at = "idle"
    /\ begun[s] < MaxCreations
    /\ Unknown(s)
    /\ normalized' = [normalized EXCEPT ![s] = "creating"]
    /\ uncommitted' = uncommitted + 1
    /\ begun' = [begun EXCEPT ![s] = @ + 1]
    /\ client' = [client EXCEPT ![c] = [at |-> "asking", sub |-> {s},
                                        inc |-> begun[s] + 1, ind |-> 0]]
    /\ UNCHANGED <<repository, active, serving, waiting, indication, ended, astray>>

\* A provider serves the subscription; its response comes later.
ProviderServes(c, s) ==
    /\ At(c, "asking", s)
    /\ serving' = [serving EXCEPT ![s] = client[c].inc]
    /\ Goto(c, "served")
    /\ UNCHANGED <<tableVars, waiting, indication, historyVars>>

\* No provider accepts the subscription, or there is none.
ProvidersReject(c, s) ==
    /\ At(c, "asking", s)
    /\ Goto(c, "failed")
    /\ UNCHANGED <<tableVars, serving, waiting, indication, historyVars>>

\* _handleCreateResponseAggregation: the instance is created, or that fails, as it
\* does when the path is in the repository,
CreateInRepository(c, s) ==
    /\ At(c, "served", s)
    /\ \/ /\ repository[s] = 0
          /\ repository' = [repository EXCEPT ![s] = client[c].inc]
          /\ Goto(c, "created")
       \/ repository' = repository /\ Goto(c, "failed")
    /\ UNCHANGED <<normalized, uncommitted, active, serving, waiting, indication,
                   historyVars>>

\* it is read back, unless it is deleted already,
GetInstance(c, s) ==
    /\ At(c, "created", s)
    /\ Goto(c, IF repository[s] # 0 THEN "read" ELSE "failed")
    /\ UNCHANGED <<tableVars, serving, waiting, indication, historyVars>>

\* and entered in the table of active subscriptions, even if it was deleted since.
\* The entry stays there if the deletion is over.
InsertSubscription(c, s) ==
    /\ At(c, "read", s)
    /\ active' = active \cup {s}
    /\ astray' = IF repository[s] = 0 /\ ~Busy(Deletions, s)
                 THEN astray \cup {s} ELSE astray
    /\ Goto(c, "inserted")
    /\ UNCHANGED <<normalized, uncommitted, repository, serving, waiting,
                   indication, begun, ended>>

\* Mutant of Committable: the request is committed before the insertion.
Created(c, s) == At(c, "read", s) \/ At(c, "inserted", s)

Committable(c, s) == At(c, "inserted", s)

CommitCreateSubscription(c, s) ==
    /\ Committable(c, s)
    /\ normalized' = [normalized EXCEPT ![s] = "exists"]
    /\ uncommitted' = uncommitted - 1
    /\ GoDrain(c)
    /\ UNCHANGED <<repository, active, serving, waiting, indication, historyVars>>

\* Mutant of Uncount: cancelling forgets the counter.
KeepCount == uncommitted' = uncommitted

Uncount == uncommitted' = uncommitted - 1

CancelCreateSubscription(c, s) ==
    /\ At(c, "failed", s)
    /\ normalized' = [normalized EXCEPT ![s] = "absent"]
    /\ Uncount
    /\ ended' = ended \cup {<<s, client[c].inc>>}
    /\ GoDrain(c)
    /\ UNCHANGED <<repository, active, serving, waiting, indication, begun, astray>>
-----------------------------------------------------------------------------
\* _handleDeleteInstanceRequest: the instance is deleted from the repository,
BeginDelete(c, s) ==
    /\ DeletesHappen
    /\ client[c].at = "idle"
    /\ repository[s] # 0
    /\ repository' = [repository EXCEPT ![s] = 0]
    /\ ended' = ended \cup {<<s, repository[s]>>}
    /\ client' = [client EXCEPT ![c] = [at |-> "deleted", sub |-> {s},
                                        inc |-> 0, ind |-> 0]]
    /\ UNCHANGED <<normalized, uncommitted, active, serving, waiting, indication,
                   begun, astray>>

\* then removed from the normalized table,
RemoveNormalized(c, s) ==
    /\ At(c, "deleted", s)
    /\ normalized' = [normalized EXCEPT ![s] = "absent"]
    /\ Goto(c, "deactivate")
    /\ UNCHANGED <<uncommitted, repository, active, serving, waiting, indication,
                   historyVars>>

\* and from the active table, whose providers are told not to serve it.  The entry
\* may be that of a subscription created since.
RemoveSubscription(c, s) ==
    /\ At(c, "deactivate", s)
    /\ active' = active \ {s}
    /\ serving' = IF s \in active THEN [serving EXCEPT ![s] = 0] ELSE serving
    /\ astray' = IF repository[s] # 0 /\ ~Busy({"created", "read"}, s)
                 THEN astray \cup {s} ELSE astray
    /\ Idle(c)
    /\ UNCHANGED <<normalized, uncommitted, repository, waiting, indication, begun,
                   ended>>
-----------------------------------------------------------------------------
Stage(i, step) == indication' = [indication EXCEPT ![i].at = step]

\* The indication service has taken this indication over from its sender.
Answered(i) == indication[i].at \in {"waiting", "taken", "done"}

\* A provider that serves s generates an indication.
Generate(i, s) ==
    /\ indication[i].at = "none"
    /\ \A j \in Indications : j < i => indication[j].at # "none"
    /\ serving[s] # 0
    /\ \A j \in Indications : j < i /\ indication[j].sub = {s} => Answered(j)
    /\ indication' = [indication EXCEPT ![i] =
                         [at |-> "sent", sub |-> {s}, incarnation |-> serving[s]]]
    /\ UNCHANGED <<tableVars, serving, client, waiting, historyVars>>

\* _handleProcessIndicationRequest reads the count of uncommitted requests.
Check(i) ==
    /\ indication[i].at = "sent"
    /\ Stage(i, IF NotCreating THEN "matching" ELSE "copying")
    /\ UNCHANGED <<tableVars, serving, client, waiting, historyVars>>

\* A copy waits until the creations are completed; the sender goes on.
InsertWaiting(i) ==
    /\ indication[i].at = "copying"
    /\ waiting' = Append(waiting, i)
    /\ Stage(i, "waiting")
    /\ UNCHANGED <<tableVars, serving, client, historyVars>>

\* The active subscriptions are looked up; what does not match is dropped.
Match(i) ==
    /\ indication[i].at = "matching"
    /\ Stage(i, "done")
    /\ UNCHANGED <<tableVars, serving, client, waiting, historyVars>>
-----------------------------------------------------------------------------
\* _deliverWaitingIndications: the count is read, then an indication taken.
Drain(c) ==
    /\ client[c].at = "drain"
    /\ IF NotCreating THEN Goto(c, "take") ELSE Idle(c)
    /\ UNCHANGED <<tableVars, serving, waiting, indication, historyVars>>

TakeWaiting(c) ==
    /\ client[c].at = "take"
    /\ IF waiting = <<>>
       THEN Idle(c) /\ UNCHANGED <<waiting, indication>>
       ELSE LET i == Head(waiting)
            IN  /\ waiting' = Tail(waiting)
                /\ Stage(i, "taken")
                /\ client' = [client EXCEPT ![c].at = "redeliver", ![c].ind = i]
    /\ UNCHANGED <<tableVars, serving, historyVars>>

\* Mutant of Recheck: an indication that waited is matched at once.
Unchecked(c) == TRUE

\* handleEnqueue comes to _handleProcessIndicationRequest, which reads the
\* count of uncommitted requests again.
Recheck(c) == NotCreating

Redeliver(c) ==
    LET i == client[c].ind
    IN  /\ client[c].at = "redeliver"
        /\ IF Recheck(c)
           THEN /\ Goto(c, "match")
                /\ UNCHANGED <<waiting, indication>>
           ELSE /\ waiting' = Append(waiting, i)
                /\ Stage(i, "waiting")
                /\ GoDrain(c)
        /\ UNCHANGED <<tableVars, serving, historyVars>>

MatchWaited(c) ==
    /\ client[c].at = "match"
    /\ Stage(client[c].ind, "done")
    /\ GoDrain(c)
    /\ UNCHANGED <<tableVars, serving, waiting, historyVars>>
-----------------------------------------------------------------------------
Create(c, s) ==
    \/ ProviderServes(c, s)
    \/ ProvidersReject(c, s)
    \/ CreateInRepository(c, s)
    \/ GetInstance(c, s)
    \/ InsertSubscription(c, s)
    \/ CommitCreateSubscription(c, s)
    \/ CancelCreateSubscription(c, s)

Delete(c, s) ==
    \/ RemoveNormalized(c, s)
    \/ RemoveSubscription(c, s)

DeliverWaiting(c) ==
    \/ Drain(c)
    \/ TakeWaiting(c)
    \/ Redeliver(c)
    \/ MatchWaited(c)

Process(i) == Check(i) \/ InsertWaiting(i) \/ Match(i)

ClientStep(c) ==
    \/ \E s \in Subscriptions : Create(c, s) \/ Delete(c, s)
    \/ DeliverWaiting(c)

Next ==
    \/ \E c \in Clients, s \in Subscriptions : BeginCreate(c, s) \/ BeginDelete(c, s)
    \/ \E c \in Clients : ClientStep(c)
    \/ \E i \in Indications : Process(i)
    \/ \E i \in Indications, s \in Subscriptions : Generate(i, s)

Spec == Init /\ [][Next]_vars

\* Providers answer, and every thread goes on with what it has begun.
Fairness ==
    /\ \A c \in Clients : WF_vars(ClientStep(c))
    /\ \A i \in Indications : WF_vars(Process(i))

FairSpec == Spec /\ Fairness
-----------------------------------------------------------------------------
CreationSteps == {"asking", "served", "created", "read", "inserted", "failed"}

\* Threads whose creation is neither committed nor cancelled.
Creating == {c \in Clients : client[c].at \in CreationSteps}

\* The types of the tables, of the threads and of the indications.
TypeOK ==
    /\ normalized \in [Subscriptions -> {"absent", "creating", "exists"}]
    /\ uncommitted \in 0..Cardinality(Clients)
    /\ repository \in [Subscriptions -> 0..MaxCreations]
    /\ active \subseteq Subscriptions
    /\ serving \in [Subscriptions -> 0..MaxCreations]
    /\ client \in [Clients ->
                      [at: CreationSteps \cup {"idle", "deleted", "deactivate",
                              "drain", "take", "redeliver", "match"},
                       sub: SUBSET Subscriptions,
                       inc: 0..MaxCreations,
                       ind: 0..MaxIndications]]
    /\ waiting \in Seq(Indications)
    /\ indication \in [Indications ->
                          [at: {"none", "sent", "matching", "copying", "waiting",
                                "taken", "done"},
                           sub: SUBSET Subscriptions,
                           incarnation: 0..MaxCreations]]
    /\ begun \in [Subscriptions -> 0..MaxCreations]
    /\ ended \subseteq Subscriptions \X (1..MaxCreations)
    /\ astray \subseteq Subscriptions

\* The counter that holds indications back counts the creations under way: too
\* high and no indication is delivered any more, too low and some are lost.  And
\* no path stays reserved for a creation that is over, whatever deletions come
\* between.
CounterExact ==
    /\ uncommitted = Cardinality(Creating)
    /\ \A s \in Subscriptions : normalized[s] = "creating" => Busy(CreationSteps, s)

\* The subscription an indication was generated for is active, or that
\* incarnation of it was cancelled or deleted.
Served(i) ==
    \A s \in indication[i].sub :
        s \in active \/ <<s, indication[i].incarnation>> \in ended

\* The reason for holding indications back: none is matched, and so lost,
\* between the moment its provider is enabled and the commit; unless a late
\* deletion took the entry of its path away.
NoneLost ==
    [][\A i \in Indications :
          indication[i].at # "done" /\ indication'[i].at = "done" =>
             Served(i) \/ indication[i].sub \subseteq astray]_vars

\* The description of the ActiveSubscriptions table: it contains an entry for each
\* subscription that is enabled (in the repository).  When no request for a path is
\* under way that is so, unless the path went astray: unless, after its deletion,
\* a creation that had read it back inserted it, or a deletion ended after the
\* path had been created again.
TableComplete ==
    \A s \in Subscriptions \ astray :
        ~Busy(CreationSteps \cup Deletions, s) => (repository[s] # 0 <=> s \in active)

\* An indication that waits while a creation is under way is delivered once
\* the creations end.
WaitingIsDelivered ==
    \A i \in Indications :
        indication[i].at = "waiting" /\ ~NotCreating ~> indication[i].at = "done"
=============================================================================
