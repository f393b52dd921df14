------------------- MODULE IndicationSubscriptionsProofs -------------------
(***************************************************************************)
(* Proofs about IndicationSubscriptions, for any finite set of threads, of *)
(* any number of paths and indications, and for requests for one path in   *)
(* any order and at once.                                                  *)
(***************************************************************************)
EXTENDS IndicationSubscriptions, FiniteSetTheorems, SequenceTheorems, TLAPS

Steps == CreationSteps \cup Deletions

\* Where a creation has put its instance in the repository, and not yet in the
\* table of active subscriptions.
Made       == {"created", "read", "inserted"}
Uninserted == {"created", "read"}

ClientRecords ==
    [at: Steps \cup {"idle", "drain", "take", "redeliver", "match"},
     sub: SUBSET Subscriptions, inc: 0..MaxCreations, ind: 0..MaxIndications]

IndicationRecords ==
    [at: {"none", "sent", "matching", "copying", "waiting", "taken", "done"},
     sub: SUBSET Subscriptions, incarnation: 0..MaxCreations]

\* The types, but that the counter is bounded.
Typed ==
    /\ normalized \in [Subscriptions -> {"absent", "creating", "exists"}]
    /\ uncommitted \in Int
    /\ repository \in [Subscriptions -> 0..MaxCreations]
    /\ active \subseteq Subscriptions
    /\ serving \in [Subscriptions -> 0..MaxCreations]
    /\ client \in [Clients -> ClientRecords]
    /\ waiting \in Seq(Indications)
    /\ indication \in [Indications -> IndicationRecords]
    /\ begun \in [Subscriptions -> 0..MaxCreations]
    /\ ended \subseteq Subscriptions \X (1..MaxCreations)
    /\ astray \subseteq Subscriptions

\* A creation is that of one incarnation of one path.
Named ==
    \A c \in Clients : client[c].at \in CreationSteps =>
        /\ client[c].inc \in 1..MaxCreations
        /\ \E s \in Subscriptions : client[c].sub = {s}

\* Unless the path went astray, what is in the repository only is still to be
\* entered in the active table, and what is in that table only is still to be removed.
Synced(s) ==
    \/ s \in astray
    \/ /\ repository[s] # 0 /\ s \notin active => Busy(Uninserted, s)
       /\ repository[s] = 0 /\ s \in active => Busy(Deletions, s)

\* What a creation has put in the repository is there, or was deleted since.
Stored(c, s) ==
    client[c].at \in Made /\ client[c].sub = {s} =>
        repository[s] = client[c].inc \/ <<s, client[c].inc>> \in ended

\* A path is reserved by a creation that goes on.
Reserved(s) == normalized[s] = "creating" => Busy(CreationSteps, s)

Paths ==
    \A s \in Subscriptions :
        /\ Synced(s)
        /\ Reserved(s)
        /\ \A c \in Clients : Stored(c, s)

Counted == uncommitted = Cardinality(Creating)

\* The incarnation n of s is being created or exists, or was ended.
Making(s, n) ==
    \E c \in Clients :
        client[c].at \in CreationSteps /\ client[c].sub = {s} /\ client[c].inc = n

Alive(s, n) == <<s, n>> \in ended \/ repository[s] = n \/ Making(s, n)

\* The incarnation is active, unless it was ended or its path went astray.
Settled(s, n) ==
    \/ <<s, n>> \in ended
    \/ s \in astray
    \/ repository[s] = n /\ s \in active /\ ~Busy(Uninserted, s)

Incarnations == 1..MaxCreations

\* What providers serve, and what indications are for.
Known ==
    /\ \A s \in Subscriptions : serving[s] # 0 => Alive(s, serving[s])
    /\ \A i \in Indications : indication[i].at # "none" =>
          /\ indication[i].incarnation \in Incarnations
          /\ \E s \in Subscriptions :
                indication[i].sub = {s} /\ Alive(s, indication[i].incarnation)

\* An indication that is matched was let through by the counter.
LetThrough ==
    /\ \A i \in Indications : indication[i].at = "matching" =>
          \A s \in indication[i].sub : Settled(s, indication[i].incarnation)
    /\ \A c \in Clients : client[c].at = "match" =>
          LET i == client[c].ind
          IN  \A s \in indication[i].sub : Settled(s, indication[i].incarnation)

\* An indication that waits, or is delivered from the queue, was generated.
Held ==
    /\ \A k \in DOMAIN waiting : indication[waiting[k]].at # "none"
    /\ \A c \in Clients : client[c].at \in {"redeliver", "match"} =>
          client[c].ind \in Indications /\ indication[client[c].ind].at # "none"

SubscriptionInv == Typed /\ Named /\ Paths /\ Counted /\ Known /\ LetThrough /\ Held

-----------------------------------------------------------------------------
\* The steps are apart.
LEMMA StepNames ==
    /\ Uninserted \subseteq Made /\ Made \subseteq CreationSteps
    /\ CreationSteps \subseteq Steps /\ Deletions \subseteq Steps
    /\ CreationSteps \cap Deletions = {}
    /\ \A step \in {"idle", "drain", "take", "redeliver", "match"} : step \notin Steps
BY DEF Uninserted, Made, CreationSteps, Steps, Deletions

\* The initial state.
LEMMA InitInv == Init => SubscriptionInv
<1> SUFFICES ASSUME Init PROVE SubscriptionInv
  OBVIOUS
<1>1. \A c \in Clients : client[c] = Resting
  BY DEF Init
<1>2. \A c \in Clients : client[c].at = "idle" /\ client[c].at \notin Steps
  BY <1>1 DEF Resting, Steps, CreationSteps, Deletions
<1>3. Typed
  <2>1. Resting \in ClientRecords
    BY SubscriptionAssumption DEF ClientRecords, Resting
  <2>2. [at |-> "none", sub |-> {}, incarnation |-> 0] \in IndicationRecords
    BY SubscriptionAssumption DEF IndicationRecords
  <2>3. QED
    BY <2>1, <2>2, SubscriptionAssumption DEF Init, Typed
<1>4. \A c \in Clients : client[c].at \notin CreationSteps /\ client[c].at \notin Made
  BY <1>2, StepNames
<1>5. Named
  BY <1>4 DEF Named
<1>6. Paths
  BY <1>4 DEF Init, Paths, Synced, Reserved, Stored
<1>7. Counted
  <2>1. Creating = {}
    BY <1>4 DEF Creating
  <2>2. QED
    BY <2>1, FS_EmptySet DEF Init, Counted
<1>8. Known /\ LetThrough /\ Held
  <2>1. \A i \in Indications : indication[i].at = "none"
    BY DEF Init
  <2>2. DOMAIN waiting = {}
    BY DEF Init
  <2>3. \A s \in Subscriptions : serving[s] = 0
    BY DEF Init
  <2>4. Known
    BY <2>1, <2>3 DEF Known
  <2>5. LetThrough
    BY <1>2, <2>1 DEF LetThrough
  <2>6. Held
    BY <1>2, <2>2 DEF Held
  <2>7. QED
    BY <2>4, <2>5, <2>6
<1>9. QED
  BY <1>3, <1>5, <1>6, <1>7, <1>8 DEF SubscriptionInv

\* While the count is zero nothing is being created; then what is not ended is
\* settled.
LEMMA AliveSettled ==
    ASSUME SubscriptionInv, NotCreating, NEW s \in Subscriptions, NEW n \in Incarnations,
           Alive(s, n)
    PROVE  Settled(s, n)
<1>1. IsFiniteSet(Creating)
  BY FS_Subset, SubscriptionAssumption DEF Creating
<1>2. Creating = {}
  BY <1>1, FS_EmptySet DEF SubscriptionInv, Counted, NotCreating
<1>3. ~Making(s, n) /\ ~Busy(Uninserted, s)
  BY <1>2, StepNames DEF Creating, Making, Busy
<1>4. CASE repository[s] = n
  <2>1. Synced(s) /\ n # 0
    BY DEF SubscriptionInv, Paths, Incarnations
  <2>2. QED
    BY <1>3, <1>4, <2>1 DEF Synced, Settled
<1>5. QED
  BY <1>3, <1>4 DEF Alive, Settled

\* A thread goes on to another step.
LEMMA Goes ==
    ASSUME Typed, NEW c \in Clients,
           NEW step \in Steps \cup {"idle", "drain", "take", "redeliver", "match"},
           Goto(c, step)
    PROVE  /\ client' \in [Clients -> ClientRecords]
           /\ client'[c].at = step
           /\ client'[c].sub = client[c].sub /\ client'[c].inc = client[c].inc
           /\ client'[c].ind = client[c].ind
           /\ \A d \in Clients : d # c => client'[d] = client[d]
<1>1. PICK r \in ClientRecords : r = client[c]
  BY DEF Typed
<1>2. client' = [client EXCEPT ![c] = [r EXCEPT !.at = step]]
  BY <1>1 DEF Goto, Typed
<1>3. /\ [r EXCEPT !.at = step] \in ClientRecords
      /\ [r EXCEPT !.at = step].at = step
      /\ [r EXCEPT !.at = step].sub = r.sub /\ [r EXCEPT !.at = step].inc = r.inc
      /\ [r EXCEPT !.at = step].ind = r.ind
  BY DEF ClientRecords
<1>4. QED
  BY <1>1, <1>2, <1>3 DEF Typed

\* A thread begins or ends its work.
LEMMA Enters ==
    ASSUME Typed, NEW c \in Clients, NEW r \in ClientRecords,
           client' = [client EXCEPT ![c] = r]
    PROVE  /\ client' \in [Clients -> ClientRecords]
           /\ client'[c] = r
           /\ \A d \in Clients : d # c => client'[d] = client[d]
BY DEF Typed

\* It has nothing more to do, or only indications to deliver.
LEMMA Rests ==
    ASSUME Typed, NEW c \in Clients, Idle(c) \/ GoDrain(c)
    PROVE  /\ client' \in [Clients -> ClientRecords]
           /\ client'[c].at = IF Idle(c) THEN "idle" ELSE "drain"
           /\ client'[c].at \in {"idle", "drain"}
           /\ \A d \in Clients : d # c => client'[d] = client[d]
<1>1. /\ Resting \in ClientRecords /\ Resting.at = "idle"
      /\ [Resting EXCEPT !.at = "drain"] \in ClientRecords
      /\ [Resting EXCEPT !.at = "drain"].at = "drain"
  BY SubscriptionAssumption DEF ClientRecords, Resting
<1>2. CASE Idle(c)
  BY <1>1, <1>2, Enters DEF Idle
<1>3. CASE GoDrain(c) /\ ~Idle(c)
  BY <1>1, <1>3, Enters DEF GoDrain
<1>4. QED
  BY <1>2, <1>3

\* What a step of the thread c about the path s does to the threads and to the other
\* paths,
Frame(c, s) ==
    /\ \A d \in Clients : d # c => client'[d] = client[d]
    /\ client[c].at \in Steps => client[c].sub = {s}
    /\ client'[c].at \in Steps => client'[c].sub = {s}
    /\ client'[c].at \notin {"redeliver", "match"}
    /\ client'[c].at \in CreationSteps => client'[c].inc \in Incarnations
    /\ client'[c].at \in CreationSteps /\ client[c].at \in CreationSteps =>
          client'[c].inc = client[c].inc
    /\ \A r \in Subscriptions : r # s =>
          /\ normalized'[r] = normalized[r]
          /\ repository'[r] = repository[r]
          /\ r \in active' <=> r \in active
          /\ r \in astray' <=> r \in astray
    /\ ended \subseteq ended' /\ astray \subseteq astray'

\* to the incarnations of the path,
IncarnationMoves(c, s) ==
    /\ repository[s] # 0 =>
          repository'[s] = repository[s] \/ <<s, repository[s]>> \in ended'
    /\ client[c].at \in CreationSteps /\ client'[c].at \notin CreationSteps =>
          <<s, client[c].inc>> \in ended' \/ repository'[s] = client[c].inc
    /\ client'[c].at \in Made =>
          client[c].at \in Made \/ repository'[s] = client'[c].inc
    /\ client'[c].at \in Uninserted => client[c].at \in Uninserted \/ repository[s] = 0
    /\ s \in active /\ s \notin active' =>
          Busy(Uninserted, s) \/ s \in astray' \/ repository'[s] = 0

\* to the tables,
TableMoves(c, s) ==
    /\ normalized'[s] = "creating" =>
          \/ client'[c].at \in CreationSteps
          \/ normalized[s] = "creating" /\ client[c].at \notin CreationSteps
    /\ repository'[s] # 0 /\ s \notin active' /\ s \notin astray' =>
          \/ client'[c].at \in Uninserted
          \/ Busy(Uninserted, s) /\ client[c].at \notin Uninserted
    /\ repository'[s] = 0 /\ s \in active' /\ s \notin astray' =>
          \/ client'[c].at \in Deletions
          \/ Busy(Deletions, s) /\ client[c].at \notin Deletions

\* to what the providers serve,
ServingMoves ==
    \A r \in Subscriptions :
        \/ serving'[r] = serving[r]
        \/ serving'[r] = 0
        \/ \E n \in Incarnations : serving'[r] = n /\ Alive(r, n)'

\* and to the counter.
CountMoves(c) ==
    /\ client'[c].at \in CreationSteps /\ client[c].at \notin CreationSteps
          => uncommitted' = uncommitted + 1
    /\ client'[c].at \notin CreationSteps /\ client[c].at \in CreationSteps
          => uncommitted' = uncommitted - 1
    /\ client'[c].at \in CreationSteps /\ client[c].at \in CreationSteps
          => uncommitted' = uncommitted
    /\ client'[c].at \notin CreationSteps /\ client[c].at \notin CreationSteps
          => uncommitted' = uncommitted

\* Who is at some steps for a path, when one thread moves.
LEMMA BusyMoves ==
    ASSUME NEW c \in Clients, NEW s \in Subscriptions, Frame(c, s),
           NEW X \in SUBSET Steps, NEW r \in Subscriptions
    PROVE  /\ r # s => (Busy(X, r)' <=> Busy(X, r))
           /\ client'[c].at \in X => Busy(X, s)'
           /\ client[c].at \notin X /\ Busy(X, s) => Busy(X, s)'
           /\ Busy(X, s)' => client'[c].at \in X \/ Busy(X, s)
<1>1. r # s => {r} # {s}
  OBVIOUS
<1>2. r # s => (Busy(X, r)' <=> Busy(X, r))
  BY <1>1 DEF Busy, Frame
<1>3. client'[c].at \in X => Busy(X, s)'
  BY DEF Busy, Frame
<1>4. client[c].at \notin X /\ Busy(X, s) => Busy(X, s)'
  BY DEF Busy, Frame
<1>5. Busy(X, s)' => client'[c].at \in X \/ Busy(X, s)
  BY DEF Busy, Frame
<1>6. QED
  BY <1>2, <1>3, <1>4, <1>5

\* Every path is as the threads that work for it say.
LEMMA PathsMove ==
    ASSUME Typed, Named, Paths, NEW c \in Clients, NEW s \in Subscriptions, Frame(c, s),
           IncarnationMoves(c, s), TableMoves(c, s)
    PROVE  Paths'
<1> /\ Uninserted \in SUBSET Steps /\ Deletions \in SUBSET Steps
    /\ CreationSteps \in SUBSET Steps
  BY StepNames
<1>1. ASSUME NEW r \in Subscriptions, r # s
      PROVE  Synced(r)' /\ Reserved(r)' /\ \A d \in Clients : Stored(d, r)'
  <2>1. /\ Busy(Uninserted, r)' <=> Busy(Uninserted, r)
        /\ Busy(Deletions, r)' <=> Busy(Deletions, r)
        /\ Busy(CreationSteps, r)' <=> Busy(CreationSteps, r)
    BY <1>1, BusyMoves
  <2>2. Synced(r) /\ Reserved(r) /\ \A d \in Clients : Stored(d, r)
    BY DEF Paths
  <2>3. Synced(r)'
    BY <1>1, <2>1, <2>2 DEF Synced, Frame
  <2>4. Reserved(r)'
    BY <1>1, <2>1, <2>2 DEF Reserved, Frame
  <2>5. ASSUME NEW d \in Clients PROVE Stored(d, r)'
    <3>1. CASE d = c
      <4>1. {r} # {s}
        BY <1>1
      <4>2. QED
        BY <3>1, <4>1, StepNames DEF Stored, Frame
    <3>2. CASE d # c
      BY <1>1, <2>2, <3>2 DEF Stored, Frame
    <3>3. QED
      BY <3>1, <3>2
  <2>6. QED
    BY <2>3, <2>4, <2>5
<1>2. Synced(s) /\ Reserved(s) /\ \A d \in Clients : Stored(d, s)
  BY DEF Paths
<1>3. Synced(s)'
  <2>1. /\ client'[c].at \in Uninserted => Busy(Uninserted, s)'
        /\ client[c].at \notin Uninserted /\ Busy(Uninserted, s) => Busy(Uninserted, s)'
    BY BusyMoves
  <2>2. /\ client'[c].at \in Deletions => Busy(Deletions, s)'
        /\ client[c].at \notin Deletions /\ Busy(Deletions, s) => Busy(Deletions, s)'
    BY BusyMoves
  <2>3. QED
    BY <2>1, <2>2 DEF Synced, TableMoves
<1>4. Reserved(s)'
  <2>1. /\ client'[c].at \in CreationSteps => Busy(CreationSteps, s)'
        /\ client[c].at \notin CreationSteps /\ Busy(CreationSteps, s)
              => Busy(CreationSteps, s)'
    BY BusyMoves
  <2>2. QED
    BY <1>2, <2>1 DEF Reserved, TableMoves
<1>5. ASSUME NEW d \in Clients PROVE Stored(d, s)'
  <2>1. ASSUME Stored(d, s), client[d].at \in Made, client[d].sub = {s}
        PROVE  repository'[s] = client[d].inc \/ <<s, client[d].inc>> \in ended'
    <3>1. client[d].inc # 0
      BY <2>1, StepNames DEF Named
    <3>2. QED
      BY <2>1, <3>1 DEF Stored, Frame, IncarnationMoves
  <2>2. CASE d # c
    BY <1>2, <2>1, <2>2 DEF Stored, Frame
  <2>3. CASE d = c
    <3>1. CASE client'[c].at \in Made /\ client[c].at \in Made
      BY <1>2, <2>1, <2>3, <3>1, StepNames DEF Stored, Frame
    <3>2. CASE client'[c].at \in Made /\ client[c].at \notin Made
      BY <2>3, <3>2 DEF Stored, IncarnationMoves
    <3>3. CASE client'[c].at \notin Made
      BY <2>3, <3>3 DEF Stored
    <3>4. QED
      BY <3>1, <3>2, <3>3
  <2>4. QED
    BY <2>2, <2>3
<1>6. QED
  BY <1>1, <1>3, <1>4, <1>5 DEF Paths

\* The counter counts the creations.
LEMMA CounterMoves ==
    ASSUME Counted, NEW c \in Clients, CountMoves(c),
           \A d \in Clients : d # c => client'[d] = client[d]
    PROVE  Counted'
<1>1. IsFiniteSet(Creating) /\ Creating \subseteq Clients
  BY FS_Subset, SubscriptionAssumption DEF Creating
<1>2. uncommitted = Cardinality(Creating) /\ Cardinality(Creating) \in Nat
  BY <1>1, FS_CardinalityType DEF Counted
<1>3. c \in Creating <=> client[c].at \in CreationSteps
  BY DEF Creating
<1>4. CASE client[c].at \in CreationSteps /\ client'[c].at \notin CreationSteps
  <2>1. Creating' = Creating \ {c}
    BY <1>4 DEF Creating
  <2>2. Cardinality(Creating \ {c}) = Cardinality(Creating) - 1
    BY <1>1, <1>3, <1>4, FS_RemoveElement
  <2>3. QED
    BY <1>2, <1>4, <2>1, <2>2 DEF Counted, CountMoves
<1>5. CASE client[c].at \notin CreationSteps /\ client'[c].at \in CreationSteps
  <2>1. Creating' = Creating \cup {c}
    BY <1>5 DEF Creating
  <2>2. Cardinality(Creating \cup {c}) = Cardinality(Creating) + 1
    BY <1>1, <1>3, <1>5, FS_AddElement
  <2>3. QED
    BY <1>2, <1>5, <2>1, <2>2 DEF Counted, CountMoves
<1>6. CASE client[c].at \in CreationSteps <=> client'[c].at \in CreationSteps
  <2>1. Creating' = Creating
    BY <1>6 DEF Creating
  <2>2. QED
    BY <1>2, <1>6, <2>1 DEF Counted, CountMoves
<1>7. QED
  BY <1>4, <1>5, <1>6

\* No incarnation is forgotten.
LEMMA Lasting ==
    ASSUME NEW c \in Clients, NEW s \in Subscriptions, Frame(c, s), IncarnationMoves(c, s),
           NEW r \in Subscriptions, NEW n \in Incarnations
    PROVE  /\ Alive(r, n) => Alive(r, n)'
           /\ Settled(r, n) => Settled(r, n)'
<1> n # 0
  BY DEF Incarnations
<1>1. <<r, n>> \in ended => <<r, n>> \in ended'
  BY DEF Frame
<1>2. repository[r] = n => repository'[r] = n \/ <<r, n>> \in ended'
  <2>1. CASE r = s
    BY <2>1 DEF IncarnationMoves
  <2>2. CASE r # s
    BY <2>2 DEF Frame
  <2>3. QED
    BY <2>1, <2>2
<1>3. Making(r, n) => Alive(r, n)'
  <2>1. ASSUME NEW d \in Clients, client[d].at \in CreationSteps, client[d].sub = {r},
               client[d].inc = n
        PROVE  Alive(r, n)'
    <3>1. CASE d # c
      BY <2>1, <3>1 DEF Alive, Making, Frame
    <3>2. CASE d = c /\ client'[c].at \in CreationSteps
      <4>1. client'[c].sub = {r} /\ client'[c].inc = n
        BY <2>1, <3>2, StepNames DEF Frame
      <4>2. QED
        BY <3>2, <4>1 DEF Alive, Making
    <3>3. CASE d = c /\ client'[c].at \notin CreationSteps
      <4>1. {r} = {s}
        BY <2>1, <3>3, StepNames DEF Frame
      <4>2. r = s
        BY <4>1
      <4>3. <<s, n>> \in ended' \/ repository'[s] = n
        BY <2>1, <3>3 DEF IncarnationMoves
      <4>4. QED
        BY <4>2, <4>3 DEF Alive
    <3>4. QED
      BY <3>1, <3>2, <3>3
  <2>2. QED
    BY <2>1 DEF Making
<1>4. Alive(r, n) => Alive(r, n)'
  BY <1>1, <1>2, <1>3 DEF Alive
<1>5. ASSUME repository[r] = n, r \in active, ~Busy(Uninserted, r)
      PROVE  Settled(r, n)'
  <2>1. CASE r # s
    <3>1. Busy(Uninserted, r)' <=> Busy(Uninserted, r)
      BY <2>1, BusyMoves, StepNames
    <3>2. QED
      BY <1>2, <1>5, <2>1, <3>1 DEF Settled, Frame
  <2>2. CASE r = s
    <3>1. client[c].at \notin Uninserted
      BY <1>5, <2>2, StepNames DEF Busy, Frame
    <3>2. client'[c].at \notin Uninserted
      BY <1>5, <2>2, <3>1 DEF IncarnationMoves
    <3>3. ~Busy(Uninserted, s)'
      BY <1>5, <2>2, <3>2, BusyMoves, StepNames
    <3>4. s \in active' \/ s \in astray' \/ repository'[s] = 0
      BY <1>5, <2>2 DEF IncarnationMoves
    <3>5. QED
      BY <1>2, <1>5, <2>2, <3>3, <3>4 DEF Settled
  <2>3. QED
    BY <2>1, <2>2
<1>6. r \in astray => r \in astray'
  BY DEF Frame
<1>7. Settled(r, n) => Settled(r, n)'
  BY <1>1, <1>5, <1>6 DEF Settled
<1>8. QED
  BY <1>4, <1>7

\* What is served and what was generated stays known.
LEMMA KnownMoves ==
    ASSUME Typed, Known, ServingMoves, UNCHANGED indication,
           \A r \in Subscriptions, n \in Incarnations : Alive(r, n) => Alive(r, n)'
    PROVE  Known'
<1>1. ASSUME NEW r \in Subscriptions, serving'[r] # 0 PROVE Alive(r, serving[r])'
  <2>1. CASE serving'[r] = serving[r]
    <3>1. PICK n \in Incarnations : n = serving[r]
      BY <1>1, <2>1, SubscriptionAssumption DEF Typed, Incarnations
    <3>2. Alive(r, n)
      BY <1>1, <2>1, <3>1 DEF Known
    <3>3. Alive(r, n)'
      BY <3>2
    <3>4. QED
      BY <2>1, <3>1, <3>3 DEF Alive, Making
  <2>2. CASE serving'[r] # serving[r]
    <3>1. PICK n \in Incarnations : serving'[r] = n /\ Alive(r, n)'
      BY <1>1, <2>2 DEF ServingMoves
    <3>2. QED
      BY <3>1 DEF Alive, Making
  <2>3. QED
    BY <2>1, <2>2
<1>2. ASSUME NEW i \in Indications, indication[i].at # "none"
      PROVE  /\ indication[i].incarnation \in Incarnations
             /\ \E r \in Subscriptions :
                   indication[i].sub = {r} /\ Alive(r, indication[i].incarnation)'
  <2>1. PICK r \in Subscriptions :
           indication[i].sub = {r} /\ Alive(r, indication[i].incarnation)
    BY <1>2 DEF Known
  <2>2. PICK n \in Incarnations : n = indication[i].incarnation
    BY <1>2 DEF Known
  <2>3. Alive(r, n)
    BY <2>1, <2>2
  <2>4. Alive(r, n)'
    BY <2>3
  <2>5. indication'[i].incarnation = n
    BY <2>2
  <2>6. QED
    BY <2>1, <2>2, <2>4, <2>5 DEF Alive, Making
<1>3. QED
  BY <1>1, <1>2 DEF Known, Incarnations

\* What was let through stays so.
LEMMA LetThroughMoves ==
    ASSUME Typed, Known, LetThrough, Held, UNCHANGED indication,
           \A d \in Clients : client'[d].at = "match" => client'[d] = client[d],
           \A r \in Subscriptions, n \in Incarnations : Settled(r, n) => Settled(r, n)'
    PROVE  LetThrough'
<1>1. ASSUME NEW i \in Indications, indication[i].at # "none",
             \A r \in indication[i].sub : Settled(r, indication[i].incarnation)
      PROVE  \A r \in indication'[i].sub : Settled(r, indication[i].incarnation)'
  <2>1. PICK n \in Incarnations : n = indication[i].incarnation
    BY <1>1 DEF Known
  <2>2. indication[i].sub \subseteq Subscriptions
    BY DEF Typed, IndicationRecords
  <2>3. \A r \in indication[i].sub : Settled(r, n)
    BY <1>1, <2>1
  <2>4. \A r \in indication[i].sub : Settled(r, n)'
    BY <2>2, <2>3
  <2>5. indication'[i].incarnation = n
    BY <2>1
  <2>6. QED
    BY <2>4, <2>5 DEF Settled, Busy
<1>2. \A i \in Indications : indication'[i].at = "matching" =>
         \A r \in indication'[i].sub : Settled(r, indication[i].incarnation)'
  BY <1>1 DEF LetThrough
<1>3. ASSUME NEW d \in Clients, client'[d].at = "match"
      PROVE  \A r \in indication'[client'[d].ind].sub :
                Settled(r, indication[client[d].ind].incarnation)'
  <2>1. client'[d] = client[d]
    BY <1>3
  <2>2. PICK i \in Indications : i = client[d].ind /\ indication[i].at # "none"
    BY <1>3, <2>1 DEF Held
  <2>3. \A r \in indication[i].sub : Settled(r, indication[i].incarnation)
    BY <1>3, <2>1, <2>2 DEF LetThrough
  <2>4. \A r \in indication'[i].sub : Settled(r, indication[i].incarnation)'
    BY <1>1, <2>2, <2>3
  <2>5. client'[d].ind = i
    BY <2>1, <2>2
  <2>6. QED
    BY <2>4, <2>5 DEF Settled, Busy
<1>4. QED
  BY <1>2, <1>3 DEF LetThrough

\* A step about one path keeps the invariant if it leaves the path as the thread's
\* new step says.
LEMMA PathKeeps ==
    ASSUME SubscriptionInv, Typed', NEW c \in Clients, NEW s \in Subscriptions,
           Frame(c, s), IncarnationMoves(c, s), TableMoves(c, s), ServingMoves,
           CountMoves(c), UNCHANGED <<waiting, indication>>
    PROVE  SubscriptionInv'
<1>1. Typed /\ Named /\ Paths /\ Counted /\ Known /\ LetThrough /\ Held
  BY DEF SubscriptionInv
<1>2. Paths'
  BY <1>1, PathsMove
<1>3. \A d \in Clients : d # c => client'[d] = client[d]
  BY DEF Frame
<1>4. Counted'
  BY <1>1, <1>3, CounterMoves
<1>5. Named'
  BY <1>1, StepNames DEF Named, Frame, Incarnations
<1>6. Known'
  <2>1. \A r \in Subscriptions, n \in Incarnations : Alive(r, n) => Alive(r, n)'
    BY Lasting
  <2>2. UNCHANGED indication
    OBVIOUS
  <2>3. QED
    BY <1>1, <2>1, <2>2, KnownMoves
<1>7. ASSUME NEW d \in Clients, client'[d].at \in {"redeliver", "match"}
      PROVE  client'[d] = client[d]
  <2>1. d # c
    BY <1>7 DEF Frame
  <2>2. QED
    BY <1>3, <2>1
<1>8. LetThrough'
  <2>1. \A d \in Clients : client'[d].at = "match" => client'[d] = client[d]
    BY <1>7
  <2>2. \A r \in Subscriptions, n \in Incarnations : Settled(r, n) => Settled(r, n)'
    BY Lasting
  <2>3. QED
    BY <1>1, <2>1, <2>2, LetThroughMoves
<1>9. Held'
  <2>1. waiting' = waiting /\ indication' = indication
    OBVIOUS
  <2>2. \A d \in Clients : client'[d].at \in {"redeliver", "match"} =>
           client'[d].ind \in Indications /\ indication'[client'[d].ind].at # "none"
    BY <1>1, <1>7, <2>1 DEF Held
  <2>3. QED
    BY <1>1, <2>1, <2>2 DEF Held
<1>10. QED
  BY <1>2, <1>4, <1>5, <1>6, <1>8, <1>9 DEF SubscriptionInv

\* Where a thread that works for the path s is, and what it sees there.
LEMMA AtWork ==
    ASSUME SubscriptionInv, NEW c \in Clients, NEW s \in Subscriptions, NEW step,
           At(c, step, s)
    PROVE  /\ client[c].at = step /\ client[c].sub = {s}
           /\ step \in CreationSteps => client[c].inc \in Incarnations
           /\ \A X : step \in X => Busy(X, s)
           /\ Synced(s) /\ Stored(c, s)
           /\ Typed
<1>1. client[c].at = step /\ client[c].sub = {s}
  BY DEF At
<1>2. \A X : step \in X => Busy(X, s)
  BY <1>1 DEF Busy
<1>3. step \in CreationSteps => client[c].inc \in Incarnations
  BY <1>1 DEF SubscriptionInv, Named, Incarnations
<1>4. QED
  BY <1>1, <1>2, <1>3 DEF SubscriptionInv, Paths

\* The names of the steps of a thread that works for a path.
LEMMA PathSteps ==
    /\ \A step \in {"asking", "served", "created", "read", "inserted", "failed"} :
          step \in Steps /\ step \in CreationSteps /\ step \notin Deletions
    /\ \A step \in {"deleted", "deactivate"} :
          step \in Steps /\ step \notin CreationSteps /\ step \in Deletions
    /\ \A step \in {"deleted", "deactivate", "idle", "drain"} :
          step \notin Made /\ step \notin Uninserted /\ step \notin CreationSteps
    /\ \A step \in {"asking", "served", "failed"} : step \notin Made /\ step \notin Uninserted
    /\ \A step \in {"created", "read"} : step \in Made /\ step \in Uninserted
    /\ "inserted" \in Made /\ "inserted" \notin Uninserted
    /\ \A step \in {"idle", "drain"} : step \notin Steps /\ step \notin Deletions
BY DEF Steps, CreationSteps, Deletions, Made, Uninserted

\* The thread goes on with its work for the path s.
LEMMA WorkGoes ==
    ASSUME SubscriptionInv, NEW c \in Clients, NEW s \in Subscriptions, NEW step \in Steps,
           At(c, step, s), NEW next \in Steps, Goto(c, next),
           next \in CreationSteps => step \in CreationSteps,
           UNCHANGED normalized \/ \A r \in Subscriptions : r # s => normalized'[r] = normalized[r],
           \A r \in Subscriptions : r # s => /\ repository'[r] = repository[r]
                                             /\ r \in active' <=> r \in active
                                             /\ r \in astray' <=> r \in astray,
           ended \subseteq ended', astray \subseteq astray'
    PROVE  /\ Frame(c, s)
           /\ client' \in [Clients -> ClientRecords]
           /\ client'[c].at = next /\ client'[c].inc = client[c].inc
<1>1. /\ client' \in [Clients -> ClientRecords]
      /\ client'[c].at = next
      /\ client'[c].sub = client[c].sub /\ client'[c].inc = client[c].inc
      /\ \A d \in Clients : d # c => client'[d] = client[d]
  BY Goes DEF SubscriptionInv
<1>2. next \notin {"redeliver", "match"}
  BY StepNames
<1>3. /\ client[c].at = step /\ client[c].sub = {s}
      /\ step \in CreationSteps => client[c].inc \in Incarnations
  BY AtWork
<1>4. QED
  BY <1>1, <1>2, <1>3 DEF Frame

\* Or it ends it.
LEMMA WorkEnds ==
    ASSUME SubscriptionInv, NEW c \in Clients, NEW s \in Subscriptions, NEW step \in Steps,
           At(c, step, s), Idle(c) \/ GoDrain(c),
           \A r \in Subscriptions : r # s => /\ normalized'[r] = normalized[r]
                                             /\ repository'[r] = repository[r]
                                             /\ r \in active' <=> r \in active
                                             /\ r \in astray' <=> r \in astray,
           ended \subseteq ended', astray \subseteq astray'
    PROVE  /\ Frame(c, s)
           /\ client' \in [Clients -> ClientRecords]
           /\ client'[c].at \in {"idle", "drain"}
<1>1. /\ client' \in [Clients -> ClientRecords]
      /\ client'[c].at \in {"idle", "drain"}
      /\ \A d \in Clients : d # c => client'[d] = client[d]
  BY Rests DEF SubscriptionInv
<1>2. client'[c].at \notin Steps /\ client'[c].at \notin CreationSteps
      /\ client'[c].at \notin {"redeliver", "match"}
  BY <1>1, PathSteps
<1>3. client[c].at = step /\ client[c].sub = {s}
  BY AtWork
<1>4. QED
  BY <1>1, <1>2, <1>3 DEF Frame

\* The providers serve the subscription.
LEMMA ServesKeeps ==
    ASSUME SubscriptionInv, NEW c \in Clients, NEW s \in Subscriptions, ProviderServes(c, s)
    PROVE  SubscriptionInv'
<1>1. /\ At(c, "asking", s) /\ Goto(c, "served")
      /\ serving' = [serving EXCEPT ![s] = client[c].inc]
      /\ normalized' = normalized /\ repository' = repository /\ active' = active
      /\ begun' = begun /\ ended' = ended /\ astray' = astray /\ uncommitted' = uncommitted
      /\ waiting' = waiting /\ indication' = indication
  BY DEF ProviderServes, tableVars, historyVars
<1>2. "asking" \in Steps /\ "served" \in Steps /\ "asking" \in CreationSteps
      /\ "served" \in CreationSteps
  BY PathSteps
<1>3. /\ Frame(c, s) /\ client' \in [Clients -> ClientRecords]
      /\ client'[c].at = "served" /\ client'[c].inc = client[c].inc
  BY <1>1, <1>2, WorkGoes
<1>4. /\ client[c].at = "asking" /\ client[c].sub = {s} /\ client[c].inc \in Incarnations
      /\ Synced(s) /\ Typed
  BY <1>1, <1>2, AtWork
<1>5. PICK n \in Incarnations : n = client[c].inc
  BY <1>4
<1>6. /\ serving' \in [Subscriptions -> 0..MaxCreations]
      /\ serving'[s] = n
      /\ \A r \in Subscriptions : r # s => serving'[r] = serving[r]
  BY <1>1, <1>4, <1>5, SubscriptionAssumption DEF Typed, Incarnations
<1>7. Typed'
  BY <1>1, <1>3, <1>4, <1>6 DEF Typed
<1>8. IncarnationMoves(c, s)
  BY <1>1, <1>2, <1>3, PathSteps DEF IncarnationMoves
<1>9. TableMoves(c, s)
  BY <1>1, <1>2, <1>3, <1>4, PathSteps DEF TableMoves, Synced
<1>10. ServingMoves
  <2>1. Making(s, n)'
    BY <1>2, <1>3, <1>4, <1>5 DEF Making, Frame
  <2>2. Alive(s, n)'
    BY <2>1 DEF Alive
  <2>3. QED
    BY <1>6, <2>2 DEF ServingMoves
<1>11. CountMoves(c)
  BY <1>1, <1>2, <1>3, <1>4 DEF CountMoves
<1>12. QED
  BY <1>1, <1>3, <1>7, <1>8, <1>9, <1>10, <1>11, PathKeeps

\* The providers reject it.
LEMMA RejectKeeps ==
    ASSUME SubscriptionInv, NEW c \in Clients, NEW s \in Subscriptions, ProvidersReject(c, s)
    PROVE  SubscriptionInv'
<1>1. /\ At(c, "asking", s) /\ Goto(c, "failed")
      /\ normalized' = normalized /\ repository' = repository /\ active' = active
      /\ begun' = begun /\ ended' = ended /\ astray' = astray /\ uncommitted' = uncommitted
      /\ serving' = serving /\ waiting' = waiting /\ indication' = indication
  BY DEF ProvidersReject, tableVars, historyVars
<1>2. "asking" \in Steps /\ "failed" \in Steps /\ "asking" \in CreationSteps
      /\ "failed" \in CreationSteps
  BY PathSteps
<1>3. /\ Frame(c, s) /\ client' \in [Clients -> ClientRecords]
      /\ client'[c].at = "failed" /\ client'[c].inc = client[c].inc
  BY <1>1, <1>2, WorkGoes
<1>4. client[c].at = "asking" /\ client[c].sub = {s} /\ Synced(s) /\ Typed
  BY <1>1, <1>2, AtWork
<1>5. Typed'
  BY <1>1, <1>3, <1>4 DEF Typed
<1>6. IncarnationMoves(c, s)
  BY <1>1, <1>2, <1>3, PathSteps DEF IncarnationMoves
<1>7. TableMoves(c, s)
  BY <1>1, <1>2, <1>3, <1>4, PathSteps DEF TableMoves, Synced
<1>8. ServingMoves /\ CountMoves(c)
  BY <1>1, <1>2, <1>3, <1>4 DEF ServingMoves, CountMoves
<1>9. QED
  BY <1>1, <1>3, <1>5, <1>6, <1>7, <1>8, PathKeeps

\* The instance is created, or that fails.
LEMMA RepositoryKeeps ==
    ASSUME SubscriptionInv, NEW c \in Clients, NEW s \in Subscriptions, CreateInRepository(c, s)
    PROVE  SubscriptionInv'
<1>1. /\ At(c, "served", s)
      /\ \/ /\ repository[s] = 0
            /\ repository' = [repository EXCEPT ![s] = client[c].inc]
            /\ Goto(c, "created")
         \/ repository' = repository /\ Goto(c, "failed")
      /\ normalized' = normalized /\ active' = active
      /\ begun' = begun /\ ended' = ended /\ astray' = astray /\ uncommitted' = uncommitted
      /\ serving' = serving /\ waiting' = waiting /\ indication' = indication
  BY DEF CreateInRepository, historyVars
<1>2. "served" \in Steps /\ "failed" \in Steps /\ "created" \in Steps
      /\ "served" \in CreationSteps /\ "failed" \in CreationSteps
      /\ "created" \in CreationSteps
  BY PathSteps
<1>3. /\ client[c].at = "served" /\ client[c].sub = {s} /\ client[c].inc \in Incarnations
      /\ Synced(s) /\ Typed
  BY <1>1, <1>2, AtWork
<1>4. CASE repository' = repository /\ Goto(c, "failed")
  <2>1. /\ Frame(c, s) /\ client' \in [Clients -> ClientRecords]
        /\ client'[c].at = "failed" /\ client'[c].inc = client[c].inc
    BY <1>1, <1>2, <1>4, WorkGoes
  <2>2. Typed'
    BY <1>1, <1>3, <1>4, <2>1 DEF Typed
  <2>3. IncarnationMoves(c, s)
    BY <1>1, <1>2, <1>4, <2>1, PathSteps DEF IncarnationMoves
  <2>4. TableMoves(c, s)
    BY <1>1, <1>2, <1>3, <1>4, <2>1, PathSteps DEF TableMoves, Synced
  <2>5. ServingMoves /\ CountMoves(c)
    BY <1>1, <1>2, <1>3, <2>1 DEF ServingMoves, CountMoves
  <2>6. QED
    BY <1>1, <2>1, <2>2, <2>3, <2>4, <2>5, PathKeeps
<1>5. CASE /\ repository[s] = 0
           /\ repository' = [repository EXCEPT ![s] = client[c].inc]
           /\ Goto(c, "created")
  <2>1. /\ repository' \in [Subscriptions -> 0..MaxCreations]
        /\ repository'[s] = client[c].inc
        /\ \A r \in Subscriptions : r # s => repository'[r] = repository[r]
    BY <1>3, <1>5, SubscriptionAssumption DEF Typed, Incarnations
  <2>2. /\ Frame(c, s) /\ client' \in [Clients -> ClientRecords]
        /\ client'[c].at = "created" /\ client'[c].inc = client[c].inc
    BY <1>1, <1>2, <1>5, <2>1, WorkGoes
  <2>3. Typed'
    BY <1>1, <1>3, <2>1, <2>2 DEF Typed
  <2>4. IncarnationMoves(c, s)
    BY <1>1, <1>2, <1>5, <2>1, <2>2, PathSteps DEF IncarnationMoves
  <2>5. repository'[s] # 0
    BY <1>3, <2>1 DEF Incarnations
  <2>6. TableMoves(c, s)
    BY <1>1, <1>2, <2>2, <2>5, PathSteps DEF TableMoves
  <2>7. ServingMoves /\ CountMoves(c)
    BY <1>1, <1>2, <1>3, <2>2 DEF ServingMoves, CountMoves
  <2>8. QED
    BY <1>1, <2>2, <2>3, <2>4, <2>6, <2>7, PathKeeps
<1>6. QED
  BY <1>1, <1>4, <1>5

\* It is read back, or was deleted.
LEMMA GetKeeps ==
    ASSUME SubscriptionInv, NEW c \in Clients, NEW s \in Subscriptions, GetInstance(c, s)
    PROVE  SubscriptionInv'
<1>1. /\ At(c, "created", s)
      /\ normalized' = normalized /\ repository' = repository /\ active' = active
      /\ begun' = begun /\ ended' = ended /\ astray' = astray /\ uncommitted' = uncommitted
      /\ serving' = serving /\ waiting' = waiting /\ indication' = indication
  BY DEF GetInstance, tableVars, historyVars
<1>2. PICK next \in {"read", "failed"} :
         Goto(c, next) /\ (next = "read" <=> repository[s] # 0)
  BY DEF GetInstance
<1>3. "created" \in Steps /\ next \in Steps /\ "created" \in CreationSteps
      /\ next \in CreationSteps
  BY PathSteps
<1>4. /\ Frame(c, s) /\ client' \in [Clients -> ClientRecords]
      /\ client'[c].at = next /\ client'[c].inc = client[c].inc
  BY <1>1, <1>2, <1>3, WorkGoes
<1>5. client[c].at = "created" /\ client[c].sub = {s} /\ Synced(s) /\ Typed
  BY <1>1, <1>3, AtWork
<1>6. Typed'
  BY <1>1, <1>4, <1>5 DEF Typed
<1>7. IncarnationMoves(c, s)
  BY <1>1, <1>3, <1>4, <1>5, PathSteps DEF IncarnationMoves
<1>8. TableMoves(c, s)
  BY <1>1, <1>2, <1>3, <1>4, <1>5, PathSteps DEF TableMoves, Synced
<1>9. ServingMoves /\ CountMoves(c)
  BY <1>1, <1>3, <1>4, <1>5 DEF ServingMoves, CountMoves
<1>10. QED
  BY <1>1, <1>4, <1>6, <1>7, <1>8, <1>9, PathKeeps

\* It is entered in the table of active subscriptions, or the path goes astray.
LEMMA InsertKeeps ==
    ASSUME SubscriptionInv, NEW c \in Clients, NEW s \in Subscriptions, InsertSubscription(c, s)
    PROVE  SubscriptionInv'
<1>1. /\ At(c, "read", s) /\ Goto(c, "inserted") /\ active' = active \cup {s}
      /\ astray' \in {astray, astray \cup {s}}
      /\ repository[s] = 0 /\ ~Busy(Deletions, s) => s \in astray'
      /\ normalized' = normalized /\ repository' = repository
      /\ begun' = begun /\ ended' = ended /\ uncommitted' = uncommitted
      /\ serving' = serving /\ waiting' = waiting /\ indication' = indication
  BY DEF InsertSubscription
<1>2. "read" \in Steps /\ "inserted" \in Steps /\ "read" \in CreationSteps
      /\ "inserted" \in CreationSteps
  BY PathSteps
<1>3. /\ astray \subseteq astray'
      /\ \A r \in Subscriptions : r # s => /\ r \in active' <=> r \in active
                                           /\ r \in astray' <=> r \in astray
  BY <1>1
<1>4. /\ Frame(c, s) /\ client' \in [Clients -> ClientRecords]
      /\ client'[c].at = "inserted" /\ client'[c].inc = client[c].inc
  BY <1>1, <1>2, <1>3, WorkGoes
<1>5. client[c].at = "read" /\ client[c].sub = {s} /\ Typed
  BY <1>1, <1>2, AtWork
<1>6. Typed'
  BY <1>1, <1>4, <1>5 DEF Typed
<1>7. IncarnationMoves(c, s)
  BY <1>1, <1>2, <1>4, <1>5, PathSteps DEF IncarnationMoves
<1>8. TableMoves(c, s)
  BY <1>1, <1>2, <1>4, <1>5, PathSteps DEF TableMoves
<1>9. ServingMoves /\ CountMoves(c)
  BY <1>1, <1>2, <1>4, <1>5 DEF ServingMoves, CountMoves
<1>10. QED
  BY <1>1, <1>4, <1>6, <1>7, <1>8, <1>9, PathKeeps

\* The creation is committed.
LEMMA CommitKeeps ==
    ASSUME SubscriptionInv, NEW c \in Clients, NEW s \in Subscriptions,
           CommitCreateSubscription(c, s)
    PROVE  SubscriptionInv'
<1>1. /\ At(c, "inserted", s) /\ GoDrain(c)
      /\ normalized' = [normalized EXCEPT ![s] = "exists"]
      /\ uncommitted' = uncommitted - 1
      /\ repository' = repository /\ active' = active
      /\ begun' = begun /\ ended' = ended /\ astray' = astray
      /\ serving' = serving /\ waiting' = waiting /\ indication' = indication
  BY DEF CommitCreateSubscription, Committable, historyVars
<1>2. "inserted" \in Steps /\ "inserted" \in CreationSteps /\ "inserted" \in Made
  BY PathSteps
<1>3. /\ client[c].at = "inserted" /\ client[c].sub = {s}
      /\ Synced(s) /\ Stored(c, s) /\ Typed
  BY <1>1, <1>2, AtWork
<1>4. /\ normalized' \in [Subscriptions -> {"absent", "creating", "exists"}]
      /\ normalized'[s] = "exists"
      /\ \A r \in Subscriptions : r # s => normalized'[r] = normalized[r]
  BY <1>1, <1>3 DEF Typed
<1>5. /\ Frame(c, s) /\ client' \in [Clients -> ClientRecords]
      /\ client'[c].at \in {"idle", "drain"}
  BY <1>1, <1>2, <1>4, WorkEnds
<1>6. Typed'
  BY <1>1, <1>3, <1>4, <1>5 DEF Typed
<1>7. IncarnationMoves(c, s)
  BY <1>1, <1>2, <1>3, <1>5, PathSteps DEF IncarnationMoves, Stored
<1>8. TableMoves(c, s)
  BY <1>1, <1>3, <1>4, <1>5, PathSteps DEF TableMoves, Synced
<1>9. ServingMoves /\ CountMoves(c)
  BY <1>1, <1>2, <1>3, <1>5, PathSteps DEF ServingMoves, CountMoves
<1>10. QED
  BY <1>1, <1>5, <1>6, <1>7, <1>8, <1>9, PathKeeps

\* The creation is cancelled.
LEMMA CancelKeeps ==
    ASSUME SubscriptionInv, NEW c \in Clients, NEW s \in Subscriptions,
           CancelCreateSubscription(c, s)
    PROVE  SubscriptionInv'
<1>1. /\ At(c, "failed", s) /\ GoDrain(c)
      /\ normalized' = [normalized EXCEPT ![s] = "absent"]
      /\ uncommitted' = uncommitted - 1
      /\ ended' = ended \cup {<<s, client[c].inc>>}
      /\ repository' = repository /\ active' = active /\ begun' = begun
      /\ astray' = astray
      /\ serving' = serving /\ waiting' = waiting /\ indication' = indication
  BY DEF CancelCreateSubscription, Uncount
<1>2. "failed" \in Steps /\ "failed" \in CreationSteps
  BY PathSteps
<1>3. /\ client[c].at = "failed" /\ client[c].sub = {s} /\ client[c].inc \in Incarnations
      /\ Synced(s) /\ Typed
  BY <1>1, <1>2, AtWork
<1>4. /\ normalized' \in [Subscriptions -> {"absent", "creating", "exists"}]
      /\ normalized'[s] = "absent"
      /\ \A r \in Subscriptions : r # s => normalized'[r] = normalized[r]
  BY <1>1, <1>3 DEF Typed
<1>5. ended' \subseteq Subscriptions \X (1..MaxCreations) /\ ended \subseteq ended'
  BY <1>1, <1>3 DEF Typed, Incarnations
<1>6. /\ Frame(c, s) /\ client' \in [Clients -> ClientRecords]
      /\ client'[c].at \in {"idle", "drain"}
  BY <1>1, <1>2, <1>4, <1>5, WorkEnds
<1>7. Typed'
  BY <1>1, <1>3, <1>4, <1>5, <1>6 DEF Typed
<1>8. IncarnationMoves(c, s)
  BY <1>1, <1>2, <1>3, <1>6, PathSteps DEF IncarnationMoves
<1>9. TableMoves(c, s)
  BY <1>1, <1>3, <1>4, <1>6, PathSteps DEF TableMoves, Synced
<1>10. ServingMoves /\ CountMoves(c)
  BY <1>1, <1>2, <1>3, <1>6, PathSteps DEF ServingMoves, CountMoves
<1>11. QED
  BY <1>1, <1>6, <1>7, <1>8, <1>9, <1>10, PathKeeps

\* A deleted subscription is removed from the normalized table,
LEMMA RemoveNormalizedKeeps ==
    ASSUME SubscriptionInv, NEW c \in Clients, NEW s \in Subscriptions, RemoveNormalized(c, s)
    PROVE  SubscriptionInv'
<1>1. /\ At(c, "deleted", s) /\ Goto(c, "deactivate")
      /\ normalized' = [normalized EXCEPT ![s] = "absent"]
      /\ uncommitted' = uncommitted /\ ended' = ended /\ astray' = astray
      /\ repository' = repository /\ active' = active /\ begun' = begun
      /\ serving' = serving /\ waiting' = waiting /\ indication' = indication
  BY DEF RemoveNormalized, historyVars
<1>2. "deleted" \in Steps /\ "deactivate" \in Steps /\ "deleted" \notin CreationSteps
      /\ "deactivate" \notin CreationSteps
  BY PathSteps
<1>3. client[c].at = "deleted" /\ client[c].sub = {s} /\ Synced(s) /\ Typed
  BY <1>1, <1>2, AtWork
<1>4. /\ normalized' \in [Subscriptions -> {"absent", "creating", "exists"}]
      /\ normalized'[s] = "absent"
      /\ \A r \in Subscriptions : r # s => normalized'[r] = normalized[r]
  BY <1>1, <1>3 DEF Typed
<1>5. /\ Frame(c, s) /\ client' \in [Clients -> ClientRecords]
      /\ client'[c].at = "deactivate"
  BY <1>1, <1>2, <1>4, WorkGoes
<1>6. Typed'
  BY <1>1, <1>3, <1>4, <1>5 DEF Typed
<1>7. IncarnationMoves(c, s)
  BY <1>1, <1>2, <1>3, <1>5, PathSteps DEF IncarnationMoves
<1>8. TableMoves(c, s)
  BY <1>1, <1>3, <1>4, <1>5, PathSteps DEF TableMoves, Synced
<1>9. ServingMoves /\ CountMoves(c)
  BY <1>1, <1>2, <1>3, <1>5, PathSteps DEF ServingMoves, CountMoves
<1>10. QED
  BY <1>1, <1>5, <1>6, <1>7, <1>8, <1>9, PathKeeps

\* and from the active table, or the path goes astray; the providers serve it no more.
LEMMA RemoveSubscriptionKeeps ==
    ASSUME SubscriptionInv, NEW c \in Clients, NEW s \in Subscriptions,
           RemoveSubscription(c, s)
    PROVE  SubscriptionInv'
<1>1. /\ At(c, "deactivate", s) /\ Idle(c) /\ active' = active \ {s}
      /\ serving' = serving \/ serving' = [serving EXCEPT ![s] = 0]
      /\ astray' \in {astray, astray \cup {s}}
      /\ repository[s] # 0 /\ ~Busy(Uninserted, s) => s \in astray'
      /\ normalized' = normalized /\ uncommitted' = uncommitted /\ ended' = ended
      /\ repository' = repository /\ begun' = begun
      /\ waiting' = waiting /\ indication' = indication
  BY DEF RemoveSubscription, Uninserted
<1>2. "deactivate" \in Steps /\ "deactivate" \notin CreationSteps
  BY PathSteps
<1>3. client[c].at = "deactivate" /\ client[c].sub = {s} /\ Typed
  BY <1>1, <1>2, AtWork
<1>4. /\ astray \subseteq astray'
      /\ \A r \in Subscriptions : r # s => /\ r \in active' <=> r \in active
                                           /\ r \in astray' <=> r \in astray
  BY <1>1
<1>5. /\ Frame(c, s) /\ client' \in [Clients -> ClientRecords]
      /\ client'[c].at \in {"idle", "drain"}
  BY <1>1, <1>2, <1>4, WorkEnds
<1>6. /\ serving' \in [Subscriptions -> 0..MaxCreations]
      /\ \A r \in Subscriptions : serving'[r] = serving[r] \/ serving'[r] = 0
  <2>1. serving \in [Subscriptions -> 0..MaxCreations] /\ 0 \in 0..MaxCreations
    BY <1>3, SubscriptionAssumption DEF Typed
  <2>2. CASE serving' = serving
    BY <2>1, <2>2
  <2>3. CASE serving' = [serving EXCEPT ![s] = 0]
    BY <2>1, <2>3
  <2>4. QED
    BY <1>1, <2>2, <2>3
<1>7. Typed'
  BY <1>1, <1>3, <1>5, <1>6 DEF Typed
<1>8. IncarnationMoves(c, s)
  BY <1>1, <1>2, <1>3, <1>5, PathSteps DEF IncarnationMoves
<1>9. TableMoves(c, s)
  BY <1>1, <1>2, <1>3, <1>5, PathSteps DEF TableMoves
<1>10. ServingMoves /\ CountMoves(c)
  BY <1>1, <1>2, <1>3, <1>5, <1>6, PathSteps DEF ServingMoves, CountMoves
<1>11. QED
  BY <1>1, <1>5, <1>7, <1>8, <1>9, <1>10, PathKeeps

\* A creation is begun.
LEMMA BeginCreateKeeps ==
    ASSUME SubscriptionInv, NEW c \in Clients, NEW s \in Subscriptions, BeginCreate(c, s)
    PROVE  SubscriptionInv'
<1>1. /\ client[c].at = "idle" /\ begun[s] < MaxCreations
      /\ normalized' = [normalized EXCEPT ![s] = "creating"]
      /\ uncommitted' = uncommitted + 1
      /\ begun' = [begun EXCEPT ![s] = begun[s] + 1]
      /\ client' = [client EXCEPT ![c] = [at |-> "asking", sub |-> {s},
                                          inc |-> begun[s] + 1, ind |-> 0]]
      /\ active' = active /\ repository' = repository /\ ended' = ended
      /\ astray' = astray
      /\ serving' = serving /\ waiting' = waiting /\ indication' = indication
  BY DEF BeginCreate
<1>2. /\ "asking" \in Steps /\ "asking" \in CreationSteps /\ "idle" \notin Steps
      /\ "idle" \notin CreationSteps
  BY PathSteps
<1>3. Typed /\ Synced(s) /\ Named
  BY DEF SubscriptionInv, Paths
<1>4. begun[s] \in 0..MaxCreations /\ begun[s] + 1 \in Incarnations
      /\ begun[s] + 1 \in 0..MaxCreations
  BY <1>1, <1>3, SubscriptionAssumption DEF Typed, Incarnations
<1>5. /\ client' \in [Clients -> ClientRecords]
      /\ client'[c].at = "asking" /\ client'[c].sub = {s}
      /\ client'[c].inc = begun[s] + 1
      /\ \A d \in Clients : d # c => client'[d] = client[d]
  <2>1. [at |-> "asking", sub |-> {s}, inc |-> begun[s] + 1, ind |-> 0] \in ClientRecords
    BY <1>2, <1>4, SubscriptionAssumption DEF ClientRecords
  <2>2. QED
    BY <1>1, <1>3, <2>1, Enters
<1>6. /\ normalized' \in [Subscriptions -> {"absent", "creating", "exists"}]
      /\ \A r \in Subscriptions : r # s => normalized'[r] = normalized[r]
  BY <1>1, <1>3 DEF Typed
<1>7. begun' \in [Subscriptions -> 0..MaxCreations]
  BY <1>1, <1>3, <1>4 DEF Typed
<1>8. Frame(c, s)
  BY <1>1, <1>2, <1>4, <1>5, <1>6 DEF Frame
<1>9. Typed'
  BY <1>1, <1>3, <1>5, <1>6, <1>7 DEF Typed
<1>10. IncarnationMoves(c, s)
  BY <1>1, <1>2, <1>5, PathSteps DEF IncarnationMoves
<1>11. TableMoves(c, s)
  BY <1>1, <1>2, <1>3, <1>5, PathSteps DEF TableMoves, Synced
<1>12. ServingMoves /\ CountMoves(c)
  BY <1>1, <1>2, <1>5 DEF ServingMoves, CountMoves
<1>13. QED
  BY <1>1, <1>8, <1>9, <1>10, <1>11, <1>12, PathKeeps

\* A deletion is begun.
LEMMA BeginDeleteKeeps ==
    ASSUME SubscriptionInv, NEW c \in Clients, NEW s \in Subscriptions, BeginDelete(c, s)
    PROVE  SubscriptionInv'
<1>1. /\ client[c].at = "idle" /\ repository[s] # 0
      /\ repository' = [repository EXCEPT ![s] = 0]
      /\ ended' = ended \cup {<<s, repository[s]>>}
      /\ client' = [client EXCEPT ![c] = [at |-> "deleted", sub |-> {s},
                                          inc |-> 0, ind |-> 0]]
      /\ normalized' = normalized /\ uncommitted' = uncommitted /\ begun' = begun
      /\ active' = active /\ astray' = astray
      /\ serving' = serving /\ waiting' = waiting /\ indication' = indication
  BY DEF BeginDelete
<1>2. /\ "deleted" \in Steps /\ "deleted" \notin CreationSteps /\ "idle" \notin Steps
      /\ "idle" \notin CreationSteps
  BY PathSteps
<1>3. Typed /\ Synced(s)
  BY DEF SubscriptionInv, Paths
<1>4. /\ client' \in [Clients -> ClientRecords]
      /\ client'[c].at = "deleted" /\ client'[c].sub = {s}
      /\ \A d \in Clients : d # c => client'[d] = client[d]
  <2>1. [at |-> "deleted", sub |-> {s}, inc |-> 0, ind |-> 0] \in ClientRecords
    BY <1>2, SubscriptionAssumption DEF ClientRecords
  <2>2. QED
    BY <1>1, <1>3, <2>1, Enters
<1>5. /\ repository' \in [Subscriptions -> 0..MaxCreations] /\ repository'[s] = 0
      /\ \A r \in Subscriptions : r # s => repository'[r] = repository[r]
      /\ repository[s] \in 1..MaxCreations
  BY <1>1, <1>3, SubscriptionAssumption DEF Typed
<1>6. ended' \subseteq Subscriptions \X (1..MaxCreations)
  BY <1>1, <1>3, <1>5 DEF Typed
<1>7. Frame(c, s)
  BY <1>1, <1>2, <1>4, <1>5 DEF Frame
<1>8. Typed'
  BY <1>1, <1>3, <1>4, <1>5, <1>6 DEF Typed
<1>9. IncarnationMoves(c, s)
  BY <1>1, <1>2, <1>4, PathSteps DEF IncarnationMoves
<1>10. TableMoves(c, s)
  BY <1>1, <1>2, <1>4, <1>5, PathSteps DEF TableMoves
<1>11. ServingMoves /\ CountMoves(c)
  BY <1>1, <1>2, <1>4 DEF ServingMoves, CountMoves
<1>12. QED
  BY <1>1, <1>7, <1>8, <1>9, <1>10, <1>11, PathKeeps

\* What a step that delivers does to the threads,
ThreadMoves ==
    \A c \in Clients :
        \/ client'[c] = client[c]
        \/ /\ client[c].at \notin Steps /\ client'[c].at \notin Steps
           /\ client'[c].at = "redeliver" =>
                 client'[c].ind \in Indications /\ indication[client'[c].ind].at # "none"
           /\ client'[c].at = "match" =>
                 /\ client[c].at = "redeliver" /\ client'[c].ind = client[c].ind
                 /\ NotCreating

\* and to the indications.
IndicationMoves ==
    \A i \in Indications :
        \/ indication'[i] = indication[i]
        \/ /\ indication[i].at = "none" /\ indication'[i].at = "sent"
           /\ \E s \in Subscriptions, n \in 1..MaxCreations :
                 n = serving[s] /\ indication'[i].sub = {s} /\ indication'[i].incarnation = n
        \/ /\ indication[i].at # "none" /\ indication'[i].at # "none"
           /\ indication'[i].sub = indication[i].sub
           /\ indication'[i].incarnation = indication[i].incarnation
           /\ indication'[i].at = "matching" => NotCreating

\* The paths, and who works for them, are as they were.
LEMMA SamePaths ==
    ASSUME UNCHANGED <<tableVars, historyVars>>, ThreadMoves
    PROVE  /\ \A c \in Clients : client[c].at \in Steps \/ client'[c].at \in Steps
                 => client'[c] = client[c]
           /\ \A s, X : X \subseteq Steps => (Busy(X, s)' <=> Busy(X, s))
           /\ \A s, n : Alive(s, n)' <=> Alive(s, n)
           /\ \A s, n : Settled(s, n)' <=> Settled(s, n)
<1>1. \A c \in Clients : client[c].at \in Steps \/ client'[c].at \in Steps
         => client'[c] = client[c]
  BY DEF ThreadMoves
<1>2. ASSUME NEW s, NEW X, X \subseteq Steps PROVE Busy(X, s)' <=> Busy(X, s)
  BY <1>1, <1>2 DEF Busy
<1>3. ASSUME NEW s, NEW n PROVE Alive(s, n)' <=> Alive(s, n)
  <2>1. Making(s, n)' <=> Making(s, n)
    BY <1>1, StepNames DEF Making
  <2>2. QED
    BY <2>1 DEF Alive, tableVars, historyVars
<1>4. ASSUME NEW s, NEW n PROVE Settled(s, n)' <=> Settled(s, n)
  <2>1. Busy(Uninserted, s)' <=> Busy(Uninserted, s)
    BY <1>2, StepNames
  <2>2. QED
    BY <2>1 DEF Settled, tableVars, historyVars
<1>5. QED
  BY <1>1, <1>2, <1>3, <1>4

\* A step that delivers keeps the invariant.
LEMMA DeliveryKeeps ==
    ASSUME SubscriptionInv, Typed', UNCHANGED <<tableVars, serving, historyVars>>,
           ThreadMoves, IndicationMoves,
           \A k \in DOMAIN waiting' : indication'[waiting'[k]].at # "none"
    PROVE  SubscriptionInv'
<1>1. /\ normalized' = normalized /\ repository' = repository /\ active' = active
      /\ begun' = begun /\ ended' = ended /\ astray' = astray
      /\ uncommitted' = uncommitted /\ serving' = serving
  BY DEF tableVars, historyVars
<1>2. Typed /\ Named /\ Paths /\ Counted /\ Known /\ LetThrough /\ Held
  BY DEF SubscriptionInv
<1>3. /\ \A c \in Clients : client[c].at \in Steps \/ client'[c].at \in Steps
            => client'[c] = client[c]
      /\ \A s, X : X \subseteq Steps => (Busy(X, s)' <=> Busy(X, s))
      /\ \A s, n : Alive(s, n)' <=> Alive(s, n)
      /\ \A s, n : Settled(s, n)' <=> Settled(s, n)
  BY SamePaths
<1>4. Named'
  BY <1>2, <1>3, StepNames DEF Named
<1>5. Paths'
  <2>1. ASSUME NEW s \in Subscriptions PROVE Synced(s)' /\ Reserved(s)'
    <3>1. /\ Busy(Uninserted, s)' <=> Busy(Uninserted, s)
          /\ Busy(Deletions, s)' <=> Busy(Deletions, s)
          /\ Busy(CreationSteps, s)' <=> Busy(CreationSteps, s)
      BY <1>3, StepNames
    <3>2. QED
      BY <1>1, <1>2, <3>1 DEF Paths, Synced, Reserved
  <2>2. ASSUME NEW s \in Subscriptions, NEW c \in Clients PROVE Stored(c, s)'
    <3>1. client'[c].at \in Made => client'[c] = client[c]
      BY <1>3, StepNames
    <3>2. QED
      BY <1>1, <1>2, <3>1 DEF Paths, Stored
  <2>3. QED
    BY <2>1, <2>2 DEF Paths
<1>6. Counted'
  <2>1. Creating' = Creating
    BY <1>3, StepNames DEF Creating
  <2>2. QED
    BY <1>1, <1>2, <2>1 DEF Counted
<1>7. Known'
  <2>1. ASSUME NEW s \in Subscriptions, serving'[s] # 0 PROVE Alive(s, serving[s])'
    <3>1. Alive(s, serving[s])
      BY <1>1, <1>2, <2>1 DEF Known
    <3>2. PICK n : n = serving[s]
      OBVIOUS
    <3>3. Alive(s, n)'
      BY <1>3, <3>1, <3>2
    <3>4. QED
      BY <1>1, <3>2, <3>3 DEF Alive, Making
  <2>2. ASSUME NEW i \in Indications, indication'[i].at # "none"
        PROVE  /\ indication'[i].incarnation \in Incarnations
               /\ \E s \in Subscriptions :
                     indication'[i].sub = {s} /\ Alive(s, indication[i].incarnation)'
    <3>1. CASE indication[i].at = "none"
      <4>1. PICK s \in Subscriptions, n \in 1..MaxCreations :
               /\ n = serving[s] /\ indication'[i].sub = {s}
               /\ indication'[i].incarnation = n
        BY <2>2, <3>1 DEF IndicationMoves
      <4>2. n # 0 /\ n \in Incarnations
        BY DEF Incarnations
      <4>3. Alive(s, n)
        BY <1>2, <4>1, <4>2 DEF Known
      <4>4. Alive(s, n)'
        BY <1>3, <4>3
      <4>5. QED
        BY <4>1, <4>2, <4>4 DEF Alive, Making
    <3>2. CASE indication[i].at # "none"
      <4>1. indication'[i].sub = indication[i].sub
            /\ indication'[i].incarnation = indication[i].incarnation
        BY <3>2 DEF IndicationMoves
      <4>2. PICK s \in Subscriptions, n \in Incarnations :
               /\ indication[i].sub = {s} /\ n = indication[i].incarnation
               /\ Alive(s, n)
        BY <1>2, <3>2 DEF Known
      <4>3. Alive(s, n)'
        BY <1>3, <4>2
      <4>4. QED
        BY <4>1, <4>2, <4>3 DEF Alive, Making
    <3>3. QED
      BY <3>1, <3>2
  <2>3. QED
    BY <2>1, <2>2 DEF Known, Incarnations
<1>8. ASSUME NEW i \in Indications, indication[i].at # "none",
             \/ NotCreating
             \/ \A s \in indication[i].sub : Settled(s, indication[i].incarnation)
      PROVE  \A s \in indication'[i].sub : Settled(s, indication[i].incarnation)'
  <2>1. indication'[i].sub = indication[i].sub
        /\ indication'[i].incarnation = indication[i].incarnation
    BY <1>8 DEF IndicationMoves
  <2>2. PICK s \in Subscriptions, n \in Incarnations :
           indication[i].sub = {s} /\ n = indication[i].incarnation /\ Alive(s, n)
    BY <1>2, <1>8 DEF Known
  <2>3. Settled(s, n)
    BY <1>8, <2>2, AliveSettled
  <2>4. Settled(s, n)'
    BY <1>3, <2>3
  <2>5. QED
    BY <2>1, <2>2, <2>4 DEF Settled, Busy
<1>9. LetThrough'
  <2>1. ASSUME NEW i \in Indications, indication'[i].at = "matching"
        PROVE  \A s \in indication'[i].sub : Settled(s, indication[i].incarnation)'
    <3>1. indication[i].at # "none"
          /\ (NotCreating \/ indication[i].at = "matching")
      BY <2>1 DEF IndicationMoves
    <3>2. QED
      BY <1>2, <1>8, <3>1 DEF LetThrough
  <2>2. ASSUME NEW c \in Clients, client'[c].at = "match"
        PROVE  \A s \in indication'[client'[c].ind].sub :
                  Settled(s, indication[client[c].ind].incarnation)'
    <3>1. /\ client'[c].ind = client[c].ind
          /\ client[c].at \in {"redeliver", "match"}
          /\ NotCreating \/ client[c].at = "match"
      BY <2>2 DEF ThreadMoves
    <3>2. PICK i \in Indications : i = client[c].ind
      BY <1>2, <3>1 DEF Held
    <3>3. indication[i].at # "none"
      BY <1>2, <3>1, <3>2 DEF Held
    <3>4. NotCreating \/ \A s \in indication[i].sub : Settled(s, indication[i].incarnation)
      BY <1>2, <3>1, <3>2 DEF LetThrough
    <3>5. \A s \in indication'[i].sub : Settled(s, indication[i].incarnation)'
      BY <1>8, <3>3, <3>4
    <3>6. client'[c].ind = i
      BY <3>1, <3>2
    <3>7. QED
      BY <3>5, <3>6 DEF Settled, Busy
  <2>3. QED
    BY <2>1, <2>2 DEF LetThrough
<1>10. Held'
  <2>1. \A i \in Indications : indication[i].at # "none" => indication'[i].at # "none"
    BY DEF IndicationMoves
  <2>2. ASSUME NEW c \in Clients, client'[c].at \in {"redeliver", "match"}
        PROVE  client'[c].ind \in Indications /\ indication[client'[c].ind].at # "none"
    BY <1>2, <2>2 DEF ThreadMoves, Held
  <2>3. QED
    BY <2>1, <2>2 DEF Held
<1>11. QED
  BY <1>2, <1>4, <1>5, <1>6, <1>7, <1>9, <1>10 DEF SubscriptionInv

\* An indication goes on.
LEMMA Staged ==
    ASSUME Typed, NEW i \in Indications,
           NEW step \in {"none", "sent", "matching", "copying", "waiting", "taken", "done"},
           Stage(i, step)
    PROVE  /\ indication' \in [Indications -> IndicationRecords]
           /\ indication'[i].at = step
           /\ indication'[i].sub = indication[i].sub
           /\ indication'[i].incarnation = indication[i].incarnation
           /\ \A j \in Indications : j # i => indication'[j] = indication[j]
<1>1. PICK r \in IndicationRecords : r = indication[i]
  BY DEF Typed
<1>2. indication' = [indication EXCEPT ![i] = [r EXCEPT !.at = step]]
  BY <1>1 DEF Stage, Typed
<1>3. /\ [r EXCEPT !.at = step] \in IndicationRecords
      /\ [r EXCEPT !.at = step].at = step
      /\ [r EXCEPT !.at = step].sub = r.sub
      /\ [r EXCEPT !.at = step].incarnation = r.incarnation
  BY DEF IndicationRecords
<1>4. QED
  BY <1>1, <1>2, <1>3 DEF Typed

\* A thread that has no work for a path goes on with its deliveries.
LEMMA Delivers ==
    ASSUME SubscriptionInv, NEW c \in Clients, client[c].at \notin Steps,
           Goto(c, "take") \/ Idle(c) \/ GoDrain(c)
    PROVE  client' \in [Clients -> ClientRecords] /\ ThreadMoves
<1>1. /\ client' \in [Clients -> ClientRecords]
      /\ client'[c].at \in {"idle", "drain", "take"}
      /\ \A d \in Clients : d # c => client'[d] = client[d]
  BY Goes, Rests DEF SubscriptionInv
<1>2. client'[c].at \notin Steps
  BY <1>1, StepNames
<1>3. QED
  BY <1>1, <1>2 DEF ThreadMoves

\* The elements of waiting when one is added or the first is taken.
LEMMA WaitingAppended ==
    ASSUME Typed, NEW i \in Indications, waiting' = Append(waiting, i)
    PROVE  /\ waiting' \in Seq(Indications)
           /\ \A k \in DOMAIN waiting' :
                 waiting'[k] = i \/ \E j \in DOMAIN waiting : waiting'[k] = waiting[j]
<1>1. waiting \in Seq(Indications)
  BY DEF Typed
<1>2. QED
  BY <1>1, AppendProperties

\* Drain and what a thread that finds nothing to do does.
LEMMA DrainKeeps ==
    ASSUME SubscriptionInv, NEW c \in Clients, Drain(c)
    PROVE  SubscriptionInv'
<1>1. /\ client[c].at = "drain"
      /\ Goto(c, "take") \/ Idle(c)
      /\ UNCHANGED <<tableVars, serving, waiting, indication, historyVars>>
  BY DEF Drain
<1>2. client[c].at \notin Steps
  BY <1>1 DEF Steps, CreationSteps, Deletions
<1>3. client' \in [Clients -> ClientRecords] /\ ThreadMoves
  BY <1>1, <1>2, Delivers
<1>4. Typed'
  BY <1>1, <1>3 DEF SubscriptionInv, Typed, tableVars, historyVars
<1>5. IndicationMoves
  BY <1>1 DEF IndicationMoves
<1>6. \A k \in DOMAIN waiting' : indication'[waiting'[k]].at # "none"
  BY <1>1 DEF SubscriptionInv, Held
<1>7. QED
  BY <1>1, <1>3, <1>4, <1>5, <1>6, DeliveryKeeps

\* A thread takes the first indication that waits.
LEMMA TakeKeeps ==
    ASSUME SubscriptionInv, NEW c \in Clients, TakeWaiting(c)
    PROVE  SubscriptionInv'
<1>1. client[c].at = "take" /\ client[c].at \notin Steps
      /\ UNCHANGED <<tableVars, serving, historyVars>>
  BY DEF TakeWaiting, Steps, CreationSteps, Deletions
<1>2. CASE waiting = <<>>
  <2>1. Idle(c) /\ waiting' = waiting /\ indication' = indication
    BY <1>2 DEF TakeWaiting
  <2>2. client' \in [Clients -> ClientRecords] /\ ThreadMoves
    BY <1>1, <2>1, Delivers
  <2>3. Typed'
    BY <1>1, <2>1, <2>2 DEF SubscriptionInv, Typed, tableVars, historyVars
  <2>4. IndicationMoves
    BY <2>1 DEF IndicationMoves
  <2>5. \A k \in DOMAIN waiting' : indication'[waiting'[k]].at # "none"
    BY <2>1 DEF SubscriptionInv, Held
  <2>6. QED
    BY <1>1, <2>2, <2>3, <2>4, <2>5, DeliveryKeeps
<1>3. CASE waiting # <<>>
  <2>1. PICK i : i = Head(waiting)
    OBVIOUS
  <2>2. /\ waiting' = Tail(waiting) /\ Stage(i, "taken")
        /\ client' = [client EXCEPT ![c].at = "redeliver", ![c].ind = i]
    BY <1>3, <2>1 DEF TakeWaiting
  <2>3. /\ waiting \in Seq(Indications) /\ i \in Indications /\ i = waiting[1]
        /\ 1 \in DOMAIN waiting /\ waiting' \in Seq(Indications)
        /\ \A k \in DOMAIN waiting' : \E j \in DOMAIN waiting : waiting'[k] = waiting[j]
    <3>1. waiting \in Seq(Indications)
      BY DEF SubscriptionInv, Typed
    <3>2. /\ Head(waiting) = waiting[1] /\ Head(waiting) \in Indications
          /\ Tail(waiting) \in Seq(Indications)
          /\ Len(Tail(waiting)) = Len(waiting) - 1
          /\ \A k \in 1..Len(Tail(waiting)) : Tail(waiting)[k] = waiting[k + 1]
      BY <1>3, <3>1, HeadTailProperties
    <3>3. /\ Len(waiting) \in Nat /\ Len(waiting) # 0
          /\ DOMAIN waiting = 1..Len(waiting)
          /\ DOMAIN Tail(waiting) = 1..Len(Tail(waiting))
      BY <1>3, <3>1, <3>2, EmptySeq, LenProperties
    <3>4. QED
      BY <2>1, <2>2, <3>1, <3>2, <3>3
  <2>4. indication[i].at # "none" /\ \A k \in DOMAIN waiting : indication[waiting[k]].at # "none"
    BY <2>3 DEF SubscriptionInv, Held
  <2>5. /\ indication' \in [Indications -> IndicationRecords]
        /\ indication'[i].at = "taken"
        /\ indication'[i].sub = indication[i].sub
        /\ indication'[i].incarnation = indication[i].incarnation
        /\ \A j \in Indications : j # i => indication'[j] = indication[j]
    BY <2>2, <2>3, Staged DEF SubscriptionInv
  <2>6. PICK r \in ClientRecords : r = client[c]
    BY DEF SubscriptionInv, Typed
  <2>7. client' = [client EXCEPT ![c] = [r EXCEPT !.at = "redeliver", !.ind = i]]
    BY <2>2, <2>6 DEF SubscriptionInv, Typed
  <2>8. /\ [r EXCEPT !.at = "redeliver", !.ind = i] \in ClientRecords
        /\ [r EXCEPT !.at = "redeliver", !.ind = i].at = "redeliver"
        /\ [r EXCEPT !.at = "redeliver", !.ind = i].ind = i
    <3>1. i \in 0..MaxIndications
      BY <2>3, SubscriptionAssumption DEF Indications
    <3>2. "redeliver" \in Steps \cup {"idle", "drain", "take", "redeliver", "match"}
      OBVIOUS
    <3>3. QED
      BY <3>1, <3>2 DEF ClientRecords
  <2>9. /\ client' \in [Clients -> ClientRecords]
        /\ client'[c].at = "redeliver" /\ client'[c].ind = i
        /\ \A d \in Clients : d # c => client'[d] = client[d]
    BY <2>7, <2>8 DEF SubscriptionInv, Typed
  <2>10. "redeliver" \notin Steps
    BY DEF Steps, CreationSteps, Deletions
  <2>11. ThreadMoves
    BY <1>1, <2>3, <2>4, <2>9, <2>10 DEF ThreadMoves
  <2>12. IndicationMoves
    BY <2>4, <2>5 DEF IndicationMoves
  <2>13. Typed'
    BY <1>1, <2>3, <2>5, <2>9 DEF SubscriptionInv, Typed, tableVars, historyVars
  <2>14. \A j \in Indications : indication[j].at # "none" => indication'[j].at # "none"
    BY <2>5
  <2>15. \A k \in DOMAIN waiting' : indication'[waiting'[k]].at # "none"
    <3>1. \A j \in DOMAIN waiting : waiting[j] \in Indications
      BY <2>3, ElementOfSeq, LenProperties
    <3>2. QED
      BY <2>3, <2>4, <2>14, <3>1
  <2>16. QED
    BY <1>1, <2>11, <2>12, <2>13, <2>15, DeliveryKeeps
<1>4. QED
  BY <1>2, <1>3


\* A step of an indication that has been generated keeps the invariant.
LEMMA StageKeeps ==
    ASSUME SubscriptionInv, NEW i \in Indications, indication[i].at # "none",
           NEW step \in {"matching", "copying", "waiting", "done"},
           Stage(i, step), step = "matching" => NotCreating,
           waiting' = waiting \/ waiting' = Append(waiting, i),
           client' \in [Clients -> ClientRecords], ThreadMoves,
           UNCHANGED <<tableVars, serving, historyVars>>
    PROVE  SubscriptionInv'
<1>1. /\ indication' \in [Indications -> IndicationRecords]
      /\ indication'[i].at = step
      /\ indication'[i].sub = indication[i].sub
      /\ indication'[i].incarnation = indication[i].incarnation
      /\ \A j \in Indications : j # i => indication'[j] = indication[j]
  BY Staged DEF SubscriptionInv
<1>2. IndicationMoves
  BY <1>1 DEF IndicationMoves
<1>3. /\ waiting \in Seq(Indications)
      /\ \A k \in DOMAIN waiting : indication[waiting[k]].at # "none"
  BY DEF SubscriptionInv, Typed, Held
<1>4. /\ waiting' \in Seq(Indications)
      /\ \A k \in DOMAIN waiting' :
            waiting'[k] = i \/ \E j \in DOMAIN waiting : waiting'[k] = waiting[j]
  <2>1. CASE waiting' = waiting
    BY <1>3, <2>1
  <2>2. CASE waiting' = Append(waiting, i)
    BY <2>2, WaitingAppended DEF SubscriptionInv
  <2>3. QED
    BY <2>1, <2>2
<1>5. Typed'
  BY <1>1, <1>4 DEF SubscriptionInv, Typed, tableVars, historyVars
<1>6. \A k \in DOMAIN waiting' : indication'[waiting'[k]].at # "none"
  <2>1. \A j \in Indications : indication[j].at # "none" => indication'[j].at # "none"
    BY <1>1
  <2>2. \A j \in DOMAIN waiting : waiting[j] \in Indications
    BY <1>3, ElementOfSeq, LenProperties
  <2>3. QED
    BY <1>1, <1>3, <1>4, <2>1, <2>2
<1>7. QED
  BY <1>2, <1>5, <1>6, DeliveryKeeps

\* An indication that waited is matched, or waits again.
LEMMA RedeliverKeeps ==
    ASSUME SubscriptionInv, NEW c \in Clients, Redeliver(c)
    PROVE  SubscriptionInv'
<1>1. client[c].at = "redeliver" /\ client[c].at \notin Steps
      /\ UNCHANGED <<tableVars, serving, historyVars>>
  BY DEF Redeliver, Steps, CreationSteps, Deletions
<1>2. PICK i \in Indications : i = client[c].ind /\ indication[i].at # "none"
  BY <1>1 DEF SubscriptionInv, Held
<1>3. CASE NotCreating
  <2>1. Goto(c, "match") /\ waiting' = waiting /\ indication' = indication
    BY <1>3 DEF Redeliver, Recheck
  <2>2. /\ client' \in [Clients -> ClientRecords] /\ client'[c].at = "match"
        /\ client'[c].ind = client[c].ind
        /\ \A d \in Clients : d # c => client'[d] = client[d]
    BY <2>1, Goes DEF SubscriptionInv
  <2>3. "match" \notin Steps
    BY DEF Steps, CreationSteps, Deletions
  <2>4. ThreadMoves
    BY <1>1, <1>3, <2>2, <2>3 DEF ThreadMoves
  <2>5. Typed'
    BY <1>1, <2>1, <2>2 DEF SubscriptionInv, Typed, tableVars, historyVars
  <2>6. IndicationMoves
    BY <2>1 DEF IndicationMoves
  <2>7. \A k \in DOMAIN waiting' : indication'[waiting'[k]].at # "none"
    BY <2>1 DEF SubscriptionInv, Held
  <2>8. QED
    BY <1>1, <2>4, <2>5, <2>6, <2>7, DeliveryKeeps
<1>4. CASE ~NotCreating
  <2>1. waiting' = Append(waiting, i) /\ Stage(i, "waiting") /\ GoDrain(c)
    BY <1>2, <1>4 DEF Redeliver, Recheck
  <2>2. client' \in [Clients -> ClientRecords] /\ ThreadMoves
    BY <1>1, <2>1, Delivers
  <2>3. QED
    BY <1>1, <1>2, <2>1, <2>2, StageKeeps
<1>5. QED
  BY <1>3, <1>4

\* An indication that waited was matched.
LEMMA MatchWaitedKeeps ==
    ASSUME SubscriptionInv, NEW c \in Clients, MatchWaited(c)
    PROVE  SubscriptionInv'
<1>1. /\ client[c].at = "match" /\ client[c].at \notin Steps /\ GoDrain(c)
      /\ Stage(client[c].ind, "done") /\ waiting' = waiting
      /\ UNCHANGED <<tableVars, serving, historyVars>>
  BY DEF MatchWaited, Steps, CreationSteps, Deletions
<1>2. PICK i \in Indications : i = client[c].ind /\ indication[i].at # "none"
  BY <1>1 DEF SubscriptionInv, Held
<1>3. client' \in [Clients -> ClientRecords] /\ ThreadMoves
  BY <1>1, Delivers
<1>4. QED
  BY <1>1, <1>2, <1>3, StageKeeps

\* An indication that has just come is held back, waits or is matched.
LEMMA ProcessKeeps ==
    ASSUME SubscriptionInv, NEW i \in Indications, Process(i)
    PROVE  SubscriptionInv'
<1>1. /\ client' = client
      /\ UNCHANGED <<tableVars, serving, historyVars>>
      /\ indication[i].at # "none"
  BY DEF Process, Check, InsertWaiting, Match
<1>2. client' \in [Clients -> ClientRecords] /\ ThreadMoves
  BY <1>1 DEF SubscriptionInv, Typed, ThreadMoves
<1>3. CASE Check(i)
  <2>1. waiting' = waiting
    BY <1>3 DEF Check
  <2>2. CASE NotCreating
    <3>1. Stage(i, "matching")
      BY <1>3, <2>2 DEF Check
    <3>2. QED
      BY <1>1, <1>2, <2>1, <2>2, <3>1, StageKeeps
  <2>3. CASE ~NotCreating
    <3>1. Stage(i, "copying")
      BY <1>3, <2>3 DEF Check
    <3>2. QED
      BY <1>1, <1>2, <2>1, <3>1, StageKeeps
  <2>4. QED
    BY <2>2, <2>3
<1>4. CASE InsertWaiting(i)
  <2>1. waiting' = Append(waiting, i) /\ Stage(i, "waiting")
    BY <1>4 DEF InsertWaiting
  <2>2. QED
    BY <1>1, <1>2, <2>1, StageKeeps
<1>5. CASE Match(i)
  <2>1. waiting' = waiting /\ Stage(i, "done")
    BY <1>5 DEF Match
  <2>2. QED
    BY <1>1, <1>2, <2>1, StageKeeps
<1>6. QED
  BY <1>3, <1>4, <1>5 DEF Process

\* An indication is generated for what the providers serve.
LEMMA GenerateKeeps ==
    ASSUME SubscriptionInv, NEW i \in Indications, NEW s \in Subscriptions, Generate(i, s)
    PROVE  SubscriptionInv'
<1>1. /\ indication[i].at = "none" /\ serving[s] # 0
      /\ indication' = [indication EXCEPT ![i] =
                           [at |-> "sent", sub |-> {s}, incarnation |-> serving[s]]]
      /\ client' = client /\ waiting' = waiting
      /\ UNCHANGED <<tableVars, serving, historyVars>>
  BY DEF Generate
<1>2. PICK n \in 1..MaxCreations : n = serving[s]
  BY <1>1, SubscriptionAssumption DEF SubscriptionInv, Typed
<1>3. [at |-> "sent", sub |-> {s}, incarnation |-> n] \in IndicationRecords
  <2>1. n \in 0..MaxCreations
    BY SubscriptionAssumption
  <2>2. QED
    BY <2>1 DEF IndicationRecords
<1>4. /\ indication' \in [Indications -> IndicationRecords]
      /\ indication'[i] = [at |-> "sent", sub |-> {s}, incarnation |-> n]
      /\ \A j \in Indications : j # i => indication'[j] = indication[j]
  BY <1>1, <1>2, <1>3 DEF SubscriptionInv, Typed
<1>5. ThreadMoves
  BY <1>1 DEF ThreadMoves
<1>6. IndicationMoves
  BY <1>1, <1>2, <1>4 DEF IndicationMoves
<1>7. Typed'
  BY <1>1, <1>4 DEF SubscriptionInv, Typed, tableVars, historyVars
<1>8. \A k \in DOMAIN waiting' : indication'[waiting'[k]].at # "none"
  <2>1. \A j \in Indications : indication[j].at # "none" => indication'[j].at # "none"
    BY <1>1, <1>4
  <2>2. \A j \in DOMAIN waiting : waiting[j] \in Indications
    BY ElementOfSeq, LenProperties DEF SubscriptionInv, Typed
  <2>3. QED
    BY <1>1, <2>1, <2>2 DEF SubscriptionInv, Held
<1>9. QED
  BY <1>1, <1>5, <1>6, <1>7, <1>8, DeliveryKeeps

\* Every step keeps the invariant.
LEMMA StepInv == SubscriptionInv /\ [Next]_vars => SubscriptionInv'
<1> SUFFICES ASSUME SubscriptionInv, [Next]_vars PROVE SubscriptionInv'
  OBVIOUS
<1>1. CASE UNCHANGED vars
  <2>1. ThreadMoves /\ IndicationMoves
    BY <1>1 DEF vars, ThreadMoves, IndicationMoves
  <2>2. Typed'
    BY <1>1 DEF vars, tableVars, historyVars, SubscriptionInv, Typed
  <2>3. \A k \in DOMAIN waiting' : indication'[waiting'[k]].at # "none"
    BY <1>1 DEF vars, SubscriptionInv, Held
  <2>4. UNCHANGED <<tableVars, serving, historyVars>>
    BY <1>1 DEF vars
  <2>5. QED
    BY <2>1, <2>2, <2>3, <2>4, DeliveryKeeps
<1>2. ASSUME Next PROVE SubscriptionInv'
  <2>1. Next
    BY <1>2
  <2>2. ASSUME NEW c \in Clients, NEW s \in Subscriptions, BeginCreate(c, s)
        PROVE  SubscriptionInv'
    BY <2>2, BeginCreateKeeps
  <2>3. ASSUME NEW c \in Clients, NEW s \in Subscriptions, BeginDelete(c, s)
        PROVE  SubscriptionInv'
    BY <2>3, BeginDeleteKeeps
  <2>4. ASSUME NEW c \in Clients, NEW s \in Subscriptions, Create(c, s)
        PROVE  SubscriptionInv'
    BY <2>4, ServesKeeps, RejectKeeps, RepositoryKeeps, GetKeeps, InsertKeeps, CommitKeeps,
       CancelKeeps DEF Create
  <2>5. ASSUME NEW c \in Clients, NEW s \in Subscriptions, Delete(c, s)
        PROVE  SubscriptionInv'
    BY <2>5, RemoveNormalizedKeeps, RemoveSubscriptionKeeps DEF Delete
  <2>6. ASSUME NEW c \in Clients, DeliverWaiting(c)
        PROVE  SubscriptionInv'
    BY <2>6, DrainKeeps, TakeKeeps, RedeliverKeeps, MatchWaitedKeeps DEF DeliverWaiting
  <2>7. QED
    BY <2>1, <2>2, <2>3, <2>4, <2>5, <2>6, ProcessKeeps, GenerateKeeps DEF Next, ClientStep
<1>3. QED
  BY <1>1, <1>2

\* Hence it holds in every behaviour.
LEMMA Invariant == Spec => []SubscriptionInv
BY InitInv, StepInv, PTL DEF Spec

-----------------------------------------------------------------------------
\* The types: in particular there are never fewer uncommitted creations than none,
\* nor more than threads.
THEOREM TypeCorrect == Spec => []TypeOK
<1>1. SubscriptionInv => TypeOK
  <2> SUFFICES ASSUME SubscriptionInv PROVE TypeOK
    OBVIOUS
  <2>1. Creating \subseteq Clients
    BY DEF Creating
  <2>2. /\ Cardinality(Creating) \in Nat /\ Cardinality(Clients) \in Nat
        /\ Cardinality(Creating) <= Cardinality(Clients)
    BY <2>1, FS_Subset, FS_CardinalityType, SubscriptionAssumption
  <2>3. uncommitted \in 0..Cardinality(Clients)
    BY <2>2 DEF SubscriptionInv, Counted
  <2>4. Steps \cup {"idle", "drain", "take", "redeliver", "match"}
           = CreationSteps \cup {"idle", "deleted", "deactivate", "drain", "take",
                                 "redeliver", "match"}
    BY DEF Steps, Deletions
  <2>5. QED
    BY <2>3, <2>4 DEF SubscriptionInv, Typed, ClientRecords, IndicationRecords, TypeOK
<1>2. QED
  BY <1>1, Invariant, PTL

\* The count of uncommitted creations is exact, and no path stays reserved for a
\* creation that is over.
THEOREM CountedExactly == Spec => []CounterExact
<1>1. SubscriptionInv => CounterExact
  BY DEF SubscriptionInv, Counted, Paths, Reserved, CounterExact
<1>2. QED
  BY <1>1, Invariant, PTL

\* While no request for a path is under way, it is in the table of active
\* subscriptions when it is in the repository, unless it went astray.
THEOREM TableRight == Spec => []TableComplete
<1>1. SubscriptionInv => TableComplete
  <2> SUFFICES ASSUME SubscriptionInv, NEW s \in Subscriptions, s \notin astray,
                      ~Busy(CreationSteps \cup Deletions, s)
               PROVE  repository[s] # 0 <=> s \in active
    BY DEF TableComplete
  <2>1. ~Busy(Uninserted, s) /\ ~Busy(Deletions, s)
    BY StepNames DEF Busy
  <2>2. Synced(s)
    BY DEF SubscriptionInv, Paths
  <2>3. QED
    BY <2>1, <2>2 DEF Synced
<1>2. QED
  BY <1>1, Invariant, PTL

\* What is settled was served, or its path went astray.
LEMMA SettledServed ==
    ASSUME SubscriptionInv, NEW i \in Indications, indication[i].at # "none",
           \A s \in indication[i].sub : Settled(s, indication[i].incarnation)
    PROVE  Served(i) \/ indication[i].sub \subseteq astray
<1>1. PICK s \in Subscriptions : indication[i].sub = {s}
  BY DEF SubscriptionInv, Known
<1>2. Settled(s, indication[i].incarnation)
  BY <1>1
<1>3. QED
  BY <1>1, <1>2 DEF Settled, Served

\* No indication is matched while its subscription is not active yet: it is held back
\* from the moment its provider is enabled until the creation is committed.
THEOREM NoIndicationLost == Spec => NoneLost
<1>1. SubscriptionInv /\ [Next]_vars =>
         [\A i \in Indications :
             indication[i].at # "done" /\ indication'[i].at = "done" =>
                Served(i) \/ indication[i].sub \subseteq astray]_vars
  <2> SUFFICES ASSUME SubscriptionInv, Next, NEW i \in Indications,
                      indication[i].at # "done", indication'[i].at = "done"
               PROVE  Served(i) \/ indication[i].sub \subseteq astray
    OBVIOUS
  <2>1. Next
    OBVIOUS
  <2>2. indication' # indication
    OBVIOUS
  <2>3. ASSUME NEW j \in Indications,
               NEW step \in {"none", "sent", "matching", "copying", "waiting", "taken", "done"},
               Stage(j, step)
        PROVE  j = i /\ step = "done"
    <3>1. /\ indication'[j].at = step
          /\ \A k \in Indications : k # j => indication'[k] = indication[k]
      BY <2>3, Staged DEF SubscriptionInv
    <3>2. QED
      BY <3>1
  <2>4. CASE indication[i].at = "matching"
    BY <2>4, SettledServed DEF SubscriptionInv, LetThrough
  <2>5. CASE \E c \in Clients : client[c].at = "match" /\ client[c].ind = i
    <3>1. indication[i].at # "none"
      BY <2>5 DEF SubscriptionInv, Held
    <3>2. \A s \in indication[i].sub : Settled(s, indication[i].incarnation)
      BY <2>5 DEF SubscriptionInv, LetThrough
    <3>3. QED
      BY <3>1, <3>2, SettledServed
  <2>6. ASSUME NEW c \in Clients, NEW s \in Subscriptions, BeginCreate(c, s) \/ BeginDelete(c, s)
        PROVE  FALSE
    BY <2>2, <2>6 DEF BeginCreate, BeginDelete
  <2>7. ASSUME NEW c \in Clients, NEW s \in Subscriptions, Create(c, s) \/ Delete(c, s)
        PROVE  FALSE
    BY <2>2, <2>7 DEF Create, Delete, ProviderServes, ProvidersReject, CreateInRepository,
       GetInstance, InsertSubscription, CommitCreateSubscription, CancelCreateSubscription,
       RemoveNormalized, RemoveSubscription
  <2>8. ASSUME NEW c \in Clients, DeliverWaiting(c)
        PROVE  client[c].at = "match" /\ client[c].ind = i
    <3>1. CASE Drain(c)
      BY <2>2, <3>1 DEF Drain
    <3>2. CASE TakeWaiting(c)
      <4>1. waiting # <<>> /\ Stage(Head(waiting), "taken")
        BY <2>2, <3>2 DEF TakeWaiting
      <4>2. waiting \in Seq(Indications)
        BY DEF SubscriptionInv, Typed
      <4>3. Head(waiting) \in Indications
        BY <4>1, <4>2, HeadTailProperties
      <4>4. QED
        BY <2>3, <4>1, <4>3
    <3>3. CASE Redeliver(c)
      <4>1. Stage(client[c].ind, "waiting") /\ client[c].at = "redeliver"
        BY <2>2, <3>3 DEF Redeliver
      <4>2. client[c].ind \in Indications
        BY <4>1 DEF SubscriptionInv, Held
      <4>3. QED
        BY <2>3, <4>1, <4>2
    <3>4. CASE MatchWaited(c)
      <4>1. Stage(client[c].ind, "done") /\ client[c].at = "match"
        BY <3>4 DEF MatchWaited
      <4>2. client[c].ind \in Indications
        BY <4>1 DEF SubscriptionInv, Held
      <4>3. QED
        BY <2>3, <4>1, <4>2
    <3>5. QED
      BY <2>8, <3>1, <3>2, <3>3, <3>4 DEF DeliverWaiting
  <2>9. ASSUME NEW j \in Indications, Process(j) PROVE indication[i].at = "matching"
    <3>1. CASE Check(j)
      BY <2>3, <3>1 DEF Check
    <3>2. CASE InsertWaiting(j)
      BY <2>3, <3>2 DEF InsertWaiting
    <3>3. CASE Match(j)
      BY <2>3, <3>3 DEF Match
    <3>4. QED
      BY <2>9, <3>1, <3>2, <3>3 DEF Process
  <2>10. ASSUME NEW j \in Indications, NEW s \in Subscriptions, Generate(j, s) PROVE FALSE
    BY <2>10 DEF Generate, SubscriptionInv, Typed
  <2>11. QED
    BY <2>1, <2>4, <2>5, <2>6, <2>7, <2>8, <2>9, <2>10 DEF Next, ClientStep
<1>2. QED
  BY <1>1, Invariant, PTL DEF Spec, NoneLost
=============================================================================
