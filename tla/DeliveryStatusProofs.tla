------------------------ MODULE DeliveryStatusProofs ------------------------
(***************************************************************************)
(* Proofs about DeliveryStatus, for any number of threads, any finite set  *)
(* of subscriptions, any number of indications and every mixture of        *)
(* handlers.                                                               *)
(***************************************************************************)
EXTENDS DeliveryStatus, FiniteSetTheorems, SequenceTheorems, TLAPS

Queued(i, s) == \E k \in DOMAIN queue[s] : queue[s][k] = i

\* Subscriptions for which a request was sent, those of which it is counted, and
\* those for which it was completed: by the request itself, or, if the provider
\* waits for the delivery, by the destination.
Forwarded(i) == {s \in Subscriptions : request[i][s] # "none"}

Uncounted(i) == IF service[i] = "counting" THEN 1 ELSE 0

Completed(i) ==
    {s \in Subscriptions :
        \/ request[i][s] = "attempt"
        \/ request[i][s] = "done" /\ (i \in waits => ~Queued(i, s))
        \/ request[i][s] = "enqueued" /\ i \in waits /\ ~Queued(i, s)}

Places == {"none", "new", "lost", "enqueued", "attempt", "export", "completing", "done"}

Aggregators == [expected: Nat, current: 0..Cardinality(Subscriptions), setDone: BOOLEAN]

\* The types, but that the counts of an aggregator are bounded.
Typed ==
    /\ sender \in [Senders -> [at: {"idle", "waiting"}, sent: 0..MaxSent, signal: 0..MaxSent]]
    /\ service \in [Indications -> {"none", "sent", "forwarding", "counting", "done"}]
    /\ waits \subseteq Indications
    /\ matched \in [Indications -> SUBSET Subscriptions]
    /\ toForward \in [Indications -> SUBSET Subscriptions]
    /\ aggregator \in [Indications -> Aggregators]
    /\ answers \in [Indications -> Nat]
    /\ request \in [Indications -> [Subscriptions -> Places]]
    /\ queue \in [Subscriptions -> Seq(Indications)]
    /\ settled \subseteq Indications \X Subscriptions
    /\ responses \subseteq Indications

\* An indication that has not been sent is not known to anybody, and one that was
\* not matched has no request.
Fresh ==
    /\ \A t \in Senders, n \in 1..MaxSent : n > sender[t].sent => service[<<t, n>>] = "none"
    /\ \A i \in Indications :
          /\ service[i] = "none" => i \notin waits
          /\ service[i] \in {"none", "sent"} => matched[i] = {} /\ toForward[i] = {}

\* A request is sent once for each matched subscription.
Sending ==
    \A i \in Indications :
        /\ toForward[i] \subseteq matched[i]
        /\ Forwarded(i) = matched[i] \ toForward[i]
        /\ service[i] = "done" => toForward[i] = {}

\* The queue holds an indication once, while its request is past the enqueue; and
\* what was handed over is in the queue or has been handled to its end.
Handed ==
    \A i \in Indications, s \in Subscriptions :
        /\ Queued(i, s) => request[i][s] \in {"enqueued", "completing", "done"}
        /\ \A j, k \in DOMAIN queue[s] : queue[s][j] = i /\ queue[s][k] = i => j = k
        /\ request[i][s] \in {"enqueued", "completing", "done"} =>
              Queued(i, s) \/ <<i, s>> \in settled

\* The indication service counts the requests it has sent, and the aggregator the
\* completed ones as long as it exists.
Counted ==
    \A i \in Indications :
        /\ aggregator[i].expected = Cardinality(Forwarded(i)) - Uncounted(i)
        /\ aggregator[i].setDone <=> service[i] = "done"
        /\ ~Freed(i) => aggregator[i].current = Cardinality(Completed(i))

\* Nothing is read in a deleted aggregator before it is deleted.
Waited ==
    \A i \in waits, s \in Subscriptions :
        /\ Queued(i, s) /\ ~Freed(i) => request[i][s] \in {"enqueued", "done"}
        /\ request[i][s] = "completing" /\ ~Freed(i) => ~Queued(i, s)

\* Whoever deletes the aggregator was the last to use it, unless the provider
\* waits for the delivery.
LastDeletes ==
    \A i \in Indications \ waits :
        /\ answers[i] <= 1
        /\ Freed(i) => service[i] = "done" /\ Completed(i) = Forwarded(i)

\* An indication is answered when all its destinations have it.
Answers ==
    \A i \in waits : Freed(i) =>
        /\ service[i] = "done"
        /\ \A s \in matched[i] : request[i][s] = "attempt" \/ <<i, s>> \in settled

StatusInv ==
    Typed /\ Fresh /\ Sending /\ Handed /\ Counted /\ Waited /\ LastDeletes /\ Answers

\* Without time-outs, and when no provider waits for deliveries: all but the last
\* indication of a thread were answered, and the last one while the thread waits.
Past ==
    /\ responses \subseteq {i \in Indications : Freed(i)}
    /\ \A t \in Senders, n \in 1..MaxSent :
          /\ n <= sender[t].sent
          /\ n < sender[t].sent \/ sender[t].at = "idle" \/ sender[t].signal # NoResponse
          => Freed(<<t, n>>) /\ <<t, n>> \notin responses

\* No queue holds an indication that was not sent.
Known ==
    \A s \in Subscriptions : \A k \in DOMAIN queue[s] : service[queue[s][k]] # "none"
-----------------------------------------------------------------------------
\* The sets of subscriptions that are counted.
LEMMA Sets ==
    ASSUME NEW i \in Indications
    PROVE  /\ IsFiniteSet(Subscriptions)
           /\ IsFiniteSet(Forwarded(i)) /\ IsFiniteSet(Completed(i))
           /\ Cardinality(Forwarded(i)) \in 0..Cardinality(Subscriptions)
           /\ Cardinality(Completed(i)) \in 0..Cardinality(Subscriptions)
           /\ Cardinality(Subscriptions) \in Nat
           /\ Completed(i) \subseteq Forwarded(i)
           /\ Cardinality(Completed(i)) = Cardinality(Forwarded(i))
                  => Completed(i) = Forwarded(i)
<1>1. IsFiniteSet(Subscriptions)
  BY StatusAssumption
<1>2. Forwarded(i) \subseteq Subscriptions /\ Completed(i) \subseteq Forwarded(i)
  BY DEF Forwarded, Completed
<1>3. IsFiniteSet(Forwarded(i)) /\ Cardinality(Forwarded(i)) <= Cardinality(Subscriptions)
  BY <1>1, <1>2, FS_Subset
<1>4. /\ IsFiniteSet(Completed(i))
      /\ Cardinality(Completed(i)) <= Cardinality(Forwarded(i))
      /\ Cardinality(Completed(i)) = Cardinality(Forwarded(i)) => Completed(i) = Forwarded(i)
  BY <1>2, <1>3, FS_Subset
<1>5. /\ Cardinality(Subscriptions) \in Nat
      /\ Cardinality(Forwarded(i)) \in Nat
      /\ Cardinality(Completed(i)) \in Nat
  BY <1>1, <1>3, <1>4, FS_CardinalityType
<1>6. QED
  BY <1>1, <1>2, <1>3, <1>4, <1>5

\* One more request is in one of the sets.
LEMMA OneMore ==
    ASSUME NEW S \in SUBSET Subscriptions, NEW s \in Subscriptions, s \notin S
    PROVE  /\ Cardinality(S \cup {s}) = Cardinality(S) + 1
           /\ Cardinality(S) \in Nat
           /\ Cardinality(S) + 1 <= Cardinality(Subscriptions)
<1>1. IsFiniteSet(Subscriptions)
  BY StatusAssumption
<1>2. IsFiniteSet(S)
  BY <1>1, FS_Subset
<1>3. Cardinality(S \cup {s}) = Cardinality(S) + 1
  BY <1>2, FS_AddElement
<1>4. S \cup {s} \subseteq Subscriptions
  OBVIOUS
<1>5. Cardinality(S \cup {s}) <= Cardinality(Subscriptions)
  BY <1>1, <1>4, FS_Subset
<1>6. Cardinality(S) \in Nat
  BY <1>2, FS_CardinalityType
<1>7. QED
  BY <1>3, <1>5, <1>6

\* What a step that leaves the requests and the queues alone leaves alone.
LEMMA RequestsKept ==
    ASSUME UNCHANGED <<request, queue>>
    PROVE  /\ \A i \in Indications, s \in Subscriptions : Queued(i, s)' <=> Queued(i, s)
           /\ \A i \in Indications : Forwarded(i)' = Forwarded(i)
           /\ \A i \in Indications : (i \in waits' <=> i \in waits) =>
                 Completed(i)' = Completed(i)
BY DEF Queued, Forwarded, Completed

\* The initial state.
LEMMA InitInv == Init => StatusInv
<1> SUFFICES ASSUME Init PROVE StatusInv
  OBVIOUS
<1> USE DEF Init
<1>1. \A s \in Subscriptions : queue[s] = <<>> /\ DOMAIN queue[s] = {}
  OBVIOUS
<1>2. \A i \in Indications : /\ Forwarded(i) = {} /\ Completed(i) = {}
                             /\ \A s \in Subscriptions : ~Queued(i, s)
  BY <1>1 DEF Forwarded, Completed, Queued
<1>3. Cardinality({}) = 0 /\ Cardinality(Subscriptions) \in Nat
  BY FS_EmptySet, FS_CardinalityType, StatusAssumption
<1>4. Typed
  <2>1. aggregator \in [Indications -> Aggregators]
    BY <1>3 DEF Aggregators
  <2>2. queue \in [Subscriptions -> Seq(Indications)]
    OBVIOUS
  <2>3. sender \in [Senders -> [at: {"idle", "waiting"}, sent: 0..MaxSent,
                                signal: 0..MaxSent]]
    BY StatusAssumption DEF NoResponse
  <2>4. QED
    BY <2>1, <2>2, <2>3 DEF Typed, Places
<1>5. Fresh
  BY DEF Fresh, Indications
<1>6. Sending
  BY <1>2 DEF Sending
<1>7. Counted
  <2> SUFFICES ASSUME NEW i \in Indications
               PROVE  /\ aggregator[i].expected = Cardinality(Forwarded(i)) - Uncounted(i)
                      /\ aggregator[i].setDone <=> service[i] = "done"
                      /\ aggregator[i].current = Cardinality(Completed(i))
    BY DEF Counted
  <2>1. aggregator[i] = [expected |-> 0, current |-> 0, setDone |-> FALSE]
    OBVIOUS
  <2>2. service[i] = "none" /\ Uncounted(i) = 0
    BY DEF Uncounted
  <2>3. Cardinality(Forwarded(i)) = 0 /\ Cardinality(Completed(i)) = 0
    BY <1>2, <1>3
  <2>4. QED
    BY <2>1, <2>2, <2>3
<1>8. Handed
  <2>1. \A i \in Indications, s \in Subscriptions : request[i][s] = "none"
    OBVIOUS
  <2>2. QED
    BY <1>1, <1>2, <2>1 DEF Handed
<1>9. Waited
  BY DEF Waited
<1>10. LastDeletes /\ Answers
  BY DEF LastDeletes, Answers, Freed
<1>11. QED
  BY <1>4, <1>5, <1>6, <1>7, <1>8, <1>9, <1>10 DEF StatusInv

\* A thread sends an indication: the new one has no request yet.
LEMMA DeliverKeeps ==
    ASSUME StatusInv, NEW t \in Senders, Deliver(t)
    PROVE  StatusInv'
<1>a. PICK n \in 1..MaxSent : n = sender[t].sent + 1
  BY StatusAssumption DEF StatusInv, Typed, Deliver
<1> DEFINE i == <<t, n>>
<1>1. n \in 1..MaxSent /\ i \in Indications
  BY DEF Indications
<1>2. service[i] = "none" /\ service' = [service EXCEPT ![i] = "sent"]
  BY <1>1, <1>a DEF StatusInv, Typed, Fresh, Deliver
<1>3. /\ waits' = waits \/ waits' = waits \cup {i}
      /\ UNCHANGED <<matched, toForward, statusVars, handlerVars>>
  BY StatusAssumption, <1>a DEF Deliver
<1>4. i \notin waits /\ matched[i] = {} /\ toForward[i] = {}
  BY <1>1, <1>2 DEF StatusInv, Fresh
<1>5. Forwarded(i) = {} /\ Completed(i) = {}
  BY <1>1, <1>4, Sets DEF StatusInv, Sending
<1>6. \A s \in Subscriptions : request[i][s] = "none" /\ ~Queued(i, s)
  BY <1>1, <1>5 DEF Forwarded, StatusInv, Handed
<1>7. /\ \A j \in Indications, s \in Subscriptions : Queued(j, s)' <=> Queued(j, s)
      /\ \A j \in Indications : Forwarded(j)' = Forwarded(j)
  BY <1>3, RequestsKept DEF handlerVars
<1>8. \A j \in Indications : Completed(j)' = Completed(j)
  <2>1. ASSUME NEW j \in Indications, j # i PROVE Completed(j)' = Completed(j)
    BY <1>3, <2>1, RequestsKept DEF handlerVars
  <2>2. Completed(i)' = {}
    BY <1>3, <1>6 DEF Completed, handlerVars
  <2>3. QED
    BY <1>5, <2>1, <2>2
<1>9. /\ sender' = [sender EXCEPT ![t] =
                       [at |-> "waiting", sent |-> n, signal |-> NoResponse]]
      /\ n \in 0..MaxSent /\ NoResponse \in 0..MaxSent
  BY <1>1, <1>a, StatusAssumption DEF Deliver, NoResponse
<1> HIDE DEF i
<1>10. Typed'
  <2>1. waits' \subseteq Indications
    BY <1>1, <1>3 DEF StatusInv, Typed
  <2>2. service' \in [Indications -> {"none", "sent", "forwarding", "counting", "done"}]
    BY <1>1, <1>2 DEF StatusInv, Typed
  <2>3. sender' \in [Senders -> [at: {"idle", "waiting"}, sent: 0..MaxSent,
                                 signal: 0..MaxSent]]
    <3>1. [at |-> "waiting", sent |-> n, signal |-> NoResponse] \in
             [at: {"idle", "waiting"}, sent: 0..MaxSent, signal: 0..MaxSent]
      BY <1>9
    <3>2. QED
      BY <3>1, <1>9 DEF StatusInv, Typed
  <2>4. QED
    BY <1>3, <2>1, <2>2, <2>3 DEF StatusInv, Typed, statusVars, handlerVars
<1>11. Fresh'
  <2>1. ASSUME NEW u \in Senders, NEW m \in 1..MaxSent, m > sender'[u].sent
        PROVE  service'[<<u, m>>] = "none"
    BY <1>a, <1>1, <1>2, <1>9, <2>1 DEF i, StatusInv, Typed, Fresh, Indications
  <2>2. QED
    BY <1>1, <1>2, <1>3, <1>4, <2>1 DEF StatusInv, Typed, Fresh
<1>12. Sending' /\ Counted'
  BY <1>1, <1>2, <1>3, <1>7, <1>8
  DEF StatusInv, Typed, Sending, Counted, Uncounted, Freed, statusVars
<1>13. Handed'
  BY <1>3, <1>7 DEF StatusInv, Handed, handlerVars
<1>14. Waited'
  BY <1>1, <1>3, <1>6, <1>7 DEF StatusInv, Typed, Waited, Freed, handlerVars, statusVars
<1>15. ~Freed(i) /\ answers[i] <= 1
  BY <1>1, <1>2, <1>4 DEF StatusInv, LastDeletes
<1>16. LastDeletes' /\ Answers'
  BY <1>1, <1>2, <1>3, <1>7, <1>8, <1>15
  DEF StatusInv, Typed, LastDeletes, Answers, Freed, handlerVars, statusVars
<1>17. QED
  BY <1>10, <1>11, <1>12, <1>13, <1>14, <1>16 DEF StatusInv

\* Steps between the threads and the table of the waiting ones.
LEMMA SenderKeeps ==
    ASSUME StatusInv,
           sender' \in [Senders -> [at: {"idle", "waiting"}, sent: 0..MaxSent,
                                    signal: 0..MaxSent]],
           \A t \in Senders : sender'[t].sent = sender[t].sent,
           responses' \subseteq Indications,
           UNCHANGED <<serviceVars, aggregator, answers, handlerVars>>
    PROVE  StatusInv'
<1>1. /\ \A j \in Indications, s \in Subscriptions : Queued(j, s)' <=> Queued(j, s)
      /\ \A j \in Indications : Forwarded(j)' = Forwarded(j)
      /\ \A j \in Indications : Completed(j)' = Completed(j)
  BY RequestsKept DEF handlerVars, serviceVars
<1>2. Typed' /\ Fresh'
  BY DEF StatusInv, Typed, Fresh, serviceVars, handlerVars
<1>3. Sending' /\ Handed'
  BY <1>1 DEF StatusInv, Sending, Handed, serviceVars, handlerVars
<1>4. Counted'
  BY <1>1 DEF StatusInv, Counted, Uncounted, Freed, serviceVars
<1>5. Waited' /\ LastDeletes' /\ Answers'
  <2>1. waits \subseteq Indications
    BY DEF StatusInv, Typed
  <2>2. QED
    BY <1>1, <2>1 DEF StatusInv, Waited, LastDeletes, Answers, Freed, serviceVars, handlerVars
<1>6. QED
  BY <1>2, <1>3, <1>4, <1>5 DEF StatusInv

\* A thread stops waiting, or is told that it may.
LEMMA WaitingKeeps ==
    ASSUME StatusInv
    PROVE  /\ \A t \in Senders : Signalled(t) \/ TimedOut(t) => StatusInv'
           /\ \A i \in Indications : Notify(i) => StatusInv'
<1>1. ASSUME NEW t \in Senders, Signalled(t) \/ TimedOut(t) PROVE StatusInv'
  <2>1. /\ sender' = [sender EXCEPT ![t].at = "idle"]
        /\ UNCHANGED <<serviceVars, statusVars, handlerVars>>
    BY <1>1 DEF Signalled, TimedOut
  <2>2. QED
    BY <2>1, SenderKeeps DEF StatusInv, Typed, statusVars
<1>2. ASSUME NEW i \in Indications, Notify(i) PROVE StatusInv'
  <2>1. i[1] \in Senders /\ i[2] \in 0..MaxSent
    BY StatusAssumption DEF Indications
  <2>2. PICK n \in 0..MaxSent : sender' = [sender EXCEPT ![i[1]].signal = n]
    BY <1>2, <2>1 DEF Notify, StatusInv, Typed
  <2>3. /\ responses' \subseteq Indications
        /\ UNCHANGED <<serviceVars, aggregator, answers, handlerVars>>
    BY <1>2 DEF Notify, StatusInv, Typed
  <2>4. /\ sender' \in [Senders -> [at: {"idle", "waiting"}, sent: 0..MaxSent,
                                    signal: 0..MaxSent]]
        /\ \A t \in Senders : sender'[t].sent = sender[t].sent
    <3> DEFINE Entries == [at: {"idle", "waiting"}, sent: 0..MaxSent, signal: 0..MaxSent]
    <3>1. PICK t \in Senders : t = i[1]
      BY <2>1
    <3>2. PICK r \in Entries : r = sender[t]
      BY DEF StatusInv, Typed
    <3>3. [r EXCEPT !.signal = n] \in Entries /\ [r EXCEPT !.signal = n].sent = r.sent
      OBVIOUS
    <3>4. sender' = [sender EXCEPT ![t] = [r EXCEPT !.signal = n]]
      BY <2>2, <3>1, <3>2
    <3>5. sender \in [Senders -> Entries]
      BY DEF StatusInv, Typed
    <3> HIDE DEF Entries
    <3>6. /\ sender' \in [Senders -> Entries]
          /\ \A u \in Senders : sender'[u].sent = sender[u].sent
      BY <3>2, <3>3, <3>4, <3>5
    <3>7. QED
      BY <3>6 DEF Entries
  <2>5. QED
    BY <2>3, <2>4, SenderKeeps
<1>3. QED
  BY <1>1, <1>2

\* The indication service finds the subscriptions that match.
LEMMA MatchKeeps ==
    ASSUME StatusInv, NEW i \in Indications, Match(i)
    PROVE  StatusInv'
<1>1. PICK M \in SUBSET Subscriptions :
         /\ matched' = [matched EXCEPT ![i] = M]
         /\ toForward' = [toForward EXCEPT ![i] = M]
  BY DEF Match
<1>2. /\ service[i] = "sent" /\ service' = [service EXCEPT ![i] = "forwarding"]
      /\ UNCHANGED <<sender, waits, statusVars, handlerVars>>
  BY DEF Match
<1>3. matched[i] = {} /\ toForward[i] = {} /\ Forwarded(i) = {}
  BY <1>2 DEF StatusInv, Fresh, Sending
<1>4. ~Freed(i)
  BY <1>2 DEF StatusInv, LastDeletes, Answers
<1>5. /\ \A j \in Indications, s \in Subscriptions : Queued(j, s)' <=> Queued(j, s)
      /\ \A j \in Indications : Forwarded(j)' = Forwarded(j)
      /\ \A j \in Indications : Completed(j)' = Completed(j)
  BY <1>2, RequestsKept DEF handlerVars
<1>6. Typed'
  BY <1>1, <1>2 DEF StatusInv, Typed, statusVars, handlerVars
<1>7. Fresh'
  <2>1. \A t \in Senders, n \in 1..MaxSent : <<t, n>> \in Indications
    BY DEF Indications
  <2>2. QED
    BY <1>1, <1>2, <2>1 DEF StatusInv, Typed, Fresh
<1>8. Sending'
  BY <1>1, <1>2, <1>3, <1>5 DEF StatusInv, Typed, Sending
<1>9. Handed'
  BY <1>2, <1>5 DEF StatusInv, Handed, handlerVars
<1>10. Counted'
  BY <1>2, <1>5 DEF StatusInv, Typed, Counted, Uncounted, Freed, statusVars
<1>11. Waited' /\ LastDeletes' /\ Answers'
  <2>1. waits \subseteq Indications /\ waits' = waits
    BY <1>2 DEF StatusInv, Typed
  <2>2. Waited'
    BY <1>2, <1>5, <2>1 DEF StatusInv, Waited, Freed, statusVars, handlerVars
  <2>3. LastDeletes'
    BY <1>2, <1>4, <1>5, <2>1 DEF StatusInv, Typed, LastDeletes, Freed, statusVars, handlerVars
  <2>4. Answers'
    BY <1>1, <1>2, <1>4, <2>1 DEF StatusInv, Typed, Answers, Freed, statusVars, handlerVars
  <2>5. QED
    BY <2>2, <2>3, <2>4
<1>12. QED
  BY <1>6, <1>7, <1>8, <1>9, <1>10, <1>11 DEF StatusInv

\* One request changes.
LEMMA OneRequest ==
    ASSUME Typed, NEW i \in Indications, NEW s \in Subscriptions, NEW x \in Places,
           request' = [request EXCEPT ![i][s] = x]
    PROVE  /\ request' \in [Indications -> [Subscriptions -> Places]]
           /\ request'[i][s] = x
           /\ \A j \in Indications, r \in Subscriptions :
                 j # i \/ r # s => request'[j][r] = request[j][r]
BY DEF Typed

\* The indication service sends a request to the handler service.
LEMMA ForwardKeeps ==
    ASSUME StatusInv, NEW i \in Indications, NEW s \in Subscriptions, Forward(i, s)
    PROVE  StatusInv'
<1>1. PICK x \in {"new", "lost"} : request' = [request EXCEPT ![i][s] = x]
  BY DEF Forward
<1>2. /\ service[i] = "forwarding" /\ s \in toForward[i]
      /\ toForward' = [toForward EXCEPT ![i] = @ \ {s}]
      /\ service' = [service EXCEPT ![i] = "counting"]
      /\ UNCHANGED <<sender, waits, matched, statusVars, queue, settled>>
  BY DEF Forward
<1>3. Typed /\ x \in Places
  BY DEF StatusInv, Places
<1>4. /\ request' \in [Indications -> [Subscriptions -> Places]]
      /\ request'[i][s] = x
      /\ \A j \in Indications, r \in Subscriptions :
            j # i \/ r # s => request'[j][r] = request[j][r]
  BY <1>1, <1>3, OneRequest
<1>5. s \notin Forwarded(i) /\ request[i][s] = "none"
  BY <1>2 DEF StatusInv, Sending, Forwarded
<1>6. ~Queued(i, s)
  BY <1>5 DEF StatusInv, Handed
<1>7. ~Freed(i)
  BY <1>2 DEF StatusInv, LastDeletes, Answers
<1>8. \A j \in Indications, r \in Subscriptions : Queued(j, r)' <=> Queued(j, r)
  BY <1>2 DEF Queued
<1>9. \A j \in Indications : Completed(j)' = Completed(j)
  BY <1>2, <1>4, <1>5, <1>8 DEF Completed
<1>10. /\ Forwarded(i)' = Forwarded(i) \cup {s}
       /\ \A j \in Indications : j # i => Forwarded(j)' = Forwarded(j)
  BY <1>4 DEF Forwarded
<1>11. Typed'
  BY <1>2, <1>3, <1>4 DEF Typed, statusVars
<1>12. Fresh'
  <2>1. \A t \in Senders, n \in 1..MaxSent : <<t, n>> \in Indications
    BY DEF Indications
  <2>2. QED
    BY <1>2, <1>3, <2>1 DEF StatusInv, Typed, Fresh
<1>13. Sending'
  <2>1. toForward'[i] = toForward[i] \ {s} /\ matched'[i] = matched[i] /\ s \in matched[i]
    <3>1. s \in matched[i]
      BY <1>2 DEF StatusInv, Sending
    <3>2. QED
      BY <1>2, <1>3, <3>1 DEF Typed
  <2>2. /\ Forwarded(i)' = matched'[i] \ toForward'[i] /\ service'[i] # "done"
        /\ toForward'[i] \subseteq matched'[i]
    BY <1>2, <1>3, <1>10, <2>1 DEF StatusInv, Typed, Sending
  <2>3. \A j \in Indications : j # i =>
           /\ toForward'[j] \subseteq matched'[j]
           /\ Forwarded(j)' = matched'[j] \ toForward'[j]
           /\ service'[j] = "done" => toForward'[j] = {}
    BY <1>2, <1>3, <1>10 DEF StatusInv, Typed, Sending
  <2>4. QED
    BY <2>2, <2>3 DEF Sending
<1>14. Handed'
  <2>1. ASSUME NEW j \in Indications, NEW r \in Subscriptions
        PROVE  /\ Queued(j, r)' => request'[j][r] \in {"enqueued", "completing", "done"}
               /\ request'[j][r] \in {"enqueued", "completing", "done"} =>
                     Queued(j, r)' \/ <<j, r>> \in settled'
    <3>1. CASE j = i /\ r = s
      BY <1>4, <1>6, <1>8, <3>1
    <3>2. CASE ~(j = i /\ r = s)
      <4>1. request'[j][r] = request[j][r]
        BY <1>4, <3>2
      <4>2. QED
        BY <1>2, <1>8, <4>1 DEF StatusInv, Handed
    <3>3. QED
      BY <3>1, <3>2
  <2>2. QED
    BY <1>2, <2>1 DEF StatusInv, Handed
<1>15. Counted'
  <2>1. Cardinality(Forwarded(i) \cup {s}) = Cardinality(Forwarded(i)) + 1
    BY <1>5, OneMore DEF Forwarded
  <2>2. Cardinality(Forwarded(i)) \in Nat
    BY Sets
  <2>3. Uncounted(i) = 0 /\ Uncounted(i)' = 1
    BY <1>2, <1>3 DEF Uncounted, Typed
  <2>4. \A j \in Indications : j # i => Uncounted(j)' = Uncounted(j)
    BY <1>2, <1>3 DEF Uncounted, Typed
  <2>5. \A j \in Indications : /\ service'[j] = "done" <=> service[j] = "done"
                               /\ Freed(j)' <=> Freed(j)
                               /\ aggregator'[j] = aggregator[j]
    BY <1>2, <1>3 DEF Typed, Freed, statusVars
  <2>6. ASSUME NEW j \in Indications
        PROVE  aggregator'[j].expected = Cardinality(Forwarded(j)') - Uncounted(j)'
    <3>1. CASE j = i
      <4>1. aggregator'[i].expected = Cardinality(Forwarded(i)) - 0
        BY <2>3, <2>5 DEF StatusInv, Counted
      <4>2. aggregator'[i].expected = Cardinality(Forwarded(i)') - Uncounted(i)'
        BY <1>10, <2>1, <2>2, <2>3, <4>1
      <4>3. QED
        BY <3>1, <4>2
    <3>2. CASE j # i
      BY <1>10, <2>4, <2>5, <3>2 DEF StatusInv, Counted
    <3>3. QED
      BY <3>1, <3>2
  <2>7. QED
    BY <1>9, <2>5, <2>6 DEF StatusInv, Counted
<1>16. waits \subseteq Indications /\ waits' = waits
  BY <1>2, <1>3 DEF Typed
<1>17. Waited'
  BY <1>2, <1>4, <1>6, <1>8, <1>16 DEF StatusInv, Waited, Freed, statusVars
<1>18. LastDeletes'
  BY <1>2, <1>3, <1>7, <1>9, <1>10, <1>16
  DEF StatusInv, Typed, LastDeletes, Freed, statusVars
<1>19. Answers'
  <2>1. ASSUME NEW j \in waits, Freed(j)', NEW r \in matched'[j]
        PROVE  request'[j][r] = "attempt" \/ <<j, r>> \in settled'
    BY <1>2, <1>3, <1>4, <1>7, <1>16, <2>1 DEF StatusInv, Typed, Answers, Freed, statusVars
  <2>2. QED
    BY <1>2, <1>3, <1>7, <1>16, <2>1 DEF StatusInv, Typed, Answers, Freed, statusVars
<1>20. QED
  BY <1>11, <1>12, <1>13, <1>14, <1>15, <1>17, <1>18, <1>19 DEF StatusInv

\* The indication service counts the request that it has sent.
LEMMA CountKeeps ==
    ASSUME StatusInv, NEW i \in Indications, IncExpectedResponseCount(i)
    PROVE  StatusInv'
<1>1. /\ service[i] = "counting" /\ service' = [service EXCEPT ![i] = "forwarding"]
      /\ aggregator' = [aggregator EXCEPT ![i].expected = @ + 1]
      /\ UNCHANGED <<sender, waits, matched, toForward, answers, responses, handlerVars>>
  BY DEF IncExpectedResponseCount, CountExpected
<1>2. /\ \A j \in Indications, s \in Subscriptions : Queued(j, s)' <=> Queued(j, s)
      /\ \A j \in Indications : Forwarded(j)' = Forwarded(j)
      /\ \A j \in Indications : Completed(j)' = Completed(j)
  BY <1>1, RequestsKept DEF handlerVars
<1>3. Typed
  BY DEF StatusInv
<1>4. ~Freed(i)
  BY <1>1 DEF StatusInv, LastDeletes, Answers
<1>5. /\ aggregator'[i] = [aggregator[i] EXCEPT !.expected = @ + 1]
      /\ \A j \in Indications : j # i => aggregator'[j] = aggregator[j]
  BY <1>1, <1>3 DEF Typed
<1>6. /\ aggregator[i] \in Aggregators /\ aggregator'[i] \in Aggregators
      /\ aggregator'[i].expected = aggregator[i].expected + 1
      /\ aggregator'[i].current = aggregator[i].current
      /\ aggregator'[i].setDone = aggregator[i].setDone
  <2>1. PICK a \in Aggregators : a = aggregator[i]
    BY <1>3 DEF Typed
  <2>2. aggregator'[i] = [a EXCEPT !.expected = a.expected + 1]
    BY <1>5, <2>1
  <2>3. QED
    BY <2>1, <2>2 DEF Aggregators
<1>7. Typed'
  <2>1. aggregator' \in [Indications -> Aggregators]
    BY <1>1, <1>3, <1>5, <1>6 DEF Typed
  <2>2. QED
    BY <1>1, <1>3, <2>1 DEF Typed, handlerVars
<1>8. Fresh'
  <2>1. \A t \in Senders, n \in 1..MaxSent : <<t, n>> \in Indications
    BY DEF Indications
  <2>2. QED
    BY <1>1, <1>3, <2>1 DEF StatusInv, Typed, Fresh
<1>9. Sending' /\ Handed'
  <2>1. Sending'
    BY <1>1, <1>2, <1>3 DEF StatusInv, Typed, Sending
  <2>2. Handed'
    BY <1>1, <1>2 DEF StatusInv, Handed, handlerVars
  <2>3. QED
    BY <2>1, <2>2
<1>10. Counted'
  <2>1. /\ aggregator[i].expected = Cardinality(Forwarded(i)) - 1
        /\ aggregator[i].setDone <=> service[i] = "done"
        /\ aggregator[i].current = Cardinality(Completed(i))
    BY <1>1, <1>4 DEF StatusInv, Counted, Uncounted
  <2>2. Cardinality(Forwarded(i)) \in Nat
    BY Sets
  <2>3. service'[i] = "forwarding" /\ Uncounted(i)' = 0
    BY <1>1, <1>3 DEF Typed, Uncounted
  <2>4. /\ aggregator'[i].expected = Cardinality(Forwarded(i)') - Uncounted(i)'
        /\ aggregator'[i].setDone <=> service'[i] = "done"
        /\ aggregator'[i].current = Cardinality(Completed(i)')
    <3>1. aggregator'[i].expected = Cardinality(Forwarded(i)') - Uncounted(i)'
      BY <1>2, <1>6, <2>1, <2>2, <2>3
    <3>2. aggregator'[i].setDone <=> service'[i] = "done"
      BY <1>1, <1>6, <2>1, <2>3
    <3>3. QED
      BY <1>2, <1>6, <2>1, <3>1, <3>2
  <2>5. \A j \in Indications : j # i => service'[j] = service[j] /\ Uncounted(j)' = Uncounted(j)
    BY <1>1, <1>3 DEF Typed, Uncounted
  <2>6. \A j \in Indications : Freed(j)' <=> Freed(j)
    BY <1>1 DEF Freed
  <2>7. ASSUME NEW j \in Indications, j # i
        PROVE  /\ aggregator'[j].expected = Cardinality(Forwarded(j)') - Uncounted(j)'
               /\ aggregator'[j].setDone <=> service'[j] = "done"
               /\ ~Freed(j)' => aggregator'[j].current = Cardinality(Completed(j)')
    BY <1>2, <1>5, <2>5, <2>6, <2>7 DEF StatusInv, Counted
  <2>8. QED
    BY <2>4, <2>7 DEF Counted
<1>11. waits \subseteq Indications /\ waits' = waits
  BY <1>1, <1>3 DEF Typed
<1>12. Waited'
  BY <1>1, <1>2, <1>11 DEF StatusInv, Waited, Freed, handlerVars
<1>13. LastDeletes'
  BY <1>1, <1>2, <1>3, <1>4, <1>11 DEF StatusInv, Typed, LastDeletes, Freed
<1>14. Answers'
  BY <1>1, <1>3, <1>4, <1>11 DEF StatusInv, Typed, Answers, Freed, handlerVars
<1>15. QED
  BY <1>7, <1>8, <1>9, <1>10, <1>12, <1>13, <1>14 DEF StatusInv

\* What was answered had been handed to all its destinations.
LEMMA AnswersKept ==
    ASSUME StatusInv, Sending', Handed', waits' = waits, matched' = matched,
           \A j \in Indications : Freed(j)' =>
              service'[j] = "done" /\ (Freed(j) \/ Completed(j)' = Forwarded(j)'),
           \A j \in Indications, r \in Subscriptions :
              request[j][r] = "attempt" \/ <<j, r>> \in settled =>
                 request'[j][r] = "attempt" \/ <<j, r>> \in settled'
    PROVE  Answers'
<1>1. waits \subseteq Indications
  BY DEF StatusInv, Typed
<1>2. ASSUME NEW j \in waits, Freed(j)', NEW r \in matched[j]
      PROVE  request'[j][r] = "attempt" \/ <<j, r>> \in settled'
  <2>1. j \in Indications /\ r \in Subscriptions
    BY <1>1, <1>2 DEF StatusInv, Typed
  <2>2. CASE Freed(j)
    BY <1>2, <2>1, <2>2 DEF StatusInv, Answers
  <2>3. CASE ~Freed(j)
    <3>1. service'[j] = "done" /\ Completed(j)' = Forwarded(j)'
      BY <1>2, <2>1, <2>3
    <3>2. r \in Completed(j)'
      BY <2>1, <3>1 DEF Sending
    <3>3. \/ request'[j][r] = "attempt"
          \/ request'[j][r] \in {"done", "enqueued"} /\ ~Queued(j, r)'
      BY <3>2 DEF Completed
    <3>4. QED
      BY <2>1, <3>3 DEF Handed
  <2>4. QED
    BY <2>2, <2>3
<1>3. QED
  BY <1>1, <1>2 DEF Answers

\* The response is sent, and the aggregator deleted.
LEMMA Sends ==
    ASSUME Typed, NEW i \in Indications, SendResponse(i)
    PROVE  /\ answers' \in [Indications -> Nat] /\ responses' \subseteq Indications
           /\ Freed(i)' /\ answers'[i] = answers[i] + 1
           /\ \A j \in Indications : j # i => answers'[j] = answers[j]
BY DEF Typed, SendResponse, Freed

\* The indication service is done with an indication.
LEMMA SetDoneKeeps ==
    ASSUME StatusInv, NEW i \in Indications, SetDone(i)
    PROVE  StatusInv'
<1>1. /\ service[i] = "forwarding" /\ toForward[i] = {}
      /\ service' = [service EXCEPT ![i] = "done"]
      /\ aggregator' = [aggregator EXCEPT ![i].setDone = TRUE]
      /\ UNCHANGED <<sender, waits, matched, toForward, handlerVars>>
      /\ IF AllComplete(i) THEN SendResponse(i) ELSE NoAnswer
  BY DEF SetDone
<1>2. /\ \A j \in Indications, s \in Subscriptions : Queued(j, s)' <=> Queued(j, s)
      /\ \A j \in Indications : Forwarded(j)' = Forwarded(j)
      /\ \A j \in Indications : Completed(j)' = Completed(j)
  BY <1>1, RequestsKept DEF handlerVars
<1>3. Typed
  BY DEF StatusInv
<1>4. ~Freed(i) /\ answers[i] = 0
  BY <1>1, <1>3 DEF StatusInv, LastDeletes, Answers, Freed, Typed
<1>5. /\ aggregator'[i] = [aggregator[i] EXCEPT !.setDone = TRUE]
      /\ \A j \in Indications : j # i => aggregator'[j] = aggregator[j]
  BY <1>1, <1>3 DEF Typed
<1>6. /\ aggregator[i] \in Aggregators /\ aggregator'[i] \in Aggregators
      /\ aggregator'[i].expected = aggregator[i].expected
      /\ aggregator'[i].current = aggregator[i].current
      /\ aggregator'[i].setDone
  <2>1. PICK a \in Aggregators : a = aggregator[i]
    BY <1>3 DEF Typed
  <2>2. aggregator'[i] = [a EXCEPT !.setDone = TRUE]
    BY <1>5, <2>1
  <2>3. QED
    BY <2>1, <2>2 DEF Aggregators
<1>7. /\ answers' \in [Indications -> Nat] /\ responses' \subseteq Indications
      /\ \A j \in Indications : j # i => answers'[j] = answers[j]
      /\ answers'[i] <= 1
      /\ Freed(i)' => AllComplete(i)
  <2>1. CASE AllComplete(i)
    BY <1>1, <1>3, <1>4, <2>1, Sends
  <2>2. CASE ~AllComplete(i)
    BY <1>1, <1>3, <1>4, <2>2 DEF NoAnswer, Typed, Freed
  <2>3. QED
    BY <2>1, <2>2
<1>8. Freed(i)' => Completed(i) = Forwarded(i)
  <2>1. /\ aggregator[i].expected = Cardinality(Forwarded(i)) - 0
        /\ aggregator[i].current = Cardinality(Completed(i))
    BY <1>1, <1>4 DEF StatusInv, Counted, Uncounted
  <2>2. Cardinality(Forwarded(i)) \in Nat
    BY Sets
  <2>3. QED
    BY <1>7, <2>1, <2>2, Sets DEF AllComplete
<1>9. Typed'
  <2>1. aggregator' \in [Indications -> Aggregators]
    BY <1>1, <1>3, <1>5, <1>6 DEF Typed
  <2>2. service' \in [Indications -> {"none", "sent", "forwarding", "counting", "done"}]
    BY <1>1, <1>3 DEF Typed
  <2>3. QED
    BY <1>1, <1>3, <1>7, <2>1, <2>2 DEF Typed, handlerVars
<1>10. Fresh'
  <2>1. \A t \in Senders, n \in 1..MaxSent : <<t, n>> \in Indications
    BY DEF Indications
  <2>2. QED
    BY <1>1, <1>3, <2>1 DEF StatusInv, Typed, Fresh
<1>11. Sending'
  BY <1>1, <1>2, <1>3 DEF StatusInv, Typed, Sending
<1>12. Handed'
  <2>1. UNCHANGED <<request, queue, settled>>
    BY <1>1 DEF handlerVars
  <2>2. QED
    BY <1>2, <2>1 DEF StatusInv, Handed
<1>13. \A j \in Indications : j # i => /\ service'[j] = service[j]
                                       /\ Freed(j)' <=> Freed(j)
                                       /\ Uncounted(j)' = Uncounted(j)
  BY <1>1, <1>3, <1>7 DEF Typed, Freed, Uncounted
<1>14. service'[i] = "done"
  BY <1>1, <1>3 DEF Typed
<1>15. Counted'
  <2>1. /\ aggregator[i].expected = Cardinality(Forwarded(i)) - Uncounted(i)
        /\ Uncounted(i) = 0 /\ Uncounted(i)' = 0
        /\ aggregator[i].current = Cardinality(Completed(i))
    BY <1>1, <1>4, <1>14 DEF StatusInv, Counted, Uncounted
  <2>2. /\ aggregator'[i].expected = Cardinality(Forwarded(i)') - Uncounted(i)'
        /\ aggregator'[i].setDone <=> service'[i] = "done"
        /\ aggregator'[i].current = Cardinality(Completed(i)')
    BY <1>2, <1>6, <1>14, <2>1
  <2>3. ASSUME NEW j \in Indications, j # i
        PROVE  /\ aggregator'[j].expected = Cardinality(Forwarded(j)') - Uncounted(j)'
               /\ aggregator'[j].setDone <=> service'[j] = "done"
               /\ ~Freed(j)' => aggregator'[j].current = Cardinality(Completed(j)')
    BY <1>2, <1>5, <1>13, <2>3 DEF StatusInv, Counted
  <2>4. QED
    BY <2>2, <2>3 DEF Counted
<1>16. waits \subseteq Indications /\ waits' = waits
  BY <1>1, <1>3 DEF Typed
<1>17. Waited'
  <2>1. \A j \in Indications : Freed(j) => Freed(j)'
    BY <1>4, <1>13
  <2>2. QED
    BY <1>1, <1>2, <1>16, <2>1 DEF StatusInv, Waited, handlerVars
<1>18. LastDeletes'
  BY <1>2, <1>7, <1>8, <1>13, <1>14, <1>16 DEF StatusInv, LastDeletes
<1>19. Answers'
  <2>1. \A j \in Indications : Freed(j) => service[j] = "done"
    BY DEF StatusInv, Answers, LastDeletes
  <2>2. \A j \in Indications : Freed(j)' =>
           service'[j] = "done" /\ (Freed(j) \/ Completed(j)' = Forwarded(j)')
    BY <1>2, <1>8, <1>13, <1>14, <2>1
  <2>3. UNCHANGED <<request, settled, matched>>
    BY <1>1 DEF handlerVars
  <2>4. QED
    BY <1>11, <1>12, <1>16, <2>2, <2>3, AnswersKept
<1>20. QED
  BY <1>9, <1>10, <1>11, <1>12, <1>15, <1>17, <1>18, <1>19 DEF StatusInv

\* A response is counted, by the last one with an answer: what a step that completes
\* the request of i and s does to the counts.
LEMMA CompleteCounts ==
    ASSUME StatusInv, NEW i \in Indications, NEW s \in Subscriptions, Complete(i),
           UNCHANGED <<serviceVars>>,
           \A j \in Indications : Forwarded(j)' = Forwarded(j),
           \A j \in Indications : j # i => Completed(j)' = Completed(j),
           i \notin waits \/ ~Freed(i) => s \in Forwarded(i) \ Completed(i),
           ~Freed(i) => Completed(i)' = Completed(i) \cup {s}
    PROVE  /\ aggregator' \in [Indications -> Aggregators]
           /\ answers' \in [Indications -> Nat] /\ responses' \subseteq Indications
           /\ Counted' /\ LastDeletes'
           /\ \A j \in Indications : Freed(j) => Freed(j)'
           /\ \A j \in Indications : Freed(j)' =>
                 service'[j] = "done" /\ (Freed(j) \/ Completed(j)' = Forwarded(j)')
<1>1. Typed /\ UNCHANGED <<service, waits>>
  BY DEF StatusInv, serviceVars
<1>2. i \notin waits => ~Freed(i) /\ answers[i] = 0
  BY <1>1 DEF StatusInv, LastDeletes, Freed, Typed
<1>3. /\ answers' \in [Indications -> Nat] /\ responses' \subseteq Indications
      /\ \A j \in Indications : j # i => answers'[j] = answers[j]
      /\ answers'[i] = answers[i] \/ answers'[i] = answers[i] + 1
      /\ ~Freed(i) /\ Freed(i)' => LastOne(i)
      /\ Freed(i) => Freed(i)'
  <2>1. CASE SendResponse(i)
    BY <1>1, <2>1, Sends DEF Complete, NoAnswer, Typed, Freed
  <2>2. CASE ~SendResponse(i)
    BY <1>1, <2>2 DEF Complete, NoAnswer, Typed, Freed
  <2>3. QED
    BY <2>1, <2>2
<1>4. /\ \A j \in Indications : j # i => aggregator'[j] = aggregator[j]
      /\ Freed(i) => aggregator' = aggregator
      /\ ~Freed(i) => aggregator' =
            [aggregator EXCEPT ![i] = [aggregator[i] EXCEPT !.current = @ + 1]]
  BY <1>1 DEF Complete, Typed
<1>5. \A j \in Indications : j # i => (Freed(j)' <=> Freed(j))
  BY <1>3 DEF Freed
<1>6. \A j \in Indications : Uncounted(j)' = Uncounted(j)
  BY <1>1 DEF Uncounted
<1>7. \A j \in Indications : Freed(j) => service[j] = "done"
  BY DEF StatusInv, LastDeletes, Answers
<1>8. ASSUME ~Freed(i)
      PROVE  /\ aggregator'[i] \in Aggregators
             /\ aggregator'[i].expected = aggregator[i].expected
             /\ aggregator'[i].setDone = aggregator[i].setDone
             /\ aggregator'[i].current = Cardinality(Completed(i)')
             /\ LastOne(i) => service[i] = "done" /\ Completed(i)' = Forwarded(i)'
  <2>1. /\ aggregator[i].expected = Cardinality(Forwarded(i)) - Uncounted(i)
        /\ aggregator[i].setDone <=> service[i] = "done"
        /\ aggregator[i].current = Cardinality(Completed(i))
    BY <1>8 DEF StatusInv, Counted
  <2>2. PICK a \in Aggregators : a = aggregator[i]
    BY <1>1 DEF Typed
  <2>3. aggregator'[i] = [a EXCEPT !.current = a.current + 1]
    BY <1>1, <1>4, <1>8, <2>2 DEF Typed
  <2>4. /\ Cardinality(Completed(i)') = Cardinality(Completed(i)) + 1
        /\ Cardinality(Completed(i)) + 1 <= Cardinality(Subscriptions)
    BY <1>8, OneMore DEF Completed
  <2>5. /\ Cardinality(Forwarded(i)) \in Nat /\ Cardinality(Completed(i)) \in Nat
        /\ Cardinality(Subscriptions) \in Nat
    BY Sets
  <2>6. Cardinality(Completed(i)) + 1 \in 0..Cardinality(Subscriptions)
    BY <2>4, <2>5
  <2>7. a.current + 1 \in 0..Cardinality(Subscriptions)
    BY <2>1, <2>2, <2>6
  <2>8. /\ aggregator'[i] \in Aggregators
        /\ aggregator'[i].expected = a.expected
        /\ aggregator'[i].setDone = a.setDone
        /\ aggregator'[i].current = a.current + 1
    BY <2>3, <2>7 DEF Aggregators
  <2>9. LastOne(i) => service[i] = "done" /\ Completed(i)' = Forwarded(i)'
    <3>1. SUFFICES ASSUME LastOne(i)
                   PROVE  service[i] = "done" /\ Completed(i)' = Forwarded(i)'
      OBVIOUS
    <3>2. service[i] = "done" /\ Uncounted(i) = 0
      BY <2>1, <3>1 DEF LastOne, Uncounted
    <3>3. Cardinality(Forwarded(i)) = Cardinality(Completed(i)) + 1
      BY <2>1, <2>5, <3>1, <3>2 DEF LastOne
    <3>4. /\ IsFiniteSet(Forwarded(i)) /\ Completed(i)' \subseteq Forwarded(i)
      BY <1>8, Sets
    <3>5. Cardinality(Completed(i)') = Cardinality(Forwarded(i)) =>
            Completed(i)' = Forwarded(i)
      BY <3>4, FS_Subset
    <3>6. QED
      BY <2>4, <3>2, <3>3, <3>5
  <2>10. QED
    BY <2>1, <2>2, <2>4, <2>8, <2>9
<1>9. aggregator' \in [Indications -> Aggregators]
  <2>1. CASE Freed(i)
    BY <1>1, <1>4, <2>1 DEF Typed
  <2>2. CASE ~Freed(i)
    BY <1>1, <1>4, <1>8, <2>2 DEF Typed
  <2>3. QED
    BY <2>1, <2>2
<1>10. Counted'
  <2>1. ASSUME NEW j \in Indications, j # i
        PROVE  /\ aggregator'[j].expected = Cardinality(Forwarded(j)') - Uncounted(j)'
               /\ aggregator'[j].setDone <=> service'[j] = "done"
               /\ ~Freed(j)' => aggregator'[j].current = Cardinality(Completed(j)')
    BY <1>1, <1>4, <1>5, <1>6, <2>1 DEF StatusInv, Counted
  <2>2. /\ aggregator'[i].expected = Cardinality(Forwarded(i)') - Uncounted(i)'
        /\ aggregator'[i].setDone <=> service'[i] = "done"
        /\ ~Freed(i)' => aggregator'[i].current = Cardinality(Completed(i)')
    <3>1. CASE Freed(i)
      BY <1>1, <1>3, <1>4, <1>6, <3>1 DEF StatusInv, Counted
    <3>2. CASE ~Freed(i)
      BY <1>1, <1>6, <1>8, <3>2 DEF StatusInv, Counted
    <3>3. QED
      BY <3>1, <3>2
  <2>3. QED
    BY <2>1, <2>2 DEF Counted
<1>11. \A j \in Indications : Freed(j)' =>
          service'[j] = "done" /\ (Freed(j) \/ Completed(j)' = Forwarded(j)')
  BY <1>1, <1>3, <1>5, <1>7, <1>8
<1>12. LastDeletes'
  <2>1. ASSUME NEW j \in Indications \ waits
        PROVE  /\ answers'[j] <= 1
               /\ Freed(j)' => service'[j] = "done" /\ Completed(j)' = Forwarded(j)'
    <3>1. CASE j = i
      <4>1. answers'[j] <= 1
        BY <1>2, <1>3, <2>1, <3>1
      <4>2. QED
        BY <1>2, <1>11, <2>1, <3>1, <4>1
    <3>2. CASE j # i
      BY <1>1, <1>3, <1>5, <2>1, <3>2 DEF StatusInv, LastDeletes
    <3>3. QED
      BY <3>1, <3>2
  <2>2. QED
    BY <1>1, <2>1 DEF LastDeletes
<1>13. QED
  BY <1>3, <1>5, <1>9, <1>10, <1>11, <1>12

\* The oldest indication leaves a queue.
LEMMA Popped ==
    ASSUME NEW q \in Seq(Indications), q # <<>>
    PROVE  /\ Tail(q) \in Seq(Indications) /\ Head(q) = q[1] /\ Head(q) \in Indications
           /\ DOMAIN q = 1..Len(q) /\ Len(q) \in Nat \ {0}
           /\ DOMAIN Tail(q) = 1..(Len(q) - 1)
           /\ \A k \in 1..(Len(q) - 1) : Tail(q)[k] = q[k + 1]
OBVIOUS

\* An indication is added to a queue.
LEMMA Appended ==
    ASSUME NEW q \in Seq(Indications), NEW i \in Indications
    PROVE  /\ Append(q, i) \in Seq(Indications)
           /\ DOMAIN q = 1..Len(q) /\ Len(q) \in Nat
           /\ DOMAIN Append(q, i) = 1..(Len(q) + 1)
           /\ Append(q, i)[Len(q) + 1] = i
           /\ \A k \in 1..Len(q) : Append(q, i)[k] = q[k]
OBVIOUS

\* The handler service goes on with one request.
LEMMA Handled ==
    ASSUME StatusInv, NEW i \in Indications, NEW s \in Subscriptions,
           NEW from \in Places \ {"none"}, NEW to \in Places \ {"none"},
           Handle(i, s, from, to)
    PROVE  /\ request' \in [Indications -> [Subscriptions -> Places]]
           /\ request[i][s] = from /\ request'[i][s] = to
           /\ \A j \in Indications, r \in Subscriptions :
                 j # i \/ r # s => request'[j][r] = request[j][r]
           /\ \A j \in Indications : Forwarded(j)' = Forwarded(j)
           /\ s \in Forwarded(i)
<1>1. Typed
  BY DEF StatusInv
<1>2. /\ request' \in [Indications -> [Subscriptions -> Places]]
      /\ request[i][s] = from /\ request'[i][s] = to
      /\ \A j \in Indications, r \in Subscriptions :
            j # i \/ r # s => request'[j][r] = request[j][r]
  <2>1. request' = [request EXCEPT ![i][s] = to] /\ to \in Places
    BY DEF Handle
  <2>2. /\ request' \in [Indications -> [Subscriptions -> Places]]
        /\ request'[i][s] = to
        /\ \A j \in Indications, r \in Subscriptions :
              j # i \/ r # s => request'[j][r] = request[j][r]
    BY <1>1, <2>1 DEF Typed
  <2>3. request[i][s] = from
    BY DEF Handle
  <2>4. QED
    BY <2>2, <2>3
<1>3. QED
  BY <1>2 DEF Forwarded

\* A step about the request of one indication and one subscription completes no
\* other.
LEMMA OthersKept ==
    ASSUME NEW i \in Indications, NEW s \in Subscriptions, waits' = waits,
           \A j \in Indications, r \in Subscriptions :
              j # i \/ r # s => /\ request'[j][r] = request[j][r]
                                /\ Queued(j, r)' <=> Queued(j, r)
    PROVE  /\ \A j \in Indications : j # i => Completed(j)' = Completed(j)
           /\ s \in Completed(i)' /\ s \notin Completed(i) =>
                 Completed(i)' = Completed(i) \cup {s}
           /\ (s \in Completed(i)' <=> s \in Completed(i)) => Completed(i)' = Completed(i)
<1>1. ASSUME NEW j \in Indications, NEW r \in Subscriptions, j # i \/ r # s
      PROVE  r \in Completed(j)' <=> r \in Completed(j)
  BY <1>1 DEF Completed
<1>2. \A j \in Indications :
       Completed(j) \subseteq Subscriptions /\ Completed(j)' \subseteq Subscriptions
  BY DEF Completed
<1>3. QED
  BY <1>1, <1>2

\* A step of the handler's threads that completes nothing.
LEMMA QuietKeeps ==
    ASSUME StatusInv, UNCHANGED <<sender, serviceVars, statusVars>>,
           request' \in [Indications -> [Subscriptions -> Places]],
           queue' \in [Subscriptions -> Seq(Indications)],
           settled' \subseteq Indications \X Subscriptions,
           \A j \in Indications : Forwarded(j)' = Forwarded(j),
           \A j \in Indications :
              Completed(j)' = Completed(j) \/ (j \in waits /\ Freed(j)),
           \A j \in Indications, r \in Subscriptions :
              request[j][r] = "attempt" \/ <<j, r>> \in settled =>
                 request'[j][r] = "attempt" \/ <<j, r>> \in settled',
           Handed', Waited'
    PROVE  StatusInv'
<1>1. UNCHANGED <<sender, service, waits, matched, toForward, aggregator, answers, responses>>
  BY DEF serviceVars, statusVars
<1>2. \A j \in Indications : (Freed(j)' <=> Freed(j)) /\ Uncounted(j)' = Uncounted(j)
  BY <1>1 DEF Freed, Uncounted
<1>3. Typed' /\ Fresh' /\ Sending'
  BY <1>1 DEF StatusInv, Typed, Fresh, Sending
<1>4. Counted'
  BY <1>1, <1>2 DEF StatusInv, Counted
<1>5. LastDeletes'
  BY <1>1, <1>2 DEF StatusInv, LastDeletes
<1>6. Answers'
  <2>1. \A j \in Indications : Freed(j)' => service'[j] = "done" /\ Freed(j)
    BY <1>1, <1>2 DEF StatusInv, LastDeletes, Answers
  <2>2. QED
    BY <1>1, <1>3, <2>1, AnswersKept
<1>7. QED
  BY <1>3, <1>4, <1>5, <1>6 DEF StatusInv

\* A step that completes the request of i and s.
LEMMA CompletingKeeps ==
    ASSUME StatusInv, UNCHANGED <<sender, serviceVars>>,
           NEW i \in Indications, NEW s \in Subscriptions, Complete(i),
           request' \in [Indications -> [Subscriptions -> Places]],
           queue' \in [Subscriptions -> Seq(Indications)],
           settled' \subseteq Indications \X Subscriptions,
           \A j \in Indications : Forwarded(j)' = Forwarded(j),
           \A j \in Indications : j # i => Completed(j)' = Completed(j),
           i \notin waits \/ ~Freed(i) => s \in Forwarded(i) \ Completed(i),
           ~Freed(i) => Completed(i)' = Completed(i) \cup {s},
           \A j \in Indications, r \in Subscriptions :
              request[j][r] = "attempt" \/ <<j, r>> \in settled =>
                 request'[j][r] = "attempt" \/ <<j, r>> \in settled',
           Handed',
           (\A j \in Indications : Freed(j) => Freed(j)') => Waited'
    PROVE  StatusInv'
<1>1. UNCHANGED <<sender, service, waits, matched, toForward>>
  BY DEF serviceVars
<1>2. /\ aggregator' \in [Indications -> Aggregators]
      /\ answers' \in [Indications -> Nat] /\ responses' \subseteq Indications
      /\ Counted' /\ LastDeletes'
      /\ \A j \in Indications : Freed(j) => Freed(j)'
      /\ \A j \in Indications : Freed(j)' =>
            service'[j] = "done" /\ (Freed(j) \/ Completed(j)' = Forwarded(j)')
  BY CompleteCounts
<1>3. Typed' /\ Fresh' /\ Sending'
  BY <1>1, <1>2 DEF StatusInv, Typed, Fresh, Sending
<1>4. Answers'
  BY <1>1, <1>2, <1>3, AnswersKept
<1>5. QED
  BY <1>2, <1>3, <1>4 DEF StatusInv

\* The indication is queued for its destination.
LEMMA EnqueueKeeps ==
    ASSUME StatusInv, NEW i \in Indications, NEW s \in Subscriptions, EnqueueReliable(i, s)
    PROVE  StatusInv'
<1>1. /\ Handle(i, s, "new", "enqueued")
      /\ queue' = [queue EXCEPT ![s] = Append(@, i)]
      /\ UNCHANGED <<sender, serviceVars, statusVars, settled>>
  BY DEF EnqueueReliable
<1>2. Typed /\ waits \subseteq Indications /\ waits' = waits /\ answers' = answers
  BY <1>1 DEF StatusInv, Typed, serviceVars, statusVars
<1>3. /\ request' \in [Indications -> [Subscriptions -> Places]]
      /\ request[i][s] = "new" /\ request'[i][s] = "enqueued"
      /\ \A j \in Indications, r \in Subscriptions :
            j # i \/ r # s => request'[j][r] = request[j][r]
      /\ \A j \in Indications : Forwarded(j)' = Forwarded(j)
  BY <1>1, Handled DEF Places
<1>4. /\ queue[s] \in Seq(Indications)
      /\ queue'[s] = Append(queue[s], i)
      /\ \A r \in Subscriptions : r # s => queue'[r] = queue[r]
      /\ queue' \in [Subscriptions -> Seq(Indications)]
  BY <1>1, <1>2, Appended DEF Typed
<1>a. /\ DOMAIN queue[s] = 1..Len(queue[s]) /\ Len(queue[s]) \in Nat
      /\ DOMAIN queue'[s] = 1..(Len(queue[s]) + 1)
      /\ queue'[s][Len(queue[s]) + 1] = i
      /\ \A k \in 1..Len(queue[s]) : queue'[s][k] = queue[s][k]
  BY <1>4, Appended
<1>5. ~Queued(i, s) /\ Queued(i, s)'
  <2>1. ~Queued(i, s)
    BY <1>3 DEF StatusInv, Handed
  <2>2. QED
    BY <1>a, <2>1 DEF Queued
<1>6. \A j \in Indications, r \in Subscriptions :
         j # i \/ r # s => (Queued(j, r)' <=> Queued(j, r))
  <2>1. ASSUME NEW j \in Indications, j # i PROVE Queued(j, s)' <=> Queued(j, s)
    <3>1. Queued(j, s) => Queued(j, s)'
      BY <1>a DEF Queued
    <3>2. ASSUME NEW k \in DOMAIN queue'[s], queue'[s][k] = j PROVE Queued(j, s)
      <4>1. k \in 1..Len(queue[s]) /\ queue[s][k] = j
        BY <1>a, <2>1, <3>2
      <4>2. QED
        BY <1>a, <4>1 DEF Queued
    <3>3. QED
      BY <3>1, <3>2 DEF Queued
  <2>2. QED
    BY <1>4, <2>1 DEF Queued
<1>7. \A j \in Indications : Completed(j)' = Completed(j)
  <2>1. s \notin Completed(i) /\ s \notin Completed(i)'
    BY <1>3, <1>5 DEF Completed
  <2>2. QED
    BY <1>2, <1>3, <1>6, <2>1, OthersKept
<1>8. Handed'
  <2>1. ASSUME NEW j \in Indications, NEW r \in Subscriptions
        PROVE  /\ Queued(j, r)' => request'[j][r] \in {"enqueued", "completing", "done"}
               /\ request'[j][r] \in {"enqueued", "completing", "done"} =>
                     Queued(j, r)' \/ <<j, r>> \in settled'
    <3>1. CASE j = i /\ r = s
      BY <1>3, <1>5, <3>1
    <3>2. CASE ~(j = i /\ r = s)
      <4>1. request'[j][r] = request[j][r] /\ (Queued(j, r)' <=> Queued(j, r))
        BY <1>3, <1>6, <3>2
      <4>2. QED
        BY <1>1, <4>1 DEF StatusInv, Handed
    <3>3. QED
      BY <3>1, <3>2
  <2>2. ASSUME NEW j \in Indications, NEW r \in Subscriptions,
               NEW k \in DOMAIN queue'[r], NEW l \in DOMAIN queue'[r],
               queue'[r][k] = j, queue'[r][l] = j
        PROVE  k = l
    <3>a. \A m, o \in DOMAIN queue[r] : queue[r][m] = j /\ queue[r][o] = j => m = o
      BY DEF StatusInv, Handed
    <3>1. CASE r # s
      <4>1. queue'[r] = queue[r]
        BY <1>4, <3>1
      <4>2. QED
        BY <2>2, <3>a, <4>1
    <3>2. CASE r = s /\ j = i
      <4>1. \A m \in 1..Len(queue[s]) : queue[s][m] # i
        BY <1>a, <1>5 DEF Queued
      <4>2. /\ k \in 1..(Len(queue[s]) + 1) /\ queue'[s][k] = i
            /\ l \in 1..(Len(queue[s]) + 1) /\ queue'[s][l] = i
        BY <1>a, <2>2, <3>2
      <4>3. k \notin 1..Len(queue[s]) /\ l \notin 1..Len(queue[s])
        BY <1>a, <4>1, <4>2
      <4>4. QED
        BY <1>a, <4>2, <4>3
    <3>3. CASE r = s /\ j # i
      <4>1. /\ k \in 1..Len(queue[s]) /\ queue[s][k] = j
            /\ l \in 1..Len(queue[s]) /\ queue[s][l] = j
        BY <1>a, <2>2, <3>3
      <4>2. QED
        BY <1>a, <3>3, <3>a, <4>1
    <3>4. QED
      BY <3>1, <3>2, <3>3
  <2>3. QED
    BY <2>1, <2>2 DEF Handed
<1>9. Waited'
  <2>1. ASSUME NEW j \in waits, NEW r \in Subscriptions, ~Freed(j)
        PROVE  /\ Queued(j, r)' => request'[j][r] \in {"enqueued", "done"}
               /\ request'[j][r] = "completing" => ~Queued(j, r)'
    <3>1. CASE j = i /\ r = s
      BY <1>3, <3>1
    <3>2. CASE ~(j = i /\ r = s)
      <4>1. request'[j][r] = request[j][r] /\ (Queued(j, r)' <=> Queued(j, r))
        BY <1>2, <1>3, <1>6, <3>2
      <4>2. QED
        BY <2>1, <4>1 DEF StatusInv, Waited
    <3>3. QED
      BY <3>1, <3>2
  <2>2. QED
    BY <1>2, <2>1 DEF Waited, Freed
<1>10. \A j \in Indications, r \in Subscriptions :
          request[j][r] = "attempt" \/ <<j, r>> \in settled =>
             request'[j][r] = "attempt" \/ <<j, r>> \in settled'
  BY <1>1, <1>3
<1>11. settled' \subseteq Indications \X Subscriptions
  BY <1>1, <1>2 DEF Typed
<1>12. QED
  BY <1>1, <1>3, <1>4, <1>7, <1>8, <1>9, <1>10, <1>11, QuietKeeps

\* A step of the handler's threads that leaves the queues alone.
LEMMA RequestStep ==
    ASSUME StatusInv, NEW i \in Indications, NEW s \in Subscriptions,
           NEW from \in Places \ {"none"}, NEW to \in Places \ {"none"},
           Handle(i, s, from, to), UNCHANGED <<queue, waits>>,
           settled \subseteq settled',
           from = "attempt" => <<i, s>> \in settled',
           Queued(i, s) => to \in {"enqueued", "completing", "done"},
           to \in {"enqueued", "completing", "done"} => Queued(i, s) \/ <<i, s>> \in settled'
    PROVE  /\ request' \in [Indications -> [Subscriptions -> Places]]
           /\ queue' \in [Subscriptions -> Seq(Indications)]
           /\ request[i][s] = from /\ request'[i][s] = to
           /\ Queued(i, s)' <=> Queued(i, s)
           /\ \A j \in Indications : Forwarded(j)' = Forwarded(j)
           /\ s \in Forwarded(i)
           /\ \A j \in Indications : j # i => Completed(j)' = Completed(j)
           /\ s \in Completed(i)' /\ s \notin Completed(i) =>
                 Completed(i)' = Completed(i) \cup {s}
           /\ (s \in Completed(i)' <=> s \in Completed(i)) => Completed(i)' = Completed(i)
           /\ \A j \in Indications, r \in Subscriptions :
                 request[j][r] = "attempt" \/ <<j, r>> \in settled =>
                    request'[j][r] = "attempt" \/ <<j, r>> \in settled'
           /\ Handed'
           /\ (i \in waits /\ ~Freed(i) /\ Queued(i, s) => to # "completing") =>
                 ((\A j \in Indications : Freed(j) => Freed(j)') => Waited')
<1>1. /\ request' \in [Indications -> [Subscriptions -> Places]]
      /\ request[i][s] = from /\ request'[i][s] = to
      /\ \A j \in Indications, r \in Subscriptions :
            j # i \/ r # s => request'[j][r] = request[j][r]
      /\ \A j \in Indications : Forwarded(j)' = Forwarded(j)
      /\ s \in Forwarded(i)
  BY Handled
<1>2. \A j \in Indications, r \in Subscriptions : Queued(j, r)' <=> Queued(j, r)
  BY DEF Queued
<1>3. /\ \A j \in Indications : j # i => Completed(j)' = Completed(j)
      /\ s \in Completed(i)' /\ s \notin Completed(i) =>
            Completed(i)' = Completed(i) \cup {s}
      /\ (s \in Completed(i)' <=> s \in Completed(i)) => Completed(i)' = Completed(i)
  BY <1>1, <1>2, OthersKept
<1>4. ASSUME NEW j \in Indications, NEW r \in Subscriptions
      PROVE  /\ request[j][r] = "attempt" \/ <<j, r>> \in settled =>
                    request'[j][r] = "attempt" \/ <<j, r>> \in settled'
             /\ Queued(j, r)' => request'[j][r] \in {"enqueued", "completing", "done"}
             /\ request'[j][r] \in {"enqueued", "completing", "done"} =>
                   Queued(j, r)' \/ <<j, r>> \in settled'
  <2>1. CASE j = i /\ r = s
    BY <1>1, <1>2, <2>1
  <2>2. CASE ~(j = i /\ r = s)
    <3>1. request'[j][r] = request[j][r] /\ (Queued(j, r)' <=> Queued(j, r))
      BY <1>1, <1>2, <2>2
    <3>2. QED
      BY <3>1 DEF StatusInv, Handed
  <2>3. QED
    BY <2>1, <2>2
<1>5. Handed'
  BY <1>4 DEF StatusInv, Handed
<1>6. ASSUME i \in waits /\ ~Freed(i) /\ Queued(i, s) => to # "completing",
             \A j \in Indications : Freed(j) => Freed(j)'
      PROVE  Waited'
  <2>1. waits \subseteq Indications
    BY DEF StatusInv, Typed
  <2>2. ASSUME NEW j \in waits, NEW r \in Subscriptions, ~Freed(j)'
        PROVE  /\ Queued(j, r)' => request'[j][r] \in {"enqueued", "done"}
               /\ request'[j][r] = "completing" => ~Queued(j, r)'
    <3>1. CASE j = i /\ r = s
      BY <1>1, <1>2, <1>6, <2>1, <2>2, <3>1
    <3>2. CASE ~(j = i /\ r = s)
      <4>1. request'[j][r] = request[j][r] /\ (Queued(j, r)' <=> Queued(j, r)) /\ ~Freed(j)
        BY <1>1, <1>2, <1>6, <2>1, <2>2, <3>2
      <4>2. QED
        BY <4>1 DEF StatusInv, Waited
    <3>3. QED
      BY <3>1, <3>2
  <2>3. QED
    BY <2>2 DEF Waited
<1>7. queue' \in [Subscriptions -> Seq(Indications)]
  BY DEF StatusInv, Typed
<1>8. QED
  BY <1>1, <1>2, <1>3, <1>4, <1>5, <1>6, <1>7

\* _handleIndication goes on after the enqueue, in an aggregator that may be gone.
LEMMA ReadFlagKeeps ==
    ASSUME StatusInv, NEW i \in Indications, NEW s \in Subscriptions, ReadFlag(i, s)
    PROVE  StatusInv'
<1>1. UNCHANGED <<sender, serviceVars, statusVars, queue, settled>>
  BY DEF ReadFlag
<1>2. PICK to \in {"done", "completing"} :
         /\ Handle(i, s, "enqueued", to)
         /\ to = "done" => i \in waits \/ Freed(i)
         /\ to = "completing" => i \notin waits \/ Freed(i)
  BY DEF ReadFlag
<1>3. waits' = waits /\ answers' = answers
  BY <1>1 DEF serviceVars, statusVars
<1>4. request[i][s] = "enqueued"
  BY <1>2 DEF Handle
<1>5. Queued(i, s) \/ <<i, s>> \in settled'
  BY <1>1, <1>4 DEF StatusInv, Handed
<1>6. to \in Places \ {"none"} /\ "enqueued" \in Places \ {"none"}
  BY DEF Places
<1>7. /\ request' \in [Indications -> [Subscriptions -> Places]]
      /\ queue' \in [Subscriptions -> Seq(Indications)]
      /\ request'[i][s] = to
      /\ Queued(i, s)' <=> Queued(i, s)
      /\ \A j \in Indications : Forwarded(j)' = Forwarded(j)
      /\ s \in Forwarded(i)
      /\ \A j \in Indications : j # i => Completed(j)' = Completed(j)
      /\ (s \in Completed(i)' <=> s \in Completed(i)) => Completed(i)' = Completed(i)
      /\ \A j \in Indications, r \in Subscriptions :
            request[j][r] = "attempt" \/ <<j, r>> \in settled =>
               request'[j][r] = "attempt" \/ <<j, r>> \in settled'
      /\ Handed'
      /\ (i \in waits /\ ~Freed(i) /\ Queued(i, s) => to # "completing") =>
            ((\A j \in Indications : Freed(j) => Freed(j)') => Waited')
  BY <1>1, <1>2, <1>3, <1>5, <1>6, RequestStep
<1>8. Waited'
  BY <1>2, <1>3, <1>7 DEF Freed
<1>9. Completed(i)' = Completed(i) \/ (i \in waits /\ Freed(i))
  <2>1. CASE i \notin waits
    <3>1. s \notin Completed(i)
      BY <1>4, <2>1 DEF Completed
    <3>2. ~Freed(i)
      BY <1>7, <2>1, <3>1 DEF StatusInv, LastDeletes
    <3>3. to = "completing"
      BY <1>2, <2>1, <3>2
    <3>4. s \notin Completed(i)'
      BY <1>7, <3>3 DEF Completed
    <3>5. QED
      BY <1>7, <3>1, <3>4
  <2>2. CASE i \in waits /\ ~Freed(i)
    <3>1. to = "done"
      BY <1>2, <2>2
    <3>2. s \in Completed(i)' <=> s \in Completed(i)
      BY <1>3, <1>4, <1>7, <2>2, <3>1 DEF Completed
    <3>3. QED
      BY <1>7, <3>2
  <2>3. QED
    BY <2>1, <2>2
<1>10. settled' \subseteq Indications \X Subscriptions
  BY <1>1 DEF StatusInv, Typed
<1>11. QED
  BY <1>1, <1>7, <1>8, <1>9, <1>10, QuietKeeps

\* A request whose response is counted before, or without, its delivery.
LEMMA CompletesAt ==
    ASSUME StatusInv, NEW i \in Indications, NEW s \in Subscriptions,
           NEW from \in {"new", "completing"}, NEW to \in {"attempt", "done"},
           from = "new" <=> to = "attempt",
           Handle(i, s, from, to), Complete(i),
           UNCHANGED <<sender, serviceVars, queue, settled>>
    PROVE  StatusInv'
<1>1. waits' = waits
  BY DEF serviceVars
<1>2. request[i][s] = from
  BY DEF Handle
<1>3. from \in Places \ {"none"} /\ to \in Places \ {"none"}
  BY DEF Places
<1>4. /\ from = "new" => ~Queued(i, s)
      /\ from = "completing" => Queued(i, s) \/ <<i, s>> \in settled
      /\ i \in waits /\ ~Freed(i) => ~Queued(i, s)
  BY <1>2 DEF StatusInv, Handed, Waited
<1>5. /\ request' \in [Indications -> [Subscriptions -> Places]]
      /\ queue' \in [Subscriptions -> Seq(Indications)]
      /\ request'[i][s] = to
      /\ Queued(i, s)' <=> Queued(i, s)
      /\ \A j \in Indications : Forwarded(j)' = Forwarded(j)
      /\ s \in Forwarded(i)
      /\ \A j \in Indications : j # i => Completed(j)' = Completed(j)
      /\ s \in Completed(i)' /\ s \notin Completed(i) =>
            Completed(i)' = Completed(i) \cup {s}
      /\ \A j \in Indications, r \in Subscriptions :
            request[j][r] = "attempt" \/ <<j, r>> \in settled =>
               request'[j][r] = "attempt" \/ <<j, r>> \in settled'
      /\ Handed'
      /\ (\A j \in Indications : Freed(j) => Freed(j)') => Waited'
  BY <1>1, <1>3, <1>4, RequestStep
<1>6. s \notin Completed(i)
  BY <1>2 DEF Completed
<1>7. ~Freed(i) => s \in Completed(i)'
  BY <1>1, <1>4, <1>5 DEF Completed
<1>8. settled' \subseteq Indications \X Subscriptions
  BY DEF StatusInv, Typed
<1>9. QED
  BY <1>5, <1>6, <1>7, <1>8, CompletingKeeps

\* A request that is handled to its end, or to a step before its response.
LEMMA SettlesAt ==
    ASSUME StatusInv, NEW i \in Indications, NEW s \in Subscriptions,
           NEW from \in {"new", "attempt", "export"},
           NEW to \in {"export", "completing", "done"},
           from = "attempt" <=> to = "done",
           to = "export" \/ <<i, s>> \in settled',
           settled \subseteq settled', settled' \subseteq Indications \X Subscriptions,
           Handle(i, s, from, to),
           UNCHANGED <<sender, serviceVars, statusVars, queue>>
    PROVE  StatusInv'
<1>1. waits' = waits /\ answers' = answers
  BY DEF serviceVars, statusVars
<1>2. request[i][s] = from
  BY DEF Handle
<1>3. from \in Places \ {"none"} /\ to \in Places \ {"none"}
  BY DEF Places
<1>4. ~Queued(i, s)
  BY <1>2 DEF StatusInv, Handed
<1>5. /\ request' \in [Indications -> [Subscriptions -> Places]]
      /\ queue' \in [Subscriptions -> Seq(Indications)]
      /\ request'[i][s] = to
      /\ Queued(i, s)' <=> Queued(i, s)
      /\ \A j \in Indications : Forwarded(j)' = Forwarded(j)
      /\ \A j \in Indications : j # i => Completed(j)' = Completed(j)
      /\ (s \in Completed(i)' <=> s \in Completed(i)) => Completed(i)' = Completed(i)
      /\ \A j \in Indications, r \in Subscriptions :
            request[j][r] = "attempt" \/ <<j, r>> \in settled =>
               request'[j][r] = "attempt" \/ <<j, r>> \in settled'
      /\ Handed'
      /\ (\A j \in Indications : Freed(j) => Freed(j)') => Waited'
  BY <1>1, <1>3, <1>4, RequestStep
<1>6. s \in Completed(i)' <=> s \in Completed(i)
  BY <1>1, <1>2, <1>4, <1>5 DEF Completed
<1>7. Waited'
  BY <1>1, <1>5 DEF Freed
<1>8. QED
  BY <1>5, <1>6, <1>7, QuietKeeps

\* The other steps of the handler service.
LEMMA HandlerKeeps ==
    ASSUME StatusInv, NEW i \in Indications, NEW s \in Subscriptions, HandlerStep(i, s)
    PROVE  StatusInv'
<1>1. CASE EnqueueReliable(i, s)
  BY <1>1, EnqueueKeeps
<1>2. CASE ReadFlag(i, s)
  BY <1>2, ReadFlagKeeps
<1>3. CASE CompleteThenDeliver(i, s)
  BY <1>3, CompletesAt DEF CompleteThenDeliver
<1>4. CASE Export(i, s)
  <2>1. CASE i \in waits
    <3>1. settled' \subseteq Indications \X Subscriptions
      BY <1>4 DEF Export, StatusInv, Typed
    <3>2. QED
      BY <1>4, <2>1, <3>1, SettlesAt DEF Export
  <2>2. CASE i \notin waits
    BY <1>4, <2>2, CompletesAt DEF Export
  <2>3. QED
    BY <2>1, <2>2
<1>5. CASE AttemptDone(i, s)
  <2>1. /\ settled \subseteq settled' /\ <<i, s>> \in settled'
        /\ settled' \subseteq Indications \X Subscriptions
    BY <1>5 DEF AttemptDone, Settle, StatusInv, Typed
  <2>2. QED
    BY <1>5, <2>1, SettlesAt DEF AttemptDone
<1>6. CASE Reject(i, s)
  <2>1. /\ settled \subseteq settled' /\ <<i, s>> \in settled'
        /\ settled' \subseteq Indications \X Subscriptions
    BY <1>6 DEF Reject, Settle, StatusInv, Typed
  <2>2. QED
    BY <1>6, <2>1, SettlesAt DEF Reject
<1>7. CASE CompleteRequest(i, s)
  BY <1>7, CompletesAt DEF CompleteRequest
<1>8. QED
  BY <1>1, <1>2, <1>3, <1>4, <1>5, <1>6, <1>7 DEF HandlerStep

\* A destination is done with the oldest indication of its queue.
LEMMA DestinationKeeps ==
    ASSUME StatusInv, NEW s \in Subscriptions, DestinationDone(s)
    PROVE  StatusInv'
<1>1. Typed
  BY DEF StatusInv
<1>2. queue[s] \in Seq(Indications) /\ queue[s] # <<>>
  BY <1>1 DEF Typed, DestinationDone
<1>3. /\ Head(queue[s]) = queue[s][1] /\ Head(queue[s]) \in Indications
      /\ DOMAIN queue[s] = 1..Len(queue[s]) /\ Len(queue[s]) \in Nat \ {0}
      /\ Tail(queue[s]) \in Seq(Indications)
      /\ DOMAIN Tail(queue[s]) = 1..(Len(queue[s]) - 1)
      /\ \A k \in 1..(Len(queue[s]) - 1) : Tail(queue[s])[k] = queue[s][k + 1]
  BY <1>2, Popped
<1>4. PICK i \in Indications : i = Head(queue[s])
  BY <1>3
<1>5. /\ settled' = settled \cup {<<i, s>>}
      /\ IF i \in waits THEN Complete(i) ELSE UNCHANGED statusVars
      /\ queue' = [queue EXCEPT ![s] = Tail(@)]
      /\ UNCHANGED <<sender, serviceVars, request>>
  BY <1>4 DEF DestinationDone, Settle
<1>6. waits \subseteq Indications /\ waits' = waits
  BY <1>1, <1>5 DEF Typed, serviceVars
<1>7. /\ queue' \in [Subscriptions -> Seq(Indications)]
      /\ queue'[s] = Tail(queue[s])
      /\ \A r \in Subscriptions : r # s => queue'[r] = queue[r]
  BY <1>1, <1>3, <1>5 DEF Typed
<1>8. \A j \in Indications, r \in Subscriptions :
         \A k, l \in DOMAIN queue[r] : queue[r][k] = j /\ queue[r][l] = j => k = l
  BY DEF StatusInv, Handed
<1>9. Queued(i, s) /\ ~Queued(i, s)'
  <2>1. Queued(i, s)
    BY <1>3, <1>4 DEF Queued
  <2>2. ASSUME NEW k \in DOMAIN queue'[s], queue'[s][k] = i PROVE FALSE
    <3>1. /\ k + 1 \in DOMAIN queue[s] /\ queue[s][k + 1] = i
          /\ 1 \in DOMAIN queue[s] /\ k \in Nat \ {0}
      BY <1>3, <1>7, <2>2
    <3>2. k + 1 = 1
      BY <1>3, <1>4, <1>8, <3>1
    <3>3. QED
      BY <3>1, <3>2
  <2>3. QED
    BY <2>1, <2>2 DEF Queued
<1>10. \A j \in Indications, r \in Subscriptions :
          j # i \/ r # s => (Queued(j, r)' <=> Queued(j, r))
  <2>1. ASSUME NEW j \in Indications, j # i PROVE Queued(j, s)' <=> Queued(j, s)
    <3>1. ASSUME NEW k \in DOMAIN queue[s], queue[s][k] = j PROVE Queued(j, s)'
      <4>1. k # 1 /\ k \in 1..Len(queue[s])
        BY <1>3, <1>4, <2>1, <3>1
      <4>2. k - 1 \in 1..(Len(queue[s]) - 1) /\ (k - 1) + 1 = k
        BY <1>3, <4>1
      <4>3. k - 1 \in DOMAIN queue'[s] /\ queue'[s][k - 1] = j
        BY <1>3, <1>7, <3>1, <4>2
      <4>4. QED
        BY <4>3 DEF Queued
    <3>2. ASSUME NEW k \in DOMAIN queue'[s], queue'[s][k] = j PROVE Queued(j, s)
      <4>1. k + 1 \in DOMAIN queue[s] /\ queue[s][k + 1] = j
        BY <1>3, <1>7, <3>2
      <4>2. QED
        BY <4>1 DEF Queued
    <3>3. QED
      BY <3>1, <3>2 DEF Queued
  <2>2. QED
    BY <1>7, <2>1 DEF Queued
<1>11. \A j \in Indications : Forwarded(j)' = Forwarded(j)
  BY <1>5 DEF Forwarded
<1>12. /\ \A j \in Indications : j # i => Completed(j)' = Completed(j)
       /\ s \in Completed(i)' /\ s \notin Completed(i) =>
             Completed(i)' = Completed(i) \cup {s}
       /\ (s \in Completed(i)' <=> s \in Completed(i)) => Completed(i)' = Completed(i)
  BY <1>5, <1>6, <1>10, OthersKept
<1>13. Handed'
  <2>1. ASSUME NEW j \in Indications, NEW r \in Subscriptions
        PROVE  /\ Queued(j, r)' => request'[j][r] \in {"enqueued", "completing", "done"}
               /\ request'[j][r] \in {"enqueued", "completing", "done"} =>
                     Queued(j, r)' \/ <<j, r>> \in settled'
    <3>1. CASE j = i /\ r = s
      BY <1>5, <1>9, <3>1
    <3>2. CASE ~(j = i /\ r = s)
      <4>1. request'[j][r] = request[j][r] /\ (Queued(j, r)' <=> Queued(j, r))
        BY <1>5, <1>10, <3>2
      <4>2. settled \subseteq settled'
        BY <1>5
      <4>3. QED
        BY <4>1, <4>2 DEF StatusInv, Handed
    <3>3. QED
      BY <3>1, <3>2
  <2>2. ASSUME NEW j \in Indications, NEW r \in Subscriptions,
               NEW k \in DOMAIN queue'[r], NEW l \in DOMAIN queue'[r],
               queue'[r][k] = j, queue'[r][l] = j
        PROVE  k = l
    <3>1. CASE r # s
      <4>1. queue'[r] = queue[r]
        BY <1>7, <3>1
      <4>2. QED
        BY <1>8, <2>2, <4>1
    <3>2. CASE r = s
      <4>1. /\ k \in 1..(Len(queue[s]) - 1) /\ Tail(queue[s])[k] = j
            /\ l \in 1..(Len(queue[s]) - 1) /\ Tail(queue[s])[l] = j
        <5>1. queue'[r] = Tail(queue[s])
          BY <1>7, <3>2
        <5>2. QED
          BY <1>3, <2>2, <5>1
      <4>2. /\ k + 1 \in DOMAIN queue[s] /\ queue[s][k + 1] = j
            /\ l + 1 \in DOMAIN queue[s] /\ queue[s][l + 1] = j
        BY <1>3, <4>1
      <4>3. k + 1 = l + 1
        BY <1>8, <4>2
      <4>4. QED
        BY <4>1, <4>3
    <3>3. QED
      BY <3>1, <3>2
  <2>3. QED
    BY <2>1, <2>2 DEF Handed
<1>14. (\A j \in Indications : Freed(j) => Freed(j)') => Waited'
  <2>1. \A j \in Indications, r \in Subscriptions : Queued(j, r)' => Queued(j, r)
    BY <1>9, <1>10
  <2>2. QED
    BY <1>5, <1>6, <2>1 DEF StatusInv, Waited
<1>15. \A j \in Indications, r \in Subscriptions :
          request[j][r] = "attempt" \/ <<j, r>> \in settled =>
             request'[j][r] = "attempt" \/ <<j, r>> \in settled'
  BY <1>5
<1>16. settled' \subseteq Indications \X Subscriptions
  BY <1>1, <1>5 DEF Typed
<1>17. request' \in [Indications -> [Subscriptions -> Places]]
  BY <1>1, <1>5 DEF Typed
<1>18. CASE i \in waits
  <2>1. s \notin Completed(i)
    <3>1. request[i][s] # "attempt"
      BY <1>9 DEF StatusInv, Handed
    <3>2. QED
      BY <1>9, <1>18, <3>1 DEF Completed
  <2>2. s \in Forwarded(i)
    BY <1>9 DEF StatusInv, Handed, Forwarded
  <2>3. ~Freed(i) => s \in Completed(i)'
    <3>1. ~Freed(i) => request[i][s] \in {"enqueued", "done"}
      BY <1>9, <1>18 DEF StatusInv, Waited
    <3>2. QED
      BY <1>5, <1>6, <1>9, <1>18, <3>1 DEF Completed
  <2>4. Complete(i) /\ UNCHANGED <<sender, serviceVars>>
    BY <1>5, <1>18
  <2>5. QED
    BY <1>7, <1>11, <1>12, <1>13, <1>14, <1>15, <1>16, <1>17, <2>1, <2>2, <2>3, <2>4,
       CompletingKeeps
<1>19. CASE i \notin waits
  <2>1. s \in Completed(i)' <=> s \in Completed(i)
    BY <1>5, <1>6, <1>19 DEF Completed
  <2>2. UNCHANGED <<sender, serviceVars, statusVars>>
    BY <1>5, <1>19
  <2>3. Waited'
    BY <1>14, <2>2 DEF Freed, statusVars
  <2>4. QED
    BY <1>7, <1>11, <1>12, <1>13, <1>15, <1>16, <1>17, <2>1, <2>2, <2>3, QuietKeeps
<1>20. QED
  BY <1>18, <1>19
-----------------------------------------------------------------------------
\* Every step keeps the invariant.
LEMMA StepInv == StatusInv /\ [Next]_vars => StatusInv'
<1> SUFFICES ASSUME StatusInv, [Next]_vars PROVE StatusInv'
  OBVIOUS
<1>1. ASSUME NEW t \in Senders, Deliver(t) \/ Signalled(t) \/ TimedOut(t) PROVE StatusInv'
  BY <1>1, DeliverKeeps, WaitingKeeps
<1>2. ASSUME NEW i \in Indications, Notify(i) \/ ServiceStep(i) PROVE StatusInv'
  BY <1>2, WaitingKeeps, MatchKeeps, ForwardKeeps, CountKeeps, SetDoneKeeps DEF ServiceStep
<1>3. ASSUME NEW i \in Indications, NEW s \in Subscriptions, HandlerStep(i, s)
      PROVE  StatusInv'
  BY <1>3, HandlerKeeps
<1>4. ASSUME NEW s \in Subscriptions, DestinationDone(s) PROVE StatusInv'
  BY <1>4, DestinationKeeps
<1>5. CASE UNCHANGED vars
  <2>1. UNCHANGED <<sender, serviceVars, statusVars, handlerVars>>
    BY <1>5 DEF vars
  <2>2. QED
    BY <2>1, SenderKeeps DEF statusVars, StatusInv, Typed
<1>6. QED
  BY <1>1, <1>2, <1>3, <1>4, <1>5 DEF Next

\* The inductive invariant.
LEMMA Invariant == Spec => []StatusInv
BY InitInv, StepInv, PTL DEF Spec

\* The types of the table entries, the messages and the aggregators: neither count
\* of an aggregator exceeds the number of subscriptions.
THEOREM TypeCorrect == Spec => []TypeOK
<1>1. StatusInv => TypeOK
  <2> SUFFICES ASSUME StatusInv PROVE TypeOK
    OBVIOUS
  <2>1. \A i \in Indications :
           aggregator[i] \in [expected: 0..Cardinality(Subscriptions),
                              current: 0..Cardinality(Subscriptions),
                              setDone: BOOLEAN]
    <3> SUFFICES ASSUME NEW i \in Indications
                 PROVE  aggregator[i] \in [expected: 0..Cardinality(Subscriptions),
                                           current: 0..Cardinality(Subscriptions),
                                           setDone: BOOLEAN]
      OBVIOUS
    <3>1. PICK a \in Aggregators : a = aggregator[i]
      BY DEF StatusInv, Typed
    <3>2. a.expected = Cardinality(Forwarded(i)) - Uncounted(i)
      BY <3>1 DEF StatusInv, Counted
    <3>3. Uncounted(i) \in {0, 1}
      BY DEF Uncounted
    <3>4. a.expected \in 0..Cardinality(Subscriptions)
      BY <3>2, <3>3, Sets DEF Aggregators
    <3>5. QED
      BY <3>1, <3>4 DEF Aggregators
  <2>2. QED
    BY <2>1 DEF StatusInv, Typed, TypeOK, Places
<1>2. QED
  BY <1>1, Invariant, PTL

\* Nobody uses the aggregator of an indication after _sendDeliveryStausResponse
\* deleted it, if the provider need not wait for the delivery.
THEOREM AggregatorNotFreedEarly == Spec => []AggregatorKept
<1>1. StatusInv => AggregatorKept
  <2> SUFFICES ASSUME StatusInv, NEW i \in Indications \ waits, StillUsed(i), Freed(i)
               PROVE  FALSE
    BY DEF AggregatorKept
  <2>1. service[i] = "done" /\ Completed(i) = Forwarded(i)
    BY DEF StatusInv, LastDeletes
  <2>2. PICK s \in Subscriptions :
           request[i][s] \in {"new", "enqueued", "export", "completing"}
    BY <2>1 DEF StillUsed
  <2>3. s \in Forwarded(i)
    BY <2>2 DEF Forwarded
  <2>4. QED
    BY <2>1, <2>2, <2>3 DEF Completed
<1>2. QED
  BY <1>1, Invariant, PTL

\* The response is sent once, whichever of the threads finds the counts equal.
THEOREM OneAnswer == Spec => []AnsweredOnce
<1>1. StatusInv => AnsweredOnce
  BY DEF StatusInv, LastDeletes, AnsweredOnce
<1>2. QED
  BY <1>1, Invariant, PTL

-----------------------------------------------------------------------------
\* A provider that waits for the delivery: no way but CompleteThenDeliver completes a
\* request of it first and delivers afterwards.
NoneFirst == \A i \in waits, s \in Subscriptions : request[i][s] # "attempt"

\* An indication that was not sent has no request.
LEMMA NewHasNone ==
    ASSUME StatusInv, NEW i \in Indications, service[i] = "none", NEW s \in Subscriptions
    PROVE  request[i][s] = "none"
<1>1. matched[i] = {} /\ Forwarded(i) = matched[i] \ toForward[i]
  BY DEF StatusInv, Fresh, Sending
<1>2. s \notin Forwarded(i)
  BY <1>1
<1>3. QED
  BY <1>2 DEF Forwarded

LEMMA NoneFirstKept ==
    ASSUME "direct" \notin Kinds, StatusInv, NoneFirst, [Next]_vars
    PROVE  NoneFirst'
<1>1. ASSUME NEW t \in Senders, Deliver(t) PROVE NoneFirst'
  <2> DEFINE i == <<t, sender[t].sent + 1>>
  <2>1. waits' \in {waits, waits \cup {i}} /\ request' = request
    BY <1>1 DEF Deliver, handlerVars
  <2>2. i \in Indications /\ service[i] = "none"
    <3>1. sender[t].sent \in Nat /\ sender[t].sent + 1 \in 1..MaxSent
      BY <1>1, StatusAssumption DEF Deliver, StatusInv, Typed
    <3>2. QED
      BY <3>1 DEF StatusInv, Fresh, Indications
  <2>3. QED
    BY <2>1, <2>2, NewHasNone DEF NoneFirst
<1>2. ASSUME NEW i \in Indications, NEW s \in Subscriptions,
             waits' = waits,
             \E x \in Places : request' = [request EXCEPT ![i][s] = x] /\
                               (x = "attempt" => i \notin waits)
      PROVE  NoneFirst'
  BY <1>2 DEF NoneFirst, StatusInv, Typed
<1>3. ASSUME NEW i \in Indications, NEW s \in Subscriptions, Forward(i, s) PROVE NoneFirst'
  BY <1>2, <1>3 DEF Forward, Places
<1>4. ASSUME NEW i \in Indications, NEW s \in Subscriptions, HandlerStep(i, s)
      PROVE  NoneFirst'
  <2>1. waits' = waits
    BY <1>4 DEF HandlerStep, EnqueueReliable, ReadFlag, CompleteThenDeliver, Export,
                AttemptDone, Reject, CompleteRequest, serviceVars
  <2>2. ~CompleteThenDeliver(i, s)
    BY DEF CompleteThenDeliver
  <2>3. \E x \in Places : request' = [request EXCEPT ![i][s] = x] /\
                          (x = "attempt" => i \notin waits)
    BY <1>4, <2>2 DEF HandlerStep, EnqueueReliable, ReadFlag, Export, AttemptDone, Reject,
                      CompleteRequest, Handle, Places
  <2>4. QED
    BY <1>2, <2>1, <2>3
<1>5. ASSUME UNCHANGED <<waits, request>> PROVE NoneFirst'
  BY <1>5 DEF NoneFirst
<1>6. ASSUME NEW t \in Senders, Signalled(t) \/ TimedOut(t) PROVE NoneFirst'
  BY <1>5, <1>6 DEF Signalled, TimedOut, serviceVars, handlerVars
<1>7. ASSUME NEW i \in Indications,
             Notify(i) \/ Match(i) \/ IncExpectedResponseCount(i) \/ SetDone(i)
      PROVE  NoneFirst'
  BY <1>5, <1>7 DEF Notify, Match, IncExpectedResponseCount, SetDone, serviceVars, handlerVars
<1>8. ASSUME NEW s \in Subscriptions, DestinationDone(s) PROVE NoneFirst'
  BY <1>5, <1>8 DEF DestinationDone, serviceVars
<1>9. CASE UNCHANGED vars
  BY <1>5, <1>9 DEF vars, serviceVars, handlerVars
<1>10. QED
  BY <1>1, <1>3, <1>4, <1>6, <1>7, <1>8, <1>9 DEF Next, ServiceStep

\* When the response is sent, every matched destination is done with the indication if
\* the provider waits for the delivery; else it has the indication in its queue or in an
\* attempt, at least.  No handler may complete its requests before it delivers them.
THEOREM AnswersEarned ==
    ASSUME "direct" \notin Kinds PROVE Spec => []AnsweredWhenDelivered
<1>1. StatusInv /\ NoneFirst => AnsweredWhenDelivered
  <2> SUFFICES ASSUME StatusInv, NoneFirst,
                      NEW i \in Indications, Freed(i), NEW s \in matched[i]
               PROVE  \/ <<i, s>> \in settled
                      \/ i \notin waits /\ (request[i][s] = "attempt" \/ Queued(i, s))
    BY DEF AnsweredWhenDelivered, Queued
  <2>1. CASE i \in waits
    <3>1. s \in Subscriptions
      BY DEF StatusInv, Typed
    <3>2. QED
      BY <2>1, <3>1 DEF StatusInv, Answers, NoneFirst
  <2>2. CASE i \notin waits
    <3>1. s \in Completed(i)
      BY <2>2 DEF StatusInv, LastDeletes, Sending
    <3>2. s \in Subscriptions /\ request[i][s] \in {"attempt", "done"}
      BY <2>2, <3>1 DEF Completed
    <3>3. QED
      BY <2>2, <3>2 DEF StatusInv, Handed
  <2>3. QED
    BY <2>1, <2>2
<1>2. Init => NoneFirst
  BY DEF Init, NoneFirst
<1>3. QED
  BY <1>1, <1>2, NoneFirstKept, Invariant, PTL DEF Spec

-----------------------------------------------------------------------------
\* The order of one thread's indications is kept by the wait for the status alone:
\* it is proved where the wait ends with the answer of the indication, so without
\* time-outs, and where no answer comes from an aggregator used after its deletion.
Waiting == WaitModes \subseteq {FALSE} /\ ~TimeoutsHappen

OrderInv == waits = {} /\ Past /\ Known /\ SenderOrder

\* An indication is a thread and a number.
LEMMA Parts ==
    ASSUME NEW i \in Indications
    PROVE  /\ i[1] \in Senders /\ i[2] \in 1..MaxSent /\ i = <<i[1], i[2]>>
           /\ i[2] \in Nat
BY StatusAssumption DEF Indications

\* An indication that anybody has heard of was sent.
LEMMA Sent ==
    ASSUME StatusInv, NEW i \in Indications, service[i] # "none"
    PROVE  i[2] <= sender[i[1]].sent
<1>1. i[1] \in Senders /\ i[2] \in 1..MaxSent /\ i = <<i[1], i[2]>>
  BY Parts
<1>2. sender[i[1]].sent \in Nat
  BY <1>1, StatusAssumption DEF StatusInv, Typed
<1>3. ~(i[2] > sender[i[1]].sent)
  BY <1>1 DEF StatusInv, Fresh
<1>4. QED
  BY <1>1, <1>2, <1>3, Parts

\* A thread has no answer to an older indication coming.
LEMMA AnswerOfLast ==
    ASSUME StatusInv, OrderInv, NEW i \in Indications, i \in responses \/ ~Freed(i),
           service[i] # "none"
    PROVE  /\ i[2] = sender[i[1]].sent
           /\ sender[i[1]].at # "idle" /\ sender[i[1]].signal = NoResponse
<1>1. i[1] \in Senders /\ i[2] \in 1..MaxSent /\ i = <<i[1], i[2]>> /\ i[2] \in Nat
  BY Parts
<1>2. i[2] <= sender[i[1]].sent /\ sender[i[1]].sent \in Nat
  BY <1>1, Sent, StatusAssumption DEF StatusInv, Typed
<1>3. ~(\/ i[2] < sender[i[1]].sent
        \/ sender[i[1]].at = "idle"
        \/ sender[i[1]].signal # NoResponse)
  BY <1>1, <1>2 DEF OrderInv, Past
<1>4. QED
  BY <1>1, <1>2, <1>3

\* The initial state.
LEMMA InitOrder == Init => OrderInv
<1> SUFFICES ASSUME Init PROVE OrderInv
  OBVIOUS
<1>1. \A s \in Subscriptions : DOMAIN queue[s] = {}
  BY DEF Init
<1>2. Known /\ SenderOrder
  BY <1>1 DEF Known, SenderOrder
<1>3. Past
  <2>1. \A t \in Senders : sender[t].sent = 0
    BY DEF Init
  <2>2. \A n \in 1..MaxSent : ~(n <= 0)
    BY StatusAssumption
  <2>3. responses = {}
    BY DEF Init
  <2>4. QED
    BY <2>1, <2>2, <2>3 DEF Past
<1>4. QED
  BY <1>2, <1>3 DEF OrderInv, Init

\* The steps of the two services answer each indication once, and keep the threads.
LEMMA PastKept ==
    ASSUME StatusInv, StatusInv', OrderInv, waits' = waits, sender' = sender,
           NEW i \in Indications,
           \/ UNCHANGED <<answers, responses>>
           \/ SendResponse(i)
    PROVE  Past'
<1>1. CASE UNCHANGED <<answers, responses>>
  BY <1>1 DEF OrderInv, Past, Freed
<1>2. CASE SendResponse(i)
  <2>1. /\ answers'[i] = answers[i] + 1 /\ Freed(i)'
        /\ \A j \in Indications : j # i => answers'[j] = answers[j]
    BY <1>2, Sends DEF StatusInv
  <2>2. answers'[i] <= 1
    BY DEF StatusInv, LastDeletes, OrderInv
  <2>3. ~Freed(i)
    BY <2>1, <2>2 DEF StatusInv, Typed, Freed
  <2>4. \A j \in Indications : Freed(j) => Freed(j)'
    BY <2>1, <2>3 DEF Freed
  <2>5. responses' = responses \cup {i}
    BY <1>2 DEF SendResponse
  <2>6. responses' \subseteq {j \in Indications : Freed(j)'}
    BY <2>1, <2>4, <2>5 DEF OrderInv, Past
  <2>7. \A t \in Senders, n \in 1..MaxSent : <<t, n>> \in Indications
    BY DEF Indications
  <2>8. ASSUME NEW t \in Senders, NEW n \in 1..MaxSent, n <= sender[t].sent,
               n < sender[t].sent \/ sender[t].at = "idle" \/ sender[t].signal # NoResponse
        PROVE  Freed(<<t, n>>)' /\ <<t, n>> \notin responses'
    <3>1. Freed(<<t, n>>) /\ <<t, n>> \notin responses
      BY <2>8 DEF OrderInv, Past
    <3>2. QED
      BY <2>3, <2>4, <2>5, <2>7, <3>1
  <2>9. QED
    BY <2>6, <2>8 DEF Past
<1>3. QED
  BY <1>1, <1>2

\* A step that leaves the queues alone, or takes from one, keeps their order.
LEMMA QueuesKept ==
    ASSUME StatusInv, StatusInv', OrderInv, UNCHANGED queue,
           \A j \in Indications : service[j] # "none" => service'[j] # "none"
    PROVE  Known' /\ SenderOrder'
<1>1. \A s \in Subscriptions : \A k \in DOMAIN queue[s] : queue[s][k] \in Indications
  BY ElementOfSeq, LenProperties DEF StatusInv, Typed
<1>2. QED
  BY <1>1 DEF OrderInv, Known, SenderOrder

\* The threads' own steps.
LEMMA ThreadsInOrder ==
    ASSUME Waiting, StatusInv, StatusInv', OrderInv, NEW t \in Senders,
           Deliver(t) \/ Signalled(t) \/ TimedOut(t)
    PROVE  OrderInv'
<1>1. CASE Deliver(t)
  <2>1. /\ sender[t].at = "idle"
        /\ sender' = [sender EXCEPT ![t] = [at |-> "waiting", sent |-> sender[t].sent + 1,
                                            signal |-> NoResponse]]
        /\ service' = [service EXCEPT ![<<t, sender[t].sent + 1>>] = "sent"]
        /\ UNCHANGED <<statusVars, handlerVars>>
    BY <1>1 DEF Deliver
  <2>2. waits' = {}
    BY <1>1 DEF Deliver, Waiting, OrderInv
  <2>3. UNCHANGED <<answers, responses, queue>>
    BY <2>1 DEF statusVars, handlerVars
  <2>4. /\ sender'[t] = [at |-> "waiting", sent |-> sender[t].sent + 1, signal |-> NoResponse]
        /\ \A u \in Senders : u # t => sender'[u] = sender[u]
    BY <2>1 DEF StatusInv, Typed
  <2>5. Past'
    <3>1. ASSUME NEW u \in Senders, NEW n \in 1..MaxSent, n <= sender'[u].sent,
                 \/ n < sender'[u].sent
                 \/ sender'[u].at = "idle"
                 \/ sender'[u].signal # NoResponse
          PROVE  Freed(<<u, n>>) /\ <<u, n>> \notin responses
      <4>1. CASE u = t
        <5>1. n < sender[t].sent + 1
          BY <2>4, <3>1, <4>1
        <5>2. n <= sender[t].sent
          BY <5>1, StatusAssumption DEF StatusInv, Typed
        <5>3. QED
          BY <2>1, <4>1, <5>2 DEF OrderInv, Past
      <4>2. CASE u # t
        BY <2>4, <3>1, <4>2 DEF OrderInv, Past
      <4>3. QED
        BY <4>1, <4>2
    <3>2. responses' \subseteq {j \in Indications : Freed(j)'}
      BY <2>3 DEF OrderInv, Past, Freed
    <3>3. QED
      BY <2>3, <3>1, <3>2 DEF Past, Freed
  <2>6. \A j \in Indications : service[j] # "none" => service'[j] # "none"
    BY <2>1 DEF StatusInv, Typed
  <2>7. QED
    BY <2>2, <2>3, <2>5, <2>6, QueuesKept DEF OrderInv
<1>2. CASE Signalled(t)
  <2>1. /\ sender[t].signal # NoResponse
        /\ sender' = [sender EXCEPT ![t].at = "idle"]
        /\ UNCHANGED <<service, waits, answers, responses, queue>>
    BY <1>2 DEF Signalled, serviceVars, statusVars, handlerVars
  <2>2. /\ sender'[t].sent = sender[t].sent
        /\ \A u \in Senders : u # t => sender'[u] = sender[u]
    BY <2>1 DEF StatusInv, Typed
  <2>3. Past'
    <3>1. ASSUME NEW u \in Senders, NEW n \in 1..MaxSent, n <= sender'[u].sent,
                 \/ n < sender'[u].sent
                 \/ sender'[u].at = "idle"
                 \/ sender'[u].signal # NoResponse
          PROVE  Freed(<<u, n>>) /\ <<u, n>> \notin responses
      <4>1. CASE u = t
        BY <2>1, <2>2, <3>1, <4>1 DEF OrderInv, Past
      <4>2. CASE u # t
        BY <2>2, <3>1, <4>2 DEF OrderInv, Past
      <4>3. QED
        BY <4>1, <4>2
    <3>2. responses' \subseteq {j \in Indications : Freed(j)'}
      BY <2>1 DEF OrderInv, Past, Freed
    <3>3. QED
      BY <2>1, <3>1, <3>2 DEF Past, Freed
  <2>4. Known' /\ SenderOrder'
    BY <2>1, QueuesKept
  <2>5. QED
    BY <2>1, <2>3, <2>4 DEF OrderInv
<1>3. CASE TimedOut(t)
  BY <1>3 DEF TimedOut, Waiting
<1>4. QED
  BY <1>1, <1>2, <1>3

\* The response signals the thread's last indication, which it is the answer of.
LEMMA NotifyInOrder ==
    ASSUME StatusInv, StatusInv', OrderInv, NEW i \in Indications, Notify(i)
    PROVE  OrderInv'
<1>1. PICK t \in Senders, n \in 1..MaxSent : t = i[1] /\ n = i[2] /\ i = <<t, n>>
  BY Parts
<1>2. /\ i \in responses /\ responses' = responses \ {i}
      /\ UNCHANGED <<service, waits, answers, queue>>
      /\ sender' = [sender EXCEPT ![t].signal =
                      IF sender[t].at = "waiting" /\ @ = NoResponse THEN i[2] ELSE @]
  BY <1>1 DEF Notify, serviceVars, handlerVars
<1>3. Freed(i)
  BY <1>2 DEF OrderInv, Past
<1>4. service[i] # "none"
  BY <1>3 DEF StatusInv, LastDeletes, Answers
<1>5. n = sender[t].sent
  BY <1>1, <1>2, <1>4, AnswerOfLast
<1>6. /\ sender'[t].sent = sender[t].sent
      /\ \A u \in Senders : u # t => sender'[u] = sender[u]
  BY <1>2 DEF StatusInv, Typed
<1>7. Past'
  <2>1. ASSUME NEW u \in Senders, NEW m \in 1..MaxSent, m <= sender'[u].sent,
               \/ m < sender'[u].sent
               \/ sender'[u].at = "idle"
               \/ sender'[u].signal # NoResponse
        PROVE  Freed(<<u, m>>) /\ <<u, m>> \notin responses'
    <3>1. CASE u = t /\ m = n
      BY <1>1, <1>2, <1>3, <3>1
    <3>2. CASE u = t /\ m # n
      <4>1. m < sender[t].sent /\ m <= sender[t].sent
        BY <1>5, <1>6, <2>1, <3>2, StatusAssumption
      <4>2. Freed(<<t, m>>) /\ <<t, m>> \notin responses
        BY <4>1 DEF OrderInv, Past
      <4>3. QED
        BY <1>2, <3>2, <4>2
    <3>3. CASE u # t
      <4>1. Freed(<<u, m>>) /\ <<u, m>> \notin responses
        BY <1>6, <2>1, <3>3 DEF OrderInv, Past
      <4>2. QED
        BY <1>2, <4>1
    <3>4. QED
      BY <3>1, <3>2, <3>3
  <2>2. responses' \subseteq {j \in Indications : Freed(j)'}
    BY <1>2 DEF OrderInv, Past, Freed
  <2>3. QED
    BY <1>2, <2>1, <2>2 DEF Past, Freed
<1>8. Known' /\ SenderOrder'
  BY <1>2, QueuesKept
<1>9. QED
  BY <1>2, <1>7, <1>8 DEF OrderInv

\* What is queued is the last indication of its thread.
LEMMA EnqueueInOrder ==
    ASSUME StatusInv, StatusInv', OrderInv, NEW i \in Indications, NEW s \in Subscriptions,
           EnqueueReliable(i, s)
    PROVE  Known' /\ SenderOrder'
<1>1. /\ request[i][s] = "new"
      /\ queue' = [queue EXCEPT ![s] = Append(@, i)]
      /\ UNCHANGED service
  BY DEF EnqueueReliable, Handle, serviceVars
<1>2. s \in Forwarded(i) /\ s \notin Completed(i)
  BY <1>1 DEF Forwarded, Completed
<1>3. ~Freed(i)
  BY <1>2 DEF StatusInv, LastDeletes, OrderInv
<1>4. service[i] # "none"
  BY <1>2 DEF StatusInv, Fresh, Sending
<1>5. i[2] = sender[i[1]].sent /\ i[1] \in Senders /\ i = <<i[1], i[2]>> /\ i[2] \in Nat
  BY <1>3, <1>4, AnswerOfLast, Parts
<1>6. /\ queue[s] \in Seq(Indications)
      /\ queue'[s] = Append(queue[s], i)
      /\ \A r \in Subscriptions : r # s => queue'[r] = queue[r]
  BY <1>1 DEF StatusInv, Typed
<1>7. /\ DOMAIN queue[s] = 1..Len(queue[s]) /\ Len(queue[s]) \in Nat
      /\ DOMAIN queue'[s] = 1..(Len(queue[s]) + 1)
      /\ queue'[s][Len(queue[s]) + 1] = i
      /\ \A k \in 1..Len(queue[s]) : queue'[s][k] = queue[s][k]
  BY <1>6, Appended
<1>8. ~Queued(i, s)
  BY <1>1 DEF StatusInv, Handed
<1>9. ASSUME NEW k \in 1..Len(queue[s])
      PROVE  /\ queue[s][k] \in Indications /\ service[queue[s][k]] # "none"
             /\ queue[s][k][1] = i[1] => queue[s][k][2] < i[2]
  <2>1. PICK j \in Indications : j = queue[s][k]
    BY <1>6, ElementOfSeq
  <2>2. service[j] # "none" /\ j # i
    BY <1>7, <1>8, <2>1 DEF OrderInv, Known, Queued
  <2>3. j[2] <= sender[j[1]].sent /\ j = <<j[1], j[2]>> /\ j[2] \in Nat
    BY <2>2, Sent, Parts
  <2>4. j[1] = i[1] => j[2] < i[2]
    BY <1>5, <2>2, <2>3
  <2>5. QED
    BY <2>1, <2>2, <2>4
<1>10. Known'
  <2>1. ASSUME NEW r \in Subscriptions, NEW k \in DOMAIN queue'[r]
        PROVE  service[queue'[r][k]] # "none"
    <3>1. CASE r # s
      <4>1. queue'[r] = queue[r]
        BY <1>6, <3>1
      <4>2. QED
        BY <2>1, <4>1 DEF OrderInv, Known
    <3>2. CASE r = s /\ k = Len(queue[s]) + 1
      BY <1>4, <1>7, <3>2
    <3>3. CASE r = s /\ k # Len(queue[s]) + 1
      <4>1. k \in 1..Len(queue[s])
        BY <1>7, <2>1, <3>3
      <4>2. QED
        BY <1>7, <1>9, <3>3, <4>1
    <3>4. QED
      BY <3>1, <3>2, <3>3
  <2>2. QED
    BY <1>1, <2>1 DEF Known
<1>11. SenderOrder'
  <2>1. ASSUME NEW r \in Subscriptions, NEW j \in DOMAIN queue'[r], NEW k \in DOMAIN queue'[r],
               j < k, queue'[r][j][1] = queue'[r][k][1]
        PROVE  queue'[r][j][2] < queue'[r][k][2]
    <3>1. CASE r # s
      <4>1. queue'[r] = queue[r]
        BY <1>6, <3>1
      <4>2. QED
        BY <2>1, <4>1 DEF OrderInv, SenderOrder
    <3>2. CASE r = s
      <4>1. /\ j \in 1..Len(queue[s]) /\ k \in 1..(Len(queue[s]) + 1)
            /\ queue'[s][j] = queue[s][j] /\ queue'[s][j][1] = queue'[s][k][1]
        BY <1>7, <2>1, <3>2
      <4>2. CASE k = Len(queue[s]) + 1
        BY <1>7, <1>9, <3>2, <4>1, <4>2
      <4>3. CASE k # Len(queue[s]) + 1
        <5>1. k \in 1..Len(queue[s]) /\ queue'[s][k] = queue[s][k]
          BY <1>7, <4>1, <4>3
        <5>2. queue[s][j][2] < queue[s][k][2]
          BY <1>7, <2>1, <4>1, <5>1 DEF OrderInv, SenderOrder
        <5>3. QED
          BY <3>2, <4>1, <5>1, <5>2
      <4>4. QED
        BY <4>2, <4>3
    <3>3. QED
      BY <3>1, <3>2
  <2>2. QED
    BY <2>1 DEF SenderOrder
<1>12. QED
  BY <1>10, <1>11

\* The oldest indication leaves a queue, in which the others stay in order.
LEMMA DestinationInOrder ==
    ASSUME StatusInv, StatusInv', OrderInv, NEW s \in Subscriptions, DestinationDone(s)
    PROVE  OrderInv'
<1>1. /\ queue[s] # <<>> /\ Head(queue[s]) \notin waits
      /\ queue' = [queue EXCEPT ![s] = Tail(@)]
      /\ UNCHANGED <<sender, service, waits>>
      /\ UNCHANGED <<answers, responses>>
  BY DEF DestinationDone, serviceVars, statusVars, OrderInv
<1>2. /\ queue[s] \in Seq(Indications)
      /\ queue'[s] = Tail(queue[s])
      /\ \A r \in Subscriptions : r # s => queue'[r] = queue[r]
  BY <1>1 DEF StatusInv, Typed
<1>3. /\ DOMAIN queue[s] = 1..Len(queue[s]) /\ Len(queue[s]) \in Nat \ {0}
      /\ DOMAIN queue'[s] = 1..(Len(queue[s]) - 1)
      /\ \A k \in 1..(Len(queue[s]) - 1) : queue'[s][k] = queue[s][k + 1]
  BY <1>1, <1>2, Popped
<1>4. \A k \in DOMAIN queue'[s] : /\ k \in Nat
                                 /\ k + 1 \in DOMAIN queue[s]
                                 /\ queue'[s][k] = queue[s][k + 1]
  BY <1>3
<1>5. Known'
  <2>1. \A k \in DOMAIN queue'[s] : service[queue'[s][k]] # "none"
    BY <1>4 DEF OrderInv, Known
  <2>2. \A r \in Subscriptions : r # s =>
           \A k \in DOMAIN queue'[r] : service[queue'[r][k]] # "none"
    BY <1>2 DEF OrderInv, Known
  <2>3. QED
    BY <1>1, <2>1, <2>2 DEF Known
<1>6. SenderOrder'
  <2>1. ASSUME NEW r \in Subscriptions, NEW j \in DOMAIN queue'[r], NEW k \in DOMAIN queue'[r],
               j < k, queue'[r][j][1] = queue'[r][k][1]
        PROVE  queue'[r][j][2] < queue'[r][k][2]
    <3>1. CASE r # s
      <4>1. queue'[r] = queue[r]
        BY <1>2, <3>1
      <4>2. QED
        BY <2>1, <4>1 DEF OrderInv, SenderOrder
    <3>2. CASE r = s
      <4>1. /\ j \in Nat /\ j + 1 \in DOMAIN queue[s] /\ queue'[s][j] = queue[s][j + 1]
            /\ k \in Nat /\ k + 1 \in DOMAIN queue[s] /\ queue'[s][k] = queue[s][k + 1]
        BY <1>4, <2>1, <3>2
      <4>2. j + 1 < k + 1 /\ queue[s][j + 1][1] = queue[s][k + 1][1]
        BY <2>1, <3>2, <4>1
      <4>3. queue[s][j + 1][2] < queue[s][k + 1][2]
        BY <4>1, <4>2 DEF OrderInv, SenderOrder
      <4>4. QED
        BY <3>2, <4>1, <4>3
    <3>3. QED
      BY <3>1, <3>2
  <2>2. QED
    BY <2>1 DEF SenderOrder
<1>7. Past'
  BY <1>1 DEF OrderInv, Past, Freed
<1>8. QED
  BY <1>1, <1>5, <1>6, <1>7 DEF OrderInv

\* The steps of the services about one indication.
LEMMA ServicesInOrder ==
    ASSUME StatusInv, StatusInv', OrderInv, NEW i \in Indications,
           ServiceStep(i) \/ \E s \in Subscriptions : HandlerStep(i, s)
    PROVE  OrderInv'
<1>1. waits' = waits /\ sender' = sender
  BY DEF ServiceStep, Match, Forward, IncExpectedResponseCount, SetDone, HandlerStep,
         EnqueueReliable, ReadFlag, CompleteThenDeliver, Export, AttemptDone, Reject,
         CompleteRequest, serviceVars
<1>2. \A j \in Indications : service[j] # "none" => service'[j] # "none"
  <2>1. CASE ServiceStep(i)
    <3>1. PICK x \in {"forwarding", "counting", "done"} :
             service' = [service EXCEPT ![i] = x]
      BY <2>1 DEF ServiceStep, Match, Forward, IncExpectedResponseCount, SetDone
    <3>2. QED
      BY <3>1 DEF StatusInv, Typed
  <2>2. CASE \E s \in Subscriptions : HandlerStep(i, s)
    BY <2>2 DEF HandlerStep, EnqueueReliable, ReadFlag, CompleteThenDeliver, Export,
                AttemptDone, Reject, CompleteRequest, serviceVars
  <2>3. QED
    BY <2>1, <2>2
<1>3. \/ UNCHANGED <<answers, responses>>
      \/ SendResponse(i)
  <2>1. CASE ServiceStep(i)
    BY <2>1 DEF ServiceStep, Match, Forward, IncExpectedResponseCount, SetDone, NoAnswer,
                statusVars
  <2>2. CASE \E s \in Subscriptions : HandlerStep(i, s)
    BY <2>2 DEF HandlerStep, EnqueueReliable, ReadFlag, CompleteThenDeliver, Export,
                AttemptDone, Reject, CompleteRequest, Complete, NoAnswer, statusVars
  <2>3. QED
    BY <2>1, <2>2
<1>4. Past'
  BY <1>1, <1>3, PastKept
<1>5. Known' /\ SenderOrder'
  <2>1. CASE \E s \in Subscriptions : EnqueueReliable(i, s)
    BY <2>1, EnqueueInOrder
  <2>2. CASE ~\E s \in Subscriptions : EnqueueReliable(i, s)
    <3>1. UNCHANGED queue
      BY <2>2 DEF ServiceStep, Match, Forward, IncExpectedResponseCount, SetDone, HandlerStep,
             ReadFlag, CompleteThenDeliver, Export, AttemptDone, Reject, CompleteRequest,
             handlerVars
    <3>2. QED
      BY <1>2, <3>1, QueuesKept
  <2>3. QED
    BY <2>1, <2>2
<1>6. QED
  BY <1>1, <1>4, <1>5 DEF OrderInv

\* Every destination gets the indications of one thread in the order in which the
\* thread generated them, when no wait times out and no provider waits for the
\* delivery.
THEOREM OneSenderInOrder == ASSUME Waiting PROVE Spec => []SenderOrder
<1>1. StatusInv /\ StatusInv' /\ OrderInv /\ [Next]_vars => OrderInv'
  <2> SUFFICES ASSUME StatusInv, StatusInv', OrderInv, [Next]_vars PROVE OrderInv'
    OBVIOUS
  <2>1. ASSUME NEW t \in Senders, Deliver(t) \/ Signalled(t) \/ TimedOut(t) PROVE OrderInv'
    BY <2>1, ThreadsInOrder
  <2>2. ASSUME NEW i \in Indications, Notify(i) PROVE OrderInv'
    BY <2>2, NotifyInOrder
  <2>3. ASSUME NEW i \in Indications,
               ServiceStep(i) \/ \E s \in Subscriptions : HandlerStep(i, s)
        PROVE  OrderInv'
    BY <2>3, ServicesInOrder
  <2>4. ASSUME NEW s \in Subscriptions, DestinationDone(s) PROVE OrderInv'
    BY <2>4, DestinationInOrder
  <2>5. CASE UNCHANGED vars
    BY <2>5 DEF vars, serviceVars, statusVars, handlerVars, OrderInv, Past, Known,
                SenderOrder, Freed
  <2>6. QED
    BY <2>1, <2>2, <2>3, <2>4, <2>5 DEF Next
<1>2. OrderInv => SenderOrder
  BY DEF OrderInv
<1>3. QED
  BY <1>1, <1>2, Invariant, InitOrder, PTL DEF Spec
=============================================================================
