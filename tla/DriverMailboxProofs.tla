------------------------- MODULE DriverMailboxProofs -------------------------
(***************************************************************************)
(* Theorems about DriverMailbox, for any streams, listeners and bounds.    *)
(***************************************************************************)
EXTENDS DriverMailbox, SequenceTheorems, TLAPS

------------------------------------------------------------------------------
(* The operators of the mailbox.                                           *)

LEMMA CallsTyped ==
  ASSUME NEW call \in Calls
  PROVE  /\ call.streams \in Seq(Streams)
         /\ call.persist \in BOOLEAN
         /\ Len(call.streams) \in {1, 2}
         /\ call.streams[1] \in Streams
         /\ Len(call.streams) = 2 => call.streams[2] \in Streams
<1> Streams = Accumulating \cup Replaceable \cup Lifecycle /\ SessionUpdated \in Streams
    /\ ToolProgress \subseteq Streams /\ Lifecycle \subseteq Streams
  BY DEF Streams, Replaceable
<1>1. CASE \E s \in Streams : call.streams = <<s>> /\ call.persist \in BOOLEAN
  BY <1>1
<1>2. CASE \E s, t \in Streams : call.streams = <<s, t>> /\ call.persist \in BOOLEAN
  BY <1>2
<1>3. \/ \E s \in Streams : call.streams = <<s>> /\ call.persist \in BOOLEAN
      \/ \E s, t \in Streams : call.streams = <<s, t>> /\ call.persist \in BOOLEAN
  <2>1. CASE call \in [streams: {<<s>> : s \in Streams}, persist: {FALSE}]
    BY <2>1
  <2>2. CASE call \in [streams: {<<s>> : s \in Lifecycle \cup {SessionUpdated}},
                       persist: {TRUE}]
    BY <2>2
  <2>3. CASE call \in [streams: Lifecycle \X {SessionUpdated}, persist: {TRUE}]
    <3>1. call.streams \in Lifecycle \X {SessionUpdated} /\ call.persist \in BOOLEAN
      BY <2>3
    <3>2. PICK s \in Lifecycle, t \in {SessionUpdated} : call.streams = <<s, t>>
      BY <3>1
    <3>3. s \in Streams /\ t \in Streams
      OBVIOUS
    <3>4. QED
      BY <3>1, <3>2, <3>3, Zenon
  <2>4. CASE call \in [streams: (ToolProgress \cup Lifecycle) \X Lifecycle, persist: {FALSE}]
    <3>1. call.streams \in (ToolProgress \cup Lifecycle) \X Lifecycle /\ call.persist \in BOOLEAN
      BY <2>4
    <3>2. PICK s \in ToolProgress \cup Lifecycle, t \in Lifecycle : call.streams = <<s, t>>
      BY <3>1
    <3>3. s \in Streams /\ t \in Streams
      OBVIOUS
    <3>4. QED
      BY <3>1, <3>2, <3>3, Zenon
  <2>5. QED
    BY <2>1, <2>2, <2>3, <2>4, Zenon DEF Calls
<1>4. QED
  BY <1>1, <1>2, <1>3

LEMMA EnqueueTyped ==
  ASSUME NEW batches \in Seq(Batch), \A b \in DOMAIN batches : batches[b].events # <<>>,
         NEW event \in Event, NEW persist \in BOOLEAN
  PROVE  /\ Enqueue(batches, event, persist) \in Seq(Batch)
         /\ Enqueue(batches, event, persist) # <<>>
         /\ \A b \in DOMAIN Enqueue(batches, event, persist) :
              Enqueue(batches, event, persist)[b].events # <<>>
<1> DEFINE n == Len(batches)
           lastBatch == batches[n]
           m == Len(lastBatch.events)
           merges == n > 0 /\ Mergeable(lastBatch.events[m], event)
           joins == n > 0 /\ lastBatch.persist = persist
<1>1. CASE merges
  <2> DEFINE ev == MergedEvent(lastBatch.events[m], event)
             evs == [lastBatch.events EXCEPT ![m] = ev]
             batch == [events |-> evs, persist |-> lastBatch.persist \/ persist]
  <2>0. n \in 1 .. Len(batches) /\ lastBatch \in Batch
    BY <1>1, LenProperties, ElementOfSeq
  <2>1. lastBatch.events \in Seq(Event) /\ lastBatch.events # <<>>
        /\ lastBatch.persist \in BOOLEAN
    BY <2>0 DEF Batch
  <2>2. m \in 1 .. Len(lastBatch.events) /\ lastBatch.events[m] \in Event
    BY <2>1
  <2>3. ev \in Event
    BY <2>2 DEF MergedEvent, Event
  <2>4. evs \in Seq(Event) /\ Len(evs) = m
    BY <2>1, <2>2, <2>3, ExceptSeq
  <2>5. batch \in Batch
    BY <2>1, <2>4 DEF Batch
  <2>6. Enqueue(batches, event, persist) = [batches EXCEPT ![n] = batch]
    BY <1>1 DEF Enqueue
  <2>7. evs # <<>>
    BY <2>2, <2>4
  <2> HIDE DEF batch
  <2>8. QED
    BY <2>0, <2>5, <2>6, <2>7 DEF batch
<1>2. CASE ~merges /\ joins
  <2>0. n \in 1 .. Len(batches) /\ lastBatch \in Batch
    BY <1>2, LenProperties, ElementOfSeq
  <2>1. lastBatch.events \in Seq(Event) /\ lastBatch.persist \in BOOLEAN
    BY <2>0 DEF Batch
  <2> DEFINE batch == [events |-> Append(lastBatch.events, event), persist |-> persist]
  <2>2. batch \in Batch /\ batch.events # <<>>
    <3>1. Append(lastBatch.events, event) \in Seq(Event) /\ Append(lastBatch.events, event) # <<>>
      BY <2>1, AppendProperties
    <3> DEFINE evs == Append(lastBatch.events, event)
    <3> HIDE DEF evs
    <3>2. [events |-> evs, persist |-> persist] \in Batch
      BY <3>1 DEF Batch, evs
    <3>3. QED
      BY <3>1, <3>2 DEF evs
  <2>3. Enqueue(batches, event, persist) = [batches EXCEPT ![n] = batch]
    BY <1>2 DEF Enqueue
  <2> HIDE DEF batch
  <2>4. QED
    BY <2>0, <2>2, <2>3
<1>3. CASE ~merges /\ ~joins
  <2> DEFINE batch == [events |-> <<event>>, persist |-> persist]
  <2>1. batch \in Batch /\ batch.events # <<>>
    BY DEF Batch
  <2>2. Enqueue(batches, event, persist) = Append(batches, batch)
    BY <1>3 DEF Enqueue
  <2> HIDE DEF batch
  <2>3. QED
    BY <2>1, <2>2
<1>4. QED
  BY <1>1, <1>2, <1>3

(* Append, seen as a function. *)
LEMMA AppendDomain ==
  ASSUME NEW S, NEW s \in Seq(S), NEW e \in S
  PROVE  /\ Append(s, e) \in Seq(S)
         /\ Len(s) \in Nat
         /\ DOMAIN s = 1 .. Len(s)
         /\ DOMAIN Append(s, e) = DOMAIN s \cup {Len(s) + 1}
         /\ Append(s, e)[Len(s) + 1] = e
         /\ \A k \in DOMAIN s : Append(s, e)[k] = s[k]
<1>1. /\ Append(s, e) \in Seq(S)
      /\ Len(Append(s, e)) = Len(s) + 1
      /\ \A k \in 1 .. Len(s) : Append(s, e)[k] = s[k]
      /\ Append(s, e)[Len(s) + 1] = e
  BY AppendProperties
<1>2. Len(s) \in Nat /\ DOMAIN s = 1 .. Len(s)
  BY LenProperties
<1>3. DOMAIN Append(s, e) = 1 .. Len(s) + 1
  BY <1>1, LenProperties
<1>4. 1 .. Len(s) + 1 = (1 .. Len(s)) \cup {Len(s) + 1}
  BY <1>2
<1>5. QED
  BY <1>1, <1>2, <1>3, <1>4

(* An event numbered after all of a sequence's may be appended to it. *)
LEMMA AppendBetween ==
  ASSUME NEW s \in Seq(Event), NEW f \in Nat, NEW mid \in Nat, NEW hi \in Nat, mid <= hi,
         EventsBetween(s, f, mid), f <= mid,
         NEW e \in Event, mid < e.first, e.first <= e.last, e.last <= hi
  PROVE  EventsBetween(Append(s, e), f, hi)
<1>1. \A k \in DOMAIN s : s[k].first \in Nat /\ s[k].last \in Nat
  <2>1. \A k \in DOMAIN s : s[k] \in Event
    BY ElementOfSeq, LenProperties
  <2>2. QED
    BY <2>1 DEF Event
<1>2. e.first \in Nat /\ e.last \in Nat
  BY DEF Event
<1>3. QED
  BY <1>1, <1>2, AppendDomain DEF EventsBetween

(* Queueing the event numbered n + 1 keeps the batches in order: it is     *)
(* appended, or takes the place of the newest event.                       *)
LEMMA EnqueueOrdered ==
  ASSUME NEW batches \in Seq(Batch), NEW f \in Nat, NEW n \in Nat, f <= n,
         BatchesBetween(batches, f, n),
         NEW stream \in Streams, NEW persist \in BOOLEAN
  PROVE  BatchesBetween(Enqueue(batches, EventOf(stream, n + 1), persist), f, n + 1)
<1> DEFINE event == EventOf(stream, n + 1)
           N == Len(batches)
           lastBatch == batches[N]
           m == Len(lastBatch.events)
           merges == N > 0 /\ Mergeable(lastBatch.events[m], event)
           joins == N > 0 /\ lastBatch.persist = persist
           result == Enqueue(batches, event, persist)
<1>0. event.first = n + 1 /\ event.last = n + 1 /\ event \in Event
  BY DEF EventOf, Event
<1> HIDE DEF event
<1>a. \A b \in DOMAIN batches :
        /\ batches[b].events \in Seq(Event)
        /\ batches[b].events # <<>>
        /\ \A k \in DOMAIN batches[b].events :
             /\ batches[b].events[k].first \in Nat /\ batches[b].events[k].last \in Nat
             /\ f < batches[b].events[k].first
             /\ batches[b].events[k].first <= batches[b].events[k].last
             /\ batches[b].events[k].last <= n
        /\ \A j, k \in DOMAIN batches[b].events :
             j < k => batches[b].events[j].last < batches[b].events[k].first
  <2> TAKE b \in DOMAIN batches
  <2>1. batches[b] \in Batch
    BY ElementOfSeq
  <2>2. batches[b].events \in Seq(Event)
    BY <2>1 DEF Batch
  <2>3. \A k \in DOMAIN batches[b].events : batches[b].events[k] \in Event
    BY <2>2, ElementOfSeq
  <2>4. QED
    BY <2>2, <2>3 DEF BatchesBetween, EventsBetween, Event
<1>b. \A b, c \in DOMAIN batches : b < c =>
        \A j \in DOMAIN batches[b].events, k \in DOMAIN batches[c].events :
          batches[b].events[j].last < batches[c].events[k].first
  BY DEF BatchesBetween
<1>1. CASE merges
  <2> DEFINE ev == MergedEvent(lastBatch.events[m], event)
             evs == [lastBatch.events EXCEPT ![m] = ev]
             batch == [events |-> evs, persist |-> lastBatch.persist \/ persist]
  <2>0. N \in 1 .. Len(batches) /\ N \in DOMAIN batches
    BY <1>1
  <2>1. lastBatch.events \in Seq(Event) /\ m \in 1 .. Len(lastBatch.events)
        /\ m \in DOMAIN lastBatch.events
    BY <2>0, <1>a
  <2>2. lastBatch.events[m] \in Event
    BY <2>1
  <2>3. ev.last = n + 1 /\ lastBatch.events[m].first <= ev.first /\ ev.first <= n + 1
        /\ ev.first \in Nat
    BY <2>0, <2>1, <2>2, <1>0, <1>a DEF MergedEvent, Event
  <2>4. /\ DOMAIN evs = DOMAIN lastBatch.events
        /\ evs[m] = ev
        /\ \A k \in DOMAIN lastBatch.events : k # m => evs[k] = lastBatch.events[k]
        /\ \A k \in DOMAIN lastBatch.events : k <= m /\ k \in Nat
    BY <2>1
  <2>5. evs # <<>>
    BY <2>1, <2>4
  <2> HIDE DEF ev, evs
  <2>6. EventsBetween(evs, f, n + 1)
    <3>1. \A k \in DOMAIN evs :
            f < evs[k].first /\ evs[k].first <= evs[k].last /\ evs[k].last <= n + 1
      BY <2>0, <2>1, <2>3, <2>4, <1>a
    <3>2. ASSUME NEW j \in DOMAIN evs, NEW k \in DOMAIN evs, j < k
          PROVE  evs[j].last < evs[k].first
      <4>1. j # m /\ evs[j] = lastBatch.events[j] /\ j \in DOMAIN lastBatch.events
            /\ k \in DOMAIN lastBatch.events
        BY <2>1, <2>4, <3>2
      <4>2. lastBatch.events[j].last < lastBatch.events[k].first
        BY <2>0, <3>2, <4>1, <1>a
      <4>3. lastBatch.events[k].first <= evs[k].first
        BY <2>0, <2>3, <2>4, <4>1, <1>a
      <4>4. lastBatch.events[j].last \in Nat /\ lastBatch.events[k].first \in Nat
            /\ evs[k].first \in Nat
        BY <2>0, <2>3, <2>4, <4>1, <1>a
      <4>5. QED
        BY <4>1, <4>2, <4>3, <4>4
    <3>3. QED
      BY <3>1, <3>2 DEF EventsBetween
  <2>7. result = [batches EXCEPT ![N] = batch]
    BY <1>1 DEF Enqueue, evs, ev
  <2>8. /\ DOMAIN result = DOMAIN batches
        /\ result[N].events = evs
        /\ \A b \in DOMAIN batches : b # N => result[b] = batches[b]
        /\ \A b \in DOMAIN batches : b <= N /\ b \in Nat
    BY <2>0, <2>7
  <2> HIDE DEF result, batch
  <2>9. \A b \in DOMAIN result :
          result[b].events # <<>> /\ EventsBetween(result[b].events, f, n + 1)
    BY <2>5, <2>6, <2>8, <1>a DEF EventsBetween
  <2>10. ASSUME NEW b \in DOMAIN result, NEW c \in DOMAIN result, b < c,
                NEW j \in DOMAIN result[b].events, NEW k \in DOMAIN result[c].events
         PROVE  result[b].events[j].last < result[c].events[k].first
    <3>1. b # N /\ b \in DOMAIN batches /\ result[b] = batches[b]
          /\ j \in DOMAIN batches[b].events
      BY <2>8, <2>10, <2>0
    <3>2. CASE c # N
      BY <3>1, <3>2, <2>8, <2>10, <1>b
    <3>3. CASE c = N
      <4>1. k \in DOMAIN lastBatch.events /\ batches[b].events[j].last < lastBatch.events[k].first
        BY <3>1, <3>3, <2>0, <2>4, <2>8, <2>10, <1>b
      <4>2. lastBatch.events[k].first <= evs[k].first
        BY <4>1, <2>0, <2>1, <2>3, <2>4, <1>a
      <4>3. batches[b].events[j].last \in Nat /\ lastBatch.events[k].first \in Nat
            /\ evs[k].first \in Nat
        BY <4>1, <3>1, <2>0, <2>3, <2>4, <1>a
      <4>4. batches[b].events[j].last < evs[k].first
        BY <4>1, <4>2, <4>3
      <4>5. QED
        BY <4>4, <3>1, <3>3, <2>8
    <3>4. QED
      BY <3>2, <3>3
  <2>11. QED
    BY <2>9, <2>10 DEF BatchesBetween, result, event
<1>2. CASE ~merges /\ joins
  <2> DEFINE evs == Append(lastBatch.events, event)
             batch == [events |-> evs, persist |-> persist]
  <2>0. N \in 1 .. Len(batches) /\ N \in DOMAIN batches
    BY <1>2
  <2>1. lastBatch.events \in Seq(Event)
    BY <2>0, <1>a
  <2>2. /\ DOMAIN evs = DOMAIN lastBatch.events \cup {m + 1}
        /\ evs[m + 1] = event
        /\ \A k \in DOMAIN lastBatch.events : evs[k] = lastBatch.events[k] /\ k \in 1 .. m
        /\ m \in Nat
    BY <2>1, <1>0, AppendDomain
  <2>3. evs # <<>>
    BY <2>1, <1>0, AppendProperties
  <2>5. EventsBetween(lastBatch.events, f, n)
    BY <2>0 DEF BatchesBetween
  <2>6. EventsBetween(evs, f, n + 1)
    BY <2>1, <2>5, <1>0, AppendBetween
  <2> HIDE DEF evs
  <2>7. result = [batches EXCEPT ![N] = batch]
    BY <1>2 DEF Enqueue, evs
  <2>8. /\ DOMAIN result = DOMAIN batches
        /\ result[N].events = evs
        /\ \A b \in DOMAIN batches : b # N => result[b] = batches[b]
        /\ \A b \in DOMAIN batches : b <= N /\ b \in Nat
    BY <2>0, <2>7
  <2> HIDE DEF result, batch
  <2>9. \A b \in DOMAIN result :
          result[b].events # <<>> /\ EventsBetween(result[b].events, f, n + 1)
    <3>1. \A b \in DOMAIN batches : EventsBetween(batches[b].events, f, n + 1)
      BY <1>a DEF EventsBetween
    <3>2. QED
      BY <3>1, <2>3, <2>6, <2>8, <1>a
  <2>10. ASSUME NEW b \in DOMAIN result, NEW c \in DOMAIN result, b < c,
                NEW j \in DOMAIN result[b].events, NEW k \in DOMAIN result[c].events
         PROVE  result[b].events[j].last < result[c].events[k].first
    <3>1. b # N /\ b \in DOMAIN batches /\ result[b] = batches[b]
          /\ j \in DOMAIN batches[b].events
      BY <2>8, <2>10, <2>0
    <3>2. CASE c # N
      BY <3>1, <3>2, <2>8, <2>10, <1>b
    <3>3. CASE c = N /\ k # m + 1
      BY <3>1, <3>3, <2>0, <2>2, <2>8, <2>10, <1>b
    <3>4. CASE c = N /\ k = m + 1
      BY <3>1, <3>4, <2>2, <2>8, <1>0, <1>a
    <3>5. QED
      BY <3>2, <3>3, <3>4
  <2>11. QED
    BY <2>9, <2>10 DEF BatchesBetween, result, event
<1>3. CASE ~merges /\ ~joins
  <2> DEFINE batch == [events |-> <<event>>, persist |-> persist]
  <2>1. result = Append(batches, batch)
    BY <1>3 DEF Enqueue
  <2>2. batch \in Batch
    BY <1>0 DEF Batch
  <2>3. /\ DOMAIN result = DOMAIN batches \cup {N + 1}
        /\ result[N + 1].events = <<event>>
        /\ \A b \in DOMAIN batches : result[b] = batches[b] /\ b \in 1 .. N
        /\ N \in Nat
    BY <2>1, <2>2, AppendDomain
  <2> HIDE DEF result, batch
  <2>4. EventsBetween(<<event>>, f, n + 1) /\ <<event>> # <<>>
        /\ DOMAIN <<event>> = {1} /\ <<event>>[1] = event
    BY <1>0 DEF EventsBetween
  <2>5. \A b \in DOMAIN result :
          result[b].events # <<>> /\ EventsBetween(result[b].events, f, n + 1)
    <3>1. \A b \in DOMAIN batches : EventsBetween(batches[b].events, f, n + 1)
      BY <1>a DEF EventsBetween
    <3>2. QED
      BY <3>1, <2>3, <2>4, <1>a
  <2>6. ASSUME NEW b \in DOMAIN result, NEW c \in DOMAIN result, b < c,
               NEW j \in DOMAIN result[b].events, NEW k \in DOMAIN result[c].events
        PROVE  result[b].events[j].last < result[c].events[k].first
    <3>1. b \in DOMAIN batches /\ result[b] = batches[b] /\ j \in DOMAIN batches[b].events
      BY <2>3, <2>6
    <3>2. CASE c # N + 1
      BY <3>1, <3>2, <2>3, <2>6, <1>b
    <3>3. CASE c = N + 1
      BY <3>1, <3>3, <2>3, <2>4, <2>6, <1>0, <1>a
    <3>4. QED
      BY <3>2, <3>3
  <2>7. QED
    BY <2>5, <2>6 DEF BatchesBetween, result, event
<1>4. QED
  BY <1>1, <1>2, <1>3

(* A whole call of queueDriverEvents. *)
LEMMA EnqueueCallOrdered ==
  ASSUME NEW batches \in Seq(Batch), NEW f \in Nat, NEW n \in Nat, f <= n,
         BatchesBetween(batches, f, n), NEW call \in Calls
  PROVE  /\ EnqueueCall(batches, call, n) \in Seq(Batch)
         /\ EnqueueCall(batches, call, n) # <<>>
         /\ n + Len(call.streams) \in Nat /\ n < n + Len(call.streams)
         /\ BatchesBetween(EnqueueCall(batches, call, n), f, n + Len(call.streams))
<1> DEFINE s1 == call.streams[1]
           s2 == call.streams[2]
           one == Enqueue(batches, EventOf(s1, n + 1), call.persist)
           two == Enqueue(one, EventOf(s2, n + 2), call.persist)
<1>1. /\ call.persist \in BOOLEAN
      /\ Len(call.streams) \in {1, 2}
      /\ s1 \in Streams
      /\ Len(call.streams) = 2 => s2 \in Streams
  BY CallsTyped
<1>2. EventOf(s1, n + 1) \in Event
  BY <1>1 DEF EventOf, Event
<1>3. \A b \in DOMAIN batches : batches[b].events # <<>>
  BY DEF BatchesBetween
<1>4. /\ one \in Seq(Batch)
      /\ one # <<>>
      /\ \A b \in DOMAIN one : one[b].events # <<>>
      /\ BatchesBetween(one, f, n + 1)
  BY <1>1, <1>2, <1>3, EnqueueTyped, EnqueueOrdered
<1> HIDE DEF one
<1>5. CASE Len(call.streams) = 1
  BY <1>4, <1>5 DEF EnqueueCall, one
<1>6. CASE Len(call.streams) = 2
  <2>1. EventOf(s2, n + 2) \in Event /\ n + 2 = (n + 1) + 1
    BY <1>1, <1>6 DEF EventOf, Event
  <2>2. two \in Seq(Batch) /\ two # <<>>
    BY <1>1, <1>4, <2>1, EnqueueTyped
  <2>3. BatchesBetween(Enqueue(one, EventOf(s2, (n + 1) + 1), call.persist), f, (n + 1) + 1)
    BY <1>1, <1>4, <1>6, EnqueueOrdered
  <2>4. BatchesBetween(two, f, n + 2)
    BY <2>1, <2>3
  <2>5. EnqueueCall(batches, call, n) = two
    BY <1>6 DEF EnqueueCall, one
  <2>6. QED
    BY <2>2, <2>4, <2>5, <1>6
<1>7. QED
  BY <1>1, <1>5, <1>6

------------------------------------------------------------------------------
(* The steps of the drain, each from the ordering facts it starts with.    *)

(* What every drain step needs to know of the log, and leaves behind. *)
LogOk(f) ==
  /\ log \in [Listeners -> Seq(Event)]
  /\ \A l \in Listeners : EventsBetween(log[l], 0, f)

DrainTyped ==
  /\ phase \in Phases
  /\ cur \in Seq(Event)
  /\ calling \in Listeners \cup {Nobody}
  /\ todo \subseteq Listeners
  /\ calling = Nobody => todo = {}

CurOk(f) ==
  /\ EventsBetween(cur, 0, f)
  /\ \A l \in Listeners : LogBehindCur(l)
  /\ cur # <<>> <=> phase \in {"persist", "emit"}
  /\ phase = "persist" => todo = {} /\ calling = Nobody

(* Calling a listener with an event that lies after all it has had, and at *)
(* or below the frontier.                                                  *)
LEMMA CallListener ==
  ASSUME NEW f \in Nat, LogOk(f), NEW l \in Listeners, NEW e \in Event,
         e.last <= f, e.first <= e.last,
         \A i \in DOMAIN log[l] : log[l][i].last < e.first,
         log' = [log EXCEPT ![l] = Append(@, e)]
  PROVE  /\ LogOk(f)'
         /\ \A i \in DOMAIN log'[l] : log'[l][i].last <= e.last
         /\ \A k \in Listeners : k # l => log'[k] = log[k]
<1>1. log[l] \in Seq(Event) /\ EventsBetween(log[l], 0, f)
  BY DEF LogOk
<1>2. e.first \in Nat /\ e.last \in Nat /\ e.first # 0
  BY DEF Event
<1>3. \A i \in DOMAIN log[l] : log[l][i].first \in Nat /\ log[l][i].last \in Nat
  <2>1. \A i \in DOMAIN log[l] : log[l][i] \in Event
    BY <1>1, ElementOfSeq, LenProperties
  <2>2. QED
    BY <2>1 DEF Event
<1>4. /\ Append(log[l], e) \in Seq(Event)
      /\ Len(log[l]) \in Nat
      /\ DOMAIN log[l] = 1 .. Len(log[l])
      /\ DOMAIN Append(log[l], e) = DOMAIN log[l] \cup {Len(log[l]) + 1}
      /\ Append(log[l], e)[Len(log[l]) + 1] = e
      /\ \A k \in DOMAIN log[l] : Append(log[l], e)[k] = log[l][k]
  BY <1>1, AppendDomain
<1>5. EventsBetween(Append(log[l], e), 0, f)
  BY <1>1, <1>2, <1>3, <1>4 DEF EventsBetween
<1>6. \A i \in DOMAIN Append(log[l], e) : Append(log[l], e)[i].last <= e.last
  BY <1>2, <1>3, <1>4
<1>7. log'[l] = Append(log[l], e) /\ \A k \in Listeners : k # l => log'[k] = log[k]
  BY DEF LogOk
<1>8. log' \in [Listeners -> Seq(Event)]
  BY <1>4 DEF LogOk
<1>9. QED
  BY <1>5, <1>6, <1>7, <1>8 DEF LogOk

(* Starting on events none of which any listener has had. *)
LEMMA StartEmitOk ==
  ASSUME NEW f \in Nat, LogOk(f), NEW events \in Seq(Event), events # <<>>,
         EventsBetween(events, 0, f),
         NEW audience \in SUBSET Listeners,
         \A l \in Listeners : \A i \in DOMAIN log[l], k \in DOMAIN events :
           log[l][i].last < events[k].first,
         StartEmit(events, audience)
  PROVE  LogOk(f)' /\ CurOk(f)' /\ DrainTyped'
<1>1. /\ Head(events) = events[1]
      /\ 1 \in DOMAIN events
      /\ events[1] \in Event
      /\ \A k \in DOMAIN events : events[k] \in Event /\ k \in Nat \ {0}
  BY LenProperties, ElementOfSeq, EmptySeq
<1>2. events[1].first <= events[1].last /\ events[1].last <= f
  BY <1>1 DEF EventsBetween
<1>3. phase' = "emit" /\ cur' = events
  BY DEF StartEmit
<1>4. DrainTyped'
  BY <1>3, NobodyIsNoListener DEF StartEmit, DrainTyped, Phases
<1>5. CASE audience = {}
  <2>1. log' = log
    BY <1>5 DEF StartEmit
  <2>2. QED
    BY <1>3, <1>4, <2>1 DEF LogOk, CurOk, LogBehindCur, Called
<1>6. CASE audience # {}
  <2>1. PICK l \in audience :
          /\ todo' = audience \ {l}
          /\ log' = [log EXCEPT ![l] = Append(@, events[1])]
    BY <1>1, <1>6 DEF StartEmit
  <2>2. /\ LogOk(f)'
        /\ \A i \in DOMAIN log'[l] : log'[l][i].last <= events[1].last
        /\ \A k \in Listeners : k # l => log'[k] = log[k]
    <3>1. l \in Listeners /\ \A i \in DOMAIN log[l] : log[l][i].last < events[1].first
      BY <1>1
    <3>2. QED
      BY <1>1, <1>2, <2>1, <3>1, CallListener
  <2>3. ASSUME NEW k \in DOMAIN events, k > 1
        PROVE  \A i \in DOMAIN log'[l] : log'[l][i].last < events[k].first
    <3>1. events[1].last < events[k].first
      BY <1>1, <2>3 DEF EventsBetween
    <3>2. events[1].last \in Nat /\ events[k].first \in Nat
      BY <1>1 DEF Event
    <3>3. \A i \in DOMAIN log'[l] : log'[l][i].last \in Nat
      <4>1. log'[l] \in Seq(Event)
        BY <2>2 DEF LogOk
      <4>2. \A i \in DOMAIN log'[l] : log'[l][i] \in Event
        BY <4>1, ElementOfSeq, LenProperties
      <4>3. QED
        BY <4>2 DEF Event
    <3>4. QED
      BY <2>2, <3>1, <3>2, <3>3
  <2>4. \A c \in Listeners : LogBehindCur(c)'
    BY <1>1, <1>3, <2>1, <2>2, <2>3 DEF LogBehindCur, Called
  <2>5. QED
    BY <1>3, <1>4, <2>2, <2>4 DEF CurOk
<1>7. QED
  BY <1>5, <1>6

(* An event sequence at or below a frontier is at or below a later one. *)
LEMMA BetweenMonotonic ==
  ASSUME NEW s \in Seq(Event), NEW f \in Nat, NEW g \in Nat, f <= g,
         EventsBetween(s, 0, f)
  PROVE  EventsBetween(s, 0, g)
<1>1. \A k \in DOMAIN s : s[k].last \in Nat
  <2>1. \A k \in DOMAIN s : s[k] \in Event
    BY ElementOfSeq, LenProperties
  <2>2. QED
    BY <2>1 DEF Event
<1>2. QED
  BY <1>1 DEF EventsBetween

LEMMA LogMonotonic ==
  ASSUME NEW f \in Nat, NEW g \in Nat, f <= g, LogOk(f)
  PROVE  LogOk(g)
BY BetweenMonotonic DEF LogOk

(* Shifting a batch moves the frontier to the batch's last event. *)
LEMMA TakeBatchOk ==
  ASSUME NEW batches \in Seq(Batch), batches # <<>>,
         NEW f \in Nat, NEW hi \in Nat, f <= hi,
         BatchesBetween(batches, f, hi), LogOk(f),
         NEW audience \in SUBSET Listeners,
         TakeBatch(batches, audience)
  PROVE  /\ pending' \in Seq(Batch)
         /\ DrainTyped'
         /\ cur' # <<>>
         /\ \E g \in f .. hi :
              BatchesBetween(pending', g, hi) /\ LogOk(g)' /\ CurOk(g)'
<1> DEFINE batch == Head(batches)
           evs == batch.events
           m == Len(evs)
           g == evs[m].last
<1>1. /\ 1 \in DOMAIN batches /\ batch = batches[1] /\ batch \in Batch
      /\ Tail(batches) \in Seq(Batch)
      /\ Len(batches) \in Nat
      /\ DOMAIN batches = 1 .. Len(batches)
      /\ DOMAIN Tail(batches) = 1 .. Len(batches) - 1
      /\ \A b \in 1 .. Len(batches) - 1 : Tail(batches)[b] = batches[b + 1]
  <2>1. /\ Tail(batches) \in Seq(Batch)
        /\ Len(Tail(batches)) = Len(batches) - 1
        /\ \A b \in 1 .. Len(Tail(batches)) : Tail(batches)[b] = batches[b + 1]
    BY HeadTailProperties
  <2>2. Len(batches) \in Nat /\ DOMAIN batches = 1 .. Len(batches) /\ Len(batches) # 0
    BY LenProperties, EmptySeq
  <2>3. DOMAIN Tail(batches) = 1 .. Len(Tail(batches))
    BY <2>1, LenProperties
  <2>4. batch = batches[1] /\ 1 \in DOMAIN batches
    BY <2>2
  <2>5. QED
    BY <2>1, <2>2, <2>3, <2>4, ElementOfSeq
<1>2. /\ evs \in Seq(Event) /\ evs # <<>> /\ batch.persist \in BOOLEAN
      /\ EventsBetween(evs, f, hi)
  BY <1>1 DEF Batch, BatchesBetween
<1>3. m \in DOMAIN evs /\ DOMAIN evs = 1 .. m /\ m \in Nat \ {0}
  BY <1>2, LenProperties, EmptySeq
<1>4. \A k \in DOMAIN evs : evs[k] \in Event /\ evs[k].first \in Nat \ {0} /\ evs[k].last \in Nat
  <2>1. \A k \in DOMAIN evs : evs[k] \in Event
    BY <1>2, ElementOfSeq, LenProperties
  <2>2. QED
    BY <2>1 DEF Event
<1>5. g \in f .. hi
  BY <1>2, <1>3, <1>4 DEF EventsBetween
<1>6. EventsBetween(evs, 0, g)
  <2>1. \A k \in DOMAIN evs : k < m => evs[k].last < evs[m].first /\ evs[m].first <= g
    BY <1>2, <1>3 DEF EventsBetween
  <2>2. \A k \in DOMAIN evs : evs[k].last <= g
    BY <1>3, <1>4, <2>1
  <2> HIDE DEF evs, g
  <2>3. QED
    BY <1>2, <1>4, <2>2 DEF EventsBetween
<1>7. \A b \in DOMAIN batches : batches[b].events # <<>> /\ EventsBetween(batches[b].events, f, hi)
  BY DEF BatchesBetween
<1>8. pending' = Tail(batches)
  BY DEF TakeBatch
<1>9. BatchesBetween(Tail(batches), g, hi)
  <2>1. ASSUME NEW b \in DOMAIN Tail(batches)
        PROVE  /\ Tail(batches)[b].events # <<>>
               /\ EventsBetween(Tail(batches)[b].events, g, hi)
    <3>1. b + 1 \in DOMAIN batches /\ Tail(batches)[b] = batches[b + 1] /\ 1 < b + 1
      BY <1>1
    <3>2. \A k \in DOMAIN batches[b + 1].events : g < batches[b + 1].events[k].first
      BY <1>1, <1>3, <3>1 DEF BatchesBetween
    <3>3. QED
      BY <1>7, <3>1, <3>2 DEF EventsBetween
  <2>2. ASSUME NEW b \in DOMAIN Tail(batches), NEW c \in DOMAIN Tail(batches), b < c
        PROVE  \A j \in DOMAIN Tail(batches)[b].events, k \in DOMAIN Tail(batches)[c].events :
                 Tail(batches)[b].events[j].last < Tail(batches)[c].events[k].first
    <3>1. /\ b + 1 \in DOMAIN batches /\ Tail(batches)[b] = batches[b + 1]
          /\ c + 1 \in DOMAIN batches /\ Tail(batches)[c] = batches[c + 1]
          /\ b + 1 < c + 1
      BY <1>1, <2>2
    <3>2. QED
      BY <3>1 DEF BatchesBetween
  <2>3. QED
    BY <2>1, <2>2 DEF BatchesBetween
<1>10. LogOk(g)
  BY <1>5, LogMonotonic
<1>11. \A l \in Listeners : \A i \in DOMAIN log[l], k \in DOMAIN evs :
         log[l][i].last < evs[k].first
  <2> SUFFICES ASSUME NEW l \in Listeners, NEW i \in DOMAIN log[l], NEW k \in DOMAIN evs
               PROVE  log[l][i].last < evs[k].first
    OBVIOUS
  <2>1. log[l] \in Seq(Event) /\ log[l][i].last <= f
    BY DEF LogOk, EventsBetween
  <2>2. log[l][i] \in Event
    BY <2>1, ElementOfSeq, LenProperties
  <2>3. f < evs[k].first
    BY <1>2 DEF EventsBetween
  <2>4. QED
    BY <1>4, <2>1, <2>2, <2>3 DEF Event
<1>12. LogOk(g)' /\ CurOk(g)' /\ DrainTyped' /\ cur' # <<>>
  <2> HIDE DEF g, evs, m
  <2>1. CASE batch.persist
    <3>1. /\ phase' = "persist" /\ cur' = evs /\ calling' = Nobody
          /\ todo' = {} /\ log' = log
      BY <2>1 DEF TakeBatch, evs
    <3>2. QED
      BY <1>2, <1>6, <1>10, <1>11, <3>1
      DEF LogOk, CurOk, LogBehindCur, Called, DrainTyped, Phases
  <2>2. CASE ~batch.persist
    <3>1. StartEmit(evs, audience)
      BY <2>2 DEF TakeBatch, evs
    <3>2. g \in Nat
      BY <1>5
    <3>3. cur' = evs
      BY <3>1 DEF StartEmit
    <3>4. QED
      BY <1>2, <1>6, <1>10, <1>11, <3>1, <3>2, <3>3, StartEmitOk
  <2>3. QED
    BY <2>1, <2>2
<1>13. QED
  BY <1>1, <1>5, <1>8, <1>9, <1>12

(* The ordering half of the inductive invariant, at a given frontier. *)
Placed(f) ==
  /\ BatchesBetween(pending, f, Len(sent))
  /\ LogOk(f)
  /\ CurOk(f)

(* The inductive invariant, in the form the lemmas need. *)
IInv ==
  /\ TypeOK
  /\ DrainInv
  /\ OrderInv

LEMMA PlacedSomewhere ==
  ASSUME TypeOK, DrainInv
  PROVE  OrderInv <=> \E f \in 0 .. Len(sent) : Placed(f)
<1>1. ASSUME NEW f \in 0 .. Len(sent)
      PROVE  Placed(f) <=>
               /\ BatchesBetween(pending, f, Len(sent))
               /\ EventsBetween(cur, 0, f)
               /\ \A l \in Listeners : EventsBetween(log[l], 0, f) /\ LogBehindCur(l)
  <2>1. /\ log \in [Listeners -> Seq(Event)]
        /\ cur # <<>> <=> phase \in {"persist", "emit"}
        /\ phase = "persist" => todo = {} /\ calling = Nobody
    BY DEF TypeOK, DrainInv
  <2>2. LogOk(f) <=> \A l \in Listeners : EventsBetween(log[l], 0, f)
    BY <2>1 DEF LogOk
  <2>3. CurOk(f) <=> EventsBetween(cur, 0, f) /\ \A l \in Listeners : LogBehindCur(l)
    BY <2>1 DEF CurOk
  <2>4. QED
    BY <2>2, <2>3 DEF Placed
<1>2. QED
  BY <1>1, Zenon DEF OrderInv

(* The rest of a batch after its first event. *)
LEMMA RestOk ==
  ASSUME NEW f \in Nat, LogOk(f), CurOk(f), cur \in Seq(Event), Len(cur) > 1,
         phase = "emit", todo = {}
  PROVE  /\ Tail(cur) \in Seq(Event) /\ Tail(cur) # <<>>
         /\ EventsBetween(Tail(cur), 0, f)
         /\ \A l \in Listeners : \A i \in DOMAIN log[l], k \in DOMAIN Tail(cur) :
              log[l][i].last < Tail(cur)[k].first
<1>1. cur # <<>> /\ Len(cur) \in Nat /\ DOMAIN cur = 1 .. Len(cur)
  BY LenProperties, EmptySeq
<1>2. /\ Tail(cur) \in Seq(Event)
      /\ Len(Tail(cur)) = Len(cur) - 1
      /\ \A k \in 1 .. Len(Tail(cur)) : Tail(cur)[k] = cur[k + 1]
  BY <1>1, HeadTailProperties
<1>3. DOMAIN Tail(cur) = 1 .. Len(cur) - 1 /\ Tail(cur) # <<>>
  <2>1. DOMAIN Tail(cur) = 1 .. Len(Tail(cur))
    BY <1>2, LenProperties
  <2>2. Len(Tail(cur)) # 0
    <3>1. \A n \in Nat : n > 1 => n - 1 # 0
      OBVIOUS
    <3>2. Len(cur) \in Nat /\ Len(cur) > 1 /\ Len(Tail(cur)) = Len(cur) - 1
      BY <1>1, <1>2, Zenon
    <3> DEFINE n == Len(cur)
               t == Len(Tail(cur))
    <3> HIDE DEF n, t
    <3>3. n \in Nat /\ n > 1 /\ t = n - 1
      BY <3>2, Zenon DEF n, t
    <3>4. t # 0
      BY <3>1, <3>3
    <3>5. QED
      BY <3>4 DEF t
  <2>3. Tail(cur) # <<>>
    BY <1>2, <2>2, EmptySeq
  <2>4. QED
    BY <1>2, <2>1, <2>3
<1>4. \A k \in DOMAIN Tail(cur) :
        /\ k + 1 \in DOMAIN cur /\ k + 1 > 1
        /\ Tail(cur)[k] = cur[k + 1]
  BY <1>1, <1>2, <1>3
<1>5. EventsBetween(Tail(cur), 0, f)
  <2>1. EventsBetween(cur, 0, f)
    BY DEF CurOk
  <2>2. \A j, k \in DOMAIN Tail(cur) : j < k => j + 1 < k + 1
    BY <1>3
  <2>3. QED
    BY <1>4, <2>1, <2>2 DEF EventsBetween
<1>6. QED
  BY <1>2, <1>3, <1>4, <1>5 DEF CurOk, LogBehindCur

(* The drain leaves its loop. *)
LEMMA LeaveLoopOk ==
  ASSUME NEW f \in Nat, LogOk(f), LeaveLoop, UNCHANGED log
  PROVE  LogOk(f)' /\ CurOk(f)' /\ DrainTyped' /\ phase' # "idle"
BY DEF LeaveLoop, LogOk, CurOk, EventsBetween, LogBehindCur, DrainTyped, Phases

(* Going on after an event has been emitted. *)
LEMMA NextEventOk ==
  ASSUME TypeOK, NEW f \in 0 .. Len(sent), Placed(f),
         phase = "emit", todo = {}, NextEvent
  PROVE  /\ pending' \in Seq(Batch)
         /\ DrainTyped'
         /\ phase' # "idle"
         /\ \E g \in f .. Len(sent) :
              BatchesBetween(pending', g, Len(sent)) /\ LogOk(g)' /\ CurOk(g)'
<1>1. /\ f \in Nat /\ Len(sent) \in Nat /\ f <= Len(sent) /\ f \in f .. Len(sent)
      /\ cur \in Seq(Event) /\ pending \in Seq(Batch) /\ listeners \in SUBSET Listeners
      /\ BatchesBetween(pending, f, Len(sent)) /\ LogOk(f) /\ CurOk(f)
  BY LenProperties DEF TypeOK, Placed
<1>2. CASE Len(cur) > 1 /\ StartEmit(Tail(cur), listeners) /\ UNCHANGED pending
  <2>1. LogOk(f)' /\ CurOk(f)' /\ DrainTyped'
    BY <1>1, <1>2, RestOk, StartEmitOk
  <2>2. phase' = "emit"
    BY <1>2 DEF StartEmit
  <2>3. QED
    BY <1>1, <1>2, <2>1, <2>2
<1>3. CASE pending # <<>> /\ TakeBatch(pending, listeners)
  <2>1. phase' # "idle"
    BY <1>3 DEF TakeBatch, StartEmit
  <2>2. QED
    BY <1>1, <1>3, <2>1, TakeBatchOk
<1>4. CASE LeaveLoop /\ UNCHANGED <<pending, log>>
  BY <1>1, <1>4, LeaveLoopOk
<1>5. QED
  BY <1>2, <1>3, <1>4 DEF NextEvent

(* queueDriverEvents, whoever it is called by. *)
LEMMA QueueOk ==
  ASSUME IInv, NEW call \in Calls, NEW audience \in SUBSET Listeners,
         Queue(call, audience)
  PROVE  /\ sent' \in Seq(Streams)
         /\ pending' \in Seq(Batch)
         /\ drainActive' = TRUE
         /\ phase' # "idle"
         /\ DrainTyped'
         /\ \E g \in 0 .. Len(sent') : Placed(g)'
<1> DEFINE batches == EnqueueCall(pending, call, Len(sent))
<1>1. PICK f \in 0 .. Len(sent) : Placed(f)
  BY PlacedSomewhere DEF IInv
<1>2. /\ pending \in Seq(Batch) /\ Len(sent) \in Nat /\ sent \in Seq(Streams)
      /\ f \in Nat /\ f <= Len(sent)
      /\ BatchesBetween(pending, f, Len(sent)) /\ LogOk(f) /\ CurOk(f)
  BY <1>1, LenProperties DEF IInv, TypeOK, Placed
<1>3. /\ batches \in Seq(Batch) /\ batches # <<>>
      /\ Len(sent) + Len(call.streams) \in Nat
      /\ Len(sent) < Len(sent) + Len(call.streams)
      /\ BatchesBetween(batches, f, Len(sent) + Len(call.streams))
  BY <1>2, EnqueueCallOrdered
<1>4. sent' = sent \o call.streams /\ call.streams \in Seq(Streams)
  BY CallsTyped DEF Queue
<1>5. sent' \in Seq(Streams) /\ Len(sent') = Len(sent) + Len(call.streams)
  BY <1>2, <1>4, ConcatProperties
<1> HIDE DEF batches
<1>6. CASE drainActive /\ pending' = batches
           /\ UNCHANGED <<drainActive, phase, cur, calling, todo, log>>
  <2>1. phase' # "idle" /\ DrainTyped'
    BY <1>6 DEF IInv, TypeOK, DrainInv, DrainTyped
  <2>2. LogOk(f)' /\ CurOk(f)'
    BY <1>2, <1>6 DEF LogOk, CurOk, LogBehindCur, Called
  <2>3. Placed(f)' /\ f \in 0 .. Len(sent')
    BY <1>2, <1>3, <1>5, <1>6, <2>2 DEF Placed
  <2>4. QED
    BY <1>3, <1>5, <1>6, <2>1, <2>3
<1>7. CASE drainActive' = TRUE /\ TakeBatch(batches, audience)
  <2>1. /\ pending' \in Seq(Batch)
        /\ DrainTyped'
        /\ \E g \in f .. Len(sent') :
             BatchesBetween(pending', g, Len(sent')) /\ LogOk(g)' /\ CurOk(g)'
    BY <1>2, <1>3, <1>5, <1>7, TakeBatchOk
  <2>2. phase' # "idle"
    BY <1>7 DEF TakeBatch, StartEmit
  <2>3. PICK g \in f .. Len(sent') :
          BatchesBetween(pending', g, Len(sent')) /\ LogOk(g)' /\ CurOk(g)'
    BY <2>1
  <2>4. Placed(g)' /\ g \in 0 .. Len(sent')
    BY <1>2, <1>3, <1>5, <2>3 DEF Placed
  <2>5. QED
    BY <1>5, <1>7, <2>1, <2>2, <2>4
<1>8. QED
  BY <1>6, <1>7 DEF Queue, batches

------------------------------------------------------------------------------
(* The invariant holds at first and is kept by every step. *)

LEMMA InitIInv == Init => IInv
<1> SUFFICES ASSUME Init PROVE IInv
  OBVIOUS
<1>1. TypeOK
  <2>1. sent \in Seq(Streams) /\ pending \in Seq(Batch) /\ cur \in Seq(Event)
    BY DEF Init
  <2>2. log \in [Listeners -> Seq(Event)] /\ since \in [Listeners -> Int]
    BY DEF Init
  <2>3. QED
    BY <2>1, <2>2 DEF Init, TypeOK, Phases
<1>2. DrainInv
  BY DEF Init, DrainInv
<1>3. OrderInv
  <2>1. Len(sent) = 0 /\ DOMAIN pending = {} /\ DOMAIN cur = {}
        /\ \A l \in Listeners : DOMAIN log[l] = {}
    BY DEF Init
  <2>2. 0 \in 0 .. Len(sent)
    BY <2>1
  <2>3. BatchesBetween(pending, 0, Len(sent)) /\ EventsBetween(cur, 0, 0)
    BY <2>1 DEF BatchesBetween, EventsBetween
  <2>4. \A l \in Listeners : EventsBetween(log[l], 0, 0) /\ LogBehindCur(l)
    BY <2>1 DEF EventsBetween, LogBehindCur
  <2>5. QED
    BY <2>2, <2>3, <2>4 DEF OrderInv
<1>4. QED
  BY <1>1, <1>2, <1>3 DEF IInv

(* The invariant from what the lemmas about steps conclude. *)
LEMMA PutTogether ==
  ASSUME sent' \in Seq(Streams), pending' \in Seq(Batch), DrainTyped',
         drainActive' = (phase' # "idle"), pending' # <<>> => drainActive',
         \E g \in 0 .. Len(sent') : Placed(g)',
         listeners' \subseteq Listeners, since' \in [Listeners -> Int],
         lost' \subseteq Nat, failures' \in Nat, awaitedUpTo' \in Nat
  PROVE  IInv'
<1>1. PICK g \in 0 .. Len(sent') : Placed(g)'
  OBVIOUS
<1>2. /\ BatchesBetween(pending, g, Len(sent))'
      /\ LogOk(g)' /\ CurOk(g)'
  BY <1>1 DEF Placed
<1>3. log' \in [Listeners -> Seq(Event)]
  BY <1>2 DEF LogOk
<1>4. TypeOK'
  BY <1>3 DEF TypeOK, DrainTyped
<1>5. DrainInv'
  BY <1>2 DEF DrainInv, CurOk, DrainTyped
<1>6. EventsBetween(cur, 0, g)'
      /\ (\A l \in Listeners : EventsBetween(log[l], 0, g) /\ LogBehindCur(l))'
  BY <1>2, Zenon DEF LogOk, CurOk
<1>7. OrderInv'
  BY <1>1, <1>2, <1>6, Zenon DEF OrderInv
<1>8. QED
  BY <1>4, <1>5, <1>7 DEF IInv

(* The numbers of a sequence of events are numbers. *)
LEMMA NumbersTyped ==
  ASSUME NEW events \in Seq(Event)
  PROVE  NumbersOf(events) \subseteq Nat
<1>1. \A i \in DOMAIN events : events[i] \in Event
  BY ElementOfSeq, LenProperties
<1>2. \A i \in DOMAIN events : Numbers(events[i]) \subseteq Nat
  BY <1>1 DEF Numbers, Event
<1>3. QED
  BY <1>2 DEF NumbersOf

(* A step that moves the drain along within its loop. *)
LEMMA LoopStepKeeps ==
  ASSUME IInv, UNCHANGED <<sent, drainActive, listeners, since, lost, failures, awaitedUpTo>>,
         drainActive, phase' # "idle", pending' \in Seq(Batch), DrainTyped',
         \E g \in 0 .. Len(sent) :
           BatchesBetween(pending', g, Len(sent)) /\ LogOk(g)' /\ CurOk(g)'
  PROVE  IInv'
<1>1. \E g \in 0 .. Len(sent') : Placed(g)'
  BY DEF Placed
<1>2. /\ sent' \in Seq(Streams) /\ listeners' \subseteq Listeners
      /\ since' \in [Listeners -> Int] /\ lost' \subseteq Nat /\ failures' \in Nat
      /\ awaitedUpTo' \in Nat /\ drainActive' = TRUE
  BY DEF IInv, TypeOK
<1>3. QED
  BY <1>1, <1>2, PutTogether

LEMMA NextIInv == IInv /\ [Next]_vars => IInv'
<1> SUFFICES ASSUME IInv, [Next]_vars PROVE IInv'
  OBVIOUS
<1>1. PICK f \in 0 .. Len(sent) : Placed(f)
  BY PlacedSomewhere DEF IInv
<1>2. /\ pending \in Seq(Batch) /\ Len(sent) \in Nat /\ sent \in Seq(Streams)
      /\ f \in Nat /\ f <= Len(sent)
      /\ BatchesBetween(pending, f, Len(sent)) /\ LogOk(f) /\ CurOk(f)
      /\ DrainTyped /\ cur \in Seq(Event) /\ drainActive \in BOOLEAN
      /\ listeners \subseteq Listeners /\ since \in [Listeners -> Int]
      /\ lost \subseteq Nat /\ failures \in Nat /\ awaitedUpTo \in Nat
  BY <1>1, LenProperties DEF IInv, TypeOK, DrainInv, Placed, DrainTyped
<1>3. /\ drainActive <=> phase # "idle"
      /\ pending # <<>> => drainActive
      /\ cur # <<>> <=> phase \in {"persist", "emit"}
      /\ phase = "persist" => todo = {} /\ calling = Nobody
  BY DEF IInv, DrainInv
<1>4. ASSUME NEW call \in Calls, QueueDriverEvents(call)
      PROVE  IInv'
  <2>1. Queue(call, listeners) /\ UNCHANGED <<listeners, since, lost, failures, awaitedUpTo>>
    BY <1>4 DEF QueueDriverEvents
  <2>2. QED
    BY <1>2, <2>1, QueueOk, PutTogether
<1>5. ASSUME NEW l \in Listeners, Subscribe(l)
      PROVE  IInv'
  <2> DEFINE call == [streams |-> <<SessionUpdated>>, persist |-> FALSE]
  <2>1. call \in Calls
    BY DEF Calls, Streams, Replaceable
  <2>2. /\ Queue(call, listeners') /\ UNCHANGED <<lost, failures, awaitedUpTo>>
        /\ listeners' = listeners \cup {l}
        /\ since' = [since EXCEPT ![l] = Len(sent)]
    BY <1>5 DEF Subscribe
  <2>3. listeners' \subseteq Listeners /\ since' \in [Listeners -> Int]
    BY <1>2, <2>2
  <2> HIDE DEF call
  <2>4. QED
    BY <1>2, <2>1, <2>2, <2>3, QueueOk, PutTogether
<1>6. ASSUME NEW l \in Listeners, Unsubscribe(l)
      PROVE  IInv'
  <2>1. /\ UNCHANGED <<mailbox, since, log, lost, failures, awaitedUpTo>>
        /\ listeners' \subseteq Listeners
    BY <1>2, <1>6 DEF Unsubscribe
  <2>2. QED
    BY <2>1 DEF mailbox, IInv, TypeOK, DrainInv, OrderInv, LogBehindCur, Called
<1>7. ASSUME PersistDone
      PROVE  IInv'
  <2>1. /\ phase = "persist" /\ StartEmit(cur, listeners)
        /\ UNCHANGED <<sent, pending, drainActive, listeners, since, lost, failures, awaitedUpTo>>
    BY <1>7 DEF PersistDone
  <2>2. \A l \in Listeners : \A i \in DOMAIN log[l], k \in DOMAIN cur :
          log[l][i].last < cur[k].first
    BY <1>2, <2>1 DEF CurOk, LogBehindCur, Called
  <2>3. EventsBetween(cur, 0, f) /\ cur # <<>>
    BY <1>2, <1>3, <2>1 DEF CurOk
  <2>4. LogOk(f)' /\ CurOk(f)' /\ DrainTyped'
    BY <1>2, <2>1, <2>2, <2>3, StartEmitOk
  <2>5. phase' # "idle"
    BY <2>1 DEF StartEmit
  <2>6. QED
    BY <1>2, <1>3, <2>1, <2>4, <2>5, LoopStepKeeps
<1>8. ASSUME ListenerReturns
      PROVE  IInv'
  <2>1. /\ phase = "emit" /\ calling # Nobody
        /\ UNCHANGED <<sent, drainActive, listeners, since, lost, failures, awaitedUpTo>>
    BY <1>8 DEF ListenerReturns
  <2>2. CASE todo = {} /\ NextEvent
    <3>1. /\ pending' \in Seq(Batch) /\ DrainTyped' /\ phase' # "idle"
          /\ \E g \in f .. Len(sent) :
               BatchesBetween(pending', g, Len(sent)) /\ LogOk(g)' /\ CurOk(g)'
      BY <1>1, <2>1, <2>2, NextEventOk DEF IInv
    <3>2. QED
      BY <1>2, <1>3, <2>1, <3>1, LoopStepKeeps
  <2>3. ASSUME NEW l \in todo,
               calling' = l, todo' = todo \ {l},
               log' = [log EXCEPT ![l] = Append(@, Head(cur))],
               UNCHANGED <<pending, phase, cur>>
        PROVE  IInv'
    <3>1. /\ l \in Listeners /\ cur # <<>>
          /\ 1 \in DOMAIN cur /\ Head(cur) = cur[1] /\ cur[1] \in Event
      BY <1>2, <1>3, <2>1, LenProperties, EmptySeq, ElementOfSeq DEF DrainTyped
    <3>2. cur[1].first <= cur[1].last /\ cur[1].last <= f
      BY <1>2, <3>1 DEF CurOk, EventsBetween
    <3>3. \A i \in DOMAIN log[l] : log[l][i].last < cur[1].first
      BY <1>2, <3>1, <2>1 DEF CurOk, LogBehindCur, Called
    <3>4. /\ LogOk(f)'
          /\ \A i \in DOMAIN log'[l] : log'[l][i].last <= cur[1].last
          /\ \A k \in Listeners : k # l => log'[k] = log[k]
      <4>1. log' = [log EXCEPT ![l] = Append(@, cur[1])]
        BY <2>3, <3>1
      <4>2. f \in Nat /\ LogOk(f) /\ l \in Listeners /\ cur[1] \in Event
        BY <1>2, <3>1
      <4>3. QED
        BY <4>1, <4>2, <3>2, <3>3, CallListener
    <3>5. \A k \in DOMAIN cur : cur[k] \in Event /\ k \in Nat
      BY <1>2, ElementOfSeq, LenProperties
    <3>6. ASSUME NEW k \in DOMAIN cur, k > 1, NEW i \in DOMAIN log'[l]
          PROVE  log'[l][i].last < cur[k].first
      <4>1. cur[1].last < cur[k].first
        BY <1>2, <3>1, <3>5, <3>6 DEF CurOk, EventsBetween
      <4>2. log'[l][i] \in Event
        BY <3>1, <3>4, ElementOfSeq, LenProperties DEF LogOk
      <4>3. cur[1].last \in Nat /\ cur[k].first \in Nat /\ log'[l][i].last \in Nat
        BY <3>1, <3>5, <4>2 DEF Event
      <4>4. QED
        BY <3>4, <4>1, <4>3
    <3>7. \A c \in Listeners : LogBehindCur(c)'
      <4>1. LogBehindCur(l)'
        BY <2>1, <2>3, <3>5, <3>6 DEF LogBehindCur, Called
      <4>2. \A c \in Listeners : c # l => LogBehindCur(c)'
        BY <1>2, <2>1, <2>3, <3>4 DEF LogBehindCur, Called, CurOk
      <4>3. QED
        BY <4>1, <4>2
    <3>8. CurOk(f)'
      BY <1>2, <2>1, <2>3, <3>1, <3>7 DEF CurOk
    <3>9. DrainTyped' /\ phase' # "idle" /\ pending' \in Seq(Batch)
      BY <1>2, <1>3, <2>1, <2>3, <3>1, NobodyIsNoListener DEF DrainTyped
    <3>10. QED
      BY <1>2, <1>3, <2>1, <2>3, <3>4, <3>8, <3>9, LoopStepKeeps
  <2>4. QED
    BY <1>8, <2>2, <2>3 DEF ListenerReturns
<1>9. ASSUME EmittedToNobody
      PROVE  IInv'
  <2>1. /\ phase = "emit" /\ calling = Nobody /\ NextEvent
        /\ UNCHANGED <<sent, drainActive, listeners, since, lost, failures, awaitedUpTo>>
    BY <1>9 DEF EmittedToNobody
  <2>2. todo = {}
    BY <2>1 DEF IInv, DrainInv
  <2>3. /\ pending' \in Seq(Batch) /\ DrainTyped' /\ phase' # "idle"
        /\ \E g \in f .. Len(sent) :
             BatchesBetween(pending', g, Len(sent)) /\ LogOk(g)' /\ CurOk(g)'
    BY <1>1, <2>1, <2>2, NextEventOk DEF IInv
  <2>4. QED
    BY <1>2, <1>3, <2>1, <2>3, LoopStepKeeps
<1>10. ASSUME DrainThrows
       PROVE  IInv'
  <2>1. /\ LeaveLoop /\ phase # "idle"
        /\ failures' = failures + 1 /\ lost' = lost \cup NumbersOf(cur)
        /\ UNCHANGED <<sent, pending, drainActive, listeners, since, log, awaitedUpTo>>
    BY <1>10 DEF DrainThrows
  <2>2. LogOk(f)' /\ CurOk(f)' /\ DrainTyped' /\ phase' # "idle"
    BY <1>2, <2>1, LeaveLoopOk
  <2>3. Placed(f)' /\ f \in 0 .. Len(sent')
    BY <1>2, <2>1, <2>2 DEF Placed
  <2>4. lost' \subseteq Nat /\ failures' \in Nat
    <3>1. NumbersOf(cur) \subseteq Nat
      BY <1>2, NumbersTyped
    <3>2. lost \subseteq Nat /\ failures \in Nat
      BY <1>2
    <3>3. lost' = lost \cup NumbersOf(cur) /\ failures' = failures + 1
      BY <2>1
    <3>4. lost' \subseteq Nat
      BY <3>1, <3>2, <3>3
    <3>5. QED
      BY <3>2, <3>3, <3>4
  <2>5. QED
    BY <1>2, <1>3, <2>1, <2>2, <2>3, <2>4, PutTogether
<1>11. ASSUME Finally
       PROVE  IInv'
  <2>1. /\ phase = "settling" /\ awaitedUpTo' = 0
        /\ UNCHANGED <<sent, listeners, since, lost, failures>>
    BY <1>11 DEF Finally
  <2>2. CASE pending # <<>> /\ drainActive' = TRUE /\ TakeBatch(pending, listeners)
    <3>1. /\ pending' \in Seq(Batch)
          /\ DrainTyped'
          /\ \E g \in f .. Len(sent) :
               BatchesBetween(pending', g, Len(sent)) /\ LogOk(g)' /\ CurOk(g)'
      BY <1>2, <2>2, TakeBatchOk
    <3>2. phase' # "idle"
      BY <2>2 DEF TakeBatch, StartEmit
    <3>3. \E g \in 0 .. Len(sent') : Placed(g)'
      BY <1>2, <2>1, <3>1 DEF Placed
    <3>4. QED
      BY <1>2, <2>1, <2>2, <3>1, <3>2, <3>3, PutTogether
  <2>3. CASE /\ pending = <<>> /\ drainActive' = FALSE /\ phase' = "idle"
             /\ UNCHANGED <<pending, cur, calling, todo, log>>
    <3>1. LogOk(f)' /\ CurOk(f)'
      BY <1>2, <1>3, <2>1, <2>3 DEF LogOk, CurOk, LogBehindCur, Called
    <3>2. Placed(f)' /\ f \in 0 .. Len(sent') /\ DrainTyped'
      BY <1>2, <2>1, <2>3, <3>1 DEF Placed, DrainTyped, Phases
    <3>3. QED
      BY <1>2, <2>1, <2>3, <3>2, PutTogether
  <2>4. QED
    BY <2>2, <2>3, <1>11 DEF Finally
<1>12. ASSUME AwaitQueue \/ UNCHANGED vars
       PROVE  IInv'
  <2>1. UNCHANGED <<mailbox, listeners, since, log, lost, failures>>
        /\ awaitedUpTo' \in Nat
    BY <1>2, <1>12 DEF AwaitQueue, vars
  <2>2. QED
    BY <2>1 DEF mailbox, IInv, TypeOK, DrainInv, OrderInv, LogBehindCur, Called
<1>13. QED
  BY <1>4, <1>5, <1>6, <1>7, <1>8, <1>9, <1>10, <1>11, <1>12 DEF Next

------------------------------------------------------------------------------
(* The invariant holds of every behaviour. *)
THEOREM Invariance == Spec => []IInv
BY InitIInv, NextIInv, PTL DEF Spec

(* Every variable of the mailbox keeps its type: the batches are sequences *)
(* of events, whatever was merged into them and in whatever order.         *)
THEOREM TypeCorrect == Spec => []TypeOK
<1>1. IInv => TypeOK
  BY DEF IInv
<1>2. QED
  BY <1>1, Invariance, PTL

(* No lost wake-up: queued events always have a drain that will come for   *)
(* them, also when they were queued in the window between the end of the   *)
(* drain's loop and its finally handler, and after a drain that threw.     *)
THEOREM NothingStranded == Spec => []NoStrandedEvents
<1>1. IInv => NoStrandedEvents
  BY DEF IInv, DrainInv, NoStrandedEvents
<1>2. QED
  BY <1>1, Invariance, PTL

(* Every listener is called with events in the order they were queued and  *)
(* never twice with the same: coalescing, batches, failures and            *)
(* subscriptions that come and go reorder and repeat nothing.              *)
THEOREM InOrder == Spec => []DeliveredInOrder
<1>1. IInv => DeliveredInOrder
  BY DEF IInv, OrderInv, EventsBetween, DeliveredInOrder
<1>2. QED
  BY <1>1, Invariance, PTL

------------------------------------------------------------------------------
(* Ordered delivery is implemented. *)

(* A step calls at most one listener, with one event. *)
OneCall ==
  \/ UNCHANGED log
  \/ \E l \in Listeners : \E e : log' = [log EXCEPT ![l] = Append(@, e)]

LEMMA StartEmitCalls ==
  ASSUME NEW events, NEW audience \in SUBSET Listeners, StartEmit(events, audience)
  PROVE  OneCall
BY DEF StartEmit, OneCall

LEMMA TakeBatchCalls ==
  ASSUME NEW batches, NEW audience \in SUBSET Listeners, TakeBatch(batches, audience)
  PROVE  OneCall
BY StartEmitCalls DEF TakeBatch, OneCall

LEMMA NextEventCalls ==
  ASSUME listeners \subseteq Listeners, NextEvent
  PROVE  OneCall
BY StartEmitCalls, TakeBatchCalls DEF NextEvent, OneCall

LEMMA QueueCalls ==
  ASSUME sent \in Seq(Streams), NEW call \in Calls, NEW audience \in SUBSET Listeners,
         Queue(call, audience)
  PROVE  OneCall /\ Len(sent') \in {Len(sent) + 1, Len(sent) + 2}
<1>1. OneCall
  BY TakeBatchCalls DEF Queue, OneCall
<1>2. Len(sent') = Len(sent) + Len(call.streams) /\ Len(call.streams) \in {1, 2}
  BY CallsTyped, ConcatProperties DEF Queue
<1>3. QED
  BY <1>1, <1>2

LEMMA StepCalls ==
  ASSUME TypeOK, [Next]_vars
  PROVE  OneCall /\ Len(sent') \in {Len(sent), Len(sent) + 1, Len(sent) + 2}
<1>1. listeners \subseteq Listeners /\ sent \in Seq(Streams) /\ todo \subseteq Listeners
  BY DEF TypeOK
<1>2. ASSUME NEW call \in Calls, QueueDriverEvents(call)
      PROVE  OneCall /\ Len(sent') \in {Len(sent) + 1, Len(sent) + 2}
  BY <1>1, <1>2, QueueCalls DEF QueueDriverEvents
<1>3. ASSUME NEW l \in Listeners, Subscribe(l)
      PROVE  OneCall /\ Len(sent') \in {Len(sent) + 1, Len(sent) + 2}
  <2> DEFINE call == [streams |-> <<SessionUpdated>>, persist |-> FALSE]
  <2>1. call \in Calls
    BY DEF Calls, Streams, Replaceable
  <2>2. Queue(call, listeners') /\ listeners' \in SUBSET Listeners
    BY <1>1, <1>3 DEF Subscribe
  <2> HIDE DEF call
  <2>3. QED
    BY <1>1, <2>1, <2>2, QueueCalls
<1>4. ASSUME NEW l \in Listeners, Unsubscribe(l)
      PROVE  OneCall /\ sent' = sent
  BY <1>4 DEF Unsubscribe, mailbox, OneCall
<1>5. ASSUME PersistDone \/ ListenerReturns \/ EmittedToNobody
      PROVE  OneCall /\ sent' = sent
  <2>1. CASE PersistDone
    BY <1>1, <2>1, StartEmitCalls DEF PersistDone
  <2>2. CASE ListenerReturns
    <3>1. CASE NextEvent
      BY <1>1, <2>2, <3>1, NextEventCalls DEF ListenerReturns
    <3>2. CASE \E l \in todo : log' = [log EXCEPT ![l] = Append(@, Head(cur))]
      BY <1>1, <2>2, <3>2 DEF ListenerReturns, OneCall
    <3>3. QED
      BY <2>2, <3>1, <3>2 DEF ListenerReturns
  <2>3. CASE EmittedToNobody
    BY <1>1, <2>3, NextEventCalls DEF EmittedToNobody
  <2>4. QED
    BY <1>5, <2>1, <2>2, <2>3
<1>6. ASSUME DrainThrows \/ Finally
      PROVE  OneCall /\ sent' = sent
  BY <1>1, <1>6, TakeBatchCalls DEF DrainThrows, Finally, OneCall
<1>7. ASSUME AwaitQueue \/ UNCHANGED vars
      PROVE  OneCall /\ sent' = sent
  BY <1>7 DEF AwaitQueue, vars, mailbox, OneCall
<1>8. QED
  BY <1>2, <1>3, <1>4, <1>5, <1>6, <1>7 DEF Next

(* A listener called with an event is handed its run. *)
LEMMA CallHands ==
  ASSUME IInv, IInv', NEW l \in Listeners, NEW e,
         log' = [log EXCEPT ![l] = Append(@, e)],
         Len(sent') \in {Len(sent), Len(sent) + 1, Len(sent) + 2}
  PROVE  \E run \in [first: 1 .. Len(sent) + 2, last: 1 .. Len(sent) + 2] :
           Abstract!Hand(l, run)
<1> DEFINE n == Len(log[l])
           run == [first |-> e.first, last |-> e.last]
<1>1. /\ log \in [Listeners -> Seq(Event)] /\ log' \in [Listeners -> Seq(Event)]
      /\ log[l] \in Seq(Event) /\ log'[l] = Append(log[l], e)
  BY DEF IInv, TypeOK
<1>2. log[l] \in Seq(Event \cup {e}) /\ \A i \in DOMAIN log[l] : log[l][i] \in Event
  BY <1>1, ElementOfSeq, LenProperties
<1>3. /\ n \in Nat
      /\ DOMAIN log[l] = 1 .. n
      /\ DOMAIN Append(log[l], e) = DOMAIN log[l] \cup {n + 1}
      /\ Append(log[l], e)[n + 1] = e
      /\ \A k \in DOMAIN log[l] : Append(log[l], e)[k] = log[l][k]
  BY <1>2, AppendDomain
<1>4. e \in Event
  <2>1. log'[l] \in Seq(Event)
    BY <1>1
  <2>2. \A i \in DOMAIN log'[l] : log'[l][i] \in Event
    BY <2>1, ElementOfSeq, LenProperties
  <2>3. QED
    BY <1>1, <1>3, <2>2
<1>5. e.first \in Nat \ {0} /\ e.last \in Nat \ {0}
  BY <1>4 DEF Event
<1>6. PICK g \in 0 .. Len(sent') : EventsBetween(log[l], 0, g)'
  BY DEF IInv, OrderInv
<1>7. Len(sent') \in Nat /\ Len(sent) \in Nat
  BY LenProperties DEF IInv, TypeOK
<1>8. e.first <= e.last /\ e.last <= Len(sent')
  BY <1>1, <1>3, <1>5, <1>6, <1>7 DEF EventsBetween
<1>9. \A i \in DOMAIN log[l] : log[l][i].last < e.first
  <2>1. \A i \in DOMAIN log[l] : i \in DOMAIN log'[l] /\ n + 1 \in DOMAIN log'[l] /\ i < n + 1
    BY <1>1, <1>3
  <2>2. QED
    BY <1>1, <1>3, <1>6, <2>1 DEF EventsBetween
<1>10. run \in [first: 1 .. Len(sent) + 2, last: 1 .. Len(sent) + 2]
  <2>1. e.first \in 1 .. Len(sent) + 2 /\ e.last \in 1 .. Len(sent) + 2
    BY <1>5, <1>7, <1>8
  <2>2. QED
    BY <2>1
<1>11. Runs' = [Runs EXCEPT ![l] = Append(@, run)]
  <2> DEFINE RunsOf(s) == [i \in DOMAIN s |-> [first |-> s[i].first, last |-> s[i].last]]
  <2>1. /\ Runs = [k \in Listeners |-> RunsOf(log[k])]
        /\ Runs' = [k \in Listeners |-> RunsOf(log'[k])]
    BY DEF Runs
  <2>2. RunsOf(Append(log[l], e)) = Append(RunsOf(log[l]), run)
    <3>1. RunsOf(log[l]) \in Seq([first: Nat, last: Nat]) /\ Len(RunsOf(log[l])) = n
      <4>1. \A i \in DOMAIN log[l] : log[l][i].first \in Nat /\ log[l][i].last \in Nat
        BY <1>2 DEF Event
      <4>2. \A i \in DOMAIN log[l] :
              [first |-> log[l][i].first, last |-> log[l][i].last] \in [first: Nat, last: Nat]
        BY <4>1
      <4>3. RunsOf(log[l]) \in [1 .. n -> [first: Nat, last: Nat]]
        BY <1>3, <4>2
      <4>4. QED
        BY <1>3, <4>3, IsASeq, LenProperties
    <3>2. run \in [first: Nat, last: Nat]
      BY <1>5
    <3> DEFINE older == RunsOf(log[l])
    <3>3. DOMAIN older = DOMAIN log[l]
          /\ \A k \in DOMAIN log[l] :
               older[k] = [first |-> log[l][k].first, last |-> log[l][k].last]
      OBVIOUS
    <3> HIDE DEF older, run
    <3>4. /\ DOMAIN Append(older, run) = 1 .. n + 1
          /\ Append(older, run)[n + 1] = run
          /\ \A k \in DOMAIN older : Append(older, run)[k] = older[k]
          /\ Append(older, run) \in Seq([first: Nat, last: Nat])
      <4>1. older \in Seq([first: Nat, last: Nat]) /\ Len(older) = n
        BY <3>1 DEF older
      <4>2. QED
        BY <1>3, <3>2, <4>1, AppendProperties, LenProperties
    <3>5. Append(older, run) = [k \in 1 .. n + 1 |-> Append(older, run)[k]]
      BY <3>4, LenProperties
    <3>6. DOMAIN Append(log[l], e) = 1 .. n + 1
      BY <1>3
    <3>7. \A k \in 1 .. n + 1 :
            [first |-> Append(log[l], e)[k].first, last |-> Append(log[l], e)[k].last]
              = Append(older, run)[k]
      <4> TAKE k \in 1 .. n + 1
      <4>1. CASE k = n + 1
        BY <1>3, <3>4, <4>1 DEF run
      <4>2. CASE k \in DOMAIN log[l]
        BY <1>3, <3>3, <3>4, <4>2
      <4>3. k = n + 1 \/ k \in DOMAIN log[l]
        BY <1>3
      <4>4. QED
        BY <4>1, <4>2, <4>3, Zenon
    <3>8. QED
      BY <3>5, <3>6, <3>7 DEF older
  <2>3. \A k \in Listeners : k # l => log'[k] = log[k]
    BY <1>1
  <2> HIDE DEF RunsOf, run
  <2>4. QED
    BY <1>1, <2>1, <2>2, <2>3
<1>12. \A i \in DOMAIN Runs[l] : Runs[l][i].last < run.first
  BY <1>9 DEF Runs
<1> HIDE DEF run
<1>13. Abstract!Hand(l, run)
  <2>1. run.first <= run.last /\ run.last <= Len(sent')
    BY <1>8 DEF run
  <2>2. QED
    BY <1>11, <1>12, <2>1 DEF Abstract!Hand
<1>14. QED
  BY <1>10, <1>13

(* The mailbox implements ordered delivery: whatever is merged, batched,   *)
(* lost or restarted, what listeners see is a step of the abstract         *)
(* specification or no step at all.                                        *)
THEOREM Refinement == Spec => ImplementsOrderedDelivery
<1>1. Init => Abstract!Init
  <2> SUFFICES ASSUME Init PROVE Abstract!Init
    OBVIOUS
  <2>1. ASSUME NEW l \in Listeners
        PROVE  [i \in DOMAIN log[l] |-> [first |-> log[l][i].first, last |-> log[l][i].last]]
                 = <<>>
    <3>1. log[l] = <<>> /\ DOMAIN log[l] = {}
      BY DEF Init
    <3>2. QED
      BY <3>1
  <2>2. Runs = [l \in Listeners |-> <<>>]
    BY <2>1 DEF Runs
  <2>3. Len(sent) = 0
    BY DEF Init
  <2>4. QED
    BY <2>2, <2>3 DEF Abstract!Init
<1>2. IInv /\ IInv' /\ [Next]_vars => [Abstract!Next]_(Abstract!vars)
  <2> SUFFICES ASSUME IInv, IInv', [Next]_vars
               PROVE  [Abstract!Next]_(Abstract!vars)
    OBVIOUS
  <2>1. OneCall /\ Len(sent') \in {Len(sent), Len(sent) + 1, Len(sent) + 2}
    BY StepCalls DEF IInv
  <2>2. CASE UNCHANGED log
    <3>1. Runs' = Runs
      BY <2>2 DEF Runs
    <3>2. QED
      BY <2>1, <3>1 DEF Abstract!Next, Abstract!Offer, Abstract!vars
  <2>3. ASSUME NEW l \in Listeners, NEW e, log' = [log EXCEPT ![l] = Append(@, e)]
        PROVE  Abstract!Next
    <3>1. PICK run \in [first: 1 .. Len(sent) + 2, last: 1 .. Len(sent) + 2] :
            Abstract!Hand(l, run)
      BY <2>1, <2>3, CallHands
    <3>2. QED
      BY <2>1, <3>1 DEF Abstract!Next, Abstract!OfferAndHand, Abstract!Receive
  <2>4. QED
    BY <2>1, <2>2, <2>3 DEF OneCall
<1>3. QED
  BY <1>1, <1>2, Invariance, NextIInv, PTL DEF Spec, Abstract!Spec, ImplementsOrderedDelivery

------------------------------------------------------------------------------
(* Nothing is lost but what went down with a failed batch: which numbers   *)
(* are where, and what becomes of them in each step.                       *)

AllNumbers(batches) == UNION {NumbersOf(batches[b].events) : b \in DOMAIN batches}

(* An event that does not accumulate carries one number, of its stream. *)
EventTrue(event, streams) ==
  event.stream \notin Accumulating =>
    event.first = event.last /\ streams[event.last] = event.stream

BatchesTrue(batches, streams) ==
  \A b \in DOMAIN batches : \A k \in DOMAIN batches[b].events :
    EventTrue(batches[b].events[k], streams)

(* n is among kept, or was replaced by a later event of its stream. *)
CoveredBy(n, kept, streams) ==
  \/ n \in kept
  \/ /\ streams[n] \in Replaceable
     /\ \E later \in kept : later > n /\ streams[later] = streams[n]

Kept(l) == NumbersOf(log[l]) \cup InFlight \cup lost

(* emit has called, or will call, every listener that was there when it    *)
(* began.                                                                  *)
Told ==
  phase = "emit" =>
    \A l \in listeners :
      l \in todo \/ \A n \in Numbers(cur[1]) : n \in NumbersOf(log[l]) \/ n <= since[l]

Whole ==
  /\ BatchesTrue(pending, sent)
  /\ Told
  /\ lost \subseteq 1 .. Len(sent)
  /\ \A l \in listeners : since[l] \in Nat
  /\ Conserved

LEMMA InNumbers ==
  ASSUME NEW events, NEW n
  PROVE  n \in NumbersOf(events) <=> \E k \in DOMAIN events : n \in Numbers(events[k])
BY DEF NumbersOf

LEMMA InAllNumbers ==
  ASSUME NEW batches, NEW n
  PROVE  n \in AllNumbers(batches) <=>
           \E b \in DOMAIN batches : \E k \in DOMAIN batches[b].events :
             n \in Numbers(batches[b].events[k])
BY InNumbers DEF AllNumbers

LEMMA ConservedCovers ==
  Conserved <=> \A l \in listeners : \A n \in since[l] + 1 .. Len(sent) :
                  CoveredBy(n, Kept(l), sent)
BY DEF Conserved, CoveredBy, Kept

LEMMA CoverTransitive ==
  ASSUME NEW n \in Nat, NEW A \in SUBSET Nat, NEW B \in SUBSET Nat, NEW streams,
         CoveredBy(n, A, streams),
         \A j \in A : j >= n => CoveredBy(j, B, streams)
  PROVE  CoveredBy(n, B, streams)
<1>1. CASE n \in A
  BY <1>1
<1>2. CASE n \notin A
  <2>1. PICK later \in A : later > n /\ streams[later] = streams[n]
    BY <1>2 DEF CoveredBy
  <2>2. streams[n] \in Replaceable
    BY <1>2 DEF CoveredBy
  <2>3. CoveredBy(later, B, streams)
    BY <2>1
  <2>4. CASE later \in B
    BY <2>1, <2>2, <2>4 DEF CoveredBy
  <2>5. CASE later \notin B
    <3>1. PICK newest \in B : newest > later /\ streams[newest] = streams[later]
      BY <2>3, <2>5 DEF CoveredBy
    <3>2. newest > n /\ streams[newest] = streams[n]
      BY <2>1, <3>1
    <3>3. QED
      BY <2>2, <3>2 DEF CoveredBy
  <2>6. QED
    BY <2>4, <2>5
<1>3. QED
  BY <1>1, <1>2

(* The numbers of batches between two bounds. *)
LEMMA NumbersBetween ==
  ASSUME NEW batches \in Seq(Batch), NEW f \in Nat, NEW hi \in Nat,
         BatchesBetween(batches, f, hi)
  PROVE  /\ AllNumbers(batches) \subseteq 1 .. hi
         /\ \A b \in DOMAIN batches : \A k \in DOMAIN batches[b].events :
              /\ batches[b].events \in Seq(Event)
              /\ batches[b].events[k] \in Event
              /\ batches[b].events[k].first <= batches[b].events[k].last
              /\ batches[b].events[k].last <= hi
<1>1. ASSUME NEW b \in DOMAIN batches, NEW k \in DOMAIN batches[b].events
      PROVE  /\ batches[b].events \in Seq(Event)
             /\ batches[b].events[k] \in Event
             /\ batches[b].events[k].first <= batches[b].events[k].last
             /\ batches[b].events[k].last <= hi
             /\ Numbers(batches[b].events[k]) \subseteq 1 .. hi
  <2>1. batches[b].events \in Seq(Event)
    <3>1. batches[b] \in Batch
      BY ElementOfSeq, LenProperties
    <3>2. QED
      BY <3>1 DEF Batch
  <2>2. batches[b].events[k] \in Event
    BY <2>1, ElementOfSeq, LenProperties
  <2>3. /\ batches[b].events[k].first <= batches[b].events[k].last
        /\ batches[b].events[k].last <= hi
    BY DEF BatchesBetween, EventsBetween
  <2>4. Numbers(batches[b].events[k]) \subseteq 1 .. hi
    <3>1. batches[b].events[k].first \in Nat \ {0} /\ batches[b].events[k].last \in Nat
      BY <2>2 DEF Event
    <3>2. QED
      BY <2>3, <3>1 DEF Numbers
  <2>5. QED
    BY <2>1, <2>2, <2>3, <2>4
<1>2. \A n \in AllNumbers(batches) : n \in 1 .. hi
  BY <1>1, InAllNumbers
<1>3. QED
  BY <1>1, <1>2

LEMMA EventsNumbersBetween ==
  ASSUME NEW events \in Seq(Event), NEW hi \in Nat, EventsBetween(events, 0, hi)
  PROVE  NumbersOf(events) \subseteq 1 .. hi
<1>1. ASSUME NEW k \in DOMAIN events
      PROVE  Numbers(events[k]) \subseteq 1 .. hi
  <2>1. events[k] \in Event
    BY ElementOfSeq, LenProperties
  <2>2. events[k].last <= hi
    BY DEF EventsBetween
  <2>3. events[k].first \in Nat \ {0} /\ events[k].last \in Nat
    BY <2>1 DEF Event
  <2>4. QED
    BY <2>2, <2>3 DEF Numbers
<1>2. QED
  BY <1>1, InNumbers

(* Queueing the event numbered n + 1: it is in the batches, and the        *)
(* numbers that were still are, but for one its own replaces.              *)
LEMMA EnqueueKeeps ==
  ASSUME NEW batches \in Seq(Batch), NEW f \in Nat, NEW n \in Nat, f <= n,
         BatchesBetween(batches, f, n), NEW streams, BatchesTrue(batches, streams),
         NEW stream \in Streams, streams[n + 1] = stream, NEW persist \in BOOLEAN
  PROVE  /\ BatchesTrue(Enqueue(batches, EventOf(stream, n + 1), persist), streams)
         /\ \A j \in AllNumbers(batches) \cup {n + 1} :
              CoveredBy(j, AllNumbers(Enqueue(batches, EventOf(stream, n + 1), persist)),
                        streams)
<1> DEFINE event == EventOf(stream, n + 1)
           N == Len(batches)
           lastBatch == batches[N]
           m == Len(lastBatch.events)
           merges == N > 0 /\ Mergeable(lastBatch.events[m], event)
           joins == N > 0 /\ lastBatch.persist = persist
           result == Enqueue(batches, event, persist)
<1>0. /\ event.first = n + 1 /\ event.last = n + 1 /\ event \in Event
      /\ event.stream = stream /\ EventTrue(event, streams) /\ n + 1 \in Numbers(event)
  BY DEF EventOf, Event, EventTrue, Numbers
<1> HIDE DEF event
<1>a. \A b \in DOMAIN batches :
        /\ batches[b].events \in Seq(Event)
        /\ \A k \in DOMAIN batches[b].events :
             /\ batches[b].events[k] \in Event
             /\ batches[b].events[k].first <= batches[b].events[k].last
             /\ batches[b].events[k].last <= n
  <2>1. \A b \in DOMAIN batches : batches[b] \in Batch
    BY ElementOfSeq, LenProperties
  <2>2. QED
    BY <2>1, NumbersBetween DEF Batch
<1>b. \A b \in DOMAIN batches : batches[b].events # <<>>
  BY DEF BatchesBetween
<1>1. CASE merges
  <2> DEFINE prev == lastBatch.events[m]
             ev == MergedEvent(prev, event)
             evs == [lastBatch.events EXCEPT ![m] = ev]
             batch == [events |-> evs, persist |-> lastBatch.persist \/ persist]
  <2>0. N \in DOMAIN batches
    BY <1>1
  <2>1. lastBatch.events \in Seq(Event) /\ m \in DOMAIN lastBatch.events
    BY <2>0, <1>a, <1>b, LenProperties, EmptySeq
  <2>2. /\ prev \in Event /\ prev.stream = stream /\ stream \notin Lifecycle
        /\ prev.first <= prev.last /\ prev.last <= n
        /\ EventTrue(prev, streams)
    BY <2>0, <2>1, <1>0, <1>1, <1>a DEF Mergeable, BatchesTrue
  <2>3. /\ ev.stream = stream /\ ev.last = n + 1
        /\ ev.first = IF stream \in Accumulating THEN prev.first ELSE n + 1
    BY <1>0 DEF MergedEvent, Event
  <2> HIDE DEF ev, prev
  <2>4. /\ EventTrue(ev, streams)
        /\ n + 1 \in Numbers(ev)
        /\ \A j \in Numbers(prev) :
             \/ j \in Numbers(ev)
             \/ j < n + 1 /\ streams[j] \in Replaceable /\ streams[n + 1] = streams[j]
    <3>1. prev.first \in Nat /\ prev.last \in Nat
      BY <2>2 DEF Event
    <3>2. EventTrue(ev, streams)
      BY <2>3 DEF EventTrue
    <3>3. n + 1 \in Numbers(ev)
      BY <2>2, <2>3, <3>1 DEF Numbers
    <3>4. ASSUME NEW j \in Numbers(prev)
          PROVE  \/ j \in Numbers(ev)
                 \/ j < n + 1 /\ streams[j] \in Replaceable /\ streams[n + 1] = streams[j]
      <4>1. j \in Nat /\ prev.first <= j /\ j <= prev.last
        BY <3>1 DEF Numbers
      <4>2. CASE stream \in Accumulating
        BY <2>2, <2>3, <3>1, <4>1, <4>2 DEF Numbers
      <4>3. CASE stream \notin Accumulating
        <5>1. j = prev.last /\ streams[j] = stream
          BY <2>2, <3>1, <4>1, <4>3 DEF EventTrue
        <5>2. stream \in Replaceable
          BY <2>2, <4>3 DEF Streams
        <5>3. QED
          BY <2>2, <3>1, <5>1, <5>2
      <4>4. QED
        BY <4>2, <4>3
    <3>5. QED
      BY <3>2, <3>3, <3>4
  <2>5. /\ DOMAIN evs = DOMAIN lastBatch.events
        /\ evs[m] = ev
        /\ \A k \in DOMAIN lastBatch.events : k # m => evs[k] = lastBatch.events[k]
    BY <2>1
  <2> HIDE DEF evs
  <2>6. result = [batches EXCEPT ![N] = batch]
    BY <1>1 DEF Enqueue, evs, ev, prev
  <2>7. /\ DOMAIN result = DOMAIN batches
        /\ result[N].events = evs
        /\ \A b \in DOMAIN batches : b # N => result[b] = batches[b]
    BY <2>0, <2>6
  <2> HIDE DEF result, batch
  <2>8. BatchesTrue(result, streams)
    <3> SUFFICES ASSUME NEW b \in DOMAIN result, NEW k \in DOMAIN result[b].events
                 PROVE  EventTrue(result[b].events[k], streams)
      BY DEF BatchesTrue
    <3>1. CASE b # N
      BY <2>7, <3>1 DEF BatchesTrue
    <3>2. CASE b = N /\ k = m
      BY <2>4, <2>5, <2>7, <3>2
    <3>3. CASE b = N /\ k # m
      BY <2>0, <2>5, <2>7, <3>3 DEF BatchesTrue
    <3>4. QED
      BY <3>1, <3>2, <3>3
  <2>9. n + 1 \in AllNumbers(result)
    <3>1. N \in DOMAIN result /\ m \in DOMAIN result[N].events
          /\ n + 1 \in Numbers(result[N].events[m])
      BY <2>0, <2>1, <2>4, <2>5, <2>7
    <3>2. QED
      BY <3>1, InAllNumbers
  <2>10. ASSUME NEW j \in AllNumbers(batches)
         PROVE  CoveredBy(j, AllNumbers(result), streams)
    <3>1. PICK b \in DOMAIN batches : \E k \in DOMAIN batches[b].events :
            j \in Numbers(batches[b].events[k])
      BY InAllNumbers
    <3>2. PICK k \in DOMAIN batches[b].events : j \in Numbers(batches[b].events[k])
      BY <3>1
    <3>3. CASE b # N
      <4>1. b \in DOMAIN result /\ k \in DOMAIN result[b].events
            /\ j \in Numbers(result[b].events[k])
        BY <2>7, <3>2, <3>3
      <4>2. QED
        BY <4>1, InAllNumbers DEF CoveredBy
    <3>4. CASE b = N /\ k # m
      <4>1. N \in DOMAIN result /\ k \in DOMAIN result[N].events
            /\ j \in Numbers(result[N].events[k])
        BY <2>0, <2>5, <2>7, <3>2, <3>4
      <4>2. QED
        BY <4>1, InAllNumbers DEF CoveredBy
    <3>5. CASE b = N /\ k = m
      <4>1. j \in Numbers(prev)
        BY <3>2, <3>5 DEF prev
      <4>2. CASE j \in Numbers(ev)
        <5>1. N \in DOMAIN result /\ m \in DOMAIN result[N].events
              /\ j \in Numbers(result[N].events[m])
          BY <2>0, <2>1, <2>5, <2>7, <4>2
        <5>2. QED
          BY <5>1, InAllNumbers DEF CoveredBy
      <4>3. CASE j < n + 1 /\ streams[j] \in Replaceable /\ streams[n + 1] = streams[j]
        BY <2>9, <4>3 DEF CoveredBy
      <4>4. QED
        BY <2>4, <4>1, <4>2, <4>3
    <3>6. QED
      BY <3>3, <3>4, <3>5
  <2>11. QED
    BY <2>8, <2>9, <2>10 DEF CoveredBy, result, event
<1>2. CASE ~merges /\ joins
  <2> DEFINE evs == Append(lastBatch.events, event)
             batch == [events |-> evs, persist |-> persist]
  <2>0. N \in DOMAIN batches
    BY <1>2
  <2>1. lastBatch.events \in Seq(Event)
    BY <2>0, <1>a
  <2>2. /\ DOMAIN evs = DOMAIN lastBatch.events \cup {m + 1}
        /\ evs[m + 1] = event
        /\ \A k \in DOMAIN lastBatch.events : evs[k] = lastBatch.events[k]
    BY <2>1, <1>0, AppendDomain
  <2> HIDE DEF evs
  <2>3. result = [batches EXCEPT ![N] = batch]
    BY <1>2 DEF Enqueue, evs
  <2>4. /\ DOMAIN result = DOMAIN batches
        /\ result[N].events = evs
        /\ \A b \in DOMAIN batches : b # N => result[b] = batches[b]
    BY <2>0, <2>3
  <2> HIDE DEF result, batch
  <2>5. BatchesTrue(result, streams)
    <3> SUFFICES ASSUME NEW b \in DOMAIN result, NEW k \in DOMAIN result[b].events
                 PROVE  EventTrue(result[b].events[k], streams)
      BY DEF BatchesTrue
    <3>1. CASE b # N
      BY <2>4, <3>1 DEF BatchesTrue
    <3>2. CASE b = N /\ k = m + 1
      BY <1>0, <2>2, <2>4, <3>2
    <3>3. CASE b = N /\ k # m + 1
      BY <2>0, <2>2, <2>4, <3>3 DEF BatchesTrue
    <3>4. QED
      BY <3>1, <3>2, <3>3
  <2>6. n + 1 \in AllNumbers(result)
    <3>1. N \in DOMAIN result /\ m + 1 \in DOMAIN result[N].events
          /\ n + 1 \in Numbers(result[N].events[m + 1])
      BY <2>0, <2>2, <2>4, <1>0
    <3>2. QED
      BY <3>1, InAllNumbers
  <2>7. \A b \in DOMAIN batches : \A k \in DOMAIN batches[b].events :
          b \in DOMAIN result /\ k \in DOMAIN result[b].events
            /\ result[b].events[k] = batches[b].events[k]
    BY <2>0, <2>2, <2>4
  <2>8. AllNumbers(batches) \subseteq AllNumbers(result)
    BY <2>7, InAllNumbers
  <2>9. QED
    BY <2>5, <2>6, <2>8 DEF CoveredBy, result, event
<1>3. CASE ~merges /\ ~joins
  <2> DEFINE batch == [events |-> <<event>>, persist |-> persist]
  <2>1. result = Append(batches, batch)
    BY <1>3 DEF Enqueue
  <2>2. batch \in Batch
    BY <1>0 DEF Batch
  <2>3. /\ DOMAIN result = DOMAIN batches \cup {N + 1}
        /\ result[N + 1].events = <<event>>
        /\ \A b \in DOMAIN batches : result[b] = batches[b]
    BY <2>1, <2>2, AppendDomain
  <2> HIDE DEF result, batch
  <2>4. DOMAIN <<event>> = {1} /\ <<event>>[1] = event
    OBVIOUS
  <2>5. BatchesTrue(result, streams)
    BY <1>0, <2>3, <2>4 DEF BatchesTrue
  <2>6. n + 1 \in AllNumbers(result)
    <3>1. N + 1 \in DOMAIN result /\ 1 \in DOMAIN result[N + 1].events
          /\ n + 1 \in Numbers(result[N + 1].events[1])
      BY <1>0, <2>3, <2>4
    <3>2. QED
      BY <3>1, InAllNumbers
  <2>7. AllNumbers(batches) \subseteq AllNumbers(result)
    BY <2>3, InAllNumbers
  <2>8. QED
    BY <2>5, <2>6, <2>7 DEF CoveredBy, result, event
<1>4. QED
  BY <1>1, <1>2, <1>3

(* A whole call of queueDriverEvents. *)
LEMMA EnqueueCallKeeps ==
  ASSUME NEW batches \in Seq(Batch), NEW f \in Nat, NEW n \in Nat, f <= n,
         BatchesBetween(batches, f, n), NEW streams, BatchesTrue(batches, streams),
         NEW call \in Calls,
         \A k \in 1 .. Len(call.streams) : streams[n + k] = call.streams[k]
  PROVE  /\ BatchesTrue(EnqueueCall(batches, call, n), streams)
         /\ \A j \in AllNumbers(batches) \cup (n + 1 .. n + Len(call.streams)) :
              CoveredBy(j, AllNumbers(EnqueueCall(batches, call, n)), streams)
<1> DEFINE s1 == call.streams[1]
           s2 == call.streams[2]
           one == Enqueue(batches, EventOf(s1, n + 1), call.persist)
           two == Enqueue(one, EventOf(s2, n + 2), call.persist)
<1>1. /\ call.persist \in BOOLEAN
      /\ Len(call.streams) \in {1, 2}
      /\ s1 \in Streams /\ streams[n + 1] = s1
      /\ Len(call.streams) = 2 => s2 \in Streams /\ streams[n + 2] = s2
  BY CallsTyped
<1>2. EventOf(s1, n + 1) \in Event
  BY <1>1 DEF EventOf, Event
<1>3. \A b \in DOMAIN batches : batches[b].events # <<>>
  BY DEF BatchesBetween
<1>4. one \in Seq(Batch) /\ BatchesBetween(one, f, n + 1)
  BY <1>1, <1>2, <1>3, EnqueueTyped, EnqueueOrdered
<1>5. /\ BatchesTrue(one, streams)
      /\ \A j \in AllNumbers(batches) \cup {n + 1} : CoveredBy(j, AllNumbers(one), streams)
  BY <1>1, EnqueueKeeps
<1> HIDE DEF one
<1>6. CASE Len(call.streams) = 1
  <2>1. EnqueueCall(batches, call, n) = one
    BY <1>6 DEF EnqueueCall, one
  <2>2. n + 1 .. n + Len(call.streams) = {n + 1}
    BY <1>6
  <2>3. QED
    BY <1>5, <2>1, <2>2
<1>7. CASE Len(call.streams) = 2
  <2>1. /\ n + 1 \in Nat /\ f <= n + 1 /\ streams[(n + 1) + 1] = s2 /\ n + 2 = (n + 1) + 1
        /\ s2 \in Streams
    BY <1>1, <1>7
  <2>2. /\ BatchesTrue(two, streams)
        /\ \A j \in AllNumbers(one) \cup {n + 2} : CoveredBy(j, AllNumbers(two), streams)
    <3>1. /\ BatchesTrue(Enqueue(one, EventOf(s2, (n + 1) + 1), call.persist), streams)
          /\ \A j \in AllNumbers(one) \cup {(n + 1) + 1} :
               CoveredBy(j, AllNumbers(Enqueue(one, EventOf(s2, (n + 1) + 1), call.persist)),
                         streams)
      BY <1>1, <1>4, <1>5, <2>1, EnqueueKeeps
    <3>2. QED
      BY <2>1, <3>1
  <2>3. BatchesBetween(two, f, n + 2) /\ two \in Seq(Batch)
    <3>1. BatchesBetween(Enqueue(one, EventOf(s2, (n + 1) + 1), call.persist), f, (n + 1) + 1)
      BY <1>1, <1>4, <2>1, EnqueueOrdered
    <3>2. EventOf(s2, n + 2) \in Event /\ \A b \in DOMAIN one : one[b].events # <<>>
      BY <1>4, <2>1 DEF EventOf, Event, BatchesBetween
    <3>3. two \in Seq(Batch)
      BY <1>1, <1>4, <3>2, EnqueueTyped
    <3>4. QED
      BY <2>1, <3>1, <3>3
  <2> HIDE DEF two
  <2>4. AllNumbers(one) \subseteq Nat /\ AllNumbers(two) \subseteq Nat
    <3>1. AllNumbers(one) \subseteq 1 .. n + 1 /\ AllNumbers(two) \subseteq 1 .. n + 2
      BY <1>4, <2>1, <2>3, NumbersBetween
    <3>2. QED
      BY <3>1
  <2>5. AllNumbers(batches) \subseteq Nat
    <3>1. AllNumbers(batches) \subseteq 1 .. n
      BY NumbersBetween
    <3>2. QED
      BY <3>1
  <2>6. ASSUME NEW j \in AllNumbers(batches) \cup {n + 1}
        PROVE  CoveredBy(j, AllNumbers(two), streams)
    <3>1. j \in Nat /\ CoveredBy(j, AllNumbers(one), streams)
      BY <1>5, <2>1, <2>5
    <3>2. QED
      BY <2>2, <2>4, <3>1, CoverTransitive
  <2>7. n + 1 .. n + Len(call.streams) = {n + 1, n + 2}
    BY <1>7
  <2>8. EnqueueCall(batches, call, n) = two
    BY <1>7 DEF EnqueueCall, one, two
  <2>9. QED
    BY <2>2, <2>6, <2>7, <2>8
<1>8. QED
  BY <1>1, <1>6, <1>7

------------------------------------------------------------------------------
(* A call of a listener hands it the numbers of the event, and takes none  *)
(* of those it has had.                                                    *)
LEMMA CallHandsNumbers ==
  ASSUME NEW events \in Seq(Event), NEW e \in Event
  PROVE  NumbersOf(Append(events, e)) = NumbersOf(events) \cup Numbers(e)
<1>1. /\ DOMAIN Append(events, e) = DOMAIN events \cup {Len(events) + 1}
      /\ Append(events, e)[Len(events) + 1] = e
      /\ \A k \in DOMAIN events : Append(events, e)[k] = events[k]
  BY AppendDomain
<1>2. ASSUME NEW n
      PROVE  n \in NumbersOf(Append(events, e)) <=> n \in NumbersOf(events) \/ n \in Numbers(e)
  BY <1>1, InNumbers
<1>3. QED
  BY <1>2

(* What a sequence of events holds is its first event's, or the rest's. *)
LEMMA TailNumbers ==
  ASSUME NEW events \in Seq(Event), events # <<>>
  PROVE  NumbersOf(events) = Numbers(events[1]) \cup NumbersOf(Tail(events))
<1>1. /\ Len(events) \in Nat \ {0} /\ DOMAIN events = 1 .. Len(events)
      /\ Tail(events) \in Seq(Event) /\ DOMAIN Tail(events) = 1 .. Len(events) - 1
      /\ \A k \in 1 .. Len(events) - 1 : Tail(events)[k] = events[k + 1]
  BY LenProperties, EmptySeq, HeadTailProperties
<1>2. ASSUME NEW n, n \in NumbersOf(events)
      PROVE  n \in Numbers(events[1]) \/ n \in NumbersOf(Tail(events))
  <2>1. PICK k \in DOMAIN events : n \in Numbers(events[k])
    BY <1>2, InNumbers
  <2>2. k = 1 \/ (k - 1 \in DOMAIN Tail(events) /\ Tail(events)[k - 1] = events[k])
    BY <1>1
  <2>3. QED
    BY <2>1, <2>2, InNumbers
<1>3. ASSUME NEW n, n \in Numbers(events[1]) \/ n \in NumbersOf(Tail(events))
      PROVE  n \in NumbersOf(events)
  <2>1. CASE n \in Numbers(events[1])
    BY <1>1, <2>1, InNumbers
  <2>2. CASE n \in NumbersOf(Tail(events))
    <3>1. PICK k \in DOMAIN Tail(events) : n \in Numbers(Tail(events)[k])
      BY <2>2, InNumbers
    <3>2. k + 1 \in DOMAIN events /\ Tail(events)[k] = events[k + 1]
      BY <1>1
    <3>3. QED
      BY <3>1, <3>2, InNumbers
  <2>3. QED
    BY <1>3, <2>1, <2>2
<1>4. QED
  BY <1>2, <1>3

LEMMA TailAllNumbers ==
  ASSUME NEW batches \in Seq(Batch), batches # <<>>
  PROVE  /\ AllNumbers(batches)
              \subseteq NumbersOf(Head(batches).events) \cup AllNumbers(Tail(batches))
         /\ \A streams : BatchesTrue(batches, streams) => BatchesTrue(Tail(batches), streams)
<1>1. /\ Len(batches) \in Nat \ {0} /\ DOMAIN batches = 1 .. Len(batches)
      /\ Tail(batches) \in Seq(Batch) /\ DOMAIN Tail(batches) = 1 .. Len(batches) - 1
      /\ \A k \in 1 .. Len(batches) - 1 : Tail(batches)[k] = batches[k + 1]
      /\ Head(batches) = batches[1]
  BY LenProperties, EmptySeq, HeadTailProperties
<1>2. ASSUME NEW n, n \in AllNumbers(batches)
      PROVE  n \in NumbersOf(Head(batches).events) \/ n \in AllNumbers(Tail(batches))
  <2>1. PICK b \in DOMAIN batches : n \in NumbersOf(batches[b].events)
    BY <1>2 DEF AllNumbers
  <2>2. b = 1 \/ (b - 1 \in DOMAIN Tail(batches) /\ Tail(batches)[b - 1] = batches[b])
    BY <1>1
  <2>3. QED
    BY <1>1, <2>1, <2>2 DEF AllNumbers
<1>3. ASSUME NEW streams, BatchesTrue(batches, streams)
      PROVE  BatchesTrue(Tail(batches), streams)
  <2>1. \A b \in DOMAIN Tail(batches) :
          b + 1 \in DOMAIN batches /\ Tail(batches)[b] = batches[b + 1]
    BY <1>1
  <2>2. QED
    BY <1>3, <2>1 DEF BatchesTrue
<1>4. QED
  BY <1>2, <1>3

(* The logs only grow, and whoever of audience is not still to be called   *)
(* has the event being emitted.                                            *)
Grown == \A l \in Listeners : NumbersOf(log[l]) \subseteq NumbersOf(log'[l])

Hears(audience) ==
  phase = "emit" =>
    \A l \in audience : l \in todo \/ Numbers(cur[1]) \subseteq NumbersOf(log[l])

LEMMA StartEmitTells ==
  ASSUME log \in [Listeners -> Seq(Event)], NEW events \in Seq(Event), events # <<>>,
         NEW audience \in SUBSET Listeners, StartEmit(events, audience)
  PROVE  cur' = events /\ Grown /\ Hears(audience)'
<1>1. cur' = events /\ Head(events) = events[1] /\ events[1] \in Event
  BY LenProperties, ElementOfSeq, EmptySeq DEF StartEmit
<1>2. CASE audience = {} /\ UNCHANGED log
  BY <1>1, <1>2 DEF Grown, Hears
<1>3. ASSUME NEW l \in audience, todo' = audience \ {l},
             log' = [log EXCEPT ![l] = Append(@, Head(events))]
      PROVE  Grown /\ Hears(audience)'
  <2>1. /\ log'[l] = Append(log[l], events[1])
        /\ \A k \in Listeners : k # l => log'[k] = log[k]
    BY <1>1, <1>3
  <2>2. NumbersOf(log'[l]) = NumbersOf(log[l]) \cup Numbers(events[1])
    BY <1>1, <2>1, CallHandsNumbers
  <2>3. Grown
    BY <2>1, <2>2 DEF Grown
  <2>4. Hears(audience)'
    BY <1>1, <1>3, <2>2 DEF Hears
  <2>5. QED
    BY <2>3, <2>4
<1>4. QED
  BY <1>1, <1>2, <1>3 DEF StartEmit

LEMMA TakeBatchTells ==
  ASSUME log \in [Listeners -> Seq(Event)], NEW batches \in Seq(Batch), batches # <<>>,
         Head(batches).events # <<>>,
         NEW audience \in SUBSET Listeners, TakeBatch(batches, audience)
  PROVE  /\ AllNumbers(batches) \subseteq NumbersOf(cur') \cup AllNumbers(pending')
         /\ \A streams : BatchesTrue(batches, streams) => BatchesTrue(pending', streams)
         /\ Grown /\ Hears(audience)'
<1>1. pending' = Tail(batches)
  BY DEF TakeBatch
<1>2. Head(batches).events \in Seq(Event)
  <2>1. Head(batches) \in Batch
    BY HeadTailProperties
  <2>2. QED
    BY <2>1 DEF Batch
<1>3. CASE Head(batches).persist
  <2>1. phase' = "persist" /\ cur' = Head(batches).events /\ log' = log
    BY <1>3 DEF TakeBatch
  <2>2. QED
    BY <1>1, <2>1, TailAllNumbers DEF Grown, Hears
<1>4. CASE ~Head(batches).persist
  <2>1. StartEmit(Head(batches).events, audience)
    BY <1>4 DEF TakeBatch
  <2>2. cur' = Head(batches).events /\ Grown /\ Hears(audience)'
    BY <1>2, <2>1, StartEmitTells
  <2>3. QED
    BY <1>1, <2>2, TailAllNumbers
<1>5. QED
  BY <1>3, <1>4

------------------------------------------------------------------------------
(* Each step keeps the whole.                                              *)

LEMMA CoverMonotonic ==
  ASSUME NEW n, NEW A, NEW B, A \subseteq B, NEW streams, CoveredBy(n, A, streams)
  PROVE  CoveredBy(n, B, streams)
BY DEF CoveredBy

LEMMA AllNumbersTyped ==
  ASSUME NEW batches \in Seq(Batch)
  PROVE  AllNumbers(batches) \subseteq Nat
<1>1. \A b \in DOMAIN batches : batches[b] \in Batch
  BY ElementOfSeq, LenProperties
<1>2. \A b \in DOMAIN batches : NumbersOf(batches[b].events) \subseteq Nat
  BY <1>1, NumbersTyped DEF Batch
<1>3. QED
  BY <1>2 DEF AllNumbers

LEMMA KeptIs ==
  ASSUME NEW l \in Listeners
  PROVE  /\ Kept(l) = NumbersOf(log[l]) \cup NumbersOf(cur) \cup AllNumbers(pending) \cup lost
         /\ Kept(l)' = NumbersOf(log'[l]) \cup NumbersOf(cur') \cup AllNumbers(pending')
                         \cup lost'
BY DEF Kept, InFlight, PendingNumbers, AllNumbers

(* Where the numbers are, as the order has it. *)
LEMMA KeptInRange ==
  ASSUME IInv, lost \subseteq 1 .. Len(sent)
  PROVE  /\ Len(sent) \in Nat
         /\ NumbersOf(cur) \subseteq 1 .. Len(sent)
         /\ \A l \in Listeners : Kept(l) \subseteq 1 .. Len(sent)
<1>1. PICK f \in 0 .. Len(sent) : Placed(f)
  BY PlacedSomewhere DEF IInv
<1>2. /\ Len(sent) \in Nat /\ f \in Nat /\ f <= Len(sent)
      /\ pending \in Seq(Batch) /\ cur \in Seq(Event) /\ log \in [Listeners -> Seq(Event)]
  BY LenProperties DEF IInv, TypeOK
<1>3. AllNumbers(pending) \subseteq 1 .. Len(sent)
  BY <1>1, <1>2, NumbersBetween DEF Placed
<1>4. NumbersOf(cur) \subseteq 1 .. Len(sent)
  <2>1. NumbersOf(cur) \subseteq 1 .. f
    BY <1>1, <1>2, EventsNumbersBetween DEF Placed, CurOk
  <2>2. QED
    BY <1>2, <2>1
<1>5. \A l \in Listeners : NumbersOf(log[l]) \subseteq 1 .. Len(sent)
  <2> TAKE l \in Listeners
  <2>1. NumbersOf(log[l]) \subseteq 1 .. f
    BY <1>1, <1>2, EventsNumbersBetween DEF Placed, LogOk
  <2>2. QED
    BY <1>2, <2>1
<1>6. QED
  BY <1>2, <1>3, <1>4, <1>5, KeptIs

LEMMA KeptNext ==
  ASSUME IInv', NEW l \in Listeners
  PROVE  Kept(l)' \subseteq Nat
<1>1. /\ pending' \in Seq(Batch) /\ cur' \in Seq(Event) /\ log'[l] \in Seq(Event)
      /\ lost' \subseteq Nat
  BY DEF IInv, TypeOK
<1>2. QED
  BY <1>1, KeptIs, NumbersTyped, AllNumbersTyped

(* A step that queues nothing: for every listener, the numbers kept for it *)
(* still are, but for those older than its subscription.                   *)
LEMMA QuietStep ==
  ASSUME IInv, IInv', Whole, UNCHANGED <<sent, since>>, listeners' \subseteq listeners,
         lost' \subseteq 1 .. Len(sent), BatchesTrue(pending', sent), Told',
         \A l \in listeners' : \A n \in Kept(l) : n \in Kept(l)' \/ n <= since[l]
  PROVE  Whole'
<1>1. /\ listeners \subseteq Listeners /\ Len(sent) \in Nat
      /\ \A l \in Listeners : Kept(l) \subseteq 1 .. Len(sent)
      /\ \A l \in listeners : since[l] \in Nat
  BY KeptInRange DEF IInv, TypeOK, Whole
<1>2. ASSUME NEW l \in listeners', NEW n \in since[l] + 1 .. Len(sent)
      PROVE  CoveredBy(n, Kept(l)', sent)
  <2>1. CoveredBy(n, Kept(l), sent)
    BY ConservedCovers DEF Whole
  <2>2. n > since[l] /\ since[l] \in Nat /\ n \in Nat
    BY <1>1
  <2>3. PICK A \in SUBSET Nat : A = Kept(l)
    BY <1>1
  <2>4. PICK B \in SUBSET Nat : B = Kept(l)'
    BY <1>1, KeptNext
  <2>5. ASSUME NEW j \in A, j >= n
        PROVE  CoveredBy(j, B, sent)
    <3>1. j \in B \/ j <= since[l]
      BY <2>3, <2>4
    <3>2. j \in B
      BY <2>2, <2>5, <3>1
    <3>3. QED
      BY <3>2 DEF CoveredBy
  <2>6. CoveredBy(n, B, sent)
    BY <2>1, <2>2, <2>3, <2>5, CoverTransitive
  <2>7. QED
    BY <2>4, <2>6
<1>3. Conserved'
  BY <1>2 DEF Conserved, CoveredBy, Kept
<1>4. \A l \in listeners' : since'[l] \in Nat
  BY <1>1
<1>5. QED
  BY <1>3, <1>4 DEF Whole

(* queueDriverEvents, whoever it is called by. *)
LEMMA QueueWhole ==
  ASSUME IInv, IInv', Whole, NEW call \in Calls, NEW audience \in SUBSET Listeners,
         Queue(call, audience), listeners' = audience, lost' = lost,
         \A l \in audience :
           (l \in listeners /\ since'[l] = since[l]) \/ since'[l] = Len(sent)
  PROVE  Whole'
<1> DEFINE batches == EnqueueCall(pending, call, Len(sent))
           N == Len(sent)
<1>1. PICK f \in 0 .. Len(sent) : Placed(f)
  BY PlacedSomewhere DEF IInv
<1>2. /\ N \in Nat /\ f \in Nat /\ f <= N /\ sent \in Seq(Streams)
      /\ pending \in Seq(Batch) /\ BatchesBetween(pending, f, N)
      /\ log \in [Listeners -> Seq(Event)] /\ listeners \subseteq Listeners
      /\ NumbersOf(cur) \subseteq 1 .. N
      /\ \A l \in Listeners : Kept(l) \subseteq 1 .. N
      /\ \A l \in listeners : since[l] \in Nat
  <2>1. /\ Len(sent) \in Nat /\ sent \in Seq(Streams) /\ pending \in Seq(Batch)
        /\ log \in [Listeners -> Seq(Event)] /\ listeners \subseteq Listeners
        /\ lost \subseteq 1 .. Len(sent) /\ \A l \in listeners : since[l] \in Nat
    BY LenProperties DEF IInv, TypeOK, Whole
  <2>2. /\ NumbersOf(cur) \subseteq 1 .. Len(sent)
        /\ \A l \in Listeners : Kept(l) \subseteq 1 .. Len(sent)
    BY <2>1, KeptInRange
  <2>3. BatchesBetween(pending, f, Len(sent))
    BY <1>1 DEF Placed
  <2>4. QED
    BY <2>1, <2>2, <2>3
<1>3. /\ Len(sent') = N + Len(call.streams)
      /\ \A k \in 1 .. N : sent'[k] = sent[k]
      /\ \A k \in 1 .. Len(call.streams) : sent'[N + k] = call.streams[k]
      /\ Len(call.streams) \in {1, 2}
  <2>1. sent' = sent \o call.streams /\ call.streams \in Seq(Streams)
        /\ Len(call.streams) \in {1, 2}
    BY CallsTyped DEF Queue
  <2>2. QED
    BY <1>2, <2>1, ConcatProperties
<1>4. PICK streams : streams = sent'
  OBVIOUS
<1>5. BatchesTrue(pending, streams)
  <2> SUFFICES ASSUME NEW b \in DOMAIN pending, NEW k \in DOMAIN pending[b].events
               PROVE  EventTrue(pending[b].events[k], streams)
    BY DEF BatchesTrue
  <2>1. /\ EventTrue(pending[b].events[k], sent)
        /\ pending[b].events[k] \in Event /\ pending[b].events[k].last <= N
    BY <1>2, NumbersBetween DEF Whole, BatchesTrue
  <2>2. pending[b].events[k].last \in 1 .. N
    BY <1>2, <2>1 DEF Event
  <2>3. QED
    BY <1>3, <1>4, <2>1, <2>2 DEF EventTrue
<1>6. /\ BatchesTrue(batches, streams)
      /\ \A j \in AllNumbers(pending) \cup (N + 1 .. N + Len(call.streams)) :
           CoveredBy(j, AllNumbers(batches), streams)
  BY <1>2, <1>3, <1>4, <1>5, EnqueueCallKeeps
<1>7. batches \in Seq(Batch) /\ batches # <<>> /\ Head(batches).events # <<>>
  <2>1. /\ batches \in Seq(Batch) /\ batches # <<>>
        /\ BatchesBetween(batches, f, N + Len(call.streams))
    BY <1>2, EnqueueCallOrdered
  <2> HIDE DEF batches
  <2>2. 1 \in DOMAIN batches /\ Head(batches) = batches[1]
    BY <2>1, LenProperties, EmptySeq
  <2>3. QED
    BY <2>1, <2>2 DEF BatchesBetween
<1> HIDE DEF batches
<1>8. /\ NumbersOf(cur) \cup AllNumbers(batches) \subseteq NumbersOf(cur') \cup AllNumbers(pending')
      /\ BatchesTrue(pending', streams)
      /\ Grown
      /\ Told'
  <2>1. CASE drainActive /\ pending' = batches
             /\ UNCHANGED <<drainActive, phase, cur, calling, todo, log>>
    <3>1. Grown
      BY <2>1 DEF Grown
    <3>2. Told'
      <4> SUFFICES ASSUME phase = "emit", NEW l \in listeners', l \notin todo,
                          NEW n \in Numbers(cur[1])
                   PROVE  n \in NumbersOf(log[l]) \/ n <= since'[l]
        BY <2>1 DEF Told
      <4>1. CASE l \in listeners /\ since'[l] = since[l]
        BY <4>1 DEF Whole, Told
      <4>2. CASE since'[l] = N
        <5>1. cur \in Seq(Event) /\ cur # <<>>
          BY DEF IInv, TypeOK, DrainInv
        <5>2. n \in NumbersOf(cur)
          BY <5>1, TailNumbers
        <5>3. QED
          BY <1>2, <4>2, <5>2
      <4>3. QED
        BY <4>1, <4>2
    <3>3. QED
      BY <1>6, <2>1, <3>1, <3>2
  <2>2. CASE ~drainActive /\ TakeBatch(batches, audience)
    <3>1. cur = <<>>
      BY <2>2 DEF IInv, DrainInv
    <3>2. NumbersOf(cur) = {}
      BY <3>1 DEF NumbersOf
    <3>3. /\ AllNumbers(batches) \subseteq NumbersOf(cur') \cup AllNumbers(pending')
          /\ BatchesTrue(pending', streams) /\ Grown /\ Hears(audience)'
      BY <1>2, <1>6, <1>7, <2>2, TakeBatchTells
    <3>4. Told'
      BY <3>3 DEF Hears, Told
    <3>5. QED
      BY <3>2, <3>3, <3>4
  <2>3. QED
    BY <2>1, <2>2 DEF Queue, batches
<1>9. ASSUME NEW l \in audience
      PROVE  /\ \A j \in Kept(l) : CoveredBy(j, Kept(l)', streams)
             /\ \A j \in N + 1 .. Len(sent') : CoveredBy(j, Kept(l)', streams)
  <2>1. AllNumbers(batches) \subseteq Kept(l)'
    BY <1>8, KeptIs
  <2>2. \A j \in AllNumbers(pending) \cup (N + 1 .. Len(sent')) :
          CoveredBy(j, Kept(l)', streams)
    BY <1>3, <1>6, <2>1, CoverMonotonic
  <2>3. NumbersOf(log[l]) \cup NumbersOf(cur) \cup lost \subseteq Kept(l)'
    BY <1>8, KeptIs DEF Grown
  <2>4. QED
    BY <2>2, <2>3, KeptIs DEF CoveredBy
<1>10. ASSUME NEW l \in audience, NEW n \in since'[l] + 1 .. Len(sent')
       PROVE  CoveredBy(n, Kept(l)', streams)
  <2>1. since'[l] \in Nat /\ n \in Nat /\ n > 0 /\ n > since'[l] /\ Len(sent') \in Nat
    BY <1>2, <1>3
  <2>2. CASE n > N
    BY <1>2, <1>9, <2>1, <2>2
  <2>3. CASE n <= N
    <3>1. l \in listeners /\ since'[l] = since[l] /\ n \in since[l] + 1 .. N /\ n \in 1 .. N
      BY <1>2, <2>1, <2>3
    <3>2. CoveredBy(n, Kept(l), sent)
      BY <3>1, ConservedCovers DEF Whole
    <3>3. CoveredBy(n, Kept(l), streams)
      BY <1>2, <1>3, <1>4, <3>1, <3>2 DEF CoveredBy
    <3>4. PICK A \in SUBSET Nat : A = Kept(l)
      BY <1>2
    <3>5. PICK B \in SUBSET Nat : B = Kept(l)'
      BY KeptNext
    <3>6. \A j \in A : CoveredBy(j, B, streams)
      BY <1>9, <3>4, <3>5
    <3>7. CoveredBy(n, B, streams)
      BY <2>1, <3>3, <3>4, <3>6, CoverTransitive
    <3>8. QED
      BY <3>5, <3>7
  <2>4. QED
    BY <1>2, <2>1, <2>2, <2>3
<1>11. Conserved'
  BY <1>4, <1>10 DEF Conserved, CoveredBy, Kept
<1>12. lost' \subseteq 1 .. Len(sent')
  BY <1>2, <1>3 DEF Whole
<1>13. \A l \in listeners' : since'[l] \in Nat
  BY <1>2
<1>14. QED
  BY <1>4, <1>8, <1>11, <1>12, <1>13 DEF Whole

(* The drain's steps, and those that leave events alone. *)

LEMMA NextEventWhole ==
  ASSUME IInv, IInv', Whole, phase = "emit", todo = {}, NextEvent,
         UNCHANGED <<sent, listeners, since, lost>>
  PROVE  Whole'
<1>1. /\ cur \in Seq(Event) /\ pending \in Seq(Batch) /\ cur # <<>> /\ Len(cur) \in Nat
      /\ log \in [Listeners -> Seq(Event)] /\ listeners \subseteq Listeners
  BY LenProperties DEF IInv, TypeOK, DrainInv
<1>2. PICK audience \in SUBSET Listeners : audience = listeners
  BY <1>1
<1>3. /\ Grown /\ BatchesTrue(pending', sent) /\ Told'
      /\ NumbersOf(cur) \cup AllNumbers(pending)
           \subseteq Numbers(cur[1]) \cup NumbersOf(cur') \cup AllNumbers(pending')
  <2>1. CASE Len(cur) > 1 /\ StartEmit(Tail(cur), listeners) /\ UNCHANGED pending
    <3>1. Tail(cur) \in Seq(Event) /\ Tail(cur) # <<>>
      <4>1. PICK f \in 0 .. Len(sent) : Placed(f)
        BY PlacedSomewhere DEF IInv
      <4>2. f \in Nat /\ LogOk(f) /\ CurOk(f)
        BY <4>1, LenProperties DEF Placed, IInv, TypeOK
      <4>3. QED
        BY <1>1, <2>1, <4>2, RestOk
    <3>2. cur' = Tail(cur) /\ Grown /\ Hears(audience)'
      BY <1>1, <1>2, <2>1, <3>1, StartEmitTells
    <3>3. Told'
      BY <1>2, <3>2 DEF Hears, Told
    <3>4. NumbersOf(cur) = Numbers(cur[1]) \cup NumbersOf(cur')
      BY <1>1, <3>2, TailNumbers
    <3>5. QED
      BY <2>1, <3>2, <3>3, <3>4 DEF Whole
  <2>2. ASSUME Len(cur) = 1
        PROVE  NumbersOf(cur) = Numbers(cur[1])
    BY <1>1, <2>2 DEF NumbersOf
  <2>3. CASE Len(cur) = 1 /\ pending # <<>> /\ TakeBatch(pending, listeners)
    <3>1. Head(pending).events # <<>>
      <4>1. PICK f \in 0 .. Len(sent) : Placed(f)
        BY PlacedSomewhere DEF IInv
      <4>2. 1 \in DOMAIN pending /\ Head(pending) = pending[1]
        BY <1>1, <2>3, LenProperties, EmptySeq
      <4>3. QED
        BY <4>1, <4>2 DEF Placed, BatchesBetween
    <3>2. /\ AllNumbers(pending) \subseteq NumbersOf(cur') \cup AllNumbers(pending')
          /\ BatchesTrue(pending', sent) /\ Grown /\ Hears(audience)'
      <4>1. PICK streams : streams = sent
        OBVIOUS
      <4>2. BatchesTrue(pending, streams)
        BY <4>1 DEF Whole
      <4>3. /\ AllNumbers(pending) \subseteq NumbersOf(cur') \cup AllNumbers(pending')
            /\ BatchesTrue(pending', streams) /\ Grown /\ Hears(audience)'
        BY <1>1, <1>2, <2>3, <3>1, <4>2, TakeBatchTells
      <4>4. QED
        BY <4>1, <4>3
    <3>3. Told'
      BY <1>2, <3>2 DEF Hears, Told
    <3>4. QED
      BY <2>2, <2>3, <3>2, <3>3
  <2>4. CASE Len(cur) = 1 /\ pending = <<>> /\ LeaveLoop /\ UNCHANGED <<pending, log>>
    <3>1. Grown /\ Told'
      BY <2>4 DEF Grown, Told, LeaveLoop
    <3>2. QED
      BY <2>2, <2>4, <3>1 DEF Whole
  <2>5. QED
    BY <2>1, <2>3, <2>4 DEF NextEvent
<1>4. ASSUME NEW l \in listeners', NEW n \in Kept(l)
      PROVE  n \in Kept(l)' \/ n <= since[l]
  <2>1. l \in listeners /\ l \in Listeners
    BY <1>1
  <2>2. CASE n \in Numbers(cur[1])
    <3>1. n \in NumbersOf(log[l]) \/ n <= since[l]
      BY <2>1, <2>2 DEF Whole, Told
    <3>2. QED
      BY <1>3, <2>1, <3>1, KeptIs DEF Grown
  <2>3. CASE n \notin Numbers(cur[1])
    BY <1>3, <2>1, <2>3, KeptIs DEF Grown
  <2>4. QED
    BY <2>2, <2>3
<1>5. QED
  BY <1>3, <1>4, QuietStep DEF Whole

LEMMA PersistDoneWhole ==
  ASSUME IInv, IInv', Whole, PersistDone
  PROVE  Whole'
<1>1. /\ cur \in Seq(Event) /\ cur # <<>>
      /\ log \in [Listeners -> Seq(Event)] /\ listeners \subseteq Listeners
      /\ StartEmit(cur, listeners) /\ UNCHANGED <<sent, pending, listeners, since, lost>>
  BY DEF IInv, TypeOK, DrainInv, PersistDone
<1>2. PICK audience \in SUBSET Listeners : audience = listeners
  BY <1>1
<1>3. cur' = cur /\ Grown /\ Hears(audience)'
  BY <1>1, <1>2, StartEmitTells
<1>4. Told'
  BY <1>1, <1>2, <1>3 DEF Hears, Told
<1>5. \A l \in listeners' : Kept(l) \subseteq Kept(l)'
  BY <1>1, <1>3, KeptIs DEF Grown
<1>6. QED
  BY <1>1, <1>4, <1>5, QuietStep DEF Whole

LEMMA ListenerReturnsWhole ==
  ASSUME IInv, IInv', Whole, ListenerReturns
  PROVE  Whole'
<1>1. /\ phase = "emit" /\ UNCHANGED <<sent, listeners, since, lost>>
      /\ listeners \subseteq Listeners /\ todo \subseteq Listeners
      /\ log \in [Listeners -> Seq(Event)] /\ cur \in Seq(Event) /\ cur # <<>>
  BY DEF ListenerReturns, IInv, TypeOK, DrainInv
<1>2. CASE todo = {} /\ NextEvent
  BY <1>1, <1>2, NextEventWhole
<1>3. ASSUME NEW c \in todo, todo' = todo \ {c},
             log' = [log EXCEPT ![c] = Append(@, Head(cur))],
             UNCHANGED <<pending, phase, cur>>
      PROVE  Whole'
  <2>1. Head(cur) = cur[1] /\ cur[1] \in Event
    BY <1>1, LenProperties, EmptySeq, ElementOfSeq
  <2>2. /\ log'[c] = Append(log[c], cur[1])
        /\ \A l \in Listeners : l # c => log'[l] = log[l]
    BY <1>1, <1>3, <2>1
  <2>3. NumbersOf(log'[c]) = NumbersOf(log[c]) \cup Numbers(cur[1])
    BY <1>1, <2>1, <2>2, CallHandsNumbers
  <2>4. Grown
    BY <2>2, <2>3 DEF Grown
  <2>5. Told'
    <3> SUFFICES ASSUME NEW l \in listeners, l \notin todo',
                        NEW n \in Numbers(cur[1])
                 PROVE  n \in NumbersOf(log'[l]) \/ n <= since[l]
      BY <1>1, <1>3 DEF Told
    <3>1. CASE l = c
      BY <2>3, <3>1
    <3>2. CASE l # c
      BY <1>1, <1>3, <2>2, <3>2 DEF Whole, Told
    <3>3. QED
      BY <3>1, <3>2
  <2>6. \A l \in listeners' : Kept(l) \subseteq Kept(l)'
    BY <1>1, <1>3, <2>4, KeptIs DEF Grown
  <2>7. QED
    BY <1>1, <1>3, <2>5, <2>6, QuietStep DEF Whole
<1>4. QED
  BY <1>2, <1>3 DEF ListenerReturns

LEMMA DrainThrowsWhole ==
  ASSUME IInv, IInv', Whole, DrainThrows
  PROVE  Whole'
<1>1. /\ lost' = lost \cup NumbersOf(cur) /\ phase' = "settling" /\ cur' = <<>>
      /\ UNCHANGED <<sent, pending, listeners, since, log>>
      /\ listeners \subseteq Listeners
  BY DEF DrainThrows, LeaveLoop, IInv, TypeOK
<1>2. lost' \subseteq 1 .. Len(sent)
  BY <1>1, KeptInRange DEF Whole
<1>3. Told'
  BY <1>1 DEF Told
<1>4. \A l \in listeners' : Kept(l) \subseteq Kept(l)'
  BY <1>1, KeptIs
<1>5. QED
  BY <1>1, <1>2, <1>3, <1>4, QuietStep DEF Whole

LEMMA FinallyWhole ==
  ASSUME IInv, IInv', Whole, Finally
  PROVE  Whole'
<1>1. /\ phase = "settling" /\ UNCHANGED <<sent, listeners, since, lost>>
      /\ listeners \subseteq Listeners /\ pending \in Seq(Batch) /\ cur = <<>>
      /\ log \in [Listeners -> Seq(Event)]
  BY DEF Finally, IInv, TypeOK, DrainInv
<1>2. NumbersOf(cur) = {}
  BY <1>1 DEF NumbersOf
<1>3. CASE pending # <<>> /\ TakeBatch(pending, listeners)
  <2>1. PICK audience \in SUBSET Listeners : audience = listeners
    BY <1>1
  <2>2. Head(pending).events # <<>>
    <3>1. PICK f \in 0 .. Len(sent) : Placed(f)
      BY PlacedSomewhere DEF IInv
    <3>2. 1 \in DOMAIN pending /\ Head(pending) = pending[1]
      BY <1>1, <1>3, LenProperties, EmptySeq
    <3>3. QED
      BY <3>1, <3>2 DEF Placed, BatchesBetween
  <2>3. PICK streams : streams = sent
    OBVIOUS
  <2>4. BatchesTrue(pending, streams)
    BY <2>3 DEF Whole
  <2>5. /\ AllNumbers(pending) \subseteq NumbersOf(cur') \cup AllNumbers(pending')
        /\ BatchesTrue(pending', streams) /\ Grown /\ Hears(audience)'
    BY <1>1, <1>3, <2>1, <2>2, <2>4, TakeBatchTells
  <2>6. Told'
    BY <1>1, <2>1, <2>5 DEF Hears, Told
  <2>7. \A l \in listeners' : Kept(l) \subseteq Kept(l)'
    BY <1>1, <1>2, <2>5, KeptIs DEF Grown
  <2>8. QED
    BY <1>1, <2>3, <2>5, <2>6, <2>7, QuietStep DEF Whole
<1>4. CASE pending = <<>> /\ phase' = "idle" /\ UNCHANGED <<pending, cur, log>>
  <2>1. Told' /\ \A l \in listeners' : Kept(l) \subseteq Kept(l)'
    BY <1>1, <1>4, KeptIs DEF Told
  <2>2. QED
    BY <1>1, <1>4, <2>1, QuietStep DEF Whole
<1>5. QED
  BY <1>3, <1>4 DEF Finally

LEMMA SubscribeWhole ==
  ASSUME IInv, IInv', Whole, NEW c \in Listeners, Subscribe(c)
  PROVE  Whole'
<1> DEFINE call == [streams |-> <<SessionUpdated>>, persist |-> FALSE]
<1>1. call \in Calls
  BY DEF Calls, Streams, Replaceable
<1>2. /\ listeners' = listeners \cup {c} /\ lost' = lost
      /\ since' = [since EXCEPT ![c] = Len(sent)] /\ Queue(call, listeners')
      /\ listeners \subseteq Listeners /\ since \in [Listeners -> Int]
  BY DEF Subscribe, IInv, TypeOK
<1> HIDE DEF call
<1>3. PICK audience \in SUBSET Listeners : audience = listeners'
  BY <1>2
<1>4. \A l \in audience :
        (l \in listeners /\ since'[l] = since[l]) \/ since'[l] = Len(sent)
  BY <1>2, <1>3
<1>5. QED
  BY <1>1, <1>2, <1>3, <1>4, QueueWhole

LEMMA QueueDriverEventsWhole ==
  ASSUME IInv, IInv', Whole, NEW call \in Calls, QueueDriverEvents(call)
  PROVE  Whole'
<1>1. /\ UNCHANGED <<listeners, since, lost>> /\ Queue(call, listeners)
      /\ listeners \subseteq Listeners
  BY DEF QueueDriverEvents, IInv, TypeOK
<1>2. PICK audience \in SUBSET Listeners : audience = listeners
  BY <1>1
<1>3. QED
  BY <1>1, <1>2, QueueWhole

(* Steps that touch neither events nor logs. *)
LEMMA RestWhole ==
  ASSUME IInv, IInv', Whole, UNCHANGED <<mailbox, since, log, lost>>,
         listeners' \subseteq listeners
  PROVE  Whole'
<1>1. UNCHANGED <<sent, pending, phase, cur, todo>> /\ listeners \subseteq Listeners
  BY DEF mailbox, IInv, TypeOK
<1>2. Told'
  BY <1>1 DEF Whole, Told
<1>3. \A l \in listeners' : Kept(l) \subseteq Kept(l)'
  BY <1>1, KeptIs
<1>4. QED
  BY <1>1, <1>2, <1>3, QuietStep DEF Whole

LEMMA StepWhole ==
  ASSUME IInv, IInv', Whole, [Next]_vars
  PROVE  Whole'
<1>1. ASSUME NEW c \in Listeners, Unsubscribe(c)
      PROVE  Whole'
  BY <1>1, RestWhole DEF Unsubscribe
<1>2. CASE AwaitQueue \/ UNCHANGED vars
  BY <1>2, RestWhole DEF AwaitQueue, vars
<1>3. CASE EmittedToNobody
  <2>1. phase = "emit" /\ todo = {} /\ NextEvent /\ UNCHANGED <<sent, listeners, since, lost>>
    BY <1>3 DEF EmittedToNobody, IInv, DrainInv
  <2>2. QED
    BY <2>1, NextEventWhole
<1>4. QED
  BY <1>1, <1>2, <1>3, QueueDriverEventsWhole, SubscribeWhole, PersistDoneWhole,
     ListenerReturnsWhole, DrainThrowsWhole, FinallyWhole
  DEF Next

LEMMA InitWhole == Init => Whole
<1> SUFFICES ASSUME Init PROVE Whole
  OBVIOUS
<1>1. DOMAIN pending = {} /\ phase = "idle" /\ lost = {} /\ listeners = {}
  BY DEF Init
<1>2. QED
  BY <1>1 DEF Whole, BatchesTrue, Told, Conserved

(* mergeReplaceableDriverEvent, the drain and its failures: whatever is    *)
(* merged and whichever writes and listeners reject, the text of every     *)
(* delta and every lifecycle event queued since a listener subscribed is   *)
(* in flight, was handed to it, or went down with a batch that failed; a   *)
(* snapshot or tool update may have been replaced by a later one.          *)
THEOREM NothingVanishes == Spec => []Conserved
<1>1. IInv /\ Whole /\ [Next]_vars => IInv' /\ Whole'
  BY NextIInv, StepWhole
<1>2. Init => IInv /\ Whole
  BY InitIInv, InitWhole
<1>3. IInv /\ Whole => Conserved
  BY DEF Whole
<1>4. QED
  BY <1>1, <1>2, <1>3, PTL DEF Spec
==============================================================================
