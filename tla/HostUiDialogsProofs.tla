-------------------------- MODULE HostUiDialogsProofs --------------------------
(***************************************************************************)
(* Theorems about HostUiDialogs, for any set of requests, however many     *)
(* evictions, resets and failures there are.                               *)
(***************************************************************************)
EXTENDS HostUiDialogs, TLAPS

Queued(d) == \E i \in 1 .. Len(mailbox) : mailbox[i] = d

Seen == shown \cup cleared \cup answered

(* A request is announced once: while its event is under way no one has    *)
(* seen it.                                                                *)
AnnouncedOnce ==
  /\ \A d \in Dialogs : dialog[d] = "unasked" => ~Queued(d) /\ d # arriving /\ d \notin Seen
  /\ \A d \in Dialogs : Queued(d) \/ d = arriving => d \notin Seen
  /\ arriving \in Dialogs => ~Queued(arriving)
  /\ \A i, j \in 1 .. Len(mailbox) : mailbox[i] = mailbox[j] /\ mailbox[i] \in Dialogs => i = j

(* A request that is still awaited was asked after every reset that is     *)
(* under way.                                                              *)
ResetsComeFirst ==
  /\ arriving = Reset => Waiting \cap shown = {}
  /\ \A i \in 1 .. Len(mailbox) : mailbox[i] = Reset =>
       /\ Waiting \cap (shown \cup {arriving}) = {}
       /\ \A j \in 1 .. i - 1 : mailbox[j] \notin Waiting

(* What is off the screen for a reload is neither on it nor answered.      *)
ClearedApart == cleared \cap (shown \cup answered) = {}

DialogInv ==
  /\ TypeOK
  /\ PendingIsWaiting
  /\ AnnouncedOnce
  /\ ResetsComeFirst
  /\ WaitingIsReachable
  /\ AnsweredStaysGone
  /\ ClearedApart

------------------------------------------------------------------------------
(* What queueing an event does to a queue. *)
LEMMA AppendFacts ==
  ASSUME NEW S, NEW s \in Seq(S), NEW e \in S
  PROVE  /\ Append(s, e) \in Seq(S)
         /\ Len(Append(s, e)) = Len(s) + 1
         /\ \A i \in 1 .. Len(s) : Append(s, e)[i] = s[i]
         /\ Append(s, e)[Len(s) + 1] = e
  OBVIOUS

(* What taking the first event does to a queue. *)
LEMMA TailFacts ==
  ASSUME NEW S, NEW s \in Seq(S), s # <<>>
  PROVE  /\ Tail(s) \in Seq(S)
         /\ Len(s) \in Nat \ {0}
         /\ Len(Tail(s)) = Len(s) - 1
         /\ \A i \in 1 .. Len(s) - 1 : Tail(s)[i] = s[i + 1]
         /\ Head(s) = s[1] /\ Head(s) \in S
  OBVIOUS

(* The initial states satisfy the invariant. *)
LEMMA InitInv == Init => DialogInv
<1> SUFFICES ASSUME Init PROVE DialogInv
  OBVIOUS
<1>1. mailbox = <<>> /\ Len(mailbox) = 0 /\ mailbox \in Seq(Event)
  BY DEF Init
<1>2. TypeOK
  <2>1. dialog \in [Dialogs -> {"unasked", "waiting", "settled"}]
    BY DEF Init
  <2>2. /\ resets \in 0 .. MaxResets /\ reloading \in 0 .. resets
        /\ evictions \in 0 .. MaxEvictions /\ failures \in 0 .. MaxFailures
    BY BoundsAreNaturals DEF Init
  <2> QED
    BY <1>1, <2>1, <2>2 DEF Init, TypeOK, Eviction
<1>3. Waiting = {} /\ PendingIsWaiting
  BY DEF Init, Waiting, PendingIsWaiting
<1>4. AnnouncedOnce
  BY <1>1, EventsDiffer DEF Init, AnnouncedOnce, Queued, Seen
<1>5. ResetsComeFirst /\ WaitingIsReachable /\ AnsweredStaysGone /\ ClearedApart
  BY <1>1, <1>3 DEF Init, ResetsComeFirst, WaitingIsReachable, AnsweredStaysGone, ClearedApart
<1> QED
  BY <1>2, <1>3, <1>4, <1>5 DEF DialogInv

(* Every step keeps every variable in its type. *)
LEMMA TypeStep == TypeOK /\ [Next]_vars => TypeOK'
<1> SUFFICES ASSUME TypeOK, [Next]_vars PROVE TypeOK'
  OBVIOUS
<1> USE DEF TypeOK, Event
<1>1. ASSUME NEW d \in Dialogs, AskInVain(d) PROVE TypeOK'
  BY <1>1 DEF AskInVain, desktop, bounds
<1>2. ASSUME NEW d \in Dialogs, Ask(d) PROVE TypeOK'
  BY <1>2, AppendFacts DEF Ask, Queue, desktop, bounds
<1>3. ASSUME NEW d \in Dialogs, Expires(d) \/ Aborts(d) PROVE TypeOK'
  BY <1>3 DEF Expires, Aborts, Settle, desktop, bounds
<1>4. CASE Reload
  BY <1>4, AppendFacts, BoundsAreNaturals DEF Reload, Settle, Queue, desktop, bounds
<1>5. CASE Emit
  BY <1>5, TailFacts DEF Emit, desktop, bounds
<1>6. CASE EventLost
  BY <1>6, TailFacts, BoundsAreNaturals DEF EventLost, Fails, desktop, bounds
<1>7. CASE Apply
  BY <1>7 DEF Apply, bounds
<1>8. ASSUME NEW d \in Dialogs, Respond(d) \/ ResponseArrives(d) PROVE TypeOK'
  BY <1>8 DEF Respond, ResponseArrives, Settle, bounds
<1>9. CASE Dismiss
  BY <1>9 DEF Dismiss, bounds
<1>10. ASSUME NEW d \in Dialogs, ResponseFails(d) PROVE TypeOK'
  BY <1>10, BoundsAreNaturals DEF ResponseFails, Fails
<1>13. ASSUME ReloadCalled PROVE TypeOK'
  BY <1>13, BoundsAreNaturals DEF ReloadCalled
<1>14. ASSUME ReloadArrives PROVE TypeOK'
  BY <1>14, AppendFacts, BoundsAreNaturals DEF ReloadArrives, Settle, Queue, bounds
<1>15. ASSUME ReloadFails PROVE TypeOK'
  BY <1>15, BoundsAreNaturals DEF ReloadFails, Fails
<1>11. CASE Residence
  <2>1. ASSUME Open \/ Bound \/ Subscribe PROVE TypeOK'
    BY <2>1 DEF Open, Bound, Subscribe, desktop, bounds
  <2>2. CASE EvictionChooses
    BY <2>2, BoundsAreNaturals DEF EvictionChooses, Eviction, desktop
  <2>3. ASSUME EvictionUnsubscribes \/ EvictionRestores \/ SuspendDisposes PROVE TypeOK'
    BY <2>3 DEF EvictionUnsubscribes, EvictionRestores, SuspendDisposes, Eviction, desktop, bounds
  <2>4. CASE SuspendDecides
    BY <2>4 DEF SuspendDecides, Eviction, desktop, bounds
  <2>5. CASE SuspendFails
    BY <2>5, BoundsAreNaturals DEF SuspendFails, Fails, Eviction, desktop
  <2>6. CASE EvictionForgets
    BY <2>6 DEF EvictionForgets, Eviction, bounds
  <2> QED
    BY <1>11, <2>1, <2>2, <2>3, <2>4, <2>5, <2>6 DEF Residence
<1>12. CASE UNCHANGED vars
  BY <1>12 DEF vars, desktop, bounds
<1> QED
  BY <1>1, <1>2, <1>3, <1>4, <1>5, <1>6, <1>7, <1>8, <1>9, <1>10, <1>11, <1>12, <1>13,
     <1>14, <1>15 DEF Next, Extension, Delivery, User

flow == <<dialog, pending, mailbox, arriving, desktop, lost>>

(* The session's residence does not touch the requests, but for the view   *)
(* that an eviction throws away.                                           *)
LEMMA ResidenceKeepsFlow ==
  Residence \/ UNCHANGED vars => UNCHANGED flow \/ EvictionForgets
  BY DEF Residence, Open, Bound, Subscribe, EvictionChooses, EvictionUnsubscribes, SuspendDecides,
         EvictionRestores, SuspendDisposes, SuspendFails, vars, flow, desktop, bounds

DialogStep == PendingIsWaiting' /\ AnnouncedOnce' /\ ResetsComeFirst' /\ WaitingIsReachable'
              /\ AnsweredStaysGone' /\ ClearedApart'

(* A request that is asked. *)
LEMMA AskStep ==
  ASSUME DialogInv, NEW d \in Dialogs, Ask(d)
  PROVE  DialogStep
<1> USE DEF DialogInv, TypeOK, Event
<1>1. /\ mailbox \in Seq(Event) /\ mailbox' \in Seq(Event)
      /\ Len(mailbox') = Len(mailbox) + 1 /\ Len(mailbox) \in Nat
      /\ \A i \in 1 .. Len(mailbox) : mailbox'[i] = mailbox[i]
      /\ mailbox'[Len(mailbox) + 1] = d
  BY AppendFacts DEF Ask, Queue
<1>2. /\ dialog[d] = "unasked" /\ Waiting' = Waiting \cup {d} /\ pending' = pending \cup {d}
      /\ \A e \in Dialogs : dialog'[e] = IF e = d THEN "waiting" ELSE dialog[e]
      /\ UNCHANGED <<arriving, shown, answered, responses, cleared, reloading, lost>>
  BY DEF Ask, Waiting, desktop
<1>3. d \notin Seen /\ d # arriving /\ \A i \in 1 .. Len(mailbox) : mailbox[i] # d
  BY <1>2 DEF AnnouncedOnce, Queued
<1>4. PendingIsWaiting'
  BY <1>2 DEF PendingIsWaiting
<1>5. AnnouncedOnce'
  <2>1. \A e \in Dialogs : Queued(e)' <=> Queued(e) \/ e = d
    BY <1>1 DEF Queued
  <2>2. \A i, j \in 1 .. Len(mailbox') : mailbox'[i] = mailbox'[j] /\ mailbox'[i] \in Dialogs => i = j
    BY <1>1, <1>3 DEF AnnouncedOnce
  <2> QED
    BY <1>2, <1>3, <2>1, <2>2 DEF AnnouncedOnce, Seen
<1>6. ResetsComeFirst'
  <2>1. arriving = Reset => Waiting' \cap shown = {}
    BY <1>2, <1>3 DEF ResetsComeFirst, Seen
  <2>2. ASSUME NEW i \in 1 .. Len(mailbox'), mailbox'[i] = Reset
        PROVE  /\ Waiting' \cap (shown \cup {arriving}) = {}
               /\ \A j \in 1 .. i - 1 : mailbox'[j] \notin Waiting'
    <3>1. i \in 1 .. Len(mailbox) /\ mailbox[i] = Reset
      BY <1>1, <2>2, EventsDiffer
    <3>2. Waiting \cap (shown \cup {arriving}) = {} /\ \A j \in 1 .. i - 1 : mailbox[j] \notin Waiting
      BY <3>1 DEF ResetsComeFirst
    <3>3. \A j \in 1 .. i - 1 : j \in 1 .. Len(mailbox) /\ mailbox'[j] = mailbox[j] /\ mailbox[j] # d
      BY <1>1, <1>3, <3>1
    <3> QED
      BY <1>2, <1>3, <3>2, <3>3 DEF Seen
  <2> QED
    BY <1>2, <2>1, <2>2 DEF ResetsComeFirst
<1>7. WaitingIsReachable'
  BY <1>1, <1>2 DEF WaitingIsReachable, OnItsWay
<1>8. AnsweredStaysGone' /\ ClearedApart'
  BY <1>2 DEF AnsweredStaysGone, ClearedApart
<1> QED
  BY <1>4, <1>5, <1>6, <1>7, <1>8 DEF DialogStep

(* Requests that are settled, whatever settles them, without a move of     *)
(* anything but a response.                                                *)
LEMMA SettleStep ==
  ASSUME DialogInv, NEW D \in SUBSET Dialogs, NEW R \in SUBSET responses,
         /\ dialog' \in [Dialogs -> {"unasked", "waiting", "settled"}]
         /\ \A e \in Dialogs : dialog'[e] = IF e \in D THEN "settled" ELSE dialog[e],
         pending' = pending \ D,
         responses' = responses \ R, R \cap Waiting \subseteq D \cup lost',
         lost \subseteq lost', lost' \subseteq Dialogs,
         UNCHANGED <<mailbox, arriving, shown, answered, cleared, reloading>>
  PROVE  DialogStep
<1> USE DEF DialogInv, TypeOK
<1>1. Waiting' = Waiting \ D
  BY DEF Waiting
<1>2. PendingIsWaiting'
  BY <1>1 DEF PendingIsWaiting
<1>3. AnnouncedOnce'
  BY DEF AnnouncedOnce, Queued, Seen
<1>4. ResetsComeFirst'
  BY <1>1 DEF ResetsComeFirst
<1>5. WaitingIsReachable'
  BY <1>1 DEF WaitingIsReachable, OnItsWay
<1>6. AnsweredStaysGone' /\ ClearedApart'
  BY DEF AnsweredStaysGone, ClearedApart
<1> QED
  BY <1>2, <1>3, <1>4, <1>5, <1>6 DEF DialogStep

(* A reset: nothing is awaited any more when it is queued. *)
LEMMA ReloadStep ==
  ASSUME DialogInv, Reload \/ ReloadArrives
  PROVE  DialogStep
<1> USE DEF DialogInv, TypeOK, Event
<1>1. /\ Len(mailbox') = Len(mailbox) + 1 /\ Len(mailbox) \in Nat
      /\ \A i \in 1 .. Len(mailbox) : mailbox'[i] = mailbox[i]
      /\ mailbox'[Len(mailbox) + 1] = Reset
  BY AppendFacts DEF Reload, ReloadArrives, Queue
<1>2. /\ Waiting' = {} /\ pending' = {}
      /\ \A e \in Dialogs : dialog'[e] = "unasked" => dialog[e] = "unasked"
      /\ cleared' \subseteq cleared /\ (reloading' = 0 => cleared' = {})
      /\ UNCHANGED <<arriving, shown, answered, responses, lost>>
  BY DEF Reload, ReloadArrives, Settle, Waiting, PendingIsWaiting, WaitingIsReachable, desktop
<1>3. PendingIsWaiting'
  BY <1>2 DEF PendingIsWaiting
<1>4. AnnouncedOnce'
  BY <1>1, <1>2, EventsDiffer DEF AnnouncedOnce, Queued, Seen
<1>5. ResetsComeFirst'
  BY <1>2 DEF ResetsComeFirst
<1>6. WaitingIsReachable' /\ AnsweredStaysGone' /\ ClearedApart'
  BY <1>2 DEF WaitingIsReachable, AnsweredStaysGone, ClearedApart
<1> QED
  BY <1>3, <1>4, <1>5, <1>6 DEF DialogStep

(* The desktop clears the screen for a reload that it calls. *)
LEMMA ClearStep ==
  ASSUME DialogInv, ReloadCalled
  PROVE  DialogStep
<1> USE DEF DialogInv, TypeOK
<1>1. /\ shown' = {} /\ cleared' = cleared \cup shown /\ reloading' # 0 /\ Waiting' = Waiting
      /\ UNCHANGED <<dialog, pending, mailbox, arriving, answered, responses, lost>>
  BY DEF ReloadCalled, Waiting
<1>2. PendingIsWaiting' /\ ResetsComeFirst'
  BY <1>1 DEF PendingIsWaiting, ResetsComeFirst
<1>3. AnnouncedOnce'
  BY <1>1 DEF AnnouncedOnce, Queued, Seen
<1>4. WaitingIsReachable'
  BY <1>1 DEF WaitingIsReachable, OnItsWay
<1>5. AnsweredStaysGone' /\ ClearedApart'
  BY <1>1 DEF AnsweredStaysGone, ClearedApart
<1> QED
  BY <1>2, <1>3, <1>4, <1>5 DEF DialogStep

(* A reload that fails loses what was cleared for it, if it is the last. *)
LEMMA ReloadFailsStep ==
  ASSUME DialogInv, ReloadFails
  PROVE  DialogStep
<1> USE DEF DialogInv, TypeOK
<1>1. /\ \/ reloading' # 0 /\ UNCHANGED <<cleared, lost>>
         \/ cleared' = {} /\ lost' = lost \cup cleared
      /\ UNCHANGED <<dialog, pending, mailbox, arriving, shown, answered, responses>>
      /\ Waiting' = Waiting
  BY BoundsAreNaturals DEF ReloadFails, Waiting
<1>2. PendingIsWaiting' /\ ResetsComeFirst'
  BY <1>1 DEF PendingIsWaiting, ResetsComeFirst
<1>3. AnnouncedOnce'
  BY <1>1 DEF AnnouncedOnce, Queued, Seen
<1>4. WaitingIsReachable'
  BY <1>1 DEF WaitingIsReachable, OnItsWay
<1>5. AnsweredStaysGone' /\ ClearedApart'
  BY <1>1 DEF AnsweredStaysGone, ClearedApart
<1> QED
  BY <1>2, <1>3, <1>4, <1>5 DEF DialogStep

(* A request that leaves the queue is not in it any more. *)
LEMMA TakeFacts ==
  ASSUME DialogInv, Emit \/ EventLost
  PROVE  /\ mailbox[1] \in Event /\ Head(mailbox) = mailbox[1]
         /\ \A d \in Dialogs : Queued(d) <=> d = mailbox[1] \/ Queued(d)'
         /\ \A d \in Dialogs : d = mailbox[1] => ~Queued(d)'
<1> USE DEF DialogInv, TypeOK, Event
<1>1. /\ Len(mailbox) \in Nat \ {0} /\ Len(mailbox') = Len(mailbox) - 1
      /\ \A i \in 1 .. Len(mailbox) - 1 : mailbox'[i] = mailbox[i + 1]
      /\ Head(mailbox) = mailbox[1] /\ Head(mailbox) \in Event
  BY TailFacts DEF Emit, EventLost
<1>4. \A i \in 1 .. Len(mailbox') : i + 1 \in 1 .. Len(mailbox) /\ mailbox'[i] = mailbox[i + 1]
  BY <1>1
<1>5. \A d \in Dialogs : Queued(d) <=> d = mailbox[1] \/ Queued(d)'
  <2> TAKE d \in Dialogs
  <2>1. ASSUME Queued(d), d # mailbox[1] PROVE Queued(d)'
    <3>1. PICK i \in 1 .. Len(mailbox) : mailbox[i] = d
      BY <2>1 DEF Queued
    <3>2. i - 1 \in 1 .. Len(mailbox') /\ mailbox'[i - 1] = d
      BY <1>1, <1>4, <2>1, <3>1
    <3> QED
      BY <3>2 DEF Queued
  <2>2. ASSUME Queued(d)' PROVE Queued(d)
    BY <1>4, <2>2 DEF Queued
  <2>3. d = mailbox[1] => Queued(d)
    BY <1>1 DEF Queued
  <2> QED
    BY <2>1, <2>2, <2>3
<1>6. \A d \in Dialogs : d = mailbox[1] => ~Queued(d)'
  <2> SUFFICES ASSUME mailbox[1] \in Dialogs, NEW i \in 1 .. Len(mailbox'),
                      mailbox'[i] = mailbox[1]
               PROVE  FALSE
    BY DEF Queued
  <2>1. i + 1 \in 1 .. Len(mailbox) /\ 1 \in 1 .. Len(mailbox) /\ mailbox[i + 1] = mailbox[1]
    BY <1>1, <1>4
  <2>2. i + 1 = 1
    BY <2>1 DEF AnnouncedOnce
  <2> QED
    BY <2>2
<1> QED
  BY <1>1, <1>5, <1>6

(* The first event leaves the queue, for the listener or for nobody. *)
LEMMA TakeStep ==
  ASSUME DialogInv, Emit \/ EventLost
  PROVE  DialogStep
<1> USE DEF DialogInv, TypeOK, Event
<1>1. /\ Len(mailbox) \in Nat \ {0} /\ Len(mailbox') = Len(mailbox) - 1
      /\ \A i \in 1 .. Len(mailbox) - 1 : mailbox'[i] = mailbox[i + 1]
      /\ Head(mailbox) = mailbox[1] /\ Head(mailbox) \in Event
  BY TailFacts DEF Emit, EventLost
<1>2. UNCHANGED <<dialog, pending, desktop>> /\ Waiting' = Waiting
  BY DEF Emit, EventLost, desktop, Waiting
<1>3. \/ arriving = Nothing /\ arriving' = mailbox[1] /\ lost' = lost
      \/ arriving' = arriving /\ lost' = lost \cup ({mailbox[1]} \cap Dialogs)
  BY <1>1 DEF Emit, EventLost
<1>4. \A i \in 1 .. Len(mailbox') : i + 1 \in 1 .. Len(mailbox) /\ mailbox'[i] = mailbox[i + 1]
  BY <1>1
<1>5. \A d \in Dialogs : Queued(d) <=> d = mailbox[1] \/ Queued(d)'
  BY TakeFacts
<1>6. \A i \in 1 .. Len(mailbox') : mailbox'[i] = mailbox[1] => mailbox[1] \notin Dialogs
  BY <1>1, <1>4, SMTT(30) DEF AnnouncedOnce
<1>7. AnnouncedOnce'
  <2>1. /\ \A d \in Dialogs : dialog'[d] = "unasked" => ~Queued(d)' /\ d # arriving' /\ d \notin Seen'
        /\ \A d \in Dialogs : Queued(d)' \/ d = arriving' => d \notin Seen'
    BY <1>2, <1>3, <1>5 DEF AnnouncedOnce, Seen, desktop
  <2>2. arriving' \in Dialogs => ~Queued(arriving)'
    BY <1>3, <1>5, <1>6, EventsDiffer DEF AnnouncedOnce, Queued
  <2>3. \A i, j \in 1 .. Len(mailbox') : mailbox'[i] = mailbox'[j] /\ mailbox'[i] \in Dialogs => i = j
    BY <1>1, <1>4 DEF AnnouncedOnce
  <2> QED
    BY <2>1, <2>2, <2>3 DEF AnnouncedOnce, Queued
<1>8. ResetsComeFirst'
  <2>1. arriving' = Reset => Waiting \cap shown = {}
    BY <1>1, <1>3 DEF ResetsComeFirst
  <2>2. ASSUME NEW i \in 1 .. Len(mailbox'), mailbox'[i] = Reset
        PROVE  Waiting \cap (shown \cup {arriving'}) = {} /\ \A j \in 1 .. i - 1 : mailbox'[j] \notin Waiting
    <3>1. i + 1 \in 1 .. Len(mailbox) /\ mailbox[i + 1] = Reset
      BY <1>4, <2>2
    <3>2. Waiting \cap (shown \cup {arriving}) = {} /\ \A j \in 1 .. i : mailbox[j] \notin Waiting
      BY <1>1, <3>1 DEF ResetsComeFirst
    <3>3. \A j \in 1 .. i - 1 : j + 1 \in 1 .. i /\ mailbox'[j] = mailbox[j + 1]
      BY <1>1, <1>4, <2>2
    <3> QED
      BY <1>1, <1>3, <3>2, <3>3
  <2> QED
    BY <1>2, <2>1, <2>2 DEF ResetsComeFirst, desktop
<1>9. PendingIsWaiting' /\ AnsweredStaysGone' /\ ClearedApart'
  BY <1>2 DEF PendingIsWaiting, AnsweredStaysGone, ClearedApart, desktop
<1>10. WaitingIsReachable'
  BY <1>2, <1>3, <1>5, EventsDiffer DEF WaitingIsReachable, OnItsWay, Queued, Waiting, desktop
<1> QED
  BY <1>7, <1>8, <1>9, <1>10 DEF DialogStep

(* The event is applied: a reset finds nothing on screen that is awaited. *)
LEMMA ApplyStep ==
  ASSUME DialogInv, Apply
  PROVE  DialogStep
<1> USE DEF DialogInv, TypeOK, Event
<1>1. /\ arriving # Nothing /\ arriving' = Nothing
      /\ shown' = IF arriving = Reset THEN {} ELSE shown \cup {arriving}
      /\ UNCHANGED <<dialog, pending, mailbox, answered, responses, cleared, reloading, lost>>
      /\ Waiting' = Waiting
  BY DEF Apply, Waiting
<1>2. AnnouncedOnce'
  BY <1>1, EventsDiffer DEF AnnouncedOnce, Queued, Seen
<1>3. ResetsComeFirst'
  BY <1>1, EventsDiffer DEF ResetsComeFirst, Waiting
<1>4. WaitingIsReachable'
  BY <1>1, EventsDiffer DEF WaitingIsReachable, OnItsWay, ResetsComeFirst, Waiting
<1>5. PendingIsWaiting' /\ AnsweredStaysGone' /\ ClearedApart'
  BY <1>1, EventsDiffer DEF PendingIsWaiting, AnsweredStaysGone, ClearedApart, AnnouncedOnce, Seen
<1> QED
  BY <1>2, <1>3, <1>4, <1>5 DEF DialogStep

(* The user answers some of what is shown, or again what was answered. *)
LEMMA AnswerStep ==
  ASSUME DialogInv, NEW D \in SUBSET Seen,
         shown' = shown \ D, cleared' = cleared \ D,
         answered' = answered \cup D, responses' = responses \cup D,
         UNCHANGED <<dialog, pending, mailbox, arriving, reloading, lost>>
  PROVE  DialogStep
<1> USE DEF DialogInv, TypeOK
<1>1. Waiting' = Waiting
  BY DEF Waiting
<1>2. PendingIsWaiting' /\ ResetsComeFirst' /\ AnsweredStaysGone' /\ ClearedApart'
  BY <1>1 DEF PendingIsWaiting, ResetsComeFirst, AnsweredStaysGone, ClearedApart
<1>3. AnnouncedOnce'
  BY DEF AnnouncedOnce, Queued, Seen
<1>4. WaitingIsReachable'
  BY <1>1 DEF WaitingIsReachable, OnItsWay
<1> QED
  BY <1>2, <1>3, <1>4 DEF DialogStep

(* The view of an evicted session is thrown away. *)
LEMMA ForgetStep ==
  ASSUME DialogInv, EvictionForgets
  PROVE  DialogStep
<1> USE DEF DialogInv, TypeOK
<1>1. /\ shown' = {} /\ lost' = lost \cup shown /\ Waiting' = Waiting
      /\ UNCHANGED <<dialog, pending, mailbox, arriving, answered, responses, cleared, reloading>>
  BY DEF EvictionForgets, Waiting
<1>2. PendingIsWaiting' /\ ResetsComeFirst' /\ AnsweredStaysGone' /\ ClearedApart'
  BY <1>1 DEF PendingIsWaiting, ResetsComeFirst, AnsweredStaysGone, ClearedApart
<1>3. AnnouncedOnce'
  BY <1>1 DEF AnnouncedOnce, Queued, Seen
<1>4. WaitingIsReachable'
  BY <1>1 DEF WaitingIsReachable, OnItsWay
<1> QED
  BY <1>2, <1>3, <1>4 DEF DialogStep

(* A request that is defaulted before it is ever announced. *)
LEMMA InVainStep ==
  ASSUME DialogInv, NEW d \in Dialogs, AskInVain(d)
  PROVE  DialogStep
<1> USE DEF DialogInv, TypeOK
<1>1. /\ dialog' \in [Dialogs -> {"unasked", "waiting", "settled"}]
      /\ \A e \in Dialogs : dialog'[e] = IF e \in {d} THEN "settled" ELSE dialog[e]
      /\ pending' = pending \ {d} /\ responses' = responses \ {} /\ lost' = lost
      /\ UNCHANGED <<mailbox, arriving, shown, answered, cleared, reloading>>
  BY DEF AskInVain, PendingIsWaiting, Waiting, desktop
<1>2. {d} \in SUBSET Dialogs /\ {} \in SUBSET responses /\ {} \cap Waiting \subseteq {d} \cup lost'
      /\ lost \subseteq lost' /\ lost' \subseteq Dialogs
  BY <1>1
<1> QED
  BY ONLY DialogInv, <1>1, <1>2, SettleStep

(* The invariant is inductive. *)
LEMMA InvStep == DialogInv /\ [Next]_vars => DialogInv'
<1> SUFFICES ASSUME DialogInv, [Next]_vars PROVE DialogStep
  BY TypeStep DEF DialogInv, DialogStep
<1>1. ASSUME NEW d \in Dialogs, AskInVain(d) PROVE DialogStep
  BY <1>1, InVainStep
<1>2. ASSUME NEW d \in Dialogs, Ask(d) PROVE DialogStep
  BY <1>2, AskStep
<1>3. ASSUME NEW d \in Dialogs, Expires(d) \/ Aborts(d) PROVE DialogStep
  <2>1. /\ dialog' \in [Dialogs -> {"unasked", "waiting", "settled"}]
        /\ \A e \in Dialogs : dialog'[e] = IF e \in {d} THEN "settled" ELSE dialog[e]
        /\ pending' = pending \ {d} /\ responses' = responses \ {} /\ lost' = lost
        /\ UNCHANGED <<mailbox, arriving, shown, answered, cleared, reloading>>
    BY <1>3 DEF Expires, Aborts, Settle, desktop, DialogInv, TypeOK
  <2>2. {d} \in SUBSET Dialogs /\ {} \in SUBSET responses /\ {} \cap Waiting \subseteq {d} \cup lost'
        /\ lost \subseteq lost' /\ lost' \subseteq Dialogs
    BY <2>1 DEF DialogInv, TypeOK
  <2> QED
    BY ONLY DialogInv, <2>1, <2>2, SettleStep
<1>4. CASE Reload \/ ReloadArrives
  BY <1>4, ReloadStep
<1>12. CASE ReloadCalled
  BY <1>12, ClearStep
<1>13. CASE ReloadFails
  BY <1>13, ReloadFailsStep
<1>5. CASE Emit \/ EventLost
  BY <1>5, TakeStep
<1>6. CASE Apply
  BY <1>6, ApplyStep
<1>7. ASSUME NEW d \in Dialogs, Respond(d) PROVE DialogStep
  <2>1. {d} \in SUBSET Seen
    BY <1>7 DEF Respond, Seen
  <2> QED
    BY <1>7, <2>1, AnswerStep DEF Respond
<1>8. CASE Dismiss
  <2>1. shown \in SUBSET Seen /\ cleared' = cleared \ shown
    BY <1>8 DEF Dismiss, Seen, DialogInv, ClearedApart
  <2> QED
    BY <1>8, <2>1, AnswerStep DEF Dismiss
<1>9. ASSUME NEW d \in Dialogs, ResponseArrives(d) PROVE DialogStep
  <2>1. /\ dialog' \in [Dialogs -> {"unasked", "waiting", "settled"}]
        /\ \A e \in Dialogs : dialog'[e] = IF e \in {d} \cap pending THEN "settled" ELSE dialog[e]
        /\ pending' = pending \ ({d} \cap pending) /\ responses' = responses \ {d} /\ lost' = lost
        /\ {d} \in SUBSET responses /\ {d} \cap Waiting \subseteq {d} \cap pending
        /\ UNCHANGED <<mailbox, arriving, shown, answered, cleared, reloading>>
    BY <1>9 DEF ResponseArrives, Settle, DialogInv, TypeOK, PendingIsWaiting
  <2> QED
    BY <2>1, SettleStep DEF DialogInv, TypeOK
<1>10. ASSUME NEW d \in Dialogs, ResponseFails(d) PROVE DialogStep
  <2>1. /\ dialog' \in [Dialogs -> {"unasked", "waiting", "settled"}]
        /\ \A e \in Dialogs : dialog'[e] = IF e \in {} THEN "settled" ELSE dialog[e]
        /\ pending' = pending \ {} /\ responses' = responses \ {d}
        /\ lost' = lost \cup {d} /\ {d} \in SUBSET responses
        /\ UNCHANGED <<mailbox, arriving, shown, answered, cleared, reloading>>
    BY <1>10 DEF ResponseFails, DialogInv, TypeOK
  <2>2. {} \in SUBSET Dialogs /\ {d} \cap Waiting \subseteq {} \cup lost'
        /\ lost \subseteq lost' /\ lost' \subseteq Dialogs
    BY <2>1 DEF DialogInv, TypeOK
  <2> QED
    BY ONLY DialogInv, <2>1, <2>2, SettleStep
<1>11. CASE Residence \/ UNCHANGED vars
  <2>1. ASSUME UNCHANGED flow PROVE DialogStep
    BY <2>1 DEF flow, desktop, DialogStep, DialogInv, PendingIsWaiting, Waiting, AnnouncedOnce, Seen,
                Queued, ResetsComeFirst, WaitingIsReachable, OnItsWay, AnsweredStaysGone, ClearedApart
  <2> QED
    BY <1>11, <2>1, ResidenceKeepsFlow, ForgetStep
<1> QED
  BY <1>1, <1>2, <1>3, <1>4, <1>5, <1>6, <1>7, <1>8, <1>9, <1>10, <1>11, <1>12, <1>13
     DEF Next, Extension, Delivery, User

(* The invariant holds in every state of every behaviour. *)
THEOREM Invariant == Spec => []DialogInv
  BY InitInv, InvStep, PTL DEF Spec

(* Every variable stays in its type. *)
THEOREM TypeCorrect == Spec => []TypeOK
<1>1. DialogInv => TypeOK
  BY DEF DialogInv
<1> QED
  BY <1>1, Invariant, PTL

(* What the supervisor keeps as pending is what extensions await: no       *)
(* timeout, abort, response or reset leaves an entry behind or takes one   *)
(* away.                                                                   *)
THEOREM PendingIsExact == Spec => []PendingIsWaiting
<1>1. DialogInv => PendingIsWaiting
  BY DEF DialogInv
<1> QED
  BY <1>1, Invariant, PTL

(* No reset, no reload and no eviction makes an awaited request            *)
(* unreachable, beyond what is recorded as lost: what the desktop clears   *)
(* for a reload is still to be cancelled by it.                            *)
THEOREM Reachable == Spec => []WaitingIsReachable
<1>1. DialogInv => WaitingIsReachable
  BY DEF DialogInv
<1> QED
  BY <1>1, Invariant, PTL

(* What was answered is not shown again. *)
THEOREM AnsweredOnce == Spec => []AnsweredStaysGone
<1>1. DialogInv => AnsweredStaysGone
  BY DEF DialogInv
<1> QED
  BY <1>1, Invariant, PTL

------------------------------------------------------------------------------
(* The requests on their way. *)
Coming == {d \in Dialogs : OnItsWay(d)}

LEMMA InitQuestions == Init => Asked!Init
<1> SUFFICES ASSUME Init PROVE Coming = {}
  BY DEF Init, Asked!Init, Coming
<1>1. Len(mailbox) = 0
  BY DEF Init
<1> QED
  BY <1>1, EventsDiffer DEF Init, Coming, OnItsWay

(* Only the event of a request that is asked joins those on their way. *)
LEMMA QueueComing ==
  ASSUME TypeOK, NEW e \in Event, Queue(e), arriving' = arriving
  PROVE  Coming' = Coming \cup ({e} \cap Dialogs)
<1>1. /\ Len(mailbox) \in Nat /\ Len(mailbox') = Len(mailbox) + 1
      /\ \A i \in 1 .. Len(mailbox) : mailbox'[i] = mailbox[i]
      /\ mailbox'[Len(mailbox) + 1] = e
  BY AppendFacts DEF TypeOK, Queue
<1>2. ASSUME NEW d \in Dialogs PROVE OnItsWay(d)' <=> OnItsWay(d) \/ d = e
  <2>1. (\E i \in 1 .. Len(mailbox') : mailbox'[i] = d)
          <=> (\E i \in 1 .. Len(mailbox) : mailbox[i] = d) \/ d = e
    BY <1>1
  <2> QED
    BY <2>1 DEF OnItsWay
<1> QED
  BY <1>2 DEF Coming

(* What becomes of it when it leaves the queue, and arrives. *)
LEMMA TakeComing ==
  ASSUME DialogInv, Emit \/ EventLost
  PROVE  \/ Coming' = Coming /\ lost' = lost
         \/ \E d \in Coming : Coming' = Coming \ {d} /\ lost' = lost \cup {d}
<1>1. /\ mailbox[1] \in Event /\ Head(mailbox) = mailbox[1]
      /\ \A d \in Dialogs : Queued(d) <=> d = mailbox[1] \/ Queued(d)'
      /\ \A d \in Dialogs : d = mailbox[1] => ~Queued(d)'
  BY TakeFacts
<1>2. \/ arriving = Nothing /\ arriving' = mailbox[1] /\ lost' = lost
      \/ arriving' = arriving /\ lost' = lost \cup ({mailbox[1]} \cap Dialogs)
  BY <1>1 DEF Emit, EventLost
<1>3. \A d \in Dialogs : /\ d \in Coming <=> d = arriving \/ Queued(d)
                         /\ d \in Coming' <=> d = arriving' \/ Queued(d)'
  BY DEF Coming, OnItsWay, Queued
<1>4. Coming \subseteq Dialogs /\ Coming' \subseteq Dialogs
  BY DEF Coming
<1>5. mailbox[1] \in Dialogs => mailbox[1] # arriving
  BY <1>1 DEF DialogInv, AnnouncedOnce, Queued
<1>6. CASE arriving = Nothing /\ arriving' = mailbox[1] /\ lost' = lost
  BY <1>1, <1>3, <1>4, <1>6, EventsDiffer
<1>7. CASE arriving' = arriving /\ lost' = lost \cup ({mailbox[1]} \cap Dialogs)
  <2>1. CASE mailbox[1] \in Dialogs
    <3> DEFINE m == mailbox[1]
    <3>1. m \in Coming
      BY <1>1, <1>3, <2>1
    <3>2. \A d \in Dialogs : d \in Coming' <=> d \in Coming /\ d # m
      BY <1>1, <1>3, <1>5, <1>7, <2>1
    <3>3. m \in Coming /\ Coming' = Coming \ {m}
      BY <1>4, <3>1, <3>2
    <3> QED
      BY <1>7, <2>1, <3>3
  <2>2. CASE mailbox[1] \notin Dialogs
    BY <1>1, <1>3, <1>4, <1>7, <2>2
  <2> QED
    BY <2>1, <2>2
<1> QED
  BY <1>2, <1>6, <1>7

(* Each step is one of Questions, or none that it sees. *)
LEMMA QuestionsStep == DialogInv /\ [Next]_vars => [Asked!Next]_(Asked!vars)
<1> SUFFICES ASSUME DialogInv, [Next]_vars
             PROVE  Asked!Next \/ UNCHANGED <<dialog, Coming, shown, cleared, answered, responses, lost>>
  BY DEF Asked!vars, Coming
<1> USE DEF DialogInv
<1>0. TypeOK /\ pending = Waiting /\ Asked!Waiting = Waiting
      /\ \A D : Asked!Settled(D) = [d \in Dialogs |-> IF d \in D THEN "settled" ELSE dialog[d]]
  BY DEF PendingIsWaiting, Waiting, Asked!Waiting, Asked!Settled
<1>1. ASSUME NEW d \in Dialogs, Ask(d) PROVE Asked!Next
  <2>1. Coming' = Coming \cup {d}
    BY <1>1, QueueComing DEF Ask, Event
  <2>2. Asked!Ask(d)
    BY <1>1, <2>1 DEF Ask, Asked!Ask, Coming, desktop
  <2> QED
    BY <2>2 DEF Asked!Next
<1>2. ASSUME UNCHANGED <<mailbox, arriving>> PROVE Coming' = Coming
  BY <1>2 DEF Coming, OnItsWay
<1>3. ASSUME NEW d \in Dialogs, AskInVain(d) PROVE Asked!Next
  <2>1. Asked!Ask(d)
    BY <1>2, <1>3 DEF AskInVain, Asked!Ask, Coming, desktop
  <2> QED
    BY <2>1 DEF Asked!Next
<1>4. ASSUME NEW D \in SUBSET Waiting, Settle(D), Coming' = Coming,
             cleared' = cleared \/ (cleared \cap Waiting \subseteq D /\ cleared' = {}),
             UNCHANGED <<shown, answered, responses, lost>>
      PROVE  Asked!Next
  <2>1. Asked!Cancel(D) /\ D \in SUBSET Dialogs
    BY <1>0, <1>4 DEF Settle, Asked!Cancel, Coming, Waiting
  <2> QED
    BY <2>1 DEF Asked!Next
<1>5. ASSUME NEW d \in Dialogs, Expires(d) \/ Aborts(d) PROVE Asked!Next
  <2>1. {d} \in SUBSET Waiting
    BY <1>5 DEF Expires, Aborts, Waiting
  <2> QED
    BY <1>2, <1>4, <1>5, <2>1 DEF Expires, Aborts, desktop
<1>6. ASSUME Reload \/ ReloadArrives PROVE Asked!Next
  <2>1. Coming' = Coming
    BY <1>0, <1>6, QueueComing, EventsDiffer DEF Reload, ReloadArrives, Event
  <2> QED
    BY <1>0, <1>4, <1>6, <2>1 DEF Reload, ReloadArrives, desktop
<1>16. ASSUME ReloadCalled PROVE Asked!Next
  <2>1. Asked!Take
    BY <1>2, <1>16 DEF ReloadCalled, Asked!Take, Coming
  <2> QED
    BY <2>1 DEF Asked!Next
<1>17. ASSUME ReloadFails
       PROVE  Asked!Next \/ UNCHANGED <<dialog, Coming, shown, cleared, answered, responses, lost>>
  <2>1. Coming' = Coming /\ UNCHANGED <<dialog, shown, answered, responses>>
    BY <1>2, <1>17 DEF ReloadFails
  <2>2. ASSUME cleared' = {}, lost' = lost \cup cleared PROVE Asked!Next
    <3>1. cleared \cap (Coming \cup shown \cup responses) = {} /\ cleared \in SUBSET Dialogs
      BY <1>0 DEF ClearedApart, AnnouncedOnce, Seen, Coming, OnItsWay, Queued, TypeOK
    <3>2. Asked!Lose(cleared)
      BY <2>1, <2>2, <3>1 DEF Asked!Lose, Coming
    <3> QED
      BY <3>1, <3>2 DEF Asked!Next
  <2> QED
    BY <1>17, <2>1, <2>2 DEF ReloadFails
<1>7. ASSUME Emit \/ EventLost
      PROVE  Asked!Next \/ UNCHANGED <<dialog, Coming, shown, cleared, answered, responses, lost>>
  <2>1. UNCHANGED <<dialog, shown, cleared, answered, responses>>
    BY <1>7 DEF Emit, EventLost, desktop
  <2>2. ASSUME NEW d \in Coming, Coming' = Coming \ {d}, lost' = lost \cup {d} PROVE Asked!Next
    <3>1. d \in Dialogs /\ d \notin shown \cup cleared \cup answered /\ responses \subseteq answered
      BY <2>2 DEF Coming, OnItsWay, AnnouncedOnce, Seen, Queued, TypeOK
    <3>2. Asked!Lose({d}) /\ {d} \in SUBSET Dialogs
      BY <2>1, <2>2, <3>1 DEF Asked!Lose, Coming
    <3> QED
      BY <3>2 DEF Asked!Next
  <2> QED
    BY <1>7, <2>1, <2>2, TakeComing
<1>8. ASSUME Apply
      PROVE  Asked!Next
  <2>1. /\ arriving # Nothing /\ arriving' = Nothing /\ arriving \in Event
        /\ shown' = IF arriving = Reset THEN {} ELSE shown \cup {arriving}
        /\ UNCHANGED <<dialog, mailbox, cleared, answered, responses, lost>>
    BY <1>0, <1>8 DEF Apply, TypeOK
  <2>2. CASE arriving = Reset
    <3>1. Coming' = Coming
      BY <2>1, <2>2, EventsDiffer DEF Coming, OnItsWay
    <3>2. Asked!Clear
      BY <1>0, <2>1, <2>2, <3>1 DEF ResetsComeFirst, Asked!Clear, Coming
    <3> QED
      BY <3>2 DEF Asked!Next
  <2>3. CASE arriving # Reset
    <3>1. arriving \in Dialogs /\ arriving \in Coming /\ ~Queued(arriving)
      BY <2>1, <2>3 DEF Event, Coming, OnItsWay, AnnouncedOnce
    <3>2. Coming' = Coming \ {arriving}
      BY <2>1, <3>1, EventsDiffer DEF Coming, OnItsWay, Queued
    <3>3. Asked!Show(arriving)
      BY <2>1, <2>3, <3>1, <3>2 DEF Asked!Show, Coming
    <3> QED
      BY <3>1, <3>3 DEF Asked!Next
  <2> QED
    BY <2>2, <2>3
<1>9. ASSUME NEW D \in SUBSET Seen, Coming' = Coming,
             shown' = shown \ D, cleared' = cleared \ D,
             answered' = answered \cup D, responses' = responses \cup D,
             UNCHANGED <<dialog, lost>>
      PROVE  Asked!Next
  <2>1. Asked!Answer(D) /\ D \in SUBSET Dialogs
    BY <1>0, <1>9 DEF Asked!Answer, Coming, Seen, TypeOK
  <2> QED
    BY <2>1 DEF Asked!Next
<1>10. ASSUME NEW d \in Dialogs, Respond(d) PROVE Asked!Next
  <2>1. {d} \in SUBSET Seen
    BY <1>10 DEF Respond, Seen
  <2> QED
    BY <1>2, <1>9, <1>10, <2>1 DEF Respond
<1>11. ASSUME Dismiss PROVE Asked!Next
  <2>1. shown \in SUBSET Seen /\ cleared' = cleared \ shown
    BY <1>11 DEF Dismiss, Seen, ClearedApart
  <2> QED
    BY <1>2, <1>9, <1>11, <2>1 DEF Dismiss
<1>12. ASSUME NEW d \in Dialogs, ResponseArrives(d) PROVE Asked!Next
  <2>1. Asked!Return(d)
    BY <1>0, <1>2, <1>12 DEF ResponseArrives, Settle, Asked!Return, Coming
  <2> QED
    BY <2>1 DEF Asked!Next
<1>13. ASSUME NEW d \in Dialogs, ResponseFails(d) PROVE Asked!Next
  <2>1. /\ d \in responses /\ responses' = responses \ {d} /\ lost' = lost \cup {d}
        /\ UNCHANGED <<dialog, shown, cleared, answered>> /\ Coming' = Coming
    BY <1>2, <1>13 DEF ResponseFails
  <2>2. d \notin shown /\ d \notin cleared /\ d \notin Coming
    BY <1>0, <2>1 DEF AnsweredStaysGone, ClearedApart, AnnouncedOnce, Seen, Coming, OnItsWay, Queued, TypeOK
  <2>3. Asked!Lose({d}) /\ {d} \in SUBSET Dialogs
    BY <2>1, <2>2 DEF Asked!Lose, Coming
  <2> QED
    BY <2>3 DEF Asked!Next
<1>14. ASSUME EvictionForgets PROVE Asked!Next
  <2>1. /\ shown' = {} /\ lost' = lost \cup shown /\ UNCHANGED <<dialog, cleared, answered, responses>>
        /\ Coming' = Coming
    BY <1>2, <1>14 DEF EvictionForgets
  <2>2. shown \cap (Coming \cup responses \cup cleared) = {} /\ shown \in SUBSET Dialogs
    BY <1>0 DEF AnsweredStaysGone, ClearedApart, AnnouncedOnce, Seen, Coming, OnItsWay, Queued, TypeOK
  <2>3. Asked!Lose(shown)
    BY <2>1, <2>2 DEF Asked!Lose, Coming
  <2> QED
    BY <2>2, <2>3 DEF Asked!Next
<1>15. CASE Residence \/ UNCHANGED vars
  <2>1. UNCHANGED flow => UNCHANGED <<dialog, Coming, shown, cleared, answered, responses, lost>>
    BY <1>2 DEF flow, desktop
  <2> QED
    BY <1>14, <1>15, <2>1, ResidenceKeepsFlow
<1> QED
  BY <1>1, <1>3, <1>5, <1>6, <1>7, <1>8, <1>10, <1>11, <1>12, <1>13, <1>15,
     <1>16, <1>17 DEF Next, Extension, Delivery, User, desktop

(* The supervisor, its queue and the desktop together are Questions: each  *)
(* request is shown and answered at most once, settled once, by the first  *)
(* of its answer and its cancellation, and cleared from the screen only    *)
(* when no one awaits it, or to be cancelled, or it is recorded as lost.   *)
THEOREM Refinement == Spec => ImplementsQuestions
<1> QED
  BY InitQuestions, Invariant, QuestionsStep, PTL DEF Spec, ImplementsQuestions, Asked!Spec
==============================================================================
