------------------------------ MODULE Transcripts ------------------------------
(***************************************************************************)
(* The transcripts of the desktop's app store: driver events are taken one *)
(* at a time off sessionEventChain, text deltas wait in a batcher, and     *)
(* what results is kept in a cache, written to a sidecar file after a      *)
(* pause, evicted when memory is short and read back when the session is   *)
(* shown again.                                                            *)
(*                                                                         *)
(* What is added to a transcript is numbered as it happens, 0 being what   *)
(* its file held at the start; it goes to the end, so that a transcript in *)
(* memory or on disk is the set of what it shows, and applied the order.   *)
(* One action is the code from one await, timer or callback to the next.   *)
(***************************************************************************)
EXTENDS Naturals, Sequences

CONSTANTS
  Sessions,
  None,      \* no transcript in the cache, nothing read, nothing awaited
  MaxItems,  \* bound: events and messages
  MaxChain,  \* bound: works waiting on the chain
  MaxAll     \* bound: these, failed writes, rejected messages and evictions together

ASSUME BoundsAreNaturals == MaxItems \in Nat /\ MaxChain \in Nat /\ MaxAll \in Nat
ASSUME NoneIsNothing == None \notin Sessions /\ \A rows \in SUBSET (0 .. MaxItems) : None # rows

VARIABLES
  items,    \* events and messages so far
  sent,     \* history: the messages among them
  live,     \* the sessions whose runtime is in a run
  sending,  \* the messages of each session whose sending may yet be rejected
  running,  \* the sessions the store shows as running
  chain,    \* sessionEventChain: the work under way and those waiting
  awaiting, \* the work under way awaits its write
  batch,    \* assistantDeltaBatcher: the deltas pending for each session
  ticking,  \* its timer is set
  cache,    \* transcriptCache
  quiet,    \* what of each transcript no timer or write takes to its file
  loaded,   \* loadedTranscriptKeys
  loads,    \* transcriptLoadsBySession: what the load under way has read
  timers,   \* transcriptPersistTimers
  writes,   \* the queued writes of each session's file, the first under way
  file,     \* the transcript file of each session
  quit,     \* where the quit has come to
  owed,     \* the writes of each session up to the one that the quit awaits
  asked,    \* the sessions of which it awaits one
  applied,  \* history: all that was added to each session's transcript
  gone,     \* history: what of it was taken back, or evicted while quiet
  failed,   \* history: the sessions whose last finished write failed
  torn,     \* history: the sessions whose transcript was changed while it was
            \* not loaded, or read when the file was behind
  before,   \* history: what each session held when the quit began, without
            \* what was quiet when the quit came to the writes
  faults    \* failed writes, rejected messages and evictions so far

runtime == <<items, sent, live, sending>>
batcher == <<batch, ticking>>
memory == <<cache, quiet, loaded, loads>>
disk == <<timers, writes, file>>
quitting == <<quit, owed, asked, before>>
histories == <<applied, gone, failed, torn, faults>>
vars == <<runtime, running, chain, awaiting, batcher, memory, disk, quitting, histories>>

Texts == Seq(0 .. MaxItems)
Rows == SUBSET (0 .. MaxItems)
Kinds == {"delta", "note", "notice", "end"}
Quits == {"no", "flushing", "waiting", "exited", "cut"}
Events == [kind: Kinds, session: Sessions, id: 1 .. MaxItems]
Flushes == [kind: {"flush", "quit"}]
Elements(s) == {s[i] : i \in 1 .. Len(s)}
Pending == {s \in Sessions : batch[s] # <<>>}
Kept(s) == IF cache[s] = None THEN {} ELSE cache[s]
Left(s) == Elements(applied[s]) \ gone[s]
Runs == quit \notin {"exited", "cut"}
Room == items + faults < MaxAll

(* Some transcripts are loaded, and some of their sessions run. *)
Init ==
  /\ items = 0 /\ sent = {} /\ sending = [s \in Sessions |-> 0]
  /\ loaded \in SUBSET Sessions /\ live \in SUBSET loaded /\ running = live
  /\ chain = <<>> /\ awaiting = None
  /\ batch = [s \in Sessions |-> <<>>] /\ ticking = FALSE
  /\ cache = [s \in Sessions |-> IF s \in loaded THEN {0} ELSE None]
  /\ quiet = [s \in Sessions |-> {}]
  /\ loads = [s \in Sessions |-> None]
  /\ timers = {} /\ writes = [s \in Sessions |-> <<>>] /\ file = [s \in Sessions |-> {0}]
  /\ quit = "no" /\ owed = [s \in Sessions |-> 0] /\ asked = {} /\ before = [s \in Sessions |-> {}]
  /\ applied = [s \in Sessions |-> <<0>>] /\ gone = [s \in Sessions |-> {}]
  /\ failed = {} /\ torn = {} /\ faults = 0

------------------------------------------------------------------------------
(* What is added goes to the end of the cached transcript, if there is one *)
(* or not.                                                                 *)
Adds(s, more) ==
  /\ cache' = [cache EXCEPT ![s] = Kept(s) \cup Elements(more)]
  /\ applied' = [applied EXCEPT ![s] = @ \o more]
  /\ torn' = IF s \in loaded THEN torn ELSE torn \cup {s}

(* The pause before the next write begins, or begins anew.  The write will *)
(* be of all that is cached then.                                          *)
Schedules(s) ==
  /\ timers' = timers \cup {s}
  /\ quiet' = [quiet EXCEPT ![s] = {}]

(* handleSessionEvent: the driver's event joins the chain.  A job or a     *)
(* notice of an extension may come without a run.                          *)
Emit(s, kind) ==
  /\ Runs /\ Room /\ items < MaxItems /\ Len(chain) < MaxChain
  /\ kind \in {"delta", "end"} => s \in live
  /\ items' = items + 1
  /\ live' = IF kind = "end" THEN live \ {s} ELSE live
  /\ UNCHANGED <<sent, sending>>
  /\ chain' = Append(chain, [kind |-> kind, session |-> s, id |-> items + 1])
  /\ UNCHANGED <<running, awaiting, batcher, memory, disk, quitting, histories>>

(* sendMessageToSession: the user's message, and the run it begins. *)
Send(s) ==
  /\ Runs /\ Room /\ items < MaxItems
  /\ s \in loaded /\ s \notin running
  /\ items' = items + 1
  /\ sent' = sent \cup {items + 1}
  /\ live' = live \cup {s}
  /\ sending' = [sending EXCEPT ![s] = @ + 1]
  /\ running' = running \cup {s}
  /\ Adds(s, <<items + 1>>)
  /\ Schedules(s)
  /\ UNCHANGED <<chain, awaiting, batcher, loaded, loads, writes, file, quitting,
                 gone, failed, faults>>

(* What may be the last row of the cached transcript: a message, or what   *)
(* came behind the last message.  Which events changed one row is left     *)
(* open.                                                                   *)
After(s, x) == {applied[s][j] : j \in {k \in 1 .. Len(applied[s]) :
                                         \E i \in 1 .. k - 1 : applied[s][i] = x}}
IsLastRow(s, row) ==
  \E x \in row :
    /\ row \subseteq After(s, x) \cup {x} /\ (x \in sent => row = {x})
    /\ Kept(s) \cap After(s, x) \cap sent = {}

(* The driver rejects the message, perhaps long after: its row is taken    *)
(* back, which is whichever is the last row by now, loaded or not.  A      *)
(* message that is sent, or not to be taken back, changes nothing more.    *)
Rejected(s) ==
  /\ Runs /\ Room /\ sending[s] > 0
  /\ faults' = faults + 1
  /\ sending' = [sending EXCEPT ![s] = @ - 1]
  /\ running' = running \ {s}
  /\ \E row \in SUBSET Kept(s) :
       /\ IF Kept(s) = {} THEN row = {} ELSE IsLastRow(s, row)
       /\ cache' = [cache EXCEPT ![s] = Kept(s) \ row]
       /\ gone' = [gone EXCEPT ![s] = @ \cup row]
  /\ torn' = IF s \in loaded THEN torn ELSE torn \cup {s}
  /\ Schedules(s)
  /\ UNCHANGED <<items, sent, live, chain, awaiting, batcher, loaded, loads, writes, file,
                 quitting, applied, failed>>

------------------------------------------------------------------------------
Under(kind) == Runs /\ chain # <<>> /\ awaiting = None /\ Head(chain).kind = kind

(* A delta waits in the batcher. *)
HandleDelta ==
  LET e == Head(chain)
  IN  /\ Under("delta")
      /\ batch' = [batch EXCEPT ![e.session] = Append(@, e.id)]
      /\ ticking' = TRUE
      /\ chain' = Tail(chain)
      /\ UNCHANGED <<runtime, running, awaiting, memory, disk, quitting, histories>>

(* Mutant: the timer is cleared though another session's deltas wait. *)
ApplyBatchStopsTimer(s) ==
  /\ batch[s] # <<>>
  /\ \/ Under("flush") \/ Under("quit")
     \/ (Under("note") \/ Under("notice") \/ Under("end")) /\ Head(chain).session = s
  /\ batch' = [batch EXCEPT ![s] = <<>>]
  /\ ticking' = FALSE
  /\ Adds(s, batch[s])
  /\ Schedules(s)
  /\ UNCHANGED <<runtime, running, chain, awaiting, loaded, loads, writes, file,
                 quitting, gone, failed, faults>>

(* takeAll, takeFor: the deltas are applied, for a flush or ahead of       *)
(* another event of their session.                                         *)
ApplyBatch(s) ==
  /\ batch[s] # <<>>
  /\ \/ Under("flush") \/ Under("quit")
     \/ (Under("note") \/ Under("notice") \/ Under("end")) /\ Head(chain).session = s
  /\ batch' = [batch EXCEPT ![s] = <<>>]
  /\ ticking' = (ticking /\ Pending # {s})
  /\ Adds(s, batch[s])
  /\ Schedules(s)
  /\ UNCHANGED <<runtime, running, chain, awaiting, loaded, loads, writes, file,
                 quitting, gone, failed, faults>>

(* The batcher's timer puts a flush on the chain, which ends when nothing  *)
(* is pending.                                                             *)
Tick ==
  /\ Runs /\ ticking
  /\ ticking' = FALSE
  /\ chain' = Append(chain, [kind |-> "flush"])
  /\ UNCHANGED <<runtime, running, awaiting, batch, memory, disk, quitting, histories>>

FlushEnds ==
  /\ Under("flush") /\ Pending = {}
  /\ chain' = Tail(chain)
  /\ UNCHANGED <<runtime, running, awaiting, batcher, memory, disk, quitting, histories>>

(* Mutant: an event is applied ahead of the deltas before it. *)
HandleNoteFirst ==
  LET e == Head(chain)
  IN  /\ Under("note")
      /\ Adds(e.session, <<e.id>>)
      /\ Schedules(e.session)
      /\ chain' = Tail(chain)
      /\ UNCHANGED <<runtime, running, awaiting, batcher, loaded, loads, writes, file,
                     quitting, gone, failed, faults>>

(* applySessionEventImmediately, persisted after a pause. *)
HandleNote ==
  LET e == Head(chain)
  IN  /\ Under("note") /\ batch[e.session] = <<>>
      /\ Adds(e.session, <<e.id>>)
      /\ Schedules(e.session)
      /\ chain' = Tail(chain)
      /\ UNCHANGED <<runtime, running, awaiting, batcher, loaded, loads, writes, file,
                     quitting, gone, failed, faults>>

(* A notice of an extension is not persisted.  A write that waits for its  *)
(* pause will take it along.                                               *)
HandleNotice ==
  LET e == Head(chain)
  IN  /\ Under("notice") /\ batch[e.session] = <<>>
      /\ Adds(e.session, <<e.id>>)
      /\ quiet' = IF e.session \in timers THEN quiet
                  ELSE [quiet EXCEPT ![e.session] = @ \cup {e.id}]
      /\ chain' = Tail(chain)
      /\ UNCHANGED <<runtime, running, awaiting, batcher, loaded, loads, disk,
                     quitting, gone, failed, faults>>

(* The end of a run is persisted at once, and awaited. *)
HandleEnd ==
  LET e == Head(chain)
  IN  /\ Under("end") /\ batch[e.session] = <<>>
      /\ Adds(e.session, <<e.id>>)
      /\ running' = running \ {e.session}
      /\ timers' = timers \ {e.session}
      /\ quiet' = [quiet EXCEPT ![e.session] = {}]
      /\ writes' = [writes EXCEPT ![e.session] = Append(@, cache'[e.session])]
      /\ awaiting' = e.session
      /\ UNCHANGED <<runtime, chain, batcher, loaded, loads, file, quitting, gone, failed, faults>>

(* The pause is over: write what is cached. *)
TimerFires(s) ==
  /\ Runs /\ s \in timers
  /\ timers' = timers \ {s}
  /\ writes' = [writes EXCEPT ![s] = Append(@, Kept(s))]
  /\ UNCHANGED <<runtime, running, chain, awaiting, batcher, memory, file, quitting, histories>>

(* A write of JsonFileStore ends.  The work that awaits the session's last *)
(* write ends with it, whether it succeeded or not.                        *)
WriteEnds(s) ==
  /\ Runs /\ writes[s] # <<>>
  /\ writes' = [writes EXCEPT ![s] = Tail(@)]
  /\ owed' = [owed EXCEPT ![s] = IF @ = 0 THEN 0 ELSE @ - 1]
  /\ IF awaiting = s /\ Len(writes[s]) = 1
     THEN awaiting' = None /\ chain' = Tail(chain)
     ELSE UNCHANGED <<awaiting, chain>>
  /\ UNCHANGED <<runtime, running, batcher, memory, timers, asked, before, applied, gone, torn>>

(* Mutant: a file's queue is forgotten under a newer write, and writes of  *)
(* it overtake each other.                                                 *)
WriteLandsUnordered(s) ==
  \E i \in 1 .. Len(writes[s]) :
    /\ Runs
    /\ file' = [file EXCEPT ![s] = writes[s][i]]
    /\ writes' = [writes EXCEPT ![s] = SubSeq(@, 1, i - 1) \o SubSeq(@, i + 1, Len(@))]
    /\ owed' = [owed EXCEPT ![s] = IF @ = 0 THEN 0 ELSE @ - 1]
    /\ IF awaiting = s /\ i = Len(writes[s])
       THEN awaiting' = None /\ chain' = Tail(chain)
       ELSE UNCHANGED <<awaiting, chain>>
    /\ failed' = failed \ {s}
    /\ UNCHANGED <<runtime, running, batcher, memory, timers, quit, asked, before,
                   applied, gone, torn, faults>>

WriteLands(s) ==
  /\ WriteEnds(s)
  /\ file' = [file EXCEPT ![s] = Head(writes[s])]
  /\ failed' = failed \ {s}
  /\ UNCHANGED <<quit, faults>>

(* If it is one that the quit awaits, the app exits without the others.    *)
WriteFails(s) ==
  /\ Room
  /\ WriteEnds(s)
  /\ failed' = failed \cup {s}
  /\ faults' = faults + 1
  /\ quit' = IF owed[s] = 1 THEN "cut" ELSE quit
  /\ UNCHANGED file

------------------------------------------------------------------------------
(* ensureTranscriptLoaded: one load per session. *)
LoadReads(s) ==
  /\ Runs
  /\ s \notin loaded /\ loads[s] = None
  /\ loads' = [loads EXCEPT ![s] = file[s]]
  /\ torn' = IF writes[s] # <<>> \/ s \in failed THEN torn \cup {s} ELSE torn
  /\ UNCHANGED <<runtime, running, chain, awaiting, batcher, cache, quiet, loaded, disk,
                 quitting, applied, gone, failed, faults>>

LoadEnds(s) ==
  /\ Runs
  /\ loads[s] # None
  /\ cache' = [cache EXCEPT ![s] = loads[s]]
  /\ loaded' = loaded \cup {s}
  /\ loads' = [loads EXCEPT ![s] = None]
  /\ UNCHANGED <<runtime, running, chain, awaiting, batcher, quiet, disk, quitting, histories>>

(* Mutant: a transcript that is still to be written may be evicted. *)
EvictUnwritten(s) ==
  /\ Runs /\ Room
  /\ faults' = faults + 1
  /\ cache[s] # None
  /\ s \notin running
  /\ cache' = [cache EXCEPT ![s] = None]
  /\ loaded' = loaded \ {s}
  /\ quiet' = [quiet EXCEPT ![s] = {}]
  /\ gone' = [gone EXCEPT ![s] = @ \cup quiet[s]]
  /\ UNCHANGED <<runtime, running, chain, awaiting, batcher, loads, disk, quitting,
                 applied, failed, torn>>

(* pruneFullTranscriptCache, over a limit of entries or of bytes.  The     *)
(* selected session is spared: any other may be the selected one.          *)
Evict(s) ==
  /\ Runs /\ Room
  /\ faults' = faults + 1
  /\ cache[s] # None
  /\ s \notin running \cup timers
  /\ cache' = [cache EXCEPT ![s] = None]
  /\ loaded' = loaded \ {s}
  /\ quiet' = [quiet EXCEPT ![s] = {}]
  /\ gone' = [gone EXCEPT ![s] = @ \cup quiet[s]]
  /\ UNCHANGED <<runtime, running, chain, awaiting, batcher, loads, disk, quitting,
                 applied, failed, torn>>

------------------------------------------------------------------------------
(* before-quit: flushPersistence flushes the deltas behind the events that *)
(* came before,                                                            *)
QuitStarts ==
  /\ quit = "no"
  /\ quit' = "flushing"
  /\ chain' = Append(chain, [kind |-> "quit"])
  /\ before' = [s \in Sessions |->
       Elements(applied[s]) \cup Elements(batch[s])
         \cup {chain[i].id : i \in {j \in 1 .. Len(chain) :
                 chain[j].kind \in Kinds /\ chain[j].session = s}}]
  /\ UNCHANGED <<runtime, running, awaiting, batcher, memory, disk, owed, asked, histories>>

(* Mutant: the writes are begun and not awaited. *)
QuitAwaitsNothing ==
  /\ Under("quit") /\ Pending = {}
  /\ chain' = Tail(chain)
  /\ quit' = "waiting"
  /\ timers' = {}
  /\ writes' = [s \in Sessions |-> IF s \in timers THEN Append(writes[s], Kept(s)) ELSE writes[s]]
  /\ asked' = timers
  /\ before' = [s \in Sessions |-> before[s] \ quiet[s]]
  /\ UNCHANGED <<runtime, running, awaiting, batcher, memory, file, owed, histories>>

(* then writes at once what waits for its pause, *)
QuitCollects ==
  /\ Under("quit") /\ Pending = {}
  /\ chain' = Tail(chain)
  /\ quit' = "waiting"
  /\ timers' = {}
  /\ writes' = [s \in Sessions |-> IF s \in timers THEN Append(writes[s], Kept(s)) ELSE writes[s]]
  /\ owed' = [s \in Sessions |-> IF s \in timers THEN Len(writes'[s]) ELSE 0]
  /\ asked' = timers
  /\ before' = [s \in Sessions |-> before[s] \ quiet[s]]
  /\ UNCHANGED <<runtime, running, awaiting, batcher, memory, file, histories>>

(* and the app exits when these writes are done, *)
QuitEnds ==
  /\ quit = "waiting"
  /\ \A s \in Sessions : owed[s] = 0
  /\ quit' = "exited"
  /\ UNCHANGED <<runtime, running, chain, awaiting, batcher, memory, disk, owed, asked,
                 before, histories>>

(* or ten seconds have passed. *)
QuitTimesOut ==
  /\ quit \in {"flushing", "waiting"}
  /\ quit' = "cut"
  /\ UNCHANGED <<runtime, running, chain, awaiting, batcher, memory, disk, owed, asked,
                 before, histories>>

ChainStep ==
  \/ HandleDelta \/ HandleNote \/ HandleNotice \/ HandleEnd \/ FlushEnds \/ QuitCollects
  \/ \E s \in Sessions : ApplyBatch(s)

Next ==
  \/ \E s \in Sessions :
       \/ \E kind \in Kinds : Emit(s, kind)
       \/ Send(s) \/ Rejected(s) \/ TimerFires(s) \/ WriteLands(s) \/ WriteFails(s)
       \/ LoadReads(s) \/ LoadEnds(s) \/ Evict(s)
  \/ ChainStep \/ Tick \/ QuitStarts \/ QuitEnds \/ QuitTimesOut

Spec == Init /\ [][Next]_vars

------------------------------------------------------------------------------
TypeOK ==
  /\ items \in 0 .. MaxItems /\ sent \subseteq 1 .. MaxItems
  /\ live \subseteq Sessions /\ running \subseteq Sessions /\ sending \in [Sessions -> Nat]
  /\ chain \in Seq(Events \cup Flushes) /\ awaiting \in Sessions \cup {None}
  /\ batch \in [Sessions -> Texts] /\ ticking \in BOOLEAN
  /\ cache \in [Sessions -> Rows \cup {None}] /\ quiet \in [Sessions -> Rows]
  /\ loaded \subseteq Sessions /\ loads \in [Sessions -> Rows \cup {None}]
  /\ timers \subseteq Sessions /\ writes \in [Sessions -> Seq(Rows)] /\ file \in [Sessions -> Rows]
  /\ quit \in Quits /\ owed \in [Sessions -> Nat] /\ asked \subseteq Sessions
  /\ before \in [Sessions -> Rows]
  /\ applied \in [Sessions -> Texts] /\ gone \in [Sessions -> Rows]
  /\ failed \subseteq Sessions /\ torn \subseteq Sessions
  /\ faults \in 0 .. MaxAll

(* The events of a session, batched deltas included, are added in the      *)
(* order in which they came; a message of the user may overtake them.      *)
EventsInOrder ==
  \A s \in Sessions : \A i, j \in 1 .. Len(applied[s]) :
    i < j /\ {applied[s][i], applied[s][j]} \cap sent = {} => applied[s][i] < applied[s][j]

(* A loaded transcript is all that was added to it, through evictions,     *)
(* reads, rejected messages and failed writes, but for what was taken back *)
(* and for notices evicted before any other change had them written; unless *)
(* it was changed while it was not loaded or read while the file was       *)
(* behind.                                                                 *)
ShownIsComplete == \A s \in loaded \ torn : cache[s] = Left(s)

(* Of what was added to a session, these hold nothing without, unless it   *)
(* is gone, what came before.                                              *)
Begins(s, rows) ==
  \A i, j \in 1 .. Len(applied[s]) :
    i < j /\ applied[s][j] \in rows => applied[s][i] \in rows \cup gone[s]

(* With the same exception, what a transcript holds beyond its file waits  *)
(* for a timer or a write or is a quiet notice, and what a file lacks is   *)
(* the newest.                                                             *)
FileFollows ==
  \A s \in Sessions \ torn :
    /\ s \notin timers \cup failed /\ writes[s] = <<>> => file[s] = Left(s) \ quiet[s]
    /\ Begins(s, file[s])

(* What is to be written, or failed to be. *)
Unwritten == timers \cup failed \cup {s \in Sessions : writes[s] # <<>>}

(* The transcripts and their files are a PersistedLog: through evictions,  *)
(* reads, rejected messages, failed writes and the quit, each file follows *)
(* its transcript step by step, never loses what the transcript has left,  *)
(* and once nothing is to be written holds all of that but the quiet       *)
(* notices.                                                                *)
Log == INSTANCE PersistedLog WITH
  said <- applied, loose <- quiet, stored <- file, waiting <- Unwritten, spoilt <- torn

ImplementsPersistedLog == Log!Spec

(* A quit that is not cut short leaves on disk what was in memory, in the  *)
(* batcher or on the chain when it began, failures of earlier and later    *)
(* writes notwithstanding, but for what is taken back and for notices that *)
(* nothing took to the file until then; of a session that had no write to  *)
(* wait for its pause, unless its last write, which the quit does not      *)
(* await, is still under way or has failed.                                *)
QuitKeeps ==
  quit = "exited" =>
    \A s \in Sessions \ torn :
      \/ before[s] \subseteq file[s] \cup gone[s]
      \/ s \notin asked /\ (writes[s] # <<>> \/ s \in failed)

(* No delta is left in the batcher: while one waits, for whichever        *)
(* session, the timer is set or a flush is on the chain.                   *)
DeltasWillArrive ==
  Pending # {} => ticking \/ \E i \in 1 .. Len(chain) : chain[i].kind \in {"flush", "quit"}

(* "Transcript fidelity on disk remains lossless unless the user           *)
(* explicitly deletes history."                                            *)
FileKeepsHistory ==
  [][\A s \in Sessions : file[s] \subseteq file'[s] \cup gone'[s]]_vars
==============================================================================
