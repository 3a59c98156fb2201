# A TLA+ verification of pi-gui

pi-gui is an Electron desktop shell for the `pi` coding agent. One Node process runs the SDK sessions, keeps
their records and catalog, and streams their events to the windows. There are no threads; what makes the
program hard is that every operation is a chain of `await`s, so that any two operations on one session, or two
writes of one file, interleave at every await, and that any of those awaits may reject. The modules here model that:
one action is the code between two awaits.

Paths below are relative to the repository; `S` is `packages/pi-sdk-driver/src/session-supervisor.ts` and
`E` is `apps/desktop/electron/`.

## 1. The system's parts

| part | state | operations | talks to | what is hard, and what makes it correct |
|---|---|---|---|---|
| event mailbox (`S`, `queueDriverEvents`, `startDriverEventDrain`, `emit`, `subscribe`) | `pendingEventBatches`, `eventDrainActive`, `eventQueue`, `listeners` | queue, coalesce, drain, subscribe, await the queue | agent events in; the catalog, listeners out | lost wake-ups, order across coalescing, a write or listener that rejects. Delivered in order, once, nothing stranded |
| session runtime (`S`, `ManagedSessionRecord`) | `runtime`, `session`, `status`, `runningRunId`, `closed`, `archivedAt`, `runtimeJobs`, `recordOpenPromises` | open, send, cancel, suspend, close, archive | SDK runtimes, catalog, mailbox | calls that check before an await and act after it. One live runtime per session, a status that tells the truth, a catalog that agrees |
| catalog store (`json-catalog-store.ts`) | `state`, `loadPromise`, `writeQueue`, `catalogs.json` and its temporary files | load, mutate, persist | the file system; the desktop opens a second one over the same file (`E`app-store.ts:431) | crashes, failed writes, two writers. Acknowledged is durable, the file always parses |
| host UI dialogs (`S`:1186-1239, `E`app-store.ts:2335-2531, 2669-2712) | `pendingHostUiRequests`; the desktop's `pendingDialogs` | ask, answer, time out, abort, reset, show, dismiss | extensions, the mailbox, the user, the eviction of the session | first outcome wins, none left behind, what is awaited can be answered |
| queued messages of a run (`S`:478-590) | `queuedMessages` and the SDK's queue | queue, deliver, replace, clear | SDK session | two lists that must agree |
| tree, fork, new session (`S`) | a record's key and `ref` | navigate, rebind | SDK runtime | the key changes under a running call |
| runtime jobs (`runtime-job-registry.ts`, `pty-bash-tool.ts`) | jobs by call and pid, `bashLifecycleGeneration` | start, claim, end, kill | processes | late events of an old runtime |
| runtime supervisor (`runtime-supervisor.ts`) | runtime snapshot per workspace | refresh, log in, configure | SDK model runtime | overlapping refreshes |
| transcripts (`E`app-store.ts, assistant-delta-batcher.ts, json-file-store.ts) | `sessionEventChain`, pending deltas and their timer, `transcriptCache`, loads, debounce timers, write queues | handle an event, batch, load, evict, persist, flush at quit | the mailbox in, sidecar files out | order against batched deltas; eviction and reads against writes; the quit. What was added is shown and on disk, in order |
| the rest of the app store (`E`app-store*.ts) | `DesktopAppState`, `sessionState`: selection, subscriptions, drafts, queued items | select, hydrate, prune | driver, renderer, stores | selection and events during awaits; eviction of dormant sessions; bounds on reads |
| other file stores (`E`execution-boundary-store.ts, prompt-shelf-store.ts, project-action-store.ts) | caches | read, write | files | a cold cache filled by two callers |
| checkpoints (`E`checkpoint-store.ts) | manifests, blobs, `retentionPolicy` with its leases, the operation queue | create, finalize, preview, restore, reject hunks, set the policy, prune, collect | the worktree, `retention.json` | edits under a restore, retention against restores, a policy used before it is read, crashes. What is overwritten is in a checkpoint first |
| evidence, context manifests (`E`task-evidence-*.ts, context-manifest-store.ts) | ledgers | append, query | events | concurrent runs |
| subagent runs (`E`subagent-*.ts) | run records | observe, finish | files, events | reports out of order |
| VS Code servers (`E`vscode-server-manager.ts) | `servers`, `serverStartups`, `startupQueue`, `scheduledServerStops`, lease files | ensure, schedule a stop, kill all, reclaim at launch | child processes, panels | a stop scheduled while a panel reopens, late exits, crashes. No server without someone who will stop it |
| terminals (`E`terminal-service.ts) | `rootsByKey`, `sessionsById`, shells | open, create, restart, close, retain workspaces, dispose | pty, the store's workspaces, the window | ceilings, exits that come late. No shell without a terminal, no terminal without a tab |
| notifications, updates, memory guard (`E`) | last states, timers | check, notify, evict | OS | cooldowns |
| main, preload, IPC, renderer | windows, views | | | wiring and presentation |
| source control, usage, observability, remote execution, agent definitions, themes, skills | external or derived data | | git, files | no concurrency of their own |

The parts meet as follows. A window's command reaches the app store by IPC, and the app store calls the driver. The
driver's `SessionSupervisor` opens an SDK runtime for the session, whose agent calls `handleAgentEvent`
synchronously: the record changes at once, and the mapped events go to the mailbox, whose drain persists the record
in the catalog and calls the listeners; the app store is one. `PROJECT.json` lists every part with its status,
and, under `hazards`, each place where the code can go wrong in a way a test would hardly reach, with the properties
that watch it or the module that is planned for it.

## 2. What is modelled

### The event mailbox: `DriverMailbox`, `OrderedDelivery`

`pending`, `drainActive` are `pendingEventBatches`, `eventDrainActive`; `phase` is where the drain awaits
(persisting, emitting, about to run `finally`); `cur` is the batch it has shifted, `calling` and `todo` the
listener it awaits and those `emit` has still to call. Events are numbered in queueing order; a merged event
covers a range of numbers, and its payload is the stream it belongs to. `Queue` is `queueDriverEvents` whole: the
coalescing rule (`Mergeable`, `MergedEvent`), the batch, and the synchronous start of the drain up to its first
await. `DrainThrows` is a catalog write or a listener that rejects: the rest of the batch goes down with it.
`Finally` clears the flag and restarts the drain if something was queued meanwhile. `log`, `since`, `lost` are
history variables. `OrderedDelivery` is the promise: numbers are offered, and each listener is called with runs of them
that only move forward.

Not in this module: the events that methods `emit` directly, past the mailbox.

### One session: `SessionRuntime`

`record` has the fields of `ManagedSessionRecord` that decide something (`runtime` stands for both `runtime`
and `session`, `agent` for the runtime whose agent the record is subscribed to, `job` for the registry having an
active job); `runtimes` are the SDK runtimes by the order in which they were opened; `entry` is the catalog's entry of
the session; `pendingOpen` is `recordOpenPromises`. Each of `Callers` is in at most one call, at a point named after
what it awaits. A call starts by `Ensure` (`ensureRecord`), `Cancel`, `Suspend`, `Close` or `Archive`, and each
further action is the code from one await to the next. `"queue"` is a message with `deliverAs`, `"command"` an
extension's command; `"open"` stands for every method that only needs the record. The agent's events are
synchronous (`AgentEnds`, `JobStarts`); the mailbox is reduced to `dirty`, a snapshot still to be persisted, and
a write of the catalog is one step, which the other two modules justify. `EnsureFails`, `SendFails`, `CallFails`
are rejections, at most `MaxFailures`.

Abstracted: the SDK runtime is live, disposing or disposed, streams or not. An aborted run ends in `idle`, any
other in `idle` or `failed`. A catalog entry is a status and an archive flag; titles, previews and configs are left
out.

### The requests of extensions: `HostUiDialogs`, `Questions`

`dialog` is what became of the promise of each request, `pending` the keys of `pendingHostUiRequests`; `mailbox`
and `arriving` are the event queue of the record, reduced to `hostUiRequest` events that are delivered in order or
lost, as `DriverMailbox` allows; `shown` is the desktop's `pendingDialogs`, `responses` are its calls back. `Ask`
is `createDialogPromise`, `AskInVain` its early returns, `Expires`, `Aborts`, `Reload` (`resetExtensionUi`, of the
extension's own context), `ReloadArrives` and `ResponseArrives` the ways a promise is settled. The desktop's reloads
(`/reload`, `refreshRuntime`, `withRuntimeUpdate`) clear the screen before they call the driver (`ReloadCalled`): what
they take is `cleared` until the call has the session open and cancels it (`ReloadArrives`), or rejects
(`ReloadFails`). `Apply` is `applyHostUiRequest`, `Respond` and `Dismiss` the app
store's calls. The actions named after the eviction are `pruneDormantSessionRuntimes`, and those named after the
suspension `suspendSessionRuntime`, as far as they look at dialogs; both may refuse for other reasons. `lost`
records each request for which an event was emitted to no one or went down with its batch, a response was rejected,
the view was thrown away with an evicted session, or the reload it was cleared for was rejected; `answered` is history
too.

`Questions` is what remains for the extension when the record's map, the mailbox, the runtime and the eviction are
hidden: a request comes to the user at most once and never after it was answered, its promise settles once, by what
comes first, one that is awaited is taken off the screen only to be cancelled (`leaving`), and may be answered until
then, and whatever else becomes of a request is a loss.
`HostUiDialogs` implements it with what is on its way: the requests in the event queue or being delivered (`coming`),
those cleared for a reload (`leaving`) and the responses of the desktop (`returning`).

A window that has not been redrawn may answer what a reload has cleared while the call is under way; the instant
between a rejected call and the redrawing is left out.

Not in this module: `closeSession`, which the desktop never calls; the rebinding of a record to another session;
statuses, widgets, titles and editor texts.

### The catalog file: `CatalogStore`, `DurableMap`

`disk` is `catalogs.json`, `tmp` the temporary files, by the tick of `Date.now()` in their names; a file is
whole or half-written. For each instance of the class: `loaded` is `loadPromise`, `memory` is `state`,
`queue` the writes chained on `writeQueue`, `job` the one under way. An entry's content is the number of its
newest change. `MutateState` changes the memory and queues a write; `BeginWrite` takes the payload (the memory as
it is then), `EndWrite` completes the temporary file, `Rename` puts it in place and acknowledges; `WriteFails`
rejects one write; `Crash` forgets everything but the disk. `acked` and `rejected` are history.

`DurableMap` is what a store that has the file to itself promises its callers: a change is seen at once, writes settle
one after the other, what is stored is replaced in one step by the whole contents as they were after some change that
had not settled yet, never undoing an entry, a rejected write leaves its change to the next one, and a crash goes back to
what is stored. `CatalogStore` implements it for its one store: temporary files, half-written files, the load and the
point a write has reached are hidden, and the contents before the first load are those on disk.

### The servers of VS Code panels: `VsCodeServers`

`panel` are the folders whose panel is mounted; `servers` is the map of the same name, `startups` is `serverStartups`
with the await each startup is at, `queue` the chain of `startupQueue` (its head holds the lock), `timers` is
`scheduledServerStops`; `procs` are the child processes in the order of their spawning, each with the launch of the app
that spawned it, and `leases` the lease files. `Mount` is a panel's call of `ensureVSCodeServer`, `Unmount` the
scheduled stop, `TimerFires` the stop. A startup goes from `StartServer` (the lock is free) over `ReuseAnswers` and
`ReuseServes`, or `ReuseFails` (a listed server that is alive is probed, and its settings seeded again), and `Spawn`,
`Answers`, `StartupServes`, or ends in `NothingSpawned`, `StartupFails` or `LeaseFails`: `writeLease` throws after the
server is listed and before the `try` and the exit listener. `Exit` is a process's end with the callback that takes it
off the list, if there is one; `KillAll` the last window or the quit; `Down` and `Launch` a crash or an exit of the app,
and the reclaim by leases; `DownSpawning` a crash between the spawn and the rename of the lease. `erased` and `unleased`
are history. The removal of a lease file, and the `ps` by which a launch recognizes its servers, are taken to succeed.

### Checkpoints: `Checkpoints`

One file of one workspace, its `manifests`, and its `blobs`, of which `torn` are those a write has begun and not
ended; `disk` is `retention.json`, `policy` is `retentionPolicy`, `load` `retentionLoaded` with the caller who awaits
the read, and `found` what that read has found, at some time while it lasts. `job` is the one operation under way in
`operationQueue`, at the await it has reached; `view` is a preview, or a read of the policy, which do not go through
that queue. Creation is `Hash`, `ReadFile`, `WriteBlob`, `Record`, `Retain`, `Prune`, `Collect`; `list` may miss any
manifest, in `Retain` and again in `Collect`, since the code takes what it cannot read for absent, and any unlink may
fail; a restore takes a lease, classifies, makes such a checkpoint as its rollback, looks at the file once more
(`Check`), replaces it (`Restore`) and gives the lease back; `RejectStarts` and `Reject` do so without the lease;
`SetPolicy` and `Release` write the policy and prune. `JobFails` is any read or write that rejects, except that a read
of the policy which fails leaves the default (`LoadEnds`); `Edit` is a change of the file from outside, `Crash` a stop
and restart. `edited`, `promised`, `strayed` and `missed` are history.

Abstracted: a checkpoint has one file and not several, its hash is its content, sizes and ages are not modelled (only
the number of checkpoints is limited), and the hunks to reject are any other content.

### Transcripts: `Transcripts`, `PersistedLog`

`chain` is `sessionEventChain` with the work under way at its head, `awaiting` tells that it awaits its write; `batch`
and `ticking` are the batcher's pending text and its timer; `cache`, `loaded`, `loads` are `transcriptCache`,
`loadedTranscriptKeys` and `transcriptLoadsBySession`; `sending` counts the `sendMessageToSession` calls that may
still reject; `quiet` is what of a transcript neither a timer nor a write takes to its file; `timers` the debounce
timers, `writes` the queue of `JsonFileStore` per file and `file` what is on disk; `quit`, `owed` and `asked` are the
flush of `before-quit`: how far it is, the writes queued up to the last one it awaits, and the sessions of which it
awaits one. What is added to a transcript is numbered as it happens and goes to its end, so that a transcript in
memory or on disk is a set of numbers, and `applied` the order. `Emit` is an event that joins the chain,
`HandleDelta`, `ApplyBatch`, `HandleNote`, `HandleNotice`, `HandleEnd` its handling, `Tick` and `FlushEnds` the
batcher's flush. `HandleNotice` is a notify request of an extension: it adds a row, and the store does not persist a
transcript for a `hostUiRequest` (app-store.ts:2907), so that the row reaches the file only with a later change of the
session, and is lost if the transcript is evicted or the app quits first. `Send` is the user's message, `Rejected` the
catch of its sending: it takes off the cached transcript whichever row is last by then, which may be another's than
the message's, and of an evicted transcript starts an empty one (app-store-composer.ts:783). `TimerFires`,
`WriteLands`, `WriteFails` are the writes; `LoadReads`, `LoadEnds`, `Evict` the cache; `QuitStarts`, `QuitCollects`,
`QuitEnds` the quit, which a rejected write that it awaits, or its limit of ten seconds (`QuitTimesOut`), cuts short.
`applied`, `gone` (what was taken back, or evicted while quiet), `failed`, `torn` and `before` are history.

`PersistedLog` is what a reader of the files may rely on: what was said stays in the order it was said, some of it may be
taken back (`TakeBack`), or lost if it was loose (`Lose`); a file never loses what its transcript has left, holds
nothing without what came before it, and has all that is left but what is loose unless something is known to wait. It
promises nothing of a spoilt transcript. In `Transcripts` a session waits while its debounce timer runs, a write is
queued or its last failed (`Unwritten`), what is loose is `quiet`, and a transcript is spoilt if `torn`; memory, timers,
queues, the chain and the quit are hidden.

Abstracted: which events change one row and not several; the row a rejected message takes off is any run of the
numbers behind the last message, or the message itself (`IsLastRow`). Not in this module: transcripts taken from the
driver (`reloadTranscriptFromDriver`), the rows that composer commands add, deletions and compactions of a transcript,
the selection itself (any session that `Evict` spares may be the selected one).

### Terminals: `Terminals`

`workspaces` are the folders of the store's state, `retained` those of the state the service was last shown, `window`
whether there is one; `roots`, `tabs`, `active` are `rootsByKey` with its `sessionIds` and `activeSessionId`,
`present` and `terminals` are `sessionsById`; `ptys` are the shells, each with its process and the terminal whose
exit subscription it has (`heard`). The methods run without an await, so an action is a whole method: `EnsurePanel`,
`CreateSession` (with `ensureRoot`, `ensureGlobalCapacity` and the spawn), `SetActiveSession`, `Restart`,
`Close`, `RetainWorkspacePaths`, `WindowCloses` (`dispose`). `ProcessEnds` and `Exit` are a shell's end and its
later report. `CreateFails` and `RestartFails` are the methods' errors. `stranded`, `early` and `broken` are history.

Left out: the spelling of paths (a folder is its real path; the code takes `realpathSync`, and the resolved path when
that fails, so that a folder that comes or goes may change its key), sizes, titles, replays, and access times, so that
it is open which of several exited terminals is removed to make room, and which neighbour becomes active when the
active tab goes.

Every module holds, beside its actions, operators commented "Mutant": plausible bugs of the same code. Replacing an
action by its mutant must break the property it is listed with in `PROJECT.json`.

## 3. What is checked

| run | configuration | question and answer |
|---|---|---|
| `mailbox` | two listeners, three events of five streams, one failure, fair | types; no lost wake-up; nothing lost but what a failed batch took; implements `OrderedDelivery`, which has each listener called in order and at most once; every event leaves the mailbox and `await eventQueue` returns. Holds |
| `catalog` | one store, two entries, four changes, two failures, two crashes, two ticks, fair | types; the file parses after a crash at any point; acknowledged changes stay; failures reject one write; implements `DurableMap`, in which what is stored never goes back; every write settles. Holds |
| `catalog_two_stores` | two stores, one entry each | "single-writer per key" (plans/runtime-resource-safety-and-regression-closeout.md:71). Violated: one store overwrites the other's entries |
| `session_close` | one caller opens and closes, the other cancels, suspends, archives; fair | no leak with `closeSession`; every call returns. Holds |
| `session_status` | one caller opens, sends, queues, runs commands, cancels, suspends; the other opens; seven calls, one rejection | status tells whether the session streams; the catalog agrees once calls have returned. Holds |
| `session_suspend` | one sends, one suspends | "A selected or running session is never evicted or suspended" (same plan, line 68). Violated: the check is before the await of `persistSnapshot` |
| `dialogs` | two requests, one timed; two reloads, two evictions, two losses; fair | types; the map holds exactly what is awaited; what is awaited can be answered, is about to be cancelled or is recorded as lost; implements `Questions`, in which nothing answered returns; requests and answers arrive. Holds |
| `vscode` | two folders, a ceiling of one, three processes, two launches, fair | types; the ceiling; no live server off the list; no server stopped under a mounted panel but by the startup it failed; what survives a launch lost its lease or never had one; every startup is answered unless one seeds for ever. Holds |
| `checkpoints` | two contents, limits one and two, three checkpoints, three requests, three edits, one crash | types; blobs of manifests are on disk; protected checkpoints stay; what is overwritten is in a blob of the rollback. Holds, with the exceptions the properties name |
| `transcripts` | two sessions, three items, two works waiting, four items, failed writes, rejected messages and evictions in all | order of events and deltas; loaded transcripts are complete but for notices and rejected messages; implements `PersistedLog`, in which files follow; the quit keeps; no delta stays in the batcher. Holds, with the exceptions the properties name |
| `transcripts_history` | the same, three in all | "Transcript fidelity on disk remains lossless" (same plan, line 70). Violated: an event of a session that is not loaded overwrites its file |
| `terminals` | two folders, two terminals in all, two per root, four made, three shells | types and ceilings; every shell has its terminal and the reverse; every terminal is a tab of its root. Holds, with the exceptions the properties name |

**Bounds.** Three events put a batch behind one being emitted, with a merge in it, or behind one that fails, or
restart the drain with a queue behind it. Two requests and two reloads put a reset before, between and behind requests
on their way; two evictions let one be refused, or fail, before one succeeds. Four changes and two failures of one
store allow two writes queued behind a failing one, before and after a crash. In `SessionRuntime` a hazard needs two
concurrent calls and a call before them that opened the session, which four calls give, and seven more than once;
`MaxRuntimes` is never below the number of calls, so that it never stops an open. With a ceiling of one, two folders
contend for the lock and the ceiling; three processes give a folder a predecessor that exits late, a successor, and
another folder's server; two launches, a crash. With limits of one and two, a restore finds its target or its rollback
pruned; three checkpoints are two and a rollback; three edits change the file before it is captured, between the two
reads of the capture, and back. Three items are deltas with an event behind them, or an end and what comes after the
eviction, or a message, a row behind it and the message's rejection; two sessions share the batcher's timer and the
chain. With two terminals in all and four made, room is made by removing an exited terminal of another root, or of the
same one; three shells allow a restart beside another terminal. `CHECK_DEADLOCK FALSE`, since a system at its bounds,
or at rest, may stop.

**What the properties leave out, on purpose.** `NoRuntimeLeaks` is false if one caller closes while another opens
(`S`:904, `S`:979). The desktop never calls `closeSession`; the package's API does offer it. `StatusIsTrue` is false
when `cancelCurrentRun` continues over a new run that another call started (`S`:598), and when the catch of
`sendUserMessage` (`S`:532) meets another call's run. `EntryIsCurrent` is false if a session is archived while it is
being opened (`S`:985, `S`:2405). These are listed as hazards; the runs that hold offer the callers without them, and
the definitions in `MCSessionRuntime` say which.

The model of dialogs states no property that a suspension spares a session with a pending request:
`suspendSessionRuntime` looks before it awaits `persistSnapshot` and not after (`S`:868), the defect that
`session_suspend` shows for runs. Nor is a request safe that is emitted while an eviction has the desktop unsubscribed:
it is `lost`. Nor is one on the screen when the desktop reloads the session and `ensureRecord` rejects (`S`:773): the
extension awaits it for ever unless it has a timeout or an abort, and nothing shows it again. The properties say that
the ways to lose a request are those listed for `lost` above.

The other modules name their exceptions in the properties, and each exception is a history variable that says how it
comes about; every one of them was seen to happen. A checkpoint promised to the user may be removed when the policy is
used while it is still being read, cannot be read, or an older policy lands last (`strayed`); a blob that a manifest
refers to may be collected when its manifest could not be read (`missed`), which the plan's "Checkpoint GC never
removes a blob referenced by a retained/protected/pending-restore manifest" (same plan, line 370) does not foresee; a
restore overwrites what no checkpoint holds when the file changes after the last look at it (`edited`), when it
changes between the hash and the read of the rollback's capture and back again, so that the blob holds something else
(`took`), when a collection missed the rollback, or when the retained checkpoints fill the limit, so that its own
rollback is pruned. A transcript is `torn` when something is added, or taken back, while it is not loaded, or it is
read while its writes are queued or its last has failed: from then on nothing is said of it, and `transcripts_history`
shows what may become of its file. What a rejected message takes back, its own row or not, and the notices that are
evicted before another change has them written, are `gone`; a notice is `quiet`, and not in the file, until then. The
quit does not await writes already under way, and one rejected write, or ten seconds, cuts it short: of a quit that is
cut nothing is said. A lease is removed by the late exit of its folder's former server (`erased`), or never comes to
be written (`unleased`); a startup that hangs in `seedVSCodeBrowserSettings`, which awaits a page and its script
without a deadline, holds the lock for every folder, and `StartupsSettle` says only that nothing else does. A terminal
made when room for it was made by removing its own root belongs to no root (`stranded`); one made before its workspace
is shown to the service is not removed with it (`early`); a restart that finds no shell leaves a terminal that shows
it runs (`broken`).

**Fairness.** Weak, and only of what the platform settles: the drain's steps (a catalog write and a listener's promise
settle), a store's file operations, the continuation of a call whose promise has settled, the end of an agent's run,
`runtime.dispose`, the app store's event chain, a response or a reload that is under way, which opens its session if
need be (the bound on evictions stands for their not coming for ever between the two), and a startup's steps except
while it seeds: its probes have deadlines in the code, the seeding has none. Nothing is assumed of users, of new
events, of background jobs or of failures. In `FairSpec` of `SessionRuntime` the run's end is fair because a call that
aborts or prompts awaits it; a run that never ends keeps its `prompt` pending in the program too.

## 4. What is proved

TLAPS proves every invariant and action property of the runs that hold, and the four refinements, for all values of the
constants that satisfy the named assumptions of the modules and what is said below of callers and stores. Some theorems
state more than the runs check: those marked (*) are of formulas that TLC was given too, and that no run lists because
a refinement that it lists says more, or because the run has enough to do. What each proof needs beyond the property
itself:

- `DriverMailboxProofs`: `TypeCorrect`, `NothingStranded`, `InOrder`, `Refinement` (the mailbox implements
  `OrderedDelivery`), `NothingVanishes` (`Conserved`). Order alone is not inductive: nothing in it relates what waits to
  what was delivered. `OrderInv` splits the numbers at a frontier; batches lie above it, in order, and the batch being
  emitted and the logs below it; taking a batch moves the frontier to its last number, and merging extends only the
  newest waiting event. `DrainInv` ties the drain's flag to its phase, which also gives `NothingStranded`. `Whole` adds
  for `Conserved` that an event which does not accumulate carries one number, of its own stream, so that merging over it
  replaces nothing else, and that `emit` has called or will call whoever subscribed before the event; that a number
  replaced twice is still covered is `CoverTransitive`.
- `CatalogStoreProofs`: `TypeCorrect` for any number of stores, and `Readable`, `Durable`, `Advances` (*), `Isolated`,
  `Refinement` (implements `DurableMap`) for a store that has the file to itself (`Stores = {s}`; with two stores
  `Durable` is false, as `catalog_two_stores` shows). The invariant `SoleWriter` orders what is acknowledged, on disk,
  in the payload under way and in memory, each at least as new as the one before, and says that a payload once written
  is whole, so that a rename finds its file. For the refinement, `Queued` says that the newest queued change left the
  memory as it is, and that the payload under way is the memory as it was after one of the queued changes: so a rename
  stores the contents after a change that has not settled, although it takes them from the memory when it begins and
  not from its own change.
- `SessionRuntimeProofs`: `TypeCorrect`, for any callers; `NothingLeaks`, if whoever calls `closeSession` is the only one
  to open it (`ClosersOpenAlone`; otherwise it is false, as section 3 says). The
  invariant adds `Opening`: only the caller in `pendingOpen` is between reading the entry and creating the runtime, and
  meanwhile the record has none, so the runtime it takes replaces nothing; and a closed record holds a runtime only until
  the call that closes it has aborted its run (`Closing`). `StatusTold` and `EntryFollows` prove
  `StatusIsTrue` and `EntryIsCurrent` for one user of the session, who does all but close and archive, beside any number
  of callers that open it (`OneUser`). `UserInv` says that the others stand only where an open may stand, that nobody
  takes the runtime from under the user's call, that a run streams only while the user's prompt is awaited, that what is
  parked was persisted, that an entry read by an open is still current when it is used, and that record and entry agree
  unless a snapshot is due. With a second sender, or a second caller that cancels, suspends or archives, they are false.
- `HostUiDialogsProofs`: `TypeCorrect`, `PendingIsExact`, `Reachable`, `AnsweredOnce` (*), `Refinement` (implements
  `Questions`), for any set of requests and any bounds. The invariant adds `AnnouncedOnce` (a request is queued once, and
  not shown or answered while its event is under way) and `ResetsComeFirst` (no reset on its way finds a request before
  it, or on the screen, that is still awaited), without which applying an event could bring back an answered request or
  clear an awaited one; and `ClearedApart`, that what a reload has taken away is neither shown nor answered. The
  refinement needs nothing more; its work is in the queue: what taking an event, or a batch going down, removes from
  what is coming (`QueueComing`, `TakeComing`).
- `VsCodeServersProofs`: `TypeCorrect`, `CeilingKept`, `NothingIsForgotten`, `PanelsAreSpared` (*),
  `SurvivorsHaveLostLeases`, `LiveServersSpared`. The invariant adds that only the startup that holds the lock is past it
  (`Locked`), so that what its check of the ceiling found still holds an await later (`Prepared`), that an app which is
  down has no timer and no startup (`Forgotten`), and that a live server of this launch has its lease unless that was
  erased or never written (`Leased`). That a server is stopped only when no panel is mounted, or by its own startup, is
  `NoStopUnderPanel` together with `Matched`: what is listed for a folder, or awaited by its startup, is a process of
  that folder, so no stop hits another folder's.
- `CheckpointsProofs`: `TypeCorrect`, `BlobsAreReachable`, `RemovalsAreExplained`, `OverwritesSaved`,
  `RestoresFaithful` (*): unless the policy strayed, a restore finds its checkpoint still there when it replaces the
  file, and puts back what it holds. The invariant adds
  what the operation under way may rely on at each of its awaits (`Ready`), that the blob it captured is there when its
  manifest is recorded (`Reachable`), that the policies in memory and on disk keep what was promised unless they
  strayed, and a read under way has found what is on disk (`Keeping`), and that a restore's rollback holds what was
  captured, and is spared by the retention (`Saving`); that its blob is then on disk is `BlobsReachable`.
  `NewestDoomed` is the counting step: the newest checkpoint is pruned only when the retained ones fill the limit.
  `Sparing` is for the restores: no lease is held before the policy is read, so a lease found in memory is one that the
  read will not take away, and from it to the end of the restore the target is retained, and so never doomed.
- `TranscriptsProofs`: `TypeCorrect`, `DeltasArrive`, `ShownWhole`, `FilesFollow` (*), `QuitsKeep`, `AddedInOrder`,
  `Refinement` (implements `PersistedLog`). For the
  files, `Remembered` and `Written` follow each session's transcript from memory to the queued writes and the disk:
  what is held there was added, with all that came before it unless it is gone (`Holds`), and the newest is all that is
  left but what is quiet; a timer leaves nothing quiet, since its write takes the notices along. What is added must not
  have been gone already, and is not, since it was never there (`IsFresh`): messages and events are numbered once
  (`Numbered`) and events are added in order (`Order`). For the quit, its flush is on the chain behind whatever it is to
  keep (`QuitIsBehind`), all of which is added when its turn comes (`Collected`), and then is in a write it awaits, in
  the newest write that was under way, or on disk (`AllSecured`), and no write is owed at the exit (`Settled`). For the
  order, what is in the batch is later than what was applied, and what is on the chain later than both (`InLine`), the
  user's own messages excepted. For the refinement, `Growing`: no queued
  write, nor the file, holds what a write behind it lacks, unless it is gone. That each of them agrees with the
  transcript does not order them, and it is the order that keeps the file from losing what it had.
- `TerminalsProofs`: `TypeCorrect`, `ShellsAreOwned`, `TabsAreFiled`, `LiveShellsSpared` (*): a shell that runs is ended
  only by its own terminal's restart or close, with its workspace, or with the window, never by a late exit report or to
  make room. The invariant says that identities are fresh, that
  a terminal's workspace is among those last shown to the service (`Shown`), that shells and terminals own each other
  (`Owners`), and that tabs and roots agree (`Tabbed`, `Filed`); one lemma each for dropping, resting and spawning a
  terminal serves the methods that do so.

Only model-checked: all liveness (`EventuallyDrained`, `WritesSettle`, `CallsReturn`, `RequestsArrive`,
`AnswersSettle`, `StartupsSettle`), since fairness and ENABLED are out of the prover's reach, so that the refinements
are those of the safety parts; and the three properties that are shown to be violated, of which a counterexample is all
there is to show.

## 5. Plan

What is left, each with its hazards in `PROJECT.json` or in the list of components there:

1. `QueuedMessages`: `record.queuedMessages` against the SDK's queue (`S`:478-590); abstract specification: a bag of
   messages of which each is delivered at most once and none vanishes without an error.
2. `DormantPrune`: the app store's eviction over the sessions of `SessionRuntime`: the ceiling, the keys protected at
   the start of the loop, overlapping prunes.
3. `HydrationSlots`: the semaphore of two for transcript reads.
4. `BoundaryStore`, `QueuedComposer`: caches filled by two callers; composer items recovered after a crash.
5. `RuntimeJobs`, `SubagentRuns`: late events of an older runtime; reports out of order.
6. Composition: `SessionRuntime` over `DurableMap` in place of its one-step writes; `OrderedDelivery` as the input of
   `Transcripts` and `HostUiDialogs`.

## 6. What is not modelled

Presentation, configuration and parsing (renderer, themes, skills, transcripts' format), git and the other external
programs, and read-only aggregation: they keep no state of their own that interleaves. `PROJECT.json` gives the reason
for each part. Within the modelled parts: payloads, wording, and the operations of `SessionSupervisor` that change
models, titles, configs or the tree.
