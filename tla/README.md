# drmclaw-core: specifications, model checks and proofs

drmclaw-core is a local agent server: it takes prompts from a web console, a
REST API, cron jobs or an SDK call, queues them, runs each through the Codex
App Server (a child process spoken to in JSON-RPC over stdio), streams the
events to WebSocket clients and keeps an execution history on disk.

Everything runs on one Node event loop. Nothing is interrupted between two
awaits, and everything may happen at an await: the difficulty is in the order of
continuations, timers, process exits and disk writes. That is what the modules
here model: **one action is one turn of the event loop** (the code from one await,
callback or timer to the next), and the interleaving of turns is `Next`.

## 1. Inventory

| Component | Source (under `src/`) | State | Operations | Hard behaviour |
|---|---|---|---|---|
| Task queue | `src/runner/queue.ts` | `running`, `queue`, `draining`, notice timers | `enqueue`, `release`, `drain` | hand-over of a slot between turns, drain against grants |
| Task runner | `src/runner/runner.ts` | event sequence, append chain, history list | `run`, `drain`, `getHistory` | nine awaits per run, failing appends, late events, slot released before the record |
| Process | `src/cli.ts` | `shuttingDown`, the force timer | start-up, signal handler | shutdown against everything in flight |
| Codex adapter | `src/llm/codex-app-server.ts` | the active process, client, thread and turn; pending requests | `run`, `dispose`, JSON-RPC client | process exit at any await; one set of `active*` fields for all runs |
| Agent runtime | `src/runtime/agent.ts` | none | `run` | event order around the adapter, exceptions of callbacks |
| Runtime chain | `src/task/runtime-chain.ts` | `accepting`, `adapter`, the timeout | `runPromptViaRuntime` | a timeout racing the result; an abandoned run that goes on |
| Task and action API | `src/task/execute.ts`, `action.ts`, `request.ts`, `history.ts` | none kept | `executeTask`, `executeSkillAction` | checks in three places against a disk that changes, verification after the run |
| Execution history | `src/events/store.ts` | `events.jsonl`, `metadata.json` per run | `append`, `saveMetadata`, `markStaleRuns`, `listRuns`, `readRun`, summaries | several processes check and overwrite one metadata file, torn writes, views computed from incomplete logs |
| Scheduler | `src/scheduler/service.ts`, `store.ts`, `timer.ts` | job map, `jobs.json` and its temp file, timers | add, update, remove, run, fire | jobs edited while they run, saves that share a temp file |
| Delivery queue | `src/delivery/queue.ts` | `<id>.json`, `.json.tmp`, `.delivered` | `enqueue`, `ack`, `fail`, `recover` | crash between the steps, `ack` against `fail` |
| Connectors and HTTP/WS server | `src/connectors/*`, `src/server/*` | connected clients | routes, broadcast | clients that vanish in mid-broadcast |
| Stream chunker | `src/runner/chunker.ts` | buffer, fence flag, idle timer | `push`, `end`, idle flush | idle timer against code fences |
| Skills | `src/skills/*`, `src/runner/prompt.ts`, `executor.ts` | none kept | load, dedupe, resolve, check | precedence and caps across roots, a root that comes or goes between the file operations |
| Model policy, config, paths | `src/llm/model-policy.ts`, `src/config/*`, `src/paths.ts` | none | glob match, defaults | pure |
| Console (browser) | `ui/src/components/*`, `ui/src/hooks/*` | messages, the event log and chat on view, one fetch | replay, live events, reconnect, send, new, tabs | fetched and live events of many runs meet in one view, two channels without an order |

Interactions. `cli.ts` builds one runner, one scheduler, one web connector and one
adapter. WebSocket messages and cron jobs call `runner.run`; `run` waits in
`TaskQueue.enqueue`, calls the runtime, which calls the adapter; events come back
through `onEvent` and are broadcast and appended in `run`; metadata goes to the
history store. `executeTask` and `executeSkillAction` build a private runner and
adapter per call through the runtime chain. The signal handler calls
`runner.drain`, which is `TaskQueue.drain`.

What makes each component correct:

* queue: no slot lost or doubled, first come first served, every promise settles,
  a resolved drain means nothing is running;
* runner: a slot is held exactly while the runtime runs, the log on disk is the
  broadcast in order, the outcome reaches the disk after the log and stays;
* process: an exit cuts off no owner of a slot, and a shutdown ends;
* adapter: a run ends with its own turn or with its own process, and disposing
  one run leaves the others alone;
* runtime chain: after a timeout nothing of the abandoned run is seen by the
  caller, and the child process is gone;
* history: a run is marked stale only when the marker sees its owner gone, and no
  outcome that a pass could have read is lost to it; the counts, transcript and timeline lose and
  repeat nothing, whichever events are missing;
* skills and task API: nothing runs with a skill that is missing, unready or outside
  its scope, and what is returned is the effective copy of each skill;
* scheduler: the timer of a job is that of its last edit, none for a removed job,
  `jobs.json` is always a state the jobs were in;
* delivery: an acknowledged entry never comes back, every pending entry survives
  a crash, attempts are counted;
* console: no event of another run in a replay or a bubble, and no view that stays
  locked because the end of its run is not heeded.

## 2. Plan

In order of importance. All of it is in place but the last item.

1. `SlotPool` (abstract), `TaskQueue`: the queue implements the pool.
2. `TaskRunner` extends `TaskQueue`, `Server` extends `TaskRunner`: the composition,
   which keeps every theorem of the queue. `ServerProofs` has the proofs of all three.
3. `WriteAheadLog` (abstract), `DeliveryQueue`, `DeliveryQueueProofs`.
4. `Scheduler`, `SchedulerProofs`: job objects, map, timers and the shared temp file.
5. `CodexAdapter`; `RuntimeChain` extends it; `RuntimeChainProofs` for both.
6. `RunStore`, `EventViews`, `RunStoreProofs`: the history on disk and what is
   computed from it.
7. `SkillScope`, `TaskApi` extends it, `TaskApiProofs`: from arguments to the chain.
8. `EventFeed`, `Console` extends it, `ConsoleProofs`: the page on which all of it is
   seen. `FoldTheorems` has the induction and the folds that these proofs and those
   about `EventViews` need.
9. Not begun: a console that reads a history marked stale by another process.

## 3. Modules

### Queue, runner, process

`SlotPool` is what a caller can tell: `status` of each caller, the `line`, `open`.

`TaskQueue` translates `queue.ts`. `enqueue()` is split by its early returns into
`RefuseDraining`, `TakeSlot`, `RefuseFull` and `Join`. A promise that is resolved
but whose caller has not had its turn yet is the state `"granted"`; `Resume` is
that turn. `release()` is `FreeSlot` or `HandOver`. The 2 s notice and the 50 ms
poll are actions that may happen at any time after they are armed. `ahead` is a
history variable: who was waiting when a request came.

`TaskRunner` translates `run()`. `pc[t]` names the await a run stands at. An event
is its sequence number; `appendQueue` is the promise chain, `awaited` the append
that `await appendQueue` waits for. `AppendSettles` and `SaveSettles` are the disk;
each may fail, with the code's warning, at most `MaxFaults` times in a behaviour.
`RuntimeEvent` is also enabled after the turn is over: the adapter kills the
process without waiting for it, and what is still buffered is delivered.

`Server` adds the signal handler of `cli.ts`: `Shutdown`, `Poll`, `CloseServer`,
`Exit`, `ForcedExit`.

### Delivery queue

`WriteAheadLog` has a `state` and a count of `attempts` per entry and three steps.

`DeliveryQueue` translates `delivery/queue.ts`. `writer[i]` is the await at which
`enqueue()` or `fail()` of entry `i` stands (both write the temp file and rename
it), `acker[i]` that of `ack()`, `scan` that of `recover()`. `OpenTemp` and
`WriteTemp` are the two halves of `writeFile`: after the first the temp file is
empty. `recover()` lists the directory in one step, then removes the markers and
reads the entries of the listing one by one, in any order, since the entries are
sorted only afterwards. `Crash` clears the calls and keeps the files. Every file
operation may fail, each in the way its catch block says: `WriteError` (the call
rejects), `AckError` and `SweepError` (swallowed), `ReadError` (the read of `fail()`,
which resolves as if the entry were gone), `ListError` (`recover()` returns nothing) and
`ReadListedError` (`recover()` skips the entry). `unread` remembers what a `recover()`
could not list or read. `retryDelay()` and the order of the
result of `recover()` are left out.

The callers of this queue, the connectors, are not in the repository. The models
therefore say in the constant `Overlap` whether an `ack()` may come while a `fail()`
of the same entry is under way, and one `fail()` or `ack()` of an entry is under
way at a time.

### Scheduler

A job is an object; the map, the timers and the runs refer to versions of it, as
`updateJob()` makes a copy and `executeJob()` goes on with the object it was given
and puts that one back into the map. `heap[i][v]` is the object, `jobs[i]` and
`timers[i]` the version that the map and the live cron hold, `inRun[i][v]` the runs
in progress. A save takes its data in the turn of the edit (`StartSave`) and then
opens, writes and renames the temp file that all saves share; `follow` is what its
caller does afterwards (`AfterSave`). `openFile` remembers that a save keeps the
file it opened when another save renames it. `Crash` and `Start` are the restart,
`Start` being `initialize()`.

`Saver` is the set of saves that can be under way at a time, two in both runs. Nothing
in the code keeps saves apart, and nothing in the model does; a third save would wait for
one of them, which bounds the runs but not the proofs.

Nobody checks a schedule before `new Cron()` throws on it, so a job is `"on"`, `"off"` or
`"bad"`: enabled with a schedule that cannot be read. `Reschedule` leaves such a job
without a timer (the call rejects, the job is saved), and `Start` stops at the first such
job, so that any part of the others (`Scheduled`) has its timer. `load()` takes a file that
it cannot read for none (`StartFresh`).

The code keeps its promises only as long as some things do not meet, and three history
variables say when. `clean`: the save begun last met no other save and has not failed.
`orderly[i]`: the start that loaded job `i` reached it, or the last edit of it met no other
edit of it and was saved, and no run has since put back an object that the map did not
hold. `removed[i]`: `removeJob()` has resolved, and when it was called no run of the job and
no save was under way. Everything else may overlap in any way while they hold; what the
code does when they do not is in section 7.

### Codex adapter and runtime chain

`CodexAdapter` translates `run()`, `dispose()` and the JSON-RPC client. `at[r]` is
the await a run stands at, named after the request it waits for; `settled[r]` is
the outcome of the race between that and the exit of the process. A settled race is
a continuation that is due (`Due`): it runs before the event loop takes its next
event (`NextEvent`), but further lines of the same process can come first, because
`readline` hands out all lines of a chunk in one turn. `pending[r]` is the client's
map, `active` the four `active*` fields. Every run has its process; all share
`active`, and `Concurrent` says whether the callers may overlap, as they do when
`maxConcurrent` is above 1.

The Codex process is not in the repository. `CodexAnswers`, `CodexStreams`,
`CodexEndsTurn` and `CodexExits` let it do anything the adapter can see: answer with
a result or an error in any order, hang, exit, ignore SIGTERM. What it has written
stays readable after its exit (`stdout`). Approval requests are answered in the
turn they come and touch no state, so they are left out, as is `setModel()`.

`RuntimeChain` composes the adapter with one call of `runPromptViaRuntime()`. Of the
runner it keeps the awaits (`phase`) and the events it emits (`broadcast`), since
`TaskRunner` has the rest; the lifecycle events of `runtime/agent.ts` are part of
`RunRuntime` and `EndRuntime`. `saves` are the writes of `metadata.json` under way,
by the runner and by the catch block of the chain, each of which may fail or end
last. `timer` is the timeout, `accepting` the gate, `seen` what passed it, and
`outcome` and `snapshot` the result. The call has a history store; the adapter is
its own, so `Run = {Call}`.

### Execution history

`RunStore` has an owner per run and any number of readers, each in a process of its
own with a store of its own. The owner appends to `events.jsonl` and writes
`metadata.json` as running and with its outcome; `writeFile()` truncates first, so
`OpenMeta` and `WriteMeta` are two steps and the file is torn between them. `pc[v]`
is the await at which `listRuns()` or `readRun()` of a reader stands: the pass of
`markStaleRuns()` visits the directories in any order (`ReadMeta`, `Judge`,
`ReadEvents`, `OpenStale`, `WriteStale`), then `ListRun` reads them again. An owner
may die at any step (`Exit`), leaving torn metadata or a line that is cut off; its
pid may go to another process (`ReusePid`), and a run gets old (`Age`). `isProcessAlive()`
takes every error of `kill(pid, 0)` for a process that is gone: `denied[r]` are the
readers that may not signal the process with the pid of run `r`, and to whom it is gone
while it lives (`IsAlive`). A directory that cannot be listed counts as empty (`BeginPass`,
`BeginListing`), metadata that cannot be read as none (`ReadMeta`, `ListRun`), and a log
that cannot be read as empty (`ReadFails`). `orphans` and `over` remember what a pass found
when it began, `mistaken` the runs marked while their owner lived, and `unread` those
marked by a reader that could not read the log.

`EventViews` are the pure functions over a log, as folds: `Summary`
(`summarizeExecutionEvents`), `Transcript`, `Timeline` and, of the console, `Display`
(`buildUnifiedDisplay`). The log grows by whatever events the adapter can make of
items, in any order and with any of them missing, since an append may fail; the
views are compared with what they should say of such a log. The adapter gives every tool
event its id, so that the code for those without one (`store.ts:77-99`) is only modelled
for results. A delta is a word or a
line break, and an event stands for its position in the log.

### Skills and task API

`SkillScope` translates `skills/loader.ts` and `skills/resolve.ts` one file operation
at a time: `OpenRoot` (the directory listing), `VisitEntry` (the `stat` of an entry and
of its files), `ParseEntry`, `StatRoot` (the check of the request's roots), and the
merge. Between any two the disk may change. An entry of a root is a skill with its
name, readiness and action, a script-only skill, something broken, or no skill; path
containment is one of the reasons for the last.

`TaskApi` puts the arguments of `executeTask()` and `executeSkillAction()` around it:
allowlist, target, action, inputs with their defaults. A call ends in `"running"`,
where `RuntimeChain` takes over, or in `"failed"` with `errors`. `roots0` and
`toggled` remember which roots were missing when the call began and which changed
since, to say of which roots the call could know.

### Console

`EventFeed` is what a page is told: `messages` written to its sockets, of which
`received` have arrived, and what the routes answer (`recent`, `finished`, and a
prefix of the log that may lag behind the broadcast). A connection can break, which
loses what is under way and what is broadcast until the next one.

`Console` is `DebugConsole.tsx` with the hook, the message filter and the tabs of
`App.tsx`. `view` is the state of the component, rebuilt from all messages when the
tab is shown again (`Return`); `fetch` is the fetch of the one abort controller, with
the answer a step of its own after the request. `Deliver` is a message and the effect
that processes it. `intent` remembers what the user did last, and `turned` that the fetch
of the first load has turned the console away from the run that streams (`TakeLast`).

### Variants

Each module holds, right before a definition, variants of it with a plausible
slip (`KeepSlot`, `KeepTimer`, `SaveFinalUnflushed`, `OnlyLastMissing`, ...). No
specification uses them. They are there to show that the properties can fail: with
the variant in place of the definition, TLC finds the property violated.

## 4. Runs

| Run | What it asks | Bounds |
|---|---|---|
| `task_queue` | nobody stranded or overtaken, drains, and the refinement of `SlotPool` | 5 requests, 2 slots, queue of 2, 1 drain: one request can be refused, two can wait behind two owners, and a drain can come anywhere (255 000 states) |
| `server` | queue, runner and process together, with the queue's own fair specification as a property | 2 runs (one with a history store, one without), 1 slot, 3 events, 1 failing write, history of 1: a run waits while the other's tail is written, an event arrives late, one eviction (129 000) |
| `delivery` | acknowledgements stick, nothing is lost, `recover()` is current, and the refinement of `WriteAheadLog` | 2 entries, given up after 2 failures, 2 `fail()` calls each, 2 crashes or disk errors, of reads too: a crash can come at every operation, and again during the recovery from it (2.05 million) |
| `scheduler` | a save that meets no other is atomic and the file follows the map, timers match the jobs, a removal sticks | 2 jobs of 2 versions, 3 edits, 1 run, 1 crash or disk error, 2 saves at a time: two edits of a job, or an edit and the end of a run on the old object, overlap, and a third edit or a restart comes anywhere (1.66 million) |
| `runtime_chain` | no await misses what has happened, no process is left, the result is final and witnessed, a call with a timeout returns and the run it abandoned ends | 1 call with or without timeout, 2 streamed events: a timeout, an exit or an error at every await, with events before and after (62 000) |
| `run_store` | stale runs are final, a pass leaves no orphan, an outcome stands, a torn file has a writer | 1 run, 2 readers, each of the owner's user or another, 3 events, 2 failing writes or deaths of readers, any number of failing reads: two passes overlap with each other and with the end of the owner, whose pid comes back. Passes touch one run at a time, so that a second run adds nothing; the proofs are for any number (4.81 million) |
| `event_views` | calls count once, timeline and display lose, repeat and move nothing | 2 calls, logs of up to 5 events: both calls started, and their results and final statuses in any order with text and thoughts between them (337 000) |
| `task_api` | nothing unfit runs, the scope holds, missing roots are named, the resolution is exact | 2 skills, 2 roots of the config and 2 of the request with 24 initial disks, caps of 3 entries and 2 skills, 1 change of the disk: copies of a skill meet in one root, across roots and across config and request, and each of the two caps cuts one off (1.41 million) |
| `console` | a replay is of one run, so is the live log and every bubble; a view that streams will be told of the end | 2 runs, 1 slot, 2 messages under way, 1 broken connection, 2 clicks: a run of another client goes on while this page sends, replays or changes tabs, and the second click falls into the fetch of the first (1.57 million) |
| `scheduler_saves` | `jobs.json` is replaced atomically, as a comment in `scheduler/store.ts` says: **violated** | as `scheduler`, but 2 runs and 2 crashes or disk errors |
| `timeout_teardown` | the timeout tears the process down, as a comment in `task/execute.ts` says: **violated** | as `runtime_chain`, 1 event |
| `shared_adapter` | tasks that run at the same time do not end each other, which `maxConcurrent` promises: **violated** | 2 runs, no events |

`CHECK_DEADLOCK FALSE` everywhere: a queue with no more requests, a process
that has exited, a scheduler without jobs, a call that has returned and a page
whose runs are over do stop.

The constants that bound a model only (`MaxFaults`, `MaxFails`, `MaxMishaps`,
`MaxVersions`, `MaxEdits`, `MaxRuns`, `MaxEvents`, `MaxDeltas`, `MaxLog`, `MaxChanges`,
`MaxInFlight`, `MaxDrops`, `MaxClicks`) are named so in the modules. Symmetry is used
for the readers, the jobs and saves of the scheduler, the call ids and the tasks of the
console, in runs without liveness.

Fairness. Continuations, timers and disk operations are weakly fair: the event
loop runs what is due. In `TaskQueue`, `Release` is fair because every caller
releases in a `finally`; `server` checks that premise (`KeepsQueueContract` is the
queue's own `FairSpec`), given that the runtime ends (`ResponsiveSpec`). Nothing in
the code bounds the runtime, so `ServerSpec` does not assume it. `Exit` is never
fair: clients may keep connections open. In `RuntimeChain` the event loop, the timers
and the disk are fair, and a process that got a SIGKILL exits; nothing else is
expected of Codex, so a call without a timeout may never return, and `TimeoutEndsAll`
speaks only of calls with one. The other modules state no fairness: what a console
waits for is put as an invariant, `StreamingWillEnd`, that the message it needs is
still to come.

## 5. Proofs

`ServerProofs` proves of the queue, for every finite set of requests and all values of
`MaxConcurrent >= 1` and `MaxQueueSize >= 0` (the ranges of the config schema):
`TypeOK`, `SlotAccounting`, `NoStrandedCaller`, `NoOvertaking`, `DrainedMeansIdle`,
`NoticeNeverUnderstates`, and `Spec => Pool!Spec`.

The inductive invariant `IInv` adds to these what they need: an idle caller has no
notice armed and is in nobody's `ahead`; who is ahead of a waiting task stands
before it in the queue; a notice's position is at least the current place; nobody
waits while draining. Each action has a lemma; `QuietStep` serves those that touch
neither slots nor queue; `OwnerIsCounted` bounds the counter by the cardinality.
For the refinement, the pool's own count of holders is shown equal to `running`.

It proves that the runner takes only steps of the queue or steps the
queue does not see (`RunnerUsesTheQueue`), and the server only steps of the runner
(`ServerRunsTheRunner`), so that the theorems of the queue hold of both. On top of
them it proves `SlotFollowsRun`, `LogFollowsBroadcast` and `OutcomeIsDurable`, for any
number of runs, slots, events and failing writes, and `ExitCutsOffNoOwner` of the
process. The invariant adds to the queue's two parts per stored run: `Backlog`, that the
appends chained are those of the last events made, in order, and all before them have
settled; and `Outcome`, that metadata are written one at a time and the outcome, from
when the slot is given back, is on its way, on disk or reported lost.

`DeliveryQueueProofs` proves, under `~Overlap`, for every set of entries, every
`MaxRetries >= 1` and any number of crashes and disk errors: `TypeOK`, `AckSticks`,
`NothingLost`, `AttemptsCounted`, `RecoverIsCurrent`, and that `Spec` implements
the write-ahead log. The premise is needed: with `Overlap = TRUE` TLC finds `AckSticks`
violated (section 7).

An entry is changed by its own calls only (`OthersAlone`), so the invariant is one
per entry. What it adds to the properties: a writing `enqueue()` has an entry that
nobody has heard of (`EnqueueInv`), a writing `fail()` writes the successor of the
entry that is on disk (`FailInv`), and after the rename the entry on disk is the
one the call drew up (`SettleInv`). These are what a crash between two file
operations leaves intact. For `recover()`, `ScanInv` says that an entry pending all
the time is still listed, already found, or one that could not be read (`unread`). In the refinement only the rename of
`writer` (`LogRename`) and the first rename of `ack()` (`LogMove`) are steps.

`RuntimeChainProofs` proves of the adapter, for any set of runs and every `MaxDeltas`:
`AdapterTypeOK` and `NothingMissed`, both also when runs overlap, and under
`~Concurrent` `NoProcessLeft` and `RunsAreIndependent`. `NothingMissed` is inductive
with the types alone: what can end an await either settles it or keeps what it
waits for pending. The other two need `Solo`: at most one run is under way, and
while its process lives it is the one in the active field. `shared_adapter` shows
that the premise is needed; without it `NoProcessLeft` fails too, as the run that
returns first terminates the process of the other and leaves its own.

It takes these lemmas under the chain, where the timeout disposes of
the adapter in the middle of a run: `NothingMissed` and `NoProcessLeft` hold there
too. `RunsAreIndependent` does not, as the timeout signals the process of a run in
progress, so `OwnProcess` stands for `Solo`. `SnapshotIsFinal` and `ResultIsWitnessed`
need what the caller is shown (`Shown`: the events past the gate are the first of the
broadcast, and all of it while the gate is open), what the history says (`Recorded`,
`Won`) and that whatever tells of a completed turn tells the truth (`Truthful`: in
stdout, in the promise and in the result).

`SchedulerProofs` proves `TypeOK`, `SavesAreAtomic`, `TimerMatchesJob`, `FileFollowsMap`
and `RemovalSticks` for any number of jobs, versions, edits, runs, crashes and disk errors,
and for any number of saves that overlap; there is no premise. The invariant has three
parts that need nothing of each other: a clean save is alone, has the temp file to itself,
and its data is what the map holds (`CleanInv`, `SaveInv`); a job in order has its timer, or
exactly one edit under way that will set it, for the object the map holds (`OrderInv`); and
a job that was removed, or not yet added, is in no map, timer, run or file, and in no save,
so that no overlap can bring it back (`GoneInv`). `scheduler_saves` shows that
`SavesAreAtomic` needs `clean`.

`RunStoreProofs` proves `StoreTypeOK` and all four properties of `run_store` for any
number of runs, readers, events and mishaps. They are inductive with what the owner's
phase says of the files (`OwnerInv`), what a reader that is about to mark a run knows
of it (`MarkInv`: run old; owner gone and count final, or the run is `mistaken` or
`unread`; never more than the log has), that an outcome on disk is not
undone by a pass that began later (`OverInv`), and that a pass has every orphan still
before it or in its hands (`OrphanInv`), unless it failed to read it.

Of the views it proves `CallsCountOnce`, for logs of any length with any calls and
gaps. The invariant `ViewsInv` says what the totals of a log must be: the two sets of
`summarizeExecutionEvents()` are the calls whose end and whose result are in the log,
and a call is completed if it is in either. `SummaryOfMore`, that the summary of a longer
log is one `Count` more, comes from `FoldTheorems`; `CountKeepsTallies` is one case per kind
of event, with what the adapter never sends twice (`Alike`) for a premise.

And it proves `TimelineIsComplete`, for any sequence of events. The timeline is a fold that
calls a fold, and each has its loop invariant: behind k events the items hold the log up to
some b and the buffer the stream since (`ReadTo`, with `Holds` and `Buffers`); behind k
positions of the buffer the paragraphs have the words among them (`ParagraphsHold`). An
event of another kind pushes the buffer, so that b catches up (`PushKeeps`, `ReadsOn`). Ids
differ because those of later items are of later events (`IdsBoth`). What the items hold is
stated as the members of a set of positions, in their order (`Ascent`).

Last, it proves `DisplayIsFaithful`, for any sequence of events. The group of a call is
gathered before the fold that shows it, so what a prefix of the log shows depends on what is
behind it: behind k events the display has the events that are `Claimed`, the first k and
the later ones of their calls (`Called`). The loop invariant `Gathered` says that groups and
waiting text together list these, each once (`Reached`), that the groups rise by their first
entries, and that behind the waiting text only events of calls shown before it have come
(`Waits`). From the last follows when a text is live: the event that flushes it is the one
that ends it (`TextEnds`). An event that opens a call claims all events of the call, none
of which was claimed (`ClaimedOn`), and is the first of them, which keeps the order.

`TaskApiProofs` proves all four properties of `task_api`. `NothingUnfitRuns`,
`ScopeHoldsOnEveryPath` and `MissingRootIsNamed` (a call that ends in an exception excepted,
section 7) hold for any skills, roots, caps and
changes of the disk, from the assumptions `RootLists` and `InputsAreDeclared`, with
`FitInv` (what is resolved is fit, and without errors all that is allowed) and `RootInv`
(how far the check of the roots has come, and what it has found by then).
`ResolutionIsExact` compares the loader, a loop over roots and entries, with a choice of
maxima. Its loop invariant is `LoadedTo(roots, k, p)`: the loader is behind the `p`-th
entry of the `k`-th root, has counted the skills up to there, and its table holds of each
skill the newest copy seen so far (`Newest`), which each kind of entry keeps
(`NewestSkips`, `NewestTakes`, `NewestSame`); behind the last entry that is the copy the
contract provides (`NewestIsProvided`). The assumption `DiskAssumption` gives the disks
their type. `RestInv` claims all this while the disk is at rest, as the contract does.

`ConsoleProofs` proves all four properties of `console`, for any number of runs, slots,
messages under way, lost connections and clicks, from one invariant, `IInv`:

* the feed: events are broadcast in their order, none before it is emitted, and a run in
  the runner's history has emitted all (`BroadcastInOrder`); without a loss, behind each
  event of a finished run its result is among the messages (`EndIsBroadcast`);
* the view (`ChatInv`): a bubble that still takes deltas is of the run on view, so
  that no delta can reach the bubble of another;
* the fetch (`FetchInv`): from when it asks for a run that run is the one on view, and
  an answer carries events of it only;
* the user's last act (`IntentInv`): after "send", "new" or a change of tabs no fetch is
  left that could overwrite the view;
* the live log (`LiveLogIsBehind`): the events of its run that have not arrived come
  after those it holds, which keeps it in order.

`StreamingWillEnd` is inductive with `EndIsBroadcast`: either the run has not finished, or
the message that ends it has not arrived. It holds without a lost connection (`drops = 0`)
and until the fetch of the first load turns the console (`~turned`), and in both cases it
has to: section 7. That a message which does arrive ends the streaming is
`ProcessHearsTheEnd`; that a view rebuilt from all messages streams only when the end is
not among them is `HasNotHeardTheEnd`.

Both folds of the page, the messages processed anew after a change of tabs
(`RebuiltIsGood`) and the text of a replay (`TextIsOfRun`), are proved to keep what their
steps keep. The prover has no induction to apply to them: the library's theorems take a
predicate for a parameter. `FoldTheorems` gets induction over the numbers from the theorem
that the strict subset order on finite sets is well-founded (`MinimalSubset`,
`NaturalInduction`), with a set in the place of the predicate, and from it that the
recursive function of a fold exists (`FoldExists`), keeps what each step keeps (`FoldStays`),
keeps an invariant that tells of the index (`FoldKeeps`), and comes to the same on a common
prefix (`FoldsAgree`). The recursion of `FlattenSeq` is unfolded there too: it goes from the
front to the back (`FlattenMore`), and distributes over what is put one behind the other
(`FlattenBoth`). Sequences that rise (`Rises`) and that list a set, each member once
(`Lists`), are there as well.

Only model-checked: liveness (`EveryCallSettles`, `DrainResolves`, `RunsAreRecorded`,
`KeepsQueueContract` for its fairness, `TimeoutEndsAll`), as the prover has no rule for
`ENABLED`, which fairness is made of. Every invariant and every action property that a
run checks is proved.

## 6. Not modelled

* The stream chunker (`runner/chunker.ts`): nothing under `src/` uses it.
* The HTTP routes and the WebSocket plumbing beyond what a page is told, the config
  loader, model policy, paths, the skill parser's text and the prompt text, the dev
  scripts, and the layout of the UI: straight-line code without state of its own.
* `CronService.shutdown()`, which has no caller, `retryDelay()`, and the order of the
  result of `recover()`. Fire times: a cron timer fires at any time.
* `setModel()` while a run is in progress, `onPersistedEvent` callbacks that throw, and
  EPIPE on the stdin of a process that has just died (`codex-app-server.ts:248`).
* Texts, timestamps and durations, everywhere.

## 7. Known divergences

Three are runs that are expected to fail (section 4). The others are seen with the
models as they are:

* The queue is one line for all. `queue.ts:11` promises each user a lane of its own,
  and `queue.ts:43` grants slots without looking at the user.
* `runner.ts:60` says that drain waits for all in-flight work, but the slot is given
  back at `runner.ts:189`, before the final metadata and the record: an exit can cut
  off this tail, and `ExitCutsOffNoOwner` is what holds.
* `cli.ts:140` arms the forced exit only after the drain has resolved, so a runtime
  that hangs keeps the process alive for ever.
* `ack()` removes an entry, says `delivery/types.ts:50`; but a `fail()` that has read it
  before (`delivery/queue.ts:81`) writes it back (`:96`): with `Overlap = TRUE` TLC finds
  `AckSticks` violated. And any error of the first rename is taken for "already acked".
* `recover()` returns nothing when it cannot list the directory (`delivery/queue.ts:103`) and
  skips an entry that it cannot read (`:128`), without a word: to the caller those entries
  are settled, until the next recovery. `fail()` takes a failed read for an entry that is
  gone (`:80`) and resolves without counting the failure.
* Saves of the scheduler that overlap can tear `jobs.json` (`scheduler_saves`) or leave the
  older of two states in it. The other cases that `clean`, `orderly` and `removed` leave out:
  - an edit schedules after its save (`scheduler/service.ts:53`, `:70`): a removal meanwhile
    is followed by a timer for a job that is gone, and of two edits the one whose save
    ends last sets the timer, which may be the older one;
  - a run that ends after an update or a removal puts its old object back (`:131`), with
    no timer, or with the timer of the other object;
  - a save that fails leaves the map changed and the timer as it was (`:66`). The next
    clean save repairs the file, only the next edit of the job the timer;
  - a schedule that `new Cron()` cannot read (`scheduler/timer.ts:20`; the routes pass any,
    `server/routes.ts:86-107`) makes `addJob()` and `updateJob()` reject with the job saved and
    without a timer. The next `initialize()` throws at that job (`service.ts:31`), before the
    jobs behind it have timers, and `cli.ts` ends the process: the server cannot be
    started until the file is edited;
  - a file that exists and cannot be read when the process starts is taken for none
    (`scheduler/store.ts:19`), and the first save replaces it.
* `isProcessAlive()` takes EPERM, which says that the process lives and belongs to another
  user, for "gone" (`events/store.ts:461`), so a run in progress can be marked stale, though
  the error text says that no process owns it (`:497`). A log that cannot be read gives the
  stale run counts of zero (`:513`).
* The console locks for good when a run starts while the fetches of the first load are
  under way: the start is adopted (`DebugConsole.tsx:245`), the answer then turns the
  console to another run (`:167-171`) without ending the streaming, and the result that would
  end it (`:288`) is filtered out as one of another run. Send and New stay disabled until
  another run is picked from the list, or the page is loaded anew. TLC finds it when `~turned` is taken out of `StreamingWillEnd`.
* `SKILL_ROOT_MISSING` "wins outright" (`skills/resolve.ts:55`, `:107-111`), but the skills of
  the config are loaded first (`:142`): one broken `SKILL.md` there throws, and the caller
  gets that exception and not the missing root.
* After a timeout two writers race for `metadata.json`: the run is listed as whatever
  the last one wrote.
* One broken `SKILL.md` in any root, of a skill that is allowed or not, ends the call
  (`skills/loader.ts:131`).
* The precedence of `SKILL_ROOT_MISSING` in `action.ts:37-41` does not hold for an
  empty allowlist of the caller, which `action.ts:256` passes on and the resolver takes
  for no scope.
* `execute.ts:120-124` says that events are not written to disk; with a history store
  the chain writes them.
* A failed tool call counts as a success: `codex-app-server.ts:172` sends its
  `tool_result` before its failed `tool_call`, and the first to come decides.
* After "send" the console adopts the first run whose event arrives, of whatever client
  (`DebugConsole.tsx:333`); the replay of a run in progress can show its events out of
  the order that `README.md:367` promises, since the fetched prefix and the live events
  are not merged; and the comment
  at `DebugConsole.tsx:132` says that the cleanup does not abort, which `:176` does.
