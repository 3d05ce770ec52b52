------------------------------- MODULE RunStore -------------------------------
(***************************************************************************)
(* src/events/store.ts: the execution history on disk, which the processes *)
(* that run tasks write and any process, each with a store of its own, may *)
(* list, read and mark stale.                                              *)
(*                                                                         *)
(* A run is written by its owner: events.jsonl grows, metadata.json is     *)
(* written as "running" at the start and again at the end. A reader first  *)
(* makes a pass over all runs and overwrites the metadata of those that    *)
(* look abandoned, then reads them. Every step between two awaits is an    *)
(* action of its own. writeFile() truncates first: between OpenMeta and    *)
(* WriteMeta the file is torn, and so it stays if the writer dies there.   *)
(***************************************************************************)
EXTENDS Naturals, FiniteSets

CONSTANTS
    Run,
    Reader,
    MaxEvents,      \* bound of the model: events of a run
    MaxMishaps      \* bound of the model: failing writes, passes cut off

VARIABLES
    owner,      \* the process of each run: "none", "live" or "dead"
    reused,     \* the pid of a dead owner is the pid of another process
    denied,     \* the readers that may not signal the process with its pid
    old,        \* started at least staleAfterMs ago
    phase,      \* where the owner stands
    emitted,    \* events the owner has emitted
    lines,      \* well-formed lines of events.jsonl
    cut,        \* the last line has no end: an append was cut off
    meta,       \* what metadata.json holds
    pc,         \* where listRuns() or readRun() of each reader stands
    todo,       \* directories of its listing still to visit
    at,         \* the run it is about to mark
    count,      \* the events it has read of that run
    found,      \* the runs it reports as running
    orphans,    \* history: the abandoned runs when its pass began
    over,       \* history: the runs with an outcome when its pass began
    mistaken,   \* history: the runs taken for abandoned while denied[] hid their owners
    unread,     \* history: the runs judged abandoned whose log could not be read
    mishaps

ownerVars == <<owner, phase, emitted, lines, cut>>
pidVars == <<reused, denied>>
doubts == <<mistaken, unread>>
readerVars == <<pc, todo, at, count, found, orphans, over, doubts, mishaps>>
vars == <<ownerVars, pidVars, old, meta, readerVars>>

Missing == [status |-> "missing", count |-> 0]
Torn == [status |-> "torn", count |-> 0]
Metadata(s, n) == [status |-> s, count |-> n]

\* An outcome.
Final == {"completed", "error"}

Init ==
    /\ owner = [r \in Run |-> "none"]
    /\ reused = [r \in Run |-> FALSE]
    /\ denied = [r \in Run |-> {}]
    /\ old = [r \in Run |-> FALSE]
    /\ phase = [r \in Run |-> "new"]
    /\ emitted = [r \in Run |-> 0]
    /\ lines = [r \in Run |-> 0]
    /\ cut = [r \in Run |-> FALSE]
    /\ meta = [r \in Run |-> Missing]
    /\ pc = [v \in Reader |-> "idle"]
    /\ todo = [v \in Reader |-> {}]
    /\ at \in [Reader -> Run]
    /\ count = [v \in Reader |-> 0]
    /\ found = [v \in Reader |-> {}]
    /\ orphans = [v \in Reader |-> {}]
    /\ over = [v \in Reader |-> {}]
    /\ mistaken = {}
    /\ unread = {}
    /\ mishaps = 0

-----------------------------------------------------------------------------
(* The owner: append() and saveMetadata(), called by the runner.           *)

GoTo(r, place) == phase' = [phase EXCEPT ![r] = place]

\* append(): a line, or with a failing disk a piece of one. What is appended
\* behind a piece without an end is part of one malformed line.
AppendLine(r) ==
    /\ emitted' = [emitted EXCEPT ![r] = @ + 1]
    /\ \/ lines' = [lines EXCEPT ![r] = IF cut[r] THEN @ ELSE @ + 1]
          /\ cut' = [cut EXCEPT ![r] = FALSE]
       \/ cut' = [cut EXCEPT ![r] = TRUE] /\ UNCHANGED lines
       \/ UNCHANGED <<lines, cut>>

\* The run starts with its task_init event. Its process may belong to another
\* user than some of the readers.
Begin(r) ==
    /\ phase[r] = "new"
    /\ owner' = [owner EXCEPT ![r] = "live"]
    /\ AppendLine(r)
    /\ GoTo(r, "begun")
    /\ \E strangers \in SUBSET Reader : denied' = [denied EXCEPT ![r] = strangers]
    /\ UNCHANGED <<reused, old, meta, readerVars>>

Emit(r) ==
    /\ owner[r] = "live"
    /\ phase[r] = "running"
    /\ emitted[r] < MaxEvents
    /\ AppendLine(r)
    /\ UNCHANGED <<owner, phase, pidVars, old, meta, readerVars>>

OpenMeta(r) ==
    /\ owner[r] = "live"
    /\ \/ phase[r] = "begun" /\ GoTo(r, "starting")
       \/ phase[r] = "running" /\ GoTo(r, "ending")
    /\ meta' = [meta EXCEPT ![r] = Torn]
    /\ UNCHANGED <<owner, emitted, lines, cut, pidVars, old, readerVars>>

\* The counts come from the events in memory, not from the file.
WriteMeta(r) ==
    /\ owner[r] = "live"
    /\ \/ /\ phase[r] = "starting"
          /\ GoTo(r, "running")
          /\ meta' = [meta EXCEPT ![r] = Metadata("running", emitted[r])]
       \/ /\ phase[r] = "ending"
          /\ GoTo(r, "over")
          /\ \E s \in Final : meta' = [meta EXCEPT ![r] = Metadata(s, emitted[r])]
    /\ UNCHANGED <<owner, emitted, lines, cut, pidVars, old, readerVars>>

\* The write fails, which the runner only warns about: the file stays torn.
MetaFails(r) ==
    /\ owner[r] = "live"
    /\ mishaps < MaxMishaps
    /\ mishaps' = mishaps + 1
    /\ \/ phase[r] = "starting" /\ GoTo(r, "running")
       \/ phase[r] = "ending" /\ GoTo(r, "over")
    /\ UNCHANGED <<owner, emitted, lines, cut, pidVars, old, meta,
                   pc, todo, at, count, found, orphans, over, doubts>>

\* The process ends, at any time.
Exit(r) ==
    /\ owner[r] = "live"
    /\ owner' = [owner EXCEPT ![r] = "dead"]
    /\ UNCHANGED <<phase, emitted, lines, cut, pidVars, old, meta, readerVars>>

\* Another process gets the pid, or the one that has it ends.
ReusePid(r) ==
    /\ owner[r] = "dead"
    /\ reused' = [reused EXCEPT ![r] = ~@]
    /\ \E strangers \in SUBSET Reader : denied' = [denied EXCEPT ![r] = strangers]
    /\ orphans' = [v \in Reader |-> orphans[v] \ {r}]
    /\ UNCHANGED <<ownerVars, old, meta, pc, todo, at, count, found, over, doubts, mishaps>>

Age(r) ==
    /\ phase[r] # "new"
    /\ ~old[r]
    /\ old' = [old EXCEPT ![r] = TRUE]
    /\ UNCHANGED <<ownerVars, pidVars, meta, readerVars>>

-----------------------------------------------------------------------------
(* A reader: markStaleRuns(), then the reads of listRuns() or readRun().   *)

Directories == { r \in Run : phase[r] # "new" }

\* isProcessAlive(): any process with the pid counts, but not one that the
\* reader may not signal: kill() throws EPERM then, which is taken for "gone".
IsAlive(v, r) == (owner[r] = "live" \/ reused[r]) /\ v \notin denied[r]

KeepsOldOnly(v, r) == ~old[r]

KeepsRun(v, r) == IsAlive(v, r) \/ ~old[r]

\* Abandoned, as far as the reader can tell.
IsOrphan(v, r) == ~KeepsRun(v, r) /\ meta[r].status = "running"

Advance(v, place) == pc' = [pc EXCEPT ![v] = place]

\* readdir(); when it fails the pass is over at once.
BeginPass(v) ==
    /\ pc[v] = "idle"
    /\ Advance(v, "marking")
    /\ \E listed \in {Directories, {}} :
          /\ todo' = [todo EXCEPT ![v] = listed]
          /\ orphans' = [orphans EXCEPT ![v] = { r \in listed : IsOrphan(v, r) }]
    /\ found' = [found EXCEPT ![v] = {}]
    /\ over' = [over EXCEPT ![v] = { r \in Run : meta[r].status \in Final }]
    /\ UNCHANGED <<ownerVars, pidVars, old, meta, at, count, doubts, mishaps>>

NotYetStale(r) == meta[r].status \in {"running", "completed", "error"}

ToJudge(r) == meta[r].status = "running"

\* readMetadata() of the next directory; a torn file counts as none, and so
\* does one that cannot be read.
ReadMeta(v, r) ==
    /\ pc[v] = "marking"
    /\ r \in todo[v]
    /\ todo' = [todo EXCEPT ![v] = @ \ {r}]
    /\ \/ ToJudge(r) /\ Advance(v, "judging") /\ at' = [at EXCEPT ![v] = r] /\ UNCHANGED orphans
       \/ ~ToJudge(r) /\ UNCHANGED <<pc, at, orphans>>
       \/ orphans' = [orphans EXCEPT ![v] = @ \ {r}] /\ UNCHANGED <<pc, at>>
    /\ UNCHANGED <<ownerVars, pidVars, old, meta, count, found, over, doubts, mishaps>>

\* A turn later, with the metadata it has read: is the owner alive, and is
\* the run old enough?
Judge(v) ==
    /\ pc[v] = "judging"
    /\ Advance(v, IF KeepsRun(v, at[v]) THEN "marking" ELSE "counting")
    /\ mistaken' = IF owner[at[v]] = "live" /\ v \in denied[at[v]] /\ ~KeepsRun(v, at[v])
                   THEN mistaken \cup {at[v]} ELSE mistaken
    /\ UNCHANGED <<ownerVars, pidVars, old, meta, todo, at, count, found, orphans, over,
                   unread, mishaps>>

\* listRunEvents(); malformed lines are skipped.
ReadEvents(v) ==
    /\ pc[v] = "counting"
    /\ count' = [count EXCEPT ![v] = lines[at[v]]]
    /\ Advance(v, "opening")
    /\ UNCHANGED <<ownerVars, pidVars, old, meta, todo, at, found, orphans, over, doubts, mishaps>>

\* The read fails: the log counts as empty.
ReadFails(v) ==
    /\ pc[v] = "counting"
    /\ count' = [count EXCEPT ![v] = 0]
    /\ unread' = unread \cup {at[v]}
    /\ Advance(v, "opening")
    /\ UNCHANGED <<ownerVars, pidVars, old, meta, todo, at, found, orphans, over,
                   mistaken, mishaps>>

\* saveMetadata() of the stale metadata, whatever the file holds by now.
OpenStale(v) ==
    /\ pc[v] = "opening"
    /\ meta' = [meta EXCEPT ![at[v]] = Torn]
    /\ Advance(v, "writing")
    /\ UNCHANGED <<ownerVars, pidVars, old, todo, at, count, found, orphans, over, doubts, mishaps>>

StaleIfRunning(v) ==
    IF meta[at[v]].status = "running" THEN Metadata("stale", count[v]) ELSE meta[at[v]]

StaleMetadata(v) == Metadata("stale", count[v])

WriteStale(v) ==
    /\ pc[v] = "writing"
    /\ meta' = [meta EXCEPT ![at[v]] = StaleMetadata(v)]
    /\ Advance(v, "marking")
    /\ UNCHANGED <<ownerVars, pidVars, old, todo, at, count, found, orphans, over, doubts, mishaps>>

NotAwaited(v) == TRUE

PassOver(v) == todo[v] = {}

\* The pass is over; the runs are read, after another readdir(): none if it fails.
BeginListing(v) ==
    /\ pc[v] = "marking"
    /\ PassOver(v)
    /\ Advance(v, "listing")
    /\ \E listed \in {Directories, {}} : todo' = [todo EXCEPT ![v] = listed]
    /\ UNCHANGED <<ownerVars, pidVars, old, meta, at, count, found, orphans, over, doubts, mishaps>>

\* A run that is not running, or cannot be read, is no answer here.
ListRun(v, r) ==
    /\ pc[v] = "listing"
    /\ r \in todo[v]
    /\ todo' = [todo EXCEPT ![v] = @ \ {r}]
    /\ \/ meta[r].status = "running" /\ found' = [found EXCEPT ![v] = @ \cup {r}]
       \/ UNCHANGED found
    /\ UNCHANGED <<ownerVars, pidVars, old, meta, pc, at, count, orphans, over, doubts, mishaps>>

Answer(v) ==
    /\ pc[v] = "listing"
    /\ todo[v] = {}
    /\ Advance(v, "idle")
    /\ UNCHANGED <<ownerVars, pidVars, old, meta, todo, at, count, found, orphans, over, doubts, mishaps>>

\* The process of the reader ends, or a write fails and the call with it.
Interrupt(v) ==
    /\ pc[v] # "idle"
    /\ mishaps < MaxMishaps
    /\ mishaps' = mishaps + 1
    /\ Advance(v, "idle")
    /\ found' = [found EXCEPT ![v] = {}]
    /\ UNCHANGED <<ownerVars, pidVars, old, meta, todo, at, count, orphans, over, doubts>>

-----------------------------------------------------------------------------

OwnerStep(r) == Begin(r) \/ Emit(r) \/ OpenMeta(r) \/ WriteMeta(r) \/ MetaFails(r) \/ Exit(r)

ReaderStep(v) ==
    \/ BeginPass(v) \/ Judge(v) \/ ReadEvents(v) \/ ReadFails(v) \/ OpenStale(v) \/ WriteStale(v)
    \/ BeginListing(v) \/ Answer(v) \/ Interrupt(v)
    \/ \E r \in Run : ReadMeta(v, r) \/ ListRun(v, r)

Next ==
    \/ \E r \in Run : OwnerStep(r) \/ ReusePid(r) \/ Age(r)
    \/ \E v \in Reader : ReaderStep(v)

Spec == Init /\ [][Next]_vars

-----------------------------------------------------------------------------

Places == {"idle", "marking", "judging", "counting", "opening", "writing", "listing"}

\* The reader has judged the run it is at and will write its metadata.
Marking(v) == pc[v] \in {"counting", "opening", "writing"}

StoreTypeOK ==
    /\ owner \in [Run -> {"none", "live", "dead"}]
    /\ reused \in [Run -> BOOLEAN] /\ denied \in [Run -> SUBSET Reader]
    /\ old \in [Run -> BOOLEAN]
    /\ phase \in [Run -> {"new", "begun", "starting", "running", "ending", "over"}]
    /\ emitted \in [Run -> Nat] /\ lines \in [Run -> Nat] /\ cut \in [Run -> BOOLEAN]
    /\ meta \in [Run -> [status : {"missing", "torn", "running", "stale"} \cup Final,
                         count : Nat]]
    /\ pc \in [Reader -> Places]
    /\ todo \in [Reader -> SUBSET Run] /\ at \in [Reader -> Run]
    /\ count \in [Reader -> Nat] /\ found \in [Reader -> SUBSET Run]
    /\ orphans \in [Reader -> SUBSET Run] /\ over \in [Reader -> SUBSET Run]
    /\ mistaken \in SUBSET Run /\ unread \in SUBSET Run /\ mishaps \in Nat

\* A run is marked stale only when it is old and its owner is gone, unless a
\* reader of another user took the owner for gone because it may not signal
\* it. The counts in its metadata are those of the log as it stays, a marker
\* reading the log after it has seen the owner gone; a reader that was
\* mistaken, or could not read the log, has counted fewer, never more.
StaleIsFinal ==
    \A r \in Run : meta[r].status = "stale" =>
        /\ old[r]
        /\ r \notin mistaken => owner[r] = "dead"
        /\ r \notin mistaken \cup unread => meta[r].count = lines[r]
        /\ meta[r].count <= lines[r]

\* What a reader reports as running was not abandoned when its pass began, as
\* far as it could tell, though other passes overlap with it and tear files
\* that it reads, unless its pass failed to list or to read the run itself
\* (test/event-store.test.ts:129 has one reader).
PassLeavesNoOrphan ==
    \A v \in Reader : found[v] \cap orphans[v] = {}

\* A run that had its outcome on disk when a pass began is not marked by
\* that pass: an outcome is lost only to a pass that was under way, and had
\* read "running", when the owner wrote it and went.
OutcomeStandsForLaterPasses ==
    \A v \in Reader : (pc[v] = "judging" \/ Marking(v)) => at[v] \notin over[v]

\* A run with unreadable metadata, which no reader lists, has a writer at
\* work, unless a write has failed or was cut off: writers that overlap leave
\* a whole file.
TornHasAWriter ==
    \A r \in Run : meta[r].status = "torn" =>
        \/ phase[r] \in {"starting", "ending"}
        \/ \E v \in Reader : pc[v] = "writing" /\ at[v] = r
        \/ mishaps > 0

=============================================================================
