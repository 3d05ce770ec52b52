----------------------------- MODULE TaskRunner -----------------------------
(***************************************************************************)
(* src/runner/runner.ts: run(), from the queue slot to the history record. *)
(*                                                                         *)
(* Each run is a sequence of awaits, so the runs that own a slot, and the  *)
(* tails of the runs that have already given theirs back, interleave at    *)
(* every await. An event is broadcast in the turn it is made; its append   *)
(* to the log is chained behind the run's earlier appends and may fail.    *)
(*                                                                         *)
(* An event is its sequence number: event 0 of the code is 1 here.         *)
(***************************************************************************)
EXTENDS TaskQueue

CONSTANTS Stored,       \* the tasks whose run has an execution history store
          MaxEvents,    \* bound of the model: events a run makes
          MaxFaults,    \* bound of the model: disk writes that fail
          MaxHistory    \* config.taskHistory.maxEntries, at least 1

ASSUME RunnerAssumption == /\ Stored \subseteq Task
                           /\ MaxEvents \in Nat \ {0}
                           /\ MaxFaults \in Nat
                           /\ MaxHistory \in Nat \ {0}

VARIABLES pc,           \* the await each run() stands at
          made,         \* the number of events a run has made and broadcast
          appendQueue,  \* the appends chained and not settled, oldest first
          log,          \* the events on disk, in file order
          lost,         \* the events whose append failed with a warning
          awaited,      \* the append a run is waiting for
          result,       \* result.status
          saves,        \* the metadata writes that have not settled
          meta,         \* the status in the metadata file
          unsaved,      \* the metadata writes that failed with a warning
          history       \* the in-memory TaskRecord list

runVars == <<pc, made, appendQueue, log, lost, awaited, result, saves, meta, unsaved, history>>

runnerVars == <<vars, runVars>>

Final == {"completed", "error"}

InRange(s, x) == \E i \in DOMAIN s : s[i] = x

RunnerInit ==
    /\ Init
    /\ pc = [t \in Task |-> "enqueue"]
    /\ made = [t \in Task |-> 0]
    /\ appendQueue = [t \in Task |-> <<>>]
    /\ log = [t \in Task |-> <<>>]
    /\ lost = [t \in Task |-> {}]
    /\ awaited = [t \in Task |-> 0]
    /\ result = [t \in Task |-> "none"]
    /\ saves = [t \in Task |-> {}]
    /\ meta = [t \in Task |-> "none"]
    /\ unsaved = [t \in Task |-> {}]
    /\ history = <<>>

At(t, place) == pc[t] = place

Goto(t, place) == pc' = [pc EXCEPT ![t] = place]

\* persistEvent(makeEvent(...)): number, broadcast, and chain the append.
Persist(t) ==
    /\ made' = [made EXCEPT ![t] = @ + 1]
    /\ appendQueue' = IF t \in Stored
                      THEN [appendQueue EXCEPT ![t] = Append(@, made[t] + 1)]
                      ELSE appendQueue

\* await appendQueue: whatever is chained up to here.
AwaitAppends(t) == awaited' = [awaited EXCEPT ![t] = made'[t]]

Appended(t) == ~InRange(appendQueue[t], awaited[t])

\* await saveHistoryMetadata(...): it never rejects.
SavesSettled(t) == saves[t] = {}

-----------------------------------------------------------------------------

\* run() goes on after enqueue(): task_init is made, broadcast and chained.
StartRun(t) ==
    /\ At(t, "enqueue")
    /\ Resume(t)
    /\ Persist(t)
    /\ AwaitAppends(t)
    /\ Goto(t, "init")
    /\ UNCHANGED <<log, lost, result, saves, meta, unsaved, history>>

\* task_init is appended (or lost): the "running" metadata is written.
SaveRunning(t) ==
    /\ At(t, "init")
    /\ t \in Stored
    /\ Appended(t)
    /\ saves' = [saves EXCEPT ![t] = @ \cup {"running"}]
    /\ Goto(t, "savingRunning")
    /\ UNCHANGED <<vars, made, appendQueue, log, lost, awaited, result, meta, unsaved, history>>

\* executeTask() is called.
Execute(t) ==
    /\ IF t \in Stored THEN At(t, "savingRunning") /\ SavesSettled(t)
                       ELSE At(t, "init")
    /\ Goto(t, "executing")
    /\ UNCHANGED <<vars, made, appendQueue, log, lost, awaited, result, saves, meta, unsaved,
                   history>>

\* The runtime reports an event. The Codex process is killed only after the
\* turn is over, so a notification can still arrive when run() has gone on.
RuntimeEvent(t) ==
    /\ pc[t] \in {"executing", "failing", "flush", "savingFinal", "done"}
    /\ made[t] < MaxEvents
    /\ Persist(t)
    /\ UNCHANGED <<vars, pc, log, lost, awaited, result, saves, meta, unsaved, history>>

ReleaseTwice(t) ==
    /\ call[t] = "holding"
    /\ IF queue = <<>>
       THEN /\ running' = IF running > 1 THEN running - 2 ELSE 0
            /\ call' = [call EXCEPT ![t] = "released"]
            /\ UNCHANGED queue
       ELSE /\ call' = [call EXCEPT ![t] = "released", ![Head(queue)] = "granted"]
            /\ queue' = Tail(queue)
            /\ running' = running - 1
    /\ UNCHANGED <<draining, notice, position, drain, ahead>>

KeepSlot(t) == call[t] = "holding" /\ UNCHANGED vars

\* recordTask() shifts the oldest records out beyond maxHistory.
Evict(h) == IF Len(h) > MaxHistory THEN SubSeq(h, Len(h) - MaxHistory + 1, Len(h)) ELSE h

\* recordTask(record), and run() resolves.
RecordTask(t) ==
    /\ history' = Evict(Append(history, t))
    /\ Goto(t, "done")

\* The finally block.
GiveSlotBack(t) == Release(t)

\* The turn of run() after the try statement: the slot is released first. With
\* a store the chained appends are awaited next; without one the run is
\* recorded in the same turn.
WindUp(t) ==
    /\ GiveSlotBack(t)
    /\ UNCHANGED <<made, appendQueue>>
    /\ IF t \in Stored
       THEN AwaitAppends(t) /\ Goto(t, "flush") /\ UNCHANGED history
       ELSE RecordTask(t) /\ UNCHANGED awaited

\* executeTask() resolves.
RuntimeReturns(t, status) ==
    /\ At(t, "executing")
    /\ result' = [result EXCEPT ![t] = status]
    /\ WindUp(t)
    /\ UNCHANGED <<log, lost, saves, meta, unsaved>>

\* executeTask() rejects: an error event is made and its append awaited.
RuntimeThrows(t) ==
    /\ At(t, "executing")
    /\ made[t] < MaxEvents
    /\ result' = [result EXCEPT ![t] = "error"]
    /\ Persist(t)
    /\ AwaitAppends(t)
    /\ Goto(t, "failing")
    /\ UNCHANGED <<vars, log, lost, saves, meta, unsaved, history>>

\* The catch block is over.
FailureLogged(t) ==
    /\ At(t, "failing")
    /\ Appended(t)
    /\ WindUp(t)
    /\ UNCHANGED <<log, lost, result, saves, meta, unsaved>>

SaveFinalUnflushed(t) ==
    /\ At(t, "flush")
    /\ saves' = [saves EXCEPT ![t] = @ \cup {result[t]}]
    /\ Goto(t, "savingFinal")
    /\ UNCHANGED <<vars, made, appendQueue, log, lost, awaited, result, meta, unsaved, history>>

\* The chained appends have settled: the final metadata is written.
SaveFinal(t) ==
    /\ At(t, "flush")
    /\ Appended(t)
    /\ saves' = [saves EXCEPT ![t] = @ \cup {result[t]}]
    /\ Goto(t, "savingFinal")
    /\ UNCHANGED <<vars, made, appendQueue, log, lost, awaited, result, meta, unsaved, history>>

\* The final metadata is written (or lost).
Record(t) ==
    /\ At(t, "savingFinal")
    /\ SavesSettled(t)
    /\ RecordTask(t)
    /\ UNCHANGED <<vars, made, appendQueue, log, lost, awaited, result, saves, meta, unsaved>>

AnyAppend(t) == DOMAIN appendQueue[t]

FirstUnlessOneFailed(t) == {i \in DOMAIN appendQueue[t] : i = 1 /\ lost[t] = {}}

\* Each append starts when the one before it has settled.
NextAppend(t) == {i \in DOMAIN appendQueue[t] : i = 1}

\* The disk writes that have failed so far, in all runs.
Faults == Cardinality({x \in Task \X (1..MaxEvents) : x[2] \in lost[x[1]]})
          + Cardinality({x \in Task \X (Final \cup {"running"}) : x[2] \in unsaved[x[1]]})

MayFail == Faults < MaxFaults

\* An append of a run settles: on disk, or failed and only warned about.
AppendSettles(t, i) ==
    LET event == appendQueue[t][i]
        rest == SubSeq(appendQueue[t], 1, i - 1) \o
                SubSeq(appendQueue[t], i + 1, Len(appendQueue[t]))
    IN /\ appendQueue' = [appendQueue EXCEPT ![t] = rest]
       /\ \/ /\ log' = [log EXCEPT ![t] = Append(@, event)]
             /\ UNCHANGED lost
          \/ /\ MayFail
             /\ lost' = [lost EXCEPT ![t] = @ \cup {event}]
             /\ UNCHANGED log
       /\ UNCHANGED <<vars, pc, made, awaited, result, saves, meta, unsaved, history>>

\* A metadata write settles: the file holds it, or it failed with a warning.
SaveSettles(t, s) ==
    /\ s \in saves[t]
    /\ saves' = [saves EXCEPT ![t] = @ \ {s}]
    /\ \/ meta' = [meta EXCEPT ![t] = s] /\ UNCHANGED unsaved
       \/ MayFail /\ unsaved' = [unsaved EXCEPT ![t] = @ \cup {s}] /\ UNCHANGED meta
    /\ UNCHANGED <<vars, pc, made, appendQueue, log, lost, awaited, result, history>>

\* run() is called: the queue takes it or refuses it, and a refusal rejects run().
Submit(t) == Enqueue(t) /\ UNCHANGED runVars

QueueNotice(t) == NoticeTimer(t) /\ UNCHANGED runVars

RunStep(t) ==
    \/ Submit(t) \/ QueueNotice(t)
    \/ StartRun(t) \/ SaveRunning(t) \/ Execute(t)
    \/ RuntimeEvent(t) \/ RuntimeThrows(t) \/ FailureLogged(t)
    \/ \E status \in Final : RuntimeReturns(t, status)
    \/ SaveFinal(t) \/ Record(t)
    \/ \E i \in NextAppend(t) : AppendSettles(t, i)
    \/ \E s \in saves[t] : SaveSettles(t, s)

\* drain() of the runner is drain() of its queue.
DrainStep(d) == (Drain(d) \/ PollDrain(d)) /\ UNCHANGED runVars

RunnerNext == \/ \E t \in Task : RunStep(t)
              \/ \E d \in Drainer : DrainStep(d)

RunnerSpec == RunnerInit /\ [][RunnerNext]_runnerVars

\* The steps of a run that wait for nothing but the event loop and the disk.
LoopStep(t) ==
    \/ StartRun(t) \/ SaveRunning(t) \/ Execute(t) \/ FailureLogged(t)
    \/ SaveFinal(t) \/ Record(t)
    \/ \E i \in NextAppend(t) : AppendSettles(t, i)
    \/ \E s \in saves[t] : SaveSettles(t, s)

\* executeTask() comes to an end: nothing in the runner bounds how long it takes.
RuntimeEnds(t) == RuntimeThrows(t) \/ \E status \in Final : RuntimeReturns(t, status)

-----------------------------------------------------------------------------

Settled(t) == {log[t][i] : i \in DOMAIN log[t]} \cup lost[t]

\* A run owns its slot exactly from its start to the end of executeTask(): the
\* phases of run() and the queue's view of the caller never drift apart, on the
\* success path, on the failure path and while the tails of other runs go on.
SlotFollowsRun ==
    \A t \in Task :
        /\ call[t] = "holding" <=> pc[t] \in {"init", "savingRunning", "executing", "failing"}
        /\ call[t] = "released" <=> pc[t] \in {"flush", "savingFinal", "done"}

\* The log on disk is the broadcast in its own order: no event overtakes an
\* earlier one, whatever appends fail, and every event that was broadcast is on
\* disk, on its way there, or was reported lost.
LogFollowsBroadcast ==
    \A t \in Stored :
        /\ \A i, j \in DOMAIN log[t] : i < j => log[t][i] < log[t][j]
        /\ Settled(t) \cup {appendQueue[t][i] : i \in DOMAIN appendQueue[t]} = 1..made[t]

\* By the time the final metadata is on disk, every event made before the slot
\* was released has settled, so a reader that finds a finished run finds its
\* whole log (late notifications excepted); and a run that is recorded left its
\* outcome on disk, unless that very write failed.
OutcomeIsDurable ==
    \A t \in Stored :
        /\ meta[t] \in Final => 1..awaited[t] \subseteq Settled(t)
        /\ pc[t] = "done" => meta[t] = result[t] \/ result[t] \in unsaved[t]

\* The composed system keeps the contract the queue relies on: every step of
\* the runner is a step of the queue or invisible to it, and every owner
\* releases its slot in the end.
KeepsQueueContract == FairSpec

=============================================================================
