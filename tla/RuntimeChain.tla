----------------------------- MODULE RuntimeChain -----------------------------
(***************************************************************************)
(* src/task/runtime-chain.ts: one prompt run for an SDK caller, through an *)
(* adapter and a task runner made for it, with an optional timeout.        *)
(*                                                                         *)
(* The timeout answers the caller and disposes of the adapter; the run it  *)
(* abandons goes on by itself. Both write the metadata of the run.         *)
(*                                                                         *)
(* The runner is the one of TaskRunner with a single task and a history    *)
(* store; here only its awaits are kept, and its events.                   *)
(***************************************************************************)
EXTENDS CodexAdapter

CONSTANT Call    \* the only run of its adapter

ASSUME ChainAssumption == Run = {Call}

VARIABLES phase,      \* the await at which the run stands in runner.run()
          broadcast,  \* the events it has made
          saves,      \* the writes of metadata.json under way
          meta,       \* the status in metadata.json
          unsaved,    \* a write of it has failed with a warning
          chain,      \* runPromptViaRuntime(): "racing", "saving" or "returned"
          timer,      \* "armed", "fired" or "off"
          accepting,  \* the gate for events
          seen,       \* the events that passed the gate
          outcome,    \* result.status, or "timed_out" for the error of the timeout
          snapshot    \* result.events

runnerVars == <<phase, broadcast>>
historyVars == <<saves, meta, unsaved>>
chainVars == <<chain, timer, accepting, outcome, snapshot>>

vars == <<adapterVars, runnerVars, seen, historyVars, chainVars>>

\* The call, with and without a timeout.
Init == /\ AdapterInit
        /\ phase = "enqueue"
        /\ broadcast = <<>>
        /\ saves = {}
        /\ meta = "none"
        /\ unsaved = FALSE
        /\ chain = "racing"
        /\ timer \in {"armed", "off"}
        /\ accepting = TRUE
        /\ seen = <<>>
        /\ outcome = "none"
        /\ snapshot = <<>>

\* record.result.status, as it is saved and returned.
FinalStatus == result[Call]

ShowAlways(events) == seen' = seen \o events

\* onEvent and onPersistedEvent of the chain: nothing passes a closed gate.
Show(events) == seen' = IF accepting THEN seen \o events ELSE seen

\* persistEvent(): an event is broadcast in the turn it is made.
Emit(events) == broadcast' = broadcast \o events /\ Show(events)

Save(by, status) == saves' = saves \cup {[by |-> by, status |-> status]}

SavedAnyway(by) == by \in {"runner", "chain"}

Saved(by) == \A s \in saves : s.by # by

-----------------------------------------------------------------------------

\* run() has its slot in the turn of the call; the prompt is the first event.
BeginRun ==
    /\ phase = "enqueue"
    /\ phase' = "init"
    /\ Emit(<<"task_init">>)
    /\ UNCHANGED <<adapterVars, historyVars, chainVars>>

SaveRunning ==
    /\ phase = "init"
    /\ phase' = "savingRunning"
    /\ Save("runner", "running")
    /\ UNCHANGED <<adapterVars, broadcast, seen, meta, unsaved, chainVars>>

\* executeTask() of the runner reads the workspace for the system prompt.
AssemblePrompt ==
    /\ phase = "savingRunning" /\ Saved("runner")
    /\ phase' = "assembling"
    /\ UNCHANGED <<adapterVars, broadcast, seen, historyVars, chainVars>>

\* runtime.run(): two lifecycle events, and the adapter.
RunRuntime ==
    /\ phase = "assembling"
    /\ phase' = "runtime"
    /\ Emit(<<"start", "prompt_sent">>)
    /\ Start(Call)
    /\ UNCHANGED <<historyVars, chainVars>>

CodexEvent ==
    /\ ReadDelta(Call)
    /\ Emit(<<"delta">>)
    /\ UNCHANGED <<phase, historyVars, chainVars>>

\* The adapter has returned: the last lifecycle event, then the appends.
EndRuntime ==
    /\ phase = "runtime" /\ at[Call] = "returned"
    /\ phase' = "flush"
    /\ Emit(<<"end">>)
    /\ UNCHANGED <<adapterVars, historyVars, chainVars>>

SaveFinal ==
    /\ phase = "flush"
    /\ phase' = "savingFinal"
    /\ Save("runner", FinalStatus)
    /\ UNCHANGED <<adapterVars, broadcast, seen, meta, unsaved, chainVars>>

ResolveRun ==
    /\ phase = "savingFinal" /\ Saved("runner")
    /\ phase' = "resolved"
    /\ UNCHANGED <<adapterVars, broadcast, seen, historyVars, chainVars>>

\* Two writes of the file can overlap; the last to end decides.
SaveSettles ==
    /\ \E s \in saves : /\ saves' = saves \ {s}
                        /\ \/ meta' = s.status /\ UNCHANGED unsaved
                           \/ unsaved' = TRUE /\ UNCHANGED meta
    /\ UNCHANGED <<adapterVars, runnerVars, seen, chainVars>>

-----------------------------------------------------------------------------

AdapterKept == UNCHANGED <<runSideVars, closed, turn, streamed, stdout>>

\* The run wins the race: its record is the result, and the finally block
\* disposes of the adapter once more.
RecordWins ==
    /\ chain = "racing" /\ phase = "resolved"
    /\ chain' = "returned"
    /\ timer' = "off"
    /\ accepting' = FALSE
    /\ outcome' = FinalStatus
    /\ snapshot' = seen
    /\ Dispose(active) /\ AdapterKept
    /\ UNCHANGED <<runnerVars, seen, historyVars>>

\* The timeout: the gate is closed and the adapter disposed of. The catch block
\* writes the metadata of the run, whose id came with its first event.
TimeoutFires ==
    /\ NextEvent
    /\ chain = "racing" /\ phase \notin {"enqueue", "resolved"}
    /\ timer = "armed"
    /\ timer' = "fired"
    /\ accepting' = FALSE
    /\ Dispose(active) /\ AdapterKept
    /\ Save("chain", "error")
    /\ chain' = "saving"
    /\ UNCHANGED <<runnerVars, seen, meta, unsaved, outcome, snapshot>>

AnswerTimeout ==
    /\ chain = "saving" /\ Saved("chain")
    /\ chain' = "returned"
    /\ outcome' = "timed_out"
    /\ snapshot' = seen
    /\ UNCHANGED <<adapterVars, runnerVars, seen, historyVars, timer, accepting>>

\* The steps of the run that wait for the event loop and the disk.
RunnerStep == \/ BeginRun \/ SaveRunning \/ AssemblePrompt \/ RunRuntime
              \/ EndRuntime \/ SaveFinal \/ ResolveRun

ChainStep == RecordWins \/ TimeoutFires \/ AnswerTimeout

AdapterStep == Continue(Call) \/ Arrival(Call)

ChainIdle == UNCHANGED <<runnerVars, seen, historyVars, chainVars>>

Next == \/ RunnerStep \/ SaveSettles \/ ChainStep \/ CodexEvent
        \/ AdapterStep /\ ChainIdle
        \/ Codex(Call) /\ ChainIdle

\* The event loop, the timers and the disk make progress, and a process that got
\* a SIGKILL exits. Nothing else is expected of the process.
Fairness ==
    /\ WF_vars(RunnerStep) /\ WF_vars(SaveSettles) /\ WF_vars(ChainStep) /\ WF_vars(CodexEvent)
    /\ WF_vars(AdapterStep /\ ChainIdle)
    /\ WF_vars(proc[Call] = "killed" /\ CodexExits(Call) /\ ChainIdle)

Spec == Init /\ [][Next]_vars /\ Fairness

-----------------------------------------------------------------------------

\* What the caller was shown is what the result holds, for good: the events of
\* an abandoned run reach neither the callbacks nor the snapshot.
SnapshotIsFinal == chain = "returned" => snapshot = seen

\* A result without a timeout tells of the whole run: the turn ended that way,
\* every event of the runtime is in the snapshot, its end included, and the
\* history agrees, unless a write of it failed.
ResultIsWitnessed ==
    outcome \in {"completed", "error"} =>
        /\ outcome = "completed" => turn[Call] = "completed"
        /\ snapshot = SubSeq(broadcast, 1, Len(snapshot))
        /\ \E i \in DOMAIN snapshot : snapshot[i] = "end"
        /\ meta = outcome \/ unsaved

\* A call with a timeout returns, whatever the process does; and when the timeout
\* signals a process, the abandoned run comes to its end too, at whichever await
\* the exit of the process finds it.
TimeoutEndsAll ==
    /\ timer = "armed" ~> chain = "returned"
    /\ timer = "fired" /\ proc[Call] = "terminating" ~> phase = "resolved"

\* src/task/execute.ts:159, "Timeout triggers real Codex adapter disposal so the
\* subprocess is torn down": no process works on for a call that has timed out.
TimeoutTearsDown == outcome = "timed_out" => proc[Call] # "alive"

=============================================================================
