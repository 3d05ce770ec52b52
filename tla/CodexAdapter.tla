----------------------------- MODULE CodexAdapter -----------------------------
(***************************************************************************)
(* src/llm/codex-app-server.ts: run() of the adapter, the Codex App Server *)
(* process it starts, and the JSON-RPC client between the two.             *)
(*                                                                         *)
(* Each run has a process, a client and promises of its own, and all runs  *)
(* of an adapter share the four active fields that dispose() acts upon.    *)
(*                                                                         *)
(* A run stands at one of its awaits. What it waits for races against the  *)
(* exit of its process; once the race is settled the run goes on before    *)
(* the event loop takes up anything else than further lines of that        *)
(* process, which may have come in one piece.                              *)
(*                                                                         *)
(* The process is not part of the repository: it may answer, stream, fail, *)
(* hang or exit at any time, ignores SIGTERM as long as it likes, and what *)
(* it has written can be read after its exit is known.                     *)
(***************************************************************************)
EXTENDS Naturals, Sequences, FiniteSets

CONSTANTS Run,         \* the calls of run(), all on one adapter
          None,        \* an active field that is undefined
          Concurrent,  \* the callers overlap (config.server.maxConcurrent > 1)
          MaxDeltas    \* bound of the model: what a process streams in its turn

ASSUME AdapterAssumption == /\ None \notin Run
                            /\ Concurrent \in BOOLEAN
                            /\ MaxDeltas \in Nat

VARIABLES at,             \* the await each run stands at
          settled,        \* the race it awaits: "waiting", "ok" or "failed"
          result,         \* the status that run() resolves with
          turnCompleted,  \* the turn that completeTurn() got
          closed,         \* the exit of the process has been noticed
          pending,        \* the client's requests without an answer
          active,         \* activeProcess, activeClient, activeThreadId, activeTurnId
          proc,           \* the process
          asked,          \* the requests it has not answered
          turn,           \* its turn
          streamed,       \* how much it has streamed
          stdout          \* what it has written and nobody has read

runSideVars == <<at, settled, result, turnCompleted>>
clientVars == <<closed, pending>>
codexVars == <<asked, turn, streamed, stdout>>

adapterVars == <<runSideVars, clientVars, active, proc, codexVars>>

Request == {"initialize", "thread/start", "turn/start", "turn/interrupt"}

Answer(m, ok) == [kind |-> "answer", method |-> m, ok |-> ok]
Delta == [kind |-> "delta", method |-> "none", ok |-> TRUE]
TurnEnd(ok) == [kind |-> "turn", method |-> "none", ok |-> ok]

Inactive == [process |-> None, client |-> None, thread |-> None, turn |-> None]

AdapterInit ==
    /\ at = [r \in Run |-> "idle"]
    /\ settled = [r \in Run |-> "waiting"]
    /\ result = [r \in Run |-> "none"]
    /\ turnCompleted = [r \in Run |-> "none"]
    /\ closed = [r \in Run |-> FALSE]
    /\ pending = [r \in Run |-> {}]
    /\ active = Inactive
    /\ proc = [r \in Run |-> "none"]
    /\ asked = [r \in Run |-> {}]
    /\ turn = [r \in Run |-> "none"]
    /\ streamed = [r \in Run |-> 0]
    /\ stdout = [r \in Run |-> <<>>]

Underway(r) == at[r] \notin {"idle", "returned"}

\* The continuation of r is due.
Due(r) == Underway(r) /\ settled[r] # "waiting"

\* The event loop takes up its next event.
NextEvent == \A r \in Run : ~Due(r)

-----------------------------------------------------------------------------

\* client.request(m): refused once the exit is known.
Ask(r, m) ==
    IF closed[r] THEN UNCHANGED <<pending, asked>>
    ELSE /\ pending' = [pending EXCEPT ![r] = @ \cup {m}]
         /\ asked' = [asked EXCEPT ![r] = @ \cup {m}]

\* await withProcess(client.request(m))
AwaitAnswer(r, m) ==
    /\ at' = [at EXCEPT ![r] = m]
    /\ settled' = [settled EXCEPT ![r] = IF closed[r] THEN "failed" ELSE "waiting"]
    /\ Ask(r, m)

InterruptOnly(now) == proc

\* gracefulKill(): SIGTERM for the process in the active field.
Terminate(now) ==
    IF now.process # None /\ proc[now.process] = "alive"
    THEN [proc EXCEPT ![now.process] = "terminating"]
    ELSE proc

\* dispose(), with the active fields as they are now: a turn under way is
\* interrupted, the process gets its SIGTERM, and the fields are cleared.
Dispose(now) ==
    /\ IF None \notin {now.client, now.thread, now.turn}
       THEN Ask(now.client, "turn/interrupt")
       ELSE UNCHANGED <<pending, asked>>
    /\ proc' = Terminate(now)
    /\ active' = Inactive

\* run() comes to its end; the finally block disposes of whatever is active.
Finish(r, status, now) ==
    /\ at' = [at EXCEPT ![r] = "returned"]
    /\ result' = [result EXCEPT ![r] = status]
    /\ Dispose(now)
    /\ UNCHANGED <<settled, turnCompleted, closed, turn, streamed, stdout>>

\* The command is not there: no process, and an error result.
NotFound(r) ==
    /\ at[r] = "idle"
    /\ Finish(r, "error", active)

\* spawn(), and the first request. The start of the process may yet fail.
Spawn(r) ==
    /\ at[r] = "idle"
    /\ \E state \in {"alive", "unborn"} : proc' = [proc EXCEPT ![r] = state]
    /\ active' = [active EXCEPT !.process = r, !.client = r]
    /\ AwaitAnswer(r, "initialize")
    /\ UNCHANGED <<result, turnCompleted, closed, turn, streamed, stdout>>

\* run() is called while the callers' limit allows it.
Start(r) ==
    /\ NextEvent
    /\ Concurrent \/ \A q \in Run : ~Underway(q)
    /\ NotFound(r) \/ Spawn(r)

Initialized(r) ==
    /\ at[r] = "initialize" /\ settled[r] = "ok"
    /\ AwaitAnswer(r, "thread/start")
    /\ UNCHANGED <<result, turnCompleted, closed, active, proc, turn, streamed, stdout>>

ThreadStarted(r) ==
    /\ at[r] = "thread/start" /\ settled[r] = "ok"
    /\ active' = [active EXCEPT !.thread = r]
    /\ AwaitAnswer(r, "turn/start")
    /\ UNCHANGED <<result, turnCompleted, closed, proc, turn, streamed, stdout>>

WaitForEnd(r) == IF closed[r] THEN "failed" ELSE "waiting"

\* await withProcess(turnCompleted): a turn that is over already goes before an exit.
TurnOrExit(r) ==
    IF turnCompleted[r] # "none" THEN "ok" ELSE IF closed[r] THEN "failed" ELSE "waiting"

TurnStarted(r) ==
    /\ at[r] = "turn/start" /\ settled[r] = "ok"
    /\ active' = [active EXCEPT !.turn = r]
    /\ at' = [at EXCEPT ![r] = "turn"]
    /\ settled' = [settled EXCEPT ![r] = TurnOrExit(r)]
    /\ UNCHANGED <<result, turnCompleted, clientVars, proc, codexVars>>

TurnOver(r) ==
    /\ at[r] = "turn" /\ settled[r] = "ok"
    /\ Finish(r, turnCompleted[r], [active EXCEPT !.turn = None])

\* A request was answered with an error, or the process has gone.
Failed(r) ==
    /\ Underway(r) /\ settled[r] = "failed"
    /\ Finish(r, "error", active)

\* The continuation of run() after the await it stands at.
Continue(r) == Initialized(r) \/ ThreadStarted(r) \/ TurnStarted(r) \/ TurnOver(r) \/ Failed(r)

-----------------------------------------------------------------------------

Settle(r, outcome) ==
    settled' = IF Underway(r) /\ settled[r] = "waiting"
               THEN [settled EXCEPT ![r] = outcome] ELSE settled

\* The next line of the process is read.
Line(r, kind) ==
    /\ \A q \in Run \ {r} : ~Due(q)
    /\ stdout[r] # <<>>
    /\ Head(stdout[r]).kind = kind
    /\ stdout' = [stdout EXCEPT ![r] = Tail(@)]

\* handleLine(): an answer settles the request that waits for it.
ReadAnswer(r) ==
    /\ Line(r, "answer")
    /\ LET m == Head(stdout[r]).method
       IN /\ pending' = [pending EXCEPT ![r] = @ \ {m}]
          /\ IF m \in pending[r] /\ at[r] = m
             THEN Settle(r, IF Head(stdout[r]).ok THEN "ok" ELSE "failed")
             ELSE UNCHANGED settled
    /\ UNCHANGED <<at, result, turnCompleted, closed, active, proc, asked, turn, streamed>>

\* A notification of the turn's progress is handed to onEvent.
ReadDelta(r) ==
    /\ Line(r, "delta")
    /\ UNCHANGED <<runSideVars, clientVars, active, proc, asked, turn, streamed>>

\* turn/completed: the promise may have nobody waiting for it yet.
ReadTurnEnd(r) ==
    /\ Line(r, "turn")
    /\ turnCompleted' = [turnCompleted EXCEPT ![r] =
                            IF Head(stdout[r]).ok THEN "completed" ELSE "error"]
    /\ IF at[r] = "turn" THEN Settle(r, "ok") ELSE UNCHANGED settled
    /\ UNCHANGED <<at, result, clientVars, active, proc, asked, turn, streamed>>

RejectRequests(r) == IF at[r] \in pending[r] THEN Settle(r, "failed") ELSE UNCHANGED settled

\* processClosed is rejected: the run fails, whatever it waits for.
FailAwait(r) == Settle(r, "failed")

\* The exit of the process: the requests are rejected, and the await fails.
SeeExit(r) ==
    /\ NextEvent
    /\ proc[r] = "dead" /\ ~closed[r]
    /\ closed' = [closed EXCEPT ![r] = TRUE]
    /\ pending' = [pending EXCEPT ![r] = {}]
    /\ FailAwait(r)
    /\ UNCHANGED <<at, result, turnCompleted, active, proc, codexVars>>

\* The process could not be started; there will be no exit.
SeeSpawnError(r) ==
    /\ NextEvent
    /\ proc[r] = "unborn"
    /\ proc' = [proc EXCEPT ![r] = "none"]
    /\ pending' = [pending EXCEPT ![r] = {}]
    /\ FailAwait(r)
    /\ UNCHANGED <<at, result, turnCompleted, closed, active, codexVars>>

\* 250 ms after the SIGTERM the process is still there: SIGKILL.
KillTimer(r) ==
    /\ proc[r] = "terminating"
    /\ proc' = [proc EXCEPT ![r] = "killed"]
    /\ UNCHANGED <<runSideVars, clientVars, active, codexVars>>

-----------------------------------------------------------------------------

Executing(r) == proc[r] \in {"alive", "terminating"}

Write(r, line) == stdout' = [stdout EXCEPT ![r] = Append(@, line)]

CodexAnswers(r) ==
    /\ Executing(r)
    /\ \E m \in asked[r], ok \in BOOLEAN :
        /\ asked' = [asked EXCEPT ![r] = @ \ {m}]
        /\ Write(r, Answer(m, ok))
        /\ turn' = IF m = "turn/start" /\ ok THEN [turn EXCEPT ![r] = "running"] ELSE turn
    /\ UNCHANGED <<runSideVars, clientVars, active, proc, streamed>>

CodexStreams(r) ==
    /\ Executing(r)
    /\ turn[r] = "running" /\ streamed[r] < MaxDeltas
    /\ streamed' = [streamed EXCEPT ![r] = @ + 1]
    /\ Write(r, Delta)
    /\ UNCHANGED <<runSideVars, clientVars, active, proc, asked, turn>>

CodexEndsTurn(r) ==
    /\ Executing(r)
    /\ turn[r] = "running"
    /\ \E ok \in BOOLEAN : /\ turn' = [turn EXCEPT ![r] = IF ok THEN "completed" ELSE "failed"]
                           /\ Write(r, TurnEnd(ok))
    /\ UNCHANGED <<runSideVars, clientVars, active, proc, asked, streamed>>

CodexExits(r) ==
    /\ proc[r] \in {"alive", "terminating", "killed"}
    /\ proc' = [proc EXCEPT ![r] = "dead"]
    /\ UNCHANGED <<runSideVars, clientVars, active, codexVars>>

Codex(r) == CodexAnswers(r) \/ CodexStreams(r) \/ CodexEndsTurn(r) \/ CodexExits(r)

\* What comes to a run from outside, but for its events.
Arrival(r) == ReadAnswer(r) \/ ReadTurnEnd(r) \/ SeeExit(r) \/ SeeSpawnError(r) \/ KillTimer(r)

AdapterNext ==
    \E r \in Run : Start(r) \/ Continue(r) \/ Arrival(r) \/ ReadDelta(r) \/ Codex(r)

AdapterSpec == AdapterInit /\ [][AdapterNext]_adapterVars

-----------------------------------------------------------------------------

AdapterTypeOK ==
    /\ at \in [Run -> {"idle", "initialize", "thread/start", "turn/start", "turn", "returned"}]
    /\ settled \in [Run -> {"waiting", "ok", "failed"}]
    /\ result \in [Run -> {"none", "completed", "error"}]
    /\ turnCompleted \in [Run -> {"none", "completed", "error"}]
    /\ closed \in [Run -> BOOLEAN]
    /\ pending \in [Run -> SUBSET Request]
    /\ active \in [process : Run \cup {None}, client : Run \cup {None},
                   thread : Run \cup {None}, turn : Run \cup {None}]
    /\ proc \in [Run -> {"none", "unborn", "alive", "terminating", "killed", "dead"}]
    /\ asked \in [Run -> SUBSET Request]
    /\ turn \in [Run -> {"none", "running", "completed", "failed"}]
    /\ streamed \in [Run -> 0..MaxDeltas]

\* A run does not wait for what has happened: the exit of its process, the answer
\* to its request or the end of its turn, also when that came before the await.
NothingMissed ==
    \A r \in Run :
        Underway(r) /\ settled[r] = "waiting" =>
            /\ ~closed[r]
            /\ IF at[r] = "turn" THEN turnCompleted[r] = "none" ELSE at[r] \in pending[r]

\* A run that has returned, in whatever way, has its process dead or signalled:
\* the finally block finds the process of its own run in the active field.
NoProcessLeft == \A r \in Run : at[r] = "returned" => proc[r] # "alive"

\* The tasks that may run at the same time (drmclaw.config.example.ts:15, "max
\* concurrent tasks") do not end each other: the process of a run in progress is
\* not signalled.
RunsAreIndependent == \A r \in Run : Underway(r) => proc[r] \notin {"terminating", "killed"}

=============================================================================
