-------------------------------- MODULE Server --------------------------------
(***************************************************************************)
(* src/cli.ts: the process around the task runner. SIGINT or SIGTERM makes *)
(* it drain the runner, close the HTTP server and exit.                    *)
(*                                                                         *)
(* shutdown() awaits runner.drain() first. Only then does it close the     *)
(* server, whose callback exits with 0, and arm the timer that exits with  *)
(* 1 after 30 s when open connections keep the server from closing. The    *)
(* exit stops every run where it stands; the log and the metadata stay.    *)
(***************************************************************************)
EXTENDS TaskRunner

VARIABLES server,       \* "up", "draining", "closing" or "exited"
          forceTimer    \* the forced exit is armed

serverVars == <<server, forceTimer>>

procVars == <<runnerVars, serverVars>>

ServerInit == RunnerInit /\ server = "up" /\ forceTimer = FALSE

\* The first SIGINT or SIGTERM; later ones find shuttingDown set.
Shutdown(d) ==
    /\ server = "up"
    /\ server' = "draining"
    /\ Drain(d)
    /\ UNCHANGED <<runVars, forceTimer>>

Poll(d) ==
    /\ server = "draining"
    /\ PollDrain(d)
    /\ UNCHANGED <<runVars, serverVars>>

DrainIgnored(d) == TRUE

DrainOver(d) == drain[d] = "resolved"

\* shutdown() goes on after its await: server.close(), and the timer is armed.
CloseServer(d) ==
    /\ server = "draining"
    /\ DrainOver(d)
    /\ server' = "closing"
    /\ forceTimer' = TRUE
    /\ UNCHANGED runnerVars

\* The last connection has ended.
Exit ==
    /\ server = "closing"
    /\ server' = "exited"
    /\ UNCHANGED <<runnerVars, forceTimer>>

ForcedExit ==
    /\ forceTimer
    /\ server # "exited"
    /\ server' = "exited"
    /\ UNCHANGED <<runnerVars, forceTimer>>

ServerNext ==
    \/ server # "exited" /\ (\E t \in Task : RunStep(t)) /\ UNCHANGED serverVars
    \/ \E d \in Drainer : Shutdown(d) \/ Poll(d) \/ CloseServer(d)
    \/ Exit
    \/ ForcedExit

Running(A) == server # "exited" /\ A /\ UNCHANGED serverVars

\* The event loop, the disk and the timers make progress; clients may keep
\* their connections open for ever, so Exit is not fair.
ServerFairness ==
    /\ \A t \in Task : WF_procVars(Running(LoopStep(t)))
    /\ \A d \in Drainer : WF_procVars(Poll(d)) /\ WF_procVars(CloseServer(d))
    /\ WF_procVars(ForcedExit)

\* The process with a runtime that may never answer.
ServerSpec == ServerInit /\ [][ServerNext]_procVars /\ ServerFairness

\* The process with a runtime that comes to an end in every run.
ResponsiveSpec == /\ ServerSpec
                  /\ \A t \in Task : WF_procVars(Running(RuntimeEnds(t)))

-----------------------------------------------------------------------------

\* The process never exits, by either way out, while a run owns a slot or a
\* caller waits for one: what an exit can cut off is only the tail of a run.
ExitCutsOffNoOwner == server = "exited" => Owners = {} /\ Waiting = {}

\* With a runtime that answers, every run that got a slot is recorded, unless
\* the process exits before.
RunsAreRecorded ==
    \A t \in Task : call[t] = "granted" ~> (pc[t] = "done" \/ server = "exited")

=============================================================================
