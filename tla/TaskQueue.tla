------------------------------ MODULE TaskQueue ------------------------------
(***************************************************************************)
(* src/runner/queue.ts: the queue every task run of a process goes         *)
(* through.                                                                *)
(*                                                                         *)
(* enqueue, release and drain run to completion on the event loop; what    *)
(* interleaves is their callers. A caller whose promise is resolved goes   *)
(* on in a later turn, and between the two any other operation may run:    *)
(* "granted" is a caller that owns a slot and has not gone on yet.         *)
(***************************************************************************)
EXTENDS Naturals, Sequences, FiniteSets

CONSTANTS Task,            \* the task requests, each enqueued at most once
          Drainer,         \* the calls of drain()
          MaxConcurrent,   \* config.server.maxConcurrent, at least 1
          MaxQueueSize     \* config.server.maxQueueSize, 0 for no limit

ASSUME QueueAssumption == /\ MaxConcurrent \in Nat \ {0}
                          /\ MaxQueueSize \in Nat
                          /\ IsFiniteSet(Task)

VARIABLES running,    \* the number of slots taken
          queue,      \* the tasks whose enqueue() promise is pending, oldest first
          draining,   \* drain() has been called
          call,       \* what each task's caller knows of its enqueue() call
          notice,     \* the 2 s notice timer of each task that had to wait
          position,   \* the queue position that timer captured
          drain,      \* where each drain() call stands
          ahead       \* history: who was waiting when a task was enqueued

vars == <<running, queue, draining, call, notice, position, drain, ahead>>

CallState == {"idle", "waiting", "granted", "holding", "released", "refused"}

InState(s) == {t \in Task : call[t] = s}

\* The tasks that own a slot: their enqueue() resolved and their release()
\* has not been called.
Owners == {t \in Task : call[t] \in {"granted", "holding"}}

Waiting == InState("waiting")

-----------------------------------------------------------------------------

Init == /\ running = 0
        /\ queue = <<>>
        /\ draining = FALSE
        /\ call = [t \in Task |-> "idle"]
        /\ notice = [t \in Task |-> "unset"]
        /\ position = [t \in Task |-> 0]
        /\ drain = [d \in Drainer |-> "idle"]
        /\ ahead = [t \in Task |-> {}]

HasFreeSlotOffByOne == running <= MaxConcurrent

HasFreeSlot == running < MaxConcurrent

IsFull == MaxQueueSize > 0 /\ Len(queue) >= MaxQueueSize

\* enqueue() rejects at once while the queue drains.
RefuseDraining(t) ==
    /\ call[t] = "idle"
    /\ draining
    /\ call' = [call EXCEPT ![t] = "refused"]
    /\ UNCHANGED <<running, queue, draining, notice, position, drain, ahead>>

TakeSlotWhileDraining(t) ==
    /\ call[t] = "idle"
    /\ HasFreeSlot
    /\ running' = running + 1
    /\ call' = [call EXCEPT ![t] = "granted"]
    /\ ahead' = [ahead EXCEPT ![t] = Waiting]
    /\ UNCHANGED <<queue, draining, notice, position, drain>>

\* enqueue() takes a free slot and resolves at once.
TakeSlot(t) ==
    /\ call[t] = "idle"
    /\ ~draining
    /\ HasFreeSlot
    /\ running' = running + 1
    /\ call' = [call EXCEPT ![t] = "granted"]
    /\ ahead' = [ahead EXCEPT ![t] = Waiting]
    /\ UNCHANGED <<queue, draining, notice, position, drain>>

\* enqueue() rejects when no slot is free and the queue is at its limit.
RefuseFull(t) ==
    /\ call[t] = "idle"
    /\ ~draining
    /\ ~HasFreeSlot
    /\ IsFull
    /\ call' = [call EXCEPT ![t] = "refused"]
    /\ UNCHANGED <<running, queue, draining, notice, position, drain, ahead>>

AtTheBack(t) == Append(queue, t)

\* enqueue() queues the request, captures its position and arms the notice.
Join(t) ==
    /\ call[t] = "idle"
    /\ ~draining
    /\ ~HasFreeSlot
    /\ ~IsFull
    /\ queue' = AtTheBack(t)
    /\ call' = [call EXCEPT ![t] = "waiting"]
    /\ position' = [position EXCEPT ![t] = Len(queue')]
    /\ notice' = [notice EXCEPT ![t] = "armed"]
    /\ ahead' = [ahead EXCEPT ![t] = Waiting]
    /\ UNCHANGED <<running, draining, drain>>

\* The caller goes on after its await of enqueue().
Resume(t) ==
    /\ call[t] = "granted"
    /\ call' = [call EXCEPT ![t] = "holding"]
    /\ UNCHANGED <<running, queue, draining, notice, position, drain, ahead>>

FreeSlotNever(t) ==
    /\ queue = <<>>
    /\ call' = [call EXCEPT ![t] = "released"]
    /\ UNCHANGED <<running, queue>>

\* release() with nobody queued gives the slot back.
FreeSlot(t) ==
    /\ queue = <<>>
    /\ running' = IF running > 0 THEN running - 1 ELSE 0
    /\ call' = [call EXCEPT ![t] = "released"]
    /\ UNCHANGED queue

HandOverToNewest(t) ==
    /\ queue # <<>>
    /\ call' = [call EXCEPT ![t] = "released", ![queue[Len(queue)]] = "granted"]
    /\ queue' = SubSeq(queue, 1, Len(queue) - 1)
    /\ UNCHANGED running

HandOverForgotten(t) ==
    /\ queue # <<>>
    /\ call' = [call EXCEPT ![t] = "released"]
    /\ queue' = Tail(queue)
    /\ UNCHANGED running

\* release() with someone queued hands the slot over: running keeps its value.
HandOver(t) ==
    /\ queue # <<>>
    /\ call' = [call EXCEPT ![t] = "released", ![Head(queue)] = "granted"]
    /\ queue' = Tail(queue)
    /\ UNCHANGED running

\* release(), called by a run in its finally block.
Release(t) ==
    /\ call[t] = "holding"
    /\ FreeSlot(t) \/ HandOver(t)
    /\ UNCHANGED <<draining, notice, position, drain, ahead>>

\* The notice timer fires while t still waits: the handler gets the position
\* captured when t joined. (Later it finds t gone and does nothing.)
NoticeTimer(t) ==
    /\ notice[t] = "armed"
    /\ \E i \in DOMAIN queue : queue[i] = t
    /\ notice' = [notice EXCEPT ![t] = "sent"]
    /\ UNCHANGED <<running, queue, draining, call, position, drain, ahead>>

RejectNobody == call

RejectPending == [t \in Task |-> IF call[t] = "waiting" THEN "refused" ELSE call[t]]

\* drain() closes the queue, rejects everyone in it and, when a slot is
\* still taken, starts to poll.
Drain(d) ==
    /\ drain[d] = "idle"
    /\ draining' = TRUE
    /\ queue' = <<>>
    /\ call' = RejectPending
    /\ drain' = [drain EXCEPT ![d] = IF running > 0 THEN "polling" ELSE "resolved"]
    /\ UNCHANGED <<running, notice, position, ahead>>

\* The 50 ms poll of drain() finds no slot taken and resolves it.
PollDrain(d) ==
    /\ drain[d] = "polling"
    /\ running = 0
    /\ drain' = [drain EXCEPT ![d] = "resolved"]
    /\ UNCHANGED <<running, queue, draining, call, notice, position, ahead>>

Enqueue(t) == RefuseDraining(t) \/ TakeSlot(t) \/ RefuseFull(t) \/ Join(t)

Next == \/ \E t \in Task : Enqueue(t) \/ Resume(t) \/ Release(t) \/ NoticeTimer(t)
        \/ \E d \in Drainer : Drain(d) \/ PollDrain(d)

Spec == Init /\ [][Next]_vars

\* The event loop runs every due continuation and timer; a caller that goes on
\* calls release() in the end, which is what the callers owe the queue.
Fairness == /\ \A t \in Task : /\ WF_vars(Resume(t))
                               /\ WF_vars(Release(t))
            /\ \A d \in Drainer : WF_vars(PollDrain(d))

FairSpec == Spec /\ Fairness

-----------------------------------------------------------------------------

\* The state variables hold values of the right kind, and the counters stay in
\* the range the configuration allows.
TypeOK ==
    /\ running \in 0..MaxConcurrent
    /\ queue \in Seq(Task)
    /\ MaxQueueSize > 0 => Len(queue) <= MaxQueueSize
    /\ draining \in BOOLEAN
    /\ call \in [Task -> CallState]
    /\ notice \in [Task -> {"unset", "armed", "sent"}]
    /\ position \in [Task -> Nat]
    /\ drain \in [Drainer -> {"idle", "polling", "resolved"}]
    /\ ahead \in [Task -> SUBSET Task]

\* The counter `running` is the number of tasks that own a slot, over every
\* sequence of direct grants, hand-overs and releases; and a task waits only
\* while every slot is owned (no free slot beside a waiting task).
SlotAccounting ==
    /\ Cardinality(Owners) = running
    /\ queue # <<>> => running = MaxConcurrent

\* A pending enqueue() promise is always in the queue, once, where a release()
\* or a drain() will find it: no caller is left with a promise nobody settles.
NoStrandedCaller ==
    /\ \A t \in Waiting : \E i \in DOMAIN queue : queue[i] = t
    /\ \A i \in DOMAIN queue : call[queue[i]] = "waiting"
    /\ \A i, j \in DOMAIN queue : queue[i] = queue[j] => i = j

\* First come, first served, over direct grants and hand-overs alike: a task
\* that got a slot left nobody behind who was already waiting when it was
\* enqueued.
NoOvertaking ==
    \A t \in Task : call[t] \in {"granted", "holding", "released"} =>
        \A u \in ahead[t] : call[u] # "waiting"

\* Once a drain() has resolved, nothing owns a slot or waits, now or later:
\* the tasks granted just before drain() was called are waited for too.
DrainedMeansIdle ==
    \A d \in Drainer : drain[d] = "resolved" => /\ Owners = {}
                                                /\ Waiting = {}
                                                /\ draining

\* A notice reaches the handler only for a task still in the queue, and the
\* position it reports, captured when the task joined, never understates how
\* far back the task is when the notice is sent.
NoticeNeverUnderstates ==
    [][\A t \in Task : notice[t] = "armed" /\ notice'[t] = "sent" =>
            \E i \in DOMAIN queue : queue[i] = t /\ i <= position[t]]_vars

\* As long as every task that owns a slot releases it, each queued caller is
\* in the end served or refused.
EveryCallSettles ==
    \A t \in Task : call[t] = "waiting" ~> call[t] # "waiting"

\* Under the same condition drain() resolves.
DrainResolves ==
    \A d \in Drainer : drain[d] = "polling" ~> drain[d] = "resolved"

\* What a caller can tell: a granted caller holds a slot before it runs again.
callerStatus == [t \in Task |->
    CASE call[t] = "idle" -> "new"
      [] call[t] = "waiting" -> "inLine"
      [] call[t] = "refused" -> "turnedAway"
      [] call[t] = "released" -> "left"
      [] OTHER -> "holding"]

Pool == INSTANCE SlotPool WITH Caller <- Task, Capacity <- MaxConcurrent, Bound <- MaxQueueSize,
                               status <- callerStatus, line <- queue, open <- ~draining

\* The counter, the promises and the timers implement the slot pool: every
\* step of the queue is a step of the pool or invisible to it.
ImplementsSlotPool == Pool!Spec

=============================================================================
