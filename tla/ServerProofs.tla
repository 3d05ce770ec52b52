----------------------------- MODULE ServerProofs -----------------------------
(***************************************************************************)
(* Queue, runner and process, for every number of runs, slots, queue       *)
(* places, events, failing writes and records.                             *)
(*                                                                         *)
(* The argument is compositional. First the task queue alone, for every    *)
(* sequence of enqueue, release and drain calls. A step of the runner is a *)
(* step of the queue or invisible to it, so the queue's invariant holds in *)
(* every run of the runner; a step of the process is a step of the runner  *)
(* or invisible to it, so the runner's holds in the process.               *)
(***************************************************************************)
EXTENDS Server, FiniteSetTheorems, SequenceTheorems, TLAPS

-----------------------------------------------------------------------------
(* The task queue.                                                         *)

\* A closed queue is empty, and stays closed from the first drain() call on.
ClosedIsEmpty ==
    /\ draining => queue = <<>>
    /\ \A d \in Drainer : drain[d] # "idle" => draining
    /\ \A d \in Drainer : drain[d] = "resolved" => running = 0

\* The queue keeps the order of arrival: whoever waited when queue[i] joined
\* and still waits stands before it, and nobody has moved back.
InOrder ==
    \A i \in DOMAIN queue :
        /\ i <= position[queue[i]]
        /\ \A u \in ahead[queue[i]] : call[u] = "waiting" => \E j \in 1..(i-1) : queue[j] = u

\* A task starts out with nobody ahead, and only enqueued tasks are ever ahead.
AheadWasEnqueued ==
    \A t \in Task : /\ call[t] = "idle" => ahead[t] = {}
                    /\ \A u \in ahead[t] : call[u] # "idle"

\* The inductive invariant. SlotAccounting and NoStrandedCaller carry each
\* other: a free slot means nobody waits, so a direct grant overtakes nobody.
IInv == /\ TypeOK
        /\ SlotAccounting
        /\ NoStrandedCaller
        /\ NoOvertaking
        /\ ClosedIsEmpty
        /\ InOrder
        /\ AheadWasEnqueued

-----------------------------------------------------------------------------

LEMMA InitInv == Init => IInv
<1> SUFFICES ASSUME Init PROVE IInv
  OBVIOUS
<1> USE QueueAssumption DEF QueueAssumption, Init
<1>1. TypeOK
  <2>1. running \in 0..MaxConcurrent
    OBVIOUS
  <2>2. queue \in Seq(Task) /\ (MaxQueueSize > 0 => Len(queue) <= MaxQueueSize)
    OBVIOUS
  <2>3. call \in [Task -> CallState]
    BY DEF CallState
  <2> QED
    BY <2>1, <2>2, <2>3 DEF TypeOK
<1>2. SlotAccounting
  <2>1. Owners = {}
    BY DEF Owners
  <2> QED
    BY <2>1, FS_EmptySet DEF SlotAccounting
<1>3. NoStrandedCaller
  BY DEF NoStrandedCaller, Waiting, InState
<1> QED
  BY <1>1, <1>2, <1>3 DEF IInv, NoOvertaking, ClosedIsEmpty, InOrder, AheadWasEnqueued

LEMMA OwnersFinite == IsFiniteSet(Owners) /\ IsFiniteSet(Owners')
BY QueueAssumption, FS_Subset DEF QueueAssumption, Owners

\* A task that owns a slot is counted: release() never finds running at 0.
LEMMA OwnerIsCounted ==
    ASSUME TypeOK, SlotAccounting, NEW t \in Owners
    PROVE  running > 0
BY OwnersFinite, FS_EmptySet DEF SlotAccounting, TypeOK

\* The queue is a finite sequence of tasks, and only tasks are ahead of them.
LEMMA QueueShape ==
    ASSUME TypeOK
    PROVE  /\ Len(queue) \in Nat
           /\ DOMAIN queue = 1..Len(queue)
           /\ \A i \in DOMAIN queue : queue[i] \in Task /\ ahead[queue[i]] \subseteq Task
BY DEF TypeOK

\* A step that leaves the queue alone and neither adds nor settles a waiting
\* caller keeps everything that is about order.
LEMMA QuietStep ==
    ASSUME IInv, TypeOK', UNCHANGED <<queue, position, ahead>>,
           \A u \in Task : call[u] = "waiting" <=> call'[u] = "waiting",
           \A u \in Task : call'[u] = "idle" => call[u] = "idle",
           \A u \in Task : call[u] # "idle" => call'[u] # "idle",
           \A u \in Task : call'[u] \in {"granted", "holding", "released"} =>
                           call[u] \in {"granted", "holding", "released"}
    PROVE  NoStrandedCaller' /\ NoOvertaking' /\ InOrder' /\ AheadWasEnqueued'
<1> USE DEF IInv
<1>1. Waiting' = Waiting
  BY DEF Waiting, InState
<1>2. NoStrandedCaller'
  BY <1>1, QueueShape DEF NoStrandedCaller
<1>3. NoOvertaking'
  <2> SUFFICES ASSUME NEW t \in Task, call'[t] \in {"granted", "holding", "released"},
                      NEW u \in ahead'[t]
               PROVE  call'[u] # "waiting"
    BY DEF NoOvertaking
  <2>1. ahead' = ahead /\ u \in Task
    BY DEF TypeOK
  <2>2. call[u] # "waiting"
    BY <2>1 DEF NoOvertaking
  <2> QED
    BY <2>1, <2>2
<1>4. InOrder'
  BY QueueShape DEF InOrder
<1>5. AheadWasEnqueued'
  BY DEF AheadWasEnqueued, TypeOK
<1> QED
  BY <1>2, <1>3, <1>4, <1>5

-----------------------------------------------------------------------------

LEMMA RefuseInv ==
    ASSUME IInv, NEW t \in Task, RefuseDraining(t) \/ RefuseFull(t)
    PROVE  IInv'
<1> USE DEF IInv, RefuseDraining, RefuseFull
<1>1. TypeOK'
  BY DEF TypeOK, CallState
<1>2. SlotAccounting'
  <2>1. Owners' = Owners
    BY DEF Owners, TypeOK
  <2> QED
    BY <2>1 DEF SlotAccounting
<1>3. NoStrandedCaller' /\ NoOvertaking' /\ InOrder' /\ AheadWasEnqueued'
  BY <1>1, QuietStep DEF TypeOK
<1>4. ClosedIsEmpty'
  BY DEF ClosedIsEmpty
<1> QED
  BY <1>1, <1>2, <1>3, <1>4

LEMMA TakeSlotInv ==
    ASSUME IInv, NEW t \in Task, TakeSlot(t)
    PROVE  IInv'
<1> USE DEF IInv, TakeSlot, HasFreeSlot
<1>1. TypeOK'
  BY QueueAssumption DEF TypeOK, CallState, QueueAssumption, Waiting, InState
<1>2. queue = <<>> /\ Waiting = {}
  BY QueueAssumption DEF SlotAccounting, NoStrandedCaller, TypeOK, QueueAssumption
<1>3. SlotAccounting'
  <2>1. Owners' = Owners \cup {t} /\ t \notin Owners
    BY DEF Owners, TypeOK
  <2>2. Cardinality(Owners') = running'
    BY <2>1, OwnersFinite, FS_AddElement DEF SlotAccounting
  <2> QED
    BY <1>2, <2>2 DEF SlotAccounting
<1>4. NoStrandedCaller'
  BY <1>2 DEF NoStrandedCaller, Waiting, InState, TypeOK
<1>5. NoOvertaking'
  BY <1>2 DEF NoOvertaking, TypeOK
<1>6. ClosedIsEmpty'
  BY DEF ClosedIsEmpty
<1>7. InOrder'
  BY <1>2 DEF InOrder
<1>8. AheadWasEnqueued'
  BY <1>2 DEF AheadWasEnqueued, TypeOK
<1> QED
  BY <1>1, <1>3, <1>4, <1>5, <1>6, <1>7, <1>8

LEMMA JoinInv ==
    ASSUME IInv, NEW t \in Task, Join(t)
    PROVE  IInv'
<1> USE DEF IInv, Join, AtTheBack
<1>1. TypeOK'
  <2>1. queue' \in Seq(Task) /\ Len(queue') = Len(queue) + 1
    BY DEF TypeOK
  <2>2. MaxQueueSize > 0 => Len(queue') <= MaxQueueSize
    BY <2>1, QueueAssumption DEF IsFull, TypeOK, QueueAssumption
  <2>3. /\ call' \in [Task -> CallState]
        /\ notice' \in [Task -> {"unset", "armed", "sent"}]
        /\ ahead' \in [Task -> SUBSET Task]
    BY DEF TypeOK, CallState, Waiting, InState
  <2>4. position' \in [Task -> Nat]
    BY <2>1 DEF TypeOK
  <2> QED
    BY <2>1, <2>2, <2>3, <2>4 DEF TypeOK
<1>2. /\ Len(queue') = Len(queue) + 1
      /\ DOMAIN queue = 1..Len(queue) /\ DOMAIN queue' = 1..(Len(queue) + 1)
      /\ \A i \in 1..Len(queue) : queue'[i] = queue[i]
      /\ queue'[Len(queue) + 1] = t
      /\ \A i \in 1..Len(queue) : queue[i] \in Task /\ queue[i] # t
  BY DEF TypeOK, NoStrandedCaller
<1>3. SlotAccounting'
  <2>1. Owners' = Owners
    BY DEF Owners, TypeOK
  <2>2. running = MaxConcurrent
    BY QueueAssumption DEF HasFreeSlot, TypeOK, QueueAssumption
  <2> QED
    BY <2>1, <2>2 DEF SlotAccounting
<1>4. NoStrandedCaller'
  <2>1. ASSUME NEW u \in Waiting' PROVE \E i \in DOMAIN queue' : queue'[i] = u
    <3>1. CASE u = t
      BY <1>2, <3>1 DEF TypeOK
    <3>2. CASE u # t
      <4>1. u \in Waiting
        BY <2>1, <3>2 DEF Waiting, InState, TypeOK
      <4> QED
        BY <1>2, <4>1 DEF NoStrandedCaller, TypeOK
    <3> QED
      BY <3>1, <3>2
  <2>2. \A i \in DOMAIN queue' : call'[queue'[i]] = "waiting"
    BY <1>2 DEF NoStrandedCaller, TypeOK
  <2>3. \A i, j \in DOMAIN queue' : queue'[i] = queue'[j] => i = j
    BY <1>2 DEF NoStrandedCaller, TypeOK
  <2> QED
    BY <2>1, <2>2, <2>3 DEF NoStrandedCaller
<1>5. NoOvertaking'
  BY DEF NoOvertaking, AheadWasEnqueued, TypeOK
<1>6. ClosedIsEmpty'
  BY DEF ClosedIsEmpty
<1>7. InOrder'
  <2> SUFFICES ASSUME NEW i \in DOMAIN queue'
               PROVE  /\ i <= position'[queue'[i]]
                      /\ \A u \in ahead'[queue'[i]] : call'[u] = "waiting" =>
                            \E j \in 1..(i-1) : queue'[j] = u
    BY DEF InOrder
  <2>1. CASE i <= Len(queue)
    <3> i \in DOMAIN queue
      BY <1>2, <2>1
    <3>1. /\ queue'[i] = queue[i] /\ queue[i] \in Task /\ queue[i] # t
          /\ position'[queue[i]] = position[queue[i]] /\ ahead'[queue[i]] = ahead[queue[i]]
      BY <1>2, <2>1 DEF TypeOK
    <3>2. ASSUME NEW u \in ahead[queue[i]] PROVE u # t /\ call'[u] = call[u]
      BY <3>1, <3>2 DEF AheadWasEnqueued, TypeOK
    <3>3. i <= position[queue[i]]
      BY DEF InOrder
    <3>4. ASSUME NEW u \in ahead[queue[i]], call[u] = "waiting"
          PROVE  \E j \in 1..(i-1) : queue'[j] = u
      <4>1. PICK j \in 1..(i-1) : queue[j] = u
        BY <3>4 DEF InOrder
      <4> QED
        BY <1>2, <2>1, <4>1
    <3> QED
      BY <3>1, <3>2, <3>3, <3>4
  <2>2. CASE i = Len(queue) + 1
    <3>1. queue'[i] = t /\ position'[t] = i /\ ahead'[t] = Waiting
      BY <1>2, <2>2 DEF TypeOK
    <3>2. \A u \in Waiting : \E j \in 1..(i-1) : queue'[j] = u
      BY <1>2, <2>2 DEF NoStrandedCaller, TypeOK
    <3> QED
      BY <2>2, <3>1, <3>2 DEF TypeOK
  <2>3. i <= Len(queue) \/ i = Len(queue) + 1
    BY <1>2, QueueShape
  <2> QED
    BY <2>1, <2>2, <2>3
<1>8. AheadWasEnqueued'
  BY DEF AheadWasEnqueued, Waiting, InState, TypeOK
<1> QED
  BY <1>1, <1>3, <1>4, <1>5, <1>6, <1>7, <1>8

LEMMA ResumeInv ==
    ASSUME IInv, NEW t \in Task, Resume(t)
    PROVE  IInv'
<1> USE DEF IInv, Resume
<1>1. TypeOK'
  BY DEF TypeOK, CallState
<1>2. SlotAccounting'
  <2>1. Owners' = Owners
    BY DEF Owners, TypeOK
  <2> QED
    BY <2>1 DEF SlotAccounting
<1>3. NoStrandedCaller' /\ NoOvertaking' /\ InOrder' /\ AheadWasEnqueued'
  BY <1>1, QuietStep DEF TypeOK
<1>4. ClosedIsEmpty'
  BY DEF ClosedIsEmpty
<1> QED
  BY <1>1, <1>2, <1>3, <1>4

LEMMA FreeSlotInv ==
    ASSUME IInv, NEW t \in Task, Release(t), FreeSlot(t)
    PROVE  IInv'
<1> USE DEF IInv, Release, FreeSlot
<1>1. t \in Owners /\ running > 0
  BY OwnerIsCounted DEF Owners
<1>2. TypeOK'
  <2>1. running' \in 0..MaxConcurrent
    BY <1>1, QueueAssumption DEF TypeOK, QueueAssumption
  <2>2. call' \in [Task -> CallState]
    BY DEF TypeOK, CallState
  <2> QED
    BY <2>1, <2>2 DEF TypeOK
<1>3. SlotAccounting'
  <2>1. Owners' = Owners \ {t}
    BY DEF Owners, TypeOK
  <2> QED
    BY <1>1, <2>1, OwnersFinite, FS_RemoveElement DEF SlotAccounting, TypeOK
<1>4. NoStrandedCaller' /\ NoOvertaking' /\ InOrder' /\ AheadWasEnqueued'
  BY <1>2, QuietStep DEF TypeOK
<1>5. ClosedIsEmpty'
  BY <1>1 DEF ClosedIsEmpty
<1> QED
  BY <1>2, <1>3, <1>4, <1>5

LEMMA HandOverInv ==
    ASSUME IInv, NEW t \in Task, Release(t), HandOver(t)
    PROVE  IInv'
<1> DEFINE h == Head(queue)
<1> USE DEF IInv, Release, HandOver
<1>1. /\ h = queue[1] /\ h \in Task /\ 1 \in DOMAIN queue
      /\ queue' \in Seq(Task) /\ Len(queue') = Len(queue) - 1 /\ Len(queue) \in Nat \ {0}
      /\ DOMAIN queue = 1..Len(queue) /\ DOMAIN queue' = 1..(Len(queue) - 1)
      /\ \A i \in DOMAIN queue' : i + 1 \in DOMAIN queue /\ queue'[i] = queue[i + 1]
  BY DEF TypeOK
<1>2. call[h] = "waiting" /\ h # t
  BY <1>1 DEF NoStrandedCaller
<1>3. /\ call'[t] = "released" /\ call'[h] = "granted"
      /\ \A u \in Task \ {t, h} : call'[u] = call[u]
      /\ call' \in [Task -> CallState]
  BY <1>1, <1>2 DEF TypeOK, CallState
<1> HIDE DEF h
<1>4. TypeOK'
  <2>1. MaxQueueSize > 0 => Len(queue') <= MaxQueueSize
    BY <1>1, QueueAssumption DEF TypeOK, QueueAssumption
  <2> QED
    BY <1>1, <1>3, <2>1 DEF TypeOK
<1>5. SlotAccounting'
  <2>1. /\ t \in Owners /\ h \notin Owners
        /\ Owners' = (Owners \ {t}) \cup {h}
    BY <1>1, <1>2, <1>3 DEF Owners
  <2>2. /\ IsFiniteSet(Owners \ {t}) /\ h \notin Owners \ {t}
        /\ Cardinality(Owners \ {t}) = Cardinality(Owners) - 1
    BY <2>1, OwnersFinite, FS_RemoveElement
  <2>3. Cardinality(Owners') = Cardinality(Owners \ {t}) + 1
    BY <2>1, <2>2, FS_AddElement
  <2>4. Cardinality(Owners) \in Nat
    BY OwnersFinite, FS_CardinalityType
  <2>5. Cardinality(Owners') = Cardinality(Owners)
    BY <2>2, <2>3, <2>4
  <2> QED
    BY <1>1, <2>5 DEF SlotAccounting
<1>6. NoStrandedCaller'
  <2>1. ASSUME NEW u \in Waiting' PROVE \E i \in DOMAIN queue' : queue'[i] = u
    <3>1. u \in Waiting /\ u # h
      BY <1>3 DEF Waiting, InState
    <3>2. PICK i \in DOMAIN queue : queue[i] = u
      BY <3>1 DEF NoStrandedCaller
    <3>3. i # 1
      BY <1>1, <3>1, <3>2
    <3>4. i - 1 \in DOMAIN queue' /\ (i - 1) + 1 = i
      BY <1>1, <3>3
    <3> QED
      BY <1>1, <3>2, <3>4
  <2>2. ASSUME NEW i \in DOMAIN queue' PROVE call'[queue'[i]] = "waiting"
    <3>1. call[queue[i + 1]] = "waiting" /\ queue[i + 1] # h /\ queue[i + 1] \in Task
      BY <1>1, QueueShape DEF NoStrandedCaller
    <3> QED
      BY <1>1, <1>3, <3>1
  <2>3. \A i, j \in DOMAIN queue' : queue'[i] = queue'[j] => i = j
    BY <1>1 DEF NoStrandedCaller
  <2> QED
    BY <2>1, <2>2, <2>3 DEF NoStrandedCaller
<1>7. NoOvertaking'
  <2> SUFFICES ASSUME NEW v \in Task, call'[v] \in {"granted", "holding", "released"},
                      NEW u \in ahead[v], call'[u] = "waiting"
               PROVE  FALSE
    BY DEF NoOvertaking
  <2>1. u \in Task /\ call[u] = "waiting"
    BY <1>3 DEF TypeOK
  <2>2. v = h
    BY <1>3, <2>1 DEF NoOvertaking
  <2>3. \E j \in 1..(1 - 1) : queue[j] = u
    BY <1>1, <2>1, <2>2 DEF InOrder
  <2> QED
    BY <2>3
<1>8. ClosedIsEmpty'
  BY DEF ClosedIsEmpty
<1>9. InOrder'
  <2> SUFFICES ASSUME NEW i \in DOMAIN queue'
               PROVE  /\ i <= position[queue'[i]]
                      /\ \A u \in ahead[queue'[i]] : call'[u] = "waiting" =>
                            \E j \in 1..(i-1) : queue'[j] = u
    BY DEF InOrder
  <2>1. i + 1 <= position[queue[i + 1]]
    BY <1>1 DEF InOrder
  <2>2. ASSUME NEW u \in ahead[queue[i + 1]], call'[u] = "waiting"
        PROVE  \E j \in 1..(i-1) : queue'[j] = u
    <3>1. u \in Task /\ call[u] = "waiting" /\ u # h
      BY <1>1, <1>3, <2>2, QueueShape
    <3>2. PICK k \in 1..((i + 1) - 1) : queue[k] = u
      BY <1>1, <3>1 DEF InOrder
    <3>3. k # 1
      BY <1>1, <3>1, <3>2
    <3>4. k - 1 \in 1..(i-1) /\ k - 1 \in DOMAIN queue'
      BY <1>1, <3>3
    <3>5. queue'[k - 1] = u
      BY <1>1, <3>2, <3>4
    <3> QED
      BY <3>4, <3>5
  <2>3. i \in Nat /\ position[queue[i + 1]] \in Nat
    BY <1>1, QueueShape DEF TypeOK
  <2>4. i <= position[queue[i + 1]]
    BY <2>1, <2>3
  <2>5. queue'[i] = queue[i + 1]
    BY <1>1
  <2> QED
    BY <2>2, <2>4, <2>5
<1>10. AheadWasEnqueued'
  BY <1>2, <1>3 DEF AheadWasEnqueued, TypeOK
<1> QED
  BY <1>4, <1>5, <1>6, <1>7, <1>8, <1>9, <1>10

LEMMA NoticeTimerInv ==
    ASSUME IInv, NEW t \in Task, NoticeTimer(t)
    PROVE  IInv'
<1> USE DEF IInv, NoticeTimer
<1>1. TypeOK'
  BY DEF TypeOK
<1>2. SlotAccounting'
  BY DEF SlotAccounting, Owners
<1>3. NoStrandedCaller' /\ NoOvertaking' /\ InOrder' /\ AheadWasEnqueued'
  BY <1>1, QuietStep
<1>4. ClosedIsEmpty'
  BY DEF ClosedIsEmpty
<1> QED
  BY <1>1, <1>2, <1>3, <1>4

LEMMA DrainInv ==
    ASSUME IInv, NEW d \in Drainer, Drain(d)
    PROVE  IInv'
<1> USE DEF IInv, Drain, RejectPending
<1>1. TypeOK'
  <2>1. call' \in [Task -> CallState]
    BY DEF TypeOK, CallState
  <2>2. queue' \in Seq(Task) /\ (MaxQueueSize > 0 => Len(queue') <= MaxQueueSize)
    BY QueueAssumption DEF QueueAssumption
  <2>3. drain' \in [Drainer -> {"idle", "polling", "resolved"}]
    BY DEF TypeOK
  <2> QED
    BY <2>1, <2>2, <2>3 DEF TypeOK
<1>2. SlotAccounting'
  <2>1. Owners' = Owners
    BY DEF Owners
  <2> QED
    BY <2>1 DEF SlotAccounting
<1>3. NoStrandedCaller'
  BY DEF NoStrandedCaller, Waiting, InState
<1>4. NoOvertaking'
  BY DEF NoOvertaking, TypeOK
<1>5. ClosedIsEmpty'
  BY DEF ClosedIsEmpty, TypeOK
<1>6. InOrder'
  BY DEF InOrder
<1>7. AheadWasEnqueued'
  BY DEF AheadWasEnqueued, TypeOK
<1> QED
  BY <1>1, <1>2, <1>3, <1>4, <1>5, <1>6, <1>7

LEMMA PollDrainInv ==
    ASSUME IInv, NEW d \in Drainer, PollDrain(d)
    PROVE  IInv'
<1> USE DEF IInv, PollDrain
<1>1. TypeOK'
  BY DEF TypeOK
<1>2. SlotAccounting'
  BY DEF SlotAccounting, Owners
<1>3. NoStrandedCaller' /\ NoOvertaking' /\ InOrder' /\ AheadWasEnqueued'
  BY <1>1, QuietStep
<1>4. ClosedIsEmpty'
  BY DEF ClosedIsEmpty, TypeOK
<1> QED
  BY <1>1, <1>2, <1>3, <1>4

-----------------------------------------------------------------------------

LEMMA NextInv == IInv /\ [Next]_vars => IInv'
<1> SUFFICES ASSUME IInv, [Next]_vars PROVE IInv'
  OBVIOUS
<1>1. ASSUME NEW t \in Task, Enqueue(t) PROVE IInv'
  BY <1>1, RefuseInv, TakeSlotInv, JoinInv DEF Enqueue
<1>2. ASSUME NEW t \in Task, Resume(t) PROVE IInv'
  BY <1>2, ResumeInv
<1>3. ASSUME NEW t \in Task, Release(t) PROVE IInv'
  <2>1. FreeSlot(t) \/ HandOver(t)
    BY <1>3 DEF Release
  <2> QED
    BY <1>3, <2>1, FreeSlotInv, HandOverInv
<1>4. ASSUME NEW t \in Task, NoticeTimer(t) PROVE IInv'
  BY <1>4, NoticeTimerInv
<1>5. ASSUME NEW d \in Drainer, Drain(d) \/ PollDrain(d) PROVE IInv'
  BY <1>5, DrainInv, PollDrainInv
<1>6. CASE UNCHANGED vars
  BY <1>6 DEF vars, IInv, TypeOK, SlotAccounting, NoStrandedCaller, NoOvertaking,
              ClosedIsEmpty, InOrder, AheadWasEnqueued, Owners, Waiting, InState
<1> QED
  BY <1>1, <1>2, <1>3, <1>4, <1>5, <1>6 DEF Next

\* The inductive invariant holds in every reachable state.
THEOREM Invariance == Spec => []IInv
BY InitInv, NextInv, PTL DEF Spec

\* Every variable of the queue keeps its type; the counters stay in range.
THEOREM TypeCorrect == Spec => []TypeOK
<1>1. IInv => TypeOK
  BY DEF IInv
<1> QED
  BY <1>1, Invariance, PTL

\* For every configuration, the slot counter is exact, at most MaxConcurrent
\* tasks own a slot, and nobody waits beside a free one.
THEOREM SlotsAreAccounted == Spec => []SlotAccounting
<1>1. IInv => SlotAccounting
  BY DEF IInv
<1> QED
  BY <1>1, Invariance, PTL

\* No caller is ever left with a promise that nobody can settle.
THEOREM NobodyIsStranded == Spec => []NoStrandedCaller
<1>1. IInv => NoStrandedCaller
  BY DEF IInv
<1> QED
  BY <1>1, Invariance, PTL

\* Slots go out first come, first served.
THEOREM FirstComeFirstServed == Spec => []NoOvertaking
<1>1. IInv => NoOvertaking
  BY DEF IInv
<1> QED
  BY <1>1, Invariance, PTL

\* A drain() that has resolved leaves nobody with a slot or in the queue.
THEOREM DrainIsSafe == Spec => []DrainedMeansIdle
<1>1. IInv => DrainedMeansIdle
  <2> SUFFICES ASSUME IInv, NEW d \in Drainer, drain[d] = "resolved"
               PROVE  Owners = {} /\ Waiting = {} /\ draining
    BY DEF DrainedMeansIdle
  <2> USE DEF IInv
  <2>1. draining /\ queue = <<>> /\ running = 0
    BY DEF ClosedIsEmpty
  <2>2. Owners = {}
    BY <2>1, OwnersFinite, FS_EmptySet DEF SlotAccounting
  <2>3. Waiting = {}
    BY <2>1 DEF NoStrandedCaller
  <2> QED
    BY <2>1, <2>2, <2>3
<1> QED
  BY <1>1, Invariance, PTL

\* A queue notice never understates how far back its task is.
THEOREM NoticesAreUpperBounds == Spec => NoticeNeverUnderstates
<1>1. IInv /\ [Next]_vars =>
        [\A t \in Task : notice[t] = "armed" /\ notice'[t] = "sent" =>
            \E i \in DOMAIN queue : queue[i] = t /\ i <= position[t]]_vars
  <2> SUFFICES ASSUME IInv, Next, NEW t \in Task, notice[t] = "armed", notice'[t] = "sent"
               PROVE  \E i \in DOMAIN queue : queue[i] = t /\ i <= position[t]
    BY DEF vars
  <2> USE DEF IInv
  <2>1. NoticeTimer(t)
    BY DEF Next, Enqueue, RefuseDraining, TakeSlot, RefuseFull, Join, Resume, Release,
           NoticeTimer, Drain, PollDrain, TypeOK
  <2> QED
    BY <2>1 DEF NoticeTimer, InOrder
<1> QED
  BY <1>1, Invariance, PTL DEF Spec, NoticeNeverUnderstates

-----------------------------------------------------------------------------
(***************************************************************************)
(* The refinement. The pool's holders are the queue's owners, so the       *)
(* pool's guards on how many hold a slot are the queue's guards on its     *)
(* counter, which is SlotAccounting's doing.                               *)
(***************************************************************************)

\* The pool counts with its own instance of the library operator.
LEMMA PoolCounts == \A S : Pool!Cardinality(S) = Cardinality(S)
BY DEF Pool!Cardinality, Cardinality

LEMMA HoldersAreOwners ==
    ASSUME TypeOK
    PROVE  Pool!Holders = Owners
BY DEF Pool!Holders, callerStatus, Owners, TypeOK, CallState

LEMMA PoolInit == Init => Pool!Init
BY DEF Init, Pool!Init, callerStatus

\* What one changed caller means for the pool's status function.
LEMMA StatusOfOne ==
    ASSUME TypeOK, NEW t \in Task, NEW s \in CallState, call' = [call EXCEPT ![t] = s]
    PROVE  callerStatus' = [callerStatus EXCEPT ![t] =
                CASE s = "idle" -> "new"
                  [] s = "waiting" -> "inLine"
                  [] s = "refused" -> "turnedAway"
                  [] s = "released" -> "left"
                  [] OTHER -> "holding"]
BY DEF callerStatus, TypeOK

LEMMA PoolEnqueue ==
    ASSUME IInv, NEW t \in Task, Enqueue(t)
    PROVE  Pool!Admit(t) \/ Pool!StandInLine(t) \/ Pool!TurnAway(t)
<1> USE DEF IInv
<1>0. callerStatus[t] = "new" /\ Pool!Cardinality(Pool!Holders) = running
  BY HoldersAreOwners, PoolCounts DEF Enqueue, RefuseDraining, TakeSlot, RefuseFull, Join, callerStatus,
                          SlotAccounting
<1>1. CASE RefuseDraining(t) \/ RefuseFull(t)
  <2>1. callerStatus' = [callerStatus EXCEPT ![t] = "turnedAway"]
    BY <1>1, StatusOfOne DEF RefuseDraining, RefuseFull, CallState
  <2>2. RefuseFull(t) => running = MaxConcurrent /\ MaxQueueSize > 0 /\ Len(queue) = MaxQueueSize
    BY QueueAssumption DEF RefuseFull, HasFreeSlot, IsFull, TypeOK, QueueAssumption
  <2> QED
    BY <1>0, <1>1, <2>1, <2>2 DEF Pool!TurnAway, RefuseDraining, RefuseFull
<1>2. CASE TakeSlot(t)
  <2>1. callerStatus' = [callerStatus EXCEPT ![t] = "holding"]
    BY <1>2, StatusOfOne DEF TakeSlot, CallState
  <2>2. running < MaxConcurrent /\ queue = <<>>
    BY <1>2, QueueAssumption DEF TakeSlot, HasFreeSlot, SlotAccounting, TypeOK, QueueAssumption
  <2> QED
    BY <1>0, <1>2, <2>1, <2>2 DEF Pool!Admit, TakeSlot
<1>3. CASE Join(t)
  <2>1. callerStatus' = [callerStatus EXCEPT ![t] = "inLine"]
    BY <1>3, StatusOfOne DEF Join, CallState
  <2>2. running = MaxConcurrent /\ (MaxQueueSize = 0 \/ Len(queue) < MaxQueueSize)
    BY <1>3, QueueAssumption DEF Join, HasFreeSlot, IsFull, TypeOK, QueueAssumption
  <2> QED
    BY <1>0, <1>3, <2>1, <2>2 DEF Pool!StandInLine, Join, AtTheBack
<1> QED
  BY <1>1, <1>2, <1>3 DEF Enqueue

LEMMA PoolRelease ==
    ASSUME IInv, NEW t \in Task, Release(t)
    PROVE  Pool!Leave(t) \/ Pool!PassOn(t)
<1> USE DEF IInv, Release
<1>0. callerStatus[t] = "holding"
  BY DEF callerStatus
<1>1. CASE FreeSlot(t)
  <2>1. callerStatus' = [callerStatus EXCEPT ![t] = "left"]
    BY <1>1, StatusOfOne DEF FreeSlot, CallState
  <2> QED
    BY <1>0, <1>1, <2>1 DEF Pool!Leave, FreeSlot
<1>2. CASE HandOver(t)
  <2>1. Head(queue) \in Task /\ call[Head(queue)] = "waiting"
    BY <1>2 DEF HandOver, TypeOK, NoStrandedCaller
  <2>2. callerStatus' = [callerStatus EXCEPT ![t] = "left", ![Head(queue)] = "holding"]
    BY <1>2, <2>1 DEF HandOver, callerStatus, TypeOK
  <2> QED
    BY <1>0, <1>2, <2>2 DEF Pool!PassOn, HandOver
<1> QED
  BY <1>1, <1>2

LEMMA PoolDrain ==
    ASSUME IInv, NEW d \in Drainer, Drain(d)
    PROVE  Pool!Close \/ UNCHANGED Pool!vars
<1> USE DEF IInv, Drain, RejectPending
<1>1. CASE draining
  <2>1. queue = <<>> /\ Waiting = {}
    BY <1>1 DEF ClosedIsEmpty, NoStrandedCaller
  <2>2. call' = call
    BY <2>1 DEF Waiting, InState, TypeOK
  <2> QED
    BY <1>1, <2>1, <2>2 DEF Pool!vars, callerStatus, TypeOK
<1>2. CASE ~draining
  <2>1. callerStatus' = [c \in Task |-> IF callerStatus[c] = "inLine" THEN "turnedAway"
                                                                     ELSE callerStatus[c]]
    BY DEF callerStatus, TypeOK
  <2> QED
    BY <1>2, <2>1 DEF Pool!Close
<1> QED
  BY <1>1, <1>2

LEMMA PoolStep == IInv /\ [Next]_vars => [Pool!Next]_(Pool!vars)
<1> SUFFICES ASSUME IInv, [Next]_vars PROVE [Pool!Next]_(Pool!vars)
  OBVIOUS
<1>1. ASSUME NEW t \in Task, Enqueue(t) \/ Release(t) PROVE Pool!Next
  BY <1>1, PoolEnqueue, PoolRelease DEF Pool!Next
<1>2. ASSUME NEW t \in Task, Resume(t) PROVE UNCHANGED Pool!vars
  BY <1>2 DEF Resume, Pool!vars, callerStatus, IInv, TypeOK
<1>3. ASSUME NEW t \in Task, NoticeTimer(t) PROVE UNCHANGED Pool!vars
  BY <1>3 DEF NoticeTimer, Pool!vars, callerStatus
<1>4. ASSUME NEW d \in Drainer, Drain(d) PROVE [Pool!Next]_(Pool!vars)
  BY <1>4, PoolDrain DEF Pool!Next
<1>5. ASSUME NEW d \in Drainer, PollDrain(d) PROVE UNCHANGED Pool!vars
  BY <1>5 DEF PollDrain, Pool!vars, callerStatus
<1>6. CASE UNCHANGED vars
  BY <1>6 DEF vars, Pool!vars, callerStatus
<1> QED
  BY <1>1, <1>2, <1>3, <1>4, <1>5, <1>6 DEF Next

\* The task queue implements the slot pool: at most MaxConcurrent holders, a
\* slot passed on in the instant it is given back, to the longest in line.
THEOREM QueueIsASlotPool == Spec => ImplementsSlotPool
<1>1. Spec => []IInv
  BY Invariance
<1> QED
  BY <1>1, PoolInit, PoolStep, PTL DEF Spec, ImplementsSlotPool, Pool!Spec


-----------------------------------------------------------------------------
(* The runner and the process.                                             *)

\* The places of run() where another callback can come in between.
Place == {"enqueue", "init", "savingRunning", "executing", "failing",
          "flush", "savingFinal", "done"}

\* The variables of the runs hold values of the right kind.
RunTypes ==
    /\ pc \in [Task -> Place]
    /\ made \in [Task -> Nat]
    /\ appendQueue \in [Task -> Seq(Nat)]
    /\ log \in [Task -> Seq(Nat)]
    /\ lost \in [Task -> SUBSET Nat]
    /\ awaited \in [Task -> Nat]
    /\ result \in [Task -> Final \cup {"none"}]
    /\ saves \in [Task -> SUBSET (Final \cup {"running"})]
    /\ meta \in [Task -> Final \cup {"none", "running"}]
    /\ unsaved \in [Task -> SUBSET (Final \cup {"running"})]

\* How many of its events a run has got rid of, in the log or as lost.
Cleared(t) == made[t] - Len(appendQueue[t])

\* The appends chained are those of the last events made, in order; whatever
\* came before them has settled, and what an await waits for has been made.
Backlog(t) ==
    /\ Cleared(t) \in Nat
    /\ \A i \in 1..Len(appendQueue[t]) : appendQueue[t][i] = Cleared(t) + i
    /\ Settled(t) = 1..Cleared(t)
    /\ \A i, j \in 1..Len(log[t]) : i < j => log[t][i] < log[t][j]
    /\ awaited[t] <= made[t]
    /\ pc[t] \in {"savingFinal", "done"} => awaited[t] <= Cleared(t)

\* One metadata write at a time, and the outcome is the last: it is chosen when
\* the slot is given back, and from then on it is on its way, on disk or lost.
Outcome(t) ==
    /\ "running" \in saves[t] => pc[t] = "savingRunning"
    /\ saves[t] \cap Final # {} => pc[t] = "savingFinal"
    /\ meta[t] \in Final => pc[t] \in {"savingFinal", "done"}
    /\ pc[t] \in {"failing", "flush", "savingFinal", "done"} => result[t] \in Final
    /\ t \in Stored /\ pc[t] \in {"savingFinal", "done"} =>
          /\ saves[t] \subseteq {result[t]}
          /\ result[t] \in saves[t] \cup unsaved[t] \/ meta[t] = result[t]
    /\ pc[t] \in {"savingRunning", "flush", "savingFinal"} => t \in Stored

RunInv == /\ IInv
          /\ RunTypes
          /\ SlotFollowsRun
          /\ \A t \in Stored : Backlog(t)
          /\ \A t \in Task : Outcome(t)

-----------------------------------------------------------------------------

LEMMA ReleaseIsQueueStep ==
    ASSUME NEW t \in Task, WindUp(t)
    PROVE  Next
BY DEF WindUp, GiveSlotBack, Next

LEMMA RunnerStepIsQueueStep == [RunnerNext]_runnerVars => [Next]_vars
<1> SUFFICES ASSUME RunnerNext PROVE Next \/ UNCHANGED vars
  BY DEF runnerVars
<1>1. ASSUME NEW d \in Drainer, DrainStep(d) PROVE Next
  BY <1>1 DEF DrainStep, Next
<1>2. ASSUME NEW t \in Task, RunStep(t) PROVE Next \/ UNCHANGED vars
  <2>1. CASE Submit(t) \/ QueueNotice(t) \/ StartRun(t)
    BY <2>1 DEF Submit, QueueNotice, StartRun, Next
  <2>2. CASE FailureLogged(t) \/ \E status \in Final : RuntimeReturns(t, status)
    BY <2>2, ReleaseIsQueueStep DEF FailureLogged, RuntimeReturns
  <2>3. CASE SaveRunning(t) \/ Execute(t) \/ RuntimeEvent(t) \/ RuntimeThrows(t) \/ SaveFinal(t) \/ Record(t)
    BY <2>3 DEF SaveRunning, Execute, RuntimeEvent, RuntimeThrows, SaveFinal, Record
  <2>4. CASE \/ \E i \in NextAppend(t) : AppendSettles(t, i)
             \/ \E s \in saves[t] : SaveSettles(t, s)
    BY <2>4 DEF AppendSettles, SaveSettles
  <2> QED
    BY <1>2, <2>1, <2>2, <2>3, <2>4 DEF RunStep
<1> QED
  BY <1>1, <1>2 DEF RunnerNext

\* The runner keeps the queue's contract, but for the fairness that it owes.
THEOREM RunnerUsesTheQueue == RunnerSpec => Spec
<1>1. RunnerInit => Init
  BY DEF RunnerInit
<1> QED
  BY <1>1, RunnerStepIsQueueStep, PTL DEF RunnerSpec, Spec

-----------------------------------------------------------------------------

LEMMA InitRunInv == RunnerInit => RunInv
<1> SUFFICES ASSUME RunnerInit PROVE RunInv
  OBVIOUS
<1>1. IInv
  BY InitInv DEF RunnerInit
<1>2. RunTypes
  BY DEF RunnerInit, RunTypes, Place
<1>3. SlotFollowsRun
  BY DEF RunnerInit, Init, SlotFollowsRun
<1>4. ASSUME NEW t \in Stored PROVE Backlog(t)
  BY <1>4, RunnerAssumption DEF RunnerInit, Backlog, Cleared, Settled, RunnerAssumption
<1>5. ASSUME NEW t \in Task PROVE Outcome(t)
  BY DEF RunnerInit, Outcome, Final
<1> QED
  BY <1>1, <1>2, <1>3, <1>4, <1>5 DEF RunInv

LEMMA QueueInv == RunInv /\ [RunnerNext]_runnerVars => IInv'
BY RunnerStepIsQueueStep, NextInv DEF RunInv

-----------------------------------------------------------------------------

\* What settles is the first append of the chain.
LEMMA FirstSettles ==
    ASSUME RunTypes, NEW t \in Task, NEW i \in NextAppend(t), AppendSettles(t, i)
    PROVE  /\ i = 1 /\ appendQueue[t] # <<>>
           /\ appendQueue' = [appendQueue EXCEPT ![t] = Tail(appendQueue[t])]
           /\ \/ log' = [log EXCEPT ![t] = Append(@, Head(appendQueue[t]))] /\ UNCHANGED lost
              \/ lost' = [lost EXCEPT ![t] = @ \cup {Head(appendQueue[t])}] /\ UNCHANGED log
<1> DEFINE q == appendQueue[t]
<1>1. i = 1 /\ q \in Seq(Nat) /\ q # <<>>
  BY DEF RunTypes, NextAppend
<1>2. SubSeq(q, 1, 0) \o SubSeq(q, 2, Len(q)) = Tail(q)
  BY <1>1
<1>3. q[1] = Head(q)
  BY <1>1
<1>4. i - 1 = 0 /\ i + 1 = 2
  BY <1>1
<1> QED
  BY <1>1, <1>2, <1>3, <1>4 DEF AppendSettles

LEMMA TypesKept ==
    ASSUME RunInv, NEW t \in Task, RunStep(t)
    PROVE  RunTypes'
<1> USE DEF RunInv, RunTypes, Place
<1>1. ASSUME Persist(t)
      PROVE  made' \in [Task -> Nat] /\ appendQueue' \in [Task -> Seq(Nat)]
  BY <1>1 DEF Persist
<1>2. CASE Submit(t) \/ QueueNotice(t)
  BY <1>2 DEF Submit, QueueNotice, runVars
<1>3. CASE StartRun(t)
  BY <1>3, <1>1 DEF StartRun, AwaitAppends, Goto
<1>4. CASE RuntimeEvent(t)
  BY <1>4, <1>1 DEF RuntimeEvent
<1>5. CASE RuntimeThrows(t)
  BY <1>5, <1>1 DEF RuntimeThrows, AwaitAppends, Goto, Final
<1>6. CASE SaveRunning(t)
  BY <1>6 DEF SaveRunning, Goto
<1>7. CASE Execute(t)
  BY <1>7 DEF Execute, Goto
<1>8. CASE SaveFinal(t)
  BY <1>8 DEF SaveFinal, Goto, Outcome, At
<1>9. CASE Record(t)
  BY <1>9 DEF Record, RecordTask, Goto
<1>10. ASSUME WindUp(t)
       PROVE  /\ UNCHANGED <<made, appendQueue>>
              /\ awaited' \in [Task -> Nat] /\ pc' \in [Task -> Place]
  <2>1. CASE t \in Stored
    BY <1>10, <2>1 DEF WindUp, AwaitAppends, Goto
  <2>2. CASE t \notin Stored
    BY <1>10, <2>2 DEF WindUp, RecordTask, Goto
  <2> QED
    BY <2>1, <2>2
<1>11. CASE FailureLogged(t)
  BY <1>11, <1>10 DEF FailureLogged
<1>12. ASSUME NEW status \in Final, RuntimeReturns(t, status) PROVE RunTypes'
  BY <1>12, <1>10 DEF RuntimeReturns
<1>13. ASSUME NEW i \in NextAppend(t), AppendSettles(t, i) PROVE RunTypes'
  <2>0. RunTypes
    OBVIOUS
  <2>1. /\ appendQueue[t] # <<>>
        /\ appendQueue' = [appendQueue EXCEPT ![t] = Tail(appendQueue[t])]
        /\ \/ log' = [log EXCEPT ![t] = Append(@, Head(appendQueue[t]))] /\ UNCHANGED lost
           \/ lost' = [lost EXCEPT ![t] = @ \cup {Head(appendQueue[t])}] /\ UNCHANGED log
    BY <1>13, <2>0, FirstSettles
  <2>2. Head(appendQueue[t]) \in Nat /\ Tail(appendQueue[t]) \in Seq(Nat)
    BY <2>1
  <2>3. appendQueue' \in [Task -> Seq(Nat)]
    BY <2>1, <2>2
  <2>4. CASE log' = [log EXCEPT ![t] = Append(@, Head(appendQueue[t]))] /\ UNCHANGED lost
    <3>1. log' \in [Task -> Seq(Nat)]
      BY <2>2, <2>4
    <3> QED
      BY <1>13, <2>3, <2>4, <3>1 DEF AppendSettles
  <2>5. CASE lost' = [lost EXCEPT ![t] = @ \cup {Head(appendQueue[t])}] /\ UNCHANGED log
    <3>1. lost' \in [Task -> SUBSET Nat]
      BY <2>2, <2>5
    <3> QED
      BY <1>13, <2>3, <2>5, <3>1 DEF AppendSettles
  <2> QED
    BY <2>1, <2>4, <2>5
<1>14. ASSUME NEW s \in saves[t], SaveSettles(t, s) PROVE RunTypes'
  <2>1. s \in Final \cup {"running"}
    BY <1>14
  <2>2. saves' \in [Task -> SUBSET (Final \cup {"running"})]
    BY <1>14 DEF SaveSettles
  <2>3. CASE meta' = [meta EXCEPT ![t] = s] /\ UNCHANGED unsaved
    BY <1>14, <2>1, <2>2, <2>3 DEF SaveSettles
  <2>4. CASE unsaved' = [unsaved EXCEPT ![t] = @ \cup {s}] /\ UNCHANGED meta
    BY <1>14, <2>1, <2>2, <2>4 DEF SaveSettles
  <2> QED
    BY <1>14, <2>3, <2>4 DEF SaveSettles
<1> QED
  BY <1>2, <1>3, <1>4, <1>5, <1>6, <1>7, <1>8, <1>9, <1>11, <1>12, <1>13, <1>14 DEF RunStep

-----------------------------------------------------------------------------

\* The places of a run at which it owns its slot, and after it.
OwnerPlace == {"init", "savingRunning", "executing", "failing"}
TailPlace == {"flush", "savingFinal", "done"}

\* release() ends the caller's hold, and may grant a slot to a waiting caller.
LEMMA ReleaseCalls ==
    ASSUME IInv, NEW t \in Task, Release(t)
    PROVE  /\ call[t] = "holding" /\ call'[t] = "released"
           /\ \A u \in Task \ {t} : \/ call'[u] = call[u]
                                    \/ call[u] = "waiting" /\ call'[u] = "granted"
<1> USE DEF Release, IInv, TypeOK
<1>1. CASE FreeSlot(t)
  BY <1>1 DEF FreeSlot
<1>2. CASE HandOver(t)
  <2>1. Head(queue) \in Task /\ call[Head(queue)] = "waiting"
    BY <1>2 DEF HandOver, NoStrandedCaller
  <2> QED
    BY <1>2, <2>1 DEF HandOver
<1> QED
  BY <1>1, <1>2

LEMMA SlotsKept ==
    ASSUME RunInv, NEW t \in Task, RunStep(t)
    PROVE  SlotFollowsRun'
<1> USE DEF RunInv, RunTypes, SlotFollowsRun
<1>1. CASE Submit(t) \/ QueueNotice(t)
  BY <1>1 DEF Submit, QueueNotice, runVars, Enqueue, RefuseDraining, TakeSlot, RefuseFull, Join,
              NoticeTimer, IInv, TypeOK
<1>2. CASE StartRun(t)
  BY <1>2 DEF StartRun, Resume, Goto, At, IInv, TypeOK
<1>3. CASE RuntimeEvent(t)
  BY <1>3 DEF RuntimeEvent, vars
<1>4. CASE RuntimeThrows(t)
  BY <1>4 DEF RuntimeThrows, Goto, At, vars
<1>5. CASE SaveRunning(t)
  BY <1>5 DEF SaveRunning, Goto, At, vars
<1>6. CASE Execute(t)
  BY <1>6 DEF Execute, Goto, At, vars
<1>7. CASE SaveFinal(t)
  BY <1>7 DEF SaveFinal, Goto, At, vars
<1>8. CASE Record(t)
  BY <1>8 DEF Record, RecordTask, Goto, At, vars
<1>9. ASSUME WindUp(t), pc[t] \in {"executing", "failing"} PROVE SlotFollowsRun'
  <2>1. Release(t)
    BY <1>9 DEF WindUp, GiveSlotBack
  <2>2. pc' = [pc EXCEPT ![t] = "flush"] \/ pc' = [pc EXCEPT ![t] = "done"]
    BY <1>9 DEF WindUp, RecordTask, Goto
  <2>3. /\ call[t] = "holding" /\ call'[t] = "released"
        /\ \A u \in Task \ {t} : \/ call'[u] = call[u]
                                 \/ call[u] = "waiting" /\ call'[u] = "granted"
    BY <2>1, ReleaseCalls
  <2>4. pc'[t] \in {"flush", "done"} /\ \A u \in Task \ {t} : pc'[u] = pc[u]
    BY <2>2
  <2> QED
    BY <2>3, <2>4
<1>10. CASE FailureLogged(t)
  BY <1>9, <1>10 DEF FailureLogged, At
<1>11. ASSUME NEW status \in Final, RuntimeReturns(t, status) PROVE SlotFollowsRun'
  BY <1>9, <1>11 DEF RuntimeReturns, At
<1>12. ASSUME NEW i \in NextAppend(t), AppendSettles(t, i) PROVE SlotFollowsRun'
  BY <1>12 DEF AppendSettles, vars
<1>13. ASSUME NEW s \in saves[t], SaveSettles(t, s) PROVE SlotFollowsRun'
  BY <1>13 DEF SaveSettles, vars
<1> QED
  BY <1>1, <1>2, <1>3, <1>4, <1>5, <1>6, <1>7, <1>8, <1>10, <1>11, <1>12, <1>13 DEF RunStep

-----------------------------------------------------------------------------

\* A step of one run leaves the variables of the others alone.
Untouched(u) ==
    /\ pc'[u] = pc[u] /\ made'[u] = made[u] /\ appendQueue'[u] = appendQueue[u]
    /\ log'[u] = log[u] /\ lost'[u] = lost[u] /\ awaited'[u] = awaited[u]
    /\ result'[u] = result[u] /\ saves'[u] = saves[u] /\ meta'[u] = meta[u]
    /\ unsaved'[u] = unsaved[u]

LEMMA OthersUntouched ==
    ASSUME RunTypes, NEW t \in Task, RunStep(t), NEW u \in Task \ {t}
    PROVE  Untouched(u)
<1> USE DEF RunTypes, Goto, Persist, AwaitAppends, Untouched
<1>1. CASE Submit(t) \/ QueueNotice(t)
  BY <1>1 DEF Submit, QueueNotice, runVars
<1>2. CASE StartRun(t)
  BY <1>2 DEF StartRun
<1>3. CASE RuntimeEvent(t)
  BY <1>3 DEF RuntimeEvent
<1>4. CASE RuntimeThrows(t)
  BY <1>4 DEF RuntimeThrows
<1>5. CASE SaveRunning(t)
  BY <1>5 DEF SaveRunning
<1>6. CASE Execute(t)
  BY <1>6 DEF Execute
<1>7. CASE SaveFinal(t)
  BY <1>7 DEF SaveFinal
<1>8. CASE Record(t)
  BY <1>8 DEF Record, RecordTask
<1>9. CASE FailureLogged(t)
  BY <1>9 DEF FailureLogged, WindUp, RecordTask
<1>10. ASSUME NEW status \in Final, RuntimeReturns(t, status) PROVE Untouched(u)
  BY <1>10 DEF RuntimeReturns, WindUp, RecordTask
<1>11. ASSUME NEW i \in NextAppend(t), AppendSettles(t, i) PROVE Untouched(u)
  BY <1>11 DEF AppendSettles
<1>12. ASSUME NEW s \in saves[t], SaveSettles(t, s) PROVE Untouched(u)
  BY <1>12 DEF SaveSettles
<1> QED
  BY <1>1, <1>2, <1>3, <1>4, <1>5, <1>6, <1>7, <1>8, <1>9, <1>10, <1>11, <1>12 DEF RunStep

LEMMA UntouchedKeeps ==
    ASSUME NEW u \in Task, Untouched(u)
    PROVE  (Backlog(u) => Backlog(u)') /\ (Outcome(u) => Outcome(u)')
BY DEF Untouched, Backlog, Outcome, Cleared, Settled

-----------------------------------------------------------------------------

\* An event that is chained goes to the end, behind those made before it.
LEMMA PersistKeepsBacklog ==
    ASSUME RunTypes, NEW t \in Stored, Backlog(t), Persist(t), UNCHANGED <<log, lost>>,
           \/ awaited' = awaited /\ pc' = pc
           \/ AwaitAppends(t) /\ pc'[t] \notin {"savingFinal", "done"}
    PROVE  Backlog(t)'
<1> DEFINE q == appendQueue[t]
<1> USE RunnerAssumption DEF RunnerAssumption
<1>1. q \in Seq(Nat) /\ made[t] \in Nat /\ Len(q) \in Nat
  BY DEF RunTypes
<1>2. made'[t] = made[t] + 1 /\ appendQueue'[t] = Append(q, made[t] + 1)
  BY DEF Persist, RunTypes
<1>3. Len(appendQueue'[t]) = Len(q) + 1 /\ Cleared(t)' = Cleared(t)
  <2>1. Len(Append(q, made[t] + 1)) = Len(q) + 1
    BY <1>1
  <2>2. Cleared(t)' = (made[t] + 1) - (Len(q) + 1)
    BY <1>2, <2>1 DEF Cleared
  <2>3. (made[t] + 1) - (Len(q) + 1) = made[t] - Len(q)
    BY <1>1
  <2> QED
    BY <1>2, <2>1, <2>2, <2>3 DEF Cleared
<1>4. \A i \in 1..Len(appendQueue'[t]) : appendQueue'[t][i] = Cleared(t) + i
  <2> SUFFICES ASSUME NEW i \in 1..(Len(q) + 1) PROVE Append(q, made[t] + 1)[i] = Cleared(t) + i
    BY <1>2, <1>3
  <2>1. CASE i = Len(q) + 1
    BY <1>1, <2>1 DEF Cleared
  <2>2. CASE i \in 1..Len(q)
    BY <1>1, <2>2 DEF Backlog
  <2> QED
    BY <1>1, <2>1, <2>2
<1>5. Settled(t)' = Settled(t)
  BY DEF Settled
<1>6. awaited'[t] <= made'[t]
  BY <1>1, <1>2 DEF AwaitAppends, Backlog, RunTypes
<1>7. pc'[t] \in {"savingFinal", "done"} => awaited'[t] <= Cleared(t)
  BY DEF Backlog
<1> QED
  BY <1>3, <1>4, <1>5, <1>6, <1>7 DEF Backlog

\* The first append settles: its event is the next one after those cleared.
LEMMA SettlingKeepsBacklog ==
    ASSUME RunTypes, NEW t \in Stored, Backlog(t), NEW i \in NextAppend(t), AppendSettles(t, i)
    PROVE  Backlog(t)'
<1> DEFINE q == appendQueue[t]
           e == Head(appendQueue[t])
<1> USE RunnerAssumption DEF RunnerAssumption
<1>1. q \in Seq(Nat) /\ q # <<>> /\ made[t] \in Nat /\ Len(q) \in Nat /\ t \in Task
  BY FirstSettles DEF RunTypes
<1>2. appendQueue'[t] = Tail(q) /\ made' = made /\ awaited' = awaited /\ pc' = pc
  <2>1. appendQueue' = [appendQueue EXCEPT ![t] = Tail(q)]
    BY <1>1, FirstSettles
  <2> QED
    BY <1>1, <2>1 DEF AppendSettles, RunTypes
<1>3. Cleared(t)' = Cleared(t) + 1 /\ Len(Tail(q)) = Len(q) - 1
  BY <1>1, <1>2 DEF Cleared
<1>4. e = Cleared(t) + 1
  BY <1>1 DEF Backlog
<1>5. \A k \in 1..Len(Tail(q)) : Tail(q)[k] = (Cleared(t) + 1) + k
  BY <1>1, <1>3 DEF Backlog
<1>6. \/ log'[t] = Append(log[t], e) /\ lost'[t] = lost[t]
      \/ log'[t] = log[t] /\ lost'[t] = lost[t] \cup {e}
  BY <1>1, FirstSettles DEF RunTypes
<1>7. log[t] \in Seq(Nat) /\ Len(log[t]) \in Nat /\ Cleared(t) \in Nat
  BY <1>1 DEF RunTypes, Backlog
<1>8. Settled(t)' = Settled(t) \cup {e}
  BY <1>6, <1>7 DEF Settled
<1>9. Settled(t)' = 1..(Cleared(t) + 1)
  BY <1>4, <1>7, <1>8 DEF Backlog
<1>10. \A k \in 1..Len(log[t]) : log[t][k] < e
  <2> SUFFICES ASSUME NEW k \in 1..Len(log[t]) PROVE log[t][k] < e
    OBVIOUS
  <2>1. log[t][k] \in 1..Cleared(t)
    BY <1>7 DEF Backlog, Settled
  <2> QED
    BY <1>4, <1>7, <2>1
<1>11. \A j, k \in 1..Len(log'[t]) : j < k => log'[t][j] < log'[t][k]
  <2>1. CASE log'[t] = log[t]
    BY <2>1 DEF Backlog
  <2>2. CASE log'[t] = Append(log[t], e)
    BY <1>7, <1>10, <2>2 DEF Backlog
  <2> QED
    BY <1>6, <2>1, <2>2
<1>12. awaited[t] <= made[t] /\ (pc[t] \in {"savingFinal", "done"} => awaited[t] <= Cleared(t) + 1)
  BY <1>7 DEF Backlog, RunTypes
<1> QED
  BY <1>2, <1>3, <1>5, <1>7, <1>9, <1>11, <1>12 DEF Backlog

\* What is waited for has settled once it is no longer chained.
LEMMA AppendedIsCleared ==
    ASSUME RunTypes, NEW t \in Stored, Backlog(t), Appended(t)
    PROVE  awaited[t] <= Cleared(t)
<1> DEFINE q == appendQueue[t]
           i == awaited[t] - Cleared(t)
<1> USE RunnerAssumption DEF RunnerAssumption
<1>1. q \in Seq(Nat) /\ made[t] \in Nat /\ Len(q) \in Nat /\ awaited[t] \in Nat /\ Cleared(t) \in Nat
  BY DEF RunTypes, Backlog
<1> SUFFICES ASSUME awaited[t] > Cleared(t) PROVE FALSE
  BY <1>1
<1>2. i \in 1..Len(q)
  BY <1>1 DEF Backlog, Cleared
<1>3. q[i] = awaited[t]
  BY <1>1, <1>2 DEF Backlog
<1> QED
  BY <1>1, <1>2, <1>3 DEF Appended, InRange

LEMMA BacklogKept ==
    ASSUME RunInv, NEW t \in Stored, RunStep(t)
    PROVE  Backlog(t)'
<1>0. RunTypes /\ Backlog(t) /\ Outcome(t) /\ t \in Task
  BY RunnerAssumption DEF RunInv, RunnerAssumption
<1>1. CASE Submit(t) \/ QueueNotice(t)
  BY <1>0, <1>1 DEF Submit, QueueNotice, runVars, Backlog, Cleared, Settled
<1>2. CASE StartRun(t)
  <2>1. pc'[t] = "init"
    BY <1>0, <1>2 DEF StartRun, Goto, RunTypes
  <2> QED
    BY <1>0, <1>2, <2>1, PersistKeepsBacklog DEF StartRun
<1>3. CASE RuntimeEvent(t)
  BY <1>0, <1>3, PersistKeepsBacklog DEF RuntimeEvent
<1>4. CASE RuntimeThrows(t)
  <2>1. pc'[t] = "failing"
    BY <1>0, <1>4 DEF RuntimeThrows, Goto, RunTypes
  <2> QED
    BY <1>0, <1>4, <2>1, PersistKeepsBacklog DEF RuntimeThrows
<1>5. ASSUME UNCHANGED <<made, appendQueue, log, lost, awaited>>,
             pc'[t] \in {"savingFinal", "done"} => awaited[t] <= Cleared(t)
      PROVE  Backlog(t)'
  BY <1>0, <1>5 DEF Backlog, Cleared, Settled
<1>6. CASE SaveRunning(t) \/ Execute(t)
  <2>1. pc'[t] \notin {"savingFinal", "done"}
    BY <1>0, <1>6 DEF SaveRunning, Execute, Goto, RunTypes
  <2> QED
    BY <1>5, <1>6, <2>1 DEF SaveRunning, Execute
<1>7. CASE SaveFinal(t)
  BY <1>0, <1>5, <1>7, AppendedIsCleared DEF SaveFinal
<1>8. CASE Record(t)
  BY <1>0, <1>5, <1>8 DEF Record, At, Backlog
<1>9. ASSUME WindUp(t), UNCHANGED <<log, lost>> PROVE Backlog(t)'
  <2>1. pc'[t] = "flush" /\ made' = made /\ appendQueue' = appendQueue /\ awaited'[t] = made[t]
    BY <1>0, <1>9 DEF WindUp, Goto, AwaitAppends, RunTypes
  <2>2. made[t] \in Nat
    BY <1>0 DEF RunTypes
  <2>3. Cleared(t)' = Cleared(t) /\ Settled(t)' = Settled(t)
    BY <1>9, <2>1 DEF Cleared, Settled
  <2> QED
    BY <1>0, <1>9, <2>1, <2>2, <2>3 DEF Backlog
<1>10. CASE FailureLogged(t)
  BY <1>9, <1>10 DEF FailureLogged
<1>11. ASSUME NEW status \in Final, RuntimeReturns(t, status) PROVE Backlog(t)'
  BY <1>9, <1>11 DEF RuntimeReturns
<1>12. ASSUME NEW i \in NextAppend(t), AppendSettles(t, i) PROVE Backlog(t)'
  BY <1>0, <1>12, SettlingKeepsBacklog
<1>13. ASSUME NEW s \in saves[t], SaveSettles(t, s) PROVE Backlog(t)'
  BY <1>0, <1>5, <1>13 DEF SaveSettles, Backlog
<1> QED
  BY <1>1, <1>2, <1>3, <1>4, <1>6, <1>7, <1>8, <1>10, <1>11, <1>12, <1>13 DEF RunStep

-----------------------------------------------------------------------------

LEMMA OutcomeKept ==
    ASSUME RunInv, NEW t \in Task, RunStep(t)
    PROVE  Outcome(t)'
<1>0. RunTypes /\ Outcome(t) /\ pc[t] \in Place
  BY DEF RunInv, RunTypes
<1>1. ASSUME UNCHANGED <<pc, result, saves, meta, unsaved>> PROVE Outcome(t)'
  BY <1>0, <1>1 DEF Outcome
<1>2. CASE Submit(t) \/ QueueNotice(t) \/ RuntimeEvent(t) \/ \E i \in NextAppend(t) : AppendSettles(t, i)
  BY <1>1, <1>2 DEF Submit, QueueNotice, runVars, RuntimeEvent, AppendSettles
<1>3. ASSUME NEW place, pc' = [pc EXCEPT ![t] = place],
             pc[t] \notin {"savingRunning", "savingFinal", "done"} \/ saves[t] = {},
             place \in {"init", "executing"} \/ (place = "failing" /\ result'[t] \in Final), pc[t] \notin {"savingFinal", "done"},
             UNCHANGED <<saves, meta, unsaved>>
      PROVE  Outcome(t)'
  BY <1>0, <1>3 DEF Outcome, RunTypes
<1>4. CASE StartRun(t)
  <2>1. pc' = [pc EXCEPT ![t] = "init"]
    BY <1>4 DEF StartRun, Goto
  <2> QED
    BY <1>3, <1>4, <2>1 DEF StartRun, At
<1>5. CASE Execute(t)
  <2>1. pc' = [pc EXCEPT ![t] = "executing"] /\ pc[t] \in {"savingRunning", "init"}
    BY <1>5 DEF Execute, Goto, At
  <2>2. pc[t] = "init" \/ saves[t] = {}
    BY <1>5 DEF Execute, At, SavesSettled
  <2> QED
    BY <1>3, <1>5, <2>1, <2>2 DEF Execute
<1>6. CASE RuntimeThrows(t)
  <2>1. result'[t] = "error"
    BY <1>0, <1>6 DEF RuntimeThrows, RunTypes
  <2> QED
    BY <1>3, <1>6, <2>1 DEF RuntimeThrows, Goto, At, Final
<1>7. CASE SaveRunning(t)
  BY <1>0, <1>7 DEF SaveRunning, Goto, At, Outcome, RunTypes, Final
<1>8. CASE SaveFinal(t)
  BY <1>0, <1>8 DEF SaveFinal, Goto, At, Outcome, RunTypes, Final
<1>9. CASE Record(t)
  BY <1>0, <1>9 DEF Record, RecordTask, SavesSettled, Goto, At, Outcome, RunTypes
<1>10. ASSUME WindUp(t), pc[t] \in {"executing", "failing"}, result'[t] \in Final,
              UNCHANGED <<saves, meta, unsaved>>
       PROVE  Outcome(t)'
  <2>1. \/ t \in Stored /\ pc'[t] = "flush"
        \/ t \notin Stored /\ pc'[t] = "done"
    BY <1>0, <1>10 DEF WindUp, RecordTask, Goto, RunTypes
  <2> QED
    BY <1>0, <1>10, <2>1 DEF Outcome
<1>11. CASE FailureLogged(t)
  <2>1. result'[t] \in Final
    BY <1>0, <1>11 DEF FailureLogged, At, Outcome
  <2> QED
    BY <1>10, <1>11, <2>1 DEF FailureLogged, At
<1>12. ASSUME NEW status \in Final, RuntimeReturns(t, status) PROVE Outcome(t)'
  BY <1>0, <1>10, <1>12 DEF RuntimeReturns, At, RunTypes
<1>13. ASSUME NEW s \in saves[t], SaveSettles(t, s) PROVE Outcome(t)'
  <2>1. pc' = pc /\ result' = result /\ saves'[t] = saves[t] \ {s}
    BY <1>0, <1>13 DEF SaveSettles, RunTypes
  <2>2. CASE s \in Final
    BY <1>0, <1>13, <2>1, <2>2 DEF SaveSettles, Outcome, RunTypes
  <2>3. CASE s = "running"
    BY <1>0, <1>13, <2>1, <2>3 DEF SaveSettles, Outcome, RunTypes, Final
  <2> QED
    BY <1>0, <1>13, <2>2, <2>3 DEF RunTypes
<1> QED
  BY <1>2, <1>4, <1>5, <1>6, <1>7, <1>8, <1>9, <1>11, <1>12, <1>13 DEF RunStep

\* Nothing that the queue does for a drain() is seen by a run, but refusals.
LEMMA DrainKeepsRuns ==
    ASSUME RunInv, NEW d \in Drainer, DrainStep(d)
    PROVE  RunTypes' /\ SlotFollowsRun' /\ (\A t \in Stored : Backlog(t)') /\ (\A t \in Task : Outcome(t)')
<1>1. UNCHANGED runVars
  BY DEF DrainStep
<1>2. RunTypes'
  BY <1>1 DEF RunInv, RunTypes, runVars
<1>3. SlotFollowsRun'
  BY <1>1 DEF RunInv, DrainStep, Drain, PollDrain, RejectPending, SlotFollowsRun, runVars, IInv, TypeOK
<1>4. \A t \in Stored : Backlog(t)'
  BY <1>1 DEF RunInv, runVars, Backlog, Cleared, Settled
<1>5. \A t \in Task : Outcome(t)'
  BY <1>1 DEF RunInv, runVars, Outcome
<1> QED
  BY <1>2, <1>3, <1>4, <1>5

LEMMA NextRunInv == RunInv /\ [RunnerNext]_runnerVars => RunInv'
<1> SUFFICES ASSUME RunInv, [RunnerNext]_runnerVars PROVE RunInv'
  OBVIOUS
<1>1. IInv'
  BY QueueInv
<1>2. ASSUME NEW t \in Task, RunStep(t) PROVE RunInv'
  <2>1. RunTypes' /\ SlotFollowsRun'
    BY <1>2, TypesKept, SlotsKept
  <2>2. \A u \in Stored : Backlog(u)'
    BY <1>2, BacklogKept, OthersUntouched, UntouchedKeeps, RunnerAssumption DEF RunInv, RunnerAssumption
  <2>3. \A u \in Task : Outcome(u)'
    BY <1>2, OutcomeKept, OthersUntouched, UntouchedKeeps DEF RunInv
  <2> QED
    BY <1>1, <2>1, <2>2, <2>3 DEF RunInv
<1>3. ASSUME NEW d \in Drainer, DrainStep(d) PROVE RunInv'
  BY <1>1, <1>3, DrainKeepsRuns DEF RunInv
<1>4. CASE UNCHANGED runnerVars
  BY <1>1, <1>4 DEF RunInv, runnerVars, runVars, vars, RunTypes, SlotFollowsRun, Backlog, Outcome, Cleared, Settled
<1> QED
  BY <1>2, <1>3, <1>4 DEF RunnerNext

\* The invariant of the runner, on top of the queue's.
THEOREM RunnerInvariance == RunnerSpec => []RunInv
BY InitRunInv, NextRunInv, PTL DEF RunnerSpec

-----------------------------------------------------------------------------

LEMMA InvSlots == RunInv => SlotFollowsRun
BY DEF RunInv

LEMMA InvLog == RunInv => LogFollowsBroadcast
<1> SUFFICES ASSUME RunInv, NEW t \in Stored
             PROVE  /\ \A i, j \in DOMAIN log[t] : i < j => log[t][i] < log[t][j]
                    /\ Settled(t) \cup {appendQueue[t][i] : i \in DOMAIN appendQueue[t]} = 1..made[t]
  BY DEF LogFollowsBroadcast
<1> DEFINE q == appendQueue[t]
<1>1. /\ log[t] \in Seq(Nat) /\ q \in Seq(Nat) /\ made[t] \in Nat /\ Len(q) \in Nat
      /\ Backlog(t) /\ Cleared(t) \in Nat
  BY RunnerAssumption DEF RunInv, RunTypes, RunnerAssumption, Backlog
<1>2. \A i, j \in DOMAIN log[t] : i < j => log[t][i] < log[t][j]
  <2>1. DOMAIN log[t] = 1..Len(log[t])
    BY <1>1
  <2> QED
    BY <1>1, <2>1 DEF Backlog
<1>3. {q[i] : i \in DOMAIN q} = (Cleared(t) + 1)..made[t]
  <2>1. DOMAIN q = 1..Len(q) /\ made[t] = Cleared(t) + Len(q)
    BY <1>1 DEF Cleared
  <2>2. \A i \in 1..Len(q) : q[i] = Cleared(t) + i
    BY <1>1 DEF Backlog
  <2>3. ASSUME NEW e \in (Cleared(t) + 1)..made[t] PROVE e \in {q[i] : i \in DOMAIN q}
    <3>1. e - Cleared(t) \in 1..Len(q)
      BY <1>1, <2>1
    <3>2. q[e - Cleared(t)] = e
      BY <1>1, <2>2, <3>1
    <3> QED
      BY <2>1, <3>1, <3>2
  <2>4. ASSUME NEW i \in DOMAIN q PROVE q[i] \in (Cleared(t) + 1)..made[t]
    BY <1>1, <2>1, <2>2
  <2> QED
    BY <2>3, <2>4
<1>4. Settled(t) = 1..Cleared(t) /\ Cleared(t) <= made[t]
  BY <1>1 DEF Backlog, Cleared
<1> QED
  BY <1>1, <1>2, <1>3, <1>4

LEMMA InvOutcome == RunInv => OutcomeIsDurable
<1> SUFFICES ASSUME RunInv, NEW t \in Stored
             PROVE  /\ meta[t] \in Final => 1..awaited[t] \subseteq Settled(t)
                    /\ pc[t] = "done" => meta[t] = result[t] \/ result[t] \in unsaved[t]
  BY DEF OutcomeIsDurable
<1>1. RunTypes /\ Backlog(t) /\ Outcome(t) /\ t \in Task
  BY RunnerAssumption DEF RunInv, RunnerAssumption
<1>2. meta[t] \in Final => awaited[t] <= Cleared(t)
  BY <1>1 DEF Backlog, Outcome
<1>3. awaited[t] <= Cleared(t) => 1..awaited[t] \subseteq Settled(t)
  BY <1>1 DEF Backlog, RunTypes
<1>4. pc[t] = "done" => result[t] \notin saves[t]
  BY <1>1 DEF Outcome
<1> QED
  BY <1>1, <1>2, <1>3, <1>4 DEF Outcome

\* The phases of a run and the queue's view of its caller never drift apart.
THEOREM SlotsFollowRuns == RunnerSpec => []SlotFollowsRun
BY RunnerInvariance, InvSlots, PTL

\* The log on disk is the broadcast in its own order, whatever appends fail.
THEOREM LogsFollowBroadcasts == RunnerSpec => []LogFollowsBroadcast
BY RunnerInvariance, InvLog, PTL

\* The outcome reaches the disk after the log that it sums up, and stays.
THEOREM OutcomesAreDurable == RunnerSpec => []OutcomeIsDurable
BY RunnerInvariance, InvOutcome, PTL

-----------------------------------------------------------------------------
(***************************************************************************)
(* The process. The exits are armed by a drain() that has resolved, and    *)
(* what a resolved drain means is the queue's DrainedMeansIdle.            *)
(***************************************************************************)

\* shutdown() has not gone past its await unless the drain is over.
ShutdownInv ==
    /\ forceTimer => server \in {"closing", "exited"}
    /\ server \in {"closing", "exited"} => \E d \in Drainer : drain[d] = "resolved"

LEMMA ServerStepIsRunnerStep == [ServerNext]_procVars => [RunnerNext]_runnerVars
BY DEF ServerNext, procVars, RunnerNext, DrainStep, Shutdown, Poll, CloseServer, Exit, ForcedExit

\* No step of the process undoes a drain() that has resolved.
LEMMA ResolvedStays ==
    ASSUME TypeOK, [Next]_vars, NEW d \in Drainer, drain[d] = "resolved"
    PROVE  drain'[d] = "resolved"
BY DEF Next, vars, Enqueue, RefuseDraining, TakeSlot, RefuseFull, Join, Resume, Release,
       NoticeTimer, Drain, PollDrain, TypeOK

LEMMA ShutdownInvKept ==
    ASSUME TypeOK, ShutdownInv, [ServerNext]_procVars
    PROVE  ShutdownInv'
<1>1. \A d \in Drainer : drain[d] = "resolved" => drain'[d] = "resolved"
  BY ServerStepIsRunnerStep, RunnerStepIsQueueStep, ResolvedStays
<1>2. CASE \E d \in Drainer : CloseServer(d)
  BY <1>1, <1>2 DEF CloseServer, DrainOver, ShutdownInv
<1>3. CASE \E d \in Drainer : Shutdown(d)
  BY <1>1, <1>3 DEF Shutdown, ShutdownInv
<1>4. CASE Exit \/ ForcedExit
  BY <1>1, <1>4 DEF Exit, ForcedExit, ShutdownInv
<1>5. CASE UNCHANGED serverVars
  BY <1>1, <1>5 DEF serverVars, ShutdownInv
<1> QED
  BY <1>2, <1>3, <1>4, <1>5 DEF ServerNext, Poll, procVars

\* The process keeps every guarantee of the runner.
THEOREM ServerRunsTheRunner == ServerSpec => RunnerSpec
<1>1. ServerInit => RunnerInit
  BY DEF ServerInit
<1> QED
  BY <1>1, ServerStepIsRunnerStep, PTL DEF ServerSpec, RunnerSpec

\* Neither way out of the process cuts off an owner of a slot or a caller.
THEOREM ExitsAreClean == ServerSpec => []ExitCutsOffNoOwner
<1>1. ServerSpec => []TypeOK /\ []DrainedMeansIdle
  BY ServerRunsTheRunner, RunnerUsesTheQueue, TypeCorrect, DrainIsSafe, PTL
<1>2. ServerInit => ShutdownInv
  BY DEF ServerInit, ShutdownInv
<1>3. TypeOK /\ ShutdownInv /\ [ServerNext]_procVars => ShutdownInv'
  BY ShutdownInvKept
<1>4. DrainedMeansIdle /\ ShutdownInv => ExitCutsOffNoOwner
  BY DEF ShutdownInv, DrainedMeansIdle, ExitCutsOffNoOwner
<1> QED
  BY <1>1, <1>2, <1>3, <1>4, PTL DEF ServerSpec

=============================================================================
