-------------------------- MODULE RuntimeChainProofs --------------------------
(***************************************************************************)
(* CodexAdapter, for any number of runs and everything their processes do: *)
(* no await misses what it waits for; and while the callers do not overlap *)
(* a run that has returned leaves no process behind, and none is           *)
(* terminated before its run is over.                                      *)
(*                                                                         *)
(* Then RuntimeChain, whatever the process does and whenever the timeout   *)
(* falls: the adapter keeps its promises although it is disposed of in the *)
(* middle of a run, and the result that the caller gets is final and       *)
(* witnessed.                                                              *)
(***************************************************************************)
EXTENDS RuntimeChain, SequenceTheorems, TLAPS

-----------------------------------------------------------------------------
(* The adapter.                                                            *)

\* dispose(), as it is called at the end of a run: an active field that is a run.
LEMMA DisposeTyped ==
    ASSUME AdapterTypeOK, NEW now,
           now \in [process : Run \cup {None}, client : Run \cup {None},
                    thread : Run \cup {None}, turn : Run \cup {None}],
           Dispose(now)
    PROVE  /\ pending' \in [Run -> SUBSET Request]
           /\ asked' \in [Run -> SUBSET Request]
           /\ proc' \in [Run -> {"none", "unborn", "alive", "terminating", "killed", "dead"}]
           /\ active' = Inactive
<1>1. pending' \in [Run -> SUBSET Request] /\ asked' \in [Run -> SUBSET Request]
  <2>1. CASE None \notin {now.client, now.thread, now.turn}
    <3>1. now.client \in Run /\ Ask(now.client, "turn/interrupt")
      BY <2>1 DEF Dispose
    <3>2. pending \in [Run -> SUBSET Request] /\ asked \in [Run -> SUBSET Request]
      BY DEF AdapterTypeOK
    <3>3. QED BY <3>1, <3>2 DEF Ask, Request
  <2>2. CASE None \in {now.client, now.thread, now.turn}
    BY <2>2 DEF Dispose, AdapterTypeOK
  <2>3. QED BY <2>1, <2>2
<1>2. proc' \in [Run -> {"none", "unborn", "alive", "terminating", "killed", "dead"}]
  BY DEF Dispose, Terminate, AdapterTypeOK
<1>3. QED BY <1>1, <1>2 DEF Dispose

\* The types hold after run() has come to its end.
LEMMA FinishTyped ==
    ASSUME AdapterTypeOK, NEW r \in Run, NEW now, NEW status \in {"none", "completed", "error"},
           now \in [process : Run \cup {None}, client : Run \cup {None},
                    thread : Run \cup {None}, turn : Run \cup {None}],
           Finish(r, status, now)
    PROVE  AdapterTypeOK'
<1>1. Dispose(now)
  BY DEF Finish
<1>2. /\ pending' \in [Run -> SUBSET Request]
      /\ asked' \in [Run -> SUBSET Request]
      /\ proc' \in [Run -> {"none", "unborn", "alive", "terminating", "killed", "dead"}]
      /\ active' = Inactive
  BY <1>1, DisposeTyped
<1>3. active' \in [process : Run \cup {None}, client : Run \cup {None},
                   thread : Run \cup {None}, turn : Run \cup {None}]
  BY <1>2 DEF Inactive
<1>4. /\ at' \in [Run -> {"idle", "initialize", "thread/start", "turn/start", "turn", "returned"}]
      /\ result' \in [Run -> {"none", "completed", "error"}]
  BY DEF Finish, AdapterTypeOK
<1>5. QED BY <1>2, <1>3, <1>4 DEF Finish, AdapterTypeOK

\* The types hold after a request has been sent and is awaited.
LEMMA AwaitTyped ==
    ASSUME AdapterTypeOK, NEW r \in Run, NEW m \in Request \ {"turn/interrupt"}, AwaitAnswer(r, m)
    PROVE  /\ at' \in [Run -> {"idle", "initialize", "thread/start", "turn/start", "turn", "returned"}]
           /\ settled' \in [Run -> {"waiting", "ok", "failed"}]
           /\ pending' \in [Run -> SUBSET Request]
           /\ asked' \in [Run -> SUBSET Request]
<1>1. at' \in [Run -> {"idle", "initialize", "thread/start", "turn/start", "turn", "returned"}]
  BY DEF AwaitAnswer, AdapterTypeOK, Request
<1>2. settled' \in [Run -> {"waiting", "ok", "failed"}]
  BY DEF AwaitAnswer, AdapterTypeOK
<1>3. pending' \in [Run -> SUBSET Request] /\ asked' \in [Run -> SUBSET Request]
  BY DEF AwaitAnswer, Ask, AdapterTypeOK
<1>4. QED BY <1>1, <1>2, <1>3

\* Every step keeps the types.
LEMMA StepTyped ==
    ASSUME AdapterTypeOK, AdapterNext
    PROVE  AdapterTypeOK'
<1>1. PICK r \in Run : Start(r) \/ Continue(r) \/ Arrival(r) \/ ReadDelta(r) \/ Codex(r)
  BY DEF AdapterNext
<1>2. active \in [process : Run \cup {None}, client : Run \cup {None},
                  thread : Run \cup {None}, turn : Run \cup {None}]
  BY DEF AdapterTypeOK
<1>3. CASE NotFound(r)
  BY <1>3, <1>2, FinishTyped DEF NotFound
<1>4. CASE Spawn(r)
  <2>1. AwaitAnswer(r, "initialize")
    BY <1>4 DEF Spawn
  <2>2. /\ at' \in [Run -> {"idle", "initialize", "thread/start", "turn/start", "turn", "returned"}]
        /\ settled' \in [Run -> {"waiting", "ok", "failed"}]
        /\ pending' \in [Run -> SUBSET Request]
        /\ asked' \in [Run -> SUBSET Request]
    BY <2>1, AwaitTyped DEF Request
  <2>3. proc' \in [Run -> {"none", "unborn", "alive", "terminating", "killed", "dead"}]
    BY <1>4 DEF Spawn, AdapterTypeOK
  <2>4. active' \in [process : Run \cup {None}, client : Run \cup {None},
                     thread : Run \cup {None}, turn : Run \cup {None}]
    BY <1>4, <1>2 DEF Spawn
  <2>5. QED BY <1>4, <2>2, <2>3, <2>4 DEF Spawn, AdapterTypeOK
<1>5. CASE Initialized(r)
  <2>1. /\ at' \in [Run -> {"idle", "initialize", "thread/start", "turn/start", "turn", "returned"}]
        /\ settled' \in [Run -> {"waiting", "ok", "failed"}]
        /\ pending' \in [Run -> SUBSET Request]
        /\ asked' \in [Run -> SUBSET Request]
    BY <1>5, AwaitTyped DEF Initialized, Request
  <2>2. QED BY <1>5, <2>1 DEF Initialized, AdapterTypeOK
<1>6. CASE ThreadStarted(r)
  <2>1. /\ at' \in [Run -> {"idle", "initialize", "thread/start", "turn/start", "turn", "returned"}]
        /\ settled' \in [Run -> {"waiting", "ok", "failed"}]
        /\ pending' \in [Run -> SUBSET Request]
        /\ asked' \in [Run -> SUBSET Request]
    BY <1>6, AwaitTyped DEF ThreadStarted, Request
  <2>2. active' \in [process : Run \cup {None}, client : Run \cup {None},
                     thread : Run \cup {None}, turn : Run \cup {None}]
    BY <1>6, <1>2 DEF ThreadStarted
  <2>3. QED BY <1>6, <2>1, <2>2 DEF ThreadStarted, AdapterTypeOK
<1>7. CASE TurnStarted(r)
  <2>1. active' \in [process : Run \cup {None}, client : Run \cup {None},
                     thread : Run \cup {None}, turn : Run \cup {None}]
    BY <1>7, <1>2 DEF TurnStarted
  <2>2. /\ at' \in [Run -> {"idle", "initialize", "thread/start", "turn/start", "turn", "returned"}]
        /\ settled' \in [Run -> {"waiting", "ok", "failed"}]
    BY <1>7 DEF TurnStarted, TurnOrExit, AdapterTypeOK
  <2>3. QED BY <1>7, <2>1, <2>2 DEF TurnStarted, AdapterTypeOK, clientVars, codexVars
<1>8. CASE TurnOver(r)
  <2>1. [active EXCEPT !.turn = None] \in [process : Run \cup {None}, client : Run \cup {None},
                                           thread : Run \cup {None}, turn : Run \cup {None}]
    BY <1>2
  <2>2. turnCompleted[r] \in {"none", "completed", "error"}
    BY DEF AdapterTypeOK
  <2>3. QED BY <1>8, <2>1, <2>2, FinishTyped DEF TurnOver
<1>9. CASE Failed(r)
  BY <1>9, <1>2, FinishTyped DEF Failed
<1>10. CASE Arrival(r)
  <2>1. ASSUME NEW end \in {"ok", "failed"}, Settle(r, end)
        PROVE  settled' \in [Run -> {"waiting", "ok", "failed"}]
    BY <2>1 DEF Settle, AdapterTypeOK
  <2>2. CASE ReadAnswer(r)
    <3>1. settled' \in [Run -> {"waiting", "ok", "failed"}]
      BY <2>2, <2>1 DEF ReadAnswer, AdapterTypeOK
    <3>2. pending' \in [Run -> SUBSET Request]
      BY <2>2 DEF ReadAnswer, AdapterTypeOK
    <3>3. QED BY <2>2, <3>1, <3>2 DEF ReadAnswer, AdapterTypeOK
  <2>3. CASE ReadTurnEnd(r)
    <3>1. settled' \in [Run -> {"waiting", "ok", "failed"}]
      BY <2>3, <2>1 DEF ReadTurnEnd, AdapterTypeOK
    <3>2. turnCompleted' \in [Run -> {"none", "completed", "error"}]
      BY <2>3 DEF ReadTurnEnd, AdapterTypeOK
    <3>3. QED BY <2>3, <3>1, <3>2 DEF ReadTurnEnd, AdapterTypeOK, clientVars
  <2>4. CASE SeeExit(r)
    <3>1. settled' \in [Run -> {"waiting", "ok", "failed"}]
      BY <2>4, <2>1 DEF SeeExit, FailAwait
    <3>2. pending' \in [Run -> SUBSET Request] /\ closed' \in [Run -> BOOLEAN]
      BY <2>4 DEF SeeExit, AdapterTypeOK
    <3>3. QED BY <2>4, <3>1, <3>2 DEF SeeExit, AdapterTypeOK, codexVars
  <2>5. CASE SeeSpawnError(r)
    <3>1. settled' \in [Run -> {"waiting", "ok", "failed"}]
      BY <2>5, <2>1 DEF SeeSpawnError, FailAwait
    <3>2. pending' \in [Run -> SUBSET Request]
      BY <2>5 DEF SeeSpawnError, AdapterTypeOK
    <3>3. proc' \in [Run -> {"none", "unborn", "alive", "terminating", "killed", "dead"}]
      BY <2>5 DEF SeeSpawnError, AdapterTypeOK
    <3>4. QED BY <2>5, <3>1, <3>2, <3>3 DEF SeeSpawnError, AdapterTypeOK, codexVars
  <2>6. CASE KillTimer(r)
    BY <2>6 DEF KillTimer, AdapterTypeOK, runSideVars, clientVars, codexVars
  <2>7. QED BY <1>10, <2>2, <2>3, <2>4, <2>5, <2>6 DEF Arrival
<1>11. CASE ReadDelta(r)
  BY <1>11 DEF ReadDelta, AdapterTypeOK, runSideVars, clientVars
<1>12. CASE Codex(r)
  <2>1. CASE CodexAnswers(r)
    <3>1. asked' \in [Run -> SUBSET Request]
      BY <2>1 DEF CodexAnswers, AdapterTypeOK
    <3>2. turn' \in [Run -> {"none", "running", "completed", "failed"}]
      BY <2>1 DEF CodexAnswers, AdapterTypeOK
    <3>3. QED BY <2>1, <3>1, <3>2 DEF CodexAnswers, AdapterTypeOK, runSideVars, clientVars
  <2>2. CASE CodexStreams(r)
    <3>1. streamed' \in [Run -> 0..MaxDeltas]
      BY <2>2, AdapterAssumption DEF CodexStreams, AdapterTypeOK, AdapterAssumption
    <3>2. QED BY <2>2, <3>1 DEF CodexStreams, AdapterTypeOK, runSideVars, clientVars
  <2>3. CASE CodexEndsTurn(r)
    <3>1. turn' \in [Run -> {"none", "running", "completed", "failed"}]
      BY <2>3 DEF CodexEndsTurn, AdapterTypeOK
    <3>2. QED BY <2>3, <3>1 DEF CodexEndsTurn, AdapterTypeOK, runSideVars, clientVars
  <2>4. CASE CodexExits(r)
    BY <2>4 DEF CodexExits, AdapterTypeOK, runSideVars, clientVars, codexVars
  <2>5. QED BY <1>12, <2>1, <2>2, <2>3, <2>4 DEF Codex
<1>13. QED
  BY <1>1, <1>3, <1>4, <1>5, <1>6, <1>7, <1>8, <1>9, <1>10, <1>11, <1>12
  DEF Start, Continue

\* The types, whatever the processes do and however many runs there are.
THEOREM AdapterTypeCorrect == AdapterSpec => []AdapterTypeOK
<1>1. AdapterInit => AdapterTypeOK
  BY AdapterAssumption DEF AdapterInit, AdapterTypeOK, Inactive, AdapterAssumption
<1>2. AdapterTypeOK /\ [AdapterNext]_adapterVars => AdapterTypeOK'
  <2>1. CASE AdapterNext
    BY <2>1, StepTyped
  <2>2. CASE UNCHANGED adapterVars
    BY <2>2 DEF adapterVars, runSideVars, clientVars, codexVars, AdapterTypeOK
  <2>3. QED BY <2>1, <2>2
<1>3. QED BY <1>1, <1>2, PTL DEF AdapterSpec

-----------------------------------------------------------------------------

\* NothingMissed for one run.
Attentive(r) ==
    Underway(r) /\ settled[r] = "waiting" =>
        /\ ~closed[r]
        /\ IF at[r] = "turn" THEN turnCompleted[r] = "none" ELSE at[r] \in pending[r]

\* A step that leaves the awaits of a run alone, and withdraws none of its requests.
LEMMA AttentiveKept ==
    ASSUME NEW q \in Run, Attentive(q),
           at'[q] = at[q], settled'[q] = settled[q], closed'[q] = closed[q],
           turnCompleted'[q] = turnCompleted[q], pending[q] \subseteq pending'[q]
    PROVE  Attentive(q)'
BY DEF Attentive, Underway

\* dispose() withdraws no request of any run.
LEMMA DisposeWithdrawsNothing ==
    ASSUME AdapterTypeOK, NEW now, NEW q \in Run, Dispose(now)
    PROVE  pending[q] \subseteq pending'[q]
BY DEF Dispose, Ask, AdapterTypeOK

\* The run whose dispose() it is has returned; the others notice nothing.
LEMMA FinishAttentive ==
    ASSUME AdapterTypeOK, NEW r \in Run, NEW now, NEW status, Finish(r, status, now),
           NEW q \in Run, Attentive(q)
    PROVE  Attentive(q)'
<1>1. CASE q = r
  BY <1>1 DEF Finish, Attentive, Underway, AdapterTypeOK
<1>2. CASE q # r
  <2>1. pending[q] \subseteq pending'[q]
    BY DisposeWithdrawsNothing DEF Finish
  <2>2. at'[q] = at[q]
    BY <1>2 DEF Finish, AdapterTypeOK
  <2>3. QED BY <2>1, <2>2, AttentiveKept DEF Finish
<1>3. QED BY <1>1, <1>2

\* A request is either refused, and the await fails at once, or it is pending.
LEMMA AwaitAttentive ==
    ASSUME AdapterTypeOK, NEW r \in Run, NEW m \in Request, AwaitAnswer(r, m),
           closed' = closed, turnCompleted' = turnCompleted,
           NEW q \in Run, Attentive(q)
    PROVE  Attentive(q)'
<1>1. CASE q = r
  <2>1. at'[r] = m /\ m # "turn"
    BY DEF AwaitAnswer, AdapterTypeOK, Request
  <2>2. CASE closed[r]
    <3>1. settled'[r] = "failed"
      BY <2>2 DEF AwaitAnswer, AdapterTypeOK
    <3>2. QED BY <1>1, <3>1 DEF Attentive
  <2>3. CASE ~closed[r]
    <3>1. m \in pending'[r]
      BY <2>3 DEF AwaitAnswer, Ask, AdapterTypeOK
    <3>2. QED BY <1>1, <2>1, <2>3, <3>1 DEF Attentive
  <2>4. QED BY <2>2, <2>3
<1>2. CASE q # r
  <2>1. at'[q] = at[q] /\ settled'[q] = settled[q]
    BY <1>2 DEF AwaitAnswer, AdapterTypeOK
  <2>2. pending[q] \subseteq pending'[q]
    BY DEF AwaitAnswer, Ask, AdapterTypeOK
  <2>3. QED BY <2>1, <2>2, AttentiveKept
<1>3. QED BY <1>1, <1>2

\* What is settled waits no more.
LEMMA SettleEnds ==
    ASSUME AdapterTypeOK, NEW r \in Run, NEW end \in {"ok", "failed"}, Settle(r, end)
    PROVE  /\ Underway(r) => settled'[r] # "waiting"
           /\ \A q \in Run \ {r} : settled'[q] = settled[q]
BY DEF Settle, AdapterTypeOK

\* An exit that is noticed ends the await, at whichever request or at none.
LEMMA FailAttentive ==
    ASSUME AdapterTypeOK, NEW r \in Run, FailAwait(r), at' = at,
           turnCompleted' = turnCompleted,
           pending' = [pending EXCEPT ![r] = {}],
           \A p \in Run \ {r} : closed'[p] = closed[p],
           NEW q \in Run, Attentive(q)
    PROVE  Attentive(q)'
<1>1. /\ Underway(r) => settled'[r] # "waiting"
      /\ \A p \in Run \ {r} : settled'[p] = settled[p]
  BY SettleEnds DEF FailAwait
<1>2. CASE q = r
  BY <1>1, <1>2 DEF Attentive, Underway
<1>3. CASE q # r
  <2>1. pending'[q] = pending[q]
    BY <1>3 DEF AdapterTypeOK
  <2>2. QED BY <1>1, <1>3, <2>1, AttentiveKept
<1>4. QED BY <1>2, <1>3

\* Every step keeps every run attentive.
LEMMA StepAttentive ==
    ASSUME AdapterTypeOK, AdapterNext, NEW q \in Run, Attentive(q)
    PROVE  Attentive(q)'
<1>1. PICK r \in Run : Start(r) \/ Continue(r) \/ Arrival(r) \/ ReadDelta(r) \/ Codex(r)
  BY DEF AdapterNext
<1>2. CASE NotFound(r)
  BY <1>2, FinishAttentive DEF NotFound
<1>3. CASE Spawn(r)
  BY <1>3, AwaitAttentive DEF Spawn, Request
<1>4. CASE Initialized(r)
  BY <1>4, AwaitAttentive DEF Initialized, Request
<1>5. CASE ThreadStarted(r)
  BY <1>5, AwaitAttentive DEF ThreadStarted, Request
<1>6. CASE TurnStarted(r)
  <2>1. CASE q = r
    <3>1. at'[r] = "turn" /\ settled'[r] = TurnOrExit(r)
      BY <1>6 DEF TurnStarted, AdapterTypeOK
    <3>2. QED BY <1>6, <2>1, <3>1 DEF TurnStarted, TurnOrExit, Attentive, clientVars
  <2>2. CASE q # r
    <3>1. at'[q] = at[q] /\ settled'[q] = settled[q]
      BY <1>6, <2>2 DEF TurnStarted, AdapterTypeOK
    <3>2. QED BY <1>6, <3>1, AttentiveKept DEF TurnStarted, clientVars
  <2>3. QED BY <2>1, <2>2
<1>7. CASE TurnOver(r)
  BY <1>7, FinishAttentive DEF TurnOver
<1>8. CASE Failed(r)
  BY <1>8, FinishAttentive DEF Failed
<1>9. CASE ReadAnswer(r)
  <2>1. PICK m : /\ pending' = [pending EXCEPT ![r] = @ \ {m}]
                 /\ IF m \in pending[r] /\ at[r] = m
                    THEN \E end \in {"ok", "failed"} : Settle(r, end)
                    ELSE UNCHANGED settled
    BY <1>9 DEF ReadAnswer
  <2>2. UNCHANGED <<at, turnCompleted, closed>>
    BY <1>9 DEF ReadAnswer
  <2>3. CASE q # r
    <3>1. pending'[q] = pending[q]
      BY <2>1, <2>3 DEF AdapterTypeOK
    <3>2. settled'[q] = settled[q]
      BY <2>1, <2>3, SettleEnds
    <3>3. QED BY <2>2, <3>1, <3>2, AttentiveKept
  <2>4. CASE q = r
    <3>1. pending'[r] = pending[r] \ {m}
      BY <2>1 DEF AdapterTypeOK
    <3>2. CASE m \in pending[r] /\ at[r] = m
      <4>1. Underway(r) => settled'[r] # "waiting"
        BY <2>1, <3>2, SettleEnds
      <4>2. QED BY <2>2, <2>4, <4>1 DEF Attentive, Underway
    <3>3. CASE ~(m \in pending[r] /\ at[r] = m)
      BY <2>1, <2>2, <2>4, <3>1, <3>3 DEF Attentive, Underway
    <3>4. QED BY <3>2, <3>3
  <2>5. QED BY <2>3, <2>4
<1>10. CASE ReadTurnEnd(r)
  <2>1. /\ UNCHANGED <<at, closed, pending>>
        /\ \A p \in Run \ {r} : turnCompleted'[p] = turnCompleted[p]
        /\ IF at[r] = "turn" THEN Settle(r, "ok") ELSE UNCHANGED settled
    BY <1>10 DEF ReadTurnEnd, AdapterTypeOK, clientVars
  <2>2. CASE q # r
    <3>1. settled'[q] = settled[q]
      BY <2>1, <2>2, SettleEnds
    <3>2. QED BY <2>1, <2>2, <3>1, AttentiveKept
  <2>3. CASE q = r
    <3>1. CASE at[r] = "turn"
      BY <2>1, <2>3, <3>1, SettleEnds DEF Attentive, Underway
    <3>2. CASE at[r] # "turn"
      BY <2>1, <2>3, <3>2 DEF Attentive, Underway
    <3>3. QED BY <3>1, <3>2
  <2>4. QED BY <2>2, <2>3
<1>11. CASE SeeExit(r)
  <2>1. \A p \in Run \ {r} : closed'[p] = closed[p]
    BY <1>11 DEF SeeExit, AdapterTypeOK
  <2>2. QED BY <1>11, <2>1, FailAttentive DEF SeeExit
<1>12. CASE SeeSpawnError(r)
  BY <1>12, FailAttentive DEF SeeSpawnError
<1>13. CASE KillTimer(r)
  BY <1>13, AttentiveKept DEF KillTimer, runSideVars, clientVars
<1>14. CASE ReadDelta(r)
  BY <1>14, AttentiveKept DEF ReadDelta, runSideVars, clientVars
<1>15. CASE Codex(r)
  <2>1. UNCHANGED <<at, settled, turnCompleted, closed, pending>>
    BY <1>15 DEF Codex, CodexAnswers, CodexStreams, CodexEndsTurn, CodexExits, runSideVars, clientVars
  <2>2. QED BY <2>1, AttentiveKept
<1>16. QED
  BY <1>1, <1>2, <1>3, <1>4, <1>5, <1>6, <1>7, <1>8, <1>9, <1>10, <1>11, <1>12, <1>13,
     <1>14, <1>15 DEF Start, Continue, Arrival

\* No run waits for what has happened, however many runs share the adapter: not
\* for an answer that was read, not for a turn that is over, and not for a
\* process whose exit is known.
THEOREM NothingIsMissed == AdapterSpec => []NothingMissed
<1>1. AdapterInit => NothingMissed
  BY DEF AdapterInit, NothingMissed, Underway
<1>2. AdapterTypeOK /\ NothingMissed /\ [AdapterNext]_adapterVars => NothingMissed'
  <2>1. ASSUME AdapterTypeOK, NothingMissed, AdapterNext
        PROVE  NothingMissed'
    <3>1. \A q \in Run : Attentive(q)
      BY <2>1 DEF NothingMissed, Attentive
    <3>2. \A q \in Run : Attentive(q)'
      BY <2>1, <3>1, StepAttentive
    <3>3. QED BY <3>2 DEF NothingMissed, Attentive
  <2>2. ASSUME NothingMissed, UNCHANGED adapterVars
        PROVE  NothingMissed'
    BY <2>2 DEF adapterVars, runSideVars, clientVars, NothingMissed, Underway
  <2>3. QED BY <2>1, <2>2
<1>3. QED BY <1>1, <1>2, AdapterTypeCorrect, PTL DEF AdapterSpec

-----------------------------------------------------------------------------

\* One run at a time: the process of the run under way is the one in the active
\* field, for as long as it lives.
Solo ==
    /\ \A p, q \in Run : Underway(p) /\ Underway(q) => p = q
    /\ \A r \in Run : at[r] = "idle" => proc[r] = "none"
    /\ \A r \in Run : Underway(r) /\ proc[r] = "alive" => active.process = r
    /\ NoProcessLeft
    /\ RunsAreIndependent

\* A run that goes from await to await, its process and the active field left alone.
LEMMA SoloContinues ==
    ASSUME AdapterTypeOK, Solo, NEW r \in Run, Underway(r),
           NEW pc \in {"thread/start", "turn/start", "turn"},
           at' = [at EXCEPT ![r] = pc], proc' = proc, active'.process = active.process
    PROVE  Solo'
<1>1. \A q \in Run : Underway(q)' <=> Underway(q)
  BY DEF Underway, AdapterTypeOK
<1>2. \A q \in Run : (at'[q] = "idle" <=> at[q] = "idle") /\ (at'[q] = "returned" <=> at[q] = "returned")
  BY DEF Underway, AdapterTypeOK
<1>3. (NoProcessLeft)' /\ (RunsAreIndependent)'
  BY <1>1, <1>2 DEF Solo, NoProcessLeft, RunsAreIndependent
<1>4. QED BY <1>1, <1>2, <1>3 DEF Solo

\* The end of the only run under way, or of one that did not get under way: its
\* process is the one that is terminated.
LEMMA SoloEnds ==
    ASSUME AdapterTypeOK, Solo, NEW r \in Run, NEW now, NEW status,
           Finish(r, status, now), now.process = active.process,
           \A q \in Run \ {r} : ~Underway(q),
           Underway(r) \/ at[r] = "idle"
    PROVE  Solo'
<1>1. at' = [at EXCEPT ![r] = "returned"] /\ proc' = Terminate(now)
  BY DEF Finish, Dispose
<1>2. \A q \in Run : ~Underway(q)'
  BY <1>1 DEF Underway, AdapterTypeOK
<1>3. ASSUME NEW q \in Run, proc'[q] = "alive"
      PROVE  proc[q] = "alive" /\ q # active.process
  <2>1. now.process # q
    BY <1>1, <1>3, AdapterAssumption DEF Terminate, AdapterTypeOK, AdapterAssumption
  <2>2. proc'[q] = proc[q]
    BY <1>1, <2>1 DEF Terminate, AdapterTypeOK
  <2>3. QED BY <1>3, <2>1, <2>2
<1>4. ASSUME NEW q \in Run, proc[q] = "none"
      PROVE  proc'[q] = "none"
  BY <1>1, <1>4 DEF Terminate, AdapterTypeOK
<1>5. ASSUME NEW q \in Run, at'[q] = "returned"
      PROVE  proc'[q] # "alive"
  <2>1. CASE q = r
    BY <1>3, <2>1, AdapterAssumption DEF Solo, AdapterAssumption
  <2>2. CASE q # r
    <3>1. at[q] = "returned"
      BY <1>1, <1>5, <2>2 DEF AdapterTypeOK
    <3>2. QED BY <1>3, <3>1 DEF Solo, NoProcessLeft
  <2>3. QED BY <2>1, <2>2
<1>6. ASSUME NEW q \in Run, at'[q] = "idle"
      PROVE  proc'[q] = "none"
  <2>1. at[q] = "idle"
    BY <1>1, <1>6 DEF AdapterTypeOK
  <2>2. QED BY <1>4, <2>1 DEF Solo
<1>7. QED BY <1>2, <1>5, <1>6 DEF Solo, NoProcessLeft, RunsAreIndependent

\* The fate of a process, whoever brings it about, with the awaits and the active
\* fields left alone.
LEMMA SoloProcess ==
    ASSUME AdapterTypeOK, Solo, NEW r \in Run, NEW fate \in {"none", "killed", "dead"},
           proc[r] # "none", fate = "killed" => proc[r] = "terminating",
           proc' = [proc EXCEPT ![r] = fate], at' = at, active' = active
    PROVE  Solo'
<1>1. \A q \in Run : (Underway(q)' <=> Underway(q)) /\ (q # r => proc'[q] = proc[q])
  BY DEF Underway, AdapterTypeOK
<1>2. proc'[r] = fate
  BY DEF AdapterTypeOK
<1>3. at[r] # "idle" /\ (Underway(r) => fate # "killed")
  BY DEF Solo, RunsAreIndependent
<1>4. (NoProcessLeft)'
  BY <1>1, <1>2 DEF Solo, NoProcessLeft
<1>5. (RunsAreIndependent)'
  BY <1>1, <1>2, <1>3 DEF Solo, RunsAreIndependent
<1>6. QED BY <1>1, <1>2, <1>3, <1>4, <1>5 DEF Solo

\* The start of a process while no run is under way.
LEMMA SoloBegins ==
    ASSUME AdapterTypeOK, Solo, NEW r \in Run, Spawn(r), \A q \in Run : ~Underway(q)
    PROVE  Solo'
<1>1. PICK state \in {"alive", "unborn"} : proc' = [proc EXCEPT ![r] = state]
  BY DEF Spawn
<1>2. at' = [at EXCEPT ![r] = "initialize"] /\ active'.process = r
  BY DEF Spawn, AwaitAnswer, AdapterTypeOK
<1>3. \A q \in Run : Underway(q)' => q = r
  BY <1>2 DEF Underway, AdapterTypeOK
<1>4. at'[r] = "initialize" /\ proc'[r] = state
  BY <1>1, <1>2 DEF AdapterTypeOK
<1>5. \A q \in Run \ {r} : at'[q] = at[q] /\ proc'[q] = proc[q]
  BY <1>1, <1>2 DEF AdapterTypeOK
<1>6. (NoProcessLeft)' /\ (RunsAreIndependent)'
  BY <1>3, <1>4, <1>5 DEF Solo, NoProcessLeft, RunsAreIndependent
<1>7. QED BY <1>2, <1>3, <1>4, <1>5, <1>6 DEF Solo

\* Every step keeps Solo while the callers do not overlap.
LEMMA StepSolo ==
    ASSUME AdapterTypeOK, Solo, ~Concurrent, AdapterNext
    PROVE  Solo'
<1>1. PICK r \in Run : Start(r) \/ Continue(r) \/ Arrival(r) \/ ReadDelta(r) \/ Codex(r)
  BY DEF AdapterNext
<1>2. Underway(r) => \A q \in Run \ {r} : ~Underway(q)
  BY DEF Solo
<1>3. ASSUME UNCHANGED <<at, proc, active>>
      PROVE  Solo'
  BY <1>3 DEF Solo, NoProcessLeft, RunsAreIndependent, Underway
<1>4. CASE Start(r)
  <2>1. \A q \in Run : ~Underway(q)
    BY <1>4 DEF Start
  <2>2. CASE NotFound(r)
    BY <2>1, <2>2, SoloEnds DEF NotFound
  <2>3. CASE Spawn(r)
    BY <2>1, <2>3, SoloBegins
  <2>4. QED BY <1>4, <2>2, <2>3 DEF Start
<1>5. CASE Initialized(r)
  BY <1>5, SoloContinues DEF Initialized, AwaitAnswer, Underway
<1>6. CASE ThreadStarted(r)
  <2>1. active'.process = active.process
    BY <1>6 DEF ThreadStarted, AdapterTypeOK
  <2>2. QED BY <1>6, <2>1, SoloContinues DEF ThreadStarted, AwaitAnswer, Underway
<1>7. CASE TurnStarted(r)
  <2>1. active'.process = active.process
    BY <1>7 DEF TurnStarted, AdapterTypeOK
  <2>2. QED BY <1>7, <2>1, SoloContinues DEF TurnStarted, Underway
<1>8. CASE TurnOver(r)
  <2>1. [active EXCEPT !.turn = None].process = active.process
    BY DEF AdapterTypeOK
  <2>2. Underway(r)
    BY <1>8 DEF TurnOver, Underway
  <2>3. Finish(r, turnCompleted[r], [active EXCEPT !.turn = None])
    BY <1>8 DEF TurnOver
  <2>4. QED BY <1>2, <2>1, <2>2, <2>3, SoloEnds
<1>9. CASE Failed(r)
  BY <1>2, <1>9, SoloEnds DEF Failed
<1>10. CASE SeeSpawnError(r)
  BY <1>10, SoloProcess DEF SeeSpawnError
<1>11. CASE KillTimer(r)
  BY <1>11, SoloProcess DEF KillTimer, runSideVars
<1>12. CASE CodexExits(r)
  BY <1>12, SoloProcess DEF CodexExits, runSideVars
<1>13. CASE ReadAnswer(r) \/ ReadTurnEnd(r) \/ SeeExit(r) \/ ReadDelta(r)
  BY <1>3, <1>13 DEF ReadAnswer, ReadTurnEnd, SeeExit, ReadDelta, runSideVars
<1>14. CASE CodexAnswers(r) \/ CodexStreams(r) \/ CodexEndsTurn(r)
  BY <1>3, <1>14 DEF CodexAnswers, CodexStreams, CodexEndsTurn, runSideVars
<1>15. QED
  BY <1>1, <1>4, <1>5, <1>6, <1>7, <1>8, <1>9, <1>10, <1>11, <1>12, <1>13, <1>14
  DEF Continue, Arrival, Codex

\* With one run at a time the active fields hold the process of that run.
THEOREM SoloHolds == ~Concurrent /\ AdapterSpec => []Solo
<1>1. AdapterInit => Solo
  BY DEF AdapterInit, Solo, NoProcessLeft, RunsAreIndependent, Underway
<1>2. ~Concurrent /\ AdapterTypeOK /\ Solo /\ [AdapterNext]_adapterVars => Solo'
  <2>1. ASSUME UNCHANGED adapterVars, Solo
        PROVE  Solo'
    BY <2>1 DEF adapterVars, runSideVars, Solo, NoProcessLeft, RunsAreIndependent, Underway
  <2>2. QED BY <2>1, StepSolo
<1>3. CASE ~Concurrent
  <2>1. AdapterTypeOK /\ Solo /\ [AdapterNext]_adapterVars => Solo'
    BY <1>2, <1>3
  <2>2. QED BY <1>1, <2>1, AdapterTypeCorrect, PTL DEF AdapterSpec
<1>4. CASE Concurrent
  BY <1>4
<1>5. QED BY <1>3, <1>4

\* A run that has returned leaves no process that was not told to end.
THEOREM NoProcessIsLeft == ~Concurrent /\ AdapterSpec => []NoProcessLeft
<1>1. Solo => NoProcessLeft
  BY DEF Solo
<1>2. QED BY <1>1, SoloHolds, PTL

\* The premise that the run on a shared adapter lacks: while the callers do not
\* overlap, no process is terminated before its run is over.
THEOREM SerialRunsAreIndependent == ~Concurrent /\ AdapterSpec => []RunsAreIndependent
<1>1. Solo => RunsAreIndependent
  BY DEF Solo
<1>2. QED BY <1>1, SoloHolds, PTL


-----------------------------------------------------------------------------
\* The adapter under the chain.

\* What a step of the chain does to the adapter: a step of its own, or the
\* dispose() of the timeout and of the finally block.
AdapterMove == \/ AdapterNext
               \/ Dispose(active) /\ AdapterKept
               \/ UNCHANGED adapterVars

LEMMA ChainMovesAdapter ==
    ASSUME [Next]_vars
    PROVE  AdapterMove
<1>1. Call \in Run
  BY ChainAssumption DEF ChainAssumption
<1>2. CASE BeginRun \/ SaveRunning \/ AssemblePrompt \/ EndRuntime \/ SaveFinal \/ ResolveRun
           \/ SaveSettles \/ AnswerTimeout
  BY <1>2 DEF BeginRun, SaveRunning, AssemblePrompt, EndRuntime, SaveFinal, ResolveRun,
              SaveSettles, AnswerTimeout, AdapterMove
<1>3. CASE RunRuntime
  BY <1>1, <1>3 DEF RunRuntime, AdapterNext, AdapterMove
<1>4. CASE CodexEvent
  BY <1>1, <1>4 DEF CodexEvent, AdapterNext, AdapterMove
<1>5. CASE RecordWins \/ TimeoutFires
  BY <1>5 DEF RecordWins, TimeoutFires, AdapterMove
<1>6. CASE AdapterStep \/ Codex(Call)
  BY <1>1, <1>6 DEF AdapterStep, AdapterNext, AdapterMove
<1>7. CASE UNCHANGED vars
  BY <1>7 DEF vars, AdapterMove
<1>8. QED
  BY <1>2, <1>3, <1>4, <1>5, <1>6, <1>7 DEF Next, RunnerStep, ChainStep

LEMMA MoveTyped ==
    ASSUME AdapterTypeOK, AdapterMove
    PROVE  AdapterTypeOK'
<1>1. CASE AdapterNext
  BY <1>1, StepTyped
<1>2. CASE Dispose(active) /\ AdapterKept
  <2>1. active \in [process : Run \cup {None}, client : Run \cup {None},
                    thread : Run \cup {None}, turn : Run \cup {None}]
    BY DEF AdapterTypeOK
  <2>2. /\ pending' \in [Run -> SUBSET Request]
        /\ asked' \in [Run -> SUBSET Request]
        /\ proc' \in [Run -> {"none", "unborn", "alive", "terminating", "killed", "dead"}]
        /\ active' = Inactive
    BY <1>2, <2>1, DisposeTyped
  <2>3. active' \in [process : Run \cup {None}, client : Run \cup {None},
                     thread : Run \cup {None}, turn : Run \cup {None}]
    BY <2>2 DEF Inactive
  <2>4. QED BY <1>2, <2>2, <2>3 DEF AdapterKept, runSideVars, AdapterTypeOK
<1>3. CASE UNCHANGED adapterVars
  BY <1>3 DEF adapterVars, runSideVars, clientVars, codexVars, AdapterTypeOK
<1>4. QED BY <1>1, <1>2, <1>3 DEF AdapterMove

LEMMA MoveAttentive ==
    ASSUME AdapterTypeOK, AdapterMove, NEW q \in Run, Attentive(q)
    PROVE  Attentive(q)'
<1>1. CASE AdapterNext
  BY <1>1, StepAttentive
<1>2. CASE Dispose(active) /\ AdapterKept
  <2>1. pending[q] \subseteq pending'[q]
    BY <1>2, DisposeWithdrawsNothing
  <2>2. QED BY <1>2, <2>1, AttentiveKept DEF AdapterKept, runSideVars
<1>3. CASE UNCHANGED adapterVars
  BY <1>3, AttentiveKept DEF adapterVars, runSideVars, clientVars
<1>4. QED BY <1>1, <1>2, <1>3 DEF AdapterMove

-----------------------------------------------------------------------------
\* The process.

\* The process of the run is the one in the active field for as long as it is
\* neither signalled nor over, and it is not there before the run.
OwnProcess ==
    /\ Underway(Call) /\ proc[Call] = "alive" => active.process = Call
    /\ at[Call] = "idle" => proc[Call] = "none"
    /\ at[Call] = "returned" => proc[Call] # "alive"

\* Nobody but dispose() and the process itself ends a process.
LEMMA DisposeEnds ==
    ASSUME AdapterTypeOK, NEW now, Dispose(now)
    PROVE  /\ proc'[Call] = "alive" => proc[Call] = "alive" /\ now.process # Call
           /\ proc[Call] = "none" => proc'[Call] = "none"
<1>1. Call \in Run /\ Call # None
  BY ChainAssumption, AdapterAssumption DEF ChainAssumption, AdapterAssumption
<1>2. proc' = Terminate(now)
  BY DEF Dispose
<1>3. proc \in [Run -> {"none", "unborn", "alive", "terminating", "killed", "dead"}]
  BY DEF AdapterTypeOK
<1>4. CASE now.process = Call
  BY <1>1, <1>2, <1>3, <1>4 DEF Terminate
<1>5. CASE now.process # Call
  BY <1>1, <1>2, <1>3, <1>5 DEF Terminate
<1>6. QED BY <1>4, <1>5

LEMMA FinishOwn ==
    ASSUME AdapterTypeOK, OwnProcess, NEW now, NEW status, Finish(Call, status, now),
           now.process = active.process, Underway(Call) \/ at[Call] = "idle"
    PROVE  OwnProcess'
<1>1. Dispose(now) /\ at' = [at EXCEPT ![Call] = "returned"] /\ Call \in Run
  BY ChainAssumption DEF Finish, ChainAssumption
<1>2. at'[Call] = "returned"
  BY <1>1 DEF AdapterTypeOK
<1>3. proc'[Call] = "alive" => proc[Call] = "alive" /\ active.process # Call
  BY <1>1, DisposeEnds
<1>4. QED BY <1>2, <1>3 DEF OwnProcess, Underway

LEMMA MoveOwn ==
    ASSUME AdapterTypeOK, OwnProcess, AdapterMove
    PROVE  OwnProcess'
<1>1. Call \in Run /\ \A r \in Run : r = Call
  BY ChainAssumption DEF ChainAssumption
<1>2. ASSUME UNCHANGED <<at, proc>>, active'.process = active.process
      PROVE  OwnProcess'
  BY <1>2 DEF OwnProcess, Underway
<1>3. CASE Start(Call)
  <2>1. CASE NotFound(Call)
    BY <2>1, FinishOwn DEF NotFound
  <2>2. CASE Spawn(Call)
    <3>1. at' = [at EXCEPT ![Call] = "initialize"] /\ active' = [active EXCEPT !.process = Call, !.client = Call]
      BY <2>2 DEF Spawn, AwaitAnswer
    <3>2. at'[Call] = "initialize" /\ active'.process = Call
      BY <1>1, <3>1 DEF AdapterTypeOK
    <3>3. QED BY <3>2 DEF OwnProcess
  <2>3. QED BY <1>3, <2>1, <2>2 DEF Start
<1>4. CASE Initialized(Call) \/ ThreadStarted(Call) \/ TurnStarted(Call)
  <2>1. proc' = proc /\ active'.process = active.process
    BY <1>4 DEF Initialized, ThreadStarted, TurnStarted, AdapterTypeOK
  <2>2. \E pc \in {"thread/start", "turn/start", "turn"} : at' = [at EXCEPT ![Call] = pc]
    BY <1>4 DEF Initialized, ThreadStarted, TurnStarted, AwaitAnswer
  <2>3. at'[Call] \in {"thread/start", "turn/start", "turn"}
    BY <1>1, <2>2 DEF AdapterTypeOK
  <2>4. Underway(Call)
    BY <1>4 DEF Initialized, ThreadStarted, TurnStarted, Underway
  <2>5. QED BY <2>1, <2>3, <2>4 DEF OwnProcess
<1>5. CASE TurnOver(Call)
  <2>1. [active EXCEPT !.turn = None].process = active.process
    BY DEF AdapterTypeOK
  <2>2. Underway(Call)
    BY <1>5 DEF TurnOver, Underway
  <2>3. Finish(Call, turnCompleted[Call], [active EXCEPT !.turn = None])
    BY <1>5 DEF TurnOver
  <2>4. QED BY <2>1, <2>2, <2>3, FinishOwn
<1>6. CASE Failed(Call)
  BY <1>6, FinishOwn DEF Failed
<1>7. CASE SeeSpawnError(Call) \/ KillTimer(Call) \/ CodexExits(Call)
  <2>1. proc[Call] # "none" /\ \E fate \in {"none", "killed", "dead"} : proc' = [proc EXCEPT ![Call] = fate]
    BY <1>7 DEF SeeSpawnError, KillTimer, CodexExits
  <2>2. proc'[Call] # "alive"
    BY <1>1, <2>1 DEF AdapterTypeOK
  <2>3. at' = at
    BY <1>7 DEF SeeSpawnError, KillTimer, CodexExits, runSideVars
  <2>4. QED BY <2>1, <2>2, <2>3 DEF OwnProcess
<1>8. CASE ReadAnswer(Call) \/ ReadTurnEnd(Call) \/ SeeExit(Call) \/ ReadDelta(Call)
  BY <1>2, <1>8 DEF ReadAnswer, ReadTurnEnd, SeeExit, ReadDelta, runSideVars
<1>9. CASE CodexAnswers(Call) \/ CodexStreams(Call) \/ CodexEndsTurn(Call)
  BY <1>2, <1>9 DEF CodexAnswers, CodexStreams, CodexEndsTurn, runSideVars
<1>10. CASE Dispose(active) /\ AdapterKept
  <2>1. at' = at
    BY <1>10 DEF AdapterKept, runSideVars
  <2>2. /\ proc'[Call] = "alive" => proc[Call] = "alive" /\ active.process # Call
        /\ proc[Call] = "none" => proc'[Call] = "none"
    BY <1>10, DisposeEnds
  <2>3. QED BY <2>1, <2>2 DEF OwnProcess, Underway
<1>11. CASE UNCHANGED adapterVars
  BY <1>2, <1>11 DEF adapterVars, runSideVars
<1>12. CASE AdapterNext
  BY <1>1, <1>3, <1>4, <1>5, <1>6, <1>7, <1>8, <1>9, <1>12
  DEF AdapterNext, Continue, Arrival, Codex
<1>13. QED BY <1>10, <1>11, <1>12 DEF AdapterMove

-----------------------------------------------------------------------------
\* The turn.

Lines == [kind : {"answer", "delta", "turn"}, method : Request \cup {"none"}, ok : BOOLEAN]

\* The turn is started once, and whatever tells of its success, in stdout, in the
\* promise or in the result, tells the truth.
Truthful ==
    /\ stdout[Call] \in Seq(Lines)
    /\ at[Call] \in {"idle", "initialize", "thread/start"} =>
          "turn/start" \notin asked[Call] /\ turn[Call] = "none"
    /\ "turn/start" \in asked[Call] => turn[Call] = "none"
    /\ \A i \in DOMAIN stdout[Call] :
          stdout[Call][i].kind = "turn" /\ stdout[Call][i].ok => turn[Call] = "completed"
    /\ turnCompleted[Call] = "completed" => turn[Call] = "completed"
    /\ result[Call] = "completed" => turn[Call] = "completed"

\* A step that neither writes nor asks for a turn; what it makes the result may
\* come from the promise.
LEMMA TruthfulKept ==
    ASSUME Truthful,
           at'[Call] \in {"idle", "initialize", "thread/start"} =>
               at[Call] \in {"idle", "initialize", "thread/start"},
           "turn/start" \in asked'[Call] => "turn/start" \in asked[Call],
           turn'[Call] = turn[Call], stdout'[Call] = stdout[Call],
           turnCompleted'[Call] = turnCompleted[Call],
           result'[Call] \in {result[Call], turnCompleted[Call], "error"}
    PROVE  Truthful'
BY DEF Truthful

\* dispose() asks for the end of a turn at most.
LEMMA DisposeAsks ==
    ASSUME AdapterTypeOK, NEW now, Dispose(now)
    PROVE  "turn/start" \in asked'[Call] => "turn/start" \in asked[Call]
<1>1. Call \in Run
  BY ChainAssumption DEF ChainAssumption
<1>2. CASE UNCHANGED asked
  BY <1>2
<1>3. CASE asked' = [asked EXCEPT ![now.client] = @ \cup {"turn/interrupt"}]
  BY <1>1, <1>3 DEF AdapterTypeOK
<1>4. QED BY <1>2, <1>3 DEF Dispose, Ask

LEMMA FinishTruthful ==
    ASSUME AdapterTypeOK, Truthful, NEW now, NEW status \in {turnCompleted[Call], "error"},
           Finish(Call, status, now)
    PROVE  Truthful'
<1>1. Call \in Run
  BY ChainAssumption DEF ChainAssumption
<1>2. "turn/start" \in asked'[Call] => "turn/start" \in asked[Call]
  BY DisposeAsks DEF Finish
<1>3. at'[Call] = "returned" /\ result'[Call] = status
  BY <1>1 DEF Finish, AdapterTypeOK
<1>4. UNCHANGED <<turn, stdout, turnCompleted>>
  BY DEF Finish
<1>5. QED BY <1>2, <1>3, <1>4, TruthfulKept

\* A request that does not start the turn.
LEMMA AwaitTruthful ==
    ASSUME AdapterTypeOK, Truthful, NEW m \in {"initialize", "thread/start"}, AwaitAnswer(Call, m),
           at[Call] \in {"idle", "initialize"},
           UNCHANGED <<turn, stdout, turnCompleted, result>>
    PROVE  Truthful'
<1>1. Call \in Run
  BY ChainAssumption DEF ChainAssumption
<1>2. "turn/start" \in asked'[Call] => "turn/start" \in asked[Call]
  BY <1>1 DEF AwaitAnswer, Ask, AdapterTypeOK
<1>3. QED BY <1>2, TruthfulKept

\* The head of stdout is taken: what is left was there before.
LEMMA TailTruthful ==
    ASSUME NEW s \in Seq(Lines), s # <<>>
    PROVE  /\ Tail(s) \in Seq(Lines)
           /\ \A i \in DOMAIN Tail(s) : \E j \in DOMAIN s : Tail(s)[i] = s[j]
           /\ 1 \in DOMAIN s /\ Head(s) = s[1]
<1>1. Tail(s) \in Seq(Lines) /\ Len(Tail(s)) = Len(s) - 1 /\ Len(s) \in Nat \ {0}
      /\ \A i \in 1..Len(Tail(s)) : Tail(s)[i] = s[i + 1]
  BY HeadTailProperties, EmptySeq
<1>2. DOMAIN s = 1..Len(s) /\ DOMAIN Tail(s) = 1..Len(Tail(s))
  BY <1>1
<1>3. ASSUME NEW i \in DOMAIN Tail(s)
      PROVE  \E j \in DOMAIN s : Tail(s)[i] = s[j]
  <2>1. i + 1 \in DOMAIN s /\ Tail(s)[i] = s[i + 1]
    BY <1>1, <1>2, <1>3
  <2>2. QED BY <2>1
<1>4. QED BY <1>1, <1>2, <1>3

LEMMA LineTruthful ==
    ASSUME AdapterTypeOK, Truthful, NEW kind, Line(Call, kind)
    PROVE  /\ stdout'[Call] \in Seq(Lines)
           /\ \A i \in DOMAIN stdout'[Call] :
                stdout'[Call][i].kind = "turn" /\ stdout'[Call][i].ok => turn[Call] = "completed"
           /\ kind = "turn" /\ Head(stdout[Call]).ok => turn[Call] = "completed"
<1>1. stdout[Call] \in Seq(Lines) /\ stdout[Call] # <<>>
  BY DEF Truthful, Line
<1>2. stdout'[Call] = Tail(stdout[Call]) \/ stdout'[Call] = stdout[Call]
  BY DEF Line
<1>3. QED BY <1>1, <1>2, TailTruthful DEF Truthful, Line

LEMMA WriteTruthful ==
    ASSUME Truthful, NEW line \in Lines, Write(Call, line),
           line.kind = "turn" /\ line.ok => turn'[Call] = "completed",
           turn[Call] = "completed" => turn'[Call] = "completed",
           Call \in DOMAIN stdout
    PROVE  /\ stdout'[Call] \in Seq(Lines)
           /\ \A i \in DOMAIN stdout'[Call] :
                stdout'[Call][i].kind = "turn" /\ stdout'[Call][i].ok => turn'[Call] = "completed"
<1>1. stdout[Call] \in Seq(Lines)
  BY DEF Truthful
<1>2. stdout'[Call] = Append(stdout[Call], line)
  BY DEF Write
<1>3. /\ Append(stdout[Call], line) \in Seq(Lines)
      /\ Len(Append(stdout[Call], line)) = Len(stdout[Call]) + 1
      /\ Append(stdout[Call], line)[Len(stdout[Call]) + 1] = line
      /\ \A i \in 1..Len(stdout[Call]) : Append(stdout[Call], line)[i] = stdout[Call][i]
      /\ Len(stdout[Call]) \in Nat
  BY <1>1, AppendProperties
<1>4. ASSUME NEW i \in DOMAIN stdout'[Call],
             stdout'[Call][i].kind = "turn", stdout'[Call][i].ok
      PROVE  turn'[Call] = "completed"
  <2>1. i \in 1..Len(stdout[Call]) \/ i = Len(stdout[Call]) + 1
    BY <1>2, <1>3
  <2>2. CASE i \in 1..Len(stdout[Call])
    <3>1. i \in DOMAIN stdout[Call] /\ stdout'[Call][i] = stdout[Call][i]
      BY <1>1, <1>2, <1>3, <2>2
    <3>2. QED BY <1>4, <3>1 DEF Truthful
  <2>3. CASE i = Len(stdout[Call]) + 1
    BY <1>2, <1>3, <1>4, <2>3
  <2>4. QED BY <2>1, <2>2, <2>3
<1>5. QED BY <1>2, <1>3, <1>4

LEMMA MoveTruthful ==
    ASSUME AdapterTypeOK, Truthful, stdout \in [Run -> Seq(Lines)], AdapterMove
    PROVE  Truthful' /\ stdout' \in [Run -> Seq(Lines)]
<1>1. Call \in Run /\ Run = {Call}
  BY ChainAssumption DEF ChainAssumption
<1>2. CASE NotFound(Call) \/ Failed(Call)
  <2>1. \E now : Finish(Call, "error", now)
    BY <1>2 DEF NotFound, Failed
  <2>2. QED BY <2>1, FinishTruthful DEF Finish
<1>3. CASE TurnOver(Call)
  BY <1>3, FinishTruthful DEF TurnOver, Finish
<1>4. CASE Spawn(Call)
  BY <1>4, AwaitTruthful DEF Spawn
<1>5. CASE Initialized(Call)
  BY <1>5, AwaitTruthful DEF Initialized
<1>6. CASE ThreadStarted(Call)
  <2>1. turn[Call] = "none"
    BY <1>6 DEF ThreadStarted, Truthful
  <2>2. at'[Call] = "turn/start"
    BY <1>1, <1>6 DEF ThreadStarted, AwaitAnswer, AdapterTypeOK
  <2>3. UNCHANGED <<turn, stdout, turnCompleted, result>>
    BY <1>6 DEF ThreadStarted
  <2>4. QED BY <2>1, <2>2, <2>3 DEF Truthful
<1>7. CASE TurnStarted(Call)
  <2>1. at'[Call] = "turn"
    BY <1>1, <1>7 DEF TurnStarted, AdapterTypeOK
  <2>2. QED BY <1>7, <2>1, TruthfulKept DEF TurnStarted, codexVars
<1>8. CASE ReadAnswer(Call) \/ ReadDelta(Call)
  <2>1. \E kind : Line(Call, kind)
    BY <1>8 DEF ReadAnswer, ReadDelta
  <2>2. UNCHANGED <<at, asked, turn, turnCompleted, result>>
    BY <1>8 DEF ReadAnswer, ReadDelta, runSideVars
  <2>3. stdout' = [stdout EXCEPT ![Call] = Tail(@)]
    BY <2>1 DEF Line
  <2>4. stdout' \in [Run -> Seq(Lines)]
    BY <1>1, <2>1, <2>3, LineTruthful
  <2>5. QED BY <2>1, <2>2, <2>4, LineTruthful DEF Truthful
<1>9. CASE ReadTurnEnd(Call)
  <2>1. Line(Call, "turn")
    BY <1>9 DEF ReadTurnEnd
  <2>2. UNCHANGED <<at, asked, turn, result>>
    BY <1>9 DEF ReadTurnEnd
  <2>3. turnCompleted'[Call] = "completed" => Head(stdout[Call]).ok
    BY <1>1, <1>9 DEF ReadTurnEnd, AdapterTypeOK
  <2>4. stdout' = [stdout EXCEPT ![Call] = Tail(@)]
    BY <2>1 DEF Line
  <2>5. stdout' \in [Run -> Seq(Lines)]
    BY <1>1, <2>1, <2>4, LineTruthful
  <2>6. QED BY <2>1, <2>2, <2>3, <2>5, LineTruthful DEF Truthful
<1>10. CASE SeeExit(Call) \/ SeeSpawnError(Call) \/ KillTimer(Call) \/ CodexExits(Call)
  <2>1. UNCHANGED <<at, asked, turn, stdout, turnCompleted, result>>
    BY <1>10 DEF SeeExit, SeeSpawnError, KillTimer, CodexExits, runSideVars, codexVars
  <2>2. QED BY <2>1, TruthfulKept
<1>11. CASE CodexAnswers(Call)
  <2>1. PICK m \in asked[Call], ok \in BOOLEAN :
            /\ asked' = [asked EXCEPT ![Call] = @ \ {m}]
            /\ Write(Call, Answer(m, ok))
            /\ turn' = IF m = "turn/start" /\ ok THEN [turn EXCEPT ![Call] = "running"] ELSE turn
    BY <1>11 DEF CodexAnswers
  <2>2. Answer(m, ok) \in Lines /\ Answer(m, ok).kind = "answer"
    BY <1>1, <2>1 DEF Answer, Lines, AdapterTypeOK
  <2>3. UNCHANGED <<at, turnCompleted, result>>
    BY <1>11 DEF CodexAnswers, runSideVars
  <2>4. asked'[Call] = asked[Call] \ {m}
    BY <1>1, <2>1 DEF AdapterTypeOK
  <2>5. CASE m = "turn/start" /\ ok
    <3>1. turn[Call] = "none" /\ turn'[Call] = "running"
      BY <1>1, <2>1, <2>5 DEF Truthful, AdapterTypeOK
    <3>2. at[Call] \notin {"idle", "initialize", "thread/start"}
      BY <2>1, <2>5 DEF Truthful
    <3>3. /\ stdout'[Call] \in Seq(Lines)
          /\ \A i \in DOMAIN stdout'[Call] :
               stdout'[Call][i].kind = "turn" /\ stdout'[Call][i].ok => turn'[Call] = "completed"
      BY <1>1, <2>1, <2>2, <3>1, WriteTruthful
    <3>4. "turn/start" \notin asked'[Call]
      BY <2>4, <2>5
    <3>5. Truthful'
      BY <2>3, <3>1, <3>2, <3>3, <3>4 DEF Truthful
    <3>6. QED BY <1>1, <2>1, <3>3, <3>5 DEF Write
  <2>6. CASE ~(m = "turn/start" /\ ok)
    <3>1. turn' = turn
      BY <2>1, <2>6
    <3>2. /\ stdout'[Call] \in Seq(Lines)
          /\ \A i \in DOMAIN stdout'[Call] :
               stdout'[Call][i].kind = "turn" /\ stdout'[Call][i].ok => turn'[Call] = "completed"
      BY <1>1, <2>1, <2>2, <3>1, WriteTruthful
    <3>3. Truthful'
      BY <2>3, <2>4, <3>1, <3>2 DEF Truthful
    <3>4. QED BY <1>1, <2>1, <3>2, <3>3 DEF Write
  <2>7. QED BY <2>5, <2>6
<1>12. CASE CodexStreams(Call)
  <2>1. Write(Call, Delta) /\ UNCHANGED <<at, asked, turn, turnCompleted, result>>
    BY <1>12 DEF CodexStreams, runSideVars
  <2>2. Delta \in Lines /\ Delta.kind = "delta"
    BY DEF Delta, Lines
  <2>3. /\ stdout'[Call] \in Seq(Lines)
        /\ \A i \in DOMAIN stdout'[Call] :
             stdout'[Call][i].kind = "turn" /\ stdout'[Call][i].ok => turn'[Call] = "completed"
    BY <1>1, <2>1, <2>2, WriteTruthful
  <2>4. Truthful'
    BY <2>1, <2>3 DEF Truthful
  <2>5. QED BY <1>1, <2>1, <2>3, <2>4 DEF Write
<1>13. CASE CodexEndsTurn(Call)
  <2>1. PICK ok \in BOOLEAN : /\ turn' = [turn EXCEPT ![Call] = IF ok THEN "completed" ELSE "failed"]
                              /\ Write(Call, TurnEnd(ok))
    BY <1>13 DEF CodexEndsTurn
  <2>2. turn[Call] = "running" /\ UNCHANGED <<at, asked, turnCompleted, result>>
    BY <1>13 DEF CodexEndsTurn, runSideVars
  <2>3. TurnEnd(ok) \in Lines /\ TurnEnd(ok).ok = ok
    BY DEF TurnEnd, Lines
  <2>4. turn'[Call] = IF ok THEN "completed" ELSE "failed"
    BY <1>1, <2>1 DEF AdapterTypeOK
  <2>5. /\ stdout'[Call] \in Seq(Lines)
        /\ \A i \in DOMAIN stdout'[Call] :
             stdout'[Call][i].kind = "turn" /\ stdout'[Call][i].ok => turn'[Call] = "completed"
    BY <1>1, <2>1, <2>2, <2>3, <2>4, WriteTruthful
  <2>6. Truthful'
    BY <2>2, <2>5 DEF Truthful
  <2>7. QED BY <1>1, <2>1, <2>5, <2>6 DEF Write
<1>14. CASE Dispose(active) /\ AdapterKept
  <2>1. UNCHANGED <<at, turn, stdout, turnCompleted, result>>
    BY <1>14 DEF AdapterKept, runSideVars
  <2>2. QED BY <1>14, <2>1, DisposeAsks, TruthfulKept
<1>15. CASE UNCHANGED adapterVars
  BY <1>15, TruthfulKept DEF adapterVars, runSideVars, codexVars
<1>16. CASE AdapterNext
  <2>1. stdout' = stdout => stdout' \in [Run -> Seq(Lines)]
    OBVIOUS
  <2>2. CASE Start(Call) \/ Continue(Call)
    <3>1. stdout' = stdout
      BY <2>2 DEF Start, Continue, NotFound, Spawn, Initialized, ThreadStarted, TurnStarted,
                  TurnOver, Failed, Finish, codexVars
    <3>2. Truthful'
      BY <1>2, <1>3, <1>4, <1>5, <1>6, <1>7, <2>2 DEF Start, Continue
    <3>3. QED BY <2>1, <3>1, <3>2
  <2>3. CASE Arrival(Call) \/ ReadDelta(Call) \/ Codex(Call)
    BY <1>8, <1>9, <1>10, <1>11, <1>12, <1>13, <2>1, <2>3
    DEF Arrival, Codex, SeeExit, SeeSpawnError, KillTimer, CodexExits, codexVars
  <2>4. QED BY <1>1, <1>16, <2>2, <2>3 DEF AdapterNext
<1>17. QED
  <2>1. CASE UNCHANGED stdout
    BY <1>14, <1>15, <1>16, <2>1 DEF AdapterMove
  <2>2. CASE AdapterNext
    BY <1>16, <2>2
  <2>3. QED
    BY <2>1, <2>2 DEF AdapterMove, AdapterKept, adapterVars, codexVars

-----------------------------------------------------------------------------
\* What the caller is shown.

Events == {"task_init", "start", "prompt_sent", "delta", "end"}

\* The events that passed the gate are the first of the broadcast, all of them
\* while the gate is open; it is open exactly while the chain races.
Shown ==
    /\ broadcast \in Seq(Events) /\ seen \in Seq(Events)
    /\ Len(seen) <= Len(broadcast)
    /\ \A i \in 1..Len(seen) : seen[i] = broadcast[i]
    /\ accepting => seen = broadcast
    /\ accepting <=> chain = "racing"
    /\ SnapshotIsFinal

\* The last events of an abandoned run go by a closed gate.
LEMMA EmitShown ==
    ASSUME Shown, NEW events \in Seq(Events), Emit(events), UNCHANGED chainVars
    PROVE  /\ Shown'
           /\ \A i \in DOMAIN broadcast : i \in DOMAIN broadcast' /\ broadcast'[i] = broadcast[i]
           /\ \A i \in DOMAIN events : \E j \in DOMAIN broadcast' : broadcast'[j] = events[i]
<1>1. broadcast' = broadcast \o events /\ broadcast \in Seq(Events)
  BY DEF Emit, Shown
<1>2. /\ broadcast' \in Seq(Events)
      /\ Len(broadcast') = Len(broadcast) + Len(events)
      /\ \A i \in 1..Len(broadcast) : broadcast'[i] = broadcast[i]
      /\ \A i \in 1..Len(events) : broadcast'[Len(broadcast) + i] = events[i]
      /\ Len(broadcast) \in Nat /\ Len(events) \in Nat
  BY <1>1, ConcatProperties
<1>3. ASSUME accepting
      PROVE  Shown'
  <2>1. seen' = broadcast' /\ seen = broadcast
    BY <1>1, <1>3 DEF Shown, Emit, Show
  <2>2. chain = "racing" /\ chain' = "racing" /\ accepting'
    BY <1>3 DEF Shown, chainVars
  <2>3. Len(seen') <= Len(broadcast')
    BY <1>2, <2>1
  <2>4. seen' \in Seq(Events) /\ \A i \in 1..Len(seen') : seen'[i] = broadcast'[i]
    BY <1>2, <2>1
  <2>5. (SnapshotIsFinal)'
    BY <2>2 DEF SnapshotIsFinal
  <2>6. broadcast' \in Seq(Events)
    BY <1>2
  <2>7. QED BY <2>1, <2>2, <2>3, <2>4, <2>5, <2>6 DEF Shown
<1>4. ASSUME ~accepting
      PROVE  Shown'
  <2>1. seen' = seen
    BY <1>4 DEF Emit, Show
  <2>2. \A i \in 1..Len(seen) : i \in 1..Len(broadcast)
    BY <1>2 DEF Shown
  <2>3. Len(seen) <= Len(broadcast')
    BY <1>2, <2>1 DEF Shown
  <2>4. \A i \in 1..Len(seen') : seen'[i] = broadcast'[i]
    BY <1>2, <2>1, <2>2 DEF Shown
  <2>5. ~accepting' /\ chain' = chain /\ snapshot' = snapshot
    BY <1>4 DEF chainVars
  <2>6. (SnapshotIsFinal)' /\ chain # "racing" /\ seen' \in Seq(Events)
    BY <1>4, <2>1, <2>5 DEF Shown, SnapshotIsFinal
  <2>7. broadcast' \in Seq(Events)
    BY <1>2
  <2>8. QED BY <2>1, <2>3, <2>4, <2>5, <2>6, <2>7 DEF Shown
<1>5. Shown'
  BY <1>3, <1>4
<1>6. \A i \in DOMAIN broadcast : i \in DOMAIN broadcast' /\ broadcast'[i] = broadcast[i]
  <2>1. DOMAIN broadcast = 1..Len(broadcast) /\ DOMAIN broadcast' = 1..Len(broadcast')
    BY <1>1, <1>2
  <2>2. QED BY <1>2, <2>1
<1>7. ASSUME NEW i \in DOMAIN events
      PROVE  \E j \in DOMAIN broadcast' : broadcast'[j] = events[i]
  <2>1. i \in 1..Len(events) /\ DOMAIN broadcast' = 1..Len(broadcast')
    BY <1>2
  <2>2. Len(broadcast) + i \in DOMAIN broadcast' /\ broadcast'[Len(broadcast) + i] = events[i]
    BY <1>2, <2>1
  <2>3. QED BY <2>2
<1>8. QED BY <1>5, <1>6, <1>7

LEMMA StepShown ==
    ASSUME Shown, [Next]_vars
    PROVE  Shown'
<1>1. /\ <<"task_init">> \in Seq(Events) /\ <<"start", "prompt_sent">> \in Seq(Events)
      /\ <<"delta">> \in Seq(Events) /\ <<"end">> \in Seq(Events)
  BY DEF Events
<1>2. ASSUME UNCHANGED <<broadcast, seen, chainVars>>
      PROVE  Shown'
  BY <1>2 DEF Shown, SnapshotIsFinal, chainVars
<1>3. CASE BeginRun \/ RunRuntime \/ CodexEvent \/ EndRuntime
  BY <1>1, <1>3, EmitShown DEF BeginRun, RunRuntime, CodexEvent, EndRuntime
<1>4. CASE SaveRunning \/ AssemblePrompt \/ SaveFinal \/ ResolveRun \/ SaveSettles
  BY <1>2, <1>4 DEF SaveRunning, AssemblePrompt, SaveFinal, ResolveRun, SaveSettles, runnerVars
<1>5. CASE RecordWins \/ TimeoutFires \/ AnswerTimeout
  BY <1>5 DEF RecordWins, TimeoutFires, AnswerTimeout, runnerVars, Shown, SnapshotIsFinal
<1>6. CASE ChainIdle
  BY <1>2, <1>6 DEF ChainIdle, runnerVars
<1>7. CASE UNCHANGED vars
  BY <1>2, <1>7 DEF vars, runnerVars
<1>8. QED
  BY <1>3, <1>4, <1>5, <1>6, <1>7 DEF Next, RunnerStep, ChainStep

-----------------------------------------------------------------------------
\* What the history says.

Statuses == {"running", "none", "completed", "error"}

\* A runner save is under way only where run() awaits it, and the last one says
\* what the result says; the chain saves nothing before it has lost the race.
Recorded ==
    /\ saves \subseteq [by : {"runner", "chain"}, status : Statuses]
    /\ \A s \in saves :
          /\ s.by = "chain" => chain # "racing"
          /\ s.by = "runner" => /\ phase \in {"savingRunning", "savingFinal"}
                                /\ phase = "savingFinal" => s.status = result[Call]
    /\ phase \in {"flush", "savingFinal", "resolved"} =>
          at[Call] = "returned" /\ \E i \in DOMAIN broadcast : broadcast[i] = "end"
    /\ phase \in {"savingFinal", "resolved"} /\ chain = "racing" =>
          saves # {} \/ meta = result[Call] \/ unsaved

\* What the result of a run that has won the race rests on.
Won ==
    outcome \in {"completed", "error"} =>
        /\ chain = "returned" /\ phase = "resolved" /\ saves = {}
        /\ outcome = result[Call]
        /\ meta = outcome \/ unsaved
        /\ \E i \in DOMAIN snapshot : snapshot[i] = "end"

\* A run that has returned stays as it is, whoever disposes of the adapter.
LEMMA ReturnedStays ==
    ASSUME AdapterTypeOK, AdapterMove, at[Call] = "returned"
    PROVE  at'[Call] = "returned" /\ result'[Call] = result[Call]
<1>1. Run = {Call}
  BY ChainAssumption DEF ChainAssumption
<1>2. CASE AdapterNext
  BY <1>1, <1>2
  DEF AdapterNext, Start, NotFound, Spawn, Continue, Initialized, ThreadStarted, TurnStarted,
      TurnOver, Failed, Underway, Arrival, ReadAnswer, ReadTurnEnd, SeeExit, SeeSpawnError,
      KillTimer, ReadDelta, Codex, CodexAnswers, CodexStreams, CodexEndsTurn, CodexExits,
      runSideVars
<1>3. QED BY <1>2 DEF AdapterMove, AdapterKept, adapterVars, runSideVars

\* A step that leaves the history alone and has run() where it was.
LEMMA RecordedKept ==
    ASSUME AdapterTypeOK, AdapterMove, Recorded, Won, UNCHANGED <<historyVars, chainVars, phase>>,
           \A i \in DOMAIN broadcast : i \in DOMAIN broadcast' /\ broadcast'[i] = broadcast[i]
    PROVE  Recorded' /\ Won'
<1>1. phase \in {"flush", "savingFinal", "resolved"} =>
          at'[Call] = "returned" /\ result'[Call] = result[Call]
  BY ReturnedStays DEF Recorded
<1>2. QED BY <1>1 DEF Recorded, Won, historyVars, chainVars

LEMMA StepRecorded ==
    ASSUME AdapterTypeOK, Shown, Recorded, Won, [Next]_vars
    PROVE  Recorded' /\ Won'
<1>1. AdapterMove
  BY ChainMovesAdapter
<1>2. CASE BeginRun
  <2>1. /\ phase = "enqueue" /\ phase' = "init"
        /\ UNCHANGED <<saves, meta, unsaved, chain, outcome, snapshot, result>>
    BY <1>2 DEF BeginRun, adapterVars, runSideVars, historyVars, chainVars
  <2>2. QED BY <2>1 DEF Recorded, Won
<1>3. CASE SaveRunning
  <2>1. /\ phase = "init" /\ phase' = "savingRunning"
        /\ saves' = saves \cup {[by |-> "runner", status |-> "running"]}
        /\ UNCHANGED <<meta, unsaved, chain, outcome, snapshot, result>>
    BY <1>3 DEF SaveRunning, Save, adapterVars, runSideVars, chainVars
  <2>2. QED BY <2>1 DEF Recorded, Won, Statuses
<1>4. CASE AssemblePrompt
  <2>1. /\ phase = "savingRunning" /\ phase' = "assembling" /\ Saved("runner")
        /\ UNCHANGED <<saves, meta, unsaved, chain, outcome, snapshot, result>>
    BY <1>4 DEF AssemblePrompt, adapterVars, runSideVars, historyVars, chainVars
  <2>2. QED BY <2>1 DEF Recorded, Won, Saved
<1>5. CASE RunRuntime
  <2>1. /\ phase = "assembling" /\ phase' = "runtime"
        /\ UNCHANGED <<saves, meta, unsaved, chain, outcome, snapshot>>
    BY <1>5 DEF RunRuntime, historyVars, chainVars
  <2>2. QED BY <2>1 DEF Recorded, Won
<1>6. CASE CodexEvent
  <2>1. <<"delta">> \in Seq(Events)
    BY DEF Events
  <2>2. \A i \in DOMAIN broadcast : i \in DOMAIN broadcast' /\ broadcast'[i] = broadcast[i]
    BY <1>6, <2>1, EmitShown DEF CodexEvent
  <2>3. QED BY <1>1, <1>6, <2>2, RecordedKept DEF CodexEvent
<1>7. CASE EndRuntime
  <2>1. <<"end">> \in Seq(Events) /\ 1 \in DOMAIN <<"end">> /\ <<"end">>[1] = "end"
    BY DEF Events
  <2>2. \E j \in DOMAIN broadcast' : broadcast'[j] = "end"
    BY <1>7, <2>1, EmitShown DEF EndRuntime
  <2>3. /\ phase = "runtime" /\ phase' = "flush" /\ at'[Call] = "returned"
        /\ UNCHANGED <<saves, meta, unsaved, chain, outcome, snapshot, result>>
    BY <1>7 DEF EndRuntime, adapterVars, runSideVars, historyVars, chainVars
  <2>4. QED BY <2>2, <2>3 DEF Recorded, Won
<1>8. CASE SaveFinal
  <2>1. /\ phase = "flush" /\ phase' = "savingFinal"
        /\ saves' = saves \cup {[by |-> "runner", status |-> result[Call]]}
        /\ UNCHANGED <<meta, unsaved, chain, outcome, snapshot, result, at, broadcast>>
    BY <1>8 DEF SaveFinal, Save, FinalStatus, adapterVars, runSideVars, chainVars
  <2>2. result[Call] \in Statuses
    BY ChainAssumption DEF AdapterTypeOK, ChainAssumption, Statuses
  <2>3. Recorded'
    <3> DEFINE final == [by |-> "runner", status |-> result[Call]]
    <3>1. /\ final \in [by : {"runner", "chain"}, status : Statuses]
          /\ final.by = "runner" /\ final.status = result[Call]
      BY <2>2
    <3>2. final \in saves' /\ \A s \in saves' : s \in saves \/ s = final
      BY <2>1
    <3>3. \A s \in saves : s.by # "runner" /\ s \in [by : {"runner", "chain"}, status : Statuses]
      BY <2>1 DEF Recorded
    <3> HIDE DEF final
    <3>4. QED BY <2>1, <3>1, <3>2, <3>3 DEF Recorded
  <2>4. Won'
    BY <2>1 DEF Won
  <2>5. QED BY <2>3, <2>4
<1>9. CASE ResolveRun
  <2>1. /\ phase = "savingFinal" /\ phase' = "resolved" /\ Saved("runner")
        /\ UNCHANGED <<saves, meta, unsaved, chain, outcome, snapshot, result, at, broadcast>>
    BY <1>9 DEF ResolveRun, adapterVars, runSideVars, historyVars, chainVars
  <2>2. QED BY <2>1 DEF Recorded, Won, Saved
<1>10. CASE SaveSettles
  <2>1. PICK s \in saves : /\ saves' = saves \ {s}
                           /\ \/ meta' = s.status /\ UNCHANGED unsaved
                              \/ unsaved' = TRUE /\ UNCHANGED meta
    BY <1>10 DEF SaveSettles
  <2>2. UNCHANGED <<at, result, phase, broadcast, chain, outcome, snapshot>>
    BY <1>10 DEF SaveSettles, adapterVars, runSideVars, runnerVars, chainVars
  <2>3. phase \in {"savingFinal", "resolved"} /\ chain = "racing" => s.status = result[Call]
    BY <2>1 DEF Recorded
  <2>4. Recorded'
    BY <2>1, <2>2, <2>3 DEF Recorded
  <2>5. Won'
    BY <2>1, <2>2 DEF Won
  <2>6. QED BY <2>4, <2>5
<1>11. CASE RecordWins
  <2>1. /\ chain = "racing" /\ phase = "resolved" /\ chain' = "returned"
        /\ outcome' = result[Call] /\ snapshot' = seen
        /\ UNCHANGED <<at, result, phase, broadcast, saves, meta, unsaved>>
    BY <1>11 DEF RecordWins, AdapterKept, FinalStatus, runSideVars, runnerVars, historyVars
  <2>2. saves = {}
    BY <2>1 DEF Recorded
  <2>3. snapshot' = broadcast
    BY <2>1 DEF Shown
  <2>4. QED BY <2>1, <2>2, <2>3 DEF Recorded, Won
<1>12. CASE TimeoutFires
  <2>1. /\ chain = "racing" /\ chain' = "saving"
        /\ saves' = saves \cup {[by |-> "chain", status |-> "error"]}
        /\ UNCHANGED <<at, result, phase, broadcast, meta, unsaved, outcome, snapshot>>
    BY <1>12 DEF TimeoutFires, AdapterKept, Save, runSideVars, runnerVars
  <2>2. QED BY <2>1 DEF Recorded, Won, Statuses
<1>13. CASE AnswerTimeout
  <2>1. /\ chain = "saving" /\ chain' = "returned" /\ outcome' = "timed_out"
        /\ UNCHANGED <<at, result, phase, broadcast, saves, meta, unsaved>>
    BY <1>13 DEF AnswerTimeout, adapterVars, runSideVars, runnerVars, historyVars
  <2>2. QED BY <2>1 DEF Recorded, Won
<1>14. CASE ChainIdle
  BY <1>1, <1>14, RecordedKept DEF ChainIdle, runnerVars
<1>15. CASE UNCHANGED vars
  BY <1>1, <1>15, RecordedKept DEF vars, runnerVars
<1>16. QED
  BY <1>2, <1>3, <1>4, <1>5, <1>6, <1>7, <1>8, <1>9, <1>10, <1>11, <1>12, <1>13, <1>14, <1>15
  DEF Next, RunnerStep, ChainStep

-----------------------------------------------------------------------------

\* The inductive invariant: types, awaits, process, turn, gate and history.
ChainInv ==
    /\ AdapterTypeOK
    /\ stdout \in [Run -> Seq(Lines)]
    /\ Attentive(Call)
    /\ OwnProcess
    /\ Truthful
    /\ Shown
    /\ Recorded
    /\ Won

THEOREM ChainInvariance == Spec => []ChainInv
<1>1. Init => ChainInv
  <2>1. AdapterInit => AdapterTypeOK
    BY AdapterAssumption DEF AdapterInit, AdapterTypeOK, Inactive, AdapterAssumption
  <2>2. Call \in Run
    BY ChainAssumption DEF ChainAssumption
  <2>3. AdapterInit => stdout \in [Run -> Seq(Lines)] /\ Attentive(Call) /\ OwnProcess /\ Truthful
    BY <2>2 DEF AdapterInit, Attentive, Underway, OwnProcess, Truthful
  <2>4. Init => Shown /\ Recorded /\ Won
    BY DEF Init, Shown, SnapshotIsFinal, Recorded, Won
  <2>5. QED BY <2>1, <2>3, <2>4 DEF Init, ChainInv
<1>2. ChainInv /\ [Next]_vars => ChainInv'
  <2> SUFFICES ASSUME ChainInv, [Next]_vars
               PROVE  ChainInv'
    OBVIOUS
  <2>1. AdapterMove
    BY ChainMovesAdapter
  <2>2. AdapterTypeOK' /\ OwnProcess'
    BY <2>1, MoveTyped, MoveOwn DEF ChainInv
  <2>3. Truthful' /\ stdout' \in [Run -> Seq(Lines)]
    BY <2>1, MoveTruthful DEF ChainInv
  <2>4. Attentive(Call)'
    BY <2>1, MoveAttentive, ChainAssumption DEF ChainInv, ChainAssumption
  <2>5. Shown' /\ Recorded' /\ Won'
    BY StepShown, StepRecorded DEF ChainInv
  <2>6. QED BY <2>2, <2>3, <2>4, <2>5 DEF ChainInv
<1>3. QED BY <1>1, <1>2, PTL DEF Spec

\* The adapter misses nothing under the chain either, where a timeout disposes of
\* it in the middle of a run.
THEOREM ChainMissesNothing == Spec => []NothingMissed
<1>1. ChainInv => NothingMissed
  BY ChainAssumption DEF ChainInv, Attentive, NothingMissed, ChainAssumption
<1>2. QED BY <1>1, ChainInvariance, PTL

\* A run that has returned, abandoned or not, has no process at work.
THEOREM ChainLeavesNoProcess == Spec => []NoProcessLeft
<1>1. ChainInv => NoProcessLeft
  BY ChainAssumption DEF ChainInv, OwnProcess, NoProcessLeft, ChainAssumption
<1>2. QED BY <1>1, ChainInvariance, PTL

\* After the answer nothing passes the gate: the snapshot that was returned is
\* what the callbacks saw, and stays it.
THEOREM SnapshotsAreFinal == Spec => []SnapshotIsFinal
<1>1. ChainInv => SnapshotIsFinal
  BY DEF ChainInv, Shown
<1>2. QED BY <1>1, ChainInvariance, PTL

\* A result that is not a timeout is the one of the turn, comes with the events
\* of the whole run, and agrees with the history unless a write of it failed.
THEOREM ResultsAreWitnessed == Spec => []ResultIsWitnessed
<1>1. ChainInv => ResultIsWitnessed
  <2> SUFFICES ASSUME ChainInv, outcome \in {"completed", "error"}
               PROVE  /\ outcome = "completed" => turn[Call] = "completed"
                      /\ snapshot = SubSeq(broadcast, 1, Len(snapshot))
                      /\ \E i \in DOMAIN snapshot : snapshot[i] = "end"
                      /\ meta = outcome \/ unsaved
    BY DEF ResultIsWitnessed
  <2>1. Won /\ Truthful /\ Shown
    BY DEF ChainInv
  <2>2. snapshot = seen
    BY <2>1 DEF Won, Shown, SnapshotIsFinal
  <2>3. seen = SubSeq(broadcast, 1, Len(seen))
    <3>1. /\ broadcast \in Seq(Events) /\ seen \in Seq(Events) /\ Len(seen) <= Len(broadcast)
          /\ \A i \in 1..Len(seen) : seen[i] = broadcast[i]
      BY <2>1 DEF Shown
    <3>2. Len(seen) \in Nat /\ Len(broadcast) \in Nat
      BY <3>1
    <3>3. CASE Len(seen) = 0
      BY <3>1, <3>3, EmptySeq
    <3>4. CASE Len(seen) # 0
      BY <3>1, <3>2, <3>4
    <3>5. QED BY <3>3, <3>4
  <2>4. QED BY <2>1, <2>2, <2>3 DEF Won, Truthful
<1>2. QED BY <1>1, ChainInvariance, PTL

=============================================================================
