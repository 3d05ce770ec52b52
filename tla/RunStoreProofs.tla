---------------------------- MODULE RunStoreProofs ----------------------------
(***************************************************************************)
(* Proofs about RunStore, for any number of runs, readers, events, failing *)
(* writes and interrupted passes.                                          *)
(***************************************************************************)
EXTENDS RunStore, EventViews, FoldTheorems, SequenceTheorems

\* The owner: started or not, and what only it writes.
OwnerInv ==
    \A r \in Run :
        /\ phase[r] = "new" <=> owner[r] = "none"
        /\ old[r] => phase[r] # "new"
        /\ meta[r].status = "running" => phase[r] = "running"
        /\ meta[r].status \in Final => phase[r] = "over"

\* A reader that has judged its run: unless it was mistaken the owner is gone
\* for good, and so is every line it could still have written.
MarkInv ==
    \A v \in Reader : Marking(v) =>
        /\ old[at[v]]
        /\ at[v] \notin mistaken => owner[at[v]] = "dead"
        /\ pc[v] # "counting" =>
              /\ at[v] \notin mistaken \cup unread => count[v] = lines[at[v]]
              /\ count[v] <= lines[at[v]]

\* A run that was over when a pass began stays so.
OverInv ==
    /\ \A v \in Reader : \A r \in over[v] : phase[r] = "over"
    /\ OutcomeStandsForLaterPasses

\* The pass has the run still before it, or in its hands.
Ahead(v, r) ==
    \/ r \in todo[v] /\ pc[v] # "listing"
    \/ at[v] = r /\ pc[v] \in {"judging", "counting", "opening"}

\* The pass of a reader meets every run that was abandoned when it began.
OrphanInv ==
    \A v \in Reader : pc[v] # "idle" =>
        \A r \in orphans[v] :
            /\ phase[r] \in {"running", "ending", "over"} /\ old[r] /\ ~IsAlive(v, r)
            /\ meta[r].status = "running" => Ahead(v, r)

IInv ==
    /\ StoreTypeOK /\ OwnerInv /\ MarkInv /\ OverInv /\ OrphanInv
    /\ StaleIsFinal /\ PassLeavesNoOrphan /\ TornHasAWriter

LEMMA StoreInit == Init => IInv
BY DEF Init, IInv, StoreTypeOK, OwnerInv, MarkInv, OverInv, OrphanInv, StaleIsFinal,
       PassLeavesNoOrphan, OutcomeStandsForLaterPasses, TornHasAWriter, Marking, Missing,
       Places, Final

\* Whatever an append leaves behind is counted and typed.
LEMMA AppendKeepsTypes ==
    ASSUME StoreTypeOK, NEW r \in Run, AppendLine(r)
    PROVE  emitted' \in [Run -> Nat] /\ lines' \in [Run -> Nat] /\ cut' \in [Run -> BOOLEAN]
<1>1. emitted' \in [Run -> Nat]
  BY DEF StoreTypeOK, AppendLine
<1>2. lines' \in [Run -> Nat]
  <2>1. \/ lines' = lines
        \/ lines' = [lines EXCEPT ![r] = lines[r] + 1]
        \/ lines' = [lines EXCEPT ![r] = lines[r]]
    BY DEF AppendLine
  <2>2. lines \in [Run -> Nat] /\ lines[r] \in Nat /\ lines[r] + 1 \in Nat
    BY DEF StoreTypeOK
  <2>3. ASSUME NEW n \in Nat PROVE [lines EXCEPT ![r] = n] \in [Run -> Nat]
    BY <2>2
  <2> QED
    BY <2>1, <2>2, <2>3
<1>3. cut' \in [Run -> BOOLEAN]
  <2>1. \/ cut' = [cut EXCEPT ![r] = FALSE] \/ cut' = [cut EXCEPT ![r] = TRUE] \/ cut' = cut
    BY DEF AppendLine
  <2> QED
    BY <2>1 DEF StoreTypeOK
<1> QED
  BY <1>1, <1>2, <1>3

LEMMA StepBegin ==
    ASSUME IInv, NEW r \in Run, Begin(r)
    PROVE  IInv'
<1> USE DEF Begin, AppendLine, GoTo, ownerVars, pidVars, doubts, readerVars
<1>1. StoreTypeOK'
  <2>1. emitted' \in [Run -> Nat] /\ lines' \in [Run -> Nat] /\ cut' \in [Run -> BOOLEAN]
    BY AppendKeepsTypes DEF IInv
  <2> QED
    BY <2>1 DEF IInv, StoreTypeOK, Places, Final
<1>2. OwnerInv'
  BY DEF IInv, StoreTypeOK, Final, OwnerInv
<1>3. MarkInv'
  BY DEF IInv, StoreTypeOK, OwnerInv, MarkInv, Marking
<1>4. OverInv'
  BY DEF IInv, StoreTypeOK, Final, OwnerInv, OverInv, OutcomeStandsForLaterPasses, Marking
<1>5. OrphanInv'
  BY DEF IInv, StoreTypeOK, OwnerInv, OrphanInv, Ahead, IsAlive
<1>6. StaleIsFinal'
  BY DEF IInv, StoreTypeOK, OwnerInv, StaleIsFinal
<1>7. PassLeavesNoOrphan'
  BY DEF IInv, StoreTypeOK, OrphanInv, Ahead, IsAlive, PassLeavesNoOrphan
<1>8. TornHasAWriter'
  BY DEF IInv, StoreTypeOK, TornHasAWriter
<1> QED
  BY <1>1, <1>2, <1>3, <1>4, <1>5, <1>6, <1>7, <1>8 DEF IInv

LEMMA StepEmit ==
    ASSUME IInv, NEW r \in Run, Emit(r)
    PROVE  IInv'
<1> USE DEF Emit, AppendLine, ownerVars, pidVars, doubts, readerVars
<1>1. StoreTypeOK'
  <2>1. emitted' \in [Run -> Nat] /\ lines' \in [Run -> Nat] /\ cut' \in [Run -> BOOLEAN]
    BY AppendKeepsTypes DEF IInv
  <2> QED
    BY <2>1 DEF IInv, StoreTypeOK, Places, Final
<1>2. OwnerInv'
  BY DEF IInv, StoreTypeOK, Final, OwnerInv
<1>3. MarkInv'
  BY DEF IInv, StoreTypeOK, OwnerInv, MarkInv, Marking
<1>4. OverInv'
  BY DEF IInv, StoreTypeOK, Final, OwnerInv, OverInv, OutcomeStandsForLaterPasses, Marking
<1>5. OrphanInv'
  BY DEF IInv, StoreTypeOK, OwnerInv, OrphanInv, Ahead, IsAlive
<1>6. StaleIsFinal'
  BY DEF IInv, StoreTypeOK, OwnerInv, StaleIsFinal
<1>7. PassLeavesNoOrphan'
  BY DEF IInv, StoreTypeOK, OrphanInv, Ahead, IsAlive, PassLeavesNoOrphan
<1>8. TornHasAWriter'
  BY DEF IInv, StoreTypeOK, TornHasAWriter
<1> QED
  BY <1>1, <1>2, <1>3, <1>4, <1>5, <1>6, <1>7, <1>8 DEF IInv

LEMMA StepOpenMeta ==
    ASSUME IInv, NEW r \in Run, OpenMeta(r)
    PROVE  IInv'
<1> USE DEF OpenMeta, GoTo, ownerVars, pidVars, doubts, readerVars
<1>1. StoreTypeOK'
  BY DEF IInv, StoreTypeOK, Places, Final, Torn
<1>2. OwnerInv'
  BY DEF IInv, StoreTypeOK, Final, OwnerInv, Torn
<1>3. MarkInv'
  BY DEF IInv, StoreTypeOK, OwnerInv, MarkInv, Marking
<1>4. OverInv'
  BY DEF IInv, StoreTypeOK, Final, OwnerInv, OverInv, OutcomeStandsForLaterPasses, Marking
<1>5. OrphanInv'
  BY DEF IInv, StoreTypeOK, OwnerInv, OrphanInv, Ahead, IsAlive, Torn
<1>6. StaleIsFinal'
  BY DEF IInv, StoreTypeOK, OwnerInv, StaleIsFinal, Torn
<1>7. PassLeavesNoOrphan'
  BY DEF IInv, StoreTypeOK, OrphanInv, Ahead, IsAlive, PassLeavesNoOrphan
<1>8. TornHasAWriter'
  BY DEF IInv, StoreTypeOK, TornHasAWriter, Torn
<1> QED
  BY <1>1, <1>2, <1>3, <1>4, <1>5, <1>6, <1>7, <1>8 DEF IInv

LEMMA StepWriteMeta ==
    ASSUME IInv, NEW r \in Run, WriteMeta(r)
    PROVE  IInv'
<1> DEFINE written(s) == [status |-> s, count |-> emitted[r]]
<1>1. /\ owner[r] = "live"
      /\ UNCHANGED <<owner, emitted, lines, cut, reused, denied, old>> /\ UNCHANGED readerVars
      /\ UNCHANGED <<mistaken, unread>>
  BY DEF WriteMeta, pidVars, readerVars, doubts
<1>2. PICK s \in {"running"} \cup Final :
          /\ meta' = [meta EXCEPT ![r] = written(s)]
          /\ phase' = [phase EXCEPT ![r] = IF s = "running" THEN "running" ELSE "over"]
          /\ s = "running" => phase[r] = "starting"
  BY DEF WriteMeta, GoTo, Metadata, Final
<1>3. phase[r] \in {"starting", "ending"} /\ written(s).status = s
  BY DEF WriteMeta
<1>4. \A q \in Run : /\ meta'[q] = IF q = r THEN written(s) ELSE meta[q]
                     /\ q # r => phase'[q] = phase[q]
  BY <1>2 DEF IInv, StoreTypeOK
<1>5. phase'[r] = IF s = "running" THEN "running" ELSE "over"
  BY <1>2 DEF IInv, StoreTypeOK
<1>6. StoreTypeOK'
  <2>1. written(s) \in [status : {"missing", "torn", "running", "stale"} \cup Final, count : Nat]
    BY DEF IInv, StoreTypeOK
  <2>2. meta' \in [Run -> [status : {"missing", "torn", "running", "stale"} \cup Final,
                          count : Nat]]
    BY <1>2, <2>1 DEF IInv, StoreTypeOK
  <2>3. phase' \in [Run -> {"new", "begun", "starting", "running", "ending", "over"}]
    BY <1>2 DEF IInv, StoreTypeOK
  <2> QED
    BY <1>1, <2>2, <2>3 DEF IInv, StoreTypeOK, readerVars, Places
<1>7. OwnerInv'
  BY <1>1, <1>3, <1>4, <1>5 DEF IInv, OwnerInv, Final
<1>8. MarkInv' /\ PassLeavesNoOrphan'
  BY <1>1 DEF IInv, MarkInv, Marking, PassLeavesNoOrphan, readerVars
<1>9. OverInv'
  <2>1. \A q \in Run : phase[q] = "over" => phase'[q] = "over"
    BY <1>3, <1>4
  <2> QED
    BY <1>1, <2>1 DEF IInv, StoreTypeOK, OverInv, OutcomeStandsForLaterPasses, Marking,
                      readerVars
<1>10. OrphanInv'
  <2>1. s # "running" => meta'[r].status # "running"
    BY <1>3, <1>4
  <2> SUFFICES ASSUME NEW w \in Reader, pc'[w] # "idle", NEW q \in orphans'[w]
               PROVE  /\ phase'[q] \in {"running", "ending", "over"} /\ old'[q] /\ ~IsAlive(w, q)'
                      /\ meta'[q].status = "running" => Ahead(w, q)'
    BY DEF OrphanInv
  <2>3. /\ phase[q] \in {"running", "ending", "over"} /\ old[q] /\ ~IsAlive(w, q)
        /\ meta[q].status = "running" => Ahead(w, q)
        /\ q \in Run
    BY <1>1 DEF IInv, StoreTypeOK, OrphanInv, readerVars
  <2>4. old'[q] /\ ~IsAlive(w, q)' /\ (Ahead(w, q)' <=> Ahead(w, q))
    BY <1>1, <2>3 DEF Ahead, IsAlive, readerVars
  <2>5. CASE q = r
    <3>1. phase'[q] \in {"running", "ending", "over"}
      BY <1>5, <2>5
    <3>2. meta'[q].status # "running"
      <4>1. s # "running"
        BY <1>2, <2>3, <2>5
      <4> QED
        BY <2>1, <2>5, <4>1
    <3> QED
      BY <2>4, <3>1, <3>2
  <2>6. CASE q # r
    BY <1>4, <2>3, <2>4, <2>6
  <2> QED
    BY <2>5, <2>6
<1>11. StaleIsFinal'
  BY <1>1, <1>3, <1>4 DEF IInv, StaleIsFinal, Final
<1>12. TornHasAWriter'
  BY <1>1, <1>3, <1>4 DEF IInv, TornHasAWriter, Final, readerVars
<1> QED
  BY <1>6, <1>7, <1>8, <1>9, <1>10, <1>11, <1>12 DEF IInv

LEMMA StepMetaFails ==
    ASSUME IInv, NEW r \in Run, MetaFails(r)
    PROVE  IInv'
<1> USE DEF MetaFails, GoTo, ownerVars, pidVars, doubts, readerVars
<1>1. StoreTypeOK'
  <2>1. \/ phase' = [phase EXCEPT ![r] = "running"] \/ phase' = [phase EXCEPT ![r] = "over"]
    OBVIOUS
  <2>2. phase' \in [Run -> {"new", "begun", "starting", "running", "ending", "over"}]
    BY <2>1 DEF IInv, StoreTypeOK
  <2>3. mishaps' \in Nat
    BY DEF IInv, StoreTypeOK
  <2> QED
    BY <2>2, <2>3 DEF IInv, StoreTypeOK
<1>2. OwnerInv'
  BY DEF IInv, StoreTypeOK, Final, OwnerInv
<1>3. MarkInv'
  BY DEF IInv, StoreTypeOK, OwnerInv, MarkInv, Marking
<1>4. OverInv'
  BY DEF IInv, StoreTypeOK, Final, OwnerInv, OverInv, OutcomeStandsForLaterPasses, Marking
<1>5. OrphanInv'
  BY DEF IInv, StoreTypeOK, OwnerInv, OrphanInv, Ahead, IsAlive
<1>6. StaleIsFinal'
  BY DEF IInv, StoreTypeOK, OwnerInv, StaleIsFinal
<1>7. PassLeavesNoOrphan'
  BY DEF IInv, StoreTypeOK, OrphanInv, Ahead, IsAlive, PassLeavesNoOrphan
<1>8. TornHasAWriter'
  BY DEF IInv, StoreTypeOK, TornHasAWriter
<1> QED
  BY <1>1, <1>2, <1>3, <1>4, <1>5, <1>6, <1>7, <1>8 DEF IInv

LEMMA StepExit ==
    ASSUME IInv, NEW r \in Run, Exit(r)
    PROVE  IInv'
<1> USE DEF Exit, ownerVars, pidVars, doubts, readerVars
<1>1. StoreTypeOK'
  BY DEF IInv, StoreTypeOK, Places, Final
<1>2. OwnerInv'
  BY DEF IInv, StoreTypeOK, Final, OwnerInv
<1>3. MarkInv'
  BY DEF IInv, StoreTypeOK, OwnerInv, MarkInv, Marking
<1>4. OverInv'
  BY DEF IInv, StoreTypeOK, Final, OwnerInv, OverInv, OutcomeStandsForLaterPasses, Marking
<1>5. OrphanInv'
  BY DEF IInv, StoreTypeOK, OwnerInv, OrphanInv, Ahead, IsAlive
<1>6. StaleIsFinal'
  BY DEF IInv, StoreTypeOK, OwnerInv, StaleIsFinal
<1>7. PassLeavesNoOrphan'
  BY DEF IInv, StoreTypeOK, OrphanInv, Ahead, IsAlive, PassLeavesNoOrphan
<1>8. TornHasAWriter'
  BY DEF IInv, StoreTypeOK, TornHasAWriter
<1> QED
  BY <1>1, <1>2, <1>3, <1>4, <1>5, <1>6, <1>7, <1>8 DEF IInv

LEMMA StepReusePid ==
    ASSUME IInv, NEW r \in Run, ReusePid(r)
    PROVE  IInv'
<1> USE DEF ReusePid, ownerVars, pidVars, doubts, readerVars
<1>1. StoreTypeOK'
  BY DEF IInv, StoreTypeOK, Places, Final
<1>2. OwnerInv'
  BY DEF IInv, StoreTypeOK, Final, OwnerInv
<1>3. MarkInv'
  BY DEF IInv, StoreTypeOK, OwnerInv, MarkInv, Marking
<1>4. OverInv'
  BY DEF IInv, StoreTypeOK, Final, OwnerInv, OverInv, OutcomeStandsForLaterPasses, Marking
<1>5. OrphanInv'
  BY DEF IInv, StoreTypeOK, OwnerInv, OrphanInv, Ahead, IsAlive
<1>6. StaleIsFinal'
  BY DEF IInv, StoreTypeOK, OwnerInv, StaleIsFinal
<1>7. PassLeavesNoOrphan'
  BY DEF IInv, StoreTypeOK, OrphanInv, Ahead, IsAlive, PassLeavesNoOrphan
<1>8. TornHasAWriter'
  BY DEF IInv, StoreTypeOK, TornHasAWriter
<1> QED
  BY <1>1, <1>2, <1>3, <1>4, <1>5, <1>6, <1>7, <1>8 DEF IInv

LEMMA StepAge ==
    ASSUME IInv, NEW r \in Run, Age(r)
    PROVE  IInv'
<1> USE DEF Age, ownerVars, pidVars, doubts, readerVars
<1>1. StoreTypeOK'
  BY DEF IInv, StoreTypeOK, Places, Final
<1>2. OwnerInv'
  BY DEF IInv, StoreTypeOK, Final, OwnerInv
<1>3. MarkInv'
  BY DEF IInv, StoreTypeOK, OwnerInv, MarkInv, Marking
<1>4. OverInv'
  BY DEF IInv, StoreTypeOK, Final, OwnerInv, OverInv, OutcomeStandsForLaterPasses, Marking
<1>5. OrphanInv'
  BY DEF IInv, StoreTypeOK, OwnerInv, OrphanInv, Ahead, IsAlive
<1>6. StaleIsFinal'
  BY DEF IInv, StoreTypeOK, OwnerInv, StaleIsFinal
<1>7. PassLeavesNoOrphan'
  BY DEF IInv, StoreTypeOK, OrphanInv, Ahead, IsAlive, PassLeavesNoOrphan
<1>8. TornHasAWriter'
  BY DEF IInv, StoreTypeOK, TornHasAWriter
<1> QED
  BY <1>1, <1>2, <1>3, <1>4, <1>5, <1>6, <1>7, <1>8 DEF IInv

LEMMA StepBeginPass ==
    ASSUME IInv, NEW v \in Reader, BeginPass(v)
    PROVE  IInv'
<1> USE DEF BeginPass, Advance, IsOrphan, KeepsRun, IsAlive, ownerVars, pidVars, doubts, readerVars
<1>1. StoreTypeOK'
  BY DEF IInv, StoreTypeOK, Places, Final, Directories
<1>2. OwnerInv'
  BY DEF IInv, StoreTypeOK, Final, OwnerInv
<1>3. MarkInv'
  BY DEF IInv, StoreTypeOK, OwnerInv, MarkInv, Marking
<1>4. OverInv'
  BY DEF IInv, StoreTypeOK, Final, OwnerInv, OverInv, OutcomeStandsForLaterPasses, Marking
<1>5. OrphanInv'
  <2> SUFFICES ASSUME NEW w \in Reader, pc'[w] # "idle", NEW r \in orphans'[w]
               PROVE  /\ phase[r] \in {"running", "ending", "over"} /\ old[r] /\ ~IsAlive(w, r)
                      /\ meta[r].status = "running" => Ahead(w, r)'
    BY DEF OrphanInv
  <2>1. CASE w = v
    <3>1. PICK listed \in {Directories, {}} :
              /\ todo' = [todo EXCEPT ![v] = listed]
              /\ orphans' = [orphans EXCEPT ![v] = { q \in listed : IsOrphan(v, q) }]
      OBVIOUS
    <3>2. r \in listed /\ r \in Run /\ meta[r].status = "running" /\ ~IsAlive(v, r) /\ old[r]
      BY <2>1, <3>1 DEF IInv, StoreTypeOK, Directories
    <3>3. phase[r] = "running"
      BY <3>2 DEF IInv, OwnerInv
    <3>4. todo'[v] = listed /\ pc'[v] = "marking"
      BY <3>1 DEF IInv, StoreTypeOK
    <3> QED
      BY <2>1, <3>2, <3>3, <3>4 DEF Ahead
  <2>2. CASE w # v
    <3>1. /\ pc'[w] = pc[w] /\ orphans'[w] = orphans[w] /\ todo'[w] = todo[w]
          /\ at'[w] = at[w]
      BY <2>2 DEF IInv, StoreTypeOK
    <3> QED
      BY <3>1 DEF IInv, OrphanInv, Ahead
  <2> QED
    BY <2>1, <2>2
<1>6. StaleIsFinal'
  BY DEF IInv, StoreTypeOK, OwnerInv, StaleIsFinal
<1>7. PassLeavesNoOrphan'
  BY DEF IInv, StoreTypeOK, OrphanInv, Ahead, IsAlive, PassLeavesNoOrphan
<1>8. TornHasAWriter'
  BY DEF IInv, StoreTypeOK, TornHasAWriter
<1> QED
  BY <1>1, <1>2, <1>3, <1>4, <1>5, <1>6, <1>7, <1>8 DEF IInv

LEMMA StepJudge ==
    ASSUME IInv, NEW v \in Reader, Judge(v)
    PROVE  IInv'
<1> USE DEF Judge, Advance, KeepsRun, IsAlive, ownerVars, pidVars, doubts, readerVars
<1>1. StoreTypeOK'
  BY DEF IInv, StoreTypeOK, Places, Final
<1>2. OwnerInv'
  BY DEF IInv, StoreTypeOK, Final, OwnerInv
<1>3. MarkInv'
  BY DEF IInv, StoreTypeOK, OwnerInv, MarkInv, Marking
<1>4. OverInv'
  BY DEF IInv, StoreTypeOK, Final, OwnerInv, OverInv, OutcomeStandsForLaterPasses, Marking
<1>5. OrphanInv'
  BY DEF IInv, StoreTypeOK, OwnerInv, OrphanInv, Ahead, IsAlive
<1>6. StaleIsFinal'
  BY DEF IInv, StoreTypeOK, OwnerInv, StaleIsFinal
<1>7. PassLeavesNoOrphan'
  BY DEF IInv, StoreTypeOK, OrphanInv, Ahead, IsAlive, PassLeavesNoOrphan
<1>8. TornHasAWriter'
  BY DEF IInv, StoreTypeOK, TornHasAWriter
<1> QED
  BY <1>1, <1>2, <1>3, <1>4, <1>5, <1>6, <1>7, <1>8 DEF IInv

LEMMA StepReadEvents ==
    ASSUME IInv, NEW v \in Reader, ReadEvents(v)
    PROVE  IInv'
<1> USE DEF ReadEvents, Advance, ownerVars, pidVars, doubts, readerVars
<1>1. StoreTypeOK'
  BY DEF IInv, StoreTypeOK, Places, Final
<1>2. OwnerInv'
  BY DEF IInv, StoreTypeOK, Final, OwnerInv
<1>3. MarkInv'
  BY DEF IInv, StoreTypeOK, OwnerInv, MarkInv, Marking
<1>4. OverInv'
  BY DEF IInv, StoreTypeOK, Final, OwnerInv, OverInv, OutcomeStandsForLaterPasses, Marking
<1>5. OrphanInv'
  BY DEF IInv, StoreTypeOK, OwnerInv, OrphanInv, Ahead, IsAlive
<1>6. StaleIsFinal'
  BY DEF IInv, StoreTypeOK, OwnerInv, StaleIsFinal
<1>7. PassLeavesNoOrphan'
  BY DEF IInv, StoreTypeOK, OrphanInv, Ahead, IsAlive, PassLeavesNoOrphan
<1>8. TornHasAWriter'
  BY DEF IInv, StoreTypeOK, TornHasAWriter
<1> QED
  BY <1>1, <1>2, <1>3, <1>4, <1>5, <1>6, <1>7, <1>8 DEF IInv

LEMMA StepReadFails ==
    ASSUME IInv, NEW v \in Reader, ReadFails(v)
    PROVE  IInv'
<1> USE DEF ReadFails, Advance, ownerVars, pidVars, doubts, readerVars
<1>1. StoreTypeOK'
  BY DEF IInv, StoreTypeOK, Places, Final
<1>2. OwnerInv'
  BY DEF IInv, StoreTypeOK, Final, OwnerInv
<1>3. MarkInv'
  BY DEF IInv, StoreTypeOK, OwnerInv, MarkInv, Marking
<1>4. OverInv'
  BY DEF IInv, StoreTypeOK, Final, OwnerInv, OverInv, OutcomeStandsForLaterPasses, Marking
<1>5. OrphanInv'
  BY DEF IInv, StoreTypeOK, OwnerInv, OrphanInv, Ahead, IsAlive
<1>6. StaleIsFinal'
  BY DEF IInv, StoreTypeOK, OwnerInv, StaleIsFinal
<1>7. PassLeavesNoOrphan'
  BY DEF IInv, StoreTypeOK, OrphanInv, Ahead, IsAlive, PassLeavesNoOrphan
<1>8. TornHasAWriter'
  BY DEF IInv, StoreTypeOK, TornHasAWriter
<1> QED
  BY <1>1, <1>2, <1>3, <1>4, <1>5, <1>6, <1>7, <1>8 DEF IInv

LEMMA StepOpenStale ==
    ASSUME IInv, NEW v \in Reader, OpenStale(v)
    PROVE  IInv'
<1> USE DEF OpenStale, Advance, ownerVars, pidVars, doubts, readerVars
<1>1. StoreTypeOK'
  BY DEF IInv, StoreTypeOK, Places, Final, Torn
<1>2. OwnerInv'
  BY DEF IInv, StoreTypeOK, Final, OwnerInv, MarkInv, Marking, Torn
<1>3. MarkInv'
  BY DEF IInv, StoreTypeOK, OwnerInv, MarkInv, Marking
<1>4. OverInv'
  BY DEF IInv, StoreTypeOK, Final, OwnerInv, OverInv, OutcomeStandsForLaterPasses, Marking
<1>5. OrphanInv'
  BY DEF IInv, StoreTypeOK, OwnerInv, OrphanInv, Ahead, IsAlive, Torn
<1>6. StaleIsFinal'
  BY DEF IInv, StoreTypeOK, OwnerInv, MarkInv, Marking, StaleIsFinal, Torn
<1>7. PassLeavesNoOrphan'
  BY DEF IInv, StoreTypeOK, OrphanInv, Ahead, IsAlive, PassLeavesNoOrphan
<1>8. TornHasAWriter'
  BY DEF IInv, StoreTypeOK, MarkInv, Marking, TornHasAWriter, Torn
<1> QED
  BY <1>1, <1>2, <1>3, <1>4, <1>5, <1>6, <1>7, <1>8 DEF IInv

LEMMA StepWriteStale ==
    ASSUME IInv, NEW v \in Reader, WriteStale(v)
    PROVE  IInv'
<1> USE DEF WriteStale, StaleMetadata, Advance, ownerVars, pidVars, doubts, readerVars
<1>1. StoreTypeOK'
  BY DEF IInv, StoreTypeOK, Places, Final, Metadata
<1>2. OwnerInv'
  BY DEF IInv, StoreTypeOK, Final, OwnerInv, MarkInv, Marking, Metadata
<1>3. MarkInv'
  BY DEF IInv, StoreTypeOK, OwnerInv, MarkInv, Marking
<1>4. OverInv'
  BY DEF IInv, StoreTypeOK, Final, OwnerInv, OverInv, OutcomeStandsForLaterPasses, Marking
<1>5. OrphanInv'
  BY DEF IInv, StoreTypeOK, OwnerInv, OrphanInv, Ahead, IsAlive, Metadata
<1>6. StaleIsFinal'
  BY DEF IInv, StoreTypeOK, OwnerInv, MarkInv, Marking, StaleIsFinal, Metadata
<1>7. PassLeavesNoOrphan'
  BY DEF IInv, StoreTypeOK, OrphanInv, Ahead, IsAlive, PassLeavesNoOrphan
<1>8. TornHasAWriter'
  BY DEF IInv, StoreTypeOK, MarkInv, Marking, TornHasAWriter, Metadata
<1> QED
  BY <1>1, <1>2, <1>3, <1>4, <1>5, <1>6, <1>7, <1>8 DEF IInv

LEMMA StepBeginListing ==
    ASSUME IInv, NEW v \in Reader, BeginListing(v)
    PROVE  IInv'
<1> USE DEF BeginListing, PassOver, Advance, ownerVars, pidVars, doubts, readerVars
<1>1. StoreTypeOK'
  BY DEF IInv, StoreTypeOK, Places, Final, Directories
<1>2. OwnerInv'
  BY DEF IInv, StoreTypeOK, Final, OwnerInv
<1>3. MarkInv'
  BY DEF IInv, StoreTypeOK, OwnerInv, MarkInv, Marking
<1>4. OverInv'
  BY DEF IInv, StoreTypeOK, Final, OwnerInv, OverInv, OutcomeStandsForLaterPasses, Marking
<1>5. OrphanInv'
  BY DEF IInv, StoreTypeOK, OwnerInv, OrphanInv, Ahead, IsAlive
<1>6. StaleIsFinal'
  BY DEF IInv, StoreTypeOK, OwnerInv, StaleIsFinal
<1>7. PassLeavesNoOrphan'
  BY DEF IInv, StoreTypeOK, OrphanInv, Ahead, IsAlive, PassLeavesNoOrphan
<1>8. TornHasAWriter'
  BY DEF IInv, StoreTypeOK, TornHasAWriter
<1> QED
  BY <1>1, <1>2, <1>3, <1>4, <1>5, <1>6, <1>7, <1>8 DEF IInv

LEMMA StepAnswer ==
    ASSUME IInv, NEW v \in Reader, Answer(v)
    PROVE  IInv'
<1> USE DEF Answer, Advance, ownerVars, pidVars, doubts, readerVars
<1>1. StoreTypeOK'
  BY DEF IInv, StoreTypeOK, Places, Final
<1>2. OwnerInv'
  BY DEF IInv, StoreTypeOK, Final, OwnerInv
<1>3. MarkInv'
  BY DEF IInv, StoreTypeOK, OwnerInv, MarkInv, Marking
<1>4. OverInv'
  BY DEF IInv, StoreTypeOK, Final, OwnerInv, OverInv, OutcomeStandsForLaterPasses, Marking
<1>5. OrphanInv'
  BY DEF IInv, StoreTypeOK, OwnerInv, OrphanInv, Ahead, IsAlive
<1>6. StaleIsFinal'
  BY DEF IInv, StoreTypeOK, OwnerInv, StaleIsFinal
<1>7. PassLeavesNoOrphan'
  BY DEF IInv, StoreTypeOK, OrphanInv, Ahead, IsAlive, PassLeavesNoOrphan
<1>8. TornHasAWriter'
  BY DEF IInv, StoreTypeOK, TornHasAWriter
<1> QED
  BY <1>1, <1>2, <1>3, <1>4, <1>5, <1>6, <1>7, <1>8 DEF IInv

LEMMA StepInterrupt ==
    ASSUME IInv, NEW v \in Reader, Interrupt(v)
    PROVE  IInv'
<1> USE DEF Interrupt, Advance, ownerVars, pidVars, doubts, readerVars
<1>1. StoreTypeOK'
  BY DEF IInv, StoreTypeOK, Places, Final
<1>2. OwnerInv'
  BY DEF IInv, StoreTypeOK, Final, OwnerInv
<1>3. MarkInv'
  BY DEF IInv, StoreTypeOK, OwnerInv, MarkInv, Marking
<1>4. OverInv'
  BY DEF IInv, StoreTypeOK, Final, OwnerInv, OverInv, OutcomeStandsForLaterPasses, Marking
<1>5. OrphanInv'
  BY DEF IInv, StoreTypeOK, OwnerInv, OrphanInv, Ahead, IsAlive
<1>6. StaleIsFinal'
  BY DEF IInv, StoreTypeOK, OwnerInv, StaleIsFinal
<1>7. PassLeavesNoOrphan'
  BY DEF IInv, StoreTypeOK, OrphanInv, Ahead, IsAlive, PassLeavesNoOrphan
<1>8. TornHasAWriter'
  BY DEF IInv, StoreTypeOK, TornHasAWriter
<1> QED
  BY <1>1, <1>2, <1>3, <1>4, <1>5, <1>6, <1>7, <1>8 DEF IInv

LEMMA StepReadMeta ==
    ASSUME IInv, NEW v \in Reader, NEW r \in Run, ReadMeta(v, r)
    PROVE  IInv'
<1> USE DEF ReadMeta, ToJudge, Advance, ownerVars, pidVars, doubts, readerVars
<1>1. StoreTypeOK'
  <2>1. pc' \in [Reader -> Places] /\ at' \in [Reader -> Run]
    <3>1. \/ pc' = pc /\ at' = at
          \/ pc' = [pc EXCEPT ![v] = "judging"] /\ at' = [at EXCEPT ![v] = r]
      OBVIOUS
    <3>2. [pc EXCEPT ![v] = "judging"] \in [Reader -> Places]
      BY DEF IInv, StoreTypeOK, Places
    <3>3. [at EXCEPT ![v] = r] \in [Reader -> Run]
      BY DEF IInv, StoreTypeOK
    <3>4. pc \in [Reader -> Places] /\ at \in [Reader -> Run]
      BY DEF IInv, StoreTypeOK
    <3> QED
      BY <3>1, <3>2, <3>3, <3>4
  <2>2. todo' \in [Reader -> SUBSET Run]
    BY DEF IInv, StoreTypeOK
  <2>3. orphans' \in [Reader -> SUBSET Run]
    <3>1. orphans' = orphans \/ orphans' = [orphans EXCEPT ![v] = orphans[v] \ {r}]
      OBVIOUS
    <3>2. orphans[v] \ {r} \in SUBSET Run
      BY DEF IInv, StoreTypeOK
    <3> QED
      BY <3>1, <3>2 DEF IInv, StoreTypeOK
  <2> QED
    BY <2>1, <2>2, <2>3 DEF IInv, StoreTypeOK
<1>2. OwnerInv'
  BY DEF IInv, StoreTypeOK, Final, OwnerInv
<1>3. MarkInv'
  <2>1. \A w \in Reader : Marking(w)' =>
            Marking(w) /\ pc'[w] = pc[w] /\ at'[w] = at[w] /\ count'[w] = count[w]
    BY DEF IInv, StoreTypeOK, Marking
  <2> QED
    BY <2>1 DEF IInv, MarkInv
<1>4. OverInv'
  BY DEF IInv, StoreTypeOK, Final, OwnerInv, OverInv, OutcomeStandsForLaterPasses, Marking
<1>5. OrphanInv'
  <2> SUFFICES ASSUME NEW w \in Reader, pc'[w] # "idle", NEW q \in orphans'[w]
               PROVE  /\ phase[q] \in {"running", "ending", "over"} /\ old[q] /\ ~IsAlive(w, q)
                      /\ meta[q].status = "running" => Ahead(w, q)'
    BY DEF OrphanInv, IsAlive
  <2>1. pc[w] # "idle" /\ q \in orphans[w]
    BY DEF IInv, StoreTypeOK
  <2>2. /\ phase[q] \in {"running", "ending", "over"} /\ old[q] /\ ~IsAlive(w, q)
        /\ meta[q].status = "running" => Ahead(w, q)
    BY <2>1 DEF IInv, OrphanInv
  <2>3. CASE w # v
    <3>1. pc'[w] = pc[w] /\ todo'[w] = todo[w] /\ at'[w] = at[w]
      BY <2>3 DEF IInv, StoreTypeOK
    <3> QED
      BY <2>2, <3>1 DEF Ahead
  <2>4. CASE w = v
    <3>1. todo'[v] = todo[v] \ {r} /\ pc[v] = "marking"
      BY DEF IInv, StoreTypeOK
    <3>2. meta[q].status = "running" => q \in todo[v]
      BY <2>2, <2>4, <3>1 DEF Ahead
    <3>3. CASE q = r
      <4>1. CASE ToJudge(r) /\ pc'[v] = "judging" /\ at'[v] = r
        BY <2>2, <2>4, <3>3, <4>1 DEF Ahead
      <4>2. CASE ~ToJudge(r)
        BY <2>2, <3>3, <4>2
      <4>3. CASE orphans' = [orphans EXCEPT ![v] = @ \ {r}]
        BY <2>4, <3>3, <4>3 DEF IInv, StoreTypeOK
      <4> QED
        BY <4>1, <4>2, <4>3 DEF IInv, StoreTypeOK
    <3>4. CASE q # r
      <4>1. pc'[v] \in {"marking", "judging"}
        BY <3>1 DEF IInv, StoreTypeOK
      <4> QED
        BY <2>2, <2>4, <3>1, <3>2, <3>4, <4>1 DEF Ahead
    <3> QED
      BY <3>3, <3>4
  <2> QED
    BY <2>3, <2>4
<1>6. StaleIsFinal'
  BY DEF IInv, StoreTypeOK, OwnerInv, StaleIsFinal
<1>7. PassLeavesNoOrphan'
  <2>1. \A w \in Reader : orphans'[w] \subseteq orphans[w]
    <3>1. orphans' = orphans \/ orphans' = [orphans EXCEPT ![v] = orphans[v] \ {r}]
      OBVIOUS
    <3>2. CASE orphans' = orphans
      BY <3>2
    <3>3. CASE orphans' = [orphans EXCEPT ![v] = orphans[v] \ {r}]
      BY <3>3 DEF IInv, StoreTypeOK
    <3> QED
      BY <3>1, <3>2, <3>3
  <2> QED
    BY <2>1 DEF IInv, PassLeavesNoOrphan
<1>8. TornHasAWriter'
  BY DEF IInv, StoreTypeOK, TornHasAWriter
<1> QED
  BY <1>1, <1>2, <1>3, <1>4, <1>5, <1>6, <1>7, <1>8 DEF IInv

LEMMA StepListRun ==
    ASSUME IInv, NEW v \in Reader, NEW r \in Run, ListRun(v, r)
    PROVE  IInv'
<1> USE DEF ListRun, ownerVars, pidVars, doubts, readerVars
<1>1. StoreTypeOK'
  <2>1. todo' \in [Reader -> SUBSET Run]
    BY DEF IInv, StoreTypeOK
  <2>2. found' \in [Reader -> SUBSET Run]
    <3>1. found' = found \/ found' = [found EXCEPT ![v] = found[v] \cup {r}]
      OBVIOUS
    <3>2. found[v] \cup {r} \in SUBSET Run
      BY DEF IInv, StoreTypeOK
    <3> QED
      BY <3>1, <3>2 DEF IInv, StoreTypeOK
  <2> QED
    BY <2>1, <2>2 DEF IInv, StoreTypeOK
<1>2. OwnerInv'
  BY DEF IInv, StoreTypeOK, Final, OwnerInv
<1>3. MarkInv'
  BY DEF IInv, StoreTypeOK, OwnerInv, MarkInv, Marking
<1>4. OverInv'
  BY DEF IInv, StoreTypeOK, Final, OwnerInv, OverInv, OutcomeStandsForLaterPasses, Marking
<1>5. OrphanInv'
  BY DEF IInv, StoreTypeOK, OwnerInv, OrphanInv, Ahead, IsAlive
<1>6. StaleIsFinal'
  BY DEF IInv, StoreTypeOK, OwnerInv, StaleIsFinal
<1>7. PassLeavesNoOrphan'
  <2>1. meta[r].status = "running" => r \notin orphans[v]
    BY DEF IInv, OrphanInv, Ahead, IsAlive
  <2>2. \A w \in Reader :
            \/ found'[w] = found[w]
            \/ w = v /\ meta[r].status = "running" /\ found'[w] = found[w] \cup {r}
    BY DEF IInv, StoreTypeOK
  <2> QED
    BY <2>1, <2>2 DEF IInv, PassLeavesNoOrphan
<1>8. TornHasAWriter'
  BY DEF IInv, StoreTypeOK, TornHasAWriter
<1> QED
  BY <1>1, <1>2, <1>3, <1>4, <1>5, <1>6, <1>7, <1>8 DEF IInv

LEMMA StoreNext == IInv /\ [Next]_vars => IInv'
<1> SUFFICES ASSUME IInv, [Next]_vars PROVE IInv'
  OBVIOUS
<1>1. ASSUME NEW r \in Run, OwnerStep(r) \/ ReusePid(r) \/ Age(r)
      PROVE  IInv'
  BY <1>1, StepBegin, StepEmit, StepOpenMeta, StepWriteMeta, StepMetaFails, StepExit,
     StepReusePid, StepAge
  DEF OwnerStep
<1>2. ASSUME NEW v \in Reader, ReaderStep(v)
      PROVE  IInv'
  BY <1>2, StepBeginPass, StepJudge, StepReadEvents, StepReadFails, StepOpenStale,
     StepWriteStale, StepBeginListing, StepAnswer, StepInterrupt, StepReadMeta, StepListRun
  DEF ReaderStep
<1>3. CASE UNCHANGED vars
  BY <1>3
  DEF vars, ownerVars, pidVars, doubts, readerVars, IInv, StoreTypeOK, OwnerInv, MarkInv,
      OverInv, OrphanInv, Ahead, IsAlive, Marking, StaleIsFinal, PassLeavesNoOrphan, TornHasAWriter,
      OutcomeStandsForLaterPasses
<1> QED
  BY <1>1, <1>2, <1>3 DEF Next

LEMMA StoreAlways == Spec => []IInv
BY StoreInit, StoreNext, PTL DEF Spec

\* The files and the readers keep their types (src/events/store.ts:425-581).
THEOREM StoreTypeCorrect == Spec => []StoreTypeOK
BY StoreAlways, PTL DEF IInv

\* A run marked stale is old; it had lost its owner, and its counts are those
\* of its log for good, unless a reader of another user took the owner for gone
\* or could not read the log: its counts are then too low, never too high
\* (markStaleRuns(), isProcessAlive(), src/events/store.ts:456-505).
THEOREM StaleRunsAreFinal == Spec => []StaleIsFinal
BY StoreAlways, PTL DEF IInv

\* A reader never reports as running a run that was abandoned when it came
\* (listRuns(), src/events/store.ts:528-563).
THEOREM NoOrphanIsListed == Spec => []PassLeavesNoOrphan
BY StoreAlways, PTL DEF IInv

\* A pass marks no run that had its outcome when it began
\* (markStaleRuns(), src/events/store.ts:466-505).
THEOREM OutcomesStand == Spec => []OutcomeStandsForLaterPasses
BY StoreAlways, PTL DEF IInv, OverInv

\* Metadata is unreadable only under a writer, or after one that was cut off
\* (saveMetadata(), src/events/store.ts:440-444).
THEOREM TornUnderAWriter == Spec => []TornHasAWriter
BY StoreAlways, PTL DEF IInv

-----------------------------------------------------------------------------
(* EventViews: summarizeExecutionEvents() over every log of a run.         *)

Events == PlainEvents \cup ToolEvents

Totals ==
    [started : Nat, completed : Nat, success : Nat, failure : Nat,
     ended : SUBSET (CallId \cup {NoId}), resulted : SUBSET (CallId \cup {NoId})]

StartedIn(s) == { c \in CallId : \E i \in DOMAIN s : s[i].id = c /\ s[i].status = "started" }
EndedIn(s) == { c \in CallId : \E i \in DOMAIN s : s[i].id = c /\ IsEnd(s[i]) }
FailedIn(s) == { c \in CallId : \E i \in DOMAIN s : s[i].id = c /\ s[i].status = "failed" }
ResultedIn(s) == { c \in CallId : \E i \in DOMAIN s : s[i].id = c /\ s[i].type = "tool_result" }
NamelessIn(s) == { i \in DOMAIN s : s[i] = ResultOf(NoId) }

AllFinite(s) ==
    /\ IsFiniteSet(StartedIn(s)) /\ IsFiniteSet(FailedIn(s)) /\ IsFiniteSet(NamelessIn(s))
    /\ IsFiniteSet(EndedIn(s)) /\ IsFiniteSet(ResultedIn(s))

\* What the totals `t` of the log `s` must be for each call to count once: the
\* two sets are the calls whose end and whose result have been counted.
Tallies(t, s) ==
    /\ t \in Totals
    /\ t.ended = EndedIn(s) /\ t.resulted = ResultedIn(s)
    /\ t.started = Cardinality(StartedIn(s))
    /\ t.completed = Cardinality(EndedIn(s) \cup ResultedIn(s)) + Cardinality(NamelessIn(s))
    /\ t.success + t.failure = t.completed
    /\ t.failure <= Cardinality(FailedIn(s))

ViewsInv == log \in Seq(Events) /\ AllFinite(log) /\ Tallies(Summary(log), log)

\* The kinds of events, and what Count() looks at.
LEMMA EventTyped ==
    ASSUME NEW e \in Events
    PROVE  \/ e.id \in CallId /\ e.type = "tool_call" /\ e.status = "started" /\ e = StartOf(e.id)
           \/ e.id \in CallId /\ e.type = "tool_call" /\ e.status \in {"completed", "failed"}
           \/ e.id \in CallId /\ e.type = "tool_result" /\ e.status = "none" /\ e = ResultOf(e.id)
           \/ e.id = NoId /\ e.type = "tool_result" /\ e.status = "none" /\ e = ResultOf(NoId)
           \/ e.id = NoId /\ e.type \notin {"tool_call", "tool_result"} /\ e.status = "none"
BY DEF Events, PlainEvents, ToolEvents, Event, StartOf, ResultOf, EndsOf

LEMMA CountTyped ==
    ASSUME NEW t \in Totals, NEW e \in Events
    PROVE  Count(t, e) \in Totals
<1>1. e.id \in CallId \cup {NoId}
  BY EventTyped
<1>2. /\ t.started \in Nat /\ t.completed \in Nat /\ t.success \in Nat /\ t.failure \in Nat
      /\ t.completed + 1 \in Nat /\ t.success + 1 \in Nat /\ t.failure + 1 \in Nat /\ t.started + 1 \in Nat
      /\ t.ended \subseteq CallId \cup {NoId} /\ t.resulted \subseteq CallId \cup {NoId}
  BY DEF Totals
<1>3. \A c, u, f \in Nat, E, R \in SUBSET (CallId \cup {NoId}) :
        /\ [t EXCEPT !.ended = E] \in Totals /\ [t EXCEPT !.resulted = R] \in Totals
        /\ [t EXCEPT !.ended = E, !.completed = c, !.success = u, !.failure = f] \in Totals
        /\ [t EXCEPT !.resulted = R, !.completed = c, !.success = u] \in Totals
  BY DEF Totals
<1>. DEFINE E == t.ended \cup {e.id}
            G == t.ended \cup ({e.id} \ {NoId})
            R == t.resulted \cup {e.id}
            S == t.resulted \cup ({e.id} \ {NoId})
            u == IF e.status = "completed" THEN t.success + 1 ELSE t.success
            f == IF e.status = "failed" THEN t.failure + 1 ELSE t.failure
<1>4. /\ E \in SUBSET (CallId \cup {NoId}) /\ G \in SUBSET (CallId \cup {NoId})
      /\ R \in SUBSET (CallId \cup {NoId}) /\ S \in SUBSET (CallId \cup {NoId})
      /\ u \in Nat /\ f \in Nat
  BY <1>1, <1>2
<1>5. CountEnd(t, e) = IF e.id \in t.resulted THEN [t EXCEPT !.ended = E]
                       ELSE [t EXCEPT !.ended = G, !.completed = t.completed + 1, !.success = u, !.failure = f]
  BY DEF CountEnd
<1>6. CountResult(t, e) = IF e.id \in t.ended THEN [t EXCEPT !.resulted = R]
                          ELSE [t EXCEPT !.resulted = S, !.completed = t.completed + 1,
                                         !.success = t.success + 1]
  BY DEF CountResult
<1>. HIDE DEF E, G, R, S, u, f
<1>7. CountEnd(t, e) \in Totals /\ CountResult(t, e) \in Totals
  <2>1. [t EXCEPT !.ended = E] \in Totals /\ [t EXCEPT !.resulted = R] \in Totals
    BY <1>2, <1>3, <1>4
  <2>2. [t EXCEPT !.ended = G, !.completed = t.completed + 1, !.success = u, !.failure = f] \in Totals
    BY <1>2, <1>3, <1>4
  <2>3. [t EXCEPT !.resulted = S, !.completed = t.completed + 1, !.success = t.success + 1] \in Totals
    BY <1>2, <1>3, <1>4
  <2>4. CountEnd(t, e) \in Totals
    BY <1>5, <2>1, <2>2
  <2>5. CountResult(t, e) \in Totals
    BY <1>6, <2>1, <2>3
  <2>. QED BY <2>4, <2>5
<1>8. [t EXCEPT !.started = @ + 1] \in Totals
  BY DEF Totals
<1>. QED BY <1>7, <1>8 DEF Count

LEMMA NoCountsTyped == NoCounts \in Totals
BY DEF NoCounts, Totals

CountsOf(s) == [k \in 1..Len(s) |-> [t \in Totals |-> Count(t, s[k])]]

\* The summary counts one event after the other.
LEMMA SummaryFolds ==
    ASSUME NEW s \in Seq(Events)
    PROVE  \E g : /\ Along(g, NoCounts, CountsOf(s), Len(s))
                  /\ \A k \in 0..Len(s) : g[1..k] \in Totals
                  /\ Summary(s) = g[1..Len(s)]
<1>. DEFINE n == Len(s)
            step == CountsOf(s)
            IsFold(g) == g = [T \in SUBSET DOMAIN s |->
                                IF T = {} THEN NoCounts ELSE Count(g[T \ {Max(T)}], s[Max(T)])]
            g == CHOOSE g : IsFold(g)
<1>1. DOMAIN s = 1..n /\ n \in Nat /\ \A k \in 1..n : s[k] \in Events
  BY LenProperties, ElementOfSeq
<1>2. \A k \in 1..n, t \in Totals : Count(t, s[k]) \in Totals /\ step[k][t] = Count(t, s[k])
  BY <1>1, CountTyped DEF CountsOf
<1>3. step \in [1..n -> [Totals -> Totals]]
  BY <1>2 DEF CountsOf
<1>4. PICK h : IsFold(h)
  <2>1. PICK h \in [SUBSET (1..n) -> Totals] : Folds(h, NoCounts, step, n)
    <3>. HIDE DEF step, n
    <3>. QED BY <1>1, <1>3, NoCountsTyped, FoldExists
  <2>2. ASSUME NEW T \in SUBSET (1..n), T # {} PROVE Max(T) \in 1..n
    <3>. HIDE DEF n
    <3>. QED BY <1>1, <2>2, MaxOfIndices
  <2>. HIDE DEF step
  <2>3. ASSUME NEW T \in SUBSET (1..n)
        PROVE  h[T] = IF T = {} THEN NoCounts ELSE Count(h[T \ {Max(T)}], s[Max(T)])
    <3>1. h[T] = IF T = {} THEN NoCounts ELSE step[Max(T)][h[T \ {Max(T)}]]
      BY <2>1 DEF Folds
    <3>2. ASSUME T # {} PROVE step[Max(T)][h[T \ {Max(T)}]] = Count(h[T \ {Max(T)}], s[Max(T)])
      <4>1. h[T \ {Max(T)}] \in Totals
        BY <2>1, <2>2, <3>2
      <4>. QED BY <1>2, <2>2, <3>2, <4>1
    <3>. QED BY <3>1, <3>2
  <2>4. h = [T \in SUBSET (1..n) |-> h[T]]
    BY <2>1
  <2>5. IsFold(h)
    BY <1>1, <2>3, <2>4
  <2>. QED BY <2>5
<1>5. IsFold(g)
  BY <1>4
<1>6. g[{}] = NoCounts /\ \A k \in 1..n : g[1..k] = Count(g[1..(k - 1)], s[k])
  <2>1. g[{}] = NoCounts
    BY <1>1, <1>5
  <2>2. ASSUME NEW k \in 1..n PROVE g[1..k] = Count(g[1..(k - 1)], s[k])
    <3>1. Max(1..k) = k /\ (1..k) \ {k} = 1..(k - 1) /\ 1..k \in SUBSET (1..n) /\ 1..k # {}
      <4>. HIDE DEF n
      <4>. QED BY <1>1, LastIndex
    <3>. HIDE DEF g, n
    <3>. QED BY <1>1, <1>5, <3>1
  <2>. QED BY <2>1, <2>2
<1>. HIDE DEF g, step
<1>7. ASSUME NEW k \in 0..n PROVE g[1..k] \in Totals
  <2>1. ASSUME NEW j \in 1..k, g[(1..j) \ {Max(1..j)}] \in Totals PROVE g[1..j] \in Totals
    <3>1. k \in Nat /\ j \in 1..n
      BY <1>1
    <3>2. Max(1..j) = j /\ (1..j) \ {j} = 1..(j - 1)
      BY <3>1, LastIndex
    <3>3. g[1..(j - 1)] \in Totals
      BY <2>1, <3>2
    <3>. HIDE DEF n
    <3>. QED BY <1>2, <1>6, <3>1, <3>3
  <2>2. k \in Nat /\ g[{}] \in Totals
    BY <1>1, <1>6, NoCountsTyped
  <2>. QED BY <2>1, <2>2, FoldStays
<1>8. ASSUME NEW k \in 1..n PROVE g[1..k] = step[k][g[1..(k - 1)]]
  <2>1. k - 1 \in 0..n
    BY <1>1
  <2>2. g[1..(k - 1)] \in Totals
    BY <1>7, <2>1
  <2>. QED BY <1>2, <1>6, <2>2
<1>9. Summary(s) = g[DOMAIN s]
  BY DEF Summary, FoldLeft, MapThenFoldSet, g
<1>. QED BY <1>1, <1>6, <1>7, <1>8, <1>9 DEF Along, step

LEMMA SummaryOfNone == Summary(<<>>) = NoCounts
<1>1. <<>> \in Seq(Events) /\ Len(<<>>) = 0
  OBVIOUS
<1>2. PICK g : Along(g, NoCounts, CountsOf(<<>>), 0) /\ Summary(<<>>) = g[1..0]
  BY <1>1, SummaryFolds
<1>. QED BY <1>2, 1..0 = {} DEF Along

LEMMA SummaryOfMore ==
    ASSUME NEW s \in Seq(Events), NEW e \in Events
    PROVE  Summary(s) \in Totals /\ Summary(Append(s, e)) = Count(Summary(s), e)
<1>. DEFINE n == Len(s)
            more == Append(s, e)
<1>1. n \in Nat /\ n + 1 \in Nat /\ n <= n + 1
  BY LenProperties
<1>2. /\ more \in Seq(Events) /\ Len(more) = n + 1 /\ more[n + 1] = e
      /\ \A k \in 1..n : more[k] = s[k]
  BY AppendProperties
<1>. HIDE DEF more
<1>3. PICK g : /\ Along(g, NoCounts, CountsOf(s), n) /\ Summary(s) = g[1..n]
               /\ \A k \in 0..n : g[1..k] \in Totals
  BY SummaryFolds
<1>4. PICK h : Along(h, NoCounts, CountsOf(more), n + 1) /\ Summary(more) = h[1..n + 1]
  <2>. HIDE DEF n
  <2>. QED BY <1>2, SummaryFolds
<1>5. \A k \in 1..n : CountsOf(s)[k] = CountsOf(more)[k]
  <2>. HIDE DEF n
  <2>1. \A k \in 1..n : CountsOf(more)[k] = [t \in Totals |-> Count(t, more[k])]
    BY <1>1, <1>2 DEF CountsOf
  <2>2. \A k \in 1..n : CountsOf(s)[k] = [t \in Totals |-> Count(t, s[k])]
    BY DEF CountsOf, n
  <2>. QED BY <1>2, <2>1, <2>2
<1>6. g[1..n] = h[1..n]
  <2>. HIDE DEF n
  <2>. QED BY <1>1, <1>3, <1>4, <1>5, FoldsAgree
<1>7. h[1..n + 1] = CountsOf(more)[n + 1][h[1..n]]
  <2>1. n + 1 \in 1..n + 1 /\ (n + 1) - 1 = n
    BY <1>1
  <2>. QED BY <1>4, <2>1 DEF Along
<1>8. g[1..n] \in Totals
  BY <1>1, <1>3
<1>9. CountsOf(more)[n + 1] = [t \in Totals |-> Count(t, e)]
  <2>. HIDE DEF n
  <2>. QED BY <1>1, <1>2 DEF CountsOf
<1>. QED BY <1>3, <1>4, <1>6, <1>7, <1>8, <1>9 DEF more

\* The calls of a log with one more event.
LEMMA MoreCalls ==
    ASSUME NEW s \in Seq(Events), NEW e \in Events
    PROVE  LET more == Append(s, e) IN
           /\ StartedIn(more) = StartedIn(s) \cup (IF e.id \in CallId /\ e.status = "started" THEN {e.id} ELSE {})
           /\ EndedIn(more) = EndedIn(s) \cup (IF e.id \in CallId /\ IsEnd(e) THEN {e.id} ELSE {})
           /\ FailedIn(more) = FailedIn(s) \cup (IF e.id \in CallId /\ e.status = "failed" THEN {e.id} ELSE {})
           /\ ResultedIn(more) = ResultedIn(s) \cup (IF e.id \in CallId /\ e.type = "tool_result" THEN {e.id} ELSE {})
           /\ NamelessIn(more) = NamelessIn(s) \cup (IF e = ResultOf(NoId) THEN {Len(s) + 1} ELSE {})
           /\ Len(s) + 1 \notin NamelessIn(s)
<1>. DEFINE n == Len(s)
            more == Append(s, e)
<1>1. n \in Nat /\ DOMAIN s = 1..n
  BY LenProperties
<1>2. DOMAIN more = 1..n + 1 /\ more[n + 1] = e /\ \A i \in 1..n : more[i] = s[i]
  BY <1>1, AppendProperties, LenProperties
<1>3. DOMAIN more = DOMAIN s \cup {n + 1} /\ n + 1 \notin DOMAIN s /\ \A i \in DOMAIN s : more[i] = s[i]
  BY <1>1, <1>2
<1>. HIDE DEF n, more
<1>4. StartedIn(more) = StartedIn(s) \cup (IF e.id \in CallId /\ e.status = "started" THEN {e.id} ELSE {})
  BY <1>2, <1>3 DEF StartedIn
<1>5. EndedIn(more) = EndedIn(s) \cup (IF e.id \in CallId /\ IsEnd(e) THEN {e.id} ELSE {})
  BY <1>2, <1>3 DEF EndedIn
<1>6. FailedIn(more) = FailedIn(s) \cup (IF e.id \in CallId /\ e.status = "failed" THEN {e.id} ELSE {})
  BY <1>2, <1>3 DEF FailedIn
<1>7. ResultedIn(more) = ResultedIn(s) \cup (IF e.id \in CallId /\ e.type = "tool_result" THEN {e.id} ELSE {})
  BY <1>2, <1>3 DEF ResultedIn
<1>8. NamelessIn(more) = NamelessIn(s) \cup (IF e = ResultOf(NoId) THEN {n + 1} ELSE {})
  BY <1>2, <1>3 DEF NamelessIn
<1>9. n + 1 \notin NamelessIn(s)
  BY <1>3 DEF NamelessIn
<1>. QED BY <1>4, <1>5, <1>6, <1>7, <1>8, <1>9 DEF n, more

LEMMA AddsOne ==
    ASSUME NEW S, IsFiniteSet(S), NEW x, x \notin S
    PROVE  /\ IsFiniteSet(S \cup {x}) /\ Cardinality(S) \in Nat
           /\ Cardinality(S \cup {x}) = Cardinality(S) + 1
BY FS_AddElement, FS_CardinalityType

\* How the numbers of the totals are related, to the sizes of the sets of the log.
Balanced(completed, success, failure, both, nameless, failed) ==
    /\ completed \in Nat /\ success \in Nat /\ failure \in Nat
    /\ both \in Nat /\ nameless \in Nat /\ failed \in Nat
    /\ completed = both + nameless
    /\ success + failure = completed
    /\ failure <= failed

\* A success and a failure counted once, with what each adds to the log, keep the balance.
LEMMA BalanceKept ==
    ASSUME NEW c, NEW s, NEW f, NEW b, NEW n, NEW x, Balanced(c, s, f, b, n, x)
    PROVE  /\ Balanced(c + 1, s + 1, f, b + 1, n, x)
           /\ Balanced(c + 1, s + 1, f, b, n + 1, x)
           /\ Balanced(c + 1, s, f + 1, b + 1, n, x + 1)
           /\ Balanced(c, s, f, b, n, x + 1)
BY SMT DEF Balanced

\* An event that the adapter can still send keeps the totals right.
LEMMA CountKeepsTallies ==
    ASSUME NEW s \in Seq(Events), NEW e \in Events, \A i \in DOMAIN s : ~Alike(s[i], e),
           NEW t, AllFinite(s), Tallies(t, s)
    PROVE  AllFinite(Append(s, e)) /\ Tallies(Count(t, e), Append(s, e))
<1>. DEFINE more == Append(s, e)
            new == Count(t, e)
            Both(l) == EndedIn(l) \cup ResultedIn(l)
<1>1. new \in Totals
  BY CountTyped DEF Tallies
<1>2. /\ t.started \in Nat /\ t.completed \in Nat /\ t.success \in Nat /\ t.failure \in Nat
      /\ t \in Totals /\ t.ended = EndedIn(s) /\ t.resulted = ResultedIn(s)
      /\ t.started = Cardinality(StartedIn(s))
      /\ t.completed = Cardinality(Both(s)) + Cardinality(NamelessIn(s))
      /\ t.success + t.failure = t.completed
      /\ t.failure <= Cardinality(FailedIn(s))
  BY DEF Tallies, Totals
<1>3. /\ IsFiniteSet(StartedIn(s)) /\ IsFiniteSet(FailedIn(s)) /\ IsFiniteSet(NamelessIn(s))
      /\ IsFiniteSet(EndedIn(s)) /\ IsFiniteSet(ResultedIn(s))
      /\ IsFiniteSet(Both(s))
  BY FS_Union DEF AllFinite
<1>. DEFINE Even(q, l) == Balanced(q.completed, q.success, q.failure, Cardinality(Both(l)),
                                   Cardinality(NamelessIn(l)), Cardinality(FailedIn(l)))
<1>4. Even(t, s)
  <2>1. /\ Cardinality(FailedIn(s)) \in Nat /\ Cardinality(NamelessIn(s)) \in Nat
        /\ Cardinality(Both(s)) \in Nat
    BY <1>3, FS_CardinalityType
  <2>. QED BY <1>2, <2>1 DEF Balanced
<1>15. Even(new, more) => /\ new.success + new.failure = new.completed
                          /\ new.failure <= Cardinality(FailedIn(more))
                          /\ new.completed = Cardinality(Both(more)) + Cardinality(NamelessIn(more))
  BY DEF Balanced
<1>5. EndedIn(s) \subseteq CallId /\ ResultedIn(s) \subseteq CallId /\ FailedIn(s) \subseteq EndedIn(s)
  BY DEF EndedIn, ResultedIn, FailedIn, IsEnd
<1>6. NoId \notin CallId
  BY ViewsAssumption
<1>7. /\ StartedIn(more) = StartedIn(s) \cup (IF e.id \in CallId /\ e.status = "started" THEN {e.id} ELSE {})
      /\ EndedIn(more) = EndedIn(s) \cup (IF e.id \in CallId /\ IsEnd(e) THEN {e.id} ELSE {})
      /\ FailedIn(more) = FailedIn(s) \cup (IF e.id \in CallId /\ e.status = "failed" THEN {e.id} ELSE {})
      /\ ResultedIn(more) = ResultedIn(s) \cup
                               (IF e.id \in CallId /\ e.type = "tool_result" THEN {e.id} ELSE {})
      /\ NamelessIn(more) = NamelessIn(s) \cup (IF e = ResultOf(NoId) THEN {Len(s) + 1} ELSE {})
      /\ Len(s) + 1 \notin NamelessIn(s)
  BY MoreCalls
<1>8. /\ IsEnd(e) <=> e.status \in {"completed", "failed"}
      /\ e = ResultOf(NoId) => e.id = NoId /\ e.type = "tool_result"
  BY DEF IsEnd, ResultOf
<1>. HIDE DEF more, new
<1>9. ASSUME e.id \in CallId, e.status = "started", e.type = "tool_call", e = StartOf(e.id)
      PROVE  AllFinite(more) /\ Tallies(new, more)
  <2>1. /\ StartedIn(more) = StartedIn(s) \cup {e.id} /\ FailedIn(more) = FailedIn(s)
        /\ NamelessIn(more) = NamelessIn(s) /\ EndedIn(more) = EndedIn(s)
        /\ ResultedIn(more) = ResultedIn(s)
    BY <1>6, <1>9, <1>7, <1>8
  <2>2. e.id \notin StartedIn(s)
    <3>. SUFFICES ASSUME NEW i \in DOMAIN s, s[i].id = e.id, s[i].status = "started" PROVE FALSE
      BY DEF StartedIn
    <3>1. s[i] \in Events
      BY LenProperties, ElementOfSeq
    <3>2. s[i] = StartOf(e.id)
      BY <1>6, <1>9, <3>1, EventTyped
    <3>. QED BY <1>6, <1>9, <3>2 DEF Alike
  <2>3. new = [t EXCEPT !.started = @ + 1]
    BY <1>9 DEF new, Count, IsEnd
  <2>4. /\ new.started = t.started + 1 /\ new.completed = t.completed /\ new.success = t.success
        /\ new.failure = t.failure /\ new.ended = t.ended /\ new.resulted = t.resulted
    BY <1>2, <2>3 DEF Totals
  <2>5. AllFinite(more) /\ Cardinality(StartedIn(more)) = Cardinality(StartedIn(s)) + 1
    BY <1>3, <2>1, <2>2, AddsOne DEF AllFinite
  <2>. QED BY <1>1, <1>2, <2>1, <2>4, <2>5 DEF Tallies
<1>10. ASSUME e.id \in CallId, e.status \in {"completed", "failed"}, e.type = "tool_call"
      PROVE  AllFinite(more) /\ Tallies(new, more)
  <2>1. /\ StartedIn(more) = StartedIn(s)
        /\ FailedIn(more) = IF e.status = "failed" THEN FailedIn(s) \cup {e.id} ELSE FailedIn(s)
        /\ NamelessIn(more) = NamelessIn(s) /\ EndedIn(more) = EndedIn(s) \cup {e.id}
        /\ ResultedIn(more) = ResultedIn(s)
    BY <1>6, <1>10, <1>7, <1>8
  <2>2. e.id \notin EndedIn(s) /\ e.id \notin FailedIn(s)
    <3>1. e.id \notin EndedIn(s)
      BY <1>6, <1>10 DEF EndedIn, Alike, IsEnd
    <3>. QED BY <1>5, <3>1
  <2>3. new = CountEnd(t, e)
    BY <1>10 DEF new, Count, IsEnd
  <2>4. AllFinite(more)
    BY <1>3, <2>1, <2>2, AddsOne DEF AllFinite
  <2>5. CASE e.id \in t.resulted
    <3>1. /\ new.started = t.started /\ new.completed = t.completed /\ new.success = t.success
          /\ new.failure = t.failure /\ new.ended = t.ended \cup {e.id} /\ new.resulted = t.resulted
      BY <1>2, <2>3, <2>5 DEF CountEnd, Totals
    <3>2. Both(more) = Both(s)
      BY <1>2, <2>1, <2>5
    <3>3. Even(new, more)
      <4>1. \/ Cardinality(FailedIn(more)) = Cardinality(FailedIn(s))
            \/ Cardinality(FailedIn(more)) = Cardinality(FailedIn(s)) + 1
        BY <1>3, <2>1, <2>2, AddsOne
      <4>2. NamelessIn(more) = NamelessIn(s)
        BY <2>1
      <4>. HIDE DEF Both, new, more
      <4>. QED BY <1>4, <3>1, <3>2, <4>1, <4>2, BalanceKept
    <3>. QED BY <1>1, <1>15, <2>1, <2>4, <3>1, <3>3, <1>2 DEF Tallies
  <2>6. CASE e.id \notin t.resulted
    <3>1. /\ new.started = t.started /\ new.completed = t.completed + 1
          /\ new.success = IF e.status = "completed" THEN t.success + 1 ELSE t.success
          /\ new.failure = IF e.status = "failed" THEN t.failure + 1 ELSE t.failure
          /\ new.ended = t.ended \cup {e.id} /\ new.resulted = t.resulted
      BY <1>2, <1>6, <1>10, <2>3, <2>6 DEF CountEnd, Totals
    <3>2. Both(more) = Both(s) \cup {e.id} /\ e.id \notin Both(s)
      BY <1>2, <2>1, <2>2, <2>6
    <3>3. Cardinality(Both(more)) = Cardinality(Both(s)) + 1
      <4>. HIDE DEF Both
      <4>. QED BY <1>3, <3>2, AddsOne
    <3>4. Cardinality(FailedIn(more)) = IF e.status = "failed" THEN Cardinality(FailedIn(s)) + 1
                                        ELSE Cardinality(FailedIn(s))
      BY <1>3, <2>1, <2>2, AddsOne
    <3>5. Even(new, more)
      <4>1. NamelessIn(more) = NamelessIn(s)
        BY <2>1
      <4>. HIDE DEF Both, new, more
      <4>2. CASE e.status = "completed"
        <5>1. /\ new.success = t.success + 1 /\ new.failure = t.failure
              /\ Cardinality(FailedIn(more)) = Cardinality(FailedIn(s))
          BY <3>1, <3>4, <4>2
        <5>. QED BY <1>4, <3>1, <3>3, <4>1, <5>1, BalanceKept
      <4>3. CASE e.status = "failed"
        <5>1. /\ new.success = t.success /\ new.failure = t.failure + 1
              /\ Cardinality(FailedIn(more)) = Cardinality(FailedIn(s)) + 1
          BY <3>1, <3>4, <4>3
        <5>. QED BY <1>4, <3>1, <3>3, <4>1, <5>1, BalanceKept
      <4>. QED BY <1>10, <4>2, <4>3
    <3>. QED BY <1>1, <1>15, <1>2, <2>1, <2>4, <3>1, <3>5 DEF Tallies
  <2>. QED BY <2>5, <2>6
<1>11. ASSUME e.id \in CallId, e.status = "none", e.type = "tool_result", e = ResultOf(e.id)
      PROVE  AllFinite(more) /\ Tallies(new, more)
  <2>1. /\ StartedIn(more) = StartedIn(s) /\ FailedIn(more) = FailedIn(s)
        /\ NamelessIn(more) = NamelessIn(s) /\ EndedIn(more) = EndedIn(s)
        /\ ResultedIn(more) = ResultedIn(s) \cup {e.id}
    BY <1>6, <1>11, <1>7, <1>8
  <2>2. e.id \notin ResultedIn(s)
    <3>. SUFFICES ASSUME NEW i \in DOMAIN s, s[i].id = e.id, s[i].type = "tool_result" PROVE FALSE
      BY DEF ResultedIn
    <3>1. s[i] \in Events
      BY LenProperties, ElementOfSeq
    <3>2. s[i] = ResultOf(e.id)
      BY <1>6, <1>11, <3>1, EventTyped
    <3>. QED BY <1>6, <1>11, <3>2 DEF Alike
  <2>3. new = CountResult(t, e)
    BY <1>11 DEF new, Count, IsEnd
  <2>4. AllFinite(more)
    BY <1>3, <2>1, <2>2, AddsOne DEF AllFinite
  <2>5. CASE e.id \in t.ended
    <3>1. /\ new.started = t.started /\ new.completed = t.completed /\ new.success = t.success
          /\ new.failure = t.failure /\ new.ended = t.ended /\ new.resulted = t.resulted \cup {e.id}
      BY <1>2, <2>3, <2>5 DEF CountResult, Totals
    <3>2. Both(more) = Both(s)
      BY <1>2, <2>1, <2>5
    <3>. QED BY <1>1, <1>2, <2>1, <2>4, <3>1, <3>2 DEF Tallies
  <2>6. CASE e.id \notin t.ended
    <3>1. /\ new.started = t.started /\ new.completed = t.completed + 1
          /\ new.success = t.success + 1 /\ new.failure = t.failure
          /\ new.ended = t.ended /\ new.resulted = t.resulted \cup {e.id}
      BY <1>2, <1>6, <1>11, <2>3, <2>6 DEF CountResult, Totals
    <3>2. Both(more) = Both(s) \cup {e.id} /\ e.id \notin Both(s)
      BY <1>2, <2>1, <2>2, <2>6
    <3>3. Cardinality(Both(more)) = Cardinality(Both(s)) + 1
      <4>. HIDE DEF Both
      <4>. QED BY <1>3, <3>2, AddsOne
    <3>4. Even(new, more)
      <4>1. NamelessIn(more) = NamelessIn(s) /\ FailedIn(more) = FailedIn(s)
        BY <2>1
      <4>. HIDE DEF Both, new, more
      <4>. QED BY <1>4, <3>1, <3>3, <4>1, BalanceKept
    <3>. QED BY <1>1, <1>15, <1>2, <2>1, <2>4, <3>1, <3>4 DEF Tallies
  <2>. QED BY <2>5, <2>6
<1>12. ASSUME e.id = NoId, e.status = "none", e.type = "tool_result", e = ResultOf(NoId)
       PROVE  AllFinite(more) /\ Tallies(new, more)
  <2>1. /\ StartedIn(more) = StartedIn(s) /\ FailedIn(more) = FailedIn(s)
        /\ NamelessIn(more) = NamelessIn(s) \cup {Len(s) + 1} /\ Len(s) + 1 \notin NamelessIn(s)
        /\ EndedIn(more) = EndedIn(s) /\ ResultedIn(more) = ResultedIn(s)
    BY <1>6, <1>12, <1>7, <1>8
  <2>2. new = CountResult(t, e) /\ e.id \notin t.ended
    BY <1>2, <1>5, <1>6, <1>12 DEF new, Count, IsEnd
  <2>3. AllFinite(more) /\ Cardinality(NamelessIn(more)) = Cardinality(NamelessIn(s)) + 1
    BY <1>3, <2>1, AddsOne DEF AllFinite
  <2>4. /\ new.started = t.started /\ new.completed = t.completed + 1
        /\ new.success = t.success + 1 /\ new.failure = t.failure
        /\ new.ended = t.ended /\ new.resulted = t.resulted
    BY <1>2, <1>12, <2>2 DEF CountResult, Totals
  <2>5. Even(new, more)
    <3>1. Both(more) = Both(s) /\ FailedIn(more) = FailedIn(s)
      BY <2>1
    <3>. HIDE DEF Both, new, more
    <3>. QED BY <1>4, <2>3, <2>4, <3>1, BalanceKept
  <2>. QED BY <1>1, <1>15, <1>2, <2>1, <2>3, <2>4, <2>5 DEF Tallies
<1>13. ASSUME e.id = NoId, e.status = "none", e.type \notin {"tool_call", "tool_result"}
       PROVE  AllFinite(more) /\ Tallies(new, more)
  <2>1. /\ StartedIn(more) = StartedIn(s) /\ FailedIn(more) = FailedIn(s)
        /\ NamelessIn(more) = NamelessIn(s) /\ EndedIn(more) = EndedIn(s)
        /\ ResultedIn(more) = ResultedIn(s)
    BY <1>6, <1>13, <1>7, <1>8
  <2>2. new = t
    BY <1>13 DEF new, Count, IsEnd
  <2>. QED BY <1>2, <1>3, <2>1, <2>2 DEF Tallies, AllFinite
<1>. QED BY <1>9, <1>10, <1>11, <1>12, <1>13, EventTyped DEF more, new

LEMMA ViewsInitially == ViewsInit => ViewsInv
<1>. SUFFICES ASSUME ViewsInit PROVE ViewsInv
  OBVIOUS
<1>1. log = <<>> /\ log \in Seq(Events) /\ DOMAIN log = {}
  BY DEF ViewsInit
<1>2. /\ StartedIn(log) = {} /\ EndedIn(log) = {} /\ FailedIn(log) = {}
      /\ ResultedIn(log) = {} /\ NamelessIn(log) = {}
  BY <1>1 DEF StartedIn, EndedIn, FailedIn, ResultedIn, NamelessIn
<1>3. IsFiniteSet({}) /\ Cardinality({}) = 0 /\ {} \cup {} = {}
  BY FS_EmptySet
<1>4. Summary(log) = NoCounts
  BY <1>1, SummaryOfNone
<1>5. Tallies(NoCounts, log)
  BY <1>2, <1>3, NoCountsTyped DEF Tallies, NoCounts
<1>. QED BY <1>1, <1>2, <1>3, <1>4, <1>5 DEF ViewsInv, AllFinite

LEMMA ViewsNextKeeps == ViewsInv /\ [ViewsNext]_viewsVars => ViewsInv'
<1>. SUFFICES ASSUME ViewsInv, [ViewsNext]_viewsVars PROVE ViewsInv'
  OBVIOUS
<1>1. ASSUME NEW e \in Events, Happens(e) PROVE ViewsInv'
  <2>1. log' = Append(log, e) /\ log \in Seq(Events)
    BY <1>1 DEF Happens, ViewsInv
  <2>2. log' \in Seq(Events)
    BY <2>1, AppendProperties
  <2>3. \A i \in DOMAIN log : ~Alike(log[i], e)
    BY <1>1, EventTyped DEF Happens, IsTool, Alike
  <2>4. Summary(log') = Count(Summary(log), e)
    BY <2>1, SummaryOfMore
  <2>5. AllFinite(log') /\ Tallies(Summary(log'), log')
    BY <2>1, <2>3, <2>4, CountKeepsTallies DEF ViewsInv
  <2>. QED BY <2>2, <2>5 DEF ViewsInv
<1>2. CASE UNCHANGED viewsVars
  <2>1. log' = log
    BY <1>2 DEF viewsVars
  <2>. QED BY <2>1 DEF ViewsInv
<1>. QED BY <1>1, <1>2 DEF ViewsNext, Events

\* Every tool call of a log counts once as started and once as completed,
\* whatever of it is missing and whatever lies between
\* (summarizeExecutionEvents(), src/events/store.ts:30-92).
THEOREM CallsAreCountedOnce == ViewsSpec => []CallsCountOnce
<1>1. ViewsInv => CallsCountOnce
  <2>. SUFFICES ASSUME ViewsInv PROVE CallsCountOnce
    OBVIOUS
  <2>1. Tallies(Summary(log), log)
    BY DEF ViewsInv
  <2>2. Calls(LAMBDA e : IsEnd(e) \/ e.type = "tool_result") = EndedIn(log) \cup ResultedIn(log)
    BY DEF Calls, EndedIn, ResultedIn
  <2>3. /\ Calls(LAMBDA e : e.status = "started") = StartedIn(log)
        /\ Calls(LAMBDA e : e.status = "failed") = FailedIn(log)
    BY DEF Calls, StartedIn, FailedIn
  <2>. QED BY <2>1, <2>2, <2>3 DEF CallsCountOnce, Tallies, NoIdResults, NamelessIn
<1>. QED BY <1>1, ViewsInitially, ViewsNextKeeps, PTL DEF ViewsSpec

-----------------------------------------------------------------------------
(* EventViews: buildExecutionTimeline() over every log of a run. A fold is *)
(* followed from event to event: what it has come to holds the log so far. *)

\* The members of S up to k, in their order.
Ascent(S, k) == FlattenSeq([i \in 1..k |-> IF i \in S THEN <<i>> ELSE <<>>])

WordsIn(s) == { i \in DOMAIN s : s[i].type = "word" }
NoBreaksIn(s) == { i \in DOMAIN s : s[i].type # "newline" }

\* One number more.
LEMMA AscentGoesOn ==
    ASSUME NEW S, NEW k \in Nat
    PROVE  /\ Ascent(S, k) \in Seq(Nat) /\ Ascent(S, 0) = <<>>
           /\ k + 1 \in S => Ascent(S, k + 1) = Ascent(S, k) \o <<k + 1>>
           /\ k + 1 \notin S => Ascent(S, k + 1) = Ascent(S, k)
<1>. DEFINE Part(m) == [i \in 1..m |-> IF i \in S THEN <<i>> ELSE <<>>]
            x == IF k + 1 \in S THEN <<k + 1>> ELSE <<>>
<1>1. ASSUME NEW m \in Nat
      PROVE  Part(m) \in Seq(Seq(Nat)) /\ Len(Part(m)) = m /\ \A i \in 1..m : Part(m)[i] = IF i \in S THEN <<i>> ELSE <<>>
  <2>1. \A i \in 1..m : (IF i \in S THEN <<i>> ELSE <<>>) \in Seq(Nat)
    OBVIOUS
  <2>2. Part(m) \in [1..m -> Seq(Nat)]
    BY <2>1
  <2>3. Part(m) \in Seq(Seq(Nat)) /\ Len(Part(m)) = m
    BY <2>2
  <2>. QED BY <2>3
<1>2. x \in Seq(Nat) /\ k + 1 \in Nat
  OBVIOUS
<1>3. Part(k + 1) = Append(Part(k), x)
  <2>1. /\ Part(k) \in Seq(Seq(Nat)) /\ Len(Part(k)) = k
        /\ \A i \in 1..k : Part(k)[i] = IF i \in S THEN <<i>> ELSE <<>>
    BY <1>1
  <2>2. /\ Part(k + 1) \in Seq(Seq(Nat)) /\ Len(Part(k + 1)) = k + 1
        /\ \A i \in 1..k + 1 : Part(k + 1)[i] = IF i \in S THEN <<i>> ELSE <<>>
    BY <1>1, <1>2
  <2>. HIDE DEF Part
  <2>3. /\ Append(Part(k), x) \in Seq(Seq(Nat)) /\ Len(Append(Part(k), x)) = k + 1
        /\ \A i \in 1..k : Append(Part(k), x)[i] = Part(k)[i]
        /\ Append(Part(k), x)[k + 1] = x
    <3>. HIDE DEF x
    <3>. QED BY <1>2, <2>1, AppendProperties
  <2>4. ASSUME NEW i \in 1..k + 1 PROVE Part(k + 1)[i] = Append(Part(k), x)[i]
    <3>1. CASE i = k + 1
      BY <2>2, <2>3, <3>1
    <3>2. CASE i # k + 1
      <4>1. i \in 1..k
        BY <3>2
      <4>. QED BY <2>1, <2>2, <2>3, <4>1
    <3>. QED BY <3>1, <3>2
  <2>. HIDE DEF x
  <2>. QED BY <2>2, <2>3, <2>4, SeqEqual
<1>4. \A m \in Nat : Ascent(S, m) = FlattenSeq(Part(m))
  BY DEF Ascent
<1>5. Part(k) \in Seq(Seq(Nat))
  BY <1>1
<1>6. Part(0) = <<>>
  OBVIOUS
<1>. HIDE DEF Part
<1>7. Ascent(S, k) \in Seq(Nat)
  BY <1>4, <1>5, FlattenTyped
<1>8. Ascent(S, 0) = <<>>
  BY <1>4, <1>6, FlattenNone
<1>9. Ascent(S, k + 1) = Ascent(S, k) \o x
  <2>. HIDE DEF x
  <2>1. FlattenSeq(Append(Part(k), x)) = FlattenSeq(Part(k)) \o x
    BY <1>2, <1>5, FlattenMore
  <2>. QED BY <1>2, <1>3, <1>4, <2>1
<1>10. Ascent(S, k) \o <<>> = Ascent(S, k)
  BY <1>7, ConcatEmptySeq
<1>. QED BY <1>7, <1>8, <1>9, <1>10

\* The transcript and what the items must hold, as sets of positions.
LEMMA PositionsAscend ==
    ASSUME NEW s \in Seq(Events)
    PROVE  /\ Transcript(s) = Ascent(WordsIn(s), Len(s))
           /\ PositionsOf(s, LAMBDA e : e.type # "newline") = Ascent(NoBreaksIn(s), Len(s))
<1>1. DOMAIN s = 1..Len(s)
  BY LenProperties
<1>2. [i \in DOMAIN s |-> IF s[i].type = "word" THEN <<i>> ELSE <<>>]
        = [i \in 1..Len(s) |-> IF i \in WordsIn(s) THEN <<i>> ELSE <<>>]
  BY <1>1 DEF WordsIn
<1>3. [i \in DOMAIN s |-> IF s[i].type # "newline" THEN <<i>> ELSE <<>>]
        = [i \in 1..Len(s) |-> IF i \in NoBreaksIn(s) THEN <<i>> ELSE <<>>]
  BY <1>1 DEF NoBreaksIn
<1>. QED BY <1>2, <1>3 DEF Transcript, PositionsOf, Ascent

-----------------------------------------------------------------------------

\* A line break adds nothing to the paragraphs, and a word itself, at the end.
LEMMA ParagraphGoesOn ==
    ASSUME NEW events, NEW buffer \in Seq(Nat), NEW parts \in Seq(Seq(Nat)), NEW k \in 1..Len(buffer)
    PROVE  LET longer == AddToParagraphs(events, buffer, parts, k) IN
           /\ longer \in Seq(Seq(Nat))
           /\ events[buffer[k]].type = "newline" => FlattenSeq(longer) = FlattenSeq(parts)
           /\ events[buffer[k]].type # "newline" =>
                 FlattenSeq(longer) = FlattenSeq(parts) \o <<buffer[k]>>
<1>. DEFINE i == buffer[k]
            longer == AddToParagraphs(events, buffer, parts, k)
            began == Append(parts, <<i>>)
            went == [parts EXCEPT ![Len(parts)] = Append(@, i)]
<1>1. i \in Nat /\ <<i>> \in Seq(Nat)
  <2>1. i \in Nat
    BY ElementOfSeq
  <2>. QED BY <2>1
<1>2. /\ events[i].type = "newline" => longer = parts
      /\ events[i].type # "newline" => longer = began \/ (parts # <<>> /\ longer = went)
  BY DEF AddToParagraphs
<1>3. began \in Seq(Seq(Nat)) /\ FlattenSeq(began) = FlattenSeq(parts) \o <<i>>
  <2>. HIDE DEF i
  <2>. QED BY <1>1, AppendProperties, FlattenMore
<1>4. parts # <<>> => went \in Seq(Seq(Nat)) /\ FlattenSeq(went) = FlattenSeq(parts) \o <<i>>
  <2>. HIDE DEF i
  <2>. QED BY <1>1, FlattenLonger
<1>. HIDE DEF longer, began, went
<1>5. /\ longer \in Seq(Seq(Nat))
      /\ events[i].type = "newline" => FlattenSeq(longer) = FlattenSeq(parts)
      /\ events[i].type # "newline" => FlattenSeq(longer) = FlattenSeq(parts) \o <<i>>
  BY <1>2, <1>3, <1>4
<1>. QED BY <1>5 DEF longer

\* Paragraphs() adds one position after the other.
LEMMA ParagraphsFold ==
    ASSUME NEW events, NEW buffer \in Seq(Nat)
    PROVE  \E g : /\ g[{}] = <<>>
                  /\ \A k \in 1..Len(buffer) :
                       g[1..k] = AddToParagraphs(events, buffer, g[1..(k - 1)], k)
                  /\ Paragraphs(events, buffer) = g[1..Len(buffer)]
<1>. DEFINE n == Len(buffer)
            D == Seq(Seq(Nat))
            step == [k \in 1..n |-> [p \in D |-> AddToParagraphs(events, buffer, p, k)]]
            ks == [k \in DOMAIN buffer |-> k]
            IsFold(g) == g = [T \in SUBSET DOMAIN ks |->
                                IF T = {} THEN <<>>
                                ELSE AddToParagraphs(events, buffer, g[T \ {Max(T)}], ks[Max(T)])]
            g == CHOOSE g : IsFold(g)
<1>1. n \in Nat /\ DOMAIN buffer = 1..n /\ DOMAIN ks = 1..n /\ \A k \in 1..n : ks[k] = k
  BY LenProperties
<1>2. step \in [1..n -> [D -> D]] /\ <<>> \in D
  <2>1. ASSUME NEW k \in 1..n, NEW p \in D PROVE AddToParagraphs(events, buffer, p, k) \in D
    BY ParagraphGoesOn
  <2>. QED BY <2>1
<1>3. \A k \in 1..n, p \in D : step[k][p] = AddToParagraphs(events, buffer, p, ks[k])
  OBVIOUS
<1>4. PICK h : IsFold(h)
  <2>. HIDE DEF n, D
  <2>1. PICK h \in [SUBSET (1..n) -> D] : Folds(h, <<>>, step, n)
    <3>. HIDE DEF step
    <3>. QED BY <1>1, <1>2, FoldExists
  <2>2. ASSUME NEW T \in SUBSET (1..n)
        PROVE  h[T] = IF T = {} THEN <<>>
                      ELSE AddToParagraphs(events, buffer, h[T \ {Max(T)}], ks[Max(T)])
    <3>1. h[T] = IF T = {} THEN <<>> ELSE step[Max(T)][h[T \ {Max(T)}]]
      BY <2>1 DEF Folds
    <3>2. T # {} => Max(T) \in 1..n /\ h[T \ {Max(T)}] \in D
      <4>. HIDE DEF step, ks
      <4>. QED BY <1>1, <2>1, MaxOfIndices
    <3>. HIDE DEF step, ks
    <3>. QED BY <1>3, <3>1, <3>2
  <2>3. h = [T \in SUBSET (1..n) |-> h[T]]
    BY <2>1
  <2>. HIDE DEF ks
  <2>4. IsFold(h)
    BY <1>1, <2>2, <2>3
  <2>. QED BY <2>4
<1>5. IsFold(g)
  BY <1>4
<1>6. Paragraphs(events, buffer) = g[DOMAIN ks]
  BY DEF Paragraphs, FoldLeft, MapThenFoldSet
<1>. HIDE DEF g, step, ks
<1>7. g[{}] = <<>>
  BY <1>5
<1>8. ASSUME NEW k \in 1..n PROVE g[1..k] = AddToParagraphs(events, buffer, g[1..(k - 1)], k)
  <2>1. Max(1..k) = k /\ (1..k) \ {k} = 1..(k - 1) /\ 1..k \in SUBSET (1..n) /\ 1..k # {}
    <3>. HIDE DEF n
    <3>. QED BY <1>1, LastIndex
  <2>2. ks[k] = k
    BY <1>1
  <2>. HIDE DEF n
  <2>3. \A T \in SUBSET (1..n) : T # {} =>
           g[T] = AddToParagraphs(events, buffer, g[T \ {Max(T)}], ks[Max(T)])
    BY <1>1, <1>5
  <2>. QED BY <2>1, <2>2, <2>3
<1>. QED BY <1>1, <1>6, <1>7, <1>8

\* A buffer holds what was streamed behind b: its words, and only them, are
\* what the paragraphs have in the order of the log.
LEMMA ParagraphsHold ==
    ASSUME NEW events, NEW buffer \in Seq(Nat), NEW b \in Nat, NEW S,
           \A k \in 1..Len(buffer) :
               buffer[k] = b + k /\ (b + k \in S <=> events[b + k].type # "newline")
    PROVE  LET parts == Paragraphs(events, buffer) IN
           /\ parts \in Seq(Seq(Nat)) /\ (buffer = <<>> => parts = <<>>)
           /\ Ascent(S, b) \o FlattenSeq(parts) = Ascent(S, b + Len(buffer))
<1>. DEFINE n == Len(buffer)
            J == [k \in 0..n |-> { parts \in Seq(Seq(Nat)) :
                                     Ascent(S, b) \o FlattenSeq(parts) = Ascent(S, b + k) }]
            parts == Paragraphs(events, buffer)
<1>1. n \in Nat
  BY LenProperties
<1>2. PICK g : /\ g[{}] = <<>>
               /\ \A k \in 1..n : g[1..k] = AddToParagraphs(events, buffer, g[1..(k - 1)], k)
               /\ parts = g[1..n]
  BY ParagraphsFold
<1>3. <<>> \in J[0]
  <2>1. Ascent(S, b) \o <<>> = Ascent(S, b) /\ <<>> \in Seq(Seq(Nat)) /\ b + 0 = b
    <3>1. Ascent(S, b) \in Seq(Nat)
      BY AscentGoesOn
    <3>. QED BY <3>1, ConcatEmptySeq
  <2>2. 0 \in 0..n /\ FlattenSeq(<<>>) = <<>>
    BY <1>1, FlattenNone
  <2>. HIDE DEF n
  <2>. QED BY <2>1, <2>2
<1>4. ASSUME NEW k \in 1..n, NEW p \in J[k - 1]
      PROVE  AddToParagraphs(events, buffer, p, k) \in J[k]
  <2>1. k - 1 \in 0..n /\ k \in 0..n /\ b + (k - 1) \in Nat /\ (b + (k - 1)) + 1 = b + k /\ b + k \in Nat
    BY <1>1
  <2>2. p \in Seq(Seq(Nat)) /\ Ascent(S, b) \o FlattenSeq(p) = Ascent(S, b + (k - 1))
    BY <2>1
  <2>. DEFINE longer == AddToParagraphs(events, buffer, p, k)
  <2>3. buffer[k] = b + k /\ (b + k \in S <=> events[b + k].type # "newline")
    OBVIOUS
  <2>4. /\ longer \in Seq(Seq(Nat))
        /\ b + k \notin S => FlattenSeq(longer) = FlattenSeq(p)
        /\ b + k \in S => FlattenSeq(longer) = FlattenSeq(p) \o <<b + k>>
    <3>1. p \in Seq(Seq(Nat))
      BY <2>2
    <3>2. /\ longer \in Seq(Seq(Nat))
          /\ events[buffer[k]].type = "newline" => FlattenSeq(longer) = FlattenSeq(p)
          /\ events[buffer[k]].type # "newline" =>
                FlattenSeq(longer) = FlattenSeq(p) \o <<buffer[k]>>
      BY <3>1, ParagraphGoesOn
    <3>. HIDE DEF longer
    <3>. QED BY <2>3, <3>2
  <2>5. /\ b + k \in S => Ascent(S, b + k) = Ascent(S, b + (k - 1)) \o <<b + k>>
        /\ b + k \notin S => Ascent(S, b + k) = Ascent(S, b + (k - 1))
    BY <2>1, AscentGoesOn
  <2>6. (Ascent(S, b) \o FlattenSeq(p)) \o <<b + k>> = Ascent(S, b) \o (FlattenSeq(p) \o <<b + k>>)
    <3>1. p \in Seq(Seq(Nat)) /\ b + k \in Nat
      BY <2>1, <2>2
    <3>2. Ascent(S, b) \in Seq(Nat)
      BY AscentGoesOn
    <3>. DEFINE flat == FlattenSeq(p)
    <3>3. flat \in Seq(Nat)
      BY <3>1, FlattenTyped
    <3>. DEFINE before == Ascent(S, b)
                i == b + k
    <3>4. before \in Seq(Nat) /\ i \in Nat
      BY <3>1, <3>2
    <3>. HIDE DEF flat, before, i, J, n, longer, parts
    <3>5. (before \o flat) \o <<i>> = before \o (flat \o <<i>>)
      BY <3>3, <3>4, ConcatOne
    <3>. QED BY <3>5 DEF flat, before, i
  <2>. HIDE DEF longer
  <2>7. Ascent(S, b) \o FlattenSeq(longer) = Ascent(S, b + k)
    <3>1. CASE b + k \in S
      BY <2>2, <2>4, <2>5, <2>6, <3>1
    <3>2. CASE b + k \notin S
      BY <2>2, <2>4, <2>5, <3>2
    <3>. QED BY <3>1, <3>2
  <2>. QED BY <2>1, <2>4, <2>7 DEF longer
<1>5. parts \in J[n]
  <2>. HIDE DEF J, n, parts
  <2>1. g[{}] \in J[0]
    BY <1>2, <1>3
  <2>2. \A k \in 1..n : g[1..(k - 1)] \in J[k - 1] => g[1..k] \in J[k]
    BY <1>2, <1>4
  <2>. QED BY <1>1, <1>2, <2>1, <2>2, FoldKeeps
<1>6. buffer = <<>> => parts = <<>>
  <2>1. buffer = <<>> => n = 0
    OBVIOUS
  <2>2. 1..0 = {}
    OBVIOUS
  <2>. HIDE DEF n, parts
  <2>. QED BY <1>2, <2>1, <2>2
<1>. QED BY <1>1, <1>5, <1>6

\* Whatever the buffer holds.
LEMMA ParagraphsTyped ==
    ASSUME NEW events, NEW buffer \in Seq(Nat)
    PROVE  /\ Paragraphs(events, buffer) \in Seq(Seq(Nat))
           /\ buffer = <<>> => Paragraphs(events, buffer) = <<>>
<1>. DEFINE n == Len(buffer)
            J == [k \in 0..n |-> Seq(Seq(Nat))]
            parts == Paragraphs(events, buffer)
<1>1. n \in Nat
  BY LenProperties
<1>2. PICK g : /\ g[{}] = <<>>
               /\ \A k \in 1..n : g[1..k] = AddToParagraphs(events, buffer, g[1..(k - 1)], k)
               /\ parts = g[1..n]
  BY ParagraphsFold
<1>3. \A k \in 0..n : J[k] = Seq(Seq(Nat))
  OBVIOUS
<1>4. 0 \in 0..n /\ n \in 0..n /\ \A k \in 1..n : k \in 0..n /\ k - 1 \in 0..n
  BY <1>1
<1>5. g[{}] \in J[0]
  BY <1>2, <1>3, <1>4
<1>6. ASSUME NEW k \in 1..n, g[1..(k - 1)] \in J[k - 1] PROVE g[1..k] \in J[k]
  <2>1. g[1..(k - 1)] \in Seq(Seq(Nat))
    BY <1>3, <1>4, <1>6
  <2>2. AddToParagraphs(events, buffer, g[1..(k - 1)], k) \in Seq(Seq(Nat))
    BY <2>1, ParagraphGoesOn
  <2>. QED BY <1>2, <1>3, <1>4, <2>2
<1>7. g[1..n] \in J[n]
  <2>. HIDE DEF J, n, parts
  <2>. QED BY <1>1, <1>5, <1>6, FoldKeeps
<1>8. buffer = <<>> => parts = <<>>
  <2>1. buffer = <<>> => n = 0
    OBVIOUS
  <2>2. 1..0 = {}
    OBVIOUS
  <2>. HIDE DEF n, parts
  <2>. QED BY <1>2, <2>1, <2>2
<1>. QED BY <1>2, <1>3, <1>4, <1>7, <1>8

-----------------------------------------------------------------------------

\* What the timeline keeps: the items so far and the positions it buffers.
Kinds == {"progress"} \cup { e.type : e \in Events }
Items == [kind : Kinds, id : Kinds \X Nat \X Nat, content : Seq(Nat)]
Reads == [items : Seq(Items), buffer : Seq(Nat)]

\* What each item adds to Contents() and to Progress().
Shown(items) == [k \in DOMAIN items |-> items[k].content]
ShownProgress(items) ==
    [k \in DOMAIN items |-> IF items[k].kind = "progress" THEN items[k].content ELSE <<>>]

\* Contents() and Progress() flatten what each item shows.
LEMMA ShownTyped ==
    ASSUME NEW items \in Seq(Items)
    PROVE  /\ Shown(items) \in Seq(Seq(Nat)) /\ Len(Shown(items)) = Len(items)
           /\ ShownProgress(items) \in Seq(Seq(Nat)) /\ Len(ShownProgress(items)) = Len(items)
           /\ \A k \in 1..Len(items) :
                /\ Shown(items)[k] = items[k].content
                /\ ShownProgress(items)[k]
                     = IF items[k].kind = "progress" THEN items[k].content ELSE <<>>
<1>1. DOMAIN items = 1..Len(items) /\ Len(items) \in Nat
  BY LenProperties
<1>2. \A k \in 1..Len(items) : items[k].content \in Seq(Nat)
  <2>1. \A k \in 1..Len(items) : items[k] \in Items
    BY ElementOfSeq
  <2>. QED BY <2>1 DEF Items
<1>. DEFINE n == Len(items)
<1>3. <<>> \in Seq(Nat)
  OBVIOUS
<1>4. Shown(items) \in [1..n -> Seq(Nat)] /\ ShownProgress(items) \in [1..n -> Seq(Nat)]
  BY <1>1, <1>2, <1>3 DEF Shown, ShownProgress
<1>5. /\ Shown(items) \in Seq(Seq(Nat)) /\ Len(Shown(items)) = n
      /\ ShownProgress(items) \in Seq(Seq(Nat)) /\ Len(ShownProgress(items)) = n
  <2>. HIDE DEF n
  <2>1. n \in Nat
    BY <1>1 DEF n
  <2>. QED BY <1>4, <2>1
<1>. QED BY <1>1, <1>5 DEF Shown, ShownProgress

\* Items behind items show theirs behind.
LEMMA ContentsBoth ==
    ASSUME NEW items \in Seq(Items), NEW more \in Seq(Items)
    PROVE  /\ Contents(items) \in Seq(Nat) /\ Progress(items) \in Seq(Nat)
           /\ Contents(items \o more) = Contents(items) \o Contents(more)
           /\ Progress(items \o more) = Progress(items) \o Progress(more)
<1>. DEFINE n == Len(items)
            m == Len(more)
            all == items \o more
<1>1. /\ n \in Nat /\ m \in Nat /\ all \in Seq(Items) /\ Len(all) = n + m
      /\ \A k \in 1..n + m : all[k] = IF k <= n THEN items[k] ELSE more[k - n]
  BY LenProperties, ConcatProperties
<1>. HIDE DEF all
<1>2. /\ Shown(items) \in Seq(Seq(Nat)) /\ Len(Shown(items)) = n
      /\ ShownProgress(items) \in Seq(Seq(Nat)) /\ Len(ShownProgress(items)) = n
      /\ Shown(more) \in Seq(Seq(Nat)) /\ Len(Shown(more)) = m
      /\ ShownProgress(more) \in Seq(Seq(Nat)) /\ Len(ShownProgress(more)) = m
      /\ Shown(all) \in Seq(Seq(Nat)) /\ Len(Shown(all)) = n + m
      /\ ShownProgress(all) \in Seq(Seq(Nat)) /\ Len(ShownProgress(all)) = n + m
  BY <1>1, ShownTyped
<1>. DEFINE both == Shown(items) \o Shown(more)
            bothProgress == ShownProgress(items) \o ShownProgress(more)
<1>3. /\ both \in Seq(Seq(Nat)) /\ Len(both) = n + m
      /\ \A k \in 1..n + m : both[k] = IF k <= n THEN Shown(items)[k] ELSE Shown(more)[k - n]
  <2>1. /\ Shown(items) \in Seq(Seq(Nat)) /\ Shown(more) \in Seq(Seq(Nat))
        /\ Len(Shown(items)) = n /\ Len(Shown(more)) = m
    BY <1>2
  <2>. HIDE DEF n, m
  <2>2. /\ Shown(items) \o Shown(more) \in Seq(Seq(Nat))
        /\ Len(Shown(items) \o Shown(more)) = Len(Shown(items)) + Len(Shown(more))
        /\ \A k \in 1..Len(Shown(items)) + Len(Shown(more)) :
             (Shown(items) \o Shown(more))[k]
               = IF k <= Len(Shown(items)) THEN Shown(items)[k] ELSE Shown(more)[k - Len(Shown(items))]
    BY <2>1, ConcatProperties
  <2>. QED BY <2>1, <2>2
<1>4. /\ bothProgress \in Seq(Seq(Nat)) /\ Len(bothProgress) = n + m
      /\ \A k \in 1..n + m :
           bothProgress[k] = IF k <= n THEN ShownProgress(items)[k] ELSE ShownProgress(more)[k - n]
  <2>1. /\ ShownProgress(items) \in Seq(Seq(Nat)) /\ ShownProgress(more) \in Seq(Seq(Nat))
        /\ Len(ShownProgress(items)) = n /\ Len(ShownProgress(more)) = m
    BY <1>2
  <2>. HIDE DEF n, m
  <2>2. /\ ShownProgress(items) \o ShownProgress(more) \in Seq(Seq(Nat))
        /\ Len(ShownProgress(items) \o ShownProgress(more)) = Len(ShownProgress(items)) + Len(ShownProgress(more))
        /\ \A k \in 1..Len(ShownProgress(items)) + Len(ShownProgress(more)) :
             (ShownProgress(items) \o ShownProgress(more))[k]
               = IF k <= Len(ShownProgress(items)) THEN ShownProgress(items)[k] ELSE ShownProgress(more)[k - Len(ShownProgress(items))]
    BY <2>1, ConcatProperties
  <2>. QED BY <2>1, <2>2
<1>. HIDE DEF both, bothProgress
<1>5. ASSUME NEW k \in 1..n + m
      PROVE  Shown(all)[k] = both[k] /\ ShownProgress(all)[k] = bothProgress[k]
  <2>1. /\ Shown(all)[k] = all[k].content
        /\ ShownProgress(all)[k] = IF all[k].kind = "progress" THEN all[k].content ELSE <<>>
    BY <1>1, ShownTyped
  <2>2. CASE k <= n
    <3>1. k \in 1..n
      BY <1>1, <2>2
    <3>2. /\ Shown(items)[k] = items[k].content
          /\ ShownProgress(items)[k] = IF items[k].kind = "progress" THEN items[k].content ELSE <<>>
      BY <3>1, ShownTyped
    <3>. QED BY <1>1, <1>3, <1>4, <2>1, <2>2, <3>2
  <2>3. CASE ~(k <= n)
    <3>1. k - n \in 1..m
      BY <1>1, <2>3
    <3>. DEFINE j == k - n
    <3>2. j \in 1..Len(more)
      BY <3>1
    <3>. HIDE DEF j
    <3>3. /\ Shown(more)[j] = more[j].content
          /\ ShownProgress(more)[j] = IF more[j].kind = "progress" THEN more[j].content ELSE <<>>
      BY <3>2, ShownTyped
    <3>4. all[k] = more[j] /\ both[k] = Shown(more)[j] /\ bothProgress[k] = ShownProgress(more)[j]
      BY <1>1, <1>3, <1>4, <2>3 DEF j
    <3>. QED BY <2>1, <3>3, <3>4
  <2>. QED BY <2>2, <2>3
<1>6. Shown(all) = both /\ ShownProgress(all) = bothProgress
  BY <1>2, <1>3, <1>4, <1>5, SeqEqual
<1>7. /\ FlattenSeq(both) = FlattenSeq(Shown(items)) \o FlattenSeq(Shown(more))
      /\ FlattenSeq(bothProgress) = FlattenSeq(ShownProgress(items)) \o FlattenSeq(ShownProgress(more))
  BY <1>2, FlattenBoth DEF both, bothProgress
<1>8. \A u : Contents(u) = FlattenSeq(Shown(u)) /\ Progress(u) = FlattenSeq(ShownProgress(u))
  BY DEF Contents, Progress, Shown, ShownProgress
<1>9. FlattenSeq(Shown(items)) \in Seq(Nat) /\ FlattenSeq(ShownProgress(items)) \in Seq(Nat)
  BY <1>2, FlattenTyped
<1>. QED BY <1>6, <1>7, <1>8, <1>9 DEF all

\* The progress items of a push.
ProgressItems(first, parts) ==
    [k \in DOMAIN parts |-> Item("progress", first, k, parts[k])]

\* They show the paragraphs, under ids of their own.
LEMMA ProgressItemsHold ==
    ASSUME NEW parts \in Seq(Seq(Nat)), NEW first, parts # <<>> => first \in Nat
    PROVE  LET more == ProgressItems(first, parts) IN
           /\ more \in Seq(Items) /\ Len(more) = Len(parts)
           /\ \A k \in 1..Len(parts) : more[k].id = <<"progress", first, k>>
           /\ Contents(more) = FlattenSeq(parts) /\ Progress(more) = FlattenSeq(parts)
<1>. DEFINE n == Len(parts)
            more == ProgressItems(first, parts)
<1>1. n \in Nat /\ DOMAIN parts = 1..n /\ \A k \in 1..n : parts[k] \in Seq(Nat)
  BY LenProperties, ElementOfSeq
<1>2. ASSUME NEW k \in 1..n
      PROVE  /\ Item("progress", first, k, parts[k]) \in Items
             /\ more[k] = [kind |-> "progress", id |-> <<"progress", first, k>>, content |-> parts[k]]
  <2>1. first \in Nat /\ k \in Nat
    <3>1. parts # <<>>
      BY <1>1, EmptySeq
    <3>. QED BY <1>1, <3>1
  <2>2. "progress" \in Kinds
    BY DEF Kinds
  <2>3. <<"progress", first, k>> \in Kinds \X Nat \X Nat
    BY <2>1, <2>2
  <2>. QED BY <1>1, <2>3 DEF Item, Items, ProgressItems
<1>3. more = [k \in 1..n |-> Item("progress", first, k, parts[k])]
  BY <1>1 DEF ProgressItems
<1>4. more \in Seq(Items) /\ Len(more) = n
  <2>1. more \in [1..n -> Items]
    BY <1>2, <1>3
  <2>. HIDE DEF n, more
  <2>. QED BY <1>1, <2>1
<1>5. DOMAIN more = 1..n
  BY <1>3
<1>6. Shown(more) = parts /\ ShownProgress(more) = parts
  <2>1. parts = [k \in 1..n |-> parts[k]]
    BY <1>1
  <2>. HIDE DEF more
  <2>2. Shown(more) = [k \in 1..n |-> parts[k]]
    BY <1>2, <1>5 DEF Shown
  <2>3. ShownProgress(more) = [k \in 1..n |-> parts[k]]
    BY <1>2, <1>5 DEF ShownProgress
  <2>. QED BY <2>1, <2>2, <2>3
<1>7. Contents(more) = FlattenSeq(Shown(more)) /\ Progress(more) = FlattenSeq(ShownProgress(more))
  BY DEF Contents, Progress, Shown, ShownProgress
<1>8. \A k \in 1..n : more[k].id = <<"progress", first, k>>
  <2>. SUFFICES ASSUME NEW k \in 1..n PROVE more[k].id = <<"progress", first, k>>
    OBVIOUS
  <2>. DEFINE id == <<"progress", first, k>>
  <2>1. more[k] = [kind |-> "progress", id |-> id, content |-> parts[k]]
    BY <1>2
  <2>. HIDE DEF more, n, id
  <2>2. more[k].id = id
    BY <2>1
  <2>. QED BY <2>2 DEF id
<1>. HIDE DEF more
<1>9. /\ more \in Seq(Items) /\ Len(more) = n
      /\ \A k \in 1..n : more[k].id = <<"progress", first, k>>
      /\ Contents(more) = FlattenSeq(parts) /\ Progress(more) = FlattenSeq(parts)
  BY <1>4, <1>6, <1>7, <1>8
<1>. QED BY <1>9 DEF more

\* The ids of the items are of events up to b, and no two are the same.
IdsUpTo(items, b) ==
    /\ \A j \in 1..Len(items) : items[j].id[2] <= b
    /\ \A j, k \in 1..Len(items) : items[j].id = items[k].id => j = k

\* Ids stay apart when the later items are of later events.
LEMMA IdsBoth ==
    ASSUME NEW items \in Seq(Items), NEW more \in Seq(Items), NEW b \in Nat, NEW c \in Nat, b <= c,
           IdsUpTo(items, b), IdsUpTo(more, c), \A j \in 1..Len(more) : more[j].id[2] > b
    PROVE  IdsUpTo(items \o more, c)
<1>. DEFINE n == Len(items)
            m == Len(more)
            all == items \o more
<1>1. /\ n \in Nat /\ m \in Nat /\ all \in Seq(Items) /\ Len(all) = n + m
      /\ \A k \in 1..n + m : all[k] = IF k <= n THEN items[k] ELSE more[k - n]
  BY LenProperties, ConcatProperties
<1>2. /\ \A k \in 1..n : items[k].id[2] \in Nat
      /\ \A k \in 1..m : more[k].id[2] \in Nat
  <2>1. /\ \A k \in 1..n : items[k] \in Items
        /\ \A k \in 1..m : more[k] \in Items
    BY ElementOfSeq
  <2>2. \A i \in Items : i.id[2] \in Nat
    BY DEF Items
  <2>. HIDE DEF n, m
  <2>. QED BY <2>1, <2>2
<1>3. ASSUME NEW k \in 1..n + m
      PROVE  \/ k \in 1..n /\ all[k] = items[k] /\ all[k].id[2] \in Nat /\ all[k].id[2] <= b
             \/ /\ k - n \in 1..m /\ all[k] = more[k - n]
                /\ all[k].id[2] \in Nat /\ all[k].id[2] > b /\ all[k].id[2] <= c
  <2>1. CASE k <= n
    <3>1. k \in 1..n
      BY <1>1, <2>1
    <3>2. all[k] = items[k]
      BY <1>1, <2>1
    <3>. QED BY <1>2, <3>1, <3>2 DEF IdsUpTo
  <2>2. CASE ~(k <= n)
    <3>. DEFINE j == k - n
    <3>1. j \in 1..m
      BY <1>1, <2>2
    <3>2. all[k] = more[j]
      BY <1>1, <2>2
    <3>. HIDE DEF j, all
    <3>3. more[j].id[2] \in Nat /\ more[j].id[2] > b /\ more[j].id[2] <= c
      BY <1>2, <3>1 DEF IdsUpTo
    <3>. QED BY <3>1, <3>2, <3>3 DEF j
  <2>. QED BY <2>1, <2>2
<1>. HIDE DEF all
<1>4. ASSUME NEW j \in 1..n + m, NEW k \in 1..n + m, all[j].id = all[k].id PROVE j = k
  <2>1. CASE j \in 1..n /\ all[j] = items[j] /\ k \in 1..n /\ all[k] = items[k]
    BY <1>4, <2>1 DEF IdsUpTo
  <2>2. CASE j - n \in 1..m /\ all[j] = more[j - n] /\ k - n \in 1..m /\ all[k] = more[k - n]
    <3>1. j - n = k - n
      BY <1>4, <2>2 DEF IdsUpTo
    <3>. QED BY <1>1, <3>1
  <2>. DEFINE x == all[j].id[2]
              y == all[k].id[2]
  <2>3. x = y
    BY <1>4
  <2>4. \/ j \in 1..n /\ all[j] = items[j] /\ x \in Nat /\ x <= b
        \/ j - n \in 1..m /\ all[j] = more[j - n] /\ x \in Nat /\ x > b
    BY <1>3
  <2>5. \/ k \in 1..n /\ all[k] = items[k] /\ y \in Nat /\ y <= b
        \/ k - n \in 1..m /\ all[k] = more[k - n] /\ y \in Nat /\ y > b
    BY <1>3
  <2>. HIDE DEF x, y, n, m
  <2>6. ~(x <= b /\ y > b) /\ ~(x > b /\ y <= b)
    <3>1. b \in Nat /\ (x \in Nat \/ y \in Nat)
      BY <2>4
    <3>. QED BY <2>3, <3>1
  <2>. QED BY <2>1, <2>2, <2>4, <2>5, <2>6
<1>5. ASSUME NEW k \in 1..n + m PROVE all[k].id[2] <= c
  BY <1>3
<1>6. Len(all) = n + m
  BY <1>1
<1>. HIDE DEF n, m
<1>. QED BY <1>4, <1>5, <1>6 DEF IdsUpTo, all

\* What a push makes of the items read so far.
LEMMA PushIs ==
    ASSUME NEW events, NEW t
    PROVE  PushProgress(t, events)
             = [items |-> t.items \o ProgressItems(t.buffer[1], Paragraphs(events, t.buffer)),
                buffer |-> <<>>]
BY DEF PushProgress, ProgressItems

\* And it is typed.
LEMMA PushTyped ==
    ASSUME NEW events, NEW t \in Reads
    PROVE  /\ PushProgress(t, events) \in Reads
           /\ ProgressItems(t.buffer[1], Paragraphs(events, t.buffer)) \in Seq(Items)
<1>. DEFINE buffer == t.buffer
            parts == Paragraphs(events, buffer)
            more == ProgressItems(buffer[1], parts)
<1>1. buffer \in Seq(Nat) /\ t.items \in Seq(Items)
  BY DEF Reads
<1>2. parts \in Seq(Seq(Nat)) /\ (buffer = <<>> => parts = <<>>)
  <2>. HIDE DEF buffer
  <2>. QED BY <1>1, ParagraphsTyped
<1>3. parts # <<>> => buffer[1] \in Nat
  <2>. SUFFICES ASSUME buffer # <<>> PROVE buffer[1] \in Nat
    BY <1>2
  <2>. HIDE DEF buffer
  <2>1. 1 \in 1..Len(buffer)
    BY <1>1, EmptySeq
  <2>. QED BY <1>1, <2>1, ElementOfSeq
<1>4. more \in Seq(Items)
  <2>. HIDE DEF parts, buffer
  <2>. QED BY <1>2, <1>3, ProgressItemsHold
<1>5. t.items \o more \in Seq(Items)
  <2>. HIDE DEF more
  <2>. QED BY <1>1, <1>4, ConcatProperties
<1>6. PushProgress(t, events) = [items |-> t.items \o more, buffer |-> <<>>]
  BY PushIs
<1>7. <<>> \in Seq(Nat)
  OBVIOUS
<1>. HIDE DEF parts
<1>. QED BY <1>4, <1>5, <1>6, <1>7 DEF Reads, parts

\* What the timeline asks of an event.
LEMMA EventKind ==
    ASSUME NEW e \in Events
    PROVE  e.type \in Kinds /\ (e.type = "word" => IsStream(e))
           /\ (~IsStream(e) => e.type \notin {"word", "newline", "progress"})
BY DEF Events, PlainEvents, ToolEvents, Event, StartOf, ResultOf, EndsOf, Kinds, IsStream

\* The item of an event that is no stream.
LEMMA EventItemHolds ==
    ASSUME NEW e \in Events, ~IsStream(e), NEW i \in Nat
    PROVE  LET more == <<Item(e.type, i, 0, <<i>>)>> IN
           /\ more \in Seq(Items) /\ Len(more) = 1 /\ more[1].id = <<e.type, i, 0>>
           /\ Contents(more) = <<i>> /\ Progress(more) = <<>>
<1>. DEFINE item == [kind |-> e.type, id |-> <<e.type, i, 0>>, content |-> <<i>>]
            more == <<item>>
<1>1. e.type \in Kinds /\ e.type # "progress"
  BY EventKind
<1>2. item \in Items /\ item.kind = e.type /\ item.content = <<i>> /\ item.id = <<e.type, i, 0>>
  BY <1>1 DEF Items
<1>3. item = Item(e.type, i, 0, <<i>>)
  BY DEF Item
<1>. HIDE DEF item
<1>4. more \in Seq(Items) /\ Len(more) = 1 /\ more[1] = item /\ DOMAIN more = 1..1
  BY <1>2
<1>. DEFINE one == <<i>>
            none == <<>>
<1>5. one \in Seq(Nat) /\ none \in Seq(Nat) /\ <<>> \in Seq(Seq(Nat))
  OBVIOUS
<1>6. Shown(more) = <<one>> /\ ShownProgress(more) = <<none>>
  <2>1. Shown(more) = [k \in 1..1 |-> one]
    <3>1. \A k \in 1..1 : k = 1
      OBVIOUS
    <3>. QED BY <1>2, <1>4, <3>1 DEF Shown
  <2>2. ShownProgress(more) = [k \in 1..1 |-> none]
    <3>1. \A k \in 1..1 : k = 1
      OBVIOUS
    <3>. QED BY <1>1, <1>2, <1>4, <3>1 DEF ShownProgress
  <2>. HIDE DEF one, none
  <2>. QED BY <2>1, <2>2
<1>7. FlattenSeq(<<one>>) = one /\ FlattenSeq(<<none>>) = none
  <2>1. ASSUME NEW x \in Seq(Nat) PROVE FlattenSeq(<<x>>) = x
    <3>1. <<x>> = Append(<<>>, x)
      OBVIOUS
    <3>2. FlattenSeq(Append(<<>>, x)) = FlattenSeq(<<>>) \o x
      BY <1>5, FlattenMore
    <3>3. <<>> \o x = x
      BY ConcatEmptySeq
    <3>. QED BY <3>1, <3>2, <3>3, FlattenNone
  <2>. HIDE DEF one, none
  <2>. QED BY <1>5, <2>1
<1>8. Contents(more) = FlattenSeq(Shown(more)) /\ Progress(more) = FlattenSeq(ShownProgress(more))
  BY DEF Contents, Progress, Shown, ShownProgress
<1>9. /\ more \in Seq(Items) /\ Len(more) = 1 /\ more[1].id = <<e.type, i, 0>>
      /\ Contents(more) = <<i>> /\ Progress(more) = <<>>
  BY <1>2, <1>4, <1>6, <1>7, <1>8
<1>. QED BY <1>3, <1>9

\* The field of a record that is appended to.
LEMMA ItemsLonger ==
    ASSUME NEW q, NEW b, NEW x, q = [items |-> q.items, buffer |-> b]
    PROVE  [q EXCEPT !.items = Append(@, x)] = [items |-> Append(q.items, x), buffer |-> b]
OBVIOUS

\* An event of a stream is buffered, any other one pushes the buffer and is an item.
LEMMA TimelineStepIs ==
    ASSUME NEW s \in Seq(Events), NEW t \in Reads, NEW i \in 1..Len(s)
    PROVE  /\ IsStream(s[i]) => TimelineStep(s, t, i)
                                   = [items |-> t.items, buffer |-> Append(t.buffer, i)]
           /\ ~IsStream(s[i]) =>
                TimelineStep(s, t, i)
                  = [items |-> PushProgress(t, s).items \o <<Item(s[i].type, i, 0, <<i>>)>>,
                     buffer |-> <<>>]
           /\ TimelineStep(s, t, i) \in Reads
<1>. DEFINE p == PushProgress(t, s)
            item == Item(s[i].type, i, 0, <<i>>)
<1>1. i \in Nat /\ s[i] \in Events
  BY ElementOfSeq
<1>2. t.items \in Seq(Items) /\ t.buffer \in Seq(Nat) /\ t = [items |-> t.items, buffer |-> t.buffer]
  BY DEF Reads
<1>3. p.items \in Seq(Items) /\ p = [items |-> p.items, buffer |-> <<>>]
  <2>1. p \in Reads
    BY PushTyped
  <2>2. p.buffer = <<>>
    BY PushIs
  <2>. HIDE DEF p
  <2>. QED BY <2>1, <2>2 DEF Reads
<1>4. CASE IsStream(s[i])
  <2>1. TimelineStep(s, t, i) = [items |-> t.items, buffer |-> Append(t.buffer, i)]
    BY <1>2, <1>4 DEF TimelineStep
  <2>2. Append(t.buffer, i) \in Seq(Nat)
    BY <1>1, <1>2, AppendProperties
  <2>. QED BY <1>2, <1>4, <2>1, <2>2 DEF Reads
<1>5. CASE ~IsStream(s[i])
  <2>1. item \in Items
    <3>. DEFINE more == <<item>>
    <3>1. more \in Seq(Items) /\ Len(more) = 1
      BY <1>1, <1>5, EventItemHolds
    <3>2. more[1] = item
      OBVIOUS
    <3>3. 1 \in 1..Len(more)
      BY <3>1
    <3>. HIDE DEF more
    <3>. QED BY <3>1, <3>2, <3>3, ElementOfSeq
  <2>2. TimelineStep(s, t, i) = [p EXCEPT !.items = Append(@, item)]
    BY <1>5 DEF TimelineStep
  <2>. HIDE DEF p, item
  <2>3. TimelineStep(s, t, i) = [items |-> Append(p.items, item), buffer |-> <<>>]
    <3>. DEFINE none == <<>>
    <3>2. p = [items |-> p.items, buffer |-> none]
      BY <1>3
    <3>. HIDE DEF none
    <3>3. [p EXCEPT !.items = Append(@, item)] = [items |-> Append(p.items, item), buffer |-> none]
      BY <3>2, ItemsLonger
    <3>. QED BY <2>2, <3>3 DEF none
  <2>4. Append(p.items, item) = p.items \o <<item>> /\ Append(p.items, item) \in Seq(Items)
    BY <1>3, <2>1, AppendProperties, AppendIsConcat
  <2>5. <<>> \in Seq(Nat)
    OBVIOUS
  <2>6. /\ TimelineStep(s, t, i) = [items |-> p.items \o <<item>>, buffer |-> <<>>]
        /\ TimelineStep(s, t, i) \in Reads
    BY <2>3, <2>4, <2>5 DEF Reads
  <2>. QED BY <1>5, <2>6 DEF p, item
<1>. QED BY <1>4, <1>5

\* The timeline reads one event after the other.
LEMMA TimelineFold ==
    ASSUME NEW s \in Seq(Events)
    PROVE  \E g : /\ g[{}] = [items |-> <<>>, buffer |-> <<>>]
                  /\ \A k \in 1..Len(s) : g[1..k] = TimelineStep(s, g[1..(k - 1)], k)
                  /\ TimelineRead(s) = g[1..Len(s)]
<1>. DEFINE n == Len(s)
            base == [items |-> <<>>, buffer |-> <<>>]
            step == [k \in 1..n |-> [p \in Reads |-> TimelineStep(s, p, k)]]
            ks == [k \in DOMAIN s |-> k]
            IsFold(g) == g = [T \in SUBSET DOMAIN ks |->
                                IF T = {} THEN base
                                ELSE TimelineStep(s, g[T \ {Max(T)}], ks[Max(T)])]
            g == CHOOSE g : IsFold(g)
<1>1. n \in Nat /\ DOMAIN s = 1..n /\ DOMAIN ks = 1..n /\ \A k \in 1..n : ks[k] = k
  BY LenProperties
<1>2. step \in [1..n -> [Reads -> Reads]] /\ base \in Reads
  <2>1. ASSUME NEW k \in 1..n, NEW p \in Reads PROVE TimelineStep(s, p, k) \in Reads
    BY TimelineStepIs
  <2>2. base \in Reads
    BY DEF Reads
  <2>. QED BY <2>1, <2>2
<1>3. \A k \in 1..n, p \in Reads : step[k][p] = TimelineStep(s, p, ks[k])
  OBVIOUS
<1>4. PICK h : IsFold(h)
  <2>. HIDE DEF n, base
  <2>1. PICK h \in [SUBSET (1..n) -> Reads] : Folds(h, base, step, n)
    <3>. HIDE DEF step
    <3>. QED BY <1>1, <1>2, FoldExists
  <2>2. ASSUME NEW T \in SUBSET (1..n)
        PROVE  h[T] = IF T = {} THEN base ELSE TimelineStep(s, h[T \ {Max(T)}], ks[Max(T)])
    <3>1. h[T] = IF T = {} THEN base ELSE step[Max(T)][h[T \ {Max(T)}]]
      BY <2>1 DEF Folds
    <3>2. T # {} => Max(T) \in 1..n /\ h[T \ {Max(T)}] \in Reads
      <4>. HIDE DEF step, ks
      <4>. QED BY <1>1, <2>1, MaxOfIndices
    <3>. HIDE DEF step, ks
    <3>. QED BY <1>3, <3>1, <3>2
  <2>3. h = [T \in SUBSET (1..n) |-> h[T]]
    BY <2>1
  <2>. HIDE DEF ks
  <2>4. IsFold(h)
    BY <1>1, <2>2, <2>3
  <2>. QED BY <2>4
<1>5. IsFold(g)
  BY <1>4
<1>6. TimelineRead(s) = g[DOMAIN ks]
  BY DEF TimelineRead, FoldLeft, MapThenFoldSet
<1>. HIDE DEF g, step, ks, base
<1>7. g[{}] = base
  BY <1>5
<1>8. ASSUME NEW k \in 1..n PROVE g[1..k] = TimelineStep(s, g[1..(k - 1)], k)
  <2>1. Max(1..k) = k /\ (1..k) \ {k} = 1..(k - 1) /\ 1..k \in SUBSET (1..n) /\ 1..k # {}
    <3>. HIDE DEF n
    <3>. QED BY <1>1, LastIndex
  <2>2. ks[k] = k
    BY <1>1
  <2>. HIDE DEF n
  <2>3. \A T \in SUBSET (1..n) : T # {} => g[T] = TimelineStep(s, g[T \ {Max(T)}], ks[Max(T)])
    BY <1>1, <1>5
  <2>. QED BY <2>1, <2>2, <2>3
<1>. QED BY <1>1, <1>6, <1>7, <1>8 DEF base

-----------------------------------------------------------------------------

\* The items hold the log up to b.
Holds(s, items, b) ==
    /\ Contents(items) = Ascent(NoBreaksIn(s), b)
    /\ Progress(items) = Ascent(WordsIn(s), b)
    /\ IdsUpTo(items, b)

\* The buffer has the positions behind b up to k, all of a stream.
Buffers(s, buffer, b, k) ==
    /\ Len(buffer) = k - b
    /\ \A j \in 1..Len(buffer) : buffer[j] = b + j /\ b + j \in 1..Len(s) /\ IsStream(s[b + j])

\* What the timeline has come to when it has read k events.
ReadTo(s, t, k) ==
    /\ t \in Reads
    /\ \E b \in 0..k : Buffers(s, t.buffer, b, k) /\ Holds(s, t.items, b)

\* A push moves what the buffer holds to the items.
LEMMA PushKeeps ==
    ASSUME NEW s \in Seq(Events), NEW k \in 0..Len(s), NEW t, ReadTo(s, t, k)
    PROVE  /\ PushProgress(t, s).items \in Seq(Items)
           /\ Holds(s, PushProgress(t, s).items, k)
<1>1. PICK b \in 0..k : Buffers(s, t.buffer, b, k) /\ Holds(s, t.items, b)
  BY DEF ReadTo
<1>. DEFINE buffer == t.buffer
            items == t.items
            parts == Paragraphs(s, buffer)
            more == ProgressItems(buffer[1], parts)
<1>2. t \in Reads /\ items \in Seq(Items) /\ buffer \in Seq(Nat)
  BY DEF ReadTo, Reads
<1>3. Len(s) \in Nat /\ k \in Nat /\ b \in Nat /\ b <= k /\ Len(buffer) = k - b /\ b + Len(buffer) = k
  BY <1>1, LenProperties DEF Buffers
<1>4. PushProgress(t, s).items = items \o more
  BY PushIs
<1>5. \A j \in 1..Len(buffer) :
        /\ buffer[j] = b + j
        /\ b + j \in NoBreaksIn(s) <=> s[b + j].type # "newline"
        /\ b + j \in WordsIn(s) <=> s[b + j].type # "newline"
  <2>. SUFFICES ASSUME NEW j \in 1..Len(buffer)
                PROVE  /\ buffer[j] = b + j
                       /\ b + j \in NoBreaksIn(s) <=> s[b + j].type # "newline"
                       /\ b + j \in WordsIn(s) <=> s[b + j].type # "newline"
    OBVIOUS
  <2>1. buffer[j] = b + j /\ b + j \in 1..Len(s) /\ IsStream(s[b + j])
    BY <1>1 DEF Buffers
  <2>2. DOMAIN s = 1..Len(s)
    BY LenProperties
  <2>. QED BY <2>1, <2>2 DEF NoBreaksIn, WordsIn, IsStream
<1>6. parts \in Seq(Seq(Nat)) /\ (buffer = <<>> => parts = <<>>)
  BY <1>2, ParagraphsTyped
<1>7. /\ Ascent(NoBreaksIn(s), b) \o FlattenSeq(parts) = Ascent(NoBreaksIn(s), k)
      /\ Ascent(WordsIn(s), b) \o FlattenSeq(parts) = Ascent(WordsIn(s), k)
  <2>. HIDE DEF buffer
  <2>1. Ascent(NoBreaksIn(s), b) \o FlattenSeq(parts) = Ascent(NoBreaksIn(s), b + Len(buffer))
    <3>1. \A j \in 1..Len(buffer) :
            buffer[j] = b + j /\ (b + j \in NoBreaksIn(s) <=> s[b + j].type # "newline")
      BY <1>5
    <3>. QED BY <1>2, <1>3, <3>1, ParagraphsHold
  <2>2. Ascent(WordsIn(s), b) \o FlattenSeq(parts) = Ascent(WordsIn(s), b + Len(buffer))
    <3>1. \A j \in 1..Len(buffer) :
            buffer[j] = b + j /\ (b + j \in WordsIn(s) <=> s[b + j].type # "newline")
      BY <1>5
    <3>. QED BY <1>2, <1>3, <3>1, ParagraphsHold
  <2>. HIDE DEF parts
  <2>. QED BY <1>3, <2>1, <2>2
<1>8. parts # <<>> => buffer # <<>> /\ buffer[1] = b + 1 /\ b + 1 \in Nat /\ b + 1 <= k
  <2>. SUFFICES ASSUME parts # <<>> PROVE buffer # <<>> /\ buffer[1] = b + 1 /\ b + 1 \in Nat /\ b + 1 <= k
    OBVIOUS
  <2>1. buffer # <<>>
    BY <1>6
  <2>. HIDE DEF buffer, parts
  <2>2. Len(buffer) # 0 /\ Len(buffer) \in Nat /\ 1 \in 1..Len(buffer)
    BY <1>2, <2>1, EmptySeq
  <2>3. buffer[1] = b + 1
    BY <1>5, <2>2
  <2>. QED BY <1>3, <2>1, <2>2, <2>3
<1>. HIDE DEF buffer, items, parts
<1>9. /\ more \in Seq(Items) /\ Len(more) = Len(parts)
      /\ \A j \in 1..Len(parts) : more[j].id = <<"progress", buffer[1], j>>
      /\ Contents(more) = FlattenSeq(parts) /\ Progress(more) = FlattenSeq(parts)
  <2>1. parts # <<>> => buffer[1] \in Nat
    BY <1>8
  <2>. QED BY <1>6, <2>1, ProgressItemsHold
<1>. HIDE DEF more
<1>10. /\ Contents(items \o more) = Contents(items) \o Contents(more)
       /\ Progress(items \o more) = Progress(items) \o Progress(more)
       /\ items \o more \in Seq(Items)
  BY <1>2, <1>9, ContentsBoth, ConcatProperties
<1>11. /\ Contents(items) = Ascent(NoBreaksIn(s), b) /\ Progress(items) = Ascent(WordsIn(s), b)
       /\ IdsUpTo(items, b)
  BY <1>1 DEF Holds, items
<1>12. IdsUpTo(items \o more, k)
  <2>1. ASSUME NEW j \in 1..Len(more)
        PROVE  more[j].id = <<"progress", b + 1, j>> /\ b + 1 <= k
    <3>1. parts # <<>> /\ j \in 1..Len(parts)
      BY <1>6, <1>9, EmptySeq
    <3>. QED BY <1>8, <1>9, <3>1
  <2>2. IdsUpTo(more, k)
    BY <2>1 DEF IdsUpTo
  <2>3. \A j \in 1..Len(more) : more[j].id[2] > b
    <3>1. b + 1 > b
      BY <1>3
    <3>. QED BY <2>1, <3>1
  <2>. QED BY <1>2, <1>3, <1>9, <1>11, <2>2, <2>3, IdsBoth
<1>. QED BY <1>4, <1>7, <1>9, <1>10, <1>11, <1>12 DEF Holds

\* Each event leaves the log held up to it.
LEMMA ReadsOn ==
    ASSUME NEW s \in Seq(Events), NEW k \in 1..Len(s), NEW t, ReadTo(s, t, k - 1)
    PROVE  ReadTo(s, TimelineStep(s, t, k), k)
<1>1. Len(s) \in Nat /\ k \in Nat /\ k - 1 \in 0..Len(s) /\ k - 1 \in Nat /\ (k - 1) + 1 = k
      /\ s[k] \in Events /\ DOMAIN s = 1..Len(s)
  BY LenProperties, ElementOfSeq
<1>2. t \in Reads /\ t.items \in Seq(Items) /\ t.buffer \in Seq(Nat)
  BY DEF ReadTo, Reads
<1>. DEFINE r == TimelineStep(s, t, k)
<1>3. r \in Reads
  BY <1>2, TimelineStepIs
<1>4. CASE IsStream(s[k])
  <2>1. PICK b \in 0..(k - 1) : Buffers(s, t.buffer, b, k - 1) /\ Holds(s, t.items, b)
    BY DEF ReadTo
  <2>2. r = [items |-> t.items, buffer |-> Append(t.buffer, k)]
    BY <1>2, <1>4, TimelineStepIs
  <2>. DEFINE n == Len(t.buffer)
  <2>3. /\ Len(Append(t.buffer, k)) = n + 1 /\ n \in Nat
        /\ \A j \in 1..n : Append(t.buffer, k)[j] = t.buffer[j]
        /\ Append(t.buffer, k)[n + 1] = k
    BY <1>1, <1>2, AppendProperties, LenProperties
  <2>4. n = (k - 1) - b /\ b \in Nat /\ b \in 0..k /\ n + 1 = k - b /\ b + (n + 1) = k
    <3>1. n = (k - 1) - b
      BY <2>1 DEF Buffers
    <3>. HIDE DEF n
    <3>. QED BY <1>1, <3>1
  <2>5. ASSUME NEW j \in 1..n + 1
        PROVE  Append(t.buffer, k)[j] = b + j /\ b + j \in 1..Len(s) /\ IsStream(s[b + j])
    <3>1. CASE j = n + 1
      BY <1>4, <2>3, <2>4, <3>1
    <3>2. CASE j # n + 1
      <4>1. j \in 1..n
        BY <2>3, <3>2
      <4>2. t.buffer[j] = b + j /\ b + j \in 1..Len(s) /\ IsStream(s[b + j])
        BY <2>1, <4>1 DEF Buffers
      <4>. QED BY <2>3, <4>1, <4>2
    <3>. QED BY <3>1, <3>2
  <2>6. Buffers(s, Append(t.buffer, k), b, k)
    BY <2>3, <2>4, <2>5 DEF Buffers
  <2>. QED BY <1>3, <2>1, <2>2, <2>4, <2>6 DEF ReadTo
<1>5. CASE ~IsStream(s[k])
  <2>. DEFINE items == PushProgress(t, s).items
              more == <<Item(s[k].type, k, 0, <<k>>)>>
  <2>1. r = [items |-> items \o more, buffer |-> <<>>]
    BY <1>2, <1>5, TimelineStepIs
  <2>2. items \in Seq(Items) /\ Holds(s, items, k - 1)
    BY <1>1, PushKeeps
  <2>3. /\ more \in Seq(Items) /\ Len(more) = 1 /\ more[1].id = <<s[k].type, k, 0>>
        /\ Contents(more) = <<k>> /\ Progress(more) = <<>>
    BY <1>1, <1>5, EventItemHolds
  <2>. HIDE DEF items, more, r
  <2>4. /\ Contents(items \o more) = Contents(items) \o <<k>>
        /\ Progress(items \o more) = Progress(items) /\ items \o more \in Seq(Items)
    <3>1. /\ Contents(items \o more) = Contents(items) \o Contents(more)
          /\ Progress(items \o more) = Progress(items) \o Progress(more)
          /\ Progress(items) \in Seq(Nat)
      BY <2>2, <2>3, ContentsBoth
    <3>2. Progress(items) \o <<>> = Progress(items)
      BY <3>1, ConcatEmptySeq
    <3>3. items \o more \in Seq(Items)
      BY <2>2, <2>3, ConcatProperties
    <3>. QED BY <2>3, <3>1, <3>2, <3>3
  <2>5. k \in NoBreaksIn(s) /\ k \notin WordsIn(s)
    BY <1>1, <1>5, EventKind DEF NoBreaksIn, WordsIn
  <2>6. /\ Ascent(NoBreaksIn(s), k) = Ascent(NoBreaksIn(s), k - 1) \o <<k>>
        /\ Ascent(WordsIn(s), k) = Ascent(WordsIn(s), k - 1)
    <3>. DEFINE j == k - 1
    <3>1. j \in Nat /\ j + 1 = k
      BY <1>1
    <3>. HIDE DEF j
    <3>2. /\ j + 1 \in NoBreaksIn(s) =>
               Ascent(NoBreaksIn(s), j + 1) = Ascent(NoBreaksIn(s), j) \o <<j + 1>>
          /\ j + 1 \notin WordsIn(s) => Ascent(WordsIn(s), j + 1) = Ascent(WordsIn(s), j)
      BY <3>1, AscentGoesOn
    <3>. QED BY <2>5, <3>1, <3>2 DEF j
  <2>7. IdsUpTo(items \o more, k)
    <3>1. IdsUpTo(items, k - 1)
      BY <2>2 DEF Holds
    <3>2. \A j \in 1..Len(more) : j = 1
      BY <2>3
    <3>3. more[1].id[2] = k
      BY <2>3
    <3>4. k <= k /\ k > k - 1 /\ k - 1 <= k
      BY <1>1
    <3>5. IdsUpTo(more, k) /\ \A j \in 1..Len(more) : more[j].id[2] > k - 1
      BY <3>2, <3>3, <3>4 DEF IdsUpTo
    <3>. QED BY <1>1, <2>2, <2>3, <3>1, <3>4, <3>5, IdsBoth
  <2>8. Holds(s, items \o more, k)
    BY <2>2, <2>4, <2>6, <2>7 DEF Holds
  <2>9. Buffers(s, <<>>, k, k) /\ k \in 0..k
    <3>1. Len(<<>>) = 0 /\ k - k = 0
      BY <1>1
    <3>. QED BY <1>1, <3>1 DEF Buffers
  <2>10. r.items = items \o more /\ r.buffer = <<>>
    BY <2>1
  <2>11. Buffers(s, r.buffer, k, k) /\ Holds(s, r.items, k)
    BY <2>8, <2>9, <2>10
  <2>12. ReadTo(s, r, k)
    BY <1>3, <2>9, <2>11 DEF ReadTo
  <2>. QED BY <2>12 DEF r
<1>. QED BY <1>4, <1>5

\* The timeline holds the log to its end, its last push included.
LEMMA TimelineHolds ==
    ASSUME NEW s \in Seq(Events)
    PROVE  Timeline(s) \in Seq(Items) /\ Holds(s, Timeline(s), Len(s))
<1>. DEFINE n == Len(s)
            base == [items |-> <<>>, buffer |-> <<>>]
            J == [k \in 0..n |-> { t \in Reads : ReadTo(s, t, k) }]
<1>1. n \in Nat
  BY LenProperties
<1>2. PICK g : /\ g[{}] = base
               /\ \A k \in 1..n : g[1..k] = TimelineStep(s, g[1..(k - 1)], k)
               /\ TimelineRead(s) = g[1..n]
  BY TimelineFold
<1>3. ReadTo(s, base, 0)
  <2>1. base \in Reads /\ base.items = <<>> /\ base.buffer = <<>>
    BY DEF Reads
  <2>2. Len(<<>>) = 0 /\ 1..0 = {}
    OBVIOUS
  <2>3. Buffers(s, <<>>, 0, 0)
    BY <2>2 DEF Buffers
  <2>4. Contents(<<>>) = <<>> /\ Progress(<<>>) = <<>>
    <3>1. DOMAIN <<>> = {}
      OBVIOUS
    <3>2. [k \in {} |-> <<>>[k].content] = <<>>
      OBVIOUS
    <3>3. [k \in {} |-> IF <<>>[k].kind = "progress" THEN <<>>[k].content ELSE <<>>] = <<>>
      OBVIOUS
    <3>. QED BY <3>1, <3>2, <3>3, FlattenNone DEF Contents, Progress
  <2>5. Ascent(NoBreaksIn(s), 0) = <<>> /\ Ascent(WordsIn(s), 0) = <<>>
    BY AscentGoesOn
  <2>6. Holds(s, <<>>, 0)
    BY <2>2, <2>4, <2>5 DEF Holds, IdsUpTo
  <2>7. 0 \in 0..0
    OBVIOUS
  <2>. HIDE DEF base
  <2>. QED BY <2>1, <2>3, <2>6, <2>7 DEF ReadTo
<1>4. ASSUME NEW k \in 1..n, g[1..(k - 1)] \in J[k - 1] PROVE g[1..k] \in J[k]
  <2>1. k \in 0..n /\ k - 1 \in 0..n
    BY <1>1
  <2>2. ReadTo(s, g[1..(k - 1)], k - 1)
    BY <1>4, <2>1
  <2>3. ReadTo(s, g[1..k], k)
    BY <1>2, <2>2, ReadsOn
  <2>. QED BY <2>1, <2>3 DEF ReadTo
<1>5. g[{}] \in J[0]
  <2>1. 0 \in 0..n /\ base \in Reads
    BY <1>1, <1>3 DEF ReadTo
  <2>. HIDE DEF base, n
  <2>. QED BY <1>2, <1>3, <2>1
<1>6. g[1..n] \in J[n]
  <2>. HIDE DEF J, n
  <2>. QED BY <1>1, <1>4, <1>5, FoldKeeps
<1>7. n \in 0..Len(s)
  BY <1>1
<1>8. ReadTo(s, TimelineRead(s), n)
  <2>1. n \in 0..n
    BY <1>1
  <2>. HIDE DEF n
  <2>. QED BY <1>2, <1>6, <2>1
<1>9. Timeline(s) = PushProgress(TimelineRead(s), s).items
  BY DEF Timeline
<1>. QED BY <1>7, <1>8, <1>9, PushKeeps

\* The timeline of every log has its events in their order, each once, under
\* ids that differ, and its progress items have the words of the transcript
\* (buildExecutionTimeline(), src/events/store.ts:214-377).
THEOREM TimelinesAreComplete == ViewsSpec => []TimelineIsComplete
<1>1. ViewsInv => TimelineIsComplete
  <2>. SUFFICES ASSUME ViewsInv PROVE TimelineIsComplete
    OBVIOUS
  <2>. DEFINE items == Timeline(log)
  <2>1. log \in Seq(Events) /\ DOMAIN items = 1..Len(items) /\ Holds(log, items, Len(log))
    BY TimelineHolds, LenProperties DEF ViewsInv
  <2>2. /\ Transcript(log) = Ascent(WordsIn(log), Len(log))
        /\ PositionsOf(log, LAMBDA e : e.type # "newline") = Ascent(NoBreaksIn(log), Len(log))
    BY <2>1, PositionsAscend
  <2>. HIDE DEF items
  <2>3. IsInjective([k \in DOMAIN items |-> items[k].id])
    BY <2>1 DEF Holds, IdsUpTo, IsInjective
  <2>4. /\ Contents(items) = PositionsOf(log, LAMBDA e : e.type # "newline")
        /\ Progress(items) = Transcript(log)
    BY <2>1, <2>2 DEF Holds
  <2>. QED BY <2>3, <2>4 DEF TimelineIsComplete, items
<1>. QED BY <1>1, ViewsInitially, ViewsNextKeeps, PTL DEF ViewsSpec

-----------------------------------------------------------------------------
(* EventViews: buildUnifiedDisplay() over every log of a run. After each   *)
(* event the groups and the text that waits hold the events that are       *)
(* claimed, and a call claims all its events when the first is read.       *)

\* The ascent through a set of numbers lists what it has met, rising.
LEMMA AscentLists ==
    ASSUME NEW S, NEW n \in Nat
    PROVE  Lists(Ascent(S, n), S \cap (1..n)) /\ Rises(Ascent(S, n))
<1>. DEFINE P == { k \in Nat : Lists(Ascent(S, k), S \cap (1..k)) /\ Rises(Ascent(S, k)) }
<1>1. 0 \in P
  <2>1. S \cap (1..0) = {} /\ Ascent(S, 0) = <<>>
    <3>1. 0 \in Nat /\ 1..0 = {}
      OBVIOUS
    <3>. QED BY <3>1, AscentGoesOn
  <2>. QED BY <2>1, ListsNone
<1>2. ASSUME NEW k \in Nat, k \in P PROVE k + 1 \in P
  <2>1. Lists(Ascent(S, k), S \cap (1..k)) /\ Rises(Ascent(S, k))
    BY <1>2
  <2>2. /\ k + 1 \in S => Ascent(S, k + 1) = Ascent(S, k) \o <<k + 1>>
        /\ k + 1 \notin S => Ascent(S, k + 1) = Ascent(S, k)
    BY AscentGoesOn
  <2>3. k + 1 \in Nat /\ 1..k + 1 = (1..k) \cup {k + 1} /\ k + 1 \notin 1..k
    OBVIOUS
  <2>. HIDE DEF P
  <2>4. Lists(Ascent(S, k + 1), S \cap (1..k + 1)) /\ Rises(Ascent(S, k + 1))
    <3>1. CASE k + 1 \in S
      <4>. DEFINE t == Ascent(S, k)
                  A == S \cap (1..k)
                  B == {k + 1}
                  i == k + 1
      <4>1. S \cap (1..k + 1) = A \cup B /\ A \cap B = {}
        BY <2>3, <3>1
      <4>2. Lists(t, A) /\ Lists(<<i>>, B)
        BY <2>1, <2>3, ListsOne
      <4>3. \A j \in DOMAIN t : t[j] < i
        <5>1. \A x \in A : x < i
          OBVIOUS
        <5>2. \A j \in DOMAIN t : t[j] \in A
          BY <4>2 DEF Lists, ToSet
        <5>. QED BY <5>1, <5>2
      <4>4. t \in Seq(Nat) /\ i \in Nat /\ Rises(t)
        BY <2>1, <2>3 DEF Lists
      <4>5. Ascent(S, k + 1) = t \o <<i>>
        BY <2>2, <3>1
      <4>. HIDE DEF t, A, B, i
      <4>6. Lists(t \o <<i>>, A \cup B) /\ Rises(t \o <<i>>)
        BY <4>1, <4>2, <4>3, <4>4, ListsBoth, RisesOn
      <4>. QED BY <4>1, <4>5, <4>6
    <3>2. CASE k + 1 \notin S
      <4>1. S \cap (1..k + 1) = S \cap (1..k)
        BY <2>3, <3>2
      <4>. QED BY <2>1, <2>2, <3>2, <4>1
    <3>. QED BY <3>1, <3>2
  <2>. QED BY <2>3, <2>4 DEF P
<1>3. \A k \in Nat : k \in P
  <2>. HIDE DEF P
  <2>. QED BY <1>1, <1>2, NaturalInduction
<1>. QED BY <1>3

\* What the display gathers.
Groups == [kind : {"stream", "thinking", "tool", "event"}, entries : Seq(Nat), live : BOOLEAN]
Displays == [items : Seq(Groups), streams : Seq(Nat), thoughts : Seq(Nat), emitted : SUBSET CallId]

Entries(items) == FlattenSeq([k \in DOMAIN items |-> items[k].entries])

\* One group more.
LEMMA EntriesMore ==
    ASSUME NEW items \in Seq(Groups), NEW g \in Groups
    PROVE  /\ Entries(items) \in Seq(Nat) /\ Entries(<<>>) = <<>>
           /\ Entries(items \o <<g>>) = Entries(items) \o g.entries
<1>. DEFINE Of(u) == [k \in DOMAIN u |-> u[k].entries]
            n == Len(items)
            more == Append(items, g)
<1>1. ASSUME NEW u \in Seq(Groups)
      PROVE  Of(u) \in Seq(Seq(Nat)) /\ Len(Of(u)) = Len(u) /\ \A k \in 1..Len(u) : Of(u)[k] = u[k].entries
  <2>1. DOMAIN u = 1..Len(u) /\ Len(u) \in Nat /\ \A k \in 1..Len(u) : u[k] \in Groups
    BY LenProperties, ElementOfSeq
  <2>2. \A k \in 1..Len(u) : u[k].entries \in Seq(Nat)
    BY <2>1 DEF Groups
  <2>. DEFINE l == Len(u)
  <2>3. Of(u) \in [1..l -> Seq(Nat)]
    BY <2>1, <2>2
  <2>4. Of(u) \in Seq(Seq(Nat)) /\ Len(Of(u)) = l
    <3>1. l \in Nat
      BY <2>1
    <3>. HIDE DEF l, Of
    <3>. QED BY <2>3, <3>1
  <2>. QED BY <2>1, <2>4
<1>2. g.entries \in Seq(Nat)
  BY DEF Groups
<1>3. /\ more \in Seq(Groups) /\ Len(more) = n + 1 /\ n \in Nat
      /\ \A k \in 1..n : more[k] = items[k]
      /\ more[n + 1] = g /\ more = items \o <<g>>
  BY LenProperties, AppendProperties, AppendIsConcat
<1>. HIDE DEF more, Of, n
<1>4. /\ Of(items) \in Seq(Seq(Nat)) /\ Len(Of(items)) = n
      /\ Of(more) \in Seq(Seq(Nat)) /\ Len(Of(more)) = n + 1
  BY <1>1, <1>3 DEF n
<1>. DEFINE longer == Append(Of(items), g.entries)
<1>5. /\ longer \in Seq(Seq(Nat)) /\ Len(longer) = n + 1 /\ longer[n + 1] = g.entries
      /\ \A k \in 1..n : longer[k] = Of(items)[k]
  BY <1>2, <1>4, AppendProperties
<1>. HIDE DEF longer
<1>6. ASSUME NEW k \in 1..n + 1 PROVE Of(more)[k] = longer[k]
  <2>1. Of(more)[k] = more[k].entries
    BY <1>1, <1>3
  <2>2. CASE k = n + 1
    BY <1>3, <1>5, <2>1, <2>2
  <2>3. CASE k # n + 1
    <3>1. k \in 1..n
      BY <1>3, <2>3
    <3>2. Of(items)[k] = items[k].entries
      BY <1>1, <3>1 DEF n
    <3>. QED BY <1>3, <1>5, <2>1, <3>1, <3>2
  <2>. QED BY <2>2, <2>3
<1>7. Of(more) = longer
  BY <1>4, <1>5, <1>6, SeqEqual
<1>8. FlattenSeq(longer) = FlattenSeq(Of(items)) \o g.entries
  BY <1>2, <1>4, FlattenMore DEF longer
<1>9. FlattenSeq(Of(items)) \in Seq(Nat)
  BY <1>4, FlattenTyped
<1>10. Of(<<>>) = <<>>
  BY DEF Of
<1>. QED BY <1>3, <1>7, <1>8, <1>9, <1>10, FlattenNone DEF Entries, Of

LEMMA EntriesTyped ==
    ASSUME NEW items \in Seq(Groups)
    PROVE  Entries(items) \in Seq(Nat)
<1>. DEFINE g == Group("event", <<>>, FALSE)
<1>1. g \in Groups
  BY DEF Group, Groups
<1>. HIDE DEF g
<1>. QED BY <1>1, EntriesMore

-----------------------------------------------------------------------------

LEMMA TextGroupTyped ==
    ASSUME NEW kind \in {"stream", "thinking"}, NEW t \in Seq(Nat), NEW live \in BOOLEAN
    PROVE  /\ TextGroup(kind, t, live) \in Seq(Groups)
           /\ t = <<>> => TextGroup(kind, t, live) = <<>>
           /\ t # <<>> => TextGroup(kind, t, live) = <<Group(kind, t, live)>>
           /\ Group(kind, t, live) \in Groups
<1>. DEFINE g == Group(kind, t, live)
<1>1. g \in Groups
  BY DEF Group, Groups
<1>2. <<>> \in Seq(Groups)
  OBVIOUS
<1>3. <<g>> \in Seq(Groups)
  <2>. HIDE DEF g
  <2>. QED BY <1>1
<1>. QED BY <1>1, <1>2, <1>3 DEF TextGroup

LEMMA DisplayTyped ==
    ASSUME NEW d \in Displays
    PROVE  /\ d.items \in Seq(Groups) /\ d.streams \in Seq(Nat) /\ d.thoughts \in Seq(Nat)
           /\ d.emitted \in SUBSET CallId
BY DEF Displays

\* The display d with these parts.
IsDisplay(d, items, streams, thoughts, ids) ==
    /\ d \in Displays
    /\ d.items = items /\ d.streams = streams /\ d.thoughts = thoughts /\ d.emitted = ids

LEMMA DisplayWith ==
    ASSUME NEW d \in Displays, NEW x \in Seq(Groups), NEW y \in Seq(Nat), NEW m \in SUBSET CallId
    PROVE  /\ IsDisplay([d EXCEPT !.items = x, !.streams = y], x, y, d.thoughts, d.emitted)
           /\ IsDisplay([d EXCEPT !.items = x, !.thoughts = y], x, d.streams, y, d.emitted)
           /\ IsDisplay([d EXCEPT !.emitted = m, !.items = x], x, d.streams, d.thoughts, m)
           /\ IsDisplay([d EXCEPT !.items = x], x, d.streams, d.thoughts, d.emitted)
           /\ IsDisplay([d EXCEPT !.streams = y], d.items, y, d.thoughts, d.emitted)
           /\ IsDisplay([d EXCEPT !.thoughts = y], d.items, d.streams, y, d.emitted)
<1>1. IsDisplay([d EXCEPT !.items = x, !.streams = y], x, y, d.thoughts, d.emitted)
  BY DEF IsDisplay, Displays
<1>2. IsDisplay([d EXCEPT !.items = x, !.thoughts = y], x, d.streams, y, d.emitted)
  BY DEF IsDisplay, Displays
<1>3. IsDisplay([d EXCEPT !.emitted = m, !.items = x], x, d.streams, d.thoughts, m)
  BY DEF IsDisplay, Displays
<1>4. IsDisplay([d EXCEPT !.items = x], x, d.streams, d.thoughts, d.emitted)
  BY DEF IsDisplay, Displays
<1>5. IsDisplay([d EXCEPT !.streams = y], d.items, y, d.thoughts, d.emitted)
  BY DEF IsDisplay, Displays
<1>6. IsDisplay([d EXCEPT !.thoughts = y], d.items, d.streams, y, d.emitted)
  BY DEF IsDisplay, Displays
<1>. QED BY <1>1, <1>2, <1>3, <1>4, <1>5, <1>6

\* What waits becomes a group behind the others.
LEMMA FlushIs ==
    ASSUME NEW d \in Displays, NEW live \in BOOLEAN
    PROVE  /\ IsDisplay(FlushStreams(d, live), d.items \o TextGroup("stream", d.streams, live),
                        <<>>, d.thoughts, d.emitted)
           /\ IsDisplay(FlushThinking(d, live), d.items \o TextGroup("thinking", d.thoughts, live),
                        d.streams, <<>>, d.emitted)
           /\ IsDisplay(Flush(d, live),
                        (d.items \o TextGroup("stream", d.streams, live))
                            \o TextGroup("thinking", d.thoughts, live),
                        <<>>, <<>>, d.emitted)
<1>. DEFINE none == <<>>
<1>0. none \in Seq(Nat)
  OBVIOUS
<1>. HIDE DEF none
<1>1. ASSUME NEW e \in Displays
      PROVE  /\ IsDisplay(FlushStreams(e, live), e.items \o TextGroup("stream", e.streams, live),
                          none, e.thoughts, e.emitted)
             /\ IsDisplay(FlushThinking(e, live), e.items \o TextGroup("thinking", e.thoughts, live),
                          e.streams, none, e.emitted)
  <2>. DEFINE a == TextGroup("stream", e.streams, live)
              b == TextGroup("thinking", e.thoughts, live)
              x == e.items \o a
              y == e.items \o b
  <2>1. e.items \in Seq(Groups) /\ a \in Seq(Groups) /\ b \in Seq(Groups)
    BY DisplayTyped, TextGroupTyped
  <2>2. FlushStreams(e, live) = [e EXCEPT !.items = x, !.streams = none]
    BY DEF FlushStreams, none
  <2>3. FlushThinking(e, live) = [e EXCEPT !.items = y, !.thoughts = none]
    BY DEF FlushThinking, none
  <2>. HIDE DEF a, b
  <2>4. x \in Seq(Groups) /\ y \in Seq(Groups)
    BY <2>1, ConcatProperties
  <2>. HIDE DEF x, y
  <2>5. /\ IsDisplay([e EXCEPT !.items = x, !.streams = none], x, none, e.thoughts, e.emitted)
        /\ IsDisplay([e EXCEPT !.items = y, !.thoughts = none], y, e.streams, none, e.emitted)
    BY <1>0, <2>4, DisplayWith
  <2>. QED BY <2>2, <2>3, <2>5 DEF x, y, a, b
<1>2. IsDisplay(Flush(d, live),
                (d.items \o TextGroup("stream", d.streams, live))
                    \o TextGroup("thinking", d.thoughts, live),
                none, none, d.emitted)
  <2>. DEFINE q == FlushStreams(d, live)
  <2>1. IsDisplay(q, d.items \o TextGroup("stream", d.streams, live), none, d.thoughts, d.emitted)
    BY <1>1
  <2>2. Flush(d, live) = FlushThinking(q, live)
    BY DEF Flush
  <2>. HIDE DEF q
  <2>3. q \in Displays
    BY <2>1 DEF IsDisplay
  <2>4. IsDisplay(FlushThinking(q, live), q.items \o TextGroup("thinking", q.thoughts, live),
                  q.streams, none, q.emitted)
    BY <1>1, <2>3
  <2>. QED BY <2>1, <2>2, <2>4 DEF IsDisplay
<1>. QED BY <1>1, <1>2 DEF none

\* The events of one tool call.
EventsOf(s, c) == { i \in DOMAIN s : s[i].id = c }

LEMMA EventSorts ==
    ASSUME NEW e \in Events
    PROVE  /\ e.id \in CallId \cup {NoId} /\ (e.id \in CallId <=> e.id # NoId)
           /\ e.id \in CallId => IsTool(e)
           /\ IsStream(e) => e.id = NoId /\ e.type # "thinking"
           /\ e.type = "thinking" => e.id = NoId
BY ViewsAssumption, EventTyped DEF IsTool, IsStream

LEMMA CallEntriesList ==
    ASSUME NEW s \in Seq(Events), NEW c \in CallId
    PROVE  Lists(CallEntries(s, c), EventsOf(s, c)) /\ Rises(CallEntries(s, c))
<1>. DEFINE n == Len(s)
            S == EventsOf(s, c)
<1>1. n \in Nat /\ DOMAIN s = 1..n /\ S \cap (1..n) = S
  BY LenProperties DEF EventsOf
<1>2. ASSUME NEW i \in 1..n PROVE (IsTool(s[i]) /\ s[i].id = c) <=> i \in S
  <2>1. s[i] \in Events
    BY ElementOfSeq
  <2>. QED BY <1>1, <2>1, EventSorts DEF EventsOf
<1>3. CallEntries(s, c) = FlattenSeq([i \in 1..n |-> IF IsTool(s[i]) /\ s[i].id = c THEN <<i>> ELSE <<>>])
  BY <1>1 DEF CallEntries, PositionsOf
<1>. HIDE DEF n, S
<1>4. [i \in 1..n |-> IF IsTool(s[i]) /\ s[i].id = c THEN <<i>> ELSE <<>>]
        = [i \in 1..n |-> IF i \in S THEN <<i>> ELSE <<>>]
  BY <1>2
<1>5. CallEntries(s, c) = Ascent(S, n)
  BY <1>3, <1>4 DEF Ascent
<1>6. Lists(Ascent(S, n), S \cap (1..n)) /\ Rises(Ascent(S, n))
  BY <1>1, AscentLists
<1>. QED BY <1>1, <1>5, <1>6 DEF S

\* The cases of a step of buildUnifiedDisplay().
LEMMA DisplayStepIs ==
    ASSUME NEW s \in Seq(Events), NEW live \in BOOLEAN, NEW d \in Displays, NEW i \in 1..Len(s)
    PROVE  LET e == s[i]
               call == Group("tool", CallEntries(s, e.id), live /\ IsOpen(s, e.id))
               q == DisplayStep(s, live, d, i)
           IN  /\ q \in Displays
               /\ e.id \in CallId /\ e.id \in d.emitted => q = d
               /\ e.id \in CallId /\ e.id \notin d.emitted =>
                    IsDisplay(q, Append(Flush(d, FALSE).items, call), <<>>, <<>>, d.emitted \cup {e.id})
               /\ IsStream(e) =>
                    IsDisplay(q, FlushThinking(d, FALSE).items, Append(d.streams, i), <<>>, d.emitted)
               /\ e.type = "thinking" =>
                    IsDisplay(q, FlushStreams(d, FALSE).items, <<>>, Append(d.thoughts, i), d.emitted)
               /\ e.id = NoId /\ ~IsStream(e) /\ e.type # "thinking" =>
                    IsDisplay(q, Append(Flush(d, FALSE).items, Group("event", <<i>>, FALSE)),
                              <<>>, <<>>, d.emitted)
<1>. DEFINE e == s[i]
            call == Group("tool", CallEntries(s, e.id), live /\ IsOpen(s, e.id))
            single == Group("event", <<i>>, FALSE)
            q == DisplayStep(s, live, d, i)
            f == Flush(d, FALSE)
            fs == FlushStreams(d, FALSE)
            ft == FlushThinking(d, FALSE)
            none == <<>>
<1>1. e \in Events /\ i \in Nat /\ e.id \in CallId \cup {NoId} /\ (e.id \in CallId <=> e.id # NoId)
      /\ (e.id \in CallId => IsTool(e)) /\ (IsStream(e) => e.id = NoId /\ e.type # "thinking")
      /\ (e.type = "thinking" => e.id = NoId)
  <2>1. e \in Events /\ i \in Nat
    BY ElementOfSeq
  <2>. HIDE DEF e
  <2>. QED BY <2>1, EventSorts
<1>2. /\ f \in Displays /\ f.items \in Seq(Groups) /\ f.streams = none /\ f.thoughts = none /\ f.emitted = d.emitted
      /\ fs \in Displays /\ fs.items \in Seq(Groups) /\ fs.streams = none /\ fs.thoughts = d.thoughts
      /\ fs.emitted = d.emitted
      /\ ft \in Displays /\ ft.items \in Seq(Groups) /\ ft.streams = d.streams /\ ft.thoughts = none
      /\ ft.emitted = d.emitted
  <2>1. f \in Displays /\ fs \in Displays /\ ft \in Displays
    BY FlushIs DEF IsDisplay
  <2>2. /\ f.streams = none /\ f.thoughts = none /\ f.emitted = d.emitted
        /\ fs.streams = none /\ fs.thoughts = d.thoughts /\ fs.emitted = d.emitted
        /\ ft.streams = d.streams /\ ft.thoughts = none /\ ft.emitted = d.emitted
    BY FlushIs DEF IsDisplay
  <2>. HIDE DEF f, fs, ft
  <2>. QED BY <2>1, <2>2, DisplayTyped
<1>3. d.streams \in Seq(Nat) /\ d.thoughts \in Seq(Nat) /\ d.emitted \in SUBSET CallId
  BY DisplayTyped
<1>. HIDE DEF f, fs, ft, e
<1>4. CASE e.id \in CallId /\ e.id \in d.emitted
  <2>1. q = d
    BY <1>1, <1>4 DEF DisplayStep, AlreadyEmitted, e
  <2>. HIDE DEF q
  <2>. QED BY <1>1, <1>4, <2>1, ViewsAssumption DEF q, e
<1>5. CASE e.id \in CallId /\ e.id \notin d.emitted
  <2>. DEFINE x == Append(f.items, call)
              m == d.emitted \cup {e.id}
  <2>1. q = [f EXCEPT !.emitted = m, !.items = x]
    BY <1>1, <1>2, <1>5 DEF DisplayStep, AlreadyEmitted, e, f
  <2>2. call \in Groups
    <3>1. CallEntries(s, e.id) \in Seq(Nat)
      BY <1>5, CallEntriesList DEF Lists
    <3>2. (live /\ IsOpen(s, e.id)) \in BOOLEAN
      BY DEF IsOpen
    <3>. QED BY <3>1, <3>2 DEF Group, Groups
  <2>. HIDE DEF call
  <2>3. x \in Seq(Groups) /\ m \in SUBSET CallId
    BY <1>2, <1>3, <1>5, <2>2, AppendProperties
  <2>. HIDE DEF x, m, q
  <2>4. none \in Seq(Nat)
    BY DEF none
  <2>5. IsDisplay([f EXCEPT !.emitted = m, !.items = x], x, none, none, m)
    BY <1>2, <2>3, <2>4, DisplayWith
  <2>6. IsDisplay(q, x, none, none, m) /\ q \in Displays
    BY <2>1, <2>5 DEF IsDisplay
  <2>. QED BY <1>1, <1>5, <2>6, ViewsAssumption DEF q, e, x, m, f, call, none
<1>6. CASE IsStream(e)
  <2>. DEFINE y == Append(d.streams, i)
  <2>1. q = [ft EXCEPT !.streams = y]
    BY <1>1, <1>2, <1>6 DEF DisplayStep, e, ft
  <2>2. y \in Seq(Nat)
    BY <1>1, <1>3, AppendProperties
  <2>. HIDE DEF y, q
  <2>3. IsDisplay([ft EXCEPT !.streams = y], ft.items, y, none, d.emitted)
    <3>1. d.emitted \in SUBSET CallId
      BY <1>3
    <3>. QED BY <1>2, <2>2, <3>1, DisplayWith
  <2>4. IsDisplay(q, ft.items, y, none, d.emitted) /\ q \in Displays
    BY <2>1, <2>3 DEF IsDisplay
  <2>. QED BY <1>1, <1>6, <2>4, ViewsAssumption DEF q, e, y, ft, none
<1>7. CASE e.type = "thinking"
  <2>. DEFINE y == Append(d.thoughts, i)
  <2>1. q = [fs EXCEPT !.thoughts = y]
    BY <1>1, <1>2, <1>7 DEF DisplayStep, e, fs
  <2>2. y \in Seq(Nat)
    BY <1>1, <1>3, AppendProperties
  <2>. HIDE DEF y, q
  <2>3. IsDisplay([fs EXCEPT !.thoughts = y], fs.items, none, y, d.emitted)
    <3>1. d.emitted \in SUBSET CallId
      BY <1>3
    <3>. QED BY <1>2, <2>2, <3>1, DisplayWith
  <2>4. IsDisplay(q, fs.items, none, y, d.emitted) /\ q \in Displays
    BY <2>1, <2>3 DEF IsDisplay
  <2>. QED BY <1>1, <1>7, <2>4, ViewsAssumption DEF q, e, y, fs, none
<1>8. CASE e.id = NoId /\ ~IsStream(e) /\ e.type # "thinking"
  <2>. DEFINE x == Append(f.items, single)
  <2>1. q = [f EXCEPT !.items = x]
    BY <1>1, <1>2, <1>8 DEF DisplayStep, e, f
  <2>2. single \in Groups
    BY <1>1 DEF Group, Groups
  <2>. HIDE DEF single
  <2>3. x \in Seq(Groups)
    BY <1>2, <2>2, AppendProperties
  <2>. HIDE DEF x, q
  <2>5. IsDisplay([f EXCEPT !.items = x], x, none, none, d.emitted)
    <3>1. none \in Seq(Nat)
      BY DEF none
    <3>. QED BY <1>2, <1>3, <2>3, <3>1, DisplayWith
  <2>6. IsDisplay(q, x, none, none, d.emitted) /\ q \in Displays
    BY <2>1, <2>5 DEF IsDisplay
  <2>. QED BY <1>1, <1>8, <2>6, ViewsAssumption DEF q, e, x, f, single, none
<1>. QED BY <1>1, <1>4, <1>5, <1>6, <1>7, <1>8

\* The display takes one event after the other.
LEMMA DisplayFold ==
    ASSUME NEW s \in Seq(Events), NEW live \in BOOLEAN
    PROVE  \E g : /\ g[{}] = NoGroups
                  /\ \A k \in 1..Len(s) : g[1..k] = DisplayStep(s, live, g[1..(k - 1)], k)
                  /\ DisplayRead(s, live) = g[1..Len(s)]
<1>. DEFINE n == Len(s)
            base == NoGroups
            step == [k \in 1..n |-> [p \in Displays |-> DisplayStep(s, live, p, k)]]
            ks == [k \in DOMAIN s |-> k]
            IsFold(g) == g = [T \in SUBSET DOMAIN ks |->
                                IF T = {} THEN base
                                ELSE DisplayStep(s, live, g[T \ {Max(T)}], ks[Max(T)])]
            g == CHOOSE g : IsFold(g)
<1>1. n \in Nat /\ DOMAIN s = 1..n /\ DOMAIN ks = 1..n /\ \A k \in 1..n : ks[k] = k
  BY LenProperties
<1>2. step \in [1..n -> [Displays -> Displays]] /\ base \in Displays
  <2>1. ASSUME NEW k \in 1..n, NEW p \in Displays PROVE DisplayStep(s, live, p, k) \in Displays
    BY DisplayStepIs
  <2>2. base \in Displays
    BY DEF Displays, NoGroups
  <2>. QED BY <2>1, <2>2
<1>3. \A k \in 1..n, p \in Displays : step[k][p] = DisplayStep(s, live, p, ks[k])
  OBVIOUS
<1>4. PICK h : IsFold(h)
  <2>. HIDE DEF n, base
  <2>1. PICK h \in [SUBSET (1..n) -> Displays] : Folds(h, base, step, n)
    <3>. HIDE DEF step
    <3>. QED BY <1>1, <1>2, FoldExists
  <2>2. ASSUME NEW T \in SUBSET (1..n)
        PROVE  h[T] = IF T = {} THEN base ELSE DisplayStep(s, live, h[T \ {Max(T)}], ks[Max(T)])
    <3>1. h[T] = IF T = {} THEN base ELSE step[Max(T)][h[T \ {Max(T)}]]
      BY <2>1 DEF Folds
    <3>2. T # {} => Max(T) \in 1..n /\ h[T \ {Max(T)}] \in Displays
      <4>. HIDE DEF step, ks
      <4>. QED BY <1>1, <2>1, MaxOfIndices
    <3>. HIDE DEF step, ks
    <3>. QED BY <1>3, <3>1, <3>2
  <2>3. h = [T \in SUBSET (1..n) |-> h[T]]
    BY <2>1
  <2>. HIDE DEF ks
  <2>4. IsFold(h)
    BY <1>1, <2>2, <2>3
  <2>. QED BY <2>4
<1>5. IsFold(g)
  BY <1>4
<1>6. DisplayRead(s, live) = g[DOMAIN ks]
  BY DEF DisplayRead, FoldLeft, MapThenFoldSet
<1>. HIDE DEF g, step, ks, base
<1>7. g[{}] = base
  BY <1>5
<1>8. ASSUME NEW k \in 1..n PROVE g[1..k] = DisplayStep(s, live, g[1..(k - 1)], k)
  <2>1. Max(1..k) = k /\ (1..k) \ {k} = 1..(k - 1) /\ 1..k \in SUBSET (1..n) /\ 1..k # {}
    <3>. HIDE DEF n
    <3>. QED BY <1>1, LastIndex
  <2>2. ks[k] = k
    BY <1>1
  <2>. HIDE DEF n
  <2>3. \A T \in SUBSET (1..n) : T # {} => g[T] = DisplayStep(s, live, g[T \ {Max(T)}], ks[Max(T)])
    BY <1>1, <1>5
  <2>. QED BY <2>1, <2>2, <2>3
<1>. QED BY <1>1, <1>6, <1>7, <1>8 DEF base


-----------------------------------------------------------------------------

\* The calls of which the log up to k has an event, and the events whose place
\* the first k events decide: they and the later ones of these calls.
Called(s, k) == { c \in CallId : \E j \in 1..k : s[j].id = c }
Claimed(s, k) == { i \in 1..Len(s) : i <= k \/ s[i].id \in Called(s, k) }

LEMMA ClaimedOn ==
    ASSUME NEW s \in Seq(Events), NEW k \in Nat, k + 1 \in 1..Len(s)
    PROVE  LET c == s[k + 1].id IN
           /\ c \in Called(s, k) => Called(s, k + 1) = Called(s, k) /\ Claimed(s, k + 1) = Claimed(s, k)
           /\ c \in CallId /\ c \notin Called(s, k) =>
                /\ Called(s, k + 1) = Called(s, k) \cup {c}
                /\ Claimed(s, k + 1) = Claimed(s, k) \cup EventsOf(s, c)
                /\ Claimed(s, k) \cap EventsOf(s, c) = {}
                /\ k + 1 \in EventsOf(s, c) /\ \A i \in EventsOf(s, c) : k + 1 <= i
           /\ c = NoId =>
                /\ Called(s, k + 1) = Called(s, k)
                /\ Claimed(s, k + 1) = Claimed(s, k) \cup {k + 1}
                /\ Claimed(s, k) \cap {k + 1} = {}
<1>. DEFINE c == s[k + 1].id
            n == Len(s)
<1>1. n \in Nat /\ DOMAIN s = 1..n /\ k + 1 \in 1..n /\ k + 1 \in Nat
  BY LenProperties
<1>2. /\ \A i \in 1..n : s[i].id \in CallId \cup {NoId}
      /\ NoId \notin CallId
  <2>1. \A i \in 1..n : s[i] \in Events
    BY ElementOfSeq
  <2>. QED BY <2>1, EventSorts, ViewsAssumption
<1>3. \A j : j \in 1..k + 1 <=> j \in 1..k \/ j = k + 1
  BY <1>1
<1>4. /\ \A i \in 1..n : i <= k + 1 <=> i <= k \/ i = k + 1
      /\ \A i \in 1..n : i <= k <=> i \in 1..k
      /\ \A i \in 1..n : ~(i <= k) => k + 1 <= i
      /\ ~(k + 1 <= k) /\ \A i \in 1..k : i \in 1..n
  BY <1>1
<1>5. Called(s, k + 1) = IF c \in CallId THEN Called(s, k) \cup {c} ELSE Called(s, k)
  BY <1>3 DEF Called
<1>6. /\ \A i : i \in Claimed(s, k) <=> i \in 1..n /\ (i <= k \/ s[i].id \in Called(s, k))
      /\ \A i : i \in Claimed(s, k + 1) <=> i \in 1..n /\ (i <= k + 1 \/ s[i].id \in Called(s, k + 1))
      /\ \A i : i \in EventsOf(s, c) <=> i \in 1..n /\ s[i].id = c
  BY <1>1 DEF Claimed, EventsOf
<1>7. \A i \in 1..n : i <= k /\ s[i].id \in CallId => s[i].id \in Called(s, k)
  BY <1>4 DEF Called
<1>8. Called(s, k) \subseteq CallId
  BY DEF Called
<1>9. s[k + 1].id = c
  OBVIOUS
<1>. HIDE DEF c, n
<1>10. CASE c \in Called(s, k)
  <2>1. Called(s, k + 1) = Called(s, k) /\ c # NoId
    BY <1>2, <1>5, <1>8, <1>10
  <2>2. Claimed(s, k + 1) = Claimed(s, k)
    BY <1>1, <1>4, <1>6, <1>9, <1>10, <2>1
  <2>. QED BY <1>10, <2>1, <2>2 DEF c
<1>11. CASE c \in CallId /\ c \notin Called(s, k)
  <2>1. Called(s, k + 1) = Called(s, k) \cup {c} /\ c # NoId
    BY <1>2, <1>5, <1>11
  <2>2. Claimed(s, k + 1) = Claimed(s, k) \cup EventsOf(s, c)
    BY <1>1, <1>4, <1>6, <1>9, <1>11, <2>1
  <2>3. Claimed(s, k) \cap EventsOf(s, c) = {}
    BY <1>6, <1>7, <1>11
  <2>4. k + 1 \in EventsOf(s, c) /\ \A i \in EventsOf(s, c) : k + 1 <= i
    BY <1>1, <1>4, <1>6, <1>7, <1>9, <1>11
  <2>. QED BY <1>11, <2>1, <2>2, <2>3, <2>4 DEF c
<1>12. CASE c = NoId
  <2>1. Called(s, k + 1) = Called(s, k) /\ c \notin Called(s, k)
    BY <1>2, <1>5, <1>8, <1>12
  <2>2. Claimed(s, k + 1) = Claimed(s, k) \cup {k + 1}
    BY <1>1, <1>4, <1>6, <2>1
  <2>3. Claimed(s, k) \cap {k + 1} = {}
    <3>1. ~(k + 1 <= k) /\ s[k + 1].id \notin Called(s, k)
      BY <1>4, <1>9, <2>1
    <3>2. k + 1 \notin Claimed(s, k)
      BY <1>6, <3>1
    <3>. QED BY <3>2
  <2>. QED BY <1>2, <1>12, <2>1, <2>2, <2>3 DEF c
<1>. QED BY <1>1, <1>2, <1>9, <1>10, <1>11, <1>12 DEF c

\* The text t is what the console still waits for: nothing comes behind it but
\* events of calls that are shown before it.
TextLive(s, t) == \A j \in t[Len(t)] + 1..Len(s) : s[j].id \in Called(s, t[1])

\* What holds of each group that is shown.
GroupHolds(s, live, g) ==
    /\ g.entries # <<>> /\ Rises(g.entries)
    /\ g.live <=> /\ live
                  /\ CASE g.kind = "tool" -> IsOpen(s, s[g.entries[1]].id)
                       [] g.kind = "event" -> FALSE
                       [] OTHER -> TextLive(s, g.entries)

\* The groups are in the order of their first entries, which are up to k.
FirstsRise(items, k) ==
    /\ \A j \in 1..Len(items) : items[j].entries[1] <= k
    /\ \A i, j \in 1..Len(items) : i < j => items[i].entries[1] < items[j].entries[1]

\* The text that waits to be shown after the first k events.
Waits(s, items, text, k) ==
    text # <<>> =>
        /\ Rises(text) /\ text[Len(text)] <= k
        /\ \A j \in 1..Len(items) : items[j].entries[1] < text[1]
        /\ Called(s, k) = Called(s, text[1])
        /\ \A j \in text[Len(text)] + 1..k : s[j].id \in Called(s, text[1])

\* The display after the first k events: the groups and the text that waits
\* have each event that is claimed once.
Reached(s, live, items, text, k) ==
    /\ items \in Seq(Groups) /\ text \in Seq(Nat)
    /\ Lists(Entries(items) \o text, Claimed(s, k))
    /\ \A j \in 1..Len(items) : GroupHolds(s, live, items[j])
    /\ FirstsRise(items, k)
    /\ Waits(s, items, text, k)

LEMMA ReachedNone ==
    ASSUME NEW s \in Seq(Events), NEW live
    PROVE  Reached(s, live, <<>>, <<>>, 0) /\ Called(s, 0) = {}
<1>1. Called(s, 0) = {} /\ Claimed(s, 0) = {}
  <2>1. 1..0 = {}
    OBVIOUS
  <2>2. Called(s, 0) = {}
    BY <2>1 DEF Called
  <2>3. \A i \in 1..Len(s) : ~(i <= 0)
    BY LenProperties
  <2>. QED BY <2>2, <2>3 DEF Claimed
<1>2. <<>> \in Seq(Groups) /\ <<>> \in Seq(Nat) /\ Len(<<>>) = 0 /\ 1..0 = {} /\ <<>> \o <<>> = <<>>
  OBVIOUS
<1>3. Entries(<<>>) = <<>>
  <2>1. [k \in DOMAIN <<>> |-> <<>>[k].entries] = <<>>
    OBVIOUS
  <2>. QED BY <2>1, FlattenNone DEF Entries
<1>4. Waits(s, <<>>, <<>>, 0)
  BY DEF Waits
<1>. QED BY <1>1, <1>2, <1>3, <1>4, ListsNone DEF Reached, FirstsRise

\* One group more whose first entry is behind those of the others.
LEMMA GroupBehind ==
    ASSUME NEW s \in Seq(Events), NEW live, NEW items \in Seq(Groups), NEW g \in Groups, NEW k \in Nat,
           NEW b \in Nat, b <= k,
           \A j \in 1..Len(items) : GroupHolds(s, live, items[j]), GroupHolds(s, live, g),
           FirstsRise(items, b), g.entries[1] <= k,
           \A j \in 1..Len(items) : items[j].entries[1] < g.entries[1]
    PROVE  LET more == items \o <<g>> IN
           /\ more \in Seq(Groups)
           /\ \A j \in 1..Len(more) : GroupHolds(s, live, more[j])
           /\ FirstsRise(more, k)
<1>. DEFINE n == Len(items)
            more == Append(items, g)
            first == g.entries[1]
<1>1. /\ n \in Nat /\ more \in Seq(Groups) /\ Len(more) = n + 1 /\ more[n + 1] = g
      /\ \A j \in 1..n : more[j] = items[j]
      /\ more = items \o <<g>>
  BY LenProperties, AppendProperties, AppendIsConcat
<1>2. \A j \in 1..n : items[j].entries[1] \in Nat
  <2>. SUFFICES ASSUME NEW j \in 1..n PROVE items[j].entries[1] \in Nat
    OBVIOUS
  <2>. DEFINE t == items[j].entries
  <2>1. items[j] \in Groups /\ GroupHolds(s, live, items[j])
    BY ElementOfSeq
  <2>2. t \in Seq(Nat) /\ t # <<>>
    BY <2>1 DEF Groups, GroupHolds
  <2>. HIDE DEF t
  <2>3. 1 \in 1..Len(t)
    BY <2>2, EmptySeq, LenProperties
  <2>4. t[1] \in Nat
    BY <2>2, <2>3, ElementOfSeq
  <2>. QED BY <2>4 DEF t
<1>3. \A j \in 1..n : items[j].entries[1] <= b /\ items[j].entries[1] < first
  BY DEF FirstsRise
<1>4. \A i, j \in 1..n : i < j => items[i].entries[1] < items[j].entries[1]
  BY DEF FirstsRise
<1>5. first <= k
  OBVIOUS
<1>. HIDE DEF more, n, first
<1>6. ASSUME NEW j \in 1..n + 1
      PROVE  \/ j \in 1..n /\ more[j] = items[j]
             \/ j = n + 1 /\ more[j] = g
  <2>1. j \in 1..n \/ j = n + 1
    BY <1>1
  <2>. QED BY <1>1, <2>1
<1>7. ASSUME NEW j \in 1..n + 1
      PROVE  GroupHolds(s, live, more[j]) /\ more[j].entries[1] <= k
  <2>1. CASE j \in 1..n /\ more[j] = items[j]
    <3>1. items[j].entries[1] <= b /\ items[j].entries[1] \in Nat
      BY <1>2, <1>3, <2>1
    <3>. QED BY <2>1, <3>1 DEF n
  <2>2. CASE j = n + 1 /\ more[j] = g
    BY <1>5, <2>2 DEF first
  <2>. QED BY <1>6, <2>1, <2>2
<1>8. ASSUME NEW i \in 1..n + 1, NEW j \in 1..n + 1, i < j
      PROVE  more[i].entries[1] < more[j].entries[1]
  <2>1. i \in 1..n /\ more[i] = items[i]
    <3>1. i # n + 1
      BY <1>1, <1>8
    <3>. QED BY <1>6, <3>1
  <2>2. CASE j \in 1..n /\ more[j] = items[j]
    BY <1>4, <1>8, <2>1, <2>2
  <2>3. CASE j = n + 1 /\ more[j] = g
    BY <1>3, <2>1, <2>3 DEF first
  <2>. QED BY <1>6, <2>2, <2>3
<1>9. FirstsRise(more, k)
  BY <1>1, <1>7, <1>8 DEF FirstsRise
<1>. QED BY <1>1, <1>7, <1>9

\* An event of a call that is shown already.
LEMMA ReachedSkip ==
    ASSUME NEW s \in Seq(Events), NEW live, NEW items, NEW text, NEW k \in Nat, k + 1 \in 1..Len(s),
           Reached(s, live, items, text, k), s[k + 1].id \in Called(s, k)
    PROVE  Reached(s, live, items, text, k + 1)
<1>1. Called(s, k + 1) = Called(s, k) /\ Claimed(s, k + 1) = Claimed(s, k)
  BY ClaimedOn
<1>2. FirstsRise(items, k + 1)
  <2>. SUFFICES ASSUME NEW j \in 1..Len(items) PROVE items[j].entries[1] <= k + 1
    BY DEF FirstsRise, Reached
  <2>. DEFINE x == items[j].entries[1]
  <2>1. x <= k
    BY DEF Reached, FirstsRise
  <2>2. x \in Nat
    <3>. DEFINE t == items[j].entries
    <3>1. items[j] \in Groups /\ GroupHolds(s, live, items[j])
      BY ElementOfSeq DEF Reached
    <3>2. t \in Seq(Nat) /\ t # <<>>
      BY <3>1 DEF Groups, GroupHolds
    <3>. HIDE DEF t
    <3>3. 1 \in 1..Len(t)
      BY <3>2, EmptySeq, LenProperties
    <3>4. t[1] \in Nat
      BY <3>2, <3>3, ElementOfSeq
    <3>. QED BY <3>4 DEF t
  <2>. HIDE DEF x
  <2>3. x <= k + 1
    BY <2>1, <2>2
  <2>. QED BY <2>3 DEF x
<1>3. Waits(s, items, text, k + 1)
  <2>. SUFFICES ASSUME text # <<>>
                PROVE  /\ Rises(text) /\ text[Len(text)] <= k + 1
                       /\ \A j \in 1..Len(items) : items[j].entries[1] < text[1]
                       /\ Called(s, k + 1) = Called(s, text[1])
                       /\ \A j \in text[Len(text)] + 1..k + 1 : s[j].id \in Called(s, text[1])
    BY DEF Waits
  <2>. DEFINE last == text[Len(text)]
  <2>1. /\ Rises(text) /\ last <= k
        /\ \A j \in 1..Len(items) : items[j].entries[1] < text[1]
        /\ Called(s, k) = Called(s, text[1])
        /\ \A j \in last + 1..k : s[j].id \in Called(s, text[1])
    BY DEF Reached, Waits
  <2>2. last \in Nat
    <3>1. text \in Seq(Nat)
      BY DEF Reached
    <3>2. Len(text) \in 1..Len(text)
      BY <3>1, EmptySeq, LenProperties
    <3>. QED BY <3>1, <3>2, ElementOfSeq
  <2>. HIDE DEF last
  <2>3. last <= k + 1 /\ \A j \in last + 1..k + 1 : j \in last + 1..k \/ j = k + 1
    BY <2>1, <2>2
  <2>4. \A j \in last + 1..k + 1 : s[j].id \in Called(s, text[1])
    BY <2>1, <2>3
  <2>5. Called(s, k + 1) = Called(s, text[1])
    BY <1>1, <2>1
  <2>. QED BY <2>1, <2>3, <2>4, <2>5 DEF last
<1>. QED BY <1>1, <1>2, <1>3 DEF Reached

\* The first entries of the groups are numbers.
LEMMA FirstsTyped ==
    ASSUME NEW s \in Seq(Events), NEW live, NEW items, NEW text, NEW k \in Nat,
           Reached(s, live, items, text, k)
    PROVE  /\ \A j \in 1..Len(items) : items[j].entries[1] \in Nat /\ items[j].entries[1] <= k
           /\ text # <<>> => text[1] \in Nat /\ text[Len(text)] \in Nat /\ text[1] <= k
<1>1. ASSUME NEW t \in Seq(Nat), t # <<>>
      PROVE  t[1] \in Nat /\ t[Len(t)] \in Nat /\ 1 \in DOMAIN t /\ Len(t) \in DOMAIN t /\ Len(t) \in Nat
             /\ (1 = Len(t) \/ 1 < Len(t))
  <2>1. 1 \in 1..Len(t) /\ Len(t) \in 1..Len(t) /\ DOMAIN t = 1..Len(t) /\ Len(t) \in Nat
    BY <1>1, EmptySeq, LenProperties
  <2>2. t[1] \in Nat /\ t[Len(t)] \in Nat
    BY <2>1, ElementOfSeq
  <2>3. 1 = Len(t) \/ 1 < Len(t)
    BY <2>1
  <2>. QED BY <2>1, <2>2, <2>3
<1>2. ASSUME NEW j \in 1..Len(items)
      PROVE  items[j].entries[1] \in Nat /\ items[j].entries[1] <= k
  <2>1. items[j] \in Groups /\ GroupHolds(s, live, items[j])
    BY ElementOfSeq DEF Reached
  <2>2. items[j].entries \in Seq(Nat) /\ items[j].entries # <<>>
    BY <2>1 DEF Groups, GroupHolds
  <2>3. items[j].entries[1] <= k
    BY DEF Reached, FirstsRise
  <2>. QED BY <1>1, <2>2, <2>3
<1>3. ASSUME text # <<>> PROVE text[1] \in Nat /\ text[Len(text)] \in Nat /\ text[1] <= k
  <2>1. text \in Seq(Nat) /\ Rises(text) /\ text[Len(text)] <= k
    BY <1>3 DEF Reached, Waits
  <2>2. /\ text[1] \in Nat /\ text[Len(text)] \in Nat /\ 1 \in DOMAIN text /\ Len(text) \in DOMAIN text
        /\ (1 = Len(text) \/ 1 < Len(text))
    BY <1>1, <1>3, <2>1
  <2>3. 1 < Len(text) => text[1] < text[Len(text)]
    BY <2>1, <2>2 DEF Rises
  <2>. DEFINE a == text[1]
              b == text[Len(text)]
              l == Len(text)
  <2>4. a \in Nat /\ b \in Nat /\ b <= k /\ (a < b \/ 1 = l)
    BY <2>1, <2>2, <2>3
  <2>5. 1 = l => a = b
    OBVIOUS
  <2>. HIDE DEF a, b, l
  <2>6. a <= k
    BY <2>4, <2>5
  <2>. QED BY <2>4, <2>6 DEF a, b
<1>. QED BY <1>2, <1>3

\* A group of its own for events that none of the first k claims.
LEMMA ReachedGroup ==
    ASSUME NEW s \in Seq(Events), NEW live, NEW items, NEW k \in Nat, k + 1 \in 1..Len(s),
           Reached(s, live, items, <<>>, k), NEW g \in Groups, NEW S,
           GroupHolds(s, live, g), g.entries[1] = k + 1, Lists(g.entries, S),
           Claimed(s, k + 1) = Claimed(s, k) \cup S, Claimed(s, k) \cap S = {}
    PROVE  Reached(s, live, items \o <<g>>, <<>>, k + 1)
<1>. DEFINE more == items \o <<g>>
            none == <<>>
<1>1. /\ items \in Seq(Groups) /\ \A j \in 1..Len(items) : GroupHolds(s, live, items[j])
      /\ FirstsRise(items, k) /\ Lists(Entries(items) \o <<>>, Claimed(s, k))
  BY DEF Reached
<1>2. Entries(items) \in Seq(Nat) /\ Entries(more) = Entries(items) \o g.entries
  BY <1>1, EntriesMore
<1>3. /\ more \in Seq(Groups)
      /\ \A j \in 1..Len(more) : GroupHolds(s, live, more[j])
      /\ FirstsRise(more, k + 1)
  <2>. DEFINE i == k + 1
  <2>1. i \in Nat /\ k <= i /\ g.entries[1] <= i
    OBVIOUS
  <2>2. \A j \in 1..Len(items) : items[j].entries[1] < g.entries[1]
    <3>1. \A j \in 1..Len(items) : items[j].entries[1] \in Nat /\ items[j].entries[1] <= k
      BY FirstsTyped
    <3>2. \A x \in Nat : x <= k => x < k + 1
      OBVIOUS
    <3>. QED BY <3>1, <3>2
  <2>. HIDE DEF i
  <2>3. LET m == items \o <<g>> IN
        /\ m \in Seq(Groups)
        /\ \A j \in 1..Len(m) : GroupHolds(s, live, m[j])
        /\ FirstsRise(m, i)
    BY <1>1, <2>1, <2>2, GroupBehind
  <2>. QED BY <2>3 DEF i
<1>4. Lists(Entries(more) \o <<>>, Claimed(s, k + 1))
  <2>. DEFINE e == Entries(items)
              A == Claimed(s, k)
  <2>1. e \o <<>> = e
    BY <1>2, ConcatEmptySeq
  <2>2. Lists(e, A)
    BY <1>1, <2>1
  <2>. HIDE DEF e, A
  <2>3. Lists(e \o g.entries, A \cup S)
    BY <2>2, ListsBoth DEF A
  <2>4. e \o g.entries \in Seq(Nat)
    BY <2>3 DEF Lists
  <2>5. (e \o g.entries) \o <<>> = e \o g.entries
    BY <2>4, ConcatEmptySeq
  <2>. QED BY <1>2, <2>3, <2>5 DEF e, A
<1>5. Waits(s, more, <<>>, k + 1) /\ <<>> \in Seq(Nat)
  BY DEF Waits
<1>. QED BY <1>3, <1>4, <1>5 DEF Reached

\* One event more of the text that waits.
LEMMA ReachedText ==
    ASSUME NEW s \in Seq(Events), NEW live, NEW items, NEW text, NEW k \in Nat, k + 1 \in 1..Len(s),
           Reached(s, live, items, text, k), s[k + 1].id = NoId
    PROVE  Reached(s, live, items, text \o <<k + 1>>, k + 1)
<1>. DEFINE i == k + 1
            longer == text \o <<i>>
            n == Len(text)
<1>1. /\ items \in Seq(Groups) /\ text \in Seq(Nat) /\ \A j \in 1..Len(items) : GroupHolds(s, live, items[j])
      /\ FirstsRise(items, k) /\ Lists(Entries(items) \o text, Claimed(s, k))
  BY DEF Reached
<1>2. /\ Called(s, i) = Called(s, k)
      /\ Claimed(s, i) = Claimed(s, k) \cup {i} /\ Claimed(s, k) \cap {i} = {}
  BY ClaimedOn
<1>3. i \in Nat /\ k <= i
  OBVIOUS
<1>4. /\ longer \in Seq(Nat) /\ n \in Nat /\ Len(longer) = n + 1 /\ longer[n + 1] = i
      /\ \A j \in 1..n : longer[j] = text[j]
  <2>. HIDE DEF i
  <2>1. longer = Append(text, i)
    BY <1>1, <1>3, AppendIsConcat
  <2>. QED BY <1>1, <1>3, <2>1, AppendProperties, LenProperties
<1>5. Lists(Entries(items) \o longer, Claimed(s, i))
  <2>. DEFINE e == Entries(items)
              A == Claimed(s, k)
              b == e \o text
  <2>1. e \in Seq(Nat)
    <3>1. items = <<>> \/ items # <<>>
      OBVIOUS
    <3>. QED BY <1>1, EntriesTyped
  <2>2. b \o <<i>> = e \o longer
    <3>1. e \in Seq(Nat) /\ text \in Seq(Nat) /\ i \in Nat
      BY <1>1, <1>3, <2>1
    <3>. HIDE DEF e, i, A, n
    <3>2. (e \o text) \o <<i>> = e \o (text \o <<i>>)
      BY <3>1, ConcatOne
    <3>. QED BY <3>2
  <2>3. Lists(b, A) /\ A \cap {i} = {}
    BY <1>1, <1>2
  <2>. HIDE DEF e, A, b, i
  <2>4. Lists(<<i>>, {i})
    BY <1>3, ListsOne
  <2>5. Lists(b \o <<i>>, A \cup {i})
    BY <2>3, <2>4, ListsBoth
  <2>. QED BY <1>2, <2>2, <2>5 DEF e, A
<1>6. \A j \in 1..Len(items) : items[j].entries[1] \in Nat /\ items[j].entries[1] <= k
  BY FirstsTyped
<1>7. FirstsRise(items, i)
  <2>1. \A x \in Nat : x <= k => x <= i
    OBVIOUS
  <2>. HIDE DEF i
  <2>. QED BY <1>1, <1>6, <2>1 DEF FirstsRise
<1>8. Waits(s, items, longer, i)
  <2>1. longer[Len(longer)] = i /\ longer # <<>>
    BY <1>4
  <2>2. \A j \in i + 1..i : FALSE
    OBVIOUS
  <2>3. CASE text = <<>>
    <3>1. longer = <<i>> /\ longer[1] = i
      BY <2>3
    <3>2. Rises(longer)
      <4>. HIDE DEF i, longer
      <4>. QED BY <1>3, <3>1, ListsOne
    <3>3. \A x \in Nat : x <= k => x < i
      OBVIOUS
    <3>4. i <= i
      OBVIOUS
    <3>. HIDE DEF i, longer
    <3>. QED BY <1>6, <2>1, <2>2, <3>1, <3>2, <3>3, <3>4 DEF Waits
  <2>4. CASE text # <<>>
    <3>1. /\ Rises(text) /\ text[n] <= k
          /\ \A j \in 1..Len(items) : items[j].entries[1] < text[1]
          /\ Called(s, k) = Called(s, text[1])
      BY <2>4 DEF Reached, Waits
    <3>2. 1 \in 1..n /\ longer[1] = text[1]
      <4>1. 1 \in 1..n
        BY <1>1, <2>4, EmptySeq, LenProperties
      <4>. QED BY <1>4, <4>1
    <3>3. \A j \in DOMAIN text : text[j] < i
      <4>1. DOMAIN text = 1..n
        BY <1>1, LenProperties
      <4>2. ASSUME NEW j \in 1..n PROVE text[j] < i
        <5>1. text[j] \in Nat /\ text[n] \in Nat /\ n \in 1..n
          <6>1. n \in 1..n
            BY <1>4, <3>2
          <6>. QED BY <1>1, <6>1, ElementOfSeq
        <5>2. j = n \/ j < n
          BY <1>4
        <5>3. j < n => text[j] < text[n]
          BY <3>1, <4>1, <5>1 DEF Rises
        <5>. DEFINE a == text[j]
                    b == text[n]
        <5>4. a \in Nat /\ b \in Nat /\ b <= k /\ (a = b \/ a < b)
          BY <3>1, <5>1, <5>2, <5>3
        <5>. HIDE DEF a, b, n
        <5>5. a < i
          BY <5>4
        <5>. QED BY <5>5 DEF a
      <4>. QED BY <4>1, <4>2
    <3>4. Rises(longer)
      <4>. HIDE DEF i
      <4>. QED BY <1>1, <1>3, <3>1, <3>3, RisesOn
    <3>5. i <= i
      OBVIOUS
    <3>. HIDE DEF i, longer
    <3>. QED BY <1>2, <2>1, <2>2, <3>1, <3>2, <3>4, <3>5 DEF Waits
  <2>. QED BY <2>3, <2>4
<1>. QED BY <1>1, <1>4, <1>5, <1>7, <1>8 DEF Reached

\* The text that waits becomes a group.
LEMMA ReachedFlush ==
    ASSUME NEW s \in Seq(Events), NEW live, NEW items, NEW text, NEW k \in Nat,
           Reached(s, live, items, text, k), NEW kind \in {"stream", "thinking"}, NEW f \in BOOLEAN,
           text # <<>> => (f <=> live /\ TextLive(s, text))
    PROVE  Reached(s, live, items \o TextGroup(kind, text, f), <<>>, k)
<1>. DEFINE g == Group(kind, text, f)
            more == items \o <<g>>
<1>1. /\ items \in Seq(Groups) /\ text \in Seq(Nat) /\ \A j \in 1..Len(items) : GroupHolds(s, live, items[j])
      /\ FirstsRise(items, k) /\ Lists(Entries(items) \o text, Claimed(s, k))
  BY DEF Reached
<1>2. CASE text = <<>>
  <2>1. TextGroup(kind, text, f) = <<>> /\ items \o <<>> = items
    BY <1>1, <1>2, ConcatEmptySeq DEF TextGroup
  <2>. QED BY <1>2, <2>1
<1>3. CASE text # <<>>
  <2>1. TextGroup(kind, text, f) = <<g>> /\ g \in Groups
    BY <1>1, <1>3, TextGroupTyped
  <2>2. g.entries = text /\ g.kind = kind /\ g.live = f
    BY DEF Group
  <2>3. /\ Rises(text) /\ text[Len(text)] <= k
        /\ \A j \in 1..Len(items) : items[j].entries[1] < text[1]
    BY <1>3 DEF Reached, Waits
  <2>4. text[1] <= k
    BY <1>3, FirstsTyped
  <2>5. Entries(items) \in Seq(Nat) /\ Entries(more) = Entries(items) \o text
    <3>1. Entries(items \o <<g>>) = Entries(items) \o g.entries /\ Entries(items) \in Seq(Nat)
      BY <1>1, <2>1, EntriesMore
    <3>. QED BY <2>2, <3>1
  <2>. HIDE DEF g
  <2>6. GroupHolds(s, live, g)
    <3>1. g.kind # "tool" /\ g.kind # "event"
      BY <2>2
    <3>. QED BY <1>3, <2>2, <2>3, <3>1 DEF GroupHolds
  <2>7. /\ more \in Seq(Groups)
        /\ \A j \in 1..Len(more) : GroupHolds(s, live, more[j])
        /\ FirstsRise(more, k)
    <3>1. k <= k /\ g.entries[1] <= k /\ \A j \in 1..Len(items) : items[j].entries[1] < g.entries[1]
      BY <2>2, <2>3, <2>4
    <3>. QED BY <1>1, <2>1, <2>6, <3>1, GroupBehind
  <2>8. Lists(Entries(more) \o <<>>, Claimed(s, k))
    <3>. DEFINE e == Entries(items) \o text
    <3>1. Lists(e, Claimed(s, k))
      BY <1>1
    <3>2. e \in Seq(Nat)
      BY <3>1 DEF Lists
    <3>. HIDE DEF e
    <3>3. e \o <<>> = e
      BY <3>2, ConcatEmptySeq
    <3>. QED BY <2>5, <3>1, <3>3 DEF e
  <2>9. Waits(s, more, <<>>, k) /\ <<>> \in Seq(Nat)
    BY DEF Waits
  <2>. HIDE DEF more
  <2>10. Reached(s, live, more, <<>>, k)
    BY <2>7, <2>8, <2>9 DEF Reached
  <2>. QED BY <2>1, <2>10 DEF more
<1>. QED BY <1>2, <1>3

\* Behind a text comes an event that ends it, or the log ends.
LEMMA TextEnds ==
    ASSUME NEW s \in Seq(Events), NEW live, NEW items, NEW text, NEW k \in Nat,
           Reached(s, live, items, text, k), text # <<>>
    PROVE  /\ k + 1 \in 1..Len(s) /\ s[k + 1].id \notin Called(s, k) => ~TextLive(s, text)
           /\ k = Len(s) => TextLive(s, text)
<1>. DEFINE last == text[Len(text)]
<1>1. /\ last <= k /\ last \in Nat
      /\ Called(s, k) = Called(s, text[1])
      /\ \A j \in last + 1..k : s[j].id \in Called(s, text[1])
  BY FirstsTyped DEF Reached, Waits
<1>2. Len(s) \in Nat
  BY LenProperties
<1>. HIDE DEF last
<1>3. ASSUME k + 1 \in 1..Len(s), s[k + 1].id \notin Called(s, k) PROVE ~TextLive(s, text)
  <2>1. k + 1 \in last + 1..Len(s)
    BY <1>1, <1>2, <1>3
  <2>. QED BY <1>1, <1>3, <2>1 DEF TextLive, last
<1>4. k = Len(s) => TextLive(s, text)
  BY <1>1 DEF TextLive, last
<1>. QED BY <1>3, <1>4

-----------------------------------------------------------------------------

\* What the display has gathered of the first k events.
Gathered(s, live, d, k) ==
    /\ d \in Displays /\ d.emitted = Called(s, k)
    /\ \/ d.thoughts = <<>> /\ Reached(s, live, d.items, d.streams, k)
       \/ d.streams = <<>> /\ Reached(s, live, d.items, d.thoughts, k)

LEMMA FlushKeeps ==
    ASSUME NEW s \in Seq(Events), NEW live \in BOOLEAN, NEW d, NEW k \in Nat, Gathered(s, live, d, k),
           NEW f \in BOOLEAN,
           \/ f = FALSE /\ k + 1 \in 1..Len(s) /\ s[k + 1].id \notin Called(s, k)
           \/ f = live /\ k = Len(s)
    PROVE  /\ Reached(s, live, Flush(d, f).items, <<>>, k)
           /\ Reached(s, live, FlushThinking(d, f).items, d.streams, k)
           /\ Reached(s, live, FlushStreams(d, f).items, d.thoughts, k)
<1>. DEFINE a == TextGroup("stream", d.streams, f)
            b == TextGroup("thinking", d.thoughts, f)
            none == <<>>
<1>1. d \in Displays /\ d.items \in Seq(Groups) /\ d.streams \in Seq(Nat) /\ d.thoughts \in Seq(Nat)
  BY DisplayTyped DEF Gathered
<1>2. /\ FlushStreams(d, f).items = d.items \o a
      /\ FlushThinking(d, f).items = d.items \o b
      /\ Flush(d, f).items = (d.items \o a) \o b
  BY <1>1, FlushIs DEF IsDisplay
<1>3. ASSUME NEW text, text # <<>>, Reached(s, live, d.items, text, k)
      PROVE  f <=> live /\ TextLive(s, text)
  BY <1>3, TextEnds
<1>4. /\ d.streams = none => a = none
      /\ d.thoughts = none => b = none
  BY DEF TextGroup
<1>5. d.items \o none = d.items
  BY <1>1, ConcatEmptySeq
<1>6. CASE d.thoughts = none /\ Reached(s, live, d.items, d.streams, k)
  <2>1. Reached(s, live, d.items \o a, none, k)
    BY <1>3, <1>6, ReachedFlush
  <2>2. d.items \o a \in Seq(Groups)
    BY <2>1 DEF Reached
  <2>3. (d.items \o a) \o none = d.items \o a
    BY <2>2, ConcatEmptySeq
  <2>. HIDE DEF a, b, none
  <2>. QED BY <1>2, <1>4, <1>5, <1>6, <2>1, <2>3 DEF none
<1>7. CASE d.streams = none /\ Reached(s, live, d.items, d.thoughts, k)
  <2>1. Reached(s, live, d.items \o b, none, k)
    BY <1>3, <1>7, ReachedFlush
  <2>. HIDE DEF a, b, none
  <2>. QED BY <1>2, <1>4, <1>5, <1>7, <2>1 DEF none
<1>. QED BY <1>6, <1>7 DEF Gathered

\* The group of a call of which no event is shown holds, and claims all of them.
LEMMA CallGroupHolds ==
    ASSUME NEW s \in Seq(Events), NEW live \in BOOLEAN, NEW k \in Nat, k + 1 \in 1..Len(s),
           NEW c, c = s[k + 1].id, c \in CallId, c \notin Called(s, k)
    PROVE  LET g == Group("tool", CallEntries(s, c), live /\ IsOpen(s, c)) IN
           /\ g \in Groups /\ GroupHolds(s, live, g)
           /\ g.entries[1] = k + 1 /\ Lists(g.entries, EventsOf(s, c))
<1>. DEFINE t == CallEntries(s, c)
            S == EventsOf(s, c)
            g == Group("tool", t, live /\ IsOpen(s, c))
<1>1. k + 1 \in S /\ \A i \in S : k + 1 <= i
  BY ClaimedOn
<1>2. Lists(t, S) /\ Rises(t)
  BY CallEntriesList
<1>3. g.kind = "tool" /\ g.entries = t /\ (g.live <=> live /\ IsOpen(s, c))
  BY DEF Group
<1>4. (live /\ IsOpen(s, c)) \in BOOLEAN /\ t \in Seq(Nat)
  BY <1>2 DEF IsOpen, Lists
<1>5. g \in Groups
  BY <1>4 DEF Group, Groups
<1>. HIDE DEF g, t, S
<1>6. t # <<>>
  <2>1. ToSet(<<>>) = {}
    BY DEF ToSet
  <2>. QED BY <1>1, <1>2, <2>1 DEF Lists
<1>7. t[1] = k + 1
  <2>1. t[1] \in S /\ t[1] <= k + 1
    BY <1>1, <1>2, <1>6, ListEnds
  <2>2. k + 1 <= t[1]
    BY <1>1, <2>1
  <2>3. t[1] \in Nat
    <3>1. 1 \in 1..Len(t)
      BY <1>4, <1>6, EmptySeq, LenProperties
    <3>. QED BY <1>4, <3>1, ElementOfSeq
  <2>. DEFINE x == t[1]
  <2>4. x \in Nat /\ x <= k + 1 /\ k + 1 <= x
    BY <2>1, <2>2, <2>3
  <2>. HIDE DEF x
  <2>5. x = k + 1
    BY <2>4
  <2>. QED BY <2>5 DEF x
<1>8. GroupHolds(s, live, g)
  <2>1. s[g.entries[1]].id = c
    BY <1>3, <1>7
  <2>. QED BY <1>2, <1>3, <1>6, <2>1 DEF GroupHolds
<1>. QED BY <1>2, <1>3, <1>5, <1>7, <1>8 DEF g, t, S

LEMMA EventGroupHolds ==
    ASSUME NEW s, NEW live, NEW i \in Nat
    PROVE  LET g == Group("event", <<i>>, FALSE) IN
           g \in Groups /\ GroupHolds(s, live, g) /\ g.entries[1] = i /\ Lists(g.entries, {i})
<1>. DEFINE g == Group("event", <<i>>, FALSE)
<1>1. g.kind = "event" /\ g.entries = <<i>> /\ g.live = FALSE /\ g \in Groups
  BY DEF Group, Groups
<1>2. <<i>> # <<>> /\ <<i>>[1] = i
  OBVIOUS
<1>3. Lists(<<i>>, {i}) /\ Rises(<<i>>)
  BY ListsOne
<1>. HIDE DEF g
<1>4. GroupHolds(s, live, g)
  BY <1>1, <1>2, <1>3 DEF GroupHolds
<1>. QED BY <1>1, <1>2, <1>3, <1>4 DEF g

\* A step of the display keeps what it has gathered.
LEMMA GathersOn ==
    ASSUME NEW s \in Seq(Events), NEW live \in BOOLEAN, NEW d, NEW k \in Nat, k + 1 \in 1..Len(s),
           Gathered(s, live, d, k)
    PROVE  Gathered(s, live, DisplayStep(s, live, d, k + 1), k + 1)
<1>. DEFINE i == k + 1
            e == s[i]
            q == DisplayStep(s, live, d, i)
            call == Group("tool", CallEntries(s, e.id), live /\ IsOpen(s, e.id))
            single == Group("event", <<i>>, FALSE)
            none == <<>>
<1>1. /\ e \in Events /\ i \in Nat /\ i \in 1..Len(s)
      /\ d \in Displays /\ d.emitted = Called(s, k)
  BY ElementOfSeq DEF Gathered
<1>2. /\ q \in Displays
      /\ e.id \in CallId /\ e.id \in d.emitted => q = d
      /\ e.id \in CallId /\ e.id \notin d.emitted =>
           IsDisplay(q, Append(Flush(d, FALSE).items, call), none, none, d.emitted \cup {e.id})
      /\ IsStream(e) =>
           IsDisplay(q, FlushThinking(d, FALSE).items, Append(d.streams, i), none, d.emitted)
      /\ e.type = "thinking" =>
           IsDisplay(q, FlushStreams(d, FALSE).items, none, Append(d.thoughts, i), d.emitted)
      /\ e.id = NoId /\ ~IsStream(e) /\ e.type # "thinking" =>
           IsDisplay(q, Append(Flush(d, FALSE).items, single), none, none, d.emitted)
  BY <1>1, DisplayStepIs
<1>3. /\ e.id \in CallId \cup {NoId} /\ NoId \notin CallId
      /\ (IsStream(e) => e.id = NoId) /\ (e.type = "thinking" => e.id = NoId)
  <2>. HIDE DEF e
  <2>. QED BY <1>1, EventSorts, ViewsAssumption
<1>4. /\ e.id \in Called(s, k) => Called(s, i) = Called(s, k)
      /\ e.id \in CallId /\ e.id \notin Called(s, k) =>
           /\ Called(s, i) = Called(s, k) \cup {e.id}
           /\ Claimed(s, i) = Claimed(s, k) \cup EventsOf(s, e.id)
           /\ Claimed(s, k) \cap EventsOf(s, e.id) = {}
      /\ e.id = NoId =>
           /\ Called(s, i) = Called(s, k)
           /\ Claimed(s, i) = Claimed(s, k) \cup {i}
           /\ Claimed(s, k) \cap {i} = {}
  BY ClaimedOn
<1>5. Called(s, k) \subseteq CallId
  BY DEF Called
<1>6. e.id \notin Called(s, k) =>
        /\ Reached(s, live, Flush(d, FALSE).items, none, k)
        /\ Reached(s, live, FlushThinking(d, FALSE).items, d.streams, k)
        /\ Reached(s, live, FlushStreams(d, FALSE).items, d.thoughts, k)
  BY <1>1, FlushKeeps
<1>7. d.streams \in Seq(Nat) /\ d.thoughts \in Seq(Nat)
  BY <1>1, DisplayTyped
<1>8. CASE e.id \in Called(s, k)
  <2>1. q = d
    BY <1>1, <1>2, <1>5, <1>8
  <2>2. ASSUME NEW text, Reached(s, live, d.items, text, k) PROVE Reached(s, live, d.items, text, i)
    BY <1>8, <2>2, ReachedSkip
  <2>3. Called(s, i) = Called(s, k)
    BY <1>4, <1>8
  <2>. HIDE DEF q, i, e
  <2>4. Gathered(s, live, d, i)
    BY <1>1, <2>2, <2>3 DEF Gathered
  <2>. QED BY <2>1, <2>4 DEF q, i
<1>9. CASE e.id \in CallId /\ e.id \notin Called(s, k)
  <2>1. /\ call \in Groups /\ GroupHolds(s, live, call)
        /\ call.entries[1] = i /\ Lists(call.entries, EventsOf(s, e.id))
    BY <1>9, CallGroupHolds
  <2>2. /\ Claimed(s, i) = Claimed(s, k) \cup EventsOf(s, e.id)
        /\ Claimed(s, k) \cap EventsOf(s, e.id) = {} /\ Called(s, i) = d.emitted \cup {e.id}
    BY <1>1, <1>4, <1>9
  <2>. DEFINE items == Flush(d, FALSE).items
  <2>3. Reached(s, live, items, none, k)
    BY <1>6, <1>9
  <2>4. IsDisplay(q, Append(items, call), none, none, d.emitted \cup {e.id})
    BY <1>1, <1>2, <1>9
  <2>5. items \in Seq(Groups)
    BY <2>3 DEF Reached
  <2>. HIDE DEF items, call, q
  <2>6. Append(items, call) = items \o <<call>>
    BY <2>1, <2>5, AppendIsConcat
  <2>7. Reached(s, live, items \o <<call>>, none, i)
    BY <1>1, <2>1, <2>2, <2>3, ReachedGroup
  <2>8. Gathered(s, live, q, i)
    <3>. HIDE DEF e, i, none
    <3>. QED BY <2>2, <2>4, <2>6, <2>7 DEF IsDisplay, Gathered, none
  <2>. QED BY <2>8 DEF q
<1>10. CASE e.id = NoId
  <2>1. /\ Called(s, i) = d.emitted
        /\ Claimed(s, i) = Claimed(s, k) \cup {i} /\ Claimed(s, k) \cap {i} = {}
        /\ e.id \notin Called(s, k)
    BY <1>1, <1>3, <1>4, <1>5, <1>10
  <2>2. ASSUME NEW items, NEW text \in Seq(Nat), Reached(s, live, items, text, k)
        PROVE  Reached(s, live, items, Append(text, i), i)
    <3>1. Append(text, i) = text \o <<i>>
      BY <1>1, AppendIsConcat
    <3>2. Reached(s, live, items, text \o <<i>>, i)
      BY <1>10, <2>2, ReachedText
    <3>. QED BY <3>1, <3>2
  <2>3. CASE IsStream(e)
    <3>. DEFINE items == FlushThinking(d, FALSE).items
                text == Append(d.streams, i)
    <3>1. Reached(s, live, items, text, i)
      BY <1>6, <1>7, <2>1, <2>2
    <3>2. IsDisplay(q, items, text, none, d.emitted)
      BY <1>2, <2>3
    <3>. HIDE DEF items, text, q, i, e
    <3>3. Gathered(s, live, q, i)
      BY <2>1, <3>1, <3>2 DEF IsDisplay, Gathered
    <3>. QED BY <3>3 DEF q, i
  <2>4. CASE e.type = "thinking"
    <3>. DEFINE items == FlushStreams(d, FALSE).items
                text == Append(d.thoughts, i)
    <3>1. Reached(s, live, items, text, i)
      BY <1>6, <1>7, <2>1, <2>2
    <3>2. IsDisplay(q, items, none, text, d.emitted)
      BY <1>2, <2>4
    <3>. HIDE DEF items, text, q, i, e
    <3>3. Gathered(s, live, q, i)
      BY <2>1, <3>1, <3>2 DEF IsDisplay, Gathered
    <3>. QED BY <3>3 DEF q, i
  <2>5. CASE ~IsStream(e) /\ e.type # "thinking"
    <3>1. single \in Groups /\ GroupHolds(s, live, single) /\ single.entries[1] = i /\ Lists(single.entries, {i})
      BY <1>1, EventGroupHolds
    <3>. DEFINE items == Flush(d, FALSE).items
    <3>3. Reached(s, live, items, none, k)
      BY <1>6, <2>1
    <3>4. IsDisplay(q, Append(items, single), none, none, d.emitted)
      BY <1>2, <1>10, <2>5
    <3>5. items \in Seq(Groups)
      BY <3>3 DEF Reached
    <3>. HIDE DEF items, single, q
    <3>6. Append(items, single) = items \o <<single>>
      BY <3>1, <3>5, AppendIsConcat
    <3>7. Reached(s, live, items \o <<single>>, none, i)
      BY <1>1, <2>1, <3>1, <3>3, ReachedGroup
    <3>8. Gathered(s, live, q, i)
      <4>. HIDE DEF e, i, none
      <4>. QED BY <2>1, <3>4, <3>6, <3>7 DEF IsDisplay, Gathered, none
    <3>. QED BY <3>8 DEF q
  <2>. QED BY <2>3, <2>4, <2>5
<1>. QED BY <1>3, <1>8, <1>9, <1>10

\* The display of a log has all of it.
LEMMA DisplayHolds ==
    ASSUME NEW s \in Seq(Events), NEW live \in BOOLEAN
    PROVE  /\ Reached(s, live, Display(s, live), <<>>, Len(s))
           /\ Claimed(s, Len(s)) = DOMAIN s
<1>. DEFINE n == Len(s)
            J == [k \in 0..n |-> { d \in Displays : Gathered(s, live, d, k) }]
<1>1. n \in Nat /\ DOMAIN s = 1..n
  BY LenProperties
<1>2. PICK g : /\ g[{}] = NoGroups
               /\ \A k \in 1..n : g[1..k] = DisplayStep(s, live, g[1..(k - 1)], k)
               /\ DisplayRead(s, live) = g[1..n]
  BY DisplayFold
<1>3. Gathered(s, live, NoGroups, 0)
  <2>1. NoGroups \in Displays
    BY DEF NoGroups, Displays
  <2>2. NoGroups.items = <<>> /\ NoGroups.streams = <<>> /\ NoGroups.thoughts = <<>> /\ NoGroups.emitted = {}
    BY DEF NoGroups
  <2>3. Reached(s, live, <<>>, <<>>, 0) /\ Called(s, 0) = {}
    BY ReachedNone
  <2>. QED BY <2>1, <2>2, <2>3 DEF Gathered
<1>4. ASSUME NEW k \in 1..n, g[1..(k - 1)] \in J[k - 1] PROVE g[1..k] \in J[k]
  <2>. DEFINE m == k - 1
  <2>1. k \in 0..n /\ m \in 0..n /\ m \in Nat /\ m + 1 = k
    BY <1>1
  <2>2. Gathered(s, live, g[1..m], m)
    BY <1>4, <2>1
  <2>3. g[1..k] = DisplayStep(s, live, g[1..m], m + 1)
    BY <1>2, <2>1
  <2>. HIDE DEF m
  <2>4. Gathered(s, live, DisplayStep(s, live, g[1..m], m + 1), m + 1)
    BY <2>1, <2>2, GathersOn
  <2>5. Gathered(s, live, g[1..k], k)
    BY <2>1, <2>3, <2>4
  <2>. QED BY <2>1, <2>5 DEF Gathered
<1>5. g[{}] \in J[0]
  <2>1. 0 \in 0..n
    BY <1>1
  <2>. QED BY <1>2, <1>3, <2>1 DEF Gathered
<1>6. g[1..n] \in J[n]
  <2>. HIDE DEF J, n
  <2>. QED BY <1>1, <1>4, <1>5, FoldKeeps
<1>7. Gathered(s, live, DisplayRead(s, live), n)
  <2>1. n \in 0..n
    BY <1>1
  <2>. HIDE DEF n
  <2>. QED BY <1>2, <1>6, <2>1
<1>8. Reached(s, live, Flush(DisplayRead(s, live), live).items, <<>>, n)
  BY <1>1, <1>7, FlushKeeps
<1>9. Claimed(s, n) = 1..n
  BY <1>1 DEF Claimed
<1>. QED BY <1>1, <1>8, <1>9 DEF Display

\* TextLive() in the words of the property.
LEMMA TextLiveIs ==
    ASSUME NEW s \in Seq(Events), NEW t \in Seq(Nat), t # <<>>
    PROVE  TextLive(s, t) <=>
             \A j \in Last(t) + 1..Len(s) :
                 IsTool(s[j]) /\ s[j].id # NoId /\ \E m \in 1..t[1] : s[m].id = s[j].id
<1>1. Len(s) \in Nat /\ t[Len(t)] \in Nat
  <2>1. Len(t) \in 1..Len(t)
    BY EmptySeq, LenProperties
  <2>. QED BY <2>1, ElementOfSeq, LenProperties
<1>2. ASSUME NEW j \in t[Len(t)] + 1..Len(s)
      PROVE  s[j].id \in Called(s, t[1])
               <=> IsTool(s[j]) /\ s[j].id # NoId /\ \E m \in 1..t[1] : s[m].id = s[j].id
  <2>1. j \in 1..Len(s)
    BY <1>1
  <2>2. s[j] \in Events
    BY <2>1, ElementOfSeq
  <2>. DEFINE e == s[j]
  <2>3. (e.id \in CallId <=> e.id # NoId) /\ (e.id \in CallId => IsTool(e))
    <3>1. e \in Events
      BY <2>2
    <3>. HIDE DEF e
    <3>. QED BY <3>1, EventSorts
  <2>. QED BY <2>3 DEF Called
<1>. QED BY <1>2 DEF TextLive, Last

\* The console shows every entry of every log once, the groups in the order of
\* their first entries and the entries in their own, and marks as live what it
\* waits for (buildUnifiedDisplay(), src/ui/src/components/debugDisplayUtils.ts:68-177).
THEOREM DisplaysAreFaithful == ViewsSpec => []DisplayIsFaithful
<1>. DEFINE Inv == ViewsInv /\ streaming \in BOOLEAN
<1>1. Inv => DisplayIsFaithful
  <2>. SUFFICES ASSUME ViewsInv, streaming \in BOOLEAN PROVE DisplayIsFaithful
    OBVIOUS
  <2>. DEFINE items == Display(log, streaming)
              shown == FlattenSeq([k \in DOMAIN items |-> items[k].entries])
  <2>1. log \in Seq(Events)
    BY DEF ViewsInv
  <2>2. Reached(log, streaming, items, <<>>, Len(log)) /\ Claimed(log, Len(log)) = DOMAIN log
    BY <2>1, DisplayHolds
  <2>. HIDE DEF items
  <2>3. /\ items \in Seq(Groups) /\ \A j \in 1..Len(items) : GroupHolds(log, streaming, items[j])
        /\ FirstsRise(items, Len(log)) /\ Lists(Entries(items) \o <<>>, DOMAIN log)
    BY <2>2 DEF Reached
  <2>4. DOMAIN items = 1..Len(items) /\ Len(log) \in Nat /\ DOMAIN log = 1..Len(log)
    BY <2>1, <2>3, LenProperties
  <2>5. Len(shown) = Len(log) /\ ToSet(shown) = DOMAIN log
    <3>1. shown = Entries(items) /\ Entries(items) \in Seq(Nat)
      BY <2>3, EntriesTyped DEF Entries
    <3>2. Lists(Entries(items), DOMAIN log)
      BY <2>3, <3>1, ConcatEmptySeq
    <3>3. Cardinality(1..Len(log)) = Len(log)
      <4>. DEFINE l == Len(log)
      <4>1. l \in Nat
        BY <2>4
      <4>. HIDE DEF l
      <4>2. Cardinality(1..l) = IF 1 > l THEN 0 ELSE l - 1 + 1
        BY <4>1, FS_Interval
      <4>3. Cardinality(1..l) = l
        BY <4>1, <4>2
      <4>. QED BY <4>3 DEF l
    <3>. HIDE DEF shown
    <3>. QED BY <2>4, <3>1, <3>2, <3>3 DEF Lists
  <2>6. LET firsts == [k \in DOMAIN items |-> items[k].entries[1]] IN
        \A j, k \in DOMAIN firsts : j < k => firsts[j] < firsts[k]
    BY <2>3, <2>4 DEF FirstsRise
  <2>7. ASSUME NEW k \in DOMAIN items
        PROVE  LET t == items[k].entries IN
               /\ \A i, j \in DOMAIN t : i < j => t[i] < t[j]
               /\ items[k].live <=>
                    /\ streaming
                    /\ CASE items[k].kind = "tool" -> IsOpen(log, log[t[1]].id)
                         [] items[k].kind = "event" -> FALSE
                         [] OTHER -> \A j \in Last(t) + 1..Len(log) :
                                        IsTool(log[j]) /\ log[j].id # NoId
                                        /\ \E n \in 1..t[1] : log[n].id = log[j].id
    <3>. DEFINE g == items[k]
                t == g.entries
                Quiet == \A j \in Last(t) + 1..Len(log) :
                            IsTool(log[j]) /\ log[j].id # NoId
                            /\ \E n \in 1..t[1] : log[n].id = log[j].id
    <3>1. g \in Groups /\ GroupHolds(log, streaming, g)
      BY <2>3, <2>4, ElementOfSeq
    <3>2. t \in Seq(Nat) /\ t # <<>> /\ Rises(t)
      BY <3>1 DEF Groups, GroupHolds
    <3>3. TextLive(log, t) <=> Quiet
      BY <2>1, <3>2, TextLiveIs
    <3>4. g.live <=> /\ streaming
                     /\ CASE g.kind = "tool" -> IsOpen(log, log[t[1]].id)
                          [] g.kind = "event" -> FALSE
                          [] OTHER -> TextLive(log, t)
      BY <3>1 DEF GroupHolds
    <3>5. \A i, j \in DOMAIN t : i < j => t[i] < t[j]
      BY <3>2 DEF Rises
    <3>. HIDE DEF Quiet
    <3>6. g.live <=> /\ streaming
                     /\ CASE g.kind = "tool" -> IsOpen(log, log[t[1]].id)
                          [] g.kind = "event" -> FALSE
                          [] OTHER -> Quiet
      BY <3>3, <3>4
    <3>. QED BY <3>5, <3>6 DEF Quiet
  <2>. HIDE DEF shown
  <2>. QED BY <2>5, <2>6, <2>7 DEF DisplayIsFaithful, shown, items
<1>2. ViewsInit => Inv
  BY ViewsInitially DEF ViewsInit
<1>3. Inv /\ [ViewsNext]_viewsVars => Inv'
  <2>1. streaming \in BOOLEAN /\ [ViewsNext]_viewsVars => (streaming \in BOOLEAN)'
    BY DEF ViewsNext, Happens, viewsVars
  <2>. QED BY <2>1, ViewsNextKeeps
<1>. QED BY <1>1, <1>2, <1>3, PTL DEF ViewsSpec

=============================================================================
