---------------------------- MODULE SchedulerProofs ----------------------------
(***************************************************************************)
(* What the scheduler guarantees for any number of jobs, versions, saves,  *)
(* runs, crashes and disk errors. Saves may overlap in any way.            *)
(*                                                                         *)
(* The argument has three parts that need nothing of each other. A clean   *)
(* save has the temp file to itself, and what it writes is what the map    *)
(* holds. A job in order has the timer it should have, or one edit under   *)
(* way that will see to it. A job that is gone is in no map, timer, run or *)
(* save, so nothing can bring it back, however the saves overlap.          *)
(***************************************************************************)
EXTENDS Scheduler, TLAPS

Follow == [do : {"schedule"}, job : Job, version : Version]
          \cup [do : {"confirm", "nothing"}, job : Job] \cup {NothingNext}

\* A clean save: the temp file is its own, and its data is current.
SaveInv(s) ==
    /\ saver[s] \in {"writing", "renaming"} => openFile[s] = "tmp"
    /\ saver[s] = "writing" => tmp = Truncated
    /\ saver[s] = "renaming" => tmp = File(data[s])
    /\ saver[s] = "settling" => json = File(data[s])
    /\ saver[s] # "idle" => data[s] = Contents(jobs, heap)

Alone == \A r, s \in Saver : saver[r] # "idle" /\ saver[s] # "idle" => r = s

CleanInv ==
    clean => /\ Alone
             /\ \A s \in Saver : SaveInv(s)
             /\ up /\ ~Saving => Loaded = Contents(jobs, heap)

\* The timer that a job should have, and the saves whose callers will set it.
Wanted(i) == IF jobs[i] # 0 /\ heap[i][jobs[i]].status = "on" THEN jobs[i] ELSE 0
Editing(i, s) == saver[s] # "idle" /\ follow[s].do = "schedule" /\ follow[s].job = i

OrderInv(i) ==
    orderly[i] => /\ Pending(i) \/ timers[i] = Wanted(i)
                  /\ \A r, s \in Saver : Editing(i, r) /\ Editing(i, s) => r = s
                  /\ \A s \in Saver : Editing(i, s) => follow[s].version = jobs[i]

\* Nothing in memory, and no save under way, would bring the job back.
GoneFrom(i, s) ==
    saver[s] # "idle" => /\ data[s][i] = NoEntry
                         /\ ~Editing(i, s)
                         /\ saver[s] \in {"writing", "renaming"} => tmp.jobs[i] = NoEntry
Gone(i) ==
    /\ jobs[i] = 0 /\ timers[i] = 0 /\ \A v \in Version : inRun[i][v] = 0
    /\ \A s \in Saver : GoneFrom(i, s)

\* A removal that nothing was in the way of: its save leaves the job out.
Confirming(i, s) == saver[s] # "idle" /\ follow[s].do = "confirm" /\ follow[s].job = i

GoneInv(i) ==
    /\ ~created[i] \/ removed[i] => Gone(i) /\ Loaded[i] = NoEntry
    /\ \A s \in Saver : Confirming(i, s) => /\ Gone(i)
                                            /\ created[i]
                                            /\ saver[s] = "settling" => Loaded[i] = NoEntry
    /\ removed[i] => created[i]

\* A crash leaves nothing in memory.
DownInv == ~up => /\ clean /\ ~Saving
                  /\ \A i \in Job, v \in Version : inRun[i][v] = 0

IInv == /\ TypeOK
        /\ DownInv
        /\ follow \in [Saver -> Follow]
        /\ CleanInv
        /\ \A i \in Job : OrderInv(i)
        /\ \A i \in Job : GoneInv(i)

-----------------------------------------------------------------------------

LEMMA EntryTypes ==
    /\ NoEntry \in JobEntry
    /\ \A status \in {"on", "off", "bad"}, n \in Nat : Entry(status, n) \in JobEntry
    /\ NoJobs \in [Job -> JobEntry]
    /\ \A i \in Job : NoJobs[i] = NoEntry
BY DEF NoEntry, JobEntry, Entry, NoJobs

LEMMA FileTypes ==
    /\ NoFile \in JobsFile /\ Truncated \in JobsFile /\ Garbled \in JobsFile
    /\ \A contents \in [Job -> JobEntry] : File(contents) \in JobsFile
BY EntryTypes DEF NoFile, Truncated, Garbled, File, JobsFile

LEMMA ContentsType ==
    ASSUME NEW map \in [Job -> 0..MaxVersions], NEW objects \in [Job -> [Version -> JobEntry]]
    PROVE  Contents(map, objects) \in [Job -> JobEntry]
BY EntryTypes, SchedulerAssumption DEF Contents, Version, SchedulerAssumption

\* Whatever the file, a job it does not name is not loaded.
LEMMA LoadedType ==
    ASSUME json \in JobsFile
    PROVE  /\ Loaded \in [Job -> JobEntry]
           /\ \A i \in Job : json.jobs[i] = NoEntry => Loaded[i] = NoEntry
BY EntryTypes DEF Loaded, JobsFile

LEMMA InitInv == Init => IInv
<1> SUFFICES ASSUME Init PROVE IInv
  OBVIOUS
<1> USE DEF Init
<1>1. TypeOK
  BY EntryTypes, FileTypes, SchedulerAssumption DEF TypeOK, SchedulerAssumption
<1>2. follow \in [Saver -> Follow]
  BY DEF Follow
<1>3. Loaded = NoJobs /\ Contents(jobs, heap) = NoJobs
  BY DEF Loaded, NoFile, NoJobs, Contents
<1>4. CleanInv
  BY <1>3 DEF CleanInv, SaveInv, Alone
<1>5. ASSUME NEW i \in Job PROVE OrderInv(i)
  BY DEF OrderInv, Wanted, Editing
<1>6. ASSUME NEW i \in Job PROVE GoneInv(i)
  BY <1>3, EntryTypes DEF GoneInv, Gone, GoneFrom, Confirming
<1> QED
  BY <1>1, <1>2, <1>4, <1>5, <1>6 DEF IInv, DownInv

-----------------------------------------------------------------------------

\* A step that starts a save: the disk stays, and the data of the save is what
\* the map holds from now on. The save is clean exactly when it is alone.
LEMMA StartedSave ==
    ASSUME IInv, TypeOK', NEW s \in Saver, NEW next \in Follow, StartSave(s, next)
    PROVE  /\ follow' \in [Saver -> Follow]
           /\ saver[s] = "idle" /\ saver' = [saver EXCEPT ![s] = "opening"]
           /\ follow' = [follow EXCEPT ![s] = next]
           /\ data' = [data EXCEPT ![s] = Contents(jobs', heap')]
           /\ CleanInv'
           /\ Loaded' = Loaded /\ tmp' = tmp
<1> USE DEF IInv, TypeOK
<1>1. follow' \in [Saver -> Follow] /\ Loaded' = Loaded
  BY DEF StartSave, diskVars, Loaded
<1>2. CleanInv'
  <2> SUFFICES ASSUME clean' PROVE CleanInv'
    BY DEF CleanInv
  <2>1. ~Saving
    BY DEF StartSave
  <2>2. \A r \in Saver : saver'[r] = IF r = s THEN "opening" ELSE "idle"
    BY <2>1 DEF StartSave, Saving
  <2>3. data'[s] = Contents(jobs', heap')
    BY DEF StartSave, DataNow
  <2> QED
    BY <2>2, <2>3 DEF CleanInv, Alone, SaveInv, Saving
<1> QED
  BY <1>1, <1>2 DEF StartSave, DataNow, diskVars

\* A job that is gone stays gone when a save starts that says nothing of it,
\* in a step that brings it into neither map, timers nor runs.
LEMMA StartedSaveGone ==
    ASSUME IInv, TypeOK', NEW s \in Saver, NEW next \in Follow, StartSave(s, next),
           NEW i \in Job, created'[i] = created[i], removed'[i] = removed[i],
           ~(next.do \in {"schedule", "confirm"} /\ next.job = i),
           Gone(i) => jobs'[i] = 0 /\ timers'[i] = 0 /\ \A v \in Version : inRun'[i][v] = 0
    PROVE  GoneInv(i)'
<1> USE DEF IInv, TypeOK
<1>1. /\ saver[s] = "idle" /\ saver' = [saver EXCEPT ![s] = "opening"]
      /\ follow' = [follow EXCEPT ![s] = next]
      /\ data' = [data EXCEPT ![s] = Contents(jobs', heap')]
      /\ Loaded' = Loaded /\ tmp' = tmp
  BY StartedSave
<1>2. jobs'[i] = 0 => Contents(jobs', heap')[i] = NoEntry
  BY DEF Contents
<1>3. ASSUME NEW r \in Saver, r # s
      PROVE  /\ saver'[r] = saver[r] /\ data'[r] = data[r] /\ follow'[r] = follow[r]
             /\ GoneFrom(i, r) => GoneFrom(i, r)'
             /\ Confirming(i, r)' = Confirming(i, r)
  BY <1>1, <1>3 DEF GoneFrom, Editing, Confirming
<1>4. jobs'[i] = 0 => GoneFrom(i, s)'
  BY <1>1, <1>2 DEF GoneFrom, Editing
<1>5. ~Confirming(i, s)'
  BY <1>1 DEF Confirming
<1>6. Gone(i) => Gone(i)'
  BY <1>3, <1>4 DEF Gone
<1> QED
  BY <1>1, <1>3, <1>5, <1>6 DEF GoneInv

LEMMA StartedSaveConfirming ==
    ASSUME IInv, TypeOK', NEW s \in Saver, NEW next \in Follow, StartSave(s, next),
           next.do # "confirm", NEW i \in Job, NEW r \in Saver, Confirming(i, r)'
    PROVE  Confirming(i, r)
<1>1. /\ saver' = [saver EXCEPT ![s] = "opening"]
      /\ follow' = [follow EXCEPT ![s] = next]
  BY StartedSave
<1>2. r # s
  BY <1>1 DEF Confirming, IInv
<1> QED
  BY <1>1, <1>2 DEF Confirming, IInv, TypeOK

\* An edit of one job leaves the order of the others alone.
LEMMA StartedSaveOrder ==
    ASSUME IInv, TypeOK', NEW s \in Saver, NEW next \in Follow, StartSave(s, next),
           NEW i \in Job, orderly'[i] => orderly[i], timers'[i] = timers[i], jobs'[i] = jobs[i],
           Wanted(i)' = Wanted(i), ~(next.do = "schedule" /\ next.job = i)
    PROVE  OrderInv(i)'
<1> USE DEF IInv, TypeOK
<1>1. /\ saver[s] = "idle" /\ saver' = [saver EXCEPT ![s] = "opening"]
      /\ follow' = [follow EXCEPT ![s] = next]
  BY StartedSave
<1>2. \A r \in Saver : Editing(i, r)' = Editing(i, r) /\ (r # s => follow'[r] = follow[r])
  BY <1>1 DEF Editing
<1>3. ~Editing(i, s)
  BY <1>1 DEF Editing
<1>4. Pending(i)' = Pending(i)
  BY <1>2 DEF Pending, Editing
<1> SUFFICES ASSUME orderly'[i] PROVE OrderInv(i)'
  BY DEF OrderInv
<1>5. OrderInv(i) /\ orderly[i]
  OBVIOUS
<1>6. Pending(i)' \/ timers'[i] = Wanted(i)'
  BY <1>4, <1>5 DEF OrderInv
<1>7. \A r \in Saver : Editing(i, r)' => Editing(i, r) /\ follow'[r] = follow[r]
  BY <1>2, <1>3
<1> QED
  BY <1>5, <1>6, <1>7 DEF OrderInv

\* The job that is edited: in order, unless another edit of it is pending.
LEMMA EditedOrder ==
    ASSUME IInv, TypeOK', NEW s \in Saver, NEW next \in Follow, StartSave(s, next),
           NEW i \in Job, orderly'[i] = ~Pending(i),
           \/ next.do = "schedule" /\ next.job = i /\ next.version = jobs'[i]
           \/ next.do # "schedule" /\ timers'[i] = 0 /\ jobs'[i] = 0
    PROVE  OrderInv(i)'
<1> USE DEF IInv, TypeOK
<1> SUFFICES ASSUME ~Pending(i) PROVE OrderInv(i)'
  BY DEF OrderInv
<1>1. /\ saver' = [saver EXCEPT ![s] = "opening"]
      /\ follow' = [follow EXCEPT ![s] = next]
  BY StartedSave
<1>2. \A r \in Saver : r # s => ~Editing(i, r)'
  BY <1>1 DEF Editing, Pending
<1>3. CASE next.do = "schedule" /\ next.job = i /\ next.version = jobs'[i]
  <2>1. Pending(i)' /\ follow'[s].version = jobs'[i]
    BY <1>1, <1>3 DEF Pending
  <2> QED
    BY <1>2, <2>1 DEF OrderInv
<1>4. CASE next.do # "schedule" /\ timers'[i] = 0 /\ jobs'[i] = 0
  <2>1. ~Editing(i, s)'
    BY <1>1, <1>4 DEF Editing
  <2>2. timers'[i] = Wanted(i)'
    BY <1>4 DEF Wanted
  <2> QED
    BY <1>2, <2>1, <2>2 DEF OrderInv
<1> QED
  BY <1>3, <1>4

LEMMA AddJobInv ==
    ASSUME IInv, NEW i \in Job, NEW status \in {"on", "off", "bad"}, NEW s \in Saver,
           AddJob(i, status, s)
    PROVE  IInv'
<1> DEFINE next == [do |-> "schedule", job |-> i, version |-> 1]
<1> USE DEF IInv
<1>1. TypeOK'
  <2>1. heap' \in [Job -> [Version -> JobEntry]]
    BY EntryTypes DEF AddJob, TypeOK
  <2>2. jobs' \in [Job -> 0..MaxVersions] /\ latest' \in [Job -> 0..MaxVersions]
    BY SchedulerAssumption DEF AddJob, TypeOK, SchedulerAssumption
  <2>3. data' \in [Saver -> [Job -> JobEntry]]
    BY <2>1, <2>2, ContentsType DEF AddJob, StartSave, DataNow, TypeOK
  <2>4. edits' \in 0..MaxEdits
    BY SchedulerAssumption DEF AddJob, CountEdit, TypeOK, SchedulerAssumption
  <2> QED
    BY <2>1, <2>2, <2>3, <2>4
    DEF AddJob, StartSave, NoteEdit, TypeOK, diskVars
<1>2. next \in Follow /\ StartSave(s, next)
  BY SchedulerAssumption DEF Follow, Version, SchedulerAssumption, AddJob
<1>3. follow' \in [Saver -> Follow] /\ CleanInv'
  BY <1>1, <1>2, StartedSave
<1>4. ASSUME NEW j \in Job PROVE OrderInv(j)'
  <2>1. CASE j = i
    <3>1. orderly'[i] = ~Pending(i) /\ jobs'[i] = 1
      BY DEF AddJob, NoteEdit, TypeOK
    <3> QED
      BY <1>1, <1>2, <2>1, <3>1, EditedOrder
  <2>2. CASE j # i
    <3>1. orderly'[j] = orderly[j] /\ timers'[j] = timers[j] /\ jobs'[j] = jobs[j] /\ heap'[j] = heap[j]
      BY <2>2 DEF AddJob, NoteEdit, TypeOK
    <3> QED
      BY <1>1, <1>2, <2>2, <3>1, StartedSaveOrder DEF Wanted
  <2> QED
    BY <2>1, <2>2
<1>5. ASSUME NEW j \in Job PROVE GoneInv(j)'
  <2>1. CASE j = i
    <3>1. created'[i] /\ ~removed'[i]
      BY DEF AddJob, TypeOK, GoneInv
    <3>2. \A r \in Saver : ~Confirming(i, r)
      BY DEF AddJob, GoneInv
    <3>3. \A r \in Saver : ~Confirming(i, r)'
      BY <1>1, <1>2, <3>2, StartedSaveConfirming
    <3> QED
      BY <2>1, <3>1, <3>3 DEF GoneInv
  <2>2. CASE j # i
    <3>1. /\ jobs'[j] = jobs[j] /\ timers'[j] = timers[j] /\ inRun' = inRun
          /\ created'[j] = created[j] /\ removed'[j] = removed[j]
      BY <2>2 DEF AddJob, TypeOK
    <3> QED
      BY <1>1, <1>2, <2>2, <3>1, StartedSaveGone DEF Gone
  <2> QED
    BY <2>1, <2>2
<1> QED
  BY <1>1, <1>3, <1>4, <1>5 DEF AddJob, StartSave, DownInv

LEMMA UpdateJobInv ==
    ASSUME IInv, NEW i \in Job, NEW status \in {"on", "off", "bad"}, NEW s \in Saver,
           UpdateJob(i, status, s)
    PROVE  IInv'
<1> DEFINE v == latest[i] + 1
           next == [do |-> "schedule", job |-> i, version |-> v]
<1> USE DEF IInv
<1>0. v \in Version /\ jobs[i] \in Version
  BY SchedulerAssumption DEF UpdateJob, TypeOK, Version, SchedulerAssumption
<1>1. TypeOK'
  <2>1. heap' \in [Job -> [Version -> JobEntry]]
    <3>1. heap[i][jobs[i]].errors \in Nat
      BY <1>0 DEF TypeOK, JobEntry
    <3> QED
      BY <1>0, <3>1, EntryTypes DEF UpdateJob, TypeOK
  <2>2. jobs' \in [Job -> 0..MaxVersions] /\ latest' \in [Job -> 0..MaxVersions]
    BY <1>0 DEF UpdateJob, TypeOK, Version
  <2>3. data' \in [Saver -> [Job -> JobEntry]]
    BY <2>1, <2>2, ContentsType DEF UpdateJob, StartSave, DataNow, TypeOK
  <2>4. edits' \in 0..MaxEdits
    BY SchedulerAssumption DEF UpdateJob, CountEdit, TypeOK, SchedulerAssumption
  <2> QED
    BY <2>1, <2>2, <2>3, <2>4
    DEF UpdateJob, StartSave, NoteEdit, TypeOK, diskVars
<1>2. next \in Follow /\ StartSave(s, next)
  BY <1>0 DEF Follow, UpdateJob
<1>3. follow' \in [Saver -> Follow] /\ CleanInv'
  BY <1>1, <1>2, StartedSave
<1>4. ASSUME NEW j \in Job PROVE OrderInv(j)'
  <2>1. CASE j = i
    <3>1. orderly'[i] = ~Pending(i) /\ jobs'[i] = v
      BY DEF UpdateJob, NoteEdit, TypeOK
    <3> QED
      BY <1>1, <1>2, <2>1, <3>1, EditedOrder
  <2>2. CASE j # i
    <3>1. orderly'[j] = orderly[j] /\ timers'[j] = timers[j] /\ jobs'[j] = jobs[j] /\ heap'[j] = heap[j]
      BY <2>2 DEF UpdateJob, NoteEdit, TypeOK
    <3> QED
      BY <1>1, <1>2, <2>2, <3>1, StartedSaveOrder DEF Wanted
  <2> QED
    BY <2>1, <2>2
<1>5. ASSUME NEW j \in Job PROVE GoneInv(j)'
  <2>1. /\ j # i => jobs'[j] = jobs[j]
        /\ timers' = timers /\ inRun' = inRun /\ created' = created /\ removed' = removed
    BY DEF UpdateJob, TypeOK
  <2>2. CASE j # i
    BY <1>1, <1>2, <2>1, <2>2, StartedSaveGone DEF Gone
  <2>3. CASE j = i
    <3>1. ~Gone(i)
      BY DEF UpdateJob, Gone
    <3>2. \A r \in Saver : ~Confirming(i, r)
      BY <3>1 DEF GoneInv
    <3>3. \A r \in Saver : ~Confirming(i, r)'
      BY <1>1, <1>2, <3>2, StartedSaveConfirming
    <3> QED
      BY <2>1, <2>3, <3>1, <3>3 DEF GoneInv
  <2> QED
    BY <2>2, <2>3
<1> QED
  BY <1>1, <1>3, <1>4, <1>5 DEF UpdateJob, StartSave, DownInv

LEMMA RemoveJobInv ==
    ASSUME IInv, NEW i \in Job, NEW s \in Saver, RemoveJob(i, s)
    PROVE  IInv'
<1> DEFINE next == [do |-> IF NoRunOf(i) /\ ~Saving THEN "confirm" ELSE "nothing", job |-> i]
<1> USE DEF IInv
<1>1. TypeOK'
  <2>1. jobs' \in [Job -> 0..MaxVersions] /\ timers' \in [Job -> 0..MaxVersions]
    BY SchedulerAssumption DEF RemoveJob, CancelTimer, TypeOK, SchedulerAssumption
  <2>2. data' \in [Saver -> [Job -> JobEntry]]
    BY <2>1, ContentsType DEF RemoveJob, StartSave, DataNow, TypeOK
  <2>3. edits' \in 0..MaxEdits
    BY SchedulerAssumption DEF RemoveJob, CountEdit, TypeOK, SchedulerAssumption
  <2> QED
    BY <2>1, <2>2, <2>3 DEF RemoveJob, StartSave, NoteEdit, TypeOK, diskVars
<1>2. next \in Follow /\ StartSave(s, next)
  BY DEF Follow, RemoveJob
<1>3. follow' \in [Saver -> Follow] /\ CleanInv'
  BY <1>1, <1>2, StartedSave
<1>4. jobs'[i] = 0 /\ timers'[i] = 0 /\ created' = created /\ removed' = removed /\ inRun' = inRun
  BY DEF RemoveJob, CancelTimer, TypeOK
<1>5. ASSUME NEW j \in Job PROVE OrderInv(j)'
  <2>1. CASE j = i
    <3>1. orderly'[i] = ~Pending(i) /\ next.do # "schedule"
      BY DEF RemoveJob, NoteEdit, TypeOK
    <3> QED
      BY <1>1, <1>2, <1>4, <2>1, <3>1, EditedOrder
  <2>2. CASE j # i
    <3>1. orderly'[j] = orderly[j] /\ timers'[j] = timers[j] /\ jobs'[j] = jobs[j] /\ heap' = heap
      BY <2>2 DEF RemoveJob, CancelTimer, NoteEdit, TypeOK
    <3> QED
      BY <1>1, <1>2, <2>2, <3>1, StartedSaveOrder DEF Wanted
  <2> QED
    BY <2>1, <2>2
<1>6. ASSUME NEW j \in Job PROVE GoneInv(j)'
  <2>1. CASE j # i
    <3>1. jobs'[j] = jobs[j] /\ timers'[j] = timers[j]
      BY <2>1 DEF RemoveJob, CancelTimer, TypeOK
    <3> QED
      BY <1>1, <1>2, <1>4, <2>1, <3>1, StartedSaveGone DEF Gone
  <2>2. CASE j = i /\ ~(NoRunOf(i) /\ ~Saving)
    <3>1. next.do = "nothing"
      BY <2>2
    <3> QED
      BY <1>1, <1>2, <1>4, <2>2, <3>1, StartedSaveGone DEF Gone
  <2>3. CASE j = i /\ NoRunOf(i) /\ ~Saving
    <3>1. created[i] /\ ~removed[i]
      BY DEF RemoveJob, GoneInv, Gone
    <3>2. \A r \in Saver : saver'[r] = IF r = s THEN "opening" ELSE "idle"
      BY <1>1, <1>2, <2>3, StartedSave DEF Saving, TypeOK
    <3>3. data'[s][i] = NoEntry /\ follow'[s] = next
      BY <1>1, <1>2, <1>4, StartedSave DEF Contents, TypeOK
    <3>4. Gone(i)'
      BY <1>4, <2>3, <3>2, <3>3 DEF Gone, GoneFrom, Editing, NoRunOf
    <3>5. \A r \in Saver : saver'[r] # "settling"
      BY <3>2
    <3> QED
      BY <1>4, <2>3, <3>1, <3>4, <3>5 DEF GoneInv
  <2> QED
    BY <2>1, <2>2, <2>3
<1> QED
  BY <1>1, <1>3, <1>5, <1>6 DEF RemoveJob, StartSave, DownInv

\* A run that ends on the object in the map changes its count of errors alone.
LEMMA EndRunInv ==
    ASSUME IInv, NEW i \in Job, NEW v \in Version, NEW ok \in BOOLEAN, NEW s \in Saver,
           EndRun(i, v, ok, s)
    PROVE  IInv'
<1> USE DEF IInv
<1>1. TypeOK'
  <2>1. heap' \in [Job -> [Version -> JobEntry]]
    BY DEF EndRun, TypeOK, Entry, JobEntry
  <2>2. jobs' \in [Job -> 0..MaxVersions]
    BY SchedulerAssumption DEF EndRun, TypeOK, Version, SchedulerAssumption
  <2>3. data' \in [Saver -> [Job -> JobEntry]]
    BY <2>1, <2>2, ContentsType DEF EndRun, StartSave, DataNow, TypeOK
  <2>4. inRun' \in [Job -> [Version -> Nat]]
    BY DEF EndRun, TypeOK
  <2>5. orderly' \in [Job -> BOOLEAN]
    BY DEF EndRun, TypeOK
  <2> QED
    BY <2>1, <2>2, <2>3, <2>4, <2>5 DEF EndRun, StartSave, TypeOK, boundVars, diskVars
<1>2. NothingNext \in Follow /\ StartSave(s, NothingNext) /\ NothingNext.do = "nothing"
  BY DEF Follow, EndRun, NothingNext
<1>3. follow' \in [Saver -> Follow] /\ CleanInv'
  BY <1>1, <1>2, StartedSave
<1>4. ASSUME NEW j \in Job PROVE OrderInv(j)'
  <2> SUFFICES ASSUME orderly'[j] PROVE OrderInv(j)'
    BY DEF OrderInv
  <2>1. orderly[j] /\ (j = i => jobs[i] = v) /\ jobs'[j] = jobs[j] /\ timers' = timers
    BY DEF EndRun, TypeOK
  <2>2. jobs[j] # 0 => heap'[j][jobs[j]].status = heap[j][jobs[j]].status
    BY <2>1, SchedulerAssumption DEF EndRun, TypeOK, Entry, Version, SchedulerAssumption
  <2> QED
    BY <1>1, <1>2, <2>1, <2>2, StartedSaveOrder DEF Wanted
<1>5. ASSUME NEW j \in Job PROVE GoneInv(j)'
  <2>1. Gone(j) => j # i
    BY DEF EndRun, Gone, TypeOK
  <2>2. j # i => jobs'[j] = jobs[j] /\ inRun'[j] = inRun[j]
    BY DEF EndRun, TypeOK
  <2>3. timers' = timers /\ created' = created /\ removed' = removed
    BY DEF EndRun
  <2> QED
    BY <1>1, <1>2, <2>1, <2>2, <2>3, StartedSaveGone DEF Gone
<1> QED
  BY <1>1, <1>3, <1>4, <1>5 DEF EndRun, StartSave, DownInv

-----------------------------------------------------------------------------

\* Steps that leave the map, the objects and the saves alone.
LEMMA RemoveUnknownInv ==
    ASSUME IInv, NEW i \in Job, RemoveUnknown(i)
    PROVE  IInv'
<1> USE DEF IInv, RemoveUnknown, CancelTimer, NoteEdit
<1>1. TypeOK'
  BY SchedulerAssumption DEF TypeOK, SchedulerAssumption, saveVars, diskVars, boundVars
<1>2. CleanInv'
  BY DEF CleanInv, Alone, SaveInv, Saving, Loaded, saveVars, diskVars
<1>3. ASSUME NEW j \in Job PROVE OrderInv(j)'
  <2>1. CASE j = i
    BY <2>1 DEF OrderInv, Pending, Editing, Wanted, TypeOK, saveVars
  <2>2. CASE j # i
    BY <2>2 DEF OrderInv, Pending, Editing, Wanted, TypeOK, saveVars
  <2> QED
    BY <2>1, <2>2
<1>4. ASSUME NEW j \in Job PROVE GoneInv(j)'
  BY DEF GoneInv, Gone, GoneFrom, Editing, Confirming, Loaded, TypeOK, saveVars, diskVars
<1> QED
  BY <1>1, <1>2, <1>3, <1>4 DEF saveVars, DownInv

LEMMA StartRunInv ==
    ASSUME IInv, up, NEW i \in Job, NEW v \in Version, jobs[i] # 0 \/ timers[i] # 0, StartRun(i, v)
    PROVE  IInv'
<1> USE DEF IInv, StartRun
<1>1. TypeOK'
  BY SchedulerAssumption DEF TypeOK, SchedulerAssumption, saveVars, diskVars, pastVars
<1>2. CleanInv'
  BY DEF CleanInv, Alone, SaveInv, Saving, Loaded, saveVars, diskVars, pastVars
<1>3. ASSUME NEW j \in Job PROVE OrderInv(j)'
  BY DEF OrderInv, Pending, Editing, Wanted, saveVars, pastVars
<1>4. ASSUME NEW j \in Job PROVE GoneInv(j)'
  <2>1. Gone(j) => Gone(j)'
    BY DEF Gone, GoneFrom, Editing, TypeOK, saveVars, diskVars
  <2> QED
    BY <2>1 DEF GoneInv, Confirming, Loaded, saveVars, diskVars, pastVars
<1> QED
  BY <1>1, <1>2, <1>3, <1>4 DEF saveVars, DownInv

LEMMA CrashInv == ASSUME IInv, Crash PROVE IInv'
<1> USE DEF IInv, Crash
<1>1. TypeOK'
  <2>1. mishaps' \in 0..MaxMishaps /\ 0 \in 0..MaxVersions
    BY SchedulerAssumption DEF TypeOK, Mishap, SchedulerAssumption
  <2> QED
    BY <2>1, EntryTypes DEF TypeOK, diskVars
<1>2. follow' \in [Saver -> Follow]
  BY DEF Follow
<1>3. ASSUME NEW j \in Job PROVE OrderInv(j)' /\ GoneInv(j)'
  BY DEF OrderInv, Editing, Wanted, GoneInv, Gone, GoneFrom, Confirming, Loaded, diskVars
<1>4. CleanInv' /\ DownInv'
  BY DEF CleanInv, DownInv, Alone, SaveInv, Saving
<1> QED
  BY <1>1, <1>2, <1>3, <1>4

-----------------------------------------------------------------------------

\* A save that is left as it was edits and confirms what it did before; one that
\* is idle does neither.
LEMMA EditingFrame ==
    ASSUME NEW r \in Saver, NEW i \in Job,
           \/ saver'[r] = "idle"
           \/ saver'[r] = saver[r] /\ follow'[r] = follow[r] /\ data'[r] = data[r]
    PROVE  /\ Editing(i, r)' => saver'[r] # "idle" /\ Editing(i, r) /\ follow'[r] = follow[r]
           /\ saver'[r] # "idle" /\ Editing(i, r) => Editing(i, r)'
           /\ Confirming(i, r)' => Confirming(i, r) /\ saver'[r] = saver[r]
           /\ GoneFrom(i, r) /\ tmp' = tmp => GoneFrom(i, r)'
BY DEF Editing, Confirming, GoneFrom

\* The steps of a save touch neither map, objects, timers nor runs.
\* What they do to the file of a job that is gone:
LEMMA SaveStepGone ==
    ASSUME IInv, UNCHANGED <<jobs, timers, inRun, data, follow, created, removed>>,
           \A r \in Saver : saver[r] = "idle" => saver'[r] = "idle",
           NEW i \in Job, Gone(i) => Gone(i)',
           Gone(i) /\ Loaded[i] = NoEntry => Loaded'[i] = NoEntry,
           \A r \in Saver : saver'[r] = "settling" /\ Gone(i) =>
               saver[r] = "settling" \/ Loaded'[i] = NoEntry
    PROVE  GoneInv(i)'
BY DEF IInv, GoneInv, Confirming

LEMMA SaveStepOrder ==
    ASSUME IInv, UNCHANGED <<jobs, timers, heap, follow, orderly>>,
           \A r \in Saver : (saver[r] = "idle") = (saver'[r] = "idle"),
           NEW i \in Job
    PROVE  OrderInv(i)'
<1>1. \A r \in Saver : Editing(i, r)' = Editing(i, r)
  BY DEF Editing
<1>2. Pending(i)' = Pending(i)
  BY <1>1 DEF Pending, Editing
<1> QED
  BY <1>1, <1>2 DEF IInv, OrderInv, Wanted

LEMMA OpenTempInv ==
    ASSUME IInv, NEW s \in Saver, OpenTemp(s)
    PROVE  IInv'
<1> USE DEF IInv, OpenTemp, SaveAt
<1>1. TypeOK'
  BY FileTypes DEF TypeOK, memVars, boundVars, pastVars
<1>2. CleanInv'
  <2>1. Saving /\ Saving'
    BY DEF Saving, TypeOK
  <2> QED
    BY <2>1 DEF CleanInv, Alone, SaveInv, TypeOK, memVars, pastVars
<1>3. UNCHANGED <<up, jobs, timers, heap, inRun, data, follow, created, removed, orderly, clean, json>>
  BY DEF memVars, pastVars
<1>4. \A r \in Saver : (saver[r] = "idle") = (saver'[r] = "idle") /\ (saver'[r] = "settling" => saver[r] = "settling")
  BY DEF TypeOK
<1>5. ASSUME NEW i \in Job PROVE OrderInv(i)'
  BY <1>3, <1>4, SaveStepOrder
<1>6. ASSUME NEW i \in Job PROVE GoneInv(i)'
  <2>1. Gone(i) => Gone(i)'
    BY <1>3, <1>4, EntryTypes DEF Gone, GoneFrom, Editing, Truncated
  <2>2. Loaded' = Loaded
    BY DEF Loaded
  <2> QED
    BY <1>3, <1>4, <2>1, <2>2, SaveStepGone
<1> QED
  BY <1>1, <1>2, <1>3, <1>5, <1>6 DEF DownInv

LEMMA WriteTempInv ==
    ASSUME IInv, NEW s \in Saver, WriteTemp(s)
    PROVE  IInv'
<1> USE DEF IInv, WriteTemp, SaveAt
<1>1. \A file : Written(file, data[s]) \subseteq JobsFile
  BY FileTypes DEF Written, TypeOK
<1>2. TypeOK'
  BY <1>1 DEF TypeOK, memVars, boundVars, pastVars
<1>3. CleanInv'
  <2> SUFFICES ASSUME clean PROVE CleanInv'
    BY DEF CleanInv, pastVars
  <2>1. Saving /\ Saving' /\ SaveInv(s)
    BY DEF Saving, TypeOK, CleanInv
  <2>2. tmp' = File(data[s])
    BY <2>1 DEF SaveInv, Written, Truncated
  <2>3. Alone' /\ \A r \in Saver : r # s => saver'[r] = "idle"
    BY DEF CleanInv, Alone, TypeOK
  <2>4. SaveInv(s)'
    BY <2>1, <2>2 DEF SaveInv, TypeOK, memVars
  <2>5. \A r \in Saver : r # s => SaveInv(r)'
    BY <2>3 DEF SaveInv
  <2> QED
    BY <2>1, <2>3, <2>4, <2>5 DEF CleanInv
<1>4. UNCHANGED <<up, jobs, timers, heap, inRun, data, follow, created, removed, orderly, clean>>
  BY DEF memVars, pastVars
<1>5. \A r \in Saver : (saver[r] = "idle") = (saver'[r] = "idle") /\ (saver'[r] = "settling" => saver[r] = "settling")
  BY DEF TypeOK
<1>6. ASSUME NEW i \in Job PROVE OrderInv(i)'
  BY <1>4, <1>5, SaveStepOrder
<1>7. ASSUME NEW i \in Job PROVE GoneInv(i)'
  <2>1. ASSUME Gone(i)
        PROVE  /\ tmp'.jobs[i] = NoEntry
               /\ Loaded[i] = NoEntry => Loaded'[i] = NoEntry
    <3>1. data[s][i] = NoEntry /\ tmp.jobs[i] = NoEntry
      BY <2>1 DEF Gone, GoneFrom
    <3>2. \A file, new : new \in Written(file, data[s]) => new.jobs[i] = NoEntry
      BY <3>1, EntryTypes DEF Written, File, Garbled
    <3>3. tmp'.jobs[i] = NoEntry
      BY <3>1, <3>2
    <3>4. CASE openFile[s] = "json"
      <4>1. json'.jobs[i] = NoEntry /\ json' \in JobsFile
        BY <1>2, <3>2, <3>4 DEF TypeOK
      <4> QED
        BY <3>3, <4>1, EntryTypes DEF Loaded
    <3>5. CASE openFile[s] # "json"
      BY <3>3, <3>5 DEF Loaded
    <3> QED
      BY <3>4, <3>5
  <2>2. Gone(i) => Gone(i)'
    BY <1>4, <1>5, <2>1 DEF Gone, GoneFrom, Editing
  <2> QED
    BY <1>4, <1>5, <2>1, <2>2, SaveStepGone
<1> QED
  BY <1>2, <1>3, <1>4, <1>6, <1>7 DEF DownInv

\* A save that rejects: it is not clean, and the job it was to schedule is no
\* longer in order.
LEMMA RejectInv ==
    ASSUME IInv, TypeOK', NEW s \in Saver, up, Reject(s),
           UNCHANGED <<up, memVars, diskVars, created, removed>>
    PROVE  IInv'
<1> USE DEF IInv, Reject, Idle
<1>1. follow' \in [Saver -> Follow] /\ CleanInv' /\ DownInv'
  BY DEF Follow, CleanInv, DownInv
<1>2. \A r \in Saver : IF r = s THEN saver'[r] = "idle"
                       ELSE saver'[r] = saver[r] /\ follow'[r] = follow[r] /\ data'[r] = data[r]
  BY DEF TypeOK
<1>3. Loaded' = Loaded
  BY DEF Loaded, diskVars
<1>4. ASSUME NEW i \in Job PROVE OrderInv(i)'
  <2> SUFFICES ASSUME orderly'[i] PROVE OrderInv(i)'
    BY DEF OrderInv
  <2>1. orderly[i] /\ ~Editing(i, s)
    BY DEF Editing
  <2>2. ASSUME NEW r \in Saver
        PROVE  Editing(i, r)' = Editing(i, r) /\ (Editing(i, r) => follow'[r] = follow[r])
    <3>1. CASE r = s
      <4>1. ~Editing(i, r)'
        BY <1>2, <3>1 DEF Editing
      <4> QED
        BY <2>1, <3>1, <4>1 DEF Editing
    <3>2. CASE r # s
      BY <1>2, <3>2 DEF Editing
    <3> QED
      BY <3>1, <3>2
  <2>3. Pending(i)' = Pending(i)
    BY <2>2 DEF Pending, Editing
  <2>4. Wanted(i)' = Wanted(i) /\ timers' = timers /\ jobs' = jobs
    BY DEF Wanted, memVars
  <2> QED
    BY <2>1, <2>2, <2>3, <2>4 DEF OrderInv
<1>5. ASSUME NEW i \in Job PROVE GoneInv(i)'
  <2>1. Gone(i) => Gone(i)'
    <3>1. \A r \in Saver : GoneFrom(i, r) => GoneFrom(i, r)'
      BY <1>2, EditingFrame DEF diskVars
    <3>2. UNCHANGED <<jobs, timers, inRun>>
      BY DEF memVars
    <3> QED
      BY <3>1, <3>2 DEF Gone
  <2>2. \A r \in Saver : Confirming(i, r)' => Confirming(i, r) /\ saver'[r] = saver[r]
    BY <1>2, EditingFrame
  <2>3. created' = created /\ removed' = removed
    OBVIOUS
  <2> HIDE DEF Reject, Idle
  <2> QED
    BY <1>3, <2>1, <2>2, <2>3 DEF GoneInv
<1> QED
  BY <1>1, <1>4, <1>5

LEMMA RenameTempInv ==
    ASSUME IInv, NEW s \in Saver, RenameTemp(s)
    PROVE  IInv'
<1> USE DEF IInv, RenameTemp
<1>1. CASE tmp.is = "missing"
  <2>1. Reject(s) /\ UNCHANGED <<up, memVars, diskVars, boundVars, created, removed>> /\ up
    BY <1>1
  <2>2. TypeOK'
    BY <2>1, EntryTypes DEF TypeOK, Reject, Idle, memVars, diskVars, boundVars
  <2> QED
    BY <2>1, <2>2, RejectInv
<1>2. CASE tmp.is # "missing"
  <2>1. /\ saver[s] = "renaming" /\ saver' = [saver EXCEPT ![s] = "settling"]
        /\ json' = tmp /\ tmp' = NoFile
        /\ openFile' = [r \in Saver |-> IF r # s /\ openFile[r] = "tmp" THEN "json" ELSE "none"]
        /\ UNCHANGED <<up, jobs, timers, heap, latest, inRun, data, follow, created, removed, orderly, clean>>
        /\ UNCHANGED boundVars
    BY <1>2 DEF memVars
  <2>2. TypeOK'
    BY <2>1, FileTypes DEF TypeOK, boundVars
  <2>3. \A r \in Saver : (saver[r] = "idle") = (saver'[r] = "idle")
    BY <2>1 DEF TypeOK
  <2>4. CleanInv'
    <3> SUFFICES ASSUME clean PROVE CleanInv'
      BY <2>1 DEF CleanInv
    <3>1. json' = File(data[s]) /\ data[s] = Contents(jobs, heap)
      BY <2>1 DEF CleanInv, SaveInv
    <3>2. Alone' /\ Saving' /\ \A r \in Saver : r # s => saver'[r] = "idle"
      BY <2>1 DEF CleanInv, Alone, Saving, TypeOK
    <3>3. SaveInv(s)'
      BY <2>1, <3>1 DEF SaveInv, TypeOK
    <3>4. \A r \in Saver : r # s => SaveInv(r)'
      BY <3>2 DEF SaveInv
    <3> QED
      BY <3>2, <3>3, <3>4 DEF CleanInv
  <2>5. ASSUME NEW i \in Job PROVE OrderInv(i)'
    BY <2>1, <2>3, SaveStepOrder
  <2>6. ASSUME NEW i \in Job PROVE GoneInv(i)'
    <3>1. ASSUME Gone(i) PROVE Loaded'[i] = NoEntry
      <4>1. json'.jobs[i] = NoEntry
        BY <2>1, <3>1 DEF Gone, GoneFrom
      <4> QED
        BY <4>1, EntryTypes DEF Loaded
    <3>2. Gone(i) => Gone(i)'
      BY <2>1, <2>3, EntryTypes DEF Gone, GoneFrom, Editing, NoFile
    <3> HIDE DEF RenameTemp
    <3> QED
      BY <2>1, <2>3, <3>1, <3>2, SaveStepGone
  <2>7. follow' \in [Saver -> Follow] /\ DownInv'
    BY <2>1 DEF DownInv
  <2> HIDE DEF RenameTemp
  <2> QED
    BY <2>2, <2>4, <2>5, <2>6, <2>7
<1> QED
  BY <1>1, <1>2

LEMMA SaveErrorInv ==
    ASSUME IInv, NEW s \in Saver, SaveError(s)
    PROVE  IInv'
<1>1. mishaps' \in 0..MaxMishaps
  BY SchedulerAssumption DEF IInv, TypeOK, SaveError, Mishap, SchedulerAssumption
<1>2. TypeOK'
  BY <1>1, EntryTypes DEF IInv, TypeOK, SaveError, Reject, Idle, memVars, diskVars
<1> QED
  BY <1>2, RejectInv DEF SaveError

-----------------------------------------------------------------------------

\* The caller of a save goes on: the timer it sets is the one the job should
\* have, if the job is in order; a removal is confirmed of a job that is gone.
LEMMA AfterSaveInv ==
    ASSUME IInv, NEW s \in Saver, AfterSave(s)
    PROVE  IInv'
<1> DEFINE next == follow[s]
<1> USE DEF IInv, AfterSave, Idle
<1>1. UNCHANGED <<up, heap, latest, jobs, inRun, openFile, diskVars, boundVars, created, clean, orderly>>
  OBVIOUS
<1>2. \/ /\ next.do = "schedule" /\ next.job \in Job /\ next.version \in Version
         /\ timers' = Reschedule(next.job, next.version) /\ removed' = removed
      \/ /\ next.do = "confirm" /\ next.job \in Job
         /\ removed' = [removed EXCEPT ![next.job] = TRUE] /\ timers' = timers
      \/ next.do = "nothing" /\ timers' = timers /\ removed' = removed
  <2>1. next \in Follow
    OBVIOUS
  <2> QED
    BY <2>1 DEF Follow, NothingNext
<1>3. \A r \in Saver : IF r = s THEN saver'[r] = "idle"
                       ELSE saver'[r] = saver[r] /\ follow'[r] = follow[r] /\ data'[r] = data[r]
  BY DEF TypeOK
<1>4. timers' \in [Job -> 0..MaxVersions] /\ removed' \in [Job -> BOOLEAN]
  <2>1. Version \subseteq 0..MaxVersions /\ 0 \in 0..MaxVersions
    BY SchedulerAssumption DEF Version, SchedulerAssumption
  <2>2. CASE next.do = "schedule"
    <3>1. timers' = [timers EXCEPT ![next.job] = IF heap[next.job][next.version].status = "on" THEN next.version ELSE 0]
      BY <1>2, <2>2 DEF Reschedule
    <3>2. next.version \in Version
      BY <1>2, <2>2
    <3> QED
      BY <1>2, <2>1, <2>2, <3>1, <3>2 DEF TypeOK
  <2>3. CASE next.do # "schedule"
    BY <1>2, <2>3 DEF TypeOK
  <2> QED
    BY <2>2, <2>3
<1>5. TypeOK'
  BY <1>1, <1>4, EntryTypes DEF TypeOK, diskVars, boundVars
<1>6. follow' \in [Saver -> Follow]
  BY DEF Follow
<1>7. Loaded' = Loaded
  BY <1>1 DEF Loaded, diskVars
<1>8. CleanInv'
  <2> SUFFICES ASSUME clean PROVE CleanInv'
    BY DEF CleanInv
  <2>1. SaveInv(s) /\ \A r \in Saver : r # s => saver[r] = "idle"
    BY DEF CleanInv, Alone
  <2>3. json = File(Contents(jobs, heap)) /\ \A r \in Saver : saver'[r] = "idle"
    BY <1>3, <2>1 DEF SaveInv
  <2>2. Loaded' = Contents(jobs', heap')
    BY <1>1, <1>7, <2>3 DEF Loaded, File
  <2> QED
    BY <2>2, <2>3 DEF CleanInv, Alone, SaveInv
<1>9. ASSUME NEW i \in Job PROVE OrderInv(i)'
  <2> SUFFICES ASSUME orderly[i] PROVE OrderInv(i)'
    BY <1>1 DEF OrderInv
  <2>1. ASSUME NEW r \in Saver
        PROVE  /\ Editing(i, r)' => r # s /\ Editing(i, r) /\ follow'[r] = follow[r]
               /\ r # s => Editing(i, r)' = Editing(i, r) /\ follow'[r] = follow[r]
    <3>1. r = s => ~Editing(i, r)'
      BY <1>3 DEF Editing
    <3>2. r # s => Editing(i, r)' = Editing(i, r) /\ follow'[r] = follow[r]
      BY <1>3 DEF Editing
    <3> QED
      BY <3>1, <3>2
  <2>2. Wanted(i)' = Wanted(i) /\ jobs' = jobs
    BY <1>1 DEF Wanted
  <2>3. CASE Editing(i, s)
    <3>1. next.version = jobs[i] /\ next.version \in Version /\ next.do = "schedule" /\ next.job = i
      BY <1>2, <2>3 DEF OrderInv, Editing
    <3>2. timers'[i] = IF heap[i][jobs[i]].status = "on" THEN jobs[i] ELSE 0
      BY <1>2, <3>1 DEF Reschedule, TypeOK
    <3>3. jobs[i] # 0
      BY <3>1, SchedulerAssumption DEF Version, SchedulerAssumption
    <3>4. timers'[i] = Wanted(i)
      BY <3>2, <3>3 DEF Wanted
    <3>5. \A r \in Saver : ~Editing(i, r)'
      BY <2>1, <2>3 DEF OrderInv
    <3> QED
      BY <2>2, <3>4, <3>5 DEF OrderInv
  <2>4. CASE ~Editing(i, s)
    <3>1. timers'[i] = timers[i]
      BY <1>2, <2>4 DEF Editing, Reschedule, TypeOK
    <3>2. \A r \in Saver : Editing(i, r)' = Editing(i, r)
      BY <2>1, <2>4 DEF Editing
    <3>3. Pending(i)' = Pending(i)
      BY <3>2 DEF Pending, Editing
    <3> QED
      BY <2>1, <2>2, <3>1, <3>3 DEF OrderInv
  <2> QED
    BY <2>3, <2>4
<1>10. ASSUME NEW i \in Job PROVE GoneInv(i)'
  <2>1. Gone(i) => Gone(i)'
    <3> SUFFICES ASSUME Gone(i) PROVE Gone(i)'
      OBVIOUS
    <3>1. ~Editing(i, s)
      BY DEF Gone, GoneFrom
    <3>2. timers'[i] = 0
      BY <1>2, <3>1 DEF Gone, Editing, Reschedule, TypeOK
    <3>3. \A r \in Saver : GoneFrom(i, r)'
      BY <1>1, <1>3, EditingFrame DEF Gone, diskVars
    <3> QED
      BY <1>1, <3>2, <3>3 DEF Gone
  <2>2. \A r \in Saver : Confirming(i, r)' => Confirming(i, r) /\ saver'[r] = saver[r]
    BY <1>3, EditingFrame
  <2>3. removed'[i] => removed[i] \/ (Confirming(i, s) /\ saver[s] = "settling")
    BY <1>2 DEF Confirming, TypeOK
  <2>4. created' = created
    OBVIOUS
  <2> HIDE DEF AfterSave, Idle
  <2> QED
    BY <1>7, <2>1, <2>2, <2>3, <2>4 DEF GoneInv
<1> QED
  BY <1>1, <1>5, <1>6, <1>8, <1>9, <1>10 DEF DownInv

\* A restart takes over what the file says; the jobs it reaches get a timer.
LEMMA StartInv == ASSUME IInv, Start PROVE IInv'
<1> USE DEF IInv, Start
<1>1. Loaded \in [Job -> JobEntry] /\ Loaded' = Loaded
  BY LoadedType DEF Loaded, TypeOK, diskVars
<1>2. 1 \in Version /\ 0 \in 0..MaxVersions /\ 1 \in 0..MaxVersions
  BY SchedulerAssumption DEF Version, SchedulerAssumption
<1>3. /\ heap' \in [Job -> [Version -> JobEntry]]
      /\ \A i \in Job : heap'[i][1] = Loaded[i]
  BY <1>1, <1>2, EntryTypes
<1>4. /\ jobs' \in [Job -> 0..MaxVersions] /\ latest' \in [Job -> 0..MaxVersions]
      /\ \A i \in Job : jobs'[i] = IF Loaded[i] = NoEntry THEN 0 ELSE 1
  BY <1>2
<1>5. PICK timed \in Scheduled :
          /\ timers' = [i \in Job |-> IF i \in timed THEN 1 ELSE 0]
          /\ orderly' = [i \in Job |-> Loaded[i].status = "on" => i \in timed]
  OBVIOUS
<1>6. \A i \in timed : i \in Job /\ Loaded[i].status = "on"
  BY DEF Scheduled
<1>7. timers' \in [Job -> 0..MaxVersions] /\ orderly' \in [Job -> BOOLEAN]
  BY <1>2, <1>5
<1>8. TypeOK'
  BY <1>3, <1>4, <1>7 DEF TypeOK, saveVars, diskVars, boundVars
<1>9. \A s \in Saver : saver'[s] = "idle"
  BY DEF DownInv, Saving, saveVars
<1>10. ASSUME NEW i \in Job PROVE OrderInv(i)'
  <2>1. ASSUME orderly'[i] PROVE timers'[i] = Wanted(i)'
    <3>1. Wanted(i)' = IF Loaded[i] # NoEntry /\ Loaded[i].status = "on" THEN 1 ELSE 0
      <4>1. jobs'[i] = (IF Loaded[i] = NoEntry THEN 0 ELSE 1) /\ heap'[i][1] = Loaded[i]
        BY <1>3, <1>4
      <4> HIDE DEF Start
      <4> QED
        BY <4>1 DEF Wanted
    <3>2. timers'[i] = IF Loaded[i].status = "on" THEN 1 ELSE 0
      BY <1>5, <1>6, <2>1
    <3> HIDE DEF Start
    <3> QED
      BY <3>1, <3>2 DEF NoEntry
  <2> QED
    BY <1>9, <2>1 DEF OrderInv, Editing
<1>11. ASSUME NEW i \in Job PROVE GoneInv(i)'
  <2>1. ASSUME Loaded[i] = NoEntry PROVE Gone(i)'
    <3>1. i \notin timed
      BY <1>6, <2>1 DEF NoEntry
    <3> QED
      BY <1>4, <1>5, <1>9, <2>1, <3>1 DEF Gone, GoneFrom, DownInv
  <2> QED
    BY <1>1, <1>9, <2>1 DEF GoneInv, Confirming
<1>12. Contents(jobs', heap') = Loaded
  <2>1. ASSUME NEW i \in Job PROVE Contents(jobs', heap')[i] = Loaded[i]
    <3>1. /\ jobs'[i] = IF Loaded[i] = NoEntry THEN 0 ELSE 1
          /\ heap'[i][1] = Loaded[i]
      BY <1>3, <1>4
    <3> HIDE DEF Start
    <3> QED
      BY <3>1 DEF Contents
  <2> QED
    BY <1>1, <2>1 DEF Contents
<1>13. CleanInv'
  BY <1>1, <1>9, <1>12 DEF CleanInv, Alone, SaveInv
<1> QED
  BY <1>8, <1>10, <1>11, <1>13 DEF DownInv, saveVars

\* A start that could not read the file has nothing in memory.
LEMMA StartFreshInv == ASSUME IInv, StartFresh PROVE IInv'
<1> USE DEF IInv, StartFresh
<1>1. Loaded' = Loaded
  BY DEF Loaded, diskVars
<1>2. TypeOK'
  <2>1. heap' \in [Job -> [Version -> JobEntry]]
    BY EntryTypes
  <2>2. jobs' \in [Job -> 0..MaxVersions] /\ latest' = jobs' /\ timers' = jobs'
    BY SchedulerAssumption DEF SchedulerAssumption
  <2>3. up' \in BOOLEAN /\ clean' \in BOOLEAN /\ orderly' \in [Job -> BOOLEAN]
    OBVIOUS
  <2>4. UNCHANGED <<inRun, saver, data, openFile, tmp, json, edits, started, mishaps, created, removed>>
    BY DEF saveVars, diskVars, boundVars
  <2> HIDE DEF StartFresh
  <2> QED
    BY <2>1, <2>2, <2>3, <2>4 DEF TypeOK
<1>3. \A s \in Saver : saver'[s] = "idle"
  BY DEF DownInv, Saving, saveVars
<1>4. ASSUME NEW i \in Job PROVE OrderInv(i)'
  BY <1>3 DEF OrderInv, Editing, Wanted
<1>5. ASSUME NEW i \in Job PROVE GoneInv(i)'
  BY <1>1, <1>3 DEF GoneInv, Gone, GoneFrom, Confirming, DownInv
<1>6. CleanInv'
  BY DEF CleanInv
<1> QED
  BY <1>2, <1>4, <1>5, <1>6 DEF DownInv, saveVars

LEMMA NextInv == IInv /\ [Next]_vars => IInv'
<1> SUFFICES ASSUME IInv, [Next]_vars PROVE IInv'
  OBVIOUS
<1>1. ASSUME NEW i \in Job, NEW s \in Saver, EditStep(i, s) PROVE IInv'
  BY <1>1, AddJobInv, UpdateJobInv, RemoveJobInv DEF EditStep
<1>2. ASSUME NEW i \in Job, Fire(i) \/ RunNow(i) PROVE IInv'
  <2>1. (timers[i] # 0 => timers[i] \in Version) /\ (jobs[i] # 0 => jobs[i] \in Version)
    BY SchedulerAssumption DEF IInv, TypeOK, Version, SchedulerAssumption
  <2> QED
    BY <1>2, <2>1, StartRunInv DEF Fire, RunNow
<1>3. ASSUME NEW i \in Job, RunStep(i) \/ RemoveUnknown(i) PROVE IInv'
  BY <1>2, <1>3, EndRunInv, RemoveUnknownInv DEF RunStep
<1>4. ASSUME NEW s \in Saver, SaveStep(s) PROVE IInv'
  BY <1>4, OpenTempInv, WriteTempInv, RenameTempInv, AfterSaveInv, SaveErrorInv DEF SaveStep
<1>5. CASE Crash \/ Start \/ StartFresh
  BY <1>5, CrashInv, StartInv, StartFreshInv
<1>6. CASE UNCHANGED vars
  <2> USE <1>6 DEF vars, memVars, saveVars, diskVars, boundVars, pastVars, IInv
  <2>1. TypeOK' /\ DownInv'
    BY DEF TypeOK, DownInv, Saving
  <2>2. CleanInv'
    BY DEF CleanInv, Alone, SaveInv, Saving, Loaded
  <2>3. ASSUME NEW i \in Job PROVE OrderInv(i)' /\ GoneInv(i)'
    BY DEF OrderInv, Pending, Editing, Wanted, GoneInv, Gone, GoneFrom, Confirming, Loaded
  <2> QED
    BY <2>1, <2>2, <2>3
<1> QED
  BY <1>1, <1>3, <1>4, <1>5, <1>6 DEF Next

-----------------------------------------------------------------------------

\* The invariant holds in every behaviour.
THEOREM Invariance == Spec => []IInv
BY InitInv, NextInv, PTL DEF Spec

\* The state keeps its types, overlapping saves included.
THEOREM TypeCorrect == Spec => []TypeOK
<1>1. IInv => TypeOK
  BY DEF IInv
<1> QED
  BY <1>1, Invariance, PTL

\* A save that meets no other replaces jobs.json in one step with what the map
\* holds, whatever fails and whenever the process dies.
THEOREM CleanSavesAreAtomic == Spec => SavesAreAtomic
<1>1. ASSUME IInv, [Next]_vars, clean PROVE json' \in {json, File(Contents(jobs, heap))}
  <2>1. ASSUME NEW s \in Saver, WriteTemp(s) PROVE json' = json
    BY <1>1, <2>1 DEF WriteTemp, SaveAt, IInv, CleanInv, SaveInv
  <2>2. ASSUME NEW s \in Saver, RenameTemp(s) PROVE json' \in {json, File(Contents(jobs, heap))}
    <3>1. saver[s] = "renaming" /\ SaveInv(s)
      BY <1>1, <2>2 DEF RenameTemp, IInv, CleanInv
    <3>2. tmp = File(Contents(jobs, heap))
      BY <3>1 DEF SaveInv
    <3> QED
      BY <2>2, <3>2 DEF RenameTemp, diskVars
  <2>3. ASSUME NEW s \in Saver, SaveStep(s) PROVE json' \in {json, File(Contents(jobs, heap))}
    BY <2>1, <2>2, <2>3 DEF SaveStep, OpenTemp, AfterSave, SaveError, diskVars
  <2>4. ASSUME NEW i \in Job, NEW s \in Saver, EditStep(i, s) PROVE json' = json
    BY <2>4 DEF EditStep, AddJob, UpdateJob, RemoveJob, StartSave, diskVars
  <2>5. ASSUME NEW i \in Job, RunStep(i) \/ RemoveUnknown(i) PROVE json' = json
    BY <2>5 DEF RunStep, Fire, RunNow, StartRun, EndRun, StartSave, RemoveUnknown, diskVars
  <2>6. CASE Crash \/ Start \/ StartFresh \/ UNCHANGED vars
    BY <2>6 DEF Crash, Start, StartFresh, vars, diskVars
  <2> QED
    BY <1>1, <2>3, <2>4, <2>5, <2>6 DEF Next
<1>2. IInv /\ [Next]_vars => [clean => json' \in {json, File(Contents(jobs, heap))}]_vars
  BY <1>1
<1> QED
  BY <1>2, Invariance, PTL DEF Spec, SavesAreAtomic

\* A job in order fires exactly when it is enabled and its schedule can be read,
\* with the right object.
THEOREM TimersMatchJobs == Spec => []TimerMatchesJob
<1>1. IInv => TimerMatchesJob
  BY DEF IInv, OrderInv, TimerMatchesJob, Wanted
<1> QED
  BY <1>1, Invariance, PTL

\* Once a save that met no other has ended well, or a start has read the file, the
\* file says what the map says.
THEOREM FileFollowsTheMap == Spec => []FileFollowsMap
<1>1. IInv => FileFollowsMap
  BY DEF IInv, CleanInv, FileFollowsMap
<1> QED
  BY <1>1, Invariance, PTL

\* A job removed while it was not running and no save was under way never comes
\* back, however later saves overlap.
THEOREM RemovalsStick == Spec => []RemovalSticks
<1>1. IInv => RemovalSticks
  BY DEF IInv, GoneInv, Gone, RemovalSticks
<1> QED
  BY <1>1, Invariance, PTL

=============================================================================
