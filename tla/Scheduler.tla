------------------------------- MODULE Scheduler -------------------------------
(***************************************************************************)
(* src/scheduler/: the cron jobs of a process (service.ts), the file they  *)
(* are kept in (store.ts) and their timers (timer.ts).                     *)
(*                                                                         *)
(* A job is an object on the heap. The job map, a timer and every run of   *)
(* the job hold a reference; an update puts a new object into the map, so  *)
(* a reference is the number of a version of the job. A run changes the    *)
(* object it holds when it ends, and puts that object back into the map.   *)
(*                                                                         *)
(* save() takes its data in the turn it is called; then come the awaits of *)
(* the temp file. Nothing keeps two saves apart, and all of them share one *)
(* temp file. A save that is writing keeps its file when somebody renames  *)
(* it.                                                                     *)
(*                                                                         *)
(* Nobody checks a schedule before new Cron() does, which throws when it   *)
(* cannot read it. A job is "on", "off", or "bad": enabled with a schedule *)
(* like that.                                                              *)
(***************************************************************************)
EXTENDS Naturals, FiniteSets

CONSTANTS Job,           \* the ids of the jobs ever added
          Saver,         \* the saves that can be under way at the same time
          MaxVersions,   \* bound of the model: objects made for a job
          MaxEdits,      \* bound of the model: jobs added, updated and removed
          MaxRuns,       \* bound of the model: runs started
          MaxMishaps     \* bound of the model: crashes and disk errors

ASSUME SchedulerAssumption == /\ MaxVersions \in Nat \ {0}
                              /\ MaxEdits \in Nat
                              /\ MaxRuns \in Nat
                              /\ MaxMishaps \in Nat

VARIABLES up,         \* the process runs
          heap,       \* the objects of each job
          latest,     \* the number of objects made for each job
          jobs,       \* the job map: a version of each job, or 0
          timers,     \* the live cron of each job: the version it holds, or 0
          inRun,      \* the runs in progress on each object
          saver,      \* the await at which a save stands
          data,       \* what that save writes
          follow,     \* what its caller does next
          openFile,   \* where the file it has open is now
          tmp,        \* jobs.json.tmp
          json,       \* jobs.json
          edits,      \* the number of jobs added, updated and removed
          started,    \* the number of runs started
          mishaps,    \* crashes and disk errors so far
          created,    \* history: addJob() was called
          removed,    \* history: removeJob() resolved, and when it was called no run of
                      \* the job and no save was under way
          clean,      \* history: the save or start begun last met no save and has not
                      \* failed to write or read jobs.json
          orderly     \* history: the start or edit of the job begun last met no other
                      \* edit of it and has not failed, and no run of the job has
                      \* ended since on an object that the map did not hold

memVars == <<heap, latest, jobs, timers, inRun>>
saveVars == <<saver, data, follow, openFile>>
diskVars == <<tmp, json>>
boundVars == <<edits, started, mishaps>>
pastVars == <<created, removed, clean, orderly>>

vars == <<up, memVars, saveVars, diskVars, boundVars, pastVars>>

Version == 1..MaxVersions

\* What the file says of a job.
NoEntry == [status |-> "none", errors |-> 0]
Entry(status, errors) == [status |-> status, errors |-> errors]
NoJobs == [i \in Job |-> NoEntry]

\* A file: missing, truncated, overwritten in part, or the jobs of one save.
NoFile == [is |-> "missing", jobs |-> NoJobs]
Truncated == [is |-> "truncated", jobs |-> NoJobs]
Garbled == [is |-> "garbled", jobs |-> NoJobs]
File(contents) == [is |-> "whole", jobs |-> contents]

\* JSON.stringify of the map's objects.
Contents(map, objects) == [i \in Job |-> IF map[i] = 0 THEN NoEntry ELSE objects[i][map[i]]]

NothingNext == [do |-> "nothing"]

-----------------------------------------------------------------------------

Init == /\ up = TRUE
        /\ heap = [i \in Job |-> [v \in Version |-> NoEntry]]
        /\ latest = [i \in Job |-> 0]
        /\ jobs = [i \in Job |-> 0]
        /\ timers = [i \in Job |-> 0]
        /\ inRun = [i \in Job |-> [v \in Version |-> 0]]
        /\ saver = [s \in Saver |-> "idle"]
        /\ data = [s \in Saver |-> NoJobs]
        /\ follow = [s \in Saver |-> NothingNext]
        /\ openFile = [s \in Saver |-> "none"]
        /\ tmp = NoFile
        /\ json = NoFile
        /\ edits = 0
        /\ started = 0
        /\ mishaps = 0
        /\ created = [i \in Job |-> FALSE]
        /\ removed = [i \in Job |-> FALSE]
        /\ clean = TRUE
        /\ orderly = [i \in Job |-> TRUE]

Saving == \E s \in Saver : saver[s] # "idle"

DataBefore == Contents(jobs, heap)

\* The data of a save is what the map holds in the turn save() is called.
DataNow == Contents(jobs', heap')

\* An edit of the job that has yet to replace its timer.
Pending(i) == \E s \in Saver : saver[s] # "idle" /\ follow[s].do = "schedule" /\ follow[s].job = i

CountEdit == edits < MaxEdits /\ edits' = edits + 1

NoteEdit(i) == orderly' = [orderly EXCEPT ![i] = ~Pending(i)]

\* this.store.save() is called.
StartSave(s, next) ==
    /\ saver[s] = "idle"
    /\ clean' = ~Saving
    /\ saver' = [saver EXCEPT ![s] = "opening"]
    /\ data' = [data EXCEPT ![s] = DataNow]
    /\ follow' = [follow EXCEPT ![s] = next]
    /\ UNCHANGED <<openFile, diskVars, up>>

\* addJob(): a new object enters the map; its timer comes after the save.
AddJob(i, status, s) ==
    /\ up /\ ~created[i]
    /\ created' = [created EXCEPT ![i] = TRUE]
    /\ latest' = [latest EXCEPT ![i] = 1]
    /\ heap' = [heap EXCEPT ![i][1] = Entry(status, 0)]
    /\ jobs' = [jobs EXCEPT ![i] = 1]
    /\ StartSave(s, [do |-> "schedule", job |-> i, version |-> 1])
    /\ CountEdit /\ NoteEdit(i)
    /\ UNCHANGED <<timers, inRun, started, mishaps, removed>>

\* updateJob(): a copy with the updates takes the object's place; the timer is
\* replaced after the save and may fire for the old object until then.
UpdateJob(i, status, s) ==
    /\ up /\ jobs[i] # 0
    /\ latest[i] < MaxVersions
    /\ LET v == latest[i] + 1
       IN /\ latest' = [latest EXCEPT ![i] = v]
          /\ heap' = [heap EXCEPT ![i][v] = Entry(status, heap[i][jobs[i]].errors)]
          /\ jobs' = [jobs EXCEPT ![i] = v]
          /\ StartSave(s, [do |-> "schedule", job |-> i, version |-> v])
    /\ CountEdit /\ NoteEdit(i)
    /\ UNCHANGED <<timers, inRun, started, mishaps, created, removed>>

KeepTimer(i) == timers

CancelTimer(i) == [timers EXCEPT ![i] = 0]

NoRunOf(i) == \A v \in Version : inRun[i][v] = 0

\* removeJob(): the timer goes first, then the object.
RemoveJob(i, s) ==
    /\ up /\ jobs[i] # 0
    /\ timers' = CancelTimer(i)
    /\ jobs' = [jobs EXCEPT ![i] = 0]
    /\ UNCHANGED heap
    /\ StartSave(s, [do |-> IF NoRunOf(i) /\ ~Saving THEN "confirm" ELSE "nothing", job |-> i])
    /\ CountEdit /\ NoteEdit(i)
    /\ UNCHANGED <<latest, inRun, started, mishaps, created, removed>>

\* removeJob() of a job that is not in the map only cancels.
RemoveUnknown(i) ==
    /\ up /\ jobs[i] = 0
    /\ timers' = CancelTimer(i)
    /\ NoteEdit(i)
    /\ UNCHANGED <<up, heap, latest, jobs, inRun, saveVars, diskVars, boundVars, created, removed, clean>>

StartRun(i, v) ==
    /\ started < MaxRuns
    /\ started' = started + 1
    /\ inRun' = [inRun EXCEPT ![i][v] = @ + 1]
    /\ UNCHANGED <<up, heap, latest, jobs, timers, saveVars, diskVars, edits, mishaps, pastVars>>

\* The cron of a job fires, whether or not an earlier run is still going.
Fire(i) == up /\ timers[i] # 0 /\ StartRun(i, timers[i])

\* runNow() runs the object that the map holds.
RunNow(i) == up /\ jobs[i] # 0 /\ StartRun(i, jobs[i])

\* executeJob() goes on after runner.run(): the outcome is noted in the object
\* it was given, and that object is put into the map, whatever is there.
EndRun(i, v, ok, s) ==
    /\ up /\ inRun[i][v] > 0
    /\ inRun' = [inRun EXCEPT ![i][v] = @ - 1]
    /\ heap' = [heap EXCEPT ![i][v] = Entry(@.status, IF ok THEN 0 ELSE @.errors + 1)]
    /\ jobs' = [jobs EXCEPT ![i] = v]
    /\ StartSave(s, NothingNext)
    /\ orderly' = [orderly EXCEPT ![i] = @ /\ jobs[i] = v]
    /\ UNCHANGED <<latest, timers, boundVars, created, removed>>

SaveAt(s, from, to) == up /\ saver[s] = from /\ saver' = [saver EXCEPT ![s] = to]

WriteInPlace(s) ==
    /\ SaveAt(s, "opening", "writing")
    /\ json' = Truncated
    /\ openFile' = [openFile EXCEPT ![s] = "json"]
    /\ UNCHANGED <<up, memVars, data, follow, tmp, boundVars, pastVars>>

\* writeFile(tmpPath): the file is created or truncated, ...
OpenTemp(s) ==
    /\ SaveAt(s, "opening", "writing")
    /\ tmp' = Truncated
    /\ openFile' = [openFile EXCEPT ![s] = "tmp"]
    /\ UNCHANGED <<up, memVars, data, follow, json, boundVars, pastVars>>

\* What is in a file after a save has written into it from the start: an
\* earlier, longer text of another save can stick out behind.
Written(file, contents) ==
    {File(contents)} \cup IF file.is = "truncated" THEN {} ELSE {Garbled}

\* ... and then the data is written, into the file wherever it is by now.
WriteTemp(s) ==
    /\ SaveAt(s, "writing", "renaming")
    /\ tmp' \in IF openFile[s] = "tmp" THEN Written(tmp, data[s]) ELSE {tmp}
    /\ json' \in IF openFile[s] = "json" THEN Written(json, data[s]) ELSE {json}
    /\ UNCHANGED <<up, memVars, data, follow, openFile, boundVars, pastVars>>

Idle(s) == /\ saver' = [saver EXCEPT ![s] = "idle"]
           /\ data' = [data EXCEPT ![s] = NoJobs]
           /\ follow' = [follow EXCEPT ![s] = NothingNext]

\* A save rejects, and so does the call it belongs to.
Reject(s) ==
    /\ Idle(s)
    /\ openFile' = [openFile EXCEPT ![s] = "none"]
    /\ clean' = FALSE
    /\ orderly' = [i \in Job |-> orderly[i] /\ ~(follow[s].do = "schedule" /\ follow[s].job = i)]

\* rename(tmpPath, storePath): it fails when another save has taken the file.
RenameTemp(s) ==
    /\ up /\ saver[s] = "renaming"
    /\ IF tmp.is = "missing"
       THEN Reject(s) /\ UNCHANGED diskVars
       ELSE /\ saver' = [saver EXCEPT ![s] = "settling"]
            /\ json' = tmp
            /\ tmp' = NoFile
            /\ openFile' = [r \in Saver |-> IF r # s /\ openFile[r] = "tmp" THEN "json" ELSE "none"]
            /\ UNCHANGED <<data, follow, clean, orderly>>
    /\ UNCHANGED <<up, memVars, boundVars, created, removed>>

ScheduleOnly(i, v) ==
    IF heap[i][v].status = "on" THEN [timers EXCEPT ![i] = v] ELSE timers

\* timers.cancel(id), then a new cron when the job is enabled. When new Cron()
\* throws, the call rejects: the job is saved and in the map, the old timer is
\* gone and there is no new one.
Reschedule(i, v) ==
    [timers EXCEPT ![i] = IF heap[i][v].status = "on" THEN v ELSE 0]

\* The caller of save() goes on.
AfterSave(s) ==
    /\ up /\ saver[s] = "settling"
    /\ Idle(s)
    /\ LET next == follow[s]
       IN CASE next.do = "schedule" -> /\ timers' = Reschedule(next.job, next.version)
                                       /\ UNCHANGED removed
            [] next.do = "confirm"  -> /\ removed' = [removed EXCEPT ![next.job] = TRUE]
                                       /\ UNCHANGED timers
            [] OTHER                -> UNCHANGED <<timers, removed>>
    /\ UNCHANGED <<up, heap, latest, jobs, inRun, openFile, diskVars, boundVars, created, clean, orderly>>

Mishap == mishaps < MaxMishaps /\ mishaps' = mishaps + 1

\* A file operation fails: the save rejects, and so does its call.
SaveError(s) ==
    /\ Mishap
    /\ up /\ saver[s] \in {"opening", "writing", "renaming"}
    /\ Reject(s)
    /\ UNCHANGED <<up, memVars, diskVars, edits, started, created, removed>>

\* The process dies; the files stay, and what was in memory is gone.
Crash ==
    /\ Mishap
    /\ up
    /\ up' = FALSE
    /\ heap' = [i \in Job |-> [v \in Version |-> NoEntry]]
    /\ jobs' = [i \in Job |-> 0] /\ latest' = jobs' /\ timers' = jobs'
    /\ inRun' = [i \in Job |-> [v \in Version |-> 0]]
    /\ saver' = [s \in Saver |-> "idle"]
    /\ data' = [s \in Saver |-> NoJobs]
    /\ follow' = [s \in Saver |-> NothingNext]
    /\ openFile' = [s \in Saver |-> "none"]
    /\ clean' = TRUE
    /\ orderly' = [i \in Job |-> TRUE]
    /\ UNCHANGED <<diskVars, edits, started, created, removed>>

\* load(): a file that is missing or does not parse means no jobs.
Loaded == IF json.is = "whole" THEN json.jobs ELSE NoJobs

\* The enabled jobs whose timer initialize() gets to set: all of them, or those
\* that the file lists before the first whose schedule throws. The model leaves
\* the order of the file open.
Scheduled ==
    LET with(status) == {i \in Job : Loaded[i].status = status}
    IN IF with("bad") = {} THEN {with("on")} ELSE SUBSET with("on")

\* The process starts: initialize() loads the jobs and schedules the enabled.
\* When it rejects, cli.ts ends the process, which is as if it had not started;
\* a program that uses the class may go on with the timers that were set.
Start ==
    /\ ~up
    /\ up' = TRUE
    /\ heap' = [i \in Job |-> [v \in Version |-> IF v = 1 THEN Loaded[i] ELSE NoEntry]]
    /\ jobs' = [i \in Job |-> IF Loaded[i] = NoEntry THEN 0 ELSE 1]
    /\ latest' = jobs'
    /\ \E timed \in Scheduled :
          /\ timers' = [i \in Job |-> IF i \in timed THEN 1 ELSE 0]
          /\ orderly' = [i \in Job |-> Loaded[i].status = "on" => i \in timed]
    /\ UNCHANGED <<inRun, saveVars, diskVars, boundVars, created, removed, clean>>

\* load() takes every error of reading the file for a file that is not there: the
\* process starts with no jobs, and its first save replaces the file.
StartFresh ==
    /\ ~up /\ Loaded # NoJobs
    /\ up' = TRUE
    /\ heap' = [i \in Job |-> [v \in Version |-> NoEntry]]
    /\ jobs' = [i \in Job |-> 0] /\ latest' = jobs' /\ timers' = jobs'
    /\ clean' = FALSE
    /\ orderly' = [i \in Job |-> TRUE]
    /\ UNCHANGED <<inRun, saveVars, diskVars, boundVars, created, removed>>

EditStep(i, s) ==
    \/ \E status \in {"on", "off", "bad"} : AddJob(i, status, s) \/ UpdateJob(i, status, s)
    \/ RemoveJob(i, s)

RunStep(i) == Fire(i) \/ RunNow(i) \/ \E s \in Saver, v \in Version, ok \in BOOLEAN : EndRun(i, v, ok, s)

SaveStep(s) ==
    OpenTemp(s) \/ WriteTemp(s) \/ RenameTemp(s) \/ AfterSave(s) \/ SaveError(s)

Next == \/ \E i \in Job, s \in Saver : EditStep(i, s)
        \/ \E i \in Job : RunStep(i) \/ RemoveUnknown(i)
        \/ \E s \in Saver : SaveStep(s)
        \/ Crash \/ Start \/ StartFresh

Spec == Init /\ [][Next]_vars

-----------------------------------------------------------------------------

JobEntry == [status : {"on", "off", "bad", "none"}, errors : Nat]
JobsFile == [is : {"missing", "truncated", "garbled", "whole"}, jobs : [Job -> JobEntry]]

\* The variables hold values of the right kind.
TypeOK ==
    /\ up \in BOOLEAN
    /\ heap \in [Job -> [Version -> JobEntry]]
    /\ latest \in [Job -> 0..MaxVersions]
    /\ jobs \in [Job -> 0..MaxVersions] /\ timers \in [Job -> 0..MaxVersions]
    /\ inRun \in [Job -> [Version -> Nat]]
    /\ saver \in [Saver -> {"idle", "opening", "writing", "renaming", "settling"}]
    /\ data \in [Saver -> [Job -> JobEntry]]
    /\ openFile \in [Saver -> {"none", "tmp", "json"}]
    /\ tmp \in JobsFile /\ json \in JobsFile
    /\ edits \in 0..MaxEdits /\ started \in 0..MaxRuns /\ mishaps \in 0..MaxMishaps
    /\ created \in [Job -> BOOLEAN] /\ removed \in [Job -> BOOLEAN]
    /\ clean \in BOOLEAN /\ orderly \in [Job -> BOOLEAN]

\* A save that meets no other changes jobs.json in one step, to what the map
\* holds: a crash or a disk error at any of its operations leaves the old jobs
\* or the new. Saves that overlap do not keep this: see JobsFileIsWhole.
SavesAreAtomic ==
    [][clean => json' \in {json, File(Contents(jobs, heap))}]_vars

\* A job fires exactly when it is enabled and its schedule can be read, with
\* the object that the map holds: no timer outlives its job, none is missing.
\* It holds whatever the saves and runs of other jobs do, but only while the job
\* is left in order: the start that loaded it reached it, or else the edit begun
\* last met no other edit of the job and was saved; and no run has since put an
\* object back that was updated or removed meanwhile. In each of those cases the
\* code does leave a timer too many or too few, until the next edit.
TimerMatchesJob ==
    up => \A i \in Job :
            orderly[i] /\ ~Pending(i) =>
                timers[i] = IF jobs[i] # 0 /\ heap[i][jobs[i]].status = "on" THEN jobs[i] ELSE 0

\* Between saves the file says what the map says, provided that the save begun
\* last met no other and did not fail, or that the start read the file: so every
\* such save also makes up for all that failed or overlapped before it, and a
\* crash then loses nothing.
FileFollowsMap ==
    up /\ clean /\ ~Saving => Loaded = Contents(jobs, heap)

\* A job that was removed while it was not running and while no save was under
\* way never comes back: not by a timer, not by a save that is written later,
\* alone or overlapping others, not by a restart. A run of the job or a save
\* from before the removal can bring it back.
RemovalSticks ==
    \A i \in Job : removed[i] => /\ up => jobs[i] = 0 /\ timers[i] = 0
                                 /\ Loaded[i] = NoEntry

\* src/scheduler/store.ts:25, "Persist all jobs to disk (atomic write via temp
\* file)": whenever the process dies, the file can be loaded.
JobsFileIsWhole == json.is \in {"missing", "whole"}

=============================================================================
