----------------------------- MODULE DeliveryQueue -----------------------------
(***************************************************************************)
(* src/delivery/queue.ts: the file-backed write-ahead queue of outbound    *)
(* deliveries. An entry is one JSON file; it is replaced by writing a temp *)
(* file and renaming it, and acknowledged by renaming it to a marker.      *)
(*                                                                         *)
(* Every await on the file system is a step of its own, so the process can *)
(* crash between any two of them; the files stay. writeFile truncates the  *)
(* file first: between that and the end of the write the file is "torn".   *)
(*                                                                         *)
(* The code around a connector that calls the queue is not part of the     *)
(* repository. It enqueues an entry once, under a fresh id, and it reports *)
(* the outcome of one delivery at a time, unless Overlap says that a       *)
(* success can be reported while a failure is still being written.         *)
(***************************************************************************)
EXTENDS Naturals, FiniteSets

CONSTANTS Id,           \* the entries
          MaxRetries,   \* options.maxRetries, at least 1
          Overlap,      \* an ack() and a fail() of one entry may overlap
          MaxFails,     \* bound of the model: fail() calls that find an entry
          MaxMishaps    \* bound of the model: crashes and disk errors

ASSUME DeliveryAssumption == /\ MaxRetries \in Nat \ {0}
                             /\ Overlap \in BOOLEAN
                             /\ MaxFails \in Nat
                             /\ MaxMishaps \in Nat

VARIABLES json,       \* <id>.json
          tmp,        \* <id>.json.tmp
          marker,     \* <id>.delivered exists
          writer,     \* the await at which the enqueue() or fail() of an entry stands
          draft,      \* the entry that call is going to write
          acker,      \* the await at which the ack() of an entry stands
          scan,       \* recover(): "idle", "scanning" or "done"
          sweep,      \* the markers it has listed and not removed
          listing,    \* the entries it has listed and not read
          found,      \* the entries it has collected
          unread,     \* history: the entries it could not list or read
          mishaps,    \* crashes and disk errors so far
          asked,      \* history: enqueue() was called
          promised,   \* history: enqueue() resolved
          begun,      \* history: the fail() calls that found the entry
          told,       \* history: the fail() calls that recorded the failure
          acked,      \* history: an ack() has taken the entry
          steady,     \* history: pending ever since recover() listed the files
          seen        \* history: pending at some moment since then

diskVars == <<json, tmp, marker>>
callVars == <<writer, draft, acker>>
scanVars == <<scan, sweep, listing, found, unread>>
tallyVars == <<asked, promised, begun, told, acked>>
viewVars == <<steady, seen>>

vars == <<diskVars, callVars, scanVars, mishaps, tallyVars, viewVars>>

File(status, attempts) == [status |-> status, attempts |-> attempts]
NoFile == File("none", 0)
TornFile == File("torn", 0)

Exists(file) == file.status # "none"
Whole(file) == file.status \in {"pending", "failed"}

Pending == {i \in Id : json[i].status = "pending"}

-----------------------------------------------------------------------------

Init == /\ json = [i \in Id |-> NoFile]
        /\ tmp = [i \in Id |-> NoFile]
        /\ marker = [i \in Id |-> FALSE]
        /\ writer = [i \in Id |-> "idle"]
        /\ draft = [i \in Id |-> NoFile]
        /\ acker = [i \in Id |-> "idle"]
        /\ scan = "idle"
        /\ sweep = {}
        /\ listing = {}
        /\ found = {}
        /\ unread = {}
        /\ mishaps = 0
        /\ asked = [i \in Id |-> FALSE]
        /\ promised = [i \in Id |-> FALSE]
        /\ begun = [i \in Id |-> 0]
        /\ told = [i \in Id |-> 0]
        /\ acked = [i \in Id |-> FALSE]
        /\ steady = {}
        /\ seen = {}

\* What a recover() in progress could tell of the entries after this step.
Observe ==
    /\ steady' = IF scan = "scanning" THEN steady \cap Pending' ELSE steady
    /\ seen' = IF scan = "scanning" THEN seen \cup Pending' ELSE seen

WriterAt(i, from, to) == writer[i] = from /\ writer' = [writer EXCEPT ![i] = to]
AckerAt(i, from, to) == acker[i] = from /\ acker' = [acker EXCEPT ![i] = to]

\* enqueue(): the directory is made and the entry drawn up.
Enqueue(i) ==
    /\ ~asked[i]
    /\ asked' = [asked EXCEPT ![i] = TRUE]
    /\ WriterAt(i, "idle", "opening")
    /\ draft' = [draft EXCEPT ![i] = File("pending", 0)]
    /\ UNCHANGED <<diskVars, acker, scanVars, mishaps, promised, begun, told, acked, viewVars>>

\* fail() is called, for an entry that is there or not.
Fail(i) ==
    /\ asked[i]
    /\ begun[i] < MaxFails
    /\ Overlap \/ acker[i] = "idle"
    /\ WriterAt(i, "idle", "reading")
    /\ UNCHANGED <<diskVars, draft, acker, scanVars, mishaps, tallyVars, viewVars>>

BumpTwice(e) ==
    File(IF e.attempts + 2 >= MaxRetries THEN "failed" ELSE e.status, e.attempts + 2)

\* One more attempt; after MaxRetries of them the entry has failed for good.
Bump(e) ==
    File(IF e.attempts + 1 >= MaxRetries THEN "failed" ELSE e.status, e.attempts + 1)

ReadEntryOrFresh(i) ==
    /\ WriterAt(i, "reading", "opening")
    /\ draft' = [draft EXCEPT ![i] = IF Whole(json[i]) THEN Bump(json[i]) ELSE Bump(File("pending", 0))]
    /\ begun' = [begun EXCEPT ![i] = @ + 1]
    /\ UNCHANGED <<diskVars, acker, scanVars, mishaps, asked, promised, told, acked, viewVars>>

\* fail() reads the entry. An entry that is missing or torn ends the call.
ReadEntry(i) ==
    /\ \/ /\ Whole(json[i])
          /\ WriterAt(i, "reading", "opening")
          /\ draft' = [draft EXCEPT ![i] = Bump(json[i])]
          /\ begun' = [begun EXCEPT ![i] = @ + 1]
       \/ /\ ~Whole(json[i])
          /\ WriterAt(i, "reading", "idle")
          /\ UNCHANGED <<draft, begun>>
    /\ UNCHANGED <<diskVars, acker, scanVars, mishaps, asked, promised, told, acked, viewVars>>

RemoveThenWrite(i) ==
    /\ WriterAt(i, "opening", "writing")
    /\ tmp' = [tmp EXCEPT ![i] = TornFile]
    /\ json' = [json EXCEPT ![i] = NoFile]
    /\ Observe
    /\ UNCHANGED <<marker, draft, acker, scanVars, mishaps, tallyVars>>

\* writeFile(tmp): the file is created or truncated, ...
OpenTemp(i) ==
    /\ WriterAt(i, "opening", "writing")
    /\ tmp' = [tmp EXCEPT ![i] = TornFile]
    /\ UNCHANGED <<json, marker, draft, acker, scanVars, mishaps, tallyVars, viewVars>>

\* ... and then it holds the entry.
WriteTemp(i) ==
    /\ WriterAt(i, "writing", "renaming")
    /\ tmp' = [tmp EXCEPT ![i] = draft[i]]
    /\ UNCHANGED <<json, marker, draft, acker, scanVars, mishaps, tallyVars, viewVars>>

\* rename(tmp, target) replaces the entry in one step.
RenameTemp(i) ==
    /\ WriterAt(i, "renaming", "settling")
    /\ json' = [json EXCEPT ![i] = tmp[i]]
    /\ tmp' = [tmp EXCEPT ![i] = NoFile]
    /\ Observe
    /\ UNCHANGED <<marker, draft, acker, scanVars, mishaps, tallyVars>>

\* The caller learns that enqueue() or fail() is done.
Settle(i) ==
    /\ WriterAt(i, "settling", "idle")
    /\ IF draft[i].attempts = 0
       THEN promised' = [promised EXCEPT ![i] = TRUE] /\ UNCHANGED told
       ELSE told' = [told EXCEPT ![i] = @ + 1] /\ UNCHANGED promised
    /\ draft' = [draft EXCEPT ![i] = NoFile]
    /\ UNCHANGED <<diskVars, acker, scanVars, mishaps, asked, begun, acked, viewVars>>

\* ack() is called, for an entry that is there or not.
Ack(i) ==
    /\ asked[i]
    /\ Overlap \/ writer[i] = "idle"
    /\ AckerAt(i, "idle", "moving")
    /\ UNCHANGED <<diskVars, writer, draft, scanVars, mishaps, tallyVars, viewVars>>

\* Phase 1 of ack(): the entry becomes a marker. A missing entry ends the call.
MoveToMarker(i) ==
    \/ /\ Exists(json[i])
       /\ AckerAt(i, "moving", "unlinking")
       /\ json' = [json EXCEPT ![i] = NoFile]
       /\ marker' = [marker EXCEPT ![i] = TRUE]
       /\ acked' = [acked EXCEPT ![i] = TRUE]
       /\ Observe
       /\ UNCHANGED <<tmp, writer, draft, scanVars, mishaps, asked, promised, begun, told>>
    \/ /\ ~Exists(json[i])
       /\ AckerAt(i, "moving", "idle")
       /\ UNCHANGED <<diskVars, writer, draft, scanVars, mishaps, tallyVars, viewVars>>

\* Phase 2 of ack(): the marker is removed.
DropMarker(i) ==
    /\ AckerAt(i, "unlinking", "idle")
    /\ marker' = [marker EXCEPT ![i] = FALSE]
    /\ UNCHANGED <<json, tmp, writer, draft, scanVars, mishaps, tallyVars, viewVars>>

\* recover() lists the directory.
ListFiles ==
    /\ scan # "scanning"
    /\ scan' = "scanning"
    /\ sweep' = {i \in Id : marker[i]}
    /\ listing' = {i \in Id : Exists(json[i])}
    /\ found' = {}
    /\ unread' = {}
    /\ steady' = Pending
    /\ seen' = Pending
    /\ UNCHANGED <<diskVars, callVars, mishaps, tallyVars>>

\* It removes a marker that an interrupted ack() left, or one that an ack() in
\* progress has just made.
SweepMarker(i) ==
    /\ scan = "scanning"
    /\ i \in sweep
    /\ sweep' = sweep \ {i}
    /\ marker' = [marker EXCEPT ![i] = FALSE]
    /\ UNCHANGED <<json, tmp, callVars, scan, listing, found, unread, mishaps, tallyVars, viewVars>>

CollectAny(i) == IF Whole(json[i]) THEN found \cup {i} ELSE found

\* A file that is gone or torn by now is skipped, and so is a failed entry.
Collect(i) == IF json[i].status = "pending" THEN found \cup {i} ELSE found

ReadListed(i) ==
    /\ scan = "scanning"
    /\ sweep = {}
    /\ i \in listing
    /\ listing' = listing \ {i}
    /\ found' = Collect(i)
    /\ UNCHANGED <<diskVars, callVars, scan, sweep, unread, mishaps, tallyVars, viewVars>>

\* recover() resolves with what it has collected.
EndRecover ==
    /\ scan = "scanning"
    /\ sweep = {}
    /\ listing = {}
    /\ scan' = "done"
    /\ UNCHANGED <<diskVars, callVars, sweep, listing, found, unread, mishaps, tallyVars, viewVars>>

Mishap == mishaps < MaxMishaps /\ mishaps' = mishaps + 1

\* A write or a rename of enqueue() or fail() fails: the promise rejects.
WriteError(i) ==
    /\ Mishap
    /\ writer[i] \in {"opening", "writing", "renaming"}
    /\ writer' = [writer EXCEPT ![i] = "idle"]
    /\ draft' = [draft EXCEPT ![i] = NoFile]
    /\ UNCHANGED <<diskVars, acker, scanVars, tallyVars, viewVars>>

\* The read of fail() fails, which it takes for an entry that is gone: the
\* promise resolves, and the failure is not counted.
ReadError(i) ==
    /\ Mishap
    /\ WriterAt(i, "reading", "idle")
    /\ UNCHANGED <<diskVars, draft, acker, scanVars, tallyVars, viewVars>>

\* A rename or an unlink of ack() fails: the error is swallowed.
AckError(i) ==
    /\ Mishap
    /\ acker[i] \in {"moving", "unlinking"}
    /\ acker' = [acker EXCEPT ![i] = "idle"]
    /\ UNCHANGED <<diskVars, writer, draft, scanVars, tallyVars, viewVars>>

\* recover() cannot list the directory, which it takes for an empty one.
ListError ==
    /\ Mishap
    /\ scan # "scanning"
    /\ scan' = "done"
    /\ found' = {}
    /\ unread' = Id
    /\ steady' = Pending
    /\ seen' = Pending
    /\ UNCHANGED <<diskVars, callVars, sweep, listing, tallyVars>>

\* It cannot remove a marker: the next recover() will try again.
SweepError(i) ==
    /\ Mishap
    /\ scan = "scanning"
    /\ i \in sweep
    /\ sweep' = sweep \ {i}
    /\ UNCHANGED <<diskVars, callVars, scan, listing, found, unread, tallyVars, viewVars>>

\* It cannot read an entry, which it skips.
ReadListedError(i) ==
    /\ Mishap
    /\ scan = "scanning"
    /\ sweep = {}
    /\ i \in listing
    /\ listing' = listing \ {i}
    /\ unread' = unread \cup {i}
    /\ UNCHANGED <<diskVars, callVars, scan, sweep, found, tallyVars, viewVars>>

\* The process dies and starts again: the calls are gone, the files stay.
Crash ==
    /\ Mishap
    /\ writer' = [i \in Id |-> "idle"]
    /\ acker' = [i \in Id |-> "idle"]
    /\ scan' = "idle"
    /\ sweep' = {}
    /\ listing' = {}
    /\ found' = {}
    /\ unread' = {}
    /\ draft' = [i \in Id |-> NoFile]
    /\ UNCHANGED <<diskVars, tallyVars, viewVars>>

CallStep(i) ==
    \/ Enqueue(i) \/ Fail(i) \/ ReadEntry(i) \/ OpenTemp(i) \/ WriteTemp(i) \/ RenameTemp(i)
    \/ Settle(i) \/ Ack(i) \/ MoveToMarker(i) \/ DropMarker(i)
    \/ WriteError(i) \/ ReadError(i) \/ AckError(i)

RecoverStep ==
    \/ ListFiles \/ EndRecover \/ ListError
    \/ \E i \in Id : SweepMarker(i) \/ ReadListed(i) \/ SweepError(i) \/ ReadListedError(i)

Next == (\E i \in Id : CallStep(i)) \/ RecoverStep \/ Crash

Spec == Init /\ [][Next]_vars

-----------------------------------------------------------------------------

\* The variables hold values of the right kind; an entry file is never torn,
\* whatever the crash interrupts.
TypeOK ==
    /\ json \in [Id -> [status : {"none", "pending", "failed"}, attempts : Nat]]
    /\ tmp \in [Id -> [status : {"none", "torn", "pending", "failed"}, attempts : Nat]]
    /\ marker \in [Id -> BOOLEAN]
    /\ writer \in [Id -> {"idle", "reading", "opening", "writing", "renaming", "settling"}]
    /\ draft \in [Id -> [status : {"none", "pending", "failed"}, attempts : Nat]]
    /\ acker \in [Id -> {"idle", "moving", "unlinking"}]
    /\ scan \in {"idle", "scanning", "done"}
    /\ sweep \subseteq Id /\ listing \subseteq Id
    /\ found \subseteq Id /\ unread \subseteq Id
    /\ mishaps \in 0..MaxMishaps
    /\ asked \in [Id -> BOOLEAN] /\ promised \in [Id -> BOOLEAN]
    /\ begun \in [Id -> Nat] /\ told \in [Id -> Nat]
    /\ acked \in [Id -> BOOLEAN]
    /\ steady \subseteq Id /\ seen \subseteq Id

\* An acknowledged entry never comes back: not by a crash between the phases,
\* not by a fail() that comes late, not by a temp file left behind.
AckSticks == \A i \in Id : acked[i] => ~Exists(json[i])

\* Once enqueue() has resolved, the entry is on disk until it is acknowledged,
\* through crashes, failed writes and the replacement of its file.
NothingLost == \A i \in Id : promised[i] /\ ~acked[i] => Exists(json[i])

\* Every failure that fail() has read, written and resolved for is counted, none
\* twice, and an entry is given up exactly when MaxRetries are counted. A fail()
\* that cannot read the entry resolves too, and its failure is not counted.
AttemptsCounted ==
    \A i \in Id : Exists(json[i]) =>
        /\ told[i] <= json[i].attempts /\ json[i].attempts <= begun[i]
        /\ json[i].status = "failed" <=> json[i].attempts >= MaxRetries

\* What recover() returns was pending while it ran, and it misses no entry that
\* was pending all the time, whatever is enqueued, failed or acknowledged
\* meanwhile, but for entries whose read failed, and for all when the listing
\* did: those it leaves out without a word. They stay on disk (NothingLost).
RecoverIsCurrent ==
    scan = "done" => steady \subseteq found \cup unread /\ found \subseteq seen

Log == INSTANCE WriteAheadLog WITH
    state <- [i \in Id |-> IF Exists(json[i]) THEN json[i].status
                           ELSE IF acked[i] THEN "settled" ELSE "unknown"],
    attempts <- [i \in Id |-> json[i].attempts]

\* Files, crashes and recoveries implement the write-ahead log: every step is
\* a step of the log or invisible to it.
ImplementsLog == Log!Spec

=============================================================================
