-------------------------- MODULE DeliveryQueueProofs --------------------------
(***************************************************************************)
(* DeliveryQueue for every set of entries, every number of retries and any *)
(* number of crashes and disk errors, when the outcomes of an entry are    *)
(* reported one at a time.                                                 *)
(*                                                                         *)
(* An entry is disturbed only by its own calls, so the invariant is one    *)
(* per entry (EntryInv); ScanInv is what recover() relies on.              *)
(***************************************************************************)
EXTENDS DeliveryQueue, TLAPS

Working(i) == writer[i] \in {"opening", "writing", "renaming"}

\* An enqueue() that is writing writes an entry nobody has heard of.
EnqueueInv(i) ==
    Working(i) /\ draft[i].attempts = 0 =>
        /\ draft[i] = File("pending", 0)
        /\ ~Exists(json[i]) /\ ~promised[i] /\ ~acked[i]
        /\ begun[i] = 0 /\ told[i] = 0

\* A fail() that is writing writes the successor of the entry on disk.
FailInv(i) ==
    Working(i) /\ draft[i].attempts # 0 =>
        /\ Exists(json[i])
        /\ draft[i] = Bump(json[i])
        /\ json[i].attempts + 1 <= begun[i]

\* A call whose rename is done has its entry on disk.
SettleInv(i) ==
    writer[i] = "settling" =>
        /\ json[i] = draft[i]
        /\ Exists(json[i])
        /\ draft[i].attempts # 0 => told[i] + 1 <= draft[i].attempts

CountInv(i) ==
    Exists(json[i]) =>
        /\ told[i] <= json[i].attempts /\ json[i].attempts <= begun[i]
        /\ json[i].status = "failed" <=> json[i].attempts >= MaxRetries

EntryInv(i) ==
    /\ writer[i] = "idle" \/ acker[i] = "idle"
    /\ writer[i] = "renaming" => tmp[i] = draft[i]
    /\ ~asked[i] => /\ writer[i] = "idle" /\ acker[i] = "idle"
                    /\ ~Exists(json[i]) /\ ~promised[i] /\ ~acked[i]
                    /\ begun[i] = 0 /\ told[i] = 0
    /\ EnqueueInv(i)
    /\ FailInv(i)
    /\ SettleInv(i)
    /\ CountInv(i)
    /\ ~Exists(json[i]) => json[i] = NoFile
    /\ acked[i] => ~Exists(json[i])
    /\ promised[i] /\ ~acked[i] => Exists(json[i])

EveryEntry == \A i \in Id : EntryInv(i)

ScanInv ==
    /\ scan = "scanning" => /\ steady \subseteq Pending
                            /\ steady \subseteq listing \cup found \cup unread
                            /\ Pending \subseteq seen
                            /\ found \subseteq seen
    /\ RecoverIsCurrent

IInv == TypeOK /\ EveryEntry /\ ScanInv

\* What the calls of an entry can change of it.
EntryState(i) == <<json[i], tmp[i], writer[i], draft[i], acker[i], asked[i], promised[i],
                   begun[i], told[i], acked[i]>>

-----------------------------------------------------------------------------

LEMMA EntryKept ==
    ASSUME NEW i \in Id, EntryInv(i), UNCHANGED EntryState(i)
    PROVE  EntryInv(i)'
BY DEF EntryInv, EnqueueInv, FailInv, SettleInv, CountInv, Working, EntryState, Exists, File,
       NoFile, Bump

LEMMA InitInv == Init => IInv
<1> SUFFICES ASSUME Init PROVE IInv
  OBVIOUS
<1> USE DeliveryAssumption DEF DeliveryAssumption, Init, NoFile, File
<1>1. TypeOK
  BY DEF TypeOK
<1>2. EveryEntry
  BY DEF EveryEntry, EntryInv, EnqueueInv, FailInv, SettleInv, CountInv, Working, Exists
<1>3. ScanInv
  BY DEF ScanInv, RecoverIsCurrent
<1> QED
  BY <1>1, <1>2, <1>3 DEF IInv

\* A step keeps the types.
LEMMA TypeStep == IInv /\ [Next]_vars => TypeOK'
<1> SUFFICES ASSUME IInv, [Next]_vars PROVE TypeOK'
  OBVIOUS
<1> USE DeliveryAssumption DEF DeliveryAssumption, IInv, TypeOK, diskVars, callVars, scanVars,
        tallyVars, viewVars, File, NoFile, TornFile
<1>1. ASSUME NEW i \in Id, Enqueue(i) PROVE TypeOK'
  BY <1>1 DEF Enqueue, WriterAt
<1>2. ASSUME NEW i \in Id, Fail(i) PROVE TypeOK'
  BY <1>2 DEF Fail, WriterAt
<1>3. ASSUME NEW i \in Id, ReadEntry(i) PROVE TypeOK'
  <2>1. CASE ~Whole(json[i])
    BY <1>3, <2>1 DEF ReadEntry, WriterAt
  <2>2. CASE Whole(json[i])
    <3>1. Bump(json[i]) \in [status : {"none", "pending", "failed"}, attempts : Nat]
      BY DEF Bump
    <3>2. /\ writer[i] = "reading"
          /\ writer' = [writer EXCEPT ![i] = "opening"]
          /\ draft' = [draft EXCEPT ![i] = Bump(json[i])]
          /\ begun' = [begun EXCEPT ![i] = @ + 1]
          /\ UNCHANGED <<diskVars, acker, scanVars, mishaps, asked, promised, told, acked, viewVars>>
      BY <1>3, <2>2, Zenon DEF ReadEntry, WriterAt
    <3> HIDE DEF File
    <3>3. writer' \in [Id -> {"idle", "reading", "opening", "writing", "renaming", "settling"}]
      BY <3>2
    <3>4. draft' \in [Id -> [status : {"none", "pending", "failed"}, attempts : Nat]]
      BY <3>1, <3>2
    <3>5. begun' \in [Id -> Nat]
      BY <3>2
    <3> QED
      BY <3>2, <3>3, <3>4, <3>5
  <2> QED
    BY <2>1, <2>2
<1>4. ASSUME NEW i \in Id, OpenTemp(i) PROVE TypeOK'
  BY <1>4 DEF OpenTemp, WriterAt
<1>5. ASSUME NEW i \in Id, WriteTemp(i) PROVE TypeOK'
  BY <1>5 DEF WriteTemp, WriterAt
<1>6. ASSUME NEW i \in Id, RenameTemp(i) PROVE TypeOK'
  <2>1. tmp[i] = draft[i]
    BY <1>6 DEF RenameTemp, WriterAt, EveryEntry, EntryInv
  <2>2. steady' \subseteq Id /\ seen' \subseteq Id
    BY <1>6 DEF RenameTemp, Observe, Pending
  <2> QED
    BY <1>6, <2>1, <2>2 DEF RenameTemp, WriterAt
<1>7. ASSUME NEW i \in Id, Settle(i) PROVE TypeOK'
  <2>1. writer' \in [Id -> {"idle", "reading", "opening", "writing", "renaming", "settling"}]
    BY <1>7 DEF Settle, WriterAt
  <2>2. draft' \in [Id -> [status : {"none", "pending", "failed"}, attempts : Nat]]
    BY <1>7 DEF Settle
  <2>3. promised' \in [Id -> BOOLEAN]
    BY <1>7 DEF Settle
  <2>4. told' \in [Id -> Nat]
    BY <1>7 DEF Settle
  <2> QED
    BY <1>7, <2>1, <2>2, <2>3, <2>4 DEF Settle
<1>8. ASSUME NEW i \in Id, Ack(i) PROVE TypeOK'
  BY <1>8 DEF Ack, AckerAt
<1>9. ASSUME NEW i \in Id, MoveToMarker(i) PROVE TypeOK'
  <2>1. steady' \subseteq Id /\ seen' \subseteq Id
    BY <1>9 DEF MoveToMarker, Observe, Pending
  <2>2. CASE Exists(json[i])
    <3>1. /\ json' = [json EXCEPT ![i] = NoFile]
          /\ marker' = [marker EXCEPT ![i] = TRUE]
          /\ acked' = [acked EXCEPT ![i] = TRUE]
          /\ acker' = [acker EXCEPT ![i] = "unlinking"]
          /\ UNCHANGED <<tmp, writer, draft, scanVars, mishaps, asked, promised, begun, told>>
      BY <1>9, <2>2, Zenon DEF MoveToMarker, AckerAt
    <3>2. json' \in [Id -> [status : {"none", "pending", "failed"}, attempts : Nat]]
      BY <3>1
    <3>3. marker' \in [Id -> BOOLEAN] /\ acked' \in [Id -> BOOLEAN]
      BY <3>1
    <3>4. acker' \in [Id -> {"idle", "moving", "unlinking"}]
      BY <3>1
    <3> QED
      BY <2>1, <3>1, <3>2, <3>3, <3>4
  <2>3. CASE ~Exists(json[i])
    BY <1>9, <2>3 DEF MoveToMarker, AckerAt
  <2> QED
    BY <2>2, <2>3
<1>10. ASSUME NEW i \in Id, DropMarker(i) PROVE TypeOK'
  BY <1>10 DEF DropMarker, AckerAt
<1>11. ASSUME NEW i \in Id, WriteError(i) PROVE TypeOK'
  BY <1>11 DEF WriteError, Mishap
<1>12. ASSUME NEW i \in Id, AckError(i) PROVE TypeOK'
  BY <1>12 DEF AckError, Mishap
<1>19. ASSUME NEW i \in Id, ReadError(i) PROVE TypeOK'
  BY <1>19 DEF ReadError, WriterAt, Mishap
<1>20. ASSUME ListError PROVE TypeOK'
  BY <1>20 DEF ListError, Mishap, Pending
<1>21. ASSUME NEW i \in Id, SweepError(i) PROVE TypeOK'
  BY <1>21 DEF SweepError, Mishap
<1>22. ASSUME NEW i \in Id, ReadListedError(i) PROVE TypeOK'
  BY <1>22 DEF ReadListedError, Mishap
<1>13. ASSUME ListFiles PROVE TypeOK'
  BY <1>13 DEF ListFiles, Pending
<1>14. ASSUME NEW i \in Id, SweepMarker(i) PROVE TypeOK'
  BY <1>14 DEF SweepMarker
<1>15. ASSUME NEW i \in Id, ReadListed(i) PROVE TypeOK'
  BY <1>15 DEF ReadListed, Collect
<1>16. ASSUME EndRecover PROVE TypeOK'
  BY <1>16 DEF EndRecover
<1>17. ASSUME Crash PROVE TypeOK'
  BY <1>17 DEF Crash, Mishap
<1>18. ASSUME UNCHANGED vars PROVE TypeOK'
  BY <1>18 DEF vars
<1> QED
  BY <1>1, <1>2, <1>3, <1>4, <1>5, <1>6, <1>7, <1>8, <1>9, <1>10, <1>11, <1>12, <1>13, <1>14,
     <1>15, <1>16, <1>17, <1>18, <1>19, <1>20, <1>21, <1>22 DEF Next, CallStep, RecoverStep

\* The steps that concern one entry leave the others alone.
LEMMA OthersAlone ==
    ASSUME NEW i \in Id, NEW j \in Id, i # j, TypeOK, CallStep(i)
    PROVE  UNCHANGED EntryState(j)
<1> USE DEF TypeOK, EntryState, diskVars, callVars, scanVars, tallyVars, viewVars, WriterAt, AckerAt
<1>1. CASE Enqueue(i) BY <1>1 DEF Enqueue
<1>2. CASE Fail(i) BY <1>2 DEF Fail
<1>3. CASE ReadEntry(i) BY <1>3 DEF ReadEntry
<1>4. CASE OpenTemp(i) BY <1>4 DEF OpenTemp
<1>5. CASE WriteTemp(i) BY <1>5 DEF WriteTemp
<1>6. CASE RenameTemp(i) BY <1>6 DEF RenameTemp
<1>7. CASE Settle(i) BY <1>7 DEF Settle
<1>8. CASE Ack(i) BY <1>8 DEF Ack
<1>9. CASE MoveToMarker(i) BY <1>9 DEF MoveToMarker
<1>10. CASE DropMarker(i) BY <1>10 DEF DropMarker
<1>11. CASE WriteError(i) BY <1>11 DEF WriteError
<1>12. CASE AckError(i) BY <1>12 DEF AckError
<1>13. CASE ReadError(i) BY <1>13 DEF ReadError
<1> QED
  BY <1>1, <1>2, <1>3, <1>4, <1>5, <1>6, <1>7, <1>8, <1>9, <1>10, <1>11, <1>12, <1>13 DEF CallStep

\* The entry a call works on keeps its invariant. This is where the order of
\* the file operations matters, and that acks and fails do not overlap.
LEMMA EntryStep ==
    ASSUME ~Overlap, NEW i \in Id, TypeOK, EntryInv(i), CallStep(i)
    PROVE  EntryInv(i)'
<1> USE DeliveryAssumption DEF DeliveryAssumption, TypeOK, diskVars, callVars, scanVars, tallyVars,
        viewVars, WriterAt, AckerAt, EntryInv, EnqueueInv, FailInv, SettleInv, CountInv, Working,
        Exists, File, NoFile, TornFile, Whole
<1>1. CASE Enqueue(i) BY <1>1 DEF Enqueue
<1>2. CASE Fail(i) BY <1>2 DEF Fail
<1>3. CASE ReadEntry(i)
  <2>1. CASE ~Whole(json[i])
    BY <1>3, <2>1 DEF ReadEntry
  <2>2. CASE Whole(json[i])
    BY <1>3, <2>2 DEF ReadEntry, Bump
  <2> QED
    BY <2>1, <2>2
<1>4. CASE OpenTemp(i) BY <1>4 DEF OpenTemp
<1>5. CASE WriteTemp(i) BY <1>5 DEF WriteTemp
<1>6. CASE RenameTemp(i)
  <2>1. CASE draft[i].attempts = 0
    BY <1>6, <2>1 DEF RenameTemp
  <2>2. CASE draft[i].attempts # 0
    BY <1>6, <2>2 DEF RenameTemp, Bump
  <2> QED
    BY <2>1, <2>2
<1>7. CASE Settle(i) BY <1>7 DEF Settle
<1>8. CASE Ack(i) BY <1>8 DEF Ack
<1>9. CASE MoveToMarker(i) BY <1>9 DEF MoveToMarker
<1>10. CASE DropMarker(i) BY <1>10 DEF DropMarker
<1>11. CASE WriteError(i) BY <1>11 DEF WriteError
<1>12. CASE AckError(i) BY <1>12 DEF AckError
<1>13. CASE ReadError(i) BY <1>13 DEF ReadError
<1> QED
  BY <1>1, <1>2, <1>3, <1>4, <1>5, <1>6, <1>7, <1>8, <1>9, <1>10, <1>11, <1>12, <1>13 DEF CallStep

\* A crash ends every call where it stands, with the files as they are.
LEMMA CrashKeepsEntries ==
    ASSUME TypeOK, EveryEntry, Crash
    PROVE  EveryEntry'
<1> SUFFICES ASSUME NEW i \in Id PROVE EntryInv(i)'
  BY DEF EveryEntry
<1> QED
  BY DEF Crash, EveryEntry, EntryInv, EnqueueInv, FailInv, SettleInv, CountInv, Working, Exists,
         NoFile, diskVars, tallyVars

LEMMA EveryEntryStep == ~Overlap /\ IInv /\ [Next]_vars => EveryEntry'
<1> SUFFICES ASSUME ~Overlap, IInv, [Next]_vars PROVE EveryEntry'
  OBVIOUS
<1> USE DEF IInv
<1>1. ASSUME NEW i \in Id, CallStep(i) PROVE EveryEntry'
  <2> SUFFICES ASSUME NEW j \in Id PROVE EntryInv(j)'
    BY DEF EveryEntry
  <2>1. EntryInv(i) /\ EntryInv(j)
    BY DEF EveryEntry
  <2>2. CASE i = j
    BY <1>1, <2>1, <2>2, EntryStep
  <2>3. CASE i # j
    BY <1>1, <2>1, <2>3, OthersAlone, EntryKept
  <2> QED
    BY <2>2, <2>3
<1>2. ASSUME RecoverStep \/ UNCHANGED vars PROVE EveryEntry'
  <2> SUFFICES ASSUME NEW j \in Id PROVE EntryInv(j)'
    BY DEF EveryEntry
  <2>1. UNCHANGED EntryState(j)
    BY <1>2 DEF RecoverStep, ListFiles, SweepMarker, ReadListed, EndRecover, ListError,
                SweepError, ReadListedError, EntryState, vars,
                diskVars, callVars, tallyVars
  <2> QED
    BY <2>1, EntryKept DEF EveryEntry
<1> QED
  BY <1>1, <1>2, CrashKeepsEntries DEF Next

\* A listed entry that is pending all the time is collected, and nothing else.
LEMMA ScanStep == IInv /\ [Next]_vars => ScanInv'
<1> SUFFICES ASSUME IInv, [Next]_vars PROVE ScanInv'
  OBVIOUS
<1> USE DEF IInv, ScanInv, RecoverIsCurrent
<1>1. ASSUME UNCHANGED <<scanVars, viewVars>>, Pending' = Pending PROVE ScanInv'
  BY <1>1 DEF scanVars, viewVars
<1>2. ASSUME UNCHANGED scanVars, Observe PROVE ScanInv'
  BY <1>2 DEF scanVars, Observe
<1>3. ASSUME UNCHANGED json PROVE Pending' = Pending
  BY <1>3 DEF Pending
<1>4. ASSUME NEW i \in Id, CallStep(i) PROVE ScanInv'
  <2>1. CASE RenameTemp(i)
    BY <2>1, <1>2 DEF RenameTemp
  <2>2. CASE MoveToMarker(i) /\ Exists(json[i])
    BY <2>2, <1>2 DEF MoveToMarker
  <2>3. CASE MoveToMarker(i) /\ ~Exists(json[i])
    BY <2>3, <1>1, <1>3 DEF MoveToMarker, diskVars
  <2>4. CASE \/ Enqueue(i) \/ Fail(i) \/ ReadEntry(i) \/ OpenTemp(i) \/ WriteTemp(i)
             \/ Settle(i) \/ Ack(i) \/ DropMarker(i) \/ WriteError(i) \/ AckError(i)
             \/ ReadError(i)
    BY <2>4, <1>1, <1>3 DEF Enqueue, Fail, ReadEntry, OpenTemp, WriteTemp, Settle, Ack, DropMarker,
                            WriteError, ReadError, AckError, diskVars
  <2> QED
    BY <1>4, <2>1, <2>2, <2>3, <2>4 DEF CallStep
<1>5. CASE ListFiles
  <2>1. Pending' = Pending
    BY <1>5, <1>3 DEF ListFiles, diskVars
  <2>2. Pending \subseteq listing'
    BY <1>5 DEF ListFiles, Pending, Exists
  <2> QED
    BY <1>5, <2>1, <2>2 DEF ListFiles
<1>6. ASSUME NEW i \in Id, SweepMarker(i) PROVE ScanInv'
  BY <1>6, <1>3 DEF SweepMarker, viewVars
<1>7. ASSUME NEW i \in Id, ReadListed(i) PROVE ScanInv'
  <2>1. Pending' = Pending
    BY <1>7, <1>3 DEF ReadListed, diskVars
  <2>2. found' = IF i \in Pending THEN found \cup {i} ELSE found
    BY <1>7 DEF ReadListed, Collect, Pending
  <2> QED
    BY <1>7, <2>1, <2>2 DEF ReadListed, viewVars
<1>8. CASE EndRecover
  BY <1>8 DEF EndRecover, viewVars
<1>9. CASE Crash
  BY <1>9 DEF Crash
<1>10. CASE ListError
  <2>1. Pending \subseteq Id
    BY DEF Pending
  <2> QED
    BY <1>10, <2>1 DEF ListError
<1>11. ASSUME NEW i \in Id, SweepError(i) PROVE ScanInv'
  BY <1>11, <1>3 DEF SweepError, diskVars, viewVars
<1>12. ASSUME NEW i \in Id, ReadListedError(i) PROVE ScanInv'
  BY <1>12, <1>3 DEF ReadListedError, diskVars, viewVars
<1>13. CASE UNCHANGED vars
  BY <1>13, <1>1, <1>3 DEF vars, diskVars
<1> QED
  BY <1>4, <1>5, <1>6, <1>7, <1>8, <1>9, <1>10, <1>11, <1>12, <1>13 DEF Next, RecoverStep

-----------------------------------------------------------------------------

\* The invariant holds throughout when outcomes are reported one at a time.
THEOREM Invariance == ~Overlap /\ Spec => []IInv
<1>1. ~Overlap /\ IInv /\ [Next]_vars => IInv'
  BY TypeStep, EveryEntryStep, ScanStep DEF IInv
<1>2. CASE ~Overlap
  <2>1. IInv /\ [Next]_vars => IInv'
    BY <1>1, <1>2
  <2> QED
    BY <2>1, InitInv, PTL DEF Spec
<1>3. CASE Overlap
  BY <1>3
<1> QED
  BY <1>2, <1>3

\* Entry files are never torn, through any crash (writeFile, then rename).
THEOREM TypeCorrect == ~Overlap /\ Spec => []TypeOK
<1>1. IInv => TypeOK
  BY DEF IInv
<1> QED
  BY <1>1, Invariance, PTL

\* An acknowledged entry stays away (ack, fail and recover).
THEOREM AcksStick == ~Overlap /\ Spec => []AckSticks
<1>1. IInv => AckSticks
  BY DEF IInv, EveryEntry, EntryInv, AckSticks
<1> QED
  BY <1>1, Invariance, PTL

\* An entry whose enqueue() has resolved is there until it is acknowledged.
THEOREM EntriesSurvive == ~Overlap /\ Spec => []NothingLost
<1>1. IInv => NothingLost
  BY DEF IInv, EveryEntry, EntryInv, NothingLost
<1> QED
  BY <1>1, Invariance, PTL

\* fail() counts every failure of an entry it can read once, and gives up at
\* MaxRetries.
THEOREM FailuresAreCounted == ~Overlap /\ Spec => []AttemptsCounted
<1>1. IInv => AttemptsCounted
  BY DEF IInv, EveryEntry, EntryInv, CountInv, AttemptsCounted
<1> QED
  BY <1>1, Invariance, PTL

\* recover() returns the pending entries that it can read, whatever goes on
\* meanwhile.
THEOREM RecoveryIsCurrent == ~Overlap /\ Spec => []RecoverIsCurrent
<1>1. IInv => RecoverIsCurrent
  BY DEF IInv, ScanInv
<1> QED
  BY <1>1, Invariance, PTL

-----------------------------------------------------------------------------

\* What the log sees of an entry.
logState == [i \in Id |-> IF Exists(json[i]) THEN json[i].status
                         ELSE IF acked[i] THEN "settled" ELSE "unknown"]
logAttempts == [i \in Id |-> json[i].attempts]

\* Nothing happens in the log while the entry file and its acknowledgement stay.
LEMMA LogUnmoved ==
    ASSUME UNCHANGED <<json, acked>>
    PROVE  UNCHANGED Log!vars
BY DEF Log!vars, Exists

LEMMA LogInit == Init => Log!Init
BY DEF Init, Log!Init, Exists, NoFile, File

\* The rename of enqueue() takes an entry into the log, that of fail() counts
\* a failure.
LEMMA LogRename ==
    ASSUME NEW i \in Id, TypeOK, EntryInv(i), RenameTemp(i)
    PROVE  Log!Take(i) \/ Log!CountFailure(i)
<1> USE DEF TypeOK
<1>0. /\ writer[i] = "renaming"
      /\ json' = [json EXCEPT ![i] = draft[i]]
      /\ UNCHANGED acked
  BY DEF RenameTemp, WriterAt, EntryInv, tallyVars
<1>1. CASE draft[i].attempts = 0
  <2>1. draft[i] = File("pending", 0) /\ json[i] = NoFile /\ ~Exists(json[i]) /\ ~acked[i]
    BY <1>0, <1>1 DEF EntryInv, EnqueueInv, Working
  <2>2. logState[i] = "unknown" /\ logState' = [logState EXCEPT ![i] = "pending"]
    <3>1. json'[i].status = "pending"
      BY <1>0, <2>1 DEF File
    <3>2. logState' = [logState EXCEPT ![i] = json'[i].status]
      BY <1>0, <3>1 DEF logState, Exists
    <3>3. logState[i] = "unknown"
      BY <2>1 DEF logState
    <3> QED
      BY <3>1, <3>2, <3>3
  <2>3. logAttempts' = logAttempts
    BY <1>0, <2>1 DEF logAttempts, File, NoFile
  <2> QED
    BY <2>2, <2>3 DEF Log!Take, logState, logAttempts
<1>2. CASE draft[i].attempts # 0
  <2>1. draft[i] = Bump(json[i]) /\ Exists(json[i])
    BY <1>0, <1>2 DEF EntryInv, FailInv, Working
  <2>2. draft[i] = File(IF json[i].attempts + 1 >= MaxRetries THEN "failed" ELSE "pending",
                        json[i].attempts + 1)
    BY <2>1, DeliveryAssumption DEF EntryInv, CountInv, Bump, Exists, DeliveryAssumption
  <2>3. logState[i] \in {"pending", "failed"}
    BY <2>1 DEF logState, Exists
  <2>4. logAttempts' = [logAttempts EXCEPT ![i] = @ + 1]
    <3>1. json'[i].attempts = json[i].attempts + 1
      BY <1>0, <2>2 DEF File
    <3> QED
      BY <1>0, <3>1 DEF logAttempts
  <2>5. logState' = [logState EXCEPT ![i] = IF logAttempts'[i] >= MaxRetries
                                            THEN "failed" ELSE "pending"]
    <3>1. logAttempts'[i] = json[i].attempts + 1
      BY <2>4 DEF logAttempts
    <3>2. json'[i].status = IF logAttempts'[i] >= MaxRetries THEN "failed" ELSE "pending"
      BY <1>0, <2>2, <3>1 DEF File
    <3>3. logState' = [logState EXCEPT ![i] = json'[i].status]
      BY <1>0, <3>2 DEF logState, Exists
    <3> QED
      BY <3>2, <3>3
  <2> QED
    BY <2>3, <2>4, <2>5 DEF Log!CountFailure, Log!Held, logState, logAttempts
<1> QED
  BY <1>1, <1>2

\* The first rename of ack() settles the entry.
LEMMA LogMove ==
    ASSUME NEW i \in Id, TypeOK, MoveToMarker(i), Exists(json[i])
    PROVE  Log!Settle(i)
<1> USE DEF TypeOK
<1>1. json' = [json EXCEPT ![i] = NoFile] /\ acked' = [acked EXCEPT ![i] = TRUE]
  BY DEF MoveToMarker
<1>2. logState[i] \in {"pending", "failed"}
  BY DEF logState, Exists
<1>3. logState' = [logState EXCEPT ![i] = "settled"]
  BY <1>1 DEF logState, Exists, NoFile, File
<1>4. logAttempts' = [logAttempts EXCEPT ![i] = 0]
  BY <1>1 DEF logAttempts, NoFile, File
<1> QED
  BY <1>2, <1>3, <1>4 DEF Log!Settle, Log!Held, logState, logAttempts

LEMMA LogStep == IInv /\ [Next]_vars => [Log!Next]_(Log!vars)
<1> SUFFICES ASSUME IInv, [Next]_vars PROVE [Log!Next]_(Log!vars)
  OBVIOUS
<1> USE DEF IInv
<1>1. ASSUME NEW i \in Id, CallStep(i) PROVE [Log!Next]_(Log!vars)
  <2>1. CASE RenameTemp(i)
    BY <2>1, LogRename DEF Log!Next, EveryEntry
  <2>2. CASE MoveToMarker(i) /\ Exists(json[i])
    BY <2>2, LogMove DEF Log!Next
  <2>3. CASE MoveToMarker(i) /\ ~Exists(json[i])
    BY <2>3, LogUnmoved DEF MoveToMarker, diskVars, tallyVars
  <2>4. CASE \/ Enqueue(i) \/ Fail(i) \/ ReadEntry(i) \/ OpenTemp(i) \/ WriteTemp(i)
             \/ Settle(i) \/ Ack(i) \/ DropMarker(i) \/ WriteError(i) \/ AckError(i)
             \/ ReadError(i)
    BY <2>4, LogUnmoved DEF Enqueue, Fail, ReadEntry, OpenTemp, WriteTemp, Settle, Ack, DropMarker,
                            WriteError, ReadError, AckError, diskVars, tallyVars
  <2> QED
    BY <1>1, <2>1, <2>2, <2>3, <2>4 DEF CallStep
<1>2. CASE RecoverStep
  BY <1>2, LogUnmoved DEF RecoverStep, ListFiles, SweepMarker, ReadListed, EndRecover, ListError,
                          SweepError, ReadListedError, diskVars, tallyVars
<1>3. CASE Crash
  BY <1>3, LogUnmoved DEF Crash, diskVars, tallyVars
<1>4. CASE UNCHANGED vars
  BY <1>4, LogUnmoved DEF vars, diskVars, tallyVars
<1> QED
  BY <1>1, <1>2, <1>3, <1>4 DEF Next

\* The files implement the write-ahead log: temp files, markers, crashes and
\* recover() do not show in it.
THEOREM QueueIsALog == ~Overlap /\ Spec => ImplementsLog
<1>1. IInv /\ [Next]_vars => [Log!Next]_(Log!vars)
  BY LogStep
<1> QED
  BY <1>1, LogInit, Invariance, PTL DEF Spec, ImplementsLog, Log!Spec

=============================================================================
