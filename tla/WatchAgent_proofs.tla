------------------------- MODULE WatchAgent_proofs -------------------------
(***************************************************************************)
(* Proofs about WatchAgent and ActivityOverview for every set of scans,    *)
(* any number of rewrites of the file and any number of faults.  The       *)
(* invariant of the queue is that of ScanUpload_proofs; what the window    *)
(* shows is out of date only where an event is still to come.              *)
(***************************************************************************)
EXTENDS ActivityOverview, ScanUpload_proofs

-----------------------------------------------------------------------------
(* The inductive invariant                                                 *)

WatchTypes ==
    /\ saved \subseteq Checksums /\ readable \in BOOLEAN
    /\ signature \in 0..MaxRewrites /\ seen \in 0..MaxRewrites
    /\ lastSignature \in 0..MaxRewrites
    /\ archives \subseteq Checksums /\ archived \subseteq Checksums
    /\ step \in {"off", "stat", "load", "archive", "queue", "schedule", "upload",
                 "ended", "wait"}
    /\ todo \subseteq Checksums /\ records \subseteq Checksums
    /\ {force, queued, failed, unhealthy, known} \subseteq BOOLEAN
    /\ nextUploadAt \in Waits

\* The queue's own invariant, and what is on the wire.
QueueInv == IInv /\ LateIsKnown

\* ProcessDue runs within a cycle.
UploadsInCycle == phase # "idle" => step = "upload"

\* state.json names no scan without a file; on the way to it every scan of the
\* file is named, written or still to write.
ArchiveIsComplete ==
    /\ archived \subseteq archives
    /\ step = "archive" => records \subseteq archived \cup archives \cup todo
    /\ step = "queue" => records \subseteq archived

\* A signature is no newer than the file's, and a file that has not changed since
\* its signature was taken is the one that was read.
SignatureIsOlder ==
    /\ seen <= signature /\ lastSignature <= signature
    /\ step = "archive" /\ seen = signature => readable /\ saved \subseteq records

\* The schedule is out of date only while uploads go on, or when new scans make
\* the cycle look at the queue.
ScheduleFollows ==
    /\ known /\ step # "upload" /\ ~(queued /\ step = "schedule")
            => nextUploadAt = NextDueAt(uploads)
    /\ step = "off" => ~known

WatchInv ==
    /\ WatchTypes /\ QueueInv /\ UploadsInCycle /\ ArchiveIsComplete
    /\ SignatureIsOlder /\ SkippedFileIsArchived /\ ScheduleFollows

-----------------------------------------------------------------------------
(* The schedule                                                            *)

\* The retries of u wait for one of these.
RetryWaits(u) == {u[c].wait : c \in {d \in Checksums : Retrying(u[d])}} \ {Unset}

Waiting(u) == Having(u, "pending") \cup Having(u, "uploading")

\* NextDueAt by its three cases.
LEMMA NextDueCases ==
    ASSUME NEW u \in [Checksums -> Record]
    PROVE  /\ RetryWaits(u) \subseteq 0..MaxBackoff
           /\ Waiting(u) # {} => NextDueAt(u) = 0
           /\ Waiting(u) = {} /\ RetryWaits(u) # {} =>
                 /\ NextDueAt(u) \in RetryWaits(u)
                 /\ \A v \in RetryWaits(u) : NextDueAt(u) <= v
           /\ Waiting(u) = {} /\ RetryWaits(u) = {} => NextDueAt(u) = Unset
<1>1. RetryWaits(u) \subseteq 0..MaxBackoff
  BY DEF RetryWaits, Record, Waits
<1>2. Waiting(u) # {} => NextDueAt(u) = 0
  BY DEF Waiting, NextDueAt
<1>3. ASSUME Waiting(u) = {}, RetryWaits(u) # {}
      PROVE  /\ NextDueAt(u) \in RetryWaits(u)
             /\ \A v \in RetryWaits(u) : NextDueAt(u) <= v
  <2>1. NextDueAt(u) = CHOOSE w \in RetryWaits(u) : \A v \in RetryWaits(u) : w <= v
    BY <1>3 DEF NextDueAt, Waiting, RetryWaits
  <2>2. RetryWaits(u) \subseteq Nat
    BY <1>1, BackoffAssumption
  <2>3. \E w \in RetryWaits(u) : \A v \in RetryWaits(u) : w <= v
    BY <1>3, <2>2, LeastNumber
  <2>4. QED BY <2>1, <2>3
<1>4. Waiting(u) = {} /\ RetryWaits(u) = {} => NextDueAt(u) = Unset
  BY DEF NextDueAt, Waiting, RetryWaits
<1>5. QED BY <1>1, <1>2, <1>3, <1>4

\* NextDueAt returns a time, or none.
LEMMA NextDueTyping ==
    ASSUME NEW u \in [Checksums -> Record]
    PROVE  NextDueAt(u) \in Waits
BY NextDueCases, FieldTyping

\* The clock moves the announced time with the records it was computed from.
LEMMA NextDueSooner ==
    ASSUME NEW u \in [Checksums -> Record]
    PROVE  NextDueAt(Sooner(u)) = IF NextDueAt(u) > 0 THEN NextDueAt(u) - 1
                                                      ELSE NextDueAt(u)
<1> DEFINE less(w) == IF w > 0 THEN w - 1 ELSE w
<1>a. Sooner(u) \in [Checksums -> Record]
  BY SoonerTyping
<1>1. Waiting(Sooner(u)) = Waiting(u)
  BY SoonerFields DEF Waiting, Having
<1>2. RetryWaits(Sooner(u)) = {less(w) : w \in RetryWaits(u)}
  <2>1. \A c \in Checksums : /\ Retrying(Sooner(u)[c]) <=> Retrying(u[c])
                             /\ Sooner(u)[c].wait # Unset <=> u[c].wait # Unset
    BY SoonerFields DEF Retrying
  <2>2. \A c \in Checksums : Sooner(u)[c].wait = less(u[c].wait)
    BY DEF Sooner, Record
  <2>3. QED BY <2>1, <2>2 DEF RetryWaits
<1>3. CASE Waiting(u) # {}
  BY <1>a, <1>1, <1>3, NextDueCases
<1>4. CASE Waiting(u) = {} /\ RetryWaits(u) = {}
  <2>1. NextDueAt(u) = Unset /\ NextDueAt(Sooner(u)) = Unset
    BY <1>a, <1>1, <1>2, <1>4, NextDueCases
  <2>2. QED BY <2>1 DEF Unset
<1>5. CASE Waiting(u) = {} /\ RetryWaits(u) # {}
  <2> DEFINE a == NextDueAt(u)
             b == NextDueAt(Sooner(u))
  <2>1. /\ a \in RetryWaits(u) /\ \A v \in RetryWaits(u) : a <= v
        /\ RetryWaits(u) \subseteq Nat
    BY <1>5, NextDueCases, BackoffAssumption
  <2>2. /\ b \in RetryWaits(Sooner(u)) /\ \A v \in RetryWaits(Sooner(u)) : b <= v
    BY <1>a, <1>1, <1>2, <1>5, NextDueCases
  <2> HIDE DEF a, b
  <2>3. PICK w \in RetryWaits(u) : b = less(w)
    BY <1>2, <2>2
  <2>4. b <= less(a)
    BY <1>2, <2>1, <2>2
  <2>5. a <= w /\ a \in Nat /\ w \in Nat
    BY <2>1, <2>3
  <2>6. b = less(a)
    BY <2>3, <2>4, <2>5
  <2>7. QED BY <2>6 DEF a, b
<1>6. QED BY <1>3, <1>4, <1>5

-----------------------------------------------------------------------------
(* The queue under the watcher                                             *)

\* What the watcher's own steps leave of the queue.
LEMMA QueueUntouched ==
    ASSUME QueueInv, faults' \in 0..MaxFaults, cancelled' \in BOOLEAN,
           UNCHANGED <<uploads, loaded, phase, due, active, reply, outcome, late, accepted>>
    PROVE  QueueInv'
<1> USE DEF QueueInv, IInv
<1>1. TypeOK'
  BY DEF TypeOK, InUpload
<1>2. UploadedIsAccepted' /\ RetryIsScheduled' /\ HonestOutcome' /\ DueIsOpen'
  BY DEF UploadedIsAccepted, RetryIsScheduled, HonestOutcome, DueIsOpen, Retrying
<1>3. OneAttemptOnDisk' /\ MemoryMatchesDisk'
  BY DEF OneAttemptOnDisk, MemoryMatchesDisk, InUpload, Having
<1>4. LateIsKnown'
  BY DEF LateIsKnown
<1>5. QED BY <1>1, <1>2, <1>3, <1>4

LEMMA QueueNextStep == QueueInv /\ [Next]_vars => QueueInv'
BY InvStep, LateStep DEF QueueInv

\* The watcher's process ends wherever ProcessDue is, or outside of it.
LEMMA QueueCrashStep ==
    ASSUME QueueInv, CrashWatcher
    PROVE  QueueInv'
<1>a. IInv /\ TypeOK /\ LateIsKnown
  BY DEF QueueInv, IInv
<1>1. late' \subseteq Checksums /\ \A c \in late' : uploads[c].status # "absent"
  <2>1. phase = "sending" => active \in Checksums /\ uploads[active].status # "absent"
    BY <1>a DEF IInv, OneAttemptOnDisk, TypeOK, InUpload, Having
  <2>2. QED BY <1>a, <2>1 DEF CrashWatcher, TypeOK, LateIsKnown
<1>2. TypeOK'
  BY <1>1, <1>a, ReturnTyping, FaultTyping DEF CrashWatcher, TypeOK
<1>3. IInv'
  BY <1>2, <1>a, ReturnUnsaved DEF CrashWatcher
<1>4. QED BY <1>1, <1>3 DEF QueueInv, LateIsKnown, CrashWatcher

\* A call that ends on an unreadable queue leaves nothing behind.
LEMMA QueueUnreadableStep ==
    ASSUME QueueInv, NextDueAtFails
    PROVE  QueueInv'
<1>a. IInv /\ TypeOK /\ LateIsKnown
  BY DEF QueueInv, IInv
<1>1. UNCHANGED <<uploads, accepted, late, cancelled>>
  BY DEF NextDueAtFails, LoadFails, env
<1>2. TypeOK'
  BY <1>1, <1>a, ReturnTyping, FaultTyping DEF NextDueAtFails, LoadFails, TypeOK
<1>3. IInv'
  BY <1>1, <1>2, <1>a, ReturnUnsaved DEF NextDueAtFails
<1>4. QED BY <1>1, <1>3, <1>a DEF QueueInv, LateIsKnown

\* Every step of the watcher is one of the queue's, leaves the queue alone, or
\* ends the call or the process.
LEMMA WatchMoves ==
    ASSUME WatchInv, [WatchNext]_allVars
    PROVE  \/ [Next]_vars
           \/ /\ UNCHANGED <<uploads, loaded, phase, due, active, reply, outcome, late, accepted>>
              /\ faults' \in 0..MaxFaults /\ cancelled' \in BOOLEAN
           \/ CrashWatcher \/ NextDueAtFails
<1>a. TypeOK /\ faults \in 0..MaxFaults /\ cancelled \in BOOLEAN
  BY DEF WatchInv, QueueInv, IInv, TypeOK
<1>b. \A kind : Fault(kind) => faults' \in 0..MaxFaults
  BY <1>a, FaultTyping
<1> DEFINE Untouched ==
              /\ UNCHANGED <<uploads, loaded, phase, due, active, reply, outcome, late, accepted>>
              /\ faults' \in 0..MaxFaults /\ cancelled' \in BOOLEAN
<1>1. ASSUME Stat \/ Load \/ Decide \/ EndCycle \/ NextCycle \/ Stopped PROVE UNCHANGED vars
  BY <1>1 DEF Stat, Load, Decide, EndCycle, NextCycle, Stopped
<1>2. ASSUME (\E c \in Checksums : ArchiveScan(c)) \/ SaveArchiveState PROVE Untouched
  BY <1>2, <1>a, <1>b DEF ArchiveScan, SaveArchiveState, file, call, env
<1>3. ASSUME QueueScans PROVE [Next]_vars \/ Untouched
  <2>1. records \in SUBSET Checksums
    BY DEF WatchInv, WatchTypes
  <2>2. CASE LoadFails /\ UNCHANGED <<loaded, call, env>>
    BY <2>2, <1>a, <1>b DEF LoadFails, call, env
  <2>3. CASE Queue(records) \/ UNCHANGED vars
    BY <2>1, <2>3 DEF Next
  <2>4. QED BY <1>3, <2>2, <2>3 DEF QueueScans
<1>4. ASSUME ProcessUploads PROVE Next
  BY <1>4 DEF ProcessUploads, UploadNext, Next
<1>5. ASSUME Start PROVE Untouched
  BY <1>5, <1>a DEF Start, file, env
<1>6. ASSUME Stop \/ ReplaceToken \/ Elapse \/ Outside PROVE Next
  BY <1>6 DEF Stop, ReplaceToken, Elapse, Outside, Next
<1>7. ASSUME NEW S, NEW whole, Rewrite(S, whole) PROVE UNCHANGED vars
  BY <1>7 DEF Rewrite
<1>8. UNCHANGED allVars => UNCHANGED vars
  BY DEF allVars
<1>9. QED
  BY <1>1, <1>2, <1>3, <1>4, <1>5, <1>6, <1>7, <1>8 DEF WatchNext, Cycle

LEMMA QueueStep == WatchInv /\ [WatchNext]_allVars => QueueInv'
BY WatchMoves, QueueUntouched, QueueNextStep, QueueCrashStep, QueueUnreadableStep DEF WatchInv

-----------------------------------------------------------------------------
(* The watcher's own state                                                 *)

LEMMA WatchBegin == WatchInit => WatchInv
<1> SUFFICES ASSUME WatchInit PROVE WatchInv
  OBVIOUS
<1>1. QueueInv
  BY InvInit, LedgerBegin DEF WatchInit, QueueInv
<1>2. WatchTypes
  <2>1. Unset \in Waits /\ 0 \in 0..MaxRewrites
    BY MaxRewritesAssumption, FieldTyping
  <2>2. {force, queued, failed, unhealthy, known} \subseteq BOOLEAN /\ readable \in BOOLEAN
    BY DEF WatchInit
  <2>3. QED BY <2>1, <2>2 DEF WatchInit, WatchTypes
<1>3. UploadsInCycle /\ ArchiveIsComplete
  BY DEF WatchInit, Init, UploadsInCycle, ArchiveIsComplete
<1>4. SignatureIsOlder /\ SkippedFileIsArchived /\ ScheduleFollows
  BY DEF WatchInit, SignatureIsOlder, SkippedFileIsArchived, ScheduleFollows
<1>5. QED BY <1>1, <1>2, <1>3, <1>4 DEF WatchInv

LEMMA TypesStep ==
    ASSUME WatchInv, [WatchNext]_allVars
    PROVE  WatchTypes'
<1> USE DEF WatchInv, WatchTypes
<1>a. uploads \in [Checksums -> Record] /\ uploads' \in [Checksums -> Record]
  BY QueueStep DEF QueueInv, IInv, TypeOK
<1>b. NextDueAt(uploads') \in Waits
  BY <1>a, NextDueTyping
<1>c. Unset \in Waits /\ 0 \in 0..MaxRewrites
  BY FieldTyping, MaxRewritesAssumption
<1>1. CASE Stat \/ Load \/ Decide
  BY <1>1 DEF Stat, Load, Decide, ArchiveError, savedFile, archive, cycle, memory
<1>2. CASE \E c \in Checksums : ArchiveScan(c)
  BY <1>2 DEF ArchiveScan, ArchiveError, savedFile, memory
<1>3. CASE SaveArchiveState
  BY <1>3 DEF SaveArchiveState, ArchiveError, savedFile
<1>4. CASE QueueScans
  BY <1>4 DEF QueueScans, Goto, savedFile, archive, memory
<1>5. CASE ProcessUploads \/ NextDueAtFails
  BY <1>5, <1>b, <1>c DEF ProcessUploads, NextDueAtFails, Goto, savedFile, archive
<1>6. CASE EndCycle
  BY <1>6, <1>c DEF EndCycle, Goto, savedFile, archive
<1>7. CASE NextCycle
  BY <1>7 DEF NextCycle, Goto, savedFile, archive, cycle, memory
<1>8. CASE Start \/ Stopped \/ CrashWatcher
  BY <1>8, <1>c DEF Start, Stopped, CrashWatcher, Forget, Goto, savedFile, archive
<1>9. CASE Stop \/ ReplaceToken \/ Outside
  BY <1>9 DEF Stop, ReplaceToken, Outside, savedFile, archive, watcher, cycle, memory
<1>10. CASE \E S \in SUBSET Checksums, whole \in BOOLEAN : Rewrite(S, whole)
  BY <1>10, MaxRewritesAssumption DEF Rewrite, archive, watcher, cycle, memory
<1>11. CASE Elapse
  BY <1>11, FieldTyping DEF Elapse, savedFile, archive, cycle
<1>12. CASE UNCHANGED allVars
  BY <1>12 DEF allVars, savedFile, archive, watcher, cycle, memory
<1>13. QED
  BY <1>1, <1>2, <1>3, <1>4, <1>5, <1>6, <1>7, <1>8, <1>9, <1>10, <1>11, <1>12
     DEF WatchNext, Cycle

\* ProcessDue is entered and left by processUploads only.
LEMMA CycleStep ==
    ASSUME WatchInv, [WatchNext]_allVars
    PROVE  UploadsInCycle'
<1> USE DEF WatchInv, UploadsInCycle
<1>1. CASE Stat \/ Load \/ Decide \/ EndCycle \/ NextCycle \/ Stopped
  BY <1>1 DEF Stat, Load, Decide, EndCycle, NextCycle, Stopped, Goto, vars
<1>2. CASE (\E c \in Checksums : ArchiveScan(c)) \/ SaveArchiveState \/ Start
  BY <1>2 DEF ArchiveScan, SaveArchiveState, Start, Goto, call
<1>3. CASE QueueScans
  BY <1>3 DEF QueueScans, Goto, Queue, call, vars
<1>4. CASE ProcessUploads
  BY <1>4 DEF ProcessUploads
<1>5. CASE CrashWatcher \/ NextDueAtFails
  BY <1>5 DEF CrashWatcher, NextDueAtFails, Return
<1>6. CASE Stop \/ ReplaceToken \/ Elapse
  BY <1>6 DEF Stop, Cancel, ReplaceToken, ResetFailedAuthorization, Elapse, Tick, watcher, call
<1>7. CASE Outside
  BY <1>7 DEF Outside, Server, ServerAccepts, ServerRejects, ServerGarbles, Reply,
              LateRequest, watcher, call
<1>8. CASE UNCHANGED <<vars, watcher>>
  BY <1>8 DEF vars, watcher
<1>9. QED
  BY <1>1, <1>2, <1>3, <1>4, <1>5, <1>6, <1>7, <1>8 DEF WatchNext, Cycle, Rewrite, allVars

\* The archive of a scan is written before state.json names it.
LEMMA ArchiveStep ==
    ASSUME WatchInv, [WatchNext]_allVars
    PROVE  ArchiveIsComplete'
<1> USE DEF WatchInv, ArchiveIsComplete
<1>1. CASE Stat \/ Load \/ Decide \/ EndCycle \/ NextCycle \/ Stopped
  BY <1>1 DEF Stat, Load, Decide, EndCycle, NextCycle, Stopped, Goto, ArchiveError, archive, cycle
<1>2. CASE \E c \in Checksums : ArchiveScan(c)
  BY <1>2 DEF ArchiveScan, ArchiveError
<1>3. CASE SaveArchiveState
  BY <1>3 DEF SaveArchiveState, ArchiveError
<1>4. CASE QueueScans \/ Start \/ CrashWatcher
  BY <1>4 DEF QueueScans, Start, CrashWatcher, Goto, archive
<1>5. CASE ProcessUploads \/ NextDueAtFails
  BY <1>5 DEF ProcessUploads, NextDueAtFails, Goto, archive
<1>6. CASE Stop \/ ReplaceToken \/ Elapse \/ Outside
  BY <1>6 DEF Stop, ReplaceToken, Elapse, Outside, archive, watcher, cycle
<1>7. CASE UNCHANGED <<archive, watcher>>
  BY <1>7 DEF archive, watcher, cycle
<1>8. QED
  BY <1>1, <1>2, <1>3, <1>4, <1>5, <1>6, <1>7 DEF WatchNext, Cycle, Rewrite, allVars

\* The signature is taken before the file is read and remembered after it was
\* archived, so a file rewritten in between has a newer one.
LEMMA SignatureStep ==
    ASSUME WatchInv, [WatchNext]_allVars
    PROVE  SignatureIsOlder' /\ SkippedFileIsArchived'
<1> USE DEF WatchInv, SignatureIsOlder, SkippedFileIsArchived
<1>a. /\ signature \in Nat /\ seen \in Nat /\ lastSignature \in Nat
      /\ signature' \in Nat /\ seen' \in Nat /\ lastSignature' \in Nat
  BY TypesStep, MaxRewritesAssumption DEF WatchTypes
<1>1. CASE Stat
  BY <1>a, <1>1 DEF Stat, ArchiveError, savedFile, archive, cycle, memory
<1>2. CASE Load
  BY <1>2 DEF Load, ArchiveError, savedFile, archive, memory
<1>3. CASE \E c \in Checksums : ArchiveScan(c)
  BY <1>3 DEF ArchiveScan, ArchiveError, savedFile, memory
<1>4. CASE SaveArchiveState
  BY <1>4 DEF SaveArchiveState, ArchiveError, savedFile
<1>5. CASE QueueScans \/ Decide \/ EndCycle \/ NextCycle
  BY <1>a, <1>5 DEF QueueScans, Decide, EndCycle, NextCycle, Goto, savedFile, archive, cycle, memory
<1>6. CASE ProcessUploads \/ NextDueAtFails
  BY <1>6 DEF ProcessUploads, NextDueAtFails, Goto, savedFile, archive
<1>7. CASE Start \/ Stopped \/ CrashWatcher
  BY <1>a, <1>7 DEF Start, Stopped, CrashWatcher, Forget, Goto, savedFile, archive
<1>8. CASE Stop \/ ReplaceToken \/ Elapse \/ Outside
  BY <1>8 DEF Stop, ReplaceToken, Elapse, Outside, savedFile, archive, watcher, cycle, memory
<1>9. CASE \E S \in SUBSET Checksums, whole \in BOOLEAN : Rewrite(S, whole)
  BY <1>a, <1>9 DEF Rewrite, archive, watcher, cycle, memory
<1>10. CASE UNCHANGED allVars
  BY <1>10 DEF allVars, savedFile, archive, watcher, cycle, memory
<1>11. QED
  BY <1>1, <1>2, <1>3, <1>4, <1>5, <1>6, <1>7, <1>8, <1>9, <1>10 DEF WatchNext, Cycle

\* What changes the queue also brings the schedule up to date, or makes the
\* watcher look again.
LEMMA ScheduleStep ==
    ASSUME WatchInv, [WatchNext]_allVars
    PROVE  ScheduleFollows'
<1> USE DEF WatchInv, ScheduleFollows
<1>a. uploads \in [Checksums -> Record] /\ queued \in BOOLEAN /\ known \in BOOLEAN
  BY DEF QueueInv, IInv, TypeOK, WatchTypes
<1>1. CASE Stat \/ Load \/ EndCycle \/ NextCycle
  BY <1>1 DEF Stat, Load, EndCycle, NextCycle, Goto, ArchiveError, memory, cycle, vars
<1>2. CASE (\E c \in Checksums : ArchiveScan(c)) \/ SaveArchiveState
  BY <1>2 DEF ArchiveScan, SaveArchiveState, ArchiveError, memory, file
<1>3. CASE QueueScans
  BY <1>3 DEF QueueScans, LoadFails, Goto, memory, vars
<1>4. CASE Decide
  BY <1>4 DEF Decide, memory, vars, cycle
<1>5. CASE ProcessUploads \/ NextDueAtFails
  BY <1>5 DEF ProcessUploads, NextDueAtFails, Goto
<1>6. CASE Start \/ Stopped \/ CrashWatcher
  BY <1>6 DEF Start, Stopped, CrashWatcher, Forget, Goto
<1>7. CASE Stop \/ ReplaceToken
  BY <1>7 DEF Stop, Cancel, ReplaceToken, file, watcher, cycle, memory
<1>8. CASE Outside
  BY <1>8 DEF Outside, Server, ServerAccepts, ServerRejects, ServerGarbles, Reply,
              LateRequest, watcher, cycle, memory, file
<1>9. CASE Elapse
  <2>1. uploads' = Sooner(uploads)
    BY <1>9 DEF Elapse, Tick
  <2>2. NextDueAt(uploads') = IF NextDueAt(uploads) > 0 THEN NextDueAt(uploads) - 1
                                                        ELSE NextDueAt(uploads)
    BY <1>a, <2>1, NextDueSooner
  <2>3. QED BY <1>9, <2>2 DEF Elapse, cycle
<1>10. CASE UNCHANGED <<vars, watcher>>
  BY <1>10 DEF vars, watcher, cycle, memory
<1>11. QED
  BY <1>1, <1>2, <1>3, <1>4, <1>5, <1>6, <1>7, <1>8, <1>9, <1>10
     DEF WatchNext, Cycle, Rewrite, allVars

LEMMA WatchStep == WatchInv /\ [WatchNext]_allVars => WatchInv'
BY QueueStep, TypesStep, CycleStep, ArchiveStep, SignatureStep, ScheduleStep DEF WatchInv

-----------------------------------------------------------------------------
(* The theorems                                                            *)

\* The invariant of the watcher and its queue holds in every behaviour.
THEOREM WatchInvariance == WatchSpec => []WatchInv
BY WatchBegin, WatchStep, PTL DEF WatchSpec

\* Every variable of the watcher and of its queue keeps its type.
THEOREM WatchTypeCorrect == WatchSpec => []WatchTypeOK
<1>1. WatchInv => WatchTypeOK
  BY DEF WatchInv, QueueInv, IInv, WatchTypes, WatchTypeOK
<1>2. QED BY <1>1, WatchInvariance, PTL

\* Whatever the game writes while the watcher reads, a file that will be skipped
\* holds nothing that is not archived.
THEOREM NoScanSkipped == WatchSpec => []SkippedFileIsArchived
<1>1. WatchInv => SkippedFileIsArchived
  BY DEF WatchInv
<1>2. QED BY <1>1, WatchInvariance, PTL

\* Between cycles the remembered time of the next upload is the queue's own.
THEOREM ScheduleKept == WatchSpec => []ScheduleIsCurrent
<1>1. WatchInv => ScheduleIsCurrent
  BY DEF WatchInv, ScheduleFollows, ScheduleIsCurrent
<1>2. QED BY <1>1, WatchInvariance, PTL

-----------------------------------------------------------------------------
(* The watcher implements the pipeline                                     *)

Kept == archived \cap archives

\* Every step of the queue but taking scans in.
Handles ==
    \/ Tick \/ ResetFailedAuthorization
    \/ ProcessDue \/ EndProcessDue \/ Cancel \/ Renew
    \/ \E c \in Checksums : BeginUpload(c) \/ LateRequest(c)
    \/ Uploading \/ Server

\* ProcessDue adds no record for a scan that is not queued.
LEMMA AbsentStays ==
    ASSUME IInv, Handles, NEW c \in Checksums, uploads[c].status = "absent"
    PROVE  uploads'[c] = uploads[c]
<1>1. CASE Quiet
  BY <1>1, QuietStep DEF Attempted, Retrying
<1>2. CASE ResetFailedAuthorization
  BY <1>2 DEF ResetFailedAuthorization, Persist, WriteFails, With, Refused, Having
<1>3. CASE FinishUpload
  <2>1. loaded = uploads /\ Having(uploads, "uploading") = {active}
    BY <1>3 DEF FinishUpload, IInv, MemoryMatchesDisk, OneAttemptOnDisk, InUpload
  <2>2. c # active
    BY <2>1 DEF Having
  <2>3. QED BY <1>3, <2>1, <2>2 DEF FinishUpload, Persist, WriteFails, With
<1>4. EndProcessDue \/ Cancel \/ Renew \/ (\E d \in Checksums : LateRequest(d)) \/ Server
      \/ (Uploading /\ ~FinishUpload) => UNCHANGED uploads
  BY DEF EndProcessDue, Cancel, Renew, LateRequest, Server, ServerAccepts, ServerRejects,
         ServerGarbles, Reply, Uploading, OpenArchiveFails, SendRequest,
         TransportFails, BodyUnreadable, ReceiveReply, Answer, file
<1>5. QED BY <1>1, <1>2, <1>3, <1>4 DEF Handles, Quiet, Uploading

\* What ProcessDue does is a step of the ledger.
LEMMA HandlingSettles ==
    ASSUME QueueInv, Handles
    PROVE  \/ \E S \in SUBSET Checksums : Ledger!Reopen(S)
           \/ \E c \in Checksums : Ledger!Reject(c) \/ Ledger!Confirm(c) \/ Ledger!Accept(c)
           \/ UNCHANGED <<Standings, accepted>>
<1>1. [Ledger!LedgerNext]_<<Standings, accepted>>
  BY LedgerStep DEF QueueInv, Handles, Next
<1>2. ASSUME NEW S \in SUBSET Checksums, Ledger!Enqueue(S)
      PROVE  UNCHANGED <<Standings, accepted>>
  <2>1. \A c \in S : Entry(uploads[c]) = "absent" /\ Entry(uploads'[c]) = "open"
    BY <1>2 DEF Ledger!Enqueue, Ledger!Move
  <2>2. \A c \in S : uploads[c].status = "absent"
    BY <2>1 DEF Entry
  <2>3. S = {}
    BY <2>1, <2>2, AbsentStays DEF QueueInv
  <2>4. QED BY <1>2, <2>3 DEF Ledger!Enqueue, Ledger!Move, Standings
<1>3. QED BY <1>1, <1>2 DEF Ledger!LedgerNext

LEMMA PipelineStep ==
    ASSUME WatchInv, [WatchNext]_allVars
    PROVE  [Pipeline!PipelineNext]_<<Standings, accepted, Kept>>
<1>a. /\ QueueInv /\ TypeOK /\ archived \subseteq archives
      /\ records \in SUBSET Checksums
  BY DEF WatchInv, QueueInv, IInv, ArchiveIsComplete, WatchTypes
<1>1. CASE \/ Stat \/ Load \/ Decide \/ NextDueAtFails \/ EndCycle \/ NextCycle
         \/ Start \/ Stopped \/ CrashWatcher
  <2>1. UNCHANGED <<uploads, accepted, archive>>
    BY <1>1 DEF Stat, Load, Decide, NextDueAtFails, LoadFails, EndCycle, NextCycle, Start,
                Stopped, CrashWatcher, vars, file, env
  <2>2. QED BY <2>1 DEF Standings, Kept, archive
<1>2. CASE \E c \in Checksums : ArchiveScan(c)
  BY <1>a, <1>2 DEF ArchiveScan, Standings, Kept, file, env
<1>3. CASE SaveArchiveState
  <2>1. UNCHANGED <<Standings, accepted, archives>>
    BY <1>3 DEF SaveArchiveState, file, env, Standings
  <2>2. archived' = archived \/ archived' = archived \cup records
    BY <1>3 DEF SaveArchiveState
  <2>3. CASE archived' = archived
    BY <2>1, <2>3 DEF Kept
  <2>4. CASE archived' = archived \cup records
    <3>1. archived' \subseteq archives'
      BY <1>3 DEF SaveArchiveState, WatchInv, ArchiveIsComplete
    <3>2. Kept' = Kept \cup records
      BY <1>a, <2>1, <2>4, <3>1 DEF Kept
    <3>3. Pipeline!Keep(records)
      BY <2>1, <3>2 DEF Pipeline!Keep, Standings, Kept
    <3>4. QED BY <1>a, <3>3 DEF Pipeline!PipelineNext
  <2>5. QED BY <2>2, <2>3, <2>4
<1>4. CASE QueueScans
  <2>1. UNCHANGED Kept
    BY <1>4 DEF QueueScans, archive, Kept
  <2>2. CASE UNCHANGED <<uploads, accepted>>
    BY <2>1, <2>2 DEF Standings
  <2>3. CASE Queue(records)
    <3>1. Fresh(uploads, records) \in SUBSET Checksums /\ Fresh(uploads, records) \subseteq Kept
      BY <1>4, <1>a DEF QueueScans, Goto, WatchInv, ArchiveIsComplete, Fresh, Having, Kept
    <3>2. CASE Ledger!Enqueue(Fresh(uploads, records))
      <4>1. Pipeline!EnqueueKept(Fresh(uploads, records))
        BY <2>1, <3>1, <3>2
           DEF Pipeline!EnqueueKept, Pipeline!Enqueue, Pipeline!Move, Ledger!Enqueue,
               Ledger!Move, Kept
      <4>2. QED BY <3>1, <4>1 DEF Pipeline!PipelineNext
    <3>3. QED BY <1>a, <2>1, <2>3, <3>2, QueueEnqueues
  <2>4. QED BY <1>4, <2>2, <2>3 DEF QueueScans, LoadFails, vars, env
<1>5. CASE ProcessUploads \/ Stop \/ ReplaceToken \/ Elapse \/ Outside
  <2>1. Handles
    BY <1>5 DEF ProcessUploads, UploadNext, Stop, ReplaceToken, Elapse, Outside, Handles
  <2>2. UNCHANGED Kept
    BY <1>5 DEF ProcessUploads, Stop, ReplaceToken, Elapse, Outside, archive, Kept
  <2>3. CASE UNCHANGED <<Standings, accepted>>
    BY <2>2, <2>3
  <2>4. CASE \/ \E S \in SUBSET Checksums : Ledger!Reopen(S)
             \/ \E c \in Checksums : Ledger!Reject(c) \/ Ledger!Confirm(c) \/ Ledger!Accept(c)
    <3>1. Pipeline!Settle
      BY <2>2, <2>4
         DEF Pipeline!Settle, Pipeline!Reopen, Pipeline!Reject, Pipeline!Confirm,
             Pipeline!Accept, Pipeline!Move, Ledger!Reopen, Ledger!Reject, Ledger!Confirm,
             Ledger!Accept, Ledger!Move, Kept
    <3>2. QED BY <3>1 DEF Pipeline!PipelineNext
  <2>5. QED BY <1>a, <2>1, <2>3, <2>4, HandlingSettles
<1>6. (\E S, whole : Rewrite(S, whole)) \/ UNCHANGED allVars
            => UNCHANGED <<Standings, accepted, Kept>>
  BY DEF Rewrite, allVars, vars, archive, Standings, Kept
<1>7. QED BY <1>1, <1>2, <1>3, <1>4, <1>5, <1>6 DEF WatchNext, Cycle

\* Behind signatures, cycles, stops and crashes the watcher is the pipeline: it
\* archives a scan before it queues it and loses none.
THEOREM PipelineRefinement == WatchSpec => ImplementsPipeline
<1>1. WatchInit => Pipeline!PipelineInit
  BY LedgerBegin
     DEF WatchInit, Pipeline!PipelineInit, Pipeline!LedgerInit, Ledger!LedgerInit
<1>2. WatchInv /\ [WatchNext]_allVars => [Pipeline!PipelineNext]_<<Standings, accepted, Kept>>
  BY PipelineStep
<1>3. QED
  BY <1>1, <1>2, WatchInvariance, PTL
     DEF WatchSpec, ImplementsPipeline, Pipeline!PipelineSpec, Standings, Kept

-----------------------------------------------------------------------------
(* The overview the window shows                                           *)

\* What is shown may differ from the files only in the loop of ProcessDue, when a
\* scan was tried or is due and so an event will come, and after the watcher was
\* told to stop, until it has.
StaleOnly ==
    \/ shown = Overview
    \/ phase = "loop" /\ (tried \/ due # {})
    \/ cancelled /\ step # "off" /\ ~InUpload

TriedInCall == tried \in BOOLEAN /\ (phase = "idle" => ~tried)

ActivityInv == WatchInv /\ StaleOnly /\ TriedInCall

-----------------------------------------------------------------------------
LEMMA ActivityBegin == ActivityInit => ActivityInv
BY WatchBegin DEF ActivityInit, ActivityInv, StaleOnly, TriedInCall

\* The application adds nothing to what the watcher does.
LEMMA ActivityIsWatching == [ActivityNext]_activityVars => [WatchNext]_allVars
BY DEF ActivityNext, EmitUploads, ProcessBegins, EmitStarted, EmitStopped, EmitArchive,
       EmitRecovered, TokenReplaced, Silently, activityVars, WatchNext, Cycle

\* Time passes without a change of what there is to show.
LEMMA TickShowsNothing ==
    ASSUME TypeOK, Tick
    PROVE  \A status : Having(uploads', status) = Having(uploads, status)
BY SoonerFields DEF TypeOK, Tick, Having

LEMMA TriedStep ==
    ASSUME ActivityInv, [ActivityNext]_activityVars
    PROVE  TriedInCall'
<1> USE DEF ActivityInv, TriedInCall
<1>1. CASE EmitUploads
  BY <1>1 DEF EmitUploads
<1>2. CASE ProcessBegins
  BY <1>2 DEF ProcessBegins
<1>3. CASE UNCHANGED tried /\ ~EmitUploads /\ ~ProcessBegins
  <2>1. phase' = "idle" => phase = "idle"
    BY <1>3 DEF ActivityNext, EmitStarted, Start, EmitStopped, Stopped, EmitArchive, Stat, Load,
         ArchiveScan, SaveArchiveState, QueueScans, Queue, EmitRecovered, EndCycle,
         TokenReplaced, ReplaceToken, ResetFailedAuthorization, Silently, Decide, NextCycle,
         Stop, Cancel, Elapse, Tick, Outside, Server, ServerAccepts, ServerRejects,
         ServerGarbles, Reply, LateRequest, Rewrite, activityVars, allVars, vars, call
  <2>2. QED BY <1>3, <2>1
<1>4. QED BY <1>1, <1>2, <1>3 DEF ActivityNext, activityVars

\* A step of ProcessDue reloads the overview, or leaves it stale until results are reported.
LEMMA UploadsStale ==
    ASSUME ActivityInv, EmitUploads, ProcessUploads
    PROVE  StaleOnly'
<1> USE DEF ActivityInv, StaleOnly, Reload, ReloadIf
<1>a. /\ IInv /\ TypeOK /\ UploadsInCycle
      /\ uploads \in [Checksums -> Record] /\ faults \in Nat
      /\ step = "upload" /\ UploadNext
  BY BoundsAssumption DEF WatchInv, QueueInv, IInv, TypeOK, ProcessUploads
<1>b. \A kind : Fault(kind) => faults' # faults
  BY <1>a DEF Fault
<1>c. UNCHANGED archived /\ (shown' = Overview' \/ UNCHANGED shown)
  BY DEF EmitUploads, ProcessUploads, archive
<1>d. (WriteFails \/ LoadFails) /\ phase' = "idle" => shown' = Overview'
  <2>1. WriteFails \/ LoadFails => faults' # faults
    BY <1>b DEF WriteFails, LoadFails
  <2>2. phase' = "idle" => step' = "ended"
    BY DEF EmitUploads, ProcessUploads
  <2>3. QED BY <2>1, <2>2 DEF EmitUploads, UploadsFailed
<1>1. CASE ProcessDue
  <2>1. CASE Persist(Recovered(uploads)) /\ phase' = "loop" /\ due' = DueChecksums(uploads')
    <3>1. \A c \in Checksums :
            /\ uploads[c].status # "uploading" => uploads'[c] = uploads[c]
            /\ uploads[c].status = "uploading" =>
                  Retrying(uploads'[c]) /\ uploads'[c].wait = 0
      BY <1>a, <2>1, Rewritten DEF Persist, Recovered, With, Having, Retrying
    <3>2. CASE due' # {}
      BY <2>1, <3>2
    <3>3. CASE due' = {}
      <4>1. \A c \in Checksums : uploads'[c] = uploads[c]
        BY <2>1, <3>1, <3>3 DEF DueChecksums
      <4>2. UNCHANGED Overview
        BY <1>c, <4>1 DEF Overview, Having
      <4>3. phase = "idle" /\ UNCHANGED cancelled /\ step' = "upload"
        BY <1>1, <1>a, <2>1 DEF ProcessDue, Persist, WriteFails, call, EmitUploads, ProcessUploads
      <4>4. QED BY <1>c, <2>1, <4>2, <4>3 DEF InUpload
    <3>4. QED BY <3>2, <3>3
  <2>2. CASE (WriteFails \/ LoadFails) /\ phase' = "idle"
    BY <1>d, <2>2
  <2>3. QED BY <1>1, <2>1, <2>2 DEF ProcessDue, Persist, call
<1>2. CASE EndProcessDue
  <2>1. UNCHANGED Overview
    BY <1>2, <1>c DEF EndProcessDue, Overview
  <2>2. step' = "ended" /\ phase = "loop" /\ phase' = "idle" /\ UNCHANGED cancelled
    BY <1>2 DEF EndProcessDue, Return, EmitUploads, ProcessUploads
  <2>3. CASE due = {} /\ tried
    <3>1. known'
      BY <2>2, <2>3 DEF EmitUploads, ProcessUploads
    <3>2. QED BY <2>2, <2>3, <3>1 DEF EmitUploads, UploadsEnd
  <2>4. CASE due # {} \/ ~tried
    BY <1>2, <1>c, <2>1, <2>2, <2>4 DEF EndProcessDue, InUpload
  <2>5. QED BY <2>3, <2>4
<1>3. CASE \E c \in Checksums : BeginUpload(c)
  <2>1. CASE phase' = "opening"
    BY <1>3, <2>1 DEF BeginUpload, EmitUploads, UploadBegins
  <2>2. CASE WriteFails /\ phase' = "idle"
    BY <1>d, <2>2
  <2>3. QED BY <1>3, <2>1, <2>2 DEF BeginUpload, Return
<1>4. CASE FinishUpload
  <2>1. CASE phase' = "loop"
    <3>1. tried'
      BY <1>4, <2>1 DEF FinishUpload, EmitUploads
    <3>2. QED BY <2>1, <3>1
  <2>2. CASE WriteFails /\ phase' = "idle"
    BY <1>d, <2>2
  <2>3. QED BY <1>4, <2>1, <2>2 DEF FinishUpload, Return
<1>5. CASE Uploading /\ ~FinishUpload
  <2>1. UNCHANGED uploads /\ InUpload /\ InUpload'
    BY <1>5 DEF Uploading, OpenArchiveFails, SendRequest, TransportFails, BodyUnreadable,
                ReceiveReply, Answer, InUpload, file
  <2>2. shown = Overview /\ UNCHANGED Overview
    BY <1>c, <2>1 DEF Overview, InUpload
  <2>3. QED BY <1>c, <2>2
<1>6. QED BY <1>1, <1>2, <1>3, <1>4, <1>5, <1>a DEF UploadNext

LEMMA StaleStep ==
    ASSUME ActivityInv, [ActivityNext]_activityVars
    PROVE  StaleOnly'
<1> USE DEF ActivityInv, StaleOnly, Reload, ReloadIf
<1>a. /\ IInv /\ TypeOK /\ UploadsInCycle
      /\ phase \in Phases /\ cancelled \in BOOLEAN
  BY DEF WatchInv, QueueInv, IInv, TypeOK
<1>1. CASE EmitStarted \/ EmitStopped \/ ProcessBegins
  BY <1>1 DEF EmitStarted, EmitStopped, ProcessBegins
<1>2. CASE EmitArchive /\ UNCHANGED tried
  <2>1. /\ UNCHANGED <<phase, due, cancelled>>
        /\ step # "off" /\ step' # "off"
    BY <1>2 DEF EmitArchive, Stat, Load, ArchiveScan, SaveArchiveState, ArchiveError,
                QueueScans, LoadFails, Goto, Queue, vars, call
  <2>2. CASE UNCHANGED <<uploads, archived>>
    <3>1. UNCHANGED Overview
      BY <2>2 DEF Overview
    <3>2. shown' = Overview' \/ UNCHANGED shown
      BY <1>2 DEF EmitArchive
    <3>3. QED BY <1>2, <2>1, <3>1, <3>2 DEF InUpload
  <2>3. CASE ~UNCHANGED <<uploads, archived>>
    <3>1. shown' = Overview'
      BY <1>2, <2>3 DEF EmitArchive, Stat, Load, ArchiveScan, SaveArchiveState, QueueScans,
                        LoadFails, vars, file, archive
    <3>2. QED BY <3>1
  <2>4. QED BY <2>2, <2>3
<1>3. CASE EmitRecovered /\ UNCHANGED tried
  <2>1. /\ UNCHANGED <<phase, due, cancelled, uploads, archived>>
        /\ step # "off" /\ step' # "off"
    BY <1>3 DEF EmitRecovered, EndCycle, Goto, vars, archive
  <2>2. UNCHANGED Overview
    BY <2>1 DEF Overview
  <2>3. shown' = Overview' \/ UNCHANGED shown
    BY <1>3 DEF EmitRecovered
  <2>4. QED BY <1>3, <2>1, <2>2, <2>3 DEF InUpload
<1>4. CASE TokenReplaced /\ UNCHANGED tried
  <2>1. CASE UNCHANGED uploads
    BY <1>4, <2>1 DEF TokenReplaced, ReplaceToken, ResetFailedAuthorization, Overview,
                      InUpload, call, archive, watcher
  <2>2. QED BY <1>4, <2>1 DEF TokenReplaced
<1>5. CASE Silently /\ UNCHANGED tried
  <2>1. UNCHANGED <<Overview, shown>>
    <3>1. CASE Elapse
      BY <1>5, <1>a, <3>1, TickShowsNothing DEF Silently, Elapse, Overview, archive
    <3>2. CASE ~Elapse
      BY <1>5, <3>2 DEF Silently, Decide, NextCycle, Stop, Cancel, Outside, Server,
         ServerAccepts, ServerRejects, ServerGarbles, Reply, LateRequest, Rewrite, Overview,
         archive, vars, file
    <3>3. QED BY <3>1, <3>2
  <2>2. CASE InUpload
    BY <2>1, <2>2 DEF InUpload
  <2>3. CASE ~InUpload
    <3>1. /\ UNCHANGED <<phase, due>>
          /\ cancelled => cancelled'
          /\ step # "off" => step' # "off"
      BY <1>5, <2>3 DEF Silently, Decide, NextCycle, Goto, Stop, Cancel, Elapse, Tick,
         Outside, Server, ServerAccepts, ServerRejects, ServerGarbles, Reply, LateRequest,
         Rewrite, InUpload, vars, call, watcher
    <3>2. QED BY <1>5, <2>1, <2>3, <3>1 DEF InUpload
  <2>4. QED BY <2>2, <2>3
<1>6. CASE EmitUploads
  <2>1. CASE ProcessUploads
    BY <1>6, <2>1, UploadsStale
  <2>2. CASE NextDueAtFails
    <3>1. step' = "ended" /\ faults' # faults
      BY <2>2, BoundsAssumption, <1>a DEF NextDueAtFails, LoadFails, Fault, Goto, TypeOK
    <3>2. QED BY <1>6, <3>1 DEF EmitUploads, UploadsFailed
  <2>3. QED BY <1>6, <2>1, <2>2 DEF EmitUploads
<1>7. CASE UNCHANGED activityVars
  BY <1>7 DEF activityVars, allVars, vars, archive, watcher, Overview, InUpload
<1>8. QED BY <1>1, <1>2, <1>3, <1>4, <1>5, <1>6, <1>7 DEF ActivityNext

LEMMA ActivityStep == ActivityInv /\ [ActivityNext]_activityVars => ActivityInv'
BY WatchStep, ActivityIsWatching, TriedStep, StaleStep DEF ActivityInv

-----------------------------------------------------------------------------
(* The theorems                                                            *)

\* The invariant of what is shown holds in every behaviour.
THEOREM ActivityInvariance == ActivitySpec => []ActivityInv
BY ActivityBegin, ActivityStep, PTL DEF ActivitySpec

\* While a scan is uploaded, between cycles and after a stop the window shows what
\* the archive and the queue hold.
THEOREM ShowsTheFiles == ActivitySpec => []ShownIsCurrent
<1>1. ActivityInv => ShownIsCurrent
  BY DEF ActivityInv, WatchInv, UploadsInCycle, StaleOnly, ShownIsCurrent, InUpload
<1>2. QED BY <1>1, ActivityInvariance, PTL

\* The application that reads the files never changes what the watcher does.
THEOREM ActivityWatches == ActivitySpec => WatchSpec
<1>1. ActivityInit => WatchInit
  BY DEF ActivityInit
<1>2. QED BY <1>1, ActivityIsWatching, PTL DEF ActivitySpec, WatchSpec

=============================================================================
