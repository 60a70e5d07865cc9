-------------------------- MODULE ScanUpload_proofs --------------------------
(***************************************************************************)
(* Proofs about ScanUpload for every set of scans, every set of status     *)
(* codes, every back-off and any number of faults.                         *)
(***************************************************************************)
EXTENDS ScanUpload, NumberInduction

-----------------------------------------------------------------------------
(* Typing                                                                  *)

\* The back-off never exceeds its maximum, whatever the number of attempts.
LEMMA BackoffBounded ==
    ASSUME NEW attempts PROVE Backoff(attempts) \in 0..MaxBackoff
BY BackoffAssumption DEF Backoff

\* The values that fields of a record take.
LEMMA FieldTyping ==
    /\ Unset \in Waits /\ 0 \in Waits /\ 0..MaxBackoff \subseteq Waits
    /\ \A w \in Waits : (IF w > 0 THEN w - 1 ELSE w) \in Waits
    /\ 0 \in Counts
    /\ \A n \in Counts : (IF n < AttemptCap THEN n + 1 ELSE n) \in Counts
    /\ {0, 200, 201} \subseteq HTTP /\ Codes \subseteq HTTP
<1>1. MaxBackoff \in Nat /\ AttemptCap \in Nat
  BY BackoffAssumption, BoundsAssumption
<1>2. Unset \in Waits /\ 0 \in Waits /\ 0..MaxBackoff \subseteq Waits
  BY <1>1 DEF Waits, Unset
<1>3. \A w \in Waits : (IF w > 0 THEN w - 1 ELSE w) \in Waits
  BY <1>1 DEF Waits, Unset
<1>4. 0 \in Counts
  BY <1>1 DEF Counts
<1>5. \A n \in Counts : (IF n < AttemptCap THEN n + 1 ELSE n) \in Counts
  BY <1>1 DEF Counts
<1>6. {0, 200, 201} \subseteq HTTP /\ Codes \subseteq HTTP
  BY DEF HTTP
<1>7. QED BY <1>2, <1>3, <1>4, <1>5, <1>6

\* Every record ProcessDue, Queue and ResetFailedAuthorization write is one.
LEMMA RecordTyping ==
    ASSUME NEW r \in Record
    PROVE  /\ Absent \in Record /\ NewRecord(r) \in Record
           /\ Requeued(r) \in Record /\ Interrupted(r) \in Record
           /\ Attempt(r) \in Record
<1> USE FieldTyping DEF Record, Statuses
<1>1. Absent \in Record BY DEF Absent
<1>2. NewRecord(r) \in Record BY <1>1 DEF NewRecord
<1>3. Requeued(r) \in Record BY DEF Requeued
<1>4. Interrupted(r) \in Record BY DEF Interrupted
<1>5. Attempt(r) \in Record
  <2>1. (IF r.attempts < AttemptCap THEN r.attempts + 1 ELSE r.attempts) \in Counts
    OBVIOUS
  <2>2. ASSUME NEW n \in Counts
        PROVE  [r EXCEPT !.status = "uploading", !.wait = Unset, !.http = 0, !.attempts = n]
                    \in Record
    OBVIOUS
  <2>3. QED BY <2>1, <2>2, ZenonT(30) DEF Attempt
<1>6. QED BY <1>1, <1>2, <1>3, <1>4, <1>5

\* What the outcome of an attempt makes of its record is a record.
LEMMA FinishedTyping ==
    ASSUME NEW r \in Record, outcome \in Outcomes
    PROVE  Finished(r) \in Record
<1>1. Backoff(r.attempts) \in Waits BY BackoffBounded, FieldTyping
<1>2. outcome.http \in HTTP /\ outcome.retryable \in BOOLEAN
  BY DEF Outcomes
<1>3. (IF outcome.retryable THEN Backoff(r.attempts) ELSE Unset) \in Waits
  BY <1>1, FieldTyping
<1>4. (IF outcome.ok THEN "uploaded" ELSE "failed") \in Statuses
  BY DEF Statuses
<1>5. QED BY <1>2, <1>3, <1>4 DEF Record, Finished

\* An empty state is a state.
LEMMA NothingTyping == Nothing \in [Checksums -> Record]
BY FieldTyping DEF Nothing, Absent, Record, Statuses

\* Time that passes keeps the records typed.
LEMMA SoonerTyping ==
    ASSUME NEW u \in [Checksums -> Record]
    PROVE  Sooner(u) \in [Checksums -> Record]
BY FieldTyping DEF Sooner, Record

\* Records that an interrupted attempt left behind are recovered as records.
LEMMA RecoveredTyping ==
    ASSUME NEW u \in [Checksums -> Record]
    PROVE  Recovered(u) \in [Checksums -> Record]
BY RecordTyping DEF Recovered, With

\* No request and no outcome are among them.
LEMMA EmptyTyping == NoRequest \in Replies /\ NoOutcome \in Outcomes
BY FieldTyping DEF NoRequest, NoOutcome, Replies, Outcomes, Kinds

\* A state in which some records are those of another state.
LEMMA WithTyping ==
    ASSUME NEW u \in [Checksums -> Record], NEW S, NEW v \in [Checksums -> Record]
    PROVE  [c \in Checksums |-> IF c \in S THEN v[c] ELSE u[c]] \in [Checksums -> Record]
OBVIOUS

\* Leaving ProcessDue, by whatever way, leaves its variables typed.
LEMMA ReturnTyping ==
    ASSUME Return
    PROVE  /\ loaded' \in [Checksums -> Record]
           /\ phase' \in Phases /\ due' \subseteq Checksums
           /\ active' = 0 /\ ~InUpload'
           /\ reply' \in Replies /\ outcome' \in Outcomes
BY NothingTyping, EmptyTyping DEF Return, Phases, InUpload

\* The number of faults stays within its bound.
LEMMA FaultTyping ==
    ASSUME faults \in 0..MaxFaults, NEW kind, Fault(kind)
    PROVE  faults' \in 0..MaxFaults
BY BoundsAssumption DEF Fault

\* The outcome of an attempt, whichever answer came.
LEMMA AnswerTyping ==
    ASSUME TypeOK, NEW ok \in BOOLEAN, NEW http \in HTTP, NEW retryable \in BOOLEAN,
           InUpload, Answer(ok, http, retryable), late' \subseteq Checksums
    PROVE  TypeOK'
<1>1. outcome' \in Outcomes BY DEF Answer, Outcomes
<1>2. phase' \in Phases BY DEF Answer, Phases
<1>3. reply' \in Replies BY EmptyTyping DEF Answer
<1>4. QED BY <1>1, <1>2, <1>3 DEF Answer, TypeOK, file, InUpload

\* The answer of the server, whichever it is.
LEMMA ReplyTyping ==
    ASSUME TypeOK, NEW code \in HTTP, NEW kind \in Kinds,
           NEW checksum \in Checksums \cup {0},
           Reply(code, kind, checksum), accepted' \subseteq Checksums
    PROVE  TypeOK'
<1>1. reply' \in Replies BY DEF Reply, Replies
<1>2. phase' \in Phases BY DEF Reply, Phases
<1>3. QED BY <1>1, <1>2 DEF Reply, TypeOK, file, InUpload

LEMMA TypeInit == Init => TypeOK
<1> SUFFICES ASSUME Init PROVE TypeOK
  OBVIOUS
<1>1. uploads \in [Checksums -> Record] /\ loaded \in [Checksums -> Record]
  BY NothingTyping DEF Init
<1>2. phase \in Phases /\ due \subseteq Checksums
  BY DEF Init, Phases
<1>3. active \in IF InUpload THEN due ELSE {0}
  BY DEF Init, InUpload
<1>4. reply \in Replies /\ outcome \in Outcomes
  BY EmptyTyping DEF Init
<1>5. cancelled \in BOOLEAN /\ late \subseteq Checksums /\ accepted \subseteq Checksums
  BY DEF Init
<1>6. faults \in 0..MaxFaults
  BY BoundsAssumption DEF Init
<1>7. QED BY <1>1, <1>2, <1>3, <1>4, <1>5, <1>6 DEF TypeOK

LEMMA TypeStep == TypeOK /\ [Next]_vars => TypeOK'
<1> SUFFICES ASSUME TypeOK, [Next]_vars PROVE TypeOK'
  OBVIOUS
<1>a. /\ uploads \in [Checksums -> Record] /\ loaded \in [Checksums -> Record]
      /\ active \in Checksums \cup {0} /\ reply \in Replies
      /\ phase \in Phases /\ active \in (IF InUpload THEN due ELSE {0})
      /\ outcome \in Outcomes /\ faults \in 0..MaxFaults
      /\ due \subseteq Checksums /\ late \subseteq Checksums
      /\ accepted \subseteq Checksums
  BY DEF TypeOK
<1>1. CASE Tick
  <2>1. Sooner(uploads) \in [Checksums -> Record] BY <1>a, SoonerTyping
  <2>2. Sooner(loaded) \in [Checksums -> Record] BY <1>a, SoonerTyping
  <2>3. QED BY <1>1, <2>1, <2>2 DEF Tick, TypeOK, InUpload, call, env
<1>2. CASE \E S \in SUBSET Checksums : Queue(S)
  <2> SUFFICES ASSUME NEW S \in SUBSET Checksums, Queue(S) PROVE TypeOK'
    BY <1>2
  <2>1. With(uploads, Fresh(uploads, S), NewRecord) \in [Checksums -> Record]
    BY <1>a, RecordTyping DEF With
  <2>2. QED
    BY <2>1, FaultTyping DEF Queue, Persist, TypeOK, InUpload, call, env
<1>3. CASE ResetFailedAuthorization
  <2>1. With(uploads, Refused(uploads), Requeued) \in [Checksums -> Record]
    BY <1>a, RecordTyping DEF With
  <2>2. QED
    BY <1>3, <2>1, FaultTyping
       DEF ResetFailedAuthorization, Persist, WriteFails, TypeOK, InUpload, call, env
<1>4. CASE ProcessDue
  <2>1. Recovered(uploads) \in [Checksums -> Record]
    BY <1>a, RecoveredTyping
  <2>2. DueChecksums(Recovered(uploads)) \subseteq Checksums
    BY DEF DueChecksums, Having
  <2>3. "loop" \in Phases
    BY DEF Phases
  <2>4. QED
    BY <1>4, <2>1, <2>2, <2>3, FaultTyping
       DEF ProcessDue, Persist, WriteFails, LoadFails, TypeOK, InUpload, call, env
<1>5. CASE EndProcessDue
  BY <1>5, ReturnTyping DEF EndProcessDue, TypeOK, env
<1>6. CASE Cancel
  BY <1>6, FaultTyping DEF Cancel, TypeOK, InUpload, file, env
<1>14. CASE Renew
  BY <1>14 DEF Renew, TypeOK, InUpload, file, env
<1>7. CASE \E c \in Checksums : BeginUpload(c)
  <2> SUFFICES ASSUME NEW c \in Checksums, BeginUpload(c) PROVE TypeOK'
    BY <1>7
  <2>1. With(loaded, {c}, Attempt) \in [Checksums -> Record]
    BY <1>a, RecordTyping DEF With
  <2>2. "opening" \in Phases
    BY DEF Phases
  <2>3. CASE phase' = "opening" /\ Persist(With(loaded, {c}, Attempt))
    BY <2>1, <2>2, <2>3 DEF BeginUpload, Persist, Return, TypeOK, InUpload, env
  <2>4. CASE WriteFails /\ Return
    BY <2>4, ReturnTyping, FaultTyping DEF BeginUpload, WriteFails, TypeOK, env
  <2>5. QED BY <2>3, <2>4 DEF BeginUpload
<1>8. CASE \E c \in Checksums : LateRequest(c)
  BY <1>8 DEF LateRequest, TypeOK, InUpload, file, call
<1>9. CASE Uploading
  <2>1. CASE OpenArchiveFails
    BY <1>a, <2>1, AnswerTyping, FieldTyping DEF OpenArchiveFails, InUpload
  <2>2. CASE SendRequest
    BY <2>2 DEF SendRequest, TypeOK, file, env, Phases, InUpload
  <2>3. CASE TransportFails
    <3>1. CASE phase = "sending" /\ late' = late \cup {active}
      BY <1>a, <2>3, <3>1, AnswerTyping, FieldTyping DEF TransportFails, InUpload
    <3>2. CASE UNCHANGED late
      BY <1>a, <2>3, <3>2, AnswerTyping, FieldTyping DEF TransportFails, InUpload
    <3>3. QED BY <2>3, <3>1, <3>2 DEF TransportFails
  <2>4. CASE BodyUnreadable
    <3>1. reply.code \in HTTP BY <1>a DEF Replies
    <3>2. QED BY <1>a, <2>4, <3>1, AnswerTyping DEF BodyUnreadable, InUpload
  <2>5. CASE ReceiveReply
    <3>1. reply.code \in HTTP BY <1>a DEF Replies
    <3>2. (reply.kind = "result" /\ reply.checksum = active) \in BOOLEAN
      OBVIOUS
    <3>3. (reply.kind # "oversize" /\ IsRetryableStatus(reply.code)) \in BOOLEAN
      BY DEF IsRetryableStatus
    <3>4. InUpload /\ late' \subseteq Checksums
      BY <1>a, <2>5 DEF ReceiveReply, InUpload
    <3>5. CASE reply.code \in {200, 201}
      <4>1. Answer(reply.kind = "result" /\ reply.checksum = active, reply.code, FALSE)
        BY <2>5, <3>5 DEF ReceiveReply
      <4>2. QED BY <3>1, <3>2, <3>4, <4>1, AnswerTyping
    <3>6. CASE reply.code \notin {200, 201}
      <4>1. Answer(FALSE, reply.code,
                   reply.kind # "oversize" /\ IsRetryableStatus(reply.code))
        BY <2>5, <3>6 DEF ReceiveReply
      <4>2. QED BY <3>1, <3>3, <3>4, <4>1, AnswerTyping
    <3>7. QED BY <3>5, <3>6
  <2>6. CASE FinishUpload
    <3>1. With(loaded, {active}, Finished) \in [Checksums -> Record]
      <4>1. \A c \in Checksums : loaded[c] \in Record /\ Finished(loaded[c]) \in Record
        BY <1>a, FinishedTyping
      <4>2. QED BY <4>1 DEF With
    <3>2. CASE phase' = "loop" /\ Persist(With(loaded, {active}, Finished))
      BY <2>6, <3>1, <3>2, EmptyTyping
         DEF FinishUpload, Persist, Return, TypeOK, env, Phases, InUpload
    <3>3. CASE WriteFails /\ Return
      BY <2>6, <3>3, ReturnTyping, FaultTyping
         DEF FinishUpload, WriteFails, TypeOK, env
    <3>4. QED BY <2>6, <3>2, <3>3 DEF FinishUpload
  <2>7. QED BY <1>9, <2>1, <2>2, <2>3, <2>4, <2>5, <2>6 DEF Uploading
<1>10. CASE Server
  <2>1. CASE ServerAccepts
    BY <1>a, <2>1, ReplyTyping, FieldTyping DEF ServerAccepts, Kinds, InUpload, Reply
  <2>2. CASE ServerRejects
    BY <1>a, <2>2, ReplyTyping, FieldTyping DEF ServerRejects, Kinds, InUpload, Reply
  <2>3. CASE ServerGarbles
    BY <1>a, <2>3, ReplyTyping, FieldTyping DEF ServerGarbles, Kinds, InUpload, Reply
  <2>4. QED BY <1>10, <2>1, <2>2, <2>3 DEF Server
<1>11. CASE Crash
  BY <1>a, <1>11, ReturnTyping, FaultTyping DEF Crash, TypeOK, InUpload
<1>12. CASE UNCHANGED vars
  BY <1>12 DEF vars, TypeOK, InUpload
<1>13. QED
  BY <1>1, <1>2, <1>3, <1>4, <1>5, <1>6, <1>7, <1>8, <1>9, <1>10, <1>11,
     <1>12, <1>14 DEF Next

\* Every variable keeps its type in every behaviour.
THEOREM TypeCorrect == Spec => []TypeOK
BY TypeInit, TypeStep, PTL DEF Spec

-----------------------------------------------------------------------------
(* The inductive invariant                                                 *)

\* The fields the invariant speaks of, after each rewriting of a record.
LEMMA Rewritten ==
    ASSUME NEW r \in Record
    PROVE  /\ NewRecord(r).status = "pending" /\ NewRecord(r).wait = Unset
           /\ Requeued(r).status = "pending" /\ Requeued(r).wait = Unset
           /\ Attempt(r).status = "uploading" /\ Attempt(r).wait = Unset
           /\ Interrupted(r).status = "failed" /\ Interrupted(r).retryable
           /\ Interrupted(r).wait = 0
BY DEF Record, NewRecord, Requeued, Attempt, Interrupted, Absent

\* What an attempt leaves in its record: retryable exactly when a time is set.
LEMMA FinishedFields ==
    ASSUME NEW r \in Record, outcome \in Outcomes
    PROVE  /\ Finished(r).status = (IF outcome.ok THEN "uploaded" ELSE "failed")
           /\ Finished(r).retryable = outcome.retryable
           /\ Finished(r).wait # Unset <=> outcome.retryable
<1>1. Backoff(r.attempts) # Unset BY BackoffBounded, BackoffAssumption DEF Unset
<1>2. QED BY <1>1 DEF Record, Finished, Outcomes

\* The clock moves waits, nothing else, and never unsets or sets one.
LEMMA SoonerFields ==
    ASSUME NEW u \in [Checksums -> Record], NEW c \in Checksums
    PROVE  /\ Sooner(u)[c].status = u[c].status
           /\ Sooner(u)[c].retryable = u[c].retryable
           /\ Sooner(u)[c].wait # Unset <=> u[c].wait # Unset
<1>1. u[c] \in Record OBVIOUS
<1>2. u[c].wait \in Waits BY <1>1 DEF Record
<1>3. (IF u[c].wait > 0 THEN u[c].wait - 1 ELSE u[c].wait) # Unset
          <=> u[c].wait # Unset
  BY <1>2, BackoffAssumption DEF Waits, Unset
<1>4. Sooner(u)[c] = [u[c] EXCEPT !.wait = IF u[c].wait > 0 THEN u[c].wait - 1
                                                            ELSE u[c].wait]
  BY DEF Sooner
<1>5. QED BY <1>1, <1>3, <1>4 DEF Record

LEMMA InvInit == Init => IInv
<1> SUFFICES ASSUME Init PROVE IInv
  OBVIOUS
<1>1. TypeOK BY TypeInit
<1>2. \A c \in Checksums : /\ uploads[c].status = "absent" /\ uploads[c].wait = Unset
                           /\ ~Retrying(uploads[c])
  BY DEF Init, Nothing, Absent, Retrying
<1>3. UploadedIsAccepted /\ RetryIsScheduled
  BY <1>2 DEF UploadedIsAccepted, RetryIsScheduled
<1>4. OneAttemptOnDisk /\ MemoryMatchesDisk
  BY <1>2 DEF Init, OneAttemptOnDisk, MemoryMatchesDisk, InUpload, Having
<1>5. HonestOutcome /\ DueIsOpen
  BY DEF Init, HonestOutcome, DueIsOpen, NoRequest, NoOutcome
<1>6. QED BY <1>1, <1>3, <1>4, <1>5 DEF IInv

\* Steps that leave the file, its copy and the list of due scans alone.
LEMMA FileUntouched ==
    ASSUME IInv, TypeOK', UNCHANGED <<file, due, active>>,
           accepted \subseteq accepted', InUpload, InUpload', HonestOutcome'
    PROVE  IInv'
<1> USE DEF IInv, file
<1>1. UploadedIsAccepted' /\ RetryIsScheduled'
  BY DEF UploadedIsAccepted, RetryIsScheduled, Retrying
<1>2. OneAttemptOnDisk' /\ MemoryMatchesDisk'
  BY DEF OneAttemptOnDisk, MemoryMatchesDisk, InUpload, Having
<1>3. DueIsOpen'
  BY DEF DueIsOpen, Retrying
<1>4. QED BY <1>1, <1>2, <1>3

\* Leaving ProcessDue with the file as it was.
LEMMA ReturnUnsaved ==
    ASSUME IInv, TypeOK', Return, UNCHANGED <<uploads, accepted>>
    PROVE  IInv'
<1> USE DEF IInv
<1>1. UploadedIsAccepted' /\ RetryIsScheduled'
  BY DEF UploadedIsAccepted, RetryIsScheduled, Retrying
<1>2. OneAttemptOnDisk' /\ MemoryMatchesDisk'
  BY DEF OneAttemptOnDisk, MemoryMatchesDisk, InUpload, Having, Return
<1>3. HonestOutcome' /\ DueIsOpen'
  BY DEF HonestOutcome, DueIsOpen, Return, NoRequest, NoOutcome
<1>4. QED BY <1>1, <1>2, <1>3

\* A change of some records to pending or a scheduled retry, outside ProcessDue.
LEMMA IdleRewrite ==
    ASSUME IInv, TypeOK', phase = "idle", UNCHANGED <<loaded, call, env>>,
           NEW S,
           \A c \in Checksums \ S : uploads'[c] = uploads[c],
           \A c \in Checksums \cap S :
                uploads'[c].status = "pending" /\ uploads'[c].wait = Unset
    PROVE  IInv'
<1> USE DEF IInv, call, env
<1>1. UploadedIsAccepted' /\ RetryIsScheduled'
  BY DEF UploadedIsAccepted, RetryIsScheduled, Retrying
<1>2. OneAttemptOnDisk' /\ MemoryMatchesDisk'
  BY DEF OneAttemptOnDisk, MemoryMatchesDisk, InUpload, Having
<1>3. HonestOutcome' /\ DueIsOpen'
  BY DEF HonestOutcome, DueIsOpen, TypeOK, InUpload, Retrying
<1>4. QED BY <1>1, <1>2, <1>3

\* Steps of the server and of time, while ProcessDue does not run.
LEMMA IdleStutter ==
    ASSUME IInv, TypeOK', phase = "idle", UNCHANGED <<uploads, loaded, call, env>>
    PROVE  IInv'
<1>1. /\ \A c \in Checksums \ {} : uploads'[c] = uploads[c]
      /\ \A c \in Checksums \cap {} :
            uploads'[c].status = "pending" /\ uploads'[c].wait = Unset
  OBVIOUS
<1>2. QED BY <1>1, IdleRewrite

LEMMA InvStep == IInv /\ [Next]_vars => IInv'
<1> SUFFICES ASSUME IInv, [Next]_vars PROVE IInv'
  OBVIOUS
<1>t. TypeOK'
  BY TypeStep DEF IInv
<1>a. /\ TypeOK /\ uploads \in [Checksums -> Record]
      /\ loaded \in [Checksums -> Record] /\ outcome \in Outcomes
      /\ \A c \in Checksums : uploads[c] \in Record /\ loaded[c] \in Record
  BY DEF IInv, TypeOK
<1>1. CASE Tick
  <2>1. \A c \in Checksums :
          /\ uploads'[c].status = uploads[c].status
          /\ uploads'[c].retryable = uploads[c].retryable
          /\ uploads'[c].wait # Unset <=> uploads[c].wait # Unset
          /\ loaded'[c].status = loaded[c].status
          /\ loaded'[c].retryable = loaded[c].retryable
    BY <1>1, <1>a, SoonerFields DEF Tick
  <2>2. UploadedIsAccepted' /\ RetryIsScheduled' /\ OneAttemptOnDisk'
    BY <1>1, <2>1 DEF Tick, call, env, IInv, UploadedIsAccepted, RetryIsScheduled,
                      OneAttemptOnDisk, InUpload, Having, Retrying
  <2>3. MemoryMatchesDisk' /\ HonestOutcome'
    BY <1>1 DEF Tick, call, env, IInv, MemoryMatchesDisk, HonestOutcome
  <2>4. due \subseteq Checksums
    BY <1>a DEF TypeOK
  <2>5. DueIsOpen'
    BY <1>1, <2>1, <2>4 DEF Tick, call, IInv, DueIsOpen, Retrying
  <2>6. QED BY <1>t, <2>2, <2>3, <2>5 DEF IInv
<1>2. CASE \E S \in SUBSET Checksums : Queue(S)
  <2> SUFFICES ASSUME NEW S \in SUBSET Checksums, Queue(S) PROVE IInv'
    BY <1>2
  <2>1. CASE Persist(With(uploads, Fresh(uploads, S), NewRecord))
    <3>1. /\ \A c \in Checksums \ Fresh(uploads, S) : uploads'[c] = uploads[c]
          /\ \A c \in Checksums \cap Fresh(uploads, S) :
                uploads'[c].status = "pending" /\ uploads'[c].wait = Unset
      BY <1>a, <2>1, Rewritten DEF Persist, With
    <3>2. QED BY <1>t, <3>1, IdleRewrite DEF Queue
  <2>2. CASE UNCHANGED uploads
    BY <1>t, <2>2, IdleStutter DEF Queue
  <2>3. QED BY <2>1, <2>2 DEF Queue
<1>3. CASE ResetFailedAuthorization
  <2>1. CASE Persist(With(uploads, Refused(uploads), Requeued))
    <3>1. /\ \A c \in Checksums \ Refused(uploads) : uploads'[c] = uploads[c]
          /\ \A c \in Checksums \cap Refused(uploads) :
                uploads'[c].status = "pending" /\ uploads'[c].wait = Unset
      BY <1>a, <2>1, Rewritten DEF Persist, With
    <3>2. QED BY <1>t, <1>3, <3>1, IdleRewrite DEF ResetFailedAuthorization
  <2>2. CASE UNCHANGED uploads
    BY <1>t, <1>3, <2>2, IdleStutter DEF ResetFailedAuthorization
  <2>3. QED BY <1>3, <2>1, <2>2 DEF ResetFailedAuthorization, WriteFails
<1>4. CASE ProcessDue
  <2>1. CASE phase' = "loop"
    <3>1. /\ uploads' = Recovered(uploads) /\ loaded' = uploads'
          /\ due' = DueChecksums(uploads') /\ phase = "idle"
          /\ UNCHANGED <<active, reply, outcome, accepted>>
      BY <1>4, <2>1 DEF ProcessDue, Persist, call, env
    <3>2. \A c \in Checksums :
            /\ uploads[c].status # "uploading" => uploads'[c] = uploads[c]
            /\ uploads[c].status = "uploading" =>
                    Retrying(uploads'[c]) /\ uploads'[c].wait # Unset
      BY <1>a, <3>1, Rewritten DEF Recovered, With, Having, Retrying, Unset
    <3>3. \A c \in Checksums : uploads'[c].status # "uploading"
      BY <3>2 DEF Retrying
    <3>4. UploadedIsAccepted' /\ RetryIsScheduled'
      BY <3>1, <3>2 DEF IInv, UploadedIsAccepted, RetryIsScheduled, Retrying
    <3>5. OneAttemptOnDisk' /\ MemoryMatchesDisk'
      BY <2>1, <3>1, <3>3 DEF OneAttemptOnDisk, MemoryMatchesDisk, InUpload, Having
    <3>6. HonestOutcome'
      BY <2>1, <3>1 DEF IInv, HonestOutcome
    <3>7. DueIsOpen'
      BY <3>1 DEF DueIsOpen, DueChecksums, Having, Retrying
    <3>8. QED BY <1>t, <3>4, <3>5, <3>6, <3>7 DEF IInv
  <2>2. CASE phase' # "loop"
    <3>1. phase = "idle" /\ UNCHANGED <<uploads, loaded, call, env>>
      BY <1>4, <2>2 DEF ProcessDue, WriteFails, LoadFails
    <3>2. QED BY <1>t, <3>1, IdleStutter
  <2>3. QED BY <2>1, <2>2
<1>5. CASE EndProcessDue
  BY <1>t, <1>5, ReturnUnsaved DEF EndProcessDue, env
<1>6. CASE Cancel \/ Renew
  <2>1. UNCHANGED <<uploads, loaded, phase, due, active, reply, outcome, accepted>>
    BY <1>6 DEF Cancel, Renew, file, env
  <2>2. UploadedIsAccepted' /\ RetryIsScheduled' /\ HonestOutcome' /\ DueIsOpen'
    BY <2>1 DEF IInv, UploadedIsAccepted, RetryIsScheduled, HonestOutcome,
                DueIsOpen, Retrying
  <2>3. OneAttemptOnDisk' /\ MemoryMatchesDisk'
    BY <2>1 DEF IInv, OneAttemptOnDisk, MemoryMatchesDisk, InUpload, Having
  <2>4. QED BY <1>t, <2>2, <2>3 DEF IInv
<1>7. CASE \E c \in Checksums : BeginUpload(c)
  <2> SUFFICES ASSUME NEW c \in Checksums, BeginUpload(c) PROVE IInv'
    BY <1>7
  <2>1. CASE WriteFails /\ Return
    BY <1>t, <2>1, ReturnUnsaved DEF BeginUpload, WriteFails, env
  <2>2. CASE ~(WriteFails /\ Return)
    <3>1. /\ uploads' = With(loaded, {c}, Attempt) /\ loaded' = uploads'
          /\ phase = "loop" /\ phase' = "opening" /\ active' = c /\ c \in due
          /\ loaded = uploads /\ active = 0
          /\ UNCHANGED <<due, reply, outcome, accepted>>
      BY <1>a, <2>2 DEF BeginUpload, Persist, env, IInv, MemoryMatchesDisk, TypeOK,
                        InUpload
    <3>2. /\ uploads'[c].status = "uploading" /\ uploads'[c].wait = Unset
          /\ \A d \in Checksums \ {c} : uploads'[d] = uploads[d]
      BY <1>a, <3>1, Rewritten DEF With
    <3>3. \A d \in Checksums : uploads[d].status # "uploading"
      BY <3>1 DEF IInv, OneAttemptOnDisk, Having
    <3>4. UploadedIsAccepted' /\ RetryIsScheduled'
      BY <3>1, <3>2 DEF IInv, UploadedIsAccepted, RetryIsScheduled, Retrying
    <3>5. Having(uploads', "uploading") = {c}
      BY <3>2, <3>3 DEF Having
    <3>6. OneAttemptOnDisk' /\ MemoryMatchesDisk'
      BY <3>1, <3>5 DEF OneAttemptOnDisk, MemoryMatchesDisk, Having
    <3>8. HonestOutcome'
      BY <3>1 DEF IInv, HonestOutcome
    <3>9. due \subseteq Checksums /\ 0 \notin due
      BY <1>a, ChecksumsAssumption DEF TypeOK
    <3>10. \A d \in due \ {c} : d \in Checksums \ {c} /\ uploads'[d] = loaded[d]
      BY <3>1, <3>2, <3>9
    <3>11. DueIsOpen'
      <4>1. DueIsOpen
        BY DEF IInv
      <4>2. \A d \in due \ {c} : d \in due \ {active} /\ loaded'[d] = loaded[d]
        BY <3>1, <3>9, <3>10
      <4>3. QED BY <3>1, <4>1, <4>2 DEF DueIsOpen
    <3>12. QED BY <1>t, <3>4, <3>6, <3>8, <3>11 DEF IInv
  <2>3. QED BY <2>1, <2>2
<1>8. CASE \E c \in Checksums : LateRequest(c)
  <2>1. /\ UNCHANGED <<uploads, loaded, phase, due, active, reply, outcome>>
        /\ accepted \subseteq accepted'
    BY <1>8 DEF LateRequest, file, call
  <2>2. UploadedIsAccepted' /\ RetryIsScheduled' /\ HonestOutcome' /\ DueIsOpen'
    BY <2>1 DEF IInv, UploadedIsAccepted, RetryIsScheduled, HonestOutcome,
                DueIsOpen, Retrying
  <2>3. OneAttemptOnDisk' /\ MemoryMatchesDisk'
    BY <2>1 DEF IInv, OneAttemptOnDisk, MemoryMatchesDisk, InUpload, Having
  <2>4. QED BY <1>t, <2>2, <2>3 DEF IInv
<1>9. CASE Uploading
  <2>1. CASE OpenArchiveFails
    <3>1. HonestOutcome'
      BY <2>1 DEF OpenArchiveFails, Answer, HonestOutcome, NoRequest
    <3>2. QED
      BY <1>t, <2>1, <3>1, FileUntouched DEF OpenArchiveFails, Answer, InUpload
  <2>2. CASE SendRequest
    <3>1. HonestOutcome'
      BY <2>2 DEF SendRequest, IInv, HonestOutcome, env
    <3>2. QED
      BY <1>t, <2>2, <3>1, FileUntouched DEF SendRequest, InUpload, env
  <2>3. CASE TransportFails
    <3>1. HonestOutcome'
      BY <2>3 DEF TransportFails, Answer, HonestOutcome, NoRequest
    <3>2. QED
      BY <1>t, <2>3, <3>1, FileUntouched DEF TransportFails, Answer, InUpload
  <2>4. CASE BodyUnreadable
    <3>1. HonestOutcome'
      BY <2>4 DEF BodyUnreadable, Answer, HonestOutcome, NoRequest
    <3>2. QED
      BY <1>t, <2>4, <3>1, FileUntouched DEF BodyUnreadable, Answer, InUpload
  <2>5. CASE ReceiveReply
    <3>1. HonestOutcome'
      <4>1. reply' = NoRequest /\ phase' = "answered" /\ UNCHANGED <<active, accepted>>
        BY <2>5 DEF ReceiveReply, Answer
      <4>2. outcome'.ok => /\ reply.kind = "result" /\ reply.checksum = active
                           /\ ~outcome'.retryable
        <5>1. CASE reply.code \in {200, 201}
          <6>1. /\ outcome'.ok = (reply.kind = "result" /\ reply.checksum = active)
                /\ outcome'.retryable = FALSE
            BY <2>5, <5>1 DEF ReceiveReply, Answer
          <6>2. QED BY <6>1
        <5>2. CASE reply.code \notin {200, 201}
          <6>1. outcome'.ok = FALSE
            BY <2>5, <5>2 DEF ReceiveReply, Answer
          <6>2. QED BY <6>1
        <5>3. QED BY <5>1, <5>2
      <4>3. QED BY <4>1, <4>2 DEF IInv, HonestOutcome, NoRequest
    <3>2. QED
      BY <1>t, <2>5, <3>1, FileUntouched DEF ReceiveReply, Answer, InUpload
  <2>6. CASE FinishUpload
    <3>1. CASE WriteFails /\ Return
      BY <1>t, <2>6, <3>1, ReturnUnsaved DEF FinishUpload, WriteFails, env
    <3>2. CASE ~(WriteFails /\ Return)
      <4>1. /\ uploads' = With(loaded, {active}, Finished) /\ loaded' = uploads'
            /\ phase = "answered" /\ phase' = "loop" /\ due' = due \ {active}
            /\ active' = 0 /\ outcome' = NoOutcome /\ loaded = uploads
            /\ active \in Checksums
            /\ UNCHANGED <<reply, accepted>>
        BY <1>a, <2>6, <3>2
           DEF FinishUpload, Persist, env, IInv, MemoryMatchesDisk, TypeOK, InUpload
      <4>2. /\ uploads'[active] = Finished(uploads[active])
            /\ \A d \in Checksums \ {active} : uploads'[d] = uploads[d]
        BY <1>a, <4>1 DEF With
      <4>3. Having(uploads, "uploading") = {active}
        BY <4>1 DEF IInv, OneAttemptOnDisk, InUpload
      <4>4. /\ uploads'[active].status = (IF outcome.ok THEN "uploaded" ELSE "failed")
            /\ uploads'[active].retryable = outcome.retryable
            /\ uploads'[active].wait # Unset <=> outcome.retryable
            /\ outcome.ok => active \in accepted /\ ~outcome.retryable
        BY <1>a, <4>1, <4>2, FinishedFields DEF IInv, HonestOutcome
      <4>5. UploadedIsAccepted' /\ RetryIsScheduled'
        BY <4>1, <4>2, <4>4 DEF IInv, UploadedIsAccepted, RetryIsScheduled, Retrying
      <4>6. Having(uploads', "uploading") = {}
        BY <4>2, <4>3, <4>4 DEF Having
      <4>7. OneAttemptOnDisk' /\ MemoryMatchesDisk'
        BY <4>1, <4>6 DEF OneAttemptOnDisk, MemoryMatchesDisk, InUpload, Having
      <4>8. HonestOutcome'
        BY <4>1 DEF IInv, HonestOutcome, NoOutcome
      <4>9. due \subseteq Checksums
        BY <1>a DEF TypeOK
      <4>10. DueIsOpen'
        <5>1. DueIsOpen
          BY DEF IInv
        <5>2. \A d \in due \ {active} : loaded'[d] = loaded[d]
          BY <4>1, <4>2, <4>9
        <5>3. due' \ {active'} \subseteq due \ {active}
          BY <4>1
        <5>4. QED BY <5>1, <5>2, <5>3 DEF DueIsOpen
      <4>11. QED BY <1>t, <4>5, <4>7, <4>8, <4>10 DEF IInv
    <3>3. QED BY <3>1, <3>2
  <2>7. QED BY <1>9, <2>1, <2>2, <2>3, <2>4, <2>5, <2>6 DEF Uploading
<1>10. CASE Server
  <2>1. CASE ServerAccepts
    <3>1. HonestOutcome'
      BY <2>1 DEF ServerAccepts, Reply, IInv, HonestOutcome
    <3>2. QED
      BY <1>t, <2>1, <3>1, FileUntouched DEF ServerAccepts, Reply, InUpload
  <2>2. CASE ServerRejects
    <3>1. HonestOutcome'
      BY <2>2 DEF ServerRejects, Reply, IInv, HonestOutcome
    <3>2. QED
      BY <1>t, <2>2, <3>1, FileUntouched DEF ServerRejects, Reply, InUpload
  <2>3. CASE ServerGarbles
    <3>1. HonestOutcome'
      BY <2>3 DEF ServerGarbles, Reply, IInv, HonestOutcome
    <3>2. QED
      BY <1>t, <2>3, <3>1, FileUntouched DEF ServerGarbles, Reply, InUpload
  <2>4. QED BY <1>10, <2>1, <2>2, <2>3 DEF Server
<1>11. CASE Crash
  BY <1>t, <1>11, ReturnUnsaved DEF Crash
<1>12. CASE UNCHANGED vars
  <2>1. UploadedIsAccepted' /\ RetryIsScheduled' /\ HonestOutcome' /\ DueIsOpen'
    BY <1>12 DEF vars, IInv, UploadedIsAccepted, RetryIsScheduled, HonestOutcome,
                 DueIsOpen, Retrying
  <2>2. OneAttemptOnDisk' /\ MemoryMatchesDisk'
    BY <1>12 DEF vars, IInv, OneAttemptOnDisk, MemoryMatchesDisk, InUpload, Having
  <2>3. QED BY <1>t, <2>1, <2>2 DEF IInv
<1>13. QED
  BY <1>1, <1>2, <1>3, <1>4, <1>5, <1>6, <1>7, <1>8, <1>9, <1>10, <1>11, <1>12
     DEF Next

\* The invariant holds in every behaviour, for every set of scans and codes.
THEOREM Invariant == Spec => []IInv
BY InvInit, InvStep, PTL DEF Spec

\* A scan shown as uploaded is on the server.
THEOREM UploadedOnServer == Spec => []UploadedIsAccepted
<1>1. IInv => UploadedIsAccepted BY DEF IInv
<1>2. QED BY <1>1, Invariant, PTL

\* At most one attempt is on disk, written before its request leaves.
THEOREM SingleAttempt == Spec => []OneAttemptOnDisk
<1>1. IInv => OneAttemptOnDisk BY DEF IInv
<1>2. QED BY <1>1, Invariant, PTL

\* ProcessDue never works on a stale copy of the file.
THEOREM NoLostUpdate == Spec => []MemoryMatchesDisk
<1>1. IInv => MemoryMatchesDisk BY DEF IInv
<1>2. QED BY <1>1, Invariant, PTL

-----------------------------------------------------------------------------
(* How one step may change one record                                      *)

Attempted(r, s) ==
    \/ r.status = "uploading" /\ Retrying(s)
    \/ (r.status = "pending" \/ Retrying(r)) /\ s.status = "uploading"
    \/ Retrying(r) /\ Retrying(s)

Moved(r, s) ==
    \/ r.status = "absent" /\ s.status = "pending"
    \/ r.status = "failed" /\ IsAuthorizationFailure(r) /\ s.status = "pending"
    \/ Attempted(r, s)

\* The upload in progress ends, for better or worse.
Ended(c) ==
    /\ c = active /\ uploads[c].status = "uploading"
    /\ uploads'[c].status = (IF outcome.ok THEN "uploaded" ELSE "failed")
    /\ uploads'[c].retryable = outcome.retryable
    /\ \A d \in Checksums \ {c} : uploads'[d] = uploads[d]
    /\ UNCHANGED <<accepted, late>>

\* The steps of the clock and of ProcessDue before an upload ends.
Quiet == Tick \/ ProcessDue \/ \E d \in Checksums : BeginUpload(d)

LEMMA QuietStep ==
    ASSUME IInv, Quiet, NEW c \in Checksums
    PROVE  uploads'[c] = uploads[c] \/ Attempted(uploads[c], uploads'[c])
<1>a. /\ TypeOK /\ uploads \in [Checksums -> Record]
      /\ loaded \in [Checksums -> Record] /\ outcome \in Outcomes
      /\ uploads[c] \in Record
  BY DEF IInv, TypeOK
<1>1. CASE Tick
  <2>1. CASE Retrying(uploads[c])
    BY <1>1, <1>a, <2>1, SoonerFields DEF Tick, Attempted, Retrying
  <2>2. CASE ~Retrying(uploads[c])
    <3>1. uploads[c].wait = Unset
      BY <2>2 DEF IInv, RetryIsScheduled
    <3>2. uploads'[c] = [uploads[c] EXCEPT !.wait = Unset]
      BY <1>1, <3>1 DEF Tick, Sooner, Unset
    <3>3. QED BY <1>a, <3>1, <3>2 DEF Record
  <2>3. QED BY <2>1, <2>2
<1>2. CASE ProcessDue
  <2>1. CASE Persist(Recovered(uploads))
    BY <1>a, <2>1, Rewritten DEF Persist, Recovered, With, Having, Attempted, Retrying
  <2>2. CASE UNCHANGED uploads
    BY <2>2
  <2>3. QED BY <1>2, <2>1, <2>2 DEF ProcessDue, WriteFails, LoadFails
<1>3. CASE \E d \in Checksums : BeginUpload(d)
  <2> SUFFICES ASSUME NEW d \in Checksums, BeginUpload(d) PROVE
                 uploads'[c] = uploads[c] \/ Attempted(uploads[c], uploads'[c])
    BY <1>3
  <2>1. CASE UNCHANGED uploads
    BY <2>1
  <2>2. CASE Persist(With(loaded, {d}, Attempt))
    <3>1. loaded = uploads /\ d \in due \ {active}
      BY <1>a, ChecksumsAssumption
         DEF BeginUpload, IInv, MemoryMatchesDisk, TypeOK, InUpload
    <3>2. uploads[d].status = "pending" \/ Retrying(uploads[d])
      BY <3>1 DEF IInv, DueIsOpen
    <3>3. QED
      BY <1>a, <2>2, <3>1, <3>2, Rewritten DEF Persist, With, Attempted
  <2>3. QED BY <2>1, <2>2 DEF BeginUpload, WriteFails
<1>4. QED BY <1>1, <1>2, <1>3 DEF Quiet

LEMMA RecordStep ==
    ASSUME IInv, [Next]_vars, NEW c \in Checksums
    PROVE  uploads'[c] = uploads[c] \/ Moved(uploads[c], uploads'[c]) \/ Ended(c)
<1>a. /\ TypeOK /\ uploads \in [Checksums -> Record]
      /\ loaded \in [Checksums -> Record] /\ outcome \in Outcomes
      /\ uploads[c] \in Record
  BY DEF IInv, TypeOK
<1>1. CASE Quiet
  BY <1>1, QuietStep DEF Moved
<1>2. CASE \E S \in SUBSET Checksums : Queue(S)
  BY <1>2, <1>a, Rewritten
     DEF Queue, Persist, With, Fresh, Having, Moved
<1>3. CASE ResetFailedAuthorization
  BY <1>3, <1>a, Rewritten
     DEF ResetFailedAuthorization, Persist, WriteFails, With, Refused, Having, Moved
<1>6. CASE FinishUpload
  <2>1. CASE UNCHANGED uploads
    BY <2>1
  <2>2. CASE Persist(With(loaded, {active}, Finished))
    <3>1. loaded = uploads /\ Having(uploads, "uploading") = {active}
      BY <1>6 DEF FinishUpload, IInv, MemoryMatchesDisk, OneAttemptOnDisk, InUpload
    <3>2. \A d \in Checksums : uploads'[d] = IF d = active THEN Finished(uploads[d])
                                                          ELSE uploads[d]
      BY <2>2, <3>1 DEF Persist, With
    <3>3. UNCHANGED <<accepted, late>>
      BY <1>6 DEF FinishUpload, env
    <3>4. CASE c = active
      BY <1>a, <3>1, <3>2, <3>3, <3>4, FinishedFields DEF Ended, Having
    <3>5. QED BY <3>2, <3>4
  <2>3. QED BY <1>6, <2>1, <2>2 DEF FinishUpload, WriteFails
<1>7. CASE UNCHANGED uploads
  BY <1>7
<1>8. EndProcessDue \/ Cancel \/ Renew \/ (\E d \in Checksums : LateRequest(d)) \/ Server
      \/ Crash \/ (Uploading /\ ~FinishUpload) \/ UNCHANGED vars => UNCHANGED uploads
  BY DEF EndProcessDue, Cancel, Renew, LateRequest, Server, ServerAccepts, ServerRejects,
         ServerGarbles, Reply, Crash, Uploading, OpenArchiveFails, SendRequest,
         TransportFails, BodyUnreadable, ReceiveReply, Answer, file, vars
<1>9. QED
  BY <1>1, <1>2, <1>3, <1>6, <1>7, <1>8 DEF Next, Uploading, Quiet

\* An uploaded record, or one refused for good, is never written again.
THEOREM FinalRecords == Spec => FinalRecordsStay
<1>1. IInv /\ [Next]_vars =>
        [\A c \in Checksums : Final(uploads[c]) => uploads'[c] = uploads[c]]_vars
  <2> SUFFICES ASSUME IInv, [Next]_vars, NEW c \in Checksums, Final(uploads[c])
               PROVE  uploads'[c] = uploads[c]
    OBVIOUS
  <2>1. ~Moved(uploads[c], uploads'[c])
    BY DEF Final, Moved, Attempted, Retrying
  <2>2. uploads[c].status # "uploading"
    BY DEF Final
  <2>3. QED BY <2>1, <2>2, RecordStep DEF Ended
<1>2. QED BY <1>1, Invariant, PTL DEF Spec, FinalRecordsStay

\* Nothing on the wire is unknown to the queue.
LEMMA LateStep == IInv /\ LateIsKnown /\ [Next]_vars => LateIsKnown'
<1> SUFFICES ASSUME IInv, LateIsKnown, [Next]_vars, NEW c \in late'
             PROVE  uploads'[c].status # "absent"
  BY DEF LateIsKnown
<1>1. c \in late \/ (phase = "sending" /\ c = active)
  <2>1. CASE TransportFails
    BY <2>1 DEF TransportFails
  <2>2. CASE Crash
    BY <2>2 DEF Crash
  <2>3. CASE \E d \in Checksums : LateRequest(d)
    BY <2>3 DEF LateRequest
  <2>4. OpenArchiveFails \/ SendRequest \/ BodyUnreadable \/ ReceiveReply
          \/ FinishUpload => UNCHANGED late
    BY DEF OpenArchiveFails, SendRequest, BodyUnreadable, ReceiveReply, FinishUpload, env
  <2>5. Server \/ UNCHANGED vars => UNCHANGED late
    BY DEF Server, ServerAccepts, ServerRejects, ServerGarbles, Reply, vars
  <2>6. Tick \/ (\E S \in SUBSET Checksums : Queue(S)) \/ ResetFailedAuthorization
          \/ ProcessDue \/ EndProcessDue \/ Cancel \/ Renew
          \/ (\E d \in Checksums : BeginUpload(d)) => UNCHANGED late
    BY DEF Tick, Queue, ResetFailedAuthorization, ProcessDue, EndProcessDue, Cancel, Renew,
           BeginUpload, env
  <2>7. QED
    BY <2>1, <2>2, <2>3, <2>4, <2>5, <2>6 DEF Next, Uploading
<1>2. c \in Checksums /\ uploads[c].status # "absent"
  <2>1. CASE c \in late
    BY <2>1 DEF LateIsKnown, IInv, TypeOK
  <2>2. CASE phase = "sending" /\ c = active
    BY <2>2 DEF IInv, OneAttemptOnDisk, InUpload, Having
  <2>3. QED BY <1>1, <2>1, <2>2
<1>3. QED
  BY <1>2, RecordStep DEF Moved, Attempted, Ended, Retrying

-----------------------------------------------------------------------------
(* The queue implements the ledger                                         *)

Standings == [c \in Checksums |-> Entry(uploads[c])]

\* Steps that keep every entry and the server's scans are invisible.
LEMMA Stutter ==
    ASSUME \A c \in Checksums : Entry(uploads'[c]) = Entry(uploads[c]),
           UNCHANGED accepted
    PROVE  UNCHANGED <<Standings, accepted>>
BY DEF Standings

\* Queue enqueues, in one step, the scans it has no record of yet.
LEMMA QueueEnqueues ==
    ASSUME TypeOK, NEW S \in SUBSET Checksums, Queue(S)
    PROVE  Ledger!Enqueue(Fresh(uploads, S)) \/ UNCHANGED <<Standings, accepted>>
<1>1. CASE UNCHANGED uploads
  BY <1>1 DEF Queue, Standings, env
<1>2. CASE Persist(With(uploads, Fresh(uploads, S), NewRecord))
  <2>1. \A c \in Checksums : /\ c \in Fresh(uploads, S) => /\ uploads[c].status = "absent"
                                                         /\ uploads'[c].status = "pending"
                             /\ c \notin Fresh(uploads, S) => uploads'[c] = uploads[c]
    BY <1>2, Rewritten DEF Persist, With, Fresh, Having, TypeOK
  <2>2. QED
    BY <2>1 DEF Ledger!Enqueue, Ledger!Move, Entry, Queue, env, Fresh, Having
<1>3. QED BY <1>1, <1>2 DEF Queue

LEMMA LedgerStep ==
    ASSUME IInv, LateIsKnown, [Next]_vars
    PROVE  [Ledger!LedgerNext]_<<Standings, accepted>>
<1>a. /\ TypeOK /\ uploads \in [Checksums -> Record] /\ outcome \in Outcomes
      /\ \A c \in Checksums : uploads[c] \in Record
  BY DEF IInv, TypeOK
<1>1. CASE \E S \in SUBSET Checksums : Queue(S)
  <2>1. \A S : Fresh(uploads, S) \in SUBSET Checksums
    BY DEF Fresh, Having
  <2>2. QED BY <1>1, <1>a, <2>1, QueueEnqueues DEF Ledger!LedgerNext
<1>2. CASE ResetFailedAuthorization
  <2> SUFFICES ASSUME Persist(With(uploads, Refused(uploads), Requeued))
               PROVE  Ledger!Reopen(Refused(uploads))
    BY <1>2 DEF ResetFailedAuthorization, WriteFails, Ledger!LedgerNext, Refused,
                Having, Standings, env
  <2>1. \A c \in Checksums : /\ c \in Refused(uploads) => /\ uploads[c].status = "failed"
                                                        /\ uploads'[c].status = "pending"
                             /\ c \notin Refused(uploads) => uploads'[c] = uploads[c]
    BY <1>a, Rewritten DEF Persist, With, Refused, Having
  <2>2. QED
    BY <1>2, <2>1
       DEF Ledger!Reopen, Ledger!Move, Entry, ResetFailedAuthorization, env, Refused, Having
<1>3. CASE Quiet
  <2>1. \A c \in Checksums : Entry(uploads'[c]) = Entry(uploads[c])
    BY <1>3, QuietStep DEF Attempted, Entry, Retrying
  <2>2. UNCHANGED accepted
    BY <1>3 DEF Quiet, Tick, ProcessDue, BeginUpload, env
  <2>3. QED BY <2>1, <2>2, Stutter
<1>4. CASE FinishUpload
  <2>1. UNCHANGED accepted /\ active \in Checksums
    BY <1>4, <1>a DEF FinishUpload, env, TypeOK, InUpload
  <2>2. CASE UNCHANGED uploads
    BY <2>1, <2>2, Stutter
  <2>3. CASE Persist(With(loaded, {active}, Finished))
    <3>1. /\ loaded = uploads /\ uploads[active].status = "uploading"
          /\ outcome.ok => active \in accepted /\ ~outcome.retryable
      BY <1>4, <2>1 DEF FinishUpload, IInv, MemoryMatchesDisk, OneAttemptOnDisk,
                        InUpload, Having, HonestOutcome
    <3>2. /\ uploads'[active] = Finished(uploads[active])
          /\ \A c \in Checksums \ {active} : uploads'[c] = uploads[c]
      BY <2>1, <2>3, <3>1 DEF Persist, With
    <3>3. /\ uploads'[active].status = (IF outcome.ok THEN "uploaded" ELSE "failed")
          /\ uploads'[active].retryable = outcome.retryable
      BY <1>a, <2>1, <3>2, FinishedFields
    <3>4. Entry(uploads[active]) = "open"
      BY <3>1 DEF Entry
    <3>5. CASE outcome.ok
      <4>1. Entry(uploads'[active]) = "confirmed"
        BY <3>3, <3>5 DEF Entry
      <4>2. Ledger!Confirm(active)
        BY <2>1, <3>1, <3>2, <3>4, <3>5, <4>1 DEF Ledger!Confirm, Ledger!Move
      <4>3. QED BY <2>1, <4>2 DEF Ledger!LedgerNext
    <3>6. CASE ~outcome.ok /\ ~outcome.retryable
      <4>1. Entry(uploads'[active]) = "rejected"
        BY <3>3, <3>6 DEF Entry
      <4>2. Ledger!Reject(active)
        BY <2>1, <3>2, <3>4, <4>1 DEF Ledger!Reject, Ledger!Move
      <4>3. QED BY <2>1, <4>2 DEF Ledger!LedgerNext
    <3>7. CASE ~outcome.ok /\ outcome.retryable
      <4>1. Entry(uploads'[active]) = "open"
        BY <3>3, <3>7 DEF Entry
      <4>2. QED BY <2>1, <3>2, <3>4, <4>1, Stutter
    <3>8. QED BY <3>5, <3>6, <3>7
  <2>4. QED BY <1>4, <2>2, <2>3 DEF FinishUpload, WriteFails
<1>5. ASSUME NEW c \in Checksums, uploads[c].status # "absent", UNCHANGED uploads,
             accepted' = accepted \/ accepted' = accepted \cup {c}
      PROVE  [Ledger!LedgerNext]_<<Standings, accepted>>
  <2>1. CASE UNCHANGED accepted
    BY <1>5, <2>1, Stutter
  <2>2. CASE accepted' = accepted \cup {c}
    <3>1. Entry(uploads[c]) # "absent" /\ UNCHANGED Standings
      BY <1>5 DEF Entry, Standings
    <3>2. Ledger!Accept(c)
      BY <2>2, <3>1 DEF Ledger!Accept, Standings
    <3>3. QED BY <3>2 DEF Ledger!LedgerNext
  <2>3. QED BY <1>5, <2>1, <2>2
<1>6. CASE Server
  <2>1. active \in Checksums /\ uploads[active].status # "absent"
    BY <1>6, <1>a DEF Server, ServerAccepts, ServerRejects, ServerGarbles, Reply, IInv,
                      OneAttemptOnDisk, TypeOK, InUpload, Having
  <2>2. /\ UNCHANGED uploads
        /\ accepted' = accepted \/ accepted' = accepted \cup {active}
    BY <1>6 DEF Server, ServerAccepts, ServerRejects, ServerGarbles, Reply, file
  <2>3. QED BY <1>5, <2>1, <2>2
<1>7. CASE \E c \in Checksums : LateRequest(c)
  <2> SUFFICES ASSUME NEW c \in Checksums, LateRequest(c)
               PROVE  [Ledger!LedgerNext]_<<Standings, accepted>>
    BY <1>7
  <2>1. uploads[c].status # "absent" /\ UNCHANGED uploads
    BY DEF LateRequest, LateIsKnown, file
  <2>2. QED BY <1>5, <2>1 DEF LateRequest
<1>8. EndProcessDue \/ Cancel \/ Renew \/ Crash \/ (Uploading /\ ~FinishUpload) \/ UNCHANGED vars
        => UNCHANGED <<uploads, accepted>>
  BY DEF EndProcessDue, Cancel, Renew, Crash, Uploading, OpenArchiveFails, SendRequest,
         TransportFails, BodyUnreadable, ReceiveReply, Answer, file, env, vars
<1>9. UNCHANGED <<uploads, accepted>> => [Ledger!LedgerNext]_<<Standings, accepted>>
  BY Stutter
<1>10. QED
  BY <1>1, <1>2, <1>3, <1>4, <1>6, <1>7, <1>8, <1>9 DEF Next, Uploading, Quiet

LEMMA LedgerBegin == Init => Ledger!LedgerInit /\ LateIsKnown
BY DEF Init, Nothing, Absent, Entry, Ledger!LedgerInit, LateIsKnown

\* Behind the files, attempts and crashes the queue is the ledger.
THEOREM Refinement == Spec => ImplementsLedger
<1>1. Init => LateIsKnown BY LedgerBegin
<1>2. Spec => []LateIsKnown
  BY <1>1, LateStep, Invariant, PTL DEF Spec
<1>3. Init => Ledger!LedgerInit BY LedgerBegin
<1>4. IInv /\ LateIsKnown /\ [Next]_vars => [Ledger!LedgerNext]_<<Standings, accepted>>
  BY LedgerStep
<1>5. QED
  BY <1>2, <1>3, <1>4, Invariant, PTL DEF Spec, ImplementsLedger, Ledger!LedgerSpec, Standings

-----------------------------------------------------------------------------
(* NextDueAt and ProcessDue agree                                          *)

\* The watcher's schedule is complete and exact: it has a time exactly while a
\* scan is unsettled, and that time has come exactly when one would be tried.
THEOREM Schedule == Spec => []ScheduleCoversQueue
<1>1. IInv => ScheduleCoversQueue
  <2> SUFFICES ASSUME IInv PROVE ScheduleCoversQueue
    OBVIOUS
  <2> DEFINE queued == Having(uploads, "pending") \cup Having(uploads, "uploading")
             retries == {c \in Checksums : Retrying(uploads[c])}
             waits == {uploads[c].wait : c \in retries} \ {Unset}
  <2>1. \A c \in Checksums : uploads[c] \in Record
    BY DEF IInv, TypeOK
  <2>2. \A c \in retries : uploads[c].wait \in 0..MaxBackoff
    BY <2>1 DEF IInv, RetryIsScheduled, Record, Waits
  <2>3. waits \subseteq Nat /\ waits = {uploads[c].wait : c \in retries}
    BY <2>2, BackoffAssumption DEF Unset
  <2>4. Unsettled(uploads) = queued \cup retries
    BY DEF Unsettled
  <2>5. DueChecksums(Recovered(uploads)) # {}
          <=> queued # {} \/ \E c \in retries : uploads[c].wait = 0
    <3>1. \A c \in Checksums :
            /\ uploads[c].status # "uploading" => Recovered(uploads)[c] = uploads[c]
            /\ uploads[c].status = "uploading" =>
                  Retrying(Recovered(uploads)[c]) /\ Recovered(uploads)[c].wait = 0
      BY <2>1, Rewritten DEF Recovered, With, Having, Retrying
    <3>2. QED
      BY <3>1 DEF DueChecksums, Having, Retrying
  <2>6. CASE queued # {}
    <3>1. NextDueAt(uploads) = 0
      BY <2>6 DEF NextDueAt
    <3>2. QED BY <2>4, <2>5, <2>6, <3>1 DEF ScheduleCoversQueue, Unset
  <2>7. CASE queued = {} /\ waits # {}
    <3>1. NextDueAt(uploads) = CHOOSE w \in waits : \A v \in waits : w <= v
      BY <2>7 DEF NextDueAt
    <3>2. \E w \in waits : \A v \in waits : w <= v
      BY <2>3, <2>7, LeastNumber
    <3> HIDE DEF waits
    <3>3. /\ NextDueAt(uploads) \in waits
          /\ \A v \in waits : NextDueAt(uploads) <= v
      BY <3>1, <3>2
    <3>4. NextDueAt(uploads) = 0 <=> 0 \in waits
      BY <2>3, <3>3
    <3> USE DEF waits
    <3>5. 0 \in waits <=> \E c \in retries : uploads[c].wait = 0
      BY <2>3
    <3>6. NextDueAt(uploads) # Unset /\ retries # {}
      BY <3>3
    <3>7. QED BY <2>4, <2>5, <2>7, <3>4, <3>5, <3>6 DEF ScheduleCoversQueue
  <2>8. CASE queued = {} /\ waits = {}
    <3>1. NextDueAt(uploads) = Unset
      BY <2>8 DEF NextDueAt
    <3>2. retries = {}
      BY <2>3, <2>8
    <3>3. QED BY <2>4, <2>5, <2>8, <3>1, <3>2 DEF ScheduleCoversQueue, Unset
  <2>9. QED BY <2>6, <2>7, <2>8
<1>2. QED BY <1>1, Invariant, PTL

=============================================================================
