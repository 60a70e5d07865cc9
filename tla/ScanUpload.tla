----------------------------- MODULE ScanUpload -----------------------------
(***************************************************************************)
(* The companion's durable upload queue, package scanupload (upload.go):   *)
(* one file, uploads.json, replaced atomically at every change; Queue adds *)
(* archived scans to it, ProcessDue uploads the due ones one at a time,    *)
(* ResetFailedAuthorization requeues the refused ones after a token change *)
(* and NextDueAt tells the watcher when to call ProcessDue again.          *)
(*                                                                         *)
(* The server and the network are external.  A request the client gave up  *)
(* on can still arrive later; a crash can happen between any two steps;    *)
(* any reading and any write of the file can fail.                         *)
(*                                                                         *)
(* Time is relative: where the code stores an instant (NextAttemptAt) the  *)
(* model stores how far away it is, and Tick brings it closer.             *)
(***************************************************************************)
EXTENDS Integers, FiniteSets

CONSTANTS
    Checksums,     \* canonical checksums, as positive numbers in sort order
    Truncated,     \* the scans whose archive record is marked truncated
    Codes,         \* HTTP status codes the server may refuse a scan with
    BaseBackoff,   \* defaultBaseBackoff
    MaxBackoff,    \* defaultMaxBackoff
    AttemptCap,    \* bound: attempts are not counted beyond this number
    FaultKinds,    \* which of "crash", "cancel", "load", "write" and "queue" can
                   \* happen; "queue" is a failure of Queue, to load or to write
    MaxFaults      \* bound: how often, together

ASSUME ChecksumsAssumption == Checksums \subseteq Nat \ {0}
ASSUME TruncatedAssumption == Truncated \subseteq Checksums
ASSUME CodesAssumption     == Codes \subseteq Nat \ {0, 200, 201}
ASSUME BackoffAssumption   == BaseBackoff \in Nat \ {0} /\ MaxBackoff \in Nat
ASSUME BoundsAssumption    == AttemptCap \in Nat \ {0} /\ MaxFaults \in Nat

VARIABLES
    uploads,    \* uploads.json: checksum -> Record; "absent" when not a key
    loaded,     \* currentState while ProcessDue runs, Nothing otherwise
    phase,      \* where ProcessDue is
    due,        \* the checksums this ProcessDue call has still to try
    active,     \* the scan being uploaded, 0 when none
    reply,      \* the HTTP response to the current request
    outcome,    \* what upload() returned
    cancelled,  \* the context given to ProcessDue is done
    late,       \* requests on the wire whose client no longer waits
    accepted,   \* the scans the server holds
    faults      \* crashes, cancellations and failures so far

file == <<uploads, loaded>>
call == <<phase, due, active, reply, outcome, cancelled>>
env  == <<late, accepted>>
vars == <<uploads, loaded, phase, due, active, reply, outcome, cancelled,
          late, accepted, faults>>

-----------------------------------------------------------------------------
(* Records                                                                 *)

Statuses == {"absent", "pending", "uploading", "uploaded", "failed"}

Unset == -1     \* NextAttemptAt = "", and NextDueAt's zero time

\* HTTPStatus also stands for LastError: both are set together, and LastError
\* matters only as "API returned 401/403 ...".
Waits    == {Unset} \cup 0..MaxBackoff
HTTP     == {0, 200, 201} \cup Codes
Counts   == 0..AttemptCap
Record   == [status : Statuses, retryable : BOOLEAN, attempts : Counts,
             wait : Waits, http : HTTP]

Absent  == [status |-> "absent", retryable |-> FALSE, attempts |-> 0,
            wait |-> Unset, http |-> 0]
Nothing == [c \in Checksums |-> Absent]

With(u, S, new(_)) == [c \in Checksums |-> IF c \in S THEN new(u[c]) ELSE u[c]]

Having(u, status) == {c \in Checksums : u[c].status = status}

IsRetryableStatus(code) == code = 408 \/ code = 429 \/ code >= 500

IsAuthorizationFailure(r) == r.http \in {401, 403}

\* Mutant: no clamp.
BackoffUnclamped(attempts) == BaseBackoff * 2^(attempts - 1)

\* The delay before the next attempt: doubled per attempt up to the maximum.
Backoff(attempts) ==
    LET doubled == BaseBackoff * 2^(attempts - 1)
    IN  IF doubled \in 0..MaxBackoff THEN doubled ELSE MaxBackoff

Retrying(r) == r.status = "failed" /\ r.retryable

DueChecksums(u) ==
    Having(u, "pending") \cup {c \in Checksums : Retrying(u[c]) /\ u[c].wait = 0}

\* Mutant: interrupted uploads are not counted as work.
NextDueAtIgnoringUploading(u) ==
    LET waits == {u[c].wait : c \in {d \in Checksums : Retrying(u[d])}} \ {Unset}
    IN  CASE Having(u, "pending") # {} -> 0
          [] Having(u, "pending") = {} /\ waits # {}
                -> CHOOSE w \in waits : \A v \in waits : w <= v
          [] OTHER -> Unset

\* Time until ProcessDue has work; Unset when nothing is left to do.
NextDueAt(u) ==
    LET waits == {u[c].wait : c \in {d \in Checksums : Retrying(u[d])}} \ {Unset}
    IN  CASE Having(u, "pending") \cup Having(u, "uploading") # {} -> 0
          [] Having(u, "pending") \cup Having(u, "uploading") = {} /\ waits # {}
                -> CHOOSE w \in waits : \A v \in waits : w <= v
          [] OTHER -> Unset

-----------------------------------------------------------------------------
(* Writes and the clock                                                    *)

NoRequest == [code |-> 0, kind |-> "none", checksum |-> 0]
NoOutcome == [ok |-> FALSE, http |-> 0, retryable |-> FALSE]

Fault(kind) ==
    kind \in FaultKinds /\ faults < MaxFaults /\ faults' = faults + 1

\* writeState publishes the new file by rename: it is all there or not at all.
Persist(u)  == uploads' = u /\ UNCHANGED faults
WriteFails  == Fault("write") /\ UNCHANGED uploads
LoadFails   == Fault("load") /\ UNCHANGED uploads

\* ProcessDue returns: its copy of the state is gone.
Return ==
    /\ phase' = "idle" /\ loaded' = Nothing /\ due' = {} /\ active' = 0
    /\ reply' = NoRequest /\ outcome' = NoOutcome

Sooner(u) == [c \in Checksums |->
                [u[c] EXCEPT !.wait = IF @ > 0 THEN @ - 1 ELSE @]]

Tick ==
    /\ uploads' = Sooner(uploads) /\ loaded' = Sooner(loaded)
    /\ UNCHANGED <<call, env, faults>>

-----------------------------------------------------------------------------
(* The operations that are one step                                        *)

NewRecord(r) == [Absent EXCEPT !.status = "pending"]

\* Mutant: a scan that has a record is queued again.
FreshOrNot(u, S) == S \ Truncated

\* What Queue adds for these archive records: each is skipped when truncated
\* and keeps its record when it has one.
Fresh(u, S) == (S \ Truncated) \cap Having(u, "absent")

Queue(S) ==
    /\ phase = "idle" /\ Fresh(uploads, S) # {}
    /\ \/ Persist(With(uploads, Fresh(uploads, S), NewRecord))
       \/ Fault("queue") /\ UNCHANGED uploads
    /\ UNCHANGED <<loaded, call, env>>

\* Mutant: a new token requeues whatever failed.
RefusedForAnyReason(u) == Having(u, "failed")

Refused(u) == {c \in Having(u, "failed") : IsAuthorizationFailure(u[c])}

Requeued(r) == [r EXCEPT !.status = "pending", !.retryable = FALSE,
                         !.wait = Unset, !.http = 0]

ResetFailedAuthorization ==
    /\ phase = "idle" /\ Refused(uploads) # {}
    /\ \/ Persist(With(uploads, Refused(uploads), Requeued))
       \/ WriteFails
    /\ UNCHANGED <<loaded, call, env>>

-----------------------------------------------------------------------------
(* ProcessDueLimitWithProgress                                             *)

Interrupted(r) == [r EXCEPT !.status = "failed", !.retryable = TRUE, !.wait = 0]

\* Mutant: uploads interrupted by a crash are left as they are.
NotRecovered(u) == u

Recovered(u) == With(u, Having(u, "uploading"), Interrupted)

\* Load the file, turn interrupted uploads into retries, list what is due.
ProcessDue ==
    LET u == Recovered(uploads) IN
    /\ phase = "idle"
    /\ \/ /\ Persist(u)
          /\ phase' = "loop" /\ loaded' = u /\ due' = DueChecksums(u)
          /\ UNCHANGED <<active, reply, outcome, cancelled>>
       \/ /\ LoadFails \/ (u # uploads /\ WriteFails)
          /\ UNCHANGED <<loaded, call>>
    /\ UNCHANGED env

Attempt(r) == [r EXCEPT !.status = "uploading", !.wait = Unset, !.http = 0,
                        !.attempts = IF @ < AttemptCap THEN @ + 1 ELSE @]

\* Mutant: a failed write of the attempt does not stop the upload.
BeginUploadUnsaved(c) ==
    LET u == With(loaded, {c}, Attempt) IN
    /\ phase = "loop" /\ ~cancelled
    /\ c \in due /\ \A d \in due : c <= d
    /\ Persist(u) \/ WriteFails
    /\ loaded' = u /\ phase' = "opening" /\ active' = c
    /\ UNCHANGED <<due, reply, outcome, cancelled, env>>

\* The loop body up to upload(): the attempt is on disk before the request.
BeginUpload(c) ==
    LET u == With(loaded, {c}, Attempt) IN
    /\ phase = "loop" /\ ~cancelled
    /\ c \in due /\ \A d \in due : c <= d
    /\ \/ /\ Persist(u)
          /\ loaded' = u /\ phase' = "opening" /\ active' = c
          /\ UNCHANGED <<due, reply, outcome, cancelled>>
       \/ WriteFails /\ Return /\ UNCHANGED cancelled
    /\ UNCHANGED env

\* The loop ends: nothing is left, or the context is done.
EndProcessDue ==
    /\ phase = "loop" /\ (due = {} \/ cancelled)
    /\ Return
    /\ UNCHANGED <<uploads, cancelled, env, faults>>

\* The watcher is stopped, and started again with a new context.
Cancel ==
    /\ ~cancelled /\ Fault("cancel")
    /\ cancelled' = TRUE
    /\ UNCHANGED <<file, phase, due, active, reply, outcome, env>>

Renew ==
    /\ phase = "idle" /\ cancelled
    /\ cancelled' = FALSE
    /\ UNCHANGED <<file, phase, due, active, reply, outcome, env, faults>>

\* upload() returns
Answer(ok, http, retryable) ==
    /\ phase' = "answered"
    /\ outcome' = [ok |-> ok, http |-> http, retryable |-> retryable]
    /\ reply' = NoRequest
    /\ UNCHANGED <<file, due, active, cancelled, accepted, faults>>

OpenArchiveFails ==
    phase = "opening" /\ Answer(FALSE, 0, FALSE) /\ UNCHANGED late

SendRequest ==
    /\ phase = "opening" /\ ~cancelled
    /\ phase' = "sending"
    /\ UNCHANGED <<file, due, active, reply, outcome, cancelled, env, faults>>

\* The transport fails, the client times out or the context is cancelled.  The
\* request may already be on the wire.
TransportFails ==
    /\ \/ phase \in {"sending", "replied"}
       \/ phase = "opening" /\ cancelled
    /\ Answer(FALSE, 0, TRUE)
    /\ \/ phase = "sending" /\ late' = late \cup {active}
       \/ UNCHANGED late

BodyUnreadable ==
    phase = "replied" /\ Answer(FALSE, reply.code, TRUE) /\ UNCHANGED late

\* Mutant: any successful status is a success.
ReceiveReplyUnchecked ==
    /\ phase = "replied"
    /\ IF reply.code \in {200, 201}
       THEN Answer(TRUE, reply.code, FALSE)
       ELSE Answer(FALSE, reply.code,
                   reply.kind # "oversize" /\ IsRetryableStatus(reply.code))
    /\ UNCHANGED late

\* A response was read: a success only if it is a result for this very scan.
ReceiveReply ==
    /\ phase = "replied"
    /\ IF reply.code \in {200, 201}
       THEN Answer(reply.kind = "result" /\ reply.checksum = active,
                   reply.code, FALSE)
       ELSE Answer(FALSE, reply.code,
                   reply.kind # "oversize" /\ IsRetryableStatus(reply.code))
    /\ UNCHANGED late

Finished(r) ==
    [r EXCEPT
        !.status = IF outcome.ok THEN "uploaded" ELSE "failed",
        !.http = outcome.http,
        !.retryable = outcome.retryable,
        !.wait = IF outcome.retryable THEN Backoff(r.attempts) ELSE Unset]

FinishUpload ==
    LET u == With(loaded, {active}, Finished) IN
    /\ phase = "answered"
    /\ \/ /\ Persist(u)
          /\ loaded' = u /\ phase' = "loop" /\ due' = due \ {active}
          /\ active' = 0 /\ outcome' = NoOutcome
          /\ UNCHANGED <<reply, cancelled>>
       \/ WriteFails /\ Return /\ UNCHANGED cancelled
    /\ UNCHANGED env

-----------------------------------------------------------------------------
(* The environment: server, network, process                               *)

Reply(code, kind, checksum) ==
    /\ phase = "sending"
    /\ phase' = "replied"
    /\ reply' = [code |-> code, kind |-> kind, checksum |-> checksum]
    /\ UNCHANGED <<file, due, active, outcome, cancelled, late, faults>>

\* POST /v1/scans is idempotent: 201 accepted, 200 duplicate.
ServerAccepts ==
    /\ Reply(IF active \in accepted THEN 200 ELSE 201, "result", active)
    /\ accepted' = accepted \cup {active}

ServerRejects ==
    /\ \E code \in Codes : Reply(code, "problem", 0)
    /\ UNCHANGED accepted

\* A proxy or a newer server answers something upload() cannot use, whether or
\* not the scan got through: an error, a body that does not decode or is too
\* large, a result for another scan.
ServerGarbles ==
    /\ \/ \E code \in Codes, kind \in {"problem", "oversize"} : Reply(code, kind, 0)
       \/ Reply(200, "problem", 0)
       \/ \E c \in Checksums \ {active} : Reply(200, "result", c)
    /\ accepted' \in {accepted, accepted \cup {active}}

LateRequest(c) ==
    /\ c \in late
    /\ late' = late \ {c}
    /\ accepted' \in {accepted, accepted \cup {c}}
    /\ UNCHANGED <<file, call, faults>>

Crash ==
    /\ phase # "idle" /\ Fault("crash")
    /\ Return /\ cancelled' = FALSE
    /\ late' = IF phase = "sending" THEN late \cup {active} ELSE late
    /\ UNCHANGED <<uploads, accepted>>

-----------------------------------------------------------------------------
Init ==
    /\ uploads = Nothing /\ loaded = Nothing
    /\ phase = "idle" /\ due = {} /\ active = 0
    /\ reply = NoRequest /\ outcome = NoOutcome /\ cancelled = FALSE
    /\ late = {} /\ accepted = {} /\ faults = 0

Uploading ==
    \/ OpenArchiveFails \/ SendRequest \/ TransportFails \/ BodyUnreadable
    \/ ReceiveReply \/ FinishUpload

Server == ServerAccepts \/ ServerRejects \/ ServerGarbles

Next ==
    \/ Tick
    \/ \E S \in SUBSET Checksums : Queue(S)
    \/ ResetFailedAuthorization
    \/ ProcessDue \/ EndProcessDue \/ Cancel \/ Renew
    \/ \E c \in Checksums : BeginUpload(c) \/ LateRequest(c)
    \/ Uploading \/ Server \/ Crash

Spec == Init /\ [][Next]_vars

\* The result of a scan gets back to the client that waits for it.
Delivers(c) == ReceiveReply /\ active = c /\ reply.kind = "result" /\ reply.checksum = c

-----------------------------------------------------------------------------
(* Properties                                                              *)

InUpload == phase \in {"opening", "sending", "replied", "answered"}
Phases   == {"idle", "loop", "opening", "sending", "replied", "answered"}
Kinds    == {"none", "result", "problem", "oversize"}
Replies  == [code : HTTP, kind : Kinds, checksum : Checksums \cup {0}]
Outcomes == [ok : BOOLEAN, http : HTTP, retryable : BOOLEAN]

TypeOK ==
    /\ uploads \in [Checksums -> Record] /\ loaded \in [Checksums -> Record]
    /\ phase \in Phases
    /\ due \subseteq Checksums
    /\ active \in IF InUpload THEN due ELSE {0}
    /\ reply \in Replies /\ outcome \in Outcomes
    /\ cancelled \in BOOLEAN
    /\ late \subseteq Checksums /\ accepted \subseteq Checksums
    /\ faults \in 0..MaxFaults

\* A scan shown as uploaded is held by the server, whatever crashed, timed out
\* or was answered in the meantime (upload.go:425-447, 349-375).
UploadedIsAccepted ==
    \A c \in Checksums : uploads[c].status = "uploaded" => c \in accepted

\* The attempt in progress is the only one on disk, and it is there before its
\* request leaves: a crash at any point leaves at most one record to recover,
\* and ProcessDue has recovered it before it begins another.
OneAttemptOnDisk ==
    /\ \A c, d \in Having(uploads, "uploading") : c = d
    /\ InUpload => Having(uploads, "uploading") = {active}
    /\ phase = "loop" => Having(uploads, "uploading") = {}

\* While ProcessDue runs its copy of the state is the file: none of its own ways
\* to go on, give up or fail to write leaves the two apart.  That nobody else
\* writes the file meanwhile is AppLifecycle's OneWatcher and QueueIsQuiet.
MemoryMatchesDisk == phase # "idle" => loaded = uploads

Unsettled(u) == Having(u, "pending") \cup Having(u, "uploading")
                    \cup {c \in Checksums : Retrying(u[c])}

\* NextDueAt and ProcessDue agree: a time is announced exactly while something
\* is unsettled, and it has come exactly when ProcessDue would upload something
\* (upload.go:201-220 against 304-323 and 590-608).
ScheduleCoversQueue ==
    /\ NextDueAt(uploads) = Unset <=> Unsettled(uploads) = {}
    /\ NextDueAt(uploads) = 0 <=> DueChecksums(Recovered(uploads)) # {}

\* What makes the invariants above inductive: a success seen by the client is
\* one the server gave, what is due is open, and a next attempt is set exactly
\* on the records that have one to wait for.
HonestOutcome ==
    /\ reply.kind = "result" =>
            phase = "replied" /\ (reply.checksum = active => active \in accepted)
    /\ outcome.ok =>
            phase = "answered" /\ active \in accepted /\ ~outcome.retryable
DueIsOpen ==
    \A c \in due \ {active} : loaded[c].status = "pending" \/ Retrying(loaded[c])
RetryIsScheduled ==
    \A c \in Checksums : uploads[c].wait # Unset <=> Retrying(uploads[c])

IInv == /\ TypeOK /\ UploadedIsAccepted /\ OneAttemptOnDisk /\ MemoryMatchesDisk
        /\ HonestOutcome /\ DueIsOpen /\ RetryIsScheduled

\* A record that was uploaded, or refused for good for a reason a new token
\* does not cure, is never changed again.
Final(r) ==
    \/ r.status = "uploaded"
    \/ r.status = "failed" /\ ~r.retryable /\ ~IsAuthorizationFailure(r)
FinalRecordsStay ==
    [][\A c \in Checksums : Final(uploads[c]) => uploads'[c] = uploads[c]]_vars

\* The queue implements the ledger: nothing leaves it, and confirmed scans are on
\* the server and stay confirmed, whatever crashes or fails to be written.
Entry(r) ==
    CASE r.status = "absent" -> "absent"
      [] r.status = "uploaded" -> "confirmed"
      [] r.status = "failed" /\ ~r.retryable -> "rejected"
      [] OTHER -> "open"
LateIsKnown == \A c \in late : uploads[c].status # "absent"
Ledger == INSTANCE UploadLedger
            WITH ledger <- [c \in Checksums |-> Entry(uploads[c])]
ImplementsLedger == Ledger!LedgerSpec

=============================================================================
