----------------------------- MODULE WatchAgent -----------------------------
(***************************************************************************)
(* The watcher, package watchagent (agent.go), with the scan archive it    *)
(* feeds (scanarchive/archive.go) and the upload queue it drives           *)
(* (ScanUpload).  Every five seconds runCycle looks at the SavedVariables  *)
(* file; when its size or modification time changed it archives the scans  *)
(* that are new, queues them, and uploads what is due.                     *)
(*                                                                         *)
(* The game rewrites the file whenever it likes, also between the moment   *)
(* the watcher looks at its signature and the moment it reads it.          *)
(***************************************************************************)
EXTENDS ScanUpload

CONSTANTS MaxRewrites    \* bound: how often the game writes the file

ASSUME MaxRewritesAssumption == MaxRewrites \in Nat

VARIABLES
    saved,          \* the scans in the SavedVariables file
    readable,       \* the file decodes: it is complete and every row is valid
    signature,      \* its size and modification time, 0 before it exists
    archives,       \* scans/<checksum>.json.gz
    archived,       \* state.json
    step,           \* where Run is
    force,          \* this is the first cycle
    seen,           \* the signature processArchive started from
    lastSignature,  \* the signature of the last file processed
    todo,           \* scans ProcessFile has still to write
    records,        \* what ProcessFile returned, then what Queue is given
    queued,         \* processArchive reported new uploads
    failed,         \* cycleFailed
    unhealthy,      \* the last cycle failed
    known,          \* uploadScheduleKnown
    nextUploadAt    \* time until the next upload is due, Unset for zero time

savedFile == <<saved, readable, signature>>
archive   == <<archives, archived>>
cycle     == <<force, seen, todo, records, queued, failed>>
memory    == <<lastSignature, unhealthy, known, nextUploadAt>>
watcher   == <<step, cycle, memory>>
allVars   == <<vars, savedFile, archive, watcher>>

-----------------------------------------------------------------------------
(* runCycle                                                                *)

Goto(from, to) == step = from /\ step' = to

ArchiveError ==
    /\ step' = "schedule" /\ failed' = TRUE
    /\ UNCHANGED <<force, seen, todo, records, queued>>

\* statSignature, and the early return for an unchanged file.
Stat ==
    /\ step = "stat"
    /\ \/ signature = 0 /\ ArchiveError
       \/ /\ signature # 0 /\ ~force /\ signature = lastSignature
          /\ step' = "schedule" /\ UNCHANGED cycle
       \/ /\ signature # 0 /\ (force \/ signature # lastSignature)
          /\ step' = "load" /\ seen' = signature
          /\ UNCHANGED <<force, todo, records, queued, failed>>
    /\ UNCHANGED <<vars, savedFile, archive, memory>>

\* Mutant: the signature is remembered before the file was processed.
LoadRemembering ==
    /\ step = "load"
    /\ \/ ~readable /\ ArchiveError
       \/ /\ readable /\ step' = "archive"
          /\ todo' = saved \ archived /\ records' = saved
          /\ UNCHANGED <<force, seen, queued, failed>>
    /\ lastSignature' = seen
    /\ UNCHANGED <<vars, savedFile, archive, unhealthy, known, nextUploadAt>>

\* ProcessFile reads the whole file and state.json: one bad row fails all.
Load ==
    /\ step = "load"
    /\ \/ ~readable /\ ArchiveError
       \/ /\ readable /\ step' = "archive"
          /\ todo' = saved \ archived /\ records' = saved
          /\ UNCHANGED <<force, seen, queued, failed>>
    /\ UNCHANGED <<vars, savedFile, archive, memory>>

\* Mutant: a failed write of an archive is not noticed.
ArchiveScanUnchecked(c) ==
    /\ step = "archive" /\ c \in todo
    /\ \/ archives' = archives \cup {c} /\ UNCHANGED faults
       \/ c \notin archives /\ Fault("archive") /\ UNCHANGED archives
    /\ todo' = todo \ {c}
    /\ UNCHANGED <<step, force, seen, records, queued, failed>>
    /\ UNCHANGED <<file, call, env, savedFile, archived, memory>>

\* archiveScan: nothing to do when the file is there from an earlier attempt.
ArchiveScan(c) ==
    /\ step = "archive" /\ c \in todo
    /\ \/ /\ archives' = archives \cup {c} /\ todo' = todo \ {c}
          /\ UNCHANGED <<step, force, seen, records, queued, failed, faults>>
       \/ c \notin archives /\ Fault("archive") /\ ArchiveError /\ UNCHANGED archives
    /\ UNCHANGED <<file, call, env, savedFile, archived, memory>>

\* Mutant: the signature is taken after the file was read.
SaveArchiveStateLookingAgain ==
    /\ step = "archive" /\ todo = {}
    /\ archived' = archived \cup records
    /\ lastSignature' = signature
    /\ records' = IF force THEN archived' ELSE records
    /\ step' = "queue"
    /\ UNCHANGED <<force, seen, todo, queued, failed, faults>>
    /\ UNCHANGED <<file, call, env, savedFile, archives, unhealthy, known, nextUploadAt>>

\* The end of ProcessFile, and what processArchive does before it queues.
SaveArchiveState ==
    /\ step = "archive" /\ todo = {}
    /\ \/ /\ archived' = archived \cup records
          /\ lastSignature' = seen
          /\ records' = IF force THEN archived' ELSE records
          /\ step' = "queue"
          /\ UNCHANGED <<force, seen, todo, queued, failed, faults>>
       \/ /\ ~(records \subseteq archived) /\ Fault("archive") /\ ArchiveError
          /\ UNCHANGED <<archived, lastSignature>>
       \/ /\ force /\ Fault("read") /\ ArchiveError    \* Records fails
          /\ archived' = archived \cup records
          /\ lastSignature' = seen
    /\ UNCHANGED <<file, call, env, savedFile, archives, unhealthy, known, nextUploadAt>>

QueueScans ==
    /\ Goto("queue", "schedule")
    /\ \/ /\ Queue(records)
          /\ queued' = (uploads' # uploads) /\ failed' = (uploads' = uploads)
       \/ /\ Fresh(uploads, records) = {}
          /\ UNCHANGED <<vars, queued, failed>>
       \/ /\ Fresh(uploads, records) = {} /\ LoadFails /\ failed' = TRUE
          /\ UNCHANGED <<loaded, call, env, queued>>
    /\ UNCHANGED <<force, seen, todo, records, savedFile, archive, memory>>

\* Mutant: new scans do not make the watcher look at the queue.
DecideByClock ==
    /\ step = "schedule"
    /\ step' = IF ~known \/ nextUploadAt = 0 THEN "upload" ELSE "ended"
    /\ UNCHANGED <<vars, savedFile, archive, cycle, memory>>

\* Uploads are looked at only when the schedule is unknown, new or has come.
Decide ==
    /\ step = "schedule"
    /\ step' = IF ~known \/ queued \/ nextUploadAt = 0 THEN "upload" ELSE "ended"
    /\ UNCHANGED <<vars, savedFile, archive, cycle, memory>>

UploadNext ==
    ProcessDue \/ EndProcessDue \/ Uploading \/ \E c \in Checksums : BeginUpload(c)

\* processUploads: ProcessDue to its end, then NextDueAt.  An error leaves the
\* schedule unknown; only a cancelled context is not counted as a failure.
ProcessUploads ==
    /\ step = "upload" /\ UploadNext
    /\ \/ /\ phase' # "idle"
          /\ UNCHANGED <<step, known, nextUploadAt, failed>>
       \/ /\ phase' = "idle" /\ phase = "loop" /\ due = {}
          /\ step' = "ended" /\ known' = TRUE /\ nextUploadAt' = NextDueAt(uploads')
          /\ UNCHANGED failed
       \/ /\ phase' = "idle" /\ ~(phase = "loop" /\ due = {})
          /\ step' = "ended" /\ known' = FALSE /\ nextUploadAt' = Unset
          /\ failed' = (failed \/ faults' # faults)
    /\ UNCHANGED <<savedFile, archive, force, seen, todo, records, queued,
                   lastSignature, unhealthy>>

\* All that was due has been tried, but NextDueAt cannot load the queue.
NextDueAtFails ==
    /\ Goto("upload", "ended")
    /\ phase = "loop" /\ due = {} /\ LoadFails /\ Return
    /\ known' = FALSE /\ nextUploadAt' = Unset /\ failed' = TRUE
    /\ UNCHANGED <<cancelled, env, savedFile, archive, force, seen, todo, records,
                   queued, lastSignature, unhealthy>>

EndCycle ==
    /\ Goto("ended", "wait")
    /\ unhealthy' = failed
    /\ force' = FALSE /\ seen' = 0 /\ todo' = {} /\ records' = {}
    /\ queued' = FALSE /\ failed' = FALSE
    /\ UNCHANGED <<vars, savedFile, archive, lastSignature, known, nextUploadAt>>

\* The ticker fires.  When the context is done as well select picks either.
NextCycle ==
    Goto("wait", "stat") /\ UNCHANGED <<vars, savedFile, archive, cycle, memory>>

-----------------------------------------------------------------------------
(* Starting, stopping and the environment                                  *)

Forget ==
    /\ seen' = 0 /\ todo' = {} /\ records' = {} /\ queued' = FALSE /\ failed' = FALSE
    /\ lastSignature' = 0 /\ unhealthy' = FALSE /\ known' = FALSE
    /\ nextUploadAt' = Unset

Start ==
    /\ Goto("off", "stat")
    /\ force' = TRUE /\ Forget
    /\ cancelled' = FALSE
    /\ UNCHANGED <<file, phase, due, active, reply, outcome, env, faults,
                   savedFile, archive>>

Stop ==
    /\ step # "off" /\ Cancel
    /\ UNCHANGED <<savedFile, archive, watcher>>

Stopped ==
    /\ Goto("wait", "off") /\ cancelled
    /\ force' = FALSE /\ Forget
    /\ UNCHANGED <<vars, savedFile, archive>>

CrashWatcher ==
    /\ step # "off" /\ Fault("crash")
    /\ Return /\ cancelled' = FALSE
    /\ late' = IF phase = "sending" THEN late \cup {active} ELSE late
    /\ step' = "off" /\ force' = FALSE /\ Forget
    /\ UNCHANGED <<uploads, accepted, savedFile, archive>>

\* The game writes the file: any scans, complete or not.  Which scans are in a file
\* that does not decode is nothing the watcher can learn.
Rewrite(S, whole) ==
    /\ signature < MaxRewrites
    /\ saved' = (IF whole THEN S ELSE {}) /\ readable' = whole /\ signature' = signature + 1
    /\ UNCHANGED <<vars, archive, watcher>>

ReplaceToken ==
    /\ step = "off" /\ ResetFailedAuthorization
    /\ UNCHANGED <<savedFile, archive, watcher>>

Elapse ==
    /\ Tick
    /\ nextUploadAt' = IF nextUploadAt > 0 THEN nextUploadAt - 1 ELSE nextUploadAt
    /\ UNCHANGED <<savedFile, archive, step, cycle, lastSignature, unhealthy, known>>

Outside ==
    /\ Server \/ \E c \in Checksums : LateRequest(c)
    /\ UNCHANGED <<savedFile, archive, watcher>>

-----------------------------------------------------------------------------
WatchInit ==
    /\ Init
    /\ saved = {} /\ readable = TRUE /\ signature = 0
    /\ archives = {} /\ archived = {}
    /\ step = "off" /\ force = FALSE
    /\ seen = 0 /\ todo = {} /\ records = {} /\ queued = FALSE /\ failed = FALSE
    /\ lastSignature = 0 /\ unhealthy = FALSE /\ known = FALSE /\ nextUploadAt = Unset

Cycle ==
    \/ Stat \/ Load \/ (\E c \in Checksums : ArchiveScan(c)) \/ SaveArchiveState
    \/ QueueScans \/ Decide \/ ProcessUploads \/ NextDueAtFails \/ EndCycle

WatchNext ==
    \/ Cycle \/ NextCycle \/ Start \/ Stop \/ Stopped \/ CrashWatcher
    \/ \E S \in SUBSET Checksums, whole \in BOOLEAN : Rewrite(S, whole)
    \/ ReplaceToken \/ Elapse \/ Outside

WatchSpec == WatchInit /\ [][WatchNext]_allVars

\* The goroutine runs, the ticker ticks, the application starts the watcher
\* again after it stopped, and the server is sometimes there for each scan.
WatchFairness ==
    /\ WF_allVars(Cycle \/ NextCycle \/ Start)
    /\ SF_allVars(Stopped) /\ WF_allVars(Elapse)
    /\ \A c \in Checksums :
        /\ SF_allVars(Outside /\ ServerAccepts /\ active = c)
        /\ SF_allVars(ProcessUploads /\ Delivers(c))

WatchLiveSpec == WatchSpec /\ WatchFairness

-----------------------------------------------------------------------------
(* Properties                                                              *)

WatchTypeOK ==
    /\ TypeOK
    /\ saved \subseteq Checksums /\ readable \in BOOLEAN
    /\ signature \in 0..MaxRewrites /\ seen \in 0..MaxRewrites
    /\ lastSignature \in 0..MaxRewrites
    /\ archives \subseteq Checksums /\ archived \subseteq Checksums
    /\ step \in {"off", "stat", "load", "archive", "queue", "schedule", "upload",
                 "ended", "wait"}
    /\ todo \subseteq Checksums /\ records \subseteq Checksums
    /\ {force, queued, failed, unhealthy, known} \subseteq BOOLEAN
    /\ nextUploadAt \in Waits

\* The watcher implements the pipeline: no scan is queued before it is archived
\* with its record, so that upload() can open it, none that is archived is lost, and
\* from there the ledger holds, through stops, crashes and failed writes of any of
\* the three files.
Pipeline == INSTANCE ScanPipeline
              WITH ledger <- [c \in Checksums |-> Entry(uploads[c])],
                   kept   <- archived \cap archives
ImplementsPipeline == Pipeline!PipelineSpec

\* A file the watcher will skip from now on was read whole and holds nothing it has
\* not archived, although the game may have rewritten it between the look and the read.
SkippedFileIsArchived ==
    signature # 0 /\ lastSignature = signature => readable /\ saved \subseteq archived

\* Between cycles the watcher's schedule, when it has one, is the queue's.
ScheduleIsCurrent ==
    step = "wait" /\ known => nextUploadAt = NextDueAt(uploads)

\* A scan that stays in a readable file, and every scan that was queued, is in the
\* end uploaded or refused, although requests fail, attempts are interrupted and
\* other scans wait too.
SavedScanSettles ==
    \A c \in Checksums \ Truncated :
        (c \in saved /\ readable) \/ uploads[c].status = "pending" ~>
            \/ Entry(uploads[c]) \in {"confirmed", "rejected"}
            \/ uploads[c].status = "absent" /\ (c \notin saved \/ ~readable)

\* companion/README.md: "New scans are deduplicated by canonical checksum,
\* archived, queued, and uploaded sequentially."  A healthy watcher that has
\* nothing left to read has queued everything it read.
HealthyMeansQueued ==
    step = "wait" /\ ~unhealthy /\ signature # 0 /\ lastSignature = signature
        => \A c \in saved \ Truncated : uploads[c].status # "absent"

=============================================================================
