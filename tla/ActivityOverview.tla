-------------------------- MODULE ActivityOverview --------------------------
(***************************************************************************)
(* What the window shows of the scans, activity.go with the handler of the *)
(* watcher's events (app.go): at each event the application reads archive  *)
(* and queue anew and keeps what it read.  Between two events the files    *)
(* change without it.                                                      *)
(*                                                                         *)
(* Counts are the sizes of the sets here; times, and with them the order   *)
(* of the list and the choice of the latest, are left out.                 *)
(***************************************************************************)
EXTENDS WatchAgent

VARIABLES
    shown,    \* the overview the application holds
    tried     \* this call of ProcessDue has finished an upload

activityVars == <<allVars, shown, tried>>

-----------------------------------------------------------------------------
\* loadActivityOverview: of archive and queue as they are now.
Overview ==
    [archived  |-> archived,
     queued    |-> Having(uploads, "pending"),
     uploading |-> Having(uploads, "uploading"),
     uploaded  |-> Having(uploads, "uploaded"),
     failed    |-> Having(uploads, "failed")]

-----------------------------------------------------------------------------
(* The steps of the watcher with the events they emit                      *)

Reload == shown' = Overview'
ReloadIf(event) == IF event THEN Reload ELSE UNCHANGED shown

\* "Watcher started", and "Watcher stopped".
EmitStarted == Start /\ Reload

\* Mutant: a watcher that stops says nothing.
EmitNothingStopped == Stopped /\ UNCHANGED shown

EmitStopped == Stopped /\ Reload

\* An archive error, an archived scan, a queued scan; "Watcher recovered".
EmitArchive ==
    \/ (Stat \/ Load \/ \E c \in Checksums : ArchiveScan(c)) /\ ReloadIf(failed')
    \/ SaveArchiveState /\ ReloadIf(failed' \/ archived' # archived)
    \/ QueueScans /\ ReloadIf(failed' \/ queued')

EmitRecovered == EndCycle /\ ReloadIf(unhealthy /\ ~failed)

UploadBegins  == phase = "loop" /\ phase' = "opening"
UploadsEnd    == step' = "ended" /\ known' /\ tried
UploadsFailed == step' = "ended" /\ faults' # faults

\* The attempt before its request; the results together, when all went well; an
\* error.  What a cancelled call has done is not reported.
EmitUploads ==
    /\ ProcessUploads \/ NextDueAtFails
    /\ ReloadIf(UploadBegins \/ UploadsEnd \/ UploadsFailed)
    /\ tried' = (phase' # "idle" /\ (tried \/ phase = "answered"))

\* A new token reloads when the queue was reset, a new process when it begins.
TokenReplaced == ReplaceToken /\ ReloadIf(uploads' # uploads)
ProcessBegins == CrashWatcher /\ Reload /\ tried' = FALSE

Silently ==
    /\ \/ Decide \/ NextCycle \/ Stop \/ Elapse \/ Outside
       \/ \E S \in SUBSET Checksums, whole \in BOOLEAN : Rewrite(S, whole)
    /\ UNCHANGED shown

-----------------------------------------------------------------------------
ActivityInit == WatchInit /\ shown = Overview /\ tried = FALSE

ActivityNext ==
    \/ EmitUploads \/ ProcessBegins
    \/ /\ \/ EmitStarted \/ EmitStopped \/ EmitArchive \/ EmitRecovered
          \/ TokenReplaced \/ Silently
       /\ UNCHANGED tried

ActivitySpec == ActivityInit /\ [][ActivityNext]_activityVars

-----------------------------------------------------------------------------
(* Properties                                                              *)

\* While a scan is being uploaded, between cycles and after a stop, what is shown is
\* what the files say, although some changes of the queue come without an event.
ShownIsCurrent ==
    InUpload \/ step = "off" \/ (step = "wait" /\ ~cancelled) => shown = Overview

=============================================================================
