---------------------------- MODULE ScanPipeline ----------------------------
(***************************************************************************)
(* What the watcher promises of a scan, without files, signatures, cycles, *)
(* stops and crashes: it is kept before it is put into the ledger, what is *)
(* kept is never lost, and the ledger then does what UploadLedger says.    *)
(* WatchAgent implements it.                                               *)
(***************************************************************************)
EXTENDS UploadLedger

VARIABLES kept    \* the scans that are archived for good

PipelineInit == LedgerInit /\ kept = {}

Keep(S) == kept' = kept \cup S /\ UNCHANGED <<ledger, accepted>>

EnqueueKept(S) == S \subseteq kept /\ Enqueue(S) /\ UNCHANGED kept

Settle ==
    /\ \/ \E S \in SUBSET Checksums : Reopen(S)
       \/ \E c \in Checksums : Reject(c) \/ Confirm(c) \/ Accept(c)
    /\ UNCHANGED kept

PipelineNext ==
    \/ \E S \in SUBSET Checksums : Keep(S) \/ EnqueueKept(S)
    \/ Settle

PipelineSpec == PipelineInit /\ [][PipelineNext]_<<ledger, accepted, kept>>

=============================================================================
