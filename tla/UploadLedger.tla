---------------------------- MODULE UploadLedger ----------------------------
(***************************************************************************)
(* What the companion's durable upload queue promises to the rest of the   *)
(* program, without attempts, back-off, files or crashes: every scan it    *)
(* took in stays in the ledger for ever, is confirmed only when the server *)
(* really holds it, and once confirmed is never touched again.  A refused  *)
(* scan comes back only by being reopened.  ScanUpload implements it.      *)
(***************************************************************************)

CONSTANTS Checksums    \* the scans there can be, by canonical checksum

VARIABLES ledger,      \* what the queue says of each scan
          accepted     \* the scans the server holds

Standing == {"absent", "open", "rejected", "confirmed"}

LedgerInit ==
    /\ ledger = [c \in Checksums |-> "absent"]
    /\ accepted = {}

Move(S, from, to) ==
    /\ \A c \in S : ledger[c] \in from
    /\ ledger' = [c \in Checksums |-> IF c \in S THEN to ELSE ledger[c]]
    /\ UNCHANGED accepted

Enqueue(S) == Move(S, {"absent"}, "open")
Reopen(S)  == Move(S, {"rejected", "open"}, "open")
Reject(c)  == Move({c}, {"open"}, "rejected")
Confirm(c) == c \in accepted /\ Move({c}, {"open"}, "confirmed")

\* A request may reach the server long after the client gave up on it.
Accept(c) ==
    /\ ledger[c] # "absent"
    /\ accepted' = accepted \cup {c}
    /\ UNCHANGED ledger

LedgerNext ==
    \/ \E S \in SUBSET Checksums : Enqueue(S) \/ Reopen(S)
    \/ \E c \in Checksums : Reject(c) \/ Confirm(c) \/ Accept(c)

LedgerSpec == LedgerInit /\ [][LedgerNext]_<<ledger, accepted>>

=============================================================================
