--------------------------- MODULE MCAppLifecycle ---------------------------
(***************************************************************************)
(* AppLifecycle for TLC: calls, watcher goroutines, tokens and files are   *)
(* interchangeable in the safety runs.                                     *)
(***************************************************************************)
EXTENDS AppLifecycle, TLC

Interchangeable ==
    Permutations(Clients) \cup Permutations(Runs) \cup Permutations(Tokens)
        \cup Permutations(Paths)

=============================================================================
