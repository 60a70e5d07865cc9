----------------------------- MODULE MCUpdater -----------------------------
(***************************************************************************)
(* The releases and feeds in the runs of Updater: 1 runs at first, 2 and 3 *)
(* are newer, and 4 is the newest but for neither platform.                *)
(***************************************************************************)
EXTENDS Updater

Number(n) == [numeric |-> TRUE, value |-> n]
Name(n)   == [numeric |-> FALSE, value |-> n]

Beta(n) == [core |-> <<1, 0, 0>>, prerelease |-> <<Name(1), Number(n)>>]

Published ==
    <<Beta(2), Beta(10),
      [core |-> <<1, 0, 0>>, prerelease |-> <<>>], [core |-> <<2, 0, 0>>, prerelease |-> <<>>]>>

Built == <<{"windows", "macos"}, {"windows", "macos"}, {"windows", "macos"}, {}>>

Promotions == {<<>>, <<2>>, <<4, 2, 3>>}

Compared ==
    [core : [1..3 -> 0..1],
     prerelease : SeqOf({Number(2), Number(10), Name(1), Name(2)}, 2)]

=============================================================================
