----------------------------- MODULE ScanExport -----------------------------
(***************************************************************************)
(* The handoff of scans from the addon to the companion: what package      *)
(* exportfmt makes of the file the addon of AddonCapture leaves on disk.   *)
(* Each decoding is an operator that says when it succeeds and one that    *)
(* says what it returns.  An error in one row ends the decoding of the     *)
(* whole file.                                                             *)
(*                                                                         *)
(* Left out are the fields that are right by the way the addon sets them:  *)
(* the versions of the format, the column names, region, market realm,     *)
(* source, versions and truncated; those the game is trusted with, which   *)
(* are the times and the columns of money; and the columns of a row like   *)
(* stackCount.                                                             *)
(***************************************************************************)
EXTENDS AddonCapture

-----------------------------------------------------------------------------
(* The companion's own classification of an auction house                  *)

ClassifyAuctionHouse(context) ==
    IF \/ context.uiMapID \in {1434, 1446, 1452}
       \/ context.zone \in {"Stranglethorn Vale", "Tanaris", "Winterspring"}
       \/ context.subzone \in {"Booty Bay", "Gadgetzan", "Everlook"}
    THEN "neutral" ELSE "faction"

-----------------------------------------------------------------------------
(* Decoding                                                                *)

\* decodeItemDictionary
ItemsDecode(scan) ==
    /\ \A r \in DOMAIN scan.items : scan.items[r].itemId >= 1
    /\ scan.itemCount = Len(scan.items)

ValidRow(row) ==
    row.sourceRow >= 1 /\ row.itemId >= 1 /\ row.stackCount >= 1

\* Mutant: a reference is taken as an index that starts at 0.
DecodedRowFromZero(row, items) ==
    LET item == items[(row.itemRef % Len(items)) + 1] IN
    [sourceRow |-> row.sourceRow, itemId |-> item.itemId, itemString |-> item.itemString,
     name |-> item.name, stackCount |-> row.stackCount]

DecodedRow(row, items) ==
    LET item == items[row.itemRef] IN
    [sourceRow |-> row.sourceRow, itemId |-> item.itemId, itemString |-> item.itemString,
     name |-> item.name, stackCount |-> row.stackCount]

RowDecodes(row, items) ==
    row.itemRef \in 1..Len(items) /\ ValidRow(DecodedRow(row, items))

\* What the client may not have known when the scan began, and must have.
Named(context) ==
    /\ context.zone # "" /\ context.scanner # ""
    /\ context.faction \in {"Alliance", "Horde"}

\* Validate, which archives go through as well when they are read.
Valid(scan, rows) ==
    /\ scan.status = "ready"
    /\ Named(scan.context)
    /\ scan.context.durationMs >= 0
    /\ scan.auctionHouse = ClassifyAuctionHouse(scan.context)
    /\ scan.exportedRowCount = Len(rows)
    /\ scan.sourceRowCount = scan.exportedRowCount       \* truncated is false
    /\ scan.exportedRowCount > 0 => scan.itemCount > 0
    /\ \A i, j \in DOMAIN rows :
        /\ ValidRow(rows[i]) /\ rows[i].sourceRow <= scan.sourceRowCount
        /\ rows[i].sourceRow = rows[j].sourceRow => i = j

DecodedRows(scan) == [i \in DOMAIN scan.rows |-> DecodedRow(scan.rows[i], scan.items)]

ScanDecodes(scan) ==
    /\ ItemsDecode(scan)
    /\ \A i \in DOMAIN scan.rows : RowDecodes(scan.rows[i], scan.items)
    /\ Valid(scan, DecodedRows(scan))

\* Load and Decode: one scan that fails is an error of the file.
FileLoads(file) == \A i \in DOMAIN file : ScanDecodes(file[i])

-----------------------------------------------------------------------------
(* Properties                                                              *)

\* Nothing the addon does to a scan keeps the companion from reading it: when the
\* client knew the player, the place and every item, and its clock ran forward, the
\* file loads.
CompleteScansLoad ==
    (\A scan \in ToSet(disk) :
        /\ Named(scan.context)
        /\ scan.context.durationMs >= 0
        /\ \A i \in DOMAIN scan.rows :
            scan.rows[i].listing.itemId >= 1 /\ scan.rows[i].listing.stackCount >= 1)
    => FileLoads(disk)

\* The companion reads back what Auctionator delivered, row by row.  The item is
\* that of the first listing with the same link, or the same id and name where
\* there is no link.
DecodedAsDelivered ==
    FileLoads(disk) =>
        \A scan \in ToSet(disk) : \A i \in DOMAIN scan.rows :
            LET listings == [j \in DOMAIN scan.rows |-> scan.rows[j].listing]
                same == {j \in 1..i : Key(listings[j]) = Key(listings[i])}
                first == listings[Min(same)]
            IN  DecodedRows(scan)[i] =
                    [sourceRow |-> i, itemId |-> first.itemId,
                     itemString |-> first.itemString, name |-> first.name,
                     stackCount |-> listings[i].stackCount]

=============================================================================
