---------------------------- MODULE AddonCapture ----------------------------
(***************************************************************************)
(* The addon, Capture.lua and Core.lua: a scan of the auction house is     *)
(* copied in batches from a timer and stored in a short queue, which World *)
(* of Warcraft writes to disk when the UI is reloaded or the player logs   *)
(* out.  Lua runs one handler at a time, so a handler is one step; a       *)
(* reload, a crash or a command can come between two batches.              *)
(*                                                                         *)
(* Of a listing there is what names its item, and its stack for all the    *)
(* columns that are copied as they are.  A string that is missing is empty *)
(* and a number that is missing is 0, which is what the addon makes of     *)
(* them.  The id of a scan stands for the identity of its table.           *)
(***************************************************************************)
EXTENDS Integers, SequencesExt

CONSTANTS
    Deliveries,  \* what Auctionator can deliver, and who is where at that time
    BatchSize,   \* BATCH_SIZE
    MaxPending,  \* config.maxPendingScans
    MaxScans     \* bound: scans received

Identity == [itemId : Nat, itemString : STRING, name : STRING]
Listing  == [itemId : Nat, itemString : STRING, name : STRING, stackCount : Nat]
\* The scanner's name, realm and GUID are one string, empty when one is missing.
\* The profiling clock of the client tells how long the copying took; it can be set
\* back in between, by another addon too.
Context  == [zone : STRING, subzone : STRING, uiMapID : Nat, faction : STRING,
             scanner : STRING, durationMs : Int]

ASSUME SizesAssumption ==
    MaxScans \in Nat /\ BatchSize \in Nat \ {0} /\ MaxPending \in Nat \ {0}

ASSUME DeliveriesAssumption ==
    \A d \in Deliveries : d.context \in Context /\ d.raw \in Seq(Listing)

VARIABLES
    pending,       \* WOW_MARKETS_DB.pendingScans
    active,        \* Capture.active, at most one: its scan, source and next row
    timer,         \* a timer for ProcessBatch is set
    captures,      \* Capture.capturesThisSession
    needsHandoff,  \* Capture.needsHandoff
    session,       \* Capture.sessionScans
    warned,        \* since the session began or the queue was cleared, the user
                   \* was told to reload before scanning again
    disk,          \* the SavedVariables file
    received       \* scans received from Auctionator so far

addonVars == <<pending, active, timer, captures, needsHandoff, session, warned, disk,
               received>>

-----------------------------------------------------------------------------
Ids(scans) == {scans[i].id : i \in DOMAIN scans}

\* What GetItemReference keeps of a listing, and what it finds it by again: the
\* item string of its link, or id and name when there is none.
IdentityOf(listing) ==
    [itemId |-> listing.itemId, itemString |-> listing.itemString, name |-> listing.name]
Key(identity) ==
    IF identity.itemString # "" THEN <<identity.itemString>>
    ELSE <<identity.itemId, identity.name>>

\* The place in the dictionary, a new one if need be.  The keys of the dictionary
\* are all different, so itemLookup is a search in it.
GetItemReference(items, identity) ==
    LET known == {r \in DOMAIN items : Key(items[r]) = Key(identity)} IN
    IF known # {} THEN CHOOSE r \in known : TRUE ELSE Len(items) + 1

\* The row also keeps its listing, for the properties.
CompactRow(scan, sourceRow, listing) ==
    LET reference == GetItemReference(scan.items, IdentityOf(listing)) IN
    [scan EXCEPT
        !.items = IF reference > Len(@) THEN Append(@, IdentityOf(listing)) ELSE @,
        !.rows = Append(@, [sourceRow |-> sourceRow, itemRef |-> reference,
                            stackCount |-> listing.stackCount, listing |-> listing])]

\* The loop of ProcessBatch and CompleteNow, from one row to another.
CopyRows(scan, raw, first, last) ==
    LET copied[row \in (first - 1)..last] ==
          IF row < first THEN scan ELSE CompactRow(copied[row - 1], row, raw[row])
    IN  copied[last]

\* What Finish writes into the scan.
Ready(scan) ==
    [scan EXCEPT !.status = "ready", !.exportedRowCount = Len(scan.rows),
                 !.itemCount = Len(scan.items)]

\* Mutant: the queue is trimmed to its limit before the scan is added.
TrimQueueToLimit(scans) ==
    SubSeq(scans, 1 + (IF Len(scans) > MaxPending THEN Len(scans) - MaxPending ELSE 0),
           Len(scans))

TrimQueue(scans) ==
    SubSeq(scans, 1 + (IF Len(scans) >= MaxPending THEN (Len(scans) + 1) - MaxPending ELSE 0),
           Len(scans))

\* Mutant: the warning comes with the scan that already replaces one.
FinishWarningLate(scan) ==
    LET trimmed == TrimQueue(pending) IN
    /\ pending' = Append(trimmed, Ready(scan))
    /\ active' = <<>> /\ captures' = captures + 1 /\ needsHandoff' = TRUE
    /\ session' = (session \ (Ids(pending) \ Ids(trimmed))) \cup {scan.id}
    /\ warned' = (warned \/ captures' > MaxPending)

\* An evicted scan is taken out of the session's: TrimQueue returns one, and the
\* queue holds no more than one too many.
Finish(scan) ==
    LET trimmed == TrimQueue(pending) IN
    /\ pending' = Append(trimmed, Ready(scan))
    /\ active' = <<>> /\ captures' = captures + 1 /\ needsHandoff' = TRUE
    /\ session' = (session \ (Ids(pending) \ Ids(trimmed))) \cup {scan.id}
    /\ warned' = (warned \/ captures' = MaxPending)

-----------------------------------------------------------------------------
(* Handlers                                                                *)

\* Mutant: the map alone tells where the player is.
IsNeutralByMap(context) == context.uiMapID \in {1434, 1446, 1452}

\* GetCaptureLocation
IsNeutral(context) ==
    \/ context.uiMapID \in {1434, 1446, 1452}
    \/ context.zone \in {"Stranglethorn Vale", "Tanaris", "Winterspring"}
    \/ context.subzone \in {"Booty Bay", "Gadgetzan", "Everlook"}

NewScan(d) ==
    [id |-> received + 1, status |-> "capturing",
     context |-> d.context,
     auctionHouse |-> IF IsNeutral(d.context) THEN "neutral" ELSE "faction",
     sourceRowCount |-> Len(d.raw), exportedRowCount |-> 0, itemCount |-> 0,
     items |-> <<>>, rows |-> <<>>]

\* Auctionator has completed a scan.  Data that is no table, and an unknown
\* region, change nothing and are left out.
Begin(d) ==
    /\ received < MaxScans /\ received' = received + 1
    /\ active = <<>> /\ d.raw # <<>>
    /\ active' = <<[scan |-> NewScan(d), raw |-> d.raw, nextRow |-> 1]>>
    /\ timer' = TRUE
    /\ UNCHANGED <<pending, captures, needsHandoff, session, warned, disk>>

BeginEmpty(d) ==
    /\ received < MaxScans /\ received' = received + 1
    /\ active = <<>> /\ d.raw = <<>> /\ Finish(NewScan(d))
    /\ UNCHANGED <<timer, disk>>

BeginIgnored ==
    /\ received < MaxScans /\ received' = received + 1
    /\ active # <<>>
    /\ UNCHANGED <<pending, active, timer, captures, needsHandoff, session, warned, disk>>

ProcessBatch ==
    LET a == active[1]  stopAt == Min({a.nextRow + BatchSize - 1, Len(a.raw)})
        scan == CopyRows(a.scan, a.raw, a.nextRow, stopAt)
    IN  /\ timer /\ active # <<>>
        /\ IF stopAt = Len(a.raw)
           THEN Finish(scan) /\ timer' = FALSE
           ELSE /\ active' = <<[a EXCEPT !.scan = scan, !.nextRow = stopAt + 1]>>
                /\ UNCHANGED <<pending, timer, captures, needsHandoff, session, warned>>
        /\ UNCHANGED <<disk, received>>

\* /wms clear confirm; a scan in the making stays.
ClearStoredScans ==
    /\ pending' = <<>> /\ needsHandoff' = FALSE /\ captures' = 0 /\ session' = {}
    /\ warned' = FALSE
    /\ UNCHANGED <<active, timer, disk, received>>

\* The client loads the file and the addon anew; InitializeDatabase discards scans of
\* another format: all of a file or none, since each load discards the others'.
Loads(saved) ==
    /\ disk' = saved /\ pending' \in {saved, <<>>}
    /\ active' = <<>> /\ timer' = FALSE /\ captures' = 0 /\ needsHandoff' = FALSE
    /\ session' = {} /\ warned' = FALSE
    /\ UNCHANGED received

Completed ==
    LET a == active[1] IN Ready(CopyRows(a.scan, a.raw, a.nextRow, Len(a.raw)))

\* Mutant: the scan in the making is copied from its first row.
LogoutFromFirstRow ==
    Loads(IF active = <<>> THEN pending
          ELSE Append(TrimQueue(pending),
                      Ready(CopyRows(active[1].scan, active[1].raw, 1, Len(active[1].raw)))))

\* PLAYER_LOGOUT, at a reload too: CompleteNow, and the file is written.
Logout ==
    Loads(IF active = <<>> THEN pending ELSE Append(TrimQueue(pending), Completed))

\* The client dies: what was not written is lost.
ClientCrash == Loads(disk)

-----------------------------------------------------------------------------
Init ==
    /\ pending = <<>> /\ active = <<>> /\ timer = FALSE /\ captures = 0
    /\ needsHandoff = FALSE /\ session = {} /\ warned = FALSE /\ disk = <<>>
    /\ received = 0

Next ==
    \/ \E d \in Deliveries : Begin(d) \/ BeginEmpty(d)
    \/ BeginIgnored \/ ProcessBatch
    \/ ClearStoredScans \/ Logout \/ ClientCrash

AddonSpec == Init /\ [][Next]_addonVars

-----------------------------------------------------------------------------
(* Properties                                                              *)

Scans == [id : 1..MaxScans, status : {"capturing", "ready"},
          auctionHouse : {"faction", "neutral"}, context : Context,
          sourceRowCount : Nat, exportedRowCount : Nat, itemCount : Nat,
          items : Seq(Identity),
          rows : Seq([sourceRow : Nat, itemRef : Nat, stackCount : Nat, listing : Listing])]

\* The stored queue and the file hold no more than the limit, and a timer is set
\* exactly while a scan is in the making.
AddonTypeOK ==
    /\ pending \in Seq(Scans) /\ Len(pending) <= MaxPending
    /\ disk \in Seq(Scans) /\ Len(disk) <= MaxPending
    /\ Len(active) <= 1 /\ (timer <=> active # <<>>)
    /\ active # <<>> => /\ active[1].scan \in Scans
                        /\ active[1].nextRow \in 1..Len(active[1].raw)
    /\ captures \in 0..MaxScans /\ received \in 0..MaxScans
    /\ needsHandoff \in BOOLEAN /\ warned \in BOOLEAN /\ session \subseteq 1..MaxScans

\* A scan that can be handed off is ready and whole: each listing once, in its
\* place, with an item of the dictionary of the same key, and no key is there twice.
\* So it is whether the last batch or a logout in the middle completed it.
StoredScansAreWhole ==
    \A scan \in ToSet(pending) \cup ToSet(disk) :
        /\ scan.status = "ready" /\ Len(scan.rows) = scan.sourceRowCount
        /\ \A i \in DOMAIN scan.rows :
            LET row == scan.rows[i] IN
            /\ row.sourceRow = i /\ row.itemRef \in DOMAIN scan.items
            /\ Key(scan.items[row.itemRef]) = Key(IdentityOf(row.listing))
        /\ \A r, q \in DOMAIN scan.items :
            Key(scan.items[r]) = Key(scan.items[q]) => r = q

\* README: the addon "warns before another scan would discard one captured during
\* the current session".
WarnedBeforeLoss ==
    [][\A id \in session :
        captures' > captures /\ id \notin Ids(pending') => warned]_addonVars

=============================================================================
