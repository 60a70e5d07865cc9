------------------------- MODULE AddonCapture_proofs -------------------------
(***************************************************************************)
(* Proofs about AddonCapture for everything Auctionator can deliver, every *)
(* size of batch and every limit of the queue.                             *)
(***************************************************************************)
EXTENDS AddonCapture, SequenceTheorems, NumberInduction

-----------------------------------------------------------------------------
(* What a scan says, from its first row to its last                        *)

Rows == [sourceRow : Nat, itemRef : Nat, stackCount : Nat, listing : Listing]

RowsInPlace(scan) ==
    \A i \in 1..Len(scan.rows) :
        /\ scan.rows[i].sourceRow = i
        /\ scan.rows[i].itemRef \in 1..Len(scan.items)
        /\ scan.rows[i].stackCount = scan.rows[i].listing.stackCount
        /\ Key(scan.items[scan.rows[i].itemRef]) = Key(IdentityOf(scan.rows[i].listing))

KeysDiffer(scan) ==
    \A r, q \in 1..Len(scan.items) :
        Key(scan.items[r]) = Key(scan.items[q]) => r = q

\* Each item is in the dictionary as it was in the first of its rows.
ItemsFromRows(scan) ==
    \A r \in 1..Len(scan.items) : \E i \in 1..Len(scan.rows) :
        /\ scan.rows[i].itemRef = r
        /\ scan.items[r] = IdentityOf(scan.rows[i].listing)
        /\ \A j \in 1..(i - 1) : scan.rows[j].itemRef # r

House(context) == IF IsNeutral(context) THEN "neutral" ELSE "faction"

Copied(scan) ==
    /\ scan \in Scans /\ RowsInPlace(scan) /\ KeysDiffer(scan) /\ ItemsFromRows(scan)
    /\ scan.auctionHouse = House(scan.context)

\* A scan in the making, with its first rows copied.
Partial(scan, rows, total) ==
    /\ Copied(scan) /\ scan.status = "capturing"
    /\ Len(scan.rows) = rows /\ scan.sourceRowCount = total

\* A scan that can be handed off.
Stored(scan) ==
    /\ Copied(scan) /\ scan.status = "ready"
    /\ scan.exportedRowCount = Len(scan.rows) /\ scan.sourceRowCount = Len(scan.rows)
    /\ scan.itemCount = Len(scan.items)

-----------------------------------------------------------------------------
(* Copying one row                                                         *)

\* A listing finds its item in the dictionary, or adds it at the end.
LEMMA ReferenceCases ==
    ASSUME NEW items \in Seq(Identity), NEW identity \in Identity,
           NEW ref, ref = GetItemReference(items, identity)
    PROVE  \/ ref \in 1..Len(items) /\ Key(items[ref]) = Key(identity)
           \/ ref = Len(items) + 1 /\ \A r \in 1..Len(items) : Key(items[r]) # Key(identity)
BY DEF GetItemReference

\* The identity of any listing Auctionator can deliver is an identity.
LEMMA IdentityTyping ==
    ASSUME NEW listing \in Listing PROVE IdentityOf(listing) \in Identity
BY DEF Listing, Identity, IdentityOf

\* The next row is copied: nothing that was copied before changes.
LEMMA RowCopied ==
    ASSUME NEW n \in Nat, NEW total, NEW scan, Partial(scan, n, total),
           NEW listing \in Listing
    PROVE  /\ Partial(CompactRow(scan, n + 1, listing), n + 1, total)
           /\ CompactRow(scan, n + 1, listing).id = scan.id
<1> DEFINE items == scan.items
           rows == scan.rows
           identity == IdentityOf(listing)
           ref == GetItemReference(items, identity)
           row == [sourceRow |-> n + 1, itemRef |-> ref,
                   stackCount |-> listing.stackCount, listing |-> listing]
           newItems == IF ref > Len(items) THEN Append(items, identity) ELSE items
           newRows == Append(rows, row)
           new == CompactRow(scan, n + 1, listing)
<1>a. /\ scan \in Scans /\ items \in Seq(Identity) /\ rows \in Seq(Rows)
      /\ identity \in Identity /\ Len(rows) = n /\ Len(items) \in Nat
  BY IdentityTyping DEF Partial, Copied, Scans, Rows
<1>b. \/ ref \in 1..Len(items) /\ Key(items[ref]) = Key(identity)
      \/ ref = Len(items) + 1 /\ \A r \in 1..Len(items) : Key(items[r]) # Key(identity)
  BY <1>a, ReferenceCases
<1>c. /\ new = [scan EXCEPT !.items = newItems, !.rows = newRows]
      /\ new.items = newItems /\ new.rows = newRows
      /\ new.status = scan.status /\ new.sourceRowCount = scan.sourceRowCount
      /\ new.auctionHouse = scan.auctionHouse /\ new.context = scan.context
      /\ new.id = scan.id
  BY <1>a DEF CompactRow, Scans
<1> HIDE DEF ref, new
<1>d. row \in Rows /\ row.itemRef = ref /\ row.listing = listing /\ row.sourceRow = n + 1
      /\ row.stackCount = listing.stackCount
  BY <1>a, <1>b DEF Rows, Listing
<1> HIDE DEF row
<1>e. /\ newRows \in Seq(Rows) /\ Len(newRows) = n + 1 /\ newRows[n + 1] = row
      /\ \A i \in 1..n : newRows[i] = rows[i]
  BY <1>a, <1>d
<1>f. /\ newItems \in Seq(Identity)
      /\ Len(newItems) = IF ref = Len(items) + 1 THEN Len(items) + 1 ELSE Len(items)
      /\ \A r \in 1..Len(items) : newItems[r] = items[r]
      /\ ref = Len(items) + 1 => newItems[ref] = identity
      /\ ref \in 1..Len(newItems)
  BY <1>a, <1>b
<1> HIDE DEF newRows, newItems
<1>1. new \in Scans
  BY <1>a, <1>c, <1>e, <1>f DEF Scans, Rows
<1>2. RowsInPlace(new)
  <2> SUFFICES ASSUME NEW i \in 1..(n + 1)
               PROVE  /\ newRows[i].sourceRow = i
                      /\ newRows[i].itemRef \in 1..Len(newItems)
                      /\ newRows[i].stackCount = newRows[i].listing.stackCount
                      /\ Key(newItems[newRows[i].itemRef]) = Key(IdentityOf(newRows[i].listing))
    BY <1>c, <1>e DEF RowsInPlace
  <2>1. CASE i = n + 1
    BY <1>b, <1>d, <1>e, <1>f, <2>1
  <2>2. CASE i \in 1..n
    <3>1. newRows[i] = rows[i]
      BY <1>e, <2>2
    <3>2. /\ rows[i].sourceRow = i /\ rows[i].itemRef \in 1..Len(items)
          /\ rows[i].stackCount = rows[i].listing.stackCount
          /\ Key(items[rows[i].itemRef]) = Key(IdentityOf(rows[i].listing))
      BY <1>a, <2>2 DEF Partial, Copied, RowsInPlace
    <3>3. newItems[rows[i].itemRef] = items[rows[i].itemRef]
      BY <1>f, <3>2
    <3>4. rows[i].itemRef \in 1..Len(newItems)
      BY <1>a, <1>f, <3>2
    <3>5. QED BY <3>1, <3>2, <3>3, <3>4
  <2>3. QED BY <2>1, <2>2
<1>3. KeysDiffer(new)
  BY <1>a, <1>b, <1>c, <1>f DEF Partial, Copied, KeysDiffer
<1>4. ItemsFromRows(new)
  <2> SUFFICES ASSUME NEW r \in 1..Len(newItems)
               PROVE  \E i \in 1..(n + 1) :
                        /\ newRows[i].itemRef = r
                        /\ newItems[r] = IdentityOf(newRows[i].listing)
                        /\ \A j \in 1..(i - 1) : newRows[j].itemRef # r
    BY <1>c, <1>e DEF ItemsFromRows
  <2>1. CASE r \in 1..Len(items)
    <3>1. PICK i \in 1..n : /\ rows[i].itemRef = r
                            /\ items[r] = IdentityOf(rows[i].listing)
                            /\ \A j \in 1..(i - 1) : rows[j].itemRef # r
      BY <1>a, <2>1 DEF Partial, Copied, ItemsFromRows
    <3>2. newRows[i] = rows[i] /\ \A j \in 1..(i - 1) : newRows[j] = rows[j]
      BY <1>e, <3>1
    <3>3. newItems[r] = items[r]
      BY <1>f, <2>1
    <3>4. QED BY <3>1, <3>2, <3>3
  <2>2. CASE r \notin 1..Len(items)
    <3>1. r = Len(items) + 1 /\ ref = r
      BY <1>a, <1>f, <2>2
    <3>2. \A j \in 1..n : newRows[j].itemRef # r
      BY <1>a, <1>e, <3>1 DEF Partial, Copied, RowsInPlace
    <3>3. newRows[n + 1].itemRef = r /\ newItems[r] = IdentityOf(newRows[n + 1].listing)
      BY <1>d, <1>e, <1>f, <3>1
    <3>4. QED BY <3>2, <3>3
  <2>3. QED BY <2>1, <2>2
<1>5. QED BY <1>1, <1>2, <1>3, <1>4, <1>c, <1>e DEF Partial, Copied, new

-----------------------------------------------------------------------------
(* The loop                                                                *)

\* The states of the loop of CopyRows.
Copying(f, scan, raw, first, last) ==
    f = [row \in (first - 1)..last |->
            IF row < first THEN scan ELSE CompactRow(f[row - 1], row, raw[row])]

\* The recursive function of CopyRows exists, so that what it says of each row holds.
LEMMA CopyingExists ==
    ASSUME NEW scan, NEW raw, NEW first \in Nat \ {0}, NEW last \in Nat, first <= last
    PROVE  \E f : Copying(f, scan, raw, first, last)
<1> DEFINE A == {n \in Int : \E f : Copying(f, scan, raw, first, n)}
<1>1. first - 1 \in A
  <2> DEFINE g == [row \in (first - 1)..(first - 1) |-> scan]
  <2>1. Copying(g, scan, raw, first, first - 1)
    BY DEF Copying
  <2>2. QED BY <2>1
<1>2. ASSUME NEW n \in (first - 1)..(last - 1), n \in A PROVE n + 1 \in A
  <2>1. PICK f : Copying(f, scan, raw, first, n)
    BY <1>2
  <2> DEFINE g == [row \in (first - 1)..(n + 1) |->
                      IF row = n + 1 THEN CompactRow(f[n], n + 1, raw[n + 1]) ELSE f[row]]
  <2>2. \A row \in (first - 1)..n : g[row] = f[row]
    OBVIOUS
  <2>3. \A row \in first..(n + 1) : g[row] = CompactRow(g[row - 1], row, raw[row])
    <3> SUFFICES ASSUME NEW row \in first..(n + 1)
                 PROVE  g[row] = CompactRow(g[row - 1], row, raw[row])
      OBVIOUS
    <3>1. CASE row = n + 1
      BY <2>2, <3>1
    <3>2. CASE row \in first..n
      <4>1. g[row] = f[row] /\ g[row - 1] = f[row - 1]
        BY <2>2, <3>2
      <4>2. f[row] = CompactRow(f[row - 1], row, raw[row])
        BY <2>1, <3>2 DEF Copying
      <4>3. QED BY <4>1, <4>2
    <3>3. QED BY <3>1, <3>2
  <2>4. g[first - 1] = scan
    BY <2>1, <2>2 DEF Copying
  <2>5. Copying(g, scan, raw, first, n + 1)
    <3>1. \A row \in (first - 1)..(n + 1) :
            g[row] = IF row < first THEN scan ELSE CompactRow(g[row - 1], row, raw[row])
      BY <2>3, <2>4, SMTT(30)
    <3>2. g = [row \in (first - 1)..(n + 1) |-> g[row]]
      OBVIOUS
    <3> HIDE DEF g
    <3>3. QED BY <3>1, <3>2 DEF Copying
  <2>6. QED BY <2>5
<1>3. (first - 1)..last \subseteq A
  <2> HIDE DEF A
  <2>1. first - 1 \in Int /\ last \in Int
    OBVIOUS
  <2>2. QED BY <1>1, <1>2, <2>1, LoopInduction
<1>4. QED BY <1>3

\* The loop copies the rows that are left, up to the last one it is given.
LEMMA RowsCopied ==
    ASSUME NEW raw \in Seq(Listing), NEW first \in 1..Len(raw), NEW last \in first..Len(raw),
           NEW scan, Partial(scan, first - 1, Len(raw))
    PROVE  /\ Partial(CopyRows(scan, raw, first, last), last, Len(raw))
           /\ CopyRows(scan, raw, first, last).id = scan.id
<1> DEFINE f == CHOOSE g : Copying(g, scan, raw, first, last)
           A == {n \in Int : Partial(f[n], n, Len(raw)) /\ f[n].id = scan.id}
<1>1. Copying(f, scan, raw, first, last)
  <2>1. first \in Nat \ {0} /\ last \in Nat /\ first <= last
    OBVIOUS
  <2>2. \E g : Copying(g, scan, raw, first, last)
    BY <2>1, CopyingExists
  <2>3. QED BY <2>2
<1>2. CopyRows(scan, raw, first, last) = f[last]
  BY DEF CopyRows, Copying
<1> HIDE DEF f
<1>3. f[first - 1] = scan
  BY <1>1 DEF Copying
<1>4. ASSUME NEW n \in (first - 1)..(last - 1), n \in A PROVE n + 1 \in A
  <2>1. f[n + 1] = CompactRow(f[n], n + 1, raw[n + 1])
    BY <1>1 DEF Copying
  <2>2. raw[n + 1] \in Listing /\ n \in Nat /\ n + 1 \in Int
    OBVIOUS
  <2>3. Partial(f[n], n, Len(raw)) /\ f[n].id = scan.id
    BY <1>4
  <2>4. Partial(f[n + 1], n + 1, Len(raw)) /\ f[n + 1].id = f[n].id
    <3> DEFINE t == Len(raw)
               g == f[n]
               listing == raw[n + 1]
    <3> HIDE DEF t, g, listing
    <3>1. listing \in Listing /\ Partial(g, n, t)
      BY <2>2, <2>3 DEF listing, g, t
    <3>2. /\ Partial(CompactRow(g, n + 1, listing), n + 1, t)
          /\ CompactRow(g, n + 1, listing).id = g.id
      BY <2>2, <3>1, RowCopied
    <3>3. f[n + 1] = CompactRow(g, n + 1, listing)
      BY <2>1 DEF g, listing
    <3>4. QED BY <3>2, <3>3 DEF g, t
  <2>5. QED BY <2>2, <2>3, <2>4
<1>5. (first - 1)..last \subseteq A
  <2>1. first - 1 \in A
    BY <1>3
  <2> HIDE DEF A
  <2>2. first - 1 \in Int /\ last \in Int
    OBVIOUS
  <2>3. QED BY <1>4, <2>1, <2>2, LoopInduction
<1>6. QED BY <1>2, <1>5

\* A scan of a delivery begins with no row.
LEMMA NewScanIsPartial ==
    ASSUME NEW d \in Deliveries, received \in 0..(MaxScans - 1)
    PROVE  Partial(NewScan(d), 0, Len(d.raw)) /\ NewScan(d).id = received + 1
<1>1. d.context \in Context /\ Len(d.raw) \in Nat /\ MaxScans \in Nat
  BY DeliveriesAssumption, SizesAssumption
<1>2. NewScan(d) \in Scans
  BY <1>1 DEF NewScan, Scans
<1>3. NewScan(d).items = <<>> /\ NewScan(d).rows = <<>>
  BY DEF NewScan
<1>4. QED
  BY <1>1, <1>2, <1>3
     DEF Partial, Copied, RowsInPlace, KeysDiffer, ItemsFromRows, House, NewScan

\* A scan with all its rows is whole when it is ready.
LEMMA ReadyIsStored ==
    ASSUME NEW scan, NEW n \in Nat, Partial(scan, n, n)
    PROVE  Stored(Ready(scan)) /\ Ready(scan).id = scan.id
<1>1. scan \in Scans /\ Len(scan.rows) \in Nat /\ Len(scan.items) \in Nat
  BY DEF Partial, Copied, Scans
<1>2. /\ Ready(scan) \in Scans
      /\ Ready(scan).rows = scan.rows /\ Ready(scan).items = scan.items
      /\ Ready(scan).auctionHouse = scan.auctionHouse /\ Ready(scan).context = scan.context
      /\ Ready(scan).status = "ready" /\ Ready(scan).id = scan.id
      /\ Ready(scan).exportedRowCount = Len(scan.rows)
      /\ Ready(scan).sourceRowCount = scan.sourceRowCount
      /\ Ready(scan).itemCount = Len(scan.items)
  BY <1>1 DEF Ready, Scans
<1>3. RowsInPlace(Ready(scan)) /\ KeysDiffer(Ready(scan)) /\ ItemsFromRows(Ready(scan))
  <2>1. RowsInPlace(scan) /\ KeysDiffer(scan) /\ ItemsFromRows(scan)
    BY DEF Partial, Copied
  <2>2. RowsInPlace(Ready(scan))
    BY <1>2, <2>1, Zenon DEF RowsInPlace
  <2>3. KeysDiffer(Ready(scan))
    BY <1>2, <2>1, Zenon DEF KeysDiffer
  <2>4. ItemsFromRows(Ready(scan))
    <3> DEFINE t == Ready(scan)
    <3>1. t.rows = scan.rows /\ t.items = scan.items
      BY <1>2
    <3> HIDE DEF t
    <3>2. ItemsFromRows(t)
      BY <2>1, <3>1 DEF ItemsFromRows
    <3>3. QED BY <3>2 DEF t
  <2>5. QED BY <2>2, <2>3, <2>4
<1>4. QED BY <1>2, <1>3 DEF Partial, Stored, Copied

-----------------------------------------------------------------------------
(* The inductive invariant                                                 *)

StoredScans == {scan \in Scans : Stored(scan)}

\* What is stored, also on disk.
QueueOK ==
    /\ pending \in Seq(StoredScans) /\ Len(pending) <= MaxPending
    /\ disk \in Seq(StoredScans) /\ Len(disk) <= MaxPending

\* The scans of the session are the newest in the queue, and no more than were
\* counted; when as many were counted as there is room for, the user knows.
SessionOK ==
    /\ session \subseteq Ids(pending)
    /\ \A i \in 1..Len(pending) : pending[i].id \in session => Len(pending) - i < captures
    /\ captures >= MaxPending => warned
    /\ captures \in Nat /\ warned \in BOOLEAN /\ needsHandoff \in BOOLEAN

\* The scan in the making has all the rows before the next one.
InTheMaking(a) ==
    /\ a \in [scan : Scans, raw : Seq(Listing), nextRow : Nat]
    /\ a.nextRow \in 1..Len(a.raw) /\ Partial(a.scan, a.nextRow - 1, Len(a.raw))

ActiveOK ==
    /\ active # <<>> => active = <<active[1]>> /\ InTheMaking(active[1])
    /\ timer \in BOOLEAN /\ (timer <=> active # <<>>)

\* A scan has an id that none before it had.
IdsOK ==
    /\ received \in 0..MaxScans /\ captures + (IF active = <<>> THEN 0 ELSE 1) <= received
    /\ \A i \in 1..Len(pending) : pending[i].id <= received
    /\ \A i \in 1..Len(disk) : disk[i].id <= received
    /\ active # <<>> => /\ active[1].scan.id <= received
                        /\ \A i \in 1..Len(pending) : pending[i].id < active[1].scan.id

AddonInv == QueueOK /\ SessionOK /\ ActiveOK /\ IdsOK

-----------------------------------------------------------------------------
(* Its proof                                                               *)

LEMMA AddonBegin == Init => AddonInv
<1> SUFFICES ASSUME Init PROVE AddonInv
  OBVIOUS
<1>1. MaxPending \in Nat \ {0} /\ MaxScans \in Nat
  BY SizesAssumption
<1>2. <<>> \in Seq(StoredScans) /\ Len(<<>>) = 0
  OBVIOUS
<1>3. QueueOK
  BY <1>1, <1>2 DEF Init, QueueOK
<1>4. SessionOK
  <2>1. \A i \in 1..Len(pending) : pending[i].id \in session => Len(pending) - i < captures
    BY <1>2 DEF Init
  <2>2. captures \in Nat /\ (captures >= MaxPending => warned)
    BY <1>1 DEF Init
  <2>3. warned \in BOOLEAN /\ needsHandoff \in BOOLEAN /\ session \subseteq Ids(pending)
    BY DEF Init
  <2>4. QED BY <2>1, <2>2, <2>3 DEF SessionOK
<1>5. ActiveOK
  BY DEF Init, ActiveOK
<1>6. IdsOK
  BY <1>1, <1>2 DEF Init, IdsOK
<1>7. QED BY <1>3, <1>4, <1>5, <1>6 DEF AddonInv

\* TrimQueue makes room for one, and takes out the oldest at most.
LEMMA Trimmed ==
    ASSUME NEW scans \in Seq(StoredScans), Len(scans) <= MaxPending
    PROVE  \E k \in {0, 1} :
             /\ k = 1 => Len(scans) = MaxPending
             /\ TrimQueue(scans) \in Seq(StoredScans)
             /\ Len(TrimQueue(scans)) = Len(scans) - k
             /\ Len(TrimQueue(scans)) < MaxPending
             /\ \A i \in 1..(Len(scans) - k) : TrimQueue(scans)[i] = scans[i + k]
<1>a. Len(scans) \in Nat /\ MaxPending \in Nat \ {0}
  BY SizesAssumption
<1> DEFINE k == IF Len(scans) >= MaxPending THEN (Len(scans) + 1) - MaxPending ELSE 0
<1>1. k \in {0, 1} /\ (k = 1 => Len(scans) = MaxPending) /\ Len(scans) - k < MaxPending
      /\ k <= Len(scans)
  BY <1>a
<1>2. TrimQueue(scans) = SubSeq(scans, 1 + k, Len(scans))
  BY DEF TrimQueue
<1> HIDE DEF k
<1>3. \A i \in (1 + k)..Len(scans) : scans[i] \in StoredScans
  BY <1>1
<1>4. 1 + k \in Int /\ Len(scans) \in Int
  BY <1>a, <1>1
<1>5. /\ TrimQueue(scans) \in Seq(StoredScans)
      /\ Len(TrimQueue(scans)) = IF 1 + k <= Len(scans) THEN Len(scans) - (1 + k) + 1 ELSE 0
      /\ \A i \in 1..(Len(scans) - (1 + k) + 1) : TrimQueue(scans)[i] = scans[(1 + k) + i - 1]
  <2> DEFINE m == 1 + k
             n == Len(scans)
  <2>1. m \in Int /\ n \in Int /\ \A i \in m..n : scans[i] \in StoredScans
    BY <1>3, <1>4
  <2> HIDE DEF m, n
  <2>2. /\ SubSeq(scans, m, n) \in Seq(StoredScans)
        /\ Len(SubSeq(scans, m, n)) = IF m <= n THEN n - m + 1 ELSE 0
        /\ \A i \in 1..(n - m + 1) : SubSeq(scans, m, n)[i] = scans[m + i - 1]
    BY <2>1, SubSeqProperties
  <2>3. QED BY <1>2, <2>2 DEF m, n
<1>6. Len(TrimQueue(scans)) = Len(scans) - k
  BY <1>a, <1>1, <1>5
<1>7. ASSUME NEW i \in 1..(Len(scans) - k) PROVE TrimQueue(scans)[i] = scans[i + k]
  <2>1. i \in 1..(Len(scans) - (1 + k) + 1) /\ (1 + k) + i - 1 = i + k
    BY <1>a, <1>1
  <2>2. QED BY <1>5, <2>1
<1>8. QED BY <1>1, <1>5, <1>6, <1>7

Pushed(scans, scan) == Append(TrimQueue(scans), scan)

\* A whole scan is added to the queue, after what made room for it.
LEMMA Added ==
    ASSUME NEW scans \in Seq(StoredScans), Len(scans) <= MaxPending,
           NEW scan, Stored(scan),
           NEW queue, queue = Pushed(scans, scan)
    PROVE  /\ queue \in Seq(StoredScans) /\ Len(queue) <= MaxPending
           /\ \E k \in {0, 1} :
                /\ k = 1 => Len(scans) = MaxPending
                /\ Len(queue) = Len(scans) - k + 1
                /\ queue[Len(queue)] = scan
                /\ \A i \in 1..(Len(queue) - 1) : queue[i] = scans[i + k]
<1>1. scan \in StoredScans /\ Len(scans) \in Nat /\ MaxPending \in Nat
  BY SizesAssumption DEF StoredScans, Stored, Copied
<1>2. PICK k \in {0, 1} :
         /\ k = 1 => Len(scans) = MaxPending
         /\ TrimQueue(scans) \in Seq(StoredScans)
         /\ Len(TrimQueue(scans)) = Len(scans) - k
         /\ Len(TrimQueue(scans)) < MaxPending
         /\ \A i \in 1..(Len(scans) - k) : TrimQueue(scans)[i] = scans[i + k]
  BY Trimmed
<1>3. /\ queue \in Seq(StoredScans) /\ Len(queue) = Len(TrimQueue(scans)) + 1
      /\ queue[Len(queue)] = scan
      /\ \A i \in 1..Len(TrimQueue(scans)) : queue[i] = TrimQueue(scans)[i]
  BY <1>1, <1>2 DEF Pushed
<1>4. QED BY <1>1, <1>2, <1>3

\* What Finish leaves: the queue, the session and the warning, and what it says of
\* a scan of the session that is gone.
LEMMA Finishing ==
    ASSUME QueueOK, SessionOK, NEW scan, Stored(Ready(scan)), Ready(scan).id = scan.id,
           \A i \in 1..Len(pending) : pending[i].id < scan.id,
           Finish(scan), UNCHANGED disk
    PROVE  /\ QueueOK' /\ SessionOK' /\ captures' = captures + 1
           /\ \A i \in 1..Len(pending') : pending'[i].id <= scan.id
           /\ \A id \in session : id \notin Ids(pending') => warned
<1>a. /\ pending \in Seq(StoredScans) /\ Len(pending) <= MaxPending
      /\ Len(pending) \in Nat /\ captures \in Nat /\ MaxPending \in Nat \ {0}
      /\ pending' = Pushed(pending, Ready(scan)) /\ captures' = captures + 1
      /\ scan.id \in Nat
  <2>1. Ready(scan).id \in Nat
    BY DEF Stored, Copied, Scans
  <2>2. QED BY <2>1, SizesAssumption DEF QueueOK, SessionOK, Finish, Pushed
<1>e. \A i \in 1..Len(pending) : pending[i].id \in Nat
  <2>1. \A s \in StoredScans : s.id \in Nat
    BY SizesAssumption DEF StoredScans, Scans
  <2>2. QED BY <1>a, <2>1
<1>b. /\ pending' \in Seq(StoredScans) /\ Len(pending') <= MaxPending
      /\ \E k \in {0, 1} :
           /\ k = 1 => Len(pending) = MaxPending
           /\ Len(pending') = Len(pending) - k + 1
           /\ pending'[Len(pending')] = Ready(scan)
           /\ \A i \in 1..(Len(pending') - 1) : pending'[i] = pending[i + k]
  <2> DEFINE queue == Pushed(pending, Ready(scan))
  <2> HIDE DEF queue
  <2>1. /\ queue \in Seq(StoredScans) /\ Len(queue) <= MaxPending
        /\ \E k \in {0, 1} :
             /\ k = 1 => Len(pending) = MaxPending
             /\ Len(queue) = Len(pending) - k + 1
             /\ queue[Len(queue)] = Ready(scan)
             /\ \A i \in 1..(Len(queue) - 1) : queue[i] = pending[i + k]
    BY <1>a, Added, SMTT(30) DEF queue
  <2>2. pending' = queue
    BY <1>a DEF queue
  <2>3. QED BY <2>1, <2>2
<1>c. PICK k \in {0, 1} :
           /\ k = 1 => Len(pending) = MaxPending
           /\ Len(pending') = Len(pending) - k + 1
           /\ pending'[Len(pending')] = Ready(scan)
           /\ \A i \in 1..(Len(pending') - 1) : pending'[i] = pending[i + k]
  BY <1>b
<1>1. QueueOK'
  BY <1>b DEF QueueOK
<1>2. Len(pending') \in 1..MaxPending /\ k <= Len(pending)
  BY <1>a, <1>b, <1>c
<1>d. \A id \in Ids(pending) :
        \/ id \in Ids(pending')
        \/ k = 1 /\ id = pending[1].id
  <2> SUFFICES ASSUME NEW i \in 1..Len(pending)
               PROVE  \/ pending[i].id \in Ids(pending')
                      \/ k = 1 /\ pending[i].id = pending[1].id
    <3>1. DOMAIN pending = 1..Len(pending)
      BY <1>a
    <3>2. QED BY <3>1 DEF Ids
  <2>1. CASE i > k
    <3>1. i - k \in 1..(Len(pending') - 1) /\ (i - k) + k = i
      BY <1>a, <1>c, <2>1
    <3>2. pending'[i - k] = pending[i]
      BY <1>c, <3>1
    <3>3. i - k \in DOMAIN pending'
      BY <1>b, <3>1
    <3>4. QED BY <3>2, <3>3 DEF Ids
  <2>2. CASE i = 1 /\ k = 1
    BY <2>2
  <2>3. QED BY <1>a, <2>1, <2>2
<1>3. \A i \in 1..Len(pending') : pending'[i].id <= scan.id
  <2> SUFFICES ASSUME NEW i \in 1..Len(pending') PROVE pending'[i].id <= scan.id
    OBVIOUS
  <2>1. CASE i = Len(pending')
    BY <1>a, <1>c, <2>1
  <2>2. CASE i \in 1..(Len(pending') - 1)
    <3>1. pending'[i] = pending[i + k] /\ i + k \in 1..Len(pending)
      BY <1>a, <1>c, <2>2
    <3>2. pending[i + k].id < scan.id /\ pending[i + k].id \in Nat
      BY <1>e, <3>1
    <3>3. QED BY <1>a, <3>1, <3>2
  <2>3. QED BY <1>2, <2>1, <2>2
<1>4. \A id \in session : id \notin Ids(pending') => warned
  <2> SUFFICES ASSUME NEW id \in session, id \notin Ids(pending') PROVE warned
    OBVIOUS
  <2>1. id \in Ids(pending)
    BY DEF SessionOK
  <2>2. k = 1 /\ id = pending[1].id /\ Len(pending) = MaxPending
    BY <1>c, <1>d, <2>1
  <2>3. Len(pending) - 1 < captures
    BY <1>a, <2>2 DEF SessionOK
  <2>4. QED BY <1>a, <2>2, <2>3 DEF SessionOK
<1>5. SessionOK'
  <2>1. session' \subseteq Ids(pending')
    <3>1. Ready(scan).id \in Ids(pending')
      BY <1>b, <1>c, <1>2 DEF Ids
    <3>2. Ids(TrimQueue(pending)) \subseteq Ids(pending')
      <4>1. /\ TrimQueue(pending) \in Seq(StoredScans)
        BY <1>a, Trimmed
      <4>2. \A i \in 1..Len(TrimQueue(pending)) : /\ pending'[i] = TrimQueue(pending)[i]
                                                 /\ i \in DOMAIN pending'
        <5> DEFINE q == TrimQueue(pending)
        <5>1. pending' = Append(q, Ready(scan)) /\ q \in Seq(StoredScans)
          BY <1>a, <4>1 DEF Pushed
        <5> HIDE DEF q
        <5>2. \A i \in 1..Len(q) : pending'[i] = q[i] /\ i \in DOMAIN pending'
          BY <5>1
        <5>3. QED BY <5>2 DEF q
      <4>3. QED BY <4>1, <4>2 DEF Ids
    <3>3. QED BY <3>1, <3>2 DEF Finish, SessionOK
  <2>2. ASSUME NEW i \in 1..Len(pending'), pending'[i].id \in session'
        PROVE  Len(pending') - i < captures'
    <3>1. CASE i = Len(pending')
      BY <1>a, <1>2, <3>1
    <3>2. CASE i \in 1..(Len(pending') - 1)
      <4>1. pending'[i] = pending[i + k] /\ i + k \in 1..Len(pending)
        BY <1>a, <1>c, <3>2
      <4>2. pending[i + k].id < scan.id /\ pending[i + k].id \in Nat
        BY <1>e, <4>1
      <4>3. pending[i + k].id \in session
        BY <1>a, <2>2, <4>1, <4>2 DEF Finish
      <4>4. Len(pending) - (i + k) < captures
        BY <4>1, <4>3 DEF SessionOK
      <4>5. QED BY <1>a, <1>c, <4>4
    <3>3. QED BY <1>2, <3>1, <3>2
  <2>3. captures' >= MaxPending => warned'
    <3>1. warned' = (warned \/ captures' = MaxPending)
      BY DEF Finish
    <3>2. captures >= MaxPending => warned
      BY DEF SessionOK
    <3>3. captures' >= MaxPending => captures >= MaxPending \/ captures' = MaxPending
      BY <1>a
    <3>4. QED BY <3>1, <3>2, <3>3
  <2>4. captures' \in Nat /\ warned' \in BOOLEAN /\ needsHandoff' \in BOOLEAN
    BY <1>a DEF Finish, SessionOK
  <2>5. QED BY <2>1, <2>2, <2>3, <2>4 DEF SessionOK
<1>6. QED BY <1>a, <1>1, <1>3, <1>4, <1>5

\* A scan in the making has its rows before nextRow, and is the newest.
LEMMA ActiveFacts ==
    ASSUME AddonInv, active # <<>>
    PROVE  /\ active = <<active[1]>> /\ InTheMaking(active[1])
           /\ active[1].raw \in Seq(Listing) /\ active[1].nextRow \in 1..Len(active[1].raw)
           /\ Partial(active[1].scan, active[1].nextRow - 1, Len(active[1].raw))
           /\ active[1].scan.id <= received
           /\ \A i \in 1..Len(pending) : pending[i].id < active[1].scan.id
BY DEF AddonInv, ActiveOK, InTheMaking, IdsOK

\* A batch, and what CompleteNow does with all the rows that are left.
LEMMA BatchCopied ==
    ASSUME AddonInv, active # <<>>,
           NEW last \in active[1].nextRow..Len(active[1].raw),
           NEW scan, scan = CopyRows(active[1].scan, active[1].raw, active[1].nextRow, last)
    PROVE  Partial(scan, last, Len(active[1].raw)) /\ scan.id = active[1].scan.id
BY ActiveFacts, RowsCopied

\* The scan that the last batch completes is whole.
LEMMA CompletedIsStored ==
    ASSUME AddonInv, active # <<>>
    PROVE  Stored(Completed) /\ Completed.id = active[1].scan.id
<1> DEFINE n == Len(active[1].raw)
           scan == CopyRows(active[1].scan, active[1].raw, active[1].nextRow, n)
<1>1. n \in active[1].nextRow..n /\ n \in Nat
  BY ActiveFacts
<1>2. Partial(scan, n, n) /\ scan.id = active[1].scan.id
  BY <1>1, BatchCopied
<1>3. Completed = Ready(scan)
  BY DEF Completed
<1> HIDE DEF n, scan
<1>4. QED BY <1>1, <1>2, <1>3, ReadyIsStored

LEMMA BeginStep ==
    ASSUME AddonInv, NEW d \in Deliveries, Begin(d)
    PROVE  AddonInv'
<1>a. received \in 0..(MaxScans - 1) /\ MaxScans \in Nat /\ MaxPending \in Nat \ {0}
  BY SizesAssumption DEF AddonInv, IdsOK, Begin
<1>b. Partial(NewScan(d), 0, Len(d.raw)) /\ NewScan(d).id = received + 1
  BY <1>a, NewScanIsPartial
<1>c. d.raw \in Seq(Listing) /\ Len(d.raw) \in Nat \ {0}
  BY DeliveriesAssumption DEF Begin
<1> DEFINE a == [scan |-> NewScan(d), raw |-> d.raw, nextRow |-> 1]
<1>1. InTheMaking(a)
  <2>1. NewScan(d) \in Scans
    BY <1>b DEF Partial, Copied
  <2>2. QED BY <1>b, <1>c, <2>1 DEF InTheMaking
<1>2. active' = <<a>> /\ active'[1] = a /\ active' # <<>> /\ a.scan.id = received + 1
  BY <1>b DEF Begin
<1> HIDE DEF a
<1>3. ActiveOK'
  BY <1>1, <1>2 DEF ActiveOK, Begin
<1>4. QueueOK' /\ SessionOK'
  BY DEF AddonInv, QueueOK, SessionOK, Begin, Ids
<1>e. \A s \in StoredScans : s.id \in Nat
  BY <1>a DEF StoredScans, Scans
<1>f. /\ \A i \in 1..Len(pending) : pending[i].id \in Nat /\ pending[i].id <= received
      /\ \A i \in 1..Len(disk) : disk[i].id \in Nat /\ disk[i].id <= received
      /\ captures \in Nat /\ captures <= received
  BY <1>a, <1>e DEF AddonInv, QueueOK, SessionOK, IdsOK, Begin
<1>5. IdsOK'
  BY <1>a, <1>2, <1>f, SMTT(30) DEF IdsOK, Begin
<1>6. QED BY <1>3, <1>4, <1>5 DEF AddonInv

LEMMA BeginEmptyStep ==
    ASSUME AddonInv, NEW d \in Deliveries, BeginEmpty(d)
    PROVE  AddonInv' /\ \A id \in session : id \notin Ids(pending') => warned
<1>a. /\ received \in 0..(MaxScans - 1) /\ MaxScans \in Nat /\ received' = received + 1
      /\ Finish(NewScan(d)) /\ UNCHANGED disk /\ active = <<>> /\ active' = <<>>
  BY SizesAssumption DEF AddonInv, IdsOK, BeginEmpty, Finish
<1>b. Partial(NewScan(d), 0, 0) /\ NewScan(d).id = received + 1
  BY <1>a, NewScanIsPartial DEF BeginEmpty
<1>c. Stored(Ready(NewScan(d))) /\ Ready(NewScan(d)).id = NewScan(d).id
  BY <1>b, ReadyIsStored
<1>e. \A s \in StoredScans : s.id \in Nat
  BY <1>a DEF StoredScans, Scans
<1>f. /\ \A i \in 1..Len(pending) : pending[i].id \in Nat /\ pending[i].id <= received
      /\ \A i \in 1..Len(disk) : disk[i].id \in Nat /\ disk[i].id <= received
      /\ captures \in Nat /\ captures <= received
  BY <1>a, <1>e DEF AddonInv, QueueOK, SessionOK, IdsOK
<1>g. \A i \in 1..Len(pending) : pending[i].id < NewScan(d).id
  BY <1>a, <1>b, <1>f
<1>1. /\ QueueOK' /\ SessionOK' /\ captures' = captures + 1
      /\ \A i \in 1..Len(pending') : pending'[i].id <= NewScan(d).id
      /\ \A id \in session : id \notin Ids(pending') => warned
  BY <1>a, <1>c, <1>g, Finishing DEF AddonInv
<1>2. ActiveOK'
  BY <1>a DEF AddonInv, ActiveOK, BeginEmpty
<1>3. IdsOK'
  BY <1>a, <1>b, <1>f, <1>1 DEF IdsOK
<1>4. QED BY <1>1, <1>2, <1>3 DEF AddonInv

LEMMA BatchStep ==
    ASSUME AddonInv, ProcessBatch
    PROVE  /\ AddonInv'
           /\ captures' > captures => \A id \in session : id \notin Ids(pending') => warned
<1> DEFINE a == active[1]
           stopAt == Min({a.nextRow + BatchSize - 1, Len(a.raw)})
           scan == CopyRows(a.scan, a.raw, a.nextRow, stopAt)
<1>a. /\ active # <<>> /\ active = <<a>> /\ InTheMaking(a) /\ UNCHANGED <<disk, received>>
      /\ a.raw \in Seq(Listing) /\ a.nextRow \in 1..Len(a.raw)
      /\ a.scan.id <= received /\ \A i \in 1..Len(pending) : pending[i].id < a.scan.id
  BY ActiveFacts DEF ProcessBatch
<1>b. stopAt \in a.nextRow..Len(a.raw) /\ Len(a.raw) \in Nat
  <2> DEFINE m == a.nextRow + BatchSize - 1
             n == Len(a.raw)
  <2>1. m \in Nat /\ n \in Nat /\ a.nextRow <= m /\ a.nextRow <= n
    BY <1>a, SizesAssumption
  <2> HIDE DEF m, n
  <2>2. Min({m, n}) \in {m, n} /\ Min({m, n}) <= m /\ Min({m, n}) <= n
    <3>1. \E x \in {m, n} : \A y \in {m, n} : x <= y
      BY <2>1
    <3>2. QED BY <3>1 DEF Min
  <2>3. stopAt = Min({m, n})
    BY DEF m, n
  <2>4. QED BY <1>a, <2>1, <2>2, <2>3 DEF n
<1>c. /\ IF stopAt = Len(a.raw)
         THEN Finish(scan) /\ timer' = FALSE
         ELSE /\ active' = <<[a EXCEPT !.scan = scan, !.nextRow = stopAt + 1]>>
              /\ UNCHANGED <<pending, timer, captures, needsHandoff, session, warned>>
      /\ timer
  BY DEF ProcessBatch
<1> HIDE DEF stopAt
<1>d. Partial(scan, stopAt, Len(a.raw)) /\ scan.id = a.scan.id
  BY <1>a, <1>b, BatchCopied
<1> HIDE DEF scan, a
<1>e. /\ received \in 0..MaxScans /\ MaxScans \in Nat /\ captures \in Nat
      /\ captures + 1 <= received /\ \A i \in 1..Len(disk) : disk[i].id <= received
  BY <1>a, SizesAssumption DEF AddonInv, IdsOK, SessionOK
<1>1. CASE stopAt = Len(a.raw)
  <2>1. Finish(scan) /\ timer' = FALSE /\ active' = <<>>
    BY <1>c, <1>1 DEF Finish
  <2>2. Stored(Ready(scan)) /\ Ready(scan).id = scan.id
    BY <1>b, <1>d, <1>1, ReadyIsStored
  <2>3. /\ QueueOK' /\ SessionOK' /\ captures' = captures + 1
        /\ \A i \in 1..Len(pending') : pending'[i].id <= scan.id
        /\ \A id \in session : id \notin Ids(pending') => warned
    BY <1>a, <1>d, <2>1, <2>2, Finishing DEF AddonInv
  <2>4. ActiveOK'
    BY <2>1 DEF ActiveOK
  <2>5. IdsOK'
    <3>1. \A i \in 1..Len(pending') : pending'[i].id <= received
      <4>1. \A i \in 1..Len(pending') : pending'[i].id \in Nat
        <5>1. \A s \in StoredScans : s.id \in Nat
          BY <1>e DEF StoredScans, Scans
        <5>2. QED BY <2>3, <5>1 DEF QueueOK
      <4>2. scan.id \in Nat
        BY <1>d, <1>e DEF Partial, Copied, Scans
      <4>3. QED BY <1>a, <1>d, <1>e, <2>3, <4>1, <4>2
    <3>2. QED BY <1>a, <1>e, <2>1, <2>3, <3>1 DEF IdsOK
  <2>6. QED BY <2>3, <2>4, <2>5 DEF AddonInv
<1>2. CASE stopAt # Len(a.raw)
  <2> DEFINE b == [a EXCEPT !.scan = scan, !.nextRow = stopAt + 1]
  <2>1. active' = <<b>> /\ UNCHANGED <<pending, timer, captures, needsHandoff, session, warned>>
    BY <1>c, <1>2
  <2>2. /\ b.scan = scan /\ b.nextRow = stopAt + 1 /\ b.raw = a.raw
        /\ b \in [scan : Scans, raw : Seq(Listing), nextRow : Nat]
    <3> DEFINE next == stopAt + 1
    <3>1. scan \in Scans /\ next \in Nat
      BY <1>a, <1>b, <1>d DEF Partial, Copied
    <3>2. a \in [scan : Scans, raw : Seq(Listing), nextRow : Nat]
      BY <1>a DEF InTheMaking
    <3> HIDE DEF next
    <3>3. /\ [a EXCEPT !.scan = scan, !.nextRow = next]
                 \in [scan : Scans, raw : Seq(Listing), nextRow : Nat]
          /\ [a EXCEPT !.scan = scan, !.nextRow = next].scan = scan
          /\ [a EXCEPT !.scan = scan, !.nextRow = next].nextRow = next
          /\ [a EXCEPT !.scan = scan, !.nextRow = next].raw = a.raw
      <4> DEFINE T == Seq(Listing)
                 S == Scans
      <4>1. a \in [scan : S, raw : T, nextRow : Nat] /\ scan \in S
        BY <3>1, <3>2
      <4> HIDE DEF T, S
      <4>2. QED BY <3>1, <4>1 DEF T, S
    <3>4. QED BY <3>3 DEF next
  <2> HIDE DEF b
  <2>3. InTheMaking(b)
    <3>1. b.nextRow \in 1..Len(b.raw)
      BY <1>b, <1>2, <2>2, <1>a
    <3>2. b.nextRow - 1 = stopAt
      BY <1>a, <1>b, <2>2
    <3>3. Partial(b.scan, b.nextRow - 1, Len(b.raw))
      BY <1>d, <2>2, <3>2
    <3>4. QED BY <2>2, <3>1, <3>3 DEF InTheMaking
  <2>4. active'[1] = b /\ active' # <<>> /\ active' = <<active'[1]>>
    BY <2>1
  <2>5. ActiveOK'
    BY <1>a, <1>c, <2>1, <2>3, <2>4 DEF AddonInv, ActiveOK
  <2>6. QueueOK' /\ SessionOK'
    BY <1>a, <2>1 DEF AddonInv, QueueOK, SessionOK, Ids
  <2>7. IdsOK'
    BY <1>a, <1>d, <2>1, <2>2, <2>4 DEF AddonInv, IdsOK
  <2>8. QED BY <1>e, <2>1, <2>5, <2>6, <2>7 DEF AddonInv
<1>3. QED BY <1>1, <1>2

LEMMA LoadsStep ==
    ASSUME AddonInv, NEW saved \in Seq(StoredScans), Len(saved) <= MaxPending,
           \A i \in 1..Len(saved) : saved[i].id <= received,
           Loads(saved)
    PROVE  AddonInv'
<1>a. /\ MaxPending \in Nat \ {0} /\ received \in 0..MaxScans /\ MaxScans \in Nat
      /\ UNCHANGED received /\ captures' = 0 /\ session' = {} /\ active' = <<>> /\ timer' = FALSE
      /\ disk' = saved /\ (pending' = saved \/ pending' = <<>>)
      /\ needsHandoff' = FALSE /\ warned' = FALSE
  BY SizesAssumption DEF AddonInv, IdsOK, Loads
<1>b. <<>> \in Seq(StoredScans) /\ Len(<<>>) = 0
  OBVIOUS
<1>1. QueueOK'
  <2>1. pending' \in Seq(StoredScans) /\ Len(pending') <= MaxPending
    <3>1. CASE pending' = saved
      BY <3>1
    <3>2. CASE pending' = <<>>
      BY <1>a, <1>b, <3>2
    <3>3. QED BY <1>a, <3>1, <3>2
  <2>2. disk' \in Seq(StoredScans) /\ Len(disk') <= MaxPending
    BY <1>a
  <2>3. QED BY <2>1, <2>2 DEF QueueOK
<1>2. SessionOK'
  <2>1. \A i \in 1..Len(pending') : pending'[i].id \in session' => Len(pending') - i < captures'
    BY <1>a
  <2>2. captures' \in Nat /\ (captures' >= MaxPending => warned')
    BY <1>a
  <2>3. warned' \in BOOLEAN /\ needsHandoff' \in BOOLEAN /\ session' \subseteq Ids(pending')
    BY <1>a
  <2>4. QED BY <2>1, <2>2, <2>3 DEF SessionOK
<1>3. ActiveOK'
  BY <1>a DEF ActiveOK
<1>4. IdsOK'
  BY <1>a, <1>b DEF IdsOK
<1>5. QED BY <1>1, <1>2, <1>3, <1>4 DEF AddonInv

LEMMA IgnoredStep ==
    ASSUME AddonInv, BeginIgnored PROVE AddonInv'
<1>a. /\ received \in 0..(MaxScans - 1) /\ MaxScans \in Nat /\ received' = received + 1
      /\ UNCHANGED <<pending, active, timer, captures, needsHandoff, session, warned, disk>>
  BY SizesAssumption DEF AddonInv, IdsOK, BeginIgnored
<1>e. \A s \in StoredScans : s.id \in Nat
  BY <1>a DEF StoredScans, Scans
<1>f. /\ \A i \in 1..Len(pending) : pending[i].id \in Nat /\ pending[i].id <= received
      /\ \A i \in 1..Len(disk) : disk[i].id \in Nat /\ disk[i].id <= received
      /\ captures \in Nat /\ captures + (IF active = <<>> THEN 0 ELSE 1) <= received
  BY <1>a, <1>e DEF AddonInv, QueueOK, SessionOK, IdsOK
<1>g. active # <<>> => active[1].scan.id \in Nat
  BY <1>a, ActiveFacts DEF AddonInv, Partial, Copied, Scans
<1>1. QueueOK' /\ SessionOK' /\ ActiveOK'
  BY <1>a DEF AddonInv, QueueOK, SessionOK, ActiveOK, InTheMaking, Ids
<1>2. IdsOK'
  BY <1>a, <1>f, <1>g DEF AddonInv, IdsOK
<1>3. QED BY <1>1, <1>2 DEF AddonInv

LEMMA ClearStep ==
    ASSUME AddonInv, ClearStoredScans PROVE AddonInv'
<1>a. /\ MaxPending \in Nat \ {0} /\ received \in 0..MaxScans /\ MaxScans \in Nat
      /\ captures \in Nat
      /\ pending' = <<>> /\ needsHandoff' = FALSE /\ captures' = 0 /\ session' = {}
      /\ warned' = FALSE /\ UNCHANGED <<active, timer, disk, received>>
  BY SizesAssumption DEF AddonInv, IdsOK, SessionOK, ClearStoredScans
<1>b. <<>> \in Seq(StoredScans) /\ Len(<<>>) = 0
  OBVIOUS
<1>1. QueueOK'
  BY <1>a, <1>b DEF AddonInv, QueueOK
<1>2. SessionOK'
  <2>1. captures' \in Nat /\ (captures' >= MaxPending => warned')
    BY <1>a
  <2>2. warned' \in BOOLEAN /\ needsHandoff' \in BOOLEAN /\ session' \subseteq Ids(pending')
    BY <1>a
  <2>3. QED BY <1>a, <2>1, <2>2 DEF SessionOK
<1>3. ActiveOK'
  BY <1>a DEF AddonInv, ActiveOK, InTheMaking
<1>4. IdsOK'
  BY <1>a, <1>b DEF AddonInv, IdsOK
<1>5. QED BY <1>1, <1>2, <1>3, <1>4 DEF AddonInv

\* A logout writes the queue, with the scan in the making completed.
LEMMA LogoutStep ==
    ASSUME AddonInv, Logout PROVE AddonInv'
<1>1. CASE active = <<>>
  <2>1. Loads(pending)
    BY <1>1 DEF Logout
  <2>2. QED BY <2>1, LoadsStep DEF AddonInv, QueueOK, IdsOK
<1>2. CASE active # <<>>
  <2> DEFINE queue == Pushed(pending, Completed)
  <2>1. Loads(queue)
    BY <1>2 DEF Logout, Pushed
  <2>2. Stored(Completed) /\ Completed.id = active[1].scan.id
    BY <1>2, CompletedIsStored
  <2>3. pending \in Seq(StoredScans) /\ Len(pending) <= MaxPending
    BY DEF AddonInv, QueueOK
  <2> HIDE DEF queue
  <2>4. /\ queue \in Seq(StoredScans) /\ Len(queue) <= MaxPending
        /\ \E k \in {0, 1} :
             /\ k = 1 => Len(pending) = MaxPending
             /\ Len(queue) = Len(pending) - k + 1
             /\ queue[Len(queue)] = Completed
             /\ \A i \in 1..(Len(queue) - 1) : queue[i] = pending[i + k]
    BY <2>2, <2>3, Added DEF queue
  <2>5. ASSUME NEW i \in 1..Len(queue) PROVE queue[i].id <= received
    <3>1. PICK k \in {0, 1} :
             /\ Len(queue) = Len(pending) - k + 1
             /\ queue[Len(queue)] = Completed
             /\ \A j \in 1..(Len(queue) - 1) : queue[j] = pending[j + k]
      BY <2>4
    <3>2. CASE i = Len(queue)
      BY <1>2, <2>2, <3>1, <3>2, ActiveFacts
    <3>3. CASE i # Len(queue)
      <4>1. i \in 1..(Len(queue) - 1) /\ i + k \in 1..Len(pending)
        BY <2>3, <2>4, <3>1, <3>3
      <4>2. queue[i] = pending[i + k]
        BY <3>1, <4>1
      <4>3. pending[i + k].id <= received
        BY <4>1 DEF AddonInv, IdsOK
      <4>4. QED BY <4>2, <4>3
    <3>4. QED BY <3>2, <3>3
  <2>6. QED BY <2>1, <2>4, <2>5, LoadsStep
<1>3. QED BY <1>1, <1>2

LEMMA CrashStep ==
    ASSUME AddonInv, ClientCrash PROVE AddonInv'
BY LoadsStep DEF ClientCrash, AddonInv, QueueOK, IdsOK

LEMMA AddonStep == AddonInv /\ [Next]_addonVars => AddonInv'
<1> SUFFICES ASSUME AddonInv, [Next]_addonVars PROVE AddonInv'
  OBVIOUS
<1>1. ASSUME NEW d \in Deliveries, Begin(d) PROVE AddonInv'
  BY <1>1, BeginStep
<1>2. ASSUME NEW d \in Deliveries, BeginEmpty(d) PROVE AddonInv'
  BY <1>2, BeginEmptyStep
<1>3. CASE BeginIgnored
  BY <1>3, IgnoredStep
<1>4. CASE ProcessBatch
  BY <1>4, BatchStep
<1>5. CASE ClearStoredScans
  BY <1>5, ClearStep
<1>6. CASE Logout
  BY <1>6, LogoutStep
<1>7. CASE ClientCrash
  BY <1>7, CrashStep
<1>8. CASE UNCHANGED addonVars
  BY <1>8 DEF addonVars, AddonInv, QueueOK, SessionOK, ActiveOK, InTheMaking, IdsOK, Ids
<1>9. QED BY <1>1, <1>2, <1>3, <1>4, <1>5, <1>6, <1>7, <1>8 DEF Next

-----------------------------------------------------------------------------
(* The theorems                                                            *)

\* What is stored is whole, the session's scans are the newest of the queue, and
\* the scan in the making has its first rows, in every state.
THEOREM AddonInvariance == AddonSpec => []AddonInv
BY AddonBegin, AddonStep, PTL DEF AddonSpec

\* Every variable of the addon keeps its type, the queue and the file their limit,
\* and there is a timer exactly while a scan is in the making.
THEOREM AddonTypeCorrect == AddonSpec => []AddonTypeOK
<1>1. AddonInv => AddonTypeOK
  <2> SUFFICES ASSUME AddonInv PROVE AddonTypeOK
    OBVIOUS
  <2>1. StoredScans \subseteq Scans
    BY DEF StoredScans
  <2>2. pending \in Seq(Scans) /\ disk \in Seq(Scans)
    <3>1. pending \in Seq(StoredScans) /\ disk \in Seq(StoredScans)
      BY DEF AddonInv, QueueOK
    <3> HIDE DEF StoredScans
    <3>2. QED BY <2>1, <3>1
  <2>3. active # <<>> => /\ active[1].scan \in Scans
                         /\ active[1].nextRow \in 1..Len(active[1].raw)
    BY DEF AddonInv, ActiveOK, InTheMaking
  <2>4. Len(active) <= 1 /\ (timer <=> active # <<>>)
    <3>1. CASE active = <<>>
      BY <3>1 DEF AddonInv, ActiveOK
    <3>2. CASE active # <<>>
      <4>1. active = <<active[1]>>
        BY <3>2 DEF AddonInv, ActiveOK
      <4>2. Len(<<active[1]>>) = 1
        OBVIOUS
      <4>3. Len(active) = 1
        BY <4>1, <4>2
      <4>4. QED BY <3>2, <4>3 DEF AddonInv, ActiveOK
    <3>3. QED BY <3>1, <3>2
  <2>5. captures \in 0..MaxScans /\ received \in 0..MaxScans
    BY SizesAssumption DEF AddonInv, IdsOK, SessionOK
  <2>6. session \subseteq 1..MaxScans
    <3>1. \A s \in StoredScans : s.id \in 1..MaxScans
      BY DEF StoredScans, Scans
    <3>2. \A i \in DOMAIN pending : pending[i] \in StoredScans
      BY DEF AddonInv, QueueOK
    <3>3. QED BY <3>1, <3>2 DEF AddonInv, SessionOK, Ids
  <2>7. QED
    BY <2>2, <2>3, <2>4, <2>5, <2>6 DEF AddonInv, QueueOK, SessionOK, AddonTypeOK
<1>2. QED BY <1>1, AddonInvariance, PTL

\* What an element of a stored queue says in the words of the property.
LEMMA WholeScan ==
    ASSUME NEW queue \in Seq(StoredScans), NEW scan \in ToSet(queue)
    PROVE  /\ Stored(scan) /\ scan \in Scans
           /\ DOMAIN scan.rows = 1..Len(scan.rows) /\ Len(scan.rows) \in Nat
           /\ DOMAIN scan.items = 1..Len(scan.items) /\ Len(scan.items) \in Nat
<1>1. \E i \in DOMAIN queue : queue[i] = scan
  BY DEF ToSet
<1>2. scan \in StoredScans
  BY <1>1
<1>3. Stored(scan) /\ scan.rows \in Seq(Rows) /\ scan.items \in Seq(Identity) /\ scan \in Scans
  BY <1>2 DEF StoredScans, Scans, Rows
<1>4. QED BY <1>3

\* A scan that can be handed off is ready and whole, each listing once and in its
\* place, however the last batch, a logout in the middle or a crash came about.
THEOREM StoredScansWhole == AddonSpec => []StoredScansAreWhole
<1>1. AddonInv => StoredScansAreWhole
  <2> SUFFICES ASSUME AddonInv, NEW scan \in ToSet(pending) \cup ToSet(disk)
               PROVE  /\ scan.status = "ready" /\ Len(scan.rows) = scan.sourceRowCount
                      /\ \A i \in DOMAIN scan.rows :
                          LET row == scan.rows[i] IN
                          /\ row.sourceRow = i /\ row.itemRef \in DOMAIN scan.items
                          /\ Key(scan.items[row.itemRef]) = Key(IdentityOf(row.listing))
                      /\ \A r, q \in DOMAIN scan.items :
                          Key(scan.items[r]) = Key(scan.items[q]) => r = q
    BY DEF StoredScansAreWhole
  <2>1. /\ Stored(scan)
        /\ DOMAIN scan.rows = 1..Len(scan.rows) /\ DOMAIN scan.items = 1..Len(scan.items)
    BY WholeScan DEF AddonInv, QueueOK
  <2>2. scan.status = "ready" /\ Len(scan.rows) = scan.sourceRowCount
    BY <2>1 DEF Stored
  <2>3. RowsInPlace(scan) /\ KeysDiffer(scan)
    BY <2>1 DEF Stored, Copied
  <2>4. QED BY <2>1, <2>2, <2>3, Zenon DEF RowsInPlace, KeysDiffer
<1>2. QED BY <1>1, AddonInvariance, PTL

\* The addon tells the user to reload before a scan of this session is discarded for
\* a newer one.
THEOREM LossIsAnnounced == AddonSpec => WarnedBeforeLoss
<1>1. AddonInv /\ [Next]_addonVars =>
        [\A id \in session :
            captures' > captures /\ id \notin Ids(pending') => warned]_addonVars
  <2> SUFFICES ASSUME AddonInv, Next, captures' > captures
               PROVE  \A id \in session : id \notin Ids(pending') => warned
    OBVIOUS
  <2>a. captures \in Nat
    BY DEF AddonInv, SessionOK
  <2>1. ASSUME NEW d \in Deliveries, BeginEmpty(d)
        PROVE  \A id \in session : id \notin Ids(pending') => warned
    BY <2>1, BeginEmptyStep
  <2>2. CASE ProcessBatch
    BY <2>2, BatchStep
  <2>3. ASSUME NEW d \in Deliveries, Begin(d) PROVE FALSE
    BY <2>a, <2>3 DEF Begin
  <2>4. CASE BeginIgnored
    BY <2>a, <2>4 DEF BeginIgnored
  <2>5. CASE ClearStoredScans
    BY <2>a, <2>5 DEF ClearStoredScans
  <2>6. CASE Logout \/ ClientCrash
    BY <2>a, <2>6 DEF Logout, ClientCrash, Loads
  <2>7. QED BY <2>1, <2>2, <2>3, <2>4, <2>5, <2>6 DEF Next
<1>2. QED BY <1>1, AddonInvariance, PTL DEF AddonSpec, WarnedBeforeLoss

=============================================================================
