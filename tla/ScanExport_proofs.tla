--------------------------- MODULE ScanExport_proofs ---------------------------
(***************************************************************************)
(* Proofs about ScanExport and SavedFile: whatever Auctionator delivers    *)
(* and however the addon is interrupted, the companion reads back what is  *)
(* on disk; and however far the game has come in writing it, it reads all  *)
(* of it or nothing.  They need of the addon that what it stores is whole. *)
(***************************************************************************)
EXTENDS SavedFile, AddonCapture_proofs, SavedVariables_proofs

-----------------------------------------------------------------------------
(* One stored scan                                                         *)

\* A stored scan, as the decoding sees it.
LEMMA StoredFacts ==
    ASSUME NEW scan, Stored(scan)
    PROVE  /\ scan.rows \in Seq(Rows) /\ scan.items \in Seq(Identity)
           /\ DOMAIN scan.rows = 1..Len(scan.rows) /\ Len(scan.rows) \in Nat
           /\ DOMAIN scan.items = 1..Len(scan.items) /\ Len(scan.items) \in Nat
           /\ RowsInPlace(scan) /\ KeysDiffer(scan) /\ ItemsFromRows(scan)
           /\ \A i \in 1..Len(scan.rows) : scan.rows[i].listing \in Listing
<1>1. scan \in Scans /\ RowsInPlace(scan) /\ KeysDiffer(scan) /\ ItemsFromRows(scan)
  BY DEF Stored, Copied
<1>2. scan.rows \in Seq(Rows) /\ scan.items \in Seq(Identity)
  BY <1>1 DEF Scans, Rows
<1>3. \A row \in Rows : row.listing \in Listing
  BY DEF Rows
<1> HIDE DEF Rows, Identity
<1>4. QED BY <1>1, <1>2, <1>3

\* The dictionary keeps of a listing what its key is made of.
LEMMA KeyOfIdentity ==
    ASSUME NEW listing \in Listing
    PROVE  Key(IdentityOf(listing)) = Key(listing)
<1>1. /\ IdentityOf(listing).itemId = listing.itemId
      /\ IdentityOf(listing).itemString = listing.itemString
      /\ IdentityOf(listing).name = listing.name
  BY DEF IdentityOf
<1>2. QED BY <1>1, Zenon DEF Key

\* Addon and companion classify an auction house alike.
LEMMA SameHouse ==
    ASSUME NEW context PROVE House(context) = ClassifyAuctionHouse(context)
BY DEF House, IsNeutral, ClassifyAuctionHouse

\* A row is decoded to its own place and stack, with the item it refers to.
LEMMA RowDecoded ==
    ASSUME NEW scan, Stored(scan), NEW i \in 1..Len(scan.rows)
    PROVE  /\ scan.rows[i].itemRef \in 1..Len(scan.items)
           /\ LET item == scan.items[scan.rows[i].itemRef] IN
              DecodedRow(scan.rows[i], scan.items) =
                [sourceRow |-> i, itemId |-> item.itemId, itemString |-> item.itemString,
                 name |-> item.name, stackCount |-> scan.rows[i].listing.stackCount]
<1>1. /\ scan.rows[i].sourceRow = i /\ scan.rows[i].itemRef \in 1..Len(scan.items)
      /\ scan.rows[i].stackCount = scan.rows[i].listing.stackCount
  BY StoredFacts DEF RowsInPlace
<1>2. QED BY <1>1, Zenon DEF DecodedRow

\* A scan whose context and items the client knew decodes, unless its clock was set back.
LEMMA StoredDecodes ==
    ASSUME NEW scan, Stored(scan), Named(scan.context), scan.context.durationMs >= 0,
           \A i \in 1..Len(scan.rows) :
              scan.rows[i].listing.itemId >= 1 /\ scan.rows[i].listing.stackCount >= 1
    PROVE  ScanDecodes(scan)
<1> DEFINE rows == scan.rows
           items == scan.items
           decoded == DecodedRows(scan)
<1>a. /\ DOMAIN rows = 1..Len(rows) /\ Len(rows) \in Nat
      /\ DOMAIN items = 1..Len(items) /\ Len(items) \in Nat
      /\ RowsInPlace(scan) /\ ItemsFromRows(scan)
  BY StoredFacts
<1>b. \A r \in 1..Len(items) : items[r].itemId >= 1
  <2> SUFFICES ASSUME NEW r \in 1..Len(items) PROVE items[r].itemId >= 1
    OBVIOUS
  <2>1. PICK i \in 1..Len(rows) : items[r] = IdentityOf(rows[i].listing)
    BY <1>a DEF ItemsFromRows
  <2>2. items[r].itemId = rows[i].listing.itemId
    BY <2>1 DEF IdentityOf
  <2>3. QED BY <2>1, <2>2
<1>1. ItemsDecode(scan)
  BY <1>a, <1>b DEF ItemsDecode, Stored
<1>c. \A i \in 1..Len(rows) : /\ rows[i].itemRef \in 1..Len(items)
                              /\ decoded[i] = DecodedRow(rows[i], items)
                              /\ decoded[i].sourceRow = i /\ ValidRow(decoded[i])
  <2> SUFFICES ASSUME NEW i \in 1..Len(rows)
               PROVE  /\ rows[i].itemRef \in 1..Len(items)
                      /\ decoded[i] = DecodedRow(rows[i], items)
                      /\ decoded[i].sourceRow = i /\ ValidRow(decoded[i])
    OBVIOUS
  <2>1. decoded[i] = DecodedRow(rows[i], items)
    BY <1>a DEF DecodedRows
  <2> DEFINE item == items[rows[i].itemRef]
  <2>2. /\ rows[i].itemRef \in 1..Len(items)
        /\ DecodedRow(rows[i], items) =
             [sourceRow |-> i, itemId |-> item.itemId, itemString |-> item.itemString,
              name |-> item.name, stackCount |-> rows[i].listing.stackCount]
    BY RowDecoded
  <2>3. item.itemId >= 1 /\ rows[i].listing.stackCount >= 1 /\ i >= 1
    BY <1>b, <2>2
  <2> HIDE DEF item, decoded
  <2>4. /\ decoded[i].sourceRow = i /\ decoded[i].itemId = item.itemId
        /\ decoded[i].stackCount = rows[i].listing.stackCount
    BY <2>1, <2>2
  <2>5. ValidRow(decoded[i])
    BY <2>3, <2>4 DEF ValidRow
  <2>6. QED BY <2>1, <2>2, <2>4, <2>5
<1>2. \A i \in DOMAIN rows : RowDecodes(rows[i], items)
  BY <1>a, <1>c, Zenon DEF RowDecodes
<1>d. DOMAIN decoded = 1..Len(rows) /\ Len(decoded) = Len(rows)
  <2>1. DOMAIN decoded = 1..Len(rows)
    BY <1>a DEF DecodedRows
  <2>2. decoded = [i \in 1..Len(rows) |-> decoded[i]]
    BY <1>a DEF DecodedRows
  <2> HIDE DEF decoded
  <2>3. QED BY <1>a, <2>1, <2>2
<1> HIDE DEF decoded
<1>3. Valid(scan, decoded)
  <2>1. /\ scan.status = "ready" /\ scan.exportedRowCount = Len(decoded)
        /\ scan.sourceRowCount = Len(rows) /\ scan.exportedRowCount = Len(rows)
        /\ scan.itemCount = Len(items)
    BY <1>d DEF Stored
  <2>2. scan.auctionHouse = ClassifyAuctionHouse(scan.context)
    BY SameHouse DEF Stored, Copied
  <2>3. scan.exportedRowCount > 0 => scan.itemCount > 0
    <3>1. Len(rows) > 0 => 1 \in 1..Len(rows)
      BY <1>a
    <3>2. QED BY <1>a, <1>c, <2>1, <3>1
  <2>4. ASSUME NEW i \in DOMAIN decoded, NEW j \in DOMAIN decoded
        PROVE  /\ ValidRow(decoded[i]) /\ decoded[i].sourceRow <= scan.sourceRowCount
               /\ decoded[i].sourceRow = decoded[j].sourceRow => i = j
    BY <1>a, <1>c, <1>d, <2>1
  <2>5. QED BY <2>1, <2>2, <2>3, <2>4 DEF Valid
<1>4. QED BY <1>1, <1>2, <1>3 DEF ScanDecodes, decoded

\* The item of a row is that of the first listing with the same key.
LEMMA StoredAsDelivered ==
    ASSUME NEW scan, Stored(scan), NEW i \in 1..Len(scan.rows)
    PROVE  LET listings == [j \in DOMAIN scan.rows |-> scan.rows[j].listing]
               same == {j \in 1..i : Key(listings[j]) = Key(listings[i])}
               first == listings[Min(same)]
           IN  DecodedRows(scan)[i] =
                   [sourceRow |-> i, itemId |-> first.itemId,
                    itemString |-> first.itemString, name |-> first.name,
                    stackCount |-> listings[i].stackCount]
<1> DEFINE rows == scan.rows
           items == scan.items
           listings == [j \in DOMAIN rows |-> rows[j].listing]
           same == {j \in 1..i : Key(listings[j]) = Key(listings[i])}
           r == rows[i].itemRef
           item == items[r]
<1>a. /\ DOMAIN rows = 1..Len(rows) /\ Len(rows) \in Nat
      /\ RowsInPlace(scan) /\ KeysDiffer(scan) /\ ItemsFromRows(scan)
      /\ \A j \in 1..Len(rows) : rows[j].listing \in Listing /\ listings[j] = rows[j].listing
  BY StoredFacts
<1>b. /\ r \in 1..Len(items)
      /\ DecodedRow(rows[i], items) =
           [sourceRow |-> i, itemId |-> item.itemId, itemString |-> item.itemString,
            name |-> item.name, stackCount |-> rows[i].listing.stackCount]
  BY RowDecoded
<1> HIDE DEF listings
<1>1. ASSUME NEW j \in 1..Len(rows)
      PROVE  Key(listings[j]) = Key(listings[i]) <=> rows[j].itemRef = r
  <2>1. /\ Key(listings[j]) = Key(IdentityOf(rows[j].listing))
        /\ Key(listings[i]) = Key(IdentityOf(rows[i].listing))
    BY <1>a, KeyOfIdentity
  <2>2. /\ rows[j].itemRef \in 1..Len(items)
        /\ Key(items[rows[j].itemRef]) = Key(IdentityOf(rows[j].listing))
        /\ Key(items[r]) = Key(IdentityOf(rows[i].listing))
    BY <1>a DEF RowsInPlace
  <2>3. Key(items[rows[j].itemRef]) = Key(items[r]) <=> rows[j].itemRef = r
    BY <1>a, <1>b, <2>2 DEF KeysDiffer
  <2>4. QED BY <2>1, <2>2, <2>3
<1>2. PICK k \in 1..Len(rows) : /\ rows[k].itemRef = r
                                /\ items[r] = IdentityOf(rows[k].listing)
                                /\ \A j \in 1..(k - 1) : rows[j].itemRef # r
  BY <1>a, <1>b DEF ItemsFromRows
<1>3. k <= i
  BY <1>a, <1>2
<1>4. k \in same /\ \A j \in same : k <= j
  <2>1. k \in same
    BY <1>1, <1>2, <1>3
  <2>2. ASSUME NEW j \in same PROVE k <= j
    <3>1. j \in 1..Len(rows) /\ rows[j].itemRef = r
      BY <1>1, <1>a
    <3>2. QED BY <1>2, <3>1
  <2>3. QED BY <2>1, <2>2
<1>5. Min(same) = k
  <2>1. \A j \in same : j \in Int
    OBVIOUS
  <2> HIDE DEF same
  <2>2. \E x \in same : \A y \in same : x <= y
    BY <1>4
  <2>3. Min(same) \in same /\ \A y \in same : Min(same) <= y
    BY <2>2, Zenon DEF Min
  <2>4. QED
    <3>1. Min(same) <= k /\ k <= Min(same) /\ Min(same) \in Int /\ k \in Int
      BY <1>4, <2>1, <2>3
    <3> DEFINE m == Min(same)
    <3> HIDE DEF m
    <3>2. m = k
      BY <3>1 DEF m
    <3>3. QED BY <3>2 DEF m
<1>6. /\ item.itemId = listings[k].itemId /\ item.itemString = listings[k].itemString
      /\ item.name = listings[k].name
  BY <1>2, <1>a DEF IdentityOf
<1>7. DecodedRows(scan)[i] = DecodedRow(rows[i], items)
  BY <1>a DEF DecodedRows
<1> HIDE DEF same, item, r
<1>8. DecodedRows(scan)[i] =
        [sourceRow |-> i, itemId |-> listings[Min(same)].itemId,
         itemString |-> listings[Min(same)].itemString, name |-> listings[Min(same)].name,
         stackCount |-> listings[i].stackCount]
  <2>1. rows[i].listing = listings[i]
    BY <1>a
  <2>2. QED BY <1>5, <1>6, <1>7, <1>b, <2>1, Zenon
<1>9. QED BY <1>8 DEF same, listings

-----------------------------------------------------------------------------
(* The theorems                                                            *)

\* When the client knew the player, the place and every item of what is on disk and
\* its clock ran forward, the companion reads the file: nothing the addon does to a
\* scan keeps it from that.
THEOREM CompleteScansAreRead == AddonSpec => []CompleteScansLoad
<1>1. AddonInv => CompleteScansLoad
  <2> SUFFICES ASSUME AddonInv,
                      \A scan \in ToSet(disk) :
                        /\ Named(scan.context)
                        /\ scan.context.durationMs >= 0
                        /\ \A i \in DOMAIN scan.rows :
                             /\ scan.rows[i].listing.itemId >= 1
                             /\ scan.rows[i].listing.stackCount >= 1,
                      NEW n \in DOMAIN disk
               PROVE  ScanDecodes(disk[n])
    BY DEF CompleteScansLoad, FileLoads
  <2>1. disk[n] \in ToSet(disk)
    BY DEF ToSet
  <2>2. Stored(disk[n]) /\ DOMAIN disk[n].rows = 1..Len(disk[n].rows)
    BY <2>1, WholeScan DEF AddonInv, QueueOK
  <2>3. QED BY <2>1, <2>2, StoredDecodes
<1>2. QED BY <1>1, AddonInvariance, PTL

\* The companion reads back what Auctionator delivered, row by row, with the item of
\* the first listing of the same key.
THEOREM ReadAsDelivered == AddonSpec => []DecodedAsDelivered
<1>1. AddonInv => DecodedAsDelivered
  <2> SUFFICES ASSUME AddonInv, NEW scan \in ToSet(disk), NEW i \in DOMAIN scan.rows
               PROVE  LET listings == [j \in DOMAIN scan.rows |-> scan.rows[j].listing]
                          same == {j \in 1..i : Key(listings[j]) = Key(listings[i])}
                          first == listings[Min(same)]
                      IN  DecodedRows(scan)[i] =
                              [sourceRow |-> i, itemId |-> first.itemId,
                               itemString |-> first.itemString, name |-> first.name,
                               stackCount |-> listings[i].stackCount]
    BY DEF DecodedAsDelivered
  <2>1. Stored(scan) /\ i \in 1..Len(scan.rows)
    BY WholeScan DEF AddonInv, QueueOK
  <2>2. QED BY <2>1, StoredAsDelivered
<1>2. QED BY <1>1, AddonInvariance, PTL

-----------------------------------------------------------------------------
(* What the game writes is read as what it wrote                           *)

\* w is read as value wherever it stands, and every table in it is closed.
Writes(w, value) == Spells(w, value) /\ Balanced(w)

LEMMA ScalarWrites ==
    ASSUME NEW t, t.kind \in Scalars
    PROVE  Writes(<<t>>, t)
<1>1. t # Unlexable /\ Weight(t) = 0
  <2>1. t.kind # "error" /\ t.kind # "leftBrace" /\ t.kind # "rightBrace"
    BY DEF Scalars
  <2>2. Unlexable.kind = "error"
    BY DEF Unlexable, Symbol
  <2>3. QED BY <2>1, <2>2 DEF Weight
<1>2. QED BY <1>1, ScalarSpells, BalancedToken DEF Writes

\* What a list is read as.
Listed(style, n, values) ==
    IF style = "indexed" THEN TableOf(<<>>, [j \in 1..n |-> values[j]], <<>>)
    ELSE TableOf(<<>>, <<>>, [j \in 1..n |-> values[j]])

LEMMA ListWrites ==
    ASSUME NEW style \in Styles, NEW n \in Nat,
           NEW texts, texts = [i \in 1..n |-> texts[i]], NEW values,
           \A i \in 1..n : Writes(texts[i], values[i])
    PROVE  /\ Writes(WrittenList(style, texts), Listed(style, n, values))
           /\ Nested(WrittenList(style, texts))
<1> DEFINE keys == [i \in 1..n |-> IF style = "indexed" THEN Integer(i) ELSE Positional]
           w == WrittenTable(keys, texts)
<1>1. WrittenList(style, texts) = w
  <2>1. DOMAIN texts = 1..n
    OBVIOUS
  <2>2. QED BY <2>1 DEF WrittenList
<1>2. \A i \in 1..n : keys[i] = IF style = "indexed" THEN Integer(i) ELSE Positional
  OBVIOUS
<1> HIDE DEF keys
<1>3. \A i \in 1..n : Spells(texts[i], values[i]) /\ Balanced(texts[i])
  BY DEF Writes
<1>4. ASSUME NEW i \in 1..n PROVE KeyOrNone(keys[i])
  <2>1. Integer(i).kind = "integer" /\ Integer(i).number >= 1
    BY IntegerToken
  <2>2. QED BY <1>2, <2>1 DEF KeyOrNone, IsKey
<1>5. Balanced(w) /\ Nested(w)
  BY <1>3, <1>4, TableNested
<1>6. Spells(w, Listed(style, n, values))
  <2>1. CASE style = "indexed"
    <3>1. \A i \in 1..n : keys[i] = Integer(i)
      BY <1>2, <2>1
    <3>2. Spells(w, TableOf(<<>>, [j \in 1..n |-> values[j]], <<>>))
      BY <1>3, <3>1, IndexedSpells
    <3>3. QED BY <2>1, <3>2 DEF Listed
  <2>2. CASE style # "indexed"
    <3>1. \A i \in 1..n : keys[i] = Positional
      BY <1>2, <2>2
    <3>2. Spells(w, TableOf(<<>>, <<>>, [j \in 1..n |-> values[j]]))
      BY <1>3, <3>1, PositionalSpells
    <3>3. QED BY <2>2, <3>2 DEF Listed
  <2>3. QED BY <2>1, <2>2
<1>7. QED BY <1>1, <1>5, <1>6 DEF Writes

LEMMA ListedIsList ==
    ASSUME NEW style, NEW n \in Nat, NEW values, values = [j \in 1..n |-> values[j]]
    PROVE  LET table == Listed(style, n, values) IN
           table.kind = "table" /\ IsList(table) /\ Values(table) = values
<1> DEFINE table == Listed(style, n, values)
<1>1. table = TableOf(<<>>, values, <<>>) \/ table = TableOf(<<>>, <<>>, values)
  BY DEF Listed
<1> HIDE DEF table
<1>2. IsSequence(table) /\ Values(table) = values /\ table.kind = "table"
  BY <1>1, ListValues
<1>3. QED BY <1>2 DEF IsList, table

LEMMA FieldsWrite ==
    ASSUME NEW n \in Nat, NEW names, names = [i \in 1..n |-> names[i]],
           NEW texts, texts = [i \in 1..n |-> texts[i]], NEW values,
           \A i \in 1..n : Writes(texts[i], values[i]),
           NEW F, IsRecord(F, n, names, values)
    PROVE  /\ Writes(WrittenFields(names, texts), TableOf(F, <<>>, <<>>))
           /\ Nested(WrittenFields(names, texts))
<1> DEFINE keys == [i \in 1..n |-> String(names[i])]
           w == WrittenTable(keys, texts)
<1>1. WrittenFields(names, texts) = w
  <2>1. DOMAIN names = 1..n
    OBVIOUS
  <2>2. QED BY <2>1 DEF WrittenFields
<1>2. \A i \in 1..n : keys[i] = String(names[i])
  OBVIOUS
<1> HIDE DEF keys
<1>3. \A i \in 1..n : Spells(texts[i], values[i]) /\ Balanced(texts[i])
  BY DEF Writes
<1>4. ASSUME NEW i \in 1..n PROVE KeyOrNone(keys[i])
  <2>1. String(names[i]).kind = "string"
    BY StringToken
  <2>2. QED BY <1>2, <2>1 DEF KeyOrNone, IsKey
<1>5. Balanced(w) /\ Nested(w)
  BY <1>3, <1>4, TableNested
<1>6. Spells(w, TableOf(F, <<>>, <<>>))
  BY <1>2, <1>3, FieldsSpell
<1>7. QED BY <1>1, <1>5, <1>6 DEF Writes

-----------------------------------------------------------------------------
(* Scans                                                                   *)

ItemKinds == <<"integer", "string", "string">>
RowKinds  == <<"integer", "integer", "integer">>

HasKinds(t, kinds) ==
    t = [c \in 1..3 |-> t[c]] /\ \A c \in 1..3 : t[c].kind = kinds[c]

TuplesOf(s, kinds) ==
    /\ Len(s) \in Nat /\ s = [i \in 1..Len(s) |-> s[i]]
    /\ \A i \in 1..Len(s) : HasKinds(s[i], kinds)

\* A scan with the columns of a scan.
IsScanned(scan) ==
    /\ scan = [items |-> scan.items, rows |-> scan.rows]
    /\ TuplesOf(scan.items, ItemKinds) /\ TuplesOf(scan.rows, RowKinds)

WrittenTuple(style, t)  == WrittenList(style, [column \in DOMAIN t |-> <<t[column]>>])
WrittenTuples(style, s) == WrittenList(style, [i \in DOMAIN s |-> WrittenTuple(style, s[i])])

ListedTuple(style, t)  == Listed(style, 3, t)
ListedTuples(style, s) == Listed(style, Len(s), [i \in 1..Len(s) |-> ListedTuple(style, s[i])])

LEMMA KindsAreScalars ==
    \A c \in 1..3 : ItemKinds[c] \in Scalars /\ RowKinds[c] \in Scalars
<1> SUFFICES ASSUME NEW c \in 1..3 PROVE ItemKinds[c] \in Scalars /\ RowKinds[c] \in Scalars
  OBVIOUS
<1>1. c = 1 \/ c = 2 \/ c = 3
  OBVIOUS
<1>2. QED BY <1>1 DEF ItemKinds, RowKinds, Scalars

LEMMA TupleWrites ==
    ASSUME NEW style \in Styles, NEW kinds, \A c \in 1..3 : kinds[c] \in Scalars,
           NEW t, HasKinds(t, kinds)
    PROVE  Writes(WrittenTuple(style, t), ListedTuple(style, t))
<1> DEFINE texts == [column \in 1..3 |-> <<t[column]>>]
<1>1. t = [c \in 1..3 |-> t[c]] /\ \A c \in 1..3 : t[c].kind \in Scalars
  BY DEF HasKinds
<1>2. WrittenTuple(style, t) = WrittenList(style, texts)
  <2>1. DOMAIN t = 1..3
    BY <1>1
  <2>2. QED BY <2>1 DEF WrittenTuple
<1>3. texts = [i \in 1..3 |-> texts[i]] /\ \A i \in 1..3 : texts[i] = <<t[i]>>
  OBVIOUS
<1> HIDE DEF texts
<1>4. \A i \in 1..3 : Writes(texts[i], t[i])
  <2> SUFFICES ASSUME NEW i \in 1..3 PROVE Writes(texts[i], t[i])
    OBVIOUS
  <2>1. Writes(<<t[i]>>, t[i])
    BY <1>1, ScalarWrites
  <2>2. QED BY <1>3, <2>1
<1>5. Writes(WrittenList(style, texts), Listed(style, 3, t))
  BY <1>3, <1>4, ListWrites
<1>6. QED BY <1>2, <1>5 DEF ListedTuple

LEMMA TuplesWrite ==
    ASSUME NEW style \in Styles, NEW kinds, \A c \in 1..3 : kinds[c] \in Scalars,
           NEW s, TuplesOf(s, kinds)
    PROVE  Writes(WrittenTuples(style, s), ListedTuples(style, s))
<1> DEFINE n == Len(s)
           texts == [i \in 1..n |-> WrittenTuple(style, s[i])]
           values == [i \in 1..n |-> ListedTuple(style, s[i])]
<1>1. n \in Nat /\ s = [i \in 1..n |-> s[i]] /\ \A i \in 1..n : HasKinds(s[i], kinds)
  BY DEF TuplesOf
<1>2. WrittenTuples(style, s) = WrittenList(style, texts)
  <2>1. DOMAIN s = 1..n
    BY <1>1
  <2>2. QED BY <2>1 DEF WrittenTuples
<1>3. ListedTuples(style, s) = Listed(style, n, values)
  BY DEF ListedTuples
<1> HIDE DEF n
<1>4. texts = [i \in 1..n |-> texts[i]] /\ \A i \in 1..n : texts[i] = WrittenTuple(style, s[i])
  OBVIOUS
<1>5. \A i \in 1..n : values[i] = ListedTuple(style, s[i])
  OBVIOUS
<1> HIDE DEF texts, values
<1>6. \A i \in 1..n : Writes(texts[i], values[i])
  <2> SUFFICES ASSUME NEW i \in 1..n PROVE Writes(texts[i], values[i])
    OBVIOUS
  <2>1. Writes(WrittenTuple(style, s[i]), ListedTuple(style, s[i]))
    BY <1>1, TupleWrites
  <2>2. QED BY <1>4, <1>5, <2>1
<1>7. Writes(WrittenList(style, texts), Listed(style, n, values))
  BY <1>1, <1>4, <1>6, ListWrites
<1>8. QED BY <1>2, <1>3, <1>7

ScanFields(style, scan) ==
    [x \in {"status", "items", "rows"} |->
        IF x = "status" THEN String("ready")
        ELSE IF x = "items" THEN ListedTuples(style, scan.items)
        ELSE ListedTuples(style, scan.rows)]

ListedScan(style, scan) == TableOf(ScanFields(style, scan), <<>>, <<>>)

LEMMA ScanWrites ==
    ASSUME NEW style \in Styles, NEW scan, IsScanned(scan)
    PROVE  Writes(WrittenScan(style, scan), ListedScan(style, scan))
<1> DEFINE names == <<"status", "items", "rows">>
           ready == <<String("ready")>>
           items == WrittenTuples(style, scan.items)
           rows == WrittenTuples(style, scan.rows)
           texts == <<ready, items, rows>>
           li == ListedTuples(style, scan.items)
           lr == ListedTuples(style, scan.rows)
           values == <<String("ready"), li, lr>>
           F == ScanFields(style, scan)
<1>1. WrittenScan(style, scan) = WrittenFields(names, texts)
  BY DEF WrittenScan, WrittenTuples, WrittenTuple
<1>2. Writes(ready, String("ready"))
  <2>1. String("ready").kind \in Scalars
    BY StringToken DEF Scalars
  <2>2. QED BY <2>1, ScalarWrites
<1>3. Writes(items, li) /\ Writes(rows, lr)
  BY KindsAreScalars, TuplesWrite DEF IsScanned
<1>4. IsRecord(F, 3, names, values)
  <2>1. {names[j] : j \in 1..3} = {"status", "items", "rows"}
    <3>1. \A j : j \in 1..3 <=> j = 1 \/ j = 2 \/ j = 3
      OBVIOUS
    <3>2. QED BY <3>1
  <2>2. F = [x \in {names[j] : j \in 1..3} |-> F[x]]
    <3>1. F = [x \in {"status", "items", "rows"} |-> F[x]]
      BY DEF ScanFields
    <3> HIDE DEF F, names
    <3>2. QED BY <2>1, <3>1
  <2>3. \A i \in 1..3 : F[names[i]] = values[i]
    <3>1. F["status"] = String("ready") /\ F["items"] = li /\ F["rows"] = lr
      BY DEF ScanFields
    <3>2. names[1] = "status" /\ names[2] = "items" /\ names[3] = "rows"
      OBVIOUS
    <3>3. values[1] = String("ready") /\ values[2] = li /\ values[3] = lr
      OBVIOUS
    <3>4. \A i \in 1..3 : i = 1 \/ i = 2 \/ i = 3
      OBVIOUS
    <3> HIDE DEF F, names, values, li, lr
    <3>5. QED BY <3>1, <3>2, <3>3, <3>4
  <2> HIDE DEF F, names, values
  <2>4. QED BY <2>2, <2>3 DEF IsRecord
<1>5. names = [i \in 1..3 |-> names[i]]
  OBVIOUS
<1> HIDE DEF ready, items, rows, li, lr
<1>6. texts = [i \in 1..3 |-> texts[i]]
  OBVIOUS
<1>7. \A i \in 1..3 : Writes(texts[i], values[i])
  <2>1. texts[1] = ready /\ texts[2] = items /\ texts[3] = rows
    OBVIOUS
  <2>2. values[1] = String("ready") /\ values[2] = li /\ values[3] = lr
    OBVIOUS
  <2>3. \A i \in 1..3 : i = 1 \/ i = 2 \/ i = 3
    OBVIOUS
  <2> HIDE DEF texts, values
  <2>4. QED BY <1>2, <1>3, <2>1, <2>2, <2>3
<1> HIDE DEF texts, values, names, F
<1>8. Writes(WrittenFields(names, texts), TableOf(F, <<>>, <<>>))
  BY <1>4, <1>5, <1>6, <1>7, FieldsWrite
<1>9. QED BY <1>1, <1>8 DEF ListedScan, F

LEMMA TupleRead ==
    ASSUME NEW style, NEW kinds, kinds = [c \in 1..3 |-> kinds[c]], NEW t, HasKinds(t, kinds)
    PROVE  IsTuple(ListedTuple(style, t), kinds) /\ Values(ListedTuple(style, t)) = t
<1> DEFINE table == ListedTuple(style, t)
<1>1. t = [c \in 1..3 |-> t[c]] /\ \A c \in 1..3 : t[c].kind = kinds[c]
  BY DEF HasKinds
<1>2. IsList(table) /\ Values(table) = t
  BY <1>1, ListedIsList DEF ListedTuple
<1> HIDE DEF table
<1>3. [i \in DOMAIN t |-> t[i].kind] = kinds
  <2>1. DOMAIN t = 1..3
    BY <1>1
  <2>2. [i \in 1..3 |-> t[i].kind] = [c \in 1..3 |-> kinds[c]]
    BY <1>1
  <2>3. QED BY <2>1, <2>2
<1>4. IsTuple(table, kinds)
  BY <1>2, <1>3 DEF IsTuple
<1>5. QED BY <1>2, <1>4 DEF table

LEMMA TuplesRead ==
    ASSUME NEW style, NEW kinds, kinds = [c \in 1..3 |-> kinds[c]], NEW s, TuplesOf(s, kinds),
           NEW table, table = ListedTuples(style, s)
    PROVE  /\ IsList(table)
           /\ \A t \in ToSet(Values(table)) : IsTuple(t, kinds)
           /\ [i \in DOMAIN Values(table) |-> Values(Values(table)[i])] = s
<1> DEFINE n == Len(s)
           values == [i \in 1..n |-> ListedTuple(style, s[i])]
<1>1. n \in Nat /\ s = [i \in 1..n |-> s[i]] /\ \A i \in 1..n : HasKinds(s[i], kinds)
  BY DEF TuplesOf
<1>2. table = Listed(style, n, values)
  BY DEF ListedTuples
<1> HIDE DEF n
<1>3. values = [i \in 1..n |-> values[i]] /\ DOMAIN values = 1..n
  OBVIOUS
<1>4. \A i \in 1..n : values[i] = ListedTuple(style, s[i])
  OBVIOUS
<1> HIDE DEF values
<1>5. IsList(table) /\ Values(table) = values
  BY <1>1, <1>2, <1>3, ListedIsList
<1>6. ASSUME NEW i \in 1..n PROVE IsTuple(values[i], kinds) /\ Values(values[i]) = s[i]
  <2>1. IsTuple(ListedTuple(style, s[i]), kinds) /\ Values(ListedTuple(style, s[i])) = s[i]
    BY <1>1, TupleRead
  <2>2. QED BY <1>4, <2>1
<1>7. \A t \in ToSet(values) : IsTuple(t, kinds)
  BY <1>3, <1>6 DEF ToSet
<1>8. [i \in DOMAIN values |-> Values(values[i])] = s
  <2>1. [i \in 1..n |-> Values(values[i])] = [i \in 1..n |-> s[i]]
    BY <1>6
  <2>2. QED BY <1>1, <1>3, <2>1
<1>9. QED BY <1>5, <1>7, <1>8

\* A scan that is read is the scan that was written.
LEMMA ScanRead ==
    ASSUME NEW style, NEW scan, IsScanned(scan)
    PROVE  IsScan(ListedScan(style, scan)) /\ ReadScan(ListedScan(style, scan)) = scan
<1> DEFINE table == ListedScan(style, scan)
           li == ListedTuples(style, scan.items)
           lr == ListedTuples(style, scan.rows)
<1>1. /\ table.kind = "table" /\ Field(table, "status") = String("ready")
      /\ Field(table, "items") = li /\ Field(table, "rows") = lr
  <2> DEFINE F == ScanFields(style, scan)
  <2>1. table.kind = "table" /\ table.fields = F
    BY DEF ListedScan, TableOf
  <2>2. /\ DOMAIN F = {"status", "items", "rows"}
        /\ F["status"] = String("ready") /\ F["items"] = li /\ F["rows"] = lr
    BY DEF ScanFields
  <2> HIDE DEF table, F, li, lr
  <2>3. QED BY <2>1, <2>2 DEF Field
<1> HIDE DEF table
<1>2. /\ IsList(li) /\ (\A t \in ToSet(Values(li)) : IsTuple(t, ItemKinds))
      /\ [i \in DOMAIN Values(li) |-> Values(Values(li)[i])] = scan.items
  <2>1. ItemKinds = [c \in 1..3 |-> ItemKinds[c]] /\ TuplesOf(scan.items, ItemKinds)
    BY DEF ItemKinds, IsScanned
  <2>2. QED BY <2>1, TuplesRead
<1>3. /\ IsList(lr) /\ (\A t \in ToSet(Values(lr)) : IsTuple(t, RowKinds))
      /\ [i \in DOMAIN Values(lr) |-> Values(Values(lr)[i])] = scan.rows
  <2>1. RowKinds = [c \in 1..3 |-> RowKinds[c]] /\ TuplesOf(scan.rows, RowKinds)
    BY DEF RowKinds, IsScanned
  <2>2. QED BY <2>1, TuplesRead
<1> HIDE DEF li, lr
<1>4. IsScan(table)
  <2>1. Field(table, "status").kind = "string"
    BY <1>1, StringToken
  <2>2. QED BY <1>1, <1>2, <1>3, <2>1 DEF IsScan, ItemKinds, RowKinds
<1>5. ReadScan(table) = scan
  <2> DEFINE read == [list \in {"items", "rows"} |->
                        [i \in DOMAIN Values(Field(table, list)) |->
                            Values(Values(Field(table, list))[i])]]
  <2>1. ReadScan(table) = read
    BY DEF ReadScan
  <2>2. read["items"] = scan.items /\ read["rows"] = scan.rows
    BY <1>1, <1>2, <1>3
  <2>3. read = [list \in {"items", "rows"} |-> read[list]]
    OBVIOUS
  <2> HIDE DEF read
  <2>4. read = [items |-> scan.items, rows |-> scan.rows]
    BY <2>2, <2>3
  <2>5. QED BY <2>1, <2>4 DEF IsScanned
<1>6. QED BY <1>4, <1>5 DEF table

-----------------------------------------------------------------------------
(* Files                                                                   *)

ScansOf(scans) ==
    /\ Len(scans) \in Nat /\ scans = [i \in 1..Len(scans) |-> scans[i]]
    /\ \A i \in 1..Len(scans) : IsScanned(scans[i])

ListedScans(style, scans) ==
    Listed(style, Len(scans), [i \in 1..Len(scans) |-> ListedScan(style, scans[i])])

WrittenConfig == WrittenFields(<<"maxPendingScans">>, <<<<Integer(MaxPending)>>>>)
ListedConfig == TableOf([x \in {"maxPendingScans"} |-> Integer(MaxPending)], <<>>, <<>>)

WrittenScans(style, scans) ==
    WrittenList(style, [i \in DOMAIN scans |-> WrittenScan(style, scans[i])])

WrittenBody(style, scans) ==
    WrittenFields(<<"schemaVersion", "config", "pendingScans">>,
                  <<<<Integer(1)>>, WrittenConfig, WrittenScans(style, scans)>>)

BodyFields(style, scans) ==
    [x \in {"schemaVersion", "config", "pendingScans"} |->
        IF x = "schemaVersion" THEN Integer(1)
        ELSE IF x = "config" THEN ListedConfig
        ELSE ListedScans(style, scans)]

ListedBody(style, scans) == TableOf(BodyFields(style, scans), <<>>, <<>>)

LEMMA WrittenIsDocument ==
    ASSUME NEW style, NEW variable, NEW scans
    PROVE  Written(style, variable, scans) = Document(variable, WrittenBody(style, scans))
BY DEF Written, Document, WrittenBody, WrittenConfig, WrittenScans

LEMMA IntegerWrites ==
    ASSUME NEW n
    PROVE  Writes(<<Integer(n)>>, Integer(n))
<1>1. Integer(n).kind \in Scalars
  BY IntegerToken DEF Scalars
<1>2. QED BY <1>1, ScalarWrites

LEMMA ConfigWrites == Writes(WrittenConfig, ListedConfig)
<1> DEFINE names == <<"maxPendingScans">>
           v == Integer(MaxPending)
           texts == <<<<v>>>>
           values == <<v>>
           F == [x \in {"maxPendingScans"} |-> v]
<1>1. Writes(<<v>>, v)
  BY IntegerWrites
<1> HIDE DEF v
<1>2. names = [i \in 1..1 |-> names[i]] /\ names[1] = "maxPendingScans"
  OBVIOUS
<1>3. texts = [i \in 1..1 |-> texts[i]] /\ texts[1] = <<v>>
  OBVIOUS
<1>4. values[1] = v
  OBVIOUS
<1>5. F = [x \in {"maxPendingScans"} |-> F[x]] /\ F["maxPendingScans"] = v
  OBVIOUS
<1> HIDE DEF names, texts, values, F
<1>6. IsRecord(F, 1, names, values)
  <2>1. {names[j] : j \in 1..1} = {"maxPendingScans"}
    BY <1>2
  <2>2. \A i \in 1..1 : F[names[i]] = values[i]
    BY <1>2, <1>4, <1>5
  <2>3. QED BY <1>5, <2>1, <2>2 DEF IsRecord
<1>7. \A i \in 1..1 : Writes(texts[i], values[i])
  BY <1>1, <1>3, <1>4
<1>8. Writes(WrittenFields(names, texts), TableOf(F, <<>>, <<>>))
  BY <1>2, <1>3, <1>6, <1>7, FieldsWrite
<1>9. QED BY <1>8 DEF WrittenConfig, ListedConfig, names, texts, F, v

LEMMA ScansWrite ==
    ASSUME NEW style \in Styles, NEW scans, ScansOf(scans)
    PROVE  Writes(WrittenScans(style, scans), ListedScans(style, scans))
<1> DEFINE n == Len(scans)
           texts == [i \in 1..n |-> WrittenScan(style, scans[i])]
           values == [i \in 1..n |-> ListedScan(style, scans[i])]
<1>1. n \in Nat /\ scans = [i \in 1..n |-> scans[i]] /\ \A i \in 1..n : IsScanned(scans[i])
  BY DEF ScansOf
<1>2. WrittenScans(style, scans) = WrittenList(style, texts)
  <2>1. DOMAIN scans = 1..n
    BY <1>1
  <2>2. QED BY <2>1 DEF WrittenScans
<1>3. ListedScans(style, scans) = Listed(style, n, values)
  BY DEF ListedScans
<1> HIDE DEF n
<1>4. texts = [i \in 1..n |-> texts[i]] /\ \A i \in 1..n : texts[i] = WrittenScan(style, scans[i])
  OBVIOUS
<1>5. \A i \in 1..n : values[i] = ListedScan(style, scans[i])
  OBVIOUS
<1> HIDE DEF texts, values
<1>6. \A i \in 1..n : Writes(texts[i], values[i])
  <2> SUFFICES ASSUME NEW i \in 1..n PROVE Writes(texts[i], values[i])
    OBVIOUS
  <2>1. Writes(WrittenScan(style, scans[i]), ListedScan(style, scans[i]))
    BY <1>1, ScanWrites
  <2>2. QED BY <1>4, <1>5, <2>1
<1>7. Writes(WrittenList(style, texts), Listed(style, n, values))
  BY <1>1, <1>4, <1>6, ListWrites
<1>8. QED BY <1>2, <1>3, <1>7

LEMMA BodyWrites ==
    ASSUME NEW style \in Styles, NEW scans, ScansOf(scans)
    PROVE  /\ Writes(WrittenBody(style, scans), ListedBody(style, scans))
           /\ Nested(WrittenBody(style, scans))
<1> DEFINE names == <<"schemaVersion", "config", "pendingScans">>
           one == Integer(1)
           tone == <<one>>
           config == WrittenConfig
           list == WrittenScans(style, scans)
           texts == <<tone, config, list>>
           lc == ListedConfig
           ll == ListedScans(style, scans)
           values == <<one, lc, ll>>
           F == BodyFields(style, scans)
<1>1. WrittenBody(style, scans) = WrittenFields(names, texts)
  BY DEF WrittenBody
<1>2. Writes(tone, one) /\ Writes(config, lc) /\ Writes(list, ll)
  BY IntegerWrites, ConfigWrites, ScansWrite
<1>3. IsRecord(F, 3, names, values)
  <2>1. {names[j] : j \in 1..3} = {"schemaVersion", "config", "pendingScans"}
    <3>1. \A j : j \in 1..3 <=> j = 1 \/ j = 2 \/ j = 3
      OBVIOUS
    <3>2. QED BY <3>1
  <2>2. F = [x \in {names[j] : j \in 1..3} |-> F[x]]
    <3>1. F = [x \in {"schemaVersion", "config", "pendingScans"} |-> F[x]]
      BY DEF BodyFields
    <3> HIDE DEF F, names
    <3>2. QED BY <2>1, <3>1
  <2>3. \A i \in 1..3 : F[names[i]] = values[i]
    <3>1. F["schemaVersion"] = one /\ F["config"] = lc /\ F["pendingScans"] = ll
      BY DEF BodyFields
    <3>2. names[1] = "schemaVersion" /\ names[2] = "config" /\ names[3] = "pendingScans"
      OBVIOUS
    <3> HIDE DEF one, lc, ll
    <3>3. values[1] = one /\ values[2] = lc /\ values[3] = ll
      OBVIOUS
    <3>4. \A i \in 1..3 : i = 1 \/ i = 2 \/ i = 3
      OBVIOUS
    <3> HIDE DEF F, names, values
    <3>5. QED BY <3>1, <3>2, <3>3, <3>4
  <2> HIDE DEF F, names, values
  <2>4. QED BY <2>2, <2>3 DEF IsRecord
<1>4. names = [i \in 1..3 |-> names[i]]
  OBVIOUS
<1> HIDE DEF one, tone, config, list, lc, ll
<1>5. texts = [i \in 1..3 |-> texts[i]]
  OBVIOUS
<1>6. \A i \in 1..3 : Writes(texts[i], values[i])
  <2>1. texts[1] = tone /\ texts[2] = config /\ texts[3] = list
    OBVIOUS
  <2>2. values[1] = one /\ values[2] = lc /\ values[3] = ll
    OBVIOUS
  <2>3. \A i \in 1..3 : i = 1 \/ i = 2 \/ i = 3
    OBVIOUS
  <2> HIDE DEF texts, values
  <2>4. QED BY <1>2, <2>1, <2>2, <2>3
<1> HIDE DEF texts, values, names, F
<1>7. /\ Writes(WrittenFields(names, texts), TableOf(F, <<>>, <<>>))
      /\ Nested(WrittenFields(names, texts))
  BY <1>3, <1>4, <1>5, <1>6, FieldsWrite
<1>8. QED BY <1>1, <1>7 DEF ListedBody, F

LEMMA BodyRead ==
    ASSUME NEW style, NEW scans, ScansOf(scans)
    PROVE  /\ ListedBody(style, scans).kind = "table"
           /\ Decode(ListedBody(style, scans)) = <<scans>>
<1> DEFINE root == ListedBody(style, scans)
           ll == ListedScans(style, scans)
           n == Len(scans)
           values == [i \in 1..n |-> ListedScan(style, scans[i])]
<1>1. /\ root.kind = "table" /\ Field(root, "schemaVersion") = Integer(1)
      /\ Field(root, "pendingScans") = ll
  <2> DEFINE F == BodyFields(style, scans)
             one == Integer(1)
  <2>1. root.kind = "table" /\ root.fields = F
    BY DEF ListedBody, TableOf
  <2>2. /\ DOMAIN F = {"schemaVersion", "config", "pendingScans"}
        /\ F["schemaVersion"] = one /\ F["pendingScans"] = ll
    BY DEF BodyFields
  <2> HIDE DEF root, F, ll, one
  <2>3. Field(root, "schemaVersion") = one /\ Field(root, "pendingScans") = ll
    BY <2>1, <2>2 DEF Field
  <2>4. QED BY <2>1, <2>3 DEF one
<1>2. ll = Listed(style, n, values)
  BY DEF ListedScans
<1>3. n \in Nat /\ scans = [i \in 1..n |-> scans[i]] /\ \A i \in 1..n : IsScanned(scans[i])
  BY DEF ScansOf
<1> HIDE DEF root, ll, n
<1>4. values = [i \in 1..n |-> values[i]] /\ DOMAIN values = 1..n
  OBVIOUS
<1>5. \A i \in 1..n : values[i] = ListedScan(style, scans[i])
  OBVIOUS
<1> HIDE DEF values
<1>6. IsList(ll) /\ Values(ll) = values
  BY <1>2, <1>3, <1>4, ListedIsList
<1>7. ASSUME NEW i \in 1..n PROVE IsScan(values[i]) /\ ReadScan(values[i]) = scans[i]
  <2>1. IsScan(ListedScan(style, scans[i])) /\ ReadScan(ListedScan(style, scans[i])) = scans[i]
    BY <1>3, ScanRead
  <2>2. QED BY <1>5, <2>1
<1>8. \A scan \in ToSet(values) : IsScan(scan)
  BY <1>4, <1>7 DEF ToSet
<1>9. ReadScans(values) = scans
  <2>1. ReadScans(values) = [i \in 1..n |-> ReadScan(values[i])]
    BY <1>4 DEF ReadScans
  <2>2. [i \in 1..n |-> ReadScan(values[i])] = [i \in 1..n |-> scans[i]]
    BY <1>7
  <2>3. QED BY <1>3, <2>1, <2>2
<1>10. IsDatabase(root)
  BY <1>1, <1>6, <1>8 DEF IsDatabase
<1>11. Decode(root) = <<scans>>
  BY <1>1, <1>6, <1>9, <1>10 DEF Decode
<1>12. QED BY <1>1, <1>11 DEF root

Variables == {"WOW_MARKETS_DB", "WOW_MARKET_SCAN_DB"}

LEMMA DecodeNothing == Decode(Unlexable) = <<>>
<1>1. Unlexable.kind # "table"
  BY DEF Unlexable, Symbol
<1>2. QED BY <1>1 DEF Decode, IsDatabase

LEMMA DocumentReadable ==
    ASSUME NEW name, NEW w, Balanced(w)
    PROVE  Readable(Document(name, w))
<1> DEFINE full == Document(name, w)
<1>1. /\ IsText(w) /\ \A i \in 1..Len(w) : w[i] # Unlexable
  BY DEF Balanced
<1>2. /\ IsText(full) /\ Len(w) \in Nat /\ Len(full) = 2 + Len(w)
      /\ full[1] = Name(name) /\ full[2] = Symbol("equal")
      /\ \A i \in 1..Len(w) : full[2 + i] = w[i]
  BY <1>1, DocumentText
<1> HIDE DEF full
<1>3. Name(name) # Unlexable /\ Symbol("equal") # Unlexable
  <2>1. Name(name).kind = "identifier" /\ Symbol("equal").kind = "equal" /\ Unlexable.kind = "error"
    BY DEF Name, Symbol, Unlexable
  <2>2. QED BY <2>1
<1>4. ASSUME NEW i \in 1..Len(full) PROVE full[i] # Unlexable
  <2>1. CASE i = 1 \/ i = 2
    BY <1>2, <1>3, <2>1
  <2>2. CASE i # 1 /\ i # 2
    <3>1. i - 2 \in 1..Len(w) /\ 2 + (i - 2) = i
      BY <1>2, <2>2
    <3>2. full[i] = w[i - 2]
      BY <1>2, <3>1
    <3>3. QED BY <1>1, <3>1, <3>2
  <2>3. QED BY <2>1, <2>2
<1>5. Proper(full)
  BY <1>2, TextIsProper
<1>6. QED BY <1>4, <1>5 DEF Readable, full

\* Load reads a file that is whole as the scans that were written, with every row and item
\* in its place, whichever addon wrote it.
THEOREM WholeIsRead ==
    ASSUME NEW style \in Styles, NEW scans, ScansOf(scans), NEW name \in Variables
    PROVE  Load(Written(style, name, scans)) = <<scans>>
<1> DEFINE w == WrittenBody(style, scans)
           root == ListedBody(style, scans)
           ts == Document(name, w)
<1>1. Spells(w, root) /\ Balanced(w)
  BY BodyWrites DEF Writes
<1>2. root.kind = "table" /\ Decode(root) = <<scans>>
  BY BodyRead
<1> HIDE DEF w, root
<1>3. Readable(ts)
  BY <1>1, DocumentReadable
<1> HIDE DEF ts
<1>4. ASSUME NEW variable
      PROVE  LoadVariable(ts, variable) = IF variable = name THEN <<scans>> ELSE <<>>
  <2>1. ts = Document(name, w)
    BY DEF ts
  <2>2. ParseVariable(ts, variable) = IF variable = name THEN root ELSE Unlexable
    BY <1>1, <1>2, <1>3, <2>1, DocumentIsRead
  <2>3. QED BY <1>2, <2>2, DecodeNothing DEF LoadVariable
<1>5. <<scans>> # <<>>
  OBVIOUS
<1>6. Load(ts) = <<scans>>
  <2>1. name = "WOW_MARKETS_DB" \/ name = "WOW_MARKET_SCAN_DB"
    BY DEF Variables
  <2>2. QED BY <1>4, <1>5, <2>1 DEF Load, FirstOf
<1>7. QED BY <1>6, WrittenIsDocument DEF ts, w

LEMMA RemnantsOf ==
    ASSUME NEW of, NEW remnant \in Remnants(of)
    PROVE  IsRemnant(remnant, of)
<1>1. Weight(Unlexable) = 0 /\ Weight(Name("part")) = 0 /\ Weight(Integer(1)) = 0
  BY DEF Weight, Unlexable, Symbol, Name, Integer
<1>2. CASE remnant = <<>>
  BY <1>2 DEF IsRemnant
<1>3. CASE remnant = <<Unlexable>>
  BY <1>1, <1>3 DEF IsRemnant
<1>4. CASE of.kind = "identifier" /\ remnant = <<Name("part")>>
  BY <1>1, <1>4 DEF IsRemnant
<1>5. CASE of.kind = "integer" /\ remnant = <<Integer(1)>>
  BY <1>1, <1>5 DEF IsRemnant
<1>6. QED BY <1>2, <1>3, <1>4, <1>5 DEF Remnants

\* Load refuses a file that is cut off anywhere, between two tokens or inside one.
THEOREM TornIsNothing ==
    ASSUME NEW style \in Styles, NEW scans, ScansOf(scans), NEW name,
           NEW torn \in CutOff(Written(style, name, scans))
    PROVE  Load(torn) = <<>>
<1> DEFINE w == WrittenBody(style, scans)
           full == Written(style, name, scans)
<1>1. Balanced(w) /\ Nested(w)
  BY BodyWrites DEF Writes
<1>2. full = Document(name, w)
  BY WrittenIsDocument
<1> HIDE DEF w, full
<1>a. PICK n \in 0..(Len(full) - 1) :
         \E remnant \in Remnants(full[n + 1]) : torn = SubSeq(full, 1, n) \o remnant
  BY DEF CutOff, full
<1>3. PICK remnant \in Remnants(full[n + 1]) : torn = SubSeq(full, 1, n) \o remnant
  BY <1>a
<1>4. IsRemnant(remnant, full[n + 1])
  BY RemnantsOf
<1>5. Torn(torn, full, n)
  BY <1>1, <1>2, <1>3, <1>4, CutIsTorn
<1>6. ASSUME NEW variable PROVE LoadVariable(torn, variable) = <<>>
  <2>1. ParseVariable(torn, variable) = Unlexable
    BY <1>1, <1>2, <1>5, TornIsRefused
  <2>2. QED BY <2>1, DecodeNothing DEF LoadVariable
<1>7. QED BY <1>6 DEF Load, FirstOf

-----------------------------------------------------------------------------
(* The files there can be on disk                                          *)

SizesOK(scans) == \A i \in 1..Len(scans) : Len(scans[i].rows) \in Sizes

\* A stored scan has as many rows as one delivery had entries, or none.
ShapesInv ==
    /\ SizesOK(pending) /\ SizesOK(disk)
    /\ active # <<>> => Len(active[1].raw) \in Sizes

LEMMA AddedSizes ==
    ASSUME NEW scans \in Seq(StoredScans), Len(scans) <= MaxPending, SizesOK(scans),
           NEW scan, Stored(scan), Len(scan.rows) \in Sizes,
           NEW queue, queue = Pushed(scans, scan)
    PROVE  SizesOK(queue)
<1>1. PICK k \in {0, 1} :
         /\ Len(queue) = Len(scans) - k + 1 /\ queue[Len(queue)] = scan
         /\ \A i \in 1..(Len(queue) - 1) : queue[i] = scans[i + k]
  BY Added
<1>2. Len(scans) \in Nat /\ (k = 0 \/ k = 1)
  OBVIOUS
<1> DEFINE m == Len(queue)
           n == Len(scans)
<1> HIDE DEF m, n
<1>3. ASSUME NEW i \in 1..m PROVE Len(queue[i].rows) \in Sizes
  <2>1. CASE i = m
    BY <1>1, <2>1 DEF m
  <2>2. CASE i # m
    <3>1. m = n - k + 1 /\ n \in Nat
      BY <1>1, <1>2 DEF m, n
    <3>2. i \in 1..(m - 1) /\ i + k \in 1..n
      BY <1>2, <2>2, <3>1
    <3>3. queue[i] = scans[i + k]
      BY <1>1, <3>2 DEF m
    <3>4. Len(scans[i + k].rows) \in Sizes
      BY <3>2 DEF SizesOK, n
    <3>5. QED BY <3>3, <3>4
  <2>3. QED BY <2>1, <2>2
<1>4. QED BY <1>3 DEF SizesOK, m

LEMMA ReadyRows ==
    ASSUME NEW scan, NEW n, Partial(scan, n, n)
    PROVE  Ready(scan).rows = scan.rows /\ Len(Ready(scan).rows) = n
<1>1. scan \in Scans /\ Len(scan.rows) = n
  BY DEF Partial, Copied
<1>2. Ready(scan).rows = scan.rows
  BY <1>1 DEF Ready, Scans
<1>3. QED BY <1>1, <1>2

LEMMA CompletedRows ==
    ASSUME AddonInv, active # <<>>
    PROVE  Len(Completed.rows) = Len(active[1].raw)
<1> DEFINE n == Len(active[1].raw)
           scan == CopyRows(active[1].scan, active[1].raw, active[1].nextRow, n)
<1>1. n \in active[1].nextRow..n /\ n \in Nat
  BY ActiveFacts
<1>2. Partial(scan, n, n)
  BY <1>1, BatchCopied
<1>3. Completed = Ready(scan)
  BY DEF Completed
<1> HIDE DEF scan
<1>4. QED BY <1>2, <1>3, ReadyRows

LEMMA ShapesBegin == Init => ShapesInv
<1> SUFFICES ASSUME Init PROVE ShapesInv
  OBVIOUS
<1>1. pending = <<>> /\ disk = <<>> /\ active = <<>> /\ Len(<<>>) = 0
  BY DEF Init
<1>2. QED BY <1>1 DEF ShapesInv, SizesOK

LEMMA ShapesStep ==
    AddonInv /\ ShapesInv /\ [Next]_addonVars => ShapesInv'
<1> SUFFICES ASSUME AddonInv, ShapesInv, [Next]_addonVars PROVE ShapesInv'
  OBVIOUS
<1>a. pending \in Seq(StoredScans) /\ Len(pending) <= MaxPending
  BY DEF AddonInv, QueueOK
<1>b. SizesOK(pending) /\ SizesOK(disk) /\ (active # <<>> => Len(active[1].raw) \in Sizes)
  BY DEF ShapesInv
<1>c. SizesOK(<<>>)
  BY DEF SizesOK
<1>1. ASSUME NEW d \in Deliveries, Begin(d) PROVE ShapesInv'
  <2>1. active'[1].raw = d.raw /\ UNCHANGED <<pending, disk>>
    BY <1>1 DEF Begin
  <2>2. Len(active'[1].raw) \in Sizes
    BY <2>1 DEF Sizes
  <2>3. QED BY <1>b, <2>1, <2>2 DEF ShapesInv, SizesOK, Sizes
<1>2. ASSUME NEW d \in Deliveries, BeginEmpty(d) PROVE ShapesInv'
  <2>1. received \in 0..(MaxScans - 1)
    BY <1>2, SizesAssumption DEF AddonInv, IdsOK, BeginEmpty
  <2>2. Partial(NewScan(d), 0, 0)
    BY <1>2, <2>1, NewScanIsPartial DEF BeginEmpty
  <2> DEFINE scan == Ready(NewScan(d))
  <2>3. pending' = Pushed(pending, scan) /\ active' = <<>> /\ disk' = disk
    BY <1>2 DEF BeginEmpty, Finish, Pushed
  <2>4. Stored(scan) /\ Len(scan.rows) = 0
    BY <2>2, ReadyIsStored, ReadyRows
  <2>5. 0 \in Sizes
    BY DEF Sizes
  <2> HIDE DEF scan
  <2>6. SizesOK(pending')
    BY <1>a, <1>b, <2>3, <2>4, <2>5, AddedSizes
  <2>7. QED BY <1>b, <2>3, <2>6 DEF ShapesInv, SizesOK, Sizes
<1>3. CASE BeginIgnored
  BY <1>3, <1>b DEF BeginIgnored, ShapesInv, SizesOK, Sizes
<1>4. CASE ProcessBatch
  <2> DEFINE a == active[1]
             stopAt == Min({a.nextRow + BatchSize - 1, Len(a.raw)})
             scan == CopyRows(a.scan, a.raw, a.nextRow, stopAt)
             b == [a EXCEPT !.scan = scan, !.nextRow = stopAt + 1]
  <2>1. /\ active # <<>> /\ disk' = disk
        /\ IF stopAt = Len(a.raw) THEN Finish(scan)
           ELSE active' = <<b>> /\ pending' = pending
    BY <1>4 DEF ProcessBatch
  <2>2. CASE stopAt = Len(a.raw)
    <3>1. pending' = Pushed(pending, Completed) /\ active' = <<>>
      BY <2>1, <2>2 DEF Finish, Pushed, Completed
    <3>2. Stored(Completed) /\ Len(Completed.rows) \in Sizes
      BY <1>b, <2>1, CompletedIsStored, CompletedRows
    <3>3. SizesOK(pending')
      BY <1>a, <1>b, <3>1, <3>2, AddedSizes
    <3>4. QED BY <1>b, <2>1, <3>1, <3>3 DEF ShapesInv, SizesOK, Sizes
  <2>3. CASE stopAt # Len(a.raw)
    <3>1. active' = <<b>> /\ pending' = pending
      BY <2>1, <2>3
    <3>2. b.raw = a.raw
      <4>1. a \in [scan : Scans, raw : Seq(Listing), nextRow : Nat]
        BY <2>1, ActiveFacts DEF InTheMaking
      <4> HIDE DEF a, scan, stopAt
      <4>2. QED BY <4>1
    <3> HIDE DEF b
    <3>3. active'[1].raw = a.raw
      BY <3>1, <3>2
    <3>4. QED BY <1>b, <2>1, <3>1, <3>3 DEF ShapesInv, SizesOK, Sizes
  <2>4. QED BY <2>2, <2>3
<1>5. CASE ClearStoredScans
  BY <1>5, <1>b, <1>c DEF ClearStoredScans, ShapesInv, SizesOK, Sizes
<1>6. ASSUME NEW saved, SizesOK(saved), Loads(saved) PROVE ShapesInv'
  <2>1. disk' = saved /\ (pending' = saved \/ pending' = <<>>) /\ active' = <<>>
    BY <1>6 DEF Loads
  <2>2. QED BY <1>6, <1>c, <2>1 DEF ShapesInv, SizesOK, Sizes
<1>7. CASE Logout
  <2>1. CASE active = <<>>
    <3>1. Loads(pending)
      BY <1>7, <2>1 DEF Logout
    <3>2. QED BY <1>6, <1>b, <3>1
  <2>2. CASE active # <<>>
    <3> DEFINE queue == Pushed(pending, Completed)
    <3>1. Loads(queue)
      BY <1>7, <2>2 DEF Logout, Pushed
    <3>2. Stored(Completed) /\ Len(Completed.rows) \in Sizes
      BY <1>b, <2>2, CompletedIsStored, CompletedRows
    <3>3. SizesOK(queue)
      BY <1>a, <1>b, <3>2, AddedSizes
    <3>4. QED BY <1>6, <3>1, <3>3
  <2>3. QED BY <2>1, <2>2
<1>8. CASE ClientCrash
  BY <1>6, <1>8, <1>b DEF ClientCrash
<1>9. CASE UNCHANGED addonVars
  BY <1>9, <1>b DEF addonVars, ShapesInv, SizesOK, Sizes
<1>10. QED BY <1>1, <1>2, <1>3, <1>4, <1>5, <1>7, <1>8, <1>9 DEF Next

LEMMA ThreeKinds ==
    ASSUME NEW x, NEW y, NEW z
    PROVE  HasKinds(<<x, y, z>>, <<x.kind, y.kind, z.kind>>)
<1> DEFINE t == <<x, y, z>>
           kinds == <<x.kind, y.kind, z.kind>>
<1>1. t = [c \in 1..3 |-> t[c]] /\ t[1] = x /\ t[2] = y /\ t[3] = z
  OBVIOUS
<1>2. kinds[1] = x.kind /\ kinds[2] = y.kind /\ kinds[3] = z.kind
  OBVIOUS
<1> HIDE DEF t, kinds
<1>3. \A c \in 1..3 : t[c].kind = kinds[c]
  <2>1. \A c \in 1..3 : c = 1 \/ c = 2 \/ c = 3
    OBVIOUS
  <2>2. QED BY <1>1, <1>2, <2>1
<1>4. HasKinds(t, kinds)
  BY <1>1, <1>3 DEF HasKinds
<1>5. QED BY <1>4 DEF t, kinds

\* A dictionary has no more items than the scan has rows, and one at least.
LEMMA FewerItems ==
    ASSUME NEW scan, Stored(scan)
    PROVE  /\ Len(scan.items) \in Nat /\ Len(scan.rows) \in Nat
           /\ Len(scan.items) <= Len(scan.rows)
           /\ Len(scan.rows) > 0 => Len(scan.items) >= 1
<1> DEFINE m == Len(scan.items)
           n == Len(scan.rows)
           of == [r \in 1..m |-> CHOOSE i \in 1..n : scan.rows[i].itemRef = r]
<1>1. m \in Nat /\ n \in Nat
  BY StoredFacts
<1>2. \A r \in 1..m : \E i \in 1..n : scan.rows[i].itemRef = r
  BY StoredFacts DEF ItemsFromRows
<1>3. \A i \in 1..n : scan.rows[i].itemRef \in 1..m
  BY StoredFacts DEF RowsInPlace
<1> HIDE DEF m, n
<1>4. \A r \in 1..m : of[r] \in 1..n /\ scan.rows[of[r]].itemRef = r
  BY <1>2
<1>5. of \in [1..m -> 1..n]
  BY <1>4
<1> HIDE DEF of
<1>6. m <= n
  <2> SUFFICES ASSUME ~(m <= n) PROVE FALSE
    OBVIOUS
  <2>1. /\ IsFiniteSet(1..m) /\ Cardinality(1..m) = m
        /\ IsFiniteSet(1..n) /\ Cardinality(1..n) = n
    BY <1>1, FS_Interval
  <2>2. Cardinality(1..n) < Cardinality(1..m)
    BY <1>1, <2>1
  <2>3. \E x, y \in 1..m : x # y /\ of[x] = of[y]
    BY <1>5, <2>1, <2>2, FS_PigeonHole
  <2>4. QED BY <1>4, <2>3
<1>7. n > 0 => m >= 1
  <2> SUFFICES ASSUME n > 0 PROVE m >= 1
    OBVIOUS
  <2>1. 1 \in 1..n
    BY <1>1
  <2>2. scan.rows[1].itemRef \in 1..m
    BY <1>3, <2>1
  <2>3. QED BY <1>1, <2>2
<1>8. QED BY <1>1, <1>6, <1>7 DEF m, n

LEMMA AtLeastOne ==
    ASSUME NEW n \in Nat
    PROVE  Min({1, n}) = IF n = 0 THEN 0 ELSE 1
<1> DEFINE S == {1, n}
<1>1. \E x \in S : \A y \in S : x <= y
  <2>1. CASE n = 0
    BY <2>1
  <2>2. CASE n # 0
    BY <2>2
  <2>3. QED BY <2>1, <2>2
<1> DEFINE m == Min(S)
<1>2. m \in S /\ \A y \in S : m <= y
  BY <1>1, Zenon DEF Min
<1> HIDE DEF m
<1>3. (m = 1 \/ m = n) /\ m <= 1 /\ m <= n
  BY <1>2
<1>4. m = IF n = 0 THEN 0 ELSE 1
  BY <1>3
<1>5. QED BY <1>4 DEF m

\* Sizes of the two lists of a scan.
ShapesOfScans == UNION {[items : Min({1, n})..n, rows : {n}] : n \in Sizes}

LEMMA SizesAreNat == Sizes \subseteq Nat
<1>1. \A d \in Deliveries : Len(d.raw) \in Nat
  BY DeliveriesAssumption
<1>2. QED BY <1>1 DEF Sizes

LEMMA DiskShape ==
    ASSUME AddonInv, ShapesInv
    PROVE  Shape(disk) \in Shapes
<1> DEFINE m == Len(disk)
           shape == Shape(disk)
<1>1. disk \in Seq(StoredScans) /\ m <= MaxPending /\ m \in Nat /\ MaxPending \in Nat
  BY SizesAssumption DEF AddonInv, QueueOK
<1>2. DOMAIN disk = 1..m /\ \A i \in 1..m : Stored(disk[i])
  BY <1>1 DEF StoredScans
<1>3. \A i \in 1..m : Len(disk[i].rows) \in Sizes
  BY DEF ShapesInv, SizesOK
<1>4. shape = [i \in 1..m |-> [items |-> Len(disk[i].items), rows |-> Len(disk[i].rows)]]
  BY <1>2 DEF Shape
<1> HIDE DEF m, shape
<1>5. ASSUME NEW i \in 1..m
      PROVE  [items |-> Len(disk[i].items), rows |-> Len(disk[i].rows)] \in ShapesOfScans
  <2> DEFINE a == Len(disk[i].items)
             b == Len(disk[i].rows)
  <2>1. a \in Nat /\ b \in Nat /\ a <= b /\ (b > 0 => a >= 1)
    BY <1>2, FewerItems
  <2>2. b \in Sizes
    BY <1>3
  <2> HIDE DEF a, b
  <2>3. a \in Min({1, b})..b
    BY <2>1, AtLeastOne
  <2> DEFINE low == Min({1, b})
  <2>4. [items |-> a, rows |-> b] \in [items : low..b, rows : {b}]
    <3> HIDE DEF low
    <3>1. a \in low..b
      BY <2>3 DEF low
    <3>2. QED BY <3>1
  <2>5. [items : low..b, rows : {b}] \in {[items : Min({1, n})..n, rows : {n}] : n \in Sizes}
    BY <2>2
  <2>6. QED BY <2>4, <2>5, Zenon DEF ShapesOfScans, a, b
<1>6. shape \in [1..m -> ShapesOfScans]
  BY <1>4, <1>5
<1>7. m \in 0..MaxPending
  BY <1>1
<1>8. shape \in SeqOf(ShapesOfScans, MaxPending)
  BY <1>6, <1>7, Zenon DEF SeqOf
<1>9. QED BY <1>8 DEF Shapes, ShapesOfScans, shape

\* The files of a shape are files of scans.
LEMMA ScannedAreScans ==
    ASSUME NEW shape \in Shapes
    PROVE  ScansOf(Scanned(shape))
<1>1. shape \in SeqOf(ShapesOfScans, MaxPending)
  BY DEF Shapes, ShapesOfScans
<1>2. PICK m \in 0..MaxPending : shape \in [1..m -> ShapesOfScans]
  BY <1>1, Zenon DEF SeqOf
<1>3. m \in Nat
  BY SizesAssumption
<1>4. ASSUME NEW i \in 1..m PROVE shape[i].items \in Nat /\ shape[i].rows \in Nat
  <2>1. shape[i] \in ShapesOfScans
    BY <1>2
  <2>2. PICK n \in Sizes : shape[i] \in [items : Min({1, n})..n, rows : {n}]
    BY <2>1, Zenon DEF ShapesOfScans
  <2>3. n \in Nat /\ (Min({1, n}) = 0 \/ Min({1, n}) = 1)
    BY SizesAreNat, AtLeastOne
  <2> DEFINE low == Min({1, n})
  <2>4. low \in Nat
    BY <2>3
  <2> HIDE DEF low
  <2>5. shape[i].items \in low..n /\ shape[i].rows = n
    BY <2>2 DEF low
  <2>6. QED BY <2>3, <2>4, <2>5
<1> DEFINE items(i) == [r \in 1..shape[i].items |->
                          <<Integer(r), String("item"), String("name")>>]
           rows(i) == [r \in 1..shape[i].rows |->
                          <<Integer(r), Integer(Min({r, shape[i].items})), Integer(r + i)>>]
           scans == Scanned(shape)
<1>5. scans = [i \in 1..m |-> [items |-> items(i), rows |-> rows(i)]]
  <2>1. DOMAIN shape = 1..m
    BY <1>2
  <2>2. QED BY <2>1 DEF Scanned
<1>6. ASSUME NEW i \in 1..m
      PROVE  TuplesOf(items(i), ItemKinds) /\ TuplesOf(rows(i), RowKinds)
  <2> DEFINE a == shape[i].items
             b == shape[i].rows
             li == items(i)
             lr == rows(i)
  <2>1. a \in Nat /\ b \in Nat
    BY <1>4
  <2>2. li = [r \in 1..a |-> li[r]] /\ lr = [r \in 1..b |-> lr[r]]
    OBVIOUS
  <2>3. ASSUME NEW r \in 1..a PROVE HasKinds(li[r], ItemKinds)
    <3>1. li[r] = <<Integer(r), String("item"), String("name")>>
      OBVIOUS
    <3>2. Integer(r).kind = "integer" /\ String("item").kind = "string"
          /\ String("name").kind = "string"
      BY IntegerToken, StringToken
    <3> DEFINE x == Integer(r)
               y == String("item")
               z == String("name")
    <3> HIDE DEF x, y, z
    <3>3. HasKinds(<<x, y, z>>, ItemKinds)
      BY <3>2, ThreeKinds DEF x, y, z, ItemKinds
    <3>4. QED BY <3>1, <3>3 DEF x, y, z
  <2>4. ASSUME NEW r \in 1..b PROVE HasKinds(lr[r], RowKinds)
    <3> DEFINE x == Integer(r)
               y == Integer(Min({r, a}))
               z == Integer(r + i)
    <3>1. lr[r] = <<x, y, z>>
      OBVIOUS
    <3>2. x.kind = "integer" /\ y.kind = "integer" /\ z.kind = "integer"
      BY IntegerToken
    <3> HIDE DEF x, y, z, lr
    <3>3. HasKinds(<<x, y, z>>, RowKinds)
      BY <3>2, ThreeKinds DEF RowKinds
    <3>4. QED BY <3>1, <3>3
  <2> HIDE DEF li, lr, a, b
  <2>5. Len(li) = a /\ Len(lr) = b
    BY <2>1, <2>2, FunctionText
  <2>6. TuplesOf(li, ItemKinds) /\ TuplesOf(lr, RowKinds)
    BY <2>1, <2>2, <2>3, <2>4, <2>5 DEF TuplesOf
  <2>7. QED BY <2>6 DEF li, lr
<1> HIDE DEF items, rows, scans
<1>7. scans = [i \in 1..m |-> scans[i]] /\ \A i \in 1..m : scans[i] = [items |-> items(i), rows |-> rows(i)]
  BY <1>5
<1>8. Len(scans) = m
  BY <1>3, <1>7, FunctionText
<1>9. ASSUME NEW i \in 1..m PROVE IsScanned(scans[i])
  <2> DEFINE li == items(i)
             lr == rows(i)
             scan == scans[i]
  <2>1. scan = [items |-> li, rows |-> lr]
    BY <1>7
  <2>2. TuplesOf(li, ItemKinds) /\ TuplesOf(lr, RowKinds)
    BY <1>6
  <2> HIDE DEF li, lr, scan
  <2>3. scan.items = li /\ scan.rows = lr
    BY <2>1
  <2>4. IsScanned(scan)
    BY <2>1, <2>2, <2>3 DEF IsScanned
  <2>5. QED BY <2>4 DEF scan
<1>10. ScansOf(scans)
  BY <1>3, <1>7, <1>8, <1>9 DEF ScansOf
<1>11. QED BY <1>10 DEF scans

\* Every file of a shape is read safely.
LEMMA ShapesAreSafe ==
    ASSUME NEW shape \in Shapes
    PROVE  ReadSafely(shape)
<1> DEFINE scans == Scanned(shape)
<1>1. ScansOf(scans)
  BY ScannedAreScans
<1> HIDE DEF scans
<1>2. \A style \in Styles, variable \in Variables :
         Load(Written(style, variable, scans)) = <<scans>>
  BY <1>1, WholeIsRead
<1>3. \A style \in Styles : \A torn \in CutOff(Written(style, "WOW_MARKETS_DB", scans)) :
         Load(torn) = <<>>
  BY <1>1, TornIsNothing
<1>4. QED BY <1>2, <1>3 DEF ReadSafely, Variables, scans

\* However far the game has come in writing what the addon left on disk, the companion
\* reads all of it or nothing.
THEOREM ReadWholeOrNot == AddonSpec => []FileReadWholeOrNot
<1>1. AddonInv /\ ShapesInv => FileReadWholeOrNot
  <2> SUFFICES ASSUME AddonInv, ShapesInv PROVE FileReadWholeOrNot
    OBVIOUS
  <2> DEFINE shape == Shape(disk)
  <2>1. shape \in Shapes
    BY DiskShape
  <2> HIDE DEF shape
  <2>2. ReadSafely(shape) = TRUE
    <3>1. ReadSafely(shape)
      BY <2>1, ShapesAreSafe
    <3>2. ReadSafely(shape) \in BOOLEAN
      BY DEF ReadSafely
    <3>3. QED BY <3>1, <3>2
  <2>3. [shape |-> shape, safe |-> ReadSafely(shape)] \in Readings
    BY <2>1 DEF Readings
  <2>4. QED BY <2>2, <2>3 DEF FileReadWholeOrNot, shape
<1>2. QED BY <1>1, ShapesBegin, ShapesStep, AddonInvariance, PTL DEF AddonSpec

=============================================================================
