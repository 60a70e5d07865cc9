------------------------------ MODULE SavedFile -----------------------------
(***************************************************************************)
(* The SavedVariables file between the game, which writes it token after   *)
(* token, and scanfile.Load, which may read it at any moment: what Load    *)
(* makes of a file that is whole, and of one that is cut off.              *)
(*                                                                         *)
(* What a scan says is ScanExport's matter; here it is its two lists, of   *)
(* items, each the tokens of id, link and name, and of rows, each the      *)
(* tokens of place, item and stack.  The files are those of every length   *)
(* the lists can have on disk.                                             *)
(***************************************************************************)
EXTENDS ScanExport, SavedVariables

-----------------------------------------------------------------------------
(* Decode, the parts that find the lists                                   *)

IsList(value) == value.kind = "table" /\ IsSequence(value)

IsTuple(value, kinds) ==
    IsList(value) /\ [i \in DOMAIN Values(value) |-> Values(value)[i].kind] = kinds

\* decodeItemDictionary, decodeRow: every column with its type.
IsScan(value) ==
    /\ value.kind = "table"
    /\ Field(value, "status").kind = "string"
    /\ IsList(Field(value, "items")) /\ IsList(Field(value, "rows"))
    /\ \A item \in ToSet(Values(Field(value, "items"))) :
            IsTuple(item, <<"integer", "string", "string">>)
    /\ \A row \in ToSet(Values(Field(value, "rows"))) :
            IsTuple(row, <<"integer", "integer", "integer">>)

IsDatabase(root) ==
    /\ root.kind = "table"
    /\ Field(root, "schemaVersion") = Integer(1)
    /\ IsList(Field(root, "pendingScans"))
    /\ \A scan \in ToSet(Values(Field(root, "pendingScans"))) : IsScan(scan)

ReadScan(value) ==
    [list \in {"items", "rows"} |->
        [i \in DOMAIN Values(Field(value, list)) |-> Values(Values(Field(value, list))[i])]]

\* The scans of the file, or nothing for an error.
ReadScans(values) == [i \in DOMAIN values |-> ReadScan(values[i])]
Decode(root) ==
    IF IsDatabase(root) THEN <<ReadScans(Values(Field(root, "pendingScans")))>> ELSE <<>>
LoadVariable(ts, variable) == Decode(ParseVariable(ts, variable))

\* Whatever keeps the first variable from loading, the second is tried.
FirstOf(primary, legacy) == IF primary # <<>> THEN primary ELSE legacy
Load(ts) ==
    FirstOf(LoadVariable(ts, "WOW_MARKETS_DB"), LoadVariable(ts, "WOW_MARKET_SCAN_DB"))

-----------------------------------------------------------------------------
(* The game's writer                                                       *)

\* Lists are written with indexes, or without by later versions of the game.
Styles == {"indexed", "positional"}

WrittenList(style, values) ==
    WrittenTable([i \in DOMAIN values |->
                     IF style = "indexed" THEN Integer(i) ELSE Positional], values)

WrittenFields(names, values) ==
    WrittenTable([i \in DOMAIN names |-> String(names[i])], values)

WrittenScan(style, scan) ==
    LET tuple(t) == WrittenList(style, [column \in DOMAIN t |-> <<t[column]>>])
        list(s)  == WrittenList(style, [i \in DOMAIN s |-> tuple(s[i])])
    IN  WrittenFields(<<"status", "items", "rows">>,
                      <<<<String("ready")>>, list(scan.items), list(scan.rows)>>)

Written(style, variable, scans) ==
    <<Name(variable), Symbol("equal")>>
        \o WrittenFields(<<"schemaVersion", "config", "pendingScans">>,
             <<<<Integer(1)>>,
               WrittenFields(<<"maxPendingScans">>, <<<<Integer(MaxPending)>>>>),
               WrittenList(style, [i \in DOMAIN scans |-> WrittenScan(style, scans[i])])>>)

\* What can be left of a token, or of the comment after one: part of a word or
\* number is another, part of a string, a comment or a sign is none.
Remnants(t) ==
    {<<>>, <<Unlexable>>}
        \cup (IF t.kind = "identifier" THEN {<<Name("part")>>} ELSE {})
        \cup (IF t.kind = "integer" THEN {<<Integer(1)>>} ELSE {})

CutOff(ts) ==
    UNION {{SubSeq(ts, 1, n) \o remnant : remnant \in Remnants(ts[n + 1])}
              : n \in 0..(Len(ts) - 1)}

-----------------------------------------------------------------------------
(* Properties                                                              *)

\* The lengths of the lists of each scan: no more items than rows.
Shape(file) ==
    [i \in DOMAIN file |-> [items |-> Len(file[i].items), rows |-> Len(file[i].rows)]]

Sizes == {0} \cup {Len(d.raw) : d \in Deliveries}
Shapes ==
    SeqOf(UNION {[items : Min({1, n})..n, rows : {n}] : n \in Sizes}, MaxPending)

\* A file of that shape.
Scanned(shape) ==
    [i \in DOMAIN shape |->
        [items |-> [r \in 1..shape[i].items |->
                        <<Integer(r), String("item"), String("name")>>],
         rows |-> [r \in 1..shape[i].rows |->
                        <<Integer(r), Integer(Min({r, shape[i].items})), Integer(r + i)>>]]]

\* Whole, whichever addon wrote it; and cut off at any place.
ReadSafely(shape) ==
    \A style \in Styles :
        LET scans == Scanned(shape) IN
        /\ \A variable \in {"WOW_MARKETS_DB", "WOW_MARKET_SCAN_DB"} :
                Load(Written(style, variable, scans)) = <<scans>>
        /\ \A torn \in CutOff(Written(style, "WOW_MARKETS_DB", scans)) :
                Load(torn) = <<>>

\* A constant, which TLC computes once.
Readings == {[shape |-> shape, safe |-> ReadSafely(shape)] : shape \in Shapes}

\* However far the game has come in writing what the addon left, the companion
\* reads all of it or nothing: no scan is archived with some of its rows, and no
\* file is taken for one with fewer scans.
FileReadWholeOrNot == [shape |-> Shape(disk), safe |-> TRUE] \in Readings

=============================================================================
