--------------------------- MODULE SavedVariables ---------------------------
(***************************************************************************)
(* The companion's reader of SavedVariables files, package luasv: a parser *)
(* with one token of lookahead for the part of Lua the game writes.        *)
(*                                                                         *)
(* A file is the sequence of its tokens, comments and white space left     *)
(* out.  Text the lexer refuses, a string without its end above all, is    *)
(* the token Unlexable.  A number beyond 64 bits is a token of a kind with *)
(* which no value or key begins: the parser refuses it where it stands.  A *)
(* position is the index of the current token, and 0 after an error, which *)
(* no step leaves again.                                                   *)
(***************************************************************************)
EXTENDS Integers, FiniteSets, SequencesExt

Symbol(kind) == [kind |-> kind, text |-> "", number |-> 0]
Name(text)   == [kind |-> "identifier", text |-> text, number |-> 0]
String(text) == [kind |-> "string", text |-> text, number |-> 0]
Integer(n)   == [kind |-> "integer", text |-> "", number |-> n]
Unlexable    == Symbol("error")
EOF          == Symbol("eof")

\* The values that are one token; a table is the fourth kind of value.
Scalars == {"string", "integer", "fraction", "true", "false", "nil"}
EmptyTable == [kind |-> "table", fields |-> <<>>, indexed |-> <<>>, array |-> <<>>]

Failed == [at |-> 0, value |-> Unlexable]

-----------------------------------------------------------------------------
(* The lexer as the parser uses it: current is Lexed(ts, at), peek the next *)

Lexed(ts, at) ==
    IF at \in DOMAIN ts THEN ts[at] ELSE IF at = 0 THEN Unlexable ELSE EOF

\* Both tokens are read before anything is parsed.
NewParser(ts) ==
    IF Unlexable \in {Lexed(ts, 1), Lexed(ts, 2)} THEN 0 ELSE 1

\* advance reads one token further than it goes.
Advance(ts, at) ==
    IF at = 0 \/ Lexed(ts, at + 2) = Unlexable THEN 0 ELSE at + 1

Consume(ts, at, kind) ==
    IF Lexed(ts, at).kind = kind THEN Advance(ts, at) ELSE 0

SkipAny(ts, at, kinds) ==
    IF Lexed(ts, at).kind \in kinds THEN Advance(ts, at) ELSE at

-----------------------------------------------------------------------------
(* The parser                                                              *)

Positional == Symbol("none")
IsKey(t) == t.kind = "string" \/ (t.kind = "integer" /\ t.number >= 1)

\* The key of an entry: [string], [positive integer], name = or none.
ParseKey(ts, at) ==
    LET t == Lexed(ts, at)  inner == Lexed(ts, at + 1) IN
    CASE t.kind = "leftBracket" ->
            [key |-> inner,
             at |-> LET bracket == Advance(ts, Consume(ts, at, "leftBracket")) IN
                    IF IsKey(inner) THEN Consume(ts, Consume(ts, bracket, "rightBracket"), "equal")
                    ELSE 0]
      [] t.kind = "identifier" /\ inner.kind = "equal" ->
            [key |-> String(t.text), at |-> Consume(ts, Advance(ts, at), "equal")]
      [] OTHER -> [key |-> Positional, at |-> at]

\* Both functions, the first one where they overlap.
Merge(f, g) == [x \in DOMAIN f \cup DOMAIN g |-> IF x \in DOMAIN f THEN f[x] ELSE g[x]]

\* An entry before the rest of its table: a later entry of the same key replaces it.
Assign(key, value, rest) ==
    CASE key.kind = "string"  -> [rest EXCEPT !.fields = Merge(@, [x \in {key.text} |-> value])]
      [] key.kind = "integer" -> [rest EXCEPT !.indexed = Merge(@, [x \in {key.number} |-> value])]
      [] OTHER                -> [rest EXCEPT !.array = <<value>> \o @]

\* Mutant: the end of the file closes every open table.
CloseTableAtEnd(ts, at) ==
    IF Lexed(ts, at).kind = "eof" THEN at ELSE Consume(ts, at, "rightBrace")

CloseTable(ts, at) == Consume(ts, at, "rightBrace")

\* parseValue and the loop of parseTable, from each position: the value there,
\* or the table of the entries there, and the position behind it.
Parser(ts) ==
    LET parse[q \in {"value", "entries"} \X (0..(Len(ts) + 1))] ==
            LET what  == q[1]
                at    == q[2]
                t     == Lexed(ts, at)
                key   == ParseKey(ts, at)
                entry == parse[<<"value", key.at>>]
                rest  == parse[<<"entries", SkipAny(ts, entry.at, {"comma", "semicolon"})>>]
            IN  CASE what = "value" /\ t.kind \in Scalars ->
                        [at |-> Advance(ts, at), value |-> t]
                  [] what = "value" /\ t.kind = "leftBrace" -> parse[<<"entries", Advance(ts, at)>>]
                  [] what = "entries" /\ t.kind \in {"rightBrace", "eof"} ->
                        [at |-> CloseTable(ts, at), value |-> EmptyTable]
                  [] /\ what = "entries" /\ t.kind \notin {"rightBrace", "eof"}
                     /\ entry.at # 0 /\ rest.at # 0 ->
                        [at |-> rest.at, value |-> Assign(key.key, entry.value, rest.value)]
                  [] OTHER -> Failed
    IN  parse

\* parseDocument: what follows the variable that was asked for is not parsed.
ParseDocument(ts, variable) ==
    LET parse == Parser(ts)
        document[at \in 0..(Len(ts) + 1)] ==
            LET t == Lexed(ts, at)
                parsed == parse[<<"value", Consume(ts, Advance(ts, at), "equal")>>]
            IN  CASE t.kind # "identifier" \/ parsed.at = 0 -> Failed
                  [] t.kind = "identifier" /\ parsed.at # 0 /\ t.text = variable -> parsed
                  [] OTHER -> document[SkipAny(ts, parsed.at, {"semicolon"})]
    IN  document[NewParser(ts)]

\* The table it is, Unlexable for an error.
TableOrError(value) == IF value.kind = "table" THEN value ELSE Unlexable
ParseVariable(ts, variable) == TableOrError(ParseDocument(ts, variable).value)

-----------------------------------------------------------------------------
(* What a table is read as                                                 *)

Field(table, name) ==
    IF name \in DOMAIN table.fields THEN table.fields[name] ELSE Unlexable

\* Table.Sequence succeeds: no index twice, and none missing.
IsSequence(table) ==
    LET n == Len(table.array) + Cardinality(DOMAIN table.indexed) IN
    DOMAIN table.array \cup DOMAIN table.indexed = 1..n

Values(table) == Merge(table.array, table.indexed)

-----------------------------------------------------------------------------
(* The game's writer, which puts a comma behind every entry                *)

WrittenKey(key) ==
    IF key = Positional THEN <<>>
    ELSE <<Symbol("leftBracket"), key, Symbol("rightBracket"), Symbol("equal")>>

WrittenTable(keys, values) ==
    <<Symbol("leftBrace")>>
        \o FlattenSeq([i \in DOMAIN values |->
              WrittenKey(keys[i]) \o values[i] \o <<Symbol("comma")>>])
        \o <<Symbol("rightBrace")>>

=============================================================================
