------------------------ MODULE SavedVariables_proofs ------------------------
(***************************************************************************)
(* Proofs about SavedVariables: the parser's recursion is well-founded, it *)
(* reads a table as it is written, and it accepts no table whose end is    *)
(* missing.                                                                *)
(***************************************************************************)
EXTENDS SavedVariables, NumberInduction, SequenceTheorems, FiniteSetTheorems

-----------------------------------------------------------------------------
(* The recursion of the parser                                             *)

Proper(ts) == Len(ts) \in Nat /\ DOMAIN ts = 1..Len(ts)

Positions(ts) == 0..(Len(ts) + 1)
Calls(ts) == {"value", "entries"} \X Positions(ts)

\* What the parser does at a position, when f says what it does at others.
Step(f, ts, q) ==
    LET what  == q[1]
        at    == q[2]
        t     == Lexed(ts, at)
        key   == ParseKey(ts, at)
        entry == f[<<"value", key.at>>]
        rest  == f[<<"entries", SkipAny(ts, entry.at, {"comma", "semicolon"})>>]
    IN  CASE what = "value" /\ t.kind \in Scalars ->
                [at |-> Advance(ts, at), value |-> t]
          [] what = "value" /\ t.kind = "leftBrace" -> f[<<"entries", Advance(ts, at)>>]
          [] what = "entries" /\ t.kind \in {"rightBrace", "eof"} ->
                [at |-> CloseTable(ts, at), value |-> EmptyTable]
          [] /\ what = "entries" /\ t.kind \notin {"rightBrace", "eof"}
             /\ entry.at # 0 /\ rest.at # 0 ->
                [at |-> rest.at, value |-> Assign(key.key, entry.value, rest.value)]
          [] OTHER -> Failed

ValueAt(f, ts, at) ==
    LET t == Lexed(ts, at) IN
    IF t.kind \in Scalars THEN [at |-> Advance(ts, at), value |-> t]
    ELSE IF t.kind = "leftBrace" THEN f[<<"entries", Advance(ts, at)>>] ELSE Failed

EntryAt(f, ts, at) == f[<<"value", ParseKey(ts, at).at>>]
RestAt(f, ts, at) == f[<<"entries", SkipAny(ts, EntryAt(f, ts, at).at, {"comma", "semicolon"})>>]

EntriesAt(f, ts, at) ==
    IF Lexed(ts, at).kind \in {"rightBrace", "eof"}
    THEN [at |-> CloseTable(ts, at), value |-> EmptyTable]
    ELSE IF EntryAt(f, ts, at).at # 0 /\ RestAt(f, ts, at).at # 0
    THEN [at |-> RestAt(f, ts, at).at,
          value |-> Assign(ParseKey(ts, at).key, EntryAt(f, ts, at).value,
                           RestAt(f, ts, at).value)]
    ELSE Failed

LEMMA StepCases ==
    ASSUME NEW f, NEW ts, NEW at
    PROVE  /\ Step(f, ts, <<"value", at>>) = ValueAt(f, ts, at)
           /\ Step(f, ts, <<"entries", at>>) = EntriesAt(f, ts, at)
<1>1. Step(f, ts, <<"value", at>>) = ValueAt(f, ts, at)
  <2>1. "leftBrace" \notin Scalars
    BY DEF Scalars
  <2>2. QED BY <2>1 DEF Step, ValueAt
<1>2. Step(f, ts, <<"entries", at>>) = EntriesAt(f, ts, at)
  BY DEF Step, EntriesAt, EntryAt, RestAt
<1>3. QED BY <1>1, <1>2

\* Where the tokens the parser asks for can be.
LEMMA Moves ==
    ASSUME NEW ts, Proper(ts), NEW at \in Positions(ts)
    PROVE  /\ Lexed(ts, 0) = Unlexable /\ Lexed(ts, 0).kind = "error"
           /\ at \notin 1..Len(ts) => Lexed(ts, at).kind \in {"eof", "error"}
           /\ at \in 1..Len(ts) => Advance(ts, at) \in {0, at + 1} /\ at + 1 \in Positions(ts)
           /\ Advance(ts, 0) = 0
           /\ \A kind : kind \notin {"eof", "error"} =>
                \/ Consume(ts, at, kind) = 0
                \/ /\ at \in 1..Len(ts) /\ Lexed(ts, at).kind = kind
                   /\ Consume(ts, at, kind) = at + 1 /\ at + 1 \in Positions(ts)
           /\ \A kinds : kinds \cap {"eof", "error"} = {} =>
                \/ SkipAny(ts, at, kinds) = 0
                \/ /\ at # 0 /\ SkipAny(ts, at, kinds) = at
                \/ /\ at \in 1..Len(ts) /\ Lexed(ts, at).kind \in kinds
                   /\ SkipAny(ts, at, kinds) = at + 1 /\ at + 1 \in Positions(ts)
<1>1. Unlexable.kind = "error" /\ EOF.kind = "eof"
  BY DEF Unlexable, EOF, Symbol
<1>2. /\ Lexed(ts, 0) = Unlexable
      /\ at \in 1..Len(ts) => Lexed(ts, at) = ts[at]
      /\ at \notin 1..Len(ts) => Lexed(ts, at) \in {Unlexable, EOF}
  BY DEF Lexed, Proper
<1>3. at \notin 1..Len(ts) => Lexed(ts, at).kind \in {"eof", "error"}
  BY <1>1, <1>2
<1>4. at \in 1..Len(ts) => Advance(ts, at) \in {0, at + 1} /\ at + 1 \in Positions(ts)
  BY DEF Advance, Positions, Proper
<1>5. Advance(ts, 0) = 0
  BY DEF Advance
<1>6. ASSUME NEW kind, kind \notin {"eof", "error"}
      PROVE  \/ Consume(ts, at, kind) = 0
             \/ /\ at \in 1..Len(ts) /\ Lexed(ts, at).kind = kind
                /\ Consume(ts, at, kind) = at + 1 /\ at + 1 \in Positions(ts)
  BY <1>3, <1>4, <1>6 DEF Consume
<1>7. ASSUME NEW kinds, kinds \cap {"eof", "error"} = {}
      PROVE  \/ SkipAny(ts, at, kinds) = 0
             \/ /\ at # 0 /\ SkipAny(ts, at, kinds) = at
             \/ /\ at \in 1..Len(ts) /\ Lexed(ts, at).kind \in kinds
                /\ SkipAny(ts, at, kinds) = at + 1 /\ at + 1 \in Positions(ts)
  BY <1>3, <1>4, <1>7 DEF SkipAny, Positions
<1>8. QED BY <1>1, <1>2, <1>3, <1>4, <1>5, <1>6, <1>7

LEMMA ConsumeMoves ==
    ASSUME NEW ts, Proper(ts), NEW at \in Positions(ts), NEW kind, kind \notin {"eof", "error"}
    PROVE  \/ Consume(ts, at, kind) = 0
           \/ /\ at \in 1..Len(ts) /\ Lexed(ts, at).kind = kind
              /\ Consume(ts, at, kind) = at + 1 /\ at + 1 \in Positions(ts)
  BY Moves

\* A key ends behind the place where it begins, and holds no bracket of a table; an
\* entry without one has none.
KeyEnds(ts, at, end) ==
    \/ end = 0
    \/ end = at /\ at # 0 /\ Lexed(ts, at).kind # "leftBracket"
    \/ /\ end = at + 2 /\ at \in 1..Len(ts) /\ at + 1 \in 1..Len(ts)
       /\ Lexed(ts, at).kind = "identifier" /\ Lexed(ts, at + 1).kind = "equal"
    \/ /\ end = at + 4 /\ at \in 1..Len(ts) /\ at + 1 \in 1..Len(ts)
       /\ at + 2 \in 1..Len(ts) /\ at + 3 \in 1..Len(ts)
       /\ Lexed(ts, at).kind = "leftBracket" /\ Lexed(ts, at + 1).kind \in {"string", "integer"}
       /\ Lexed(ts, at + 2).kind = "rightBracket" /\ Lexed(ts, at + 3).kind = "equal"

LEMMA KeyMoves ==
    ASSUME NEW ts, Proper(ts), NEW at \in Positions(ts)
    PROVE  /\ ParseKey(ts, at).at \in Positions(ts)
           /\ KeyEnds(ts, at, ParseKey(ts, at).at)
<1> DEFINE t == Lexed(ts, at)
           inner == Lexed(ts, at + 1)
<1>a. /\ Len(ts) \in Nat /\ at \in Nat /\ 0 \in Positions(ts)
      /\ \A j \in 1..Len(ts) : j + 1 \in Positions(ts) /\ j + 1 # 0
      /\ \A j : j \in 1..Len(ts) => j \in Positions(ts)
  BY DEF Positions, Proper
<1>1. CASE t.kind = "leftBracket"
  <2> DEFINE first == Consume(ts, at, "leftBracket")
             bracket == Advance(ts, first)
             second == Consume(ts, bracket, "rightBracket")
             third == Consume(ts, second, "equal")
             end == IF IsKey(inner) THEN third ELSE 0
  <2>1. ParseKey(ts, at) = [key |-> inner, at |-> end]
    BY <1>1 DEF ParseKey
  <2>2. CASE ~IsKey(inner)
    <3>1. end = 0
      BY <2>2
    <3> HIDE DEF end
    <3>2. QED BY <1>a, <2>1, <3>1 DEF KeyEnds
  <2>3. CASE IsKey(inner)
    <3>1. end = third
      BY <2>3
    <3>2. inner.kind \in {"string", "integer"}
      BY <2>3 DEF IsKey
    <3>3. first = 0 \/ (first = at + 1 /\ at \in 1..Len(ts) /\ at + 1 \in Positions(ts))
      BY ConsumeMoves
    <3> HIDE DEF end, first
    <3>4. CASE first = 0
      <4>1. bracket = 0
        BY <1>a, <3>4, Moves
      <4> HIDE DEF bracket
      <4>2. second = 0
        BY <1>a, <4>1, ConsumeMoves
      <4> HIDE DEF second
      <4>3. third = 0
        BY <1>a, <4>2, ConsumeMoves
      <4>4. QED BY <1>a, <2>1, <3>1, <4>3 DEF KeyEnds
    <3>5. CASE first = at + 1 /\ at \in 1..Len(ts) /\ at + 1 \in Positions(ts)
      <4>1. at + 1 \in 1..Len(ts)
        BY <3>2, <3>5, Moves
      <4>2. bracket = 0 \/ (bracket = (at + 1) + 1 /\ (at + 1) + 1 \in Positions(ts))
        BY <3>5, <4>1, Moves
      <4> HIDE DEF bracket
      <4>3. (at + 1) + 1 = at + 2 /\ at + 2 # 0
        BY <1>a
      <4>4. \/ second = 0
            \/ /\ second = (at + 2) + 1 /\ at + 2 \in 1..Len(ts) /\ (at + 2) + 1 \in Positions(ts)
               /\ Lexed(ts, at + 2).kind = "rightBracket"
        <5>1. \/ second = 0
              \/ /\ second = bracket + 1 /\ bracket \in 1..Len(ts) /\ bracket + 1 \in Positions(ts)
                 /\ Lexed(ts, bracket).kind = "rightBracket"
          BY <1>a, <4>2, ConsumeMoves
        <5>2. QED BY <1>a, <4>2, <4>3, <5>1
      <4> HIDE DEF second
      <4>5. (at + 2) + 1 = at + 3 /\ at + 3 # 0 /\ (at + 3) + 1 = at + 4
        BY <1>a
      <4>6. \/ third = 0
            \/ /\ third = at + 4 /\ at + 3 \in 1..Len(ts) /\ at + 4 \in Positions(ts)
               /\ Lexed(ts, at + 3).kind = "equal" /\ at + 2 \in 1..Len(ts)
               /\ Lexed(ts, at + 2).kind = "rightBracket"
        <5>1. \/ third = 0
              \/ /\ third = second + 1 /\ second \in 1..Len(ts) /\ second + 1 \in Positions(ts)
                 /\ Lexed(ts, second).kind = "equal"
          BY <1>a, <4>4, ConsumeMoves
        <5>2. QED BY <1>a, <4>4, <4>5, <5>1
      <4> HIDE DEF third
      <4>7. QED BY <1>1, <1>a, <2>1, <3>1, <3>2, <3>5, <4>1, <4>6 DEF KeyEnds
    <3>6. QED BY <3>3, <3>4, <3>5
  <2>4. QED BY <2>2, <2>3
<1>2. CASE t.kind = "identifier" /\ inner.kind = "equal"
  <2> DEFINE first == Advance(ts, at)
             second == Consume(ts, first, "equal")
  <2>1. ParseKey(ts, at).at = second
    BY <1>2 DEF ParseKey
  <2>2. at \in 1..Len(ts)
    BY <1>2, Moves
  <2>3. first = 0 \/ (first = at + 1 /\ at + 1 \in Positions(ts))
    BY <2>2, Moves
  <2> HIDE DEF first
  <2>4. \/ second = 0
        \/ second = first + 1 /\ first \in 1..Len(ts) /\ first + 1 \in Positions(ts)
    BY <1>a, <2>3, ConsumeMoves
  <2>5. (at + 1) + 1 = at + 2 /\ at + 1 # 0
    BY <1>a
  <2> HIDE DEF second
  <2>6. second = 0 \/ (second = at + 2 /\ at + 1 \in 1..Len(ts) /\ at + 2 \in Positions(ts))
    BY <1>a, <2>3, <2>4, <2>5
  <2>7. QED BY <1>2, <1>a, <2>1, <2>2, <2>6 DEF KeyEnds
<1>3. CASE t.kind # "leftBracket" /\ ~(t.kind = "identifier" /\ inner.kind = "equal")
  <2>1. ParseKey(ts, at).at = at
    BY <1>3 DEF ParseKey
  <2>2. at = 0 \/ at # 0
    OBVIOUS
  <2>3. QED BY <1>3, <2>1, <2>2 DEF KeyEnds
<1>4. QED BY <1>1, <1>2, <1>3

\* The parser goes ahead, or fails.
Ahead(f, ts, w, j) ==
    /\ f[<<w, j>>].at \in Positions(ts)
    /\ f[<<w, j>>].at = 0 \/ (j # 0 /\ f[<<w, j>>].at > j)

\* A value begins at a token.
BeginsValue(ts, p) == Lexed(ts, p).kind \in Scalars \/ Lexed(ts, p).kind = "leftBrace"

LEMMA ValueBegins ==
    ASSUME NEW ts, Proper(ts), NEW p \in Positions(ts), BeginsValue(ts, p)
    PROVE  /\ p \in 1..Len(ts) /\ p # 0
           /\ Advance(ts, p) = 0 \/ Advance(ts, p) = p + 1
           /\ p + 1 \in Positions(ts) /\ p + 1 > p /\ p \in Int
<1>1. Lexed(ts, p).kind \notin {"eof", "error"}
  BY DEF BeginsValue, Scalars
<1>2. p \in 1..Len(ts)
  BY <1>1, Moves
<1>3. Advance(ts, p) \in {0, p + 1} /\ p + 1 \in Positions(ts)
  BY <1>2, Moves
<1>4. p # 0 /\ p + 1 > p /\ p \in Int
  BY <1>2 DEF Proper
<1>5. QED BY <1>2, <1>3, <1>4

\* What a step asks for lies ahead, or is the value an entry without a key begins with.
AgreeAhead(f, g, ts, p) ==
    \A w \in {"value", "entries"} : \A j \in Positions(ts) :
        j = 0 \/ j > p => Ahead(f, ts, w, j) /\ g[<<w, j>>] = f[<<w, j>>]

SameValue(f, g, ts, p) ==
    /\ ValueAt(g, ts, p) = ValueAt(f, ts, p)
    /\ ValueAt(f, ts, p).at \in Positions(ts)
    /\ ValueAt(f, ts, p).at = 0 \/ (p # 0 /\ ValueAt(f, ts, p).at > p)

SameEntries(f, g, ts, p) ==
    /\ EntriesAt(g, ts, p) = EntriesAt(f, ts, p)
    /\ EntriesAt(f, ts, p).at \in Positions(ts)
    /\ EntriesAt(f, ts, p).at = 0 \/ (p # 0 /\ EntriesAt(f, ts, p).at > p)

LEMMA StepAsksAhead ==
    ASSUME NEW ts, Proper(ts), NEW p \in Positions(ts), NEW f, NEW g, AgreeAhead(f, g, ts, p)
    PROVE  /\ SameValue(f, g, ts, p)
           /\ Ahead(f, ts, "value", p) /\ g[<<"value", p>>] = f[<<"value", p>>] =>
                SameEntries(f, g, ts, p)
<1> DEFINE kind == Lexed(ts, p).kind
<1>a. Failed.at = 0 /\ 0 \in Positions(ts) /\ p \in Int /\ p >= 0 /\ Len(ts) \in Nat
  BY DEF Failed, Positions, Proper
<1>b. \A w \in {"value", "entries"} :
        /\ f[<<w, 0>>].at = 0 /\ g[<<w, 0>>] = f[<<w, 0>>]
        /\ \A j \in Positions(ts) : j > p =>
             /\ g[<<w, j>>] = f[<<w, j>>]
             /\ f[<<w, j>>].at \in Positions(ts)
             /\ f[<<w, j>>].at = 0 \/ f[<<w, j>>].at > j
  BY <1>a DEF AgreeAhead, Ahead
<1>1. BeginsValue(ts, p) =>
        /\ p # 0 /\ (Advance(ts, p) = 0 \/ Advance(ts, p) = p + 1)
        /\ p + 1 \in Positions(ts) /\ p + 1 > p /\ p \in Int
  BY ValueBegins
<1>2. /\ kind \in Scalars => BeginsValue(ts, p)
      /\ kind = "leftBrace" => BeginsValue(ts, p)
  BY DEF BeginsValue
<1>3. /\ ValueAt(g, ts, p) = ValueAt(f, ts, p)
      /\ ValueAt(f, ts, p).at \in Positions(ts)
      /\ ValueAt(f, ts, p).at = 0 \/ (p # 0 /\ ValueAt(f, ts, p).at > p)
  <2>1. CASE kind \in Scalars
    <3>1. /\ ValueAt(f, ts, p) = [at |-> Advance(ts, p), value |-> Lexed(ts, p)]
          /\ ValueAt(g, ts, p) = [at |-> Advance(ts, p), value |-> Lexed(ts, p)]
      BY <2>1 DEF ValueAt
    <3>2. /\ Advance(ts, p) \in Positions(ts)
          /\ Advance(ts, p) = 0 \/ (p # 0 /\ Advance(ts, p) > p)
      BY <1>1, <1>2, <1>a, <2>1
    <3>3. QED BY <3>1, <3>2
  <2>2. CASE kind \notin Scalars /\ kind = "leftBrace"
    <3>0. BeginsValue(ts, p)
      BY <1>2, <2>2
    <3>1. /\ ValueAt(f, ts, p) = f[<<"entries", Advance(ts, p)>>]
          /\ ValueAt(g, ts, p) = g[<<"entries", Advance(ts, p)>>]
      BY <2>2 DEF ValueAt
    <3>2. CASE Advance(ts, p) = 0
      BY <1>a, <1>b, <3>1, <3>2
    <3>3. CASE Advance(ts, p) = p + 1
      <4> DEFINE n == p + 1
      <4>1. n \in Positions(ts) /\ n > p /\ n \in Int
        BY <1>1, <1>a, <3>0
      <4>2. /\ g[<<"entries", n>>] = f[<<"entries", n>>]
            /\ f[<<"entries", n>>].at \in Positions(ts)
            /\ f[<<"entries", n>>].at = 0 \/ f[<<"entries", n>>].at > n
        BY <1>b, <4>1
      <4>3. p # 0
        BY <1>1, <3>0
      <4> HIDE DEF n
      <4>4. \A q \in Positions(ts) : q > n => q > p
        BY <1>a, <4>1 DEF Positions, Proper
      <4>5. Advance(ts, p) = n
        BY <3>3 DEF n
      <4>6. QED BY <3>1, <4>2, <4>3, <4>4, <4>5
    <3>4. QED BY <1>1, <3>0, <3>2, <3>3
  <2>3. CASE kind \notin Scalars /\ kind # "leftBrace"
    <3>1. ValueAt(f, ts, p) = Failed /\ ValueAt(g, ts, p) = Failed
      BY <2>3 DEF ValueAt
    <3>2. QED BY <1>a, <3>1
  <2>4. QED BY <2>1, <2>2, <2>3
<1>4. ASSUME Ahead(f, ts, "value", p), g[<<"value", p>>] = f[<<"value", p>>]
      PROVE  /\ EntriesAt(g, ts, p) = EntriesAt(f, ts, p)
             /\ EntriesAt(f, ts, p).at \in Positions(ts)
             /\ EntriesAt(f, ts, p).at = 0 \/ (p # 0 /\ EntriesAt(f, ts, p).at > p)
  <2> DEFINE k == ParseKey(ts, p).at
             entry == EntryAt(f, ts, p)
  <2>1. k \in Positions(ts) /\ (k = 0 \/ k = p \/ k > p) /\ (p = 0 => k = 0)
    <3>1. k \in Positions(ts) /\ KeyEnds(ts, p, k)
      BY KeyMoves
    <3> HIDE DEF k
    <3>2. QED BY <1>a, <3>1 DEF KeyEnds
  <2>2. /\ EntryAt(g, ts, p) = entry
        /\ entry.at \in Positions(ts) /\ (entry.at = 0 \/ entry.at > p) /\ (p = 0 => entry.at = 0)
    <3>1. CASE k = 0
      BY <1>a, <1>b, <3>1 DEF EntryAt
    <3>2. CASE k = p
      BY <1>4, <3>2 DEF EntryAt, Ahead
    <3>3. CASE k > p
      <4>1. /\ g[<<"value", k>>] = f[<<"value", k>>] /\ f[<<"value", k>>].at \in Positions(ts)
            /\ f[<<"value", k>>].at = 0 \/ f[<<"value", k>>].at > k
        BY <1>b, <2>1, <3>3
      <4>2. p # 0
        BY <1>a, <2>1, <3>3
      <4>3. QED BY <1>a, <2>1, <3>3, <4>1, <4>2 DEF EntryAt, Positions, Proper
    <3>4. QED BY <2>1, <3>1, <3>2, <3>3
  <2> HIDE DEF entry
  <2> DEFINE s == SkipAny(ts, entry.at, {"comma", "semicolon"})
  <2>3. s \in Positions(ts) /\ (s = 0 \/ s > p)
    <3>1. \/ s = 0 \/ (s = entry.at /\ entry.at # 0)
          \/ s = entry.at + 1 /\ entry.at \in 1..Len(ts) /\ entry.at + 1 \in Positions(ts)
      <4> DEFINE kinds == {"comma", "semicolon"}
      <4>1. kinds \cap {"eof", "error"} = {}
        OBVIOUS
      <4> HIDE DEF kinds
      <4>2. \/ SkipAny(ts, entry.at, kinds) = 0
            \/ entry.at # 0 /\ SkipAny(ts, entry.at, kinds) = entry.at
            \/ /\ entry.at \in 1..Len(ts) /\ SkipAny(ts, entry.at, kinds) = entry.at + 1
               /\ entry.at + 1 \in Positions(ts)
        BY <2>2, <4>1, Moves
      <4>3. QED BY <4>2 DEF kinds
    <3> HIDE DEF s
    <3>2. QED BY <1>a, <2>2, <3>1 DEF Positions, Proper
  <2>4. RestAt(f, ts, p) = f[<<"entries", s>>] /\ RestAt(g, ts, p) = g[<<"entries", s>>]
    BY <2>2 DEF RestAt, entry
  <2> HIDE DEF s
  <2> DEFINE rest == RestAt(f, ts, p)
  <2>5. /\ RestAt(g, ts, p) = rest
        /\ rest.at \in Positions(ts) /\ (rest.at = 0 \/ rest.at > p)
    <3>1. CASE s = 0
      BY <1>a, <1>b, <2>4, <3>1
    <3>2. CASE s > p
      <4>1. /\ g[<<"entries", s>>] = f[<<"entries", s>>] /\ f[<<"entries", s>>].at \in Positions(ts)
            /\ f[<<"entries", s>>].at = 0 \/ f[<<"entries", s>>].at > s
        BY <1>b, <2>3, <3>2
      <4>2. QED BY <1>a, <2>3, <2>4, <3>2, <4>1 DEF Positions, Proper
    <3>3. QED BY <2>3, <3>1, <3>2
  <2> HIDE DEF rest
  <2>6. CASE kind \in {"rightBrace", "eof"}
    <3>1. /\ EntriesAt(f, ts, p) = [at |-> CloseTable(ts, p), value |-> EmptyTable]
          /\ EntriesAt(g, ts, p) = [at |-> CloseTable(ts, p), value |-> EmptyTable]
      BY <2>6 DEF EntriesAt
    <3>2. \/ CloseTable(ts, p) = 0
          \/ CloseTable(ts, p) = p + 1 /\ p \in 1..Len(ts) /\ p + 1 \in Positions(ts)
      <4>1. CloseTable(ts, p) = Consume(ts, p, "rightBrace")
        BY DEF CloseTable
      <4>2. \/ Consume(ts, p, "rightBrace") = 0
            \/ Consume(ts, p, "rightBrace") = p + 1 /\ p \in 1..Len(ts) /\ p + 1 \in Positions(ts)
        BY ConsumeMoves
      <4>3. QED BY <4>1, <4>2
    <3>3. QED BY <1>a, <3>1, <3>2
  <2>7. CASE kind \notin {"rightBrace", "eof"} /\ entry.at # 0 /\ rest.at # 0
    <3>1. /\ EntriesAt(g, ts, p) = EntriesAt(f, ts, p)
          /\ EntriesAt(f, ts, p).at = rest.at
      BY <2>2, <2>5, <2>7 DEF EntriesAt, entry, rest
    <3>2. QED BY <1>a, <2>2, <2>5, <2>7, <3>1
  <2>8. CASE kind \notin {"rightBrace", "eof"} /\ ~(entry.at # 0 /\ rest.at # 0)
    <3>1. EntriesAt(f, ts, p) = Failed /\ EntriesAt(g, ts, p) = Failed
      BY <2>2, <2>5, <2>8 DEF EntriesAt, entry, rest
    <3>2. QED BY <1>a, <3>1
  <2>9. QED BY <2>6, <2>7, <2>8
<1>5. QED BY <1>3, <1>4 DEF SameValue, SameEntries

\* f is what the parser does from position p on, and where it has failed.
ParsesAt(f, ts, j) ==
    /\ f[<<"value", j>>] = ValueAt(f, ts, j) /\ Ahead(f, ts, "value", j)
    /\ f[<<"entries", j>>] = EntriesAt(f, ts, j) /\ Ahead(f, ts, "entries", j)

ParsesFrom(f, ts, p) ==
    /\ f = [q \in Calls(ts) |-> f[q]]
    /\ f[<<"value", 0>>] = Failed /\ f[<<"entries", 0>>] = Failed
    /\ \A j \in Positions(ts) : j >= p => ParsesAt(f, ts, j)

LEMMA NoKey ==
    ASSUME NEW ts, Proper(ts)
    PROVE  ParseKey(ts, 0).at = 0
<1> DEFINE k == ParseKey(ts, 0).at
<1>1. 0 \in Positions(ts) /\ Len(ts) \in Nat
  BY DEF Positions, Proper
<1>2. KeyEnds(ts, 0, k)
  BY <1>1, KeyMoves
<1> HIDE DEF k
<1>3. k = 0
  BY <1>1, <1>2 DEF KeyEnds
<1>4. QED BY <1>3 DEF k

\* After an error there is nothing to be parsed.
LEMMA FailedStays ==
    ASSUME NEW ts, Proper(ts), NEW f, f[<<"value", 0>>] = Failed, f[<<"entries", 0>>] = Failed
    PROVE  ParsesAt(f, ts, 0)
<1>1. 0 \in Positions(ts) /\ Failed.at = 0
  BY DEF Positions, Proper, Failed
<1>2. Lexed(ts, 0).kind = "error"
  BY <1>1, Moves
<1>3. ParseKey(ts, 0).at = 0
  BY <1>1, NoKey
<1>4. ValueAt(f, ts, 0) = Failed
  BY <1>2 DEF ValueAt, Scalars
<1>5. EntryAt(f, ts, 0).at = 0
  BY <1>1, <1>3 DEF EntryAt
<1>6. EntriesAt(f, ts, 0) = Failed
  BY <1>2, <1>5 DEF EntriesAt
<1>7. QED BY <1>1, <1>4, <1>6 DEF ParsesAt, Ahead

LEMMA ParsesBackwards ==
    ASSUME NEW ts, Proper(ts), NEW p \in Positions(ts), p # 0,
           NEW f, ParsesFrom(f, ts, p + 1)
    PROVE  \E g : ParsesFrom(g, ts, p)
<1> DEFINE v == [f EXCEPT ![<<"value", p>>] = ValueAt(f, ts, p)]
           g == [v EXCEPT ![<<"entries", p>>] = EntriesAt(v, ts, p)]
<1>1. /\ f = [q \in Calls(ts) |-> f[q]]
      /\ f[<<"value", 0>>] = Failed /\ f[<<"entries", 0>>] = Failed
      /\ \A j \in Positions(ts) : j >= p + 1 => ParsesAt(f, ts, j)
      /\ ParsesAt(f, ts, 0)
  BY FailedStays DEF ParsesFrom
<1>a. p \in Int /\ \A j \in Positions(ts) : j \in Int
  BY DEF Positions, Proper
<1>b. \A w \in {"value", "entries"} : \A j \in Positions(ts) : <<w, j>> \in Calls(ts)
  BY DEF Calls
<1>2. /\ v = [q \in Calls(ts) |-> v[q]] /\ g = [q \in Calls(ts) |-> g[q]]
      /\ v[<<"value", p>>] = ValueAt(f, ts, p) /\ g[<<"value", p>>] = ValueAt(f, ts, p)
      /\ g[<<"entries", p>>] = EntriesAt(v, ts, p)
      /\ \A w \in {"value", "entries"} : \A j \in Positions(ts) :
            j # p => v[<<w, j>>] = f[<<w, j>>] /\ g[<<w, j>>] = f[<<w, j>>]
  BY <1>1, <1>b
<1> HIDE DEF v, g
<1>3. \A w \in {"value", "entries"} : \A j \in Positions(ts) :
        j = 0 \/ j > p => /\ Ahead(f, ts, w, j) /\ Ahead(v, ts, w, j)
                          /\ v[<<w, j>>] = f[<<w, j>>] /\ g[<<w, j>>] = f[<<w, j>>]
                          /\ g[<<w, j>>] = v[<<w, j>>]
  <2> SUFFICES ASSUME NEW w \in {"value", "entries"}, NEW j \in Positions(ts), j = 0 \/ j > p
               PROVE  /\ Ahead(f, ts, w, j) /\ Ahead(v, ts, w, j)
                      /\ v[<<w, j>>] = f[<<w, j>>] /\ g[<<w, j>>] = f[<<w, j>>]
                      /\ g[<<w, j>>] = v[<<w, j>>]
    OBVIOUS
  <2>1. v[<<w, j>>] = f[<<w, j>>] /\ g[<<w, j>>] = f[<<w, j>>]
    BY <1>2, <1>a
  <2>2. ParsesAt(f, ts, j)
    BY <1>1, <1>a
  <2>3. Ahead(f, ts, w, j)
    BY <2>2 DEF ParsesAt
  <2>4. QED BY <2>1, <2>3 DEF Ahead
<1>4. ASSUME NEW j \in Positions(ts), j >= p + 1
      PROVE  ParsesAt(g, ts, j)
  <2>1. AgreeAhead(f, g, ts, j)
    BY <1>3, <1>4, <1>a DEF AgreeAhead
  <2>2. ParsesAt(f, ts, j) /\ g[<<"value", j>>] = f[<<"value", j>>]
        /\ g[<<"entries", j>>] = f[<<"entries", j>>]
    BY <1>1, <1>3, <1>4, <1>a
  <2>3. Ahead(f, ts, "value", j)
    BY <2>2 DEF ParsesAt
  <2>4. ValueAt(g, ts, j) = ValueAt(f, ts, j) /\ EntriesAt(g, ts, j) = EntriesAt(f, ts, j)
    <3>1. SameValue(f, g, ts, j) /\ SameEntries(f, g, ts, j)
      BY <2>1, <2>2, <2>3, StepAsksAhead
    <3>2. QED BY <3>1 DEF SameValue, SameEntries
  <2>5. QED BY <2>2, <2>4 DEF ParsesAt, Ahead
<1>5. ParsesAt(g, ts, p)
  <2>1. /\ ValueAt(v, ts, p) = ValueAt(f, ts, p) /\ ValueAt(g, ts, p) = ValueAt(f, ts, p)
        /\ ValueAt(f, ts, p).at \in Positions(ts)
        /\ ValueAt(f, ts, p).at = 0 \/ (p # 0 /\ ValueAt(f, ts, p).at > p)
    <3>1. AgreeAhead(f, v, ts, p)
      BY <1>3 DEF AgreeAhead
    <3>2. AgreeAhead(f, g, ts, p)
      BY <1>3 DEF AgreeAhead
    <3>3. SameValue(f, v, ts, p)
      BY <3>1, StepAsksAhead
    <3>4. SameValue(f, g, ts, p)
      BY <3>2, StepAsksAhead
    <3>5. QED BY <3>3, <3>4 DEF SameValue
  <2>2. Ahead(v, ts, "value", p) /\ Ahead(g, ts, "value", p) /\ g[<<"value", p>>] = v[<<"value", p>>]
    BY <1>2, <2>1 DEF Ahead
  <2>3. /\ EntriesAt(g, ts, p) = EntriesAt(v, ts, p)
        /\ EntriesAt(v, ts, p).at \in Positions(ts)
        /\ EntriesAt(v, ts, p).at = 0 \/ (p # 0 /\ EntriesAt(v, ts, p).at > p)
    <3>1. AgreeAhead(v, g, ts, p)
      BY <1>3 DEF AgreeAhead
    <3>2. SameEntries(v, g, ts, p)
      BY <2>2, <3>1, StepAsksAhead
    <3>3. QED BY <3>2 DEF SameEntries
  <2>4. QED BY <1>2, <2>1, <2>2, <2>3 DEF ParsesAt, Ahead
<1>6. ParsesFrom(g, ts, p)
  <2>1. \A j \in Positions(ts) : j >= p => j >= p + 1 \/ j = p
    BY <1>a
  <2>2. 0 \in Positions(ts)
    BY DEF Positions, Proper
  <2>3. QED BY <1>1, <1>2, <1>4, <1>5, <2>1, <2>2 DEF ParsesFrom
<1>7. QED BY <1>6

LEMMA ParsesExists ==
    ASSUME NEW ts, Proper(ts)
    PROVE  \E f : ParsesFrom(f, ts, 1)
<1> DEFINE n == Len(ts)
           A == {k \in Nat : \E f : ParsesFrom(f, ts, (n + 2) - k)}
<1>a. n \in Nat /\ Positions(ts) = 0..(n + 1)
  BY DEF Positions, Proper
<1>1. 0 \in A
  <2> DEFINE f == [q \in Calls(ts) |-> Failed]
  <2>1. f = [q \in Calls(ts) |-> f[q]]
    OBVIOUS
  <2>2. <<"value", 0>> \in Calls(ts) /\ <<"entries", 0>> \in Calls(ts)
    BY <1>a DEF Calls
  <2>3. f[<<"value", 0>>] = Failed /\ f[<<"entries", 0>>] = Failed
    BY <2>2
  <2>4. \A j \in Positions(ts) : ~(j >= n + 2)
    BY <1>a
  <2> HIDE DEF f, n
  <2>5. ParsesFrom(f, ts, n + 2)
    BY <2>1, <2>3, <2>4 DEF ParsesFrom
  <2>6. (n + 2) - 0 = n + 2
    BY <1>a
  <2>7. QED BY <2>5, <2>6
<1>2. ASSUME NEW k \in 0..n, k \in A PROVE k + 1 \in A
  <2> HIDE DEF n
  <2> DEFINE p == (n + 2) - (k + 1)
  <2>1. p \in Positions(ts) /\ p # 0 /\ (n + 2) - k = p + 1
    BY <1>a
  <2> HIDE DEF p
  <2>2. PICK f : ParsesFrom(f, ts, p + 1)
    BY <1>2, <2>1
  <2>3. \E g : ParsesFrom(g, ts, p)
    BY <2>1, <2>2, ParsesBackwards
  <2>4. k + 1 \in Nat
    BY <1>a
  <2>5. QED BY <2>3, <2>4 DEF p
<1>3. 0..(n + 1) \subseteq A
  <2> HIDE DEF A, n
  <2>1. 0 \in Int /\ n + 1 \in Int /\ (n + 1) - 1 = n
    BY <1>a
  <2>2. \A k \in 0..((n + 1) - 1) : k \in A => k + 1 \in A
    BY <1>2, <2>1
  <2>3. QED BY <1>1, <2>1, <2>2, LoopInduction
<1>4. n + 1 \in A
  BY <1>3, <1>a
<1>5. (n + 2) - (n + 1) = 1
  BY <1>a
<1>6. QED BY <1>4, <1>5

\* The parser is the function its equation describes.
LEMMA ParserSteps ==
    ASSUME NEW ts, Proper(ts)
    PROVE  Parser(ts) = [q \in Calls(ts) |-> Step(Parser(ts), ts, q)]
<1> DEFINE Parsing(f) == f = [q \in Calls(ts) |-> Step(f, ts, q)]
<1>1. PICK f : ParsesFrom(f, ts, 1)
  BY ParsesExists
<1>2. ASSUME NEW w \in {"value", "entries"}, NEW j \in Positions(ts)
      PROVE  f[<<w, j>>] = Step(f, ts, <<w, j>>)
  <2>1. ParsesAt(f, ts, j)
    <3>1. CASE j = 0
      BY <1>1, <3>1, FailedStays DEF ParsesFrom
    <3>2. CASE j >= 1
      BY <1>1, <3>2 DEF ParsesFrom
    <3>3. j = 0 \/ j >= 1
      BY DEF Positions, Proper
    <3>4. QED BY <3>1, <3>2, <3>3
  <2>2. QED BY <2>1, StepCases DEF ParsesAt
<1>3. \A q \in Calls(ts) : f[q] = Step(f, ts, q)
  <2> SUFFICES ASSUME NEW q \in Calls(ts) PROVE f[q] = Step(f, ts, q)
    OBVIOUS
  <2>1. PICK w \in {"value", "entries"}, j \in Positions(ts) : q = <<w, j>>
    BY DEF Calls
  <2>2. QED BY <1>2, <2>1
<1>4. Parsing(f)
  BY <1>1, <1>3 DEF ParsesFrom
<1>5. Parser(ts) = CHOOSE g : Parsing(g)
  BY DEF Parser, Step, Calls, Positions
<1> HIDE DEF Parsing
<1>6. Parsing(Parser(ts))
  BY <1>4, <1>5
<1>7. QED BY <1>6 DEF Parsing

\* At each position the parser takes its step, and goes ahead or fails.
LEMMA ParserParses ==
    ASSUME NEW ts, Proper(ts)
    PROVE  \A j \in Positions(ts) : ParsesAt(Parser(ts), ts, j)
<1> DEFINE f == Parser(ts)
           n == Len(ts) + 1
           A == {j \in Positions(ts) : ParsesAt(f, ts, j)}
<1>a. n \in Nat /\ Positions(ts) = 0..n /\ 0 \in Positions(ts)
  BY DEF Positions, Proper
<1>1. \A j \in Positions(ts) : f[<<"value", j>>] = ValueAt(f, ts, j)
                               /\ f[<<"entries", j>>] = EntriesAt(f, ts, j)
  <2> SUFFICES ASSUME NEW j \in Positions(ts)
               PROVE  f[<<"value", j>>] = ValueAt(f, ts, j)
                      /\ f[<<"entries", j>>] = EntriesAt(f, ts, j)
    OBVIOUS
  <2>1. <<"value", j>> \in Calls(ts) /\ <<"entries", j>> \in Calls(ts)
    BY DEF Calls
  <2> HIDE DEF f
  <2>2. f = [q \in Calls(ts) |-> Step(f, ts, q)]
    BY ParserSteps DEF f
  <2>3. f[<<"value", j>>] = Step(f, ts, <<"value", j>>)
        /\ f[<<"entries", j>>] = Step(f, ts, <<"entries", j>>)
    BY <2>1, <2>2
  <2>4. QED BY <2>3, StepCases
<1> HIDE DEF f
<1>2. f[<<"value", 0>>] = Failed /\ f[<<"entries", 0>>] = Failed
  <2>1. Lexed(ts, 0).kind = "error" /\ ParseKey(ts, 0).at = 0
    BY <1>a, Moves, NoKey
  <2>2. f[<<"value", 0>>] = Failed
    BY <1>1, <1>a, <2>1 DEF ValueAt, Scalars
  <2>3. EntryAt(f, ts, 0).at = 0
    BY <2>1, <2>2 DEF EntryAt, Failed
  <2>4. f[<<"entries", 0>>] = Failed
    BY <1>1, <1>a, <2>1, <2>3 DEF EntriesAt
  <2>5. QED BY <2>2, <2>4
<1>3. ParsesAt(f, ts, 0)
  BY <1>2, FailedStays
<1>4. ASSUME NEW p \in 1..n, \A j \in 1..n : j > p => j \in A PROVE p \in A
  <2>1. p \in Positions(ts)
    BY <1>a
  <2>2. \A j \in Positions(ts) : j = 0 \/ j > p => ParsesAt(f, ts, j)
    BY <1>3, <1>4, <1>a
  <2>3. AgreeAhead(f, f, ts, p)
    BY <2>2 DEF AgreeAhead, ParsesAt
  <2>4. Ahead(f, ts, "value", p)
    <3>1. SameValue(f, f, ts, p)
      BY <2>1, <2>3, StepAsksAhead
    <3>2. QED BY <1>1, <2>1, <3>1 DEF Ahead, SameValue
  <2>5. Ahead(f, ts, "entries", p)
    <3>1. SameEntries(f, f, ts, p)
      BY <2>1, <2>3, <2>4, StepAsksAhead
    <3>2. QED BY <1>1, <2>1, <3>1 DEF Ahead, SameEntries
  <2>6. QED BY <1>1, <2>1, <2>4, <2>5 DEF ParsesAt
<1>5. 1..n \subseteq A
  <2> HIDE DEF A
  <2>1. QED BY <1>4, <1>a, BackwardInduction
<1>6. QED
  <2> SUFFICES ASSUME NEW j \in Positions(ts) PROVE ParsesAt(f, ts, j)
    BY DEF f
  <2>1. j = 0 \/ j \in 1..n
    BY <1>a
  <2>2. QED BY <1>3, <1>5, <2>1

-----------------------------------------------------------------------------
(* A table without its end is not accepted                                 *)

Weight(t) == IF t.kind = "leftBrace" THEN 1 ELSE IF t.kind = "rightBrace" THEN -1 ELSE 0

\* d says behind each token how many tables are open.
Depths(d, ts) ==
    /\ d \in [0..Len(ts) -> Int]
    /\ \A n \in 1..Len(ts) : d[n] = d[n - 1] + Weight(ts[n])

Open(d, p) == d[p - 1]

\* A value leaves as many tables open as there were, the rest of a table one less.
Closes(ts, d, p) ==
    LET value   == Parser(ts)[<<"value", p>>].at
        entries == Parser(ts)[<<"entries", p>>].at
    IN  /\ value # 0 => Open(d, value) = Open(d, p)
        /\ entries # 0 => Open(d, entries) = Open(d, p) - 1

LEMMA OpenMoves ==
    ASSUME NEW ts, Proper(ts), NEW d, Depths(d, ts), NEW p \in 1..Len(ts)
    PROVE  /\ Open(d, p) \in Int
           /\ Lexed(ts, p).kind \notin {"leftBrace", "rightBrace"} => Open(d, p + 1) = Open(d, p)
           /\ Lexed(ts, p).kind = "leftBrace" => Open(d, p + 1) = Open(d, p) + 1
           /\ Lexed(ts, p).kind = "rightBrace" => Open(d, p + 1) = Open(d, p) - 1
<1>1. Lexed(ts, p) = ts[p]
  BY DEF Lexed, Proper
<1>2. d[p] = d[p - 1] + Weight(ts[p]) /\ d[p - 1] \in Int /\ (p + 1) - 1 = p
  <2> DEFINE n == Len(ts)
  <2>1. n \in Nat /\ d \in [0..n -> Int] /\ p \in 1..n
    BY DEF Depths, Proper
  <2> HIDE DEF n
  <2>2. d[p - 1] \in Int /\ (p + 1) - 1 = p
    BY <2>1
  <2>3. QED BY <2>2 DEF Depths
<1>3. Open(d, p) = d[p - 1] /\ Open(d, p + 1) = d[p]
  BY <1>2 DEF Open
<1> DEFINE o == Open(d, p)
           next == Open(d, p + 1)
           kind == Lexed(ts, p).kind
<1>4. next = o + (IF kind = "leftBrace" THEN 1 ELSE IF kind = "rightBrace" THEN -1 ELSE 0) /\ o \in Int
  BY <1>1, <1>2, <1>3 DEF Weight
<1> HIDE DEF o, next, kind
<1>5. /\ kind \notin {"leftBrace", "rightBrace"} => next = o
      /\ kind = "leftBrace" => next = o + 1
      /\ kind = "rightBrace" => next = o - 1
  BY <1>4
<1>6. QED BY <1>4, <1>5 DEF o, next, kind

LEMMA ParserFailed ==
    ASSUME NEW ts, Proper(ts)
    PROVE  Parser(ts)[<<"value", 0>>].at = 0 /\ Parser(ts)[<<"entries", 0>>].at = 0
<1>1. 0 \in Positions(ts)
  BY DEF Positions, Proper
<1>2. ParsesAt(Parser(ts), ts, 0)
  BY <1>1, ParserParses
<1>3. QED BY <1>1, <1>2 DEF ParsesAt, Ahead

LEMMA KeyWeighsNothing ==
    ASSUME NEW ts, Proper(ts), NEW d, Depths(d, ts), NEW p \in Nat, NEW k \in Nat,
           KeyEnds(ts, p, k), k # 0
    PROVE  Open(d, k) = Open(d, p) /\ k >= p
<1>1. CASE k = p
  BY <1>1
<1>2. CASE /\ k = p + 2 /\ p \in 1..Len(ts) /\ p + 1 \in 1..Len(ts)
           /\ Lexed(ts, p).kind = "identifier" /\ Lexed(ts, p + 1).kind = "equal"
  <2>1. Open(d, p + 1) = Open(d, p)
    BY <1>2, OpenMoves
  <2>2. Open(d, (p + 1) + 1) = Open(d, p + 1)
    BY <1>2, OpenMoves
  <2>3. (p + 1) + 1 = k
    BY <1>2
  <2>4. QED BY <1>2, <2>1, <2>2, <2>3
<1>3. CASE /\ k = p + 4 /\ p \in 1..Len(ts) /\ p + 1 \in 1..Len(ts)
           /\ p + 2 \in 1..Len(ts) /\ p + 3 \in 1..Len(ts)
           /\ Lexed(ts, p).kind = "leftBracket" /\ Lexed(ts, p + 1).kind \in {"string", "integer"}
           /\ Lexed(ts, p + 2).kind = "rightBracket" /\ Lexed(ts, p + 3).kind = "equal"
  <2>1. Open(d, p + 1) = Open(d, p)
    BY <1>3, OpenMoves
  <2>2. Open(d, (p + 1) + 1) = Open(d, p + 1)
    BY <1>3, OpenMoves
  <2>3. Open(d, (p + 2) + 1) = Open(d, p + 2)
    BY <1>3, OpenMoves
  <2>4. Open(d, (p + 3) + 1) = Open(d, p + 3)
    BY <1>3, OpenMoves
  <2>5. (p + 1) + 1 = p + 2 /\ (p + 2) + 1 = p + 3 /\ (p + 3) + 1 = k
    BY <1>3
  <2>6. QED BY <1>3, <2>1, <2>2, <2>3, <2>4, <2>5
<1>4. QED BY <1>1, <1>2, <1>3 DEF KeyEnds

LEMMA ClosesBackwards ==
    ASSUME NEW ts, Proper(ts), NEW d, Depths(d, ts), NEW p \in 1..(Len(ts) + 1),
           \A j \in 1..(Len(ts) + 1) : j > p => Closes(ts, d, j)
    PROVE  Closes(ts, d, p)
<1> DEFINE f == Parser(ts)
           n == Len(ts)
           kind == Lexed(ts, p).kind
<1>a. n \in Nat /\ Positions(ts) = 0..(n + 1) /\ p \in Positions(ts) /\ p # 0 /\ p \in Nat
  BY DEF Positions, Proper
<1>b. \A j \in 1..n : j \in Positions(ts) /\ j + 1 \in 1..(n + 1) /\ j + 1 \in Positions(ts)
  BY <1>a
<1>c. \A j \in Positions(ts) : ParsesAt(f, ts, j)
  BY ParserParses
<1>d. f[<<"value", 0>>].at = 0 /\ f[<<"entries", 0>>].at = 0
  BY ParserFailed
<1>e. \A j : /\ Closes(ts, d, j) /\ f[<<"value", j>>].at # 0 =>
                  Open(d, f[<<"value", j>>].at) = Open(d, j)
             /\ Closes(ts, d, j) /\ f[<<"entries", j>>].at # 0 =>
                  Open(d, f[<<"entries", j>>].at) = Open(d, j) - 1
  BY DEF Closes
<1>f. /\ f[<<"value", p>>].at # 0 => Open(d, f[<<"value", p>>].at) = Open(d, p)
      /\ f[<<"entries", p>>].at # 0 => Open(d, f[<<"entries", p>>].at) = Open(d, p) - 1
      => Closes(ts, d, p)
  BY DEF Closes
<1> HIDE DEF f
<1>1. ASSUME f[<<"value", p>>].at # 0
      PROVE  Open(d, f[<<"value", p>>].at) = Open(d, p)
  <2>1. f[<<"value", p>>] = ValueAt(f, ts, p)
    BY <1>a, <1>c DEF ParsesAt
  <2>2. CASE kind \in Scalars
    <3>1. BeginsValue(ts, p)
      BY <2>2 DEF BeginsValue
    <3>2. p \in 1..Len(ts) /\ (Advance(ts, p) = 0 \/ Advance(ts, p) = p + 1)
      BY <1>a, <3>1, ValueBegins
    <3>3. f[<<"value", p>>].at = p + 1
      BY <1>1, <2>1, <2>2, <3>2 DEF ValueAt
    <3>4. kind \notin {"leftBrace", "rightBrace"}
      BY <2>2 DEF Scalars
    <3>5. QED BY <3>2, <3>3, <3>4, OpenMoves
  <2>3. CASE kind \notin Scalars /\ kind = "leftBrace"
    <3>1. BeginsValue(ts, p)
      BY <2>3 DEF BeginsValue
    <3>2. p \in 1..Len(ts) /\ (Advance(ts, p) = 0 \/ Advance(ts, p) = p + 1)
      BY <1>a, <3>1, ValueBegins
    <3>3. f[<<"value", p>>] = f[<<"entries", Advance(ts, p)>>]
      BY <2>1, <2>3 DEF ValueAt
    <3>4. Advance(ts, p) # 0
      BY <1>1, <1>d, <3>3
    <3>5. Closes(ts, d, p + 1)
      BY <1>a, <1>b, <3>2
    <3>6. Open(d, f[<<"value", p>>].at) = Open(d, p + 1) - 1
      BY <1>1, <1>e, <3>2, <3>3, <3>4, <3>5
    <3>7. Open(d, p + 1) = Open(d, p) + 1 /\ Open(d, p) \in Int
      BY <2>3, <3>2, OpenMoves
    <3>8. QED BY <3>6, <3>7
  <2>4. CASE kind \notin Scalars /\ kind # "leftBrace"
    <3>1. f[<<"value", p>>] = Failed
      BY <2>1, <2>4 DEF ValueAt
    <3>2. QED BY <1>1, <3>1 DEF Failed
  <2>5. QED BY <2>2, <2>3, <2>4
<1>2. ASSUME f[<<"entries", p>>].at # 0
      PROVE  Open(d, f[<<"entries", p>>].at) = Open(d, p) - 1
  <2>1. f[<<"entries", p>>] = EntriesAt(f, ts, p)
    BY <1>a, <1>c DEF ParsesAt
  <2>2. CASE kind \in {"rightBrace", "eof"}
    <3>1. f[<<"entries", p>>].at = Consume(ts, p, "rightBrace")
      <4>1. EntriesAt(f, ts, p) = [at |-> CloseTable(ts, p), value |-> EmptyTable]
        BY <2>2 DEF EntriesAt
      <4>2. QED BY <2>1, <4>1 DEF CloseTable
    <3>2. Consume(ts, p, "rightBrace") # 0
      BY <1>2, <3>1
    <3>3. p \in 1..Len(ts) /\ Lexed(ts, p).kind = "rightBrace" /\ Consume(ts, p, "rightBrace") = p + 1
      BY <1>a, <3>2, ConsumeMoves
    <3>4. QED BY <3>1, <3>3, OpenMoves
  <2>3. CASE kind \notin {"rightBrace", "eof"}
    <3> DEFINE k == ParseKey(ts, p).at
               e == f[<<"value", k>>].at
               s == SkipAny(ts, e, {"comma", "semicolon"})
               r == f[<<"entries", s>>].at
    <3>1. e # 0 /\ r # 0 /\ f[<<"entries", p>>].at = r
      <4> DEFINE entry == EntryAt(f, ts, p)
                 rest == RestAt(f, ts, p)
      <4>1. entry.at = e /\ rest.at = r
        BY DEF EntryAt, RestAt
      <4>2. CASE entry.at # 0 /\ rest.at # 0
        <5>1. EntriesAt(f, ts, p).at = rest.at
          BY <2>3, <4>2 DEF EntriesAt
        <5>2. QED BY <2>1, <4>1, <4>2, <5>1
      <4>3. CASE ~(entry.at # 0 /\ rest.at # 0)
        <5>1. EntriesAt(f, ts, p) = Failed
          BY <2>3, <4>3 DEF EntriesAt
        <5>2. QED BY <1>2, <2>1, <5>1 DEF Failed
      <4>4. QED BY <4>2, <4>3
    <3>2. k \in Positions(ts) /\ KeyEnds(ts, p, k)
      BY <1>a, KeyMoves
    <3> HIDE DEF k
    <3>3. k # 0
      BY <1>d, <3>1
    <3>4. Open(d, k) = Open(d, p) /\ k >= p
      BY <1>a, <3>2, <3>3, KeyWeighsNothing
    <3>5. Ahead(f, ts, "value", k)
      BY <1>c, <3>2 DEF ParsesAt
    <3>6. e \in Positions(ts) /\ e > k
      BY <3>1, <3>5 DEF Ahead
    <3>7. Open(d, e) = Open(d, k)
      <4>1. CASE k = p
        BY <1>1, <3>1, <4>1
      <4>2. CASE k > p
        <5>1. k \in 1..(n + 1)
          BY <1>a, <3>2, <3>3
        <5>2. Closes(ts, d, k)
          BY <4>2, <5>1
        <5>3. QED BY <1>e, <3>1, <5>2
      <4>3. QED BY <1>a, <3>2, <3>4, <4>1, <4>2
    <3> HIDE DEF e
    <3>8. /\ s \in 1..(n + 1) /\ s > p
          /\ Open(d, s) = Open(d, e)
      <4> DEFINE kinds == {"comma", "semicolon"}
      <4>1. kinds \cap {"eof", "error"} = {}
        OBVIOUS
      <4>2. \A c : c \in kinds => c \notin {"leftBrace", "rightBrace"}
        OBVIOUS
      <4> HIDE DEF kinds
      <4>3. \/ SkipAny(ts, e, kinds) = 0
            \/ /\ e # 0 /\ SkipAny(ts, e, kinds) = e
            \/ /\ e \in 1..Len(ts) /\ Lexed(ts, e).kind \in kinds
               /\ SkipAny(ts, e, kinds) = e + 1 /\ e + 1 \in Positions(ts)
        BY <3>6, <4>1, Moves
      <4>4. s = SkipAny(ts, e, kinds)
        BY DEF kinds
      <4> HIDE DEF s
      <4>5. s # 0
        BY <1>d, <3>1
      <4>6. CASE s = e /\ e # 0
        BY <1>a, <3>2, <3>4, <3>6, <4>6
      <4>7. CASE e \in 1..Len(ts) /\ Lexed(ts, e).kind \in kinds /\ s = e + 1
        <5>1. Open(d, e + 1) = Open(d, e)
          BY <4>2, <4>7, OpenMoves
        <5>2. QED BY <1>a, <1>b, <3>2, <3>4, <3>6, <4>7, <5>1
      <4>8. QED BY <4>3, <4>4, <4>5, <4>6, <4>7
    <3> HIDE DEF s
    <3>9. Closes(ts, d, s)
      BY <3>8
    <3>10. Open(d, f[<<"entries", s>>].at) = Open(d, s) - 1
      BY <1>e, <3>1, <3>9
    <3>11. Open(d, s) = Open(d, p)
      BY <3>4, <3>7, <3>8
    <3>12. QED BY <3>1, <3>10, <3>11
  <2>4. QED BY <2>2, <2>3
<1>3. QED BY <1>1, <1>2, <1>f

LEMMA AllCloses ==
    ASSUME NEW ts, Proper(ts), NEW d, Depths(d, ts), NEW p \in 1..(Len(ts) + 1)
    PROVE  Closes(ts, d, p)
<1> DEFINE n == Len(ts) + 1
           A == {j \in 1..n : Closes(ts, d, j)}
<1>1. n \in Nat
  BY DEF Proper
<1>2. \A q \in 1..n : (\A j \in 1..n : j > q => j \in A) => q \in A
  BY ClosesBackwards
<1>3. 1..n \subseteq A
  <2> HIDE DEF A, n
  <2>1. QED BY <1>1, <1>2, BackwardInduction
<1>4. QED BY <1>3

-----------------------------------------------------------------------------
(* The document                                                            *)

Assigned(ts, at) == Parser(ts)[<<"value", Consume(ts, Advance(ts, at), "equal")>>]

DocumentAt(g, ts, variable, at) ==
    LET t == Lexed(ts, at)
        parsed == Assigned(ts, at)
    IN  CASE t.kind # "identifier" \/ parsed.at = 0 -> Failed
          [] t.kind = "identifier" /\ parsed.at # 0 /\ t.text = variable -> parsed
          [] OTHER -> g[SkipAny(ts, parsed.at, {"semicolon"})]

IsDocument(g, ts, variable) ==
    g = [at \in Positions(ts) |-> DocumentAt(g, ts, variable, at)]

\* What is assigned begins two tokens on.
LEMMA AssignedAhead ==
    ASSUME NEW ts, Proper(ts), NEW p \in Positions(ts), p # 0
    PROVE  /\ Assigned(ts, p).at \in Positions(ts)
           /\ \/ Assigned(ts, p).at = 0
              \/ /\ Assigned(ts, p).at > p + 2 /\ p + 2 \in 1..(Len(ts) + 1)
                 /\ Assigned(ts, p) = Parser(ts)[<<"value", p + 2>>]
<1> DEFINE first == Advance(ts, p)
           second == Consume(ts, first, "equal")
           r == Assigned(ts, p)
<1>a. Len(ts) \in Nat /\ Positions(ts) = 0..(Len(ts) + 1) /\ p \in Nat /\ p # 0
  BY DEF Positions, Proper
<1>1. r = Parser(ts)[<<"value", second>>]
  BY DEF Assigned
<1>2. first = p + 1 \/ first = 0 \/ first \notin 1..Len(ts)
  BY DEF Advance
<1>3. first \in Positions(ts) \/ first \notin 1..Len(ts)
  BY <1>a
<1> HIDE DEF first
<1>4. second = 0 \/ (second = first + 1 /\ first \in 1..Len(ts))
  <2>1. CASE first \in Positions(ts)
    BY <2>1, ConsumeMoves
  <2>2. CASE first \notin Positions(ts)
    <3>1. Lexed(ts, first).kind # "equal"
      BY <1>a, <2>2 DEF Lexed, Proper, Unlexable, EOF, Symbol
    <3>2. QED BY <3>1 DEF Consume
  <2>3. QED BY <2>1, <2>2
<1> HIDE DEF second, r
<1>5. CASE second = 0
  <2>1. r.at = 0
    BY <1>1, <1>5, ParserFailed
  <2>2. QED BY <1>a, <2>1 DEF r
<1>6. CASE second = p + 2 /\ p + 2 \in 1..(Len(ts) + 1)
  <2>1. ParsesAt(Parser(ts), ts, p + 2)
    BY <1>6, <1>a, ParserParses
  <2>2. r.at \in Positions(ts) /\ (r.at = 0 \/ r.at > p + 2)
    BY <1>1, <1>6, <2>1 DEF ParsesAt, Ahead
  <2>3. QED BY <1>1, <1>6, <2>2 DEF r
<1>7. QED BY <1>a, <1>2, <1>4, <1>5, <1>6

LEMMA DocumentAhead ==
    ASSUME NEW ts, Proper(ts), NEW variable, NEW p \in Positions(ts), NEW g, NEW h,
           \A j \in Positions(ts) : j = 0 \/ j > p => g[j] = h[j]
    PROVE  DocumentAt(g, ts, variable, p) = DocumentAt(h, ts, variable, p)
<1> DEFINE r == Assigned(ts, p)
           next == SkipAny(ts, r.at, {"semicolon"})
<1>a. Len(ts) \in Nat /\ Positions(ts) = 0..(Len(ts) + 1) /\ p \in Nat
  BY DEF Positions, Proper
<1>1. CASE p = 0
  <2>1. Lexed(ts, p).kind # "identifier"
    BY <1>1, Moves
  <2>2. QED BY <2>1 DEF DocumentAt
<1>2. CASE p # 0
  <2>1. r.at \in Positions(ts) /\ (r.at = 0 \/ r.at > p)
    <3>1. r.at \in Positions(ts) /\ (r.at = 0 \/ r.at > p + 2)
      BY <1>2, AssignedAhead
    <3> HIDE DEF r
    <3>2. QED BY <1>a, <3>1
  <2> HIDE DEF r
  <2>2. next \in Positions(ts) /\ (next = 0 \/ next > p)
    <3> DEFINE kinds == {"semicolon"}
    <3>1. kinds \cap {"eof", "error"} = {}
      OBVIOUS
    <3> HIDE DEF kinds
    <3>2. \/ SkipAny(ts, r.at, kinds) = 0
          \/ /\ r.at # 0 /\ SkipAny(ts, r.at, kinds) = r.at
          \/ /\ r.at \in 1..Len(ts) /\ Lexed(ts, r.at).kind \in kinds
             /\ SkipAny(ts, r.at, kinds) = r.at + 1 /\ r.at + 1 \in Positions(ts)
      BY <2>1, <3>1, Moves
    <3>3. next = SkipAny(ts, r.at, kinds)
      BY DEF kinds
    <3> HIDE DEF next
    <3>4. QED BY <1>a, <2>1, <3>2, <3>3
  <2>3. g[next] = h[next]
    BY <2>2
  <2>4. QED BY <2>3 DEF DocumentAt, r
<1>3. QED BY <1>1, <1>2

LEMMA DocumentExists ==
    ASSUME NEW ts, Proper(ts), NEW variable
    PROVE  \E g : IsDocument(g, ts, variable)
<1> DEFINE n == Len(ts)
           From(g, p) == /\ g = [at \in Positions(ts) |-> g[at]]
                         /\ \A j \in Positions(ts) : j = 0 \/ j >= p => g[j] = DocumentAt(g, ts, variable, j)
           A == {k \in Nat : \E g : From(g, (n + 2) - k)}
<1>a. n \in Nat /\ Positions(ts) = 0..(n + 1)
  BY DEF Positions, Proper
<1>b. \A g : DocumentAt(g, ts, variable, 0) = Failed
  <2>1. Lexed(ts, 0).kind # "identifier"
    BY <1>a, Moves
  <2>2. QED BY <2>1 DEF DocumentAt
<1> HIDE DEF n
<1>1. 0 \in A
  <2> DEFINE g == [at \in Positions(ts) |-> Failed]
  <2>1. g = [at \in Positions(ts) |-> g[at]] /\ g[0] = Failed
    BY <1>a
  <2>2. \A j \in Positions(ts) : ~(j >= n + 2)
    BY <1>a
  <2> HIDE DEF g
  <2>3. From(g, n + 2)
    BY <1>b, <2>1, <2>2
  <2>4. (n + 2) - 0 = n + 2
    BY <1>a
  <2>5. QED BY <2>3, <2>4
<1>2. ASSUME NEW k \in 0..n, k \in A PROVE k + 1 \in A
  <2> DEFINE p == (n + 2) - (k + 1)
  <2>1. p \in Positions(ts) /\ p # 0 /\ (n + 2) - k = p + 1 /\ p \in Nat
    BY <1>a
  <2> HIDE DEF p
  <2>2. PICK g : From(g, p + 1)
    BY <1>2, <2>1
  <2> DEFINE h == [g EXCEPT ![p] = DocumentAt(g, ts, variable, p)]
  <2>3. /\ h = [at \in Positions(ts) |-> h[at]]
        /\ h[p] = DocumentAt(g, ts, variable, p)
        /\ \A j \in Positions(ts) : j # p => h[j] = g[j]
    BY <2>1, <2>2
  <2> HIDE DEF h
  <2>4. ASSUME NEW j \in Positions(ts), j = 0 \/ j >= p
        PROVE  h[j] = DocumentAt(h, ts, variable, j)
    <3>1. CASE j = 0
      BY <1>a, <1>b, <2>1, <2>2, <2>3, <3>1
    <3>2. CASE j >= p
      <4>1. \A i \in Positions(ts) : i = 0 \/ i > j => h[i] = g[i]
        BY <1>a, <2>1, <2>3, <3>2
      <4>2. DocumentAt(h, ts, variable, j) = DocumentAt(g, ts, variable, j)
        BY <4>1, DocumentAhead
      <4>3. CASE j = p
        BY <2>3, <4>2, <4>3
      <4>4. CASE j >= p + 1
        BY <1>a, <2>1, <2>2, <2>3, <4>2, <4>4
      <4>5. QED BY <1>a, <2>1, <3>2, <4>3, <4>4
    <3>3. QED BY <2>4, <3>1, <3>2
  <2>5. From(h, p)
    BY <2>3, <2>4
  <2>6. k + 1 \in Nat
    BY <1>a
  <2> HIDE DEF From
  <2>7. QED BY <2>5, <2>6 DEF p
<1>3. 0..(n + 1) \subseteq A
  <2> HIDE DEF A
  <2>1. 0 \in Int /\ n + 1 \in Int /\ (n + 1) - 1 = n
    BY <1>a
  <2>2. \A k \in 0..((n + 1) - 1) : k \in A => k + 1 \in A
    BY <1>2, <2>1
  <2>3. QED BY <1>1, <2>1, <2>2, LoopInduction
<1>4. n + 1 \in A /\ (n + 2) - (n + 1) = 1
  BY <1>3, <1>a
<1> HIDE DEF From
<1>5. PICK g : From(g, 1)
  BY <1>4
<1>6. \A j \in Positions(ts) : g[j] = DocumentAt(g, ts, variable, j)
  BY <1>5, <1>a DEF From
<1>7. IsDocument(g, ts, variable)
  BY <1>5, <1>6 DEF From, IsDocument
<1>8. QED BY <1>7

\* ParseDocument starts at the first token and goes from variable to variable.
LEMMA DocumentParses ==
    ASSUME NEW ts, Proper(ts), NEW variable
    PROVE  \E g : /\ ParseDocument(ts, variable) = g[NewParser(ts)]
                  /\ \A at \in Positions(ts) : g[at] = DocumentAt(g, ts, variable, at)
<1> DEFINE g == CHOOSE h : IsDocument(h, ts, variable)
<1>1. IsDocument(g, ts, variable)
  BY DocumentExists
<1>2. ParseDocument(ts, variable) = g[NewParser(ts)]
  BY DEF ParseDocument, IsDocument, DocumentAt, Assigned, Positions
<1> HIDE DEF g
<1>3. \A at \in Positions(ts) : g[at] = DocumentAt(g, ts, variable, at)
  BY <1>1 DEF IsDocument
<1>4. QED BY <1>2, <1>3

\* What is cut off before its last bracket, so that from the third token on at least one
\* table is open, or in the middle of the first bracket, is refused whatever variable is
\* looked for.
THEOREM UnclosedIsRefused ==
    ASSUME NEW ts, Proper(ts), NEW d, Depths(d, ts), NEW variable,
           Len(ts) >= 3 => ts[3] = Unlexable \/ (d[2] = 0 /\ \A n \in 3..Len(ts) : d[n] > 0)
    PROVE  ParseVariable(ts, variable) = Unlexable
<1>a. Len(ts) \in Nat /\ Positions(ts) = 0..(Len(ts) + 1)
  BY DEF Positions, Proper
<1>1. PICK g : /\ ParseDocument(ts, variable) = g[NewParser(ts)]
               /\ \A at \in Positions(ts) : g[at] = DocumentAt(g, ts, variable, at)
  BY DocumentParses
<1>2. g[0] = Failed
  <2>1. Lexed(ts, 0).kind # "identifier"
    BY <1>a, Moves
  <2>2. DocumentAt(g, ts, variable, 0) = Failed
    BY <2>1 DEF DocumentAt
  <2>3. QED BY <1>1, <1>a, <2>2
<1>3. g[1] = Failed
  <2> DEFINE r == Assigned(ts, 1)
  <2>1. r.at = 0 \/ (r.at \in Positions(ts) /\ r.at > 3 /\ 3 \in 1..(Len(ts) + 1)
                       /\ r = Parser(ts)[<<"value", 3>>])
    <3>1. 1 \in Positions(ts) /\ 1 + 2 = 3
      BY <1>a
    <3>2. QED BY <3>1, AssignedAhead
  <2> HIDE DEF r
  <2>5. CASE Len(ts) >= 3 /\ ts[3] = Unlexable
    <3>1. Lexed(ts, 1 + 2) = Unlexable
      BY <1>a, <2>5 DEF Lexed, Proper
    <3>2. Advance(ts, 1) = 0
      BY <3>1 DEF Advance
    <3>3. Consume(ts, 0, "equal") = 0
      BY DEF Consume, Advance
    <3>4. r.at = 0
      BY <3>2, <3>3, ParserFailed DEF r, Assigned, Failed
    <3>5. QED BY <1>1, <1>a, <3>4 DEF DocumentAt, r
  <2>2. CASE r.at # 0 /\ ~(Len(ts) >= 3 /\ ts[3] = Unlexable)
    <3>1. Closes(ts, d, 3)
      BY <2>1, <2>2, AllCloses
    <3>2. Open(d, r.at) = Open(d, 3)
      BY <2>1, <2>2, <3>1 DEF Closes
    <3> DEFINE m == r.at
    <3>3. m \in Positions(ts) /\ m > 3 /\ 3 \in 1..(Len(ts) + 1)
      BY <2>1, <2>2
    <3> HIDE DEF m
    <3>4. m - 1 \in 3..Len(ts) /\ Len(ts) >= 2 /\ 3 - 1 = 2
      BY <3>3, <1>a
    <3>5. d[m - 1] = d[2]
      BY <3>2, <3>4 DEF Open, m
    <3>6. d[2] = 0 /\ d[m - 1] > 0
      BY <2>2, <3>4
    <3>7. QED BY <3>5, <3>6
  <2>3. CASE r.at = 0
    <3>1. DocumentAt(g, ts, variable, 1) = Failed
      BY <2>3 DEF DocumentAt, r
    <3>2. QED BY <1>1, <1>a, <3>1
  <2>4. QED BY <2>2, <2>3, <2>5
<1>4. NewParser(ts) \in {0, 1}
  BY DEF NewParser
<1>5. ParseDocument(ts, variable) = Failed
  BY <1>1, <1>2, <1>3, <1>4
<1>6. Failed.value.kind = "error" /\ Failed.value = Unlexable
  BY DEF Failed, Unlexable, Symbol
<1>7. QED BY <1>5, <1>6 DEF ParseVariable, TableOrError

-----------------------------------------------------------------------------
(* Sequences of sequences                                                  *)

\* flat is what FlattenSeq has put together after each of the sequences.
Flattens(flat, seqs, S) ==
    /\ flat \in [0..Len(seqs) -> Seq(S)]
    /\ flat[0] = <<>>
    /\ \A i \in 1..Len(seqs) : flat[i] = flat[i - 1] \o seqs[i]
    /\ FlattenSeq(seqs) = flat[Len(seqs)]

Flattening(f, seqs, n) == f = [i \in 1..n |-> IF i = 1 THEN seqs[i] ELSE f[i - 1] \o seqs[i]]

LEMMA FlatteningExists ==
    ASSUME NEW seqs, NEW n \in Nat
    PROVE  \E f : Flattening(f, seqs, n)
<1> DEFINE A == {m \in Nat : \E f : Flattening(f, seqs, m)}
<1>1. 0 \in A
  <2>1. Flattening([i \in 1..0 |-> <<>>], seqs, 0)
    BY DEF Flattening
  <2>2. QED BY <2>1
<1>2. ASSUME NEW m \in 0..(n - 1), m \in A PROVE m + 1 \in A
  <2>1. PICK f : Flattening(f, seqs, m)
    BY <1>2
  <2> DEFINE last == IF m = 0 THEN seqs[m + 1] ELSE f[m] \o seqs[m + 1]
             g == [i \in 1..(m + 1) |-> IF i = m + 1 THEN last ELSE f[i]]
  <2>1a. m = 0 => last = seqs[m + 1]
    OBVIOUS
  <2>1b. m # 0 => last = f[m] \o seqs[m + 1]
    OBVIOUS
  <2> HIDE DEF last
  <2>2. g[m + 1] = last /\ \A i \in 1..m : g[i] = f[i]
    OBVIOUS
  <2>3. g = [i \in 1..(m + 1) |-> g[i]]
    OBVIOUS
  <2> HIDE DEF g
  <2>4. ASSUME NEW i \in 1..(m + 1)
        PROVE  g[i] = IF i = 1 THEN seqs[i] ELSE g[i - 1] \o seqs[i]
    <3>1. CASE i = m + 1
      <4>1. CASE m = 0
        BY <2>1a, <2>2, <3>1, <4>1
      <4>2. CASE m # 0
        <5>1. m \in 1..m /\ i - 1 = m /\ i # 1
          BY <3>1, <4>2
        <5>2. g[i - 1] = f[m]
          BY <2>2, <5>1
        <5>3. g[i] = f[m] \o seqs[i]
          BY <2>1b, <2>2, <3>1, <4>2
        <5>4. QED BY <5>1, <5>2, <5>3
      <4>3. QED BY <4>1, <4>2
    <3>2. CASE i \in 1..m
      <4>1. f[i] = IF i = 1 THEN seqs[i] ELSE f[i - 1] \o seqs[i]
        BY <2>1, <3>2 DEF Flattening
      <4>2. g[i] = f[i] /\ (i # 1 => g[i - 1] = f[i - 1])
        BY <2>2, <3>2
      <4>3. QED BY <4>1, <4>2
    <3>3. QED BY <3>1, <3>2
  <2>5. Flattening(g, seqs, m + 1)
    BY <2>3, <2>4 DEF Flattening
  <2>6. QED BY <2>5
<1>3. 0..n \subseteq A
  <2> HIDE DEF A
  <2>1. 0 \in Int /\ n \in Int
    OBVIOUS
  <2>2. QED BY <1>1, <1>2, <2>1, LoopInduction
<1>4. QED BY <1>3

LEMMA FlattenSeqFlattens ==
    ASSUME NEW S, NEW seqs \in Seq(Seq(S))
    PROVE  \E flat : Flattens(flat, seqs, S)
<1> DEFINE n == Len(seqs)
           f == CHOOSE g : Flattening(g, seqs, n)
<1>a. n \in Nat /\ \A i \in 1..n : seqs[i] \in Seq(S)
  OBVIOUS
<1>1. Flattening(f, seqs, n)
  BY <1>a, FlatteningExists
<1>2. FlattenSeq(seqs) = IF n = 0 THEN seqs ELSE f[n]
  BY DEF FlattenSeq, Flattening
<1> HIDE DEF f, n
<1> DEFINE flat == [i \in 0..n |-> IF i = 0 THEN <<>> ELSE f[i]]
<1>3. \A i \in 1..n : f[i] = IF i = 1 THEN seqs[i] ELSE f[i - 1] \o seqs[i]
  BY <1>1 DEF Flattening
<1>4. flat[0] = <<>> /\ \A i \in 1..n : flat[i] = f[i]
  BY <1>a
<1>5. ASSUME NEW i \in 1..n PROVE flat[i] = flat[i - 1] \o seqs[i]
  <2>1. CASE i = 1
    <3>1. flat[i] = seqs[i] /\ flat[i - 1] = <<>>
      BY <1>3, <1>4, <2>1
    <3>2. seqs[i] \in Seq(S)
      BY <1>a
    <3> HIDE DEF flat
    <3>3. QED BY <3>1, <3>2
  <2>2. CASE i # 1
    <3>1. i - 1 \in 1..n
      BY <1>a, <2>2
    <3>2. flat[i] = f[i] /\ flat[i - 1] = f[i - 1]
      BY <1>4, <3>1
    <3> HIDE DEF flat
    <3>3. QED BY <1>3, <2>2, <3>2
  <2>3. QED BY <2>1, <2>2
<1>6. FlattenSeq(seqs) = flat[n]
  <2>1. CASE n = 0
    <3>1. seqs = <<>>
      BY <2>1 DEF n
    <3>2. QED BY <1>2, <1>4, <2>1, <3>1
  <2>2. CASE n # 0
    BY <1>2, <1>4, <1>a, <2>2
  <2>3. QED BY <2>1, <2>2
<1>7. DOMAIN flat = 0..n /\ flat = [i \in 0..n |-> flat[i]]
  OBVIOUS
<1> HIDE DEF flat
<1>8. 0..n \subseteq {i \in 0..n : flat[i] \in Seq(S)}
  <2> DEFINE A == {i \in 0..n : flat[i] \in Seq(S)}
  <2>1. 0 \in A
    <3>1. 0 \in 0..n /\ <<>> \in Seq(S)
      BY <1>a
    <3>2. QED BY <1>4, <3>1
  <2>2. ASSUME NEW i \in 0..(n - 1), i \in A PROVE i + 1 \in A
    <3>1. i + 1 \in 1..n /\ (i + 1) - 1 = i
      BY <1>a
    <3> DEFINE j == i + 1
    <3>2. j \in 1..n /\ j - 1 = i
      BY <3>1
    <3> HIDE DEF j
    <3>3. flat[j] = flat[i] \o seqs[j] /\ seqs[j] \in Seq(S)
      BY <1>5, <1>a, <3>2
    <3>4. flat[i] \in Seq(S)
      BY <2>2
    <3>5. flat[j] \in Seq(S) /\ j \in 0..n
      BY <3>2, <3>3, <3>4
    <3>6. QED BY <3>5 DEF j
  <2> HIDE DEF A
  <2>3. 0 \in Int /\ n \in Int
    BY <1>a
  <2>4. 0..n \subseteq A
    BY <2>1, <2>2, <2>3, LoopInduction
  <2>5. QED BY <2>4 DEF A
<1>9. flat \in [0..n -> Seq(S)]
  BY <1>7, <1>8
<1>10. QED BY <1>4, <1>5, <1>6, <1>9 DEF Flattens, n

-----------------------------------------------------------------------------
(* A table is read as it is written                                        *)

IsText(w) == \E S : w \in Seq(S)

LEMMA TextConcat ==
    ASSUME NEW a, IsText(a), NEW b, IsText(b)
    PROVE  /\ IsText(a \o b) /\ Len(a) \in Nat /\ Len(b) \in Nat
           /\ Len(a \o b) = Len(a) + Len(b)
           /\ \A i \in 1..Len(a) : (a \o b)[i] = a[i]
           /\ \A i \in 1..Len(b) : (a \o b)[Len(a) + i] = b[i]
<1>1. PICK S : a \in Seq(S)
  BY DEF IsText
<1>2. PICK T : b \in Seq(T)
  BY DEF IsText
<1> DEFINE U == S \cup T
<1>3. S \subseteq U /\ T \subseteq U
  OBVIOUS
<1> HIDE DEF U
<1>4. a \in Seq(U) /\ b \in Seq(U)
  BY <1>1, <1>2, <1>3, SeqMonotonic
<1>5. a \o b \in Seq(U)
  BY <1>4
<1>6. IsText(a \o b)
  BY <1>5 DEF IsText
<1>7. QED BY <1>4, <1>6

LEMMA TextIsProper ==
    ASSUME NEW a, IsText(a)
    PROVE  Proper(a)
<1>1. PICK S : a \in Seq(S)
  BY DEF IsText
<1>2. QED BY <1>1 DEF Proper

LEMMA ShortText ==
    ASSUME NEW t
    PROVE  IsText(<<t>>) /\ Len(<<t>>) = 1 /\ <<t>>[1] = t
<1>1. <<t>> \in Seq({t})
  OBVIOUS
<1>2. QED BY <1>1 DEF IsText

LEMMA TextPrepend ==
    ASSUME NEW v, NEW b, IsText(b)
    PROVE  /\ IsText(<<v>> \o b) /\ Len(<<v>> \o b) = 1 + Len(b) /\ (<<v>> \o b)[1] = v
           /\ \A i \in 1..Len(b) : (<<v>> \o b)[1 + i] = b[i]
<1> DEFINE a == <<v>>
<1>0. IsText(a)
  BY ShortText
<1>1. Len(a) = 1 /\ a[1] = v /\ 1 \in 1..Len(a)
  BY ShortText
<1> HIDE DEF a
<1>2. /\ IsText(a \o b) /\ Len(a \o b) = Len(a) + Len(b)
      /\ \A i \in 1..Len(a) : (a \o b)[i] = a[i]
      /\ \A i \in 1..Len(b) : (a \o b)[Len(a) + i] = b[i]
  BY <1>0, TextConcat
<1>3. /\ IsText(a \o b) /\ Len(a \o b) = 1 + Len(b) /\ (a \o b)[1] = v
      /\ \A i \in 1..Len(b) : (a \o b)[1 + i] = b[i]
  BY <1>1, <1>2
<1>4. QED BY <1>3 DEF a

LEMMA FunctionText ==
    ASSUME NEW n \in Nat, NEW f, f = [i \in 1..n |-> f[i]]
    PROVE  IsText(f) /\ Len(f) = n
<1>1. f \in [1..n -> {f[i] : i \in 1..n}]
  OBVIOUS
<1>2. f \in Seq({f[i] : i \in 1..n}) /\ Len(f) = n
  BY <1>1
<1>3. QED BY <1>2 DEF IsText

LEMMA EqualTexts ==
    ASSUME NEW a, IsText(a), NEW b, IsText(b), Len(a) = Len(b),
           \A i \in 1..Len(a) : a[i] = b[i]
    PROVE  a = b
<1>1. PICK S : a \in Seq(S)
  BY DEF IsText
<1>2. PICK T : b \in Seq(T)
  BY DEF IsText
<1> DEFINE U == S \cup T
<1>3. S \subseteq U /\ T \subseteq U
  OBVIOUS
<1> HIDE DEF U
<1>4. a \in Seq(U) /\ b \in Seq(U)
  BY <1>1, <1>2, <1>3, SeqMonotonic
<1>5. QED BY <1>4, SeqEqual

Readable(ts) == Proper(ts) /\ \A i \in 1..Len(ts) : ts[i] # Unlexable

\* w stands in ts from position p on.
Placed(ts, p, w) ==
    /\ p >= 1 /\ p + Len(w) <= Len(ts) + 1
    /\ \A i \in 1..Len(w) : ts[p + i - 1] = w[i]

\* Wherever w stands, the parser reads it as value.
Spells(w, value) ==
    /\ IsText(w)
    /\ \A ts, p : Readable(ts) /\ p \in Nat /\ Placed(ts, p, w) =>
          Parser(ts)[<<"value", p>>] = [at |-> p + Len(w), value |-> value]

LEMMA ReadableMoves ==
    ASSUME NEW ts, Readable(ts)
    PROVE  /\ Proper(ts)
           /\ \A p \in 1..(Len(ts) + 1) : p \in Positions(ts)
           /\ \A p \in 1..Len(ts) : Lexed(ts, p) = ts[p] /\ Advance(ts, p) = p + 1
           /\ \A p \in 1..Len(ts) : \A kind : ts[p].kind = kind => Consume(ts, p, kind) = p + 1
<1> DEFINE n == Len(ts)
<1>a. n \in Nat /\ DOMAIN ts = 1..n /\ \A i \in 1..n : ts[i] # Unlexable
  BY DEF Readable, Proper
<1>1. Proper(ts)
  BY DEF Readable
<1> HIDE DEF n
<1>2. ASSUME NEW p \in 1..n PROVE Lexed(ts, p) = ts[p] /\ Advance(ts, p) = p + 1
  <2>1. Lexed(ts, p) = ts[p]
    BY <1>a DEF Lexed
  <2>2. Lexed(ts, p + 2) # Unlexable
    <3>1. EOF # Unlexable
      BY DEF EOF, Unlexable, Symbol
    <3>2. p + 2 # 0
      BY <1>a
    <3>3. QED BY <1>a, <3>1, <3>2 DEF Lexed
  <2>3. p # 0
    BY <1>a
  <2>4. QED BY <2>1, <2>2, <2>3 DEF Advance
<1>3. \A p \in 1..n : \A kind : ts[p].kind = kind => Consume(ts, p, kind) = p + 1
  BY <1>2 DEF Consume
<1>4. \A p \in 1..(n + 1) : p \in Positions(ts)
  BY <1>a DEF Positions, n
<1>5. QED BY <1>1, <1>2, <1>3, <1>4 DEF n

LEMMA PlacedConcat ==
    ASSUME NEW ts, NEW p \in Nat, NEW a, IsText(a), NEW b, IsText(b),
           Placed(ts, p, a \o b), Len(ts) \in Nat
    PROVE  Placed(ts, p, a) /\ Placed(ts, p + Len(a), b)
<1> DEFINE m == Len(a)
           n == Len(b)
           c == a \o b
           l == Len(ts)
<1>1. m \in Nat /\ n \in Nat /\ Len(c) = m + n /\ l \in Nat
  BY TextConcat
<1>2. /\ \A i \in 1..m : c[i] = a[i]
      /\ \A i \in 1..n : c[m + i] = b[i]
  BY TextConcat
<1>3. /\ p >= 1 /\ p + Len(c) <= l + 1
      /\ \A i \in 1..Len(c) : ts[p + i - 1] = c[i]
  BY DEF Placed
<1> HIDE DEF m, n, c, l
<1>4. \A i \in 1..m : i \in 1..Len(c)
  BY <1>1
<1>5. Placed(ts, p, a)
  <2>1. \A i \in 1..m : ts[p + i - 1] = a[i]
    BY <1>2, <1>3, <1>4
  <2>2. p + m <= l + 1
    BY <1>1, <1>3
  <2>3. QED BY <1>3, <2>1, <2>2 DEF Placed, m, l
<1>6. Placed(ts, p + Len(a), b)
  <2>1. ASSUME NEW i \in 1..n PROVE ts[(p + m) + i - 1] = b[i]
    <3>1. m + i \in 1..Len(c) /\ p + (m + i) - 1 = (p + m) + i - 1
      BY <1>1
    <3>2. QED BY <1>2, <1>3, <3>1
  <2>2. (p + m) + n <= l + 1 /\ p + m >= 1
    BY <1>1, <1>3
  <2>3. QED BY <2>1, <2>2 DEF Placed, m, n, l
<1>7. QED BY <1>5, <1>6

LEMMA PlacedToken ==
    ASSUME NEW ts, NEW p \in Nat, NEW t, Placed(ts, p, <<t>>), Readable(ts)
    PROVE  p \in 1..Len(ts) /\ Lexed(ts, p) = t
<1>1. Len(<<t>>) = 1 /\ <<t>>[1] = t /\ Len(ts) \in Nat
  BY ShortText DEF Readable, Proper
<1>2. p >= 1 /\ p + 1 <= Len(ts) + 1 /\ ts[p + 1 - 1] = t
  BY <1>1 DEF Placed
<1>3. p \in 1..Len(ts) /\ ts[p] = t
  BY <1>1, <1>2
<1>4. QED BY <1>3, ReadableMoves

\* A value of one token.
LEMMA ScalarSpells ==
    ASSUME NEW t, t.kind \in Scalars
    PROVE  Spells(<<t>>, t)
<1> SUFFICES ASSUME NEW ts, NEW p \in Nat, Readable(ts), Placed(ts, p, <<t>>)
             PROVE  Parser(ts)[<<"value", p>>] = [at |-> p + 1, value |-> t]
  <2>1. Len(<<t>>) = 1 /\ IsText(<<t>>)
    BY ShortText
  <2>2. QED BY <2>1 DEF Spells
<1>1. p \in 1..Len(ts) /\ Lexed(ts, p) = t
  BY PlacedToken
<1>2. Proper(ts) /\ p \in Positions(ts) /\ Advance(ts, p) = p + 1
  BY <1>1, ReadableMoves
<1>3. Parser(ts)[<<"value", p>>] = ValueAt(Parser(ts), ts, p)
  BY <1>2, ParserParses DEF ParsesAt
<1>4. QED BY <1>1, <1>2, <1>3 DEF ValueAt

KeyOrNone(key) == key = Positional \/ IsKey(key)

LEMMA WrittenKeyIsText ==
    ASSUME NEW key
    PROVE  IsText(WrittenKey(key))
<1>1. CASE key = Positional
  <2>1. WrittenKey(key) = <<>> /\ <<>> \in Seq({})
    BY <1>1 DEF WrittenKey
  <2>2. QED BY <2>1 DEF IsText
<1>2. CASE key # Positional
  <2> DEFINE a == Symbol("leftBracket")
             b == Symbol("rightBracket")
             c == Symbol("equal")
  <2>1. WrittenKey(key) = <<a, key, b, c>>
    BY <1>2 DEF WrittenKey
  <2> HIDE DEF a, b, c
  <2>2. <<a, key, b, c>> \in Seq({a, key, b, c})
    OBVIOUS
  <2>3. QED BY <2>1, <2>2 DEF IsText
<1>3. QED BY <1>1, <1>2

\* A key is read as it is written; where there is none, a value must begin.
LEMMA KeyReads ==
    ASSUME NEW ts, Readable(ts), NEW p \in Nat, NEW key, KeyOrNone(key),
           Placed(ts, p, WrittenKey(key)),
           key = Positional => p \in 1..Len(ts) /\ BeginsValue(ts, p)
    PROVE  /\ ParseKey(ts, p) = [key |-> key, at |-> p + Len(WrittenKey(key))]
           /\ p \in 1..Len(ts) /\ Lexed(ts, p).kind \notin {"rightBrace", "eof"}
<1>a. Len(ts) \in Nat
  BY DEF Readable, Proper
<1>1. CASE key = Positional
  <2>1. WrittenKey(key) = <<>> /\ p + Len(WrittenKey(key)) = p
    BY <1>1 DEF WrittenKey
  <2>2. Lexed(ts, p).kind \notin {"leftBracket", "identifier", "rightBrace", "eof"}
    BY <1>1 DEF BeginsValue, Scalars
  <2>3. ParseKey(ts, p) = [key |-> Positional, at |-> p]
    BY <2>2 DEF ParseKey
  <2>4. QED BY <1>1, <2>1, <2>2, <2>3
<1>2. CASE key # Positional
  <2> DEFINE a == Symbol("leftBracket")
             b == Symbol("rightBracket")
             c == Symbol("equal")
             w == <<a, key, b, c>>
  <2>1. WrittenKey(key) = w /\ IsKey(key)
    BY <1>2 DEF WrittenKey, KeyOrNone
  <2>2. a.kind = "leftBracket" /\ b.kind = "rightBracket" /\ c.kind = "equal"
    BY DEF Symbol
  <2> HIDE DEF a, b, c
  <2>3. Len(w) = 4 /\ w[1] = a /\ w[2] = key /\ w[3] = b /\ w[4] = c
    OBVIOUS
  <2> HIDE DEF w
  <2>4. p >= 1 /\ p + 4 <= Len(ts) + 1 /\ \A i \in 1..4 : ts[p + i - 1] = w[i]
    BY <2>1, <2>3 DEF Placed
  <2>5. p \in 1..Len(ts) /\ p + 1 \in 1..Len(ts) /\ p + 2 \in 1..Len(ts) /\ p + 3 \in 1..Len(ts)
    BY <1>a, <2>4
  <2>6. p + 1 - 1 = p /\ p + 2 - 1 = p + 1 /\ p + 3 - 1 = p + 2 /\ p + 4 - 1 = p + 3
    OBVIOUS
  <2>7. ts[p] = a /\ ts[p + 1] = key /\ ts[p + 2] = b /\ ts[p + 3] = c
    <3>1. 1 \in 1..4 /\ 2 \in 1..4 /\ 3 \in 1..4 /\ 4 \in 1..4
      OBVIOUS
    <3>2. ts[p + 1 - 1] = a /\ ts[p + 2 - 1] = key /\ ts[p + 3 - 1] = b /\ ts[p + 4 - 1] = c
      BY <2>3, <2>4, <3>1
    <3>3. QED BY <2>6, <3>2
  <2>8. Lexed(ts, p) = a /\ Lexed(ts, p + 1) = key
    BY <2>5, <2>7, ReadableMoves
  <2>9. Consume(ts, p, "leftBracket") = p + 1
    BY <2>2, <2>5, <2>7, ReadableMoves
  <2>10. Advance(ts, p + 1) = (p + 1) + 1 /\ (p + 1) + 1 = p + 2
    BY <2>5, ReadableMoves
  <2>11. Consume(ts, p + 2, "rightBracket") = (p + 2) + 1 /\ (p + 2) + 1 = p + 3
    BY <2>2, <2>5, <2>7, ReadableMoves
  <2>12. Consume(ts, p + 3, "equal") = (p + 3) + 1 /\ (p + 3) + 1 = p + 4
    BY <2>2, <2>5, <2>7, ReadableMoves
  <2>13. ParseKey(ts, p) = [key |-> key, at |-> p + 4]
    BY <2>1, <2>2, <2>8, <2>9, <2>10, <2>11, <2>12 DEF ParseKey
  <2>14. QED BY <2>1, <2>2, <2>3, <2>5, <2>8, <2>13
<1>3. QED BY <1>1, <1>2

\* An entry is read as it is written, in front of the rest of its table.
LEMMA EntryReads ==
    ASSUME NEW ts, Readable(ts), NEW p \in Nat, NEW key, KeyOrNone(key),
           NEW w, NEW value, Spells(w, value),
           Placed(ts, p, WrittenKey(key) \o w \o <<Symbol("comma")>>),
           NEW q, q = p + Len(WrittenKey(key)) + Len(w) + 1,
           Parser(ts)[<<"entries", q>>].at # 0
    PROVE  Parser(ts)[<<"entries", p>>] =
              [at |-> Parser(ts)[<<"entries", q>>].at,
               value |-> Assign(key, value, Parser(ts)[<<"entries", q>>].value)]
<1> DEFINE f == Parser(ts)
           rest == f[<<"entries", q>>]
           k == p + Len(WrittenKey(key))
           e == k + Len(w)
           l == Len(ts)
<1>a. /\ IsText(WrittenKey(key)) /\ IsText(w) /\ IsText(<<Symbol("comma")>>)
      /\ IsText(WrittenKey(key) \o w)
      /\ Len(WrittenKey(key)) \in Nat /\ Len(w) \in Nat /\ l \in Nat
      /\ Len(WrittenKey(key) \o w) = Len(WrittenKey(key)) + Len(w)
  <2>1. IsText(WrittenKey(key)) /\ IsText(w) /\ IsText(<<Symbol("comma")>>)
    BY WrittenKeyIsText, ShortText DEF Spells
  <2>2. l \in Nat
    BY DEF Readable, Proper
  <2>3. QED BY <2>1, <2>2, TextConcat
<1>1. /\ Placed(ts, p, WrittenKey(key) \o w)
      /\ Placed(ts, p + (Len(WrittenKey(key)) + Len(w)), <<Symbol("comma")>>)
  BY <1>a, PlacedConcat
<1>2. Placed(ts, p, WrittenKey(key)) /\ Placed(ts, k, w)
  BY <1>1, <1>a, PlacedConcat
<1>3. Placed(ts, e, <<Symbol("comma")>>)
  <2>1. p + (Len(WrittenKey(key)) + Len(w)) = e
    BY <1>a
  <2>2. QED BY <1>1, <2>1
<1>b. k \in Nat /\ e \in Nat /\ q = e + 1 /\ (key = Positional => k = p)
  <2>1. key = Positional => WrittenKey(key) = <<>>
    BY DEF WrittenKey
  <2>2. key = Positional => Len(WrittenKey(key)) = 0
    BY <2>1
  <2>3. QED BY <1>a, <2>2
<1>4. f[<<"value", k>>] = [at |-> e, value |-> value]
  BY <1>2, <1>b DEF Spells
<1>5. e \in 1..l /\ Lexed(ts, e) = Symbol("comma")
  BY <1>3, <1>b, PlacedToken
<1>6. k \in 1..(l + 1)
  BY <1>2, <1>a, <1>b DEF Placed
<1>c. Proper(ts) /\ k \in Positions(ts)
  BY <1>6, ReadableMoves
<1>d. rest.at # 0
  OBVIOUS
<1> HIDE DEF f, k, e, rest
<1>7. BeginsValue(ts, k) /\ k \in 1..l
  <2>1. f[<<"value", k>>] = ValueAt(f, ts, k)
    BY <1>c, ParserParses DEF ParsesAt, f
  <2>2. BeginsValue(ts, k)
    <3>1. ValueAt(f, ts, k) # Failed
      BY <1>4, <1>5, <1>a, <2>1 DEF Failed
    <3>2. QED BY <3>1 DEF BeginsValue, ValueAt
  <2>3. QED BY <1>c, <2>2, ValueBegins
<1>8. /\ ParseKey(ts, p) = [key |-> key, at |-> k]
      /\ p \in 1..l /\ Lexed(ts, p).kind \notin {"rightBrace", "eof"}
  <2>1. key = Positional => p \in 1..l /\ BeginsValue(ts, p)
    BY <1>7, <1>b
  <2>2. QED BY <1>2, <2>1, KeyReads DEF k
<1>9. EntryAt(f, ts, p) = [at |-> e, value |-> value]
  BY <1>4, <1>8 DEF EntryAt
<1>10. SkipAny(ts, e, {"comma", "semicolon"}) = q
  <2>1. Advance(ts, e) = e + 1
    BY <1>5, ReadableMoves
  <2>2. Lexed(ts, e).kind = "comma"
    <3>1. Symbol("comma").kind = "comma"
      BY DEF Symbol
    <3>2. QED BY <1>5, <3>1
  <2>3. QED BY <1>b, <2>1, <2>2 DEF SkipAny
<1>11. RestAt(f, ts, p) = rest
  BY <1>9, <1>10 DEF RestAt, rest
<1>12. e # 0
  BY <1>5, <1>a
<1>13. EntriesAt(f, ts, p) = [at |-> rest.at, value |-> Assign(key, value, rest.value)]
  BY <1>8, <1>9, <1>11, <1>12, <1>d DEF EntriesAt
<1>14. f[<<"entries", p>>] = EntriesAt(f, ts, p)
  <2>1. p \in Positions(ts)
    BY <1>8, <1>a, ReadableMoves DEF Positions
  <2>2. QED BY <1>c, <2>1, ParserParses DEF ParsesAt, f
<1>15. QED BY <1>13, <1>14 DEF f, rest

LEMMA TextsFlatten ==
    ASSUME NEW n \in Nat, NEW seqs, seqs = [i \in 1..n |-> seqs[i]],
           \A i \in 1..n : IsText(seqs[i])
    PROVE  \E flat : /\ flat[0] = <<>> /\ \A i \in 0..n : IsText(flat[i])
                     /\ \A i \in 1..n : flat[i] = flat[i - 1] \o seqs[i]
                     /\ FlattenSeq(seqs) = flat[n]
<1> DEFINE Of(i) == CHOOSE T : seqs[i] \in Seq(T)
           S == UNION {Of(i) : i \in 1..n}
<1>1. ASSUME NEW i \in 1..n PROVE seqs[i] \in Seq(S)
  <2>1. seqs[i] \in Seq(Of(i))
    BY DEF IsText
  <2>2. Of(i) \subseteq S
    OBVIOUS
  <2> HIDE DEF Of, S
  <2>3. QED BY <2>1, <2>2, SeqMonotonic
<1> HIDE DEF S
<1>2. seqs \in Seq(Seq(S)) /\ Len(seqs) = n
  <2>1. seqs \in [1..n -> Seq(S)]
    BY <1>1
  <2>2. QED BY <2>1
<1>3. PICK flat : Flattens(flat, seqs, S)
  BY <1>2, FlattenSeqFlattens
<1>4. \A i \in 0..n : IsText(flat[i])
  BY <1>2, <1>3 DEF Flattens, IsText
<1>5. QED BY <1>2, <1>3, <1>4 DEF Flattens

\* A table is read as the game writes it: its entries from behind, one before the other.
LEMMA TableSpells ==
    ASSUME NEW n \in Nat, NEW keys, NEW texts, texts = [i \in 1..n |-> texts[i]], NEW values, NEW T,
           T[n] = EmptyTable,
           \A i \in 1..n : /\ KeyOrNone(keys[i]) /\ Spells(texts[i], values[i])
                           /\ T[i - 1] = Assign(keys[i], values[i], T[i])
    PROVE  Spells(WrittenTable(keys, texts), T[0])
<1> DEFINE lb == Symbol("leftBrace")
           rb == Symbol("rightBrace")
           entry(i) == WrittenKey(keys[i]) \o texts[i] \o <<Symbol("comma")>>
           seqs == [i \in 1..n |-> entry(i)]
           w == WrittenTable(keys, texts)
<1>1. ASSUME NEW i \in 1..n
      PROVE  /\ IsText(entry(i)) /\ Len(WrittenKey(keys[i])) \in Nat /\ Len(texts[i]) \in Nat
             /\ Len(entry(i)) = Len(WrittenKey(keys[i])) + Len(texts[i]) + 1
  <2> DEFINE a == WrittenKey(keys[i])
             b == texts[i]
             c == <<Symbol("comma")>>
  <2>1. IsText(a) /\ IsText(b) /\ IsText(c) /\ Len(c) = 1
    BY WrittenKeyIsText, ShortText DEF Spells
  <2> HIDE DEF a, b, c
  <2>2. IsText(a \o b) /\ Len(a \o b) = Len(a) + Len(b) /\ Len(a) \in Nat /\ Len(b) \in Nat
    BY <2>1, TextConcat
  <2>3. IsText(a \o b \o c) /\ Len(a \o b \o c) = Len(a \o b) + Len(c)
    BY <2>1, <2>2, TextConcat
  <2>4. QED BY <2>1, <2>2, <2>3 DEF a, b, c
<1>2. w = <<lb>> \o FlattenSeq(seqs) \o <<rb>>
  <2>1. DOMAIN texts = 1..n
    OBVIOUS
  <2>2. QED BY <2>1 DEF WrittenTable
<1> HIDE DEF w
<1>3. \A i \in 1..n : seqs[i] = entry(i)
  OBVIOUS
<1> HIDE DEF entry
<1>4. seqs = [i \in 1..n |-> seqs[i]] /\ \A i \in 1..n : IsText(seqs[i])
  BY <1>1
<1> HIDE DEF seqs
<1>5. PICK flat : /\ flat[0] = <<>> /\ \A i \in 0..n : IsText(flat[i])
                  /\ \A i \in 1..n : flat[i] = flat[i - 1] \o seqs[i]
                  /\ FlattenSeq(seqs) = flat[n]
  BY <1>4, TextsFlatten
<1> DEFINE all == flat[n]
<1>6. /\ IsText(<<lb>>) /\ Len(<<lb>>) = 1 /\ IsText(<<rb>>) /\ Len(<<rb>>) = 1
      /\ IsText(all) /\ w = (<<lb>> \o all) \o <<rb>>
  BY <1>2, <1>5, ShortText
<1> HIDE DEF all, lb, rb
<1>7. /\ IsText(<<lb>> \o all) /\ Len(<<lb>> \o all) = 1 + Len(all) /\ Len(all) \in Nat
      /\ IsText(w) /\ Len(w) = (1 + Len(all)) + 1
  BY <1>6, TextConcat
<1>8. SUFFICES ASSUME NEW ts, NEW p, Readable(ts), p \in Nat, Placed(ts, p, w)
               PROVE  Parser(ts)[<<"value", p>>] = [at |-> p + Len(w), value |-> T[0]]
  BY <1>7 DEF Spells, w
<1> DEFINE f == Parser(ts)
           from(i) == (p + 1) + Len(flat[i])
           Reads(i) == /\ Placed(ts, p + 1, flat[i])
                       /\ f[<<"entries", from(i)>>] = [at |-> p + Len(w), value |-> T[i]]
<1>a. Proper(ts) /\ Len(ts) \in Nat
  BY <1>8, ReadableMoves DEF Proper
<1>b. \A j \in Positions(ts) : f[<<"value", j>>] = ValueAt(f, ts, j)
                               /\ f[<<"entries", j>>] = EntriesAt(f, ts, j)
  BY <1>a, ParserParses DEF ParsesAt
<1> HIDE DEF f
<1>9. Placed(ts, p, <<lb>>) /\ Placed(ts, p + 1, all) /\ Placed(ts, p + (1 + Len(all)), <<rb>>)
  <2>1. Placed(ts, p, <<lb>> \o all) /\ Placed(ts, p + (1 + Len(all)), <<rb>>)
    BY <1>6, <1>7, <1>8, <1>a, PlacedConcat
  <2>2. QED BY <1>6, <1>8, <1>a, <2>1, PlacedConcat
<1>10. Reads(n)
  <2> DEFINE e == p + (1 + Len(all))
  <2>1. e \in Nat /\ e = from(n) /\ e + 1 = p + Len(w)
    <3> DEFINE l == Len(all)
               lw == Len(w)
    <3>1. from(n) = (p + 1) + l /\ l \in Nat /\ lw = (1 + l) + 1 /\ e = p + (1 + l)
      BY <1>7 DEF all
    <3> HIDE DEF l, lw, from, e
    <3>2. e \in Nat /\ e = from(n) /\ e + 1 = p + lw
      BY <1>8, <3>1
    <3>3. QED BY <3>2 DEF lw
  <2>2. Placed(ts, p + 1, flat[n])
    BY <1>9 DEF all
  <2>3. e \in 1..Len(ts) /\ Lexed(ts, e) = rb
    <3> HIDE DEF e
    <3>1. Placed(ts, e, <<rb>>)
      BY <1>9 DEF e
    <3>2. QED BY <1>8, <2>1, <3>1, PlacedToken
  <2> HIDE DEF e
  <2>4. rb.kind = "rightBrace"
    BY DEF rb, Symbol
  <2>5. ts[e] = rb /\ Consume(ts, e, "rightBrace") = e + 1 /\ e \in Positions(ts)
    <3>1. ts[e] = rb
      BY <1>8, <2>3, ReadableMoves
    <3>2. e \in 1..(Len(ts) + 1)
      BY <1>a, <2>3
    <3>3. QED BY <1>8, <2>3, <2>4, <3>1, <3>2, ReadableMoves
  <2>6. EntriesAt(f, ts, e) = [at |-> e + 1, value |-> EmptyTable]
    BY <2>3, <2>4, <2>5 DEF EntriesAt, CloseTable
  <2>7. f[<<"entries", e>>] = [at |-> p + Len(w), value |-> T[n]]
    BY <1>b, <2>1, <2>5, <2>6
  <2>8. QED BY <2>1, <2>2, <2>7
<1>11. ASSUME NEW i \in 1..n, Reads(i) PROVE Reads(i - 1)
  <2> DEFINE key == keys[i]
             text == texts[i]
             q == from(i - 1)
             before == flat[i - 1]
             r == f[<<"entries", from(i)>>]
  <2>1. /\ flat[i] = before \o entry(i) /\ IsText(before) /\ IsText(entry(i))
        /\ IsText(flat[i]) /\ Len(flat[i]) = Len(before) + Len(entry(i)) /\ Len(before) \in Nat
    <3>1. i - 1 \in 0..n /\ i \in 0..n
      OBVIOUS
    <3>2. flat[i] = before \o entry(i) /\ IsText(before) /\ IsText(entry(i)) /\ IsText(flat[i])
      BY <1>1, <1>3, <1>5, <3>1
    <3> HIDE DEF before
    <3>3. QED BY <3>2, TextConcat
  <2>2. Placed(ts, p + 1, before \o entry(i))
    BY <1>11, <2>1
  <2> HIDE DEF before
  <2>3. Placed(ts, p + 1, before) /\ Placed(ts, (p + 1) + Len(before), entry(i))
    <3> DEFINE b == entry(i)
               p1 == p + 1
    <3>1. p1 \in Nat /\ IsText(before) /\ IsText(b) /\ Placed(ts, p1, before \o b)
      BY <1>8, <2>1, <2>2
    <3> HIDE DEF b, p1
    <3>2. Placed(ts, p1, before) /\ Placed(ts, p1 + Len(before), b)
      BY <1>a, <3>1, PlacedConcat
    <3>3. QED BY <3>2 DEF b, p1
  <2>4. /\ q = (p + 1) + Len(before) /\ q \in Nat
        /\ from(i) = q + Len(WrittenKey(key)) + Len(text) + 1
    <3> DEFINE lk == Len(WrittenKey(key))
               lt == Len(text)
               l == Len(before)
               le == Len(entry(i))
    <3>1. q = (p + 1) + l
      BY DEF before
    <3>2. /\ lk \in Nat /\ lt \in Nat /\ l \in Nat /\ le = lk + lt + 1
          /\ from(i) = (p + 1) + (l + le)
      BY <1>1, <2>1
    <3> HIDE DEF lk, lt, l, le, q, from
    <3>3. q \in Nat /\ from(i) = q + lk + lt + 1
      BY <1>8, <3>1, <3>2
    <3>4. QED BY <3>1, <3>3 DEF lk, lt, l
  <2>5. Placed(ts, q, WrittenKey(key) \o text \o <<Symbol("comma")>>)
    BY <2>3, <2>4 DEF entry
  <2>6. r = [at |-> p + Len(w), value |-> T[i]]
    BY <1>11
  <2>7. r.at # 0
    BY <1>7, <1>8, <2>6
  <2>8. KeyOrNone(key) /\ Spells(text, values[i]) /\ T[i - 1] = Assign(key, values[i], T[i])
    OBVIOUS
  <2>9. r = Parser(ts)[<<"entries", from(i)>>]
    BY DEF f
  <2> DEFINE next == from(i)
  <2>10. next = q + Len(WrittenKey(key)) + Len(text) + 1 /\ r = Parser(ts)[<<"entries", next>>]
    BY <2>4, <2>9
  <2>a. q = from(i - 1)
    OBVIOUS
  <2> HIDE DEF q, key, text, r, next
  <2>11. Parser(ts)[<<"entries", q>>] = [at |-> r.at, value |-> Assign(key, values[i], r.value)]
    <3> DEFINE v == values[i]
    <3>1. Spells(text, v) /\ KeyOrNone(key)
      BY <2>8
    <3> HIDE DEF v
    <3>2. q \in Nat /\ Readable(ts)
      BY <1>8, <2>4
    <3>3. Parser(ts)[<<"entries", next>>].at # 0
      BY <2>7, <2>10
    <3>4. next = q + Len(WrittenKey(key)) + Len(text) + 1
      BY <2>10
    <3>5. Parser(ts)[<<"entries", q>>] =
            [at |-> Parser(ts)[<<"entries", next>>].at,
             value |-> Assign(key, v, Parser(ts)[<<"entries", next>>].value)]
      BY <2>5, <3>1, <3>2, <3>3, <3>4, EntryReads
    <3>6. QED BY <2>10, <3>5 DEF v
  <2>12. f[<<"entries", q>>] = [at |-> p + Len(w), value |-> T[i - 1]]
    BY <2>6, <2>8, <2>11 DEF f
  <2>13. QED BY <2>3, <2>12, <2>a DEF before
<1>12. Reads(0)
  <2> DEFINE A == {k \in Nat : k <= n /\ Reads(n - k)}
  <2> HIDE DEF Reads
  <2>1. 0 \in A
    BY <1>10
  <2>2. ASSUME NEW k \in 0..(n - 1), k \in A PROVE k + 1 \in A
    <3>1. n - k \in 1..n /\ (n - k) - 1 = n - (k + 1) /\ k + 1 \in Nat /\ k + 1 <= n
      OBVIOUS
    <3>2. Reads((n - k) - 1)
      BY <1>11, <2>2, <3>1
    <3>3. QED BY <3>1, <3>2
  <2> HIDE DEF A
  <2>3. 0 \in Int /\ n \in Int
    OBVIOUS
  <2>4. 0..n \subseteq A
    BY <2>1, <2>2, <2>3, LoopInduction
  <2>5. n \in A /\ n - n = 0
    BY <2>4
  <2>6. QED BY <2>5 DEF A
<1>13. f[<<"entries", p + 1>>] = [at |-> p + Len(w), value |-> T[0]]
  <2>1. Len(flat[0]) = 0
    BY <1>5
  <2>2. from(0) = p + 1
    BY <1>8, <2>1
  <2>3. QED BY <1>12, <2>2
<1>14. p \in 1..Len(ts) /\ Lexed(ts, p) = lb
  BY <1>8, <1>9, PlacedToken
<1>15. lb.kind = "leftBrace" /\ "leftBrace" \notin Scalars
  BY DEF lb, Symbol, Scalars
<1>16. Advance(ts, p) = p + 1 /\ p \in Positions(ts)
  <2>1. p \in 1..(Len(ts) + 1)
    BY <1>14, <1>a
  <2>2. QED BY <1>8, <1>14, <2>1, ReadableMoves
<1>17. ValueAt(f, ts, p) = f[<<"entries", p + 1>>]
  BY <1>14, <1>15, <1>16 DEF ValueAt
<1>18. QED BY <1>13, <1>16, <1>17, <1>b DEF f

-----------------------------------------------------------------------------
(* Lists and records                                                       *)

TableOf(fields, indexed, array) ==
    [kind |-> "table", fields |-> fields, indexed |-> indexed, array |-> array]

LEMMA EmptyTableOf == EmptyTable = TableOf(<<>>, <<>>, <<>>)
  BY DEF EmptyTable, TableOf

Single(name, v) == [x \in {name} |-> v]

LEMMA AssignString ==
    ASSUME NEW f, NEW x, NEW a, NEW key, NEW v, key.kind = "string"
    PROVE  Assign(key, v, TableOf(f, x, a)) = TableOf(Merge(f, Single(key.text, v)), x, a)
<1> DEFINE new == Single(key.text, v)
           t == TableOf(f, x, a)
<1>1. Assign(key, v, t) = [t EXCEPT !.fields = Merge(t.fields, new)]
  BY DEF Assign, Single
<1>2. t.fields = f
  BY DEF TableOf
<1> DEFINE g == Merge(f, new)
<1>3. Assign(key, v, t) = [t EXCEPT !.fields = g]
  BY <1>1, <1>2
<1> HIDE DEF g
<1>4. QED BY <1>3 DEF TableOf, g

LEMMA AssignInteger ==
    ASSUME NEW f, NEW x, NEW a, NEW key, NEW v, key.kind = "integer"
    PROVE  Assign(key, v, TableOf(f, x, a)) = TableOf(f, Merge(x, Single(key.number, v)), a)
<1> DEFINE new == Single(key.number, v)
           t == TableOf(f, x, a)
<1>1. Assign(key, v, t) = [t EXCEPT !.indexed = Merge(t.indexed, new)]
  BY DEF Assign, Single
<1>2. t.indexed = x
  BY DEF TableOf
<1> DEFINE g == Merge(x, new)
<1>3. Assign(key, v, t) = [t EXCEPT !.indexed = g]
  BY <1>1, <1>2
<1> HIDE DEF g
<1>4. QED BY <1>3 DEF TableOf, g

LEMMA AssignNone ==
    ASSUME NEW f, NEW x, NEW a, NEW v
    PROVE  Assign(Positional, v, TableOf(f, x, a)) = TableOf(f, x, <<v>> \o a)
<1> DEFINE t == TableOf(f, x, a)
<1>1. Positional.kind = "none"
  BY DEF Positional, Symbol
<1>2. Assign(Positional, v, t) = [t EXCEPT !.array = <<v>> \o t.array]
  BY <1>1 DEF Assign
<1>3. t.array = a
  BY DEF TableOf
<1> DEFINE g == <<v>> \o a
<1>4. Assign(Positional, v, t) = [t EXCEPT !.array = g]
  BY <1>2, <1>3
<1> HIDE DEF g
<1>5. QED BY <1>4 DEF TableOf, g

LEMMA IntegerToken ==
    ASSUME NEW n
    PROVE  Integer(n).kind = "integer" /\ Integer(n).number = n
  BY DEF Integer

\* A list with indexes.
LEMMA IndexedSpells ==
    ASSUME NEW n \in Nat, NEW keys, \A i \in 1..n : keys[i] = Integer(i),
           NEW texts, texts = [i \in 1..n |-> texts[i]], NEW values,
           \A i \in 1..n : Spells(texts[i], values[i])
    PROVE  Spells(WrittenTable(keys, texts), TableOf(<<>>, [j \in 1..n |-> values[j]], <<>>))
<1> DEFINE x(i) == [j \in (i + 1)..n |-> values[j]]
           T == [i \in 0..n |-> TableOf(<<>>, x(i), <<>>)]
<1>1. T[n] = EmptyTable
  <2>1. x(n) = <<>>
    <3>1. (n + 1)..n = {}
      OBVIOUS
    <3>2. QED BY <3>1
  <2>2. T[n] = TableOf(<<>>, x(n), <<>>)
    OBVIOUS
  <2> HIDE DEF x, T
  <2>3. QED BY <2>1, <2>2, EmptyTableOf
<1>2. ASSUME NEW i \in 1..n
      PROVE  T[i - 1] = Assign(keys[i], values[i], T[i]) /\ KeyOrNone(keys[i])
  <2>1. keys[i].kind = "integer" /\ keys[i].number = i /\ i >= 1
    <3>1. keys[i] = Integer(i)
      OBVIOUS
    <3>2. QED BY <3>1, IntegerToken
  <2>2. T[i - 1] = TableOf(<<>>, x(i - 1), <<>>) /\ T[i] = TableOf(<<>>, x(i), <<>>)
    OBVIOUS
  <2>3. x(i - 1) = Merge(x(i), Single(i, values[i]))
    <3>1. ((i + 1)..n) \cup {i} = ((i - 1) + 1)..n
      OBVIOUS
    <3>2. QED BY <3>1 DEF Merge, Single
  <2> HIDE DEF x, T
  <2>4. Assign(keys[i], values[i], T[i]) = TableOf(<<>>, Merge(x(i), Single(i, values[i])), <<>>)
    <3> DEFINE v == values[i]
               key == keys[i]
               old == x(i)
               none == <<>>
    <3>1. key.kind = "integer" /\ key.number = i /\ T[i] = TableOf(none, old, none)
      BY <2>1, <2>2
    <3> HIDE DEF v, key, old, none
    <3>2. Assign(key, v, TableOf(none, old, none))
            = TableOf(none, Merge(old, Single(key.number, v)), none)
      BY <3>1, AssignInteger
    <3>3. QED BY <3>1, <3>2 DEF v, key, old, none
  <2>5. QED BY <2>1, <2>2, <2>3, <2>4 DEF KeyOrNone, IsKey
<1>3. T[0] = TableOf(<<>>, [j \in 1..n |-> values[j]], <<>>)
  <2>1. x(0) = [j \in 1..n |-> values[j]]
    OBVIOUS
  <2>2. T[0] = TableOf(<<>>, x(0), <<>>)
    OBVIOUS
  <2> HIDE DEF x, T
  <2>3. QED BY <2>1, <2>2
<1> HIDE DEF T
<1>4. Spells(WrittenTable(keys, texts), T[0])
  BY <1>1, <1>2, TableSpells
<1>5. QED BY <1>3, <1>4

\* A list without.
LEMMA PositionalSpells ==
    ASSUME NEW n \in Nat, NEW keys, \A i \in 1..n : keys[i] = Positional,
           NEW texts, texts = [i \in 1..n |-> texts[i]], NEW values,
           \A i \in 1..n : Spells(texts[i], values[i])
    PROVE  Spells(WrittenTable(keys, texts), TableOf(<<>>, <<>>, [j \in 1..n |-> values[j]]))
<1> DEFINE a(i) == [j \in 1..(n - i) |-> values[i + j]]
           T == [i \in 0..n |-> TableOf(<<>>, <<>>, a(i))]
<1>1. T[n] = EmptyTable
  <2>1. a(n) = <<>>
    <3>1. 1..(n - n) = {}
      OBVIOUS
    <3>2. QED BY <3>1
  <2>2. T[n] = TableOf(<<>>, <<>>, a(n))
    OBVIOUS
  <2> HIDE DEF a, T
  <2>3. QED BY <2>1, <2>2, EmptyTableOf
<1>2. ASSUME NEW i \in 1..n
      PROVE  T[i - 1] = Assign(keys[i], values[i], T[i]) /\ KeyOrNone(keys[i])
  <2>1. keys[i] = Positional
    OBVIOUS
  <2>2. T[i - 1] = TableOf(<<>>, <<>>, a(i - 1)) /\ T[i] = TableOf(<<>>, <<>>, a(i))
    OBVIOUS
  <2>3. a(i - 1) = <<values[i]>> \o a(i)
    <3> DEFINE m == n - i
               b == a(i)
               c == a(i - 1)
               h == <<values[i]>>
    <3>1. m \in Nat /\ n - (i - 1) = 1 + m
      OBVIOUS
    <3>2. c = [j \in 1..(1 + m) |-> c[j]] /\ \A j \in 1..(1 + m) : c[j] = values[(i - 1) + j]
      BY <3>1
    <3>3. b = [j \in 1..m |-> b[j]] /\ \A j \in 1..m : b[j] = values[i + j]
      BY <3>1
    <3> HIDE DEF a, b, c, m
    <3>4. IsText(b) /\ Len(b) = m
      BY <3>1, <3>3, FunctionText
    <3>5. IsText(c) /\ Len(c) = 1 + m
      BY <3>1, <3>2, FunctionText
    <3>7. /\ IsText(h \o b) /\ Len(h \o b) = 1 + m /\ (h \o b)[1] = values[i]
          /\ \A j \in 1..m : (h \o b)[1 + j] = b[j]
      BY <3>4, TextPrepend
    <3> HIDE DEF h
    <3>8. ASSUME NEW j \in 1..(1 + m) PROVE c[j] = (h \o b)[j]
      <4>1. c[j] = values[(i - 1) + j]
        BY <3>2
      <4>2. CASE j = 1
        <5>1. (i - 1) + j = i
          BY <4>2
        <5>2. QED BY <3>7, <4>1, <4>2, <5>1
      <4>3. CASE j # 1
        <5> DEFINE k == j - 1
        <5>1. k \in 1..m /\ 1 + k = j /\ i + k = (i - 1) + j
          BY <3>1, <4>3
        <5> HIDE DEF k
        <5>2. (h \o b)[1 + k] = values[i + k]
          BY <3>3, <3>7, <5>1
        <5>3. QED BY <4>1, <5>1, <5>2
      <4>4. QED BY <4>2, <4>3
    <3>9. c = h \o b
      BY <3>5, <3>7, <3>8, EqualTexts
    <3>10. QED BY <3>9 DEF b, c, h
  <2> HIDE DEF a, T
  <2>4. Assign(keys[i], values[i], T[i]) = TableOf(<<>>, <<>>, <<values[i]>> \o a(i))
    BY <2>1, <2>2, AssignNone
  <2>5. QED BY <2>1, <2>2, <2>3, <2>4 DEF KeyOrNone
<1>3. T[0] = TableOf(<<>>, <<>>, [j \in 1..n |-> values[j]])
  <2>1. a(0) = [j \in 1..n |-> values[j]]
    OBVIOUS
  <2>2. T[0] = TableOf(<<>>, <<>>, a(0))
    OBVIOUS
  <2> HIDE DEF a, T
  <2>3. QED BY <2>1, <2>2
<1> HIDE DEF T
<1>4. Spells(WrittenTable(keys, texts), T[0])
  BY <1>1, <1>2, TableSpells
<1>5. QED BY <1>3, <1>4

\* What a list is read as are its values, in their order.
LEMMA ListValues ==
    ASSUME NEW n \in Nat, NEW values, values = [j \in 1..n |-> values[j]],
           NEW table, table = TableOf(<<>>, values, <<>>) \/ table = TableOf(<<>>, <<>>, values)
    PROVE  IsSequence(table) /\ Values(table) = values /\ table.kind = "table"
<1>1. table.kind = "table"
  BY DEF TableOf
<1>2. DOMAIN values = 1..n /\ values \in Seq({values[j] : j \in 1..n}) /\ Len(values) = n
  <2>1. values \in [1..n -> {values[j] : j \in 1..n}]
    OBVIOUS
  <2>2. QED BY <2>1
<1>3. DOMAIN <<>> = {} /\ Len(<<>>) = 0 /\ Cardinality({}) = 0 /\ Cardinality(1..n) = n
  <2>1. Cardinality(1..n) = n
    BY FS_Interval
  <2>2. QED BY <2>1, FS_EmptySet
<1>4. CASE table = TableOf(<<>>, values, <<>>)
  <2>1. table.array = <<>> /\ table.indexed = values
    BY <1>4 DEF TableOf
  <2>2. Merge(<<>>, values) = values
    BY <1>2, <1>3 DEF Merge
  <2>3. QED BY <1>1, <1>2, <1>3, <2>1, <2>2 DEF IsSequence, Values
<1>5. CASE table = TableOf(<<>>, <<>>, values)
  <2>1. table.array = values /\ table.indexed = <<>>
    BY <1>5 DEF TableOf
  <2>2. Merge(values, <<>>) = values
    BY <1>2, <1>3 DEF Merge
  <2>3. QED BY <1>1, <1>2, <1>3, <2>1, <2>2 DEF IsSequence, Values
<1>6. QED BY <1>4, <1>5

LEMMA StringToken ==
    ASSUME NEW x
    PROVE  String(x).kind = "string" /\ String(x).text = x
  BY DEF String

\* F is a record of these fields.
IsRecord(F, n, names, values) ==
    /\ F = [x \in {names[j] : j \in 1..n} |-> F[x]]
    /\ \A i \in 1..n : F[names[i]] = values[i]

\* A table with named entries.
LEMMA FieldsSpell ==
    ASSUME NEW n \in Nat, NEW names, NEW keys, \A i \in 1..n : keys[i] = String(names[i]),
           NEW texts, texts = [i \in 1..n |-> texts[i]], NEW values,
           \A i \in 1..n : Spells(texts[i], values[i]),
           NEW F, IsRecord(F, n, names, values)
    PROVE  Spells(WrittenTable(keys, texts), TableOf(F, <<>>, <<>>))
<1>0. /\ F = [x \in {names[j] : j \in 1..n} |-> F[x]]
      /\ \A i \in 1..n : F[names[i]] = values[i]
  BY DEF IsRecord
<1> DEFINE of(i) == [x \in {names[j] : j \in (i + 1)..n} |-> F[x]]
           none == <<>>
           T == [i \in 0..n |-> TableOf(of(i), none, none)]
<1>1. T[n] = EmptyTable
  <2>1. of(n) = <<>>
    <3>1. {names[j] : j \in (n + 1)..n} = {}
      OBVIOUS
    <3>2. QED BY <3>1
  <2>2. T[n] = TableOf(of(n), none, none)
    OBVIOUS
  <2> HIDE DEF of, T
  <2>3. QED BY <2>1, <2>2, EmptyTableOf
<1>2. ASSUME NEW i \in 1..n
      PROVE  T[i - 1] = Assign(keys[i], values[i], T[i]) /\ KeyOrNone(keys[i])
  <2> DEFINE key == keys[i]
             v == values[i]
             old == of(i)
  <2>1. key.kind = "string" /\ key.text = names[i]
    <3>1. keys[i] = String(names[i])
      OBVIOUS
    <3>2. QED BY <3>1, StringToken
  <2>2. T[i - 1] = TableOf(of(i - 1), none, none) /\ T[i] = TableOf(old, none, none)
    OBVIOUS
  <2>3. of(i - 1) = Merge(old, Single(names[i], v))
    <3>1. {names[j] : j \in (i + 1)..n} \cup {names[i]} = {names[j] : j \in ((i - 1) + 1)..n}
      <4>1. \A j : j \in ((i - 1) + 1)..n <=> j \in (i + 1)..n \/ j = i
        OBVIOUS
      <4>2. QED BY <4>1
    <3>2. F[names[i]] = v
      BY <1>0
    <3>3. QED BY <3>1, <3>2 DEF Merge, Single
  <2> HIDE DEF of, T, key, v, old, none
  <2>4. Assign(key, v, TableOf(old, none, none)) = TableOf(Merge(old, Single(key.text, v)), none, none)
    BY <2>1, AssignString
  <2>5. T[i - 1] = Assign(key, v, T[i])
    BY <2>1, <2>2, <2>3, <2>4
  <2>6. KeyOrNone(key)
    BY <2>1 DEF KeyOrNone, IsKey
  <2>7. QED BY <2>5, <2>6 DEF key, v
<1>3. T[0] = TableOf(F, <<>>, <<>>)
  <2>1. of(0) = F
    <3>1. (0 + 1)..n = 1..n
      OBVIOUS
    <3>2. QED BY <1>0, <3>1
  <2>2. T[0] = TableOf(of(0), none, none)
    OBVIOUS
  <2> HIDE DEF of, T
  <2>3. QED BY <2>1, <2>2
<1> HIDE DEF T
<1>4. Spells(WrittenTable(keys, texts), T[0])
  BY <1>1, <1>2, TableSpells
<1>5. QED BY <1>3, <1>4

Document(name, w) == <<Name(name), Symbol("equal")>> \o w

\* ParseVariable reads a file of one variable as the table assigned to it, and finds no
\* other variable in it.
THEOREM DocumentIsRead ==
    ASSUME NEW ts, Readable(ts), NEW w, NEW table, table.kind = "table", Spells(w, table),
           NEW name, ts = Document(name, w), NEW variable
    PROVE  ParseVariable(ts, variable) = IF variable = name THEN table ELSE Unlexable
<1> DEFINE head == <<Name(name), Symbol("equal")>>
           l == Len(w)
<1>1. IsText(head) /\ Len(head) = 2 /\ head[1] = Name(name) /\ head[2] = Symbol("equal")
  <2>1. head \in Seq({Name(name), Symbol("equal")})
    OBVIOUS
  <2>2. Len(head) = 2 /\ head[1] = Name(name) /\ head[2] = Symbol("equal")
    OBVIOUS
  <2>3. QED BY <2>1, <2>2 DEF IsText
<1>2. IsText(w)
  BY DEF Spells
<1> HIDE DEF head
<1>3. /\ Len(head \o w) = Len(head) + Len(w) /\ Len(w) \in Nat
      /\ \A i \in 1..Len(head) : (head \o w)[i] = head[i]
      /\ \A i \in 1..Len(w) : (head \o w)[Len(head) + i] = w[i]
  <2>1. IsText(head)
    BY <1>1
  <2>2. QED BY <1>2, <2>1, TextConcat
<1>4. /\ Len(ts) = 2 + l /\ l \in Nat /\ ts[1] = Name(name) /\ ts[2] = Symbol("equal")
      /\ \A i \in 1..l : ts[2 + i] = w[i]
  <2>1. ts = head \o w
    BY DEF head, Document
  <2>2. 1 \in 1..Len(head) /\ 2 \in 1..Len(head)
    BY <1>1
  <2>3. QED BY <1>1, <1>3, <2>1, <2>2
<1>5. Placed(ts, 3, w)
  <2>1. \A i \in 1..l : 3 + i - 1 = 2 + i
    OBVIOUS
  <2>2. 3 + l <= Len(ts) + 1
    BY <1>4
  <2>3. QED BY <1>4, <2>1, <2>2 DEF Placed
<1> DEFINE n == Len(ts)
<1>6. n \in Nat /\ 1 \in 1..n /\ 2 \in 1..n /\ 3 + l = n + 1 /\ 3 + l \in Nat /\ 3 + l # 0
  BY <1>4
<1>7. Assigned(ts, 1) = [at |-> 3 + l, value |-> table]
  <2>1. Advance(ts, 1) = 1 + 1
    BY <1>6, ReadableMoves
  <2>2. ts[2].kind = "equal"
    <3>1. Symbol("equal").kind = "equal"
      BY DEF Symbol
    <3>2. QED BY <1>4, <3>1
  <2>3. Consume(ts, 2, "equal") = 2 + 1
    BY <1>6, <2>2, ReadableMoves
  <2>4. 1 + 1 = 2 /\ 2 + 1 = 3
    OBVIOUS
  <2>5. Parser(ts)[<<"value", 3>>] = [at |-> 3 + l, value |-> table]
    BY <1>5 DEF Spells
  <2>6. QED BY <2>1, <2>3, <2>4, <2>5 DEF Assigned
<1>8. PICK g : /\ ParseDocument(ts, variable) = g[NewParser(ts)]
               /\ \A at \in Positions(ts) : g[at] = DocumentAt(g, ts, variable, at)
  BY DocumentParses DEF Readable
<1>9. Lexed(ts, 1) = Name(name) /\ Name(name).kind = "identifier" /\ Name(name).text = name
  <2>1. Lexed(ts, 1) = ts[1]
    BY <1>6, ReadableMoves
  <2>2. QED BY <1>4, <2>1 DEF Name
<1>10. NewParser(ts) = 1
  <2>1. Lexed(ts, 1) = ts[1] /\ Lexed(ts, 2) = ts[2]
    BY <1>6, ReadableMoves
  <2>2. ts[1] # Unlexable /\ ts[2] # Unlexable
    BY <1>6 DEF Readable
  <2>3. QED BY <2>1, <2>2 DEF NewParser
<1>11. 1 \in Positions(ts) /\ n + 1 \in Positions(ts)
  BY <1>6 DEF Positions
<1>12. Unlexable.kind # "table" /\ Failed.value = Unlexable
  BY DEF Unlexable, Symbol, Failed
<1>13. CASE variable = name
  <2>1. DocumentAt(g, ts, variable, 1) = [at |-> 3 + l, value |-> table]
    BY <1>6, <1>7, <1>9, <1>13 DEF DocumentAt
  <2>2. ParseDocument(ts, variable) = [at |-> 3 + l, value |-> table]
    BY <1>8, <1>10, <1>11, <2>1
  <2>3. QED BY <1>13, <2>2 DEF ParseVariable, TableOrError
<1>14. CASE variable # name
  <2>1. Lexed(ts, n + 1) = EOF /\ EOF.kind = "eof"
    <3>1. n + 1 # 0 /\ n + 1 \notin DOMAIN ts
      BY <1>6 DEF Readable, Proper
    <3>2. QED BY <3>1 DEF Lexed, EOF, Symbol
  <2>2. SkipAny(ts, n + 1, {"semicolon"}) = n + 1
    BY <2>1 DEF SkipAny
  <2>3. DocumentAt(g, ts, variable, 1) = g[n + 1]
    BY <1>6, <1>7, <1>9, <1>14, <2>2 DEF DocumentAt
  <2>4. DocumentAt(g, ts, variable, n + 1) = Failed
    BY <2>1 DEF DocumentAt
  <2>5. ParseDocument(ts, variable) = Failed
    BY <1>8, <1>10, <1>11, <2>3, <2>4
  <2>6. QED BY <1>12, <1>14, <2>5 DEF ParseVariable, TableOrError
<1>15. QED BY <1>13, <1>14

-----------------------------------------------------------------------------
(* What the game writes can be lexed, and its brackets match               *)

\* In w, with depth d, every table that is opened is closed, no sooner than that.
Matches(d, w) ==
    /\ Depths(d, w) /\ d[0] = 0 /\ d[Len(w)] = 0
    /\ \A n \in 0..Len(w) : d[n] >= 0

Balanced(w) ==
    /\ IsText(w) /\ \A i \in 1..Len(w) : w[i] # Unlexable
    /\ \E d : Matches(d, w)

\* All of w is one table.
Nested(w) ==
    /\ Len(w) >= 2
    /\ \E d : Matches(d, w) /\ \A n \in 1..(Len(w) - 1) : d[n] >= 1

LEMMA BalancedToken ==
    ASSUME NEW t, t # Unlexable, Weight(t) = 0
    PROVE  Balanced(<<t>>)
<1> DEFINE w == <<t>>
           d == [n \in 0..1 |-> 0]
<1>1. IsText(w) /\ Len(w) = 1 /\ w[1] = t
  BY ShortText
<1> HIDE DEF w
<1>2. Matches(d, w)
  BY <1>1 DEF Matches, Depths
<1>3. \A i \in 1..Len(w) : w[i] # Unlexable
  BY <1>1
<1>4. Balanced(w)
  BY <1>1, <1>2, <1>3 DEF Balanced
<1>5. QED BY <1>4 DEF w

LEMMA BalancedEmpty == Balanced(<<>>)
<1> DEFINE d == [n \in 0..0 |-> 0]
<1>1. IsText(<<>>) /\ Len(<<>>) = 0
  <2>1. <<>> \in Seq({})
    OBVIOUS
  <2>2. QED BY <2>1 DEF IsText
<1>2. Matches(d, <<>>)
  BY <1>1 DEF Matches, Depths
<1>3. QED BY <1>1, <1>2 DEF Balanced

LEMMA BalancedConcat ==
    ASSUME NEW a, NEW b, Balanced(a), Balanced(b)
    PROVE  Balanced(a \o b)
<1> DEFINE c == a \o b
           m == Len(a)
           n == Len(b)
<1>1. IsText(a) /\ IsText(b)
  BY DEF Balanced
<1>2. /\ IsText(c) /\ m \in Nat /\ n \in Nat /\ Len(c) = m + n
      /\ \A i \in 1..m : c[i] = a[i]
      /\ \A i \in 1..n : c[m + i] = b[i]
  BY <1>1, TextConcat
<1>3. PICK d : Matches(d, a)
  BY DEF Balanced
<1>4. PICK e : Matches(e, b)
  BY DEF Balanced
<1>5. /\ d \in [0..m -> Int] /\ d[0] = 0 /\ d[m] = 0 /\ \A i \in 0..m : d[i] >= 0
      /\ \A i \in 1..m : d[i] = d[i - 1] + Weight(a[i])
  BY <1>3 DEF Matches, Depths
<1>6. /\ e \in [0..n -> Int] /\ e[0] = 0 /\ e[n] = 0 /\ \A i \in 0..n : e[i] >= 0
      /\ \A i \in 1..n : e[i] = e[i - 1] + Weight(b[i])
  BY <1>4 DEF Matches, Depths
<1>7. (\A i \in 1..m : a[i] # Unlexable) /\ (\A i \in 1..n : b[i] # Unlexable)
  BY DEF Balanced
<1> HIDE DEF c, m, n
<1> DEFINE f == [i \in 0..(m + n) |-> IF i <= m THEN d[i] ELSE e[i - m]]
<1>8. \A i \in 0..m : f[i] = d[i]
  BY <1>2
<1>9. \A i \in 0..n : f[m + i] = e[i]
  <2> SUFFICES ASSUME NEW i \in 0..n PROVE f[m + i] = e[i]
    OBVIOUS
  <2>1. CASE i = 0
    BY <1>2, <1>5, <1>6, <2>1
  <2>2. CASE i # 0
    <3>1. m + i \in 0..(m + n) /\ ~(m + i <= m) /\ (m + i) - m = i
      BY <1>2, <2>2
    <3>2. QED BY <3>1
  <2>3. QED BY <2>1, <2>2
<1>a. \A i \in 0..(m + n) : i \in 0..m \/ (\E j \in 1..n : i = m + j)
  <2> SUFFICES ASSUME NEW i \in 0..(m + n), i \notin 0..m PROVE \E j \in 1..n : i = m + j
    OBVIOUS
  <2>1. i - m \in 1..n /\ i = m + (i - m)
    BY <1>2
  <2>2. QED BY <2>1
<1>10. f \in [0..(m + n) -> Int]
  <2>1. \A i \in 0..(m + n) : f[i] \in Int
    <3> HIDE DEF f
    <3>1. \A i \in 0..m : f[i] \in Int
      BY <1>5, <1>8
    <3>2. ASSUME NEW j \in 1..n PROVE f[m + j] \in Int
      <4>1. j \in 0..n
        BY <1>2
      <4>2. f[m + j] = e[j] /\ e[j] \in Int
        BY <1>6, <1>9, <4>1
      <4>3. QED BY <4>2
    <3>3. QED BY <1>a, <3>1, <3>2
  <2>2. QED BY <2>1
<1> HIDE DEF f
<1>11. \A i \in 0..(m + n) : f[i] >= 0
  <2>1. \A i \in 0..m : f[i] >= 0
    BY <1>5, <1>8
  <2>2. ASSUME NEW j \in 1..n PROVE f[m + j] >= 0
    <3>1. j \in 0..n
      BY <1>2
    <3>2. f[m + j] = e[j] /\ e[j] >= 0
      BY <1>6, <1>9, <3>1
    <3>3. QED BY <3>2
  <2>3. QED BY <1>a, <2>1, <2>2
<1>12. \A i \in 1..(m + n) : f[i] = f[i - 1] + Weight(c[i]) /\ c[i] # Unlexable
  <2>1. ASSUME NEW i \in 1..m PROVE f[i] = f[i - 1] + Weight(c[i]) /\ c[i] # Unlexable
    <3>1. i \in 0..m /\ i - 1 \in 0..m
      BY <1>2
    <3>2. f[i] = d[i] /\ f[i - 1] = d[i - 1] /\ c[i] = a[i]
      BY <1>2, <1>8, <3>1
    <3>3. QED BY <1>5, <1>7, <3>2
  <2>2. ASSUME NEW j \in 1..n
        PROVE  f[m + j] = f[(m + j) - 1] + Weight(c[m + j]) /\ c[m + j] # Unlexable
    <3>1. j \in 0..n /\ j - 1 \in 0..n /\ (m + j) - 1 = m + (j - 1)
      BY <1>2
    <3>2. f[m + j] = e[j] /\ f[(m + j) - 1] = e[j - 1] /\ c[m + j] = b[j]
      BY <1>2, <1>9, <3>1
    <3>3. QED BY <1>6, <1>7, <3>2
  <2>3. \A i \in 1..(m + n) : i \in 1..m \/ (\E j \in 1..n : i = m + j)
    BY <1>2, <1>a
  <2>4. QED BY <2>1, <2>2, <2>3
<1>13. f[0] = 0 /\ f[m + n] = 0
  <2>1. 0 \in 0..m /\ n \in 0..n
    BY <1>2
  <2>2. QED BY <1>5, <1>6, <1>8, <1>9, <2>1
<1>14. Matches(f, c)
  BY <1>2, <1>10, <1>11, <1>12, <1>13 DEF Matches, Depths
<1>15. Balanced(c)
  BY <1>2, <1>12, <1>14 DEF Balanced
<1>16. QED BY <1>15 DEF c

LEMMA BalancedFlatten ==
    ASSUME NEW n \in Nat, NEW seqs, seqs = [i \in 1..n |-> seqs[i]],
           \A i \in 1..n : Balanced(seqs[i])
    PROVE  Balanced(FlattenSeq(seqs))
<1>1. \A i \in 1..n : IsText(seqs[i])
  BY DEF Balanced
<1>2. PICK flat : /\ flat[0] = <<>> /\ \A i \in 0..n : IsText(flat[i])
                  /\ \A i \in 1..n : flat[i] = flat[i - 1] \o seqs[i]
                  /\ FlattenSeq(seqs) = flat[n]
  BY <1>1, TextsFlatten
<1> DEFINE A == {i \in 0..n : Balanced(flat[i])}
<1>3. 0 \in A
  BY <1>2, BalancedEmpty
<1>4. ASSUME NEW i \in 0..(n - 1), i \in A PROVE i + 1 \in A
  <2>1. i + 1 \in 1..n /\ (i + 1) - 1 = i /\ i + 1 \in 0..n
    OBVIOUS
  <2>2. flat[i + 1] = flat[(i + 1) - 1] \o seqs[i + 1]
    BY <1>2, <2>1
  <2>3. Balanced(seqs[i + 1]) /\ Balanced(flat[i])
    BY <1>4, <2>1
  <2>4. Balanced(flat[i + 1])
    BY <2>1, <2>2, <2>3, BalancedConcat
  <2>5. QED BY <2>1, <2>4
<1> HIDE DEF A
<1>5. 0 \in Int /\ n \in Int
  OBVIOUS
<1>6. 0..n \subseteq A
  BY <1>3, <1>4, <1>5, LoopInduction
<1>7. QED BY <1>2, <1>6 DEF A

\* Between two brackets what is balanced becomes one table.
LEMMA Enclosed ==
    ASSUME NEW b, Balanced(b), NEW w, IsText(w), NEW m, m = Len(b), Len(w) = m + 2,
           w[1] = Symbol("leftBrace"), w[m + 2] = Symbol("rightBrace"),
           \A i \in 1..m : w[i + 1] = b[i]
    PROVE  Balanced(w) /\ Nested(w)
<1>1. PICK d : Matches(d, b)
  BY DEF Balanced
<1>2. /\ d \in [0..m -> Int] /\ d[0] = 0 /\ d[m] = 0 /\ \A i \in 0..m : d[i] >= 0
      /\ \A i \in 1..m : d[i] = d[i - 1] + Weight(b[i])
  BY <1>1 DEF Matches, Depths
<1>3. m \in Nat
  BY TextConcat DEF Balanced
<1>4. /\ Weight(w[1]) = 1 /\ Weight(w[m + 2]) = -1
      /\ w[1] # Unlexable /\ w[m + 2] # Unlexable
  <2> DEFINE lb == Symbol("leftBrace")
             rb == Symbol("rightBrace")
  <2>1. lb.kind = "leftBrace" /\ rb.kind = "rightBrace" /\ Unlexable.kind = "error"
    BY DEF Symbol, Unlexable
  <2> HIDE DEF lb, rb
  <2>2. Weight(lb) = 1 /\ Weight(rb) = -1 /\ lb # Unlexable /\ rb # Unlexable
    BY <2>1 DEF Weight
  <2>3. w[1] = lb /\ w[m + 2] = rb
    BY DEF lb, rb
  <2>4. QED BY <2>2, <2>3
<1>5. \A i \in 1..m : b[i] # Unlexable
  BY DEF Balanced
<1> DEFINE l == m + 2
           f == [i \in 0..l |-> IF i = 0 \/ i = l THEN 0 ELSE 1 + d[i - 1]]
<1>6. l \in Nat /\ l = Len(w) /\ 0 \in 0..l /\ l \in 0..l
  BY <1>3
<1>7. f[0] = 0 /\ f[l] = 0
  BY <1>6
<1>8. ASSUME NEW i \in 1..(l - 1)
      PROVE  i \in 0..l /\ f[i] = 1 + d[i - 1] /\ d[i - 1] \in Int /\ d[i - 1] >= 0
  <2>1. i \in 0..l /\ i # 0 /\ i # l /\ i - 1 \in 0..m
    BY <1>3
  <2>2. f[i] = 1 + d[i - 1]
    BY <2>1
  <2>3. QED BY <1>2, <2>1, <2>2
<1>9. f \in [0..l -> Int] /\ \A i \in 0..l : f[i] >= 0
  <2>1. \A i \in 0..l : i = 0 \/ i = l \/ i \in 1..(l - 1)
    BY <1>6
  <2>2. f = [i \in 0..l |-> f[i]]
    OBVIOUS
  <2> HIDE DEF f
  <2>3. \A i \in 0..l : f[i] \in Int /\ f[i] >= 0
    BY <1>7, <1>8, <2>1
  <2>4. QED BY <2>2, <2>3
<1> HIDE DEF f
<1>10. ASSUME NEW i \in 1..l
       PROVE  f[i] = f[i - 1] + Weight(w[i]) /\ w[i] # Unlexable
  <2>1. CASE i = 1
    <3>1. 1 \in 1..(l - 1) /\ 1 - 1 = 0
      BY <1>3
    <3>2. f[1] = 1 + d[0]
      BY <1>8, <3>1
    <3>3. QED BY <1>2, <1>4, <1>7, <2>1, <3>1, <3>2
  <2>2. CASE i = l
    <3>1. l - 1 \in 1..(l - 1) /\ (l - 1) - 1 = m
      BY <1>3
    <3>2. f[l - 1] = 1 + d[m]
      BY <1>8, <3>1
    <3>3. QED BY <1>2, <1>4, <1>7, <2>2, <3>2
  <2>3. CASE i # 1 /\ i # l
    <3> DEFINE j == i - 1
    <3>1. j \in 1..m /\ i \in 1..(l - 1) /\ j \in 1..(l - 1) /\ j + 1 = i
      BY <1>3, <2>3
    <3>2. f[i] = 1 + d[j] /\ f[j] = 1 + d[j - 1] /\ d[j - 1] \in Int
      BY <1>8, <3>1
    <3> HIDE DEF j
    <3>3. w[i] = b[j] /\ d[j] = d[j - 1] + Weight(b[j]) /\ b[j] # Unlexable
      BY <1>2, <1>5, <3>1
    <3>4. Weight(b[j]) \in Int
      BY DEF Weight
    <3>5. f[i] = f[j] + Weight(w[i])
      BY <3>2, <3>3, <3>4
    <3>6. QED BY <3>3, <3>5 DEF j
  <2>4. QED BY <2>1, <2>2, <2>3
<1>11. Depths(f, w) /\ \A i \in 1..l : w[i] # Unlexable
  <2> HIDE DEF l
  <2>1. QED BY <1>6, <1>9, <1>10 DEF Depths
<1>12. Matches(f, w)
  BY <1>6, <1>7, <1>9, <1>11 DEF Matches
<1>13. \A i \in 1..(l - 1) : f[i] >= 1
  <2> SUFFICES ASSUME NEW i \in 1..(l - 1) PROVE f[i] >= 1
    OBVIOUS
  <2>1. QED BY <1>8
<1>a. l >= 2
  BY <1>3
<1> HIDE DEF l
<1>14. QED BY <1>6, <1>11, <1>12, <1>13, <1>a DEF Balanced, Nested

LEMMA WrittenKeyBalanced ==
    ASSUME NEW key, KeyOrNone(key)
    PROVE  Balanced(WrittenKey(key))
<1>1. CASE key = Positional
  <2>1. WrittenKey(key) = <<>>
    BY <1>1 DEF WrittenKey
  <2>2. QED BY <2>1, BalancedEmpty
<1>2. CASE key # Positional
  <2> DEFINE lb == <<Symbol("leftBracket")>>
             k == <<key>>
             rb == <<Symbol("rightBracket")>>
             eq == <<Symbol("equal")>>
  <2>1. key.kind = "string" \/ key.kind = "integer"
    BY <1>2 DEF KeyOrNone, IsKey
  <2>2. Balanced(k)
    <3>1. Unlexable.kind = "error"
      BY DEF Unlexable, Symbol
    <3>2. key # Unlexable
      BY <2>1, <3>1
    <3>3. Weight(key) = 0
      BY <2>1 DEF Weight
    <3>4. QED BY <3>2, <3>3, BalancedToken
  <2>3. Balanced(lb)
    <3>1. Symbol("leftBracket") # Unlexable /\ Weight(Symbol("leftBracket")) = 0
      BY DEF Weight, Unlexable, Symbol
    <3>2. QED BY <3>1, BalancedToken
  <2>4. Balanced(rb)
    <3>1. Symbol("rightBracket") # Unlexable /\ Weight(Symbol("rightBracket")) = 0
      BY DEF Weight, Unlexable, Symbol
    <3>2. QED BY <3>1, BalancedToken
  <2>5. Balanced(eq)
    <3>1. Symbol("equal") # Unlexable /\ Weight(Symbol("equal")) = 0
      BY DEF Weight, Unlexable, Symbol
    <3>2. QED BY <3>1, BalancedToken
  <2>6. WrittenKey(key) = ((lb \o k) \o rb) \o eq
    BY <1>2 DEF WrittenKey
  <2> HIDE DEF lb, k, rb, eq
  <2>7. Balanced(lb \o k)
    BY <2>2, <2>3, BalancedConcat
  <2>8. Balanced((lb \o k) \o rb)
    BY <2>4, <2>7, BalancedConcat
  <2>9. Balanced(((lb \o k) \o rb) \o eq)
    BY <2>5, <2>8, BalancedConcat
  <2>10. QED BY <2>6, <2>9
<1>3. QED BY <1>1, <1>2

Bracketed(x, b, y) == <<x>> \o b \o <<y>>

LEMMA Between ==
    ASSUME NEW x, NEW y, NEW b, IsText(b), NEW w, w = Bracketed(x, b, y)
    PROVE  /\ IsText(w) /\ Len(w) = Len(b) + 2 /\ w[1] = x /\ w[Len(b) + 2] = y
           /\ \A i \in 1..Len(b) : w[i + 1] = b[i]
<1> DEFINE left == <<x>> \o b
           right == <<y>>
           m == Len(b)
<1>1. /\ IsText(left) /\ Len(left) = 1 + m /\ left[1] = x
      /\ \A i \in 1..m : left[1 + i] = b[i]
  BY TextPrepend
<1>2. IsText(right) /\ Len(right) = 1 /\ right[1] = y
  BY ShortText
<1>3. m \in Nat
  BY TextConcat
<1>0. w = left \o right
  BY DEF Bracketed
<1> HIDE DEF left, right, m
<1>4. /\ IsText(w) /\ Len(w) = Len(left) + Len(right)
      /\ \A i \in 1..Len(left) : w[i] = left[i]
      /\ \A i \in 1..Len(right) : w[Len(left) + i] = right[i]
  <2>1. IsText(left) /\ IsText(right)
    BY <1>1, <1>2
  <2>2. /\ IsText(left \o right) /\ Len(left \o right) = Len(left) + Len(right)
        /\ \A i \in 1..Len(left) : (left \o right)[i] = left[i]
    BY <2>1, TextConcat
  <2>3. ASSUME NEW i \in 1..Len(right)
        PROVE  (left \o right)[Len(left) + i] = right[i]
    BY <2>1, TextConcat
  <2>4. QED BY <1>0, <2>2, <2>3
<1>5. Len(w) = m + 2 /\ w[1] = x /\ w[m + 2] = y
  <2>1. 1 \in 1..Len(left) /\ 1 \in 1..Len(right) /\ (1 + m) + 1 = m + 2
    BY <1>1, <1>2, <1>3
  <2>2. QED BY <1>1, <1>2, <1>3, <1>4, <2>1
<1>6. \A i \in 1..m : w[i + 1] = b[i]
  <2> SUFFICES ASSUME NEW i \in 1..m PROVE w[i + 1] = b[i]
    OBVIOUS
  <2>1. i + 1 = 1 + i /\ 1 + i \in 1..Len(left)
    BY <1>1, <1>3
  <2>2. QED BY <1>1, <1>4, <2>1
<1>7. QED BY <1>4, <1>5, <1>6 DEF m

\* A table of balanced values is one table.
LEMMA TableNested ==
    ASSUME NEW n \in Nat, NEW keys, NEW texts, texts = [i \in 1..n |-> texts[i]],
           \A i \in 1..n : KeyOrNone(keys[i]) /\ Balanced(texts[i])
    PROVE  Balanced(WrittenTable(keys, texts)) /\ Nested(WrittenTable(keys, texts))
<1> DEFINE lb == Symbol("leftBrace")
           rb == Symbol("rightBrace")
           entry(i) == WrittenKey(keys[i]) \o texts[i] \o <<Symbol("comma")>>
           seqs == [i \in 1..n |-> entry(i)]
           w == WrittenTable(keys, texts)
<1>1. ASSUME NEW i \in 1..n PROVE Balanced(entry(i))
  <2> DEFINE a == WrittenKey(keys[i])
             b == texts[i]
             c == <<Symbol("comma")>>
  <2>1. Balanced(c)
    <3>1. Symbol("comma") # Unlexable /\ Weight(Symbol("comma")) = 0
      BY DEF Weight, Unlexable, Symbol
    <3>2. QED BY <3>1, BalancedToken
  <2>2. Balanced(a) /\ Balanced(b)
    BY WrittenKeyBalanced
  <2> HIDE DEF a, b, c
  <2>3. Balanced(a \o b)
    BY <2>2, BalancedConcat
  <2>4. Balanced((a \o b) \o c)
    BY <2>1, <2>3, BalancedConcat
  <2>5. QED BY <2>4 DEF a, b, c
<1>2. w = <<lb>> \o FlattenSeq(seqs) \o <<rb>>
  <2>1. DOMAIN texts = 1..n
    OBVIOUS
  <2>2. QED BY <2>1 DEF WrittenTable
<1> HIDE DEF w
<1>3. seqs = [i \in 1..n |-> seqs[i]] /\ \A i \in 1..n : Balanced(seqs[i])
  <2>1. \A i \in 1..n : seqs[i] = entry(i)
    OBVIOUS
  <2> HIDE DEF entry
  <2>2. QED BY <1>1, <2>1
<1> HIDE DEF seqs
<1> HIDE DEF entry
<1> DEFINE all == FlattenSeq(seqs)
<1>4. Balanced(all)
  BY <1>3, BalancedFlatten
<1>5. w = Bracketed(lb, all, rb)
  BY <1>2 DEF Bracketed
<1>6. IsText(all)
  BY <1>4 DEF Balanced
<1> HIDE DEF all, lb, rb
<1> DEFINE m == Len(all)
<1>7. /\ IsText(w) /\ Len(w) = m + 2 /\ w[1] = lb /\ w[m + 2] = rb
      /\ \A i \in 1..m : w[i + 1] = all[i]
  <2> HIDE DEF m
  <2>1. IsText(w) /\ Len(w) = Len(all) + 2 /\ w[1] = lb /\ w[Len(all) + 2] = rb
    BY <1>5, <1>6, Between
  <2>2. ASSUME NEW i \in 1..Len(all) PROVE w[i + 1] = all[i]
    BY <1>5, <1>6, Between
  <2>3. QED BY <2>1, <2>2 DEF m
<1> HIDE DEF m
<1>8. Balanced(w) /\ Nested(w)
  BY <1>4, <1>7, Enclosed DEF m, lb, rb
<1>9. QED BY <1>8 DEF w

-----------------------------------------------------------------------------
(* A file that is cut off                                                  *)

\* ts is what there is of full behind its first n tokens, with no bracket after them,
\* and with what is left of the first bracket when n is 2.
Torn(ts, full, n) ==
    /\ Proper(ts) /\ n \in 0..(Len(full) - 1) /\ Len(ts) \in {n, n + 1}
    /\ \A i \in 1..n : ts[i] = full[i]
    /\ Len(ts) = n + 1 => Weight(ts[n + 1]) = 0 /\ (n = 2 => ts[3] = Unlexable)

LEMMA DocumentText ==
    ASSUME NEW name, NEW w, IsText(w), NEW full, full = Document(name, w)
    PROVE  /\ IsText(full) /\ Len(w) \in Nat /\ Len(full) = 2 + Len(w)
           /\ full[1] = Name(name) /\ full[2] = Symbol("equal")
           /\ \A i \in 1..Len(w) : full[2 + i] = w[i]
<1> DEFINE head == <<Name(name), Symbol("equal")>>
<1>0. full = head \o w
  BY DEF Document
<1>1. IsText(head) /\ Len(head) = 2 /\ head[1] = Name(name) /\ head[2] = Symbol("equal")
  <2>1. head \in Seq({Name(name), Symbol("equal")})
    OBVIOUS
  <2>2. Len(head) = 2 /\ head[1] = Name(name) /\ head[2] = Symbol("equal")
    OBVIOUS
  <2>3. QED BY <2>1, <2>2 DEF IsText
<1> HIDE DEF head
<1> DEFINE all == head \o w
<1>a. IsText(head)
  BY <1>1
<1>2. /\ IsText(all) /\ Len(all) = Len(head) + Len(w) /\ Len(w) \in Nat
      /\ \A i \in 1..Len(head) : all[i] = head[i]
      /\ \A i \in 1..Len(w) : all[Len(head) + i] = w[i]
  BY <1>a, TextConcat
<1> HIDE DEF all
<1>5. 1 \in 1..Len(head) /\ 2 \in 1..Len(head)
  BY <1>1
<1>6. QED BY <1>0, <1>1, <1>2, <1>5 DEF all

\* The first token of a table.
LEMMA NestedBegins ==
    ASSUME NEW w, Balanced(w), Nested(w)
    PROVE  w[1].kind = "leftBrace"
<1> DEFINE l == Len(w)
<1>1. PICK e : Matches(e, w) /\ \A i \in 1..(l - 1) : e[i] >= 1
  BY DEF Nested
<1>2. /\ e \in [0..l -> Int] /\ e[0] = 0
      /\ \A i \in 1..l : e[i] = e[i - 1] + Weight(w[i])
  BY <1>1 DEF Matches, Depths
<1>3. l \in Nat /\ l >= 2
  BY TextConcat DEF Balanced, Nested
<1> HIDE DEF l
<1>4. 1 \in 1..(l - 1) /\ 1 \in 1..l /\ 1 - 1 = 0
  BY <1>3
<1>5. e[1] >= 1 /\ e[1] = e[0] + Weight(w[1])
  BY <1>1, <1>2, <1>4
<1>6. Weight(w[1]) >= 1
  BY <1>2, <1>5 DEF Weight
<1>7. QED BY <1>6 DEF Weight

LEMMA SubText ==
    ASSUME NEW a, IsText(a), NEW n \in 0..Len(a)
    PROVE  /\ IsText(SubSeq(a, 1, n)) /\ Len(SubSeq(a, 1, n)) = n
           /\ \A i \in 1..n : SubSeq(a, 1, n)[i] = a[i]
<1>1. PICK S : a \in Seq(S)
  BY DEF IsText
<1>2. SubSeq(a, 1, n) \in Seq(S) /\ Len(SubSeq(a, 1, n)) = n
  BY <1>1
<1>3. \A i \in 1..n : SubSeq(a, 1, n)[i] = a[i]
  BY <1>1
<1>4. QED BY <1>2, <1>3 DEF IsText

\* Nothing, or a token that is no bracket, and what is left of a bracket is none at all.
IsRemnant(remnant, of) ==
    \/ remnant = <<>>
    \/ \E t : remnant = <<t>> /\ Weight(t) = 0 /\ (of.kind = "leftBrace" => t = Unlexable)

\* The first n tokens, and what is left of the next.
LEMMA CutIsTorn ==
    ASSUME NEW name, NEW w, Balanced(w), Nested(w), NEW full, full = Document(name, w),
           NEW n \in 0..(Len(full) - 1), NEW remnant, IsRemnant(remnant, full[n + 1])
    PROVE  Torn(SubSeq(full, 1, n) \o remnant, full, n)
<1> DEFINE cut == SubSeq(full, 1, n)
           ts == cut \o remnant
<1>1. /\ IsText(full) /\ Len(full) \in Nat /\ Len(full) = 2 + Len(w) /\ Len(w) \in Nat
      /\ \A i \in 1..Len(w) : full[2 + i] = w[i]
  BY DocumentText DEF Balanced
<1>2. n \in 0..Len(full) /\ n \in Nat
  BY <1>1
<1>3. IsText(cut) /\ Len(cut) = n /\ \A i \in 1..n : cut[i] = full[i]
  BY <1>1, <1>2, SubText
<1> HIDE DEF cut
<1>4. CASE remnant = <<>>
  <2>1. IsText(remnant) /\ Len(remnant) = 0
    BY <1>4, BalancedEmpty DEF Balanced
  <2>2. /\ IsText(ts) /\ Len(ts) = Len(cut) + Len(remnant)
        /\ \A i \in 1..Len(cut) : ts[i] = cut[i]
    BY <1>3, <2>1, TextConcat
  <2> HIDE DEF ts
  <2>3. Len(ts) = n /\ \A i \in 1..n : ts[i] = full[i]
    BY <1>2, <1>3, <2>1, <2>2
  <2>4. Proper(ts)
    BY <2>2, TextIsProper
  <2>5. QED BY <1>2, <2>3, <2>4 DEF Torn, ts, cut
<1>5. ASSUME NEW t, remnant = <<t>>, Weight(t) = 0,
             full[n + 1].kind = "leftBrace" => t = Unlexable
      PROVE  Torn(ts, full, n)
  <2>1. IsText(remnant) /\ Len(remnant) = 1 /\ remnant[1] = t
    BY <1>5, ShortText
  <2>2. /\ IsText(ts) /\ Len(ts) = Len(cut) + Len(remnant)
        /\ \A i \in 1..Len(cut) : ts[i] = cut[i]
        /\ \A i \in 1..Len(remnant) : ts[Len(cut) + i] = remnant[i]
    <3>1. IsText(cut) /\ IsText(remnant)
      BY <1>3, <2>1
    <3>2. /\ IsText(ts) /\ Len(ts) = Len(cut) + Len(remnant)
          /\ \A i \in 1..Len(cut) : ts[i] = cut[i]
      BY <3>1, TextConcat
    <3>3. ASSUME NEW i \in 1..Len(remnant) PROVE ts[Len(cut) + i] = remnant[i]
      BY <3>1, TextConcat
    <3>4. QED BY <3>2, <3>3
  <2> HIDE DEF ts
  <2>3. Len(ts) = n + 1 /\ \A i \in 1..n : ts[i] = full[i]
    BY <1>2, <1>3, <2>1, <2>2
  <2>4. ts[n + 1] = t
    <3>1. 1 \in 1..Len(remnant)
      BY <2>1
    <3>2. QED BY <1>3, <2>1, <2>2, <3>1
  <2>5. n = 2 => t = Unlexable
    <3>1. w[1].kind = "leftBrace" /\ 1 \in 1..Len(w) /\ 2 + 1 = 3
      BY <1>1, NestedBegins DEF Nested
    <3>2. full[3] = w[1]
      BY <1>1, <3>1
    <3>3. QED BY <1>5, <3>1, <3>2
  <2>6. Proper(ts)
    BY <2>2, TextIsProper
  <2>7. Len(ts) = n + 1 => Weight(ts[n + 1]) = 0 /\ (n = 2 => ts[3] = Unlexable)
    BY <1>5, <2>4, <2>5
  <2>8. QED BY <2>3, <2>6, <2>7 DEF Torn
<1>6. QED BY <1>4, <1>5 DEF ts, cut, IsRemnant

\* However much of a file is missing, from the last token on, ParseVariable refuses it
\* whatever variable is looked for.
THEOREM TornIsRefused ==
    ASSUME NEW name, NEW w, Balanced(w), Nested(w),
           NEW full, full = Document(name, w),
           NEW ts, NEW n, Torn(ts, full, n), NEW variable
    PROVE  ParseVariable(ts, variable) = Unlexable
<1> DEFINE l == Len(w)
<1>1. /\ l \in Nat /\ Len(full) = 2 + l
      /\ full[1] = Name(name) /\ full[2] = Symbol("equal")
      /\ \A i \in 1..l : full[2 + i] = w[i]
  BY DocumentText DEF Balanced
<1>2. PICK e : Matches(e, w) /\ \A i \in 1..(l - 1) : e[i] >= 1
  BY DEF Nested
<1>3. /\ e \in [0..l -> Int] /\ e[0] = 0
      /\ \A i \in 1..l : e[i] = e[i - 1] + Weight(w[i])
  BY <1>2 DEF Matches, Depths
<1> HIDE DEF l
<1> DEFINE k == Len(ts)
<1>4. /\ Proper(ts) /\ k \in Nat /\ n \in 0..(1 + l) /\ (k = n \/ k = n + 1)
      /\ \A i \in 1..n : ts[i] = full[i]
      /\ k = n + 1 => Weight(ts[n + 1]) = 0 /\ (n = 2 => ts[3] = Unlexable)
  <2>1. n \in 0..(Len(full) - 1) /\ (k = n \/ k = n + 1) /\ Proper(ts)
    BY DEF Torn
  <2>2. n \in 0..(1 + l)
    BY <1>1, <2>1
  <2>3. k \in Nat
    BY <2>1 DEF Proper
  <2>4. QED BY <2>1, <2>2, <2>3 DEF Torn
<1>a. k \in Nat /\ n \in Nat /\ (k = n \/ k = n + 1)
  BY <1>1, <1>4
<1> HIDE DEF k
<1> DEFINE g == [i \in 0..n |-> IF i <= 2 THEN 0 ELSE e[i - 2]]
           d == [i \in 0..k |-> g[IF i <= n THEN i ELSE n]]
<1>5. g \in [0..n -> Int]
  <2>1. ASSUME NEW i \in 0..n, ~(i <= 2) PROVE e[i - 2] \in Int
    <3>1. i - 2 \in 0..l
      BY <1>1, <1>4, <2>1
    <3>2. QED BY <1>3, <3>1
  <2>2. QED BY <2>1
<1>6. ASSUME NEW i \in 1..n
      PROVE  g[i] = g[i - 1] + Weight(full[i])
  <2>0. i \in 0..n /\ i - 1 \in 0..n
    BY <1>4
  <2>1. CASE i = 1 \/ i = 2
    <3>1. g[i] = 0 /\ g[i - 1] = 0
      BY <2>0, <2>1
    <3>2. Weight(Name(name)) = 0 /\ Weight(Symbol("equal")) = 0
      BY DEF Weight, Name, Symbol
    <3>3. QED BY <1>1, <2>1, <3>1, <3>2
  <2>2. CASE i # 1 /\ i # 2
    <3> DEFINE j == i - 2
    <3>1. j \in 1..l /\ 2 + j = i
      BY <1>1, <1>4, <2>2
    <3>2. g[i] = e[j]
      BY <2>0, <2>2
    <3>3. g[i - 1] = e[j - 1]
      <4>1. CASE i = 3
        <5>1. g[i - 1] = 0 /\ j - 1 = 0
          BY <2>0, <4>1
        <5>2. QED BY <1>3, <5>1
      <4>2. CASE i # 3
        <5>1. ~(i - 1 <= 2) /\ (i - 1) - 2 = j - 1
          BY <2>2, <4>2
        <5>2. QED BY <2>0, <5>1
      <4>3. QED BY <4>1, <4>2
    <3> HIDE DEF j
    <3>4. e[j] = e[j - 1] + Weight(w[j]) /\ full[i] = w[j]
      BY <1>1, <1>3, <3>1
    <3>5. QED BY <3>2, <3>3, <3>4
  <2>3. QED BY <2>1, <2>2
<1>7. ASSUME NEW i \in 3..n PROVE g[i] >= 1
  <2>1. i \in 0..n /\ i - 2 \in 1..(l - 1)
    BY <1>1, <1>4
  <2>2. g[i] = e[i - 2]
    BY <2>1
  <2>3. QED BY <1>2, <2>1, <2>2
<1>8. n >= 2 => g[2] = 0
  BY <1>4
<1> HIDE DEF g
<1>9. \A i \in 0..n : d[i] = g[i]
  BY <1>4
<1>10. k = n + 1 => d[k] = g[n]
  BY <1>4
<1>11. d \in [0..k -> Int]
  <2>1. \A i \in 0..k : (IF i <= n THEN i ELSE n) \in 0..n
    BY <1>4
  <2>2. QED BY <1>5, <2>1
<1> HIDE DEF d
<1>12. ASSUME NEW i \in 1..k PROVE d[i] = d[i - 1] + Weight(ts[i])
  <2>1. CASE i \in 1..n
    <3>1. i \in 0..n /\ i - 1 \in 0..n
      BY <1>4, <2>1
    <3>2. QED BY <1>4, <1>6, <1>9, <2>1, <3>1
  <2>2. CASE i \notin 1..n
    <3>1. i = n + 1 /\ k = n + 1 /\ i - 1 = n /\ n \in 0..n
      BY <1>a, <2>2
    <3>2. d[i] = g[n] /\ d[i - 1] = g[n] /\ Weight(ts[i]) = 0 /\ g[n] \in Int
      BY <1>4, <1>5, <1>9, <1>10, <3>1
    <3>3. QED BY <3>2
  <2>3. QED BY <2>1, <2>2
<1>13. Depths(d, ts)
  BY <1>11, <1>12 DEF Depths, k
<1>14. k >= 3 => ts[3] = Unlexable \/ (d[2] = 0 /\ \A i \in 3..k : d[i] > 0)
  <2> SUFFICES ASSUME k >= 3, ts[3] # Unlexable
               PROVE  d[2] = 0 /\ \A i \in 3..k : d[i] > 0
    OBVIOUS
  <2>1. n >= 3
    BY <1>4
  <2>2. 2 \in 0..n
    BY <1>4, <2>1
  <2>3. d[2] = 0
    BY <1>8, <1>9, <2>1, <2>2
  <2>4. ASSUME NEW i \in 3..k PROVE d[i] > 0
    <3>1. CASE i <= n
      <4>1. i \in 0..n /\ i \in 3..n
        BY <1>4, <3>1
      <4>2. d[i] = g[i] /\ g[i] >= 1 /\ g[i] \in Int
        BY <1>5, <1>7, <1>9, <4>1
      <4>3. QED BY <4>2
    <3>2. CASE ~(i <= n)
      <4>1. i = k /\ k = n + 1 /\ n \in 3..n /\ n \in 0..n
        BY <1>4, <2>1, <3>2
      <4>2. d[i] = g[n] /\ g[n] >= 1 /\ g[n] \in Int
        BY <1>5, <1>7, <1>10, <4>1
      <4>3. QED BY <4>2
    <3>3. QED BY <3>1, <3>2
  <2>5. QED BY <2>3, <2>4
<1>15. QED BY <1>4, <1>13, <1>14, UnclosedIsRefused DEF k

=============================================================================
