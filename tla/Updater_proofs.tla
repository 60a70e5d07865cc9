---------------------------- MODULE Updater_proofs ----------------------------
(***************************************************************************)
(* Proofs about UpdateFeed and Updater, for all releases, versions, feeds, *)
(* numbers of checks, changes and failures.                                *)
(***************************************************************************)
EXTENDS Updater, SequenceTheorems, NumberInduction

-----------------------------------------------------------------------------
(* Compare and the precedence of semantic versions                         *)

\* A version as ParseVersion returns it, with numbers that fit into 64 bits, which
\* it does not demand of the identifiers of a pre-release.
Fitting(v) ==
    /\ v \in Version /\ Len(v.core) = 3
    /\ \A i \in 1..Len(v.prerelease) :
        v.prerelease[i].numeric => v.prerelease[i].value <= MaxUint

Places == Nat \X Nat

\* How two places compare.
PlaceOrder(a, b) == IF Higher(a, b) THEN 1 ELSE IF Higher(b, a) THEN -1 ELSE 0

IdentifierPlace(identifier) == <<IF identifier.numeric THEN 1 ELSE 2, identifier.value>>

\* Of two places one is higher, or they are the same.
LEMMA PlaceOrderFacts ==
    ASSUME NEW a \in Places, NEW b \in Places
    PROVE  /\ PlaceOrder(a, b) \in {-1, 0, 1}
           /\ PlaceOrder(a, b) = 0 <=> a = b
           /\ PlaceOrder(a, b) = 1 <=> Higher(a, b)
           /\ PlaceOrder(a, b) = -1 <=> Higher(b, a)
           /\ ~(Higher(a, b) /\ Higher(b, a))
BY DEF Places, PlaceOrder, Higher

\* The parts of a sequence that is put together from two.
LEMMA Concatenated ==
    ASSUME NEW S, NEW a \in Seq(S), NEW b \in Seq(S)
    PROVE  /\ a \o b \in Seq(S) /\ Len(a \o b) = Len(a) + Len(b)
           /\ \A i \in 1..Len(a) : (a \o b)[i] = a[i]
           /\ \A i \in 1..Len(b) : (a \o b)[Len(a) + i] = b[i]
<1> DEFINE c == a \o b
           k == Len(a)
           n == Len(b)
<1>1. /\ c \in Seq(S) /\ Len(c) = k + n /\ k \in Nat /\ n \in Nat
      /\ \A i \in 1..(k + n) : c[i] = IF i <= k THEN a[i] ELSE b[i - k]
  BY ConcatProperties
<1> HIDE DEF c, k, n
<1>2. ASSUME NEW i \in 1..n PROVE c[k + i] = b[i]
  <2>1. k + i \in 1..(k + n) /\ ~(k + i <= k) /\ (k + i) - k = i
    BY <1>1
  <2>2. QED BY <1>1, <2>1
<1>3. \A i \in 1..k : c[i] = a[i]
  BY <1>1
<1>4. QED BY <1>1, <1>2, <1>3 DEF c, k, n

\* The places of a precedence: three numbers, the identifiers and an end.
LEMMA PrecedencePlaces ==
    ASSUME NEW v \in Version, Len(v.core) = 3, NEW p, p = Precedence(v)
    PROVE  /\ Len(v.prerelease) \in Nat /\ DOMAIN p = 1..(4 + Len(v.prerelease))
           /\ \A i \in DOMAIN p : p[i] \in Places
           /\ \A i \in 1..3 : p[i] = <<0, v.core[i]>> /\ v.core[i] \in Nat
           /\ \A i \in 1..Len(v.prerelease) : p[3 + i] = IdentifierPlace(v.prerelease[i])
           /\ p[4 + Len(v.prerelease)] = IF v.prerelease = <<>> THEN <<3, 0>> ELSE <<0, 0>>
<1> DEFINE w == v.prerelease
           n == Len(w)
           a == [i \in 1..3 |-> <<0, v.core[i]>>]
           b == [i \in DOMAIN w |-> <<IF w[i].numeric THEN 1 ELSE 2, w[i].value>>]
           z == IF w = <<>> THEN <<3, 0>> ELSE <<0, 0>>
<1>1. v.core \in Seq(Nat) /\ w \in Seq(Identifier) /\ n \in Nat /\ DOMAIN w = 1..n
  BY DEF Version
<1>2. \A i \in 1..3 : v.core[i] \in Nat
  BY <1>1
<1>3. a \in Seq(Places) /\ Len(a) = 3 /\ \A i \in 1..3 : a[i] = <<0, v.core[i]>>
  BY <1>2 DEF Places
<1>4. \A i \in 1..n : w[i] \in Identifier
  BY <1>1
<1>5. /\ b \in Seq(Places) /\ Len(b) = n
      /\ \A i \in 1..n : b[i] = IdentifierPlace(w[i])
  <2>1. \A i \in 1..n : b[i] = IdentifierPlace(w[i])
    BY <1>1 DEF IdentifierPlace
  <2>2. \A i \in 1..n : IdentifierPlace(w[i]) \in Places
    BY <1>4 DEF Identifier, IdentifierPlace, Places
  <2>3. b = [i \in 1..n |-> b[i]]
    BY <1>1
  <2> HIDE DEF b, n
  <2>4. QED BY <1>1, <2>1, <2>2, <2>3
<1>6. z \in Places
  BY DEF Places
<1>7. p = (a \o b) \o <<z>>
  BY DEF Precedence
<1> HIDE DEF a, b, z, n, w
<1>8. /\ DOMAIN p = 1..(4 + n) /\ p \in Seq(Places)
      /\ \A i \in 1..3 : p[i] = a[i]
      /\ \A i \in 1..n : p[3 + i] = b[i]
      /\ p[4 + n] = z
  <2>1. /\ a \o b \in Seq(Places) /\ Len(a \o b) = 3 + n
        /\ \A i \in 1..3 : (a \o b)[i] = a[i]
        /\ \A i \in 1..n : (a \o b)[3 + i] = b[i]
    <3>1. /\ a \o b \in Seq(Places) /\ Len(a \o b) = Len(a) + Len(b)
          /\ \A i \in 1..Len(a) : (a \o b)[i] = a[i]
          /\ \A i \in 1..Len(b) : (a \o b)[Len(a) + i] = b[i]
      <4>1. a \in Seq(Places) /\ b \in Seq(Places)
        BY <1>3, <1>5
      <4>2. QED BY <4>1, Concatenated, SMT
    <3>2. QED BY <1>1, <1>3, <1>5, <3>1
  <2> DEFINE ab == a \o b
  <2> HIDE DEF ab
  <2>2. /\ p = ab \o <<z>> /\ ab \in Seq(Places) /\ Len(ab) = 3 + n
        /\ \A i \in 1..3 : ab[i] = a[i]
        /\ \A i \in 1..n : ab[3 + i] = b[i]
    BY <1>7, <2>1 DEF ab
  <2>3. p \in Seq(Places) /\ Len(p) = 4 + n
    BY <1>1, <1>6, <2>2
  <2>4. \A i \in 1..(3 + n) : p[i] = ab[i]
    BY <1>1, <1>6, <2>2
  <2>5. p[4 + n] = z
    BY <1>1, <1>6, <2>2
  <2>6. ASSUME NEW i \in 1..n PROVE p[3 + i] = b[i]
    <3>1. 3 + i \in 1..(3 + n)
      BY <1>1
    <3>2. QED BY <2>2, <2>4, <3>1
  <2>7. \A i \in 1..3 : p[i] = a[i]
    <3>1. \A i \in 1..3 : i \in 1..(3 + n)
      BY <1>1
    <3>2. QED BY <2>2, <2>4, <3>1
  <2>8. QED BY <1>1, <2>3, <2>5, <2>6, <2>7
<1>9. /\ \A i \in DOMAIN p : p[i] \in Places
      /\ \A i \in 1..3 : p[i] = <<0, v.core[i]>> /\ v.core[i] \in Nat
      /\ \A i \in 1..n : p[3 + i] = IdentifierPlace(w[i])
  BY <1>2, <1>3, <1>5, <1>8, SMTT(30)
<1>10. p[4 + n] = IF w = <<>> THEN <<3, 0>> ELSE <<0, 0>>
  BY <1>8 DEF z
<1>11. QED BY <1>1, <1>8, <1>9, <1>10, Zenon DEF w, n

\* The comparisons of Compare, in their order.
Final(v, w) == IF v = <<>> /\ w # <<>> THEN 1 ELSE IF v # <<>> /\ w = <<>> THEN -1 ELSE 0

\* The comparisons of Compare are those of the places of both precedences, in order.
LEMMA Comparisons ==
    ASSUME NEW v \in Version, NEW w \in Version, Len(v.core) = 3, Len(w.core) = 3,
           \A i \in 1..Len(v.prerelease), j \in 1..Len(w.prerelease) :
                CompareIdentifier(v.prerelease[i], w.prerelease[j]) \in Int
    PROVE  LET x == v.prerelease  y == w.prerelease
               m == IF Len(x) <= Len(y) THEN Len(x) ELSE Len(y)
           IN  \E c \in Seq(Int) :
                 /\ Compare(v, w) = Decides(c) /\ Len(c) = 5 + m
                 /\ \A i \in 1..3 : c[i] = Sign(v.core[i], w.core[i])
                 /\ c[4] = Final(x, y)
                 /\ \A i \in 1..m : c[4 + i] = CompareIdentifier(x[i], y[i])
                 /\ c[5 + m] = Sign(Len(x), Len(y))
<1> DEFINE x == v.prerelease
           y == w.prerelease
           m == IF Len(x) <= Len(y) THEN Len(x) ELSE Len(y)
           a == [i \in 1..3 |-> Sign(v.core[i], w.core[i])]
           b == [i \in 1..m |-> CompareIdentifier(x[i], y[i])]
           f == Final(x, y)
           s == Sign(Len(x), Len(y))
<1>1. /\ v.core \in Seq(Nat) /\ w.core \in Seq(Nat)
      /\ x \in Seq(Identifier) /\ y \in Seq(Identifier)
      /\ Len(x) \in Nat /\ Len(y) \in Nat /\ m \in Nat
  BY DEF Version
<1>2. Min({Len(x), Len(y)}) = m
  <2> DEFINE k == Len(x)
             l == Len(y)
  <2>1. k \in Nat /\ l \in Nat
    BY <1>1
  <2> HIDE DEF k, l
  <2>2. \E i \in {k, l} : \A j \in {k, l} : i <= j
    BY <2>1
  <2>3. Min({k, l}) \in {k, l} /\ Min({k, l}) <= k /\ Min({k, l}) <= l
    BY <2>2 DEF Min
  <2>4. Min({k, l}) = IF k <= l THEN k ELSE l
    BY <2>1, <2>3
  <2>5. QED BY <2>4 DEF k, l
<1>3. a \in Seq(Int) /\ Len(a) = 3 /\ \A i \in 1..3 : a[i] = Sign(v.core[i], w.core[i])
  <2>1. \A i \in 1..3 : v.core[i] \in Nat /\ w.core[i] \in Nat
    BY <1>1
  <2>2. \A i \in 1..3 : Sign(v.core[i], w.core[i]) \in Int
    BY <2>1 DEF Sign
  <2>3. QED BY <2>2
<1>4. f \in Int /\ s \in Int
  BY <1>1 DEF Final, Sign
<1>5. b \in Seq(Int) /\ Len(b) = m /\ \A i \in 1..m : b[i] = CompareIdentifier(x[i], y[i])
  <2>1. \A i \in 1..m : i \in 1..Len(x) /\ i \in 1..Len(y)
    BY <1>1
  <2>2. \A i \in 1..m : CompareIdentifier(x[i], y[i]) \in Int
    BY <2>1
  <2> HIDE DEF m, x, y
  <2>3. QED BY <1>1, <2>2
<1> DEFINE c == a \o <<f>> \o b \o <<s>>
<1>6. Compare(v, w) = Decides(c)
  BY <1>2, Zenon DEF Compare, Final
<1> HIDE DEF a, b, f, s, m, x, y
<1>7. /\ c \in Seq(Int) /\ Len(c) = 5 + m
      /\ \A i \in 1..3 : c[i] = a[i]
      /\ c[4] = f
      /\ \A i \in 1..m : c[4 + i] = b[i]
      /\ c[5 + m] = s
  <2> DEFINE d == a \o <<f>>
             e == d \o b
  <2>1. d \in Seq(Int) /\ Len(d) = 4 /\ d[4] = f /\ \A i \in 1..3 : d[i] = a[i]
    <3>1. <<f>> \in Seq(Int) /\ Len(<<f>>) = 1 /\ <<f>>[1] = f
      BY <1>4
    <3>2. /\ d \in Seq(Int) /\ Len(d) = 3 + 1
          /\ \A i \in 1..3 : d[i] = a[i]
          /\ \A i \in 1..1 : d[3 + i] = <<f>>[i]
      <4> DEFINE g == <<f>>
      <4>1. g \in Seq(Int) /\ Len(g) = 1
        BY <3>1
      <4> HIDE DEF g, d
      <4>2. /\ a \o g \in Seq(Int) /\ Len(a \o g) = Len(a) + Len(g)
            /\ \A i \in 1..Len(a) : (a \o g)[i] = a[i]
            /\ \A i \in 1..Len(g) : (a \o g)[Len(a) + i] = g[i]
        <5>1. a \in Seq(Int) /\ g \in Seq(Int)
          BY <1>3, <4>1
        <5>2. QED BY <5>1, Concatenated, SMT
      <4>3. d = a \o g
        BY DEF d, g
      <4>4. QED BY <1>3, <4>1, <4>2, <4>3 DEF g
    <3> HIDE DEF d
    <3>3. QED BY <3>1, <3>2
  <2> HIDE DEF d
  <2>2. /\ e \in Seq(Int) /\ Len(e) = 4 + m
        /\ \A i \in 1..4 : e[i] = d[i]
        /\ \A i \in 1..m : e[4 + i] = b[i]
    <3>1. /\ d \o b \in Seq(Int) /\ Len(d \o b) = Len(d) + Len(b)
          /\ \A i \in 1..Len(d) : (d \o b)[i] = d[i]
          /\ \A i \in 1..Len(b) : (d \o b)[Len(d) + i] = b[i]
      <4>1. d \in Seq(Int) /\ b \in Seq(Int)
        BY <1>5, <2>1
      <4>2. QED BY <4>1, Concatenated, SMT
    <3>2. QED BY <1>1, <1>5, <2>1, <3>1
  <2>3. c = e \o <<s>>
    BY DEF d
  <2> HIDE DEF e, c
  <2>4. c \in Seq(Int) /\ Len(c) = 5 + m
    BY <1>1, <1>4, <2>2, <2>3
  <2>5. \A i \in 1..(4 + m) : c[i] = e[i]
    BY <1>1, <1>4, <2>2, <2>3
  <2>6. c[5 + m] = s
    BY <1>1, <1>4, <2>2, <2>3
  <2>7. ASSUME NEW i \in 1..m PROVE c[4 + i] = b[i]
    <3>1. 4 + i \in 1..(4 + m)
      BY <1>1
    <3>2. QED BY <2>2, <2>5, <3>1
  <2>8. \A i \in 1..4 : c[i] = d[i]
    <3>1. \A i \in 1..4 : i \in 1..(4 + m)
      BY <1>1
    <3>2. QED BY <2>2, <2>5, <3>1
  <2>9. QED BY <2>1, <2>4, <2>6, <2>7, <2>8
<1> HIDE DEF c
<1>8. QED BY <1>3, <1>5, <1>6, <1>7, ZenonT(30) DEF f, s, m, x, y

\* The first comparison that decides is the place where the precedences differ.
LEMMA Decision ==
    ASSUME NEW c \in Seq(Int)
    PROVE  \/ Decides(c) = 0 /\ \A i \in 1..Len(c) : c[i] = 0
           \/ \E i \in 1..Len(c) :
                /\ c[i] # 0 /\ Decides(c) = c[i]
                /\ \A j \in 1..(i - 1) : c[j] = 0
<1> DEFINE I == {i \in 1..Len(c) : c[i] # 0}
           first == IF I # {} THEN Min(I) ELSE 0
<1>1. Decides(c) = IF first = 0 THEN 0 ELSE c[first]
  BY DEF Decides, SelectInSeq
<1>2. CASE I = {}
  BY <1>1, <1>2
<1>3. CASE I # {}
  <2>1. I \subseteq Nat /\ I \subseteq 1..Len(c)
    OBVIOUS
  <2> HIDE DEF I
  <2>2. \E i \in I : \A j \in I : i <= j
    BY <1>3, <2>1, LeastNumber
  <2>3. Min(I) \in I /\ \A j \in I : Min(I) <= j
    BY <2>2, Zenon DEF Min
  <2> DEFINE k == Min(I)
  <2>4. k \in 1..Len(c) /\ c[k] # 0 /\ first = k
    BY <1>3, <2>3, <2>1 DEF I
  <2>5. \A j \in 1..(k - 1) : c[j] = 0
    <3>1. \A j \in I : k <= j
      BY <2>3
    <3> HIDE DEF k, first
    <3>2. QED BY <2>4, <3>1 DEF I
  <2> HIDE DEF k, first
  <2>6. Decides(c) = c[k]
    BY <1>1, <2>4
  <2>7. QED BY <2>4, <2>5, <2>6
<1>4. QED BY <1>2, <1>3

\* Identifiers compare as their places do.
LEMMA IdentifierOrder ==
    ASSUME NEW left \in Identifier, NEW right \in Identifier,
           left.numeric => left.value <= MaxUint, right.numeric => right.value <= MaxUint
    PROVE  /\ CompareIdentifier(left, right)
                = PlaceOrder(IdentifierPlace(left), IdentifierPlace(right))
           /\ CompareIdentifier(left, right) \in Int
<1>a. left.value \in Nat /\ right.value \in Nat /\ left.numeric \in BOOLEAN /\ right.numeric \in BOOLEAN
      /\ MaxUint \in Nat
  BY FeedAssumption DEF Identifier
<1>b. left = right <=> left.numeric = right.numeric /\ left.value = right.value
  BY DEF Identifier
<1>c. ASSUME NEW identifier \in Identifier, identifier.value <= MaxUint
      PROVE  Parsed(identifier) = identifier.value
  <2> DEFINE n == identifier.value
  <2>1. n \in Nat /\ n <= MaxUint
    BY <1>c DEF Identifier
  <2> HIDE DEF n
  <2>2. Min({n, MaxUint}) = n
    <3>1. \E i \in {n, MaxUint} : \A j \in {n, MaxUint} : i <= j
      BY <1>a, <2>1
    <3>2. Min({n, MaxUint}) \in {n, MaxUint} /\ Min({n, MaxUint}) <= n
      BY <3>1 DEF Min
    <3>3. QED BY <1>a, <2>1, <3>2
  <2>3. QED BY <2>2 DEF n, Parsed
<1>1. CASE left = right
  <2>1. CompareIdentifier(left, right) = 0
    BY <1>1, Zenon DEF CompareIdentifier
  <2>2. QED BY <1>1, <1>a, <2>1 DEF PlaceOrder, Higher, IdentifierPlace
<1>2. CASE left # right /\ left.numeric /\ right.numeric
  <2>1. CompareIdentifier(left, right) = IF Parsed(left) < Parsed(right) THEN -1 ELSE 1
    BY <1>2, Zenon DEF CompareIdentifier
  <2>2. Parsed(left) = left.value /\ Parsed(right) = right.value
    BY <1>c, <1>2
  <2>3. left.value # right.value
    BY <1>2, <1>b, <1>a
  <2>4. QED BY <1>2, <1>a, <2>1, <2>2, <2>3 DEF PlaceOrder, Higher, IdentifierPlace
<1>3. CASE left # right /\ left.numeric /\ ~right.numeric
  <2>1. CompareIdentifier(left, right) = -1
    BY <1>3, Zenon DEF CompareIdentifier
  <2>2. QED BY <1>3, <1>a, <2>1 DEF PlaceOrder, Higher, IdentifierPlace
<1>4. CASE left # right /\ ~left.numeric /\ right.numeric
  <2>1. CompareIdentifier(left, right) = 1
    BY <1>4, Zenon DEF CompareIdentifier
  <2>2. QED BY <1>4, <1>a, <2>1 DEF PlaceOrder, Higher, IdentifierPlace
<1>5. CASE left # right /\ ~left.numeric /\ ~right.numeric
  <2>1. CompareIdentifier(left, right) = Sign(left.value, right.value)
    BY <1>5, Zenon DEF CompareIdentifier
  <2>2. QED BY <1>5, <1>a, <2>1 DEF PlaceOrder, Higher, IdentifierPlace, Sign
<1>6. QED BY <1>1, <1>2, <1>3, <1>4, <1>5

\* The order of versions is strict.
LEMMA NewerIsStrict ==
    ASSUME NEW v \in Version, NEW w \in Version, Len(v.core) = 3, Len(w.core) = 3
    PROVE  ~(Newer(v, w) /\ Newer(w, v))
<1> DEFINE p == Precedence(v)
           q == Precedence(w)
<1>1. /\ \E n \in Nat : DOMAIN p = 1..n
      /\ \E n \in Nat : DOMAIN q = 1..n
      /\ \A i \in DOMAIN p \cap DOMAIN q : p[i] \in Places /\ q[i] \in Places
  <2>1. /\ Len(v.prerelease) \in Nat /\ DOMAIN p = 1..(4 + Len(v.prerelease))
        /\ \A i \in DOMAIN p : p[i] \in Places
    BY PrecedencePlaces
  <2>2. /\ Len(w.prerelease) \in Nat /\ DOMAIN q = 1..(4 + Len(w.prerelease))
        /\ \A i \in DOMAIN q : q[i] \in Places
    BY PrecedencePlaces
  <2> HIDE DEF p, q
  <2>3. QED BY <2>1, <2>2
<1>2. SUFFICES ASSUME Newer(v, w), Newer(w, v) PROVE FALSE
  OBVIOUS
<1>3. /\ \E i \in DOMAIN p \cap DOMAIN q :
            Higher(p[i], q[i]) /\ \A j \in 1..(i - 1) : p[j] = q[j]
      /\ \E i \in DOMAIN p \cap DOMAIN q :
            Higher(q[i], p[i]) /\ \A j \in 1..(i - 1) : p[j] = q[j]
  BY <1>2, Zenon DEF Newer
<1> HIDE DEF p, q
<1>4. PICK i \in DOMAIN p \cap DOMAIN q :
            Higher(p[i], q[i]) /\ \A j \in 1..(i - 1) : p[j] = q[j]
  BY <1>3
<1>5. PICK k \in DOMAIN p \cap DOMAIN q :
            Higher(q[k], p[k]) /\ \A j \in 1..(k - 1) : p[j] = q[j]
  BY <1>3
<1>6. \A j \in DOMAIN p \cap DOMAIN q : ~(Higher(p[j], q[j]) /\ Higher(q[j], p[j]))
  BY <1>1, PlaceOrderFacts
<1>7. \A j \in DOMAIN p \cap DOMAIN q : p[j] = q[j] => ~Higher(p[j], q[j]) /\ ~Higher(q[j], p[j])
  BY <1>6
<1>8. QED BY <1>1, <1>4, <1>5, <1>6, <1>7

\* Compare is the order of semantic versions, for numbers that fit.
THEOREM ComparisonIsPrecedence ==
    ASSUME NEW v, NEW w, Fitting(v), Fitting(w)
    PROVE  Compare(v, w) = Order(v, w)
<1> DEFINE x == v.prerelease
           y == w.prerelease
           k == Len(x)
           l == Len(y)
           m == IF k <= l THEN k ELSE l
           p == Precedence(v)
           q == Precedence(w)
           d == [i \in 1..(4 + m) |-> PlaceOrder(p[i], q[i])]
<1>a. v \in Version /\ w \in Version /\ Len(v.core) = 3 /\ Len(w.core) = 3
  BY DEF Fitting
<1>b. /\ k \in Nat /\ l \in Nat /\ x \in Seq(Identifier) /\ y \in Seq(Identifier)
      /\ DOMAIN p = 1..(4 + k) /\ DOMAIN q = 1..(4 + l)
      /\ \A i \in 1..3 : p[i] = <<0, v.core[i]>> /\ v.core[i] \in Nat
      /\ \A i \in 1..3 : q[i] = <<0, w.core[i]>> /\ w.core[i] \in Nat
  BY <1>a, PrecedencePlaces DEF Version
<1>c. /\ \A i \in DOMAIN p : p[i] \in Places
      /\ \A i \in DOMAIN q : q[i] \in Places
  BY <1>a, PrecedencePlaces
<1>d. /\ \A i \in 1..k : p[3 + i] = IdentifierPlace(x[i])
      /\ \A i \in 1..l : q[3 + i] = IdentifierPlace(y[i])
      /\ p[4 + k] = IF x = <<>> THEN <<3, 0>> ELSE <<0, 0>>
      /\ q[4 + l] = IF y = <<>> THEN <<3, 0>> ELSE <<0, 0>>
  BY <1>a, PrecedencePlaces
<1>e. \A i \in 1..k, j \in 1..l :
        /\ CompareIdentifier(x[i], y[j]) = PlaceOrder(IdentifierPlace(x[i]), IdentifierPlace(y[j]))
        /\ CompareIdentifier(x[i], y[j]) \in Int
  <2> SUFFICES ASSUME NEW i \in 1..k, NEW j \in 1..l
               PROVE  /\ CompareIdentifier(x[i], y[j])
                            = PlaceOrder(IdentifierPlace(x[i]), IdentifierPlace(y[j]))
                      /\ CompareIdentifier(x[i], y[j]) \in Int
    OBVIOUS
  <2>1. x[i] \in Identifier /\ y[j] \in Identifier
    BY <1>b
  <2>2. (x[i].numeric => x[i].value <= MaxUint) /\ (y[j].numeric => y[j].value <= MaxUint)
    BY DEF Fitting
  <2> HIDE DEF x, y
  <2>3. QED BY <2>1, <2>2, IdentifierOrder
<1>f. PICK c \in Seq(Int) :
        /\ Compare(v, w) = Decides(c) /\ Len(c) = 5 + m
        /\ \A i \in 1..3 : c[i] = Sign(v.core[i], w.core[i])
        /\ c[4] = Final(x, y)
        /\ \A i \in 1..m : c[4 + i] = CompareIdentifier(x[i], y[i])
        /\ c[5 + m] = Sign(k, l)
  BY <1>a, <1>e, Comparisons
<1>g. (x = <<>> <=> k = 0) /\ (y = <<>> <=> l = 0)
  BY <1>b
<1> HIDE DEF x, y, k, l, p, q
<1>h. m \in Nat /\ m <= k /\ m <= l /\ (m = k \/ m = l)
  BY <1>b
<1> HIDE DEF m
\* d[i] says how the versions compare at place i.
<1>1. ASSUME NEW i \in 1..(4 + m)
      PROVE  /\ d[i] \in {-1, 0, 1} /\ (d[i] = 0 <=> p[i] = q[i])
             /\ (d[i] = 1 <=> Higher(p[i], q[i])) /\ (d[i] = -1 <=> Higher(q[i], p[i]))
             /\ i \in DOMAIN p \cap DOMAIN q
  <2>1. i \in 1..(4 + k) /\ i \in 1..(4 + l) /\ d[i] = PlaceOrder(p[i], q[i])
    BY <1>b, <1>h
  <2>2. i \in DOMAIN p /\ i \in DOMAIN q
    BY <1>b, <2>1
  <2>3. p[i] \in Places /\ q[i] \in Places
    BY <1>c, <2>2
  <2> HIDE DEF d
  <2>4. QED BY <2>1, <2>2, <2>3, PlaceOrderFacts
<1>2. \A i \in DOMAIN p \cap DOMAIN q : i \in 1..(4 + m)
  BY <1>b, <1>h
\* And so do the comparisons.
<1>3. ASSUME NEW i \in 1..3 PROVE c[i] = d[i]
  <2>1. /\ p[i] = <<0, v.core[i]>> /\ v.core[i] \in Nat
        /\ q[i] = <<0, w.core[i]>> /\ w.core[i] \in Nat
    BY <1>b
  <2>2. d[i] = PlaceOrder(p[i], q[i]) /\ c[i] = Sign(v.core[i], w.core[i])
    BY <1>f, <1>h
  <2>3. QED BY <2>1, <2>2 DEF PlaceOrder, Higher, Sign
<1>4. ASSUME NEW i \in 1..m PROVE c[4 + i] = d[3 + i]
  <2>1. i \in 1..k /\ i \in 1..l /\ 3 + i \in 1..(4 + m)
    BY <1>h, <1>b
  <2>2. d[3 + i] = PlaceOrder(p[3 + i], q[3 + i])
    BY <2>1
  <2>3. QED BY <1>d, <1>e, <1>f, <2>1, <2>2
<1>i. \A i \in 1..k : p[3 + i][1] \in {1, 2}
  BY <1>d DEF IdentifierPlace
<1>j. \A i \in 1..l : q[3 + i][1] \in {1, 2}
  BY <1>d DEF IdentifierPlace
<1>k. /\ k > m => p[4 + m][1] \in {1, 2}
      /\ l > m => q[4 + m][1] \in {1, 2}
  <2>1. 4 + m = 3 + (m + 1)
    BY <1>h
  <2>2. k > m => m + 1 \in 1..k
    BY <1>h, <1>b
  <2>3. l > m => m + 1 \in 1..l
    BY <1>h, <1>b
  <2>4. QED BY <1>i, <1>j, <2>1, <2>2, <2>3
<1>l. d[4 + m] = PlaceOrder(p[4 + m], q[4 + m])
  BY <1>h
<1>5. c[4] # 0 => m = 0 /\ c[4] = d[4]
  <2>1. c[4] # 0 => \/ c[4] = 1 /\ k = 0 /\ l > 0 /\ m = 0
                    \/ c[4] = -1 /\ l = 0 /\ k > 0 /\ m = 0
    <3>1. c[4] = IF k = 0 /\ ~(l = 0) THEN 1 ELSE IF ~(k = 0) /\ l = 0 THEN -1 ELSE 0
      BY <1>f, <1>g DEF Final
    <3>2. k \in Nat /\ l \in Nat /\ m <= k /\ m <= l /\ m \in Nat
      BY <1>b, <1>h
    <3>3. QED BY <3>1, <3>2
  <2>2. k = 0 => p[4] = <<3, 0>>
    BY <1>d, <1>g
  <2>3. l = 0 => q[4] = <<3, 0>>
    BY <1>d, <1>g
  <2>4. m = 0 => 4 + m = 4
    OBVIOUS
  <2>5. QED BY <1>k, <1>l, <2>1, <2>2, <2>3, <2>4, SMTT(30) DEF PlaceOrder, Higher
<1>6. c[4] = 0 => c[5 + m] = d[4 + m]
  <2> SUFFICES ASSUME c[4] = 0 PROVE Sign(k, l) = d[4 + m]
    BY <1>f
  <2>1. k = 0 <=> l = 0
    BY <1>f, <1>g DEF Final
  <2>2. CASE k = l
    <3>1. p[4 + m] = q[4 + m] /\ p[4 + m] \in Places
      BY <1>b, <1>c, <1>d, <1>g, <1>h, <2>1, <2>2
    <3>2. QED BY <1>b, <1>l, <2>2, <3>1, PlaceOrderFacts DEF Sign
  <2>3. CASE k < l
    <3>1. m = k /\ p[4 + m] = <<0, 0>> /\ q[4 + m][1] \in {1, 2} /\ Sign(k, l) = -1
      <4>1. m = k /\ l > m /\ k # 0 /\ Sign(k, l) = -1
        BY <1>b, <1>h, <2>1, <2>3 DEF Sign
      <4>2. QED BY <1>d, <1>g, <1>k, <4>1
    <3>2. QED BY <1>l, <3>1 DEF PlaceOrder, Higher
  <2>4. CASE k > l
    <3>1. m = l /\ q[4 + m] = <<0, 0>> /\ p[4 + m][1] \in {1, 2} /\ Sign(k, l) = 1
      <4>1. m = l /\ k > m /\ l # 0 /\ Sign(k, l) = 1
        BY <1>b, <1>h, <2>1, <2>4 DEF Sign
      <4>2. QED BY <1>d, <1>g, <1>k, <4>1
    <3>2. QED BY <1>l, <3>1 DEF PlaceOrder, Higher
  <2>5. k = l \/ k < l \/ k > l
    BY <1>b
  <2>6. QED BY <2>2, <2>3, <2>4, <2>5
<1> HIDE DEF d
\* The first place that decides.
<1>7. \/ Compare(v, w) = 0 /\ \A i \in 1..(4 + m) : d[i] = 0
      \/ \E n \in 1..(4 + m) : /\ d[n] # 0 /\ Compare(v, w) = d[n]
                               /\ \A j \in 1..(n - 1) : d[j] = 0
  <2>1. CASE Decides(c) = 0 /\ \A i \in 1..Len(c) : c[i] = 0
    <3>1. \A i \in 1..(5 + m) : c[i] = 0
      BY <1>f, <2>1
    <3>2. \A i \in 1..(4 + m) : d[i] = 0
      <4> SUFFICES ASSUME NEW i \in 1..(4 + m) PROVE d[i] = 0
        OBVIOUS
      <4>1. CASE i \in 1..3
        BY <1>3, <1>h, <3>1, <4>1
      <4>2. CASE i \in 4..(3 + m)
        <5>1. i - 3 \in 1..m /\ 4 + (i - 3) \in 1..(5 + m) /\ 3 + (i - 3) = i
          BY <1>h, <4>2
        <5>2. QED BY <1>4, <3>1, <5>1
      <4>3. CASE i = 4 + m
        <5>1. 4 \in 1..(5 + m) /\ 5 + m \in 1..(5 + m)
          BY <1>h
        <5>2. QED BY <1>6, <3>1, <4>3, <5>1
      <4>4. QED BY <1>h, <4>1, <4>2, <4>3
    <3>3. QED BY <1>f, <2>1, <3>2
  <2>2. ASSUME NEW i \in 1..(5 + m), c[i] # 0, Decides(c) = c[i],
               \A j \in 1..(i - 1) : c[j] = 0
        PROVE  \E n \in 1..(4 + m) : /\ d[n] # 0 /\ Compare(v, w) = d[n]
                                     /\ \A j \in 1..(n - 1) : d[j] = 0
    <3>1. CASE i \in 1..3
      <4>1. d[i] = c[i] /\ i \in 1..(4 + m)
        BY <1>3, <1>h, <3>1
      <4>2. \A j \in 1..(i - 1) : d[j] = 0
        BY <1>3, <2>2, <3>1
      <4>3. QED BY <1>f, <2>2, <4>1, <4>2
    <3>2. CASE i = 4
      <4>1. m = 0 /\ d[4] = c[4] /\ 4 \in 1..(4 + m)
        BY <1>5, <1>h, <2>2, <3>2
      <4>2. \A j \in 1..3 : d[j] = 0
        BY <1>3, <2>2, <3>2
      <4>3. QED BY <1>f, <2>2, <3>2, <4>1, <4>2
    <3>3. CASE i \in 5..(5 + m)
      <4>1. i - 1 \in 1..(4 + m) /\ c[4] = 0
        BY <1>h, <2>2, <3>3
      <4>2. d[i - 1] = c[i]
        <5>1. CASE i = 5 + m
          <6>1. i - 1 = 4 + m
            BY <1>h, <5>1
          <6>2. QED BY <1>6, <4>1, <5>1, <6>1
        <5>2. CASE i \in 5..(4 + m)
          <6>1. i - 4 \in 1..m /\ 4 + (i - 4) = i /\ 3 + (i - 4) = i - 1
            BY <1>h, <5>2
          <6>2. QED BY <1>4, <6>1
        <5>3. QED BY <1>h, <3>3, <5>1, <5>2
      <4>3. ASSUME NEW j \in 1..((i - 1) - 1) PROVE d[j] = 0
        <5>1. CASE j \in 1..3
          BY <1>3, <2>2, <3>3, <5>1
        <5>2. CASE j \in 4..(i - 2)
          <6>1. /\ j - 3 \in 1..m /\ 4 + (j - 3) = j + 1 /\ 3 + (j - 3) = j
                /\ j + 1 \in 1..(i - 1)
            BY <1>h, <3>3, <5>2
          <6>2. c[j + 1] = 0
            BY <2>2, <6>1
          <6>3. QED BY <1>4, <6>1, <6>2
        <5>3. QED BY <3>3, <5>1, <5>2
      <4>4. QED BY <1>f, <2>2, <4>1, <4>2, <4>3
    <3>4. QED BY <1>h, <3>1, <3>2, <3>3
  <2>3. QED BY <1>f, <2>1, <2>2, Decision
<1>m. /\ Newer(v, w) <=> \E i \in DOMAIN p \cap DOMAIN q :
                            Higher(p[i], q[i]) /\ \A j \in 1..(i - 1) : p[j] = q[j]
      /\ Newer(w, v) <=> \E i \in DOMAIN p \cap DOMAIN q :
                            Higher(q[i], p[i]) /\ \A j \in 1..(i - 1) : p[j] = q[j]
  BY DEF Newer, p, q
<1>n. ~(Newer(v, w) /\ Newer(w, v))
  BY <1>a, NewerIsStrict
<1>8. CASE Compare(v, w) = 0 /\ \A i \in 1..(4 + m) : d[i] = 0
  <2>1. \A i \in DOMAIN p \cap DOMAIN q : ~Higher(p[i], q[i]) /\ ~Higher(q[i], p[i])
    BY <1>1, <1>2, <1>8
  <2>2. ~Newer(v, w) /\ ~Newer(w, v)
    BY <1>m, <2>1
  <2>3. QED BY <1>8, <2>2 DEF Order
<1>9. ASSUME NEW n \in 1..(4 + m), d[n] # 0, Compare(v, w) = d[n],
             \A j \in 1..(n - 1) : d[j] = 0
      PROVE  Compare(v, w) = Order(v, w)
  <2>1. \A j \in 1..(n - 1) : p[j] = q[j]
    BY <1>1, <1>9, <1>h
  <2>2. n \in DOMAIN p \cap DOMAIN q
    BY <1>1
  <2>3. CASE d[n] = 1
    <3>1. Newer(v, w)
      BY <1>1, <1>m, <2>1, <2>2, <2>3
    <3>2. QED BY <1>9, <2>3, <3>1 DEF Order
  <2>4. CASE d[n] = -1
    <3>1. Newer(w, v)
      BY <1>1, <1>m, <2>1, <2>2, <2>4
    <3>2. ~Newer(v, w)
      BY <1>n, <3>1
    <3>3. QED BY <1>9, <2>4, <3>1, <3>2 DEF Order
  <2>5. QED BY <1>1, <1>9, <2>3, <2>4
<1>10. QED BY <1>7, <1>8, <1>9

\* A release that is newer than a newer one is newer, so the newest is well defined.
LEMMA NewerIsTransitive ==
    ASSUME NEW u \in Version, NEW v \in Version, NEW w \in Version,
           Len(u.core) = 3, Len(v.core) = 3, Len(w.core) = 3, Newer(u, v), Newer(v, w)
    PROVE  Newer(u, w)
<1> DEFINE o == Precedence(u)
           p == Precedence(v)
           q == Precedence(w)
<1>1. /\ Len(u.prerelease) \in Nat /\ DOMAIN o = 1..(4 + Len(u.prerelease))
      /\ Len(v.prerelease) \in Nat /\ DOMAIN p = 1..(4 + Len(v.prerelease))
      /\ Len(w.prerelease) \in Nat /\ DOMAIN q = 1..(4 + Len(w.prerelease))
      /\ \A i \in DOMAIN o : o[i] \in Places
      /\ \A i \in DOMAIN p : p[i] \in Places
      /\ \A i \in DOMAIN q : q[i] \in Places
  BY PrecedencePlaces
<1>2. /\ \E i \in DOMAIN o \cap DOMAIN p :
            Higher(o[i], p[i]) /\ \A j \in 1..(i - 1) : o[j] = p[j]
      /\ \E i \in DOMAIN p \cap DOMAIN q :
            Higher(p[i], q[i]) /\ \A j \in 1..(i - 1) : p[j] = q[j]
  BY Zenon DEF Newer
<1>3. Newer(u, w) <=> \E i \in DOMAIN o \cap DOMAIN q :
                        Higher(o[i], q[i]) /\ \A j \in 1..(i - 1) : o[j] = q[j]
  BY DEF Newer
<1> HIDE DEF o, p, q
<1>4. PICK i \in DOMAIN o \cap DOMAIN p :
            Higher(o[i], p[i]) /\ \A j \in 1..(i - 1) : o[j] = p[j]
  BY <1>2
<1>5. PICK k \in DOMAIN p \cap DOMAIN q :
            Higher(p[k], q[k]) /\ \A j \in 1..(k - 1) : p[j] = q[j]
  BY <1>2
<1>6. i \in Nat \ {0} /\ k \in Nat \ {0}
  BY <1>1
<1>7. \A n \in Nat \ {0} : n <= i /\ n <= k => n \in DOMAIN o \cap DOMAIN p \cap DOMAIN q
  BY <1>1, <1>6
<1>8. CASE i < k
  <2>1. i \in DOMAIN o \cap DOMAIN q /\ p[i] = q[i] /\ \A j \in 1..(i - 1) : p[j] = q[j]
    BY <1>5, <1>6, <1>7, <1>8
  <2>2. QED BY <1>3, <1>4, <2>1
<1>9. CASE k < i
  <2>1. k \in DOMAIN o \cap DOMAIN q /\ o[k] = p[k] /\ \A j \in 1..(k - 1) : o[j] = p[j]
    BY <1>4, <1>6, <1>7, <1>9
  <2>2. QED BY <1>3, <1>5, <2>1
<1>10. CASE i = k
  <2>1. i \in DOMAIN o \cap DOMAIN q /\ o[i] \in Places /\ p[i] \in Places /\ q[i] \in Places
    BY <1>1, <1>6, <1>7, <1>10
  <2>2. Higher(o[i], q[i])
    BY <1>4, <1>5, <1>10, <2>1 DEF Higher, Places
  <2>3. \A j \in 1..(i - 1) : o[j] = q[j]
    BY <1>4, <1>5, <1>10
  <2>4. QED BY <1>3, <2>1, <2>2, <2>3
<1>11. QED BY <1>6, <1>8, <1>9, <1>10

-----------------------------------------------------------------------------
(* Select                                                                  *)

\* What the loop of Select has selected after its first n releases.
Better(candidate, best, version, target) ==
    /\ Fits(candidate, version, target)
    /\ best = 0 \/ Compare(VersionOf[candidate], VersionOf[best]) > 0

Selecting(f, releases, version, target, last) ==
    f = [n \in 0..last |->
            IF n = 0 THEN 0
            ELSE IF Better(releases[n], f[n - 1], version, target)
                 THEN releases[n] ELSE f[n - 1]]

\* The recursive function of Select exists, so that what it says of each release holds.
LEMMA SelectingExists ==
    ASSUME NEW releases, NEW version, NEW target, NEW last \in Nat
    PROVE  \E f : Selecting(f, releases, version, target, last)
<1> DEFINE A == {n \in Nat : \E f : Selecting(f, releases, version, target, n)}
<1>1. 0 \in A
  <2> DEFINE g == [n \in 0..0 |-> 0]
  <2>1. Selecting(g, releases, version, target, 0)
    BY DEF Selecting
  <2>2. QED BY <2>1
<1>2. ASSUME NEW n \in 0..(last - 1), n \in A PROVE n + 1 \in A
  <2>1. PICK f : Selecting(f, releases, version, target, n)
    BY <1>2
  <2> DEFINE g == [m \in 0..(n + 1) |->
                      IF m = n + 1
                      THEN IF Better(releases[n + 1], f[n], version, target)
                           THEN releases[n + 1] ELSE f[n]
                      ELSE f[m]]
  <2>2. \A m \in 0..n : g[m] = f[m]
    OBVIOUS
  <2>3. g[0] = 0
    BY <2>1, <2>2 DEF Selecting
  <2>4. ASSUME NEW m \in 1..(n + 1)
        PROVE  g[m] = IF Better(releases[m], g[m - 1], version, target)
                      THEN releases[m] ELSE g[m - 1]
    <3>1. CASE m = n + 1
      BY <2>2, <3>1
    <3>2. CASE m \in 1..n
      <4>1. g[m] = f[m] /\ g[m - 1] = f[m - 1]
        BY <2>2, <3>2
      <4>2. f[m] = IF Better(releases[m], f[m - 1], version, target)
                   THEN releases[m] ELSE f[m - 1]
        BY <2>1, <3>2 DEF Selecting
      <4> HIDE DEF g
      <4>3. QED BY <4>1, <4>2
    <3>3. QED BY <3>1, <3>2
  <2>5. Selecting(g, releases, version, target, n + 1)
    <3>1. \A m \in 0..(n + 1) :
            g[m] = IF m = 0 THEN 0
                   ELSE IF Better(releases[m], g[m - 1], version, target)
                        THEN releases[m] ELSE g[m - 1]
      BY <2>3, <2>4
    <3>2. g = [m \in 0..(n + 1) |-> g[m]]
      OBVIOUS
    <3> HIDE DEF g
    <3>3. QED BY <3>1, <3>2 DEF Selecting
  <2>6. QED BY <2>5
<1>3. 0..last \subseteq A
  <2> HIDE DEF A
  <2>1. 0 \in Int /\ last \in Int
    OBVIOUS
  <2>2. QED BY <1>1, <1>2, <2>1, LoopInduction
<1>4. QED BY <1>3

\* Select goes through the feed once.
LEMMA SelectLoops ==
    ASSUME NEW releases \in Seq(Releases), NEW version, NEW target
    PROVE  \E f : /\ Select(releases, version, target) = f[Len(releases)]
                  /\ f[0] = 0
                  /\ \A n \in 1..Len(releases) :
                        f[n] = IF Better(releases[n], f[n - 1], version, target)
                               THEN releases[n] ELSE f[n - 1]
<1> DEFINE f == CHOOSE g : Selecting(g, releases, version, target, Len(releases))
<1>1. Selecting(f, releases, version, target, Len(releases))
  BY SelectingExists
<1>2. Select(releases, version, target) = f[Len(releases)]
  BY DEF Select, Selecting, Better
<1> HIDE DEF f
<1>3. f[0] = 0 /\ \A n \in 1..Len(releases) :
                    f[n] = IF Better(releases[n], f[n - 1], version, target)
                           THEN releases[n] ELSE f[n - 1]
  BY <1>1 DEF Selecting
<1>4. QED BY <1>2, <1>3

\* A companion is only updated to a release of the feed that is made for its target
\* and that Compare puts after the version that runs.
THEOREM SelectedFits ==
    ASSUME NEW releases \in Seq(Releases), NEW version, NEW target,
           NEW selected, selected = Select(releases, version, target)
    PROVE  \/ selected = 0
           \/ /\ selected \in Releases /\ Fits(selected, version, target)
              /\ \E i \in 1..Len(releases) : releases[i] = selected
<1>1. PICK f : /\ Select(releases, version, target) = f[Len(releases)]
               /\ f[0] = 0
               /\ \A n \in 1..Len(releases) :
                    f[n] = IF Better(releases[n], f[n - 1], version, target)
                           THEN releases[n] ELSE f[n - 1]
  BY SelectLoops
<1> DEFINE A == {n \in Nat :
                    \/ f[n] = 0
                    \/ /\ f[n] \in Releases /\ Fits(f[n], version, target)
                       /\ \E i \in 1..Len(releases) : releases[i] = f[n]}
<1>2. 0 \in A
  BY <1>1
<1>3. ASSUME NEW n \in 0..(Len(releases) - 1), n \in A PROVE n + 1 \in A
  <2>1. n + 1 \in 1..Len(releases) /\ (n + 1) - 1 = n /\ n + 1 \in Nat
    OBVIOUS
  <2>2. f[n + 1] = IF Better(releases[n + 1], f[n], version, target)
                   THEN releases[n + 1] ELSE f[n]
    BY <1>1, <2>1
  <2>3. releases[n + 1] \in Releases
    BY <2>1
  <2>4. CASE f[n + 1] = f[n]
    BY <1>3, <2>1, <2>4
  <2>5. CASE f[n + 1] = releases[n + 1] /\ Fits(releases[n + 1], version, target)
    BY <2>1, <2>3, <2>5
  <2>6. QED BY <2>2, <2>4, <2>5 DEF Better
<1>4. 0..Len(releases) \subseteq A
  <2> HIDE DEF A
  <2>1. 0 \in Int /\ Len(releases) \in Int
    OBVIOUS
  <2>2. QED BY <1>2, <1>3, <2>1, LoopInduction
<1>5. Len(releases) \in A
  BY <1>4
<1>6. QED BY <1>1, <1>5

\* What the theorems on the order of releases assume of those that are published.
ReleasesFit == \A r \in Releases : Fitting(VersionOf[r])

\* Fits, which Select uses, is what the semantic versions and the targets demand.
LEMMA FittingUpdates ==
    ASSUME ReleasesFit, NEW a \in Releases, NEW b \in Releases
    PROVE  /\ Compare(VersionOf[a], VersionOf[b]) > 0 <=> Newer(VersionOf[a], VersionOf[b])
           /\ \A target \in Targets : Fits(a, b, target) <=> <<a, b, target>> \in Updates
<1>1. Compare(VersionOf[a], VersionOf[b]) = Order(VersionOf[a], VersionOf[b])
  BY ComparisonIsPrecedence DEF ReleasesFit
<1>2. Compare(VersionOf[a], VersionOf[b]) > 0 <=> Newer(VersionOf[a], VersionOf[b])
  BY <1>1 DEF Order
<1>3. ASSUME NEW target \in Targets
      PROVE  Fits(a, b, target) <=> <<a, b, target>> \in Updates
  <2>1. Fits(a, b, target) <=> target \in TargetsOf[a] /\ Newer(VersionOf[a], VersionOf[b])
    BY <1>2 DEF Fits
  <2>2. <<a, b, target>> \in Updates
            <=> target \in TargetsOf[a] /\ Newer(VersionOf[a], VersionOf[b])
    BY DEF Updates
  <2>3. QED BY <2>1, <2>2
<1>4. QED BY <1>2, <1>3

\* Of the releases of a feed that are updates Select returns one that none of the
\* others is newer than, and 0 only when there is none, as long as the identifiers of
\* the published versions fit into 64 bits.
THEOREM SelectedIsNewest ==
    ASSUME ReleasesFit, NEW releases \in Seq(Releases), NEW version \in Releases,
           NEW target \in Targets,
           NEW selected, selected = Select(releases, version, target)
    PROVE  /\ selected = 0 =>
                \A i \in 1..Len(releases) : <<releases[i], version, target>> \notin Updates
           /\ selected # 0 =>
                /\ <<selected, version, target>> \in Updates
                /\ \E i \in 1..Len(releases) : releases[i] = selected
                /\ \A i \in 1..Len(releases) :
                     <<releases[i], version, target>> \in Updates
                        => ~Newer(VersionOf[releases[i]], VersionOf[selected])
<1>1. PICK f : /\ Select(releases, version, target) = f[Len(releases)]
               /\ f[0] = 0
               /\ \A n \in 1..Len(releases) :
                    f[n] = IF Better(releases[n], f[n - 1], version, target)
                           THEN releases[n] ELSE f[n - 1]
  BY SelectLoops
<1> DEFINE IsBest(best, n) ==
              \A i \in 1..n :
                 <<releases[i], version, target>> \in Updates =>
                    best # 0 /\ ~Newer(VersionOf[releases[i]], VersionOf[best])
           A == {n \in Nat : (f[n] = 0 \/ f[n] \in Releases) /\ IsBest(f[n], n)}
<1>2. 0 \in A
  BY <1>1
<1>3. ASSUME NEW n \in 0..(Len(releases) - 1), n \in A PROVE n + 1 \in A
  <2> DEFINE r == releases[n + 1]
             b == f[n]
  <2>1. n + 1 \in 1..Len(releases) /\ (n + 1) - 1 = n /\ n + 1 \in Nat /\ n \in Nat
    OBVIOUS
  <2>2. f[n + 1] = IF Better(r, b, version, target) THEN r ELSE b
    BY <1>1, <2>1
  <2>3. /\ r \in Releases /\ (b = 0 \/ b \in Releases) /\ IsBest(b, n)
        /\ \A i \in 1..n : releases[i] \in Releases
    BY <1>3, <2>1
  <2>a. /\ \A c \in Releases : VersionOf[c] \in Version /\ Len(VersionOf[c].core) = 3
        /\ 0 \notin Releases
    BY FeedAssumption DEF ReleasesFit, Fitting
  <2>b. Fits(r, version, target) <=> <<r, version, target>> \in Updates
    BY <2>3, FittingUpdates
  <2>c. b \in Releases =>
            (Compare(VersionOf[r], VersionOf[b]) > 0 <=> Newer(VersionOf[r], VersionOf[b]))
    BY <2>3, FittingUpdates
  <2> HIDE DEF r, b
  <2>4. CASE Better(r, b, version, target)
    <3>1. f[n + 1] = r /\ (b = 0 \/ Newer(VersionOf[r], VersionOf[b]))
      BY <2>2, <2>3, <2>4, <2>c DEF Better
    <3>2. ~Newer(VersionOf[r], VersionOf[r])
      BY <2>3, <2>a, NewerIsStrict
    <3>3. ASSUME NEW i \in 1..n, <<releases[i], version, target>> \in Updates
          PROVE  ~Newer(VersionOf[releases[i]], VersionOf[r])
      <4>1. b # 0 /\ ~Newer(VersionOf[releases[i]], VersionOf[b])
        BY <2>3, <3>3
      <4>2. SUFFICES ASSUME Newer(VersionOf[releases[i]], VersionOf[r]) PROVE FALSE
        OBVIOUS
      <4>3. Newer(VersionOf[releases[i]], VersionOf[b])
        BY <2>3, <2>a, <3>1, <4>1, <4>2, NewerIsTransitive
      <4>4. QED BY <4>1, <4>3
    <3>4. IsBest(r, n + 1)
      <4>1. \A i \in 1..(n + 1) : i \in 1..n \/ i = n + 1
        BY <2>1
      <4>2. r = releases[n + 1] /\ r # 0
        BY <2>3, <2>a DEF r
      <4>3. QED BY <3>2, <3>3, <4>1, <4>2
    <3>5. QED BY <2>1, <2>3, <3>1, <3>4
  <2>5. CASE ~Better(r, b, version, target)
    <3>1. f[n + 1] = b
      BY <2>2, <2>5
    <3>2. <<r, version, target>> \in Updates => b # 0 /\ ~Newer(VersionOf[r], VersionOf[b])
      BY <2>3, <2>5, <2>b, <2>c DEF Better
    <3>3. IsBest(b, n + 1)
      <4>1. \A i \in 1..(n + 1) : i \in 1..n \/ i = n + 1
        BY <2>1
      <4>2. r = releases[n + 1]
        BY DEF r
      <4>3. QED BY <2>3, <3>2, <4>1, <4>2
    <3>4. QED BY <2>1, <2>3, <3>1, <3>3
  <2>6. QED BY <2>4, <2>5
<1>4. 0..Len(releases) \subseteq A
  <2> HIDE DEF A
  <2>1. 0 \in Int /\ Len(releases) \in Int
    OBVIOUS
  <2>2. QED BY <1>2, <1>3, <2>1, LoopInduction
<1>5. Len(releases) \in A
  BY <1>4
<1>6. IsBest(selected, Len(releases))
  BY <1>1, <1>5
<1>7. selected # 0 => /\ <<selected, version, target>> \in Updates
                      /\ \E i \in 1..Len(releases) : releases[i] = selected
  BY SelectedFits, FittingUpdates
<1>8. QED BY <1>6, <1>7

-----------------------------------------------------------------------------
(* The inductive invariant of Updater                                      *)

CheckRecord ==
    [pc : {"idle", "due"} \cup Holding, beta : BOOLEAN, release : Releases \cup {0},
     deferred : BOOLEAN]
CallRecord ==
    [pc : {"idle", "defer", "save", "channel", "feed"}, version : Releases \cup {0},
     beta : BOOLEAN]
Statuses ==
    {"current", "checking", "downloading", "available", "ready", "deferred", "error"}
UpdaterRecord ==
    [status : Statuses, available : Releases \cup {0}, mandatory : BOOLEAN,
     ready : BOOLEAN, beta : BOOLEAN]

\* updateMu
OneHolds ==
    \A t, u \in Checkers :
        checks[t].pc \in Holding /\ checks[u].pc \in Holding => t = u

\* What a check has found and shown so far is still so, since no other check runs
\* and a call of the window changes neither the version shown nor the staged file.
Found == {"compare", "announce", "native", "download", "publish"}

CheckFollows(t) ==
    /\ checks[t].pc \in Found =>
        checks[t].release \in Releases /\ Fits(checks[t].release, current, Target)
    /\ checks[t].pc = "native" => sparkle
    /\ checks[t].pc \in Holding \ {"begun"} => ~updater.ready
    /\ checks[t].pc \in {"download", "publish"} => updater.available = checks[t].release
    /\ checks[t].pc = "publish" => stagedFile = checks[t].release
ChecksFollow == \A t \in Checkers : CheckFollows(t)

\* The file that is staged, and the one an installation is about to start, whose path
\* may be forgotten meanwhile.
InstallerFits ==
    /\ staged \/ (\E c \in Callers : installs[c] = "launch") =>
        stagedFile \in Releases /\ Fits(stagedFile, current, Target)
    /\ \A release \in launched : Fits(release, current, Target)

\* A channel that is not the chosen one is shown, or is about to be.
Unsettled ==
    \/ updater.beta # config.beta
    \/ \E t \in Checkers : checks[t].pc = "begun" /\ checks[t].beta # config.beta

\* A check of the chosen channel will run.
Settles ==
    \/ window.pc = "feed"
    \/ \E t \in Checkers : checks[t].pc = "due"
    \/ \E t \in Checkers : checks[t].pc = "begun" /\ checks[t].beta = config.beta

ChannelSettles == ~sparkle /\ Unsettled => Settles

ChecksTyped  == checks \in [Checkers -> CheckRecord]
WindowTyped  == window \in CallRecord
UpdaterTyped ==
    /\ updater \in UpdaterRecord
    /\ updater.status \in {"available", "downloading", "ready"} => updater.available # 0
ConfigTyped  == config \in [beta : BOOLEAN, deferred : Releases \cup {0}]
InstallsTyped == installs \in [Callers -> {"idle", "read", "launch", "quit", "exit"}]
WorldTyped ==
    /\ sparkle \in BOOLEAN /\ native \in BOOLEAN /\ staged \in BOOLEAN
    /\ stagedFile \in Releases \cup {0} /\ launched \subseteq Releases
    /\ current \in Releases /\ feed \in [BOOLEAN -> Feeds]
    /\ changes \in 0..MaxChanges /\ faults \in 0..MaxFaults

UpdaterTypes ==
    /\ ChecksTyped /\ WindowTyped /\ UpdaterTyped /\ ConfigTyped /\ InstallsTyped
    /\ WorldTyped

UpdaterInv ==
    /\ UpdaterTypes /\ OneHolds /\ ChecksFollow /\ InstallerFits
    /\ ReadyMeansStaged /\ ChannelSettles /\ CheckingMeansChecking

-----------------------------------------------------------------------------
(* Its proof                                                               *)

\* A check, or a call, goes on with what it has read, or ends.
LEMMA CheckGoes ==
    ASSUME ChecksTyped, NEW t \in Checkers, NEW new \in CheckRecord,
           checks' = [checks EXCEPT ![t] = new]
    PROVE  /\ ChecksTyped'
           /\ \A u \in Checkers : checks'[u] = IF u = t THEN new ELSE checks[u]
BY DEF ChecksTyped

\* A check that goes on keeps what it has read.
LEMMA GoesOn ==
    ASSUME ChecksTyped, NEW t \in Checkers, NEW from, NEW to \in {"idle", "due"} \cup Holding,
           Goes(t, from, to)
    PROVE  /\ checks[t].pc = from
           /\ ChecksTyped'
           /\ \A u \in Checkers : u # t => checks'[u] = checks[u]
           /\ checks'[t].pc = to /\ checks'[t].release = checks[t].release
           /\ checks'[t].beta = checks[t].beta /\ checks'[t].deferred = checks[t].deferred
<1> DEFINE new == [checks[t] EXCEPT !.pc = to]
<1>1. checks[t] \in CheckRecord
  BY DEF ChecksTyped
<1>2. /\ new \in CheckRecord /\ new.pc = to /\ new.release = checks[t].release
      /\ new.beta = checks[t].beta /\ new.deferred = checks[t].deferred
  <2> DEFINE P == {"idle", "due"} \cup Holding
             R == Releases \cup {0}
             B == BOOLEAN
  <2>1. checks[t] \in [pc : P, beta : B, release : R, deferred : B] /\ to \in P
    BY <1>1 DEF CheckRecord
  <2> HIDE DEF P, R, B
  <2>2. /\ new \in [pc : P, beta : B, release : R, deferred : B]
        /\ new.pc = to /\ new.release = checks[t].release
        /\ new.beta = checks[t].beta /\ new.deferred = checks[t].deferred
    BY <2>1
  <2>3. QED BY <2>2 DEF CheckRecord, P, R, B
<1>3. checks' = [checks EXCEPT ![t] = new] /\ checks[t].pc = from
  BY <1>1 DEF Goes, ChecksTyped
<1> HIDE DEF new
<1>4. ChecksTyped' /\ \A u \in Checkers : checks'[u] = IF u = t THEN new ELSE checks[u]
  BY <1>2, <1>3, CheckGoes, Zenon
<1>5. checks'[t] = new /\ \A u \in Checkers : u # t => checks'[u] = checks[u]
  BY <1>4
<1>6. QED BY <1>2, <1>3, <1>4, <1>5

\* A check that ends forgets what it has read.
LEMMA EndsThere ==
    ASSUME ChecksTyped, NEW t \in Checkers, NEW from, Ends(t, from)
    PROVE  /\ checks[t].pc = from
           /\ ChecksTyped'
           /\ \A u \in Checkers : u # t => checks'[u] = checks[u]
           /\ checks'[t].pc = "idle"
<1>1. NoCheck \in CheckRecord /\ NoCheck.pc = "idle"
  BY DEF NoCheck, CheckRecord
<1>2. checks' = [checks EXCEPT ![t] = NoCheck] /\ checks[t].pc = from
  BY DEF Ends
<1>3. ChecksTyped' /\ \A u \in Checkers : checks'[u] = IF u = t THEN NoCheck ELSE checks[u]
  BY <1>1, <1>2, CheckGoes, Zenon
<1>4. checks'[t] = NoCheck /\ \A u \in Checkers : u # t => checks'[u] = checks[u]
  BY <1>3
<1>5. QED BY <1>1, <1>2, <1>3, <1>4

\* What the window shows keeps its type, and the fields that are not assigned.
LEMMA StatusShown ==
    ASSUME UpdaterTyped, NEW s \in Statuses, Shows(s),
           s \in {"available", "downloading", "ready"} => updater.available # 0
    PROVE  /\ UpdaterTyped' /\ updater'.status = s
           /\ updater'.available = updater.available /\ updater'.ready = updater.ready
           /\ updater'.beta = updater.beta
<1> DEFINE R == Releases \cup {0}
           B == BOOLEAN
<1>1. updater \in [status : Statuses, available : R, mandatory : B, ready : B, beta : B]
  BY DEF UpdaterTyped, UpdaterRecord
<1> HIDE DEF R, B
<1>2. /\ updater' \in [status : Statuses, available : R, mandatory : B, ready : B, beta : B]
      /\ updater'.status = s /\ updater'.available = updater.available
      /\ updater'.ready = updater.ready /\ updater'.beta = updater.beta
  BY <1>1 DEF Shows
<1>3. QED BY <1>2 DEF R, B, UpdaterTyped, UpdaterRecord

\* A release, or none, with or without something to install.
LEMMA ReleaseShown ==
    ASSUME UpdaterTyped, NEW s \in Statuses, NEW release \in Releases \cup {0},
           NEW critical \in BOOLEAN, NEW ready \in BOOLEAN,
           \/ updater' = [updater EXCEPT !.status = s, !.available = release,
                                         !.mandatory = critical, !.ready = ready]
           \/ /\ updater' = [updater EXCEPT !.status = s, !.mandatory = critical,
                                            !.available = release]
              /\ updater.ready = ready,
           s \in {"available", "downloading", "ready"} => release # 0
    PROVE  /\ UpdaterTyped' /\ updater'.status = s /\ updater'.available = release
           /\ updater'.ready = ready /\ updater'.beta = updater.beta
<1> DEFINE R == Releases \cup {0}
           B == BOOLEAN
<1>1. /\ updater \in [status : Statuses, available : R, mandatory : B, ready : B, beta : B]
      /\ release \in R /\ critical \in B /\ ready \in B
  BY DEF UpdaterTyped, UpdaterRecord
<1> HIDE DEF R, B
<1>2. /\ updater' \in [status : Statuses, available : R, mandatory : B, ready : B, beta : B]
      /\ updater'.status = s /\ updater'.available = release
      /\ updater'.ready = ready /\ updater'.beta = updater.beta
  BY <1>1
<1>3. QED BY <1>2 DEF R, B, UpdaterTyped, UpdaterRecord

\* A channel that nothing is known of yet.
LEMMA ChannelShown ==
    ASSUME UpdaterTyped, NEW beta \in BOOLEAN,
           updater' = [updater EXCEPT !.status = "checking", !.beta = beta, !.ready = FALSE]
    PROVE  /\ UpdaterTyped' /\ updater'.status = "checking"
           /\ updater'.ready = FALSE /\ updater'.beta = beta
<1> DEFINE R == Releases \cup {0}
           B == BOOLEAN
<1>1. /\ updater \in [status : Statuses, available : R, mandatory : B, ready : B, beta : B]
      /\ beta \in B /\ FALSE \in B /\ "checking" \in Statuses
  BY DEF UpdaterTyped, UpdaterRecord, Statuses
<1> HIDE DEF R, B
<1>2. /\ updater' \in [status : Statuses, available : R, mandatory : B, ready : B, beta : B]
      /\ updater'.status = "checking" /\ updater'.ready = FALSE /\ updater'.beta = beta
  BY <1>1
<1>3. QED BY <1>2 DEF R, B, UpdaterTyped, UpdaterRecord

\* A staged release.
LEMMA StagedShown ==
    ASSUME UpdaterTyped, updater.available # 0,
           updater' = [updater EXCEPT !.status = "ready", !.ready = TRUE]
    PROVE  /\ UpdaterTyped' /\ updater'.status = "ready"
           /\ updater'.available = updater.available /\ updater'.beta = updater.beta
<1> DEFINE R == Releases \cup {0}
           B == BOOLEAN
<1>1. /\ updater \in [status : Statuses, available : R, mandatory : B, ready : B, beta : B]
      /\ TRUE \in B /\ "ready" \in Statuses
  BY DEF UpdaterTyped, UpdaterRecord, Statuses
<1> HIDE DEF R, B
<1>2. /\ updater' \in [status : Statuses, available : R, mandatory : B, ready : B, beta : B]
      /\ updater'.status = "ready" /\ updater'.available = updater.available
      /\ updater'.beta = updater.beta
  BY <1>1
<1>3. QED BY <1>2 DEF R, B, UpdaterTyped, UpdaterRecord

\* A check that is asked for changes nothing else, and settles the channel.
LEMMA DueStep ==
    ASSUME UpdaterInv, NEW t \in Checkers, Goes(t, "idle", "due"),
           UNCHANGED <<installs, native, config, shown, stagedFile, world>>,
           WindowTyped', faults' \in 0..MaxFaults
    PROVE  UpdaterInv'
<1>1. /\ checks[t].pc = "idle" /\ ChecksTyped'
      /\ \A u \in Checkers : u # t => checks'[u] = checks[u]
      /\ checks'[t].pc = "due"
  <2>1. "due" \in {"idle", "due"} \cup Holding
    OBVIOUS
  <2>2. QED BY <2>1, GoesOn DEF UpdaterInv, UpdaterTypes
<1>2. UpdaterTypes'
  BY <1>1 DEF UpdaterInv, UpdaterTypes, UpdaterTyped, ConfigTyped, InstallsTyped, WorldTyped,
              shown, world
<1>3. OneHolds'
  BY <1>1 DEF UpdaterInv, OneHolds, Holding
<1>4. ChecksFollow'
  BY <1>1 DEF UpdaterInv, ChecksFollow, CheckFollows, Holding, Found, shown, world, Target
<1>5. InstallerFits'
  BY DEF UpdaterInv, InstallerFits, shown, world, Target
<1>6. ReadyMeansStaged'
  BY DEF UpdaterInv, ReadyMeansStaged, shown
<1>7. ChannelSettles'
  BY <1>1 DEF ChannelSettles, Settles
<1>8. CheckingMeansChecking'
  BY <1>1 DEF CheckingMeansChecking
<1>9. QED BY <1>2, <1>3, <1>4, <1>5, <1>6, <1>7, <1>8 DEF UpdaterInv

LEMMA BeginStep ==
    ASSUME UpdaterInv, NEW t \in Checkers, Begin(t) PROVE UpdaterInv'
<1> DEFINE new == [checks[t] EXCEPT !.pc = "begun", !.beta = config.beta]
<1>a. checks[t] \in CheckRecord /\ ChecksTyped /\ config.beta \in BOOLEAN
  BY DEF UpdaterInv, UpdaterTypes, ChecksTyped, ConfigTyped
<1>b. new \in CheckRecord /\ new.pc = "begun" /\ new.beta = config.beta
  <2> DEFINE P == {"idle", "due"} \cup Holding
             R == Releases \cup {0}
             B == BOOLEAN
  <2>1. /\ checks[t] \in [pc : P, beta : B, release : R, deferred : B]
        /\ "begun" \in P /\ config.beta \in B
    BY <1>a DEF CheckRecord, Holding
  <2> HIDE DEF P, R, B
  <2>2. /\ new \in [pc : P, beta : B, release : R, deferred : B]
        /\ new.pc = "begun" /\ new.beta = config.beta
    BY <2>1
  <2>3. QED BY <2>2 DEF CheckRecord, P, R, B
<1>c. /\ checks' = [checks EXCEPT ![t] = new] /\ checks[t].pc = "due"
      /\ \A u \in Checkers : checks[u].pc \notin Holding
      /\ UNCHANGED <<window, installs, native, config, shown, stagedFile, world, faults>>
  BY <1>a DEF Begin, ChecksTyped
<1> HIDE DEF new
<1>d. ChecksTyped' /\ \A u \in Checkers : checks'[u] = IF u = t THEN new ELSE checks[u]
  BY <1>a, <1>b, <1>c, CheckGoes, Zenon
<1>1. /\ \A u \in Checkers : u # t => checks'[u] = checks[u]
      /\ checks'[t].pc = "begun" /\ checks'[t].beta = config.beta
  BY <1>b, <1>d
<1>2. UpdaterTypes'
  BY <1>c, <1>d DEF UpdaterInv, UpdaterTypes, WindowTyped, UpdaterTyped, ConfigTyped,
                    InstallsTyped, WorldTyped, shown, world
<1>3. OneHolds'
  BY <1>1, <1>c DEF UpdaterInv, OneHolds
<1>4. ChecksFollow'
  BY <1>1, <1>c DEF UpdaterInv, ChecksFollow, CheckFollows, Holding, Found, shown, world, Target
<1>5. InstallerFits'
  BY <1>c DEF UpdaterInv, InstallerFits, shown, world, Target
<1>6. ReadyMeansStaged'
  BY <1>c DEF UpdaterInv, ReadyMeansStaged, shown
<1>7. ChannelSettles'
  BY <1>1, <1>c DEF ChannelSettles, Settles
<1>8. CheckingMeansChecking'
  BY <1>1 DEF CheckingMeansChecking
<1>9. QED BY <1>2, <1>3, <1>4, <1>5, <1>6, <1>7, <1>8 DEF UpdaterInv

LEMMA CheckingStep ==
    ASSUME UpdaterInv, NEW t \in Checkers, Checking(t) PROVE UpdaterInv'
<1>1. /\ checks[t].pc = "begun" /\ ChecksTyped'
      /\ \A u \in Checkers : u # t => checks'[u] = checks[u]
      /\ checks'[t].pc = "fetch"
  <2>1. "fetch" \in {"idle", "due"} \cup Holding
    BY DEF Holding
  <2>2. QED BY <2>1, GoesOn DEF UpdaterInv, UpdaterTypes, Checking
<1>a. /\ UNCHANGED <<window, installs, native, config, staged, stagedFile, world, faults>>
      /\ updater' = [updater EXCEPT !.status = "checking", !.beta = checks[t].beta,
                                    !.ready = FALSE]
  BY DEF Checking
<1>b. checks[t].beta \in BOOLEAN
  BY DEF UpdaterInv, UpdaterTypes, ChecksTyped, CheckRecord
<1>c. /\ UpdaterTyped' /\ updater'.status = "checking" /\ updater'.ready = FALSE
      /\ updater'.beta = checks[t].beta
  BY <1>a, <1>b, ChannelShown DEF UpdaterInv, UpdaterTypes
<1>d. \A u \in Checkers : u # t => checks[u].pc \notin Holding
  BY <1>1 DEF UpdaterInv, OneHolds, Holding
<1>2. UpdaterTypes'
  BY <1>1, <1>a, <1>c DEF UpdaterInv, UpdaterTypes, WindowTyped, ConfigTyped, InstallsTyped,
                          WorldTyped, world
<1>3. OneHolds'
  BY <1>1, <1>d DEF OneHolds
<1>4. ChecksFollow'
  BY <1>1, <1>c, <1>d DEF ChecksFollow, CheckFollows, Holding, Found
<1>5. InstallerFits'
  BY <1>a DEF UpdaterInv, InstallerFits, world, Target
<1>6. ReadyMeansStaged'
  BY <1>c DEF ReadyMeansStaged
<1>7. ChannelSettles'
  <2> SUFFICES ASSUME ~sparkle', Unsettled' PROVE Settles'
    BY DEF ChannelSettles
  <2>1. checks[t].beta # config.beta
    BY <1>1, <1>a, <1>c, <1>d DEF Unsettled, Holding
  <2>2. Unsettled /\ ~sparkle
    BY <1>1, <1>a, <2>1 DEF Unsettled, world
  <2>3. Settles
    BY <2>2 DEF UpdaterInv, ChannelSettles
  <2>4. QED BY <1>1, <1>a, <1>d, <2>1, <2>3 DEF Settles, Holding
<1>8. CheckingMeansChecking'
  BY <1>1 DEF CheckingMeansChecking
<1>9. QED BY <1>2, <1>3, <1>4, <1>5, <1>6, <1>7, <1>8 DEF UpdaterInv

\* A step of the check that holds updateMu, after it has shown that it began.
LEMMA HoldingStep ==
    ASSUME UpdaterInv, NEW t \in Checkers,
           checks[t].pc \in Holding \ {"begun"},
           checks'[t].pc \in {"idle"} \cup (Holding \ {"begun"}),
           \A u \in Checkers : u # t => checks'[u] = checks[u],
           ChecksTyped', UpdaterTyped', WorldTyped', CheckFollows(t)',
           InstallerFits', ReadyMeansStaged',
           UNCHANGED <<window, installs, config, sparkle>>,
           updater'.beta = updater.beta,
           ~sparkle /\ updater'.status \in {"checking", "downloading"} => checks'[t].pc # "idle"
    PROVE  UpdaterInv'
<1>1. \A u \in Checkers : u # t => checks[u].pc \notin Holding
  BY DEF UpdaterInv, OneHolds
<1>2. UpdaterTypes'
  BY DEF UpdaterInv, UpdaterTypes, WindowTyped, ConfigTyped, InstallsTyped
<1>3. OneHolds'
  BY <1>1 DEF OneHolds
<1>4. ChecksFollow'
  <2> SUFFICES ASSUME NEW u \in Checkers, u # t PROVE CheckFollows(u)'
    BY DEF ChecksFollow
  <2>1. checks'[u].pc \notin Holding
    BY <1>1
  <2>2. QED BY <2>1 DEF CheckFollows, Holding, Found
<1>5. ChannelSettles'
  <2>1. Unsettled' => Unsettled
    BY DEF Unsettled, Holding
  <2>2. Settles => Settles'
    BY DEF Settles, Holding
  <2>3. QED BY <2>1, <2>2 DEF UpdaterInv, ChannelSettles
<1>6. CheckingMeansChecking'
  BY DEF CheckingMeansChecking
<1>7. QED BY <1>2, <1>3, <1>4, <1>5, <1>6 DEF UpdaterInv

\* What the types say of one check.
LEMMA TypedFacts ==
    ASSUME UpdaterInv, NEW t \in Checkers
    PROVE  /\ checks[t] \in CheckRecord /\ checks[t].release \in Releases \cup {0}
           /\ checks[t].beta \in BOOLEAN /\ checks[t].deferred \in BOOLEAN
           /\ 0 \notin Releases
BY FeedAssumption DEF UpdaterInv, UpdaterTypes, ChecksTyped, CheckRecord

\* What a check finds in the feed fits the version that runs.
LEMMA SelectionFits ==
    ASSUME UpdaterInv, NEW beta \in BOOLEAN
    PROVE  LET release == Selection[feed[beta]][current][Target] IN
           \/ release = 0
           \/ release \in Releases /\ Fits(release, current, Target)
<1> DEFINE release == Selection[feed[beta]][current][Target]
<1>1. feed[beta] \in Feeds /\ current \in Releases /\ Target \in Targets
  BY DEF UpdaterInv, UpdaterTypes, WorldTyped, Target, Targets
<1>2. release = Select(feed[beta], current, Target)
  BY <1>1 DEF Selection
<1>3. feed[beta] \in Seq(Releases)
  BY <1>1, PromotionsAssumption
<1> HIDE DEF release
<1>4. \/ release = 0
      \/ release \in Releases /\ Fits(release, current, Target)
  BY <1>2, <1>3, SelectedFits
<1>5. QED BY <1>4 DEF release

LEMMA FetchStep ==
    ASSUME UpdaterInv, NEW t \in Checkers, Fetch(t) PROVE UpdaterInv'
<1> DEFINE release == Selection[feed[checks[t].beta]][current][Target]
<1>a. /\ checks[t].pc = "fetch" /\ "fetch" \in Holding \ {"begun"}
      /\ UNCHANGED <<window, installs, native, config, staged, stagedFile, world>>
      /\ \/ release = 0 /\ Ends(t, "fetch") /\ NothingAvailable /\ UNCHANGED faults
         \/ /\ release # 0
            /\ checks' = [checks EXCEPT ![t] = [NoCheck EXCEPT !.pc = "compare",
                                                             !.release = release]]
            /\ UNCHANGED <<updater, faults>>
         \/ Fails(t, "fetch") /\ Ends(t, "fetch") /\ Shows("error")
  BY DEF Fetch, Holding
<1>b. \/ release = 0
      \/ release \in Releases /\ Fits(release, current, Target)
  <2>1. checks[t].beta \in BOOLEAN
    BY TypedFacts
  <2> DEFINE b == checks[t].beta
             chosen == Selection[feed[b]][current][Target]
  <2>2. release = chosen /\ b \in BOOLEAN
    BY <2>1
  <2> HIDE DEF b, release
  <2>3. \/ chosen = 0
        \/ chosen \in Releases /\ Fits(chosen, current, Target)
    BY <2>2, SelectionFits
  <2> HIDE DEF chosen
  <2>4. QED BY <2>2, <2>3
<1> HIDE DEF release
<1>c. ~updater.ready
  BY <1>a DEF UpdaterInv, ChecksFollow, CheckFollows
<1>d. InstallerFits'
  BY <1>a DEF UpdaterInv, InstallerFits, world, Target
<1>e. WorldTyped'
  BY <1>a, LimitsAssumption DEF UpdaterInv, UpdaterTypes, WorldTyped, world, Fails, Fault
<1>f. ChecksTyped /\ UpdaterTyped
  BY DEF UpdaterInv, UpdaterTypes
<1>1. ASSUME Ends(t, "fetch"), UpdaterTyped', updater'.beta = updater.beta, ~updater'.ready,
             updater'.status \in {"current", "error"}
      PROVE  UpdaterInv'
  <2>1. /\ ChecksTyped' /\ \A u \in Checkers : u # t => checks'[u] = checks[u]
        /\ checks'[t].pc = "idle"
    BY <1>f, <1>1, EndsThere
  <2>2. CheckFollows(t)'
    BY <2>1 DEF CheckFollows, Holding, Found
  <2>3. ReadyMeansStaged'
    BY <1>1 DEF ReadyMeansStaged
  <2>4. UNCHANGED <<window, installs, config, sparkle>>
    BY <1>a DEF world
  <2>5. QED BY <1>1, <1>a, <1>d, <1>e, <2>1, <2>2, <2>3, <2>4, HoldingStep
<1>2. CASE Ends(t, "fetch") /\ NothingAvailable
  <2>1. /\ UpdaterTyped' /\ updater'.status = "current" /\ updater'.ready = FALSE
        /\ updater'.beta = updater.beta
    <3>1. "current" \in Statuses /\ 0 \in Releases \cup {0} /\ FALSE \in BOOLEAN
      BY DEF Statuses
    <3>2. QED BY <1>2, <1>f, <3>1, ReleaseShown DEF NothingAvailable
  <2>2. QED BY <1>1, <1>2, <2>1
<1>3. CASE Ends(t, "fetch") /\ Shows("error")
  <2>1. /\ UpdaterTyped' /\ updater'.status = "error" /\ updater'.ready = updater.ready
        /\ updater'.beta = updater.beta
    <3>1. "error" \in Statuses
      BY DEF Statuses
    <3>2. QED BY <1>3, <1>f, <3>1, StatusShown
  <2>2. QED BY <1>1, <1>3, <1>c, <2>1
<1>4. CASE /\ release # 0
           /\ checks' = [checks EXCEPT ![t] = [NoCheck EXCEPT !.pc = "compare",
                                                            !.release = release]]
           /\ UNCHANGED <<updater, faults>>
  <2> DEFINE new == [NoCheck EXCEPT !.pc = "compare", !.release = release]
  <2>1. new \in CheckRecord /\ new.pc = "compare" /\ new.release = release
    BY <1>b DEF NoCheck, CheckRecord, Holding
  <2>2. checks' = [checks EXCEPT ![t] = new]
    BY <1>4
  <2> HIDE DEF new
  <2>3. ChecksTyped' /\ \A u \in Checkers : checks'[u] = IF u = t THEN new ELSE checks[u]
    BY <1>f, <2>1, <2>2, CheckGoes, Zenon
  <2>4. /\ \A u \in Checkers : u # t => checks'[u] = checks[u]
        /\ checks'[t].pc = "compare" /\ checks'[t].release = release
    BY <2>1, <2>3
  <2>5. CheckFollows(t)'
    BY <1>4, <1>a, <1>b, <1>c, <2>4 DEF CheckFollows, Found, Holding, world, Target
  <2>6. ReadyMeansStaged' /\ UpdaterTyped' /\ updater'.beta = updater.beta
    BY <1>4, <1>a, <1>f DEF UpdaterInv, ReadyMeansStaged, UpdaterTyped
  <2>7. UNCHANGED <<window, installs, config, sparkle>>
    BY <1>a DEF world
  <2>8. checks'[t].pc \in {"idle"} \cup (Holding \ {"begun"}) /\ checks'[t].pc # "idle"
    BY <2>4 DEF Holding
  <2>9. QED BY <1>a, <1>d, <1>e, <2>3, <2>4, <2>5, <2>6, <2>7, <2>8, HoldingStep
<1>5. QED BY <1>a, <1>2, <1>3, <1>4

\* The check of t ends without changing what is staged, with a status that is final.
LEMMA EndingStep ==
    ASSUME UpdaterInv, NEW t \in Checkers, NEW from \in Holding \ {"begun"}, Ends(t, from),
           UpdaterTyped', updater'.beta = updater.beta, updater'.ready = FALSE,
           faults' \in 0..MaxFaults,
           UNCHANGED <<window, installs, native, config, staged, stagedFile, world>>,
           sparkle \/ updater'.status \notin {"checking", "downloading"}
    PROVE  UpdaterInv'
<1>1. /\ checks[t].pc = from /\ ChecksTyped'
      /\ \A u \in Checkers : u # t => checks'[u] = checks[u]
      /\ checks'[t].pc = "idle"
  BY EndsThere DEF UpdaterInv, UpdaterTypes
<1>2. CheckFollows(t)'
  BY <1>1 DEF CheckFollows, Holding, Found
<1>3. ReadyMeansStaged'
  BY DEF ReadyMeansStaged
<1>4. InstallerFits'
  BY DEF UpdaterInv, InstallerFits, world, Target
<1>5. WorldTyped'
  BY DEF UpdaterInv, UpdaterTypes, WorldTyped, world
<1>6. UNCHANGED <<window, installs, config, sparkle>>
  BY DEF world
<1>7. QED BY <1>1, <1>2, <1>3, <1>4, <1>5, <1>6, HoldingStep

\* The check of t goes on without changing what is staged.
LEMMA GoingStep ==
    ASSUME UpdaterInv, NEW t \in Checkers, NEW from \in Holding \ {"begun"},
           NEW to \in Holding \ {"begun"}, Goes(t, from, to),
           CheckFollows(t)', UpdaterTyped', updater'.beta = updater.beta,
           updater'.ready = FALSE,
           UNCHANGED <<window, installs, native, config, staged, stagedFile, world, faults>>
    PROVE  UpdaterInv'
<1>a. to \in {"idle", "due"} \cup Holding /\ to # "idle"
  BY DEF Holding
<1>1. /\ checks[t].pc = from /\ ChecksTyped'
      /\ \A u \in Checkers : u # t => checks'[u] = checks[u]
      /\ checks'[t].pc = to
  BY <1>a, GoesOn DEF UpdaterInv, UpdaterTypes
<1>3. ReadyMeansStaged'
  BY DEF ReadyMeansStaged
<1>4. InstallerFits'
  BY DEF UpdaterInv, InstallerFits, world, Target
<1>5. WorldTyped'
  BY DEF UpdaterInv, UpdaterTypes, WorldTyped, world
<1>6. UNCHANGED <<window, installs, config, sparkle>>
  BY DEF world
<1>7. QED BY <1>a, <1>1, <1>3, <1>4, <1>5, <1>6, HoldingStep

\* While a check holds updateMu and has begun nothing is ready.
LEMMA HoldingFacts ==
    ASSUME UpdaterInv, NEW t \in Checkers, checks[t].pc \in Holding \ {"begun"}
    PROVE  /\ updater.ready = FALSE /\ UpdaterTyped /\ ChecksTyped
           /\ checks[t].pc \in Found =>
                checks[t].release \in Releases /\ Fits(checks[t].release, current, Target)
           /\ checks[t].pc = "native" => sparkle
           /\ checks[t].pc \in {"download", "publish"} => updater.available = checks[t].release
           /\ checks[t].pc = "publish" => stagedFile = checks[t].release
<1>1. UpdaterTyped /\ ChecksTyped /\ CheckFollows(t)
  BY DEF UpdaterInv, UpdaterTypes, ChecksFollow
<1>2. updater.ready \in BOOLEAN
  BY <1>1 DEF UpdaterTyped, UpdaterRecord
<1>3. QED BY <1>1, <1>2 DEF CheckFollows

LEMMA ReadDeferredStep ==
    ASSUME UpdaterInv, NEW t \in Checkers, ReadDeferred(t) PROVE UpdaterInv'
<1> DEFINE deferred == config.deferred = checks[t].release
           new == [checks[t] EXCEPT !.pc = "announce", !.deferred = deferred]
<1>a. /\ checks[t].pc = "compare" /\ checks[t].pc \in Holding \ {"begun"}
      /\ UNCHANGED <<window, installs, native, config, shown, stagedFile, world, faults>>
  BY DEF ReadDeferred, Holding
<1>b. /\ updater.ready = FALSE /\ UpdaterTyped /\ ChecksTyped
      /\ checks[t].release \in Releases /\ Fits(checks[t].release, current, Target)
  BY <1>a, HoldingFacts DEF Found
<1>c. new \in CheckRecord /\ new.pc = "announce" /\ new.release = checks[t].release
  <2> DEFINE P == {"idle", "due"} \cup Holding
             R == Releases \cup {0}
             B == BOOLEAN
  <2>1. /\ checks[t] \in [pc : P, beta : B, release : R, deferred : B]
        /\ "announce" \in P /\ deferred \in B
    BY TypedFacts DEF CheckRecord, Holding
  <2> HIDE DEF P, R, B, deferred
  <2>2. /\ new \in [pc : P, beta : B, release : R, deferred : B]
        /\ new.pc = "announce" /\ new.release = checks[t].release
    BY <2>1
  <2>3. QED BY <2>2 DEF CheckRecord, P, R, B
<1>d. checks' = [checks EXCEPT ![t] = new]
  BY <1>b DEF ReadDeferred, ChecksTyped
<1> HIDE DEF new, deferred
<1>e. ChecksTyped' /\ \A u \in Checkers : checks'[u] = IF u = t THEN new ELSE checks[u]
  BY <1>b, <1>c, <1>d, CheckGoes, Zenon
<1>1. /\ \A u \in Checkers : u # t => checks'[u] = checks[u]
      /\ checks'[t].pc = "announce" /\ checks'[t].release = checks[t].release
  BY <1>c, <1>e
<1>2. CheckFollows(t)'
  BY <1>1, <1>a, <1>b DEF CheckFollows, Found, Holding, shown, world, Target
<1>3. UpdaterTyped' /\ updater'.beta = updater.beta /\ ReadyMeansStaged'
  BY <1>a, <1>b DEF UpdaterTyped, ReadyMeansStaged, shown
<1>4. InstallerFits'
  BY <1>a DEF UpdaterInv, InstallerFits, shown, world, Target
<1>5. WorldTyped'
  BY <1>a DEF UpdaterInv, UpdaterTypes, WorldTyped, shown, world
<1>6. UNCHANGED <<window, installs, config, sparkle>>
  BY <1>a DEF world
<1>7. checks'[t].pc \in {"idle"} \cup (Holding \ {"begun"}) /\ checks'[t].pc # "idle"
  BY <1>1 DEF Holding
<1>8. QED BY <1>1, <1>a, <1>e, <1>2, <1>3, <1>4, <1>5, <1>6, <1>7, HoldingStep

LEMMA AnnounceDeferredStep ==
    ASSUME UpdaterInv, NEW t \in Checkers, AnnounceDeferred(t) PROVE UpdaterInv'
<1>a. /\ Ends(t, "announce") /\ checks[t].pc = "announce"
      /\ "announce" \in Holding \ {"begun"} /\ "announce" \in Found
      /\ updater' = [updater EXCEPT !.status = "deferred", !.mandatory = FALSE,
                                    !.available = checks[t].release]
      /\ UNCHANGED <<window, installs, native, config, staged, stagedFile, world, faults>>
  BY DEF AnnounceDeferred, Ends, Holding, Found
<1>b. updater.ready = FALSE /\ UpdaterTyped /\ checks[t].release \in Releases
  BY <1>a, HoldingFacts
<1>c. /\ UpdaterTyped' /\ updater'.status = "deferred" /\ updater'.ready = FALSE
      /\ updater'.beta = updater.beta
  <2>1. /\ "deferred" \in Statuses /\ FALSE \in BOOLEAN
        /\ checks[t].release \in Releases \cup {0}
    BY <1>b DEF Statuses
  <2> DEFINE r == checks[t].release
  <2>2. /\ updater' = [updater EXCEPT !.status = "deferred", !.mandatory = FALSE,
                                      !.available = r]
        /\ r \in Releases \cup {0}
    BY <1>a, <2>1
  <2> HIDE DEF r
  <2>3. QED BY <1>b, <2>1, <2>2, ReleaseShown
<1>d. faults' \in 0..MaxFaults
  BY <1>a DEF UpdaterInv, UpdaterTypes, WorldTyped
<1>e. UNCHANGED <<window, installs, native, config, staged, stagedFile, world>>
  BY <1>a
<1>f. updater'.status \notin {"checking", "downloading"}
  BY <1>c
<1>1. QED BY <1>a, <1>c, <1>d, <1>e, <1>f, EndingStep

\* What both announcements show.
LEMMA Announced ==
    ASSUME UpdaterInv, NEW t \in Checkers, checks[t].pc = "announce",
           NEW status \in {"available", "downloading"}, Announces(t, status)
    PROVE  /\ UpdaterTyped' /\ updater'.status = status /\ updater'.ready = FALSE
           /\ updater'.beta = updater.beta /\ updater'.available = checks[t].release
           /\ checks[t].release \in Releases /\ Fits(checks[t].release, current, Target)
<1>1. checks[t].pc \in Holding \ {"begun"} /\ checks[t].pc \in Found
  BY DEF Holding, Found
<1>2. /\ UpdaterTyped /\ checks[t].release \in Releases
      /\ Fits(checks[t].release, current, Target)
  BY <1>1, HoldingFacts
<1> DEFINE r == checks[t].release
           critical == r \in Mandatory
<1>3. /\ updater' = [updater EXCEPT !.status = status, !.available = r,
                                    !.mandatory = critical, !.ready = FALSE]
      /\ r \in Releases \cup {0} /\ critical \in BOOLEAN /\ FALSE \in BOOLEAN
      /\ status \in Statuses /\ r # 0
  BY <1>2, FeedAssumption DEF Announces, Statuses
<1> HIDE DEF r, critical
<1>4. /\ UpdaterTyped' /\ updater'.status = status /\ updater'.available = r
      /\ updater'.ready = FALSE /\ updater'.beta = updater.beta
  BY <1>2, <1>3, ReleaseShown
<1>5. QED BY <1>2, <1>4 DEF r

LEMMA AnnounceToSparkleStep ==
    ASSUME UpdaterInv, NEW t \in Checkers, AnnounceToSparkle(t) PROVE UpdaterInv'
<1>a. /\ sparkle /\ Announces(t, "available") /\ checks[t].pc = "announce"
      /\ \/ Goes(t, "announce", "native")
         \/ Ends(t, "announce")
      /\ UNCHANGED <<window, installs, native, config, staged, stagedFile, world, faults>>
  BY DEF AnnounceToSparkle, Goes, Ends
<1>b. /\ UpdaterTyped' /\ updater'.status = "available" /\ updater'.ready = FALSE
      /\ updater'.beta = updater.beta /\ updater'.available = checks[t].release
      /\ checks[t].release \in Releases /\ Fits(checks[t].release, current, Target)
  <2>1. "available" \in {"available", "downloading"}
    OBVIOUS
  <2>2. QED BY <1>a, <2>1, Announced
<1>c. "announce" \in Holding \ {"begun"} /\ "native" \in Holding \ {"begun"}
  BY DEF Holding
<1>1. CASE Ends(t, "announce")
  <2>1. faults' \in 0..MaxFaults
    BY <1>a DEF UpdaterInv, UpdaterTypes, WorldTyped
  <2>2. UNCHANGED <<window, installs, native, config, staged, stagedFile, world>>
    BY <1>a
  <2>3. QED BY <1>a, <1>b, <1>c, <1>1, <2>1, <2>2, EndingStep
<1>2. CASE Goes(t, "announce", "native")
  <2>1. checks'[t].pc = "native" /\ checks'[t].release = checks[t].release
    <3>1. "native" \in {"idle", "due"} \cup Holding
      BY DEF Holding
    <3>2. QED BY <1>2, <3>1, GoesOn DEF UpdaterInv, UpdaterTypes
  <2>2. CheckFollows(t)'
    BY <1>a, <1>b, <2>1 DEF CheckFollows, Found, Holding, world, Target
  <2>3. QED BY <1>a, <1>b, <1>c, <1>2, <2>2, GoingStep
<1>3. QED BY <1>a, <1>1, <1>2

LEMMA AnnounceDownloadStep ==
    ASSUME UpdaterInv, NEW t \in Checkers, AnnounceDownload(t) PROVE UpdaterInv'
<1>a. /\ Announces(t, "downloading") /\ checks[t].pc = "announce"
      /\ Goes(t, "announce", "download")
      /\ UNCHANGED <<window, installs, native, config, staged, stagedFile, world, faults>>
  BY DEF AnnounceDownload, Goes
<1>b. /\ UpdaterTyped' /\ updater'.status = "downloading" /\ updater'.ready = FALSE
      /\ updater'.beta = updater.beta /\ updater'.available = checks[t].release
      /\ checks[t].release \in Releases /\ Fits(checks[t].release, current, Target)
  <2>1. "downloading" \in {"available", "downloading"}
    OBVIOUS
  <2>2. QED BY <1>a, <2>1, Announced
<1>c. "announce" \in Holding \ {"begun"} /\ "download" \in Holding \ {"begun"}
  BY DEF Holding
<1>1. checks'[t].pc = "download" /\ checks'[t].release = checks[t].release
  <2>1. "download" \in {"idle", "due"} \cup Holding
    BY DEF Holding
  <2>2. QED BY <1>a, <2>1, GoesOn DEF UpdaterInv, UpdaterTypes
<1>2. CheckFollows(t)'
  BY <1>a, <1>b, <1>1 DEF CheckFollows, Found, Holding, world, Target
<1>3. QED BY <1>a, <1>b, <1>c, <1>2, GoingStep

LEMMA SparkleChecksStep ==
    ASSUME UpdaterInv, NEW t \in Checkers, SparkleChecks(t) PROVE UpdaterInv'
<1>a. /\ Ends(t, "native") /\ checks[t].pc = "native"
      /\ "native" \in Holding \ {"begun"}
      /\ \/ UNCHANGED <<updater, faults>>
         \/ Fault("sparkle") /\ Shows("error")
      /\ UNCHANGED <<window, installs, native, config, staged, stagedFile, world>>
  BY DEF SparkleChecks, Ends, Holding
<1>b. updater.ready = FALSE /\ UpdaterTyped /\ sparkle
  BY <1>a, HoldingFacts
<1>c. UpdaterTyped' /\ updater'.ready = FALSE /\ updater'.beta = updater.beta
  <2>1. CASE UNCHANGED updater
    BY <1>b, <2>1 DEF UpdaterTyped
  <2>2. CASE Shows("error")
    <3>1. "error" \in Statuses
      BY DEF Statuses
    <3>2. QED BY <1>b, <2>2, <3>1, StatusShown
  <2>3. QED BY <1>a, <2>1, <2>2
<1>d. faults' \in 0..MaxFaults
  BY <1>a, LimitsAssumption DEF UpdaterInv, UpdaterTypes, WorldTyped, Fault
<1>e. UNCHANGED <<window, installs, native, config, staged, stagedFile, world>>
  BY <1>a
<1>1. QED BY <1>a, <1>b, <1>c, <1>d, <1>e, EndingStep

LEMMA DownloadStep ==
    ASSUME UpdaterInv, NEW t \in Checkers, Download(t) PROVE UpdaterInv'
<1>a. /\ checks[t].pc = "download" /\ "download" \in Holding \ {"begun"}
      /\ checks[t].pc \in Found
      /\ \/ /\ Goes(t, "download", "publish")
            /\ stagedFile' = checks[t].release /\ UNCHANGED <<updater, faults>>
         \/ /\ Fails(t, "download") /\ Ends(t, "download")
            /\ Shows("error") /\ UNCHANGED stagedFile
      /\ UNCHANGED <<window, installs, native, config, staged, world>>
  BY DEF Download, Goes, Ends, Holding, Found
<1>b. /\ updater.ready = FALSE /\ UpdaterTyped /\ ChecksTyped
      /\ checks[t].release \in Releases /\ Fits(checks[t].release, current, Target)
      /\ updater.available = checks[t].release
  BY <1>a, HoldingFacts
<1>1. CASE /\ Goes(t, "download", "publish")
           /\ stagedFile' = checks[t].release /\ UNCHANGED <<updater, faults>>
  <2>1. /\ checks[t].pc = "download" /\ ChecksTyped'
        /\ \A u \in Checkers : u # t => checks'[u] = checks[u]
        /\ checks'[t].pc = "publish" /\ checks'[t].release = checks[t].release
    <3>1. "publish" \in {"idle", "due"} \cup Holding
      BY DEF Holding
    <3>2. QED BY <1>1, <1>b, <3>1, GoesOn
  <2>2. CheckFollows(t)'
    BY <1>1, <1>a, <1>b, <2>1 DEF CheckFollows, Found, Holding, world, Target
  <2>3. UpdaterTyped' /\ updater'.beta = updater.beta /\ ReadyMeansStaged'
    BY <1>1, <1>b DEF UpdaterTyped, ReadyMeansStaged
  <2>4. InstallerFits'
    BY <1>1, <1>a, <1>b DEF UpdaterInv, InstallerFits, world, Target
  <2>5. WorldTyped'
    BY <1>1, <1>a, <1>b DEF UpdaterInv, UpdaterTypes, WorldTyped, world
  <2>6. UNCHANGED <<window, installs, config, sparkle>>
    BY <1>a DEF world
  <2>7. checks'[t].pc \in {"idle"} \cup (Holding \ {"begun"}) /\ checks'[t].pc # "idle"
    BY <2>1 DEF Holding
  <2>8. QED BY <1>a, <2>1, <2>2, <2>3, <2>4, <2>5, <2>6, <2>7, HoldingStep
<1>2. CASE /\ Fails(t, "download") /\ Ends(t, "download")
           /\ Shows("error") /\ UNCHANGED stagedFile
  <2>1. /\ UpdaterTyped' /\ updater'.status = "error" /\ updater'.ready = FALSE
        /\ updater'.beta = updater.beta
    <3>1. "error" \in Statuses
      BY DEF Statuses
    <3>2. QED BY <1>b, <1>2, <3>1, StatusShown
  <2>2. faults' \in 0..MaxFaults
    BY <1>2, LimitsAssumption DEF UpdaterInv, UpdaterTypes, WorldTyped, Fails, Fault
  <2>3. UNCHANGED <<window, installs, native, config, staged, stagedFile, world>>
    BY <1>a, <1>2
  <2>4. QED BY <1>a, <1>2, <2>1, <2>2, <2>3, EndingStep
<1>3. QED BY <1>a, <1>1, <1>2

LEMMA PublishStep ==
    ASSUME UpdaterInv, NEW t \in Checkers, Publish(t) PROVE UpdaterInv'
<1>a. /\ Ends(t, "publish") /\ checks[t].pc = "publish"
      /\ checks[t].pc \in Holding \ {"begun"} /\ checks[t].pc \in Found
      /\ staged' = TRUE
      /\ updater' = [updater EXCEPT !.status = "ready", !.ready = TRUE]
      /\ UNCHANGED <<window, installs, native, config, stagedFile, world, faults>>
  BY DEF Publish, Ends, Holding, Found
<1>b. /\ UpdaterTyped /\ ChecksTyped
      /\ checks[t].release \in Releases /\ Fits(checks[t].release, current, Target)
      /\ updater.available = checks[t].release /\ stagedFile = checks[t].release
  BY <1>a, HoldingFacts
<1>c. /\ UpdaterTyped' /\ updater'.status = "ready"
      /\ updater'.available = updater.available /\ updater'.beta = updater.beta
  <2>1. updater.available # 0
    BY <1>b, FeedAssumption
  <2>2. QED BY <1>a, <1>b, <2>1, StagedShown
<1>1. /\ ChecksTyped' /\ \A u \in Checkers : u # t => checks'[u] = checks[u]
      /\ checks'[t].pc = "idle"
  BY <1>a, <1>b, EndsThere
<1>2. CheckFollows(t)'
  BY <1>1 DEF CheckFollows, Holding, Found
<1>3. ReadyMeansStaged'
  BY <1>a, <1>b, <1>c DEF ReadyMeansStaged
<1>4. InstallerFits'
  BY <1>a, <1>b DEF UpdaterInv, InstallerFits, world, Target
<1>5. WorldTyped'
  BY <1>a DEF UpdaterInv, UpdaterTypes, WorldTyped, world
<1>6. UNCHANGED <<window, installs, config, sparkle>>
  BY <1>a DEF world
<1>7. updater'.status \notin {"checking", "downloading"}
  BY <1>c
<1>8. QED BY <1>a, <1>c, <1>1, <1>2, <1>3, <1>4, <1>5, <1>6, <1>7, HoldingStep

\* A call of the window changes what the window does, and with it nothing else of
\* what the invariant speaks of.
LEMMA WindowStep ==
    ASSUME UpdaterInv, WindowTyped', window.pc # "feed" \/ window'.pc = "feed",
           UNCHANGED <<checks, installs, native, config, shown, stagedFile, world>>,
           faults' \in 0..MaxFaults
    PROVE  UpdaterInv'
<1>1. UpdaterTypes'
  BY DEF UpdaterInv, UpdaterTypes, ChecksTyped, UpdaterTyped, ConfigTyped, InstallsTyped,
         WorldTyped, shown, world
<1>2. OneHolds'
  BY DEF UpdaterInv, OneHolds
<1>3. ChecksFollow'
  BY DEF UpdaterInv, ChecksFollow, CheckFollows, shown, world, Target
<1>4. InstallerFits'
  BY DEF UpdaterInv, InstallerFits, shown, world, Target
<1>5. ReadyMeansStaged'
  BY DEF UpdaterInv, ReadyMeansStaged, shown
<1>6. ChannelSettles'
  BY DEF UpdaterInv, ChannelSettles, Unsettled, Settles, shown, world
<1>7. CheckingMeansChecking'
  BY DEF UpdaterInv, CheckingMeansChecking, shown, world
<1>8. QED BY <1>1, <1>2, <1>3, <1>4, <1>5, <1>6, <1>7 DEF UpdaterInv

\* The records of the calls of the window.
LEMMA CallTyping ==
    ASSUME NEW call \in CallRecord, NEW beta \in BOOLEAN, NEW version \in Releases \cup {0},
           NEW pc \in {"idle", "defer", "save", "channel", "feed"}
    PROVE  /\ NoCall \in CallRecord /\ [NoCall EXCEPT !.pc = pc] \in CallRecord
           /\ [call EXCEPT !.pc = pc] \in CallRecord /\ [call EXCEPT !.pc = pc].pc = pc
           /\ [call EXCEPT !.pc = pc, !.version = version] \in CallRecord
           /\ [call EXCEPT !.pc = pc, !.version = version].pc = pc
           /\ [call EXCEPT !.pc = pc, !.beta = beta] \in CallRecord
           /\ [call EXCEPT !.pc = pc, !.beta = beta].pc = pc
<1> DEFINE P == {"idle", "defer", "save", "channel", "feed"}
           R == Releases \cup {0}
           B == BOOLEAN
<1>1. /\ call \in [pc : P, version : R, beta : B] /\ pc \in P /\ version \in R /\ beta \in B
      /\ FALSE \in B /\ "idle" \in P /\ 0 \in R
  BY DEF CallRecord
<1> HIDE DEF P, R, B
<1>2. /\ NoCall \in [pc : P, version : R, beta : B]
      /\ [NoCall EXCEPT !.pc = pc] \in [pc : P, version : R, beta : B]
  BY <1>1 DEF NoCall
<1>3. /\ [call EXCEPT !.pc = pc] \in [pc : P, version : R, beta : B]
      /\ [call EXCEPT !.pc = pc].pc = pc
  BY <1>1
<1>4. /\ [call EXCEPT !.pc = pc, !.version = version] \in [pc : P, version : R, beta : B]
      /\ [call EXCEPT !.pc = pc, !.version = version].pc = pc
  BY <1>1
<1>5. /\ [call EXCEPT !.pc = pc, !.beta = beta] \in [pc : P, version : R, beta : B]
      /\ [call EXCEPT !.pc = pc, !.beta = beta].pc = pc
  BY <1>1
<1>6. QED BY <1>2, <1>3, <1>4, <1>5 DEF CallRecord, P, R, B

LEMMA DeferralStep ==
    ASSUME UpdaterInv, SaveDeferral PROVE UpdaterInv'
<1>a. /\ window.pc = "save" /\ window' = NoCall
      /\ \/ /\ config' = [config EXCEPT !.deferred = window.version]
            /\ Shows("deferred") /\ UNCHANGED faults
         \/ Fault("save") /\ UNCHANGED <<config, updater>>
      /\ UNCHANGED <<checks, installs, native, staged, stagedFile, world>>
  BY DEF SaveDeferral
<1>b. WindowTyped'
  BY <1>a, CallTyping DEF UpdaterInv, UpdaterTypes, WindowTyped
<1>1. CASE Fault("save") /\ UNCHANGED <<config, updater>>
  <2>1. faults' \in 0..MaxFaults
    BY <1>1, LimitsAssumption DEF UpdaterInv, UpdaterTypes, WorldTyped, Fault
  <2>2. /\ UNCHANGED <<checks, installs, native, config, shown, stagedFile, world>>
        /\ window.pc # "feed"
    BY <1>1, <1>a DEF shown
  <2>3. QED BY <1>b, <2>1, <2>2, WindowStep
<1>2. CASE /\ config' = [config EXCEPT !.deferred = window.version]
           /\ Shows("deferred") /\ UNCHANGED faults
  <2>1. /\ UpdaterTyped' /\ updater'.status = "deferred"
        /\ updater'.available = updater.available /\ updater'.ready = updater.ready
        /\ updater'.beta = updater.beta
    <3>1. "deferred" \in Statuses
      BY DEF Statuses
    <3>2. QED BY <1>2, <3>1, StatusShown DEF UpdaterInv, UpdaterTypes
  <2>2. ConfigTyped' /\ config'.beta = config.beta
    <3> DEFINE R == Releases \cup {0}
               B == BOOLEAN
    <3>1. config \in [beta : B, deferred : R] /\ window.version \in R
      BY DEF UpdaterInv, UpdaterTypes, ConfigTyped, WindowTyped, CallRecord
    <3> HIDE DEF R, B
    <3>2. config' \in [beta : B, deferred : R] /\ config'.beta = config.beta
      BY <1>2, <3>1
    <3>3. QED BY <3>2 DEF ConfigTyped, R, B
  <2>3. UpdaterTypes'
    BY <1>a, <1>b, <1>2, <2>1, <2>2 DEF UpdaterInv, UpdaterTypes, ChecksTyped,
                                       InstallsTyped, WorldTyped, world
  <2>4. OneHolds'
    BY <1>a DEF UpdaterInv, OneHolds
  <2>5. ChecksFollow'
    BY <1>a, <2>1 DEF UpdaterInv, ChecksFollow, CheckFollows, world, Target
  <2>6. InstallerFits'
    BY <1>a DEF UpdaterInv, InstallerFits, world, Target
  <2>7. ReadyMeansStaged'
    BY <1>a, <2>1 DEF UpdaterInv, ReadyMeansStaged
  <2>8. ChannelSettles'
    BY <1>a, <2>1, <2>2 DEF UpdaterInv, ChannelSettles, Unsettled, Settles, world
  <2>9. CheckingMeansChecking'
    BY <2>1 DEF CheckingMeansChecking
  <2>10. QED BY <2>3, <2>4, <2>5, <2>6, <2>7, <2>8, <2>9 DEF UpdaterInv
<1>3. QED BY <1>a, <1>1, <1>2

LEMMA ChannelStep ==
    ASSUME UpdaterInv, SaveChannel PROVE UpdaterInv'
<1>a. /\ window.pc = "channel"
      /\ \/ /\ config' = [beta |-> window.beta, deferred |-> 0]
            /\ staged' = FALSE
            /\ updater' = [updater EXCEPT !.status = "checking", !.beta = window.beta,
                                          !.ready = FALSE]
            /\ window' = [NoCall EXCEPT !.pc = "feed"] /\ UNCHANGED faults
         \/ Fault("save") /\ window' = NoCall /\ UNCHANGED <<config, shown>>
      /\ UNCHANGED <<checks, installs, native, stagedFile, world>>
  BY DEF SaveChannel
<1>b. window \in CallRecord /\ window.beta \in BOOLEAN
  BY DEF UpdaterInv, UpdaterTypes, WindowTyped, CallRecord
<1>c. /\ NoCall \in CallRecord /\ [NoCall EXCEPT !.pc = "feed"] \in CallRecord
      /\ [NoCall EXCEPT !.pc = "feed"].pc = "feed"
  BY DEF NoCall, CallRecord
<1>1. CASE Fault("save") /\ window' = NoCall /\ UNCHANGED <<config, shown>>
  <2>1. faults' \in 0..MaxFaults
    BY <1>1, LimitsAssumption DEF UpdaterInv, UpdaterTypes, WorldTyped, Fault
  <2>2. /\ UNCHANGED <<checks, installs, native, config, shown, stagedFile, world>>
        /\ window.pc # "feed" /\ WindowTyped'
    BY <1>1, <1>a, <1>c DEF WindowTyped
  <2>3. QED BY <2>1, <2>2, WindowStep
<1>2. CASE /\ config' = [beta |-> window.beta, deferred |-> 0]
           /\ staged' = FALSE
           /\ updater' = [updater EXCEPT !.status = "checking", !.beta = window.beta,
                                         !.ready = FALSE]
           /\ window' = [NoCall EXCEPT !.pc = "feed"] /\ UNCHANGED faults
  <2>1. /\ UpdaterTyped' /\ updater'.status = "checking"
        /\ updater'.ready = FALSE /\ updater'.beta = window.beta
    BY <1>2, <1>b, ChannelShown DEF UpdaterInv, UpdaterTypes
  <2>2. ConfigTyped'
    BY <1>2, <1>b DEF ConfigTyped
  <2>3. WindowTyped' /\ window'.pc = "feed"
    BY <1>2, <1>c DEF WindowTyped
  <2>4. UpdaterTypes'
    BY <1>a, <1>2, <2>1, <2>2, <2>3 DEF UpdaterInv, UpdaterTypes, ChecksTyped,
                                       InstallsTyped, WorldTyped, world
  <2>5. OneHolds'
    BY <1>a DEF UpdaterInv, OneHolds
  <2>6. ChecksFollow'
    <3> SUFFICES ASSUME NEW t \in Checkers PROVE CheckFollows(t)'
      BY DEF ChecksFollow
    <3>1. CheckFollows(t)
      BY DEF UpdaterInv, ChecksFollow
    <3>2. updater'.available = updater.available
      <4> DEFINE B == BOOLEAN
                 R == Releases \cup {0}
      <4>1. updater \in [status : Statuses, available : R, mandatory : B, ready : B,
                         beta : B]
        BY DEF UpdaterInv, UpdaterTypes, UpdaterTyped, UpdaterRecord
      <4> HIDE DEF B, R
      <4>2. QED BY <1>2, <4>1
    <3>3. QED BY <1>a, <2>1, <3>1, <3>2 DEF CheckFollows, world, Target
  <2>7. InstallerFits'
    BY <1>a, <1>2 DEF UpdaterInv, InstallerFits, world, Target
  <2>8. ReadyMeansStaged'
    BY <2>1 DEF ReadyMeansStaged
  <2>9. ChannelSettles'
    BY <2>3 DEF ChannelSettles, Settles
  <2>10. CheckingMeansChecking'
    BY <2>3 DEF CheckingMeansChecking
  <2>11. QED BY <2>4, <2>5, <2>6, <2>7, <2>8, <2>9, <2>10 DEF UpdaterInv
<1>3. QED BY <1>a, <1>1, <1>2

LEMMA SwitchStep ==
    ASSUME UpdaterInv, SwitchFeed PROVE UpdaterInv'
<1>a. /\ window' = NoCall
      /\ \/ /\ \E t \in Spawned : Goes(t, "idle", "due")
            /\ UNCHANGED faults
         \/ native /\ sparkle /\ Fault("sparkle") /\ UNCHANGED checks
      /\ UNCHANGED <<installs, native, config, shown, stagedFile, world>>
  BY DEF SwitchFeed
<1>b. WindowTyped'
  BY <1>a DEF WindowTyped, NoCall, CallRecord
<1>1. CASE (\E t \in Spawned : Goes(t, "idle", "due")) /\ UNCHANGED faults
  <2>1. PICK t \in Checkers : Goes(t, "idle", "due")
    BY <1>1 DEF Checkers
  <2>2. faults' \in 0..MaxFaults
    BY <1>1 DEF UpdaterInv, UpdaterTypes, WorldTyped
  <2>3. QED BY <1>a, <1>b, <2>1, <2>2, DueStep
<1>2. CASE sparkle /\ Fault("sparkle") /\ UNCHANGED checks
  <2>1. faults' \in 0..MaxFaults
    BY <1>2, LimitsAssumption DEF UpdaterInv, UpdaterTypes, WorldTyped, Fault
  <2>2. UpdaterTypes'
    BY <1>a, <1>b, <1>2, <2>1 DEF UpdaterInv, UpdaterTypes, ChecksTyped, UpdaterTyped,
                                 ConfigTyped, InstallsTyped, WorldTyped, shown, world
  <2>3. OneHolds'
    BY <1>2 DEF UpdaterInv, OneHolds
  <2>4. ChecksFollow'
    BY <1>a, <1>2 DEF UpdaterInv, ChecksFollow, CheckFollows, shown, world, Target
  <2>5. InstallerFits'
    BY <1>a DEF UpdaterInv, InstallerFits, shown, world, Target
  <2>6. ReadyMeansStaged'
    BY <1>a DEF UpdaterInv, ReadyMeansStaged, shown
  <2>7. sparkle'
    BY <1>a, <1>2 DEF world
  <2>8. ChannelSettles' /\ CheckingMeansChecking'
    BY <2>7 DEF ChannelSettles, CheckingMeansChecking
  <2>9. QED BY <2>2, <2>3, <2>4, <2>5, <2>6, <2>8 DEF UpdaterInv
<1>3. QED BY <1>a, <1>1, <1>2

\* A step of an installation, which reads what is shown and staged.
LEMMA InstallsStep ==
    ASSUME UpdaterInv, InstallsTyped', InstallerFits', UpdaterTyped', WorldTyped',
           UNCHANGED <<checks, window, config, staged, stagedFile, sparkle, current>>,
           updater'.ready = updater.ready, updater'.available = updater.available,
           updater'.beta = updater.beta,
           updater'.status = updater.status \/ updater'.status = "error"
    PROVE  UpdaterInv'
<1>1. UpdaterTypes'
  BY DEF UpdaterInv, UpdaterTypes, ChecksTyped, WindowTyped, ConfigTyped
<1>2. OneHolds'
  BY DEF UpdaterInv, OneHolds
<1>3. ChecksFollow'
  BY DEF UpdaterInv, ChecksFollow, CheckFollows, Target
<1>4. ReadyMeansStaged'
  BY DEF UpdaterInv, ReadyMeansStaged
<1>5. ChannelSettles'
  BY DEF UpdaterInv, ChannelSettles, Unsettled, Settles
<1>6. CheckingMeansChecking'
  BY DEF UpdaterInv, CheckingMeansChecking
<1>7. QED BY <1>1, <1>2, <1>3, <1>4, <1>5, <1>6 DEF UpdaterInv

\* A step of one caller of InstallUpdate leaves the other alone.
LEMMA StepsOn ==
    ASSUME UpdaterInv, NEW c \in Callers, NEW from,
           NEW to \in {"idle", "read", "launch", "quit", "exit"}, Steps(c, from, to)
    PROVE  /\ installs[c] = from /\ InstallsTyped'
           /\ \A d \in Callers : installs'[d] = IF d = c THEN to ELSE installs[d]
BY DEF UpdaterInv, UpdaterTypes, InstallsTyped, Steps

LEMMA InstallStep ==
    ASSUME UpdaterInv, NEW c \in Callers, PressInstall(c) \/ InstallUpdate(c)
    PROVE  UpdaterInv'
<1> DEFINE goes == native /\ ~sparkle /\ staged /\ updater.status \in {"ready", "deferred"}
<1>1. UNCHANGED <<checks, window, native, config, shown, stagedFile, world, faults>>
  BY DEF PressInstall, InstallUpdate
<1>2. PICK to \in {"idle", "read", "launch"} :
        (\E from : Steps(c, from, to)) /\ (to = "launch" => staged)
  BY Zenon DEF PressInstall, InstallUpdate
<1>3. /\ InstallsTyped'
      /\ \A d \in Callers : installs'[d] = IF d = c THEN to ELSE installs[d]
  BY <1>2, StepsOn
<1>4. InstallerFits'
  BY <1>1, <1>2, <1>3 DEF UpdaterInv, InstallerFits, shown, world, Target
<1>5. UpdaterTyped' /\ WorldTyped'
  BY <1>1 DEF UpdaterInv, UpdaterTypes, UpdaterTyped, WorldTyped, shown, world
<1>6. QED BY <1>1, <1>3, <1>4, <1>5, InstallsStep DEF shown, world

LEMMA LaunchStep ==
    ASSUME UpdaterInv, NEW c \in Callers, Launch(c) PROVE UpdaterInv'
<1>a. UNCHANGED <<checks, window, sparkle, native, config, staged, stagedFile, current,
                  feed, changes>>
  BY DEF Launch
<1>1. CASE /\ Steps(c, "launch", "quit")
           /\ launched' = launched \cup {stagedFile} /\ UNCHANGED <<updater, faults>>
  <2>1. /\ installs[c] = "launch" /\ InstallsTyped'
        /\ \A d \in Callers : installs'[d] = IF d = c THEN "quit" ELSE installs[d]
    BY <1>1, StepsOn
  <2>2. stagedFile \in Releases /\ Fits(stagedFile, current, Target)
    BY <2>1 DEF UpdaterInv, InstallerFits
  <2>3. InstallerFits'
    BY <1>a, <1>1, <2>1, <2>2 DEF UpdaterInv, InstallerFits, Target
  <2>4. UpdaterTyped'
    BY <1>1 DEF UpdaterInv, UpdaterTypes, UpdaterTyped
  <2>5. WorldTyped'
    BY <1>a, <1>1, <2>2 DEF UpdaterInv, UpdaterTypes, WorldTyped
  <2>6. QED BY <1>a, <1>1, <2>1, <2>3, <2>4, <2>5, InstallsStep
<1>2. CASE /\ Fault("install") /\ Steps(c, "launch", "idle")
           /\ Shows("error") /\ UNCHANGED launched
  <2>1. /\ InstallsTyped'
        /\ \A d \in Callers : installs'[d] = IF d = c THEN "idle" ELSE installs[d]
    BY <1>2, StepsOn
  <2>2. InstallerFits'
    BY <1>a, <1>2, <2>1 DEF UpdaterInv, InstallerFits, Target
  <2>3. /\ UpdaterTyped' /\ updater'.status = "error"
        /\ updater'.available = updater.available /\ updater'.ready = updater.ready
        /\ updater'.beta = updater.beta
    <3>1. "error" \in Statuses
      BY DEF Statuses
    <3>2. QED BY <1>2, <3>1, StatusShown DEF UpdaterInv, UpdaterTypes
  <2>4. WorldTyped'
    BY <1>a, <1>2, LimitsAssumption DEF UpdaterInv, UpdaterTypes, WorldTyped, Fault
  <2>5. QED BY <1>a, <2>1, <2>2, <2>3, <2>4, InstallsStep
<1>3. QED BY <1>1, <1>2 DEF Launch

LEMMA QuitStep ==
    ASSUME UpdaterInv, NEW c \in Callers, Quit(c) PROVE UpdaterInv'
<1>a. /\ Steps(c, "quit", "exit") /\ native' = FALSE
      /\ UNCHANGED <<checks, window, sparkle, config, shown, stagedFile, launched, current,
                     feed, changes, faults>>
  BY DEF Quit
<1>1. /\ InstallsTyped'
      /\ \A d \in Callers : installs'[d] = IF d = c THEN "exit" ELSE installs[d]
  BY <1>a, StepsOn
<1>2. InstallerFits'
  BY <1>a, <1>1 DEF UpdaterInv, InstallerFits, shown, Target
<1>3. UpdaterTyped' /\ WorldTyped'
  BY <1>a DEF UpdaterInv, UpdaterTypes, UpdaterTyped, WorldTyped, shown
<1>4. QED BY <1>a, <1>1, <1>2, <1>3, InstallsStep DEF shown

\* Whatever went on, nothing is left of it in the version that starts.
LEMMA StartStep ==
    ASSUME UpdaterInv, NEW v \in Releases, NEW started \in BOOLEAN, Starts(v, started),
           started \/ sparkle, faults' \in 0..MaxFaults
    PROVE  UpdaterInv'
<1>a. /\ current' = v /\ window' = NoCall /\ installs' = [c \in Callers |-> "idle"]
      /\ native' = started /\ staged' = FALSE /\ launched' = {}
      /\ UNCHANGED <<sparkle, config, stagedFile, feed, changes>>
  BY DEF Starts
<1>b. /\ updater' = [status |-> IF started THEN "current" ELSE "error", available |-> 0,
                     mandatory |-> FALSE, ready |-> FALSE,
                     beta |-> started /\ config.beta]
      /\ checks' = [t \in Checkers |->
            IF t = "ticker" /\ started THEN [NoCheck EXCEPT !.pc = "due"] ELSE NoCheck]
  BY DEF Starts
<1>1. ChecksTyped' /\ \A t \in Checkers : checks'[t].pc \in {"idle", "due"}
  <2>1. /\ NoCheck \in CheckRecord /\ NoCheck.pc = "idle"
        /\ [NoCheck EXCEPT !.pc = "due"] \in CheckRecord
        /\ [NoCheck EXCEPT !.pc = "due"].pc = "due"
    BY DEF NoCheck, CheckRecord
  <2>2. QED BY <1>b, <2>1 DEF ChecksTyped
<1>2. /\ UpdaterTyped' /\ updater'.status \in {"current", "error"}
      /\ updater'.ready = FALSE /\ (updater'.beta = config.beta \/ sparkle)
  <2>1. config.beta \in BOOLEAN /\ (started /\ config.beta) \in BOOLEAN
    BY DEF UpdaterInv, UpdaterTypes, ConfigTyped
  <2>2. QED BY <1>b, <2>1 DEF UpdaterTyped, UpdaterRecord, Statuses
<1>3. WindowTyped'
  BY <1>a DEF WindowTyped, NoCall, CallRecord
<1>4. InstallsTyped' /\ \A c \in Callers : installs'[c] = "idle"
  BY <1>a DEF InstallsTyped
<1>5. WorldTyped' /\ ConfigTyped'
  BY <1>a DEF UpdaterInv, UpdaterTypes, ConfigTyped, WorldTyped
<1>6. UpdaterTypes'
  BY <1>1, <1>2, <1>3, <1>4, <1>5 DEF UpdaterTypes
<1>7. OneHolds'
  BY <1>1 DEF OneHolds, Holding
<1>8. ChecksFollow'
  BY <1>1 DEF ChecksFollow, CheckFollows, Holding, Found
<1>9. InstallerFits'
  BY <1>a, <1>4 DEF InstallerFits
<1>10. ReadyMeansStaged'
  BY <1>2 DEF ReadyMeansStaged
<1>11. ChannelSettles'
  BY <1>a, <1>1, <1>2 DEF ChannelSettles, Unsettled
<1>12. CheckingMeansChecking'
  BY <1>2 DEF CheckingMeansChecking
<1>13. QED BY <1>6, <1>7, <1>8, <1>9, <1>10, <1>11, <1>12 DEF UpdaterInv

LEMMA PromoteStep ==
    ASSUME UpdaterInv, NEW beta \in BOOLEAN, NEW releases \in Feeds, Promote(beta, releases)
    PROVE  UpdaterInv'
<1>a. /\ changes < MaxChanges /\ changes' = changes + 1
      /\ feed' = [feed EXCEPT ![beta] = releases]
      /\ UNCHANGED <<checks, window, installs, sparkle, native, config, shown, stagedFile,
                     launched, current, faults>>
  BY DEF Promote
<1>1. WorldTyped'
  BY <1>a, LimitsAssumption DEF UpdaterInv, UpdaterTypes, WorldTyped, shown
<1>2. InstallsTyped' /\ UpdaterTyped'
  BY <1>a DEF UpdaterInv, UpdaterTypes, InstallsTyped, UpdaterTyped, shown
<1>3. InstallerFits'
  BY <1>a DEF UpdaterInv, InstallerFits, shown, Target
<1>4. QED BY <1>a, <1>1, <1>2, <1>3, InstallsStep DEF shown

LEMMA PressStep ==
    ASSUME UpdaterInv, PressDefer \/ ReadAvailable \/ \E beta \in BOOLEAN : PressChannel(beta)
    PROVE  UpdaterInv'
<1>a. /\ window \in CallRecord /\ updater.available \in Releases \cup {0}
      /\ faults \in 0..MaxFaults
  BY DEF UpdaterInv, UpdaterTypes, WindowTyped, UpdaterTyped, UpdaterRecord, WorldTyped
<1>b. /\ "defer" \in {"idle", "defer", "save", "channel", "feed"}
      /\ "save" \in {"idle", "defer", "save", "channel", "feed"}
      /\ "channel" \in {"idle", "defer", "save", "channel", "feed"}
  OBVIOUS
<1>1. CASE PressDefer
  <2>1. /\ window' = [window EXCEPT !.pc = "defer"] /\ window.pc # "feed"
        /\ UNCHANGED <<checks, installs, native, config, shown, stagedFile, world, faults>>
    BY <1>1 DEF PressDefer, Busy
  <2>2. WindowTyped'
    BY <1>a, <1>b, <2>1, CallTyping DEF WindowTyped
  <2>3. UNCHANGED <<checks, installs, native, config, shown, stagedFile, world>>
    BY <2>1
  <2>4. QED BY <1>a, <2>1, <2>2, <2>3, WindowStep
<1>2. CASE ReadAvailable
  <2>1. /\ window' = IF updater.available = 0 \/ updater.mandatory THEN NoCall
                     ELSE [window EXCEPT !.pc = "save", !.version = updater.available]
        /\ window.pc # "feed"
        /\ UNCHANGED <<checks, installs, native, config, shown, stagedFile, world, faults>>
    BY <1>2 DEF ReadAvailable
  <2>2. WindowTyped'
    BY <1>a, <1>b, <2>1, CallTyping, ZenonT(30) DEF WindowTyped
  <2>3. UNCHANGED <<checks, installs, native, config, shown, stagedFile, world>>
    BY <2>1
  <2>4. QED BY <1>a, <2>1, <2>2, <2>3, WindowStep
<1>3. ASSUME NEW beta \in BOOLEAN, PressChannel(beta) PROVE UpdaterInv'
  <2>1. /\ window' = [window EXCEPT !.pc = "channel", !.beta = beta] /\ window.pc # "feed"
        /\ UNCHANGED <<checks, installs, native, config, shown, stagedFile, world, faults>>
    BY <1>3 DEF PressChannel, Busy
  <2>2. WindowTyped'
    BY <1>a, <1>b, <2>1, CallTyping, ZenonT(30) DEF WindowTyped
  <2>3. UNCHANGED <<checks, installs, native, config, shown, stagedFile, world>>
    BY <2>1
  <2>4. QED BY <1>a, <2>1, <2>2, <2>3, WindowStep
<1>4. QED BY <1>1, <1>2, <1>3

LEMMA AskingStep ==
    ASSUME UpdaterInv, Tick \/ PressCheck PROVE UpdaterInv'
<1>1. PICK t \in Checkers : Goes(t, "idle", "due")
  BY DEF Tick, PressCheck, Checkers
<1>2. UNCHANGED <<window, installs, native, config, shown, stagedFile, world, faults>>
  BY DEF Tick, PressCheck
<1>3. WindowTyped' /\ faults' \in 0..MaxFaults
  BY <1>2 DEF UpdaterInv, UpdaterTypes, WindowTyped, WorldTyped
<1>4. UNCHANGED <<installs, native, config, shown, stagedFile, world>>
  BY <1>2
<1>5. QED BY <1>1, <1>3, <1>4, DueStep

\* The three ways in which the process ends and is started.
LEMMA StartsStep ==
    ASSUME UpdaterInv, Exit \/ SparkleInstalls \/ Restart PROVE UpdaterInv'
<1>a. /\ current \in Releases /\ launched \subseteq Releases /\ faults \in 0..MaxFaults
      /\ config.beta \in BOOLEAN
  BY DEF UpdaterInv, UpdaterTypes, WorldTyped, ConfigTyped
<1>b. \A kind : Fault(kind) => faults' \in 0..MaxFaults
  BY <1>a, LimitsAssumption DEF Fault
<1>1. CASE Exit
  <2>1. PICK v \in launched \cup {current} : Starts(v, TRUE)
    BY <1>1 DEF Exit
  <2>2. v \in Releases /\ TRUE \in BOOLEAN /\ faults' \in 0..MaxFaults
    BY <1>1, <1>a DEF Exit
  <2>3. QED BY <2>1, <2>2, StartStep
<1>2. CASE SparkleInstalls
  <2> DEFINE release == Selection[feed[config.beta]][current][Target]
  <2>1. release \in Releases
    BY <1>2, <1>a, SelectionFits DEF SparkleInstalls
  <2>2. /\ \/ Starts(release, TRUE) /\ UNCHANGED faults
           \/ Fault("start") /\ Starts(release, FALSE)
        /\ sparkle
    BY <1>2 DEF SparkleInstalls
  <2> HIDE DEF release
  <2>3. faults' \in 0..MaxFaults
    BY <1>a, <1>b, <2>2
  <2>4. \E started \in BOOLEAN : Starts(release, started)
    BY <2>2
  <2>5. QED BY <2>1, <2>2, <2>3, <2>4, StartStep
<1>3. CASE Restart
  <2>1. PICK started \in IF sparkle THEN BOOLEAN ELSE {TRUE} : Starts(current, started)
    BY <1>3 DEF Restart
  <2>2. faults' \in 0..MaxFaults
    BY <1>3, <1>b DEF Restart
  <2>3. started \in BOOLEAN /\ (started \/ sparkle)
    BY <2>1
  <2>4. QED BY <1>a, <2>1, <2>2, <2>3, StartStep
<1>4. QED BY <1>1, <1>2, <1>3

LEMMA UpdaterBegins == Init => UpdaterInv
<1> SUFFICES ASSUME Init PROVE UpdaterInv
  OBVIOUS
<1>a. /\ checks = [[t \in Checkers |-> NoCheck] EXCEPT !["ticker"].pc = "due"]
      /\ window = NoCall /\ installs = [c \in Callers |-> "idle"]
      /\ sparkle \in Platforms /\ native = TRUE
      /\ config = [beta |-> FALSE, deferred |-> 0]
      /\ updater = [status |-> "current", available |-> 0, mandatory |-> FALSE,
                    ready |-> FALSE, beta |-> FALSE]
      /\ staged = FALSE /\ stagedFile = 0 /\ launched = {}
      /\ current = 1 /\ changes = 0 /\ faults = 0
      /\ feed \in {[beta \in BOOLEAN |-> releases] : releases \in Feeds \ {<<>>}}
  BY DEF Init
<1>1. ChecksTyped /\ \A t \in Checkers : checks[t].pc \in {"idle", "due"}
  <2>1. /\ NoCheck \in CheckRecord /\ NoCheck.pc = "idle"
        /\ [NoCheck EXCEPT !.pc = "due"] \in CheckRecord
        /\ [NoCheck EXCEPT !.pc = "due"].pc = "due"
    BY DEF NoCheck, CheckRecord
  <2>2. "ticker" \in Checkers
    BY DEF Checkers
  <2>3. checks = [t \in Checkers |->
                    IF t = "ticker" THEN [NoCheck EXCEPT !.pc = "due"] ELSE NoCheck]
    BY <1>a, <2>2
  <2>4. QED BY <2>1, <2>3 DEF ChecksTyped
<1>2. UpdaterTyped /\ updater.status = "current" /\ ~updater.ready
  BY <1>a DEF UpdaterTyped, UpdaterRecord, Statuses
<1>3. WindowTyped /\ InstallsTyped /\ ConfigTyped
  BY <1>a DEF WindowTyped, NoCall, CallRecord, InstallsTyped, ConfigTyped
<1>4. WorldTyped
  <2>1. feed \in [BOOLEAN -> Feeds] /\ sparkle \in BOOLEAN
    BY <1>a, PlatformsAssumption
  <2>2. current \in Releases /\ launched \subseteq Releases
    BY <1>a, PromotionsAssumption
  <2>3. 0 \in 0..MaxChanges /\ 0 \in 0..MaxFaults
    BY LimitsAssumption
  <2>4. changes \in 0..MaxChanges /\ faults \in 0..MaxFaults
    BY <1>a, <2>3
  <2>5. native \in BOOLEAN /\ staged \in BOOLEAN /\ stagedFile \in Releases \cup {0}
    BY <1>a
  <2>6. QED BY <2>1, <2>2, <2>4, <2>5 DEF WorldTyped
<1>5. UpdaterTypes
  BY <1>1, <1>2, <1>3, <1>4 DEF UpdaterTypes
<1>6. OneHolds /\ ChecksFollow
  BY <1>1 DEF OneHolds, ChecksFollow, CheckFollows, Holding, Found
<1>7. InstallerFits
  BY <1>a DEF InstallerFits
<1>8. ReadyMeansStaged /\ CheckingMeansChecking
  BY <1>2 DEF ReadyMeansStaged, CheckingMeansChecking
<1>9. ChannelSettles
  <2>1. updater.beta = config.beta
    BY <1>a
  <2>2. QED BY <1>1, <2>1 DEF ChannelSettles, Unsettled
<1>10. QED BY <1>5, <1>6, <1>7, <1>8, <1>9 DEF UpdaterInv

LEMMA RunsStep ==
    ASSUME UpdaterInv, NEW t \in Checkers, Runs(t) PROVE UpdaterInv'
BY CheckingStep, FetchStep, ReadDeferredStep, AnnounceDeferredStep, AnnounceToSparkleStep,
   AnnounceDownloadStep, SparkleChecksStep, DownloadStep, PublishStep DEF Runs

LEMMA UpdaterStutters ==
    ASSUME UpdaterInv, UNCHANGED updaterVars PROVE UpdaterInv'
<1>1. UNCHANGED <<checks, installs, native, config, shown, stagedFile, world>>
      /\ window' = window /\ faults' = faults
  BY DEF updaterVars
<1>2. WindowTyped' /\ faults' \in 0..MaxFaults
  BY <1>1 DEF UpdaterInv, UpdaterTypes, WindowTyped, WorldTyped
<1>3. QED BY <1>1, <1>2, WindowStep

LEMMA UpdaterStep == UpdaterInv /\ [Next]_updaterVars => UpdaterInv'
<1> SUFFICES ASSUME UpdaterInv, [Next]_updaterVars PROVE UpdaterInv'
  OBVIOUS
<1>1. CASE Tick \/ PressCheck
  BY <1>1, AskingStep
<1>2. CASE \E t \in Checkers : Begin(t) \/ Runs(t)
  BY <1>2, BeginStep, RunsStep
<1>3. CASE PressDefer \/ ReadAvailable \/ \E beta \in BOOLEAN : PressChannel(beta)
  BY <1>3, PressStep
<1>4. CASE SaveDeferral \/ SaveChannel \/ SwitchFeed
  BY <1>4, DeferralStep, ChannelStep, SwitchStep
<1>5. CASE \E c \in Callers : PressInstall(c) \/ Installing(c)
  BY <1>5, InstallStep, LaunchStep, QuitStep DEF Installing
<1>6. CASE Exit \/ SparkleInstalls \/ Restart
  BY <1>6, StartsStep
<1>7. CASE \E beta \in BOOLEAN, releases \in Feeds : Promote(beta, releases)
  BY <1>7, PromoteStep
<1>8. CASE UNCHANGED updaterVars
  BY <1>8, UpdaterStutters
<1>9. QED BY <1>1, <1>2, <1>3, <1>4, <1>5, <1>6, <1>7, <1>8 DEF Next, Answers

-----------------------------------------------------------------------------
(* The theorems about Updater                                              *)

\* The inductive invariant: one check at a time holds updateMu, and what it has found
\* is what it shows and stages; a channel that is not the chosen one is never shown
\* without a check of the chosen one to come.
THEOREM UpdaterInvariance == UpdaterSpec => []UpdaterInv
BY UpdaterBegins, UpdaterStep, PTL DEF UpdaterSpec

\* What a check has read, what the window shows, what is staged and what the feeds
\* promote are always of their types, and a version is shown with "available",
\* "downloading" and "ready".
THEOREM UpdaterTypeCorrect == UpdaterSpec => []UpdaterTypeOK
<1>1. UpdaterInv => UpdaterTypeOK
  BY DEF UpdaterInv, UpdaterTypes, ChecksTyped, CheckRecord, WindowTyped, CallRecord,
         UpdaterTyped, UpdaterRecord, Statuses, ConfigTyped, InstallsTyped, WorldTyped,
         UpdaterTypeOK
<1>2. QED BY <1>1, UpdaterInvariance, PTL

\* What is shown as ready to install is the release in the staged file.
THEOREM ReadyIsStaged == UpdaterSpec => []ReadyMeansStaged
<1>1. UpdaterInv => ReadyMeansStaged
  BY DEF UpdaterInv
<1>2. QED BY <1>1, UpdaterInvariance, PTL

\* No installer is staged or started for a release that is not newer than the one
\* that runs or not made for its platform, as long as the identifiers of the
\* published versions fit into 64 bits: Compare orders larger ones differently.
THEOREM NeverDowngrades ==
    ASSUME ReleasesFit PROVE UpdaterSpec => []StagedIsNewer
<1>1. UpdaterInv => StagedIsNewer
  <2> SUFFICES ASSUME UpdaterInv PROVE StagedIsNewer
    OBVIOUS
  <2>1. /\ current \in Releases /\ launched \subseteq Releases /\ Target \in Targets
        /\ staged => stagedFile \in Releases /\ Fits(stagedFile, current, Target)
        /\ \A release \in launched : Fits(release, current, Target)
    BY DEF UpdaterInv, UpdaterTypes, WorldTyped, InstallerFits, Target, Targets
  <2>2. \A release \in Releases : Fits(release, current, Target) => IsUpdate(release)
    BY <2>1, FittingUpdates DEF IsUpdate
  <2>3. QED BY <2>1, <2>2 DEF StagedIsNewer
<1>2. QED BY <1>1, UpdaterInvariance, PTL

\* On Windows, once no check runs or is due and no call of the window is under way,
\* what is shown is about the channel the user chose.
THEOREM ChannelIsSettled == UpdaterSpec => []SettledOnChannel
<1>1. UpdaterInv => SettledOnChannel
  BY DEF UpdaterInv, ChannelSettles, Unsettled, Settles, SettledOnChannel
<1>2. QED BY <1>1, UpdaterInvariance, PTL

\* On Windows "checking" and "downloading" are shown only while a check runs, is due
\* or is about to be asked for, so that the check button comes back.
THEOREM CheckingIsChecking == UpdaterSpec => []CheckingMeansChecking
<1>1. UpdaterInv => CheckingMeansChecking
  BY DEF UpdaterInv
<1>2. QED BY <1>1, UpdaterInvariance, PTL

\* Compare puts every release that runs and any other version in the order of semantic
\* versions, as long as the identifiers of both fit into 64 bits.
THEOREM RunningIsPlaced ==
    ASSUME ReleasesFit, \A v \in Samples : Fitting(v)
    PROVE  UpdaterSpec => []CompareIsPrecedence
<1>1. Misplaced = {}
  <2>1. \A v \in Samples : \A r \in Releases :
            /\ Compare(v, VersionOf[r]) = Order(v, VersionOf[r])
            /\ Compare(VersionOf[r], v) = Order(VersionOf[r], v)
    BY ComparisonIsPrecedence DEF ReleasesFit
  <2>2. QED BY <2>1 DEF Misplaced
<1>2. CompareIsPrecedence
  BY <1>1 DEF CompareIsPrecedence
<1>3. []CompareIsPrecedence
  BY <1>2, PTL
<1>4. QED BY <1>3, PTL

=============================================================================
