----------------------------- MODULE UpdateFeed -----------------------------
(***************************************************************************)
(* Package updatefeed: the order of semantic versions, and the release of  *)
(* a feed that a companion is updated to.                                  *)
(*                                                                         *)
(* A name within a pre-release is its rank among names in the order of     *)
(* their characters.  A release is a number with a version and the targets *)
(* (OS and architecture) it is built for, for each of which a feed has an  *)
(* item.  XML, signatures and what ParseSigned and ParseVersion refuse are *)
(* failures to fetch, in Updater.                                          *)
(***************************************************************************)
EXTENDS Integers, SequencesExt

CONSTANTS
    Releases,    \* all there are
    VersionOf,   \* the version of each
    TargetsOf,   \* the targets of each
    MaxUint,     \* the largest uint64
    Samples      \* versions to compare them with

Identifier == [numeric : BOOLEAN, value : Nat]
Version    == [core : Seq(Nat), prerelease : Seq(Identifier)]

ASSUME FeedAssumption ==
    /\ Releases \subseteq Nat \ {0} /\ MaxUint \in Nat
    /\ VersionOf \in [Releases -> Version] /\ Samples \subseteq Version
    /\ \A v \in Samples \cup {VersionOf[r] : r \in Releases} :
        Len(v.core) = 3 /\ \A i \in 1..3 : v.core[i] <= MaxUint
    /\ DOMAIN TargetsOf = Releases

-----------------------------------------------------------------------------
Sign(m, n) == IF m < n THEN -1 ELSE IF m > n THEN 1 ELSE 0

\* ParseUint returns the largest number, and an error that Compare ignores, for
\* an identifier that is larger.
Parsed(identifier) == Min({identifier.value, MaxUint})

CompareIdentifier(left, right) ==
    IF left = right THEN 0
    ELSE CASE left.numeric /\ right.numeric   -> IF Parsed(left) < Parsed(right) THEN -1 ELSE 1
           [] left.numeric /\ ~right.numeric  -> -1
           [] ~left.numeric /\ right.numeric  -> 1
           [] ~left.numeric /\ ~right.numeric -> Sign(left.value, right.value)

\* The first comparison that decides.
Decides(comparisons) ==
    LET first == SelectInSeq(comparisons, LAMBDA c : c # 0) IN
    IF first = 0 THEN 0 ELSE comparisons[first]

\* Mutant: a release and its own pre-releases differ in the length of them only.
CompareByLength(version, other) ==
    LET v == version.prerelease  w == other.prerelease IN
    Decides([i \in 1..3 |-> Sign(version.core[i], other.core[i])]
            \o [i \in 1..Min({Len(v), Len(w)}) |-> CompareIdentifier(v[i], w[i])]
            \o <<Sign(Len(v), Len(w))>>)

Compare(version, other) ==
    LET v == version.prerelease  w == other.prerelease
        final == IF v = <<>> /\ w # <<>> THEN 1 ELSE IF v # <<>> /\ w = <<>> THEN -1 ELSE 0
    IN  Decides([i \in 1..3 |-> Sign(version.core[i], other.core[i])]
                \o <<final>>
                \o [i \in 1..Min({Len(v), Len(w)}) |-> CompareIdentifier(v[i], w[i])]
                \o <<Sign(Len(v), Len(w))>>)

\* Mutant: whatever a feed lists can be selected.
FitsAnyVersion(release, version, target) == target \in TargetsOf[release]

Fits(release, version, target) ==
    /\ target \in TargetsOf[release]
    /\ Compare(VersionOf[release], VersionOf[version]) > 0

\* 0 when there is none.
Select(releases, version, target) ==
    LET selected[n \in 0..Len(releases)] ==
          IF n = 0 THEN 0
          ELSE IF /\ Fits(releases[n], version, target)
                  /\ \/ selected[n - 1] = 0
                     \/ Compare(VersionOf[releases[n]], VersionOf[selected[n - 1]]) > 0
               THEN releases[n] ELSE selected[n - 1]
    IN  selected[Len(releases)]

-----------------------------------------------------------------------------
(* The precedence of semver.org, for reference: the numbers of the core,   *)
(* the identifiers of the pre-release, and what comes at the end of them,  *)
(* compared at the first place where they differ.                          *)

Precedence(v) ==
    [i \in 1..3 |-> <<0, v.core[i]>>]
    \o [i \in DOMAIN v.prerelease |->
            <<IF v.prerelease[i].numeric THEN 1 ELSE 2, v.prerelease[i].value>>]
    \o <<IF v.prerelease = <<>> THEN <<3, 0>> ELSE <<0, 0>> >>

Higher(p, q) == p[1] > q[1] \/ (p[1] = q[1] /\ p[2] > q[2])

Newer(v, w) ==
    LET p == Precedence(v)  q == Precedence(w) IN
    \E i \in DOMAIN p \cap DOMAIN q :
        Higher(p[i], q[i]) /\ \A j \in 1..(i - 1) : p[j] = q[j]

Order(v, w) == IF Newer(v, w) THEN 1 ELSE IF Newer(w, v) THEN -1 ELSE 0

\* The releases that Compare puts on the wrong side of a version.
Misplaced ==
    {r \in Releases : \E v \in Samples :
        \/ Compare(v, VersionOf[r]) # Order(v, VersionOf[r])
        \/ Compare(VersionOf[r], v) # Order(VersionOf[r], v)}

=============================================================================
