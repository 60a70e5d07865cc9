--------------------------- MODULE NumberInduction ---------------------------
(***************************************************************************)
(* Induction over the natural numbers with a set in the place of the       *)
(* predicate, for the proofs about loops and about the smallest of some    *)
(* numbers.                                                                *)
(***************************************************************************)
EXTENDS WellFoundedInduction, TLAPS

\* A set of numbers that is not empty has a smallest.
LEMMA LeastNumber ==
    ASSUME NEW W, W \subseteq Nat, W # {}
    PROVE  \E w \in W : \A v \in W : w <= v
<1>1. PICK w \in W : \A v \in W : <<v, w>> \notin OpToRel(<, Nat)
  <2>1. IsWellFoundedOn(OpToRel(<, Nat), Nat) BY NatLessThanWellFounded
  <2>2. QED BY <2>1, WFMin
<1>2. \A v \in W : ~(v < w)
  BY <1>1 DEF OpToRel
<1>3. QED BY <1>2

\* What holds at the start of a loop and is kept by each turn holds all along.
LEMMA LoopInduction ==
    ASSUME NEW first \in Int, NEW last \in Int, NEW A,
           first \in A, \A n \in first..(last - 1) : n \in A => n + 1 \in A
    PROVE  first..last \subseteq A
<1> DEFINE W == {k \in Nat : first + k <= last /\ first + k \notin A}
<1>1. SUFFICES ASSUME W # {} PROVE FALSE
  <2> SUFFICES ASSUME W = {}, NEW n \in first..last PROVE n \in A
    OBVIOUS
  <2>1. PICK k \in Nat : first + k = n
    <3>1. n - first \in Nat /\ first + (n - first) = n
      OBVIOUS
    <3>2. QED BY <3>1
  <2>2. first + k <= last
    BY <2>1
  <2>3. first + k \in A
    BY <2>2
  <2>4. QED BY <2>1, <2>3
<1>2. PICK k \in W : \A j \in W : k <= j
  BY <1>1, LeastNumber
<1>3. k # 0
  BY <1>2
<1>4. k - 1 \in Nat /\ k - 1 \notin W
  BY <1>2, <1>3
<1>5. first + (k - 1) \in A /\ first + (k - 1) \in first..(last - 1)
  BY <1>2, <1>4
<1>6. first + k \in A
  BY <1>2, <1>5
<1>7. QED BY <1>2, <1>6

\* What each place has if all later ones have it, all have.
LEMMA BackwardInduction ==
    ASSUME NEW last \in Nat, NEW A,
           \A p \in 1..last : (\A j \in 1..last : j > p => j \in A) => p \in A
    PROVE  1..last \subseteq A
<1> DEFINE W == {k \in Nat : last - k \in 1..last /\ last - k \notin A}
<1>1. SUFFICES ASSUME W # {} PROVE FALSE
  <2> SUFFICES ASSUME W = {}, NEW p \in 1..last PROVE p \in A
    OBVIOUS
  <2>1. last - p \in Nat /\ last - (last - p) = p
    OBVIOUS
  <2>2. last - p \notin W
    OBVIOUS
  <2>3. QED BY <2>1, <2>2
<1>2. PICK k \in W : \A i \in W : k <= i
  BY <1>1, LeastNumber
<1>3. \A j \in 1..last : j > last - k => j \in A
  <2> SUFFICES ASSUME NEW j \in 1..last, j > last - k, j \notin A PROVE FALSE
    OBVIOUS
  <2>1. last - j \in Nat /\ last - (last - j) = j /\ last - j < k
    BY <1>2
  <2>2. last - j \in W
    BY <2>1
  <2>3. QED BY <1>2, <2>1, <2>2
<1>4. last - k \in A
  BY <1>2, <1>3
<1>5. QED BY <1>2, <1>4

=============================================================================
