----------------------------- MODULE DataLemmas -----------------------------
(***************************************************************************)
(* What the proofs of several components need to know of their data: what  *)
(* pop() does to the sequence that stands for a Python list, and induction *)
(* up to a number.                                                         *)
(***************************************************************************)
EXTENDS Integers, SequenceTheorems, WellFoundedInduction, TLAPS

(* What a pop does to a list: all but the last element stay in place. *)
LEMMA PopKeepsPrefix ==
  ASSUME NEW S, NEW s \in Seq(S), s # <<>>
  PROVE  LET r == SubSeq(s, 1, Len(s) - 1)
         IN  /\ r \in Seq(S)
             /\ Len(r) = Len(s) - 1
             /\ \A i \in DOMAIN r : i \in DOMAIN s /\ r[i] = s[i] /\ i # Len(s)
             /\ Len(s) \in DOMAIN s
             /\ s[Len(s)] \in S
             /\ \A i \in DOMAIN s : i # Len(s) => i \in DOMAIN r
<1> DEFINE n == Len(s)
           r == SubSeq(s, 1, n - 1)
<1>1. n \in Nat \ {0} /\ DOMAIN s = 1..n /\ \A i \in 1..n : s[i] \in S
  BY EmptySeq, LenProperties
<1>2. \A i \in 1..(n - 1) : s[i] \in S
  BY <1>1
<1>3. /\ r \in Seq(S)
      /\ Len(r) = IF 1 <= n - 1 THEN (n - 1) - 1 + 1 ELSE 0
      /\ \A i \in 1..((n - 1) - 1 + 1) : r[i] = s[1 + i - 1]
  <2> HIDE DEF n
  <2>1. n - 1 \in Int /\ 1 \in Int
    BY <1>1
  <2> QED
    BY <1>2, <2>1, SubSeqProperties
<1>4. Len(r) = n - 1 /\ DOMAIN r = 1..(n - 1)
  BY <1>1, <1>3, LenProperties
<1> QED
  BY <1>1, <1>3, <1>4

(* Induction up to n, for what is said of the numbers in a set. *)
LEMMA Upto ==
  ASSUME NEW n \in Nat, NEW Good, 0 \in Good, \A i \in 1..n : i - 1 \in Good => i \in Good
  PROVE  \A i \in 0..n : i \in Good
<1> DEFINE Bad == {i \in 0..n : i \notin Good}
           Less == OpToRel(<, Nat)
<1>1. SUFFICES ASSUME Bad # {}
               PROVE  FALSE
  OBVIOUS
<1>2. IsWellFoundedOn(Less, Nat)
  BY NatLessThanWellFounded
<1>3. \A x, y \in Nat : x < y => <<x, y>> \in Less
  BY DEF OpToRel
<1>4. Bad \subseteq Nat
  OBVIOUS
<1>5. PICK m \in Bad : \A k \in Bad : ~(<<k, m>> \in Less)
  <2> HIDE DEF Less, Bad
  <2> QED
    BY <1>1, <1>2, <1>4, WFMin, Zenon
<1>6. m \in 1..n /\ m - 1 \in Nat /\ m - 1 \in 0..n /\ m - 1 < m
  OBVIOUS
<1>7. m - 1 \notin Bad
  <2> HIDE DEF Less, Bad
  <2>1. <<m - 1, m>> \in Less
    BY <1>3, <1>6
  <2> QED
    BY <1>5, <2>1
<1> QED
  BY <1>6, <1>7
=============================================================================
