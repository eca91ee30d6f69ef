----------------------------- MODULE OrderProofs ----------------------------
(***************************************************************************)
(* Proofs about the two programs that keep data in order.                  *)
(*                                                                         *)
(* QuickSort, for every length of the list, any workers and any depth and  *)
(* size from which parts become futures.  The inductive invariant SortInv  *)
(* says what each task has before it and that no two have an element in    *)
(* common; that each range has the values of its positions and whatever is *)
(* nobody's is in its place; and that for each future that is not yet      *)
(* called somebody is left who will tell the main thread of it.            *)
(*                                                                         *)
(* SkipList, for any finite set of elements and any greatest height.       *)
(* WellLinked says of a list's links that on each level a node's successor *)
(* is the next of the level's nodes in the order of elements.  From it     *)
(* follow where a search ends, what linking and unlinking a node do to     *)
(* every level, and that each operation on the list is one on a set.       *)
(***************************************************************************)
EXTENDS QuickSort, SkipList, FiniteSetTheorems, SequenceTheorems, TLAPS

-----------------------------------------------------------------------------
(* What the loop leaves: the two parts have the values of their positions. *)

(* The n positions from a on hold just the values that belong there. *)
Right(x, a, n) == /\ \A p \in a..(a + n - 1) : x[p] \in a..(a + n - 1)
                  /\ \A v \in a..(a + n - 1) : \E p \in a..(a + n - 1) : x[p] = v

(* Values that all occur at some position of P are no more than P has. *)
LEMMA NoMoreValues ==
  ASSUME NEW x, NEW V, NEW P, IsFiniteSet(V), IsFiniteSet(P),
         \A v \in V : \E p \in P : x[p] = v
  PROVE  Cardinality(V) <= Cardinality(P)
<1> DEFINE at == [v \in V |-> CHOOSE p \in P : x[p] = v]
<1>1. \A v \in V : at[v] \in P /\ x[at[v]] = v
  OBVIOUS
<1>2. at \in [V -> P]
  BY <1>1
<1>3. ~ (Cardinality(P) < Cardinality(V))
  <2> SUFFICES ASSUME Cardinality(P) < Cardinality(V)
               PROVE  FALSE
    OBVIOUS
  <2> HIDE DEF at
  <2>1. \E v, u \in V : v # u /\ at[v] = at[u]
    BY <1>2, FS_PigeonHole
  <2> QED
    BY <1>1, <2>1
<1>4. Cardinality(P) \in Nat /\ Cardinality(V) \in Nat
  BY FS_CardinalityType
<1> QED
  BY <1>3, <1>4

(* No value that belongs there occurs twice. *)
LEMMA RightOnce ==
  ASSUME NEW x, NEW a \in Int, NEW n \in Nat, Right(x, a, n),
         NEW p \in a..(a + n - 1), NEW q \in a..(a + n - 1), p # q
  PROVE  x[p] # x[q]
<1> DEFINE S == a..(a + n - 1)
<1> SUFFICES ASSUME x[p] = x[q]
             PROVE  FALSE
  OBVIOUS
<1>0. a + n - 1 \in Int
  OBVIOUS
<1>1. IsFiniteSet(S) /\ Cardinality(S) \in Nat
  <2>1. IsFiniteSet(S)
    BY <1>0, FS_Interval, Zenon
  <2> QED
    BY <2>1, FS_CardinalityType
<1>2. IsFiniteSet(S \ {p}) /\ Cardinality(S \ {p}) = Cardinality(S) - 1
  BY <1>1, FS_RemoveElement
<1>3. \A v \in S : \E i \in S \ {p} : x[i] = v
  BY DEF Right
<1> HIDE DEF S
<1>4. Cardinality(S) <= Cardinality(S \ {p})
  BY <1>1, <1>2, <1>3, NoMoreValues
<1> QED
  BY <1>1, <1>2, <1>4

(* The values from w to v have room in the part where they occur. *)
LEMMA Room ==
  ASSUME NEW x, NEW w \in Int, NEW v \in Int, NEW a \in Int, NEW b \in Int, w <= v, a <= b + 1,
         \A u \in w..v : \E p \in a..b : x[p] = u
  PROVE  v - w <= b - a
<1>1. IsFiniteSet(w..v) /\ Cardinality(w..v) = v - w + 1
  BY FS_Interval
<1>2. IsFiniteSet(a..b) /\ Cardinality(a..b) = b - a + 1
  BY FS_Interval
<1>3. Cardinality(w..v) <= Cardinality(a..b)
  BY <1>1, <1>2, NoMoreValues
<1> QED
  BY <1>1, <1>2, <1>3

(* The loop has gone over the n elements from lo on: what is left of l is  *)
(* at most the pivot, what is right of r at least, and l has met r or left *)
(* one element behind.                                                     *)
Met(x, lo, n, l, r, pivot) ==
  /\ Right(x, lo, n)
  /\ lo < l /\ l <= lo + n /\ r >= lo - 1 /\ r < lo + n - 1 /\ r < l /\ l <= r + 2
  /\ \A p \in lo..(l - 1) : x[p] <= pivot
  /\ \A p \in (r + 1)..(lo + n - 1) : x[p] >= pivot

(* Then each part has the values of its positions, and the element between *)
(* them, if there is one, has its place.                                   *)
LEMMA Parted ==
  ASSUME NEW x, NEW lo \in Int, NEW n \in Nat, NEW l \in Int, NEW r \in Int, NEW pivot \in Int,
         Met(x, lo, n, l, r, pivot)
  PROVE  /\ Right(x, lo, r - lo + 1)
         /\ Right(x, l, lo + n - l)
         /\ \A p \in (r + 1)..(l - 1) : x[p] = p
<1> DEFINE hi == lo + n
           S == lo..(hi - 1)
<1>1. /\ lo < l /\ l <= hi /\ r >= lo - 1 /\ r < hi - 1 /\ r < l /\ l <= r + 2
      /\ \A p \in lo..(l - 1) : x[p] <= pivot
      /\ \A p \in (r + 1)..(hi - 1) : x[p] >= pivot
      /\ Right(x, lo, n)
  BY DEF Met
<1>2. /\ \A p \in S : x[p] \in S
      /\ \A v \in S : \E p \in S : x[p] = v
  BY <1>1 DEF Right
<1>3. CASE l = r + 1
  <2>1. ASSUME NEW p \in lo..r
        PROVE  x[p] \in lo..r
    <3>1. x[p] \in S /\ x[p] <= pivot
      BY <1>1, <1>2, <1>3
    <3>2. ASSUME x[p] > r
          PROVE  FALSE
      <4>1. ASSUME NEW u \in lo..x[p]
            PROVE  \E q \in lo..r : x[q] = u
        <5>1. PICK q \in S : x[q] = u
          BY <1>2, <3>1
        <5>2. CASE q > r
          <6>1. x[q] >= pivot
            BY <1>1, <5>2
          <6>2. u = x[p]
            BY <3>1, <5>1, <6>1
          <6> QED
            BY <6>2
        <5> QED
          BY <5>1, <5>2
      <4>2. x[p] \in Int /\ lo <= x[p] /\ lo <= r + 1
        BY <3>1, <1>1
      <4>3. x[p] - lo <= r - lo
        BY <4>1, <4>2, Room, Zenon
      <4> QED
        BY <3>1, <3>2, <4>3
    <3> QED
      BY <3>1, <3>2
  <2>2. ASSUME NEW p \in l..(hi - 1)
        PROVE  x[p] \in l..(hi - 1)
    <3>1. x[p] \in S /\ x[p] >= pivot
      BY <1>1, <1>2, <1>3
    <3>2. ASSUME x[p] < l
          PROVE  FALSE
      <4>1. ASSUME NEW u \in x[p]..(hi - 1)
            PROVE  \E q \in l..(hi - 1) : x[q] = u
        <5>1. PICK q \in S : x[q] = u
          BY <1>2, <3>1
        <5>2. CASE q < l
          <6>1. x[q] <= pivot
            BY <1>1, <5>2
          <6>2. u = x[p]
            BY <3>1, <5>1, <6>1
          <6> QED
            BY <6>2
        <5> QED
          BY <5>1, <5>2
      <4>2. x[p] \in Int /\ hi - 1 \in Int /\ x[p] <= hi - 1 /\ l <= (hi - 1) + 1
        BY <3>1, <1>1
      <4> DEFINE w == x[p]
                 e == hi - 1
      <4>3. \A u \in w..e : \E q \in l..e : x[q] = u
        BY <4>1
      <4>4. w \in Int /\ e \in Int /\ w <= e /\ l <= e + 1
        BY <4>2
      <4> HIDE DEF w, e
      <4>5. e - w <= e - l
        BY <4>3, <4>4, Room
      <4> QED
        BY <3>1, <3>2, <4>5 DEF w, e
    <3> QED
      BY <3>1, <3>2
  <2>3. \A v \in lo..r : \E p \in lo..r : x[p] = v
    BY <1>1, <1>2, <1>3, <2>2
  <2>4. \A v \in l..(hi - 1) : \E p \in l..(hi - 1) : x[p] = v
    BY <1>1, <1>2, <1>3, <2>1
  <2>5. lo + (r - lo + 1) - 1 = r /\ l + (lo + n - l) - 1 = hi - 1
    OBVIOUS
  <2> QED
    BY <1>3, <2>1, <2>2, <2>3, <2>4, <2>5 DEF Right
<1>4. CASE l = r + 2
  <2> DEFINE m == r + 1
  <2>1. m \in S /\ x[m] \in S /\ x[m] = pivot
    <3>1. m \in S /\ m \in lo..(l - 1) /\ m \in (r + 1)..(hi - 1)
      BY <1>1, <1>4
    <3> HIDE DEF m
    <3>2. x[m] \in S
      BY <1>2, <3>1
    <3>3. x[m] <= pivot /\ x[m] >= pivot
      BY <1>1, <3>1
    <3> QED
      BY <3>1, <3>2, <3>3
  <2>2. \A p \in S : x[p] = x[m] => p = m
    BY <1>1, <2>1, RightOnce
  <2>3. ASSUME NEW p \in lo..r
        PROVE  x[p] \in S /\ x[p] < pivot
    <3>1. p \in S /\ p # m /\ p \in lo..(l - 1)
      BY <1>1, <1>4
    <3> HIDE DEF m
    <3>2. x[p] \in S /\ x[p] <= pivot
      BY <1>1, <1>2, <3>1
    <3>3. x[p] # pivot
      BY <2>1, <2>2, <3>1
    <3> QED
      BY <3>2, <3>3
  <2>4. ASSUME NEW p \in l..(hi - 1)
        PROVE  x[p] \in S /\ x[p] > pivot
    <3>1. p \in S /\ p # m /\ p \in (r + 1)..(hi - 1)
      BY <1>1, <1>4
    <3> HIDE DEF m
    <3>2. x[p] \in S /\ x[p] >= pivot
      BY <1>1, <1>2, <3>1
    <3>3. x[p] # pivot
      BY <2>1, <2>2, <3>1
    <3> QED
      BY <3>2, <3>3
  <2>5. \A p \in S : p \in lo..r \/ p = m \/ p \in l..(hi - 1)
    BY <1>1, <1>4
  <2>6. ASSUME NEW u \in lo..(pivot - 1)
        PROVE  \E q \in lo..r : x[q] = u
    <3>1. u \in S /\ u < pivot
      BY <2>1
    <3>2. PICK q \in S : x[q] = u
      BY <1>2, <3>1
    <3> QED
      BY <2>1, <2>4, <2>5, <3>1, <3>2
  <2>7. ASSUME NEW u \in (pivot + 1)..(hi - 1)
        PROVE  \E q \in l..(hi - 1) : x[q] = u
    <3>1. u \in S /\ u > pivot
      BY <2>1
    <3>2. PICK q \in S : x[q] = u
      BY <1>2, <3>1
    <3> QED
      BY <2>1, <2>3, <2>5, <3>1, <3>2
  <2>8. pivot <= m
    <3>1. CASE lo <= pivot - 1
      <4>1. pivot - 1 \in Int /\ lo <= r + 1
        BY <1>1
      <4>2. (pivot - 1) - lo <= r - lo
        BY <2>6, <3>1, <4>1, Room, Zenon
      <4> QED
        BY <4>2
    <3> QED
      BY <1>1, <2>1, <3>1
  <2>9. pivot >= m
    <3>1. CASE pivot + 1 <= hi - 1
      <4>1. pivot + 1 \in Int /\ hi - 1 \in Int /\ l <= (hi - 1) + 1
        BY <1>1
      <4>2. (hi - 1) - (pivot + 1) <= (hi - 1) - l
        BY <2>7, <3>1, <4>1, Room, Zenon
      <4> QED
        BY <1>4, <4>2
    <3> QED
      BY <1>1, <1>4, <2>1, <3>1
  <2>10. pivot = m
    BY <2>8, <2>9
  <2>11. \A v \in lo..r : \E p \in lo..r : x[p] = v
    BY <2>6, <2>10
  <2>12. \A v \in l..(hi - 1) : \E p \in l..(hi - 1) : x[p] = v
    BY <1>4, <2>7, <2>10
  <2>13. \A p \in lo..r : x[p] \in lo..r
    BY <2>3, <2>10
  <2>14. \A p \in l..(hi - 1) : x[p] \in l..(hi - 1)
    BY <1>4, <2>4, <2>10
  <2>15. lo + (r - lo + 1) - 1 = r /\ l + (lo + n - l) - 1 = hi - 1
    OBVIOUS
  <2> QED
    BY <1>4, <2>1, <2>10, <2>11, <2>12, <2>13, <2>14, <2>15 DEF Right
<1> QED
  BY <1>1, <1>3, <1>4

-----------------------------------------------------------------------------
(* The loop. *)

(* What is true in the loop: left of l nothing is larger than the pivot,   *)
(* right of r nothing is smaller, and l and r stay in the range because a  *)
(* pivot lies between them or both have moved.                             *)
Looping(x, lo, n, l, r, pivot) ==
  /\ lo <= l /\ l <= lo + n /\ lo - 1 <= r /\ r <= lo + n - 1 /\ l <= r + 2
  /\ \A p \in lo..(l - 1) : x[p] <= pivot
  /\ \A p \in (r + 1)..(lo + n - 1) : x[p] >= pivot
  /\ (\E p \in l..r : x[p] = pivot) \/ (lo < l /\ r < lo + n - 1)

(* It is true at the start, whatever is in the range,                      *)
LEMMA LoopBegins ==
  ASSUME NEW x, NEW lo \in Int, NEW n \in Nat, n >= 2
  PROVE  Looping(x, lo, n, lo, lo + n - 1, x[lo + (n \div 2)])
<1>1. lo + (n \div 2) \in lo..(lo + n - 1)
  OBVIOUS
<1> QED
  BY <1>1 DEF Looping

(* when l goes up over a smaller element,                                  *)
LEMMA LoopGoesUp ==
  ASSUME NEW x, NEW lo \in Int, NEW n \in Nat, NEW l \in Int, NEW r \in Int, NEW pivot \in Int,
         Looping(x, lo, n, l, r, pivot), l <= r, x[l] \in Int, x[l] < pivot
  PROVE  Looping(x, lo, n, l + 1, r, pivot)
<1>1. /\ lo <= l + 1 /\ l + 1 <= lo + n /\ lo - 1 <= r /\ r <= lo + n - 1 /\ l + 1 <= r + 2
      /\ \A p \in (r + 1)..(lo + n - 1) : x[p] >= pivot
  BY DEF Looping
<1>2. \A p \in lo..(l + 1 - 1) : x[p] <= pivot
  BY DEF Looping
<1>3. (\E p \in (l + 1)..r : x[p] = pivot) \/ (lo < l + 1 /\ r < lo + n - 1)
  BY DEF Looping
<1> QED
  BY <1>1, <1>2, <1>3 DEF Looping

(* when r goes down over a larger one,                                     *)
LEMMA LoopGoesDown ==
  ASSUME NEW x, NEW lo \in Int, NEW n \in Nat, NEW l \in Int, NEW r \in Int, NEW pivot \in Int,
         Looping(x, lo, n, l, r, pivot), l <= r, x[r] \in Int, x[r] > pivot
  PROVE  Looping(x, lo, n, l, r - 1, pivot)
<1>1. /\ lo <= l /\ l <= lo + n /\ lo - 1 <= r - 1 /\ r - 1 <= lo + n - 1 /\ l <= r - 1 + 2
      /\ \A p \in lo..(l - 1) : x[p] <= pivot
  BY DEF Looping
<1>2. \A p \in (r - 1 + 1)..(lo + n - 1) : x[p] >= pivot
  BY DEF Looping
<1>3. (\E p \in l..(r - 1) : x[p] = pivot) \/ (lo < l /\ r - 1 < lo + n - 1)
  BY DEF Looping
<1> QED
  BY <1>1, <1>2, <1>3 DEF Looping

(* and when the two are swapped, which keeps the values of the range.      *)
LEMMA LoopSwaps ==
  ASSUME NEW x, NEW y, NEW lo \in Int, NEW n \in Nat, NEW l \in Int, NEW r \in Int,
         NEW pivot \in Int,
         Looping(x, lo, n, l, r, pivot), l <= r,
         x[l] >= pivot, x[r] <= pivot, y[l] = x[r], y[r] = x[l],
         \A p \in lo..(lo + n - 1) : p # l /\ p # r => y[p] = x[p]
  PROVE  /\ Looping(y, lo, n, l + 1, r - 1, pivot)
         /\ Right(x, lo, n) => Right(y, lo, n)
<1>1. /\ lo <= l + 1 /\ l + 1 <= lo + n /\ lo - 1 <= r - 1 /\ r - 1 <= lo + n - 1
      /\ l + 1 <= r - 1 + 2 /\ lo < l + 1 /\ r - 1 < lo + n - 1 /\ l \in lo..(lo + n - 1)
      /\ r \in lo..(lo + n - 1)
  BY DEF Looping
<1>2. ASSUME NEW p \in lo..(l + 1 - 1)
      PROVE  y[p] <= pivot
  <2>1. CASE p = l
    BY <2>1
  <2>2. CASE p # l
    <3>1. p \in lo..(l - 1) /\ p # r /\ p \in lo..(lo + n - 1)
      BY <1>1, <2>2
    <3> QED
      BY <2>2, <3>1 DEF Looping
  <2> QED
    BY <2>1, <2>2
<1>3. ASSUME NEW p \in (r - 1 + 1)..(lo + n - 1)
      PROVE  y[p] >= pivot
  <2>1. CASE p = r
    BY <2>1
  <2>2. CASE p # r
    <3>1. p \in (r + 1)..(lo + n - 1) /\ p # l /\ p \in lo..(lo + n - 1)
      BY <1>1, <2>2
    <3> QED
      BY <2>2, <3>1 DEF Looping
  <2> QED
    BY <2>1, <2>2
<1>4. Looping(y, lo, n, l + 1, r - 1, pivot)
  BY <1>1, <1>2, <1>3 DEF Looping
<1>5. ASSUME Right(x, lo, n)
      PROVE  Right(y, lo, n)
  <2> DEFINE S == lo..(lo + n - 1)
  <2> HIDE DEF S
  <2>1. (\A p \in S : x[p] \in S) /\ (\A v \in S : \E p \in S : x[p] = v)
    BY <1>5 DEF Right, S
  <2>2. l \in S /\ r \in S /\ \A p \in S : p # l /\ p # r => y[p] = x[p]
    BY <1>1 DEF S
  <2>3. \A p \in S : y[p] \in S
    BY <2>1, <2>2
  <2>4. ASSUME NEW v \in S
        PROVE  \E p \in S : y[p] = v
    <3>1. PICK p \in S : x[p] = v
      BY <2>1
    <3> QED
      BY <2>2, <3>1
  <2> QED
    BY <2>3, <2>4 DEF Right, S
<1> QED
  BY <1>4, <1>5

(* At the end l and r have met, and have both moved: each part is smaller  *)
(* than the whole.                                                         *)
LEMMA LoopEnds ==
  ASSUME NEW x, NEW lo \in Int, NEW n \in Nat, NEW l \in Int, NEW r \in Int, NEW pivot \in Int,
         Looping(x, lo, n, l, r, pivot), Right(x, lo, n), ~(l <= r)
  PROVE  Met(x, lo, n, l, r, pivot)
BY DEF Looping, Met

-----------------------------------------------------------------------------
(* The calls that a task has before it. *)

(* The positions of a call, and of all calls of s.                         *)
Pos(c) == c.l0..(c.l0 + c.n - 1)

Area(s) == {p \in Index : \E i \in 1..Len(s) : p \in Pos(s[i])}

(* A call lies in the list, is of a part of a range of k elements at most, *)
(* so deep that level and size stay within the length, and has just the    *)
(* values that belong there.                                               *)
CallOK(c, x, k) == /\ c.l0 + c.n <= Length
                   /\ c.level + c.n <= Length
                   /\ c.n <= k
                   /\ Right(x, c.l0, c.n)

Divided(s, x, k) == /\ \A i \in 1..Len(s) : CallOK(s[i], x, k)
                    /\ \A i, m \in 1..Len(s) : i # m => Pos(s[i]) \intersect Pos(s[m]) = {}

(* The parts of a call are numbers, and its positions those of the list.   *)
LEMMA CallTypes ==
  ASSUME NEW c \in Calls
  PROVE  /\ c.l0 \in Nat /\ c.n \in Nat /\ c.level \in Nat
         /\ c.l0 + c.n <= Length => Pos(c) \subseteq Index
BY QuickSortAssumption DEF Calls, Pos, Index

(* No calls, the calls after the first, and one more before them:          *)
LEMMA NothingHeld ==
  /\ Area(<<>>) = {}
  /\ \A x, k : Divided(<<>>, x, k)
BY DEF Area, Divided

LEMMA TailHeld ==
  ASSUME NEW s \in Seq(Calls), s # <<>>, NEW x, NEW k, Divided(s, x, k)
  PROVE  /\ s[1] \in Calls /\ CallOK(s[1], x, k)
         /\ Tail(s) \in Seq(Calls)
         /\ Divided(Tail(s), x, k)
         /\ Pos(s[1]) \intersect Area(Tail(s)) = {}
         /\ Pos(s[1]) \subseteq Area(s)
         /\ Area(s) = Area(Tail(s)) \union Pos(s[1])
<1>1. /\ Tail(s) \in Seq(Calls) /\ Len(Tail(s)) = Len(s) - 1 /\ Len(s) \in Nat /\ Len(s) >= 1
      /\ \A i \in 1..Len(Tail(s)) : Tail(s)[i] = s[i + 1]
  BY HeadTailProperties, EmptySeq
<1>2. s[1] \in Calls /\ 1 \in 1..Len(s)
  BY <1>1, ElementOfSeq
<1>3. CallOK(s[1], x, k)
  BY <1>2 DEF Divided
<1>4. Pos(s[1]) \subseteq Index
  BY <1>2, <1>3, CallTypes DEF CallOK
<1>5. Divided(Tail(s), x, k)
  <2>1. \A i \in 1..Len(Tail(s)) : i + 1 \in 1..Len(s) /\ Tail(s)[i] = s[i + 1]
    BY <1>1
  <2>2. \A i, m \in 1..Len(Tail(s)) : i # m => i + 1 # m + 1
    BY <1>1
  <2> QED
    BY <2>1, <2>2 DEF Divided
<1>6. Pos(s[1]) \intersect Area(Tail(s)) = {}
  <2>1. \A i \in 1..Len(Tail(s)) : i + 1 \in 1..Len(s) /\ 1 # i + 1 /\ Tail(s)[i] = s[i + 1]
    BY <1>1
  <2> QED
    BY <1>2, <2>1 DEF Divided, Area
<1>7. Area(s) = Area(Tail(s)) \union Pos(s[1])
  <2>1. \A i \in 1..Len(Tail(s)) : i + 1 \in 1..Len(s) /\ Tail(s)[i] = s[i + 1]
    BY <1>1
  <2>2. \A i \in 1..Len(s) : i = 1 \/ (i - 1 \in 1..Len(Tail(s)) /\ Tail(s)[i - 1] = s[i])
    BY <1>1
  <2>3. Area(Tail(s)) \union Pos(s[1]) \subseteq Area(s)
    BY <1>2, <1>4, <2>1 DEF Area
  <2>4. Area(s) \subseteq Area(Tail(s)) \union Pos(s[1])
    BY <2>2 DEF Area
  <2> QED
    BY <2>3, <2>4
<1> QED
  BY <1>1, <1>2, <1>3, <1>5, <1>6, <1>7

LEMMA ConsHeld ==
  ASSUME NEW s \in Seq(Calls), NEW c \in Calls, NEW x, NEW k, Divided(s, x, k), CallOK(c, x, k),
         Pos(c) \intersect Area(s) = {}
  PROVE  /\ <<c>> \o s \in Seq(Calls)
         /\ Divided(<<c>> \o s, x, k)
         /\ Area(<<c>> \o s) = Area(s) \union Pos(c)
<1> DEFINE t == <<c>> \o s
<1>1. <<c>> \in Seq(Calls) /\ Len(<<c>>) = 1 /\ <<c>>[1] = c
  OBVIOUS
<1>2. /\ t \in Seq(Calls) /\ Len(t) = 1 + Len(s) /\ Len(s) \in Nat
      /\ \A i \in 1..(1 + Len(s)) : t[i] = IF i <= 1 THEN c ELSE s[i - 1]
  BY <1>1, ConcatProperties, LenProperties
<1> HIDE DEF t
<1>3. \A i \in 1..Len(t) : \/ i = 1 /\ t[i] = c
                           \/ i # 1 /\ i - 1 \in 1..Len(s) /\ t[i] = s[i - 1]
  BY <1>2
<1>4. \A i \in 1..Len(s) : i + 1 \in 1..Len(t) /\ t[i + 1] = s[i]
  BY <1>2
<1>5. 1 \in 1..Len(t) /\ t[1] = c
  BY <1>2
<1>6. Pos(c) \subseteq Index
  BY CallTypes DEF CallOK
<1>7. Area(t) = Area(s) \union Pos(c)
  <2>1. Area(t) \subseteq Area(s) \union Pos(c)
    BY <1>3 DEF Area
  <2>2. Area(s) \union Pos(c) \subseteq Area(t)
    BY <1>4, <1>5, <1>6 DEF Area
  <2> QED
    BY <2>1, <2>2
<1>8. \A i \in 1..Len(t) : CallOK(t[i], x, k)
  BY <1>3 DEF Divided
<1>9. ASSUME NEW i \in 1..Len(t), NEW m \in 1..Len(t), i # m
      PROVE  Pos(t[i]) \intersect Pos(t[m]) = {}
  <2>1. \A a \in 1..Len(s) : Pos(c) \intersect Pos(s[a]) = {}
    BY <1>6 DEF Area
  <2>2. CASE i = 1
    BY <1>3, <1>9, <2>1, <2>2
  <2>3. CASE m = 1
    BY <1>3, <1>9, <2>1, <2>3
  <2>4. CASE i # 1 /\ m # 1
    <3>1. /\ i - 1 \in 1..Len(s) /\ t[i] = s[i - 1] /\ m - 1 \in 1..Len(s) /\ t[m] = s[m - 1]
          /\ i - 1 # m - 1
      BY <1>2, <1>3, <1>9, <2>4
    <3> QED
      BY <3>1 DEF Divided
  <2> QED
    BY <2>2, <2>3, <2>4
<1> QED
  BY <1>2, <1>7, <1>8, <1>9 DEF Divided, t

(* The calls that are to be made do not mind what others do to the list. *)
LEMMA HeldFrame ==
  ASSUME NEW s \in Seq(Calls), NEW x, NEW y, NEW k, Divided(s, x, k),
         \A p \in Area(s) : y[p] = x[p]
  PROVE  Divided(s, y, k)
<1>1. ASSUME NEW i \in 1..Len(s)
      PROVE  CallOK(s[i], y, k)
  <2>1. s[i] \in Calls /\ CallOK(s[i], x, k)
    BY ElementOfSeq DEF Divided
  <2>2. Pos(s[i]) \subseteq Area(s)
    BY <2>1, CallTypes DEF CallOK, Area
  <2>3. \A p \in Pos(s[i]) : y[p] = x[p]
    BY <2>2
  <2>4. Right(y, s[i].l0, s[i].n)
    BY <2>1, <2>3 DEF CallOK, Right, Pos
  <2> QED
    BY <2>1, <2>4 DEF CallOK
<1> QED
  BY <1>1 DEF Divided

(* Two parts of sizes an and bn, from lo and from l on, fit what they are  *)
(* parts of, and leave out no element that is not in its place.            *)
Fit(x, lo, n, level, k, l, an, bn) ==
  /\ an \in Nat /\ bn \in Nat /\ an < n /\ bn < n /\ l \in 0..Length
  /\ an <= Length /\ bn <= Length /\ level + 1 <= Length /\ an <= k /\ bn <= k
  /\ lo + an <= Length /\ l + bn <= Length
  /\ (level + 1) + an <= Length /\ (level + 1) + bn <= Length
  /\ Right(x, lo, an) /\ Right(x, l, bn)
  /\ lo..(lo + an - 1) \subseteq lo..(lo + n - 1)
  /\ l..(l + bn - 1) \subseteq lo..(lo + n - 1)
  /\ (lo..(lo + an - 1)) \intersect (l..(l + bn - 1)) = {}
  /\ \A p \in lo..(lo + n - 1) : \/ p \in lo..(lo + an - 1) \/ p \in l..(l + bn - 1)
                                \/ x[p] = p

(* The parts that the loop leaves fit.                                     *)
LEMMA PartsFit ==
  ASSUME NEW x, NEW lo \in Nat, NEW n \in Nat, NEW level \in Nat, NEW k \in Int,
         NEW l \in Int, NEW r \in Int, NEW pivot \in Int,
         lo + n <= Length, level + n <= Length, n <= k, Met(x, lo, n, l, r, pivot)
  PROVE  Fit(x, lo, n, level, k, l, r - lo + 1, lo + n - l)
<1>0. PICK an, bn : an = r - lo + 1 /\ bn = lo + n - l
  OBVIOUS
<1>1. Length \in Nat
  BY QuickSortAssumption
<1>2. /\ lo < l /\ l <= lo + n /\ r >= lo - 1 /\ r < lo + n - 1 /\ r < l /\ l <= r + 2
  BY DEF Met
<1>3. /\ an \in Nat /\ bn \in Nat /\ an < n /\ bn < n /\ l \in 0..Length
      /\ an <= Length /\ bn <= Length /\ level + 1 <= Length /\ an <= k /\ bn <= k
      /\ lo + an <= Length /\ l + bn <= Length
      /\ (level + 1) + an <= Length /\ (level + 1) + bn <= Length
  <2>1. an \in Nat /\ bn \in Nat /\ an < n /\ bn < n
    BY <1>0, <1>2
  <2>2. l \in 0..Length /\ an <= Length /\ bn <= Length /\ level + 1 <= Length
    BY <1>0, <1>1, <1>2, <2>1
  <2>3. an <= k /\ bn <= k /\ lo + an <= Length /\ l + bn <= Length
    BY <1>0, <1>1, <1>2, <2>1
  <2>4. (level + 1) + an <= Length /\ (level + 1) + bn <= Length
    BY <1>0, <1>1, <1>2, <2>1
  <2> QED
    BY <2>1, <2>2, <2>3, <2>4
<1>4. Right(x, lo, an) /\ Right(x, l, bn) /\ \A p \in (r + 1)..(l - 1) : x[p] = p
  <2>1. lo \in Int
    OBVIOUS
  <2>2. /\ Right(x, lo, r - lo + 1) /\ Right(x, l, lo + n - l)
        /\ \A p \in (r + 1)..(l - 1) : x[p] = p
    BY <2>1, Parted, Zenon
  <2> QED
    BY <1>0, <2>2, Zenon
<1>5. lo + an - 1 = r /\ l + bn - 1 = lo + n - 1
  BY <1>0
<1>6. /\ lo..r \subseteq lo..(lo + n - 1) /\ l..(lo + n - 1) \subseteq lo..(lo + n - 1)
      /\ (lo..r) \intersect (l..(lo + n - 1)) = {}
  BY <1>2
<1>7. ASSUME NEW p \in lo..(lo + n - 1)
      PROVE  p \in lo..r \/ p \in l..(lo + n - 1) \/ p \in (r + 1)..(l - 1)
  BY <1>2
<1>8. Fit(x, lo, n, level, k, l, an, bn)
  BY <1>3, <1>4, <1>5, <1>6, <1>7 DEF Fit
<1> QED
  BY <1>0, <1>8, Zenon

(* largs and rargs                                                         *)
Left(c, r) == [l0 |-> c.l0, n |-> r - c.l0 + 1, level |-> c.level + 1]
Rest(c, l) == [l0 |-> l, n |-> c.l0 + c.n - l, level |-> c.level + 1]

(* The two parts a and b of the first call of s can take its place.        *)
CanReplace(s, x, k, a, b) ==
  /\ a \in Calls /\ b \in Calls /\ Tail(s) \in Seq(Calls)
  /\ a.n < s[1].n /\ b.n < s[1].n
  /\ Divided(<<a>> \o (<<b>> \o Tail(s)), x, k)
  /\ Divided(<<b>> \o (<<a>> \o Tail(s)), x, k)
  /\ \A t \in {<<a>> \o (<<b>> \o Tail(s)), <<b>> \o (<<a>> \o Tail(s))} :
        /\ Area(t) \subseteq Area(s)
        /\ \A p \in Area(s) \ Area(t) : x[p] = p

(* The parts that the loop leaves can do so.                               *)
LEMMA PartsHeld ==
  ASSUME NEW s \in Seq(Calls), s # <<>>, NEW x, NEW k \in Int, Divided(s, x, k),
         NEW l \in Int, NEW r \in Int, NEW pivot \in Int,
         Met(x, s[1].l0, s[1].n, l, r, pivot)
  PROVE  CanReplace(s, x, k, Left(s[1], r), Rest(s[1], l))
<1>0. PICK a, b : a = Left(s[1], r) /\ b = Rest(s[1], l)
  OBVIOUS
<1>1. /\ s[1] \in Calls /\ CallOK(s[1], x, k) /\ Tail(s) \in Seq(Calls)
      /\ Divided(Tail(s), x, k)
      /\ Pos(s[1]) \intersect Area(Tail(s)) = {} /\ Area(s) = Area(Tail(s)) \union Pos(s[1])
  BY TailHeld
<1>2. PICK lo, n, level : lo = s[1].l0 /\ n = s[1].n /\ level = s[1].level
  OBVIOUS
<1>3. /\ lo \in Nat /\ n \in Nat /\ level \in Nat /\ lo + n <= Length
      /\ level + n <= Length /\ n <= k /\ lo \in 0..Length
  BY <1>1, <1>2, CallTypes DEF CallOK, Calls
<1>4. PICK an, bn : an = r - lo + 1 /\ bn = lo + n - l
  OBVIOUS
<1>5. /\ a = [l0 |-> lo, n |-> an, level |-> level + 1]
      /\ b = [l0 |-> l, n |-> bn, level |-> level + 1]
      /\ Met(x, lo, n, l, r, pivot)
  BY <1>0, <1>2, <1>4 DEF Left, Rest
<1>6. Fit(x, lo, n, level, k, l, an, bn)
  BY <1>3, <1>4, <1>5, PartsFit, Zenon
<1>7. a \in Calls /\ b \in Calls
  <2>1. an \in 0..Length /\ bn \in 0..Length /\ level + 1 \in 0..Length
    BY <1>3, <1>6, QuickSortAssumption DEF Fit
  <2>2. lo \in 0..Length /\ l \in 0..Length
    BY <1>3, <1>6 DEF Fit
  <2>3. /\ [l0 |-> lo, n |-> an, level |-> level + 1] \in Calls
        /\ [l0 |-> l, n |-> bn, level |-> level + 1] \in Calls
    BY <2>1, <2>2 DEF Calls
  <2> QED
    BY <1>5, <2>3, Zenon
<1>8. /\ a.l0 = lo /\ a.n = an /\ a.level = level + 1
      /\ b.l0 = l /\ b.n = bn /\ b.level = level + 1
  BY <1>5
<1>9. CallOK(a, x, k) /\ CallOK(b, x, k)
  BY <1>6, <1>8 DEF CallOK, Fit
<1>10. Pos(a) = lo..(lo + an - 1) /\ Pos(b) = l..(l + bn - 1) /\ Pos(s[1]) = lo..(lo + n - 1)
  BY <1>2, <1>8 DEF Pos
<1>11. /\ Pos(a) \subseteq Pos(s[1]) /\ Pos(b) \subseteq Pos(s[1]) /\ Pos(a) \intersect Pos(b) = {}
       /\ \A p \in Pos(s[1]) : p \in Pos(a) \/ p \in Pos(b) \/ x[p] = p
  BY <1>6, <1>10 DEF Fit
<1>12. PICK t : t = Tail(s)
  OBVIOUS
<1>13. /\ t \in Seq(Calls) /\ Divided(t, x, k)
       /\ Pos(a) \intersect Area(t) = {} /\ Pos(b) \intersect Area(t) = {}
       /\ Area(s) = Area(t) \union Pos(s[1])
  BY <1>1, <1>11, <1>12
<1>14. PICK ta, tb : ta = <<a>> \o t /\ tb = <<b>> \o t
  OBVIOUS
<1>15. /\ ta \in Seq(Calls) /\ Divided(ta, x, k) /\ Area(ta) = Area(t) \union Pos(a)
  BY <1>7, <1>9, <1>13, <1>14, ConsHeld, Zenon
<1>16. /\ tb \in Seq(Calls) /\ Divided(tb, x, k) /\ Area(tb) = Area(t) \union Pos(b)
  BY <1>7, <1>9, <1>13, <1>14, ConsHeld, Zenon
<1>17. Pos(a) \intersect Area(tb) = {} /\ Pos(b) \intersect Area(ta) = {}
  BY <1>11, <1>13, <1>15, <1>16
<1>18. /\ Divided(<<a>> \o tb, x, k) /\ Area(<<a>> \o tb) = Area(tb) \union Pos(a)
  BY <1>7, <1>9, <1>16, <1>17, ConsHeld, Zenon
<1>19. /\ Divided(<<b>> \o ta, x, k) /\ Area(<<b>> \o ta) = Area(ta) \union Pos(b)
  BY <1>7, <1>9, <1>15, <1>17, ConsHeld, Zenon
<1>20. /\ Area(<<a>> \o tb) \subseteq Area(s) /\ Area(<<b>> \o ta) \subseteq Area(s)
       /\ \A p \in Area(s) \ Area(<<a>> \o tb) : x[p] = p
       /\ \A p \in Area(s) \ Area(<<b>> \o ta) : x[p] = p
  BY <1>11, <1>13, <1>15, <1>16, <1>18, <1>19
<1>21. \A u \in {<<a>> \o tb, <<b>> \o ta} : /\ Area(u) \subseteq Area(s)
                                           /\ \A p \in Area(s) \ Area(u) : x[p] = p
  BY <1>20, Zenon
<1>22. a.n < s[1].n /\ b.n < s[1].n
  BY <1>2, <1>6, <1>8 DEF Fit
<1>23. CanReplace(s, x, k, a, b)
  BY <1>1, <1>7, <1>12, <1>14, <1>18, <1>19, <1>21, <1>22, Zenon DEF CanReplace
<1> QED
  BY <1>0, <1>23, Zenon

-----------------------------------------------------------------------------
(* The inductive invariant. *)

(* The calls that a task has before it, those that it leaves to futures    *)
(* among them.                                                             *)
Held(j) == j.forks \o j.calls

(* A task in its loop is in the loop of its first call.                    *)
LoopOK(j, x) == /\ j.forks = <<>> /\ j.calls # <<>> /\ j.calls[1].n >= 2
                /\ Looping(x, j.calls[1].l0, j.calls[1].n, j.l, j.r, j.pivot)

(* What a task does: its calls are disjoint parts of its range, each with  *)
(* its values, and its futures are smaller than itself.                    *)
JobOK(j, x) == /\ j.task = NoFuture => j = Free
               /\ Divided(Held(j), x, j.task[2])
               /\ \A i \in 1..Len(j.forks) : 0 < j.forks[i].n /\ j.forks[i].n < j.task[2]
               /\ \A f \in j.made : f[2] < j.task[2]
               /\ j.loop => LoopOK(j, x)

(* A future that is done has returned futures.                             *)
FuturesType == /\ fstate \in [Ranges -> {"none", "pending", "running", "done"}]
               /\ fresult \in [Ranges -> (SUBSET Ranges) \union {NoFuture}]
               /\ \A f \in Ranges : fstate[f] = "done" => fresult[f] \subseteq Ranges

(* Before the list has been shuffled nothing is done. *)
Unstarted == fstate[Whole] = "none" => /\ flevel[Whole] = 0
                                       /\ \A f \in Ranges : fstate[f] = "none"

(* A task is run by one worker.                                            *)
TasksRun == /\ \A w \in Sorters : job[w].task # NoFuture => fstate[job[w].task] = "running"
            /\ \A v, w \in Sorters : v # w /\ job[v].task = job[w].task => job[w].task = NoFuture

(* No two workers have an element in common,                               *)
JobsApart == \A v, w \in Sorters : v # w => Area(Held(job[v])) \intersect Area(Held(job[w])) = {}

(* nor has a future that is not begun one with them or with another; it    *)
(* has the values that belong in its range.                                *)
PendingOK ==
  \A f \in Ranges : fstate[f] = "pending" =>
    /\ flevel[f] + f[2] <= Length
    /\ Right(xs, f[1], f[2])
    /\ \A w \in Sorters : Positions(f) \intersect Area(Held(job[w])) = {}
    /\ \A g \in Ranges : fstate[g] = "pending" /\ g # f => Positions(f) \intersect Positions(g) = {}

(* What is nobody's has its place.                                         *)
InPlace == \A p \in Index : \/ xs[p] = p
                            \/ \E f \in Ranges : fstate[f] = "pending" /\ p \in Positions(f)
                            \/ \E w \in Sorters : p \in Area(Held(job[w]))

(* The futures of U have still to be called, and the main thread will be   *)
(* told of each: it knows it, a task holds it, or the future that made it, *)
(* of a larger range, has still to be called itself.                       *)
ToldOf(U) ==
  /\ \A f \in Ranges : fstate[f] \in {"pending", "running"} => f \in U
  /\ \A f \in U : \/ f \in fs \/ f = called
                  \/ \E w \in Sorters : f \in job[w].made
                  \/ \E g \in U : fstate[g] = "done" /\ f \in fresult[g] /\ f[2] < g[2]

SortInv == /\ SortTypeOK /\ FuturesType /\ Unstarted /\ TasksRun
           /\ \A w \in Sorters : JobOK(job[w], xs)
           /\ JobsApart /\ PendingOK /\ InPlace
           /\ \E U \in SUBSET Ranges : ToldOf(U)

(* A range lies in the list; so does the whole of it.                      *)
LEMMA RangeTypes ==
  ASSUME NEW f \in Ranges
  PROVE  /\ f[1] \in Nat /\ f[2] \in Nat /\ f[1] + f[2] <= Length /\ f # NoFuture
         /\ f = <<f[1], f[2]>>
         /\ Positions(f) \subseteq Index
BY QuickSortAssumption DEF Ranges, Index, Positions

LEMMA FreeJob ==
  /\ Free \in Jobs /\ Held(Free) = <<>> /\ Area(Held(Free)) = {}
  /\ Free.task = NoFuture /\ Free.made = {} /\ ~Free.loop
  /\ \A x : JobOK(Free, x)
<1>1. /\ Free.task = NoFuture /\ Free.made = {} /\ Free.loop = FALSE
      /\ Free.forks = <<>> /\ Free.calls = <<>>
  BY DEF Free
<1>2. Free \in Jobs
  BY QuickSortAssumption DEF Free, Jobs, Index
<1>3. Held(Free) = <<>>
  <2>1. <<>> \in Seq(Calls)
    OBVIOUS
  <2> QED
    BY <1>1, <2>1, ConcatEmptySeq DEF Held
<1>4. Len(<<>>) = 0
  OBVIOUS
<1>5. Area(Held(Free)) = {}
  BY <1>3, NothingHeld
<1>6. \A x : JobOK(Free, x)
  BY <1>1, <1>3, <1>4, NothingHeld DEF JobOK
<1> QED
  BY <1>1, <1>2, <1>3, <1>5, <1>6

LEMMA WholeIsRange == /\ Whole \in Ranges /\ Whole[1] = 0 /\ Whole[2] = Length
                      /\ Positions(Whole) = Index
BY QuickSortAssumption DEF Whole, Ranges, Index, Positions

(* The invariant holds before the list is shuffled.                        *)
LEMMA SortInitInv == SortInit => SortInv
<1> SUFFICES ASSUME SortInit
             PROVE  SortInv
  OBVIOUS
<1>1. /\ xs = [i \in Index |-> i] /\ fstate = [f \in Ranges |-> "none"]
      /\ fresult = [f \in Ranges |-> NoFuture]
      /\ flevel = [f \in Ranges |-> 0] /\ job = [w \in Sorters |-> Free] /\ called = NoFuture
      /\ fs = {}
  BY DEF SortInit, F!Init
<1>2. SortTypeOK
  BY <1>1, FreeJob, QuickSortAssumption DEF SortTypeOK
<1>3. FuturesType /\ Unstarted
  BY <1>1, WholeIsRange DEF FuturesType, Unstarted
<1>4. TasksRun /\ (\A w \in Sorters : JobOK(job[w], xs)) /\ JobsApart
  BY <1>1, FreeJob DEF TasksRun, JobsApart
<1>5. PendingOK /\ InPlace
  BY <1>1 DEF PendingOK, InPlace
<1>6. ToldOf({})
  BY <1>1 DEF ToldOf
<1> QED
  BY <1>2, <1>3, <1>4, <1>5, <1>6 DEF SortInv

(* The parts of a job and what it holds.                                   *)
LEMMA HeldTypes ==
  ASSUME NEW j \in Jobs
  PROVE  /\ j.calls \in Seq(Calls) /\ j.forks \in Seq(Calls) /\ Held(j) \in Seq(Calls)
         /\ Len(Held(j)) = Len(j.forks) + Len(j.calls)
         /\ j.forks = <<>> => Held(j) = j.calls
         /\ j.task \in Ranges \union {NoFuture} /\ j.loop \in BOOLEAN /\ j.made \subseteq Ranges
         /\ j.l \in 0..Length /\ j.r \in (-1)..Length /\ j.pivot \in Index
BY ConcatProperties, ConcatEmptySeq DEF Jobs, Held

(* What a worker does to the list outside its area does not touch it.      *)
LEMMA JobFrame ==
  ASSUME NEW j \in Jobs, NEW x, NEW y, JobOK(j, x), \A p \in Area(Held(j)) : y[p] = x[p]
  PROVE  JobOK(j, y)
<1>1. Held(j) \in Seq(Calls) /\ Divided(Held(j), x, j.task[2])
  BY HeldTypes DEF JobOK
<1>2. Divided(Held(j), y, j.task[2])
  BY <1>1, HeldFrame
<1>3. ASSUME j.loop
      PROVE  LoopOK(j, y)
  <2>1. LoopOK(j, x) /\ Held(j) = j.calls /\ j.calls # <<>>
    BY <1>3, HeldTypes DEF JobOK, LoopOK
  <2>2. Pos(j.calls[1]) \subseteq Area(Held(j)) /\ j.calls[1] \in Calls
    BY <1>1, <2>1, TailHeld
  <2>3. j.l \in Int /\ j.r \in Int /\ j.pivot \in Int
    <3>1. j.l \in 0..Length /\ j.r \in (-1)..Length /\ j.pivot \in 0..(Length - 1)
      BY HeldTypes DEF Index
    <3> QED
      BY <3>1
  <2>4. PICK lo, n, l, r, pivot : /\ lo = j.calls[1].l0 /\ n = j.calls[1].n /\ l = j.l /\ r = j.r
                                  /\ pivot = j.pivot
    OBVIOUS
  <2>5. /\ lo \in Int /\ n \in Int /\ l \in Int /\ r \in Int /\ pivot \in Int
    BY <2>2, <2>3, <2>4, CallTypes
  <2>6. Looping(x, lo, n, l, r, pivot)
    BY <2>1, <2>4 DEF LoopOK
  <2>7. \A p \in lo..(lo + n - 1) : y[p] = x[p]
    BY <1>1, <2>2, <2>4 DEF Pos
  <2>8. /\ lo..(l - 1) \subseteq lo..(lo + n - 1)
        /\ (r + 1)..(lo + n - 1) \subseteq lo..(lo + n - 1)
        /\ l..r \subseteq lo..(lo + n - 1)
    BY <2>5, <2>6 DEF Looping
  <2>9. Looping(y, lo, n, l, r, pivot)
    BY <2>6, <2>7, <2>8 DEF Looping
  <2> QED
    BY <2>1, <2>4, <2>9 DEF LoopOK
<1> QED
  BY <1>2, <1>3 DEF JobOK

(* A step of a task that makes no future and ends none. *)
LEMMA WorkStep ==
  ASSUME SortInv, NEW w \in Sorters, NEW j \in Jobs, job[w] # Free,
         j.task = job[w].task, j.made = job[w].made, JobOK(j, xs'),
         job' = [job EXCEPT ![w] = j], xs' \in [Index -> Index],
         UNCHANGED <<futures, called, fs>>,
         Area(Held(j)) \subseteq Area(Held(job[w])),
         \A p \in Index \ Area(Held(job[w])) : xs'[p] = xs[p],
         \A p \in Area(Held(job[w])) \ Area(Held(j)) : xs'[p] = p
  PROVE  SortInv'
<1> USE DEF futures
<1>1. /\ SortTypeOK /\ FuturesType /\ Unstarted /\ TasksRun
      /\ \A v \in Sorters : job[v] \in Jobs /\ JobOK(job[v], xs)
      /\ JobsApart /\ PendingOK /\ InPlace
  BY DEF SortInv, SortTypeOK
<1>2. /\ job \in [Sorters -> Jobs] /\ job'[w] = j /\ \A v \in Sorters : v # w => job'[v] = job[v]
  BY <1>1 DEF SortTypeOK
<1>3. SortTypeOK'
  BY <1>1, <1>2 DEF SortTypeOK
<1>4. FuturesType' /\ Unstarted'
  BY <1>1 DEF FuturesType, Unstarted
<1>5. \A v \in Sorters : job'[v].task = job[v].task /\ job'[v].made = job[v].made
  BY <1>2
<1>6. TasksRun'
  BY <1>1, <1>5 DEF TasksRun
<1>7. ASSUME NEW v \in Sorters
      PROVE  JobOK(job'[v], xs')
  <2>1. CASE v = w
    BY <1>2, <2>1
  <2>2. CASE v # w
    <3>1. \A p \in Area(Held(job[v])) : xs'[p] = xs[p]
      BY <1>1, <2>2 DEF JobsApart, Area
    <3>2. JobOK(job[v], xs')
      BY <1>1, <3>1, JobFrame
    <3> QED
      BY <1>2, <2>2, <3>2
  <2> QED
    BY <2>1, <2>2
<1>8. \A v \in Sorters : Area(Held(job'[v])) \subseteq Area(Held(job[v]))
  BY <1>2
<1>9. JobsApart'
  <2>1. \A v, u \in Sorters : v # u =>
           Area(Held(job'[v])) \intersect Area(Held(job'[u])) = {}
    BY <1>1, <1>8 DEF JobsApart
  <2> QED
    BY <2>1 DEF JobsApart
<1>10. PendingOK'
  <2> SUFFICES ASSUME NEW f \in Ranges, fstate[f] = "pending"
               PROVE  /\ flevel[f] + f[2] <= Length
                      /\ Right(xs', f[1], f[2])
                      /\ \A v \in Sorters : Positions(f) \intersect Area(Held(job'[v])) = {}
                      /\ \A g \in Ranges : fstate[g] = "pending" /\ g # f =>
                           Positions(f) \intersect Positions(g) = {}
    BY DEF PendingOK
  <2>1. /\ flevel[f] + f[2] <= Length /\ Right(xs, f[1], f[2])
        /\ \A v \in Sorters : Positions(f) \intersect Area(Held(job[v])) = {}
        /\ \A g \in Ranges : fstate[g] = "pending" /\ g # f =>
                           Positions(f) \intersect Positions(g) = {}
    BY <1>1 DEF PendingOK
  <2>2. \A p \in Positions(f) : xs'[p] = xs[p]
    BY <2>1, RangeTypes
  <2>3. Right(xs', f[1], f[2])
    BY <2>1, <2>2 DEF Right, Positions
  <2> QED
    BY <1>8, <2>1, <2>3
<1>11. InPlace'
  <2> SUFFICES ASSUME NEW p \in Index
               PROVE  \/ xs'[p] = p
                      \/ \E f \in Ranges : fstate[f] = "pending" /\ p \in Positions(f)
                      \/ \E v \in Sorters : p \in Area(Held(job'[v]))
    BY DEF InPlace
  <2>1. CASE p \in Area(Held(job[w]))
    BY <1>2, <2>1
  <2>2. CASE p \notin Area(Held(job[w]))
    <3>1. xs'[p] = xs[p]
      BY <2>2
    <3>2. \A v \in Sorters : p \in Area(Held(job[v])) => p \in Area(Held(job'[v]))
      BY <1>2, <2>2
    <3> QED
      BY <1>1, <3>1, <3>2 DEF InPlace
  <2> QED
    BY <2>1, <2>2
<1>12. \E U \in SUBSET Ranges : ToldOf(U)'
  <2>1. PICK U \in SUBSET Ranges : ToldOf(U)
    BY DEF SortInv
  <2>2. ToldOf(U)'
    BY <1>5, <2>1 DEF ToldOf
  <2> QED
    BY <2>2
<1> QED
  BY <1>3, <1>4, <1>6, <1>7, <1>9, <1>10, <1>11, <1>12 DEF SortInv

(* What is known of a worker that has a task. *)
LEMMA Working ==
  ASSUME SortInv, NEW w \in Sorters, job[w] # Free
  PROVE  /\ job \in [Sorters -> Jobs] /\ xs \in [Index -> Index]
         /\ job[w] \in Jobs /\ JobOK(job[w], xs)
         /\ job[w].task \in Ranges /\ fstate[job[w].task] = "running"
         /\ job[w].task[2] \in Nat
BY HeldTypes, RangeTypes DEF SortInv, SortTypeOK, JobOK, TasksRun

(* return []: a part of less than two elements has its place.              *)
LEMMA CallReturnsStep ==
  ASSUME SortInv, NEW w \in Sorters, CallReturns(w)
  PROVE  SortInv'
<1> DEFINE o == job[w]
           j == [o EXCEPT !.calls = Tail(@)]
<1>1. /\ o # Free /\ ~o.loop /\ o.forks = <<>> /\ o.calls # <<>> /\ o.calls[1].n < 2
      /\ job' = [job EXCEPT ![w] = j] /\ UNCHANGED <<xs, futures, called, fs>>
  BY DEF CallReturns, Between
<1>2. /\ o \in Jobs /\ JobOK(o, xs) /\ o.task \in Ranges /\ xs \in [Index -> Index]
  BY <1>1, Working
<1>3. o.calls \in Seq(Calls) /\ Held(o) = o.calls /\ Divided(o.calls, xs, o.task[2])
  BY <1>1, <1>2, HeldTypes DEF JobOK
<1>4. /\ o.calls[1] \in Calls /\ CallOK(o.calls[1], xs, o.task[2]) /\ Tail(o.calls) \in Seq(Calls)
      /\ Divided(Tail(o.calls), xs, o.task[2])
      /\ Area(o.calls) = Area(Tail(o.calls)) \union Pos(o.calls[1])
  BY <1>1, <1>3, TailHeld
<1>5. j \in Jobs
  BY <1>2, <1>4 DEF Jobs
<1>6. /\ j.task = o.task /\ j.made = o.made /\ j.forks = <<>> /\ j.loop = o.loop
      /\ j.calls = Tail(o.calls)
  BY <1>1, <1>2 DEF Jobs
<1> HIDE DEF j
<1>7. Held(j) = Tail(o.calls)
  BY <1>5, <1>6, HeldTypes
<1>8. JobOK(j, xs)
  <2>1. j.task # NoFuture
    BY <1>2, <1>6, RangeTypes
  <2>2. \A f \in o.made : f[2] < o.task[2]
    BY <1>2 DEF JobOK
  <2>3. Len(j.forks) = 0
    BY <1>6
  <2> QED
    BY <1>1, <1>4, <1>6, <1>7, <2>1, <2>2, <2>3 DEF JobOK
<1>9. \A p \in Pos(o.calls[1]) : xs[p] = p
  <2>1. PICK a, n : a = o.calls[1].l0 /\ n = o.calls[1].n
    OBVIOUS
  <2>2. a \in Nat /\ n \in Nat /\ n < 2 /\ Right(xs, a, n)
    BY <1>1, <1>4, <2>1, CallTypes DEF CallOK
  <2>3. \A p \in a..(a + n - 1) : xs[p] = p
    BY <2>2 DEF Right
  <2> QED
    BY <2>1, <2>3 DEF Pos
<1>10. /\ Area(Held(j)) \subseteq Area(Held(o))
       /\ \A p \in Area(Held(o)) \ Area(Held(j)) : xs[p] = p
  BY <1>3, <1>4, <1>7, <1>9
<1> HIDE DEF o
<1>11. xs' = xs /\ JobOK(j, xs')
  BY <1>1, <1>8
<1> QED
  BY <1>1, <1>2, <1>5, <1>6, <1>10, <1>11, WorkStep DEF o

(* The loop begins,                                                        *)
LEMMA CallBeginsStep ==
  ASSUME SortInv, NEW w \in Sorters, CallBegins(w)
  PROVE  SortInv'
<1> DEFINE o == job[w]
           c == o.calls[1]
           j == [o EXCEPT !.loop = TRUE, !.l = c.l0, !.r = c.l0 + c.n - 1,
                          !.pivot = xs[c.l0 + (c.n \div 2)]]
<1>1. /\ o # Free /\ ~o.loop /\ o.forks = <<>> /\ o.calls # <<>> /\ c.n >= 2
      /\ UNCHANGED <<xs, futures, called, fs>>
  BY DEF CallBegins, Between
<1>2. /\ o \in Jobs /\ JobOK(o, xs) /\ o.task \in Ranges /\ xs \in [Index -> Index]
      /\ job \in [Sorters -> Jobs]
  BY <1>1, Working
<1>3. job' = [job EXCEPT ![w] = j]
  BY <1>2 DEF CallBegins
<1>4. o.calls \in Seq(Calls) /\ Held(o) = o.calls /\ Divided(o.calls, xs, o.task[2])
  BY <1>1, <1>2, HeldTypes DEF JobOK
<1>5. c \in Calls /\ CallOK(c, xs, o.task[2])
  BY <1>1, <1>4, TailHeld
<1>6. /\ c.l0 \in 0..Length /\ c.l0 + c.n - 1 \in (-1)..Length /\ c.l0 \in Int /\ c.n \in Nat
      /\ c.l0 + (c.n \div 2) \in Index
  <2>1. c.l0 \in Nat /\ c.n \in Nat /\ c.l0 + c.n <= Length /\ Length \in Nat
    BY <1>5, CallTypes, QuickSortAssumption DEF CallOK
  <2>2. PICK a, n : a = c.l0 /\ n = c.n
    OBVIOUS
  <2>3. a \in Nat /\ n \in Nat /\ n >= 2 /\ a + n <= Length
    BY <1>1, <2>1, <2>2
  <2>4. a \in 0..Length /\ a + n - 1 \in (-1)..Length /\ a + (n \div 2) \in 0..(Length - 1)
    BY <2>1, <2>3
  <2> QED
    BY <2>1, <2>2, <2>4 DEF Index
<1>7. xs[c.l0 + (c.n \div 2)] \in Index
  BY <1>2, <1>6
<1>8. j \in Jobs
  BY <1>2, <1>6, <1>7 DEF Jobs
<1>9. /\ j.task = o.task /\ j.made = o.made /\ j.forks = o.forks /\ j.calls = o.calls
      /\ j.l = c.l0 /\ j.r = c.l0 + c.n - 1 /\ j.pivot = xs[c.l0 + (c.n \div 2)]
  BY <1>2 DEF Jobs
<1>10. Looping(xs, c.l0, c.n, c.l0, c.l0 + c.n - 1, xs[c.l0 + (c.n \div 2)])
  BY <1>1, <1>6, LoopBegins
<1> HIDE DEF j
<1>11. Held(j) = Held(o)
  BY <1>9 DEF Held
<1>12. JobOK(j, xs)
  <2>1. LoopOK(j, xs)
    BY <1>1, <1>9, <1>10 DEF LoopOK
  <2>2. j.task # NoFuture
    BY <1>2, <1>9, RangeTypes
  <2> QED
    BY <1>2, <1>9, <1>11, <2>1, <2>2 DEF JobOK
<1> HIDE DEF o
<1>13. xs' = xs /\ JobOK(j, xs')
  BY <1>1, <1>12
<1> QED
  BY <1>1, <1>2, <1>3, <1>8, <1>9, <1>11, <1>13, WorkStep DEF o

(* takes a turn,                                                           *)
LEMMA PartitionStep ==
  ASSUME SortInv, NEW w \in Sorters, Partition(w)
  PROVE  SortInv'
<1> DEFINE o == job[w]
           c == o.calls[1]
           up == [o EXCEPT !.l = @ + 1]
           down == [o EXCEPT !.r = @ - 1]
           both == [o EXCEPT !.l = @ + 1, !.r = @ - 1]
<1>1. o.loop /\ o.l <= o.r /\ UNCHANGED <<futures, called, fs>> /\ o # Free
  BY FreeJob DEF Partition
<1>2. /\ o \in Jobs /\ JobOK(o, xs) /\ o.task \in Ranges /\ xs \in [Index -> Index]
      /\ job \in [Sorters -> Jobs]
  BY <1>1, Working
<1>3. /\ o.calls \in Seq(Calls) /\ Held(o) = o.calls /\ Divided(o.calls, xs, o.task[2])
      /\ o.forks = <<>> /\ o.calls # <<>> /\ c.n >= 2
      /\ Looping(xs, c.l0, c.n, o.l, o.r, o.pivot)
  BY <1>1, <1>2, HeldTypes DEF JobOK, LoopOK
<1>4. /\ c \in Calls /\ CallOK(c, xs, o.task[2]) /\ Pos(c) \subseteq Area(Held(o))
      /\ Pos(c) \intersect Area(Tail(o.calls)) = {} /\ Area(Held(o)) = Area(Tail(o.calls)) \union Pos(c)
      /\ Divided(Tail(o.calls), xs, o.task[2]) /\ Tail(o.calls) \in Seq(Calls)
  BY <1>1, <1>3, TailHeld
<1>5. PICK lo, n, l, r, pivot : /\ lo = c.l0 /\ n = c.n /\ l = o.l /\ r = o.r /\ pivot = o.pivot
  OBVIOUS
<1>6. /\ lo \in Nat /\ n \in Nat /\ lo + n <= Length /\ Length \in Nat
      /\ l \in Int /\ r \in Int /\ pivot \in Int
      /\ Looping(xs, lo, n, l, r, pivot) /\ l <= r /\ Right(xs, lo, n) /\ n >= 2
  <2>1. /\ lo \in Nat /\ n \in Nat /\ lo + n <= Length /\ Right(xs, lo, n)
    BY <1>4, <1>5, CallTypes DEF CallOK
  <2>2. l \in 0..Length /\ r \in (-1)..Length /\ pivot \in 0..(Length - 1)
    BY <1>2, <1>5, HeldTypes DEF Index
  <2>3. Length \in Nat
    BY QuickSortAssumption
  <2>4. l \in Int /\ r \in Int /\ pivot \in Int
    BY <2>2
  <2> QED
    BY <1>1, <1>3, <1>5, <2>1, <2>3, <2>4
<1>7. /\ lo <= l /\ l <= r /\ r <= lo + n - 1 /\ l \in Index /\ r \in Index
      /\ l + 1 \in 0..Length /\ r - 1 \in (-1)..Length
      /\ Pos(c) = lo..(lo + n - 1)
  BY <1>5, <1>6 DEF Looping, Index, Pos
<1>8. /\ xs[l] \in Index /\ xs[r] \in Index /\ xs[l] \in Int /\ xs[r] \in Int
  BY <1>2, <1>7 DEF Index
<1>9. /\ up \in Jobs /\ up.task = o.task /\ up.made = o.made /\ up.forks = o.forks
      /\ up.calls = o.calls /\ up.l = l + 1 /\ up.r = r /\ up.pivot = pivot
  BY <1>2, <1>5, <1>7 DEF Jobs
<1>10. /\ down \in Jobs /\ down.task = o.task /\ down.made = o.made /\ down.forks = o.forks
       /\ down.calls = o.calls /\ down.l = l /\ down.r = r - 1 /\ down.pivot = pivot
  BY <1>2, <1>5, <1>7 DEF Jobs
<1>11. /\ both \in Jobs /\ both.task = o.task /\ both.made = o.made /\ both.forks = o.forks
       /\ both.calls = o.calls /\ both.l = l + 1 /\ both.r = r - 1 /\ both.pivot = pivot
  BY <1>2, <1>5, <1>7 DEF Jobs
<1>12. \/ xs[l] < pivot /\ job' = [job EXCEPT ![w] = up] /\ xs' = xs
       \/ ~(xs[l] < pivot) /\ xs[r] > pivot /\ job' = [job EXCEPT ![w] = down] /\ xs' = xs
       \/ /\ ~(xs[l] < pivot) /\ ~(xs[r] > pivot) /\ job' = [job EXCEPT ![w] = both]
          /\ xs' = [xs EXCEPT ![l] = xs[r], ![r] = xs[l]]
  <2>1. \/ xs[o.l] < o.pivot /\ job' = [job EXCEPT ![w].l = @ + 1] /\ UNCHANGED xs
        \/ /\ xs[o.l] >= o.pivot /\ xs[o.r] > o.pivot
           /\ job' = [job EXCEPT ![w].r = @ - 1] /\ UNCHANGED xs
        \/ /\ ~(xs[o.l] < o.pivot) /\ ~(xs[o.l] >= o.pivot /\ xs[o.r] > o.pivot)
           /\ xs' = [xs EXCEPT ![o.l] = xs[o.r], ![o.r] = xs[o.l]]
           /\ job' = [job EXCEPT ![w].l = @ + 1, ![w].r = @ - 1]
    BY DEF Partition
  <2>2. xs[l] < pivot \/ xs[l] >= pivot
    BY <1>6, <1>8
  <2>3. /\ [job EXCEPT ![w].l = @ + 1] = [job EXCEPT ![w] = up]
        /\ [job EXCEPT ![w].r = @ - 1] = [job EXCEPT ![w] = down]
        /\ [job EXCEPT ![w].l = @ + 1, ![w].r = @ - 1] = [job EXCEPT ![w] = both]
    BY <1>2
  <2>4. ~(xs[l] < pivot) \/ ~(xs[l] >= pivot)
    BY <1>6, <1>8
  <2> HIDE DEF o, up, down, both
  <2> QED
    BY <1>5, <2>1, <2>2, <2>3, <2>4
<1> HIDE DEF up, down, both
<1>13. ASSUME NEW j \in Jobs, j.task = o.task, j.made = o.made, j.forks = o.forks,
              j.calls = o.calls, Looping(xs', lo, n, j.l, j.r, j.pivot),
              Divided(o.calls, xs', o.task[2])
       PROVE  JobOK(j, xs') /\ Held(j) = Held(o)
  <2>1. Held(j) = Held(o)
    BY <1>13 DEF Held
  <2>2. LoopOK(j, xs')
    BY <1>3, <1>5, <1>13 DEF LoopOK
  <2>3. j.task # NoFuture
    BY <1>2, <1>13, RangeTypes
  <2> QED
    BY <1>2, <1>3, <1>13, <2>1, <2>2, <2>3 DEF JobOK
<1>14. CASE xs[l] < pivot /\ job' = [job EXCEPT ![w] = up] /\ xs' = xs
  <2>1. Looping(xs, lo, n, l + 1, r, pivot)
    BY <1>6, <1>8, <1>14, LoopGoesUp
  <2>2. JobOK(up, xs') /\ Held(up) = Held(o)
    BY <1>3, <1>9, <1>13, <1>14, <2>1
  <2> HIDE DEF o
  <2> QED
    BY <1>1, <1>2, <1>9, <1>14, <2>2, WorkStep DEF o
<1>15. CASE xs[r] > pivot /\ job' = [job EXCEPT ![w] = down] /\ xs' = xs
  <2>1. Looping(xs, lo, n, l, r - 1, pivot)
    BY <1>6, <1>8, <1>15, LoopGoesDown
  <2>2. JobOK(down, xs') /\ Held(down) = Held(o)
    BY <1>3, <1>10, <1>13, <1>15, <2>1
  <2> HIDE DEF o
  <2> QED
    BY <1>1, <1>2, <1>10, <1>15, <2>2, WorkStep DEF o
<1>16. CASE /\ ~(xs[l] < pivot) /\ ~(xs[r] > pivot) /\ job' = [job EXCEPT ![w] = both]
            /\ xs' = [xs EXCEPT ![l] = xs[r], ![r] = xs[l]]
  <2>1. /\ xs' \in [Index -> Index] /\ xs'[l] = xs[r] /\ xs'[r] = xs[l]
        /\ \A p \in Index : p # l /\ p # r => xs'[p] = xs[p]
    BY <1>2, <1>7, <1>8, <1>16
  <2>2. xs[l] >= pivot /\ xs[r] <= pivot
    BY <1>6, <1>8, <1>16
  <2>3. lo..(lo + n - 1) \subseteq Index
    BY <1>6 DEF Index
  <2>4. /\ Looping(xs', lo, n, l + 1, r - 1, pivot) /\ Right(xs', lo, n)
    <3>1. lo \in Int /\ \A p \in lo..(lo + n - 1) : p # l /\ p # r => xs'[p] = xs[p]
      BY <1>6, <2>1, <2>3
    <3> QED
      BY <1>6, <2>1, <2>2, <3>1, LoopSwaps
  <2>5. \A p \in Index \ Pos(c) : xs'[p] = xs[p]
    <3>1. l \in Pos(c) /\ r \in Pos(c)
      BY <1>6, <1>7
    <3> QED
      BY <2>1, <3>1
  <2>6. Divided(o.calls, xs', o.task[2])
    <3>1. ASSUME NEW i \in 1..Len(o.calls)
          PROVE  CallOK(o.calls[i], xs', o.task[2])
      <4>1. CallOK(o.calls[i], xs, o.task[2]) /\ o.calls[i] \in Calls
        BY <1>3, ElementOfSeq DEF Divided
      <4>2. CASE i = 1
        BY <1>5, <2>4, <4>1, <4>2 DEF CallOK
      <4>3. CASE i # 1
        <5>1. 1 \in 1..Len(o.calls)
          BY <1>3, EmptySeq
        <5>2. Pos(o.calls[i]) \intersect Pos(c) = {}
          BY <1>3, <4>3, <5>1 DEF Divided
        <5>3. Pos(o.calls[i]) \subseteq Index
          BY <4>1, CallTypes DEF CallOK
        <5>4. \A p \in Pos(o.calls[i]) : xs'[p] = xs[p]
          BY <2>5, <5>2, <5>3
        <5>5. Right(xs', o.calls[i].l0, o.calls[i].n)
          BY <4>1, <5>4 DEF CallOK, Right, Pos
        <5> QED
          BY <4>1, <5>5 DEF CallOK
      <4> QED
        BY <4>2, <4>3
    <3> QED
      BY <1>3, <3>1 DEF Divided
  <2>7. JobOK(both, xs') /\ Held(both) = Held(o)
    BY <1>11, <1>13, <2>4, <2>6
  <2>8. \A p \in Index \ Area(Held(o)) : xs'[p] = xs[p]
    BY <1>4, <2>5
  <2> HIDE DEF o
  <2> QED
    BY <1>1, <1>2, <1>11, <1>16, <2>1, <2>7, <2>8, WorkStep DEF o
<1> QED
  BY <1>12, <1>14, <1>15, <1>16

(* How Divide sorts the parts into futures and calls.                      *)
ForksOf(a, b, fa, fb) == If(fa, a) \o If(fb, b)
CallsOf(a, b, fa, fb, t) == If(~fa, a) \o If(~fb, b) \o t

(* Whichever parts are left to futures, all of them are kept, in one of    *)
(* the two orders.                                                         *)
Kept(a, b, fa, fb, t, forks, calls) ==
  /\ forks \in Seq(Calls) /\ calls \in Seq(Calls)
  /\ \/ forks \o calls = <<a>> \o (<<b>> \o t)
     \/ forks \o calls = <<b>> \o (<<a>> \o t)
  /\ \A i \in 1..Len(forks) : (forks[i] = a /\ fa) \/ (forks[i] = b /\ fb)

LEMMA SplitParts ==
  ASSUME NEW a \in Calls, NEW b \in Calls, NEW t \in Seq(Calls),
         NEW fa \in BOOLEAN, NEW fb \in BOOLEAN
  PROVE  Kept(a, b, fa, fb, t, ForksOf(a, b, fa, fb), CallsOf(a, b, fa, fb, t))
<1>0. PICK forks, calls : /\ forks = ForksOf(a, b, fa, fb)
                          /\ calls = CallsOf(a, b, fa, fb, t)
  OBVIOUS
<1> SUFFICES Kept(a, b, fa, fb, t, forks, calls)
  BY <1>0, Zenon
<1>1. PICK sa, sb : sa = <<a>> /\ sb = <<b>>
  OBVIOUS
<1>2. /\ sa \in Seq(Calls) /\ sb \in Seq(Calls) /\ <<>> \in Seq(Calls)
      /\ Len(sa) = 1 /\ Len(sb) = 1 /\ sa[1] = a /\ sb[1] = b
  BY <1>1
<1>3. /\ sa \o t \in Seq(Calls) /\ sb \o t \in Seq(Calls) /\ sa \o sb \in Seq(Calls)
  BY <1>2, ConcatProperties, Zenon
<1>4. (sa \o sb) \o t = sa \o (sb \o t) /\ sa \o (sb \o t) \in Seq(Calls)
  <2>1. (sa \o sb) \o t = sa \o (sb \o t)
    BY <1>2, ConcatAssociative
  <2>2. sa \o (sb \o t) \in Seq(Calls)
    BY <1>2, <1>3, ConcatProperties, Zenon
  <2> QED
    BY <2>1, <2>2
<1>5. \A u \in Seq(Calls) : u \o <<>> = u /\ <<>> \o u = u
  BY ConcatEmptySeq, Zenon
<1>6. Kept(a, b, fa, fb, t, forks, calls) <=>
        /\ forks \in Seq(Calls) /\ calls \in Seq(Calls)
        /\ forks \o calls = sa \o (sb \o t) \/ forks \o calls = sb \o (sa \o t)
        /\ \A i \in 1..Len(forks) : (forks[i] = a /\ fa) \/ (forks[i] = b /\ fb)
  BY <1>1, Zenon DEF Kept
<1>7. forks = If(fa, a) \o If(fb, b) /\ calls = (If(~fa, a) \o If(~fb, b)) \o t
  BY <1>0, Zenon DEF ForksOf, CallsOf
<1>8. /\ fa => If(fa, a) = sa /\ If(~fa, a) = <<>>
      /\ ~fa => If(fa, a) = <<>> /\ If(~fa, a) = sa
      /\ fb => If(fb, b) = sb /\ If(~fb, b) = <<>>
      /\ ~fb => If(fb, b) = <<>> /\ If(~fb, b) = sb
  BY <1>1 DEF If
<1>9. CASE fa /\ fb
  <2>1. forks = sa \o sb /\ calls = (<<>> \o <<>>) \o t
    BY <1>7, <1>8, <1>9, Zenon
  <2>2. calls = t
    BY <1>2, <1>5, <2>1, Zenon
  <2>3. /\ Len(forks) = Len(sa) + Len(sb)
        /\ \A i \in 1..(Len(sa) + Len(sb)) : forks[i] = IF i <= Len(sa) THEN sa[i] ELSE sb[i - Len(sa)]
    BY <1>2, <2>1, ConcatProperties, Zenon
  <2>4. \A i \in 1..Len(forks) : forks[i] = a \/ forks[i] = b
    <3>1. Len(forks) = 2 /\ \A i \in 1..2 : forks[i] = IF i <= 1 THEN sa[i] ELSE sb[i - 1]
      BY <1>2, <2>3
    <3>2. forks[1] = sa[1] /\ forks[2] = sb[1]
      BY <3>1
    <3> QED
      BY <1>2, <3>1, <3>2
  <2>5. \A i \in 1..Len(forks) : (forks[i] = a /\ fa) \/ (forks[i] = b /\ fb)
    BY <1>9, <2>4, Zenon
  <2>6. forks \in Seq(Calls) /\ calls \in Seq(Calls) /\ forks \o calls = sa \o (sb \o t)
    BY <1>3, <1>4, <2>1, <2>2, Zenon
  <2> QED
    BY <1>6, <2>5, <2>6, Zenon
<1>10. CASE fa /\ ~fb
  <2>1. forks = sa \o <<>> /\ calls = (<<>> \o sb) \o t
    BY <1>7, <1>8, <1>10, Zenon
  <2>2. forks = sa /\ calls = sb \o t
    BY <1>2, <1>5, <2>1, Zenon
  <2>3. ASSUME NEW i \in 1..Len(forks)
        PROVE  forks[i] = a
    <3>1. Len(forks) = 1 /\ forks[1] = a
      BY <1>2, <2>2, Zenon
    <3>2. i = 1
      BY <3>1
    <3> QED
      BY <3>1, <3>2, Zenon
  <2>4. \A i \in 1..Len(forks) : (forks[i] = a /\ fa) \/ (forks[i] = b /\ fb)
    BY <1>10, <2>3, Zenon
  <2>5. forks \in Seq(Calls) /\ calls \in Seq(Calls) /\ forks \o calls = sa \o (sb \o t)
    BY <1>2, <1>3, <2>2, Zenon
  <2> QED
    BY <1>6, <2>4, <2>5, Zenon
<1>11. CASE ~fa /\ fb
  <2>1. forks = <<>> \o sb /\ calls = (sa \o <<>>) \o t
    BY <1>7, <1>8, <1>11, Zenon
  <2>2. forks = sb /\ calls = sa \o t
    BY <1>2, <1>5, <2>1, Zenon
  <2>3. ASSUME NEW i \in 1..Len(forks)
        PROVE  forks[i] = b
    <3>1. Len(forks) = 1 /\ forks[1] = b
      BY <1>2, <2>2, Zenon
    <3>2. i = 1
      BY <3>1
    <3> QED
      BY <3>1, <3>2, Zenon
  <2>4. \A i \in 1..Len(forks) : (forks[i] = a /\ fa) \/ (forks[i] = b /\ fb)
    BY <1>11, <2>3, Zenon
  <2>5. forks \in Seq(Calls) /\ calls \in Seq(Calls) /\ forks \o calls = sb \o (sa \o t)
    BY <1>2, <1>3, <2>2, Zenon
  <2> QED
    BY <1>6, <2>4, <2>5, Zenon
<1>12. CASE ~fa /\ ~fb
  <2>1. forks = <<>> \o <<>> /\ calls = (sa \o sb) \o t
    BY <1>7, <1>8, <1>12, Zenon
  <2>2. forks = <<>> /\ calls = sa \o (sb \o t) /\ forks \o calls = calls
    BY <1>2, <1>4, <1>5, <2>1, Zenon
  <2>3. ~ \E i \in 1..Len(forks) : TRUE
    BY <2>2
  <2>4. \A i \in 1..Len(forks) : (forks[i] = a /\ fa) \/ (forks[i] = b /\ fb)
    BY <2>3, Zenon
  <2>5. forks \in Seq(Calls) /\ calls \in Seq(Calls) /\ forks \o calls = sa \o (sb \o t)
    BY <1>2, <1>4, <2>2, Zenon
  <2> QED
    BY <1>6, <2>4, <2>5, Zenon
<1> QED
  BY <1>9, <1>10, <1>11, <1>12

(* and the parts that it leaves take the place of the call.                *)
LEMMA DivideStep ==
  ASSUME SortInv, NEW w \in Sorters, Divide(w)
  PROVE  SortInv'
<1> DEFINE o == job[w]
           c == o.calls[1]
           a == Parts(o)[1]
           b == Parts(o)[2]
           forks == ForksOf(a, b, ToFuture(a), ToFuture(b))
           calls == CallsOf(a, b, ToFuture(a), ToFuture(b), Tail(o.calls))
           j == [o EXCEPT !.loop = FALSE, !.l = 0, !.r = 0, !.pivot = 0,
                          !.forks = forks, !.calls = calls]
<1>1. o.loop /\ ~(o.l <= o.r) /\ UNCHANGED <<xs, futures, called, fs>> /\ o # Free
  <2>1. o.loop /\ o.l > o.r /\ UNCHANGED <<xs, futures, called, fs>>
    BY DEF Divide
  <2>2. o # Free
    BY <2>1, FreeJob
  <2>3. o.l \in 0..Length /\ o.r \in (-1)..Length
    BY <2>2, Working, HeldTypes
  <2> QED
    BY <2>1, <2>2, <2>3
<1>2. /\ o \in Jobs /\ JobOK(o, xs) /\ o.task \in Ranges /\ o.task[2] \in Nat
      /\ xs \in [Index -> Index] /\ job \in [Sorters -> Jobs]
  BY <1>1, Working
<1>3. job' = [job EXCEPT ![w] = j]
  BY <1>2 DEF Divide, ForksOf, CallsOf
<1>4. /\ o.calls \in Seq(Calls) /\ Held(o) = o.calls /\ Divided(o.calls, xs, o.task[2])
      /\ o.forks = <<>> /\ o.calls # <<>> /\ c.n >= 2
      /\ Looping(xs, c.l0, c.n, o.l, o.r, o.pivot)
  BY <1>1, <1>2, HeldTypes DEF JobOK, LoopOK
<1>5. c \in Calls /\ CallOK(c, xs, o.task[2])
  BY <1>4, TailHeld
<1>6. c.l0 \in Int /\ c.n \in Nat /\ o.l \in Int /\ o.r \in Int /\ o.pivot \in Int
  <2>1. o.l \in 0..Length /\ o.r \in (-1)..Length /\ o.pivot \in 0..(Length - 1)
    BY <1>2, HeldTypes DEF Index
  <2>2. o.l \in Int /\ o.r \in Int /\ o.pivot \in Int
    BY <2>1
  <2> QED
    BY <1>5, <2>2, CallTypes
<1>7. Met(xs, c.l0, c.n, o.l, o.r, o.pivot)
  <2>1. Right(xs, c.l0, c.n)
    BY <1>5 DEF CallOK
  <2> HIDE DEF c, o
  <2> QED
    BY <1>1, <1>4, <1>6, <2>1, LoopEnds
<1>8. a = Left(c, o.r) /\ b = Rest(c, o.l)
  BY DEF Parts, Left, Rest
<1> DEFINE t == Tail(o.calls)
           s1 == <<a>> \o (<<b>> \o t)
           s2 == <<b>> \o (<<a>> \o t)
<1>9. /\ a \in Calls /\ b \in Calls /\ t \in Seq(Calls) /\ a.n < c.n /\ b.n < c.n
      /\ Divided(s1, xs, o.task[2]) /\ Divided(s2, xs, o.task[2])
      /\ Area(s1) \subseteq Area(o.calls) /\ \A p \in Area(o.calls) \ Area(s1) : xs[p] = p
      /\ Area(s2) \subseteq Area(o.calls) /\ \A p \in Area(o.calls) \ Area(s2) : xs[p] = p
  <2>1. o.task[2] \in Int
    BY <1>2
  <2> HIDE DEF o, a, b
  <2>2. CanReplace(o.calls, xs, o.task[2], Left(c, o.r), Rest(c, o.l))
    BY <1>4, <1>6, <1>7, <2>1, PartsHeld
  <2>3. CanReplace(o.calls, xs, o.task[2], a, b)
    BY <1>8, <2>2, Zenon
  <2> QED
    BY <2>3, Zenon DEF CanReplace
<1>10. /\ forks \in Seq(Calls) /\ calls \in Seq(Calls)
       /\ forks \o calls = s1 \/ forks \o calls = s2
       /\ \A i \in 1..Len(forks) : \/ forks[i] = a /\ ToFuture(a)
                                   \/ forks[i] = b /\ ToFuture(b)
  <2>1. ToFuture(a) \in BOOLEAN /\ ToFuture(b) \in BOOLEAN
    BY DEF ToFuture
  <2>2. t \in Seq(Calls) /\ a \in Calls /\ b \in Calls
    BY <1>9
  <2> HIDE DEF a, b, t
  <2>3. Kept(a, b, ToFuture(a), ToFuture(b), t, forks, calls)
    BY <2>1, <2>2, SplitParts, Zenon DEF t
  <2> HIDE DEF forks, calls
  <2> QED
    BY <2>3, Zenon DEF Kept
<1> HIDE DEF forks, calls
<1>11. j \in Jobs
  <2>1. 0 \in 0..Length /\ 0 \in (-1)..Length /\ 0 \in Index
    BY QuickSortAssumption DEF Index
  <2> QED
    BY <1>2, <1>10, <2>1 DEF Jobs
<1>12. /\ j.task = o.task /\ j.made = o.made /\ j.forks = forks /\ j.calls = calls
       /\ j.loop = FALSE
  BY <1>2 DEF Jobs
<1> HIDE DEF j
<1>13. Held(j) = s1 \/ Held(j) = s2
  BY <1>10, <1>12 DEF Held
<1>14. JobOK(j, xs)
  <2>1. Divided(Held(j), xs, j.task[2])
    BY <1>9, <1>12, <1>13
  <2>2. \A i \in 1..Len(j.forks) : 0 < j.forks[i].n /\ j.forks[i].n < j.task[2]
    <3>1. c.n <= o.task[2] /\ c.n \in Nat /\ o.task[2] \in Nat /\ CallSize \in Nat
      BY <1>2, <1>5, <1>6, QuickSortAssumption DEF CallOK
    <3>2. a.n \in Nat /\ b.n \in Nat
      BY <1>9, CallTypes
    <3> SUFFICES ASSUME NEW i \in 1..Len(forks)
                 PROVE  0 < forks[i].n /\ forks[i].n < o.task[2]
      BY <1>12
    <3>3. forks[i].n \in Nat /\ forks[i].n < c.n /\ forks[i].n > CallSize
      <4>1. forks[i] = a \/ forks[i] = b
        BY <1>10
      <4>2. forks[i].n > CallSize
        BY <1>10 DEF ToFuture
      <4> QED
        BY <1>9, <3>2, <4>1, <4>2
    <3> QED
      BY <3>1, <3>3
  <2>3. j.task # NoFuture
    BY <1>2, <1>12, RangeTypes
  <2>4. \A f \in o.made : f[2] < o.task[2]
    BY <1>2 DEF JobOK
  <2> QED
    BY <1>12, <2>1, <2>2, <2>3, <2>4 DEF JobOK
<1>15. /\ Area(Held(j)) \subseteq Area(Held(o))
       /\ \A p \in Area(Held(o)) \ Area(Held(j)) : xs[p] = p
  BY <1>4, <1>9, <1>13
<1> HIDE DEF o
<1>16. xs' = xs /\ JobOK(j, xs')
  BY <1>1, <1>14
<1> QED
  BY <1>1, <1>2, <1>3, <1>11, <1>12, <1>15, <1>16, WorkStep DEF o

(* A worker starts the task of a future: what was the future's is now its  *)
(* own.                                                                    *)
LEMMA BeginTaskStep ==
  ASSUME SortInv, NEW w \in Sorters, NEW f \in Ranges, BeginTask(w, f)
  PROVE  SortInv'
<1> DEFINE c == [l0 |-> f[1], n |-> f[2], level |-> flevel[f]]
           j == [Free EXCEPT !.task = f, !.calls = <<c>>]
<1>1. /\ job[w] = Free /\ fstate[f] = "pending" /\ fstate' = [fstate EXCEPT ![f] = "running"]
      /\ job' = [job EXCEPT ![w] = j] /\ UNCHANGED <<xs, fresult, fgot, flevel, called, fs>>
  BY DEF BeginTask, F!Start
<1>2. /\ SortTypeOK /\ FuturesType /\ Unstarted /\ TasksRun
      /\ \A v \in Sorters : job[v] \in Jobs /\ JobOK(job[v], xs)
      /\ JobsApart /\ PendingOK /\ InPlace
  BY DEF SortInv, SortTypeOK
<1>3. /\ f[1] \in Nat /\ f[2] \in Nat /\ f[1] + f[2] <= Length /\ f # NoFuture
      /\ Positions(f) \subseteq Index
  BY RangeTypes
<1>4. /\ flevel[f] \in 0..Length /\ flevel[f] + f[2] <= Length /\ Right(xs, f[1], f[2])
      /\ \A v \in Sorters : Positions(f) \intersect Area(Held(job[v])) = {}
      /\ \A g \in Ranges : fstate[g] = "pending" /\ g # f => Positions(f) \intersect Positions(g) = {}
  BY <1>1, <1>2 DEF PendingOK, SortTypeOK
<1>5. c \in Calls
  BY <1>3, <1>4, QuickSortAssumption DEF Calls
<1>6. c.l0 = f[1] /\ c.n = f[2] /\ c.level = flevel[f]
  OBVIOUS
<1>7. CallOK(c, xs, f[2]) /\ Pos(c) = Positions(f)
  BY <1>3, <1>4, <1>6 DEF CallOK, Pos, Positions
<1> HIDE DEF c
<1>8. /\ j.task = f /\ j.calls = <<c>> /\ j.forks = <<>> /\ j.loop = FALSE /\ j.made = {}
  BY DEF Free
<1>9. j \in Jobs
  <2>1. <<c>> \in Seq(Calls)
    BY <1>5
  <2> QED
    BY <2>1, FreeJob DEF Jobs
<1> HIDE DEF j
<1>10. Held(j) = <<c>> /\ Len(<<c>>) = 1 /\ <<c>>[1] = c
  BY <1>5, <1>8, <1>9, HeldTypes
<1>11. Area(Held(j)) = Positions(f)
  BY <1>3, <1>7, <1>10 DEF Area
<1>12. JobOK(j, xs)
  <2>1. Divided(Held(j), xs, j.task[2])
    BY <1>7, <1>8, <1>10 DEF Divided
  <2>2. Len(j.forks) = 0
    BY <1>8
  <2> QED
    BY <1>3, <1>8, <2>1, <2>2 DEF JobOK
<1>13. /\ job \in [Sorters -> Jobs] /\ job'[w] = j /\ \A v \in Sorters : v # w => job'[v] = job[v]
       /\ fstate'[f] = "running" /\ \A g \in Ranges : g # f => fstate'[g] = fstate[g]
  BY <1>1, <1>2 DEF SortTypeOK, FuturesType
<1>14. SortTypeOK'
  BY <1>1, <1>2, <1>9 DEF SortTypeOK
<1>15. FuturesType' /\ Unstarted'
  BY <1>1, <1>2, <1>13 DEF FuturesType, Unstarted
<1>16. TasksRun'
  <2>1. \A v \in Sorters : v # w => job[v].task # f
    BY <1>1, <1>2, <1>3 DEF TasksRun
  <2>2. \A v \in Sorters : job[v].task \in Ranges \union {NoFuture}
    BY <1>2, HeldTypes
  <2> QED
    BY <1>2, <1>3, <1>8, <1>13, <2>1, <2>2 DEF TasksRun
<1>17. (\A v \in Sorters : JobOK(job[v], xs))'
  BY <1>1, <1>2, <1>12, <1>13
<1>18. JobsApart'
  BY <1>2, <1>4, <1>11, <1>13 DEF JobsApart
<1>19. PendingOK'
  <2>1. \A g \in Ranges : fstate'[g] = "pending" => g # f /\ fstate[g] = "pending"
    BY <1>13
  <2>2. \A g \in Ranges : fstate'[g] = "pending" => Positions(g) \intersect Positions(f) = {}
    BY <1>4, <2>1
  <2> QED
    BY <1>1, <1>2, <1>11, <1>13, <2>1, <2>2 DEF PendingOK
<1>20. InPlace'
  BY <1>1, <1>2, <1>11, <1>13, FreeJob DEF InPlace
<1>21. \E U \in SUBSET Ranges : ToldOf(U)'
  <2>1. PICK U \in SUBSET Ranges : ToldOf(U)
    BY DEF SortInv
  <2>2. \A v \in Sorters : job[v].made \subseteq job'[v].made
    BY <1>1, <1>13, FreeJob
  <2>3. \A g \in Ranges : fstate[g] = "done" => fstate'[g] = "done"
    BY <1>1, <1>13
  <2>4. \A g \in Ranges : fstate'[g] \in {"pending", "running"} => fstate[g] \in {"pending", "running"}
    BY <1>1, <1>13
  <2>5. ToldOf(U)'
    BY <1>1, <2>1, <2>2, <2>3, <2>4 DEF ToldOf
  <2> QED
    BY <2>5
<1> QED
  BY <1>14, <1>15, <1>16, <1>17, <1>18, <1>19, <1>20, <1>21 DEF SortInv

(* The first of the futures to be made is the first of what is held.       *)
LEMMA TailOfConcat ==
  ASSUME NEW s \in Seq(Calls), NEW t \in Seq(Calls), s # <<>>
  PROVE  /\ (s \o t)[1] = s[1] /\ s \o t # <<>>
         /\ Tail(s) \o t = Tail(s \o t)
<1>1. PICK u : u = s \o t
  OBVIOUS
<1>2. /\ u \in Seq(Calls) /\ Len(u) = Len(s) + Len(t) /\ Len(s) \in Nat /\ Len(t) \in Nat
      /\ Len(s) >= 1
      /\ \A i \in 1..(Len(s) + Len(t)) : u[i] = IF i <= Len(s) THEN s[i] ELSE t[i - Len(s)]
  BY <1>1, ConcatProperties, EmptySeq, LenProperties
<1>3. u # <<>> /\ u[1] = s[1]
  BY <1>2
<1>4. PICK ts, tu : ts = Tail(s) /\ tu = Tail(u)
  OBVIOUS
<1>5. /\ ts \in Seq(Calls) /\ Len(ts) = Len(s) - 1 /\ \A i \in 1..Len(ts) : ts[i] = s[i + 1]
      /\ tu \in Seq(Calls) /\ Len(tu) = Len(u) - 1 /\ \A i \in 1..Len(tu) : tu[i] = u[i + 1]
  BY <1>2, <1>3, <1>4, HeadTailProperties
<1>6. PICK v : v = ts \o t
  OBVIOUS
<1>7. /\ v \in Seq(Calls) /\ Len(v) = Len(ts) + Len(t)
      /\ \A i \in 1..(Len(ts) + Len(t)) : v[i] = IF i <= Len(ts) THEN ts[i] ELSE t[i - Len(ts)]
  BY <1>5, <1>6, ConcatProperties
<1>8. Len(v) = Len(tu)
  BY <1>2, <1>5, <1>7
<1>9. ASSUME NEW i \in 1..Len(v)
      PROVE  v[i] = tu[i]
  <2>1. tu[i] = u[i + 1] /\ i + 1 \in 1..(Len(s) + Len(t)) /\ i \in 1..(Len(ts) + Len(t))
    BY <1>2, <1>5, <1>7, <1>8
  <2>2. CASE i <= Len(ts)
    BY <1>2, <1>5, <1>7, <2>1, <2>2
  <2>3. CASE ~(i <= Len(ts))
    <3>1. v[i] = t[i - Len(ts)] /\ u[i + 1] = t[i + 1 - Len(s)]
      BY <1>2, <1>5, <1>7, <2>1, <2>3
    <3>2. i - Len(ts) = i + 1 - Len(s)
      BY <1>2, <1>5
    <3> QED
      BY <2>1, <3>1, <3>2
  <2> QED
    BY <2>2, <2>3
<1>10. v = tu
  BY <1>5, <1>7, <1>8, <1>9, SeqEqual
<1> QED
  BY <1>1, <1>3, <1>4, <1>6, <1>10

(* A future is made: it is of a new range, for the range is smaller than   *)
(* the whole and nobody else has its elements.                             *)
LEMMA ForkStep ==
  ASSUME SortInv, NEW w \in Sorters, Fork(w)
  PROVE  SortInv'
<1> DEFINE o == job[w]
           c == o.forks[1]
           f == RangeOf(c)
           j == [o EXCEPT !.forks = Tail(@), !.made = @ \union {f}]
<1>1. /\ o.forks # <<>> /\ fstate[f] = "none" /\ fstate' = [fstate EXCEPT ![f] = "pending"]
      /\ flevel' = [flevel EXCEPT ![f] = c.level]
      /\ UNCHANGED <<xs, fresult, fgot, called, fs>>
  BY DEF Fork, F!Create
<1>2. /\ SortTypeOK /\ FuturesType /\ Unstarted /\ TasksRun
      /\ \A v \in Sorters : job[v] \in Jobs /\ JobOK(job[v], xs)
      /\ JobsApart /\ PendingOK /\ InPlace
  BY DEF SortInv, SortTypeOK
<1>3. o # Free
  BY <1>1 DEF Free
<1>4. /\ job \in [Sorters -> Jobs] /\ o \in Jobs /\ JobOK(o, xs) /\ o.task \in Ranges
      /\ fstate[o.task] = "running" /\ o.task[2] \in Nat
  BY <1>3, Working
<1>5. job' = [job EXCEPT ![w] = j]
  BY <1>4 DEF Fork
<1>6. /\ o.forks \in Seq(Calls) /\ o.calls \in Seq(Calls) /\ Held(o) \in Seq(Calls)
      /\ Held(o) = o.forks \o o.calls /\ Divided(Held(o), xs, o.task[2])
      /\ \A i \in 1..Len(o.forks) : 0 < o.forks[i].n /\ o.forks[i].n < o.task[2]
  BY <1>4, HeldTypes DEF JobOK, Held
<1>7. Held(o)[1] = c /\ Held(o) # <<>> /\ Tail(o.forks) \o o.calls = Tail(Held(o))
  <2>1. /\ (o.forks \o o.calls)[1] = o.forks[1] /\ o.forks \o o.calls # <<>>
        /\ Tail(o.forks) \o o.calls = Tail(o.forks \o o.calls)
    BY <1>1, <1>6, TailOfConcat, Zenon
  <2> QED
    BY <1>6, <2>1, Zenon
<1>8. /\ c \in Calls /\ CallOK(c, xs, o.task[2]) /\ Tail(Held(o)) \in Seq(Calls)
      /\ Divided(Tail(Held(o)), xs, o.task[2])
      /\ Pos(c) \intersect Area(Tail(Held(o))) = {}
      /\ Area(Held(o)) = Area(Tail(Held(o))) \union Pos(c)
  <2> HIDE DEF o, c
  <2> QED
    BY <1>6, <1>7, TailHeld
<1>9. /\ Tail(o.forks) \in Seq(Calls) /\ Len(o.forks) \in Nat /\ Len(o.forks) >= 1
      /\ Len(Tail(o.forks)) = Len(o.forks) - 1
      /\ \A i \in 1..Len(Tail(o.forks)) : Tail(o.forks)[i] = o.forks[i + 1]
  BY <1>1, <1>6, HeadTailProperties, EmptySeq
<1>10. 0 < c.n /\ c.n < o.task[2]
  <2>1. 1 \in 1..Len(o.forks)
    BY <1>9
  <2> QED
    BY <1>6, <2>1
<1>11. /\ c.l0 \in Nat /\ c.n \in Nat /\ c.l0 + c.n <= Length /\ c.level \in 0..Length
       /\ c.level + c.n <= Length /\ Right(xs, c.l0, c.n)
  BY <1>8, CallTypes DEF CallOK, Calls
<1>12. f \in Ranges /\ f[1] = c.l0 /\ f[2] = c.n /\ Positions(f) = Pos(c)
  BY <1>10, <1>11, QuickSortAssumption DEF RangeOf, Ranges, Index, Positions, Pos
<1>13. /\ j.task = o.task /\ j.made = o.made \union {f} /\ j.forks = Tail(o.forks)
       /\ j.calls = o.calls /\ j.loop = o.loop
  BY <1>4 DEF Jobs
<1>14. j \in Jobs
  BY <1>4, <1>9, <1>12 DEF Jobs
<1> HIDE DEF j, f, c
<1>15. Held(j) = Tail(Held(o))
  BY <1>7, <1>13 DEF Held
<1>16. JobOK(j, xs)
  <2>1. j.task # NoFuture
    BY <1>4, <1>13, RangeTypes
  <2>2. \A i \in 1..Len(j.forks) : 0 < j.forks[i].n /\ j.forks[i].n < j.task[2]
    <3> SUFFICES ASSUME NEW i \in 1..Len(Tail(o.forks))
                 PROVE  0 < Tail(o.forks)[i].n /\ Tail(o.forks)[i].n < o.task[2]
      BY <1>13
    <3>1. i + 1 \in 1..Len(o.forks) /\ Tail(o.forks)[i] = o.forks[i + 1]
      BY <1>9
    <3> QED
      BY <1>6, <3>1
  <2>3. \A g \in j.made : g[2] < j.task[2]
    BY <1>4, <1>10, <1>12, <1>13 DEF JobOK
  <2>4. ~j.loop
    BY <1>1, <1>4, <1>13 DEF JobOK, LoopOK
  <2> QED
    BY <1>8, <1>13, <1>15, <2>1, <2>2, <2>3, <2>4 DEF JobOK
<1>17. /\ job'[w] = j /\ \A v \in Sorters : v # w => job'[v] = job[v]
       /\ fstate'[f] = "pending" /\ \A g \in Ranges : g # f => fstate'[g] = fstate[g]
       /\ flevel'[f] = c.level /\ \A g \in Ranges : g # f => flevel'[g] = flevel[g]
  BY <1>1, <1>2, <1>4, <1>5, <1>12 DEF SortTypeOK, FuturesType
<1> HIDE DEF o
<1>18. SortTypeOK'
  <2>1. flevel' \in [Ranges -> 0..Length]
    BY <1>1, <1>2, <1>11 DEF SortTypeOK
  <2>2. job' \in [Sorters -> Jobs]
    BY <1>4, <1>5, <1>14
  <2> QED
    BY <1>1, <1>2, <2>1, <2>2 DEF SortTypeOK
<1>19. FuturesType'
  BY <1>1, <1>2, <1>17 DEF FuturesType
<1>20. Unstarted'
  <2>1. fstate[Whole] # "none"
    BY <1>2, <1>4 DEF Unstarted
  <2>2. fstate'[Whole] # "none"
    BY <1>1, <1>17, <2>1, WholeIsRange
  <2> QED
    BY <2>2 DEF Unstarted
<1>21. \A v \in Sorters : job'[v].task = job[v].task
  BY <1>13, <1>17 DEF o
<1>22. TasksRun'
  <2>1. \A v \in Sorters : job[v].task # NoFuture => job[v].task \in Ranges /\ job[v].task # f
    BY <1>1, <1>2, HeldTypes DEF TasksRun
  <2> QED
    BY <1>2, <1>17, <1>21, <2>1 DEF TasksRun
<1>23. (\A v \in Sorters : JobOK(job[v], xs))'
  BY <1>1, <1>2, <1>16, <1>17
<1>24. \A v \in Sorters : Area(Held(job'[v])) \subseteq Area(Held(job[v]))
  BY <1>8, <1>15, <1>17 DEF o
<1>25. JobsApart'
  <2>1. \A v, u \in Sorters : v # u => Area(Held(job'[v])) \intersect Area(Held(job'[u])) = {}
    BY <1>2, <1>24 DEF JobsApart
  <2> QED
    BY <2>1 DEF JobsApart
<1>26. Positions(f) \subseteq Area(Held(job[w]))
  BY <1>8, <1>12 DEF o
<1>27. \A v \in Sorters : Positions(f) \intersect Area(Held(job'[v])) = {}
  BY <1>2, <1>8, <1>12, <1>15, <1>17, <1>26 DEF JobsApart
<1>28. \A g \in Ranges : fstate[g] = "pending" => Positions(f) \intersect Positions(g) = {}
  BY <1>2, <1>26 DEF PendingOK
<1>29. PendingOK'
  <2> SUFFICES ASSUME NEW g \in Ranges, fstate'[g] = "pending"
               PROVE  /\ flevel'[g] + g[2] <= Length
                      /\ Right(xs, g[1], g[2])
                      /\ \A v \in Sorters : Positions(g) \intersect Area(Held(job'[v])) = {}
                      /\ \A h \in Ranges : fstate'[h] = "pending" /\ h # g =>
                           Positions(g) \intersect Positions(h) = {}
    BY <1>1 DEF PendingOK
  <2>1. CASE g = f
    <3>1. \A h \in Ranges : fstate'[h] = "pending" /\ h # f =>
            Positions(f) \intersect Positions(h) = {}
      BY <1>17, <1>28
    <3> QED
      BY <1>11, <1>12, <1>17, <1>27, <2>1, <3>1
  <2>2. CASE g # f
    <3>1. fstate[g] = "pending" /\ flevel'[g] = flevel[g]
      BY <1>17, <2>2
    <3>2. \A h \in Ranges : fstate'[h] = "pending" /\ h # g =>
            Positions(g) \intersect Positions(h) = {}
      BY <1>2, <1>17, <1>28, <3>1 DEF PendingOK
    <3> QED
      BY <1>2, <1>24, <3>1, <3>2 DEF PendingOK
  <2> QED
    BY <2>1, <2>2
<1>30. InPlace'
  <2> SUFFICES ASSUME NEW p \in Index
               PROVE  \/ xs[p] = p
                      \/ \E g \in Ranges : fstate'[g] = "pending" /\ p \in Positions(g)
                      \/ \E v \in Sorters : p \in Area(Held(job'[v]))
    BY <1>1 DEF InPlace
  <2>1. \A g \in Ranges : fstate[g] = "pending" => fstate'[g] = "pending"
    BY <1>17
  <2>2. p \in Area(Held(job[w])) => p \in Area(Held(job'[w])) \/ p \in Positions(f)
    BY <1>8, <1>12, <1>15, <1>17 DEF o
  <2>3. \A v \in Sorters : p \in Area(Held(job[v])) =>
          p \in Area(Held(job'[v])) \/ p \in Positions(f)
    BY <1>17, <2>2
  <2> QED
    BY <1>2, <1>12, <1>17, <2>1, <2>3 DEF InPlace
<1>31. \E U \in SUBSET Ranges : ToldOf(U)'
  <2>1. PICK U \in SUBSET Ranges : ToldOf(U)
    BY DEF SortInv
  <2>0. PICK V : V = U \union {f}
    OBVIOUS
  <2>2. \A v \in Sorters : job[v].made \subseteq job'[v].made
    BY <1>13, <1>17 DEF o
  <2>3. f \in job'[w].made
    BY <1>13, <1>17
  <2>4. \A g \in Ranges : fstate[g] = "done" => fstate'[g] = "done"
    BY <1>1, <1>17
  <2>5. \A g \in Ranges : fstate'[g] \in {"pending", "running"} => g \in V
    BY <1>17, <2>0, <2>1 DEF ToldOf
  <2>6. \A g \in V : \/ g \in fs \/ g = called
                     \/ \E v \in Sorters : g \in job'[v].made
                     \/ \E h \in V : fstate'[h] = "done" /\ g \in fresult[h] /\ g[2] < h[2]
    <3> TAKE g \in V
    <3>1. CASE g = f
      BY <2>3, <3>1
    <3>2. CASE g \in U
      <4>1. \/ g \in fs \/ g = called
            \/ \E v \in Sorters : g \in job[v].made
            \/ \E h \in U : fstate[h] = "done" /\ g \in fresult[h] /\ g[2] < h[2]
        BY <2>1, <3>2 DEF ToldOf
      <4> QED
        BY <2>0, <2>1, <2>2, <2>4, <4>1
    <3> QED
      BY <2>0, <3>1, <3>2
  <2>7. ToldOf(V)'
    BY <1>1, <2>5, <2>6 DEF ToldOf
  <2>8. V \in SUBSET Ranges
    BY <1>12, <2>0
  <2> QED
    BY <2>7, <2>8
<1> QED
  BY <1>18, <1>19, <1>20, <1>22, <1>23, <1>25, <1>29, <1>30, <1>31 DEF SortInv

(* The task returns its futures.  Nothing is left of its range, and the    *)
(* main thread will be told of them by whoever is to call it.              *)
LEMMA EndTaskStep ==
  ASSUME SortInv, NEW w \in Sorters, EndTask(w)
  PROVE  SortInv'
<1> DEFINE o == job[w]
           f == o.task
<1>1. /\ o # Free /\ ~o.loop /\ o.forks = <<>> /\ o.calls = <<>>
      /\ fstate' = [fstate EXCEPT ![f] = "done"] /\ fresult' = [fresult EXCEPT ![f] = o.made]
      /\ job' = [job EXCEPT ![w] = Free]
      /\ UNCHANGED <<xs, fgot, flevel, called, fs>>
  BY DEF EndTask, Between, F!Finish
<1>2. /\ SortTypeOK /\ FuturesType /\ Unstarted /\ TasksRun
      /\ \A v \in Sorters : job[v] \in Jobs /\ JobOK(job[v], xs)
      /\ JobsApart /\ PendingOK /\ InPlace
  BY DEF SortInv, SortTypeOK
<1>3. /\ job \in [Sorters -> Jobs] /\ o \in Jobs /\ JobOK(o, xs) /\ f \in Ranges
      /\ fstate[f] = "running" /\ f # NoFuture
  BY <1>1, Working, RangeTypes
<1>4. /\ o.made \subseteq Ranges /\ Area(Held(o)) = {} /\ \A g \in o.made : g[2] < f[2]
  <2>1. o.made \subseteq Ranges /\ \A g \in o.made : g[2] < f[2]
    BY <1>3, HeldTypes DEF JobOK
  <2>2. Held(o) = <<>>
    BY <1>1, <1>3, HeldTypes
  <2> QED
    BY <2>1, <2>2, NothingHeld
<1> HIDE DEF f
<1>5. /\ job'[w] = Free /\ \A v \in Sorters : v # w => job'[v] = job[v]
      /\ fstate'[f] = "done" /\ \A g \in Ranges : g # f => fstate'[g] = fstate[g]
      /\ fresult'[f] = o.made /\ \A g \in Ranges : g # f => fresult'[g] = fresult[g]
  BY <1>1, <1>2, <1>3 DEF FuturesType
<1>6. \A v \in Sorters : Area(Held(job'[v])) = Area(Held(job[v]))
  BY <1>4, <1>5, FreeJob
<1>7. \A g \in Ranges : fstate'[g] = "pending" <=> fstate[g] = "pending"
  BY <1>3, <1>5
<1>8. SortTypeOK'
  BY <1>1, <1>2, FreeJob DEF SortTypeOK
<1>9. FuturesType'
  BY <1>1, <1>2, <1>4, <1>5 DEF FuturesType
<1>10. Unstarted'
  <2>1. fstate[Whole] # "none"
    BY <1>2, <1>3 DEF Unstarted
  <2>2. fstate'[Whole] # "none"
    BY <1>5, <2>1, WholeIsRange
  <2> QED
    BY <2>2 DEF Unstarted
<1>11. TasksRun'
  <2>1. \A v \in Sorters : v # w => job[v].task # f
    BY <1>2, <1>3 DEF TasksRun, f
  <2>2. \A v \in Sorters : job[v].task \in Ranges \union {NoFuture}
    BY <1>2, HeldTypes
  <2> QED
    BY <1>2, <1>5, <2>1, <2>2, FreeJob DEF TasksRun
<1>12. (\A v \in Sorters : JobOK(job[v], xs))'
  BY <1>1, <1>2, <1>5, FreeJob
<1>13. JobsApart'
  <2>1. \A v, u \in Sorters : v # u => Area(Held(job'[v])) \intersect Area(Held(job'[u])) = {}
    BY <1>2, <1>6 DEF JobsApart
  <2> QED
    BY <2>1 DEF JobsApart
<1>14. PendingOK'
  BY <1>1, <1>2, <1>6, <1>7 DEF PendingOK
<1>15. InPlace'
  BY <1>1, <1>2, <1>6, <1>7 DEF InPlace
<1>16. \E U \in SUBSET Ranges : ToldOf(U)'
  <2>1. PICK U \in SUBSET Ranges : ToldOf(U)
    BY DEF SortInv
  <2>2. \A g \in Ranges : fstate'[g] \in {"pending", "running"} => g \in U
    BY <1>5, <2>1 DEF ToldOf
  <2>3. ASSUME NEW g \in U
        PROVE  \/ g \in fs \/ g = called
               \/ \E v \in Sorters : g \in job'[v].made
               \/ \E h \in U : fstate'[h] = "done" /\ g \in fresult'[h] /\ g[2] < h[2]
    <3>1. CASE g \in fs \/ g = called
      BY <3>1
    <3>2. ASSUME NEW v \in Sorters, g \in job[v].made
          PROVE  \/ \E u \in Sorters : g \in job'[u].made
                 \/ \E h \in U : fstate'[h] = "done" /\ g \in fresult'[h] /\ g[2] < h[2]
      <4>1. CASE v = w
        <5>1. f \in U
          BY <1>3, <2>1 DEF ToldOf
        <5>2. g \in o.made
          BY <3>2, <4>1
        <5>3. fstate'[f] = "done" /\ g \in fresult'[f] /\ g[2] < f[2]
          BY <1>4, <1>5, <5>2
        <5> QED
          BY <5>1, <5>3
      <4>2. CASE v # w
        BY <1>5, <3>2, <4>2
      <4> QED
        BY <4>1, <4>2
    <3>3. ASSUME NEW h \in U, fstate[h] = "done", g \in fresult[h], g[2] < h[2]
          PROVE  fstate'[h] = "done" /\ g \in fresult'[h]
      BY <1>3, <1>5, <2>1, <3>3
    <3> QED
      BY <2>1, <3>1, <3>2, <3>3 DEF ToldOf
  <2>4. ToldOf(U)'
    BY <1>1, <2>2, <2>3 DEF ToldOf
  <2> QED
    BY <2>4
<1> QED
  BY <1>8, <1>9, <1>10, <1>11, <1>12, <1>13, <1>14, <1>15, <1>16 DEF SortInv

(* A list that holds no value twice holds every value. *)
LEMMA ShuffledRight ==
  ASSUME NEW p \in [Index -> Index], \A i, j \in Index : p[i] = p[j] => i = j
  PROVE  Right(p, 0, Length)
<1>1. Length \in Nat /\ Index = 0..(0 + Length - 1)
  BY QuickSortAssumption DEF Index
<1>2. IsFiniteSet(Index)
  <2>1. 0 \in Int /\ Length - 1 \in Int
    BY <1>1
  <2> QED
    BY <2>1, FS_Interval DEF Index
<1>3. p \in Injection(Index, Index)
  BY DEF Injection, IsInjective
<1>4. p \in Surjection(Index, Index)
  BY <1>2, <1>3, FS_Injection
<1>5. \A v \in Index : \E i \in Index : p[i] = v
  BY <1>4 DEF Surjection
<1> QED
  BY <1>1, <1>5 DEF Right

(* The steps of the main thread.                                           *)
LEMMA ShuffleStep ==
  ASSUME SortInv, Shuffle
  PROVE  SortInv'
<1>1. /\ fstate[Whole] = "none" /\ fstate' = [fstate EXCEPT ![Whole] = "pending"]
      /\ xs' \in [Index -> Index] /\ \A i, j \in Index : xs'[i] = xs'[j] => i = j
      /\ called' = Whole /\ UNCHANGED <<fresult, fgot, flevel, job, fs>>
  BY DEF Shuffle, F!Create
<1>2. /\ SortTypeOK /\ FuturesType /\ Unstarted /\ TasksRun
      /\ \A v \in Sorters : job[v] \in Jobs /\ JobOK(job[v], xs)
  BY DEF SortInv, SortTypeOK
<1>3. flevel[Whole] = 0 /\ \A f \in Ranges : fstate[f] = "none"
  BY <1>1, <1>2 DEF Unstarted
<1>4. \A v \in Sorters : job[v] = Free
  <2> SUFFICES ASSUME NEW v \in Sorters, job[v] # Free
               PROVE  FALSE
    OBVIOUS
  <2>1. job[v].task \in Ranges /\ fstate[job[v].task] = "running"
    BY Working
  <2> QED
    BY <1>3, <2>1
<1>5. /\ fstate'[Whole] = "pending" /\ \A g \in Ranges : g # Whole => fstate'[g] = "none"
  BY <1>1, <1>2, <1>3, WholeIsRange DEF FuturesType
<1>6. SortTypeOK'
  BY <1>1, <1>2, WholeIsRange DEF SortTypeOK
<1>7. FuturesType' /\ Unstarted'
  BY <1>1, <1>2, <1>5 DEF FuturesType, Unstarted
<1>8. TasksRun' /\ (\A v \in Sorters : JobOK(job[v], xs))' /\ JobsApart'
  <2>1. \A v \in Sorters : job'[v] = Free
    BY <1>1, <1>4
  <2> QED
    BY <2>1, FreeJob DEF TasksRun, JobsApart
<1>9. PendingOK'
  <2>1. Right(xs', 0, Length)
    BY <1>1, ShuffledRight
  <2>2. flevel'[Whole] + Whole[2] <= Length
    BY <1>1, <1>3, WholeIsRange, QuickSortAssumption
  <2>3. \A v \in Sorters : Area(Held(job'[v])) = {}
    BY <1>1, <1>4, FreeJob
  <2>4. \A g \in Ranges : fstate'[g] = "pending" => g = Whole
    BY <1>5
  <2> QED
    BY <2>1, <2>2, <2>3, <2>4, WholeIsRange DEF PendingOK
<1>10. InPlace'
  BY <1>5, WholeIsRange DEF InPlace
<1>11. ToldOf({Whole})'
  BY <1>1, <1>5 DEF ToldOf
<1>12. {Whole} \in SUBSET Ranges
  BY WholeIsRange
<1> QED
  BY <1>6, <1>7, <1>8, <1>9, <1>10, <1>11, <1>12 DEF SortInv

LEMMA PopFutureStep ==
  ASSUME SortInv, NEW f \in Ranges, PopFuture(f)
  PROVE  SortInv'
<1> USE DEF futures
<1>1. /\ called = NoFuture /\ f \in fs /\ called' = f /\ fs' = fs \ {f}
      /\ UNCHANGED <<xs, futures, job>>
  BY DEF PopFuture
<1>2. SortTypeOK'
  BY <1>1 DEF SortInv, SortTypeOK
<1>3. /\ FuturesType' /\ Unstarted' /\ TasksRun' /\ (\A v \in Sorters : JobOK(job[v], xs))'
      /\ JobsApart' /\ PendingOK' /\ InPlace'
  BY <1>1 DEF SortInv, FuturesType, Unstarted, TasksRun, JobsApart, PendingOK, InPlace
<1>4. PICK U \in SUBSET Ranges : ToldOf(U)
  BY DEF SortInv
<1>5. \A g \in U : g # NoFuture
  BY RangeTypes
<1>6. ToldOf(U)'
  BY <1>1, <1>4, <1>5 DEF ToldOf
<1> QED
  BY <1>2, <1>3, <1>6 DEF SortInv

LEMMA FutureReturnsStep ==
  ASSUME SortInv, NEW f \in Ranges, FutureReturns(f)
  PROVE  SortInv'
<1>1. /\ called = f /\ fstate[f] = "done" /\ fs' = fs \union fresult[f] /\ called' = NoFuture
      /\ UNCHANGED <<xs, fstate, fresult, flevel, job>>
  BY DEF FutureReturns, F!Return
<1>2. SortTypeOK'
  BY <1>1 DEF SortInv, SortTypeOK, FuturesType
<1>3. /\ FuturesType' /\ Unstarted' /\ TasksRun' /\ (\A v \in Sorters : JobOK(job[v], xs))'
      /\ JobsApart' /\ PendingOK' /\ InPlace'
  BY <1>1 DEF SortInv, FuturesType, Unstarted, TasksRun, JobsApart, PendingOK, InPlace
<1>4. PICK U \in SUBSET Ranges : ToldOf(U)
  BY DEF SortInv
<1>5. PICK V : V = U \ {f}
  OBVIOUS
<1>6. \A g \in Ranges : fstate[g] \in {"pending", "running"} => g \in V
  BY <1>1, <1>4, <1>5 DEF ToldOf
<1>7. ASSUME NEW g \in V
      PROVE  \/ g \in fs' \/ \E w \in Sorters : g \in job[w].made
             \/ \E h \in V : fstate[h] = "done" /\ g \in fresult[h] /\ g[2] < h[2]
  <2>1. \/ g \in fs \/ g = called
        \/ \E w \in Sorters : g \in job[w].made
        \/ \E h \in U : fstate[h] = "done" /\ g \in fresult[h] /\ g[2] < h[2]
    BY <1>4, <1>5 DEF ToldOf
  <2>2. g # called
    BY <1>1, <1>5
  <2>3. ASSUME NEW h \in U, fstate[h] = "done", g \in fresult[h], g[2] < h[2]
        PROVE  g \in fs' \/ h \in V
    BY <1>1, <1>5, <2>3
  <2> QED
    BY <1>1, <2>1, <2>2, <2>3
<1>8. ToldOf(V)'
  BY <1>1, <1>6, <1>7 DEF ToldOf
<1>9. V \in SUBSET Ranges
  BY <1>5
<1> QED
  BY <1>2, <1>3, <1>8, <1>9 DEF SortInv

(* Every step keeps the invariant;                                         *)
LEMMA SortStep == SortInv /\ [SortNext]_sortVars => SortInv'
<1> SUFFICES ASSUME SortInv, [SortNext]_sortVars
             PROVE  SortInv'
  OBVIOUS
<1>1. CASE Shuffle
  BY <1>1, ShuffleStep
<1>2. ASSUME NEW f \in Ranges, PopFuture(f)
      PROVE  SortInv'
  BY <1>2, PopFutureStep
<1>3. ASSUME NEW f \in Ranges, FutureReturns(f)
      PROVE  SortInv'
  BY <1>3, FutureReturnsStep
<1>4. ASSUME NEW w \in Sorters, NEW f \in Ranges, BeginTask(w, f)
      PROVE  SortInv'
  BY <1>4, BeginTaskStep
<1>5. ASSUME NEW w \in Sorters, CallReturns(w)
      PROVE  SortInv'
  BY <1>5, CallReturnsStep
<1>6. ASSUME NEW w \in Sorters, CallBegins(w)
      PROVE  SortInv'
  BY <1>6, CallBeginsStep
<1>7. ASSUME NEW w \in Sorters, Partition(w)
      PROVE  SortInv'
  BY <1>7, PartitionStep
<1>8. ASSUME NEW w \in Sorters, Divide(w)
      PROVE  SortInv'
  BY <1>8, DivideStep
<1>9. ASSUME NEW w \in Sorters, Fork(w)
      PROVE  SortInv'
  BY <1>9, ForkStep
<1>10. ASSUME NEW w \in Sorters, EndTask(w)
       PROVE  SortInv'
  BY <1>10, EndTaskStep
<1>11. CASE UNCHANGED sortVars
  <2>1. /\ SortTypeOK' /\ FuturesType' /\ Unstarted' /\ TasksRun' /\ (\A v \in Sorters : JobOK(job[v], xs))'
        /\ JobsApart' /\ PendingOK' /\ InPlace'
    BY <1>11 DEF SortInv, sortVars, SortTypeOK, FuturesType, Unstarted, TasksRun, JobsApart,
                 PendingOK, InPlace
  <2>2. PICK U \in SUBSET Ranges : ToldOf(U)
    BY DEF SortInv
  <2>3. ToldOf(U)'
    BY <1>11, <2>2 DEF sortVars, ToldOf
  <2> QED
    BY <2>1, <2>3 DEF SortInv
<1> QED
  BY <1>1, <1>2, <1>3, <1>4, <1>5, <1>6, <1>7, <1>8, <1>9, <1>10, <1>11 DEF SortNext

(* hence it holds always.                                                  *)
LEMMA SortAlways == SortSpec => []SortInv
<1>1. SortInit => SortInv
  BY SortInitInv
<1>2. SortInv /\ [SortNext]_sortVars => SortInv'
  BY SortStep
<1> QED
  BY <1>1, <1>2, PTL DEF SortSpec

(* The list, the indices of every loop and the level of every future keep  *)
(* their types; in particular l and r never leave the list.                *)
THEOREM QuickSortTypeCorrect == SortSpec => []SortTypeOK
<1>1. SortInv => SortTypeOK
  BY DEF SortInv
<1> QED
  BY <1>1, SortAlways, PTL

(* What a task holds is what it has left to futures and to calls. *)
LEMMA HeldIs ==
  ASSUME NEW s \in Seq(Calls), NEW t \in Seq(Calls)
  PROVE  /\ \A i \in DOMAIN s : \E m \in 1..Len(s \o t) : (s \o t)[m] = s[i]
         /\ \A i \in DOMAIN t : \E m \in 1..Len(s \o t) : (s \o t)[m] = t[i]
         /\ \A m \in 1..Len(s \o t) : \/ \E i \in DOMAIN s : (s \o t)[m] = s[i]
                                      \/ \E i \in DOMAIN t : (s \o t)[m] = t[i]
<1>1. PICK u : u = s \o t
  OBVIOUS
<1>2. /\ Len(u) = Len(s) + Len(t) /\ Len(s) \in Nat /\ Len(t) \in Nat
      /\ DOMAIN s = 1..Len(s) /\ DOMAIN t = 1..Len(t)
      /\ \A i \in 1..(Len(s) + Len(t)) : u[i] = IF i <= Len(s) THEN s[i] ELSE t[i - Len(s)]
  BY <1>1, ConcatProperties, LenProperties
<1>3. ASSUME NEW i \in DOMAIN s
      PROVE  i \in 1..Len(u) /\ u[i] = s[i]
  BY <1>2
<1>4. ASSUME NEW i \in DOMAIN t
      PROVE  i + Len(s) \in 1..Len(u) /\ u[i + Len(s)] = t[i]
  <2>1. i + Len(s) \in 1..Len(u) /\ ~(i + Len(s) <= Len(s)) /\ i + Len(s) - Len(s) = i
    BY <1>2
  <2> QED
    BY <1>2, <2>1
<1>5. ASSUME NEW m \in 1..Len(u)
      PROVE  \/ \E i \in DOMAIN s : u[m] = s[i]
             \/ \E i \in DOMAIN t : u[m] = t[i]
  <2>1. CASE m <= Len(s)
    BY <1>2, <2>1
  <2>2. CASE ~(m <= Len(s))
    <3>1. m - Len(s) \in DOMAIN t /\ u[m] = t[m - Len(s)]
      BY <1>2, <2>2
    <3> QED
      BY <3>1
  <2> QED
    BY <2>1, <2>2
<1> QED
  BY <1>1, <1>3, <1>4, <1>5

(* The ranges that ToSort names. *)
HeldRange(w, a) == \E i \in 1..Len(Held(job[w])) : a = RangeOf(Held(job[w])[i])

(* ToSort names them and those of the pending futures.                     *)
LEMMA OpenRanges ==
  ASSUME SortInv, NEW a
  PROVE  a \in ToSort <=> \/ a \in Ranges /\ fstate[a] = "pending"
                          \/ \E w \in Sorters : HeldRange(w, a)
<1>1. ASSUME NEW w \in Sorters
      PROVE  HeldRange(w, a) <=> \/ \E i \in DOMAIN job[w].calls : a = RangeOf(job[w].calls[i])
                                 \/ \E i \in DOMAIN job[w].forks : a = RangeOf(job[w].forks[i])
  <2>1. job[w].forks \in Seq(Calls) /\ job[w].calls \in Seq(Calls)
    BY HeldTypes DEF SortInv, SortTypeOK
  <2>2. PICK s, t : s = job[w].forks /\ t = job[w].calls
    OBVIOUS
  <2>3. s \in Seq(Calls)
    BY <2>1, <2>2, Zenon
  <2>4. t \in Seq(Calls)
    BY <2>1, <2>2, Zenon
  <2>5. PICK u : u = s \o t
    OBVIOUS
  <2>6. /\ \A i \in DOMAIN s : \E m \in 1..Len(u) : u[m] = s[i]
        /\ \A i \in DOMAIN t : \E m \in 1..Len(u) : u[m] = t[i]
        /\ \A m \in 1..Len(u) : \/ \E i \in DOMAIN s : u[m] = s[i]
                                \/ \E i \in DOMAIN t : u[m] = t[i]
    BY <2>3, <2>4, <2>5, HeldIs
  <2>7. Held(job[w]) = u
    BY <2>2, <2>5, Zenon DEF Held
  <2>8. HeldRange(w, a) <=> \E m \in 1..Len(u) : a = RangeOf(u[m])
    BY <2>7, Zenon DEF HeldRange
  <2>9. HeldRange(w, a) <=> \/ \E i \in DOMAIN t : a = RangeOf(t[i])
                            \/ \E i \in DOMAIN s : a = RangeOf(s[i])
    <3>1. ASSUME NEW m \in 1..Len(u), a = RangeOf(u[m])
          PROVE  \/ \E i \in DOMAIN t : a = RangeOf(t[i])
                 \/ \E i \in DOMAIN s : a = RangeOf(s[i])
      BY <2>6, <3>1, Zenon
    <3>2. ASSUME NEW i \in DOMAIN t, a = RangeOf(t[i])
          PROVE  \E m \in 1..Len(u) : a = RangeOf(u[m])
      BY <2>6, <3>2, Zenon
    <3>3. ASSUME NEW i \in DOMAIN s, a = RangeOf(s[i])
          PROVE  \E m \in 1..Len(u) : a = RangeOf(u[m])
      BY <2>6, <3>3, Zenon
    <3> QED
      BY <2>8, <3>1, <3>2, <3>3
  <2> QED
    BY <2>2, <2>9, Zenon
<1> QED
  BY <1>1 DEF ToSort

(* What is known of the range of a call, and of two ranges that a task     *)
(* has.                                                                    *)
LEMMA HeldRangeFacts ==
  ASSUME SortInv, NEW w \in Sorters, NEW a, HeldRange(w, a)
  PROVE  /\ Positions(a) \subseteq Area(Held(job[w]))
         /\ a[1] \in Nat /\ a[2] \in Nat /\ Right(xs, a[1], a[2])
<1>1. Held(job[w]) \in Seq(Calls) /\ Divided(Held(job[w]), xs, job[w].task[2])
  BY HeldTypes DEF SortInv, SortTypeOK, JobOK
<1>2. PICK i \in 1..Len(Held(job[w])) : a = RangeOf(Held(job[w])[i])
  BY DEF HeldRange
<1>3. PICK c : c = Held(job[w])[i]
  OBVIOUS
<1>4. c \in Calls /\ CallOK(c, xs, job[w].task[2])
  BY <1>1, <1>2, <1>3, ElementOfSeq DEF Divided
<1>5. a[1] = c.l0 /\ a[2] = c.n /\ Positions(a) = Pos(c)
  BY <1>2, <1>3 DEF RangeOf, Positions, Pos
<1>6. Pos(c) \subseteq Index /\ c.l0 \in Nat /\ c.n \in Nat /\ Right(xs, c.l0, c.n)
  BY <1>4, CallTypes DEF CallOK
<1>7. Pos(c) \subseteq Area(Held(job[w]))
  BY <1>2, <1>3, <1>6 DEF Area
<1> QED
  BY <1>5, <1>6, <1>7

LEMMA HeldRangesApart ==
  ASSUME SortInv, NEW w \in Sorters, NEW a, NEW b, HeldRange(w, a), HeldRange(w, b), a # b
  PROVE  Positions(a) \intersect Positions(b) = {}
<1>1. Divided(Held(job[w]), xs, job[w].task[2])
  BY DEF SortInv, JobOK
<1>2. PICK i \in 1..Len(Held(job[w])) : a = RangeOf(Held(job[w])[i])
  BY DEF HeldRange
<1>3. PICK m \in 1..Len(Held(job[w])) : b = RangeOf(Held(job[w])[m])
  BY DEF HeldRange
<1>4. Pos(Held(job[w])[i]) \intersect Pos(Held(job[w])[m]) = {}
  BY <1>1, <1>2, <1>3 DEF Divided
<1>5. Positions(a) = Pos(Held(job[w])[i]) /\ Positions(b) = Pos(Held(job[w])[m])
  BY <1>2, <1>3 DEF RangeOf, Positions, Pos
<1> QED
  BY <1>4, <1>5

(* The invariant is stronger than RangesDisjoint,                          *)
LEMMA InvDisjoint == SortInv => RangesDisjoint
<1> SUFFICES ASSUME SortInv
             PROVE  RangesDisjoint
  OBVIOUS
<1>1. JobsApart /\ PendingOK /\ InPlace
  BY DEF SortInv
<1>2. ASSUME NEW a \in ToSort, NEW b \in ToSort, a # b
      PROVE  Positions(a) \intersect Positions(b) = {}
  <2>1. ASSUME NEW f \in Ranges, fstate[f] = "pending", NEW w \in Sorters, NEW g, HeldRange(w, g)
        PROVE  Positions(f) \intersect Positions(g) = {}
    <3>1. Positions(g) \subseteq Area(Held(job[w]))
      BY <2>1, HeldRangeFacts
    <3> QED
      BY <1>1, <2>1, <3>1 DEF PendingOK
  <2>2. CASE a \in Ranges /\ fstate[a] = "pending" /\ b \in Ranges /\ fstate[b] = "pending"
    BY <1>1, <1>2, <2>2 DEF PendingOK
  <2>3. CASE a \in Ranges /\ fstate[a] = "pending" /\ \E w \in Sorters : HeldRange(w, b)
    BY <2>1, <2>3
  <2>4. CASE b \in Ranges /\ fstate[b] = "pending" /\ \E w \in Sorters : HeldRange(w, a)
    BY <2>1, <2>4
  <2>5. ASSUME NEW v \in Sorters, NEW w \in Sorters, HeldRange(v, a), HeldRange(w, b)
        PROVE  Positions(a) \intersect Positions(b) = {}
    <3>1. CASE v = w
      BY <1>2, <2>5, <3>1, HeldRangesApart
    <3>2. CASE v # w
      <4>1. /\ Positions(a) \subseteq Area(Held(job[v]))
            /\ Positions(b) \subseteq Area(Held(job[w]))
        BY <2>5, HeldRangeFacts
      <4> QED
        BY <1>1, <3>2, <4>1 DEF JobsApart
    <3> QED
      BY <3>1, <3>2
  <2> QED
    BY <1>2, <2>2, <2>3, <2>4, <2>5, OpenRanges
<1>3. ASSUME NEW a \in ToSort
      PROVE  {xs[i] : i \in Positions(a)} = Positions(a)
  <2>1. a[1] \in Nat /\ a[2] \in Nat /\ Right(xs, a[1], a[2])
    <3>1. CASE a \in Ranges /\ fstate[a] = "pending"
      BY <1>1, <3>1, RangeTypes DEF PendingOK
    <3>2. CASE \E w \in Sorters : HeldRange(w, a)
      BY <3>2, HeldRangeFacts
    <3> QED
      BY <3>1, <3>2, OpenRanges
  <2> QED
    BY <2>1 DEF Right, Positions
<1>4. ASSUME NEW p \in Index \ UNION {Positions(a) : a \in ToSort}
      PROVE  xs[p] = p
  <2>1. \A a \in ToSort : p \notin Positions(a)
    OBVIOUS
  <2>2. ASSUME NEW w \in Sorters, p \in Area(Held(job[w]))
        PROVE  FALSE
    <3>1. PICK i \in 1..Len(Held(job[w])) : p \in Pos(Held(job[w])[i])
      BY <2>2 DEF Area
    <3>2. PICK a : a = RangeOf(Held(job[w])[i])
      OBVIOUS
    <3>3. a \in ToSort
      BY <3>2, OpenRanges DEF HeldRange
    <3>4. p \in Positions(a)
      BY <3>1, <3>2 DEF RangeOf, Positions, Pos
    <3> QED
      BY <2>1, <3>3, <3>4
  <2>3. \A f \in Ranges : fstate[f] = "pending" => p \notin Positions(f)
    BY <2>1, OpenRanges
  <2> QED
    BY <1>1, <2>2, <2>3 DEF InPlace
<1> QED
  BY <1>2, <1>3, <1>4 DEF RangesDisjoint

(* Tasks that sort parts of one list at the same time never meet: the      *)
(* ranges still to be sorted are disjoint, each has just the values that   *)
(* belong there, and everything between them has its place.  So for any    *)
(* length of the list, any number of workers and any choice of the depth   *)
(* and the size from which parts are left to futures.                      *)
THEOREM QuickSortRangesDisjoint == SortSpec => []RangesDisjoint
BY InvDisjoint, SortAlways, PTL

(* In a set of ranges that is not empty there is a largest one. *)
LEMMA LargestRange ==
  ASSUME NEW U \in SUBSET Ranges, U # {}
  PROVE  \E f \in U : \A g \in U : ~(f[2] < g[2])
<1> DEFINE S == {Length - f[2] : f \in U}
<1>1. Length \in Nat /\ \A f \in U : f[2] \in Nat /\ f[1] \in Nat /\ f[1] + f[2] <= Length
  BY RangeTypes, QuickSortAssumption
<1>2. S \subseteq Nat /\ S # {}
  BY <1>1
<1> HIDE DEF S
<1>3. PICK k \in S : \A m \in S : k <= m
  <2> DEFINE Less == OpToRel(<, Nat)
  <2>1. IsWellFoundedOn(Less, Nat)
    BY NatLessThanWellFounded
  <2>2. \A x, y \in Nat : x < y => <<x, y>> \in Less
    BY DEF OpToRel
  <2> HIDE DEF Less
  <2>3. \E k \in S : \A m \in S : ~(<<m, k>> \in Less)
    BY <1>2, <2>1, WFMin, Zenon
  <2>4. PICK k \in S : \A m \in S : ~(<<m, k>> \in Less)
    BY <2>3
  <2>5. ASSUME NEW m \in S
        PROVE  k <= m
    <3>1. k \in Nat /\ m \in Nat
      BY <1>2
    <3>2. ~(m < k)
      BY <2>2, <2>4, <3>1
    <3> QED
      BY <3>1, <3>2
  <2> QED
    BY <2>5
<1>4. PICK f \in U : k = Length - f[2]
  BY DEF S
<1>5. ASSUME NEW g \in U
      PROVE  ~(f[2] < g[2])
  <2>1. Length - g[2] \in S
    BY DEF S
  <2> QED
    BY <1>1, <1>3, <1>4, <2>1
<1> QED
  BY <1>5

(* and than SortedAtLast: of a future that has still to be called and that *)
(* nobody knows of, a larger one has still to be called, and there is no   *)
(* largest.                                                                *)
LEMMA InvSorted == SortInv => SortedAtLast
<1> SUFFICES ASSUME SortInv, SortReturned
             PROVE  /\ \A i \in Index : xs[i] = i
                    /\ \A f \in Ranges : fstate[f] \in {"none", "done"}
  BY DEF SortedAtLast
<1>1. called = NoFuture /\ fs = {}
  BY DEF SortReturned
<1>2. PICK U \in SUBSET Ranges : ToldOf(U)
  BY DEF SortInv
<1>3. ASSUME NEW f \in U
      PROVE  \E g \in U : f[2] < g[2]
  <2>1. \/ \E w \in Sorters : f \in job[w].made
        \/ \E g \in U : fstate[g] = "done" /\ f \in fresult[g] /\ f[2] < g[2]
    BY <1>1, <1>2, RangeTypes DEF ToldOf
  <2>2. ASSUME NEW w \in Sorters, f \in job[w].made
        PROVE  \E g \in U : f[2] < g[2]
    <3>1. job[w] # Free
      BY <2>2, FreeJob
    <3>2. /\ job[w].task \in Ranges /\ fstate[job[w].task] = "running" /\ JobOK(job[w], xs)
      BY <3>1, Working
    <3>3. job[w].task \in U
      BY <1>2, <3>2 DEF ToldOf
    <3> QED
      BY <2>2, <3>2, <3>3 DEF JobOK
  <2> QED
    BY <2>1, <2>2
<1>4. U = {}
  BY <1>3, LargestRange
<1>5. \A f \in Ranges : fstate[f] \in {"none", "done"}
  BY <1>2, <1>4 DEF SortInv, FuturesType, ToldOf
<1>6. ASSUME NEW w \in Sorters
      PROVE  Area(Held(job[w])) = {}
  <2>1. job[w] = Free
    BY <1>5, Working
  <2> QED
    BY <2>1, FreeJob
<1>7. \A i \in Index : xs[i] = i
  BY <1>5, <1>6 DEF SortInv, InPlace
<1> QED
  BY <1>5, <1>7

(* When the main thread has called every future that it was told of, every *)
(* future is done and the list is sorted: no future is lost on the way up, *)
(* however the tasks interleave.                                           *)
THEOREM QuickSortSortedAtLast == SortSpec => []SortedAtLast
BY InvSorted, SortAlways, PTL

-----------------------------------------------------------------------------
(* The least of a set of numbers, and the greatest of a finite one. *)
LEMMA LeastOf ==
  ASSUME NEW S \in SUBSET Nat, S # {}
  PROVE  \E m \in S : \A k \in S : m <= k
<1> DEFINE Less == OpToRel(<, Nat)
<1>1. IsWellFoundedOn(Less, Nat)
  BY NatLessThanWellFounded
<1>2. \A x, y \in Nat : x < y => <<x, y>> \in Less
  BY DEF OpToRel
<1> HIDE DEF Less
<1>3. PICK m \in S : \A k \in S : ~(<<k, m>> \in Less)
  <2>1. S \subseteq Nat
    OBVIOUS
  <2> QED
    BY <1>1, <2>1, WFMin, Zenon
<1>4. ASSUME NEW k \in S
      PROVE  m <= k
  <2>1. k \in Nat /\ m \in Nat
    OBVIOUS
  <2>2. ~(k < m)
    BY <1>2, <1>3, <2>1
  <2> QED
    BY <2>1, <2>2
<1> QED
  BY <1>4

(* The same for the greatest, from the number of those above each. *)
LEMMA GreatestOf ==
  ASSUME NEW S \in SUBSET Nat, S # {}, IsFiniteSet(S)
  PROVE  \E m \in S : \A k \in S : k <= m
<1> DEFINE Above(m) == {k \in S : m < k}
           sizes == {Cardinality(Above(m)) : m \in S}
<1>1. ASSUME NEW m \in S
      PROVE  IsFiniteSet(Above(m)) /\ Cardinality(Above(m)) \in Nat
  BY FS_Subset, FS_CardinalityType
<1>2. sizes \subseteq Nat /\ sizes # {}
  BY <1>1
<1> HIDE DEF sizes
<1>3. PICK c \in sizes : \A d \in sizes : c <= d
  BY <1>2, LeastOf
<1>4. PICK m \in S : c = Cardinality(Above(m))
  BY DEF sizes
<1>5. ASSUME NEW k \in S, ~(k <= m)
      PROVE  FALSE
  <2>1. k \in Nat /\ m \in Nat /\ m < k
    BY <1>5
  <2>2. Above(k) \subseteq Above(m) /\ k \in Above(m) /\ k \notin Above(k)
    <3>1. ASSUME NEW l \in Above(k)
          PROVE  l \in Above(m)
      <4>1. l \in S /\ l \in Nat /\ k < l
        OBVIOUS
      <4> QED
        BY <2>1, <4>1
    <3>2. k \in Above(m) /\ k \notin Above(k)
      BY <2>1
    <3> HIDE DEF Above
    <3> QED
      BY <3>1, <3>2
  <2>3. Cardinality(Above(k)) \in sizes
    BY DEF sizes
  <2>4. Cardinality(Above(m)) <= Cardinality(Above(k))
    BY <1>3, <1>4, <2>3
  <2>5. /\ IsFiniteSet(Above(m)) /\ Cardinality(Above(m)) \in Nat
        /\ IsFiniteSet(Above(k)) /\ Cardinality(Above(k)) \in Nat
    BY <1>1
  <2> HIDE DEF Above
  <2>6. Above(k) \subseteq Above(m) \ {k}
    BY <2>2
  <2>7. /\ IsFiniteSet(Above(m) \ {k})
        /\ Cardinality(Above(m) \ {k}) = Cardinality(Above(m)) - 1
    BY <2>2, <2>5, FS_RemoveElement
  <2>8. Cardinality(Above(k)) <= Cardinality(Above(m) \ {k})
    BY <2>6, <2>7, FS_Subset
  <2> QED
    BY <2>4, <2>5, <2>7, <2>8
<1> QED
  BY <1>5

-----------------------------------------------------------------------------
(* What a skip list is. *)

(* The elements on level i. *)
Kids(next, i) == {x \in SkipElems : i <= Len(next[x])}

(* n comes after x on level i. *)
NextOn(next, i, x, n) ==
  \/ n = NoNode /\ \A y \in Kids(next, i) : y <= x
  \/ n \in Kids(next, i) /\ x < n /\ \A y \in Kids(next, i) : y <= x \/ n <= y

(* Whoever has a link on level i is linked to what comes after it. *)
Linked(next, i) == \A x \in OnLevel(next, i) : NextOn(next, i, x, next[x][i])

(* The head is at least as high as every node. *)
Shaped(next) == /\ next \in [Nodes -> Seq(SkipElems \union {NoNode})]
                /\ Len(next[HeadNode]) <= TopHeight
                /\ \A x \in Nodes : Len(next[x]) <= Len(next[HeadNode])

WellLinked(next) == Shaped(next) /\ \A i \in 1..TopHeight : Linked(next, i)

(* y is the last node before e on level i. *)
LastBefore(next, i, e, y) == /\ y \in OnLevel(next, i) /\ y < e
                             /\ \A z \in OnLevel(next, i) : z < e => z <= y

(* What the assumption says of the names of nodes. *)
LEMMA SkipConstants ==
  /\ SkipElems \subseteq Nat \ {0} /\ IsFiniteSet(SkipElems) /\ TopHeight \in Nat \ {0}
  /\ Nodes \subseteq Nat /\ HeadNode \in Nodes /\ SkipElems \subseteq Nodes
  /\ \A x \in SkipElems : x \in Nat /\ x > 0
  /\ \A x \in Nodes : x \in Nat /\ (x # HeadNode => x \in SkipElems)
  /\ HeadNode = 0 /\ HeadNode \notin SkipElems /\ NoNode \notin Nat /\ NoNode # HeadNode
  /\ NoNode \notin SkipElems
BY SkipListAssumption DEF Nodes, HeadNode, NoNode

(* How many links a node can have, and where they can lead. *)
LEMMA ShapeFacts ==
  ASSUME NEW next, Shaped(next)
  PROVE  /\ \A x \in Nodes : /\ Len(next[x]) \in Nat /\ Len(next[x]) <= Len(next[HeadNode])
                             /\ Len(next[x]) <= TopHeight
                             /\ DOMAIN next[x] = 1..Len(next[x])
                             /\ \A i \in 1..Len(next[x]) : next[x][i] \in SkipElems \union {NoNode}
<1>1. ASSUME NEW x \in Nodes
      PROVE  /\ Len(next[x]) \in Nat /\ Len(next[x]) <= Len(next[HeadNode])
             /\ Len(next[x]) <= TopHeight
             /\ DOMAIN next[x] = 1..Len(next[x])
             /\ \A i \in 1..Len(next[x]) : next[x][i] \in SkipElems \union {NoNode}
  <2>1. next[x] \in Seq(SkipElems \union {NoNode}) /\ next[HeadNode] \in Seq(SkipElems \union {NoNode})
    BY SkipConstants DEF Shaped
  <2>2. /\ Len(next[x]) \in Nat /\ DOMAIN next[x] = 1..Len(next[x]) /\ Len(next[HeadNode]) \in Nat
        /\ \A i \in 1..Len(next[x]) : next[x][i] \in SkipElems \union {NoNode}
    BY <2>1, LenProperties, ElementOfSeq
  <2> QED
    BY <2>2, SkipConstants DEF Shaped
<1> QED
  BY <1>1

(* The nodes on a level are the head and its elements. *)
LEMMA LevelFacts ==
  ASSUME NEW next, Shaped(next), NEW i \in 1..TopHeight
  PROVE  /\ i \in Nat /\ i >= 1 /\ i <= TopHeight
         /\ \A x \in Kids(next, i) : /\ x \in SkipElems /\ x \in OnLevel(next, i) /\ x \in Nat
                                     /\ x > 0 /\ x # NoNode /\ x # HeadNode
         /\ \A x \in OnLevel(next, i) : /\ x \in Nodes /\ x \in Nat
                                        /\ x = HeadNode \/ x \in Kids(next, i)
         /\ HeadNode \in OnLevel(next, i) <=> i <= Len(next[HeadNode])
<1>1. i \in Nat /\ i >= 1 /\ i <= TopHeight
  BY SkipConstants
<1>2. ASSUME NEW x \in Kids(next, i)
      PROVE  /\ x \in SkipElems /\ x \in OnLevel(next, i) /\ x \in Nat
             /\ x > 0 /\ x # NoNode /\ x # HeadNode
  BY SkipConstants DEF Kids, OnLevel
<1>3. ASSUME NEW x \in OnLevel(next, i)
      PROVE  /\ x \in Nodes /\ x \in Nat
             /\ x = HeadNode \/ x \in Kids(next, i)
  BY SkipConstants DEF Kids, OnLevel
<1>4. HeadNode \in OnLevel(next, i) <=> i <= Len(next[HeadNode])
  BY SkipConstants DEF OnLevel
<1> QED
  BY <1>1, <1>2, <1>3, <1>4

-----------------------------------------------------------------------------
(* The search. *)

(* No two nodes are the last before e. *)
LEMMA LastBeforeUnique ==
  ASSUME NEW next, Shaped(next), NEW i \in 1..TopHeight, NEW e \in Nat, NEW y, NEW z,
         LastBefore(next, i, e, y), LastBefore(next, i, e, z)
  PROVE  y = z
<1>1. y \in Nat /\ z \in Nat
  BY LevelFacts DEF LastBefore
<1>2. y <= z /\ z <= y
  BY DEF LastBefore
<1> QED
  BY <1>1, <1>2

(* There is one as soon as a node of the level is before e. *)
LEMMA LastBeforeExists ==
  ASSUME NEW next, Shaped(next), NEW i \in 1..TopHeight, NEW e \in Nat,
         NEW x \in OnLevel(next, i), x < e
  PROVE  \E y : LastBefore(next, i, e, y)
<1> DEFINE S == {y \in OnLevel(next, i) : y < e}
<1>1. S \in SUBSET Nat /\ S # {}
  BY LevelFacts
<1>2. IsFiniteSet(S)
  <2>1. \A y \in S : y <= e
    BY <1>1
  <2> QED
    BY <1>1, <2>1, FS_BoundedSetOfNaturals
<1>3. PICK m \in S : \A y \in S : y <= m
  <2> HIDE DEF S
  <2> QED
    BY <1>1, <1>2, GreatestOf
<1> QED
  BY <1>3 DEF LastBefore

(* The links lead to the last node before e, and no further. *)
LEMMA LinksLead ==
  ASSUME NEW next, Shaped(next), NEW i \in 1..TopHeight, Linked(next, i), NEW e \in SkipElems,
         NEW y \in OnLevel(next, i)
  PROVE  /\ next[y][i] # NoNode /\ next[y][i] < e =>
              next[y][i] \in OnLevel(next, i) /\ y < next[y][i]
         /\ y < e /\ ~(next[y][i] # NoNode /\ next[y][i] < e) => LastBefore(next, i, e, y)
         /\ ~(y < e) => ~(next[y][i] # NoNode /\ next[y][i] < e)
<1>1. PICK n : n = next[y][i]
  OBVIOUS
<1>2. NextOn(next, i, y, n)
  BY <1>1 DEF Linked
<1>3. /\ \A x \in Kids(next, i) : x \in Nat /\ x \in OnLevel(next, i) /\ x # NoNode
      /\ \A x \in OnLevel(next, i) : x \in Nat /\ (x = HeadNode \/ x \in Kids(next, i))
  BY LevelFacts
<1>4. y \in Nat /\ e \in Nat /\ HeadNode = 0
  BY <1>3, SkipConstants
<1>5. n # NoNode => n \in Kids(next, i) /\ n \in Nat /\ y < n /\ n \in OnLevel(next, i)
  BY <1>2, <1>3 DEF NextOn
<1>6. ASSUME y < e, ~(n # NoNode /\ n < e), NEW z \in OnLevel(next, i), z < e
      PROVE  z <= y
  <2>1. CASE z = HeadNode
    BY <1>4, <2>1
  <2>2. CASE z \in Kids(next, i)
    <3>1. CASE n = NoNode
      BY <1>2, <1>3, <2>2, <3>1 DEF NextOn
    <3>2. CASE n # NoNode
      <4>1. z <= y \/ n <= z
        BY <1>2, <2>2, <3>2 DEF NextOn
      <4>2. n \in Nat /\ ~(n < e) /\ z \in Nat /\ z < e
        BY <1>3, <1>5, <1>6, <3>2
      <4> QED
        BY <1>4, <4>1, <4>2
    <3> QED
      BY <3>1, <3>2
  <2> QED
    BY <1>3, <2>1, <2>2
<1>7. n # NoNode /\ n < e => y < e
  BY <1>4, <1>5
<1>8. y < e /\ ~(n # NoNode /\ n < e) => LastBefore(next, i, e, y)
  BY <1>6 DEF LastBefore
<1> QED
  BY <1>1, <1>5, <1>7, <1>8

(* What the search does from y on, if walk does it from the next node. *)
Walks(walk, next, i, e) ==
  walk = [y \in OnLevel(next, i) |->
            IF next[y][i] # NoNode /\ next[y][i] < e THEN walk[next[y][i]] ELSE y]

(* Before is the value of a function that solves its equation, if one does. *)
LEMMA BeforeIs ==
  ASSUME NEW next, NEW x, NEW i, NEW e, NEW g, Walks(g, next, i, e)
  PROVE  \E walk : Walks(walk, next, i, e) /\ Before(next, x, i, e) = walk[x]
<1> DEFINE w == CHOOSE walk : Walks(walk, next, i, e)
<1>1. Walks(w, next, i, e)
  BY Zenon
<1>2. Before(next, x, i, e) = w[x]
  BY DEF Before, Walks
<1> QED
  BY <1>1, <1>2

(* The search on level i ends at the last node before e. *)
LEMMA BeforeIsLast ==
  ASSUME NEW next, Shaped(next), NEW i \in 1..TopHeight, Linked(next, i), NEW e \in SkipElems,
         NEW x \in OnLevel(next, i), x < e
  PROVE  LastBefore(next, i, e, Before(next, x, i, e))
<1> DEFINE On == OnLevel(next, i)
           Goes(y) == next[y][i] # NoNode /\ next[y][i] < e
<1>0. e \in Nat /\ \A y \in On : y \in Nat
  BY LevelFacts, SkipConstants
<1>1. PICK p : LastBefore(next, i, e, p)
  BY <1>0, LastBeforeExists
<1>2. \A y : LastBefore(next, i, e, y) => y = p
  BY <1>0, <1>1, LastBeforeUnique
<1>3. \A y \in On : /\ Goes(y) => next[y][i] \in On /\ y < next[y][i] /\ y < e
                    /\ y < e /\ ~Goes(y) => y = p
  <2>1. ASSUME NEW y \in On
        PROVE  /\ Goes(y) => next[y][i] \in On /\ y < next[y][i]
               /\ y < e /\ ~Goes(y) => LastBefore(next, i, e, y)
               /\ ~(y < e) => ~Goes(y)
    BY LinksLead
  <2> QED
    BY <1>2, <2>1
<1>4. \E g : Walks(g, next, i, e)
  <2> DEFINE g == [y \in On |-> IF y < e THEN p ELSE y]
  <2>1. ASSUME NEW y \in On
        PROVE  g[y] = IF Goes(y) THEN g[next[y][i]] ELSE y
    <3>1. CASE Goes(y)
      <4>1. next[y][i] \in On /\ next[y][i] < e /\ y < e
        BY <1>3, <3>1
      <4> QED
        BY <3>1, <4>1
    <3>2. CASE ~Goes(y)
      BY <1>3, <3>2
    <3> QED
      BY <3>1, <3>2
  <2>2. g = [y \in On |-> IF Goes(y) THEN g[next[y][i]] ELSE y]
    BY <2>1
  <2> HIDE DEF g
  <2> QED
    BY <2>2 DEF Walks
<1>5. PICK walk : Walks(walk, next, i, e) /\ Before(next, x, i, e) = walk[x]
  BY <1>4, BeforeIs
<1>6. \A y \in On : walk[y] = IF Goes(y) THEN walk[next[y][i]] ELSE y
  BY <1>5 DEF Walks
<1> DEFINE Bad == {y \in On : y < e /\ walk[y] # p}
<1>7. Bad = {}
  <2> SUFFICES ASSUME Bad # {}
               PROVE  FALSE
    OBVIOUS
  <2>1. Bad \in SUBSET Nat /\ \A y \in Bad : y <= e
    BY <1>0
  <2>2. IsFiniteSet(Bad)
    <3> HIDE DEF Bad
    <3> QED
      BY <1>0, <2>1, FS_BoundedSetOfNaturals
  <2>3. PICK b \in Bad : \A y \in Bad : y <= b
    <3> HIDE DEF Bad
    <3> QED
      BY <2>1, <2>2, GreatestOf
  <2>4. CASE Goes(b)
    <3>1. next[b][i] \in On /\ b < next[b][i] /\ next[b][i] < e
      BY <1>3, <2>4
    <3>2. walk[next[b][i]] # p
      BY <1>6, <2>4
    <3>3. next[b][i] \in Bad
      BY <3>1, <3>2
    <3> QED
      BY <1>0, <2>3, <3>1, <3>3
  <2>5. CASE ~Goes(b)
    BY <1>3, <1>6, <2>5
  <2> QED
    BY <2>4, <2>5
<1> QED
  BY <1>1, <1>5, <1>7

(* What updateList says of a level, if u is right for the level above. *)
Updates(u, next, height, e) ==
  u = [i \in 1..height |-> Before(next, IF i = height THEN HeadNode ELSE u[i + 1], i, e)]

(* The same for UpdateList. *)
LEMMA UpdateListIs ==
  ASSUME NEW next, NEW height, NEW e, NEW g, Updates(g, next, height, e)
  PROVE  Updates(UpdateList(next, height, e), next, height, e)
<1> DEFINE u == CHOOSE f : Updates(f, next, height, e)
<1>1. Updates(u, next, height, e)
  BY Zenon
<1>2. UpdateList(next, height, e) = u
  BY DEF UpdateList, Updates
<1> QED
  BY <1>1, <1>2

(* updateList finds the last node before e on each level. *)
LEMMA UpdateListIsLast ==
  ASSUME NEW next, WellLinked(next), NEW height \in Nat, height <= Len(next[HeadNode]),
         NEW e \in SkipElems
  PROVE  \A i \in 1..height : LastBefore(next, i, e, UpdateList(next, height, e)[i])
<1>0. /\ height <= TopHeight /\ TopHeight \in Nat /\ e \in Nat /\ HeadNode < e /\ Shaped(next)
      /\ Len(next[HeadNode]) \in Nat
  BY SkipConstants, ShapeFacts DEF WellLinked, Shaped
<1>1. ASSUME NEW i \in 1..height
      PROVE  /\ i \in 1..TopHeight /\ Linked(next, i) /\ HeadNode \in OnLevel(next, i)
             /\ i # height => i + 1 \in 1..height
  <2>1. i \in 1..TopHeight /\ i <= Len(next[HeadNode])
    BY <1>0
  <2> QED
    BY <1>0, <2>1, LevelFacts DEF WellLinked
<1>2. ASSUME NEW i \in 1..height, i # height, NEW y, LastBefore(next, i + 1, e, y)
      PROVE  y \in OnLevel(next, i) /\ y < e
  <2>1. y \in Nodes /\ i + 1 <= Len(next[y]) /\ y < e
    BY <1>2 DEF LastBefore, OnLevel
  <2>2. Len(next[y]) \in Nat
    BY <1>0, <2>1, ShapeFacts
  <2>3. i <= Len(next[y])
    BY <2>1, <2>2
  <2> QED
    BY <2>1, <2>3 DEF OnLevel
<1> DEFINE p(i) == CHOOSE y : LastBefore(next, i, e, y)
           From(u, i) == IF i = height THEN HeadNode ELSE u[i + 1]
<1>3. ASSUME NEW i \in 1..height
      PROVE  LastBefore(next, i, e, p(i)) /\ \A y : LastBefore(next, i, e, y) => y = p(i)
  <2>1. \E y : LastBefore(next, i, e, y)
    BY <1>0, <1>1, LastBeforeExists
  <2>2. LastBefore(next, i, e, p(i))
    BY <2>1
  <2> QED
    BY <1>0, <1>1, <2>2, LastBeforeUnique
<1> HIDE DEF p
<1>4. ASSUME NEW u, NEW i \in 1..height, i # height => LastBefore(next, i + 1, e, u[i + 1])
      PROVE  LastBefore(next, i, e, Before(next, From(u, i), i, e))
  <2>1. From(u, i) \in OnLevel(next, i) /\ From(u, i) < e
    BY <1>0, <1>1, <1>2, <1>4
  <2> HIDE DEF From
  <2> QED
    BY <1>0, <1>1, <2>1, BeforeIsLast
<1>5. \E g : Updates(g, next, height, e)
  <2> DEFINE g == [i \in 1..height |-> p(i)]
  <2>1. ASSUME NEW i \in 1..height
        PROVE  g[i] = Before(next, From(g, i), i, e)
    <3>1. i # height => LastBefore(next, i + 1, e, g[i + 1])
      BY <1>1, <1>3
    <3> HIDE DEF From
    <3>2. LastBefore(next, i, e, Before(next, From(g, i), i, e))
      BY <1>4, <3>1
    <3> QED
      BY <1>3, <3>2
  <2>2. g = [i \in 1..height |-> Before(next, From(g, i), i, e)]
    <3> HIDE DEF From
    <3> QED
      BY <2>1
  <2> HIDE DEF g
  <2> QED
    BY <2>2 DEF Updates
<1>6. PICK u : u = UpdateList(next, height, e)
  OBVIOUS
<1>7. \A i \in 1..height : u[i] = Before(next, From(u, i), i, e)
  BY <1>5, <1>6, UpdateListIs DEF Updates
<1> DEFINE Bad == {i \in 1..height : ~LastBefore(next, i, e, u[i])}
<1>8. Bad = {}
  <2> SUFFICES ASSUME Bad # {}
               PROVE  FALSE
    OBVIOUS
  <2>1. Bad \in SUBSET Nat /\ \A i \in Bad : i <= height
    BY <1>0
  <2>2. PICK b \in Bad : \A i \in Bad : i <= b
    <3> HIDE DEF Bad
    <3>1. IsFiniteSet(Bad)
      BY <1>0, <2>1, FS_BoundedSetOfNaturals
    <3> QED
      BY <2>1, <3>1, GreatestOf
  <2>3. b # height => LastBefore(next, b + 1, e, u[b + 1])
    <3>1. b # height => b + 1 \in 1..height /\ ~(b + 1 <= b)
      BY <1>0
    <3> QED
      BY <2>2, <3>1
  <2>4. LastBefore(next, b, e, u[b])
    <3> HIDE DEF From
    <3> QED
      BY <1>4, <1>7, <2>3
  <2> QED
    BY <2>4
<1> QED
  BY <1>6, <1>8

(* find finds what is on the bottom level. *)
LEMMA FindIs ==
  ASSUME NEW next, WellLinked(next), NEW height \in Nat, height <= Len(next[HeadNode]),
         height = 0 => Kids(next, 1) = {}, NEW e \in SkipElems
  PROVE  Find(next, height, e) <=> e \in Kids(next, 1)
<1>1. CASE height = 0
  BY <1>1 DEF Find
<1>2. CASE height # 0
  <2>1. PICK y : y = UpdateList(next, height, e)[1]
    OBVIOUS
  <2>2. 1 \in 1..height /\ 1 \in 1..TopHeight /\ Shaped(next) /\ Linked(next, 1)
    BY <1>2, SkipConstants DEF WellLinked
  <2>3. LastBefore(next, 1, e, y)
    BY <2>1, <2>2, UpdateListIsLast
  <2>4. PICK n : n = next[y][1]
    OBVIOUS
  <2>5. NextOn(next, 1, y, n)
    BY <2>2, <2>3, <2>4 DEF Linked, LastBefore
  <2>6. /\ \A x \in Kids(next, 1) : x \in Nat /\ x \in OnLevel(next, 1) /\ x # NoNode
        /\ y \in Nat /\ y < e /\ e \in Nat /\ e # NoNode
    BY <2>2, <2>3, LevelFacts, SkipConstants DEF LastBefore
  <2>7. ASSUME e \in Kids(next, 1)
        PROVE  n = e
    <3>1. ~(e <= y)
      BY <2>6
    <3>2. n \in Kids(next, 1) /\ y < n /\ n <= e
      BY <2>5, <2>7, <3>1 DEF NextOn
    <3>3. ~(n < e)
      BY <2>3, <2>6, <3>2 DEF LastBefore
    <3> QED
      BY <2>6, <3>2, <3>3
  <2>8. ASSUME n = e
        PROVE  e \in Kids(next, 1)
    BY <2>5, <2>6, <2>8 DEF NextOn
  <2>9. Find(next, height, e) <=> n = e
    BY <1>2, <2>1, <2>4 DEF Find
  <2> QED
    BY <2>7, <2>8, <2>9
<1> QED
  BY <1>1, <1>2

-----------------------------------------------------------------------------
(* The changes. *)

(* A function on 1..n is a sequence of length n. *)
LEMMA SeqMade ==
  ASSUME NEW T, NEW n \in Nat, NEW f \in [1..n -> T]
  PROVE  f \in Seq(T) /\ Len(f) = n
OBVIOUS

(* What is to be known of the nodes before e, up to level h. *)
Updated(next, u, e, h) ==
  \A i \in 1..h : LastBefore(next, i, e, u[i]) /\ i <= Len(next[HeadNode])

(* What follows for the node of update list u on one of the levels. *)
LEMMA UpdatedFacts ==
  ASSUME NEW next, WellLinked(next), NEW e \in SkipElems, NEW h \in Nat, NEW u,
         Updated(next, u, e, h), NEW i \in 1..h
  PROVE  /\ i \in 1..TopHeight /\ Linked(next, i)
         /\ u[i] \in OnLevel(next, i) /\ u[i] \in Nodes /\ u[i] \in Nat /\ u[i] < e
         /\ \A z \in OnLevel(next, i) : z < e => z <= u[i]
         /\ NextOn(next, i, u[i], next[u[i]][i])
         /\ next[u[i]][i] \in SkipElems \union {NoNode}
<1>1. /\ LastBefore(next, i, e, u[i]) /\ i <= Len(next[HeadNode]) /\ Shaped(next)
      /\ Len(next[HeadNode]) \in Nat /\ Len(next[HeadNode]) <= TopHeight /\ TopHeight \in Nat
  BY ShapeFacts, SkipConstants DEF Updated, WellLinked
<1>2. i \in 1..TopHeight
  BY <1>1
<1>3. Linked(next, i) /\ u[i] \in OnLevel(next, i)
  BY <1>1, <1>2 DEF WellLinked, LastBefore
<1>4. u[i] \in Nodes /\ u[i] \in Nat /\ i <= Len(next[u[i]])
  BY <1>1, <1>2, <1>3, LevelFacts DEF OnLevel
<1>5. next[u[i]][i] \in SkipElems \union {NoNode}
  <2>1. i \in 1..Len(next[u[i]])
    BY <1>1, <1>4, ShapeFacts
  <2> QED
    BY <1>1, <1>4, <2>1, ShapeFacts
<1> QED
  BY <1>1, <1>2, <1>3, <1>4, <1>5 DEF LastBefore, Linked

(* The links of a new node of height h, and of those before it. *)
LEMMA LinkShape ==
  ASSUME NEW next, WellLinked(next), NEW e \in SkipElems, NEW h \in Nat,
         h <= Len(next[HeadNode]), NEW u, Updated(next, u, e, h)
  PROVE  LET new == Link(next, u, e, h)
         IN  /\ Shaped(new)
             /\ Len(new[e]) = h /\ \A i \in 1..h : new[e][i] = next[u[i]][i]
             /\ \A x \in Nodes : x # e =>
                  /\ Len(new[x]) = Len(next[x])
                  /\ \A i \in 1..Len(next[x]) :
                       new[x][i] = IF i <= h /\ u[i] = x THEN e ELSE next[x][i]
<1> DEFINE T == SkipElems \union {NoNode}
<1>1. PICK new : new = Link(next, u, e, h)
  OBVIOUS
<1>2. Shaped(next) /\ e \in Nodes /\ HeadNode \in Nodes /\ e # HeadNode
  BY SkipConstants DEF WellLinked
<1>3. /\ new = [x \in Nodes |-> new[x]]
      /\ new[e] = [i \in 1..h |-> next[u[i]][i]]
      /\ \A x \in Nodes : x # e =>
           new[x] = [i \in 1..Len(next[x]) |-> IF i <= h /\ u[i] = x THEN e ELSE next[x][i]]
  BY <1>1, <1>2 DEF Link
<1>4. new[e] \in Seq(T) /\ Len(new[e]) = h /\ \A i \in 1..h : new[e][i] = next[u[i]][i]
  <2>1. \A i \in 1..h : next[u[i]][i] \in T
    BY UpdatedFacts
  <2>2. new[e] \in [1..h -> T]
    BY <1>3, <2>1
  <2>3. new[e] \in Seq(T) /\ Len(new[e]) = h
    <3> HIDE DEF T
    <3> QED
      BY <2>2, SeqMade, Zenon
  <2> QED
    BY <1>3, <2>3
<1>5. ASSUME NEW x \in Nodes, x # e
      PROVE  /\ new[x] \in Seq(T) /\ Len(new[x]) = Len(next[x])
             /\ \A i \in 1..Len(next[x]) :
                  new[x][i] = IF i <= h /\ u[i] = x THEN e ELSE next[x][i]
  <2>1. Len(next[x]) \in Nat /\ \A i \in 1..Len(next[x]) : next[x][i] \in T
    BY <1>2, ShapeFacts
  <2>2. new[x] = [i \in 1..Len(next[x]) |-> IF i <= h /\ u[i] = x THEN e ELSE next[x][i]]
    BY <1>3, <1>5
  <2>3. new[x] \in [1..Len(next[x]) -> T]
    BY <2>1, <2>2
  <2>4. new[x] \in Seq(T) /\ Len(new[x]) = Len(next[x])
    <3> HIDE DEF T
    <3> QED
      BY <2>1, <2>3, SeqMade, Zenon
  <2> QED
    BY <2>2, <2>4
<1>6. new \in [Nodes -> Seq(T)]
  <2>1. \A x \in Nodes : new[x] \in Seq(T)
    BY <1>4, <1>5
  <2> HIDE DEF T
  <2> QED
    BY <1>3, <2>1
<1>7. Shaped(new)
  <2>1. Len(new[HeadNode]) = Len(next[HeadNode]) /\ Len(next[HeadNode]) <= TopHeight
    BY <1>2, <1>5, ShapeFacts
  <2>2. \A x \in Nodes : Len(new[x]) <= Len(next[HeadNode])
    BY <1>2, <1>4, <1>5, ShapeFacts
  <2> QED
    BY <1>6, <2>1, <2>2 DEF Shaped
<1> QED
  BY <1>1, <1>4, <1>5, <1>7

(* The new node is on the levels up to its height, and every level is      *)
(* linked as before.                                                       *)
LEMMA LinkLinks ==
  ASSUME NEW next, WellLinked(next), NEW e \in SkipElems, NEW h \in Nat,
         h <= Len(next[HeadNode]), NEW u, Updated(next, u, e, h), Len(next[e]) = 0
  PROVE  /\ WellLinked(Link(next, u, e, h))
         /\ \A i \in 1..TopHeight :
              Kids(Link(next, u, e, h), i) = Kids(next, i) \union (IF i <= h THEN {e} ELSE {})
         /\ Len(Link(next, u, e, h)[HeadNode]) = Len(next[HeadNode])
<1>1. PICK new : new = Link(next, u, e, h)
  OBVIOUS
<1>2. /\ Shaped(new)
      /\ Len(new[e]) = h /\ \A i \in 1..h : new[e][i] = next[u[i]][i]
      /\ \A x \in Nodes : x # e =>
           /\ Len(new[x]) = Len(next[x])
           /\ \A i \in 1..Len(next[x]) :
                new[x][i] = IF i <= h /\ u[i] = x THEN e ELSE next[x][i]
  BY <1>1, LinkShape
<1>3. Shaped(next) /\ e \in Nodes /\ e # HeadNode /\ e \in Nat /\ HeadNode \in Nodes
  BY SkipConstants DEF WellLinked
<1>4. ASSUME NEW i \in 1..TopHeight
      PROVE  /\ e \notin Kids(next, i)
             /\ \A x \in Kids(new, i) : x \in Kids(next, i) \/ (x = e /\ i <= h)
             /\ \A x \in Kids(next, i) : x \in Kids(new, i)
             /\ i <= h => e \in Kids(new, i)
  <2>1. i \in Nat /\ i >= 1
    BY SkipConstants
  <2>2. e \notin Kids(next, i)
    BY <2>1 DEF Kids
  <2>3. \A x \in SkipElems : x \in Nodes
    BY SkipConstants
  <2> QED
    BY <1>2, <2>2, <2>3 DEF Kids
<1>5. ASSUME NEW i \in 1..TopHeight, NEW x \in OnLevel(new, i)
      PROVE  NextOn(new, i, x, new[x][i])
  <2>1. x \in Nodes /\ i <= Len(new[x]) /\ x \in Nat /\ i \in Nat /\ i >= 1
    BY <1>2, LevelFacts DEF OnLevel
  <2>2. \A y \in Kids(next, i) : y \in Nat /\ y \in OnLevel(next, i) /\ y # NoNode
    BY <1>3, LevelFacts
  <2>3. CASE x = e
    <3>1. i \in 1..h
      BY <1>2, <2>1, <2>3
    <3>2. PICK p, n : p = u[i] /\ n = next[u[i]][i]
      OBVIOUS
    <3>3. /\ p \in Nat /\ p < e /\ NextOn(next, i, p, n)
          /\ \A z \in OnLevel(next, i) : z < e => z <= p
      BY <3>1, <3>2, UpdatedFacts
    <3>4. new[x][i] = n
      BY <1>2, <2>3, <3>1, <3>2
    <3>5. CASE n = NoNode
      <4>1. \A y \in Kids(next, i) : y <= p
        BY <2>2, <3>3, <3>5 DEF NextOn
      <4>2. \A y \in Kids(new, i) : y <= e
        BY <1>3, <1>4, <2>2, <3>3, <4>1
      <4> QED
        BY <2>3, <3>4, <3>5, <4>2 DEF NextOn
    <3>6. CASE n # NoNode
      <4>1. n \in Kids(next, i) /\ p < n /\ \A y \in Kids(next, i) : y <= p \/ n <= y
        BY <3>3, <3>6 DEF NextOn
      <4>2. n # e /\ n \in Nat /\ ~(n < e)
        BY <1>4, <2>2, <3>3, <4>1
      <4>3. e < n
        BY <1>3, <4>2
      <4>4. \A y \in Kids(new, i) : y <= e \/ n <= y
        BY <1>3, <1>4, <2>2, <3>3, <4>1
      <4>5. n \in Kids(new, i)
        BY <1>4, <4>1
      <4> QED
        BY <2>3, <3>4, <4>3, <4>4, <4>5 DEF NextOn
    <3> QED
      BY <3>5, <3>6
  <2>4. CASE x # e
    <3>1. i \in 1..Len(next[x]) /\ x \in OnLevel(next, i)
      <4>1. Len(next[x]) = Len(new[x]) /\ Len(next[x]) \in Nat
        BY <1>2, <1>3, <2>1, <2>4, ShapeFacts
      <4> QED
        BY <2>1, <4>1 DEF OnLevel
    <3>2. CASE i <= h /\ u[i] = x
      <4>1. i \in 1..h
        BY <2>1, <3>2
      <4>2. new[x][i] = e
        BY <1>2, <2>1, <2>4, <3>1, <3>2
      <4>3. x < e /\ \A z \in OnLevel(next, i) : z < e => z <= x
        BY <3>2, <4>1, UpdatedFacts
      <4>4. \A y \in Kids(new, i) : y <= x \/ e <= y
        BY <1>3, <1>4, <2>1, <2>2, <4>3
      <4> QED
        BY <1>4, <3>2, <4>2, <4>3, <4>4 DEF NextOn
    <3>3. CASE ~(i <= h /\ u[i] = x)
      <4>1. PICK n : n = next[x][i]
        OBVIOUS
      <4>2. new[x][i] = n
        BY <1>2, <2>1, <2>4, <3>1, <3>3, <4>1
      <4>3. NextOn(next, i, x, n)
        BY <3>1, <4>1 DEF WellLinked, Linked
      <4>4. CASE i <= h
        <5>1. i \in 1..h
          BY <2>1, <4>4
        <5>2. PICK p : p = u[i]
          OBVIOUS
        <5>3. /\ p \in Nat /\ p < e /\ p \in OnLevel(next, i)
              /\ \A z \in OnLevel(next, i) : z < e => z <= p
          BY <5>1, <5>2, UpdatedFacts
        <5>4. x < e => p \in Kids(next, i) /\ x < p
          <6> SUFFICES ASSUME x < e
                       PROVE  p \in Kids(next, i) /\ x < p
            OBVIOUS
          <6>1. x <= p /\ x # p
            BY <3>1, <3>3, <4>4, <5>2, <5>3
          <6>2. x < p
            BY <2>1, <5>3, <6>1
          <6>3. p # HeadNode
            BY <2>1, <6>2, SkipConstants
          <6> QED
            BY <1>3, <5>3, <6>2, <6>3, LevelFacts
        <5>5. CASE n = NoNode
          <6>1. \A y \in Kids(next, i) : y <= x
            BY <2>2, <4>3, <5>5 DEF NextOn
          <6>2. ~(x < e)
            BY <2>1, <5>3, <5>4, <6>1
          <6>3. \A y \in Kids(new, i) : y <= x
            BY <1>3, <1>4, <2>1, <6>1, <6>2
          <6> QED
            BY <4>2, <5>5, <6>3 DEF NextOn
        <5>6. CASE n # NoNode
          <6>1. n \in Kids(next, i) /\ x < n /\ \A y \in Kids(next, i) : y <= x \/ n <= y
            BY <4>3, <5>6 DEF NextOn
          <6>2. e <= x \/ n <= e
            <7>1. CASE x < e
              <8>1. n <= p
                BY <2>1, <5>3, <5>4, <6>1, <7>1
              <8> QED
                BY <1>3, <2>2, <5>3, <6>1, <8>1
            <7>2. CASE ~(x < e)
              BY <1>3, <2>1, <7>2
            <7> QED
              BY <7>1, <7>2
          <6>3. \A y \in Kids(new, i) : y <= x \/ n <= y
            BY <1>4, <6>1, <6>2
          <6>4. n \in Kids(new, i)
            BY <1>4, <6>1
          <6> QED
            BY <4>2, <6>1, <6>3, <6>4 DEF NextOn
        <5> QED
          BY <5>5, <5>6
      <4>5. CASE ~(i <= h)
        <5>1. Kids(new, i) = Kids(next, i)
          BY <1>4, <4>5
        <5> QED
          BY <4>2, <4>3, <5>1 DEF NextOn
      <4> QED
        BY <4>4, <4>5
    <3> QED
      BY <3>2, <3>3
  <2> QED
    BY <2>3, <2>4
<1>6. WellLinked(new)
  BY <1>2, <1>5 DEF WellLinked, Linked
<1>7. ASSUME NEW i \in 1..TopHeight
      PROVE  Kids(new, i) = Kids(next, i) \union (IF i <= h THEN {e} ELSE {})
  BY <1>4
<1> QED
  BY <1>1, <1>2, <1>3, <1>6, <1>7

(* Unlinking e takes its links away and passes each on to the node before. *)
LEMMA UnlinkShape ==
  ASSUME NEW next, WellLinked(next), NEW e \in SkipElems, NEW u,
         Updated(next, u, e, Len(next[e]))
  PROVE  LET new == Unlink(next, u, e)
         IN  /\ Shaped(new)
             /\ Len(new[e]) = 0
             /\ \A x \in Nodes : x # e =>
                  /\ Len(new[x]) = Len(next[x])
                  /\ \A i \in 1..Len(next[x]) :
                       new[x][i] = IF i <= Len(next[e]) /\ u[i] = x THEN next[e][i] ELSE next[x][i]
<1> DEFINE T == SkipElems \union {NoNode}
<1>1. PICK new, h : new = Unlink(next, u, e) /\ h = Len(next[e])
  OBVIOUS
<1>2. Shaped(next) /\ e \in Nodes /\ HeadNode \in Nodes /\ e # HeadNode
  BY SkipConstants DEF WellLinked
<1>3. /\ new = [x \in Nodes |-> new[x]]
      /\ new[e] = <<>>
      /\ \A x \in Nodes : x # e =>
           new[x] = [i \in 1..Len(next[x]) |-> IF i <= h /\ u[i] = x THEN next[e][i] ELSE next[x][i]]
  BY <1>1, <1>2 DEF Unlink
<1>4. new[e] \in Seq(T) /\ Len(new[e]) = 0
  BY <1>3, EmptySeq
<1>5. ASSUME NEW x \in Nodes, x # e
      PROVE  /\ new[x] \in Seq(T) /\ Len(new[x]) = Len(next[x])
             /\ \A i \in 1..Len(next[x]) :
                  new[x][i] = IF i <= h /\ u[i] = x THEN next[e][i] ELSE next[x][i]
  <2>1. /\ Len(next[x]) \in Nat /\ \A i \in 1..Len(next[x]) : next[x][i] \in T
        /\ h \in Nat /\ \A i \in 1..h : next[e][i] \in T
    BY <1>1, <1>2, ShapeFacts
  <2>2. new[x] = [i \in 1..Len(next[x]) |-> IF i <= h /\ u[i] = x THEN next[e][i] ELSE next[x][i]]
    BY <1>3, <1>5
  <2>3. new[x] \in [1..Len(next[x]) -> T]
    BY <2>1, <2>2
  <2>4. new[x] \in Seq(T) /\ Len(new[x]) = Len(next[x])
    <3> HIDE DEF T
    <3> QED
      BY <2>1, <2>3, SeqMade, Zenon
  <2> QED
    BY <2>2, <2>4
<1>6. new \in [Nodes -> Seq(T)]
  <2>1. \A x \in Nodes : new[x] \in Seq(T)
    BY <1>4, <1>5
  <2> HIDE DEF T
  <2> QED
    BY <1>3, <2>1
<1>7. Shaped(new)
  <2>1. /\ Len(new[HeadNode]) = Len(next[HeadNode]) /\ Len(next[HeadNode]) <= TopHeight
        /\ Len(next[HeadNode]) \in Nat
    BY <1>2, <1>5, ShapeFacts
  <2>2. \A x \in Nodes : Len(new[x]) <= Len(next[HeadNode])
    BY <1>2, <1>4, <1>5, <2>1, ShapeFacts
  <2> QED
    BY <1>6, <2>1, <2>2 DEF Shaped
<1> QED
  BY <1>1, <1>4, <1>5, <1>7

(* The node of e is on no level any more, and every level is linked as     *)
(* before.                                                                 *)
LEMMA UnlinkLinks ==
  ASSUME NEW next, WellLinked(next), NEW e \in SkipElems, NEW u,
         Updated(next, u, e, Len(next[e]))
  PROVE  /\ WellLinked(Unlink(next, u, e))
         /\ \A i \in 1..TopHeight : Kids(Unlink(next, u, e), i) = Kids(next, i) \ {e}
         /\ Len(Unlink(next, u, e)[HeadNode]) = Len(next[HeadNode])
<1>1. PICK new, h : new = Unlink(next, u, e) /\ h = Len(next[e])
  OBVIOUS
<1>2. /\ Shaped(new)
      /\ Len(new[e]) = 0
      /\ \A x \in Nodes : x # e =>
           /\ Len(new[x]) = Len(next[x])
           /\ \A i \in 1..Len(next[x]) :
                new[x][i] = IF i <= h /\ u[i] = x THEN next[e][i] ELSE next[x][i]
  BY <1>1, UnlinkShape
<1>3. /\ Shaped(next) /\ e \in Nodes /\ e # HeadNode /\ e \in Nat /\ HeadNode \in Nodes
      /\ h \in Nat /\ Updated(next, u, e, h)
  BY <1>1, SkipConstants, ShapeFacts DEF WellLinked
<1>4. ASSUME NEW i \in 1..TopHeight
      PROVE  /\ \A x \in Kids(new, i) : x \in Kids(next, i) /\ x # e
             /\ \A x \in Kids(next, i) : x # e => x \in Kids(new, i)
             /\ i <= h <=> e \in Kids(next, i)
  <2>1. i \in Nat /\ i >= 1
    BY SkipConstants
  <2>2. \A x \in SkipElems : x \in Nodes
    BY SkipConstants
  <2> QED
    BY <1>1, <1>2, <2>1, <2>2 DEF Kids
<1>5. ASSUME NEW i \in 1..TopHeight, NEW x \in OnLevel(new, i)
      PROVE  NextOn(new, i, x, new[x][i])
  <2>1. x \in Nodes /\ i <= Len(new[x]) /\ x \in Nat /\ i \in Nat /\ i >= 1 /\ x # e
    BY <1>2, LevelFacts DEF OnLevel
  <2>2. \A y \in Kids(next, i) : y \in Nat /\ y \in OnLevel(next, i) /\ y # NoNode
    BY <1>3, LevelFacts
  <2>3. i \in 1..Len(next[x]) /\ x \in OnLevel(next, i)
    <3>1. Len(next[x]) = Len(new[x]) /\ Len(next[x]) \in Nat
      BY <1>2, <1>3, <2>1, ShapeFacts
    <3> QED
      BY <2>1, <3>1 DEF OnLevel
  <2>4. CASE i <= h /\ u[i] = x
    <3>1. i \in 1..h
      BY <2>1, <2>4
    <3>2. PICK n : n = next[e][i]
      OBVIOUS
    <3>3. new[x][i] = n
      BY <1>2, <2>1, <2>3, <2>4, <3>2
    <3>4. x < e /\ \A z \in OnLevel(next, i) : z < e => z <= x
      BY <1>3, <2>4, <3>1, UpdatedFacts
    <3>5. e \in OnLevel(next, i)
      BY <1>4, <2>2, <2>4
    <3>6. NextOn(next, i, e, n)
      BY <3>2, <3>5 DEF WellLinked, Linked
    <3>7. ASSUME NEW y \in Kids(new, i), y <= e
          PROVE  y <= x
      <4>1. y \in Kids(next, i) /\ y # e /\ y \in Nat /\ y \in OnLevel(next, i)
        BY <1>4, <2>2
      <4>2. y < e
        BY <1>3, <3>7, <4>1
      <4> QED
        BY <3>4, <4>1, <4>2
    <3>8. CASE n = NoNode
      <4>1. \A y \in Kids(new, i) : y <= e
        BY <1>4, <2>2, <3>6, <3>8 DEF NextOn
      <4> QED
        BY <3>3, <3>7, <3>8, <4>1 DEF NextOn
    <3>9. CASE n # NoNode
      <4>1. n \in Kids(next, i) /\ e < n /\ \A y \in Kids(next, i) : y <= e \/ n <= y
        BY <3>6, <3>9 DEF NextOn
      <4>2. n # e /\ x < n
        BY <1>3, <2>1, <2>2, <3>4, <4>1
      <4>3. n \in Kids(new, i)
        BY <1>4, <4>1, <4>2
      <4>4. \A y \in Kids(new, i) : y <= x \/ n <= y
        BY <1>4, <3>7, <4>1
      <4> QED
        BY <3>3, <4>2, <4>3, <4>4 DEF NextOn
    <3> QED
      BY <3>8, <3>9
  <2>5. CASE ~(i <= h /\ u[i] = x)
    <3>1. PICK n : n = next[x][i]
      OBVIOUS
    <3>2. new[x][i] = n
      BY <1>2, <2>1, <2>3, <2>5, <3>1
    <3>3. NextOn(next, i, x, n)
      BY <2>3, <3>1 DEF WellLinked, Linked
    <3>4. n # e
      <4> SUFFICES ASSUME n = e
                   PROVE  FALSE
        OBVIOUS
      <4>0. e # NoNode
        BY SkipConstants
      <4>1. n \in Kids(next, i) /\ x < e /\ \A y \in Kids(next, i) : y <= x \/ e <= y
        BY <3>3, <4>0 DEF NextOn
      <4>2. i \in 1..h
        BY <1>4, <2>1, <4>1
      <4>3. PICK p : p = u[i]
        OBVIOUS
      <4>4. /\ p \in Nat /\ p < e /\ p \in OnLevel(next, i) /\ x <= p
        BY <1>3, <2>3, <4>1, <4>2, <4>3, UpdatedFacts
      <4>5. p # x
        BY <2>1, <2>5, <4>2, <4>3
      <4>6. p # HeadNode
        BY <2>1, <4>4, <4>5, SkipConstants
      <4>7. p \in Kids(next, i)
        BY <1>3, <4>4, <4>6, LevelFacts
      <4> QED
        BY <1>3, <2>1, <4>1, <4>4, <4>5, <4>7
    <3>5. CASE n = NoNode
      BY <1>4, <3>2, <3>3, <3>5, <2>2 DEF NextOn
    <3>6. CASE n # NoNode
      BY <1>4, <3>2, <3>3, <3>4, <3>6 DEF NextOn
    <3> QED
      BY <3>5, <3>6
  <2> QED
    BY <2>4, <2>5
<1>6. WellLinked(new)
  BY <1>2, <1>5 DEF WellLinked, Linked
<1>7. ASSUME NEW i \in 1..TopHeight
      PROVE  Kids(new, i) = Kids(next, i) \ {e}
  BY <1>4
<1> QED
  BY <1>1, <1>2, <1>3, <1>6, <1>7

(* The head grows to height h: its new levels are empty. *)
Grown(next, h) ==
  IF h <= Len(next[HeadNode]) THEN next
  ELSE [next EXCEPT ![HeadNode] =
          next[HeadNode] \o [i \in 1..(h - Len(next[HeadNode])) |-> NoNode]]

(* Growing the head adds links that lead nowhere, so no level changes. *)
LEMMA GrownLinks ==
  ASSUME NEW next, WellLinked(next), NEW h \in 1..TopHeight
  PROVE  /\ WellLinked(Grown(next, h))
         /\ \A i \in 1..TopHeight : Kids(Grown(next, h), i) = Kids(next, i)
         /\ h <= Len(Grown(next, h)[HeadNode])
         /\ Len(next[HeadNode]) <= Len(Grown(next, h)[HeadNode])
         /\ \A x \in SkipElems : Grown(next, h)[x] = next[x]
<1>0. /\ Shaped(next) /\ HeadNode \in Nodes /\ h \in Nat /\ h <= TopHeight
      /\ Len(next[HeadNode]) \in Nat
  BY SkipConstants, ShapeFacts DEF WellLinked
<1>1. CASE h <= Len(next[HeadNode])
  BY <1>0, <1>1 DEF Grown
<1>2. CASE ~(h <= Len(next[HeadNode]))
  <2> DEFINE T == SkipElems \union {NoNode}
  <2>1. PICK new, old, k, more :
           /\ new = Grown(next, h) /\ old = next[HeadNode] /\ k = Len(old)
           /\ more = [i \in 1..(h - k) |-> NoNode]
    OBVIOUS
  <2>2. old \in Seq(T) /\ k \in Nat /\ k < h /\ h - k \in Nat
    BY <1>0, <1>2, <2>1 DEF Shaped
  <2>3. more \in Seq(T) /\ Len(more) = h - k /\ \A i \in 1..(h - k) : more[i] = NoNode
    <3>1. more \in [1..(h - k) -> T]
      BY <2>1
    <3>2. more \in Seq(T) /\ Len(more) = h - k
      <4> HIDE DEF T
      <4> QED
        BY <2>2, <3>1, SeqMade, Zenon
    <3> QED
      BY <2>1, <3>2
  <2>4. PICK all : all = old \o more
    OBVIOUS
  <2>5. /\ all \in Seq(T) /\ Len(all) = h
        /\ \A i \in 1..h : all[i] = IF i <= k THEN old[i] ELSE NoNode
    <3>1. /\ all \in Seq(T) /\ Len(all) = k + (h - k)
          /\ \A i \in 1..(k + (h - k)) : all[i] = IF i <= k THEN old[i] ELSE more[i - k]
      <4> HIDE DEF T
      <4> QED
        BY <2>1, <2>2, <2>3, <2>4, ConcatProperties
    <3>2. k + (h - k) = h /\ \A i \in 1..h : ~(i <= k) => i - k \in 1..(h - k)
      BY <1>0, <2>2
    <3> QED
      BY <2>3, <3>1, <3>2
  <2>6. new = [next EXCEPT ![HeadNode] = all]
    BY <1>2, <2>1, <2>4 DEF Grown
  <2>7. /\ new \in [Nodes -> Seq(T)] /\ new[HeadNode] = all
        /\ \A x \in Nodes : x # HeadNode => new[x] = next[x]
    <3> HIDE DEF T
    <3>1. next \in [Nodes -> Seq(T)]
      BY <1>0 DEF Shaped, T
    <3> QED
      BY <1>0, <2>5, <2>6, <3>1
  <2>8. Shaped(new)
    <3>1. ASSUME NEW x \in Nodes
          PROVE  Len(new[x]) <= h
      <4>1. Len(next[x]) \in Nat /\ Len(next[x]) <= k
        BY <1>0, <2>1, ShapeFacts
      <4> QED
        BY <1>0, <2>2, <2>5, <2>7, <4>1
    <3> QED
      BY <1>0, <2>5, <2>7, <3>1 DEF Shaped
  <2>9. \A x \in SkipElems : new[x] = next[x]
    BY <2>7, SkipConstants
  <2>10. \A i \in 1..TopHeight : Kids(new, i) = Kids(next, i)
    BY <2>9 DEF Kids
  <2>11. ASSUME NEW i \in 1..TopHeight, NEW x \in OnLevel(new, i)
         PROVE  NextOn(new, i, x, new[x][i])
    <3>1. x \in Nodes /\ i \in Nat /\ i >= 1 /\ i <= Len(new[x])
      BY <2>8, LevelFacts DEF OnLevel
    <3>2. CASE x # HeadNode \/ i <= k
      <4>1. x \in OnLevel(next, i) /\ new[x][i] = next[x][i]
        BY <1>0, <2>1, <2>2, <2>5, <2>7, <3>1, <3>2 DEF OnLevel
      <4>2. NextOn(next, i, x, next[x][i])
        BY <4>1 DEF WellLinked, Linked
      <4> QED
        BY <2>10, <4>1, <4>2 DEF NextOn
    <3>3. CASE x = HeadNode /\ ~(i <= k)
      <4>1. new[x][i] = NoNode
        BY <2>5, <2>7, <3>1, <3>3
      <4>2. ASSUME NEW y \in Kids(next, i)
            PROVE  FALSE
        <5>1. Len(next[y]) \in Nat /\ Len(next[y]) <= k /\ i <= Len(next[y])
          BY <1>0, <2>1, LevelFacts, ShapeFacts DEF OnLevel
        <5> QED
          BY <2>2, <3>1, <3>3, <5>1
      <4> QED
        BY <2>10, <4>1, <4>2 DEF NextOn
    <3> QED
      BY <3>2, <3>3
  <2>12. WellLinked(new)
    BY <2>8, <2>11 DEF WellLinked, Linked
  <2>13. h <= Len(new[HeadNode]) /\ k <= Len(new[HeadNode])
    BY <1>0, <2>2, <2>5, <2>7
  <2> QED
    BY <2>1, <2>9, <2>10, <2>12, <2>13
<1> QED
  BY <1>1, <1>2

-----------------------------------------------------------------------------
(* What a level holds. *)

(* from gives the elements of level i from a node on. *)
Follows(from, i) ==
  from = [x \in (OnLevel(succ, i) \ {HeadNode}) \union {NoNode} |->
            IF x = NoNode THEN {} ELSE {x} \union from[succ[x][i]]]

(* Level is what such a function gives for the first node, if there is one. *)
LEMMA LevelFollows ==
  ASSUME NEW i \in Nat, Len(succ[HeadNode]) \in Nat, i <= Len(succ[HeadNode]),
         NEW g, Follows(g, i)
  PROVE  \E from : Follows(from, i) /\ Level(i) = from[succ[HeadNode][i]]
<1> DEFINE f == CHOOSE from : Follows(from, i)
<1>1. Follows(f, i)
  BY Zenon
<1>2. ~(i > Len(succ[HeadNode]))
  OBVIOUS
<1>3. Level(i) = f[succ[HeadNode][i]]
  BY <1>2 DEF Level, Follows
<1> QED
  BY <1>1, <1>3

(* The links lead from the head through all elements of the level. *)
LEMMA LevelIsKids ==
  ASSUME WellLinked(succ), NEW i \in 1..TopHeight
  PROVE  Level(i) = Kids(succ, i)
<1> DEFINE K == Kids(succ, i)
           D == (OnLevel(succ, i) \ {HeadNode}) \union {NoNode}
           Beyond(x) == IF x = NoNode THEN {} ELSE {y \in K : x <= y}
<1>0. Shaped(succ) /\ Linked(succ, i)
  BY DEF WellLinked
<1>1. /\ \A x \in K : x \in SkipElems /\ x \in Nat /\ x > 0 /\ x # NoNode /\ x \in OnLevel(succ, i) /\ x # HeadNode
      /\ D = K \union {NoNode}
  BY <1>0, LevelFacts
<1> HIDE DEF D
<1>2. CASE i <= Len(succ[HeadNode])
  <2>1. ASSUME NEW x \in K
        PROVE  succ[x][i] \in D /\ Beyond(x) = {x} \union Beyond(succ[x][i])
    <3>1. PICK n : n = succ[x][i]
      OBVIOUS
    <3>2. NextOn(succ, i, x, n)
      BY <1>0, <1>1, <3>1 DEF Linked
    <3>3. CASE n = NoNode
      <4>1. \A y \in K : y <= x
        BY <1>1, <3>2, <3>3 DEF NextOn
      <4>2. \A y \in K : x <= y <=> y = x
        BY <1>1, <4>1
      <4> QED
        BY <1>1, <3>1, <3>3, <4>2
    <3>4. CASE n # NoNode
      <4>1. n \in K /\ x < n /\ \A y \in K : y <= x \/ n <= y
        BY <3>2, <3>4 DEF NextOn
      <4>2. \A y \in K : x <= y <=> y = x \/ n <= y
        BY <1>1, <4>1
      <4> QED
        BY <1>1, <3>1, <3>4, <4>1, <4>2
    <3> QED
      BY <3>3, <3>4
  <2>2. \E g : Follows(g, i)
    <3> DEFINE g == [x \in D |-> Beyond(x)]
    <3>1. ASSUME NEW x \in D
          PROVE  g[x] = IF x = NoNode THEN {} ELSE {x} \union g[succ[x][i]]
      BY <1>1, <2>1
    <3>2. g = [x \in D |-> IF x = NoNode THEN {} ELSE {x} \union g[succ[x][i]]]
      <4> HIDE DEF K, Beyond
      <4> QED
        BY <3>1
    <3> HIDE DEF g
    <3> QED
      BY <3>2 DEF Follows, D
  <2>3. PICK from : Follows(from, i) /\ Level(i) = from[succ[HeadNode][i]]
    <3>1. i \in Nat /\ Len(succ[HeadNode]) \in Nat
      BY <1>0, LevelFacts, ShapeFacts, SkipConstants
    <3> QED
      BY <1>2, <2>2, <3>1, LevelFollows
  <2>4. /\ from[NoNode] = {}
        /\ \A x \in K : from[x] = {x} \union from[succ[x][i]]
    <3>1. from = [x \in D |-> IF x = NoNode THEN {} ELSE {x} \union from[succ[x][i]]]
      BY <2>3 DEF Follows, D
    <3>2. \A x \in D : from[x] = IF x = NoNode THEN {} ELSE {x} \union from[succ[x][i]]
      <4> HIDE DEF K
      <4> QED
        BY <3>1
    <3> QED
      BY <1>1, <3>2
  <2> DEFINE Bad == {x \in K : from[x] # Beyond(x)}
  <2>5. Bad = {}
    <3> SUFFICES ASSUME Bad # {}
                 PROVE  FALSE
      OBVIOUS
    <3>1. Bad \in SUBSET Nat /\ Bad \subseteq SkipElems
      BY <1>1
    <3>2. PICK b \in Bad : \A x \in Bad : x <= b
      <4> HIDE DEF Bad
      <4>1. IsFiniteSet(Bad)
        BY <3>1, SkipConstants, FS_Subset
      <4> QED
        BY <3>1, <4>1, GreatestOf
    <3>3. PICK n : n = succ[b][i]
      OBVIOUS
    <3>4. b \in K /\ from[b] # Beyond(b)
      OBVIOUS
    <3>5. /\ n \in D /\ Beyond(b) = {b} \union Beyond(n) /\ from[b] = {b} \union from[n]
      BY <2>1, <2>4, <3>3, <3>4
    <3>6. from[n] # Beyond(n)
      BY <3>4, <3>5
    <3>7. n # NoNode
      BY <2>4, <3>6
    <3>8. n \in Bad
      BY <1>1, <3>5, <3>6, <3>7
    <3>9. NextOn(succ, i, b, n)
      BY <1>0, <1>1, <3>3, <3>4 DEF Linked
    <3>10. b < n
      BY <3>7, <3>9 DEF NextOn
    <3> QED
      BY <1>1, <3>2, <3>4, <3>8, <3>10
  <2>6. PICK n : n = succ[HeadNode][i]
    OBVIOUS
  <2>7. NextOn(succ, i, HeadNode, n)
    BY <1>0, <1>2, <2>6, LevelFacts DEF Linked
  <2>8. \A y \in K : ~(y <= HeadNode)
    BY <1>1, SkipConstants
  <2>9. CASE n = NoNode
    <3>1. K = {}
      BY <1>1, <2>7, <2>8, <2>9 DEF NextOn
    <3> QED
      BY <2>3, <2>4, <2>6, <2>9, <3>1
  <2>10. CASE n # NoNode
    <3>1. n \in K /\ \A y \in K : n <= y
      BY <2>7, <2>8, <2>10 DEF NextOn
    <3>2. Beyond(n) = K
      BY <2>10, <3>1
    <3> QED
      BY <2>3, <2>5, <2>6, <3>1, <3>2
  <2> QED
    BY <2>9, <2>10
<1>3. CASE ~(i <= Len(succ[HeadNode]))
  <2>1. ASSUME NEW y \in K
        PROVE  FALSE
    <3>1. /\ Len(succ[y]) \in Nat /\ Len(succ[y]) <= Len(succ[HeadNode]) /\ i <= Len(succ[y])
          /\ Len(succ[HeadNode]) \in Nat /\ i \in Nat
      BY <1>0, LevelFacts, ShapeFacts, SkipConstants DEF OnLevel
    <3> QED
      BY <1>3, <3>1
  <2> QED
    BY <1>3, <2>1 DEF Level
<1> QED
  BY <1>2, <1>3

-----------------------------------------------------------------------------
(* The inductive invariant, and the two properties. *)

(* The inductive invariant: maxHeight is above every node, len counts them. *)
SkipInv == /\ WellLinked(succ)
           /\ maxHeight \in Nat /\ maxHeight <= Len(succ[HeadNode])
           /\ \A i \in 1..TopHeight : maxHeight < i => Kids(succ, i) = {}
           /\ len = Cardinality(Kids(succ, 1))
           /\ found \in BOOLEAN

(* The empty list satisfies it. *)
LEMMA SkipInitInv == SkipInit => SkipInv /\ Kids(succ, 1) = {}
<1> SUFFICES ASSUME SkipInit
             PROVE  SkipInv /\ Kids(succ, 1) = {}
  OBVIOUS
<1>1. succ = [x \in Nodes |-> <<>>] /\ maxHeight = 0 /\ len = 0 /\ found = FALSE
  BY DEF SkipInit
<1>2. \A x \in Nodes : succ[x] = <<>> /\ Len(succ[x]) = 0
  BY <1>1
<1>3. Shaped(succ)
  <2>1. \A x \in Nodes : <<>> \in Seq(SkipElems \union {NoNode})
    BY EmptySeq
  <2>2. succ \in [Nodes -> Seq(SkipElems \union {NoNode})]
    BY <1>1, <2>1
  <2> QED
    BY <1>2, <2>2, SkipConstants DEF Shaped
<1>4. \A i \in 1..TopHeight : OnLevel(succ, i) = {} /\ Kids(succ, i) = {}
  <2>1. \A i \in 1..TopHeight : ~(i <= 0)
    BY SkipConstants
  <2> QED
    BY <1>2, <2>1, SkipConstants DEF OnLevel, Kids
<1>5. 1 \in 1..TopHeight
  BY SkipConstants
<1>6. WellLinked(succ)
  BY <1>3, <1>4 DEF WellLinked, Linked
<1>7. len = Cardinality(Kids(succ, 1))
  BY <1>1, <1>4, <1>5, FS_EmptySet
<1> QED
  BY <1>1, <1>2, <1>4, <1>5, <1>6, <1>7, SkipConstants DEF SkipInv

(* What the threads can see of a step: the set on the bottom level and     *)
(* what is found out about it.                                             *)
Inserts(e) == Kids(succ', 1) = Kids(succ, 1) \union {e} /\ found' = (e \notin Kids(succ, 1))
Removes(e) == Kids(succ', 1) = Kids(succ, 1) \ {e} /\ found' = found
Searches(e) == Kids(succ', 1) = Kids(succ, 1) /\ found' = (e \in Kids(succ, 1))

(* What the steps use of it. *)
LEMMA InvFacts ==
  ASSUME SkipInv
  PROVE  /\ WellLinked(succ) /\ Shaped(succ) /\ 1 \in 1..TopHeight
         /\ Len(succ[HeadNode]) \in Nat /\ Len(succ[HeadNode]) <= TopHeight /\ TopHeight \in Nat
         /\ maxHeight \in Nat /\ maxHeight <= Len(succ[HeadNode])
         /\ maxHeight = 0 => Kids(succ, 1) = {}
         /\ \A i \in Nat : IsFiniteSet(Kids(succ, i))
         /\ len = Cardinality(Kids(succ, 1)) /\ len \in Nat
<1>1. ASSUME NEW i \in Nat
      PROVE  IsFiniteSet(Kids(succ, i))
  <2>1. Kids(succ, i) \subseteq SkipElems
    BY DEF Kids
  <2> QED
    BY <2>1, SkipConstants, FS_Subset
<1>2. Cardinality(Kids(succ, 1)) \in Nat
  BY <1>1, FS_CardinalityType
<1>3. WellLinked(succ) /\ Shaped(succ) /\ 1 \in 1..TopHeight
  BY SkipConstants DEF SkipInv, WellLinked
<1> QED
  BY <1>1, <1>2, <1>3, ShapeFacts, SkipConstants DEF SkipInv

(* insert() keeps the invariant and adds its element to the set. *)
LEMMA SkipInsertStep ==
  ASSUME SkipInv, NEW e \in SkipElems, NEW h \in 1..TopHeight, SkipInsert(e, h)
  PROVE  SkipInv' /\ Inserts(e)
<1>1. PICK top, grown : /\ top = IF h > maxHeight THEN h ELSE maxHeight
                        /\ grown = Grown(succ, h)
  OBVIOUS
<1>2. /\ maxHeight' = top
      /\ succ' = IF Find(grown, top, e) THEN grown ELSE Link(grown, UpdateList(grown, top, e), e, h)
      /\ len' = IF Find(grown, top, e) THEN len ELSE len + 1
      /\ found' = ~Find(grown, top, e)
  BY <1>1 DEF SkipInsert, Grown
<1>3. /\ WellLinked(grown)
      /\ \A i \in 1..TopHeight : Kids(grown, i) = Kids(succ, i)
      /\ h <= Len(grown[HeadNode]) /\ Len(succ[HeadNode]) <= Len(grown[HeadNode])
      /\ \A x \in SkipElems : grown[x] = succ[x]
  BY <1>1, GrownLinks, InvFacts
<1>4. /\ h \in Nat /\ h >= 1 /\ h <= TopHeight /\ maxHeight \in Nat
      /\ Shaped(grown) /\ Len(grown[HeadNode]) \in Nat /\ Len(succ[HeadNode]) \in Nat
      /\ maxHeight <= Len(succ[HeadNode])
  BY <1>3, InvFacts, ShapeFacts, SkipConstants DEF WellLinked
<1>5. top \in Nat /\ top >= 1 /\ top <= Len(grown[HeadNode]) /\ h <= top /\ maxHeight <= top
  BY <1>1, <1>3, <1>4
<1>6. Find(grown, top, e) <=> e \in Kids(succ, 1)
  <2>1. top # 0
    BY <1>5
  <2>2. Find(grown, top, e) <=> e \in Kids(grown, 1)
    BY <1>3, <1>5, <2>1, FindIs
  <2> QED
    BY <1>3, <2>2, InvFacts
<1>7. \A i \in 1..TopHeight : top < i => Kids(grown, i) = {}
  BY <1>3, <1>4, <1>5 DEF SkipInv
<1>8. CASE e \in Kids(succ, 1)
  <2>1. succ' = grown /\ len' = len /\ found' = FALSE
    BY <1>2, <1>6, <1>8
  <2>2. Kids(succ', 1) = Kids(succ, 1)
    BY <1>3, <2>1, InvFacts
  <2>3. SkipInv'
    BY <1>2, <1>3, <1>5, <1>7, <2>1, <2>2, InvFacts DEF SkipInv
  <2> QED
    BY <1>8, <2>1, <2>2, <2>3 DEF Inserts
<1>9. CASE e \notin Kids(succ, 1)
  <2>1. PICK u : u = UpdateList(grown, top, e)
    OBVIOUS
  <2>2. succ' = Link(grown, u, e, h) /\ len' = len + 1 /\ found' = TRUE
    BY <1>2, <1>6, <1>9, <2>1
  <2>3. Updated(grown, u, e, h)
    <3>1. \A i \in 1..top : LastBefore(grown, i, e, u[i])
      BY <1>3, <1>5, <2>1, UpdateListIsLast
    <3>2. \A i \in 1..h : i \in 1..top /\ i <= Len(grown[HeadNode])
      BY <1>3, <1>4, <1>5
    <3> QED
      BY <3>1, <3>2 DEF Updated
  <2>4. Len(grown[e]) = 0
    <3>1. e \in Nodes /\ grown[e] = succ[e]
      BY <1>3, SkipConstants
    <3>2. Len(succ[e]) \in Nat /\ ~(1 <= Len(succ[e]))
      BY <1>9, <3>1, InvFacts, ShapeFacts DEF Kids
    <3> QED
      BY <3>1, <3>2
  <2>5. /\ WellLinked(succ')
        /\ \A i \in 1..TopHeight : Kids(succ', i) = Kids(grown, i) \union (IF i <= h THEN {e} ELSE {})
        /\ Len(succ'[HeadNode]) = Len(grown[HeadNode])
    BY <1>3, <1>4, <2>2, <2>3, <2>4, LinkLinks
  <2>6. Kids(succ', 1) = Kids(succ, 1) \union {e}
    <3>1. 1 \in 1..TopHeight /\ 1 <= h
      BY <1>4, InvFacts
    <3> QED
      BY <1>3, <2>5, <3>1
  <2>7. \A i \in 1..TopHeight : top < i => Kids(succ', i) = {}
    <3>1. \A i \in 1..TopHeight : top < i => ~(i <= h)
      BY <1>4, <1>5
    <3> QED
      BY <1>7, <2>5, <3>1
  <2>8. len' = Cardinality(Kids(succ', 1))
    <3>1. PICK K : K = Kids(succ, 1)
      OBVIOUS
    <3>2. IsFiniteSet(K) /\ e \notin K /\ len = Cardinality(K)
      BY <1>9, <3>1, InvFacts
    <3>3. Cardinality(K \union {e}) = Cardinality(K) + 1
      BY <3>2, FS_AddElement, Zenon
    <3> QED
      BY <2>2, <2>6, <3>1, <3>2, <3>3
  <2>9. SkipInv'
    BY <1>2, <1>5, <2>2, <2>5, <2>7, <2>8 DEF SkipInv
  <2> QED
    BY <1>9, <2>2, <2>6, <2>9 DEF Inserts
<1> QED
  BY <1>8, <1>9

(* remove() keeps it and takes its element out of the set. *)
LEMMA SkipRemoveStep ==
  ASSUME SkipInv, NEW e \in SkipElems, SkipRemove(e)
  PROVE  SkipInv' /\ Removes(e)
<1> DEFINE emptied == {i \in 1..Len(succ[e]) : succ'[HeadNode][i] = NoNode}
<1>1. PICK u, h : u = UpdateList(succ, maxHeight, e) /\ h = Len(succ[e])
  OBVIOUS
<1>2. /\ Find(succ, maxHeight, e) /\ succ' = Unlink(succ, u, e)
      /\ maxHeight' = maxHeight - Cardinality(emptied)
      /\ len' = len - 1 /\ found' = found
  BY <1>1 DEF SkipRemove
<1>3. e \in Kids(succ, 1)
  BY <1>2, FindIs, InvFacts
<1>4. e \in Nodes /\ HeadNode \in Nodes /\ h \in Nat /\ 1 <= h /\ h <= TopHeight
  BY <1>1, <1>3, SkipConstants, ShapeFacts, InvFacts DEF Kids
<1>5. h <= maxHeight
  <2> SUFFICES ASSUME ~(h <= maxHeight)
               PROVE  FALSE
    OBVIOUS
  <2>1. h \in 1..TopHeight /\ maxHeight < h
    BY <1>4, InvFacts
  <2>2. e \in Kids(succ, h)
    BY <1>1, <1>4 DEF Kids
  <2> QED
    BY <2>1, <2>2 DEF SkipInv
<1>6. Updated(succ, u, e, h)
  <2>1. \A i \in 1..maxHeight : LastBefore(succ, i, e, u[i])
    BY <1>1, InvFacts, UpdateListIsLast
  <2>2. \A i \in 1..h : i \in 1..maxHeight /\ i <= Len(succ[HeadNode])
    BY <1>4, <1>5, InvFacts
  <2> QED
    BY <2>1, <2>2 DEF Updated
<1>7. /\ WellLinked(succ')
      /\ \A i \in 1..TopHeight : Kids(succ', i) = Kids(succ, i) \ {e}
      /\ Len(succ'[HeadNode]) = Len(succ[HeadNode])
  BY <1>1, <1>2, <1>6, InvFacts, UnlinkLinks
<1>8. Kids(succ', 1) = Kids(succ, 1) \ {e}
  BY <1>7, InvFacts
<1>9. len' = Cardinality(Kids(succ', 1))
  BY <1>2, <1>3, <1>8, InvFacts, FS_RemoveElement
<1>10. /\ IsFiniteSet(emptied) /\ Cardinality(emptied) \in Nat /\ Cardinality(emptied) <= h
       /\ \A i \in 1..h : \A k \in 1..h :
            succ'[HeadNode][i] # NoNode /\ (\A j \in emptied : i < j) =>
               Cardinality(emptied) <= h - i
  <2>1. /\ IsFiniteSet(1..h) /\ Cardinality(1..h) = h
    BY <1>4, FS_Interval
  <2>2. emptied \subseteq 1..h
    BY <1>1
  <2>3. IsFiniteSet(emptied) /\ Cardinality(emptied) \in Nat /\ Cardinality(emptied) <= h
    <3> HIDE DEF emptied
    <3> QED
      BY <2>1, <2>2, FS_Subset, FS_CardinalityType
  <2>4. ASSUME NEW i \in 1..h, \A j \in emptied : i < j
        PROVE  Cardinality(emptied) <= h - i
    <3> HIDE DEF emptied
    <3>1. emptied \subseteq (i + 1)..h
      BY <2>2, <2>4, <1>4
    <3>2. i \in Int /\ i <= h /\ i + 1 \in Int /\ h \in Int
      BY <1>4
    <3>3. IsFiniteSet((i + 1)..h) /\ Cardinality((i + 1)..h) = IF i + 1 > h THEN 0 ELSE h - (i + 1) + 1
      BY <3>2, FS_Interval
    <3>4. Cardinality((i + 1)..h) = h - i
      BY <3>2, <3>3
    <3> QED
      BY <3>1, <3>3, <3>4, FS_Subset
  <2> QED
    BY <2>3, <2>4
<1>11. maxHeight' \in Nat /\ maxHeight' <= maxHeight
  BY <1>2, <1>4, <1>5, <1>10, InvFacts
<1>12. ASSUME NEW i \in 1..TopHeight, NEW y \in Kids(succ', i)
       PROVE  i <= maxHeight'
  <2>1. i \in Nat /\ i >= 1 /\ TopHeight \in Nat
    BY SkipConstants
  <2>2. y \in Kids(succ, i) /\ y # e
    BY <1>7
  <2>3. i <= maxHeight
    BY <2>1, <2>2, InvFacts DEF SkipInv
  <2>4. ASSUME NEW j \in 1..h, j <= i
        PROVE  succ'[HeadNode][j] # NoNode
    <3>1. j \in 1..TopHeight /\ j \in Nat
      BY <1>4, InvFacts
    <3>2. Len(succ'[y]) \in Nat /\ i <= Len(succ'[y]) /\ y \in SkipElems
      BY <1>7, SkipConstants, ShapeFacts DEF Kids, WellLinked
    <3>3. y \in Kids(succ', j)
      BY <2>1, <2>4, <3>1, <3>2 DEF Kids
    <3>4. HeadNode \in OnLevel(succ', j)
      <4>1. j <= Len(succ'[HeadNode])
        BY <1>4, <1>5, <1>7, <3>1, InvFacts
      <4> QED
        BY <1>4, <4>1 DEF OnLevel
    <3>5. NextOn(succ', j, HeadNode, succ'[HeadNode][j])
      BY <1>7, <3>1, <3>4 DEF WellLinked, Linked
    <3>6. ~(y <= HeadNode)
      BY <3>2, SkipConstants
    <3> QED
      BY <3>3, <3>5, <3>6, SkipConstants DEF NextOn, Kids
  <2>5. CASE i <= h
    <3>1. i \in 1..h /\ \A j \in emptied : i < j
      BY <1>1, <1>4, <2>1, <2>4, <2>5
    <3>2. Cardinality(emptied) <= h - i
      <4>1. succ'[HeadNode][i] # NoNode
        BY <2>1, <2>4, <3>1
      <4> HIDE DEF emptied
      <4> QED
        BY <1>10, <3>1, <4>1
    <3> HIDE DEF emptied
    <3> QED
      BY <1>2, <1>4, <1>5, <1>10, <2>1, <3>2, InvFacts
  <2>6. CASE ~(i <= h)
    <3>1. emptied = {}
      BY <1>1, <1>4, <2>1, <2>4, <2>6
    <3>2. Cardinality(emptied) = 0
      BY <3>1, FS_EmptySet
    <3> HIDE DEF emptied
    <3> QED
      BY <1>2, <2>3, <3>2, InvFacts
  <2> QED
    BY <2>5, <2>6
<1>13. \A i \in 1..TopHeight : maxHeight' < i => Kids(succ', i) = {}
  <2>1. \A i \in 1..TopHeight : i \in Nat
    BY SkipConstants
  <2> QED
    BY <1>11, <1>12, <2>1
<1>14. SkipInv'
  <2>1. maxHeight' <= Len(succ'[HeadNode])
    BY <1>7, <1>11, InvFacts
  <2> QED
    BY <1>2, <1>7, <1>9, <1>11, <1>13, <2>1 DEF SkipInv
<1> QED
  BY <1>2, <1>8, <1>14 DEF Removes

(* find() changes nothing and answers for the set. *)
LEMMA SkipFindStep ==
  ASSUME SkipInv, NEW e \in SkipElems, SkipFind(e)
  PROVE  SkipInv' /\ Searches(e)
<1>1. UNCHANGED <<succ, maxHeight, len>> /\ found' = Find(succ, maxHeight, e)
  BY DEF SkipFind
<1>2. Find(succ, maxHeight, e) <=> e \in Kids(succ, 1)
  BY FindIs, InvFacts
<1>3. found' = (e \in Kids(succ, 1))
  <2>1. Find(succ, maxHeight, e) \in BOOLEAN
    BY DEF Find
  <2> QED
    BY <1>1, <1>2, <2>1
<1> QED
  BY <1>1, <1>3 DEF SkipInv, Searches

(* So every step keeps the invariant and is an operation on the set. *)
LEMMA SkipStep ==
  ASSUME SkipInv, [SkipNext]_skipVars
  PROVE  /\ SkipInv'
         /\ \/ \E e \in SkipElems : Inserts(e) \/ Removes(e) \/ Searches(e)
            \/ Kids(succ', 1) = Kids(succ, 1) /\ found' = found
<1>1. CASE UNCHANGED skipVars
  BY <1>1 DEF skipVars, SkipInv
<1>2. CASE SkipNext
  <2>1. PICK e \in SkipElems : \/ \E h \in 1..TopHeight : SkipInsert(e, h)
                               \/ SkipRemove(e)
                               \/ SkipFind(e)
    BY <1>2 DEF SkipNext
  <2> QED
    BY <2>1, SkipInsertStep, SkipRemoveStep, SkipFindStep
<1> QED
  BY <1>1, <1>2

(* SkipInv holds in every reachable state. *)
LEMMA SkipAlways == SkipSpec => []SkipInv
<1>1. SkipInit => SkipInv
  BY SkipInitInv
<1>2. SkipInv /\ [SkipNext]_skipVars => SkipInv'
  BY SkipStep
<1> QED
  BY <1>1, <1>2, PTL DEF SkipSpec

(* The links, the height and the count keep their types: len never leaves *)
(* the number of elements there are.                                      *)
THEOREM SkipListTypeCorrect == SkipSpec => []SkipTypeOK
<1>1. SkipInv => SkipTypeOK
  <2> SUFFICES ASSUME SkipInv
               PROVE  SkipTypeOK
    OBVIOUS
  <2>1. maxHeight \in 0..TopHeight
    BY InvFacts
  <2>2. len \in 0..Cardinality(SkipElems)
    <3>1. Kids(succ, 1) \subseteq SkipElems
      BY DEF Kids
    <3>2. Cardinality(Kids(succ, 1)) <= Cardinality(SkipElems) /\ Cardinality(SkipElems) \in Nat
      BY <3>1, SkipConstants, FS_Subset, FS_CardinalityType
    <3> QED
      BY <3>2, InvFacts
  <2> QED
    BY <2>1, <2>2 DEF SkipInv, WellLinked, Shaped, SkipTypeOK
<1> QED
  BY <1>1, SkipAlways, PTL

(* After any number of insertions and removals at any heights each level  *)
(* is sorted and part of the one below, none has nodes above maxHeight,   *)
(* and len counts the nodes.                                              *)
THEOREM SkipListLevelsAgree == SkipSpec => []LevelsAgree
<1>1. SkipInv => LevelsAgree
  <2> SUFFICES ASSUME SkipInv
               PROVE  LevelsAgree
    OBVIOUS
  <2>1. \A i \in 1..TopHeight : Level(i) = Kids(succ, i)
    BY LevelIsKids, InvFacts
  <2>2. len = Cardinality(Level(1))
    BY <2>1, InvFacts
  <2>3. ASSUME NEW x \in Nodes, NEW i \in 1..TopHeight, i <= Len(succ[x]), succ[x][i] # NoNode
        PROVE  succ[x][i] > x
    <3>1. NextOn(succ, i, x, succ[x][i])
      BY <2>3, InvFacts DEF WellLinked, Linked, OnLevel
    <3>2. succ[x][i] \in Kids(succ, i) /\ x < succ[x][i]
      BY <2>3, <3>1 DEF NextOn
    <3>3. succ[x][i] \in Nat /\ x \in Nat
      BY <3>2, InvFacts, LevelFacts, SkipConstants
    <3> QED
      BY <3>2, <3>3
  <2>4. ASSUME NEW i \in 1..TopHeight
        PROVE  Level(i) = {x \in SkipElems : Len(succ[x]) >= i}
    <3>1. \A x \in SkipElems : Len(succ[x]) \in Nat /\ (Len(succ[x]) >= i <=> i <= Len(succ[x]))
      BY InvFacts, SkipConstants, ShapeFacts
    <3> QED
      BY <2>1, <3>1 DEF Kids
  <2>5. \A i \in (maxHeight + 1)..TopHeight : Level(i) = {}
    <3>1. \A i \in (maxHeight + 1)..TopHeight : i \in 1..TopHeight /\ maxHeight < i
      BY InvFacts
    <3> QED
      BY <2>1, <3>1 DEF SkipInv
  <2> QED
    BY <2>2, <2>3, <2>4, <2>5 DEF LevelsAgree
<1> QED
  BY <1>1, SkipAlways, PTL

(* The set that the threads see is the bottom level. *)
LEMMA LevelOne == SkipInv => Level(1) = Kids(succ, 1)
<1> SUFFICES ASSUME SkipInv
             PROVE  Level(1) = Kids(succ, 1)
  OBVIOUS
<1> QED
  BY LevelIsKids, InvFacts

(* The list is a set to the threads: an insertion adds its element and    *)
(* says whether it was new, a removal takes it out, and a search answers  *)
(* whether it is there.                                                   *)
THEOREM SkipListImplementsSet == SkipSpec => SkipListIsSet
<1>0. SkipInv' => Level(1)' = Kids(succ', 1)
  <2>1. (SkipInv => Level(1) = Kids(succ, 1))'
    BY LevelOne, PTL
  <2> QED
    BY <2>1
<1>1. SkipInit => SharedSet!Init
  <2> SUFFICES ASSUME SkipInit
               PROVE  SharedSet!Init
    OBVIOUS
  <2>1. Level(1) = Kids(succ, 1) /\ Kids(succ, 1) = {}
    BY SkipInitInv, LevelIsKids, InvFacts
  <2> QED
    BY <2>1 DEF SharedSet!Init, SkipInit
<1>2. SkipInv /\ [SkipNext]_skipVars => [SharedSet!Next]_<<Level(1), found>>
  <2> SUFFICES ASSUME SkipInv, [SkipNext]_skipVars
               PROVE  [SharedSet!Next]_<<Level(1), found>>
    OBVIOUS
  <2>1. SkipInv'
    BY SkipStep
  <2>2. Level(1) = Kids(succ, 1)
    BY LevelIsKids, InvFacts
  <2>3. Level(1)' = Kids(succ', 1)
    BY <1>0, <2>1
  <2>4. \/ \E e \in SkipElems : Inserts(e) \/ Removes(e) \/ Searches(e)
        \/ Kids(succ', 1) = Kids(succ, 1) /\ found' = found
    BY SkipStep
  <2> QED
    BY <2>2, <2>3, <2>4
    DEF SharedSet!Next, SharedSet!Insert, SharedSet!Remove, SharedSet!Contains,
        Inserts, Removes, Searches
<1> QED
  BY <1>1, <1>2, SkipAlways, PTL DEF SkipSpec, SkipListIsSet, SharedSet!Spec
=============================================================================
