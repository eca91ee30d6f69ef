--------------------------- MODULE ProgramsProofs ---------------------------
(***************************************************************************)
(* Proofs about four of the benchmark programs, for all sizes that their   *)
(* constants may have: Worms, Primes, BenchLib and Richards.  Each section *)
(* states the inductive invariant of its program, shows that the program   *)
(* starts in it and that every step keeps it, and ends with the theorems.  *)
(***************************************************************************)
EXTENDS Worms, Primes, BenchLib, Richards, DataLemmas, FiniteSetTheorems,
        SequenceTheorems, TLAPS

(* Multiplication and division by a constant that is not known. *)
LEMMA DivisionFacts ==
  ASSUME NEW n \in Int, NEW d \in Nat \ {0}
  PROVE  /\ n \div d \in Int
         /\ (n % d) \in 0..(d - 1)
         /\ n = d * (n \div d) + (n % d)
OBVIOUS

LEMMA DivisionUnique ==
  ASSUME NEW d \in Nat \ {0}, NEW q \in Int, NEW r \in 0..(d - 1)
  PROVE  (d * q + r) \div d = q /\ ((d * q + r) % d) = r
OBVIOUS

LEMMA TimesMonotone ==
  ASSUME NEW a \in Int, NEW b \in Int, NEW d \in Nat, a <= b
  PROVE  d * a <= d * b
OBVIOUS

(* What a get does to a queue: the items behind the first one move up.     *)
LEMMA TailFacts ==
  ASSUME NEW S, NEW s \in Seq(S), s # <<>>
  PROVE  /\ Tail(s) \in Seq(S) /\ s[1] \in S /\ 1 \in DOMAIN s
         /\ Len(Tail(s)) = Len(s) - 1
         /\ \A i \in DOMAIN Tail(s) : /\ i \in Nat /\ i >= 1
                                      /\ i + 1 \in DOMAIN s /\ Tail(s)[i] = s[i + 1]
         /\ \A i \in DOMAIN s : i \in Nat /\ (i # 1 => i - 1 \in DOMAIN Tail(s))
<1>1. /\ Tail(s) \in Seq(S) /\ Len(Tail(s)) = Len(s) - 1
      /\ \A i \in 1..Len(Tail(s)) : Tail(s)[i] = s[i + 1]
  BY HeadTailProperties
<1>2. /\ Len(s) \in Nat \ {0} /\ DOMAIN s = 1..Len(s) /\ \A i \in 1..Len(s) : s[i] \in S
  BY EmptySeq, LenProperties
<1>3. DOMAIN Tail(s) = 1..(Len(s) - 1)
  BY <1>1, LenProperties
<1> QED BY <1>1, <1>2, <1>3

(* And a put: the new item is the last. *)
LEMMA AppendFacts ==
  ASSUME NEW S, NEW s \in Seq(S), NEW e \in S
  PROVE  /\ Append(s, e) \in Seq(S)
         /\ \A i \in DOMAIN Append(s, e) :
              \/ i \in DOMAIN s /\ Append(s, e)[i] = s[i]
              \/ i = Len(s) + 1 /\ Append(s, e)[i] = e
         /\ \A i \in DOMAIN s : i \in DOMAIN Append(s, e) /\ Append(s, e)[i] = s[i]
         /\ Len(s) + 1 \in DOMAIN Append(s, e) /\ Append(s, e)[Len(s) + 1] = e
OBVIOUS

-----------------------------------------------------------------------------
(* Worms: the invariant joins the types, the agreement of grid and bodies  *)
(* and the shape of the bodies.  A worm moves to a free cell, and it is    *)
(* because the grid agrees with all the bodies that free means empty.      *)

(* A worm that runs has a body. *)
StartedInv == started => \A w \in Worms : body[w] # <<>>

WormsInv == TypeOK /\ GridIsBodies /\ BodyIsPath /\ StartedInv

(* b is a worm of a legal size that does not cross itself. *)
Path(b) == /\ Len(b) <= MaxSize
           /\ \A i, j \in DOMAIN b : b[i] = b[j] => i = j
           /\ \A i \in 1..(Len(b) - 1) : Adjacent(b[i + 1], b[i])

LEMMA SeqFacts ==
  ASSUME NEW S, NEW s \in Seq(S)
  PROVE  /\ Len(s) \in Nat /\ DOMAIN s = 1..Len(s)
         /\ \A i \in 1..Len(s) : s[i] \in S
         /\ s # <<>> => Len(s) \in Nat \ {0}
  BY EmptySeq, LenProperties

(* A step in one direction is undone by the opposite one. *)
LEMMA AdjacentBothWays ==
  ASSUME NEW c \in Cells, NEW e \in Cells, Adjacent(c, e)
  PROVE  Adjacent(e, c)
<1>1. PICK d \in Directions : e = NextPosition(c, d)
  BY DEF Adjacent
<1>2. /\ c = <<c[1], c[2]>> /\ c[1] \in Int /\ c[2] \in Int
  BY WormsAssumption DEF Cells
<1>3. CASE d = "up"
  <2>1. c = NextPosition(e, "down")
    BY <1>1, <1>2, <1>3 DEF NextPosition
  <2> QED
    BY <2>1 DEF Adjacent, Directions
<1>4. CASE d = "down"
  <2>1. c = NextPosition(e, "up")
    BY <1>1, <1>2, <1>4 DEF NextPosition
  <2> QED
    BY <2>1 DEF Adjacent, Directions
<1>5. CASE d = "left"
  <2>1. c = NextPosition(e, "right")
    BY <1>1, <1>2, <1>5 DEF NextPosition
  <2> QED
    BY <2>1 DEF Adjacent, Directions
<1>6. CASE d = "right"
  <2>1. c = NextPosition(e, "left")
    BY <1>1, <1>2, <1>6 DEF NextPosition
  <2> QED
    BY <2>1 DEF Adjacent, Directions
<1> QED
  BY <1>3, <1>4, <1>5, <1>6 DEF Directions

(* self.body.reverse() keeps the cells and the shape of a worm. *)
LEMMA BackwardsIsPath ==
  ASSUME NEW b \in Seq(Cells), Path(b)
  PROVE  /\ Backwards(b) \in Seq(Cells)
         /\ Path(Backwards(b))
         /\ Len(Backwards(b)) = Len(b)
         /\ \A c \in Cells : (\E i \in DOMAIN Backwards(b) : Backwards(b)[i] = c)
                               <=> \E i \in DOMAIN b : b[i] = c
<1> DEFINE n == Len(b)
           r == Backwards(b)
<1>1. n \in Nat /\ DOMAIN b = 1..n /\ \A i \in 1..n : b[i] \in Cells
  BY SeqFacts
<1>2. r = [i \in 1..n |-> b[n + 1 - i]]
  BY DEF Backwards
<1> HIDE DEF n, r
<1>3. \A i \in 1..n : n + 1 - i \in 1..n /\ r[i] = b[n + 1 - i] /\ r[i] \in Cells
  BY <1>1, <1>2
<1>4. r \in Seq(Cells) /\ Len(r) = n /\ DOMAIN r = 1..n
  BY <1>1, <1>2, <1>3
<1>5. ASSUME NEW i \in 1..n, NEW j \in 1..n, r[i] = r[j] PROVE i = j
  <2>1. b[n + 1 - i] = b[n + 1 - j] /\ n + 1 - i \in 1..n /\ n + 1 - j \in 1..n
    BY <1>3, <1>5
  <2>2. n + 1 - i = n + 1 - j
    BY <1>1, <2>1 DEF Path
  <2> QED
    BY <1>1, <2>2
<1>6. ASSUME NEW i \in 1..(n - 1) PROVE Adjacent(r[i + 1], r[i])
  <2> DEFINE k == n - i
  <2>1. k \in 1..(n - 1) /\ r[i] = b[k + 1] /\ r[i + 1] = b[k]
    <3>1. n \in Nat /\ i \in Nat /\ i >= 1 /\ i + 1 <= n
      BY <1>1
    <3>2. i \in 1..n /\ i + 1 \in 1..n /\ n + 1 - i = k + 1 /\ n + 1 - (i + 1) = k
      BY <3>1
    <3>3. r[i] = b[k + 1] /\ r[i + 1] = b[k]
      <4> HIDE DEF k, n, r
      <4> QED
        BY <1>3, <3>2
    <3> QED
      BY <3>1, <3>3
  <2>2. Adjacent(b[k + 1], b[k])
    BY <2>1 DEF Path, n
  <2>3. b[k] \in Cells /\ b[k + 1] \in Cells
    BY <1>1, <2>1
  <2> QED
    BY <2>1, <2>2, <2>3, AdjacentBothWays
<1>7. \A i \in 1..n : b[i] = r[n + 1 - i]
  BY <1>1, <1>3
<1>8. \A c \in Cells : (\E i \in 1..n : r[i] = c) <=> \E i \in 1..n : b[i] = c
  BY <1>1, <1>3, <1>7
<1>9. Path(r)
  BY <1>4, <1>5, <1>6 DEF Path, n
<1> QED
  BY <1>1, <1>4, <1>8, <1>9 DEF n, r

-----------------------------------------------------------------------------
(* The new body of a worm that takes cell c in front of b and keeps the    *)
(* first k cells of b.                                                     *)
LEMMA NewBody ==
  ASSUME NEW b \in Seq(Cells), b # <<>>, NEW c \in Cells
  PROVE  LET k == IF Len(b) + 1 > MaxSize THEN Len(b) - 1 ELSE Len(b)
             nb == IF Len(b) + 1 > MaxSize THEN <<c>> \o SubSeq(b, 1, Len(b) - 1) ELSE <<c>> \o b
         IN  /\ k \in 0..Len(b)
             /\ nb \in Seq(Cells) /\ Len(nb) = k + 1 /\ DOMAIN nb = 1..(k + 1)
             /\ nb[1] = c
             /\ \A i \in 1..k : nb[i + 1] = b[i]
<1> DEFINE n == Len(b)
           k == IF n + 1 > MaxSize THEN n - 1 ELSE n
           tl == IF n + 1 > MaxSize THEN SubSeq(b, 1, n - 1) ELSE b
<1>1. n \in Nat \ {0} /\ DOMAIN b = 1..n /\ (\A i \in 1..n : b[i] \in Cells) /\ k \in 0..n
  BY SeqFacts, WormsAssumption
<1>2. /\ tl \in Seq(Cells) /\ Len(tl) = k
      /\ \A i \in 1..k : tl[i] = b[i]
  <2>1. CASE n + 1 > MaxSize
    <3>1. \A i \in 1..(n - 1) : b[i] \in Cells
      BY <1>1
    <3>2. 1 \in Int /\ n - 1 \in Int
      BY <1>1
    <3> HIDE DEF n
    <3>3. /\ SubSeq(b, 1, n - 1) \in Seq(Cells)
          /\ Len(SubSeq(b, 1, n - 1)) = IF 1 <= n - 1 THEN n - 1 - 1 + 1 ELSE 0
          /\ \A i \in 1..(n - 1 - 1 + 1) : SubSeq(b, 1, n - 1)[i] = b[1 + i - 1]
      BY <3>1, <3>2, SubSeqProperties
    <3> QED
      BY <1>1, <2>1, <3>3
  <2>2. CASE ~(n + 1 > MaxSize)
    BY <1>1, <2>2
  <2> QED
    BY <2>1, <2>2
<1>3. <<c>> \in Seq(Cells) /\ Len(<<c>>) = 1 /\ <<c>>[1] = c
  OBVIOUS
<1> DEFINE nb == <<c>> \o tl
<1> HIDE DEF tl, k, n
<1>4. /\ nb \in Seq(Cells) /\ Len(nb) = Len(<<c>>) + Len(tl)
      /\ \A i \in 1..(Len(<<c>>) + Len(tl)) :
           nb[i] = IF i <= Len(<<c>>) THEN <<c>>[i] ELSE tl[i - Len(<<c>>)]
  BY <1>2, <1>3, ConcatProperties
<1>5. Len(nb) = k + 1 /\ DOMAIN nb = 1..(k + 1)
  BY <1>1, <1>2, <1>3, <1>4, SeqFacts
<1>6. \A i \in 1..(k + 1) : nb[i] = IF i <= 1 THEN c ELSE tl[i - 1]
  BY <1>1, <1>2, <1>3, <1>4
<1>7. nb[1] = c /\ \A i \in 1..k : nb[i + 1] = b[i]
  <2>1. 1 \in 1..(k + 1) /\ \A i \in 1..k : i + 1 \in 1..(k + 1) /\ ~(i + 1 <= 1) /\ (i + 1) - 1 = i
    BY <1>1
  <2>2. nb[1] = c
    BY <1>6, <2>1
  <2>3. ASSUME NEW i \in 1..k PROVE nb[i + 1] = b[i]
    <3>1. nb[i + 1] = tl[(i + 1) - 1]
      BY <1>6, <2>1
    <3> QED
      BY <1>2, <2>1, <3>1
  <2> QED
    BY <2>2, <2>3
<1> QED
  BY <1>1, <1>4, <1>5, <1>7 DEF n, k, tl

(* The heart of the matter: a worm that moves to a free cell leaves grid   *)
(* and bodies in agreement, and every worm in one piece.                   *)
LEMMA AdvanceStep ==
  ASSUME WormsInv, NEW w \in Worms, NEW d \in Directions,
         NEW b \in Seq(Cells), b # <<>>, Path(b),
         \A e \in Cells : (\E i \in DOMAIN b : b[i] = e)
                           <=> \E i \in DOMAIN body[w] : body[w][i] = e,
         IsFree(NextPosition(b[1], d)),
         Advance(w, b, d)
  PROVE  /\ grid' \in [Cells -> Worms \union {None}]
         /\ body' \in [Worms -> Seq(Cells)]
         /\ dir' \in [Worms -> Directions \union {None}]
         /\ body'[w] # <<>>
         /\ \A u \in Worms \ {w} : body'[u] = body[u]
         /\ GridIsBodies' /\ BodyIsPath'
<1> DEFINE c == NextPosition(b[1], d)
           n == Len(b)
           k == IF n + 1 > MaxSize THEN n - 1 ELSE n
           nb == IF n + 1 > MaxSize THEN <<c>> \o SubSeq(b, 1, n - 1) ELSE <<c>> \o b
<1>0. /\ grid \in [Cells -> Worms \union {None}]
      /\ body \in [Worms -> Seq(Cells)]
      /\ dir \in [Worms -> Directions \union {None}]
      /\ None \notin Worms
  BY WormsAssumption DEF WormsInv, TypeOK
<1>1. c \in Cells /\ grid[c] = None
  BY DEF IsFree
<1>2. n \in Nat \ {0} /\ DOMAIN b = 1..n /\ \A i \in 1..n : b[i] \in Cells
  BY SeqFacts
<1>3. /\ k \in 0..n
      /\ nb \in Seq(Cells) /\ Len(nb) = k + 1 /\ DOMAIN nb = 1..(k + 1)
      /\ nb[1] = c
      /\ \A i \in 1..k : nb[i + 1] = b[i]
  BY <1>1, NewBody
<1>4. /\ body' = [body EXCEPT ![w] = nb]
      /\ dir' = [dir EXCEPT ![w] = d]
      /\ grid' = IF n + 1 > MaxSize THEN [grid EXCEPT ![c] = w, ![b[n]] = None]
                                    ELSE [grid EXCEPT ![c] = w]
  BY DEF Advance, Last
<1>5. \A i \in 1..n : grid[b[i]] = w /\ b[i] # c
  <2> HIDE DEF c, n
  <2>1. SUFFICES ASSUME NEW i \in 1..n PROVE grid[b[i]] = w /\ b[i] # c
    OBVIOUS
  <2>2. b[i] \in Cells /\ \E j \in DOMAIN b : b[j] = b[i]
    BY <1>2
  <2>3. \E j \in DOMAIN body[w] : body[w][j] = b[i]
    BY <2>2
  <2>4. grid[b[i]] = w
    BY <2>2, <2>3 DEF WormsInv, GridIsBodies
  <2> QED
    BY <1>0, <1>1, <2>4
<1>6. \A i, j \in 1..n : b[i] = b[j] => i = j
  BY <1>2 DEF Path
<1>7. /\ n + 1 > MaxSize => k = n - 1
      /\ ~(n + 1 > MaxSize) => k = n
      /\ k + 1 <= MaxSize
  <2>1. n <= MaxSize
    BY DEF Path
  <2> HIDE DEF n
  <2> QED
    BY <1>2, <2>1, WormsAssumption
<1> HIDE DEF c, n, k, nb
<1>8. \A e \in Cells : grid'[e] = IF e = c THEN w
                                  ELSE IF n + 1 > MaxSize /\ e = b[n] THEN None
                                  ELSE grid[e]
  BY <1>0, <1>1, <1>2, <1>4, <1>5
<1>9. \A e \in Cells : (\E i \in 1..(k + 1) : nb[i] = e) <=> e = c \/ \E i \in 1..k : b[i] = e
  <2>1. ASSUME NEW e \in Cells, NEW i \in 1..(k + 1), nb[i] = e
        PROVE  e = c \/ \E j \in 1..k : b[j] = e
    <3>1. CASE i = 1
      BY <1>3, <2>1, <3>1
    <3>2. CASE i # 1
      <4>1. i - 1 \in 1..k /\ (i - 1) + 1 = i
        BY <1>3, <3>2
      <4>2. nb[i] = b[i - 1]
        BY <1>3, <4>1
      <4> QED
        BY <2>1, <4>1, <4>2
    <3> QED
      BY <3>1, <3>2
  <2>2. ASSUME NEW e \in Cells, e = c \/ \E j \in 1..k : b[j] = e
        PROVE  \E i \in 1..(k + 1) : nb[i] = e
    <3>1. 1 \in 1..(k + 1) /\ \A j \in 1..k : j + 1 \in 1..(k + 1)
      BY <1>3
    <3> QED
      BY <1>3, <2>2, <3>1
  <2> QED
    BY <2>1, <2>2
<1>10. \A e \in Cells : (\E i \in 1..k : b[i] = e)
                          <=> /\ \E i \in 1..n : b[i] = e
                              /\ ~(n + 1 > MaxSize /\ e = b[n])
  BY <1>2, <1>6, <1>7
<1>11. \A e \in Cells : grid[e] = w <=> \E i \in 1..n : b[i] = e
  BY <1>2 DEF WormsInv, GridIsBodies
<1>12. GridIsBodies'
  <2>1. ASSUME NEW e \in Cells
        PROVE  grid'[e] = w <=> \E i \in DOMAIN body'[w] : body'[w][i] = e
    <3>1. (\E i \in DOMAIN body'[w] : body'[w][i] = e) <=> \E i \in 1..(k + 1) : nb[i] = e
      BY <1>0, <1>3, <1>4
    <3>2. grid'[e] = w <=> e = c \/ (grid[e] = w /\ ~(n + 1 > MaxSize /\ e = b[n]))
      BY <1>0, <1>8
    <3> QED
      BY <1>9, <1>10, <1>11, <3>1, <3>2
  <2>2. ASSUME NEW e \in Cells, NEW u \in Worms \ {w}
        PROVE  grid'[e] = u <=> \E i \in DOMAIN body'[u] : body'[u][i] = e
    <3>1. body'[u] = body[u]
      BY <1>0, <1>4
    <3>2. grid'[e] = u <=> grid[e] = u
      BY <1>0, <1>1, <1>2, <1>5, <1>8
    <3> QED
      BY <3>1, <3>2 DEF WormsInv, GridIsBodies
  <2> QED
    BY <2>1, <2>2 DEF GridIsBodies
<1>13. BodyIsPath'
  <2>1. ASSUME NEW u \in Worms \ {w}
        PROVE  body'[u] = body[u] /\ dir'[u] = dir[u]
    BY <1>0, <1>4
  <2>2. body'[w] = nb /\ dir'[w] = d
    BY <1>0, <1>4
  <2>3. Len(nb) <= MaxSize
    BY <1>3, <1>7
  <2>4. ASSUME NEW i \in 1..(k + 1), NEW j \in 1..(k + 1), nb[i] = nb[j]
        PROVE  i = j
    <3>1. \A m \in 1..(k + 1) : m # 1 => m - 1 \in 1..k /\ nb[m] = b[m - 1] /\ nb[m] # c /\ m - 1 \in 1..n
      <4> SUFFICES ASSUME NEW m \in 1..(k + 1), m # 1
                   PROVE  m - 1 \in 1..k /\ nb[m] = b[m - 1] /\ nb[m] # c /\ m - 1 \in 1..n
        OBVIOUS
      <4>1. m - 1 \in 1..k /\ (m - 1) + 1 = m /\ m - 1 \in 1..n
        BY <1>2, <1>3
      <4> QED
        BY <1>3, <1>5, <4>1
    <3>2. CASE i = 1 \/ j = 1
      BY <1>3, <2>4, <3>1, <3>2
    <3>3. CASE i # 1 /\ j # 1
      <4>1. i - 1 = j - 1
        BY <1>6, <2>4, <3>1, <3>3
      <4> QED
        BY <1>3, <4>1
    <3> QED
      BY <3>2, <3>3
  <2>5. ASSUME NEW i \in 1..k
        PROVE  Adjacent(nb[i + 1], nb[i])
    <3>1. CASE i = 1
      <4>1. nb[2] = b[1]
        BY <1>3, <3>1
      <4> QED
        BY <1>3, <3>1, <4>1 DEF Adjacent, c
    <3>2. CASE i # 1
      <4>1. i - 1 \in 1..k /\ (i - 1) + 1 = i /\ i - 1 \in 1..(n - 1)
        BY <1>2, <1>3, <3>2
      <4>2. nb[i] = b[i - 1] /\ nb[i + 1] = b[(i - 1) + 1]
        BY <1>3, <4>1
      <4> QED
        BY <4>1, <4>2 DEF Path, n
    <3> QED
      BY <3>1, <3>2
  <2>6. \A i \in 1..(Len(nb) - 1) : Adjacent(nb[i + 1], nb[i])
    <3>1. Len(nb) - 1 = k
      BY <1>3
    <3> QED
      BY <2>5, <3>1
  <2>7. \A i, j \in DOMAIN nb : nb[i] = nb[j] => i = j
    BY <1>3, <2>4
  <2> QED
    BY <2>1, <2>2, <2>3, <2>6, <2>7 DEF WormsInv, BodyIsPath
<1>14. nb # <<>>
  <2>1. Len(nb) # 0
    BY <1>3
  <2> QED
    BY <2>1, EmptySeq
<1>15. /\ grid' \in [Cells -> Worms \union {None}]
       /\ body' \in [Worms -> Seq(Cells)]
       /\ dir' \in [Worms -> Directions \union {None}]
       /\ body'[w] # <<>>
       /\ \A u \in Worms \ {w} : body'[u] = body[u]
  BY <1>0, <1>1, <1>2, <1>3, <1>4, <1>14
<1> QED
  BY <1>12, <1>13, <1>15

-----------------------------------------------------------------------------
(* Every step preserves the inductive invariant. *)
LEMMA WormsStep == WormsInv /\ [Next]_vars => WormsInv'
<1> SUFFICES ASSUME WormsInv, [Next]_vars PROVE WormsInv'
  OBVIOUS
<1>0. /\ grid \in [Cells -> Worms \union {None}]
      /\ body \in [Worms -> Seq(Cells)]
      /\ dir \in [Worms -> Directions \union {None}]
      /\ rounds \in [Worms -> 0..NumSteps]
      /\ started \in BOOLEAN
      /\ None \notin Worms
      /\ NumSteps \in Nat
  BY WormsAssumption DEF WormsInv, TypeOK
<1>1. CASE UNCHANGED vars
  BY <1>1 DEF vars, WormsInv, TypeOK, GridIsBodies, BodyIsPath, StartedInv
<1>2. CASE StartAll
  BY <1>2 DEF StartAll, WormsInv, TypeOK, GridIsBodies, BodyIsPath, StartedInv
<1>3. ASSUME NEW w \in Worms, NewWorm(w)
      PROVE  WormsInv'
  <2>1. PICK c \in Cells : /\ IsFree(c)
                           /\ grid' = [grid EXCEPT ![c] = w]
                           /\ body' = [body EXCEPT ![w] = <<c>>]
    BY <1>3 DEF NewWorm
  <2>2. PICK d \in Directions : dir' = [dir EXCEPT ![w] = d]
    BY <1>3 DEF NewWorm
  <2>3. body[w] = <<>> /\ UNCHANGED <<rounds, started>>
    BY <1>3 DEF NewWorm
  <2>4. TypeOK'
    BY <1>0, <2>1, <2>2, <2>3 DEF TypeOK
  <2>5. /\ body'[w] = <<c>> /\ Len(<<c>>) = 1 /\ DOMAIN <<c>> = {1} /\ <<c>>[1] = c
        /\ \A u \in Worms \ {w} : body'[u] = body[u] /\ dir'[u] = dir[u]
        /\ dir'[w] = d
    BY <1>0, <2>1, <2>2
  <2>6. \A e \in Cells : grid[e] # w
    BY <2>3 DEF WormsInv, GridIsBodies
  <2>7. GridIsBodies'
    <3>1. \A e \in Cells : grid'[e] = w <=> e = c
      BY <1>0, <2>1, <2>6
    <3>2. \A e \in Cells, u \in Worms \ {w} : grid'[e] = u <=> grid[e] = u
      BY <1>0, <2>1 DEF IsFree
    <3> QED
      BY <2>5, <3>1, <3>2 DEF WormsInv, GridIsBodies
  <2>8. BodyIsPath'
    <3>1. \A i \in 1..(1 - 1) : FALSE
      OBVIOUS
    <3>2. 1 <= MaxSize
      BY WormsAssumption
    <3>3. /\ Len(body'[w]) <= MaxSize
          /\ \A i, j \in DOMAIN body'[w] : body'[w][i] = body'[w][j] => i = j
          /\ \A i \in 1..(Len(body'[w]) - 1) : Adjacent(body'[w][i + 1], body'[w][i])
          /\ dir'[w] \in Directions
      BY <2>5, <3>1, <3>2
    <3> QED
      BY <2>5, <3>3 DEF WormsInv, BodyIsPath
  <2>9. StartedInv'
    <3>1. <<c>> # <<>>
      OBVIOUS
    <3> QED
      BY <2>3, <2>5, <3>1 DEF WormsInv, StartedInv
  <2> QED
    BY <2>4, <2>7, <2>8, <2>9 DEF WormsInv
<1>4. ASSUME NEW w \in Worms, Round(w)
      PROVE  WormsInv'
  <2> DEFINE r == Backwards(body[w])
  <2>1. /\ body[w] \in Seq(Cells) /\ body[w] # <<>> /\ Path(body[w])
        /\ started /\ dir[w] \in Directions
    BY <1>0, <1>4 DEF Round, WormsInv, StartedInv, BodyIsPath, Path
  <2>2. /\ r \in Seq(Cells) /\ Path(r) /\ Len(r) = Len(body[w])
        /\ \A e \in Cells : (\E i \in DOMAIN r : r[i] = e) <=> \E i \in DOMAIN body[w] : body[w][i] = e
    BY <2>1, BackwardsIsPath
  <2>3. r # <<>>
    <3>1. Len(r) # 0
      BY <2>1, <2>2, SeqFacts
    <3> QED
      BY <3>1, EmptySeq
  <2> HIDE DEF r
  <2>4. rounds' \in [Worms -> 0..NumSteps] /\ started' = started
    <3>1. rounds[w] \in 0..NumSteps /\ rounds[w] > 0 /\ rounds' = [rounds EXCEPT ![w] = @ - 1]
      BY <1>0, <1>4 DEF Round
    <3>2. rounds[w] - 1 \in 0..NumSteps
      BY <1>0, <3>1
    <3> QED
      BY <1>0, <1>4, <3>1, <3>2 DEF Round
  <2>5. ASSUME NEW b \in {body[w], r}, NEW d \in Directions,
               IsFree(NextPosition(b[1], d)), Advance(w, b, d)
        PROVE  WormsInv'
    <3>1. /\ b \in Seq(Cells) /\ b # <<>> /\ Path(b)
          /\ \A e \in Cells : (\E i \in DOMAIN b : b[i] = e)
                              <=> \E i \in DOMAIN body[w] : body[w][i] = e
      BY <2>1, <2>2, <2>3
    <3>2. /\ grid' \in [Cells -> Worms \union {None}]
          /\ body' \in [Worms -> Seq(Cells)]
          /\ dir' \in [Worms -> Directions \union {None}]
          /\ body'[w] # <<>>
          /\ \A u \in Worms \ {w} : body'[u] = body[u]
          /\ GridIsBodies' /\ BodyIsPath'
      BY <2>5, <3>1, AdvanceStep
    <3> QED
      BY <1>0, <2>4, <3>2 DEF WormsInv, TypeOK, StartedInv
  <2>6. CASE \E d \in {dir[w]} \union Directions : Forward(w, d)
    <3>1. PICK d \in Directions : Forward(w, d)
      BY <2>1, <2>6
    <3>2. CASE IsFree(NextPosition(body[w][1], d))
      BY <2>5, <3>1, <3>2 DEF Forward
    <3>3. CASE ~IsFree(NextPosition(body[w][1], d))
      <4>1. PICK nd \in NewDirections(body[w][1]) : Advance(w, body[w], nd)
        BY <3>1, <3>3 DEF Forward
      <4> QED
        BY <2>5, <4>1 DEF NewDirections
    <3> QED
      BY <3>2, <3>3
  <2>7. CASE \E d \in NewDirections(r[1]) : Advance(w, r, d)
    BY <2>5, <2>7 DEF NewDirections
  <2>8. CASE /\ body' = [body EXCEPT ![w] = r]
             /\ \E d \in Directions : dir' = [dir EXCEPT ![w] = d]
             /\ UNCHANGED grid
    \* the worm has only turned round
    <3>1. /\ body'[w] = r /\ dir'[w] \in Directions
          /\ \A u \in Worms \ {w} : body'[u] = body[u] /\ dir'[u] = dir[u]
      BY <1>0, <2>8
    <3>2. TypeOK'
      BY <1>0, <2>2, <2>4, <2>8 DEF TypeOK
    <3>3. GridIsBodies'
      BY <2>2, <2>8, <3>1 DEF WormsInv, GridIsBodies
    <3>4. BodyIsPath'
      BY <2>2, <3>1 DEF WormsInv, BodyIsPath, Path
    <3>5. StartedInv'
      BY <2>3, <2>4, <3>1 DEF WormsInv, StartedInv
    <3> QED
      BY <3>2, <3>3, <3>4, <3>5 DEF WormsInv
  <2> QED
    BY <1>4, <2>6, <2>7, <2>8 DEF Round, TurnBack, r
<1> QED
  BY <1>1, <1>2, <1>3, <1>4 DEF Next

(* The invariant holds throughout. *)
LEMMA WormsAlways == Spec => []WormsInv
<1>1. Init => WormsInv
  <2> SUFFICES ASSUME Init PROVE WormsInv
    OBVIOUS
  <2>1. /\ \A w \in Worms : body[w] = <<>>
        /\ \A c \in Cells : grid[c] = None
    BY DEF Init
  <2>2. Len(<<>>) = 0 /\ DOMAIN <<>> = {} /\ <<>> \in Seq(Cells)
    BY EmptySeq
  <2>3. TypeOK /\ StartedInv
    <3>1. NumSteps \in 0..NumSteps
      BY WormsAssumption
    <3>2. /\ grid \in [Cells -> Worms \union {None}]
          /\ body \in [Worms -> Seq(Cells)]
      BY <2>2 DEF Init
    <3>3. dir \in [Worms -> Directions \union {None}] /\ rounds \in [Worms -> 0..NumSteps]
      BY <3>1 DEF Init
    <3>4. started \in BOOLEAN /\ ~started
      BY DEF Init
    <3> QED
      BY <3>2, <3>3, <3>4 DEF TypeOK, StartedInv
  <2>4. GridIsBodies
    BY <2>1, <2>2, WormsAssumption DEF GridIsBodies
  <2>5. BodyIsPath
    <3>1. \A i \in 1..(0 - 1) : FALSE
      OBVIOUS
    <3> QED
      BY <2>1, <2>2, <3>1, WormsAssumption DEF BodyIsPath
  <2> QED
    BY <2>3, <2>4, <2>5 DEF WormsInv
<1> QED
  BY <1>1, WormsStep, PTL DEF Spec

(* The grid marks exactly the cells the worms lie on: no two worms cross,  *)
(* and none leaves a wall behind, on any grid with any number of worms.    *)
THEOREM WormsGridIsBodies == Spec => []GridIsBodies
  BY WormsAlways, PTL DEF WormsInv

(* Each worm is one piece of legal size that does not cross itself. *)
THEOREM WormsBodyIsPath == Spec => []BodyIsPath
  BY WormsAlways, PTL DEF WormsInv

-----------------------------------------------------------------------------
(* Primes: the invariant follows the primes of each batch from the queue   *)
(* of tasks to a worker and on to the list of results.  They are in one    *)
(* place only, and those that are nowhere have been counted; that          *)
(* task_done() is still due for each batch on its way keeps the main       *)
(* thread from reading too early.                                          *)

PrimesBelow == {n \in 0..(Limit - 1) : IsPrime(n)}

(* The primes that the main thread has still to count. *)
Uncounted == (UNION {PrimesOf(tasks[i]) : i \in DOMAIN tasks}) \union
             (UNION {PrimesOf(batch[w]) : w \in PrimeWorkers}) \union
             (UNION {results[i] : i \in DOMAIN results})

Apart(s, t) == s \intersect t = {}

(* No prime is in two places, *)
InOnePlace ==
  /\ \A i, j \in DOMAIN tasks : i # j => Apart(PrimesOf(tasks[i]), PrimesOf(tasks[j]))
  /\ \A i \in DOMAIN tasks, w \in PrimeWorkers : Apart(PrimesOf(tasks[i]), PrimesOf(batch[w]))
  /\ \A i \in DOMAIN tasks, j \in DOMAIN results : Apart(PrimesOf(tasks[i]), results[j])
  /\ \A v, w \in PrimeWorkers : v # w => Apart(PrimesOf(batch[v]), PrimesOf(batch[w]))
  /\ \A w \in PrimeWorkers, j \in DOMAIN results : Apart(PrimesOf(batch[w]), results[j])
  /\ \A i, j \in DOMAIN results : i # j => Apart(results[i], results[j])

(* and those that are in none have been counted. *)
CountedSoFar == mainAt # "fill" => primeCount = Cardinality(PrimesBelow \ Uncounted)

(* A task_done() is due for what is queued or in hand. *)
Busy == {w \in PrimeWorkers : at[w] \in {"check", "done", "pill"}}
Unfinished == unfinished = Len(tasks) + Cardinality(Busy)

PrimePhases ==
  /\ mainAt = "fill" => /\ tasks = <<>> /\ results = <<>>
                        /\ \A w \in PrimeWorkers : at[w] = "off"
                        /\ primeCount = 0
  /\ \A w \in PrimeWorkers : at[w] # "check" => batch[w] = Pill
  /\ mainAt \in {"read", "end"} => tasks = <<>> /\ Busy = {}
  /\ mainAt = "end" => results = <<>>

PrimesFullTypes == /\ tasks \in Seq(Batches \union {Pill})
                   /\ unfinished \in 0..(NumBatches + NumWorkers)
                   /\ results \in Seq(SUBSET PrimesBelow)
                   /\ at \in [PrimeWorkers -> {"off", "get", "check", "done", "pill", "end"}]
                   /\ batch \in [PrimeWorkers -> Batches \union {Pill}]
                   /\ mainAt \in {"fill", "start", "join", "read", "end"}
                   /\ primeCount \in Nat

PrimeInv == PrimesFullTypes /\ InOnePlace /\ CountedSoFar /\ Unfinished /\ PrimePhases

(* The constants are counts of something, and the primes are finitely      *)
(* many.                                                                   *)
LEMMA PrimeConstants ==
  /\ Limit \in Nat \ {0} /\ BatchSize \in Nat \ {0}
  /\ NumWorkers \in Nat \ {0} /\ NumBatches \in Nat \ {0}
  /\ IsFiniteSet(PrimesBelow)
<1>1. NumWorkers \in Nat /\ NumWorkers # 0
  BY PrimesAssumption, FS_CardinalityType, FS_EmptySet DEF NumWorkers
<1>2. NumBatches \in Nat \ {0}
  <2> DEFINE m == Limit + BatchSize - 1
             q == m \div BatchSize
  <2>1. m \in Int /\ BatchSize \in Nat \ {0} /\ m >= BatchSize
    BY PrimesAssumption
  <2>2. q \in Int /\ (m % BatchSize) \in 0..(BatchSize - 1)
        /\ m = BatchSize * q + (m % BatchSize)
    BY <2>1, DivisionFacts, Zenon
  <2> SUFFICES ASSUME q <= 0 PROVE FALSE
    BY <2>2 DEF NumBatches
  <2> HIDE DEF q, m
  <2>3. BatchSize * q <= BatchSize * 0
    BY <2>1, <2>2, TimesMonotone
  <2> QED BY <2>1, <2>2, <2>3
<1>3. IsFiniteSet(PrimesBelow)
  <2>1. IsFiniteSet(0..(Limit - 1))
    BY PrimesAssumption, FS_Interval
  <2> QED BY <2>1, FS_Subset DEF PrimesBelow
<1> QED BY <1>1, <1>2, <1>3, PrimesAssumption

(* The primes of a batch; a pill has none. *)
LEMMA PrimesOfBatch ==
  /\ PrimesOf(Pill) = {}
  /\ \A b \in Batches \union {Pill} : PrimesOf(b) \subseteq PrimesBelow
  /\ \A i \in 1..NumBatches : PrimesOf(Batch(i)) =
       {n \in PrimesBelow : \E k \in 1..BatchSize : n = (i - 1) * BatchSize + k - 1}
<1>1. PrimesOf(Pill) = {}
  BY DEF PrimesOf, Pill
<1>2. ASSUME NEW i \in 1..NumBatches
      PROVE  PrimesOf(Batch(i)) =
             {n \in PrimesBelow : \E k \in 1..BatchSize : n = (i - 1) * BatchSize + k - 1}
  <2> DEFINE b == Batch(i)
             number(k) == (i - 1) * BatchSize + k - 1
  <2>1. ~IsPrime(1)
    BY DEF IsPrime
  <2>2. \A k \in 1..BatchSize : number(k) \in Nat
    <3>1. i - 1 \in Nat /\ BatchSize \in Nat \ {0}
      BY PrimeConstants
    <3>2. (i - 1) * BatchSize \in Nat
      BY <3>1
    <3> QED BY <3>1, <3>2
  <2>3. /\ DOMAIN b = 1..BatchSize
        /\ \A k \in 1..BatchSize : b[k] = IF number(k) < Limit THEN number(k) ELSE 1
    BY DEF Batch
  <2> HIDE DEF b, number
  <2>4. PrimesOf(b) \subseteq {n \in PrimesBelow : \E k \in 1..BatchSize : n = number(k)}
    BY <2>1, <2>2, <2>3, PrimeConstants DEF PrimesOf, PrimesBelow
  <2>5. {n \in PrimesBelow : \E k \in 1..BatchSize : n = number(k)} \subseteq PrimesOf(b)
    BY <2>1, <2>2, <2>3, PrimeConstants DEF PrimesOf, PrimesBelow
  <2> QED BY <2>4, <2>5 DEF b, number
<1> QED BY <1>1, <1>2 DEF Batches

(* Every number below the limit is in one batch, *)
LEMMA BatchesCover ==
  ASSUME NEW n \in PrimesBelow
  PROVE  \E i \in 1..NumBatches : n \in PrimesOf(Batch(i))
<1> DEFINE q == n \div BatchSize
           r == n % BatchSize
           m == Limit + BatchSize - 1
           t == m \div BatchSize
<1>1. n \in Nat /\ n \in Int /\ n < Limit /\ BatchSize \in Nat \ {0} /\ Limit \in Nat /\ m \in Int
  BY PrimeConstants DEF PrimesBelow
<1>2. q \in Int /\ r \in 0..(BatchSize - 1) /\ n = BatchSize * q + r
  BY <1>1, DivisionFacts, Zenon
<1>3. t \in Int /\ (m % BatchSize) \in 0..(BatchSize - 1) /\ m = BatchSize * t + (m % BatchSize)
  BY <1>1, DivisionFacts, Zenon
<1> DEFINE u == m % BatchSize
<1>4. t = NumBatches
  BY DEF NumBatches
<1>m. m = Limit + BatchSize - 1
  OBVIOUS
<1> HIDE DEF q, r, t, u, m
<1>u. u \in 0..(BatchSize - 1) /\ m = BatchSize * t + u
  BY <1>3 DEF u
<1>5. q >= 0
  <2> SUFFICES ASSUME q <= -1 PROVE FALSE
    BY <1>2
  <2>1. BatchSize * q <= BatchSize * (-1)
    BY <1>1, <1>2, TimesMonotone
  <2> QED BY <2>1, <1>1, <1>2
<1>6. q <= t - 1
  <2> SUFFICES ASSUME t <= q PROVE FALSE
    BY <1>2, <1>3
  <2>1. BatchSize * t <= BatchSize * q
    BY <1>1, <1>2, <1>3, TimesMonotone
  <2> QED BY <2>1, <1>1, <1>2, <1>3, <1>u, <1>m
<1>7. q + 1 \in 1..NumBatches /\ r + 1 \in 1..BatchSize
  BY <1>1, <1>2, <1>3, <1>4, <1>5, <1>6
<1>8. n = ((q + 1) - 1) * BatchSize + (r + 1) - 1
  BY <1>1, <1>2
<1> QED BY <1>7, <1>8, PrimesOfBatch

(* and in no other. *)
LEMMA BatchesApart ==
  ASSUME NEW i \in 1..NumBatches, NEW j \in 1..NumBatches, i # j
  PROVE  Apart(PrimesOf(Batch(i)), PrimesOf(Batch(j)))
<1>1. ASSUME NEW h \in 1..NumBatches, NEW g \in 1..NumBatches, h < g,
             NEW k \in 1..BatchSize, NEW l \in 1..BatchSize
      PROVE  (h - 1) * BatchSize + k - 1 < (g - 1) * BatchSize + l - 1
  <2>1. BatchSize * h <= BatchSize * (g - 1)
    BY <1>1, PrimeConstants, TimesMonotone
  <2>2. (h - 1) * BatchSize = BatchSize * h - BatchSize /\ (g - 1) * BatchSize = BatchSize * (g - 1)
        /\ BatchSize * h \in Int /\ BatchSize * (g - 1) \in Int
    BY PrimeConstants
  <2> QED BY <1>1, <2>1, <2>2, PrimeConstants
<1>2. i \in Nat /\ j \in Nat
  OBVIOUS
<1> SUFFICES ASSUME NEW n \in PrimesOf(Batch(i)), n \in PrimesOf(Batch(j)) PROVE FALSE
  BY DEF Apart
<1>3. PICK k \in 1..BatchSize : n = (i - 1) * BatchSize + k - 1
  BY PrimesOfBatch
<1>4. PICK l \in 1..BatchSize : n = (j - 1) * BatchSize + l - 1
  BY PrimesOfBatch
<1>5. (i - 1) * BatchSize \in Int /\ (j - 1) * BatchSize \in Int
  BY PrimeConstants
<1>6. CASE i < j
  BY <1>1, <1>3, <1>4, <1>5, <1>6
<1>7. CASE j < i
  BY <1>1, <1>3, <1>4, <1>5, <1>7
<1> QED BY <1>2, <1>6, <1>7

(* The invariant holds before the tasks are queued.                        *)
LEMMA PrimeInit == PrimesInit => PrimeInv
<1> SUFFICES ASSUME PrimesInit PROVE PrimeInv
  OBVIOUS
<1>1. PrimesFullTypes
  BY PrimeConstants, EmptySeq DEF PrimesInit, PrimesFullTypes
<1>2. InOnePlace
  BY PrimesOfBatch DEF PrimesInit, InOnePlace, Apart
<1>3. Busy = {} /\ Len(tasks) = 0
  BY DEF PrimesInit, Busy
<1>4. Unfinished
  BY <1>3, FS_EmptySet DEF PrimesInit, Unfinished
<1> QED BY <1>1, <1>2, <1>3, <1>4 DEF PrimesInit, PrimeInv, CountedSoFar, PrimePhases

(* The workers that have a task are finitely many.                         *)
LEMMA BusyCount ==
  /\ IsFiniteSet(Busy) /\ Cardinality(Busy) \in Nat
  /\ \A w \in Busy : Cardinality(Busy \ {w}) = Cardinality(Busy) - 1
  /\ \A w \in PrimeWorkers \ Busy : Cardinality(Busy \union {w}) = Cardinality(Busy) + 1
<1>1. IsFiniteSet(Busy)
  BY PrimesAssumption, FS_Subset DEF Busy
<1> QED BY <1>1, FS_CardinalityType, FS_AddElement, FS_RemoveElement DEF Busy

(* tasks.put() of all batches and pills *)
LEMMA FillTasksStep ==
  ASSUME PrimeInv, FillTasks PROVE PrimeInv'
<1> DEFINE n == NumBatches
           all == [i \in 1..(n + NumWorkers) |-> IF i <= n THEN Batch(i) ELSE Pill]
<1>1. /\ mainAt = "fill" /\ tasks' = all /\ unfinished' = n + NumWorkers /\ mainAt' = "start"
      /\ results' = results /\ at' = at /\ batch' = batch /\ primeCount' = primeCount
      /\ tasks = <<>> /\ results = <<>> /\ primeCount = 0
      /\ \A w \in PrimeWorkers : at[w] = "off"
  BY DEF FillTasks, PrimeInv, PrimePhases
<1>2. n \in Nat /\ NumWorkers \in Nat /\ n + NumWorkers \in Nat
  BY PrimeConstants
<1> HIDE DEF n
<1>3. /\ all \in Seq(Batches \union {Pill}) /\ DOMAIN all = 1..(n + NumWorkers)
      /\ Len(all) = n + NumWorkers
      /\ \A i \in 1..n : i \in DOMAIN all /\ all[i] = Batch(i)
      /\ \A i \in DOMAIN all : i \notin 1..n => all[i] = Pill
  <2>1. \A i \in 1..(n + NumWorkers) : all[i] \in Batches \union {Pill}
    BY <1>2 DEF Batches, n
  <2>2. all \in [1..(n + NumWorkers) -> Batches \union {Pill}]
    BY <2>1
  <2>3. all \in Seq(Batches \union {Pill})
    BY <1>2, <2>2, SeqDef
  <2>4. DOMAIN all = 1..(n + NumWorkers)
    OBVIOUS
  <2>5. Len(all) = n + NumWorkers
    <3> HIDE DEF all
    <3>1. Len(all) \in Nat /\ DOMAIN all = 1..Len(all)
      BY <2>3, LenProperties
    <3> QED BY <1>2, <2>4, <3>1
  <2>6. \A i \in 1..n : i \in DOMAIN all /\ all[i] = Batch(i)
    BY <1>2
  <2>7. \A i \in DOMAIN all : i \notin 1..n => all[i] = Pill
    BY <1>2
  <2> QED BY <2>3, <2>4, <2>5, <2>6, <2>7
<1> HIDE DEF all
<1>4. \A w \in PrimeWorkers : batch[w] = Pill /\ PrimesOf(batch[w]) = {}
  BY <1>1, PrimesOfBatch DEF PrimeInv, PrimePhases
<1>5. Busy = {} /\ Busy' = {}
  BY <1>1 DEF Busy
<1>6. PrimesFullTypes'
  BY <1>1, <1>2, <1>3 DEF PrimeInv, PrimesFullTypes, n
<1>7. InOnePlace'
  <2>1. ASSUME NEW i \in DOMAIN all, NEW j \in DOMAIN all, i # j
        PROVE  Apart(PrimesOf(all[i]), PrimesOf(all[j]))
    <3>1. CASE i \in 1..n /\ j \in 1..n
      BY <1>3, <2>1, <3>1, BatchesApart DEF n
    <3>2. CASE i \notin 1..n \/ j \notin 1..n
      BY <1>3, <3>2, PrimesOfBatch DEF Apart
    <3> QED BY <3>1, <3>2
  <2>2. tasks' = all /\ batch' = batch /\ results' = <<>>
    BY <1>1
  <2>3. \A i, j \in DOMAIN tasks' : i # j => Apart(PrimesOf(tasks'[i]), PrimesOf(tasks'[j]))
    BY <2>1, <2>2
  <2>4. \A w \in PrimeWorkers : PrimesOf(batch'[w]) = {}
    BY <1>4, <2>2
  <2>5. DOMAIN results' = {}
    BY <2>2
  <2> QED BY <2>3, <2>4, <2>5 DEF InOnePlace, Apart
<1>8. Uncounted' = PrimesBelow
  <2>1. \A i \in DOMAIN all : PrimesOf(all[i]) \subseteq PrimesBelow
    BY <1>3, PrimesOfBatch, ElementOfSeq, LenProperties
  <2>2. \A p \in PrimesBelow : \E i \in DOMAIN all : p \in PrimesOf(all[i])
    BY <1>3, BatchesCover DEF n
  <2>3. Uncounted' = UNION {PrimesOf(all[i]) : i \in DOMAIN all}
    <3>1. Uncounted' = (UNION {PrimesOf(all[i]) : i \in DOMAIN all})
                       \union (UNION {PrimesOf(batch[w]) : w \in PrimeWorkers})
                       \union (UNION {results[i] : i \in DOMAIN results})
      BY <1>1 DEF Uncounted
    <3>2. DOMAIN results = {}
      BY <1>1
    <3> QED BY <1>4, <3>1, <3>2
  <2> QED BY <2>1, <2>2, <2>3
<1>9. CountedSoFar'
  <2>1. PrimesBelow' = PrimesBelow
    BY DEF PrimesBelow, IsPrime
  <2>2. PrimesBelow \ Uncounted' = {}
    BY <1>8
  <2> QED BY <1>1, <2>1, <2>2, FS_EmptySet DEF CountedSoFar
<1>10. Unfinished'
  BY <1>1, <1>2, <1>3, <1>5, FS_EmptySet DEF Unfinished
<1>11. PrimePhases'
  BY <1>1, <1>4 DEF PrimePhases
<1> QED BY <1>6, <1>7, <1>9, <1>10, <1>11 DEF PrimeInv

(* tasks.get(): a batch, or a pill, goes from the queue to a worker.       *)
LEMMA GetBatchStep ==
  ASSUME PrimeInv, NEW w \in PrimeWorkers, GetBatch(w) PROVE PrimeInv'
<1> USE DEF PrimeInv
<1> DEFINE b == tasks[1]
<1>1. /\ at[w] = "get" /\ tasks # <<>> /\ tasks' = Tail(tasks)
      /\ batch' = [batch EXCEPT ![w] = b]
      /\ at' = [at EXCEPT ![w] = IF b = Pill THEN "pill" ELSE "check"]
      /\ unfinished' = unfinished /\ results' = results /\ mainAt' = mainAt
      /\ primeCount' = primeCount
  BY DEF GetBatch, PrimeGoto
<1>2. /\ tasks' \in Seq(Batches \union {Pill}) /\ b \in Batches \union {Pill}
      /\ 1 \in DOMAIN tasks /\ Len(tasks') = Len(tasks) - 1 /\ Len(tasks) \in Nat
      /\ \A i \in DOMAIN tasks' : /\ i \in Nat /\ i >= 1
                                   /\ i + 1 \in DOMAIN tasks /\ tasks'[i] = tasks[i + 1]
      /\ \A i \in DOMAIN tasks : i \in Nat /\ (i # 1 => i - 1 \in DOMAIN tasks')
  <2>1. tasks \in Seq(Batches \union {Pill})
    BY DEF PrimesFullTypes
  <2> QED BY <1>1, <2>1, TailFacts, LenProperties
<1>3. batch[w] = Pill /\ PrimesOf(batch[w]) = {} /\ w \notin Busy /\ mainAt \notin {"fill", "read", "end"}
  BY <1>1, PrimesOfBatch DEF PrimePhases, Busy
<1>4. /\ \A v \in PrimeWorkers : batch'[v] = IF v = w THEN b ELSE batch[v]
      /\ \A v \in PrimeWorkers : at'[v] = IF v = w THEN IF b = Pill THEN "pill" ELSE "check" ELSE at[v]
  BY <1>1 DEF PrimesFullTypes
<1>5. PrimesFullTypes'
  BY <1>1, <1>2 DEF PrimesFullTypes
<1>6. InOnePlace'
  <2>1. \A i \in DOMAIN tasks' : i + 1 \in DOMAIN tasks /\ i + 1 # 1 /\ tasks'[i] = tasks[i + 1]
    BY <1>2
  <2>2. \A i, j \in DOMAIN tasks' : i # j => i + 1 # j + 1
    BY <1>2
  <2> HIDE DEF b
  <2>3. \A i \in DOMAIN tasks : i # 1 => Apart(PrimesOf(tasks[i]), PrimesOf(b))
    BY <1>2 DEF InOnePlace, b
  <2>4. \A v \in PrimeWorkers : Apart(PrimesOf(batch[v]), PrimesOf(b)) /\ Apart(PrimesOf(b), PrimesOf(batch[v]))
    BY <1>2 DEF InOnePlace, b, Apart
  <2>5. \A j \in DOMAIN results : Apart(PrimesOf(b), results[j])
    BY <1>2 DEF InOnePlace, b
  <2>6. \A i, j \in DOMAIN tasks' : i # j => Apart(PrimesOf(tasks'[i]), PrimesOf(tasks'[j]))
    BY <2>1, <2>2 DEF InOnePlace
  <2>7. \A i \in DOMAIN tasks', v \in PrimeWorkers : Apart(PrimesOf(tasks'[i]), PrimesOf(batch'[v]))
    BY <1>4, <2>1, <2>3 DEF InOnePlace
  <2>8. \A i \in DOMAIN tasks', j \in DOMAIN results : Apart(PrimesOf(tasks'[i]), results[j])
    BY <2>1 DEF InOnePlace
  <2>9. \A v, u \in PrimeWorkers : v # u => Apart(PrimesOf(batch'[v]), PrimesOf(batch'[u]))
    BY <1>4, <2>4 DEF InOnePlace
  <2>10. \A v \in PrimeWorkers, j \in DOMAIN results : Apart(PrimesOf(batch'[v]), results[j])
    BY <1>4, <2>5 DEF InOnePlace
  <2> QED BY <1>1, <2>6, <2>7, <2>8, <2>9, <2>10 DEF InOnePlace
<1>7. Uncounted' = Uncounted
  <2> DEFINE T == UNION {PrimesOf(tasks[i]) : i \in DOMAIN tasks}
             T2 == UNION {PrimesOf(tasks'[i]) : i \in DOMAIN tasks'}
             B == UNION {PrimesOf(batch[v]) : v \in PrimeWorkers}
             B2 == UNION {PrimesOf(batch'[v]) : v \in PrimeWorkers}
  <2>1. T = T2 \union PrimesOf(b)
    <3>1. \A i \in DOMAIN tasks : i = 1 \/ (i - 1 \in DOMAIN tasks' /\ tasks'[i - 1] = tasks[i])
      BY <1>2
    <3>2. T \subseteq T2 \union PrimesOf(b)
      BY <3>1
    <3>3. T2 \union PrimesOf(b) \subseteq T
      BY <1>2
    <3> QED BY <3>2, <3>3
  <2>2. B2 = B \union PrimesOf(b)
    BY <1>3, <1>4
  <2>3. Uncounted = T \union B \union (UNION {results[i] : i \in DOMAIN results})
    BY DEF Uncounted
  <2>4. Uncounted' = T2 \union B2 \union (UNION {results[i] : i \in DOMAIN results})
    BY <1>1 DEF Uncounted
  <2> HIDE DEF T, T2, B, B2
  <2> QED BY <2>1, <2>2, <2>3, <2>4
<1>8. CountedSoFar'
  BY <1>1, <1>7 DEF CountedSoFar
<1>9. Unfinished'
  <2>1. Busy' = Busy \union {w}
    BY <1>4 DEF Busy
  <2> QED BY <1>1, <1>2, <1>3, <2>1, BusyCount DEF Unfinished
<1>10. PrimePhases'
  BY <1>1, <1>3, <1>4 DEF PrimePhases
<1> QED BY <1>5, <1>6, <1>8, <1>9, <1>10

(* results.put(): the primes of the batch go from the worker to the list.  *)
LEMMA PutResultStep ==
  ASSUME PrimeInv, NEW w \in PrimeWorkers, PutResult(w) PROVE PrimeInv'
<1> USE DEF PrimeInv
<1> DEFINE p == PrimesOf(batch[w])
           n == Len(results) + 1
<1>1. /\ at[w] = "check" /\ results' = Append(results, p)
      /\ batch' = [batch EXCEPT ![w] = Pill] /\ at' = [at EXCEPT ![w] = "done"]
      /\ tasks' = tasks /\ unfinished' = unfinished /\ mainAt' = mainAt
      /\ primeCount' = primeCount
  BY DEF PutResult, PrimeGoto
<1>2. p \in SUBSET PrimesBelow
  BY PrimesOfBatch DEF PrimesFullTypes
<1>3. /\ results' \in Seq(SUBSET PrimesBelow)
      /\ \A i \in DOMAIN results' :
           \/ i \in DOMAIN results /\ results'[i] = results[i]
           \/ i = n /\ results'[i] = p
      /\ \A i \in DOMAIN results : i \in DOMAIN results' /\ results'[i] = results[i]
      /\ n \in DOMAIN results' /\ results'[n] = p
  <2>1. results \in Seq(SUBSET PrimesBelow)
    BY DEF PrimesFullTypes
  <2> HIDE DEF p
  <2> QED BY <1>1, <1>2, <2>1, AppendFacts
<1>4. /\ \A v \in PrimeWorkers : batch'[v] = IF v = w THEN Pill ELSE batch[v]
      /\ \A v \in PrimeWorkers : at'[v] = IF v = w THEN "done" ELSE at[v]
  BY <1>1 DEF PrimesFullTypes
<1>5. mainAt \notin {"fill", "read", "end"} /\ w \in Busy /\ Busy' = Busy
  BY <1>1, <1>4 DEF PrimePhases, Busy
<1>6. PrimesFullTypes'
  <2>1. PrimesBelow' = PrimesBelow
    BY DEF PrimesBelow, IsPrime
  <2> QED BY <1>1, <1>3, <2>1 DEF PrimesFullTypes
<1>7. InOnePlace'
  <2>1. \A v \in PrimeWorkers : PrimesOf(batch'[v]) = IF v = w THEN {} ELSE PrimesOf(batch[v])
    BY <1>4, PrimesOfBatch
  <2>2. \A i \in DOMAIN tasks, j \in DOMAIN results' : Apart(PrimesOf(tasks[i]), results'[j])
    BY <1>3 DEF InOnePlace
  <2>3. \A i \in DOMAIN tasks, v \in PrimeWorkers : Apart(PrimesOf(tasks[i]), PrimesOf(batch'[v]))
    BY <2>1 DEF InOnePlace, Apart
  <2>4. \A u, v \in PrimeWorkers : u # v => Apart(PrimesOf(batch'[u]), PrimesOf(batch'[v]))
    BY <2>1 DEF InOnePlace, Apart
  <2>5. \A v \in PrimeWorkers, j \in DOMAIN results' : Apart(PrimesOf(batch'[v]), results'[j])
    BY <1>3, <2>1 DEF InOnePlace, Apart
  <2>6. \A i, j \in DOMAIN results' : i # j => Apart(results'[i], results'[j])
    BY <1>3 DEF InOnePlace, Apart
  <2> QED BY <1>1, <2>2, <2>3, <2>4, <2>5, <2>6 DEF InOnePlace
<1>8. Uncounted' = Uncounted
  <2> DEFINE R == UNION {results[i] : i \in DOMAIN results}
             R2 == UNION {results'[i] : i \in DOMAIN results'}
             B == UNION {PrimesOf(batch[v]) : v \in PrimeWorkers}
             B2 == UNION {PrimesOf(batch'[v]) : v \in PrimeWorkers}
             T == UNION {PrimesOf(tasks[i]) : i \in DOMAIN tasks}
  <2>1. R2 = R \union p
    BY <1>3
  <2>2. B = B2 \union p
    <3>1. \A v \in PrimeWorkers : PrimesOf(batch'[v]) = IF v = w THEN {} ELSE PrimesOf(batch[v])
      BY <1>4, PrimesOfBatch
    <3> QED BY <3>1
  <2>3. Uncounted = T \union B \union R
    BY DEF Uncounted
  <2>4. Uncounted' = T \union B2 \union R2
    BY <1>1 DEF Uncounted
  <2> HIDE DEF T, B, B2, R, R2
  <2> QED BY <2>1, <2>2, <2>3, <2>4
<1>9. CountedSoFar'
  BY <1>1, <1>8 DEF CountedSoFar
<1>10. Unfinished'
  BY <1>1, <1>5 DEF Unfinished
<1>11. PrimePhases'
  BY <1>1, <1>4, <1>5 DEF PrimePhases
<1> QED BY <1>6, <1>7, <1>9, <1>10, <1>11

(* results.get(): the primes of the list are counted. *)
LEMMA ReadResultStep ==
  ASSUME PrimeInv, ReadResult PROVE PrimeInv'
<1> USE DEF PrimeInv
<1> DEFINE p == results[1]
<1>1. /\ mainAt = "read" /\ results # <<>> /\ results' = Tail(results)
      /\ primeCount' = primeCount + Cardinality(p)
      /\ tasks' = tasks /\ unfinished' = unfinished /\ at' = at /\ batch' = batch
      /\ mainAt' = mainAt
  BY DEF ReadResult
<1>2. /\ results' \in Seq(SUBSET PrimesBelow) /\ p \in SUBSET PrimesBelow
      /\ 1 \in DOMAIN results
      /\ \A i \in DOMAIN results' : /\ i \in Nat /\ i >= 1
                                     /\ i + 1 \in DOMAIN results /\ results'[i] = results[i + 1]
      /\ \A i \in DOMAIN results : i \in Nat /\ (i # 1 => i - 1 \in DOMAIN results')
  <2>1. results \in Seq(SUBSET PrimesBelow)
    BY DEF PrimesFullTypes
  <2> QED BY <1>1, <2>1, TailFacts
<1>3. IsFiniteSet(p) /\ Cardinality(p) \in Nat
  BY <1>2, PrimeConstants, FS_Subset, FS_CardinalityType
<1>4. PrimesBelow' = PrimesBelow
  BY DEF PrimesBelow, IsPrime
<1>5. PrimesFullTypes'
  BY <1>1, <1>2, <1>3, <1>4 DEF PrimesFullTypes
<1>6. /\ \A i \in DOMAIN results' : i + 1 \in DOMAIN results /\ i + 1 # 1 /\ results'[i] = results[i + 1]
      /\ \A i, j \in DOMAIN results' : i # j => i + 1 # j + 1
  BY <1>2
<1>7. InOnePlace'
  <2>1. \A i \in DOMAIN tasks, j \in DOMAIN results' : Apart(PrimesOf(tasks[i]), results'[j])
    BY <1>6 DEF InOnePlace
  <2>2. \A v \in PrimeWorkers, j \in DOMAIN results' : Apart(PrimesOf(batch[v]), results'[j])
    BY <1>6 DEF InOnePlace
  <2>3. \A i, j \in DOMAIN results' : i # j => Apart(results'[i], results'[j])
    BY <1>6 DEF InOnePlace
  <2> QED BY <1>1, <2>1, <2>2, <2>3 DEF InOnePlace
<1>8. Uncounted = Uncounted' \union p /\ Uncounted' \intersect p = {}
  <2> DEFINE R == UNION {results[i] : i \in DOMAIN results}
             R2 == UNION {results'[i] : i \in DOMAIN results'}
             B == UNION {PrimesOf(batch[v]) : v \in PrimeWorkers}
             T == UNION {PrimesOf(tasks[i]) : i \in DOMAIN tasks}
  <2>1. R = R2 \union p
    <3>1. \A i \in DOMAIN results : i = 1 \/ (i - 1 \in DOMAIN results' /\ results'[i - 1] = results[i])
      BY <1>2
    <3> QED BY <1>2, <3>1
  <2>2. R2 \intersect p = {}
    <3>1. \A i \in DOMAIN results' : results'[i] \intersect p = {}
      BY <1>2, <1>6 DEF InOnePlace, Apart
    <3> QED BY <3>1
  <2>3. B \intersect p = {}
    BY <1>2 DEF InOnePlace, Apart
  <2>4. T \intersect p = {}
    BY <1>2 DEF InOnePlace, Apart
  <2>5. Uncounted = T \union B \union R
    BY DEF Uncounted
  <2>6. Uncounted' = T \union B \union R2
    BY <1>1 DEF Uncounted
  <2> HIDE DEF T, B, R, R2, p
  <2> QED BY <2>1, <2>2, <2>3, <2>4, <2>5, <2>6
<1>9. CountedSoFar'
  <2> DEFINE c == PrimesBelow \ Uncounted
  <2>1. primeCount = Cardinality(c)
    BY <1>1 DEF CountedSoFar
  <2>2. IsFiniteSet(c)
    BY PrimeConstants, FS_Difference
  <2>3. PrimesBelow \ Uncounted' = c \union p
    BY <1>2, <1>8
  <2>4. c \intersect p = {}
    BY <1>8
  <2> HIDE DEF c, p
  <2>5. Cardinality(c \union p) = Cardinality(c) + Cardinality(p)
    <3>1. Cardinality(c \union p) = Cardinality(c) + Cardinality(p) - Cardinality(c \intersect p)
      BY <1>3, <2>2, FS_Union
    <3>2. Cardinality(c \intersect p) = 0 /\ Cardinality(c) \in Nat
      BY <2>2, <2>4, FS_EmptySet, FS_CardinalityType
    <3> QED BY <1>3, <3>1, <3>2
  <2> QED BY <1>1, <1>4, <2>1, <2>3, <2>5 DEF CountedSoFar, p
<1>10. Unfinished' /\ PrimePhases'
  BY <1>1 DEF Unfinished, PrimePhases, Busy
<1> QED BY <1>5, <1>7, <1>9, <1>10

(* Every step keeps the invariant;                                         *)
LEMMA PrimeStep ==
  ASSUME PrimeInv, [PrimesNext]_primeVars PROVE PrimeInv'
<1> USE DEF PrimeInv
<1>p. PrimesBelow' = PrimesBelow
  BY DEF PrimesBelow, IsPrime
<1>s. ASSUME tasks' = tasks, results' = results, batch' = batch,
             PrimesFullTypes', mainAt' # "fill" => primeCount' = Cardinality(PrimesBelow \ Uncounted),
             Unfinished', PrimePhases'
      PROVE  PrimeInv'
  <2>1. InOnePlace' /\ Uncounted' = Uncounted
    BY <1>s DEF InOnePlace, Uncounted
  <2> QED BY <1>p, <1>s, <2>1 DEF CountedSoFar
<1>1. CASE FillTasks
  BY <1>1, FillTasksStep
<1>2. CASE Join
  <2>1. /\ mainAt = "join" /\ unfinished = 0 /\ mainAt' = "read" /\ tasks' = tasks
        /\ unfinished' = unfinished /\ results' = results /\ at' = at /\ batch' = batch
        /\ primeCount' = primeCount
    BY <1>2 DEF Join
  <2>2. PrimesFullTypes'
    BY <1>p, <2>1 DEF PrimesFullTypes
  <2>3. Unfinished' /\ Busy' = Busy
    BY <2>1 DEF Unfinished, Busy
  <2>4. tasks = <<>> /\ Busy = {}
    <3>1. Len(tasks) \in Nat /\ Cardinality(Busy) \in Nat /\ tasks \in Seq(Batches \union {Pill})
      BY BusyCount, LenProperties DEF PrimesFullTypes
    <3>2. Len(tasks) = 0 /\ Cardinality(Busy) = 0
      BY <2>1, <3>1 DEF Unfinished
    <3> QED BY <3>1, <3>2, EmptySeq, BusyCount, FS_EmptySet
  <2>5. PrimePhases'
    BY <2>1, <2>3, <2>4 DEF PrimePhases
  <2> QED BY <1>s, <2>1, <2>2, <2>3, <2>5 DEF CountedSoFar
<1>3. CASE ReadResult
  BY <1>3, ReadResultStep
<1>4. CASE ReadNoMore
  <2>1. /\ mainAt = "read" /\ results = <<>> /\ mainAt' = "end" /\ tasks' = tasks
        /\ unfinished' = unfinished /\ results' = results /\ at' = at /\ batch' = batch
        /\ primeCount' = primeCount
    BY <1>4 DEF ReadNoMore
  <2>2. PrimesFullTypes'
    BY <1>p, <2>1 DEF PrimesFullTypes
  <2>3. Unfinished' /\ PrimePhases'
    BY <2>1 DEF Unfinished, Busy, PrimePhases
  <2> QED BY <1>s, <2>1, <2>2, <2>3 DEF CountedSoFar
<1>5. ASSUME NEW w \in PrimeWorkers, StartWorker(w) PROVE PrimeInv'
  <2>1. /\ mainAt = "start" /\ at[w] = "off" /\ at' = [at EXCEPT ![w] = "get"]
        /\ mainAt' \in {"join", "start"} /\ tasks' = tasks /\ unfinished' = unfinished
        /\ results' = results /\ batch' = batch /\ primeCount' = primeCount
    BY <1>5 DEF StartWorker, PrimeGoto
  <2>2. PrimesFullTypes'
    BY <1>p, <2>1 DEF PrimesFullTypes
  <2>3. Busy' = Busy
    BY <2>1 DEF Busy, PrimesFullTypes
  <2>4. Unfinished' /\ PrimePhases'
    BY <2>1, <2>3 DEF Unfinished, PrimePhases, PrimesFullTypes
  <2> QED BY <1>s, <2>1, <2>2, <2>4 DEF CountedSoFar
<1>6. ASSUME NEW w \in PrimeWorkers, GetBatch(w) PROVE PrimeInv'
  BY <1>6, GetBatchStep
<1>7. ASSUME NEW w \in PrimeWorkers, PutResult(w) PROVE PrimeInv'
  BY <1>7, PutResultStep
<1>8. ASSUME NEW w \in PrimeWorkers, TaskDone(w) PROVE PrimeInv'
  <2>1. /\ at[w] \in {"done", "pill"} /\ unfinished' = unfinished - 1
        /\ at' = [at EXCEPT ![w] = IF at[w] = "pill" THEN "end" ELSE "get"]
        /\ tasks' = tasks /\ results' = results /\ batch' = batch /\ mainAt' = mainAt
        /\ primeCount' = primeCount
    BY <1>8 DEF TaskDone, PrimeGoto
  <2>2. /\ w \in Busy /\ mainAt \notin {"fill", "read", "end"}
        /\ Busy' = Busy \ {w}
    BY <2>1 DEF Busy, PrimesFullTypes, PrimePhases
  <2>3. /\ Cardinality(Busy') = Cardinality(Busy) - 1 /\ Cardinality(Busy) \in Nat
        /\ Cardinality(Busy) # 0
    BY <2>2, BusyCount, FS_EmptySet
  <2>4. Unfinished' /\ unfinished' \in 0..(NumBatches + NumWorkers)
    <3>1. Len(tasks) \in Nat
      BY LenProperties DEF PrimesFullTypes
    <3> QED BY <2>1, <2>3, <3>1, PrimeConstants DEF Unfinished, PrimesFullTypes
  <2>5. PrimesFullTypes'
    BY <1>p, <2>1, <2>4 DEF PrimesFullTypes
  <2>6. PrimePhases'
    BY <2>1, <2>2 DEF PrimePhases, PrimesFullTypes
  <2> QED BY <1>s, <2>1, <2>4, <2>5, <2>6 DEF CountedSoFar
<1>9. CASE UNCHANGED primeVars
  <2>1. /\ tasks' = tasks /\ unfinished' = unfinished /\ results' = results /\ at' = at
        /\ batch' = batch /\ mainAt' = mainAt /\ primeCount' = primeCount
    BY <1>9 DEF primeVars
  <2>2. PrimesFullTypes'
    BY <1>p, <2>1 DEF PrimesFullTypes
  <2>3. Unfinished' /\ PrimePhases'
    BY <2>1 DEF Unfinished, Busy, PrimePhases
  <2> QED BY <1>s, <2>1, <2>2, <2>3 DEF CountedSoFar
<1> QED
  BY <1>1, <1>2, <1>3, <1>4, <1>5, <1>6, <1>7, <1>8, <1>9 DEF PrimesNext

(* hence it holds always.                                                  *)
LEMMA PrimeAlways == PrimesSpec => []PrimeInv
BY PrimeInit, PrimeStep, PTL DEF PrimesSpec

(* Queues, workers and counters keep their types, for any limit, size of a *)
(* batch and number of workers.                                            *)
THEOREM PrimesTypeCorrect == PrimesSpec => []PrimesTypeOK
<1>1. PrimeInv => PrimesTypeOK
  <2>1. PrimesBelow \subseteq 0..Limit
    BY PrimeConstants DEF PrimesBelow
  <2>2. results \in Seq(SUBSET PrimesBelow) => results \in Seq(SUBSET (0..Limit))
    BY <2>1, SeqMonotonic
  <2> QED BY <2>2 DEF PrimeInv, PrimesFullTypes, PrimesTypeOK
<1> QED BY <1>1, PrimeAlways, PTL

(* When the main thread has read all results it has counted every prime    *)
(* below the limit exactly once, whichever worker found it and in whatever *)
(* order the lists came.                                                   *)
THEOREM PrimesEveryPrimeCounted == PrimesSpec => []EveryPrimeCounted
<1>1. PrimeInv => EveryPrimeCounted
  <2> SUFFICES ASSUME PrimeInv, mainAt = "end" PROVE primeCount = Cardinality(PrimesBelow)
    BY DEF EveryPrimeCounted, PrimesBelow
  <2>1. tasks = <<>> /\ results = <<>> /\ \A w \in PrimeWorkers : batch[w] = Pill
    BY DEF PrimeInv, PrimePhases, Busy
  <2>2. /\ DOMAIN tasks = {} /\ DOMAIN results = {}
        /\ \A w \in PrimeWorkers : PrimesOf(batch[w]) = {}
    BY <2>1, PrimesOfBatch
  <2>3. Uncounted = {}
    BY <2>2 DEF Uncounted
  <2>4. PrimesBelow \ Uncounted = PrimesBelow
    BY <2>3
  <2> QED BY <2>4 DEF PrimeInv, CountedSoFar
<1> QED BY <1>1, PrimeAlways, PTL

-----------------------------------------------------------------------------
(* BenchLib: the invariant says where the job that is on shows, which is   *)
(* in one place only, and that the reports are those of the jobs before    *)
(* it.                                                                     *)

(* The job that is on shows in one place: a client that is open, a         *)
(* connection that is waited for, or an outcome that waits for its port.   *)
OneJob ==
  /\ latest = 0 <=> driving = "no"
  /\ \A c \in Clients : client[c].open =>
       c = latest /\ fired = "open" /\ ~connecting /\ due = Nothing
  /\ connecting => latest # 0 /\ fired = "open" /\ due = Nothing
  /\ due # Nothing => latest # 0 /\ fired = "open"
  /\ latest = 0 => fired = "open"
  /\ failure => fired = "failed"

(* The reports of benchmark p when the latest job is the l-th. *)
ReportsUpTo(p, l) ==
  IF p < ProgramOf(l) THEN Iterations
  ELSE IF p > ProgramOf(l) THEN 0
  ELSE IF fired = "ok" THEN Iterations
  ELSE IF JobOf(l) > WarmUp THEN JobOf(l) - 1 - WarmUp ELSE 0

Reported == \A p \in 1..NumPrograms : reports[p] = IF latest = 0 THEN 0 ELSE ReportsUpTo(p, latest)

TwistedInv == BenchLibTypeOK /\ OneJob /\ Reported

(* The constants are counts of something.                                  *)
LEMMA JobConstants ==
  /\ JobsEach \in Nat \ {0} /\ JobsEach = Iterations + WarmUp
  /\ NumPrograms \in Nat \ {0} /\ WarmUp \in Nat /\ Iterations \in Nat \ {0}
  /\ MinCount \in Nat /\ Concurrency \in Nat \ {0}
BY BenchLibAssumption DEF JobsEach

(* The jobs are numbered through: where the l-th one stands. *)
LEMMA JobPlace ==
  ASSUME NEW l \in Clients
  PROVE  /\ ProgramOf(l) \in 1..NumPrograms
         /\ JobOf(l) \in 1..JobsEach
         /\ l = JobsEach * (ProgramOf(l) - 1) + JobOf(l)
<1> DEFINE J == JobsEach
           q == (l - 1) \div J
           r == (l - 1) % J
<1>1. l \in 1..(NumPrograms * J) /\ J \in Nat \ {0} /\ NumPrograms \in Nat \ {0}
  BY JobConstants DEF Clients
<1>2. q \in Int /\ r \in 0..(J - 1) /\ l - 1 = J * q + r
  <2>1. l - 1 \in Int
    BY <1>1
  <2> QED BY <1>1, <2>1, DivisionFacts, Zenon
<1>3. ProgramOf(l) = q + 1 /\ JobOf(l) = r + 1
  BY DEF ProgramOf, JobOf
<1>4. q >= 0
  <2> HIDE DEF q, r, J
  <2> SUFFICES ASSUME q <= -1 PROVE FALSE
    BY <1>2
  <2>1. J * q <= J * (-1)
    BY <1>1, <1>2, TimesMonotone
  <2> QED BY <2>1, <1>1, <1>2
<1>5. q <= NumPrograms - 1
  <2> HIDE DEF q, r, J
  <2> SUFFICES ASSUME NumPrograms <= q PROVE FALSE
    BY <1>1, <1>2
  <2>1. J * NumPrograms <= J * q
    BY <1>1, <1>2, TimesMonotone
  <2> QED BY <2>1, <1>1, <1>2
<1> HIDE DEF q, r
<1> QED BY <1>1, <1>2, <1>3, <1>4, <1>5

(* And the other way round: the job that stands at a place.                *)
LEMMA PlaceOfJob ==
  ASSUME NEW p \in 1..NumPrograms, NEW k \in 1..JobsEach
  PROVE  LET l == JobsEach * (p - 1) + k
         IN  l \in Clients /\ ProgramOf(l) = p /\ JobOf(l) = k
<1> DEFINE J == JobsEach
           l == J * (p - 1) + k
<1>1. J \in Nat \ {0} /\ NumPrograms \in Nat \ {0} /\ p - 1 \in Nat /\ k - 1 \in 0..(J - 1)
  BY JobConstants
<1>2. l - 1 = J * (p - 1) + (k - 1)
  BY <1>1
<1>3. (l - 1) \div J = p - 1 /\ ((l - 1) % J) = k - 1
  <2>1. /\ (J * (p - 1) + (k - 1)) \div J = p - 1
        /\ ((J * (p - 1) + (k - 1)) % J) = k - 1
    <3>1. p - 1 \in Int
      BY <1>1
    <3> QED BY <1>1, <3>1, DivisionUnique, Zenon
  <2> HIDE DEF J, l
  <2> QED BY <1>2, <2>1, Zenon
<1>4. l \in 1..(NumPrograms * J)
  <2>1. J * (p - 1) <= J * (NumPrograms - 1) /\ J * 0 <= J * (p - 1)
    BY <1>1, TimesMonotone
  <2> QED BY <1>1, <2>1
<1>5. (p - 1) + 1 = p /\ (k - 1) + 1 = k
  OBVIOUS
<1> QED BY <1>3, <1>4, <1>5 DEF ProgramOf, JobOf, Clients

(* The job after the l-th. *)
LEMMA NextJobPlace ==
  ASSUME NEW l \in Clients
  PROVE  /\ JobOf(l) < JobsEach =>
              /\ l + 1 \in Clients
              /\ ProgramOf(l + 1) = ProgramOf(l) /\ JobOf(l + 1) = JobOf(l) + 1
         /\ JobOf(l) = JobsEach /\ ProgramOf(l) < NumPrograms =>
              /\ l + 1 \in Clients
              /\ ProgramOf(l + 1) = ProgramOf(l) + 1 /\ JobOf(l + 1) = 1
<1> DEFINE J == JobsEach
           p == ProgramOf(l)
           k == JobOf(l)
<1>1. /\ p \in 1..NumPrograms /\ k \in 1..J /\ l = J * (p - 1) + k
      /\ J \in Nat \ {0} /\ NumPrograms \in Nat \ {0}
  BY JobPlace, JobConstants
<1>2. ASSUME k < J PROVE l + 1 \in Clients /\ ProgramOf(l + 1) = p /\ JobOf(l + 1) = k + 1
  <2>1. k + 1 \in 1..J /\ l + 1 = J * (p - 1) + (k + 1)
    BY <1>1, <1>2
  <2> HIDE DEF p, k
  <2> QED BY <1>1, <2>1, PlaceOfJob
<1>3. ASSUME k = J, p < NumPrograms
      PROVE  l + 1 \in Clients /\ ProgramOf(l + 1) = p + 1 /\ JobOf(l + 1) = 1
  <2>1. p + 1 \in 1..NumPrograms /\ 1 \in 1..J /\ l + 1 = J * ((p + 1) - 1) + 1
    BY <1>1, <1>3
  <2> HIDE DEF p, k
  <2> QED BY <1>1, <2>1, PlaceOfJob
<1> QED BY <1>2, <1>3

(* The first job is the first of the first benchmark.                      *)
LEMMA FirstJobPlace ==
  1 \in Clients /\ ProgramOf(1) = 1 /\ JobOf(1) = 1
<1>1. 1 \in 1..NumPrograms /\ 1 \in 1..JobsEach /\ JobsEach * (1 - 1) + 1 = 1
  BY JobConstants
<1> QED BY <1>1, PlaceOfJob

ClientType == [requestCount : 0..MinCount, open : BOOLEAN, flying : 0..Concurrency, timer : BOOLEAN]

(* A client is started with all its requests before it.                    *)
LEMMA RunningType == \A k \in Kinds : Running(k) \in ClientType /\ Running(k).open
BY JobConstants DEF Running, ClientType

(* The invariant holds before the driver starts,                           *)
LEMMA TwistedInit == BenchLibInit => TwistedInv
<1> SUFFICES ASSUME BenchLibInit PROVE TwistedInv
  OBVIOUS
<1>1. Unborn \in ClientType /\ ~Unborn.open
  BY JobConstants DEF Unborn, ClientType
<1>2. BenchLibTypeOK
  <2>1. client \in [Clients -> ClientType]
    BY <1>1 DEF BenchLibInit
  <2>2. due \in [ok : BOOLEAN, count : -1..MinCount]
    BY JobConstants DEF BenchLibInit, Nothing
  <2>3. reports \in [1..NumPrograms -> 0..JobsEach]
    BY JobConstants DEF BenchLibInit
  <2> QED BY <2>1, <2>2, <2>3 DEF BenchLibInit, BenchLibTypeOK, Kinds, ClientType
<1>3. OneJob
  BY <1>1 DEF BenchLibInit, OneJob
<1>4. Reported
  BY DEF BenchLibInit, Reported
<1> QED BY <1>2, <1>3, <1>4 DEF TwistedInv

(* What NewJob leaves, when no client is open in cs. *)
LEMMA NewJobStep ==
  ASSUME TwistedInv, NEW cs \in [Clients -> ClientType], \A c \in Clients : ~cs[c].open,
         NewJob(cs), latest + 1 \in Clients
  PROVE  /\ latest' = latest + 1 /\ latest' # 0 /\ latest' \in Clients
         /\ kind' \in Kinds /\ connecting' \in BOOLEAN
         /\ client' \in [Clients -> ClientType]
         /\ \A c \in Clients : client'[c].open => c = latest' /\ ~connecting'
         /\ \A c \in Clients : c <= latest => client'[c] = cs[c]
<1>1. latest' = latest + 1 /\ kind' \in Kinds /\ latest \in {0} \union Clients
  BY DEF NewJob, TwistedInv, BenchLibTypeOK
<1>2. latest \in Nat /\ Clients \subseteq Nat
  BY <1>1 DEF Clients
<1>3. Running(kind') \in ClientType
  BY <1>1, RunningType
<1>4. CASE connecting'
  BY <1>1, <1>2, <1>4 DEF NewJob
<1>5. CASE ~connecting'
  <2>1. client' = [cs EXCEPT ![latest + 1] = Running(kind')]
    BY <1>5 DEF NewJob
  <2>2. connecting' = FALSE
    BY <1>5 DEF NewJob
  <2>3. \A c \in Clients : client'[c] = IF c = latest + 1 THEN Running(kind') ELSE cs[c]
    BY <2>1
  <2>4. client' \in [Clients -> ClientType]
    BY <1>3, <2>1
  <2>5. \A c \in Clients : c <= latest => client'[c] = cs[c]
    BY <1>2, <2>3
  <2>6. \A c \in Clients : client'[c].open => c = latest'
    BY <1>1, <2>3
  <2>7. latest' # 0
    BY <1>1, <1>2
  <2> QED BY <1>1, <2>2, <2>4, <2>5, <2>6, <2>7
<1> QED BY <1>4, <1>5

(* The end of the job that is on: every way on which its outcome reaches   *)
(* benchmark_report and work.                                              *)
LEMMA ProceedStep ==
  ASSUME TwistedInv, latest # 0, fired = "open",
         NEW cs \in [Clients -> ClientType], \A c \in Clients : ~cs[c].open,
         NEW o, o.ok => ~connecting,
         Proceed(cs, o), due' = Nothing, driving' = driving
  PROVE  /\ TwistedInv'
         /\ \A c \in Clients : c <= latest => client'[c] = cs[c]
         /\ \A c, d \in Clients : client'[c].open /\ client'[d].open => c = d
<1> DEFINE p == ProgramOf(latest)
           k == JobOf(latest)
<1>1. /\ latest \in Clients /\ latest \in Nat /\ driving # "no" /\ failure = FALSE
      /\ p \in 1..NumPrograms /\ k \in 1..JobsEach
  <2>1. latest \in Clients
    BY DEF TwistedInv, BenchLibTypeOK
  <2>2. latest \in Nat
    BY <2>1 DEF Clients
  <2>3. failure = FALSE /\ driving # "no"
    BY DEF TwistedInv, BenchLibTypeOK, OneJob
  <2> QED BY <2>1, <2>2, <2>3, JobPlace
<1>2. due' \in [ok : BOOLEAN, count : -1..MinCount]
  BY JobConstants DEF Nothing
<1>3. CASE JobFails(cs, o)
  <2>1. /\ fired' = "failed" /\ client' = cs /\ connecting' = FALSE /\ failure' \in BOOLEAN
        /\ latest' = latest /\ kind' = kind /\ reports' = reports
        /\ reactor' \in {"new", "running", "stopped"}
    BY <1>3 DEF JobFails, TooFew, TwistedInv, BenchLibTypeOK
  <2>2. BenchLibTypeOK'
    BY <2>1, <1>2 DEF TwistedInv, BenchLibTypeOK, ClientType
  <2>3. OneJob'
    BY <2>1, <1>1 DEF OneJob
  <2>4. Reported'
    BY <2>1 DEF TwistedInv, Reported, ReportsUpTo
  <2> QED BY <2>1, <2>2, <2>3, <2>4 DEF TwistedInv
<1>4. CASE JobEnds(cs, o)
  <2> DEFINE more == k < JobsEach \/ (driving = "multidriver" /\ p < NumPrograms)
  <2>1. failure' = FALSE
    BY <1>1, <1>4 DEF JobEnds
  <2>2. \A r \in 1..NumPrograms :
          reports'[r] = IF r = p /\ k > WarmUp THEN reports[r] + 1 ELSE reports[r]
    BY <1>1, <1>4 DEF JobEnds, IsReported, TwistedInv, BenchLibTypeOK
  <2>3. \A r \in 1..NumPrograms :
          reports'[r] = IF r < p THEN Iterations ELSE IF r > p THEN 0
                        ELSE IF k > WarmUp THEN k - WarmUp ELSE 0
    <3>1. \A r \in 1..NumPrograms :
            reports[r] = IF r < p THEN Iterations ELSE IF r > p THEN 0
                         ELSE IF k > WarmUp THEN k - 1 - WarmUp ELSE 0
      BY DEF TwistedInv, Reported, ReportsUpTo
    <3> HIDE DEF p, k
    <3> QED BY <1>1, <2>2, <3>1, JobConstants
  <2>4. reports' \in [1..NumPrograms -> 0..JobsEach]
    <3>1. \A r \in 1..NumPrograms : reports'[r] \in 0..JobsEach
      BY <2>3, <1>1, JobConstants
    <3>2. reports' = [reports EXCEPT ![p] = @ + 1] \/ reports' = reports
      BY <1>4 DEF JobEnds
    <3>3. \E S : reports' \in [1..NumPrograms -> S]
      <4>1. reports \in [1..NumPrograms -> Int]
        BY DEF TwistedInv, BenchLibTypeOK
      <4>2. reports' \in [1..NumPrograms -> Int]
        BY <4>1, <3>2
      <4> QED BY <4>2
    <3> QED BY <3>1, <3>3
  <2>5. CASE more
    <3>1. NewJob(cs) /\ fired' = fired /\ reactor' = reactor
      BY <1>4, <2>5 DEF JobEnds
    <3>2. latest + 1 \in Clients
      <4>1. k < JobsEach \/ (k = JobsEach /\ p < NumPrograms)
        BY <1>1, <2>5, JobConstants
      <4> QED BY <1>1, <4>1, NextJobPlace
    <3>3. /\ latest' = latest + 1 /\ latest' # 0 /\ latest' \in Clients
          /\ kind' \in Kinds /\ connecting' \in BOOLEAN
          /\ client' \in [Clients -> ClientType]
          /\ \A c \in Clients : client'[c].open => c = latest' /\ ~connecting'
          /\ \A c \in Clients : c <= latest => client'[c] = cs[c]
      BY <3>1, <3>2, NewJobStep
    <3>4. BenchLibTypeOK'
      BY <1>2, <2>1, <2>4, <3>1, <3>3 DEF TwistedInv, BenchLibTypeOK, ClientType
    <3>5. OneJob'
      BY <1>1, <2>1, <3>1, <3>3 DEF OneJob
    <3>6. Reported'
      <4>1. CASE k < JobsEach
        <5>1. ProgramOf(latest') = p /\ JobOf(latest') = k + 1
          BY <1>1, <4>1, <3>3, NextJobPlace
        <5>2. fired' = "open" /\ latest' # 0
          BY <3>1, <3>3
        <5> HIDE DEF p, k
        <5> SUFFICES ASSUME NEW r \in 1..NumPrograms PROVE reports'[r] = ReportsUpTo(r, latest)'
          BY <5>2 DEF Reported
        <5>3. ReportsUpTo(r, latest)' = IF r < p THEN Iterations ELSE IF r > p THEN 0
                        ELSE IF k + 1 > WarmUp THEN (k + 1) - 1 - WarmUp ELSE 0
          BY <5>1, <5>2 DEF ReportsUpTo, ProgramOf, JobOf
        <5> QED BY <1>1, <2>3, <5>3, JobConstants
      <4>2. CASE ~(k < JobsEach)
        <5>1. k = JobsEach /\ p < NumPrograms
          BY <1>1, <2>5, <4>2, JobConstants
        <5>2. ProgramOf(latest') = p + 1 /\ JobOf(latest') = 1
          BY <1>1, <5>1, <3>3, NextJobPlace
        <5>3. fired' = "open" /\ latest' # 0
          BY <3>1, <3>3
        <5> HIDE DEF p, k
        <5> SUFFICES ASSUME NEW r \in 1..NumPrograms PROVE reports'[r] = ReportsUpTo(r, latest)'
          BY <5>3 DEF Reported
        <5>4. ReportsUpTo(r, latest)' = IF r < p + 1 THEN Iterations ELSE IF r > p + 1 THEN 0
                        ELSE IF 1 > WarmUp THEN 1 - 1 - WarmUp ELSE 0
          BY <5>2, <5>3 DEF ReportsUpTo, ProgramOf, JobOf
        <5> QED BY <1>1, <2>3, <5>1, <5>4, JobConstants
      <4> QED BY <4>1, <4>2
    <3> QED BY <3>3, <3>4, <3>5, <3>6 DEF TwistedInv
  <2>6. CASE ~more
    <3>1. /\ client' = cs /\ fired' = "ok" /\ reactor' = "stopped"
          /\ latest' = latest /\ kind' = kind /\ connecting' = FALSE
      BY <1>4, <2>6 DEF JobEnds, TwistedInv, BenchLibTypeOK
    <3>2. k = JobsEach
      BY <1>1, <2>6, JobConstants
    <3>3. BenchLibTypeOK'
      BY <1>2, <2>1, <2>4, <3>1 DEF TwistedInv, BenchLibTypeOK, ClientType
    <3>4. OneJob'
      BY <1>1, <2>1, <3>1 DEF OneJob
    <3>5. Reported'
      BY <1>1, <2>3, <3>1, <3>2, JobConstants DEF Reported, ReportsUpTo
    <3> QED BY <3>1, <3>3, <3>4, <3>5 DEF TwistedInv
  <2> QED BY <2>5, <2>6
<1> QED BY <1>3, <1>4 DEF Proceed

(* A client that is not open makes no difference, and the one that is      *)
(* makes the next job or waits for its port.                               *)
LEMMA StopStep ==
  ASSUME TwistedInv, NEW c \in Clients, NEW cs \in [Clients -> ClientType],
         \A e \in Clients : cs[e].open = client[e].open,
         \A e \in Clients \ {c} : cs[e] = client[e],
         NEW o, o \in [ok : BOOLEAN, count : 0..MinCount],
         StopClient(cs, c, o), driving' = driving
  PROVE  /\ TwistedInv'
         /\ \A e, d \in Clients : client'[e].open /\ client'[d].open => e = d
         /\ \A e \in Clients : e <= latest /\ ~client[e].open =>
              /\ client'[e] = cs[e]
              /\ e = c => latest' = latest /\ fired' = fired
<1> DEFINE closed == [cs EXCEPT ![c].open = FALSE]
<1>1. CASE ~cs[c].open
  <2>1. /\ client' = cs
        /\ UNCHANGED <<kind, connecting, latest, fired, reports, failure, reactor, due>>
    BY <1>1 DEF StopClient
  <2>2. BenchLibTypeOK'
    BY <2>1 DEF TwistedInv, BenchLibTypeOK, ClientType
  <2>3. OneJob'
    BY <2>1 DEF TwistedInv, OneJob
  <2>4. Reported'
    BY <2>1 DEF TwistedInv, Reported, ReportsUpTo
  <2>5. \A e, d \in Clients : client'[e].open /\ client'[d].open => e = d
    BY <2>1 DEF TwistedInv, OneJob
  <2> QED BY <2>1, <2>2, <2>3, <2>4, <2>5 DEF TwistedInv
<1>2. CASE cs[c].open
  <2>1. /\ c = latest /\ fired = "open" /\ ~connecting /\ due = Nothing
        /\ latest # 0 /\ driving # "no"
        /\ \A e \in Clients : e # c => ~cs[e].open
    BY <1>2 DEF TwistedInv, OneJob, Clients
  <2>2. /\ closed \in [Clients -> ClientType]
        /\ \A e \in Clients : ~closed[e].open
        /\ \A e \in Clients : e # c => closed[e] = cs[e]
    BY <2>1 DEF ClientType
  <2>3. o \in [ok : BOOLEAN, count : -1..MinCount]
    OBVIOUS
  <2>4. CASE kind = "closes"
    <3>1. /\ client' = closed /\ due' = o
          /\ UNCHANGED <<kind, connecting, latest, fired, reports, failure, reactor>>
      BY <1>2, <2>4 DEF StopClient
    <3>2. BenchLibTypeOK'
      BY <2>2, <2>3, <3>1 DEF TwistedInv, BenchLibTypeOK, ClientType
    <3>3. OneJob'
      BY <2>1, <2>2, <3>1 DEF TwistedInv, OneJob
    <3>4. Reported'
      BY <3>1 DEF TwistedInv, Reported, ReportsUpTo
    <3> QED BY <1>2, <2>2, <3>1, <3>2, <3>3, <3>4 DEF TwistedInv
  <2>5. CASE kind # "closes"
    <3>1. Proceed(closed, o) /\ due' = Nothing
      BY <1>2, <2>1, <2>5 DEF StopClient
    <3> HIDE DEF closed
    <3>2. /\ TwistedInv'
          /\ \A e \in Clients : e <= latest => client'[e] = closed[e]
          /\ \A e, d \in Clients : client'[e].open /\ client'[d].open => e = d
      BY <2>1, <2>2, <2>3, <3>1, ProceedStep
    <3> QED BY <1>2, <2>2, <3>2
  <2> QED BY <2>4, <2>5
<1> QED BY <1>1, <1>2 DEF TwistedInv, BenchLibTypeOK

(* What StragglersOnlyDrain says of a step. *)
Drains ==
  /\ \A c, d \in Clients : client'[c].open /\ client'[d].open => c = d
  /\ \A c \in Clients : c <= latest /\ ~client[c].open /\ ~(connecting /\ c = latest) =>
       /\ ~client'[c].open
       /\ client'[c] # client[c] =>
            /\ \/ client'[c].flying < client[c].flying
               \/ client[c].timer /\ ~client'[c].timer
            /\ latest' = latest /\ fired' = fired

(* every step keeps it, and from a job whose client is not the latest it   *)
(* only drains;                                                            *)
LEMMA TwistedStep ==
  ASSUME TwistedInv, [BenchLibNext]_twistedVars
  PROVE  TwistedInv' /\ Drains
<1> USE DEF TwistedInv
<1>t. /\ client \in [Clients -> ClientType] /\ latest \in {0} \union Clients
      /\ kind \in Kinds /\ Clients \subseteq Nat
  BY DEF BenchLibTypeOK, ClientType, Clients
<1>f. \A c \in Clients : /\ client[c].flying \in 0..Concurrency /\ client[c].open \in BOOLEAN
                          /\ client[c].requestCount \in 0..MinCount
                          /\ client[c].timer \in BOOLEAN
  BY <1>t DEF ClientType
<1>1. CASE SetupDriver
  <2>1. /\ driving = "no" /\ driving' \in {"driver", "multidriver"} /\ NewJob(client)
        /\ reactor' = "running" /\ UNCHANGED <<due, fired, reports, failure>>
    BY <1>1 DEF SetupDriver
  <2>2. /\ latest = 0 /\ latest + 1 = 1 /\ \A c \in Clients : ~client[c].open
        /\ due = Nothing /\ fired = "open"
    BY <2>1, <1>t DEF OneJob, Clients
  <2>3. /\ latest' = 1 /\ kind' \in Kinds /\ connecting' \in BOOLEAN
        /\ latest' \in Clients /\ client' \in [Clients -> ClientType]
        /\ \A c \in Clients : client'[c].open => c = latest' /\ ~connecting'
        /\ \A c \in Clients : c <= latest => client'[c] = client[c]
    BY <1>t, <2>1, <2>2, FirstJobPlace, NewJobStep
  <2>4. BenchLibTypeOK'
    BY <2>1, <2>3 DEF BenchLibTypeOK, ClientType
  <2>5. OneJob'
    BY <2>1, <2>2, <2>3 DEF OneJob
  <2>6. Reported'
    <3> SUFFICES ASSUME NEW p \in 1..NumPrograms PROVE reports'[p] = ReportsUpTo(p, latest)'
      BY <2>3 DEF Reported
    <3>1. ProgramOf(latest') = 1 /\ JobOf(latest') = 1
      BY <2>3, FirstJobPlace
    <3>2. ReportsUpTo(p, latest)' = IF p < 1 THEN Iterations ELSE IF p > 1 THEN 0
                                    ELSE IF 1 > WarmUp THEN 1 - 1 - WarmUp ELSE 0
      BY <2>1, <2>2, <3>1 DEF ReportsUpTo, ProgramOf, JobOf
    <3>3. reports'[p] = 0
      BY <2>1, <2>2 DEF Reported
    <3> QED BY <3>2, <3>3, JobConstants
  <2> QED BY <2>2, <2>3, <2>4, <2>5, <2>6 DEF Drains
<1>2. CASE PortCloses
  <2>1. due # Nothing /\ Proceed(client, due) /\ due' = Nothing /\ driving' = driving
    BY <1>2 DEF PortCloses
  <2>2. latest # 0 /\ fired = "open" /\ ~connecting /\ \A c \in Clients : ~client[c].open
    BY <2>1 DEF OneJob
  <2>3. /\ TwistedInv'
        /\ \A c \in Clients : c <= latest => client'[c] = client[c]
        /\ \A c, d \in Clients : client'[c].open /\ client'[d].open => c = d
    BY <1>t, <2>1, <2>2, ProceedStep
  <2> QED BY <2>2, <2>3 DEF Drains
<1>3. CASE Connected
  <2>1. /\ connecting /\ connecting' = FALSE
        /\ client' = [client EXCEPT ![latest] = Running(kind)]
        /\ UNCHANGED <<driving, kind, latest, due, fired, reports, failure, reactor>>
    BY <1>3 DEF Connected
  <2>2. /\ latest \in Clients /\ fired = "open" /\ due = Nothing
        /\ \A c \in Clients : ~client[c].open
    BY <1>t, <2>1 DEF OneJob
  <2>3. Running(kind) \in ClientType
    BY <1>t, RunningType
  <2>4. \A c \in Clients : client'[c] = IF c = latest THEN Running(kind) ELSE client[c]
    BY <1>t, <2>1
  <2>5. client' \in [Clients -> ClientType]
    BY <1>t, <2>1, <2>3
  <2>6. BenchLibTypeOK'
    BY <2>1, <2>5 DEF BenchLibTypeOK, ClientType
  <2>7. OneJob'
    BY <2>1, <2>2, <2>4 DEF OneJob
  <2>8. Reported'
    BY <2>1 DEF Reported, ReportsUpTo
  <2> QED BY <2>1, <2>2, <2>4, <2>6, <2>7, <2>8 DEF Drains
<1>4. CASE ConnectFails
  <2>1. connecting /\ Proceed(client, Outcome(FALSE, 0)) /\ driving' = driving /\ due' = due
    BY <1>4 DEF ConnectFails
  <2>2. /\ latest # 0 /\ fired = "open" /\ due = Nothing
        /\ \A c \in Clients : ~client[c].open
    BY <2>1 DEF OneJob
  <2>3. ~Outcome(FALSE, 0).ok
    BY DEF Outcome
  <2>4. due' = Nothing
    BY <2>1, <2>2
  <2>5. /\ TwistedInv'
        /\ \A c \in Clients : c <= latest => client'[c] = client[c]
        /\ \A c, d \in Clients : client'[c].open /\ client'[d].open => c = d
    BY <1>t, <2>1, <2>2, <2>3, <2>4, ProceedStep
  <2> QED BY <2>2, <2>5 DEF Drains
<1>5. ASSUME NEW c \in Clients, TimeIsUp(c) PROVE TwistedInv' /\ Drains
  <2> DEFINE cs == [client EXCEPT ![c].timer = FALSE]
             o == Outcome(TRUE, client[c].requestCount)
  <2>1. client[c].timer /\ StopClient(cs, c, o) /\ driving' = driving
    BY <1>5 DEF TimeIsUp
  <2>2. /\ cs \in [Clients -> ClientType] /\ cs[c].timer = FALSE
        /\ \A e \in Clients : cs[e].open = client[e].open
        /\ \A e \in Clients \ {c} : cs[e] = client[e]
    BY <1>t DEF ClientType
  <2>3. o \in [ok : BOOLEAN, count : 0..MinCount]
    BY <1>f DEF Outcome
  <2> HIDE DEF cs, o
  <2>4. /\ TwistedInv'
        /\ \A e, d \in Clients : client'[e].open /\ client'[d].open => e = d
        /\ \A e \in Clients : e <= latest /\ ~client[e].open =>
              /\ client'[e] = cs[e]
              /\ e = c => latest' = latest /\ fired' = fired
    BY <2>1, <2>2, <2>3, StopStep
  <2> QED BY <2>1, <2>2, <2>4 DEF Drains
<1>6. ASSUME NEW c \in Clients, Continue(c) PROVE TwistedInv' /\ Drains
  <2> DEFINE counted == IF client[c].requestCount < MinCount THEN client[c].requestCount + 1
                      ELSE client[c].requestCount
             flying == IF client[c].open THEN client[c].flying ELSE client[c].flying - 1
  <2>1. /\ client[c].flying > 0
        /\ client' = [client EXCEPT ![c].requestCount = counted, ![c].flying = flying]
        /\ UNCHANGED <<driving, kind, connecting, latest, due, fired, reports, failure, reactor>>
    BY <1>6 DEF Continue
  <2>2. counted \in 0..MinCount /\ flying \in 0..Concurrency
    BY <1>f, <2>1, JobConstants
  <2> HIDE DEF counted, flying
  <2>3. /\ client' \in [Clients -> ClientType]
        /\ \A e \in Clients : client'[e].open = client[e].open
        /\ \A e \in Clients : e # c => client'[e] = client[e]
        /\ client'[c].flying = flying
    BY <1>t, <2>1, <2>2 DEF ClientType
  <2>4. BenchLibTypeOK'
    BY <2>1, <2>3 DEF BenchLibTypeOK, ClientType
  <2>5. OneJob'
    BY <2>1, <2>3 DEF OneJob
  <2>6. Reported'
    BY <2>1 DEF Reported, ReportsUpTo
  <2>7. ~client[c].open => client'[c].flying < client[c].flying
    BY <1>f, <2>3 DEF flying
  <2>8. \A e, d \in Clients : client'[e].open /\ client'[d].open => e = d
    BY <2>3 DEF OneJob
  <2> QED BY <2>1, <2>3, <2>4, <2>5, <2>6, <2>7, <2>8 DEF Drains
<1>7. ASSUME NEW c \in Clients, RequestFails(c) PROVE TwistedInv' /\ Drains
  <2> DEFINE cs == [client EXCEPT ![c].flying = @ - 1]
             o == Outcome(FALSE, 0)
  <2>1. client[c].flying > 0 /\ driving' = driving
    BY <1>7 DEF RequestFails
  <2>2. client[c].flying - 1 \in 0..Concurrency /\ client[c].flying - 1 < client[c].flying
    BY <1>f, <2>1, JobConstants
  <2>3. /\ cs \in [Clients -> ClientType] /\ cs[c].flying < client[c].flying
        /\ \A e \in Clients : cs[e].open = client[e].open
        /\ \A e \in Clients \ {c} : cs[e] = client[e]
    BY <1>t, <2>2 DEF ClientType
  <2>4. o \in [ok : BOOLEAN, count : 0..MinCount]
    BY JobConstants DEF Outcome
  <2>5. CASE kind = "tcp" /\ c = latest
    <3>1. /\ client' = cs
          /\ UNCHANGED <<kind, connecting, latest, due, fired, reports, failure, reactor>>
      BY <1>7, <2>5 DEF RequestFails
    <3>2. BenchLibTypeOK'
      BY <2>1, <2>3, <3>1 DEF BenchLibTypeOK, ClientType
    <3>3. OneJob'
      BY <2>1, <2>3, <3>1 DEF OneJob
    <3>4. Reported'
      BY <3>1 DEF Reported, ReportsUpTo
    <3>5. \A e, d \in Clients : client'[e].open /\ client'[d].open => e = d
      BY <2>3, <3>1 DEF OneJob
    <3> QED BY <2>3, <3>1, <3>2, <3>3, <3>4, <3>5 DEF Drains
  <2>6. CASE ~(kind = "tcp" /\ c = latest)
    <3>1. StopClient(cs, c, o)
      BY <1>7, <2>6 DEF RequestFails
    <3> HIDE DEF cs, o
    <3>2. /\ TwistedInv'
          /\ \A e, d \in Clients : client'[e].open /\ client'[d].open => e = d
          /\ \A e \in Clients : e <= latest /\ ~client[e].open =>
                /\ client'[e] = cs[e]
                /\ e = c => latest' = latest /\ fired' = fired
      BY <2>1, <2>3, <2>4, <3>1, StopStep
    <3> QED BY <2>3, <3>2 DEF Drains
  <2> QED BY <2>5, <2>6
<1>8. CASE UNCHANGED twistedVars
  <2>1. UNCHANGED <<driving, kind, connecting, client, latest, due, fired, reports, failure,
                    reactor>>
    BY <1>8 DEF twistedVars
  <2>2. BenchLibTypeOK' /\ OneJob' /\ Reported'
    BY <2>1 DEF BenchLibTypeOK, OneJob, Reported, ReportsUpTo
  <2> QED BY <2>1, <2>2 DEF Drains, OneJob
<1> QED
  BY <1>1, <1>2, <1>3, <1>4, <1>5, <1>6, <1>7, <1>8 DEF BenchLibNext, Goes

(* hence it holds always.                                                  *)
LEMMA TwistedAlways == BenchLibSpec => []TwistedInv
BY TwistedInit, TwistedStep, PTL DEF BenchLibSpec

(* Every client, flag and report keeps its type.                           *)
THEOREM BenchLibTypeCorrect == BenchLibSpec => []BenchLibTypeOK
<1>1. TwistedInv => BenchLibTypeOK
  BY DEF TwistedInv
<1> QED BY <1>1, TwistedAlways, PTL

(* A benchmark that is over has been reported as often as it was to be     *)
(* measured, and its warm-up never: no job is reported twice, though its   *)
(* port, its timer and its requests may all end it.                        *)
THEOREM BenchLibReportsAreIterations == BenchLibSpec => []ReportsAreIterations
<1>1. TwistedInv => ReportsAreIterations
  <2> SUFFICES ASSUME TwistedInv, NEW p \in 1..NumPrograms, latest # 0,
                      p < ProgramOf(latest) \/ (p = ProgramOf(latest) /\ fired = "ok")
               PROVE  reports[p] = Iterations
    BY DEF ReportsAreIterations, TwistedInv, OneJob
  <2>1. ProgramOf(latest) \in Nat
    BY JobPlace DEF TwistedInv, BenchLibTypeOK
  <2> QED BY <2>1 DEF TwistedInv, Reported, ReportsUpTo
<1> QED BY <1>1, TwistedAlways, PTL

(* The requests of a job that is over only come in: none of them reports,  *)
(* starts the next job or changes another client.                          *)
THEOREM BenchLibStragglersOnlyDrain == BenchLibSpec => StragglersOnlyDrain
<1>1. TwistedInv /\ [BenchLibNext]_twistedVars => [Drains]_twistedVars
  BY TwistedStep
<1> QED BY <1>1, TwistedAlways, PTL DEF BenchLibSpec, StragglersOnlyDrain, Drains

-----------------------------------------------------------------------------
(* Richards: the invariant joins the types, the agreement of marks and     *)
(* queues and what is left of the idle task when it has counted to its     *)
(* end.                                                                    *)

(* An idle task that has counted to its end holds for ever. *)
IdleEnds == count = 0 => holding[Idle]

KernelInv == RichardsTypeOK /\ PendingIsInput /\ IdleEnds

PacketOrNil == Packets \union {Nil}

(* A bit that is flipped leaves a word. *)
LEMMA FlipIsWord ==
  ASSUME NEW x \in 0..MaxWord
  PROVE  /\ Flip(x, 8) \in 0..MaxWord /\ Flip(x, 4096) \in 0..MaxWord
         /\ Flip(x, 16384) \in 0..MaxWord /\ Flip(x, 32768) \in 0..MaxWord
<1>0. MaxWord \in Nat /\ MaxWord = 65535
  BY DEF MaxWord
<1>1. x \in Nat /\ x <= 65535
  BY <1>0
<1>2. \A y \in Nat : y <= 65535 => y \in 0..MaxWord
  <2>1. MaxWord \in Nat /\ MaxWord >= 65535
    BY <1>0
  <2> QED BY <2>1
<1>3. /\ Flip(x, 8) \in Nat /\ Flip(x, 8) <= 65535
      /\ Flip(x, 4096) \in Nat /\ Flip(x, 4096) <= 65535
      /\ Flip(x, 16384) \in Nat /\ Flip(x, 16384) <= 65535
      /\ Flip(x, 32768) \in Nat /\ Flip(x, 32768) <= 65535
  BY <1>1 DEF Flip
<1> QED BY <1>2, <1>3

(* So does the step of the shift register.                                 *)
LEMMA XorIsWord ==
  ASSUME NEW x \in 0..MaxWord
  PROVE  /\ x \div 2 \in 0..MaxWord /\ XorD008(x \div 2) \in 0..MaxWord
<1> DEFINE W == 0..MaxWord
<1>0. MaxWord \in Nat
  BY DEF MaxWord
<1>1. x \div 2 \in W
  BY <1>0
<1> HIDE DEF W
<1>2. \A y \in W : /\ Flip(y, 8) \in W /\ Flip(y, 4096) \in W
                   /\ Flip(y, 16384) \in W /\ Flip(y, 32768) \in W
  BY FlipIsWord DEF W
<1>3. Flip(x \div 2, 8) \in W
  BY <1>1, <1>2
<1>4. Flip(Flip(x \div 2, 8), 4096) \in W
  BY <1>2, <1>3
<1>5. Flip(Flip(Flip(x \div 2, 8), 4096), 16384) \in W
  BY <1>2, <1>4
<1>6. XorD008(x \div 2) \in W
  BY <1>2, <1>5 DEF XorD008
<1> QED BY <1>1, <1>6 DEF W

(* The invariant holds of the tasks and packets that main() makes.         *)
LEMMA KernelInit == RichardsInit => KernelInv
<1> SUFFICES ASSUME RichardsInit PROVE KernelInv
  OBVIOUS
<1> USE RichardsAssumption DEF RichardsInit, Tasks, Packets, Handlers, Devices, Nil, Idle, Work,
        HandlerA, HandlerB, DevA, DevB, BufSize, IsWork
<1>0. control \in 0..MaxWord
  BY DEF MaxWord
<1>1. link \in [Packets -> Packets \union {Nil}]
  OBVIOUS
<1>2. ident \in [Packets -> Tasks \union {0}]
  OBVIOUS
<1>3. input \in [Tasks -> Packets \union {Nil}]
  OBVIOUS
<1>4. PendingIsInput
  <2>1. \A t \in Tasks : pending[t] <=> t \in {2, 3, 4}
    OBVIOUS
  <2>2. \A t \in Tasks : input[t] # Nil <=> t \in {2, 3, 4}
    OBVIOUS
  <2> QED BY <2>1, <2>2 DEF PendingIsInput
<1>5. /\ workIn \in [Handlers -> Packets \union {Nil}] /\ deviceIn \in [Handlers -> Packets \union {Nil}]
      /\ devPending \in [Devices -> Packets \union {Nil}] /\ count \in 0..IdleCount /\ count # 0
      /\ datum \in [Packets -> 0..BufSize] /\ cur \in Tasks /\ dest \in Handlers
  OBVIOUS
<1>6. /\ pending \in [Tasks -> BOOLEAN] /\ waiting \in [Tasks -> BOOLEAN]
      /\ holding \in [Tasks -> BOOLEAN] /\ holdCount \in Nat /\ qpktCount \in Nat
  OBVIOUS
<1>7. IdleEnds
  BY <1>5 DEF IdleEnds
<1> HIDE DEF RichardsInit, Tasks, Packets, Handlers, Devices, Nil, Idle, Work,
        HandlerA, HandlerB, DevA, DevB, BufSize, IsWork
<1> QED BY <1>5, <1>6, <1>7, <1>0, <1>1, <1>2, <1>3, <1>4 DEF KernelInv, RichardsTypeOK, IdleEnds

(* What a task sees once its packet, if it takes one, is out of the queue. *)
LEMMA TakenTypes ==
  ASSUME KernelInv, cur \in Tasks
  PROVE  /\ Msg \in PacketOrNil
         /\ InputNow \in [Tasks -> PacketOrNil]
         /\ PendingNow \in [Tasks -> BOOLEAN]
         /\ WaitingNow \in [Tasks -> BOOLEAN]
         /\ \A t \in Tasks : PendingNow[t] <=> InputNow[t] # Nil
<1> USE DEF KernelInv, RichardsTypeOK, PacketOrNil
<1>1. CASE TakesPacket
  <2>1. Msg = input[cur] /\ Msg # Nil /\ Msg \in Packets
    BY <1>1 DEF Msg, TakesPacket, PendingIsInput
  <2>2. link[Msg] \in PacketOrNil
    BY <2>1
  <2>3. /\ InputNow = [input EXCEPT ![cur] = link[Msg]]
        /\ PendingNow = [pending EXCEPT ![cur] = link[Msg] # Nil]
        /\ WaitingNow = [waiting EXCEPT ![cur] = FALSE]
    BY <1>1 DEF InputNow, PendingNow, WaitingNow
  <2> QED BY <2>1, <2>2, <2>3 DEF PendingIsInput
<1>2. CASE ~TakesPacket
  BY <1>2 DEF Msg, InputNow, PendingNow, WaitingNow, PendingIsInput
<1> QED BY <1>1, <1>2

(* append_to only links packets.                                           *)
LEMMA AppendToType ==
  ASSUME NEW links \in [Packets -> PacketOrNil], NEW p \in PacketOrNil, NEW head
  PROVE  AppendTo(links, p, head) \in [Packets -> PacketOrNil]
BY DEF AppendTo, PacketOrNil

(* wait_task and hold_self, the ways on which a task gives up control.     *)
LEMMA WaitTaskStep ==
  ASSUME KernelInv, cur \in Tasks, WaitTask
  PROVE  /\ input' \in [Tasks -> PacketOrNil] /\ pending' \in [Tasks -> BOOLEAN]
         /\ waiting' \in [Tasks -> BOOLEAN] /\ holding' = holding
         /\ cur' \in Tasks /\ ident' = ident /\ holdCount' = holdCount /\ qpktCount' = qpktCount
         /\ PendingIsInput'
BY TakenTypes DEF WaitTask, PendingIsInput

LEMMA HoldTaskStep ==
  ASSUME KernelInv, cur \in Tasks, HoldTask
  PROVE  /\ input' \in [Tasks -> PacketOrNil] /\ pending' \in [Tasks -> BOOLEAN]
         /\ waiting' \in [Tasks -> BOOLEAN]
         /\ holding' \in [Tasks -> BOOLEAN] /\ holding'[cur]
         /\ \A t \in Tasks : holding[t] => holding'[t]
         /\ cur' \in Tasks \union {Nil} /\ ident' = ident
         /\ holdCount' \in Nat /\ qpktCount' = qpktCount
         /\ PendingIsInput'
<1>1. cur - 1 \in Tasks \union {Nil}
  BY DEF Tasks, Nil
<1> QED BY <1>1, TakenTypes DEF HoldTask, PendingIsInput, KernelInv, RichardsTypeOK

(* qpkt of a packet, wherever it goes. *)
LEMMA QpktStep ==
  ASSUME KernelInv, cur \in Tasks, NEW p \in Packets, NEW to \in Tasks \union {0},
         NEW links \in [Packets -> PacketOrNil], Qpkt(p, to, links)
  PROVE  /\ input' \in [Tasks -> PacketOrNil] /\ pending' \in [Tasks -> BOOLEAN]
         /\ waiting' \in [Tasks -> BOOLEAN] /\ holding' = holding
         /\ link' \in [Packets -> PacketOrNil]
         /\ cur' \in Tasks \union {Nil} /\ ident' \in [Packets -> Tasks \union {0}]
         /\ holdCount' = holdCount /\ qpktCount' \in Nat
         /\ PendingIsInput'
<1>1. /\ InputNow \in [Tasks -> PacketOrNil]
      /\ PendingNow \in [Tasks -> BOOLEAN]
      /\ WaitingNow \in [Tasks -> BOOLEAN]
      /\ \A t \in Tasks : PendingNow[t] <=> InputNow[t] # Nil
  BY TakenTypes
<1>2. p \in PacketOrNil /\ p # Nil /\ Nil \in PacketOrNil
  BY DEF PacketOrNil, Packets, Nil
<1>3. /\ qpktCount' \in Nat /\ ident' \in [Packets -> Tasks \union {0}]
      /\ waiting' = WaitingNow /\ holding' = holding /\ holdCount' = holdCount
  BY DEF Qpkt, KernelInv, RichardsTypeOK
<1>4. CASE InputNow[to] = Nil
  <2>1. /\ input' = [InputNow EXCEPT ![to] = p]
        /\ pending' = [PendingNow EXCEPT ![to] = TRUE]
        /\ link' = [links EXCEPT ![p] = Nil]
        /\ cur' \in {to, cur}
    BY <1>4 DEF Qpkt
  <2>2. cur' \in Tasks \union {Nil}
    BY <2>1 DEF Nil
  <2>3. PendingIsInput'
    BY <1>1, <1>2, <2>1 DEF PendingIsInput
  <2> QED BY <1>1, <1>2, <1>3, <2>1, <2>2, <2>3
<1>5. CASE InputNow[to] # Nil
  <2>1. /\ link' = AppendTo(links, p, InputNow[to])
        /\ cur' = cur /\ input' = InputNow /\ pending' = PendingNow
    BY <1>5 DEF Qpkt
  <2>2. link' \in [Packets -> PacketOrNil]
    BY <1>2, <2>1, AppendToType
  <2> QED BY <1>1, <1>3, <2>1, <2>2 DEF PendingIsInput
<1> QED BY <1>4, <1>5

(* What a handler task makes of its two queues.                            *)
LEMMA HandlerTypes ==
  ASSUME KernelInv, cur \in Handlers
  PROVE  /\ cur \in Tasks
         /\ WorkNow \in PacketOrNil /\ DeviceNow \in PacketOrNil
         /\ LinkNow \in [Packets -> PacketOrNil]
<1>1. cur \in Tasks
  BY DEF Handlers, HandlerA, HandlerB, Tasks
<1>2. Msg \in PacketOrNil
  BY <1>1, TakenTypes
<1>3. /\ workIn[cur] \in PacketOrNil /\ deviceIn[cur] \in PacketOrNil
      /\ link \in [Packets -> PacketOrNil]
  BY DEF KernelInv, RichardsTypeOK, PacketOrNil
<1>4. LinkNow \in [Packets -> PacketOrNil]
  BY <1>2, <1>3, AppendToType DEF LinkNow
<1> QED BY <1>1, <1>2, <1>3, <1>4 DEF WorkNow, DeviceNow, HeadOr

(* Every step keeps the invariant;                                         *)
LEMMA KernelStep ==
  ASSUME KernelInv, [RichardsNext]_kernelVars PROVE KernelInv'
<1> USE DEF KernelInv
<1>n. \A p \in PacketOrNil : p # Nil => p \in Packets
  BY DEF PacketOrNil
<1>d. /\ Devices \subseteq Tasks /\ Handlers \subseteq Tasks /\ Idle \in Tasks /\ Work \in Tasks
      /\ HandlerA \in Handlers /\ HandlerB \in Handlers /\ Idle \notin Devices /\ Idle \notin Handlers
      /\ Idle # Work
  BY DEF Devices, Handlers, Tasks, Idle, Work, DevA, DevB, HandlerA, HandlerB
<1>1. CASE Skip
  <2>1. cur - 1 \in Tasks \union {Nil}
    BY <1>1 DEF Skip, RichardsTypeOK, Tasks, Nil
  <2> QED BY <1>1, <2>1 DEF Skip, RichardsTypeOK, PendingIsInput, IdleEnds, flags, recs
<1>2. CASE DeviceWaits
  <2>1. cur \in Tasks /\ WaitTask
    BY <1>d, <1>2 DEF DeviceWaits, Runs
  <2>2. UNCHANGED <<link, datum, recs>>
    BY <1>2 DEF DeviceWaits
  <2> QED BY <2>1, <2>2, WaitTaskStep DEF RichardsTypeOK, IdleEnds, recs, PacketOrNil
<1>3. CASE DeviceSends
  <2> DEFINE p == devPending[cur]
  <2>1. /\ cur \in Devices /\ cur \in Tasks /\ p # Nil /\ Qpkt(p, ident[p], link)
        /\ devPending' = [devPending EXCEPT ![cur] = Nil]
        /\ UNCHANGED <<datum, workIn, deviceIn, dest, control, count>>
    BY <1>d, <1>3 DEF DeviceSends, Runs
  <2>2. p \in Packets /\ ident[p] \in Tasks \union {0}
    BY <2>1 DEF RichardsTypeOK
  <2>3. link \in [Packets -> PacketOrNil]
    BY DEF RichardsTypeOK, PacketOrNil
  <2> HIDE DEF p
  <2> QED BY <2>1, <2>2, <2>3, QpktStep DEF RichardsTypeOK, IdleEnds, PacketOrNil
<1>4. CASE DeviceHolds
  <2>1. /\ cur \in Devices /\ cur \in Tasks /\ HoldTask
        /\ devPending' = [devPending EXCEPT ![cur] = Msg]
        /\ UNCHANGED <<link, datum, workIn, deviceIn, dest, control, count>>
    BY <1>d, <1>4 DEF DeviceHolds, Runs
  <2>2. Msg \in PacketOrNil
    BY <2>1, TakenTypes
  <2> QED BY <1>d, <2>1, <2>2, HoldTaskStep DEF RichardsTypeOK, IdleEnds, PacketOrNil
<1>5. CASE HandlerWaits
  <2>1. /\ cur \in Handlers /\ WaitTask
        /\ workIn' = [workIn EXCEPT ![cur] = WorkNow]
        /\ deviceIn' = [deviceIn EXCEPT ![cur] = DeviceNow]
        /\ link' = LinkNow /\ UNCHANGED <<datum, devPending, dest, control, count>>
    BY <1>5 DEF HandlerWaits, Runs
  <2> QED BY <2>1, HandlerTypes, WaitTaskStep DEF RichardsTypeOK, IdleEnds, PacketOrNil
<1>6. CASE HandlerReturnsWork
  <2>1. /\ cur \in Handlers /\ WorkNow # Nil
        /\ workIn' = [workIn EXCEPT ![cur] = LinkNow[WorkNow]]
        /\ deviceIn' = [deviceIn EXCEPT ![cur] = DeviceNow]
        /\ Qpkt(WorkNow, ident[WorkNow], LinkNow)
        /\ UNCHANGED <<datum, devPending, dest, control, count>>
    BY <1>6 DEF HandlerReturnsWork, Runs
  <2>2. /\ cur \in Tasks /\ WorkNow \in Packets /\ DeviceNow \in PacketOrNil
        /\ LinkNow \in [Packets -> PacketOrNil]
    BY <1>n, <2>1, HandlerTypes
  <2>3. ident[WorkNow] \in Tasks \union {0} /\ LinkNow[WorkNow] \in PacketOrNil
    BY <2>2 DEF RichardsTypeOK
  <2> QED BY <2>1, <2>2, <2>3, QpktStep DEF RichardsTypeOK, IdleEnds, PacketOrNil
<1>7. CASE HandlerFeedsDevice
  <2>1. /\ cur \in Handlers /\ WorkNow # Nil /\ DeviceNow # Nil /\ datum[WorkNow] < BufSize
        /\ workIn' = [workIn EXCEPT ![cur] = WorkNow]
        /\ deviceIn' = [deviceIn EXCEPT ![cur] = LinkNow[DeviceNow]]
        /\ datum' = [datum EXCEPT ![WorkNow] = @ + 1]
        /\ Qpkt(DeviceNow, ident[DeviceNow], LinkNow)
        /\ UNCHANGED <<devPending, dest, control, count>>
    BY <1>7 DEF HandlerFeedsDevice, Runs
  <2>2. /\ cur \in Tasks /\ WorkNow \in Packets /\ DeviceNow \in Packets
        /\ LinkNow \in [Packets -> PacketOrNil]
    BY <1>n, <2>1, HandlerTypes
  <2>3. ident[DeviceNow] \in Tasks \union {0} /\ LinkNow[DeviceNow] \in PacketOrNil
    BY <2>2 DEF RichardsTypeOK
  <2>4. datum' \in [Packets -> 0..BufSize]
    BY <2>1, <2>2 DEF RichardsTypeOK, BufSize
  <2> QED BY <2>1, <2>2, <2>3, <2>4, QpktStep DEF RichardsTypeOK, IdleEnds, PacketOrNil
<1>8. CASE IdleHolds
  <2>1. /\ cur = Idle /\ cur \in Tasks /\ count' = 0 /\ HoldTask
        /\ UNCHANGED <<link, datum, workIn, deviceIn, devPending, dest, control>>
    BY <1>d, <1>8 DEF IdleHolds, Runs
  <2> QED BY <2>1, HoldTaskStep, RichardsAssumption DEF RichardsTypeOK, IdleEnds, PacketOrNil
<1>9. CASE IdleReleases
  <2> DEFINE d == IF control % 2 = 0 THEN DevA ELSE DevB
  <2>1. /\ cur = Idle /\ ~holding[Idle] /\ count # 1 /\ count' = count - 1
        /\ holding' = [holding EXCEPT ![d] = FALSE]
        /\ cur' \in {d, cur}
        /\ control' = IF control % 2 = 0 THEN control \div 2 ELSE XorD008(control \div 2)
        /\ UNCHANGED <<input, pending, waiting, link, ident, datum, workIn, deviceIn, devPending,
                       dest, holdCount, qpktCount>>
    BY <1>9 DEF IdleReleases, Runs, HoldingOrWaiting
  <2>2. d \in Devices
    BY DEF Devices
  <2>3. control' \in 0..MaxWord
    BY <2>1, XorIsWord DEF RichardsTypeOK
  <2>4. count \in 0..IdleCount /\ count # 0 /\ count' \in 0..IdleCount /\ count' # 0
    BY <2>1, RichardsAssumption DEF RichardsTypeOK, IdleEnds
  <2> HIDE DEF d
  <2> QED BY <1>d, <2>1, <2>2, <2>3, <2>4 DEF RichardsTypeOK, PendingIsInput, IdleEnds
<1>10. CASE WorkWaits
  <2>1. cur \in Tasks /\ WaitTask
    BY <1>d, <1>10 DEF WorkWaits, Runs
  <2>2. UNCHANGED <<link, datum, recs>>
    BY <1>10 DEF WorkWaits
  <2> QED BY <2>1, <2>2, WaitTaskStep DEF RichardsTypeOK, IdleEnds, recs, PacketOrNil
<1>11. CASE WorkSends
  <2>1. /\ cur \in Tasks /\ Msg # Nil
        /\ dest' \in Handlers /\ datum' = [datum EXCEPT ![Msg] = 0]
        /\ Qpkt(Msg, dest', link)
        /\ UNCHANGED <<workIn, deviceIn, devPending, control, count>>
    BY <1>d, <1>11 DEF WorkSends, Runs
  <2>2. Msg \in Packets /\ dest' \in Tasks \union {0}
    BY <1>n, <1>d, <2>1, TakenTypes
  <2>3. link \in [Packets -> PacketOrNil] /\ datum' \in [Packets -> 0..BufSize]
    BY <2>1, <2>2 DEF RichardsTypeOK, PacketOrNil, BufSize
  <2>4. /\ input' \in [Tasks -> PacketOrNil] /\ pending' \in [Tasks -> BOOLEAN]
        /\ waiting' \in [Tasks -> BOOLEAN] /\ holding' = holding
        /\ link' \in [Packets -> PacketOrNil]
        /\ cur' \in Tasks \union {Nil} /\ ident' \in [Packets -> Tasks \union {0}]
        /\ holdCount' = holdCount /\ qpktCount' \in Nat
        /\ PendingIsInput'
    BY <2>1, <2>2, <2>3, QpktStep
  <2> QED BY <2>1, <2>3, <2>4 DEF RichardsTypeOK, IdleEnds, PacketOrNil
<1>12. CASE UNCHANGED kernelVars
  BY <1>12 DEF kernelVars, flags, recs, RichardsTypeOK, PendingIsInput, IdleEnds
<1> QED
  BY <1>1, <1>2, <1>3, <1>4, <1>5, <1>6, <1>7, <1>8, <1>9, <1>10, <1>11, <1>12 DEF RichardsNext

(* hence it holds always.                                                  *)
LEMMA KernelAlways == RichardsSpec => []KernelInv
BY KernelInit, KernelStep, PTL DEF RichardsSpec

(* The state of every task, every link of a packet and the shift register  *)
(* keep their types: the register stays a word of 16 bits.                 *)
THEOREM RichardsTypeCorrect == RichardsSpec => []RichardsTypeOK
<1>1. KernelInv => RichardsTypeOK
  BY DEF KernelInv
<1> QED BY <1>1, KernelAlways, PTL

(* A task is marked as having a packet exactly when a packet is in its     *)
(* queue: the scheduler, which only looks at the mark, never runs a task   *)
(* to take what is not there and never passes over one that has something  *)
(* to take.                                                                *)
THEOREM RichardsPendingIsInput == RichardsSpec => []PendingIsInput
<1>1. KernelInv => PendingIsInput
  BY DEF KernelInv
<1> QED BY <1>1, KernelAlways, PTL

(* PacketsKept: every packet has an owner, a list or a device, and a rank  *)
(* in it.  The links of a list lead from rank to rank.                     *)
Slots == ({"input"} \X Tasks) \union ({"work", "device"} \X Handlers) \union ({"pending"} \X Devices)
Linked(s) == s[1] # "pending"

Heads(in, wk, dv, pd) ==
  [s \in Slots |-> CASE s[1] = "input"   -> in[s[2]]
                     [] s[1] = "work"    -> wk[s[2]]
                     [] s[1] = "device"  -> dv[s[2]]
                     [] s[1] = "pending" -> pd[s[2]]]

(* h are the heads of the lists, k the links and id the destinations; the  *)
(* packets of F are in nobody's list, but in the hands of the task that    *)
(* runs.                                                                   *)
KeptBy(h, k, F, id, o, r) ==
  /\ \A p, q \in Packets \ F : o[p] = o[q] /\ r[p] = r[q] => p = q
  /\ \A s \in Slots :
       IF h[s] = Nil THEN \A q \in Packets \ F : o[q] # s
       ELSE /\ h[s] \in Packets \ F /\ o[h[s]] = s
            /\ \A q \in Packets \ F : o[q] = s => r[h[s]] <= r[q]
  /\ \A p \in Packets \ F :
       IF ~Linked(o[p]) THEN h[o[p]] = p
       ELSE IF k[p] = Nil THEN \A q \in Packets \ F : o[q] = o[p] => r[q] <= r[p]
       ELSE k[p] \in Packets \ F /\ o[k[p]] = o[p] /\ r[k[p]] = r[p] + 1
  /\ \A p \in Packets : id[p] = 0 => o[p] = <<"input", Work>>

Kept(h, k, F, id) ==
  \E o \in [Packets -> Slots], r \in [Packets -> Int] : KeptBy(h, k, F, id, o, r)

(* The first packet of a list is taken out of it. *)
LEMMA TakeFirst ==
  ASSUME NEW h \in [Slots -> PacketOrNil], NEW k \in [Packets -> PacketOrNil], NEW F, NEW id,
         Kept(h, k, F, id), NEW s \in Slots, Linked(s), h[s] # Nil
  PROVE  Kept([h EXCEPT ![s] = k[h[s]]], k, F \union {h[s]}, id)
<1> DEFINE p == h[s]
           g == [h EXCEPT ![s] = k[p]]
           E == F \union {p}
<1>1. PICK o \in [Packets -> Slots], r \in [Packets -> Int] : KeptBy(h, k, F, id, o, r)
  BY DEF Kept
<1>2. /\ p \in Packets \ F /\ o[p] = s /\ p # Nil
      /\ \A q \in Packets \ F : o[q] = s => r[p] <= r[q]
  BY <1>1 DEF KeptBy
<1>3. g[s] = k[p] /\ \A t \in Slots : t # s => g[t] = h[t]
  BY <1>2
<1>4. /\ \A q \in Packets : o[q] \in Slots /\ r[q] \in Int /\ k[q] \in PacketOrNil
      /\ \A q \in Packets \ E : q \in Packets \ F /\ q # p
      /\ \A q \in Packets \ F : q # p => q \in Packets \ E
  OBVIOUS
<1> HIDE DEF g, E, p
<1>5. \A x, q \in Packets \ E : o[x] = o[q] /\ r[x] = r[q] => x = q
  BY <1>1, <1>4 DEF KeptBy
<1>6. ASSUME NEW t \in Slots
      PROVE  IF g[t] = Nil THEN \A q \in Packets \ E : o[q] # t
             ELSE /\ g[t] \in Packets \ E /\ o[g[t]] = t
                  /\ \A q \in Packets \ E : o[q] = t => r[g[t]] <= r[q]
  <2>1. CASE t # s
    BY <1>1, <1>2, <1>3, <1>4, <2>1 DEF KeptBy
  <2>2. CASE t = s /\ k[p] = Nil
    <3>1. \A q \in Packets \ F : o[q] = s => r[q] <= r[p]
      BY <1>1, <1>2, <2>2 DEF KeptBy
    <3>2. \A q \in Packets \ F : o[q] = s => q = p
      BY <1>1, <1>2, <1>4, <3>1 DEF KeptBy
    <3> QED BY <1>3, <1>4, <2>2, <3>2
  <2>3. CASE t = s /\ k[p] # Nil
    <3>1. k[p] \in Packets \ F /\ o[k[p]] = s /\ r[k[p]] = r[p] + 1
      BY <1>1, <1>2, <2>3 DEF KeptBy
    <3>2. k[p] # p
      BY <1>2, <1>4, <3>1
    <3>3. \A q \in Packets \ E : o[q] = s => r[q] >= r[p] /\ r[q] # r[p]
      BY <1>1, <1>2, <1>4 DEF KeptBy
    <3> QED BY <1>2, <1>3, <1>4, <2>3, <3>1, <3>2, <3>3
  <2> QED BY <2>1, <2>2, <2>3
<1>7. ASSUME NEW x \in Packets \ E
      PROVE  IF ~Linked(o[x]) THEN g[o[x]] = x
             ELSE IF k[x] = Nil THEN \A q \in Packets \ E : o[q] = o[x] => r[q] <= r[x]
             ELSE k[x] \in Packets \ E /\ o[k[x]] = o[x] /\ r[k[x]] = r[x] + 1
  <2>1. x \in Packets \ F /\ x # p
    BY <1>4
  <2>2. CASE ~Linked(o[x])
    BY <1>1, <1>3, <1>4, <2>1, <2>2 DEF KeptBy
  <2>3. CASE Linked(o[x]) /\ k[x] = Nil
    BY <1>1, <1>4, <2>1, <2>3 DEF KeptBy
  <2>4. CASE Linked(o[x]) /\ k[x] # Nil
    <3>1. k[x] \in Packets \ F /\ o[k[x]] = o[x] /\ r[k[x]] = r[x] + 1
      BY <1>1, <2>1, <2>4 DEF KeptBy
    <3>2. k[x] # p
      BY <1>2, <1>4, <2>1, <3>1
    <3> QED BY <1>4, <2>4, <3>1, <3>2
  <2> QED BY <2>2, <2>3, <2>4
<1>8. KeptBy(g, k, E, id, o, r)
  BY <1>1, <1>5, <1>6, <1>7 DEF KeptBy
<1> QED BY <1>8 DEF Kept, g, E, p

(* So is the packet that a device works on. *)
LEMMA TakePending ==
  ASSUME NEW h \in [Slots -> PacketOrNil], NEW k, NEW F, NEW id,
         Kept(h, k, F, id), NEW s \in Slots, ~Linked(s), h[s] # Nil
  PROVE  Kept([h EXCEPT ![s] = Nil], k, F \union {h[s]}, id)
<1> DEFINE p == h[s]
           g == [h EXCEPT ![s] = Nil]
           E == F \union {p}
<1>1. PICK o \in [Packets -> Slots], r \in [Packets -> Int] : KeptBy(h, k, F, id, o, r)
  BY DEF Kept
<1>2. p \in Packets \ F /\ o[p] = s /\ p # Nil
  BY <1>1 DEF KeptBy
<1>3. g[s] = Nil /\ \A t \in Slots : t # s => g[t] = h[t]
  BY <1>2
<1>4. /\ \A q \in Packets : o[q] \in Slots /\ r[q] \in Int
      /\ \A q \in Packets \ E : q \in Packets \ F /\ q # p
      /\ \A q \in Packets \ F : q # p => q \in Packets \ E
  OBVIOUS
<1>p. p = h[s]
  OBVIOUS
<1> HIDE DEF g, E, p
<1>5. \A q \in Packets \ E : o[q] # s
  BY <1>1, <1>4, <1>p DEF KeptBy
<1>6. \A x, q \in Packets \ E : o[x] = o[q] /\ r[x] = r[q] => x = q
  BY <1>1, <1>4 DEF KeptBy
<1>7. ASSUME NEW t \in Slots
      PROVE  IF g[t] = Nil THEN \A q \in Packets \ E : o[q] # t
             ELSE /\ g[t] \in Packets \ E /\ o[g[t]] = t
                  /\ \A q \in Packets \ E : o[q] = t => r[g[t]] <= r[q]
  <2>1. CASE t # s
    BY <1>1, <1>2, <1>3, <1>4, <2>1 DEF KeptBy
  <2>2. CASE t = s
    BY <1>3, <1>5, <2>2
  <2> QED BY <2>1, <2>2
<1>8. ASSUME NEW x \in Packets \ E
      PROVE  IF ~Linked(o[x]) THEN g[o[x]] = x
             ELSE IF k[x] = Nil THEN \A q \in Packets \ E : o[q] = o[x] => r[q] <= r[x]
             ELSE k[x] \in Packets \ E /\ o[k[x]] = o[x] /\ r[k[x]] = r[x] + 1
  <2>1. x \in Packets \ F /\ o[x] # s /\ o[x] \in Slots
    BY <1>4, <1>5
  <2>2. CASE ~Linked(o[x])
    BY <1>1, <1>3, <2>1, <2>2 DEF KeptBy
  <2>3. CASE Linked(o[x]) /\ k[x] = Nil
    BY <1>1, <1>4, <2>1, <2>3 DEF KeptBy
  <2>4. CASE Linked(o[x]) /\ k[x] # Nil
    <3>1. k[x] \in Packets \ F /\ o[k[x]] = o[x] /\ r[k[x]] = r[x] + 1
      BY <1>1, <2>1, <2>4 DEF KeptBy
    <3>2. k[x] # p
      BY <1>2, <2>1, <3>1
    <3> QED BY <1>4, <2>4, <3>1, <3>2
  <2> QED BY <2>2, <2>3, <2>4
<1>9. KeptBy(g, k, E, id, o, r)
  BY <1>1, <1>6, <1>7, <1>8 DEF KeptBy
<1> QED BY <1>9 DEF Kept, g, E, p

(* A device takes a packet to work on. *)
LEMMA PutPending ==
  ASSUME NEW h \in [Slots -> PacketOrNil], NEW k, NEW F, NEW id,
         NEW p \in Packets, p \in F, id[p] # 0,
         Kept(h, k, F, id), NEW s \in Slots, ~Linked(s), h[s] = Nil
  PROVE  Kept([h EXCEPT ![s] = p], k, F \ {p}, id)
<1> DEFINE g == [h EXCEPT ![s] = p]
           E == F \ {p}
<1>1. PICK o \in [Packets -> Slots], r \in [Packets -> Int] : KeptBy(h, k, F, id, o, r)
  BY DEF Kept
<1> DEFINE u == [o EXCEPT ![p] = s]
<1>2. p # Nil
  BY DEF Packets, Nil
<1>3. g[s] = p /\ \A t \in Slots : t # s => g[t] = h[t]
  OBVIOUS
<1>4. /\ \A q \in Packets : o[q] \in Slots /\ r[q] \in Int
      /\ \A q \in Packets \ E : q = p \/ q \in Packets \ F
      /\ \A q \in Packets \ F : q \in Packets \ E /\ q # p
      /\ p \in Packets \ E
      /\ u \in [Packets -> Slots] /\ u[p] = s
      /\ \A q \in Packets : q # p => u[q] = o[q]
  OBVIOUS
<1> HIDE DEF g, E, u
<1>5. \A q \in Packets \ F : o[q] # s
  BY <1>1 DEF KeptBy
<1>6. \A x, q \in Packets \ E : u[x] = u[q] /\ r[x] = r[q] => x = q
  BY <1>1, <1>4, <1>5 DEF KeptBy
<1>7. ASSUME NEW t \in Slots
      PROVE  IF g[t] = Nil THEN \A q \in Packets \ E : u[q] # t
             ELSE /\ g[t] \in Packets \ E /\ u[g[t]] = t
                  /\ \A q \in Packets \ E : u[q] = t => r[g[t]] <= r[q]
  <2>1. CASE t # s
    BY <1>1, <1>3, <1>4, <2>1 DEF KeptBy
  <2>2. CASE t = s
    <3>1. \A q \in Packets \ E : u[q] = s => q = p
      BY <1>4, <1>5
    <3> QED BY <1>2, <1>3, <1>4, <2>2, <3>1
  <2> QED BY <2>1, <2>2
<1>8. ASSUME NEW x \in Packets \ E
      PROVE  IF ~Linked(u[x]) THEN g[u[x]] = x
             ELSE IF k[x] = Nil THEN \A q \in Packets \ E : u[q] = u[x] => r[q] <= r[x]
             ELSE k[x] \in Packets \ E /\ u[k[x]] = u[x] /\ r[k[x]] = r[x] + 1
  <2>1. CASE x = p
    BY <1>3, <1>4, <2>1
  <2>2. CASE x # p
    <3>1. x \in Packets \ F /\ u[x] = o[x] /\ o[x] # s /\ o[x] \in Slots
      BY <1>4, <1>5, <2>2
    <3>2. CASE ~Linked(o[x])
      BY <1>1, <1>3, <3>1, <3>2 DEF KeptBy
    <3>3. CASE Linked(o[x]) /\ k[x] = Nil
      BY <1>1, <1>4, <3>1, <3>3 DEF KeptBy
    <3>4. CASE Linked(o[x]) /\ k[x] # Nil
      BY <1>1, <1>4, <3>1, <3>4 DEF KeptBy
    <3> QED BY <3>1, <3>2, <3>3, <3>4
  <2> QED BY <2>1, <2>2
<1>9. \A q \in Packets : id[q] = 0 => u[q] = <<"input", Work>>
  BY <1>1, <1>4 DEF KeptBy
<1>10. KeptBy(g, k, E, id, u, r)
  BY <1>6, <1>7, <1>8, <1>9 DEF KeptBy
<1> QED BY <1>4, <1>10 DEF Kept, g, E

(* Some packet of a set has the greatest rank. *)
LEMMA GreatestRank ==
  ASSUME NEW r \in [Packets -> Int], NEW S \in SUBSET Packets, S # {}
  PROVE  \E z \in S : \A q \in S : r[q] <= r[z]
<1>n. PICK n \in Nat : n = 8
  OBVIOUS
<1> DEFINE Good == {i \in 0..n : \A T \in SUBSET (1..i) :
                                   T # {} => \E z \in T : \A q \in T : r[q] <= r[z]}
<1>1. 0 \in Good
  <2>1. 1..0 = {}
    OBVIOUS
  <2>2. \A T \in SUBSET (1..0) : T = {}
    BY <2>1
  <2>3. \A T \in SUBSET (1..0) : T # {} => \E z \in T : \A q \in T : r[q] <= r[z]
    BY <2>2
  <2>4. 0 \in 0..n
    OBVIOUS
  <2> QED BY <2>3, <2>4, Zenon
<1>2. ASSUME NEW i \in 1..n, i - 1 \in Good
      PROVE  i \in Good
  <2>1. SUFFICES ASSUME NEW T \in SUBSET (1..i), T # {}
                 PROVE  \E z \in T : \A q \in T : r[q] <= r[z]
    OBVIOUS
  <2>r. \A q \in 1..i : r[q] \in Int
    BY <1>n DEF Packets
  <2> DEFINE U == T \ {i}
  <2>2. U \in SUBSET (1..(i - 1))
    OBVIOUS
  <2>3. CASE U = {}
    <3>1. T = {i}
      BY <2>1, <2>3
    <3> QED BY <2>r, <3>1
  <2>4. CASE U # {}
    <3>1. PICK z \in U : \A q \in U : r[q] <= r[z]
      BY <1>2, <2>2, <2>4
    <3>2. z \in T /\ r[z] \in Int /\ r[i] \in Int
      BY <2>r
    <3>3. CASE i \in T /\ r[i] > r[z]
      BY <2>r, <3>1, <3>2, <3>3
    <3>4. CASE i \notin T \/ r[i] <= r[z]
      BY <2>r, <3>1, <3>2, <3>4
    <3> QED BY <3>2, <3>3, <3>4
  <2> QED BY <2>3, <2>4
<1>3. \A i \in 0..n : i \in Good
  <2> HIDE DEF Good
  <2> QED BY <1>1, <1>2, Upto
<1> QED BY <1>3, <1>n DEF Packets

(* The equation of the function that walks to the end of a list, *)
IsLast(f, links) == f = [q \in Packets |-> IF links[q] = Nil THEN q ELSE f[links[q]]]

(* which has a solution though links may be stale. *)
LEMMA LastSolves ==
  ASSUME NEW links \in [Packets -> PacketOrNil]
  PROVE  \E f : IsLast(f, links) /\ \A p : LastOf(links, p) = f[p]
<1> DEFINE closed(C) == \A q \in C : links[q] # Nil => links[q] \in C
           ends(q) == {x \in Packets : links[x] = Nil /\ \A C \in SUBSET Packets :
                                         closed(C) /\ q \in C => x \in C}
           g == [q \in Packets |-> CHOOSE x : x \in ends(q)]
<1>1. ASSUME NEW q \in Packets, links[q] = Nil
      PROVE  g[q] = q
  <2>1. closed({q})
    BY <1>1
  <2>2. ends(q) = {q}
    BY <1>1, <2>1
  <2> HIDE DEF ends
  <2> QED BY <2>2
<1>2. ASSUME NEW q \in Packets, links[q] # Nil
      PROVE  links[q] \in Packets /\ g[q] = g[links[q]]
  <2>1. links[q] \in Packets
    BY <1>2 DEF PacketOrNil
  <2>2. ASSUME NEW x \in ends(q)
        PROVE  x \in ends(links[q])
    <3>1. SUFFICES ASSUME NEW C \in SUBSET Packets, closed(C), links[q] \in C
                   PROVE  x \in C
      OBVIOUS
    <3>2. closed(C \union {q}) /\ C \union {q} \in SUBSET Packets
      BY <3>1
    <3>3. x \in C \union {q}
      BY <2>2, <3>2
    <3> QED BY <1>2, <3>3
  <2>3. ASSUME NEW x \in ends(links[q])
        PROVE  x \in ends(q)
    BY <1>2, <2>3
  <2>4. ends(q) = ends(links[q])
    <3> HIDE DEF ends
    <3> QED BY <2>2, <2>3
  <2> HIDE DEF ends
  <2> QED BY <2>1, <2>4
<1>3. IsLast(g, links)
  <2>1. g = [q \in Packets |-> g[q]]
    OBVIOUS
  <2> HIDE DEF g
  <2>2. \A q \in Packets : g[q] = IF links[q] = Nil THEN q ELSE g[links[q]]
    BY <1>1, <1>2
  <2> QED BY <2>1, <2>2, Zenon DEF IsLast
<1> HIDE DEF g
<1>4. PICK f : f = CHOOSE e : IsLast(e, links)
  OBVIOUS
<1>5. IsLast(f, links)
  BY <1>3, <1>4, Zenon
<1>6. \A p : LastOf(links, p) = f[p]
  BY <1>4, Zenon DEF LastOf, IsLast
<1> QED BY <1>5, <1>6

(* From the first packet of a list one comes to its last. *)
LEMMA LastIsLast ==
  ASSUME NEW h, NEW k \in [Packets -> PacketOrNil], NEW F, NEW id,
         NEW o \in [Packets -> Slots], NEW r \in [Packets -> Int], KeptBy(h, k, F, id, o, r),
         NEW s \in Slots, Linked(s), h[s] # Nil
  PROVE  \E z \in Packets \ F : /\ z = LastOf(k, h[s]) /\ o[z] = s /\ k[z] = Nil
                                /\ \A q \in Packets \ F : o[q] = s => r[q] <= r[z]
<1>1. PICK f : IsLast(f, k) /\ \A p : LastOf(k, p) = f[p]
  BY LastSolves
<1>2. \A x \in Packets : f[x] = IF k[x] = Nil THEN x ELSE f[k[x]]
  BY <1>1, Zenon DEF IsLast
<1>q. h[s] \in Packets \ F /\ o[h[s]] = s
  BY DEF KeptBy
<1> DEFINE Bad == {x \in Packets \ F : o[x] = s /\ ~(f[x] \in Packets \ F /\ o[f[x]] = s /\ k[f[x]] = Nil)}
<1>3. ASSUME Bad # {}
      PROVE  FALSE
  <2>1. PICK m \in Bad : \A x \in Bad : r[x] <= r[m]
    BY <1>3, GreatestRank
  <2>2. m \in Packets \ F /\ o[m] = s
    OBVIOUS
  <2>3. k[m] # Nil
    BY <1>2, <2>1, <2>2
  <2>4. k[m] \in Packets \ F /\ o[k[m]] = s /\ r[k[m]] = r[m] + 1
    BY <2>2, <2>3 DEF KeptBy
  <2>5. f[m] = f[k[m]]
    BY <1>2, <2>2, <2>3
  <2>6. k[m] \in Bad
    BY <2>1, <2>4, <2>5
  <2>7. r[m] \in Int /\ r[k[m]] <= r[m]
    BY <2>1, <2>2, <2>6
  <2> QED BY <2>4, <2>7
<1>4. PICK z \in Packets \ F : z = f[h[s]] /\ o[z] = s /\ k[z] = Nil
  BY <1>3, <1>q
<1>5. \A q \in Packets \ F : o[q] = s => r[q] <= r[z]
  BY <1>4 DEF KeptBy
<1>6. z = LastOf(k, h[s])
  BY <1>1, <1>4, Zenon
<1> HIDE DEF Bad
<1> QED BY <1>4, <1>5, <1>6

(* A packet becomes the last of a list. *)
LEMMA PutLast ==
  ASSUME NEW h \in [Slots -> PacketOrNil], NEW k \in [Packets -> PacketOrNil], NEW F,
         NEW id, NEW new, NEW p \in Packets, p \in F,
         new[p] # 0, \A q \in Packets : q # p => new[q] = id[q],
         Kept(h, k, F, id), NEW s \in Slots, Linked(s)
  PROVE  Kept([h EXCEPT ![s] = HeadOr(h[s], p)], AppendTo(k, p, h[s]), F \ {p}, new)
<1> DEFINE g == [h EXCEPT ![s] = HeadOr(h[s], p)]
           E == F \ {p}
           l == AppendTo(k, p, h[s])
<1>1. PICK o \in [Packets -> Slots], r \in [Packets -> Int] : KeptBy(h, k, F, id, o, r)
  BY DEF Kept
<1>c. PICK cut : cut = [k EXCEPT ![p] = Nil]
  OBVIOUS
<1> DEFINE u == [o EXCEPT ![p] = s]
           z == LastOf(cut, h[s])
           v == [r EXCEPT ![p] = IF h[s] = Nil THEN 0 ELSE r[z] + 1]
<1>2. p # Nil /\ Nil \in PacketOrNil
  BY DEF Packets, Nil, PacketOrNil
<1>3. /\ g[s] = IF h[s] = Nil THEN p ELSE h[s]
      /\ \A t \in Slots : t # s => g[t] = h[t]
  BY DEF HeadOr
<1>4. /\ \A q \in Packets : o[q] \in Slots /\ r[q] \in Int
      /\ \A q \in Packets \ E : q = p \/ q \in Packets \ F
      /\ \A q \in Packets \ F : q \in Packets \ E /\ q # p
      /\ p \in Packets \ E
      /\ u \in [Packets -> Slots] /\ u[p] = s
      /\ \A q \in Packets : q # p => u[q] = o[q] /\ v[q] = r[q]
      /\ cut \in [Packets -> PacketOrNil] /\ cut[p] = Nil /\ \A q \in Packets : q # p => cut[q] = k[q]
  BY <1>c, <1>2
<1>5. KeptBy(h, cut, F, id, o, r)
  <2> HIDE DEF g, E, u, v, z, l
  <2>1. \A x \in Packets \ F : cut[x] = k[x]
    BY <1>4
  <2> QED BY <1>1, <2>1 DEF KeptBy
<1>6. h[s] # Nil =>
        /\ z \in Packets \ F /\ o[z] = s /\ cut[z] = Nil
        /\ \A q \in Packets \ F : o[q] = s => r[q] <= r[z]
        /\ v[p] = r[z] + 1
        /\ l = [cut EXCEPT ![z] = p]
  <2>1. SUFFICES ASSUME h[s] # Nil
                 PROVE  /\ z \in Packets \ F /\ o[z] = s /\ cut[z] = Nil
                        /\ \A q \in Packets \ F : o[q] = s => r[q] <= r[z]
                        /\ v[p] = r[z] + 1
                        /\ l = [cut EXCEPT ![z] = p]
    OBVIOUS
  <2>2. cut \in [Packets -> PacketOrNil]
    BY <1>4
  <2>3. \E y \in Packets \ F : /\ y = z /\ o[y] = s /\ cut[y] = Nil
                               /\ \A q \in Packets \ F : o[q] = s => r[q] <= r[y]
    <3> HIDE DEF g, E, u, v, l
    <3> QED BY <1>5, <2>1, <2>2, LastIsLast
  <2>4. /\ z \in Packets \ F /\ o[z] = s /\ cut[z] = Nil
        /\ \A q \in Packets \ F : o[q] = s => r[q] <= r[z]
    <3> HIDE DEF z
    <3> QED BY <2>3
  <2>5. v[p] = r[z] + 1
    BY <2>1
  <2>6. l = [cut EXCEPT ![z] = p]
    BY <1>c, <2>1, Zenon DEF AppendTo
  <2> QED BY <2>4, <2>5, <2>6
<1>7. h[s] = Nil => l = cut /\ \A q \in Packets \ F : o[q] # s
  BY <1>1, <1>c DEF KeptBy, AppendTo
<1>8. v \in [Packets -> Int]
  BY <1>6
<1> HIDE DEF g, E, u, v, z, l
<1>9. /\ l[p] = Nil
      /\ \A q \in Packets \ F : \/ l[q] = k[q] /\ (h[s] = Nil \/ q # z)
                                \/ h[s] # Nil /\ q = z /\ l[q] = p
  BY <1>4, <1>6, <1>7
<1>10. \A q \in Packets \ F : o[q] = s => h[s] # Nil /\ r[q] < v[p]
  BY <1>4, <1>6, <1>7
<1>11. \A x, q \in Packets \ E : u[x] = u[q] /\ v[x] = v[q] => x = q
  BY <1>1, <1>4, <1>10 DEF KeptBy
<1>12. ASSUME NEW t \in Slots
      PROVE  IF g[t] = Nil THEN \A q \in Packets \ E : u[q] # t
             ELSE /\ g[t] \in Packets \ E /\ u[g[t]] = t
                  /\ \A q \in Packets \ E : u[q] = t => v[g[t]] <= v[q]
  <2>1. CASE t # s
    <3>1. \A q \in Packets \ E : u[q] = t => q \in Packets \ F /\ o[q] = t /\ v[q] = r[q]
      BY <1>4, <2>1
    <3>2. CASE g[t] = Nil
      BY <1>1, <1>3, <2>1, <3>1, <3>2 DEF KeptBy
    <3>3. CASE g[t] # Nil
      <4>1. /\ g[t] = h[t] /\ h[t] \in Packets \ F /\ o[h[t]] = t
            /\ \A q \in Packets \ F : o[q] = t => r[h[t]] <= r[q]
        BY <1>1, <1>3, <2>1, <3>3 DEF KeptBy
      <4> QED BY <1>4, <3>1, <3>3, <4>1
    <3> QED BY <3>2, <3>3
  <2>2. CASE t = s /\ h[s] = Nil
    <3>1. \A q \in Packets \ E : u[q] = s => q = p
      BY <1>4, <1>7, <2>2
    <3>2. v[p] \in Int
      BY <1>8
    <3> QED BY <1>2, <1>3, <1>4, <2>2, <3>1, <3>2
  <2>3. CASE t = s /\ h[s] # Nil
    <3>1. /\ g[s] = h[s] /\ h[s] \in Packets \ F /\ o[h[s]] = s
          /\ \A q \in Packets \ F : o[q] = s => r[h[s]] <= r[q]
      BY <1>1, <1>3, <2>3 DEF KeptBy
    <3>2. r[h[s]] <= v[p]
      BY <1>8, <1>10, <1>4, <3>1
    <3> QED BY <1>4, <2>3, <3>1, <3>2
  <2> QED BY <2>1, <2>2, <2>3
<1>13. ASSUME NEW x \in Packets \ E
      PROVE  IF ~Linked(u[x]) THEN g[u[x]] = x
             ELSE IF l[x] = Nil THEN \A q \in Packets \ E : u[q] = u[x] => v[q] <= v[x]
             ELSE l[x] \in Packets \ E /\ u[l[x]] = u[x] /\ v[l[x]] = v[x] + 1
  <2>1. CASE x = p
    <3>1. \A q \in Packets \ E : u[q] = s => v[q] <= v[p]
      BY <1>4, <1>8, <1>10
    <3> QED BY <1>4, <1>9, <2>1, <3>1
  <2>2. CASE x # p /\ h[s] # Nil /\ x = z
    <3>1. /\ l[x] = p /\ o[z] = s /\ v[p] = r[z] + 1 /\ z \in Packets
      BY <1>6, <1>9, <2>2
    <3> QED BY <1>2, <1>4, <2>2, <3>1
  <2>3. CASE x # p /\ (h[s] = Nil \/ x # z)
    <3>1. /\ x \in Packets \ F /\ u[x] = o[x] /\ v[x] = r[x] /\ o[x] \in Slots
          /\ l[x] = k[x]
      BY <1>4, <1>9, <2>3
    <3>2. CASE ~Linked(o[x])
      BY <1>1, <1>3, <3>1, <3>2 DEF KeptBy
    <3>3. CASE Linked(o[x]) /\ k[x] = Nil
      <4>1. \A q \in Packets \ F : o[q] = o[x] => r[q] <= r[x]
        BY <1>1, <3>1, <3>3 DEF KeptBy
      <4>2. o[x] # s
        <5>1. SUFFICES ASSUME o[x] = s PROVE FALSE
          OBVIOUS
        <5>2. h[s] # Nil /\ z \in Packets \ F /\ o[z] = s /\ r[z] <= r[x] /\ r[x] <= r[z]
          BY <1>6, <1>10, <3>1, <4>1, <5>1
        <5>3. r[x] = r[z] /\ x \in Packets \ F
          BY <1>4, <3>1, <5>2
        <5>4. x = z
          BY <1>1, <5>1, <5>2, <5>3 DEF KeptBy
        <5> QED BY <2>3, <5>2, <5>4
      <4> QED BY <1>4, <3>1, <3>3, <4>1, <4>2
    <3>4. CASE Linked(o[x]) /\ k[x] # Nil
      <4>1. k[x] \in Packets \ F /\ o[k[x]] = o[x] /\ r[k[x]] = r[x] + 1
        BY <1>1, <3>1, <3>4 DEF KeptBy
      <4> QED BY <1>4, <3>1, <3>4, <4>1
    <3> QED BY <3>1, <3>2, <3>3, <3>4
  <2> QED BY <2>1, <2>2, <2>3
<1>14. \A q \in Packets : new[q] = 0 => u[q] = <<"input", Work>>
  BY <1>1, <1>4 DEF KeptBy
<1>15. KeptBy(g, l, E, new, u, v)
  BY <1>11, <1>12, <1>13, <1>14 DEF KeptBy
<1> QED BY <1>4, <1>8, <1>15 DEF Kept, g, E, l

(* A packet that nobody has sent lies where main() puts it. *)
LEMMA HeadSent ==
  ASSUME NEW h, NEW k, NEW F, NEW id, Kept(h, k, F, id),
         NEW s \in Slots, s # <<"input", Work>>, h[s] # Nil
  PROVE  id[h[s]] # 0
BY DEF Kept, KeptBy

(* Where the heads are, *)
LEMMA SlotFacts ==
  /\ \A t \in Tasks : <<"input", t>> \in Slots /\ Linked(<<"input", t>>)
  /\ \A t \in Handlers : /\ <<"work", t>> \in Slots /\ Linked(<<"work", t>>)
                         /\ <<"device", t>> \in Slots /\ Linked(<<"device", t>>)
                         /\ <<"work", t>> # <<"input", Work>> /\ <<"device", t>> # <<"input", Work>>
  /\ \A t \in Devices : /\ <<"pending", t>> \in Slots /\ ~Linked(<<"pending", t>>)
                        /\ <<"pending", t>> # <<"input", Work>>
  /\ \A s \in Slots : \/ s[1] = "input" /\ s[2] \in Tasks /\ s = <<"input", s[2]>>
                      \/ s[1] = "work" /\ s[2] \in Handlers /\ s = <<"work", s[2]>>
                      \/ s[1] = "device" /\ s[2] \in Handlers /\ s = <<"device", s[2]>>
                      \/ s[1] = "pending" /\ s[2] \in Devices /\ s = <<"pending", s[2]>>
BY DEF Slots, Linked

(* what they are, *)
LEMMA HeadsOf ==
  ASSUME NEW in, NEW wk, NEW dv, NEW pd, NEW f, f = Heads(in, wk, dv, pd)
  PROVE  /\ \A t \in Tasks : f[<<"input", t>>] = in[t]
         /\ \A t \in Handlers : f[<<"work", t>>] = wk[t]
         /\ \A t \in Handlers : f[<<"device", t>>] = dv[t]
         /\ \A t \in Devices : f[<<"pending", t>>] = pd[t]
<1>1. \A s \in Slots : f[s] = CASE s[1] = "input"   -> in[s[2]]
                             [] s[1] = "work"    -> wk[s[2]]
                             [] s[1] = "device"  -> dv[s[2]]
                             [] s[1] = "pending" -> pd[s[2]]
  BY DEF Heads
<1>2. \A t \in Tasks : f[<<"input", t>>] = in[t]
  BY <1>1, SlotFacts
<1>3. \A t \in Handlers : f[<<"work", t>>] = wk[t]
  BY <1>1, SlotFacts
<1>4. \A t \in Handlers : f[<<"device", t>>] = dv[t]
  BY <1>1, SlotFacts
<1>5. \A t \in Devices : f[<<"pending", t>>] = pd[t]
  BY <1>1, SlotFacts
<1> QED BY <1>2, <1>3, <1>4, <1>5

LEMMA HeadsType ==
  ASSUME NEW in \in [Tasks -> PacketOrNil], NEW wk \in [Handlers -> PacketOrNil],
         NEW dv \in [Handlers -> PacketOrNil], NEW pd \in [Devices -> PacketOrNil]
  PROVE  Heads(in, wk, dv, pd) \in [Slots -> PacketOrNil]
<1>1. ASSUME NEW s \in Slots
      PROVE  (CASE s[1] = "input"   -> in[s[2]]
                [] s[1] = "work"    -> wk[s[2]]
                [] s[1] = "device"  -> dv[s[2]]
                [] s[1] = "pending" -> pd[s[2]]) \in PacketOrNil
  <2>1. CASE s[1] = "input" /\ s[2] \in Tasks
    BY <2>1
  <2>2. CASE s[1] = "work" /\ s[2] \in Handlers
    BY <2>2
  <2>3. CASE s[1] = "device" /\ s[2] \in Handlers
    BY <2>3
  <2>4. CASE s[1] = "pending" /\ s[2] \in Devices
    BY <2>4
  <2> QED BY <2>1, <2>2, <2>3, <2>4, SlotFacts
<1> QED BY <1>1 DEF Heads

(* and what changes when one of them does. *)
LEMMA OneChanges ==
  ASSUME NEW f \in [Slots -> PacketOrNil], NEW g \in [Slots -> PacketOrNil], NEW s \in Slots,
         NEW x, g[s] = x,
         \A t \in Tasks : <<"input", t>> # s => g[<<"input", t>>] = f[<<"input", t>>],
         \A t \in Handlers : <<"work", t>> # s => g[<<"work", t>>] = f[<<"work", t>>],
         \A t \in Handlers : <<"device", t>> # s => g[<<"device", t>>] = f[<<"device", t>>],
         \A t \in Devices : <<"pending", t>> # s => g[<<"pending", t>>] = f[<<"pending", t>>]
  PROVE  g = [f EXCEPT ![s] = x]
<1>1. ASSUME NEW u \in Slots, u # s
      PROVE  g[u] = f[u]
  <2>1. CASE u[2] \in Tasks /\ u = <<"input", u[2]>>
    <3>1. PICK t \in Tasks : u = <<"input", t>>
      BY <2>1
    <3> QED BY <1>1, <3>1
  <2>2. CASE u[2] \in Handlers /\ u = <<"work", u[2]>>
    <3>1. PICK t \in Handlers : u = <<"work", t>>
      BY <2>2
    <3> QED BY <1>1, <3>1
  <2>3. CASE u[2] \in Handlers /\ u = <<"device", u[2]>>
    <3>1. PICK t \in Handlers : u = <<"device", t>>
      BY <2>3
    <3> QED BY <1>1, <3>1
  <2>4. CASE u[2] \in Devices /\ u = <<"pending", u[2]>>
    <3>1. PICK t \in Devices : u = <<"pending", t>>
      BY <2>4
    <3> QED BY <1>1, <3>1
  <2> QED BY <2>1, <2>2, <2>3, <2>4, SlotFacts
<1> QED BY <1>1

LEMMA HeadsInput ==
  ASSUME NEW in \in [Tasks -> PacketOrNil], NEW wk \in [Handlers -> PacketOrNil],
         NEW dv \in [Handlers -> PacketOrNil], NEW pd \in [Devices -> PacketOrNil],
         NEW x \in PacketOrNil, NEW t \in Tasks,
         NEW i \in [Tasks -> PacketOrNil], i[t] = x,
         \A u \in Tasks : u # t => i[u] = in[u]
  PROVE  Heads(i, wk, dv, pd) = [Heads(in, wk, dv, pd) EXCEPT ![<<"input", t>>] = x]
<1>3. PICK f \in [Slots -> PacketOrNil], g \in [Slots -> PacketOrNil] :
        f = Heads(in, wk, dv, pd) /\ g = Heads(i, wk, dv, pd)
  BY HeadsType
<1>4. /\ \A u \in Tasks : f[<<"input", u>>] = in[u]
      /\ \A u \in Handlers : f[<<"work", u>>] = wk[u]
      /\ \A u \in Handlers : f[<<"device", u>>] = dv[u]
      /\ \A u \in Devices : f[<<"pending", u>>] = pd[u]
  BY <1>3, HeadsOf
<1>g. /\ \A u \in Tasks : g[<<"input", u>>] = i[u]
      /\ \A u \in Handlers : g[<<"work", u>>] = wk[u]
      /\ \A u \in Handlers : g[<<"device", u>>] = dv[u]
      /\ \A u \in Devices : g[<<"pending", u>>] = pd[u]
  BY <1>3, HeadsOf
<1>5. PICK s \in Slots : s = <<"input", t>>
  BY SlotFacts
<1>6. g[s] = x
  BY <1>5, <1>g
<1>7. \A u \in Tasks : <<"input", u>> # s => g[<<"input", u>>] = f[<<"input", u>>]
  BY <1>4, <1>5, <1>g
<1>8. \A u \in Handlers : <<"work", u>> # s => g[<<"work", u>>] = f[<<"work", u>>]
  BY <1>4, <1>5, <1>g
<1>9. \A u \in Handlers : <<"device", u>> # s => g[<<"device", u>>] = f[<<"device", u>>]
  BY <1>4, <1>5, <1>g
<1>10. \A u \in Devices : <<"pending", u>> # s => g[<<"pending", u>>] = f[<<"pending", u>>]
  BY <1>4, <1>5, <1>g
<1>11. g = [f EXCEPT ![s] = x]
  BY <1>6, <1>7, <1>8, <1>9, <1>10, OneChanges
<1> QED BY <1>3, <1>5, <1>11, Zenon

LEMMA HeadsWork ==
  ASSUME NEW in \in [Tasks -> PacketOrNil], NEW wk \in [Handlers -> PacketOrNil],
         NEW dv \in [Handlers -> PacketOrNil], NEW pd \in [Devices -> PacketOrNil],
         NEW x \in PacketOrNil, NEW t \in Handlers,
         NEW i \in [Handlers -> PacketOrNil], i[t] = x,
         \A u \in Handlers : u # t => i[u] = wk[u]
  PROVE  Heads(in, i, dv, pd) = [Heads(in, wk, dv, pd) EXCEPT ![<<"work", t>>] = x]
<1>3. PICK f \in [Slots -> PacketOrNil], g \in [Slots -> PacketOrNil] :
        f = Heads(in, wk, dv, pd) /\ g = Heads(in, i, dv, pd)
  BY HeadsType
<1>4. /\ \A u \in Tasks : f[<<"input", u>>] = in[u]
      /\ \A u \in Handlers : f[<<"work", u>>] = wk[u]
      /\ \A u \in Handlers : f[<<"device", u>>] = dv[u]
      /\ \A u \in Devices : f[<<"pending", u>>] = pd[u]
  BY <1>3, HeadsOf
<1>g. /\ \A u \in Tasks : g[<<"input", u>>] = in[u]
      /\ \A u \in Handlers : g[<<"work", u>>] = i[u]
      /\ \A u \in Handlers : g[<<"device", u>>] = dv[u]
      /\ \A u \in Devices : g[<<"pending", u>>] = pd[u]
  BY <1>3, HeadsOf
<1>5. PICK s \in Slots : s = <<"work", t>>
  BY SlotFacts
<1>6. g[s] = x
  BY <1>5, <1>g
<1>7. \A u \in Tasks : <<"input", u>> # s => g[<<"input", u>>] = f[<<"input", u>>]
  BY <1>4, <1>5, <1>g
<1>8. \A u \in Handlers : <<"work", u>> # s => g[<<"work", u>>] = f[<<"work", u>>]
  BY <1>4, <1>5, <1>g
<1>9. \A u \in Handlers : <<"device", u>> # s => g[<<"device", u>>] = f[<<"device", u>>]
  BY <1>4, <1>5, <1>g
<1>10. \A u \in Devices : <<"pending", u>> # s => g[<<"pending", u>>] = f[<<"pending", u>>]
  BY <1>4, <1>5, <1>g
<1>11. g = [f EXCEPT ![s] = x]
  BY <1>6, <1>7, <1>8, <1>9, <1>10, OneChanges
<1> QED BY <1>3, <1>5, <1>11, Zenon

LEMMA HeadsDevice ==
  ASSUME NEW in \in [Tasks -> PacketOrNil], NEW wk \in [Handlers -> PacketOrNil],
         NEW dv \in [Handlers -> PacketOrNil], NEW pd \in [Devices -> PacketOrNil],
         NEW x \in PacketOrNil, NEW t \in Handlers,
         NEW i \in [Handlers -> PacketOrNil], i[t] = x,
         \A u \in Handlers : u # t => i[u] = dv[u]
  PROVE  Heads(in, wk, i, pd) = [Heads(in, wk, dv, pd) EXCEPT ![<<"device", t>>] = x]
<1>3. PICK f \in [Slots -> PacketOrNil], g \in [Slots -> PacketOrNil] :
        f = Heads(in, wk, dv, pd) /\ g = Heads(in, wk, i, pd)
  BY HeadsType
<1>4. /\ \A u \in Tasks : f[<<"input", u>>] = in[u]
      /\ \A u \in Handlers : f[<<"work", u>>] = wk[u]
      /\ \A u \in Handlers : f[<<"device", u>>] = dv[u]
      /\ \A u \in Devices : f[<<"pending", u>>] = pd[u]
  BY <1>3, HeadsOf
<1>g. /\ \A u \in Tasks : g[<<"input", u>>] = in[u]
      /\ \A u \in Handlers : g[<<"work", u>>] = wk[u]
      /\ \A u \in Handlers : g[<<"device", u>>] = i[u]
      /\ \A u \in Devices : g[<<"pending", u>>] = pd[u]
  BY <1>3, HeadsOf
<1>5. PICK s \in Slots : s = <<"device", t>>
  BY SlotFacts
<1>6. g[s] = x
  BY <1>5, <1>g
<1>7. \A u \in Tasks : <<"input", u>> # s => g[<<"input", u>>] = f[<<"input", u>>]
  BY <1>4, <1>5, <1>g
<1>8. \A u \in Handlers : <<"work", u>> # s => g[<<"work", u>>] = f[<<"work", u>>]
  BY <1>4, <1>5, <1>g
<1>9. \A u \in Handlers : <<"device", u>> # s => g[<<"device", u>>] = f[<<"device", u>>]
  BY <1>4, <1>5, <1>g
<1>10. \A u \in Devices : <<"pending", u>> # s => g[<<"pending", u>>] = f[<<"pending", u>>]
  BY <1>4, <1>5, <1>g
<1>11. g = [f EXCEPT ![s] = x]
  BY <1>6, <1>7, <1>8, <1>9, <1>10, OneChanges
<1> QED BY <1>3, <1>5, <1>11, Zenon

LEMMA HeadsPending ==
  ASSUME NEW in \in [Tasks -> PacketOrNil], NEW wk \in [Handlers -> PacketOrNil],
         NEW dv \in [Handlers -> PacketOrNil], NEW pd \in [Devices -> PacketOrNil],
         NEW x \in PacketOrNil, NEW t \in Devices,
         NEW i \in [Devices -> PacketOrNil], i[t] = x,
         \A u \in Devices : u # t => i[u] = pd[u]
  PROVE  Heads(in, wk, dv, i) = [Heads(in, wk, dv, pd) EXCEPT ![<<"pending", t>>] = x]
<1>3. PICK f \in [Slots -> PacketOrNil], g \in [Slots -> PacketOrNil] :
        f = Heads(in, wk, dv, pd) /\ g = Heads(in, wk, dv, i)
  BY HeadsType
<1>4. /\ \A u \in Tasks : f[<<"input", u>>] = in[u]
      /\ \A u \in Handlers : f[<<"work", u>>] = wk[u]
      /\ \A u \in Handlers : f[<<"device", u>>] = dv[u]
      /\ \A u \in Devices : f[<<"pending", u>>] = pd[u]
  BY <1>3, HeadsOf
<1>g. /\ \A u \in Tasks : g[<<"input", u>>] = in[u]
      /\ \A u \in Handlers : g[<<"work", u>>] = wk[u]
      /\ \A u \in Handlers : g[<<"device", u>>] = dv[u]
      /\ \A u \in Devices : g[<<"pending", u>>] = i[u]
  BY <1>3, HeadsOf
<1>5. PICK s \in Slots : s = <<"pending", t>>
  BY SlotFacts
<1>6. g[s] = x
  BY <1>5, <1>g
<1>7. \A u \in Tasks : <<"input", u>> # s => g[<<"input", u>>] = f[<<"input", u>>]
  BY <1>4, <1>5, <1>g
<1>8. \A u \in Handlers : <<"work", u>> # s => g[<<"work", u>>] = f[<<"work", u>>]
  BY <1>4, <1>5, <1>g
<1>9. \A u \in Handlers : <<"device", u>> # s => g[<<"device", u>>] = f[<<"device", u>>]
  BY <1>4, <1>5, <1>g
<1>10. \A u \in Devices : <<"pending", u>> # s => g[<<"pending", u>>] = f[<<"pending", u>>]
  BY <1>4, <1>5, <1>g
<1>11. g = [f EXCEPT ![s] = x]
  BY <1>6, <1>7, <1>8, <1>9, <1>10, OneChanges
<1> QED BY <1>3, <1>5, <1>11, Zenon

(* No device that works on a packet waits for another, and the idle task   *)
(* takes none.                                                             *)
OnlyIdleDevicesWait == \A d \in Devices : devPending[d] # Nil => ~waiting[d]

PacketsInv == /\ KernelInv
              /\ Kept(Heads(input, workIn, deviceIn, devPending), link, {}, ident)
              /\ OnlyIdleDevicesWait
              /\ ~waiting[Idle]

(* What runTask does before the task's function gets control. *)
LEMMA TakenKept ==
  ASSUME PacketsInv, cur \in Tasks
  PROVE  /\ Msg = Nil => InputNow = input
         /\ Msg # Nil => waiting[cur] /\ ~WaitingNow[cur] /\ Msg = input[cur] /\ Msg \in Packets
         /\ \A t \in Tasks : WaitingNow[t] => waiting[t]
         /\ Kept(Heads(InputNow, workIn, deviceIn, devPending), link,
                 IF Msg = Nil THEN {} ELSE {Msg}, ident)
<1> USE DEF PacketsInv
<1>0. /\ input \in [Tasks -> PacketOrNil] /\ workIn \in [Handlers -> PacketOrNil]
      /\ deviceIn \in [Handlers -> PacketOrNil] /\ devPending \in [Devices -> PacketOrNil]
      /\ link \in [Packets -> PacketOrNil] /\ waiting \in [Tasks -> BOOLEAN]
  BY DEF KernelInv, RichardsTypeOK, PacketOrNil
<1>1. CASE TakesPacket
  <2>1. /\ Msg = input[cur] /\ Msg # Nil /\ Msg \in Packets /\ waiting[cur]
        /\ InputNow = [input EXCEPT ![cur] = link[Msg]]
        /\ WaitingNow = [waiting EXCEPT ![cur] = FALSE]
    BY <1>0, <1>1 DEF Msg, TakesPacket, PendingIsInput, InputNow, WaitingNow, KernelInv, PacketOrNil
  <2> DEFINE h == Heads(input, workIn, deviceIn, devPending)
  <2>2. link[Msg] \in PacketOrNil
    BY <1>0, <2>1
  <2>3. /\ h \in [Slots -> PacketOrNil] /\ h[<<"input", cur>>] = Msg
    BY <1>0, <2>1, HeadsType, HeadsOf
  <2>h. Heads(InputNow, workIn, deviceIn, devPending) = [h EXCEPT ![<<"input", cur>>] = link[Msg]]
    <3>1. PICK i \in [Tasks -> PacketOrNil] : i = InputNow
      BY <1>0, <2>1, <2>2
    <3>2. i[cur] = link[Msg] /\ \A t \in Tasks : t # cur => i[t] = input[t]
      BY <1>0, <2>1, <3>1
    <3>3. Heads(i, workIn, deviceIn, devPending) = [h EXCEPT ![<<"input", cur>>] = link[Msg]]
      BY <1>0, <2>2, <3>2, HeadsInput
    <3> QED BY <3>1, <3>3, Zenon
  <2>4. Kept([h EXCEPT ![<<"input", cur>>] = link[Msg]], link, {} \union {Msg}, ident)
    <3>1. <<"input", cur>> \in Slots /\ Linked(<<"input", cur>>)
      BY SlotFacts
    <3>2. Kept(h, link, {}, ident)
      OBVIOUS
    <3> HIDE DEF h
    <3>3. Kept([h EXCEPT ![<<"input", cur>>] = link[h[<<"input", cur>>]]], link,
               {} \union {h[<<"input", cur>>]}, ident)
      BY <1>0, <2>1, <2>3, <3>1, <3>2, TakeFirst
    <3> QED BY <2>3, <3>3
  <2>5. {} \union {Msg} = {Msg} /\ (IF Msg = Nil THEN {} ELSE {Msg}) = {Msg}
    BY <2>1
  <2>6. Kept(Heads(InputNow, workIn, deviceIn, devPending), link, IF Msg = Nil THEN {} ELSE {Msg}, ident)
    BY <2>h, <2>4, <2>5, Zenon
  <2> QED BY <1>0, <2>1, <2>6
<1>2. CASE ~TakesPacket
  <2>1. Msg = Nil /\ InputNow = input /\ WaitingNow = waiting
    BY <1>2 DEF Msg, InputNow, WaitingNow
  <2>2. (IF Msg = Nil THEN {} ELSE {Msg}) = {}
    BY <2>1
  <2>3. Kept(Heads(InputNow, workIn, deviceIn, devPending), link, IF Msg = Nil THEN {} ELSE {Msg}, ident)
    BY <2>1, <2>2, Zenon
  <2> QED BY <2>1, <2>3
<1> QED BY <1>1, <1>2

(* qpkt: a packet in hand becomes the last of its receiver's queue. *)
LEMMA SentKept ==
  ASSUME KernelInv, cur \in Tasks, NEW p \in Packets, NEW to \in Tasks,
         NEW links \in [Packets -> PacketOrNil],
         NEW wk \in [Handlers -> PacketOrNil], NEW dv \in [Handlers -> PacketOrNil],
         NEW pd \in [Devices -> PacketOrNil],
         Kept(Heads(InputNow, wk, dv, pd), links, {p}, ident),
         Qpkt(p, to, links)
  PROVE  Kept(Heads(input', wk, dv, pd), link', {}, ident') /\ waiting' = WaitingNow
<1> DEFINE s == <<"input", to>>
           h == Heads(InputNow, wk, dv, pd)
<1>1. InputNow \in [Tasks -> PacketOrNil] /\ p \in PacketOrNil
  BY TakenTypes DEF PacketOrNil
<1>2. HeadOr(InputNow[to], p) \in PacketOrNil
  BY <1>1 DEF HeadOr
<1>3. /\ input' = [InputNow EXCEPT ![to] = HeadOr(InputNow[to], p)]
      /\ link' = AppendTo(links, p, InputNow[to])
  <2>1. CASE InputNow[to] = Nil
    BY <2>1 DEF Qpkt, HeadOr, AppendTo
  <2>2. CASE InputNow[to] # Nil
    <3>1. input' = InputNow /\ link' = AppendTo(links, p, InputNow[to])
      BY <2>2 DEF Qpkt
    <3>2. HeadOr(InputNow[to], p) = InputNow[to]
      BY <2>2 DEF HeadOr
    <3> QED BY <1>1, <3>1, <3>2
  <2> QED BY <2>1, <2>2
<1>4. /\ ident' = [ident EXCEPT ![p] = cur] /\ waiting' = WaitingNow
      /\ ident \in [Packets -> Tasks \union {0}] /\ cur # 0
  BY DEF Qpkt, KernelInv, RichardsTypeOK, Tasks
<1>5. ident'[p] # 0 /\ \A q \in Packets : q # p => ident'[q] = ident[q]
  BY <1>4
<1>6. /\ h \in [Slots -> PacketOrNil] /\ h[s] = InputNow[to]
      /\ s \in Slots /\ Linked(s)
  BY <1>1, HeadsType, HeadsOf, SlotFacts
<1>h. Heads(input', wk, dv, pd) = [h EXCEPT ![s] = HeadOr(InputNow[to], p)]
  <2>1. PICK i \in [Tasks -> PacketOrNil] : i = input'
    BY <1>1, <1>2, <1>3
  <2>2. i[to] = HeadOr(InputNow[to], p) /\ \A t \in Tasks : t # to => i[t] = InputNow[t]
    BY <1>1, <1>3, <2>1
  <2>3. Heads(i, wk, dv, pd) = [h EXCEPT ![s] = HeadOr(InputNow[to], p)]
    BY <1>1, <1>2, <2>2, HeadsInput
  <2> QED BY <2>1, <2>3, Zenon
<1>7. Kept(h, links, {p}, ident)
  OBVIOUS
<1>8. PICK new : new = ident'
  OBVIOUS
<1>9. Kept([h EXCEPT ![s] = HeadOr(h[s], p)], AppendTo(links, p, h[s]), {p} \ {p}, new)
  <2>1. p \in {p} /\ new[p] # 0 /\ \A q \in Packets : q # p => new[q] = ident[q]
    BY <1>5, <1>8
  <2> HIDE DEF h, s
  <2> QED BY <1>6, <1>7, <2>1, PutLast
<1>10. {p} \ {p} = {}
  OBVIOUS
<1> HIDE DEF h, s
<1>11. Kept(Heads(input', wk, dv, pd), link', {}, ident')
  BY <1>3, <1>6, <1>h, <1>8, <1>9, <1>10, Zenon
<1> QED BY <1>4, <1>11

(* A handler adds its message to one of its two lists before all else. *)
LEMMA HandlerKept ==
  ASSUME PacketsInv, cur \in Handlers
  PROVE  Kept(Heads(InputNow, [workIn EXCEPT ![cur] = WorkNow], [deviceIn EXCEPT ![cur] = DeviceNow],
                    devPending), LinkNow, {}, ident)
<1>0. /\ cur \in Tasks /\ cur # Work
      /\ workIn \in [Handlers -> PacketOrNil] /\ deviceIn \in [Handlers -> PacketOrNil]
      /\ devPending \in [Devices -> PacketOrNil] /\ link \in [Packets -> PacketOrNil]
      /\ InputNow \in [Tasks -> PacketOrNil] /\ input \in [Tasks -> PacketOrNil]
      /\ WorkNow \in PacketOrNil /\ DeviceNow \in PacketOrNil
  BY HandlerTypes, TakenTypes DEF PacketsInv, KernelInv, RichardsTypeOK, PacketOrNil, Handlers, Work, HandlerA, HandlerB
<1>1. CASE Msg = Nil
  <2>1. /\ WorkNow = workIn[cur] /\ DeviceNow = deviceIn[cur] /\ LinkNow = link
        /\ (IF Msg = Nil THEN {} ELSE {Msg}) = {}
    BY <1>1 DEF WorkNow, DeviceNow, LinkNow
  <2>2. [workIn EXCEPT ![cur] = WorkNow] = workIn /\ [deviceIn EXCEPT ![cur] = DeviceNow] = deviceIn
    BY <1>0, <2>1
  <2>3. Kept(Heads(InputNow, workIn, deviceIn, devPending), link, IF Msg = Nil THEN {} ELSE {Msg}, ident)
    BY <1>0, TakenKept
  <2> QED BY <2>1, <2>2, <2>3, Zenon
<1>2. CASE Msg # Nil
  <2>1. /\ Msg \in Packets /\ Msg = input[cur] /\ (IF Msg = Nil THEN {} ELSE {Msg}) = {Msg}
        /\ Msg \in {Msg} /\ {Msg} \ {Msg} = {}
    BY <1>0, <1>2, TakenKept
  <2>2. ident[Msg] # 0
    <3>1. PICK f : f = Heads(input, workIn, deviceIn, devPending)
      OBVIOUS
    <3>2. Kept(f, link, {}, ident)
      BY <3>1 DEF PacketsInv
    <3>3. PICK s \in Slots : s = <<"input", cur>>
      BY <1>0, SlotFacts
    <3>4. f[s] = Msg /\ s # <<"input", Work>>
      BY <1>0, <2>1, <3>1, <3>3, HeadsOf
    <3> QED BY <1>2, <3>2, <3>4, HeadSent
  <2>3. PICK f \in [Slots -> PacketOrNil] : f = Heads(InputNow, workIn, deviceIn, devPending)
    BY <1>0, HeadsType
  <2>4. Kept(f, link, {Msg}, ident)
    <3>1. Kept(Heads(InputNow, workIn, deviceIn, devPending), link, IF Msg = Nil THEN {} ELSE {Msg}, ident)
      BY <1>0, TakenKept
    <3> QED BY <2>1, <2>3, <3>1, Zenon
  <2>5. ASSUME NEW s \in Slots, Linked(s)
        PROVE  Kept([f EXCEPT ![s] = HeadOr(f[s], Msg)], AppendTo(link, Msg, f[s]), {}, ident)
    <3>1. Kept([f EXCEPT ![s] = HeadOr(f[s], Msg)], AppendTo(link, Msg, f[s]), {Msg} \ {Msg}, ident)
      BY <1>0, <2>1, <2>2, <2>4, <2>5, PutLast
    <3> QED BY <2>1, <3>1
  <2>6. CASE IsWork(Msg)
    <3>1. /\ WorkNow = HeadOr(workIn[cur], Msg) /\ DeviceNow = deviceIn[cur]
          /\ LinkNow = AppendTo(link, Msg, workIn[cur])
      BY <1>2, <2>6 DEF WorkNow, DeviceNow, LinkNow
    <3>2. [deviceIn EXCEPT ![cur] = DeviceNow] = deviceIn
      BY <1>0, <3>1
    <3>3. PICK s \in Slots : s = <<"work", cur>> /\ Linked(s)
      BY SlotFacts
    <3>4. f[s] = workIn[cur]
      BY <2>3, <3>3, HeadsOf
    <3>5. PICK i \in [Handlers -> PacketOrNil] : i = [workIn EXCEPT ![cur] = WorkNow]
      BY <1>0
    <3>6. i[cur] = WorkNow /\ \A u \in Handlers : u # cur => i[u] = workIn[u]
      BY <1>0, <3>5
    <3>7. Heads(InputNow, i, deviceIn, devPending) = [f EXCEPT ![s] = WorkNow]
      BY <1>0, <2>3, <3>3, <3>6, HeadsWork
    <3>8. Kept([f EXCEPT ![s] = WorkNow], LinkNow, {}, ident)
      BY <2>5, <3>1, <3>3, <3>4, Zenon
    <3> QED BY <3>2, <3>5, <3>7, <3>8, Zenon
  <2>7. CASE ~IsWork(Msg)
    <3>1. /\ DeviceNow = HeadOr(deviceIn[cur], Msg) /\ WorkNow = workIn[cur]
          /\ LinkNow = AppendTo(link, Msg, deviceIn[cur])
      BY <1>2, <2>7 DEF WorkNow, DeviceNow, LinkNow
    <3>2. [workIn EXCEPT ![cur] = WorkNow] = workIn
      BY <1>0, <3>1
    <3>3. PICK s \in Slots : s = <<"device", cur>> /\ Linked(s)
      BY SlotFacts
    <3>4. f[s] = deviceIn[cur]
      BY <2>3, <3>3, HeadsOf
    <3>5. PICK i \in [Handlers -> PacketOrNil] : i = [deviceIn EXCEPT ![cur] = DeviceNow]
      BY <1>0
    <3>6. i[cur] = DeviceNow /\ \A u \in Handlers : u # cur => i[u] = deviceIn[u]
      BY <1>0, <3>5
    <3>7. Heads(InputNow, workIn, i, devPending) = [f EXCEPT ![s] = DeviceNow]
      BY <1>0, <2>3, <3>3, <3>6, HeadsDevice
    <3>8. Kept([f EXCEPT ![s] = DeviceNow], LinkNow, {}, ident)
      BY <2>5, <3>1, <3>3, <3>4, Zenon
    <3> QED BY <3>2, <3>5, <3>7, <3>8, Zenon
  <2> QED BY <2>6, <2>7
<1> QED BY <1>1, <1>2

(* main() puts the packets where they are kept, *)
LEMMA PacketsInit == RichardsInit => PacketsInv
<1> SUFFICES ASSUME RichardsInit PROVE PacketsInv
  OBVIOUS
<1>1. KernelInv
  BY KernelInit
<1>2. /\ \A t \in Tasks : input[t] = IF t = 2 THEN 2 ELSE IF t = 3 THEN 5 ELSE IF t = 4 THEN 8 ELSE 0
      /\ \A t \in Handlers : workIn[t] = 0 /\ deviceIn[t] = 0
      /\ \A t \in Devices : devPending[t] = 0
      /\ \A p \in Packets : link[p] = IF p \in {1, 3, 6} THEN 0 ELSE p - 1
      /\ \A p \in Packets : ident[p] = 0 => p <= 2
      /\ \A t \in Tasks : waiting[t] = (t # 1)
  <2>1. \A t \in Tasks : input[t] = IF t = 2 THEN 2 ELSE IF t = 3 THEN 5 ELSE IF t = 4 THEN 8 ELSE 0
    BY DEF RichardsInit, Nil, Work, HandlerA, HandlerB, Tasks
  <2>2. \A t \in Handlers : workIn[t] = 0 /\ deviceIn[t] = 0
    BY DEF RichardsInit, Nil
  <2>3. \A t \in Devices : devPending[t] = 0
    BY DEF RichardsInit, Nil
  <2>4. \A p \in Packets : link[p] = IF p \in {1, 3, 6} THEN 0 ELSE p - 1
    BY DEF RichardsInit, Nil
  <2>5. \A p \in Packets : ident[p] = 0 => p <= 2
    <3>1. ident = [p \in Packets |-> IF IsWork(p) THEN 0 ELSE IF p <= 5 THEN DevA ELSE DevB]
      BY DEF RichardsInit
    <3>2. \A p \in Packets : p > 2 => ~IsWork(p)
      BY DEF IsWork, Packets
    <3>3. DevA # 0 /\ DevB # 0
      BY DEF DevA, DevB
    <3>4. \A p \in Packets : p > 2 => ident[p] # 0
      BY <3>1, <3>2, <3>3
    <3> QED BY <3>4 DEF Packets
  <2>6. \A t \in Tasks : waiting[t] = (t # 1)
    BY DEF RichardsInit, Idle
  <2> QED BY <2>1, <2>2, <2>3, <2>4, <2>5, <2>6
<1>3. OnlyIdleDevicesWait /\ ~waiting[Idle]
  <2>1. \A d \in Devices : devPending[d] = Nil
    BY <1>2 DEF Nil
  <2>2. 1 \in Tasks
    BY DEF Tasks
  <2>3. ~waiting[1]
    BY <1>2, <2>2
  <2> QED BY <2>1, <2>3 DEF OnlyIdleDevicesWait, Idle
<1>4. PICK h : h = Heads(input, workIn, deviceIn, devPending)
  OBVIOUS
<1>5. /\ \A t \in Tasks : h[<<"input", t>>] = input[t]
      /\ \A t \in Handlers : h[<<"work", t>>] = workIn[t] /\ h[<<"device", t>>] = deviceIn[t]
      /\ \A t \in Devices : h[<<"pending", t>>] = devPending[t]
  BY <1>4, HeadsOf
<1>e. /\ \A t \in Handlers : h[<<"work", t>>] = Nil
      /\ \A t \in Handlers : h[<<"device", t>>] = Nil
      /\ \A t \in Devices : h[<<"pending", t>>] = Nil
  <2>1. \A t \in Handlers : workIn[t] = Nil
    BY <1>2 DEF Nil
  <2>2. \A t \in Handlers : deviceIn[t] = Nil
    BY <1>2 DEF Nil
  <2>3. \A t \in Devices : devPending[t] = Nil
    BY <1>2 DEF Nil
  <2> QED BY <1>5, <2>1, <2>2, <2>3
<1> DEFINE task(p) == IF p <= 2 THEN 2 ELSE IF p <= 5 THEN 3 ELSE 4
           o == [p \in Packets |-> <<"input", task(p)>>]
           r == [p \in Packets |-> 0 - p]
<1>6. /\ o \in [Packets -> Slots] /\ r \in [Packets -> Int]
      /\ \A p \in Packets : task(p) \in Tasks
  BY SlotFacts DEF Packets, Tasks
<1>7. \A p \in Packets : o[p] = <<"input", task(p)>> /\ r[p] = 0 - p /\ Linked(o[p])
  BY DEF Linked
<1>8. \A p \in Packets \ {} : p \in Packets
  OBVIOUS
<1>9. ASSUME NEW s \in Slots
      PROVE  IF h[s] = Nil THEN \A q \in Packets \ {} : o[q] # s
             ELSE /\ h[s] \in Packets \ {} /\ o[h[s]] = s
                  /\ \A q \in Packets \ {} : o[q] = s => r[h[s]] <= r[q]
  <2>1. CASE s[2] \in Tasks /\ s = <<"input", s[2]>>
    <3>1. PICK t \in Tasks : s = <<"input", t>>
      BY <2>1
    <3>2. h[s] = IF t = 2 THEN 2 ELSE IF t = 3 THEN 5 ELSE IF t = 4 THEN 8 ELSE 0
      BY <1>2, <1>5, <3>1
    <3>3. \A q \in Packets : o[q] = s <=> task(q) = t
      BY <1>7, <3>1
    <3> HIDE DEF o, r
    <3> QED BY <3>2, <3>3, <1>7 DEF Nil, Packets
  <2>2. CASE h[s] = Nil /\ s[1] # "input"
    BY <1>7, <2>2
  <2>3. CASE s[2] \in Handlers /\ s = <<"work", s[2]>>
    <3>1. PICK t \in Handlers : s = <<"work", t>>
      BY <2>3
    <3>2. h[s] = Nil
      BY <1>e, <3>1
    <3>3. s[1] # "input"
      BY <3>1
    <3> QED BY <2>2, <3>2, <3>3
  <2>4. CASE s[2] \in Handlers /\ s = <<"device", s[2]>>
    <3>1. PICK t \in Handlers : s = <<"device", t>>
      BY <2>4
    <3>2. h[s] = Nil
      BY <1>e, <3>1
    <3>3. s[1] # "input"
      BY <3>1
    <3> QED BY <2>2, <3>2, <3>3
  <2>5. CASE s[2] \in Devices /\ s = <<"pending", s[2]>>
    <3>1. PICK t \in Devices : s = <<"pending", t>>
      BY <2>5
    <3>2. h[s] = Nil
      BY <1>e, <3>1
    <3>3. s[1] # "input"
      BY <3>1
    <3> QED BY <2>2, <3>2, <3>3
  <2> QED BY <2>1, <2>3, <2>4, <2>5, SlotFacts
<1>10. ASSUME NEW p \in Packets
       PROVE  IF ~Linked(o[p]) THEN h[o[p]] = p
              ELSE IF link[p] = Nil THEN \A q \in Packets \ {} : o[q] = o[p] => r[q] <= r[p]
              ELSE link[p] \in Packets \ {} /\ o[link[p]] = o[p] /\ r[link[p]] = r[p] + 1
  <2>1. link[p] = IF p \in {1, 3, 6} THEN 0 ELSE p - 1
    BY <1>2
  <2>2. \A q \in Packets : o[q] = o[p] <=> task(q) = task(p)
    BY <1>7
  <2>3. \A q \in Packets : r[q] = 0 - q /\ Linked(o[q])
    BY <1>7
  <2> HIDE DEF o, r
  <2> QED BY <2>1, <2>2, <2>3 DEF Nil, Packets
<1>11. \A p, q \in Packets \ {} : o[p] = o[q] /\ r[p] = r[q] => p = q
  <2>1. \A p \in Packets : r[p] = 0 - p
    OBVIOUS
  <2> HIDE DEF o, r
  <2> QED BY <2>1 DEF Packets
<1>12. \A p \in Packets : ident[p] = 0 => o[p] = <<"input", Work>>
  BY <1>2 DEF Work
<1> HIDE DEF o, r
<1>13. KeptBy(h, link, {}, ident, o, r)
  BY <1>9, <1>10, <1>11, <1>12 DEF KeptBy
<1>14. Kept(h, link, {}, ident)
  BY <1>6, <1>13 DEF Kept
<1> QED BY <1>1, <1>3, <1>4, <1>14, Zenon DEF PacketsInv

(* every step keeps them, *)
LEMMA PacketsStep ==
  ASSUME PacketsInv, [RichardsNext]_kernelVars PROVE PacketsInv'
<1>k. KernelInv /\ KernelInv'
  BY KernelStep DEF PacketsInv
<1>t. /\ input \in [Tasks -> PacketOrNil] /\ workIn \in [Handlers -> PacketOrNil]
      /\ deviceIn \in [Handlers -> PacketOrNil] /\ devPending \in [Devices -> PacketOrNil]
      /\ link \in [Packets -> PacketOrNil] /\ waiting \in [Tasks -> BOOLEAN]
      /\ ident \in [Packets -> Tasks \union {0}] /\ dest' \in Handlers
  BY <1>k DEF KernelInv, RichardsTypeOK, PacketOrNil
<1>d. /\ Devices \subseteq Tasks /\ Handlers \subseteq Tasks /\ Idle \in Tasks /\ Work \in Tasks
      /\ Idle \notin Devices /\ Idle \notin Handlers /\ Work \notin Devices /\ Idle # Work
      /\ Handlers \intersect Devices = {} /\ Nil \in PacketOrNil
      /\ \A p \in PacketOrNil : p # Nil => p \in Packets
      /\ \A p \in Packets : p \in PacketOrNil /\ p # Nil
  BY DEF Devices, Handlers, Tasks, Idle, Work, DevA, DevB, HandlerA, HandlerB, PacketOrNil, Packets, Nil
<1>i. Kept(Heads(input, workIn, deviceIn, devPending), link, {}, ident) /\ ~waiting[Idle]
  BY DEF PacketsInv
<1>o. \A d \in Devices : devPending[d] # Nil => ~waiting[d]
  BY DEF PacketsInv, OnlyIdleDevicesWait
<1>w. ASSUME cur \in Tasks
      PROVE  /\ ~WaitingNow[Idle] /\ \A d \in Devices : devPending[d] # Nil => ~WaitingNow[d]
             /\ WaitingNow \in [Tasks -> BOOLEAN] /\ InputNow \in [Tasks -> PacketOrNil]
  <2>1. \A t \in Tasks : WaitingNow[t] => waiting[t]
    BY <1>w, TakenKept
  <2>2. WaitingNow \in [Tasks -> BOOLEAN] /\ InputNow \in [Tasks -> PacketOrNil]
    BY <1>k, <1>w, TakenTypes
  <2> QED BY <1>d, <1>i, <1>o, <2>1, <2>2
<1>m. ASSUME cur \in Tasks, Msg = Nil
      PROVE  InputNow = input
  BY <1>m, TakenKept
<1>q. ASSUME Kept(Heads(input', workIn', deviceIn', devPending'), link', {}, ident'),
             ~waiting'[Idle], \A d \in Devices : devPending'[d] # Nil => ~waiting'[d]
      PROVE  PacketsInv'
  BY <1>k, <1>q DEF PacketsInv, OnlyIdleDevicesWait
<1>1. CASE UNCHANGED <<input, waiting, link, ident, workIn, deviceIn, devPending>>
  <2>1. Kept(Heads(input', workIn', deviceIn', devPending'), link', {}, ident')
    BY <1>1, <1>i
  <2> QED BY <1>1, <1>i, <1>o, <1>q, <2>1
<1>2. CASE DeviceWaits
  <2>1. /\ cur \in Devices /\ cur \in Tasks /\ Msg = Nil /\ devPending[cur] = Nil
        /\ waiting' = [WaitingNow EXCEPT ![cur] = TRUE]
        /\ input' = InputNow /\ UNCHANGED <<link, ident, workIn, deviceIn, devPending>>
    BY <1>d, <1>2 DEF DeviceWaits, Runs, WaitTask, recs
  <2>2. Kept(Heads(input', workIn', deviceIn', devPending'), link', {}, ident')
    BY <1>i, <1>m, <2>1
  <2>3. ~waiting'[Idle] /\ \A d \in Devices : devPending'[d] # Nil => ~waiting'[d]
    BY <1>d, <1>w, <2>1
  <2> QED BY <1>q, <2>2, <2>3
<1>3. CASE DeviceSends
  <2>1. /\ cur \in Devices /\ cur \in Tasks /\ Msg = Nil
        /\ devPending[cur] # Nil
        /\ devPending' = [devPending EXCEPT ![cur] = Nil]
        /\ Qpkt(devPending[cur], ident[devPending[cur]], link)
        /\ UNCHANGED <<workIn, deviceIn>>
    BY <1>d, <1>3 DEF DeviceSends, Runs
  <2>2. PICK p \in Packets : p = devPending[cur]
    BY <1>d, <1>t, <2>1
  <2>3. PICK f \in [Slots -> PacketOrNil] : f = Heads(InputNow, workIn, deviceIn, devPending)
    BY <1>t, <1>w, <2>1, HeadsType
  <2>4. Kept(f, link, {}, ident)
    BY <1>i, <1>m, <2>1, <2>3
  <2>5. PICK s \in Slots : s = <<"pending", cur>> /\ ~Linked(s) /\ s # <<"input", Work>>
    BY <2>1, SlotFacts
  <2>6. f[s] = p /\ p # Nil
    BY <1>d, <2>1, <2>2, <2>3, <2>5, HeadsOf
  <2>7. ident[p] \in Tasks
    <3>1. ident[f[s]] # 0
      BY <2>4, <2>5, <2>6, HeadSent
    <3> QED BY <1>t, <2>6, <3>1
  <2>8. PICK j \in [Devices -> PacketOrNil] : j = devPending'
    BY <1>d, <1>t, <2>1
  <2>9. Kept(Heads(InputNow, workIn, deviceIn, j), link, {p}, ident)
    <3>1. Kept([f EXCEPT ![s] = Nil], link, {} \union {f[s]}, ident)
      BY <2>4, <2>5, <2>6, TakePending
    <3>2. {} \union {f[s]} = {p}
      BY <2>6
    <3>3. j[cur] = Nil /\ \A d \in Devices : d # cur => j[d] = devPending[d]
      BY <1>t, <2>1, <2>8
    <3>4. Heads(InputNow, workIn, deviceIn, j) = [f EXCEPT ![s] = Nil]
      <4>1. PICK in \in [Tasks -> PacketOrNil] : in = InputNow
        BY <1>w, <2>1
      <4>2. Heads(in, workIn, deviceIn, j) = [Heads(in, workIn, deviceIn, devPending) EXCEPT ![<<"pending", cur>>] = Nil]
        <5>1. cur \in Devices /\ Nil \in PacketOrNil /\ devPending \in [Devices -> PacketOrNil]
          BY <1>d, <1>t, <2>1, <3>3
        <5>2. workIn \in [Handlers -> PacketOrNil] /\ deviceIn \in [Handlers -> PacketOrNil]
          BY <1>t
        <5>3. j[cur] = Nil /\ \A t \in Devices : t # cur => j[t] = devPending[t]
          BY <1>d, <1>t, <2>1, <3>3
        <5> QED BY <5>1, <5>2, <5>3, HeadsPending
      <4> QED BY <2>3, <2>5, <4>1, <4>2, Zenon
    <3> QED BY <3>1, <3>2, <3>4, Zenon
  <2>10. Qpkt(p, ident[p], link)
    BY <2>1, <2>2
  <2>11. Kept(Heads(input', workIn, deviceIn, j), link', {}, ident') /\ waiting' = WaitingNow
    BY <1>k, <1>t, <2>1, <2>7, <2>9, <2>10, SentKept
  <2>12. Kept(Heads(input', workIn', deviceIn', devPending'), link', {}, ident')
    BY <2>1, <2>8, <2>11
  <2>13. ~waiting'[Idle] /\ \A d \in Devices : devPending'[d] # Nil => ~waiting'[d]
    BY <1>t, <1>w, <2>1, <2>11
  <2> QED BY <1>q, <2>12, <2>13
<1>4. CASE DeviceHolds
  <2>1. /\ cur \in Devices /\ cur \in Tasks /\ Msg # Nil
        /\ devPending' = [devPending EXCEPT ![cur] = Msg]
        /\ waiting' = WaitingNow /\ input' = InputNow
        /\ UNCHANGED <<link, ident, workIn, deviceIn>>
    BY <1>d, <1>4 DEF DeviceHolds, HoldTask, Runs
  <2>2. PICK p \in Packets : p = Msg
    BY <2>1, TakenKept
  <2>3. p = input[cur] /\ waiting[cur] /\ ~WaitingNow[cur] /\ devPending[cur] = Nil
    BY <1>o, <2>1, <2>2, TakenKept
  <2>4. PICK f \in [Slots -> PacketOrNil] : f = Heads(InputNow, workIn, deviceIn, devPending)
    BY <1>t, <1>w, <2>1, HeadsType
  <2>5. Kept(f, link, {p}, ident)
    <3>1. Kept(Heads(InputNow, workIn, deviceIn, devPending), link, IF Msg = Nil THEN {} ELSE {Msg}, ident)
      BY <2>1, TakenKept
    <3>2. (IF Msg = Nil THEN {} ELSE {Msg}) = {p}
      BY <2>1, <2>2
    <3> QED BY <2>4, <3>1, <3>2, Zenon
  <2>6. PICK s \in Slots : s = <<"pending", cur>> /\ ~Linked(s)
    BY <2>1, SlotFacts
  <2>7. f[s] = Nil
    BY <2>1, <2>3, <2>4, <2>6, HeadsOf
  <2>8. ident[p] # 0
    <3>1. PICK g : g = Heads(input, workIn, deviceIn, devPending)
      OBVIOUS
    <3>2. PICK u \in Slots : u = <<"input", cur>>
      BY <2>1, SlotFacts
    <3>3. g[u] = p /\ u # <<"input", Work>> /\ p # Nil
      BY <1>d, <2>1, <2>3, <3>1, <3>2, HeadsOf
    <3>4. Kept(g, link, {}, ident)
      BY <1>i, <3>1
    <3> QED BY <3>3, <3>4, HeadSent
  <2>9. Kept([f EXCEPT ![s] = p], link, {p} \ {p}, ident)
    <3>1. p \in {p}
      OBVIOUS
    <3> QED BY <2>5, <2>6, <2>7, <2>8, <3>1, PutPending
  <2>10. PICK j \in [Devices -> PacketOrNil] : j = devPending'
    BY <1>d, <1>t, <2>1, <2>2
  <2>11. j[cur] = p /\ \A d \in Devices : d # cur => j[d] = devPending[d]
    BY <1>t, <2>1, <2>2, <2>10
  <2>12. Heads(InputNow, workIn, deviceIn, j) = [f EXCEPT ![s] = p]
    <3>1. PICK in \in [Tasks -> PacketOrNil] : in = InputNow
      BY <1>w, <2>1
    <3>2. Heads(in, workIn, deviceIn, j) = [Heads(in, workIn, deviceIn, devPending) EXCEPT ![<<"pending", cur>>] = p]
      <4>1. cur \in Devices /\ p \in PacketOrNil /\ devPending \in [Devices -> PacketOrNil]
        BY <1>d, <1>t, <2>1, <2>11
      <4>2. workIn \in [Handlers -> PacketOrNil] /\ deviceIn \in [Handlers -> PacketOrNil]
        BY <1>t
      <4>3. j[cur] = p /\ \A t \in Devices : t # cur => j[t] = devPending[t]
        BY <1>d, <1>t, <2>1, <2>11
      <4> QED BY <4>1, <4>2, <4>3, HeadsPending
    <3> QED BY <2>4, <2>6, <3>1, <3>2, Zenon
  <2>13. Kept(Heads(input', workIn', deviceIn', devPending'), link', {}, ident')
    <3>1. {p} \ {p} = {}
      OBVIOUS
    <3>2. Kept(Heads(InputNow, workIn, deviceIn, j), link, {}, ident)
      BY <2>9, <2>12, <3>1, Zenon
    <3> QED BY <2>1, <2>10, <3>2
  <2>14. ~waiting'[Idle] /\ \A d \in Devices : devPending'[d] # Nil => ~waiting'[d]
    BY <1>t, <1>w, <2>1, <2>3
  <2> QED BY <1>q, <2>13, <2>14
<1>5. CASE HandlerWaits
  <2>1. /\ cur \in Handlers /\ cur \in Tasks
        /\ workIn' = [workIn EXCEPT ![cur] = WorkNow]
        /\ deviceIn' = [deviceIn EXCEPT ![cur] = DeviceNow]
        /\ link' = LinkNow /\ input' = InputNow
        /\ waiting' = [WaitingNow EXCEPT ![cur] = TRUE]
        /\ UNCHANGED <<ident, devPending>>
    BY <1>d, <1>5 DEF HandlerWaits, Runs, WaitTask
  <2>2. Kept(Heads(input', workIn', deviceIn', devPending'), link', {}, ident')
    BY <2>1, HandlerKept
  <2>3. ~waiting'[Idle] /\ \A d \in Devices : devPending'[d] # Nil => ~waiting'[d]
    BY <1>d, <1>w, <2>1
  <2> QED BY <1>q, <2>2, <2>3
<1>6. CASE HandlerReturnsWork
  <2>1. /\ cur \in Handlers /\ cur \in Tasks /\ WorkNow # Nil
        /\ workIn' = [workIn EXCEPT ![cur] = LinkNow[WorkNow]]
        /\ deviceIn' = [deviceIn EXCEPT ![cur] = DeviceNow]
        /\ Qpkt(WorkNow, ident[WorkNow], LinkNow)
        /\ UNCHANGED devPending
    BY <1>d, <1>6 DEF HandlerReturnsWork, Runs
  <2>2. /\ WorkNow \in PacketOrNil /\ DeviceNow \in PacketOrNil
        /\ LinkNow \in [Packets -> PacketOrNil] /\ InputNow \in [Tasks -> PacketOrNil]
    BY <1>k, <1>w, <2>1, HandlerTypes
  <2>3. PICK p \in Packets : p = WorkNow
    BY <1>d, <2>1, <2>2
  <2>4. PICK wk \in [Handlers -> PacketOrNil], dv \in [Handlers -> PacketOrNil] :
          wk = [workIn EXCEPT ![cur] = WorkNow] /\ dv = [deviceIn EXCEPT ![cur] = DeviceNow]
    BY <1>t, <2>2
  <2>5. PICK f \in [Slots -> PacketOrNil] : f = Heads(InputNow, wk, dv, devPending)
    BY <1>t, <2>2, HeadsType
  <2>6. Kept(f, LinkNow, {}, ident)
    <3>1. Kept(Heads(InputNow, [workIn EXCEPT ![cur] = WorkNow], [deviceIn EXCEPT ![cur] = DeviceNow],
                     devPending), LinkNow, {}, ident)
      BY <2>1, HandlerKept
    <3> QED BY <2>4, <2>5, <3>1, Zenon
  <2>7. PICK s \in Slots : s = <<"work", cur>> /\ Linked(s) /\ s # <<"input", Work>>
    BY <2>1, SlotFacts
  <2>8. f[s] = p /\ p # Nil
    <3>1. wk[cur] = p
      BY <1>t, <2>1, <2>3, <2>4
    <3>2. f[s] = wk[cur]
      BY <2>1, <2>5, <2>7, HeadsOf
    <3> QED BY <1>d, <3>1, <3>2
  <2>9. ident[p] \in Tasks
    <3>1. ident[f[s]] # 0
      BY <2>6, <2>7, <2>8, HeadSent
    <3> QED BY <1>t, <2>8, <3>1
  <2>10. PICK new \in [Handlers -> PacketOrNil] : new = workIn'
    BY <1>t, <2>1, <2>2, <2>3
  <2>11. new[cur] = LinkNow[p] /\ LinkNow[p] \in PacketOrNil /\ \A t \in Handlers : t # cur => new[t] = wk[t]
    BY <1>t, <2>1, <2>2, <2>3, <2>4, <2>10
  <2>12. Kept(Heads(InputNow, new, dv, devPending), LinkNow, {p}, ident)
    <3>1. Kept([f EXCEPT ![s] = LinkNow[f[s]]], LinkNow, {} \union {f[s]}, ident)
      BY <2>2, <2>6, <2>7, <2>8, TakeFirst
    <3>2. {} \union {f[s]} = {p} /\ LinkNow[f[s]] = LinkNow[p]
      BY <2>8
    <3>3. Heads(InputNow, new, dv, devPending) = [f EXCEPT ![s] = LinkNow[p]]
      <4>1. PICK in \in [Tasks -> PacketOrNil], x \in PacketOrNil : in = InputNow /\ x = LinkNow[p]
        BY <2>2, <2>11
      <4>2. Heads(in, new, dv, devPending) = [Heads(in, wk, dv, devPending) EXCEPT ![<<"work", cur>>] = x]
        <5>1. cur \in Handlers /\ x \in PacketOrNil /\ devPending \in [Devices -> PacketOrNil]
          BY <1>t, <2>1, <2>11, <4>1, <1>d
        <5>3. new[cur] = x /\ \A t \in Handlers : t # cur => new[t] = wk[t]
          BY <1>t, <2>1, <2>11, <4>1
        <5> QED BY <5>1, <5>3, HeadsWork
      <4> QED BY <2>5, <2>7, <4>1, <4>2, Zenon
    <3> QED BY <3>1, <3>2, <3>3, Zenon
  <2>13. Qpkt(p, ident[p], LinkNow)
    BY <2>1, <2>3
  <2>14. PICK links \in [Packets -> PacketOrNil] : links = LinkNow
    BY <2>2
  <2>15. Kept(Heads(input', new, dv, devPending), link', {}, ident') /\ waiting' = WaitingNow
    BY <1>k, <1>t, <2>1, <2>9, <2>12, <2>13, <2>14, SentKept
  <2>16. Kept(Heads(input', workIn', deviceIn', devPending'), link', {}, ident')
    BY <2>1, <2>4, <2>10, <2>15
  <2>17. ~waiting'[Idle] /\ \A d \in Devices : devPending'[d] # Nil => ~waiting'[d]
    BY <1>w, <2>1, <2>15
  <2> QED BY <1>q, <2>16, <2>17
<1>7. CASE HandlerFeedsDevice
  <2>1. /\ cur \in Handlers /\ cur \in Tasks /\ DeviceNow # Nil
        /\ deviceIn' = [deviceIn EXCEPT ![cur] = LinkNow[DeviceNow]]
        /\ workIn' = [workIn EXCEPT ![cur] = WorkNow]
        /\ Qpkt(DeviceNow, ident[DeviceNow], LinkNow)
        /\ UNCHANGED devPending
    BY <1>d, <1>7 DEF HandlerFeedsDevice, Runs
  <2>2. /\ WorkNow \in PacketOrNil /\ DeviceNow \in PacketOrNil
        /\ LinkNow \in [Packets -> PacketOrNil] /\ InputNow \in [Tasks -> PacketOrNil]
    BY <1>k, <1>w, <2>1, HandlerTypes
  <2>3. PICK p \in Packets : p = DeviceNow
    BY <1>d, <2>1, <2>2
  <2>4. PICK wk \in [Handlers -> PacketOrNil], dv \in [Handlers -> PacketOrNil] :
          wk = [workIn EXCEPT ![cur] = WorkNow] /\ dv = [deviceIn EXCEPT ![cur] = DeviceNow]
    BY <1>t, <2>2
  <2>5. PICK f \in [Slots -> PacketOrNil] : f = Heads(InputNow, wk, dv, devPending)
    BY <1>t, <2>2, HeadsType
  <2>6. Kept(f, LinkNow, {}, ident)
    <3>1. Kept(Heads(InputNow, [workIn EXCEPT ![cur] = WorkNow], [deviceIn EXCEPT ![cur] = DeviceNow],
                     devPending), LinkNow, {}, ident)
      BY <2>1, HandlerKept
    <3> QED BY <2>4, <2>5, <3>1, Zenon
  <2>7. PICK s \in Slots : s = <<"device", cur>> /\ Linked(s) /\ s # <<"input", Work>>
    BY <2>1, SlotFacts
  <2>8. f[s] = p /\ p # Nil
    <3>1. dv[cur] = p
      BY <1>t, <2>1, <2>3, <2>4
    <3>2. f[s] = dv[cur]
      BY <2>1, <2>5, <2>7, HeadsOf
    <3> QED BY <1>d, <3>1, <3>2
  <2>9. ident[p] \in Tasks
    <3>1. ident[f[s]] # 0
      BY <2>6, <2>7, <2>8, HeadSent
    <3> QED BY <1>t, <2>8, <3>1
  <2>10. PICK new \in [Handlers -> PacketOrNil] : new = deviceIn'
    BY <1>t, <2>1, <2>2, <2>3
  <2>11. new[cur] = LinkNow[p] /\ LinkNow[p] \in PacketOrNil /\ \A t \in Handlers : t # cur => new[t] = dv[t]
    BY <1>t, <2>1, <2>2, <2>3, <2>4, <2>10
  <2>12. Kept(Heads(InputNow, wk, new, devPending), LinkNow, {p}, ident)
    <3>1. Kept([f EXCEPT ![s] = LinkNow[f[s]]], LinkNow, {} \union {f[s]}, ident)
      BY <2>2, <2>6, <2>7, <2>8, TakeFirst
    <3>2. {} \union {f[s]} = {p} /\ LinkNow[f[s]] = LinkNow[p]
      BY <2>8
    <3>3. Heads(InputNow, wk, new, devPending) = [f EXCEPT ![s] = LinkNow[p]]
      <4>1. PICK in \in [Tasks -> PacketOrNil], x \in PacketOrNil : in = InputNow /\ x = LinkNow[p]
        BY <2>2, <2>11
      <4>2. Heads(in, wk, new, devPending) = [Heads(in, wk, dv, devPending) EXCEPT ![<<"device", cur>>] = x]
        <5>1. cur \in Handlers /\ x \in PacketOrNil /\ devPending \in [Devices -> PacketOrNil]
          BY <1>t, <2>1, <2>11, <4>1, <1>d
        <5>3. new[cur] = x /\ \A t \in Handlers : t # cur => new[t] = dv[t]
          BY <1>t, <2>1, <2>11, <4>1
        <5> QED BY <5>1, <5>3, HeadsDevice
      <4> QED BY <2>5, <2>7, <4>1, <4>2, Zenon
    <3> QED BY <3>1, <3>2, <3>3, Zenon
  <2>13. Qpkt(p, ident[p], LinkNow)
    BY <2>1, <2>3
  <2>14. PICK links \in [Packets -> PacketOrNil] : links = LinkNow
    BY <2>2
  <2>15. Kept(Heads(input', wk, new, devPending), link', {}, ident') /\ waiting' = WaitingNow
    BY <1>k, <1>t, <2>1, <2>9, <2>12, <2>13, <2>14, SentKept
  <2>16. Kept(Heads(input', workIn', deviceIn', devPending'), link', {}, ident')
    BY <2>1, <2>4, <2>10, <2>15
  <2>17. ~waiting'[Idle] /\ \A d \in Devices : devPending'[d] # Nil => ~waiting'[d]
    BY <1>w, <2>1, <2>15
  <2> QED BY <1>q, <2>16, <2>17
<1>8. CASE IdleHolds
  <2>1. /\ cur = Idle /\ cur \in Tasks
        /\ waiting' = WaitingNow /\ input' = InputNow
        /\ UNCHANGED <<link, ident, workIn, deviceIn, devPending>>
    BY <1>d, <1>8 DEF IdleHolds, HoldTask, Runs
  <2>2. ~TakesPacket
    BY <1>i, <2>1 DEF TakesPacket
  <2>3. InputNow = input /\ WaitingNow = waiting
    BY <2>2 DEF InputNow, WaitingNow
  <2> QED BY <1>1, <2>1, <2>3
<1>9. CASE IdleReleases
  BY <1>1, <1>9 DEF IdleReleases
<1>10. CASE WorkWaits
  <2>1. /\ cur = Work /\ cur \in Tasks /\ Msg = Nil
        /\ waiting' = [WaitingNow EXCEPT ![cur] = TRUE]
        /\ input' = InputNow /\ UNCHANGED <<link, ident, workIn, deviceIn, devPending>>
    BY <1>d, <1>10 DEF WorkWaits, Runs, WaitTask, recs
  <2>2. Kept(Heads(input', workIn', deviceIn', devPending'), link', {}, ident')
    BY <1>i, <1>m, <2>1
  <2>3. ~waiting'[Idle] /\ \A d \in Devices : devPending'[d] # Nil => ~waiting'[d]
    BY <1>d, <1>w, <2>1
  <2> QED BY <1>q, <2>2, <2>3
<1>11. CASE WorkSends
  <2>1. /\ cur \in Tasks /\ Msg # Nil
        /\ Qpkt(Msg, dest', link)
        /\ UNCHANGED <<workIn, deviceIn, devPending>>
    BY <1>d, <1>11 DEF WorkSends, Runs
  <2>2. PICK p \in Packets : p = Msg
    BY <2>1, TakenKept
  <2>3. PICK to \in Tasks : to = dest'
    BY <1>d, <1>t
  <2>4. Kept(Heads(InputNow, workIn, deviceIn, devPending), link, {p}, ident)
    <3>1. Kept(Heads(InputNow, workIn, deviceIn, devPending), link, IF Msg = Nil THEN {} ELSE {Msg}, ident)
      BY <2>1, TakenKept
    <3>2. (IF Msg = Nil THEN {} ELSE {Msg}) = {p}
      BY <2>1, <2>2
    <3> QED BY <3>1, <3>2, Zenon
  <2>5. Qpkt(p, to, link)
    BY <2>1, <2>2, <2>3
  <2>6. Kept(Heads(input', workIn, deviceIn, devPending), link', {}, ident') /\ waiting' = WaitingNow
    BY <1>k, <1>t, <2>1, <2>4, <2>5, SentKept
  <2>7. Kept(Heads(input', workIn', deviceIn', devPending'), link', {}, ident')
    BY <2>1, <2>6
  <2>8. ~waiting'[Idle] /\ \A d \in Devices : devPending'[d] # Nil => ~waiting'[d]
    BY <1>w, <2>1, <2>6
  <2> QED BY <1>q, <2>7, <2>8
<1>12. CASE Skip
  BY <1>1, <1>12 DEF Skip, flags, recs
<1>13. CASE UNCHANGED kernelVars
  BY <1>1, <1>13 DEF kernelVars, flags, recs
<1> QED
  BY <1>2, <1>3, <1>4, <1>5, <1>6, <1>7, <1>8, <1>9, <1>10, <1>11, <1>12, <1>13 DEF RichardsNext

(* hence they are always kept. *)
LEMMA PacketsAlways == RichardsSpec => []PacketsInv
BY PacketsInit, PacketsStep, PTL DEF RichardsSpec

(* The equation of the function that lists the packets from one on, k of   *)
(* them at the most,                                                       *)
ListedUpto(f, links, n) ==
  f = [k \in 0..n |-> [q \in Packets \union {Nil} |->
                         IF q = Nil \/ k = 0 THEN <<>> ELSE <<q>> \o f[k - 1][links[q]]]]

(* which has a solution for every number of packets. *)
LEMMA ListedSolves ==
  ASSUME NEW links \in [Packets -> PacketOrNil], NEW n \in Nat
  PROVE  \E f : ListedUpto(f, links, n)
<1> DEFINE Good == {k \in 0..n : \E f : ListedUpto(f, links, k)}
<1>1. 0 \in Good
  <2> DEFINE g == [k \in 0..0 |-> [q \in Packets \union {Nil} |-> <<>>]]
  <2>1. \A k \in 0..0 : k = 0
    OBVIOUS
  <2>2. g = [k \in 0..0 |-> [q \in Packets \union {Nil} |->
                               IF q = Nil \/ k = 0 THEN <<>> ELSE <<q>> \o g[k - 1][links[q]]]]
    BY <2>1
  <2>3. ListedUpto(g, links, 0)
    <3> HIDE DEF g
    <3> QED BY <2>2, Zenon DEF ListedUpto
  <2>4. 0 \in 0..n
    OBVIOUS
  <2> QED BY <2>3, <2>4
<1>2. ASSUME NEW i \in 1..n, i - 1 \in Good
      PROVE  i \in Good
  <2>1. PICK f : ListedUpto(f, links, i - 1)
    BY <1>2
  <2>2. \A k \in 0..(i - 1) : f[k] = [q \in Packets \union {Nil} |->
                                        IF q = Nil \/ k = 0 THEN <<>> ELSE <<q>> \o f[k - 1][links[q]]]
    BY <2>1, Zenon DEF ListedUpto
  <2> DEFINE g == [k \in 0..i |-> IF k = i
                                    THEN [q \in Packets \union {Nil} |->
                                            IF q = Nil THEN <<>> ELSE <<q>> \o f[i - 1][links[q]]]
                                    ELSE f[k]]
  <2>3. /\ \A k \in 0..(i - 1) : g[k] = f[k]
        /\ g[i] = [q \in Packets \union {Nil} |-> IF q = Nil THEN <<>> ELSE <<q>> \o f[i - 1][links[q]]]
    OBVIOUS
  <2>4. g = [k \in 0..i |-> g[k]]
    OBVIOUS
  <2> HIDE DEF g
  <2>5. ASSUME NEW k \in 0..i
        PROVE  g[k] = [q \in Packets \union {Nil} |->
                         IF q = Nil \/ k = 0 THEN <<>> ELSE <<q>> \o g[k - 1][links[q]]]
    <3>1. CASE k = i
      <4>1. k # 0 /\ k - 1 \in 0..(i - 1)
        BY <3>1
      <4>2. g[k - 1] = f[i - 1]
        BY <2>3, <3>1, <4>1
      <4> QED BY <2>3, <3>1, <4>1, <4>2
    <3>2. CASE k # i /\ k # 0
      <4>1. k \in 0..(i - 1) /\ k - 1 \in 0..(i - 1)
        BY <3>2
      <4>2. g[k] = f[k] /\ g[k - 1] = f[k - 1]
        BY <2>3, <4>1
      <4> QED BY <2>2, <4>1, <4>2
    <3>3. CASE k # i /\ k = 0
      <4>1. k \in 0..(i - 1)
        BY <3>3
      <4>2. g[k] = [q \in Packets \union {Nil} |->
                      IF q = Nil \/ k = 0 THEN <<>> ELSE <<q>> \o f[k - 1][links[q]]]
        BY <2>2, <2>3, <4>1
      <4> QED BY <3>3, <4>2
    <3> QED BY <3>1, <3>2, <3>3
  <2>6. ListedUpto(g, links, i)
    BY <2>4, <2>5, Zenon DEF ListedUpto
  <2> QED BY <2>6
<1>3. \A i \in 0..n : i \in Good
  <2> HIDE DEF Good
  <2> QED BY <1>1, <1>2, Upto
<1> QED BY <1>3

(* What the list from a packet on has to do with the owners and ranks: the *)
(* packets of one owner, one rank after the other, all of them unless the  *)
(* list was cut short.                                                     *)
Follows(c, q, k, o, r) ==
  /\ c \in Seq(Packets) /\ Len(c) <= k
  /\ \A i \in 1..Len(c) : o[c[i]] = o[q] /\ r[c[i]] = r[q] + i - 1
  /\ \A x \in Packets : o[x] = o[q] /\ r[x] >= r[q] =>
       (\E i \in 1..Len(c) : c[i] = x) \/ (Len(c) = k /\ r[x] >= r[q] + k)

LEMMA OneMoreFollows ==
  ASSUME NEW q \in Packets, NEW d, NEW m \in Packets, NEW j \in Nat,
         NEW o \in [Packets -> Slots], NEW r \in [Packets -> Int],
         \A x \in Packets : o[x] = o[q] /\ r[x] = r[q] => x = q,
         o[m] = o[q], r[m] = r[q] + 1, Follows(d, m, j, o, r)
  PROVE  Follows(<<q>> \o d, q, j + 1, o, r)
<1>1. /\ d \in Seq(Packets) /\ Len(d) <= j /\ Len(d) \in Nat
      /\ \A i \in 1..Len(d) : o[d[i]] = o[m] /\ r[d[i]] = r[m] + i - 1
      /\ \A x \in Packets : o[x] = o[m] /\ r[x] >= r[m] =>
           (\E i \in 1..Len(d) : d[i] = x) \/ (Len(d) = j /\ r[x] >= r[m] + j)
  BY DEF Follows
<1>2. PICK c \in Seq(Packets) : c = <<q>> \o d
  <2>1. <<q>> \in Seq(Packets)
    OBVIOUS
  <2> QED BY <1>1, <2>1, ConcatProperties
<1>3. Len(c) = Len(d) + 1 /\ c[1] = q /\ \A i \in 1..Len(d) : c[i + 1] = d[i]
  <2>1. <<q>> \in Seq(Packets) /\ Len(<<q>>) = 1 /\ <<q>>[1] = q
    OBVIOUS
  <2>2. PICK e \in Seq(Packets) : e = <<q>>
    BY <2>1
  <2>3. /\ Len(e \o d) = Len(e) + Len(d)
        /\ \A i \in 1..(Len(e) + Len(d)) : (e \o d)[i] = IF i <= Len(e) THEN e[i] ELSE d[i - Len(e)]
    BY <1>1, ConcatProperties
  <2> QED BY <1>1, <1>2, <2>1, <2>2, <2>3
<1>r. r[q] \in Int /\ \A x \in Packets : r[x] \in Int
  OBVIOUS
<1>4. ASSUME NEW i \in 1..Len(c)
      PROVE  o[c[i]] = o[q] /\ r[c[i]] = r[q] + i - 1
  <2>1. CASE i = 1
    BY <1>3, <1>r, <2>1
  <2>2. CASE i # 1
    <3>1. PICK l \in 1..Len(d) : i = l + 1
      <4>1. i - 1 \in 1..Len(d) /\ i = (i - 1) + 1
        BY <1>1, <1>3, <2>2
      <4> QED BY <4>1
    <3>2. c[i] = d[l]
      BY <1>3, <3>1
    <3> QED BY <1>1, <1>r, <3>1, <3>2
  <2> QED BY <2>1, <2>2
<1>5. ASSUME NEW x \in Packets, o[x] = o[q], r[x] >= r[q]
      PROVE  (\E i \in 1..Len(c) : c[i] = x) \/ (Len(c) = j + 1 /\ r[x] >= r[q] + (j + 1))
  <2>1. CASE x = q
    <3>1. 1 \in 1..Len(c)
      BY <1>1, <1>3
    <3> QED BY <1>3, <2>1, <3>1
  <2>2. CASE x # q
    <3>1. r[x] >= r[m]
      BY <1>5, <1>r, <2>2
    <3>2. CASE \E i \in 1..Len(d) : d[i] = x
      <4>1. PICK i \in 1..Len(d) : d[i] = x
        BY <3>2
      <4>2. c[i + 1] = x
        BY <1>3, <4>1
      <4>3. i + 1 \in 1..Len(c)
        <5>1. Len(d) \in Nat /\ Len(c) = Len(d) + 1
          BY <1>1, <1>3
        <5> QED BY <5>1
      <4> QED BY <4>2, <4>3
    <3>3. CASE Len(d) = j /\ r[x] >= r[m] + j
      BY <1>3, <1>r, <3>3
    <3> QED BY <1>1, <1>5, <3>1, <3>2, <3>3
  <2> QED BY <2>1, <2>2
<1>6. Len(c) <= j + 1
  BY <1>1, <1>3
<1> QED BY <1>2, <1>4, <1>5, <1>6 DEF Follows

(* The list from any packet of a kept list on follows. *)
LEMMA ListsFollow ==
  ASSUME NEW h, NEW links \in [Packets -> PacketOrNil], NEW id, NEW n \in Nat, NEW f,
         ListedUpto(f, links, n),
         NEW o \in [Packets -> Slots], NEW r \in [Packets -> Int], KeptBy(h, links, {}, id, o, r)
  PROVE  \A k \in 0..n : \A q \in Packets : Linked(o[q]) => Follows(f[k][q], q, k, o, r)
<1>1. \A k \in 0..n : f[k] = [q \in Packets \union {Nil} |->
                                IF q = Nil \/ k = 0 THEN <<>> ELSE <<q>> \o f[k - 1][links[q]]]
  BY Zenon DEF ListedUpto
<1>2. /\ \A q \in Packets : q # Nil /\ q \in Packets \union {Nil} /\ q \in Packets \ {}
      /\ \A q \in Packets \ {} : q \in Packets
      /\ Nil \in Packets \union {Nil}
  BY DEF Packets, Nil
<1>3. /\ \A k \in 0..n : f[k][Nil] = <<>>
      /\ \A q \in Packets : \A k \in 0..n : f[k][q] = IF k = 0 THEN <<>> ELSE <<q>> \o f[k - 1][links[q]]
  <2>1. ASSUME NEW k \in 0..n
        PROVE  f[k][Nil] = <<>>
    BY <1>1, <1>2
  <2>2. ASSUME NEW q \in Packets, NEW k \in 0..n
        PROVE  f[k][q] = IF k = 0 THEN <<>> ELSE <<q>> \o f[k - 1][links[q]]
    <3>1. q # Nil /\ q \in Packets \union {Nil}
      BY <1>2
    <3>2. f[k] = [y \in Packets \union {Nil} |->
                    IF y = Nil \/ k = 0 THEN <<>> ELSE <<y>> \o f[k - 1][links[y]]]
      BY <1>1
    <3> QED BY <3>1, <3>2, Zenon
  <2> QED BY <2>1, <2>2
<1>4. \A x, q \in Packets : o[x] = o[q] /\ r[x] = r[q] => x = q
  BY <1>2 DEF KeptBy
<1>5. \A q \in Packets : Linked(o[q]) /\ links[q] = Nil => \A x \in Packets : o[x] = o[q] => r[x] <= r[q]
  BY <1>2 DEF KeptBy
<1>6. \A q \in Packets : Linked(o[q]) /\ links[q] # Nil =>
        links[q] \in Packets /\ o[links[q]] = o[q] /\ r[links[q]] = r[q] + 1
  <2>1. SUFFICES ASSUME NEW q \in Packets, Linked(o[q]), links[q] # Nil
                 PROVE  links[q] \in Packets /\ o[links[q]] = o[q] /\ r[links[q]] = r[q] + 1
    OBVIOUS
  <2>2. links[q] \in Packets \ {} /\ o[links[q]] = o[q] /\ r[links[q]] = r[q] + 1
    BY <1>2, <2>1 DEF KeptBy
  <2> QED BY <2>2
<1>r. \A x \in Packets : r[x] \in Int
  OBVIOUS
<1> DEFINE Good == {k \in 0..n : \A q \in Packets : Linked(o[q]) => Follows(f[k][q], q, k, o, r)}
<1>7. 0 \in Good
  <2>1. 0 \in 0..n
    OBVIOUS
  <2>2. ASSUME NEW q \in Packets
        PROVE  Follows(<<>>, q, 0, o, r)
    <3>1. <<>> \in Seq(Packets) /\ Len(<<>>) = 0 /\ 1..0 = {}
      OBVIOUS
    <3> QED BY <1>r, <3>1 DEF Follows
  <2>3. \A q \in Packets : f[0][q] = <<>>
    BY <1>3, <2>1
  <2> QED BY <2>1, <2>2, <2>3
<1>8. ASSUME NEW k \in 1..n, k - 1 \in Good
      PROVE  k \in Good
  <2>1. SUFFICES ASSUME NEW q \in Packets, Linked(o[q])
                 PROVE  Follows(f[k][q], q, k, o, r)
    OBVIOUS
  <2>2. f[k][q] = <<q>> \o f[k - 1][links[q]] /\ k - 1 \in 0..n /\ k - 1 \in Nat /\ k \in Nat
    <3>1. k \in 0..n /\ k # 0
      OBVIOUS
    <3>2. f[k][q] = <<q>> \o f[k - 1][links[q]]
      BY <1>3, <3>1, Zenon
    <3> QED BY <3>1, <3>2
  <2>3. CASE links[q] # Nil
    <3>1. PICK m \in Packets : m = links[q] /\ o[m] = o[q] /\ r[m] = r[q] + 1
      BY <1>6, <2>1, <2>3
    <3>2. Follows(f[k - 1][m], m, k - 1, o, r)
      BY <1>8, <2>1, <3>1
    <3>3. Follows(<<q>> \o f[k - 1][m], q, (k - 1) + 1, o, r)
      BY <1>4, <2>2, <3>1, <3>2, OneMoreFollows
    <3>4. (k - 1) + 1 = k
      OBVIOUS
    <3> QED BY <2>2, <3>1, <3>3, <3>4
  <2>4. CASE links[q] = Nil
    <3>1. f[k][q] = <<q>>
      <4>1. f[k - 1][links[q]] = <<>>
        BY <1>3, <2>2, <2>4
      <4>2. <<q>> \in Seq(Packets)
        OBVIOUS
      <4>3. <<q>> \o <<>> = <<q>>
        BY <4>2, ConcatEmptySeq
      <4> QED BY <2>2, <4>1, <4>3
    <3>2. PICK c \in Seq(Packets) : c = <<q>> /\ Len(c) = 1 /\ c[1] = q
      <4>1. <<q>> \in Seq(Packets) /\ Len(<<q>>) = 1 /\ <<q>>[1] = q
        OBVIOUS
      <4> QED BY <4>1
    <3>3. ASSUME NEW x \in Packets, o[x] = o[q], r[x] >= r[q]
          PROVE  x = q
      BY <1>4, <1>5, <1>r, <2>1, <2>4, <3>3
    <3>4. \A i \in 1..Len(c) : i = 1 /\ o[c[i]] = o[q] /\ r[c[i]] = r[q] + i - 1
      BY <1>r, <3>2
    <3>5. 1 \in 1..Len(c) /\ Len(c) <= k
      BY <3>2
    <3>6. Follows(c, q, k, o, r)
      BY <3>2, <3>3, <3>4, <3>5 DEF Follows
    <3> QED BY <3>1, <3>2, <3>6
  <2> QED BY <2>3, <2>4
<1>9. \A k \in 0..n : k \in Good
  <2> HIDE DEF Good
  <2> QED BY <1>7, <1>8, Upto
<1> QED BY <1>9

(* Chain is such a solution. *)
LEMMA ChainSolves ==
  ASSUME link \in [Packets -> PacketOrNil]
  PROVE  \E f : ListedUpto(f, link, 9) /\ \A p : Chain(p) = f[9][p]
<1>n. PICK n \in Nat : n = 9
  OBVIOUS
<1>1. \E f : ListedUpto(f, link, n)
  BY ListedSolves
<1>2. PICK f : f = CHOOSE g : ListedUpto(g, link, 9)
  OBVIOUS
<1>3. ListedUpto(f, link, 9)
  BY <1>n, <1>1, <1>2, Zenon
<1>4. \A p : Chain(p) = f[9][p]
  BY <1>2, Zenon DEF Chain, ListedUpto
<1> QED BY <1>3, <1>4

(* Of more than k packets with numbers up to k two are the same, *)
LEMMA TwoMeet ==
  ASSUME NEW k \in Nat, NEW c \in Seq(1..k), k < Len(c)
  PROVE  \E i, j \in 1..Len(c) : i # j /\ c[i] = c[j]
<1>1. PICK n \in Nat : n = Len(c)
  OBVIOUS
<1>2. PICK S, T : S = 1..n /\ T = 1..k
  OBVIOUS
<1>3. IsFiniteSet(S) /\ Cardinality(S) = n /\ IsFiniteSet(T) /\ Cardinality(T) = k
  <2>1. ASSUME NEW m \in Nat
        PROVE  IsFiniteSet(1..m) /\ Cardinality(1..m) = IF 1 > m THEN 0 ELSE m - 1 + 1
    <3>1. 1 \in Int /\ m \in Int
      OBVIOUS
    <3> QED BY <3>1, FS_Interval, Zenon
  <2>2. \A m \in Nat : (IF 1 > m THEN 0 ELSE m - 1 + 1) = m
    OBVIOUS
  <2>3. n \in Nat /\ k \in Nat
    OBVIOUS
  <2> QED BY <1>2, <2>1, <2>2, <2>3, Zenon
<1>4. PICK g \in [S -> T] : \A i \in S : g[i] = c[i]
  <2>1. \A i \in S : c[i] \in T
    BY <1>1, <1>2
  <2>2. [i \in S |-> c[i]] \in [S -> T]
    BY <2>1
  <2> QED BY <2>2
<1>5. PICK i, j \in S : i # j /\ g[i] = g[j]
  <2>1. Cardinality(T) < Cardinality(S)
    BY <1>1, <1>3
  <2> QED BY <1>3, <2>1, FS_PigeonHole
<1>6. c[i] = c[j]
  BY <1>4, <1>5
<1> QED BY <1>1, <1>2, <1>5, <1>6

(* so not nine of them have one rank after the other. *)
LEMMA NoNine ==
  ASSUME NEW c \in Seq(Packets), NEW r, NEW b \in Int,
         Len(c) = 9, \A i \in 1..Len(c) : r[c[i]] = b + i - 1
  PROVE  FALSE
<1>1. PICK i, j \in 1..Len(c) : i # j /\ c[i] = c[j]
  <2>1. PICK k \in Nat : k = 8
    OBVIOUS
  <2>2. Packets = 1..k /\ k < Len(c)
    BY <2>1 DEF Packets
  <2> QED BY <2>2, TwoMeet
<1>2. b + i - 1 = b + j - 1
  BY <1>1
<1> QED BY <1>1, <1>2

(* The list of a slot holds what the slot owns, each packet once. *)
Holds(l, s, o) ==
  /\ l \in Seq(Packets) /\ Len(l) <= 9
  /\ \A i \in 1..Len(l) : o[l[i]] = s
  /\ \A i, j \in 1..Len(l) : l[i] = l[j] => i = j
  /\ \A p \in Packets : o[p] = s => \E i \in 1..Len(l) : l[i] = p

ListAt(h, s) == IF Linked(s) THEN Chain(h[s]) ELSE Only(h[s])

LEMMA ListHolds ==
  ASSUME link \in [Packets -> PacketOrNil], NEW h \in [Slots -> PacketOrNil], NEW id,
         NEW o \in [Packets -> Slots], NEW r \in [Packets -> Int], KeptBy(h, link, {}, id, o, r),
         NEW s \in Slots
  PROVE  Holds(ListAt(h, s), s, o)
<1>1. PICK f : ListedUpto(f, link, 9) /\ \A p : Chain(p) = f[9][p]
  BY ChainSolves
<1>2. /\ \A q \in Packets : q # Nil /\ q \in Packets \ {}
      /\ \A q \in Packets \ {} : q \in Packets
      /\ \A x \in Packets : r[x] \in Int
  BY DEF Packets, Nil
<1>3. CASE h[s] = Nil
  <2>1. \A p \in Packets : o[p] # s
    BY <1>2, <1>3 DEF KeptBy
  <2>2. ListAt(h, s) = <<>>
    <3>1. Chain(Nil) = <<>>
      <4>1. f[9] = [q \in Packets \union {Nil} |->
                      IF q = Nil \/ 9 = 0 THEN <<>> ELSE <<q>> \o f[9 - 1][link[q]]]
        <5>1. \A k \in 0..9 : f[k] = [q \in Packets \union {Nil} |->
                      IF q = Nil \/ k = 0 THEN <<>> ELSE <<q>> \o f[k - 1][link[q]]]
          BY <1>1, Zenon DEF ListedUpto
        <5>2. 9 \in 0..9
          OBVIOUS
        <5> QED BY <5>1, <5>2, Zenon
      <4>2. f[9][Nil] = <<>>
        BY <4>1
      <4> QED BY <1>1, <4>2
    <3> QED BY <1>3, <3>1 DEF ListAt, Only
  <2>3. <<>> \in Seq(Packets) /\ Len(<<>>) = 0 /\ 1..0 = {}
    OBVIOUS
  <2> QED BY <2>1, <2>2, <2>3 DEF Holds
<1>4. CASE h[s] # Nil /\ Linked(s)
  <2>1. PICK q \in Packets : q = h[s] /\ o[q] = s /\ \A x \in Packets : o[x] = s => r[q] <= r[x]
    BY <1>2, <1>4 DEF KeptBy
  <2>2. PICK n \in Nat : n = 9
    OBVIOUS
  <2>3. \A k \in 0..n : \A x \in Packets : Linked(o[x]) => Follows(f[k][x], x, k, o, r)
    BY <1>1, <2>2, ListsFollow
  <2>4. PICK c : c = f[9][q]
    OBVIOUS
  <2>5. Follows(c, q, 9, o, r) /\ ListAt(h, s) = c
    <3>1. 9 \in 0..n
      BY <2>2
    <3>2. ListAt(h, s) = c
      BY <1>1, <1>4, <2>1, <2>4 DEF ListAt
    <3> QED BY <1>4, <2>1, <2>3, <2>4, <3>1, <3>2
  <2>6. /\ c \in Seq(Packets) /\ Len(c) <= 9 /\ Len(c) \in Nat
        /\ \A i \in 1..Len(c) : o[c[i]] = s /\ r[c[i]] = r[q] + i - 1
        /\ \A x \in Packets : o[x] = s =>
             (\E i \in 1..Len(c) : c[i] = x) \/ Len(c) = 9
    BY <2>1, <2>5 DEF Follows
  <2>7. Len(c) # 9
    <3>1. r[q] \in Int /\ \A i \in 1..Len(c) : r[c[i]] = r[q] + i - 1
      BY <1>2, <2>6
    <3>2. PICK b \in Int : b = r[q]
      BY <3>1
    <3>3. c \in Seq(Packets) /\ \A i \in 1..Len(c) : r[c[i]] = b + i - 1
      BY <2>6, <3>1, <3>2
    <3> QED BY <3>3, NoNine
  <2>8. ASSUME NEW i \in 1..Len(c), NEW j \in 1..Len(c), c[i] = c[j]
        PROVE  i = j
    <3>1. r[q] + i - 1 = r[q] + j - 1 /\ r[q] \in Int
      BY <1>2, <2>1, <2>6, <2>8
    <3> QED BY <3>1
  <2> QED BY <2>5, <2>6, <2>7, <2>8 DEF Holds
<1>5. CASE h[s] # Nil /\ ~Linked(s)
  <2>1. PICK q \in Packets : q = h[s] /\ o[q] = s
    BY <1>2, <1>5 DEF KeptBy
  <2>2. PICK c \in Seq(Packets) : c = <<q>> /\ Len(c) = 1 /\ c[1] = q
    <3>1. <<q>> \in Seq(Packets) /\ Len(<<q>>) = 1 /\ <<q>>[1] = q
      OBVIOUS
    <3> QED BY <3>1
  <2>3. ListAt(h, s) = c
    BY <1>5, <2>1, <2>2 DEF ListAt, Only
  <2>4. \A p \in Packets : o[p] = s => p = q
    BY <1>2, <1>5, <2>1 DEF KeptBy
  <2>5. 1 \in 1..Len(c) /\ \A i \in 1..Len(c) : i = 1
    BY <2>2
  <2> QED BY <2>1, <2>2, <2>3, <2>4, <2>5 DEF Holds
<1> QED BY <1>3, <1>4, <1>5

(* So every packet is in one place. *)
LEMMA PacketsInvKeeps == PacketsInv => PacketsKept
<1> SUFFICES ASSUME PacketsInv PROVE PacketsKept
  OBVIOUS
<1>1. /\ input \in [Tasks -> PacketOrNil] /\ workIn \in [Handlers -> PacketOrNil]
      /\ deviceIn \in [Handlers -> PacketOrNil] /\ devPending \in [Devices -> PacketOrNil]
      /\ link \in [Packets -> PacketOrNil]
  BY DEF PacketsInv, KernelInv, RichardsTypeOK, PacketOrNil
<1>2. PICK h \in [Slots -> PacketOrNil] : h = Heads(input, workIn, deviceIn, devPending)
  BY <1>1, HeadsType
<1>3. PICK o \in [Packets -> Slots], r \in [Packets -> Int] : KeptBy(h, link, {}, ident, o, r)
  <2>1. Kept(h, link, {}, ident)
    BY <1>2 DEF PacketsInv
  <2> QED BY <2>1 DEF Kept
<1>4. \A s \in Slots : Holds(ListAt(h, s), s, o)
  BY <1>1, <1>3, ListHolds
<1> DEFINE lists == {<<"input", t, Chain(input[t])>> : t \in Tasks} \union
                    {<<"work", t, Chain(workIn[t])>> : t \in Handlers} \union
                    {<<"device", t, Chain(deviceIn[t])>> : t \in Handlers} \union
                    {<<"pending", t, Only(devPending[t])>> : t \in Devices}
           places(p) == {place \in lists \X (1..9) :
                           /\ place[2] <= Len(place[1][3])
                           /\ place[1][3][place[2]] = p}
<1>5. /\ \A t \in Tasks : ListAt(h, <<"input", t>>) = Chain(input[t])
      /\ \A t \in Handlers : ListAt(h, <<"work", t>>) = Chain(workIn[t])
      /\ \A t \in Handlers : ListAt(h, <<"device", t>>) = Chain(deviceIn[t])
      /\ \A t \in Devices : ListAt(h, <<"pending", t>>) = Only(devPending[t])
  <2>1. ASSUME NEW t \in Tasks
        PROVE  ListAt(h, <<"input", t>>) = Chain(input[t])
    <3>1. PICK s \in Slots : s = <<"input", t>> /\ Linked(s)
      BY SlotFacts
    <3>2. h[s] = input[t]
      BY <1>2, <3>1, HeadsOf
    <3> QED BY <3>1, <3>2 DEF ListAt
  <2>2. ASSUME NEW t \in Handlers
        PROVE  ListAt(h, <<"work", t>>) = Chain(workIn[t])
    <3>1. PICK s \in Slots : s = <<"work", t>> /\ Linked(s)
      BY SlotFacts
    <3>2. h[s] = workIn[t]
      BY <1>2, <3>1, HeadsOf
    <3> QED BY <3>1, <3>2 DEF ListAt
  <2>3. ASSUME NEW t \in Handlers
        PROVE  ListAt(h, <<"device", t>>) = Chain(deviceIn[t])
    <3>1. PICK s \in Slots : s = <<"device", t>> /\ Linked(s)
      BY SlotFacts
    <3>2. h[s] = deviceIn[t]
      BY <1>2, <3>1, HeadsOf
    <3> QED BY <3>1, <3>2 DEF ListAt
  <2>4. ASSUME NEW t \in Devices
        PROVE  ListAt(h, <<"pending", t>>) = Only(devPending[t])
    <3>1. PICK s \in Slots : s = <<"pending", t>> /\ ~Linked(s)
      BY SlotFacts
    <3>2. h[s] = devPending[t]
      BY <1>2, <3>1, HeadsOf
    <3> QED BY <3>1, <3>2 DEF ListAt
  <2> QED BY <2>1, <2>2, <2>3, <2>4
<1>6. ASSUME NEW s \in Slots
      PROVE  <<s[1], s[2], ListAt(h, s)>> \in lists
  <2>1. CASE s[1] = "input" /\ s[2] \in Tasks /\ s = <<"input", s[2]>>
    <3>1. ListAt(h, s) = Chain(input[s[2]])
      BY <1>5, <2>1
    <3> QED BY <2>1, <3>1
  <2>2. CASE s[1] = "work" /\ s[2] \in Handlers /\ s = <<"work", s[2]>>
    <3>1. ListAt(h, s) = Chain(workIn[s[2]])
      BY <1>5, <2>2
    <3> QED BY <2>2, <3>1
  <2>3. CASE s[1] = "device" /\ s[2] \in Handlers /\ s = <<"device", s[2]>>
    <3>1. ListAt(h, s) = Chain(deviceIn[s[2]])
      BY <1>5, <2>3
    <3> QED BY <2>3, <3>1
  <2>4. CASE s[1] = "pending" /\ s[2] \in Devices /\ s = <<"pending", s[2]>>
    <3>1. ListAt(h, s) = Only(devPending[s[2]])
      BY <1>5, <2>4
    <3> QED BY <2>4, <3>1
  <2> QED BY <2>1, <2>2, <2>3, <2>4, SlotFacts
<1>7. ASSUME NEW l \in lists
      PROVE  \E s \in Slots : l = <<s[1], s[2], ListAt(h, s)>>
  <2>1. ASSUME NEW t \in Tasks, l = <<"input", t, Chain(input[t])>>
        PROVE  \E s \in Slots : l = <<s[1], s[2], ListAt(h, s)>>
    <3>1. PICK s \in Slots : s = <<"input", t>>
      BY SlotFacts
    <3>2. l = <<s[1], s[2], ListAt(h, s)>>
      BY <1>5, <2>1, <3>1
    <3> QED BY <3>2
  <2>2. ASSUME NEW t \in Handlers, l = <<"work", t, Chain(workIn[t])>>
        PROVE  \E s \in Slots : l = <<s[1], s[2], ListAt(h, s)>>
    <3>1. PICK s \in Slots : s = <<"work", t>>
      BY SlotFacts
    <3>2. l = <<s[1], s[2], ListAt(h, s)>>
      BY <1>5, <2>2, <3>1
    <3> QED BY <3>2
  <2>3. ASSUME NEW t \in Handlers, l = <<"device", t, Chain(deviceIn[t])>>
        PROVE  \E s \in Slots : l = <<s[1], s[2], ListAt(h, s)>>
    <3>1. PICK s \in Slots : s = <<"device", t>>
      BY SlotFacts
    <3>2. l = <<s[1], s[2], ListAt(h, s)>>
      BY <1>5, <2>3, <3>1
    <3> QED BY <3>2
  <2>4. ASSUME NEW t \in Devices, l = <<"pending", t, Only(devPending[t])>>
        PROVE  \E s \in Slots : l = <<s[1], s[2], ListAt(h, s)>>
    <3>1. PICK s \in Slots : s = <<"pending", t>>
      BY SlotFacts
    <3>2. l = <<s[1], s[2], ListAt(h, s)>>
      BY <1>5, <2>4, <3>1
    <3> QED BY <3>2
  <2> QED BY <2>1, <2>2, <2>3, <2>4
<1>8. ASSUME NEW p \in Packets
      PROVE  Cardinality(places(p)) = 1
  <2> HIDE DEF lists
  <2>1. PICK s \in Slots : s = o[p]
    OBVIOUS
  <2>2. PICK c : c = ListAt(h, s) /\ Holds(c, s, o)
    BY <1>4
  <2>3. PICK i \in 1..Len(c) : c[i] = p
    BY <2>1, <2>2 DEF Holds
  <2>4. i \in 1..9 /\ i <= Len(c) /\ <<s[1], s[2], c>> \in lists
    BY <1>6, <2>2 DEF Holds
  <2>5. <<<<s[1], s[2], c>>, i>> \in places(p)
    BY <2>3, <2>4
  <2>6. ASSUME NEW place \in places(p)
        PROVE  place = <<<<s[1], s[2], c>>, i>>
    <3>1. PICK l \in lists, j \in 1..9 : place = <<l, j>> /\ j <= Len(l[3]) /\ l[3][j] = p
      <4>1. place \in lists \X (1..9) /\ place[2] <= Len(place[1][3]) /\ place[1][3][place[2]] = p
        OBVIOUS
      <4>2. PICK l \in lists, j \in 1..9 : place = <<l, j>>
        BY <4>1
      <4> QED BY <4>1, <4>2
    <3>2. PICK u \in Slots : l = <<u[1], u[2], ListAt(h, u)>>
      BY <1>7
    <3>3. PICK e : e = ListAt(h, u) /\ Holds(e, u, o)
      BY <1>4
    <3>4. j \in 1..Len(e) /\ e[j] = p
      BY <3>1, <3>2, <3>3 DEF Holds
    <3>5. u = s /\ e = c
      BY <2>1, <2>2, <3>3, <3>4 DEF Holds
    <3>6. j = i
      BY <2>2, <2>3, <3>4, <3>5 DEF Holds
    <3> QED BY <3>1, <3>2, <3>3, <3>5, <3>6
  <2>7. places(p) = {<<<<s[1], s[2], c>>, i>>}
    <3> HIDE DEF places
    <3> QED BY <2>5, <2>6
  <2> HIDE DEF places
  <2> QED BY <2>7, FS_Singleton
<1> QED BY <1>8, Zenon DEF PacketsKept

(* Every packet is always in one place: the links that the lists share     *)
(* join no list to another, close none to a cycle and cut none short, in   *)
(* whatever order the tasks send, take and put aside.                      *)
THEOREM RichardsPacketsKept == RichardsSpec => []PacketsKept
BY PacketsInvKeeps, PacketsAlways, PTL
=============================================================================
