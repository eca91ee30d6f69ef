-------------------------- MODULE SequentialProofs --------------------------
(***************************************************************************)
(* Proofs about the two sequential programs.                               *)
(*                                                                         *)
(* DeltaBlue, for every size of the tests.  The inductive invariant        *)
(* PlannerInv says that a script makes no constraint twice, that what is   *)
(* satisfied is on the list of each of its variables and determines its    *)
(* output alone, and which annotations may be out of date in the midst of  *)
(* a propagation: those of the constraints the loop has still to           *)
(* recalculate, or that a variable on its list feeds.                      *)
(*                                                                         *)
(* Go, for every size of the board and every game.  The inductive          *)
(* invariant GoInv says that the board is Sound between moves: there is a  *)
(* root R[s] for every square that its chain of references ends at,        *)
(* neighbours of one colour have the same root, only stones of that colour *)
(* have it, and a root counts the edges of its group to empty squares, of  *)
(* which there is one.  Within a move the same is said with what the loops *)
(* have still to do: MeetInv of the neighbours a new stone has not met     *)
(* yet, RemoveInv of the stones of a captured group not yet taken away.    *)
(***************************************************************************)
EXTENDS DeltaBlue, Go, DataLemmas, FiniteSetTheorems, SequenceTheorems,
        WellFoundedInduction, TLAPS


-----------------------------------------------------------------------------
(* Sequences. *)

(* What a sequence has on it. *)
On(s) == {s[i] : i \in DOMAIN s}

LEMMA OnAppend ==
  ASSUME NEW T, NEW s \in Seq(T), NEW e \in T
  PROVE  Append(s, e) \in Seq(T) /\ On(Append(s, e)) = On(s) \union {e}
<1>1. /\ Append(s, e) \in Seq(T)
      /\ Len(Append(s, e)) = Len(s) + 1
      /\ \A i \in 1..Len(s) : Append(s, e)[i] = s[i]
      /\ Append(s, e)[Len(s) + 1] = e
      /\ Len(s) \in Nat /\ DOMAIN s = 1..Len(s) /\ DOMAIN Append(s, e) = 1..(Len(s) + 1)
  BY AppendProperties, LenProperties
<1> QED
  BY <1>1 DEF On

LEMMA OnConcat ==
  ASSUME NEW T, NEW s \in Seq(T), NEW t \in Seq(T)
  PROVE  s \o t \in Seq(T) /\ On(s \o t) = On(s) \union On(t)
<1>1. /\ s \o t \in Seq(T)
      /\ Len(s \o t) = Len(s) + Len(t)
      /\ \A i \in 1..(Len(s) + Len(t)) : (s \o t)[i] = IF i <= Len(s) THEN s[i] ELSE t[i - Len(s)]
      /\ Len(s) \in Nat /\ Len(t) \in Nat
      /\ DOMAIN s = 1..Len(s) /\ DOMAIN t = 1..Len(t) /\ DOMAIN (s \o t) = 1..(Len(s) + Len(t))
  BY ConcatProperties, LenProperties
<1>2. ASSUME NEW x \in On(t)
      PROVE  x \in On(s \o t)
  <2>1. PICK i \in 1..Len(t) : x = t[i]
    BY <1>1 DEF On
  <2>2. (s \o t)[Len(s) + i] = t[i] /\ Len(s) + i \in 1..(Len(s) + Len(t))
    BY <1>1
  <2> QED
    BY <1>1, <2>1, <2>2 DEF On
<1>3. ASSUME NEW x \in On(s)
      PROVE  x \in On(s \o t)
  BY <1>1 DEF On
<1>4. ASSUME NEW x \in On(s \o t)
      PROVE  x \in On(s) \union On(t)
  <2>1. PICK i \in 1..(Len(s) + Len(t)) : x = (s \o t)[i]
    BY <1>1 DEF On
  <2>2. CASE i <= Len(s)
    BY <1>1, <2>1, <2>2 DEF On
  <2>3. CASE ~(i <= Len(s))
    <3>1. i - Len(s) \in 1..Len(t) /\ x = t[i - Len(s)]
      BY <1>1, <2>1, <2>3
    <3> QED
      BY <1>1, <3>1 DEF On
  <2> QED
    BY <2>2, <2>3
<1> QED
  BY <1>1, <1>2, <1>3, <1>4

LEMMA OnHeadTail ==
  ASSUME NEW T, NEW s \in Seq(T), s # <<>>
  PROVE  /\ Head(s) \in T /\ Tail(s) \in Seq(T)
         /\ On(s) = {Head(s)} \union On(Tail(s))
         /\ Len(Tail(s)) = Len(s) - 1 /\ Len(s) \in Nat
         /\ Head(s) = s[1] /\ 1 \in DOMAIN s
         /\ \A i \in DOMAIN Tail(s) : Tail(s)[i] = s[i + 1] /\ i + 1 \in DOMAIN s
<1>1. /\ Head(s) \in T /\ Tail(s) \in Seq(T) /\ Len(s) \in Nat /\ Len(s) # 0
      /\ Len(Tail(s)) = Len(s) - 1
      /\ \A i \in 1..(Len(s) - 1) : Tail(s)[i] = s[i + 1]
      /\ Head(s) = s[1]
      /\ DOMAIN s = 1..Len(s) /\ DOMAIN Tail(s) = 1..(Len(s) - 1)
  BY HeadTailProperties, LenProperties, EmptySeq
<1>2. ASSUME NEW x \in On(s)
      PROVE  x \in {Head(s)} \union On(Tail(s))
  <2>1. PICK i \in 1..Len(s) : x = s[i]
    BY <1>1 DEF On
  <2>2. CASE i = 1
    BY <1>1, <2>1, <2>2
  <2>3. CASE i # 1
    <3>1. i - 1 \in 1..(Len(s) - 1) /\ Tail(s)[i - 1] = s[(i - 1) + 1] /\ (i - 1) + 1 = i
      BY <1>1, <2>3
    <3> QED
      BY <1>1, <2>1, <3>1 DEF On
  <2> QED
    BY <2>2, <2>3
<1>3. ASSUME NEW x \in {Head(s)} \union On(Tail(s))
      PROVE  x \in On(s)
  <2>1. CASE x = Head(s)
    BY <1>1, <2>1 DEF On
  <2>2. CASE x \in On(Tail(s))
    <3>1. PICK i \in 1..(Len(s) - 1) : x = s[i + 1]
      BY <1>1, <2>2 DEF On
    <3>2. i + 1 \in 1..Len(s)
      BY <1>1
    <3> QED
      BY <1>1, <3>1, <3>2 DEF On
  <2> QED
    BY <2>1, <2>2
<1> QED
  BY <1>1, <1>2, <1>3

(* The function that Among is the last value of. *)
AmongSteps(f, s, S, n) ==
  f = [i \in 0..n |-> CASE i = 0 -> <<>>
                        [] i > 0 /\ s[i] \in S -> Append(f[i - 1], s[i])
                        [] OTHER -> f[i - 1]]

LEMMA AmongSolves ==
  ASSUME NEW s, NEW S, Len(s) \in Nat
  PROVE  \E f : AmongSteps(f, s, S, Len(s)) /\ Among(s, S) = f[Len(s)]
<1> DEFINE n == Len(s)
           Good == {k \in 0..n : \E f : AmongSteps(f, s, S, k)}
<1>1. 0 \in Good
  <2>1. AmongSteps([i \in 0..0 |-> <<>>], s, S, 0)
    BY DEF AmongSteps
  <2> QED
    BY <2>1
<1>2. ASSUME NEW k \in 1..n, k - 1 \in Good
      PROVE  k \in Good
  <2>1. PICK f : AmongSteps(f, s, S, k - 1)
    BY <1>2
  <2>2. \A i \in 0..(k - 1) : f[i] = CASE i = 0 -> <<>>
                                      [] i > 0 /\ s[i] \in S -> Append(f[i - 1], s[i])
                                      [] OTHER -> f[i - 1]
    BY <2>1, Zenon DEF AmongSteps
  <2> DEFINE g == [i \in 0..k |-> IF i = k THEN IF s[k] \in S THEN Append(f[k - 1], s[k]) ELSE f[k - 1]
                                  ELSE f[i]]
  <2>3. /\ \A i \in 0..(k - 1) : g[i] = f[i]
        /\ g[k] = IF s[k] \in S THEN Append(f[k - 1], s[k]) ELSE f[k - 1]
    OBVIOUS
  <2>4. g = [i \in 0..k |-> g[i]]
    OBVIOUS
  <2> HIDE DEF g
  <2>5. ASSUME NEW i \in 0..k
        PROVE  g[i] = CASE i = 0 -> <<>>
                        [] i > 0 /\ s[i] \in S -> Append(g[i - 1], s[i])
                        [] OTHER -> g[i - 1]
    <3>1. CASE i = k
      BY <2>3, <3>1
    <3>2. CASE i # k /\ i # 0
      <4>1. i \in 0..(k - 1) /\ i - 1 \in 0..(k - 1)
        BY <3>2
      <4> QED
        BY <2>2, <2>3, <4>1
    <3>3. CASE i # k /\ i = 0
      <4>1. 0 \in 0..(k - 1)
        OBVIOUS
      <4> QED
        BY <2>2, <2>3, <3>3, <4>1
    <3> QED
      BY <3>1, <3>2, <3>3
  <2>6. AmongSteps(g, s, S, k)
    BY <2>4, <2>5 DEF AmongSteps
  <2> QED
    BY <2>6
<1> HIDE DEF Good
<1>3. n \in Good
  <2>1. \A i \in 0..n : i \in Good
    BY <1>1, <1>2, Upto
  <2> QED
    BY <2>1
<1>4. PICK f : f = CHOOSE g : AmongSteps(g, s, S, n)
  OBVIOUS
<1>5. AmongSteps(f, s, S, n)
  BY <1>3, <1>4, Zenon DEF Good
<1>6. Among(s, S) = f[n]
  BY <1>4, Zenon DEF Among, AmongSteps
<1> QED
  BY <1>5, <1>6

LEMMA AmongFacts ==
  ASSUME NEW T, NEW s \in Seq(T), NEW S
  PROVE  Among(s, S) \in Seq(T) /\ On(Among(s, S)) = On(s) \intersect S
<1> DEFINE n == Len(s)
<1>1. n \in Nat /\ DOMAIN s = 1..n /\ \A i \in 1..n : s[i] \in T
  BY LenProperties
<1>2. PICK f : AmongSteps(f, s, S, n) /\ Among(s, S) = f[n]
  BY <1>1, AmongSolves
<1>3. \A i \in 0..n : f[i] = CASE i = 0 -> <<>>
                              [] i > 0 /\ s[i] \in S -> Append(f[i - 1], s[i])
                              [] OTHER -> f[i - 1]
  BY <1>2, Zenon DEF AmongSteps
<1> DEFINE Good == {i \in 0..n : f[i] \in Seq(T) /\ On(f[i]) = {s[j] : j \in 1..i} \intersect S}
<1>4. 0 \in Good
  <2>1. f[0] = <<>> /\ <<>> \in Seq(T) /\ On(<<>>) = {}
    BY <1>1, <1>3, EmptySeq DEF On
  <2>2. {s[j] : j \in 1..0} = {}
    OBVIOUS
  <2>3. f[0] \in Seq(T) /\ On(f[0]) = {s[j] : j \in 1..0} \intersect S
    BY <2>1, <2>2
  <2>4. 0 \in 0..n
    BY <1>1
  <2> QED
    BY <2>3, <2>4
<1>5. ASSUME NEW i \in 1..n, i - 1 \in Good
      PROVE  i \in Good
  <2>1. {s[j] : j \in 1..i} = {s[j] : j \in 1..(i - 1)} \union {s[i]}
    <3>1. \A j \in 1..i : j \in 1..(i - 1) \/ j = i
      OBVIOUS
    <3>2. \A j \in 1..(i - 1) : j \in 1..i
      OBVIOUS
    <3>3. i \in 1..i
      OBVIOUS
    <3> QED
      BY <3>1, <3>2, <3>3
  <2>2. f[i - 1] \in Seq(T) /\ On(f[i - 1]) = {s[j] : j \in 1..(i - 1)} \intersect S
    BY <1>5
  <2>3. i \in 0..n /\ i # 0 /\ i > 0
    OBVIOUS
  <2>4. CASE s[i] \in S
    <3>1. f[i] = Append(f[i - 1], s[i])
      BY <1>3, <2>3, <2>4
    <3>2. f[i] \in Seq(T) /\ On(f[i]) = On(f[i - 1]) \union {s[i]}
      BY <1>1, <2>2, <3>1, OnAppend
    <3> QED
      BY <2>1, <2>2, <2>3, <2>4, <3>2
  <2>5. CASE s[i] \notin S
    <3>1. f[i] = f[i - 1]
      BY <1>3, <2>3, <2>5
    <3> QED
      BY <2>1, <2>2, <2>3, <2>5, <3>1
  <2> QED
    BY <2>4, <2>5
<1>6. n \in Good
  <2> HIDE DEF Good
  <2>1. \A i \in 0..n : i \in Good
    BY <1>1, <1>4, <1>5, Upto
  <2> QED
    BY <1>1, <2>1
<1>7. On(s) = {s[j] : j \in 1..n}
  BY <1>1 DEF On
<1> QED
  BY <1>2, <1>6, <1>7

(* No element comes twice. *)
Once(s) == \A i, j \in DOMAIN s : s[i] = s[j] => i = j

LEMMA OnceAppend ==
  ASSUME NEW T, NEW s \in Seq(T), NEW e \in T, Once(s), e \notin On(s)
  PROVE  Once(Append(s, e))
<1>1. /\ \A i \in 1..Len(s) : Append(s, e)[i] = s[i]
      /\ Append(s, e)[Len(s) + 1] = e
      /\ Len(s) \in Nat /\ DOMAIN s = 1..Len(s) /\ DOMAIN Append(s, e) = 1..(Len(s) + 1)
  BY AppendProperties, LenProperties
<1>2. ASSUME NEW i \in 1..(Len(s) + 1), NEW j \in 1..(Len(s) + 1), Append(s, e)[i] = Append(s, e)[j]
      PROVE  i = j
  <2>1. CASE i \in 1..Len(s) /\ j \in 1..Len(s)
    BY <1>1, <1>2, <2>1 DEF Once
  <2>2. CASE i \in 1..Len(s) /\ j = Len(s) + 1
    BY <1>1, <1>2, <2>2 DEF On
  <2>3. CASE i = Len(s) + 1 /\ j \in 1..Len(s)
    BY <1>1, <1>2, <2>3 DEF On
  <2>4. CASE i = Len(s) + 1 /\ j = Len(s) + 1
    BY <2>4
  <2> QED
    BY <1>1, <2>1, <2>2, <2>3, <2>4
<1> QED
  BY <1>1, <1>2 DEF Once

LEMMA RemoveFirstFacts ==
  ASSUME NEW T, NEW s \in Seq(T), NEW e, Once(s)
  PROVE  /\ RemoveFirst(s, e) \in Seq(T)
         /\ Once(RemoveFirst(s, e))
         /\ On(RemoveFirst(s, e)) = On(s) \ {e}
<1>1. Len(s) \in Nat /\ DOMAIN s = 1..Len(s) /\ \A i \in 1..Len(s) : s[i] \in T
  BY LenProperties
<1>2. CASE ~\E i \in 1..Len(s) : s[i] = e
  <2>1. RemoveFirst(s, e) = s /\ e \notin On(s)
    BY <1>1, <1>2 DEF RemoveFirst, On
  <2> QED
    BY <2>1
<1>3. CASE \E i \in 1..Len(s) : s[i] = e
  <2>1. PICK k \in 1..Len(s) : s[k] = e
    BY <1>3
  <2>2. \A i \in 1..Len(s) : s[i] = e <=> i = k
    BY <1>1, <2>1 DEF Once
  <2>3. SelectInSeq(s, LAMBDA v : v = e) = k
    <3>1. {i \in 1..Len(s) : s[i] = e} = {k}
      BY <2>2
    <3>2. Min({k}) = k
      BY DEF Min
    <3> QED
      BY <3>1, <3>2 DEF SelectInSeq
  <2>4. RemoveFirst(s, e) = SubSeq(s, 1, k - 1) \o SubSeq(s, k + 1, Len(s))
    BY <1>3, <2>3 DEF RemoveFirst, RemoveAt
  <2> DEFINE n == Len(s)
             a == SubSeq(s, 1, k - 1)
             b == SubSeq(s, k + 1, n)
  <2>5. /\ a \in Seq(T) /\ Len(a) = k - 1 /\ \A i \in 1..(k - 1) : a[i] = s[i]
    <3>1. 1 \in Int /\ k - 1 \in Int /\ \A i \in 1..(k - 1) : s[i] \in T
      BY <1>1
    <3> QED
      BY <1>1, <3>1, SubSeqProperties
  <2>6. /\ b \in Seq(T) /\ Len(b) = n - k /\ \A i \in 1..(n - k) : b[i] = s[k + i]
    <3>1. k + 1 \in Int /\ n \in Int /\ \A i \in (k + 1)..n : s[i] \in T
      BY <1>1
    <3>2. /\ b \in Seq(T) /\ Len(b) = IF k + 1 <= n THEN n - (k + 1) + 1 ELSE 0
          /\ \A i \in 1..(n - (k + 1) + 1) : b[i] = s[(k + 1) + i - 1]
      BY <1>1, <3>1, SubSeqProperties
    <3> HIDE DEF b
    <3>3. Len(b) = n - k
      <4>1. CASE k + 1 <= n
        <5>1. n - (k + 1) + 1 = n - k
          BY <1>1
        <5> QED
          BY <3>2, <4>1, <5>1
      <4>2. CASE ~(k + 1 <= n)
        <5>1. k \in Nat /\ n \in Nat /\ k <= n
          BY <1>1
        <5>2. k = n
          BY <4>2, <5>1
        <5>3. n - k = 0
          BY <5>1, <5>2
        <5> QED
          BY <3>2, <4>2, <5>3
      <4> QED
        BY <4>1, <4>2
    <3>4. ASSUME NEW i \in 1..(n - k)
          PROVE  b[i] = s[k + i]
      <4>1. i \in 1..(n - (k + 1) + 1) /\ (k + 1) + i - 1 = k + i
        BY <1>1
      <4> QED
        BY <3>2, <4>1
    <3>5. b \in Seq(T)
      BY <3>2
    <3> QED
      BY <3>3, <3>4, <3>5
  <2> HIDE DEF a, b
  <2>7. PICK r : r = RemoveFirst(s, e)
    OBVIOUS
  <2>8. /\ r \in Seq(T) /\ Len(r) = n - 1 /\ DOMAIN r = 1..(n - 1)
        /\ \A i \in 1..(n - 1) : r[i] = s[IF i < k THEN i ELSE i + 1]
    <3>1. /\ r \in Seq(T) /\ Len(r) = (k - 1) + (n - k)
          /\ \A i \in 1..((k - 1) + (n - k)) : r[i] = IF i <= k - 1 THEN a[i] ELSE b[i - (k - 1)]
      <4>1. r = a \o b
        BY <2>4, <2>7 DEF a, b
      <4>2. /\ r \in Seq(T) /\ Len(r) = Len(a) + Len(b)
            /\ \A i \in 1..(Len(a) + Len(b)) : r[i] = IF i <= Len(a) THEN a[i] ELSE b[i - Len(a)]
        BY <2>5, <2>6, <4>1, ConcatProperties
      <4> QED
        BY <2>5, <2>6, <4>2
    <3>2. (k - 1) + (n - k) = n - 1
      BY <1>1
    <3>3. ASSUME NEW i \in 1..(n - 1)
          PROVE  r[i] = s[IF i < k THEN i ELSE i + 1]
      <4>1. CASE i < k
        <5>1. i <= k - 1 /\ i \in 1..(k - 1) /\ i \in 1..((k - 1) + (n - k))
          BY <1>1, <4>1
        <5>2. r[i] = a[i]
          BY <3>1, <5>1
        <5>3. a[i] = s[i]
          BY <2>5, <5>1
        <5> QED
          BY <4>1, <5>2, <5>3
      <4>2. CASE ~(i < k)
        <5>1. i - (k - 1) \in 1..(n - k) /\ k + (i - (k - 1)) = i + 1 /\ ~(i <= k - 1)
          BY <1>1, <4>2
        <5> QED
          BY <2>6, <3>1, <3>2, <4>2, <5>1
      <4> QED
        BY <4>1, <4>2
    <3> QED
      BY <3>1, <3>2, <3>3, LenProperties
  <2>9. Once(r)
    <3>1. ASSUME NEW i \in 1..(n - 1), NEW j \in 1..(n - 1), r[i] = r[j]
          PROVE  i = j
      <4>1. PICK x \in 1..n, y \in 1..n : /\ x = IF i < k THEN i ELSE i + 1
                                          /\ y = IF j < k THEN j ELSE j + 1
        BY <1>1
      <4>2. s[x] = s[y]
        BY <2>8, <3>1, <4>1
      <4>3. x = y
        BY <1>1, <4>2 DEF Once
      <4> QED
        BY <4>1, <4>3
    <3> QED
      BY <2>8, <3>1 DEF Once
  <2>10. ASSUME NEW x \in On(r)
         PROVE  x \in On(s) \ {e}
    <3>1. PICK i \in 1..(n - 1) : x = r[i]
      BY <2>8 DEF On
    <3>2. PICK j \in 1..n : j = IF i < k THEN i ELSE i + 1
      BY <1>1
    <3>3. j # k /\ x = s[j]
      BY <2>8, <3>1, <3>2
    <3> QED
      BY <1>1, <2>2, <3>3 DEF On
  <2>11. ASSUME NEW x \in On(s) \ {e}
         PROVE  x \in On(r)
    <3>1. PICK j \in 1..n : x = s[j]
      BY <1>1 DEF On
    <3>2. j # k
      BY <2>1, <3>1
    <3>3. PICK i \in 1..(n - 1) : j = IF i < k THEN i ELSE i + 1
      <4>1. CASE j < k
        BY <1>1, <4>1
      <4>2. CASE j > k
        <5>1. j - 1 \in 1..(n - 1) /\ ~(j - 1 < k) /\ (j - 1) + 1 = j
          BY <1>1, <4>2
        <5> QED
          BY <5>1
      <4> QED
        BY <1>1, <3>2, <4>1, <4>2
    <3>4. x = r[i]
      BY <2>8, <3>1, <3>3
    <3> QED
      BY <2>8, <3>4 DEF On
  <2> QED
    BY <2>7, <2>8, <2>9, <2>10, <2>11
<1> QED
  BY <1>2, <1>3

-----------------------------------------------------------------------------
(* Constraints and their variables. *)

(* The three shapes of a constraint. *)
LEMMA ConstraintIs ==
  ASSUME NEW c \in Constraints
  PROVE  \/ Class(c) \in {"stay", "edit"} /\ Unary(c) /\ Named(c) \in Variables
            /\ Strength(c) \in {PREFERRED, STRONG_DEFAULT, NORMAL}
         \/ Class(c) = "equality" /\ ~Unary(c) /\ c[2] = "v" /\ c[3] \in 1..MaxSize
            /\ Strength(c) = REQUIRED
         \/ Class(c) = "scale" /\ ~Unary(c) /\ c[2] = "src" /\ c[3] \in 0..(MaxSize - 1)
            /\ Strength(c) = REQUIRED
<1>1. ASSUME NEW v \in Variables
      PROVE  v = <<v[1], v[2]>>
  BY DEF Variables, Scale, Offset
<1>2. CASE \E v \in Variables : c = Stay(v)
  <2>1. PICK v \in Variables : c = Stay(v)
    BY <1>2
  <2>2. c[1] = "stay" /\ Named(c) = <<v[1], v[2]>>
    BY <2>1 DEF Stay, Named
  <2> QED
    BY <1>1, <2>2 DEF Class, Unary, Strength
<1>3. CASE \E v \in Variables : c = Edit(v)
  <2>1. PICK v \in Variables : c = Edit(v)
    BY <1>3
  <2>2. c[1] = "edit" /\ Named(c) = <<v[1], v[2]>>
    BY <2>1 DEF Edit, Named
  <2> QED
    BY <1>1, <2>2 DEF Class, Unary, Strength
<1>4. CASE \E i \in 1..MaxSize : c = Equality(i)
  BY <1>4 DEF Equality, Class, Unary, Strength
<1>5. CASE \E i \in 0..(MaxSize - 1) : c = ScaleOf(i)
  BY <1>5 DEF ScaleOf, Class, Unary, Strength
<1> QED
  BY <1>2, <1>3, <1>4, <1>5 DEF Constraints

(* A constraint is on its output and its inputs, and these are different. *)
LEMMA ConstraintFacts ==
  ASSUME NEW c \in Constraints, NEW d
  PROVE  /\ VariablesOf(c) \subseteq Variables
         /\ OutputOf(c, d) \in VariablesOf(c)
         /\ InputsOf(c, d) \subseteq VariablesOf(c)
         /\ OutputOf(c, d) \notin InputsOf(c, d)
         /\ ~Unary(c) => InputOf(c, d) \in InputsOf(c, d)
         /\ Strength(c) \in {REQUIRED, PREFERRED, STRONG_DEFAULT, NORMAL}
<1>0. MaxSize \in Nat \ {0}
  BY DeltaBlueAssumption
<1>1. CASE Class(c) \in {"stay", "edit"} /\ Unary(c) /\ Named(c) \in Variables
           /\ Strength(c) \in {PREFERRED, STRONG_DEFAULT, NORMAL}
  BY <1>1 DEF VariablesOf, OutputOf, InputsOf
<1>2. CASE Class(c) = "equality" /\ ~Unary(c) /\ c[2] = "v" /\ c[3] \in 1..MaxSize
           /\ Strength(c) = REQUIRED
  <2>1. V1(c) = <<"v", c[3] - 1>> /\ V2(c) = <<"v", c[3]>>
    BY <1>2 DEF V1, V2
  <2>2. V1(c) \in Variables /\ V2(c) \in Variables /\ V1(c) # V2(c)
    <3>1. c[3] - 1 \in 0..MaxSize /\ c[3] \in 0..MaxSize /\ c[3] - 1 # c[3]
      BY <1>0, <1>2
    <3> QED
      BY <2>1, <3>1 DEF Variables
  <2> QED
    BY <1>2, <2>2 DEF VariablesOf, OutputOf, InputsOf, InputOf
<1>3. CASE Class(c) = "scale" /\ ~Unary(c) /\ c[2] = "src" /\ c[3] \in 0..(MaxSize - 1)
           /\ Strength(c) = REQUIRED
  <2>1. V1(c) = <<"src", c[3]>> /\ V2(c) = <<"dst", c[3]>>
    BY <1>3 DEF V1, V2
  <2>2. V1(c) \in Variables /\ V2(c) \in Variables /\ Scale \in Variables /\ Offset \in Variables
    BY <1>3, <2>1 DEF Variables
  <2>3. V1(c) # V2(c) /\ V1(c) \notin {Scale, Offset} /\ V2(c) \notin {Scale, Offset}
    BY <2>1 DEF Scale, Offset
  <2> QED
    BY <1>3, <2>2, <2>3 DEF VariablesOf, OutputOf, InputsOf, InputOf
<1> QED
  BY <1>1, <1>2, <1>3, ConstraintIs

-----------------------------------------------------------------------------
(* What recalculating and executing a constraint change. *)

(* x is a record of value, strength and stay flag for each variable. *)
Cells(x) == x = [v \in Variables |-> [value |-> x[v].value, walk |-> x[v].walk, stay |-> x[v].stay]]

(* Only the value of v is new in y. *)
NewValue(x, y, v) == /\ Cells(y)
                     /\ \A u \in Variables : u # v => y[u] = x[u]
                     /\ \A u \in Variables : y[u].walk = x[u].walk /\ y[u].stay = x[u].stay

LEMMA ValueSet ==
  ASSUME NEW x, Cells(x), NEW v \in Variables, NEW w
  PROVE  NewValue(x, [x EXCEPT ![v].value = w], v)
<1> DEFINE y == [x EXCEPT ![v].value = w]
<1>1. DOMAIN x = Variables /\ DOMAIN y = Variables
  BY DEF Cells
<1>2. \A u \in Variables : x[u] = [value |-> x[u].value, walk |-> x[u].walk, stay |-> x[u].stay]
  BY Zenon DEF Cells
<1>3. y[v] = [value |-> w, walk |-> x[v].walk, stay |-> x[v].stay]
  <2>1. y[v] = [x[v] EXCEPT !.value = w]
    BY <1>1
  <2> QED
    BY <1>2, <2>1
<1>4. \A u \in Variables : u # v => y[u] = x[u]
  BY <1>1
<1>5. y = [u \in Variables |-> y[u]]
  BY <1>1
<1> HIDE DEF y
<1>6. \A u \in Variables : y[u].walk = x[u].walk /\ y[u].stay = x[u].stay
  BY <1>3, <1>4
<1>7. \A u \in Variables : y[u] = [value |-> y[u].value, walk |-> y[u].walk, stay |-> y[u].stay]
  BY <1>2, <1>3, <1>4
<1>8. Cells(y)
  BY <1>5, <1>7 DEF Cells
<1> QED
  BY <1>4, <1>6, <1>8 DEF NewValue, y

LEMMA ExecuteFacts ==
  ASSUME NEW x, Cells(x), NEW c \in Constraints
  PROVE  NewValue(x, Execute(x, c), Output(c))
<1>1. Output(c) \in Variables
  BY ConstraintFacts DEF Output
<1>2. CASE Unary(c) /\ Class(c) \in {"stay", "edit"}
  <2>1. Execute(x, c) = x
    BY <1>2 DEF Execute
  <2> QED
    BY <2>1 DEF NewValue
<1>3. CASE Class(c) = "equality" /\ ~Unary(c)
  <2>1. PICK w : Execute(x, c) = [x EXCEPT ![Output(c)].value = w]
    BY <1>3 DEF Execute
  <2>2. NewValue(x, [x EXCEPT ![Output(c)].value = w], Output(c))
    BY <1>1, ValueSet, Zenon
  <2> QED
    BY <2>1, <2>2
<1>4. CASE Class(c) = "scale" /\ ~Unary(c)
  <2>1. PICK w : Execute(x, c) = [x EXCEPT ![Output(c)].value = w]
    BY <1>4 DEF Execute
  <2>2. NewValue(x, [x EXCEPT ![Output(c)].value = w], Output(c))
    BY <1>1, ValueSet, Zenon
  <2> QED
    BY <2>1, <2>2
<1> QED
  BY <1>2, <1>3, <1>4, ConstraintIs

(* Only the annotation of o is new in y. *)
NewAnnotation(x, y, o, a, b) == /\ Cells(y)
                                /\ y[o].walk = a /\ y[o].stay = b
                                /\ \A u \in Variables : u # o => y[u] = x[u]

LEMMA AnnotationSet ==
  ASSUME NEW x, Cells(x), NEW o \in Variables, NEW a, NEW b
  PROVE  NewAnnotation(x, [x EXCEPT ![o].walk = a, ![o].stay = b], o, a, b)
<1> DEFINE z == [x EXCEPT ![o].walk = a, ![o].stay = b]
<1>1. DOMAIN x = Variables /\ DOMAIN z = Variables
  BY DEF Cells
<1>2. \A u \in Variables : x[u] = [value |-> x[u].value, walk |-> x[u].walk, stay |-> x[u].stay]
  BY Zenon DEF Cells
<1>3. z[o] = [[x[o] EXCEPT !.walk = a] EXCEPT !.stay = b]
  BY <1>1
<1>4. \A u \in Variables : u # o => z[u] = x[u]
  BY <1>1
<1>5. z = [u \in Variables |-> z[u]]
  BY <1>1
<1> HIDE DEF z
<1>6. z[o] = [value |-> x[o].value, walk |-> a, stay |-> b]
  BY <1>2, <1>3
<1>7. \A u \in Variables : z[u] = [value |-> z[u].value, walk |-> z[u].walk, stay |-> z[u].stay]
  BY <1>2, <1>4, <1>6
<1>8. Cells(z)
  BY <1>5, <1>7 DEF Cells
<1> QED
  <2>1. NewAnnotation(x, z, o, a, b)
    BY <1>4, <1>6, <1>8 DEF NewAnnotation
  <2> QED
    BY <2>1 DEF z

LEMMA RecalculateFacts ==
  ASSUME NEW x, Cells(x), NEW c \in Constraints
  PROVE  LET y == Recalculate(x, c)
         IN  /\ Cells(y)
             /\ \A u \in Variables : u # Output(c) => y[u] = x[u]
             /\ y[Output(c)].walk = Walk(x, c)
             /\ y[Output(c)].stay = Stays(x, c)
<1> DEFINE o == Output(c)
           z == [x EXCEPT ![o].walk = Walk(x, c), ![o].stay = Stays(x, c)]
<1>1. o \in Variables
  BY ConstraintFacts DEF Output
<1>2. NewAnnotation(x, z, o, Walk(x, c), Stays(x, c))
  BY <1>1, AnnotationSet, Zenon
<1>3. Recalculate(x, c) = IF Stays(x, c) THEN Execute(z, c) ELSE z
  BY DEF Recalculate, o
<1> HIDE DEF z
<1>4. NewValue(z, Execute(z, c), o)
  BY <1>2, ExecuteFacts DEF o, NewAnnotation
<1>5. CASE Stays(x, c)
  BY <1>1, <1>2, <1>3, <1>4, <1>5 DEF NewValue, NewAnnotation, o
<1>6. CASE ~Stays(x, c)
  BY <1>2, <1>3, <1>6 DEF o, NewAnnotation
<1> QED
  BY <1>5, <1>6

(* In direction d, the annotation of c's output is what c makes of it. *)
CurrentIn(x, c, d) ==
  /\ x[OutputOf(c, d)].walk = IF Unary(c) THEN Strength(c)
                              ELSE WeakestOf(Strength(c), x[InputOf(c, d)].walk)
  /\ x[OutputOf(c, d)].stay = IF Unary(c) THEN Class(c) # "edit"
                              ELSE \A v \in InputsOf(c, d) : x[v].stay

(* It stays so until the annotation of the output or of an input changes. *)
LEMMA CurrentStays ==
  ASSUME NEW x, NEW y, NEW c \in Constraints, NEW d,
         \A u \in InputsOf(c, d) \union {OutputOf(c, d)} :
           y[u].walk = x[u].walk /\ y[u].stay = x[u].stay
  PROVE  CurrentIn(y, c, d) <=> CurrentIn(x, c, d)
<1>1. CASE Unary(c)
  BY <1>1 DEF CurrentIn
<1>2. CASE ~Unary(c)
  <2>1. InputOf(c, d) \in InputsOf(c, d)
    BY <1>2, ConstraintFacts
  <2>2. /\ y[InputOf(c, d)].walk = x[InputOf(c, d)].walk
        /\ y[OutputOf(c, d)].walk = x[OutputOf(c, d)].walk
        /\ y[OutputOf(c, d)].stay = x[OutputOf(c, d)].stay
    BY <2>1
  <2>3. (\A v \in InputsOf(c, d) : y[v].stay) <=> (\A v \in InputsOf(c, d) : x[v].stay)
    OBVIOUS
  <2> QED
    BY <1>2, <2>2, <2>3 DEF CurrentIn
<1> QED
  BY <1>1, <1>2

(* Recalculating c makes it current. *)
LEMMA RecalculatedCurrent ==
  ASSUME NEW x, Cells(x), NEW c \in Constraints
  PROVE  CurrentIn(Recalculate(x, c), c, direction[c])
<1>1. PICK y, d : y = Recalculate(x, c) /\ d = direction[c]
  OBVIOUS
<1>2. /\ \A u \in Variables : u # OutputOf(c, d) => y[u] = x[u]
      /\ y[OutputOf(c, d)].walk = Walk(x, c) /\ y[OutputOf(c, d)].stay = Stays(x, c)
  BY <1>1, RecalculateFacts DEF Output
<1>3. \A u \in InputsOf(c, d) : y[u] = x[u]
  BY <1>2, ConstraintFacts
<1>4. CASE Unary(c)
  BY <1>1, <1>2, <1>4 DEF CurrentIn, Walk, Stays
<1>5. CASE ~Unary(c)
  <2>1. y[InputOf(c, d)] = x[InputOf(c, d)]
    BY <1>3, <1>5, ConstraintFacts
  <2>2. Walk(x, c) = WeakestOf(Strength(c), y[InputOf(c, d)].walk)
    BY <1>1, <1>5, <2>1 DEF Walk, Input
  <2>3. Stays(x, c) = (\A v \in InputsOf(c, d) : y[v].stay)
    BY <1>1, <1>3, <1>5 DEF Stays
  <2> QED
    BY <1>1, <1>2, <1>5, <2>2, <2>3 DEF CurrentIn
<1> QED
  BY <1>4, <1>5

-----------------------------------------------------------------------------
(* Recalculating and executing several constraints. *)

(* The functions that RecalculateAll and ExecuteAll are last values of. *)
RecalculateSteps(f, x, cs, n) ==
  f = [i \in 0..n |-> IF i = 0 THEN x ELSE Recalculate(f[i - 1], cs[i])]

ExecuteSteps(f, x, cs, n) ==
  f = [i \in 0..n |-> IF i = 0 THEN x ELSE Execute(f[i - 1], cs[i])]

LEMMA RecalculateSolves ==
  ASSUME NEW x, NEW cs, Len(cs) \in Nat
  PROVE  \E f : RecalculateSteps(f, x, cs, Len(cs)) /\ RecalculateAll(x, cs) = f[Len(cs)]
<1> DEFINE n == Len(cs)
           Good == {k \in 0..n : \E f : RecalculateSteps(f, x, cs, k)}
<1>1. 0 \in Good
  <2>1. RecalculateSteps([i \in 0..0 |-> x], x, cs, 0)
    BY DEF RecalculateSteps
  <2> QED
    BY <2>1
<1>2. ASSUME NEW k \in 1..n, k - 1 \in Good
      PROVE  k \in Good
  <2>1. PICK f : RecalculateSteps(f, x, cs, k - 1)
    BY <1>2
  <2>2. \A i \in 0..(k - 1) : f[i] = IF i = 0 THEN x ELSE Recalculate(f[i - 1], cs[i])
    BY <2>1, Zenon DEF RecalculateSteps
  <2> DEFINE g == [i \in 0..k |-> IF i = k THEN Recalculate(f[k - 1], cs[k]) ELSE f[i]]
  <2>3. (\A i \in 0..(k - 1) : g[i] = f[i]) /\ g[k] = Recalculate(f[k - 1], cs[k])
    OBVIOUS
  <2>4. g = [i \in 0..k |-> g[i]]
    OBVIOUS
  <2> HIDE DEF g
  <2>5. ASSUME NEW i \in 0..k
        PROVE  g[i] = IF i = 0 THEN x ELSE Recalculate(g[i - 1], cs[i])
    <3>1. CASE i = k
      <4>1. k # 0 /\ k - 1 \in 0..(k - 1)
        OBVIOUS
      <4> QED
        BY <2>3, <3>1, <4>1
    <3>2. CASE i # k /\ i # 0
      <4>1. i \in 0..(k - 1) /\ i - 1 \in 0..(k - 1)
        BY <3>2
      <4> QED
        BY <2>2, <2>3, <3>2, <4>1
    <3>3. CASE i # k /\ i = 0
      <4>1. 0 \in 0..(k - 1)
        OBVIOUS
      <4> QED
        BY <2>2, <2>3, <3>3, <4>1
    <3> QED
      BY <3>1, <3>2, <3>3
  <2>6. RecalculateSteps(g, x, cs, k)
    BY <2>4, <2>5, Zenon DEF RecalculateSteps
  <2> QED
    BY <2>6
<1> HIDE DEF Good
<1>3. n \in Good
  <2>1. \A i \in 0..n : i \in Good
    BY <1>1, <1>2, Upto
  <2> QED
    BY <2>1
<1>4. PICK f : f = CHOOSE g : RecalculateSteps(g, x, cs, n)
  OBVIOUS
<1>5. RecalculateSteps(f, x, cs, n)
  BY <1>3, <1>4, Zenon DEF Good
<1>6. RecalculateAll(x, cs) = f[n]
  BY <1>4, Zenon DEF RecalculateAll, RecalculateSteps
<1> QED
  BY <1>5, <1>6

LEMMA ExecuteSolves ==
  ASSUME NEW x, NEW cs, Len(cs) \in Nat
  PROVE  \E f : ExecuteSteps(f, x, cs, Len(cs)) /\ ExecuteAll(x, cs) = f[Len(cs)]
<1> DEFINE n == Len(cs)
           Good == {k \in 0..n : \E f : ExecuteSteps(f, x, cs, k)}
<1>1. 0 \in Good
  <2>1. ExecuteSteps([i \in 0..0 |-> x], x, cs, 0)
    BY DEF ExecuteSteps
  <2> QED
    BY <2>1
<1>2. ASSUME NEW k \in 1..n, k - 1 \in Good
      PROVE  k \in Good
  <2>1. PICK f : ExecuteSteps(f, x, cs, k - 1)
    BY <1>2
  <2>2. \A i \in 0..(k - 1) : f[i] = IF i = 0 THEN x ELSE Execute(f[i - 1], cs[i])
    BY <2>1, Zenon DEF ExecuteSteps
  <2> DEFINE g == [i \in 0..k |-> IF i = k THEN Execute(f[k - 1], cs[k]) ELSE f[i]]
  <2>3. (\A i \in 0..(k - 1) : g[i] = f[i]) /\ g[k] = Execute(f[k - 1], cs[k])
    OBVIOUS
  <2>4. g = [i \in 0..k |-> g[i]]
    OBVIOUS
  <2> HIDE DEF g
  <2>5. ASSUME NEW i \in 0..k
        PROVE  g[i] = IF i = 0 THEN x ELSE Execute(g[i - 1], cs[i])
    <3>1. CASE i = k
      <4>1. k # 0 /\ k - 1 \in 0..(k - 1)
        OBVIOUS
      <4> QED
        BY <2>3, <3>1, <4>1
    <3>2. CASE i # k /\ i # 0
      <4>1. i \in 0..(k - 1) /\ i - 1 \in 0..(k - 1)
        BY <3>2
      <4> QED
        BY <2>2, <2>3, <3>2, <4>1
    <3>3. CASE i # k /\ i = 0
      <4>1. 0 \in 0..(k - 1)
        OBVIOUS
      <4> QED
        BY <2>2, <2>3, <3>3, <4>1
    <3> QED
      BY <3>1, <3>2, <3>3
  <2>6. ExecuteSteps(g, x, cs, k)
    BY <2>4, <2>5, Zenon DEF ExecuteSteps
  <2> QED
    BY <2>6
<1> HIDE DEF Good
<1>3. n \in Good
  <2>1. \A i \in 0..n : i \in Good
    BY <1>1, <1>2, Upto
  <2> QED
    BY <2>1
<1>4. PICK f : f = CHOOSE g : ExecuteSteps(g, x, cs, n)
  OBVIOUS
<1>5. ExecuteSteps(f, x, cs, n)
  BY <1>3, <1>4, Zenon DEF Good
<1>6. ExecuteAll(x, cs) = f[n]
  BY <1>4, Zenon DEF ExecuteAll, ExecuteSteps
<1> QED
  BY <1>5, <1>6

(* Executing constraints changes no annotation. *)
LEMMA ExecuteAllFacts ==
  ASSUME NEW x, Cells(x), NEW cs \in Seq(Constraints)
  PROVE  /\ Cells(ExecuteAll(x, cs))
         /\ \A u \in Variables : /\ ExecuteAll(x, cs)[u].walk = x[u].walk
                                 /\ ExecuteAll(x, cs)[u].stay = x[u].stay
<1> DEFINE n == Len(cs)
<1>1. n \in Nat /\ \A i \in 1..n : cs[i] \in Constraints
  BY LenProperties
<1>2. PICK f : ExecuteSteps(f, x, cs, n) /\ ExecuteAll(x, cs) = f[n]
  BY <1>1, ExecuteSolves
<1>3. \A i \in 0..n : f[i] = IF i = 0 THEN x ELSE Execute(f[i - 1], cs[i])
  BY <1>2, Zenon DEF ExecuteSteps
<1> DEFINE Kept(y) == Cells(y) /\ \A u \in Variables : y[u].walk = x[u].walk /\ y[u].stay = x[u].stay
           Good == {i \in 0..n : Kept(f[i])}
<1>4. 0 \in Good
  <2>1. 0 \in 0..n /\ f[0] = x
    BY <1>1, <1>3
  <2> QED
    BY <2>1
<1>5. ASSUME NEW i \in 1..n, i - 1 \in Good
      PROVE  i \in Good
  <2>1. f[i] = Execute(f[i - 1], cs[i]) /\ i \in 0..n
    BY <1>1, <1>3
  <2>2. NewValue(f[i - 1], f[i], Output(cs[i]))
    BY <1>1, <1>5, <2>1, ExecuteFacts
  <2> QED
    BY <1>5, <2>1, <2>2 DEF NewValue
<1>6. n \in Good
  <2> HIDE DEF Good
  <2>1. \A i \in 0..n : i \in Good
    BY <1>1, <1>4, <1>5, Upto
  <2> QED
    BY <1>1, <2>1
<1> QED
  BY <1>2, <1>6

(* Recalculating constraints in turn changes their outputs alone, and      *)
(* leaves each current, or with an input among the outputs of the others.  *)
LEMMA RecalculateAllFacts ==
  ASSUME Determined, NEW x, Cells(x), NEW cs \in Seq(Constraints),
         \A c \in On(cs) : Satisfied(c),
         NEW outs, \A c \in On(cs) : Output(c) \in outs
  PROVE  /\ Cells(RecalculateAll(x, cs))
         /\ \A u \in Variables : u \notin outs => RecalculateAll(x, cs)[u] = x[u]
         /\ \A c \in On(cs) : \/ CurrentIn(RecalculateAll(x, cs), c, direction[c])
                              \/ InputsOf(c, direction[c]) \intersect outs # {}
<1> DEFINE n == Len(cs)
<1>1. /\ n \in Nat /\ DOMAIN cs = 1..n
      /\ \A i \in 1..n : cs[i] \in Constraints /\ cs[i] \in On(cs) /\ Satisfied(cs[i])
      /\ \A i \in 1..n : Output(cs[i]) \in Variables /\ Output(cs[i]) \in outs
  <2>1. n \in Nat /\ DOMAIN cs = 1..n /\ \A i \in 1..n : cs[i] \in Constraints
    BY LenProperties
  <2>2. \A i \in 1..n : cs[i] \in On(cs)
    BY <2>1 DEF On
  <2>3. \A i \in 1..n : Output(cs[i]) \in Variables
    BY <2>1, ConstraintFacts DEF Output
  <2> QED
    BY <2>1, <2>2, <2>3
<1>2. PICK f : RecalculateSteps(f, x, cs, n) /\ RecalculateAll(x, cs) = f[n]
  BY <1>1, RecalculateSolves
<1>3. \A i \in 0..n : f[i] = IF i = 0 THEN x ELSE Recalculate(f[i - 1], cs[i])
  BY <1>2, Zenon DEF RecalculateSteps
<1> DEFINE Fresh(y, c) == \/ CurrentIn(y, c, direction[c])
                          \/ InputsOf(c, direction[c]) \intersect outs # {}
           Kept(y) == Cells(y) /\ \A u \in Variables : u \notin outs => y[u] = x[u]
           Good == {i \in 0..n : Kept(f[i]) /\ \A j \in 1..i : Fresh(f[i], cs[j])}
<1>4. 0 \in Good
  <2>1. 0 \in 0..n /\ f[0] = x
    BY <1>1, <1>3
  <2>2. \A j \in 1..0 : Fresh(f[0], cs[j])
    OBVIOUS
  <2>3. Kept(f[0])
    BY <2>1
  <2> QED
    BY <2>1, <2>2, <2>3
<1>5. ASSUME NEW i \in 1..n, i - 1 \in Good
      PROVE  i \in Good
  <2>0. PICK y, z, c : y = f[i - 1] /\ z = f[i] /\ c = cs[i]
    OBVIOUS
  <2>1. z = Recalculate(y, c) /\ i \in 0..n /\ c \in Constraints /\ Output(c) \in outs
    BY <1>1, <1>3, <2>0
  <2>2. Kept(y) /\ \A j \in 1..(i - 1) : Fresh(y, cs[j])
    BY <1>5, <2>0
  <2>3. /\ Cells(z) /\ \A u \in Variables : u # Output(c) => z[u] = y[u]
        /\ CurrentIn(z, c, direction[c])
    BY <2>1, <2>2, RecalculateFacts, RecalculatedCurrent
  <2>4. Kept(z)
    BY <2>1, <2>2, <2>3
  <2>5. ASSUME NEW j \in 1..i
        PROVE  Fresh(z, cs[j])
    <3>0. j \in 1..n
      BY <1>1
    <3>1. CASE cs[j] = c
      BY <2>3, <3>1
    <3>2. CASE cs[j] # c
      <4>1. j # i /\ j \in 1..(i - 1)
        BY <2>0, <3>2
      <4>2. Output(cs[j]) # Output(c)
        BY <1>1, <2>0, <3>0, <3>2 DEF Determined
      <4>3. CASE InputsOf(cs[j], direction[cs[j]]) \intersect outs # {}
        BY <4>3
      <4>4. CASE InputsOf(cs[j], direction[cs[j]]) \intersect outs = {}
        <5>1. CurrentIn(y, cs[j], direction[cs[j]])
          BY <2>2, <4>1, <4>4
        <5>2. \A u \in InputsOf(cs[j], direction[cs[j]]) \union {OutputOf(cs[j], direction[cs[j]])} :
                u \in Variables /\ z[u] = y[u]
          <6>1. cs[j] \in Constraints /\ OutputOf(cs[j], direction[cs[j]]) \in Variables
            BY <1>1, <3>0, ConstraintFacts
          <6>2. \A u \in InputsOf(cs[j], direction[cs[j]]) : u \in Variables /\ u # Output(c)
            BY <2>1, <4>4, <6>1, ConstraintFacts
          <6> QED
            BY <2>3, <4>2, <6>1, <6>2 DEF Output
        <5>3. CurrentIn(z, cs[j], direction[cs[j]])
          <6>1. cs[j] \in Constraints
            BY <1>1, <3>0
          <6> QED
            BY <5>1, <5>2, <6>1, CurrentStays
        <5> QED
          BY <5>3
      <4> QED
        BY <4>3, <4>4
    <3> QED
      BY <3>1, <3>2
  <2> QED
    BY <2>0, <2>1, <2>4, <2>5
<1>6. n \in Good
  <2> HIDE DEF Good
  <2>1. \A i \in 0..n : i \in Good
    BY <1>1, <1>4, <1>5, Upto
  <2> QED
    BY <1>1, <2>1
<1>7. \A c \in On(cs) : \E j \in 1..n : c = cs[j]
  BY <1>1 DEF On
<1> QED
  BY <1>2, <1>6, <1>7

-----------------------------------------------------------------------------
(* The tests' scripts. *)

Calls == [op : {"new", "plan", "set", "destroy"}, constraint : Constraints, value : Int]

NewAt(s) == {i \in DOMAIN s : s[i].op = "new"}

\* the constraints that a script makes
NewOn(s) == {s[i].constraint : i \in NewAt(s)}

(* A script makes no constraint twice. *)
Fits(s) == /\ s \in Seq(Calls)
           /\ \A i, j \in NewAt(s) : s[i].constraint = s[j].constraint => i = j

LEMMA FitsConcat ==
  ASSUME NEW s, NEW t, Fits(s), Fits(t), NewOn(s) \intersect NewOn(t) = {}
  PROVE  Fits(s \o t) /\ NewOn(s \o t) = NewOn(s) \union NewOn(t)
<1>1. PICK r : r = s \o t
  OBVIOUS
<1>2. /\ r \in Seq(Calls)
      /\ \A i \in 1..(Len(s) + Len(t)) : r[i] = IF i <= Len(s) THEN s[i] ELSE t[i - Len(s)]
      /\ Len(s) \in Nat /\ Len(t) \in Nat
      /\ DOMAIN s = 1..Len(s) /\ DOMAIN t = 1..Len(t) /\ DOMAIN r = 1..(Len(s) + Len(t))
  BY <1>1, ConcatProperties, LenProperties DEF Fits
<1>3. \A i \in NewAt(r) : \/ i \in NewAt(s) /\ r[i] = s[i]
                          \/ i - Len(s) \in NewAt(t) /\ r[i] = t[i - Len(s)]
  <2> SUFFICES ASSUME NEW i \in NewAt(r)
               PROVE  \/ i \in NewAt(s) /\ r[i] = s[i]
                      \/ i - Len(s) \in NewAt(t) /\ r[i] = t[i - Len(s)]
    OBVIOUS
  <2>1. i \in 1..(Len(s) + Len(t)) /\ r[i].op = "new"
    BY <1>2 DEF NewAt
  <2>2. CASE i <= Len(s)
    BY <1>2, <2>1, <2>2 DEF NewAt
  <2>3. CASE ~(i <= Len(s))
    <3>1. i - Len(s) \in 1..Len(t)
      BY <1>2, <2>1, <2>3
    <3> QED
      BY <1>2, <2>1, <2>3, <3>1 DEF NewAt
  <2> QED
    BY <2>2, <2>3
<1>4. ASSUME NEW i \in NewAt(r), NEW j \in NewAt(r), r[i].constraint = r[j].constraint
      PROVE  i = j
  <2>1. i \in Nat /\ j \in Nat /\ Len(s) \in Nat
    BY <1>2 DEF NewAt
  <2>2. CASE i \in NewAt(s) /\ j \in NewAt(s) /\ r[i] = s[i] /\ r[j] = s[j]
    BY <1>4, <2>2 DEF Fits
  <2>3. CASE i - Len(s) \in NewAt(t) /\ j - Len(s) \in NewAt(t) /\ r[i] = t[i - Len(s)]
             /\ r[j] = t[j - Len(s)]
    <3>1. i - Len(s) = j - Len(s)
      BY <1>4, <2>3 DEF Fits
    <3> QED
      BY <2>1, <3>1
  <2>4. CASE i \in NewAt(s) /\ j - Len(s) \in NewAt(t) /\ r[i] = s[i] /\ r[j] = t[j - Len(s)]
    BY <1>4, <2>4 DEF NewOn
  <2>5. CASE i - Len(s) \in NewAt(t) /\ j \in NewAt(s) /\ r[i] = t[i - Len(s)] /\ r[j] = s[j]
    BY <1>4, <2>5 DEF NewOn
  <2> QED
    BY <1>3, <2>2, <2>3, <2>4, <2>5
<1>5. ASSUME NEW c \in NewOn(r)
      PROVE  c \in NewOn(s) \union NewOn(t)
  BY <1>3 DEF NewOn
<1>6. ASSUME NEW c \in NewOn(s)
      PROVE  c \in NewOn(r)
  <2>1. PICK i \in NewAt(s) : c = s[i].constraint
    BY DEF NewOn
  <2>2. i \in 1..Len(s) /\ s[i].op = "new"
    BY <1>2 DEF NewAt
  <2>3. i \in 1..(Len(s) + Len(t)) /\ r[i] = s[i]
    BY <1>2, <2>2
  <2> QED
    BY <1>2, <2>1, <2>2, <2>3 DEF NewOn, NewAt
<1>7. ASSUME NEW c \in NewOn(t)
      PROVE  c \in NewOn(r)
  <2>1. PICK i \in NewAt(t) : c = t[i].constraint
    BY DEF NewOn
  <2>2. i \in 1..Len(t) /\ t[i].op = "new"
    BY <1>2 DEF NewAt
  <2>3. PICK k : k = Len(s) + i
    OBVIOUS
  <2>4. k \in 1..(Len(s) + Len(t)) /\ ~(k <= Len(s)) /\ k - Len(s) = i
    BY <1>2, <2>2, <2>3
  <2>5. r[k] = t[i] /\ k \in DOMAIN r
    BY <1>2, <2>4
  <2>6. k \in NewAt(r) /\ r[k].constraint = c
    BY <2>1, <2>2, <2>5 DEF NewAt
  <2> QED
    BY <2>6 DEF NewOn
<1> QED
  BY <1>1, <1>2, <1>4, <1>5, <1>6, <1>7 DEF Fits

LEMMA FitsTail ==
  ASSUME NEW s, Fits(s), s # <<>>
  PROVE  /\ Fits(Tail(s)) /\ NewOn(Tail(s)) \subseteq NewOn(s)
         /\ Head(s) \in Calls
         /\ Head(s).op = "new" => Head(s).constraint \in NewOn(s) \ NewOn(Tail(s))
<1>1. PICK t : t = Tail(s)
  OBVIOUS
<1>2. /\ Head(s) \in Calls /\ t \in Seq(Calls) /\ Head(s) = s[1] /\ 1 \in DOMAIN s
      /\ \A i \in DOMAIN t : t[i] = s[i + 1] /\ i + 1 \in DOMAIN s
      /\ DOMAIN t = 1..Len(t) /\ Len(t) \in Nat
  BY <1>1, OnHeadTail, LenProperties DEF Fits
<1>3. \A i \in NewAt(t) : i + 1 \in NewAt(s) /\ t[i] = s[i + 1] /\ i \in Nat /\ i + 1 # 1
  BY <1>2 DEF NewAt
<1>4. ASSUME NEW i \in NewAt(t), NEW j \in NewAt(t), t[i].constraint = t[j].constraint
      PROVE  i = j
  <2>1. i + 1 = j + 1
    BY <1>3, <1>4 DEF Fits
  <2> QED
    BY <1>3, <2>1
<1>5. NewOn(t) \subseteq NewOn(s)
  BY <1>3 DEF NewOn
<1>6. ASSUME Head(s).op = "new"
      PROVE  Head(s).constraint \in NewOn(s) \ NewOn(t)
  <2>1. 1 \in NewAt(s)
    BY <1>2, <1>6 DEF NewAt
  <2>2. \A i \in NewAt(t) : t[i].constraint # s[1].constraint
    BY <1>3, <2>1 DEF Fits
  <2> QED
    BY <1>2, <2>1, <2>2 DEF NewOn
<1> QED
  BY <1>1, <1>2, <1>4, <1>5, <1>6 DEF Fits

(* A sequence that is made as a function. *)
LEMMA SeqMade ==
  ASSUME NEW T, NEW n \in Nat, NEW f \in [1..n -> T]
  PROVE  f \in Seq(T) /\ DOMAIN f = 1..n
OBVIOUS

LEMMA FitsChange ==
  ASSUME NEW v \in Variables, NEW x \in Int
  PROVE  Fits(Change(v, x)) /\ NewOn(Change(v, x)) = {Edit(v)}
<1>1. Edit(v) \in Constraints
  BY DEF Constraints
<1>2. PICK s : s = Change(v, x)
  OBVIOUS
<1>3. /\ s = <<New(Edit(v)), Plan(Edit(v)), Set(Edit(v), x), Destroy(Edit(v))>>
      /\ New(Edit(v)) \in Calls /\ Plan(Edit(v)) \in Calls
      /\ Set(Edit(v), x) \in Calls /\ Destroy(Edit(v)) \in Calls
  BY <1>1, <1>2 DEF Change, New, Plan, Set, Destroy, Calls
<1>4. /\ s \in Seq(Calls) /\ DOMAIN s = 1..4
      /\ s[1] = New(Edit(v)) /\ s[2] = Plan(Edit(v)) /\ s[3] = Set(Edit(v), x) /\ s[4] = Destroy(Edit(v))
  BY <1>3
<1>5. NewAt(s) = {1} /\ s[1].constraint = Edit(v)
  <2>1. s[1].op = "new" /\ s[2].op # "new" /\ s[3].op # "new" /\ s[4].op # "new" /\ s[1].constraint = Edit(v)
    BY <1>4 DEF New, Plan, Set, Destroy
  <2>2. \A i \in 1..4 : i = 1 \/ i = 2 \/ i = 3 \/ i = 4
    OBVIOUS
  <2> QED
    BY <1>4, <2>1, <2>2 DEF NewAt
<1> QED
  BY <1>2, <1>4, <1>5 DEF Fits, NewOn

LEMMA FitsChain ==
  ASSUME NEW n \in 1..MaxSize
  PROVE  Fits(Chain(n))
<1>0. MaxSize \in Nat \ {0} /\ Rounds \in Nat /\ n \in Nat
  BY DeltaBlueAssumption
<1>1. <<"v", n>> \in Variables /\ <<"v", 0>> \in Variables
  BY <1>0 DEF Variables
<1>2. Stay(<<"v", n>>) \in Constraints /\ Edit(<<"v", 0>>) \in Constraints
  BY <1>1 DEF Constraints
<1>3. PICK a : a = [i \in 1..n |-> New(Equality(i))]
  OBVIOUS
<1>4. Fits(a) /\ \A c \in NewOn(a) : c[1] = "equality"
  <2>1. ASSUME NEW i \in 1..n
        PROVE  a[i] \in Calls /\ a[i].constraint = <<"equality", "v", i>>
    <3>1. i \in 1..MaxSize
      BY <1>0
    <3>2. Equality(i) \in Constraints
      BY <3>1 DEF Constraints
    <3> QED
      BY <1>3, <3>2 DEF New, Calls, Equality
  <2>2. a \in [1..n -> Calls]
    BY <1>3, <2>1
  <2>3. a \in Seq(Calls) /\ DOMAIN a = 1..n
    BY <1>0, <2>2, SeqMade
  <2>4. \A i, j \in 1..n : a[i].constraint = a[j].constraint => i = j
    BY <2>1
  <2>5. \A i \in 1..n : a[i].constraint[1] = "equality"
    BY <2>1
  <2> QED
    BY <2>3, <2>4, <2>5 DEF Fits, NewOn, NewAt
<1>5. PICK b : b = <<New(Stay(<<"v", n>>)), New(Edit(<<"v", 0>>)), Plan(Edit(<<"v", 0>>))>>
  OBVIOUS
<1>6. Fits(b) /\ \A c \in NewOn(b) : c[1] # "equality"
  <2>1. /\ New(Stay(<<"v", n>>)) \in Calls /\ New(Edit(<<"v", 0>>)) \in Calls /\ Plan(Edit(<<"v", 0>>)) \in Calls
    BY <1>2 DEF New, Plan, Calls
  <2>2. /\ b \in Seq(Calls) /\ DOMAIN b = 1..3
        /\ b[1] = New(Stay(<<"v", n>>)) /\ b[2] = New(Edit(<<"v", 0>>)) /\ b[3] = Plan(Edit(<<"v", 0>>))
    BY <1>5, <2>1
  <2>3. /\ b[1].constraint = <<"stay", "v", n>> /\ b[2].constraint = <<"edit", "v", 0>>
        /\ b[3].op # "new"
    BY <2>2 DEF New, Plan, Stay, Edit
  <2>4. NewAt(b) \subseteq {1, 2}
    <3>1. \A i \in 1..3 : i = 1 \/ i = 2 \/ i = 3
      OBVIOUS
    <3> QED
      BY <2>2, <2>3, <3>1 DEF NewAt
  <2>5. b[1].constraint # b[2].constraint
    BY <2>3
  <2> QED
    BY <2>2, <2>3, <2>4, <2>5 DEF Fits, NewOn
<1>7. PICK d : d = [i \in 1..Rounds |-> Set(Edit(<<"v", 0>>), i - 1)]
  OBVIOUS
<1>8. Fits(d) /\ NewOn(d) = {}
  <2>1. ASSUME NEW i \in 1..Rounds
        PROVE  d[i] \in Calls /\ d[i].op # "new"
    <3>1. i - 1 \in Int
      OBVIOUS
    <3> QED
      BY <1>2, <1>7, <3>1 DEF Set, Calls
  <2>2. d \in [1..Rounds -> Calls]
    BY <1>7, <2>1
  <2>3. d \in Seq(Calls) /\ DOMAIN d = 1..Rounds
    BY <1>0, <2>2, SeqMade
  <2>4. NewAt(d) = {}
    BY <2>1, <2>3 DEF NewAt
  <2> QED
    BY <2>3, <2>4 DEF Fits, NewOn
<1>9. Fits(a \o b) /\ NewOn(a \o b) = NewOn(a) \union NewOn(b)
  <2>1. NewOn(a) \intersect NewOn(b) = {}
    BY <1>4, <1>6
  <2> QED
    BY <1>4, <1>6, <2>1, FitsConcat
<1>10. Fits((a \o b) \o d)
  BY <1>8, <1>9, FitsConcat
<1> QED
  BY <1>3, <1>5, <1>7, <1>10 DEF Chain

LEMMA FitsProjection ==
  ASSUME NEW n \in 1..MaxSize
  PROVE  Fits(Projection(n))
<1>0. MaxSize \in Nat \ {0} /\ n \in Nat /\ 2 * n \in Nat /\ n - 1 \in 0..(MaxSize - 1)
  BY DeltaBlueAssumption
<1>1. PICK a : a = [i \in 1..(2 * n) |-> IF i % 2 = 1 THEN New(Stay(<<"src", (i - 1) \div 2>>))
                                                       ELSE New(ScaleOf((i - 2) \div 2))]
  OBVIOUS
<1>2. Fits(a) /\ \A c \in NewOn(a) : c[1] \in {"stay", "scale"}
  <2>1. ASSUME NEW i \in 1..(2 * n)
        PROVE  /\ a[i] \in Calls
               /\ i % 2 = 1 => a[i].constraint = <<"stay", "src", (i - 1) \div 2>>
               /\ i % 2 # 1 => a[i].constraint = <<"scale", "src", (i - 2) \div 2>>
    <3>1. CASE i % 2 = 1
      <4>1. (i - 1) \div 2 \in 0..(MaxSize - 1)
        BY <1>0, <3>1
      <4>2. <<"src", (i - 1) \div 2>> \in Variables
        BY <4>1 DEF Variables
      <4>3. Stay(<<"src", (i - 1) \div 2>>) \in Constraints
        BY <4>2 DEF Constraints
      <4>4. a[i] = New(Stay(<<"src", (i - 1) \div 2>>))
        BY <1>1, <3>1
      <4> QED
        BY <3>1, <4>3, <4>4 DEF New, Calls, Stay
    <3>2. CASE i % 2 # 1
      <4>1. (i - 2) \div 2 \in 0..(MaxSize - 1)
        BY <1>0, <3>2
      <4>2. ScaleOf((i - 2) \div 2) \in Constraints
        BY <4>1 DEF Constraints
      <4>3. a[i] = New(ScaleOf((i - 2) \div 2))
        BY <1>1, <3>2
      <4> QED
        BY <3>2, <4>2, <4>3 DEF New, Calls, ScaleOf
    <3> QED
      BY <3>1, <3>2
  <2>2. a \in [1..(2 * n) -> Calls]
    BY <1>1, <2>1
  <2>3. a \in Seq(Calls) /\ DOMAIN a = 1..(2 * n)
    BY <1>0, <2>2, SeqMade
  <2>4. ASSUME NEW i \in 1..(2 * n), NEW j \in 1..(2 * n), a[i].constraint = a[j].constraint
        PROVE  i = j
    <3>1. CASE i % 2 = 1 /\ j % 2 = 1
      <4>1. (i - 1) \div 2 = (j - 1) \div 2
        BY <2>1, <2>4, <3>1
      <4> QED
        BY <3>1, <4>1
    <3>2. CASE i % 2 # 1 /\ j % 2 # 1
      <4>1. (i - 2) \div 2 = (j - 2) \div 2
        BY <2>1, <2>4, <3>2
      <4> QED
        BY <3>2, <4>1
    <3>3. CASE i % 2 = 1 /\ j % 2 # 1
      BY <2>1, <2>4, <3>3
    <3>4. CASE i % 2 # 1 /\ j % 2 = 1
      BY <2>1, <2>4, <3>4
    <3> QED
      BY <3>1, <3>2, <3>3, <3>4
  <2>5. \A i \in 1..(2 * n) : a[i].constraint[1] \in {"stay", "scale"}
    BY <2>1
  <2> QED
    BY <2>3, <2>4, <2>5 DEF Fits, NewOn, NewAt
<1>3. PICK src, dst : src = <<"src", n - 1>> /\ dst = <<"dst", n - 1>>
  OBVIOUS
<1>4. src \in Variables /\ dst \in Variables /\ Scale \in Variables /\ Offset \in Variables
  BY <1>0, <1>3 DEF Variables
<1>5. /\ Edit(src) = <<"edit", "src", n - 1>> /\ Edit(dst) = <<"edit", "dst", n - 1>>
      /\ Edit(Scale) = <<"edit", "scale", 0>> /\ Edit(Offset) = <<"edit", "offset", 0>>
  BY <1>3 DEF Edit, Scale, Offset
<1>6. PICK p, q, r, t : /\ p = Change(src, 17) /\ q = Change(dst, 1050)
                        /\ r = Change(Scale, 5) /\ t = Change(Offset, 2000)
  OBVIOUS
<1>7. /\ Fits(p) /\ NewOn(p) = {Edit(src)} /\ Fits(q) /\ NewOn(q) = {Edit(dst)}
      /\ Fits(r) /\ NewOn(r) = {Edit(Scale)} /\ Fits(t) /\ NewOn(t) = {Edit(Offset)}
  BY <1>4, <1>6, FitsChange
<1>8. Fits(a \o p) /\ NewOn(a \o p) = NewOn(a) \union {Edit(src)}
  <2>1. NewOn(a) \intersect NewOn(p) = {}
    BY <1>2, <1>5, <1>7
  <2> QED
    BY <1>2, <1>7, <2>1, FitsConcat
<1>9. Fits((a \o p) \o q) /\ NewOn((a \o p) \o q) = NewOn(a) \union {Edit(src), Edit(dst)}
  <2>1. NewOn(a \o p) \intersect NewOn(q) = {}
    BY <1>2, <1>5, <1>7, <1>8
  <2> QED
    BY <1>7, <1>8, <2>1, FitsConcat
<1>10. /\ Fits(((a \o p) \o q) \o r)
       /\ NewOn(((a \o p) \o q) \o r) = NewOn(a) \union {Edit(src), Edit(dst), Edit(Scale)}
  <2>1. NewOn((a \o p) \o q) \intersect NewOn(r) = {}
    BY <1>2, <1>5, <1>7, <1>9
  <2> QED
    BY <1>7, <1>9, <2>1, FitsConcat
<1>11. Fits((((a \o p) \o q) \o r) \o t)
  <2>1. NewOn(((a \o p) \o q) \o r) \intersect NewOn(t) = {}
    BY <1>2, <1>5, <1>7, <1>10
  <2> QED
    BY <1>7, <1>10, <2>1, FitsConcat
<1>12. Projection(n) = a \o Change(<<"src", n - 1>>, 17) \o Change(<<"dst", n - 1>>, 1050)
                       \o Change(Scale, 5) \o Change(Offset, 2000)
  BY <1>1 DEF Projection
<1>13. Projection(n) = a \o p \o q \o r \o t
  BY <1>3, <1>6, <1>12
<1> QED
  BY <1>11, <1>13

-----------------------------------------------------------------------------
(* The inductive invariant. *)

\* c is on the lists of all its variables
ListedIn(lists, c) == \A v \in VariablesOf(c) : c \in On(lists[v])

ScriptFits == /\ Fits(script)
              /\ \A v \in Variables : On(constraints[v]) \intersect NewOn(script) = {}

ListsAgree == /\ constraints \in [Variables -> Seq(Constraints)]
              /\ \A v \in Variables : Once(constraints[v])
              /\ \A v \in Variables : \A c \in On(constraints[v]) :
                   v \in VariablesOf(c) /\ ListedIn(constraints, c)

LoopsTyped ==
  /\ pc \in {"script", "satisfy", "propagate", "cycle", "remove", "again", "weaker", "keyError", "plan"}
  /\ plan \in Seq(Constraints)
  /\ pc \in {"propagate", "plan"} => todo \in Seq(Constraints)
  /\ pc = "remove" => todo \in Seq(Variables)

GraphAgrees == /\ determinedBy \in [Variables -> Constraints \union {None}]
               /\ direction \in [Constraints -> {"none", "forward", "backward"}]
               /\ \A c \in Constraints : Satisfied(c) => ListedIn(constraints, c)
               /\ Determined

\* what is added, or added again, is on the lists and not satisfied
Addable(c) == c \in Constraints /\ ListedIn(constraints, c) /\ ~Satisfied(c)

AddsListed ==
  /\ pc = "satisfy" => Addable(focus)
  /\ pc = "propagate" => focus \in Constraints /\ \A c \in On(todo) : Satisfied(c)
  /\ pc = "propagate" /\ overridden # None => Addable(overridden)

\* incremental_remove satisfies again at the strength REQUIRED alone
RemovesListed ==
  /\ unsatisfied \in Seq(Constraints) /\ at \in Nat /\ strength \in {REQUIRED, WEAKEST}
  /\ pc \in {"script", "plan"} => at = 0
  /\ pc \in {"remove", "again", "weaker"} => at # 0
  /\ pc \in {"remove", "weaker"} => strength = REQUIRED
  /\ pc \in {"satisfy", "propagate"} /\ at # 0 => strength = REQUIRED
  /\ pc \in {"remove", "again"} /\ strength # WEAKEST => \A c \in On(unsatisfied) : Addable(c)

\* what a loop has not yet come to may have an annotation that is not current
Annotated ==
  /\ Cells(var)
  /\ \A v \in Variables : determinedBy[v] = None => var[v].walk = WEAKEST /\ var[v].stay = TRUE
  /\ \A c \in Constraints : Satisfied(c) =>
       \/ CurrentIn(var, c, direction[c])
       \/ pc = "propagate" /\ c \in On(todo)
       \/ pc = "remove" /\ InputsOf(c, direction[c]) \intersect On(todo) # {}
       \/ pc \in {"cycle", "keyError"}

PlannerInv == ScriptFits /\ ListsAgree /\ LoopsTyped /\ GraphAgrees /\ AddsListed /\ RemovesListed /\ Annotated

(* The invariant holds at first. *)
LEMMA PlannerInit == Init => PlannerInv
<1> SUFFICES ASSUME Init
             PROVE  PlannerInv
  OBVIOUS
<1>0. /\ script = IF test = "chain" THEN Chain(size) ELSE Projection(size)
      /\ size \in 1..MaxSize
      /\ var = [v \in Variables |-> [value |-> InitialValue(v), walk |-> WEAKEST, stay |-> TRUE]]
      /\ determinedBy = [v \in Variables |-> None]
      /\ constraints = [v \in Variables |-> <<>>]
      /\ direction = [c \in Constraints |-> "none"]
      /\ pc = "script" /\ unsatisfied = <<>> /\ at = 0 /\ strength = REQUIRED /\ plan = <<>>
  BY DEF Init
<1>1. On(<<>>) = {} /\ Once(<<>>) /\ \A T : <<>> \in Seq(T)
  BY EmptySeq DEF On, Once
<1>2. Fits(script)
  BY <1>0, FitsChain, FitsProjection
<1>3. ScriptFits
  BY <1>0, <1>1, <1>2 DEF ScriptFits
<1>4. ListsAgree
  BY <1>0, <1>1 DEF ListsAgree
<1>5. \A c \in Constraints : ~Satisfied(c)
  BY <1>0 DEF Satisfied
<1>6. Determined
  BY <1>0, <1>5, DeltaBlueAssumption DEF Determined
<1>7. GraphAgrees
  BY <1>0, <1>5, <1>6 DEF GraphAgrees
<1>8. LoopsTyped /\ AddsListed /\ RemovesListed
  BY <1>0, <1>1 DEF LoopsTyped, AddsListed, RemovesListed
<1>9. Cells(var)
  BY <1>0 DEF Cells
<1>10. Annotated
  BY <1>0, <1>5, <1>9 DEF Annotated
<1> QED
  BY <1>3, <1>4, <1>7, <1>8, <1>10 DEF PlannerInv

(* The constraint that the script asks for. *)
LEMMA AskedFacts ==
  ASSUME ScriptFits, NEW op, Asks(op)
  PROVE  /\ Asked \in Constraints /\ Named(Asked) \in Variables
         /\ Fits(Tail(script)) /\ NewOn(Tail(script)) \subseteq NewOn(script)
         /\ op = "new" => Asked \in NewOn(script) \ NewOn(Tail(script))
<1>1. Fits(script) /\ script # <<>> /\ Head(script).op = op
  BY DEF ScriptFits, Asks
<1>2. /\ Fits(Tail(script)) /\ NewOn(Tail(script)) \subseteq NewOn(script)
      /\ Head(script) \in Calls
      /\ op = "new" => Asked \in NewOn(script) \ NewOn(Tail(script))
  BY <1>1, FitsTail DEF Asked
<1>3. Asked \in Constraints
  BY <1>2 DEF Asked, Calls
<1>4. ASSUME NEW c \in Constraints
      PROVE  Named(c) \in Variables
  <2>1. CASE Named(c) \in Variables
    BY <2>1
  <2>2. CASE c[2] = "v" /\ c[3] \in 1..MaxSize
    BY <2>2, DeltaBlueAssumption DEF Named, Variables
  <2>3. CASE c[2] = "src" /\ c[3] \in 0..(MaxSize - 1)
    BY <2>3, DeltaBlueAssumption DEF Named, Variables
  <2> QED
    BY <2>1, <2>2, <2>3, ConstraintIs
<1> QED
  BY <1>2, <1>3, <1>4

(* The constraints that consume a variable. *)
LEMMA ConsumersFacts ==
  ASSUME ListsAgree, NEW v \in Variables
  PROVE  /\ Consumers(v) \in Seq(Constraints)
         /\ On(Consumers(v)) = {c \in On(constraints[v]) : c # determinedBy[v] /\ Satisfied(c)}
<1>1. constraints[v] \in Seq(Constraints)
  BY DEF ListsAgree
<1>2. On(constraints[v]) \subseteq Constraints
  BY <1>1, LenProperties DEF On
<1>3. PICK S : S = {c \in Constraints : c # determinedBy[v] /\ Satisfied(c)}
  OBVIOUS
<1>4. Among(constraints[v], S) \in Seq(Constraints) /\ On(Among(constraints[v], S)) = On(constraints[v]) \intersect S
  BY <1>1, AmongFacts
<1> QED
  BY <1>2, <1>3, <1>4 DEF Consumers

(* Whatever a satisfied constraint feeds is among the consumers of its output. *)
LEMMA FedIsConsumer ==
  ASSUME ListsAgree, GraphAgrees, NEW c \in Constraints, Satisfied(c),
         NEW v \in InputsOf(c, direction[c])
  PROVE  v \in Variables /\ c \in On(Consumers(v))
<1>1. /\ VariablesOf(c) \subseteq Variables /\ InputsOf(c, direction[c]) \subseteq VariablesOf(c)
      /\ OutputOf(c, direction[c]) \notin InputsOf(c, direction[c])
  BY ConstraintFacts
<1>2. v \in Variables /\ v \in VariablesOf(c) /\ Output(c) # v
  BY <1>1 DEF Output
<1>3. c \in On(constraints[v])
  BY <1>2 DEF GraphAgrees, ListedIn
<1>4. c # determinedBy[v]
  BY <1>2 DEF GraphAgrees, Determined
<1> QED
  BY <1>2, <1>3, <1>4, ConsumersFacts

-----------------------------------------------------------------------------
(* Each action preserves the invariant. *)

LEMMA NewConstraintKeeps ==
  ASSUME PlannerInv, NewConstraint
  PROVE  PlannerInv'
<1> PICK c0 : c0 = Asked
  OBVIOUS
<1>0. /\ Asks("new") /\ pc = "script" /\ pc' = "satisfy" /\ focus' = c0 /\ script' = Tail(script)
      /\ constraints' = [v \in Variables |->
           IF v \in VariablesOf(c0) THEN Append(constraints[v], c0) ELSE constraints[v]]
      /\ direction' = [direction EXCEPT ![c0] = "none"]
      /\ UNCHANGED <<var, determinedBy, overridden, todo, unsatisfied, at, strength, plan>>
  BY DEF NewConstraint, Asks, StartAdd, removal
<1>1. ScriptFits /\ ListsAgree /\ LoopsTyped /\ GraphAgrees /\ RemovesListed /\ Annotated
  BY DEF PlannerInv
<1>2. /\ c0 \in Constraints /\ Fits(Tail(script)) /\ NewOn(Tail(script)) \subseteq NewOn(script)
      /\ c0 \in NewOn(script) /\ c0 \notin NewOn(Tail(script))
  <2>1. /\ Asked \in Constraints /\ Fits(Tail(script)) /\ NewOn(Tail(script)) \subseteq NewOn(script)
        /\ "new" = "new" => Asked \in NewOn(script) \ NewOn(Tail(script))
    BY <1>0, <1>1, AskedFacts
  <2> QED
    BY <2>1
<1>3. \A v \in Variables : c0 \notin On(constraints[v])
  BY <1>1, <1>2 DEF ScriptFits
<1>4. /\ VariablesOf(c0) \subseteq Variables /\ VariablesOf(c0) # {}
  BY <1>2, ConstraintFacts
<1>5. ~Satisfied(c0) /\ direction' = direction
  <2>1. ~ListedIn(constraints, c0)
    BY <1>3, <1>4 DEF ListedIn
  <2>2. ~Satisfied(c0) /\ direction \in [Constraints -> {"none", "forward", "backward"}]
    BY <1>1, <1>2, <2>1 DEF GraphAgrees
  <2> QED
    BY <1>0, <1>2, <2>2 DEF Satisfied
<1>6. ASSUME NEW v \in Variables
      PROVE  /\ constraints'[v] \in Seq(Constraints)
             /\ Once(constraints'[v])
             /\ On(constraints'[v]) = IF v \in VariablesOf(c0) THEN On(constraints[v]) \union {c0}
                                      ELSE On(constraints[v])
  <2>1. constraints[v] \in Seq(Constraints) /\ Once(constraints[v]) /\ c0 \notin On(constraints[v])
    BY <1>1, <1>3 DEF ListsAgree
  <2>2. CASE v \in VariablesOf(c0)
    <3>1. constraints'[v] = Append(constraints[v], c0)
      BY <1>0, <2>2
    <3> QED
      BY <1>2, <2>1, <2>2, <3>1, OnAppend, OnceAppend
  <2>3. CASE v \notin VariablesOf(c0)
    BY <1>0, <2>1, <2>3
  <2> QED
    BY <2>2, <2>3
<1>7. ASSUME NEW c \in Constraints, ListedIn(constraints, c)
      PROVE  ListedIn(constraints', c)
  <2>1. VariablesOf(c) \subseteq Variables
    BY ConstraintFacts
  <2> QED
    BY <1>6, <1>7, <2>1 DEF ListedIn
<1>8. ListedIn(constraints', c0)
  BY <1>4, <1>6 DEF ListedIn
<1>9. ListsAgree'
  <2>1. constraints' \in [Variables -> Seq(Constraints)]
    BY <1>0, <1>6
  <2>2. ASSUME NEW v \in Variables, NEW c \in On(constraints'[v])
        PROVE  v \in VariablesOf(c) /\ ListedIn(constraints', c)
    <3>1. c \in On(constraints[v]) \/ (c = c0 /\ v \in VariablesOf(c0))
      BY <1>6, <2>2
    <3>2. CASE c \in On(constraints[v])
      <4>1. constraints[v] \in Seq(Constraints)
        BY <1>1 DEF ListsAgree
      <4>2. c \in Constraints
        BY <3>2, <4>1, LenProperties DEF On
      <4> QED
        BY <1>1, <1>7, <3>2, <4>2 DEF ListsAgree
    <3>3. CASE c = c0 /\ v \in VariablesOf(c0)
      BY <1>8, <3>3
    <3> QED
      BY <3>1, <3>2, <3>3
  <2> QED
    BY <1>6, <2>1, <2>2 DEF ListsAgree
<1>10. ScriptFits'
  BY <1>0, <1>1, <1>2, <1>6 DEF ScriptFits
<1>11. GraphAgrees'
  <2>1. Determined'
    BY <1>0, <1>1, <1>5 DEF GraphAgrees, Determined, Satisfied, Output
  <2>2. \A c \in Constraints : direction'[c] # "none" => ListedIn(constraints', c)
    BY <1>1, <1>5, <1>7 DEF GraphAgrees, Satisfied
  <2> QED
    BY <1>0, <1>1, <1>5, <2>1, <2>2 DEF GraphAgrees, Satisfied
<1>12. AddsListed'
  BY <1>0, <1>2, <1>5, <1>8 DEF AddsListed, Addable, Satisfied
<1>13. LoopsTyped' /\ RemovesListed'
  BY <1>0, <1>1 DEF LoopsTyped, RemovesListed
<1>14. Annotated'
  BY <1>0, <1>1, <1>5 DEF Annotated, Satisfied
<1> QED
  BY <1>9, <1>10, <1>11, <1>12, <1>13, <1>14 DEF PlannerInv

LEMMA NotSatisfiedKeeps ==
  ASSUME PlannerInv, NotSatisfied
  PROVE  PlannerInv'
<1>0. /\ pc = "satisfy" /\ direction' = [direction EXCEPT ![focus] = "none"] /\ overridden' = None
      /\ pc' = IF at = 0 THEN "script" ELSE "weaker"
      /\ UNCHANGED <<script, var, determinedBy, constraints, focus, todo, unsatisfied, at, strength, plan>>
  BY DEF NotSatisfied, EndAdd, removal
<1>1. ScriptFits /\ ListsAgree /\ LoopsTyped /\ GraphAgrees /\ AddsListed /\ RemovesListed /\ Annotated
  BY DEF PlannerInv
<1>2. direction' = direction
  <2>1. focus \in Constraints /\ direction[focus] = "none"
    BY <1>0, <1>1 DEF AddsListed, Addable, Satisfied
  <2> QED
    BY <1>0, <1>1, <2>1 DEF GraphAgrees
<1>3. ScriptFits' /\ ListsAgree' /\ LoopsTyped' /\ AddsListed' /\ RemovesListed'
  BY <1>0, <1>1 DEF ScriptFits, ListsAgree, LoopsTyped, AddsListed, RemovesListed
<1>4. GraphAgrees'
  BY <1>0, <1>1, <1>2 DEF GraphAgrees, Determined, Satisfied, Output
<1>5. Annotated'
  BY <1>0, <1>1, <1>2 DEF Annotated, Satisfied
<1> QED
  BY <1>3, <1>4, <1>5 DEF PlannerInv

(* The method that is chosen is a direction. *)
LEMMA MethodFacts == \A c : Method(c) \in {"none", "forward", "backward"}
BY DEF Method

LEMMA SatisfyStepKeeps ==
  ASSUME PlannerInv, Satisfy
  PROVE  PlannerInv'
<1> PICK d, out : d = Method(focus) /\ out = OutputOf(focus, d)
  OBVIOUS
<1>0. /\ pc = "satisfy" /\ pc' = "propagate" /\ d \in {"forward", "backward"}
      /\ direction' = [c \in Constraints |-> CASE c = focus -> d
                                               [] c = determinedBy[out] -> "none"
                                               [] OTHER -> direction[c]]
      /\ overridden' = determinedBy[out]
      /\ determinedBy' = [determinedBy EXCEPT ![out] = focus]
      /\ todo' = <<focus>>
      /\ UNCHANGED <<script, var, constraints, focus, unsatisfied, at, strength, plan>>
  <2>1. d # "none"
    BY DEF Satisfy
  <2>2. d \in {"forward", "backward"}
    BY <2>1, MethodFacts
  <2> QED
    BY <2>2 DEF Satisfy, removal
<1>1. ScriptFits /\ ListsAgree /\ LoopsTyped /\ GraphAgrees /\ AddsListed /\ RemovesListed /\ Annotated
  BY DEF PlannerInv
<1>2. focus \in Constraints /\ ListedIn(constraints, focus) /\ direction[focus] = "none"
  BY <1>0, <1>1 DEF AddsListed, Addable, Satisfied
<1>3. out \in Variables
  BY <1>2, ConstraintFacts
<1>4. /\ determinedBy \in [Variables -> Constraints \union {None}]
      /\ direction \in [Constraints -> {"none", "forward", "backward"}]
      /\ \A c \in Constraints, v \in Variables :
           determinedBy[v] = c <=> direction[c] # "none" /\ OutputOf(c, direction[c]) = v
      /\ \A c \in Constraints : direction[c] # "none" => ListedIn(constraints, c)
  BY <1>1 DEF GraphAgrees, Determined, Satisfied, Output
<1>5. determinedBy[out] # focus
  BY <1>2, <1>3, <1>4
<1>6. \A c \in Constraints : c # focus /\ direction'[c] # "none" =>
        direction'[c] = direction[c] /\ c # determinedBy[out]
  BY <1>0
<1>7. direction'[focus] = d
  BY <1>0, <1>2, <1>5
<1>8. \A v \in Variables : determinedBy'[v] = IF v = out THEN focus ELSE determinedBy[v]
  BY <1>0, <1>4
<1>9. ASSUME NEW c \in Constraints, NEW v \in Variables
      PROVE  determinedBy'[v] = c <=> direction'[c] # "none" /\ OutputOf(c, direction'[c]) = v
  <2>1. CASE c = focus
    <3>1. direction'[c] # "none" /\ OutputOf(c, direction'[c]) = out
      BY <1>0, <1>7, <2>1
    <3>2. determinedBy[v] # focus
      BY <1>2, <1>4
    <3> QED
      BY <1>8, <2>1, <3>1, <3>2
  <2>2. CASE c # focus /\ c = determinedBy[out]
    <3>1. direction'[c] = "none"
      BY <1>0, <2>2
    <3>2. OutputOf(c, direction[c]) = out
      BY <1>3, <1>4, <2>2
    <3>3. determinedBy'[v] # c
      BY <1>4, <1>8, <2>2, <3>2
    <3> QED
      BY <3>1, <3>3
  <2>3. CASE c # focus /\ c # determinedBy[out]
    <3>1. direction'[c] = direction[c]
      BY <1>0, <2>3
    <3>2. CASE v = out
      BY <1>4, <1>8, <2>3, <3>1, <3>2
    <3>3. CASE v # out
      BY <1>4, <1>8, <3>1, <3>3
    <3> QED
      BY <3>2, <3>3
  <2> QED
    BY <2>1, <2>2, <2>3
<1>10. GraphAgrees'
  <2>1. determinedBy' \in [Variables -> Constraints \union {None}]
    BY <1>0, <1>2, <1>4
  <2>2. direction' \in [Constraints -> {"none", "forward", "backward"}]
    BY <1>0, <1>4
  <2>3. \A c \in Constraints : direction'[c] # "none" => ListedIn(constraints', c)
    BY <1>0, <1>2, <1>4, <1>6
  <2> QED
    BY <1>9, <2>1, <2>2, <2>3 DEF GraphAgrees, Determined, Satisfied, Output
<1>11. On(todo') = {focus}
  BY <1>0 DEF On
<1>12. AddsListed'
  <2>1. determinedBy[out] # None => /\ determinedBy[out] \in Constraints
                                    /\ ListedIn(constraints, determinedBy[out])
                                    /\ direction'[determinedBy[out]] = "none"
    <3>1. determinedBy[out] \in Constraints \union {None}
      BY <1>3, <1>4
    <3> QED
      BY <1>0, <1>3, <1>4, <1>5, <3>1
  <2> QED
    BY <1>0, <1>2, <1>7, <1>11, <2>1 DEF AddsListed, Addable, Satisfied
<1>13. LoopsTyped'
  <2>1. todo' \in Seq(Constraints)
    BY <1>0, <1>2
  <2> QED
    BY <1>0, <1>1, <2>1 DEF LoopsTyped
<1>14. ScriptFits' /\ ListsAgree' /\ RemovesListed'
  BY <1>0, <1>1 DEF ScriptFits, ListsAgree, RemovesListed
<1>15. Annotated'
  <2>1. \A v \in Variables : determinedBy'[v] = None => var'[v].walk = WEAKEST /\ var'[v].stay = TRUE
    <3>1. focus # None
      BY <1>2, DeltaBlueAssumption
    <3> QED
      BY <1>0, <1>1, <1>8, <3>1 DEF Annotated
  <2>2. ASSUME NEW c \in Constraints, direction'[c] # "none", c # focus
        PROVE  CurrentIn(var', c, direction'[c])
    <3>1. direction'[c] = direction[c] /\ direction[c] # "none"
      BY <1>6, <2>2
    <3> QED
      BY <1>0, <1>1, <3>1 DEF Annotated, Satisfied
  <2>3. Cells(var')
    BY <1>0, <1>1 DEF Annotated
  <2> QED
    BY <1>0, <1>11, <2>1, <2>2, <2>3 DEF Annotated, Satisfied
<1> QED
  BY <1>10, <1>12, <1>13, <1>14, <1>15 DEF PlannerInv

LEMMA AddPropagateKeeps ==
  ASSUME PlannerInv, AddPropagate
  PROVE  PlannerInv'
<1> PICK d : d = Head(todo)
  OBVIOUS
<1>0. /\ pc = "propagate" /\ todo # <<>>
      /\ \/ pc' = "cycle" /\ UNCHANGED <<var, todo>>
         \/ /\ var' = Recalculate(var, d)
            /\ todo' = Tail(todo) \o Consumers(Output(d))
            /\ pc' = pc
      /\ UNCHANGED <<script, determinedBy, constraints, direction, focus, overridden, unsatisfied, at,
                     strength, plan>>
  BY DEF AddPropagate, removal, graph
<1>1. ScriptFits /\ ListsAgree /\ LoopsTyped /\ GraphAgrees /\ AddsListed /\ RemovesListed /\ Annotated
  BY DEF PlannerInv
<1>2. ScriptFits' /\ ListsAgree' /\ RemovesListed'
  BY <1>0, <1>1 DEF ScriptFits, ListsAgree, RemovesListed
<1>3. GraphAgrees'
  BY <1>0, <1>1 DEF GraphAgrees, Determined, Satisfied, Output
<1>4. CASE pc' = "cycle" /\ UNCHANGED <<var, todo>>
  <2>1. LoopsTyped' /\ AddsListed'
    BY <1>0, <1>1, <1>4 DEF LoopsTyped, AddsListed
  <2>2. Annotated'
    BY <1>0, <1>1, <1>4 DEF Annotated
  <2> QED
    BY <1>2, <1>3, <2>1, <2>2 DEF PlannerInv
<1>5. CASE /\ var' = Recalculate(var, d)
           /\ todo' = Tail(todo) \o Consumers(Output(d))
           /\ pc' = pc
  <2>1. todo \in Seq(Constraints) /\ \A c \in On(todo) : Satisfied(c)
    BY <1>0, <1>1 DEF LoopsTyped, AddsListed
  <2>2. /\ d \in Constraints /\ Tail(todo) \in Seq(Constraints) /\ On(todo) = {d} \union On(Tail(todo))
    BY <1>0, <2>1, OnHeadTail
  <2>3. Satisfied(d)
    BY <2>1, <2>2
  <2>out. PICK out : out = Output(d)
    OBVIOUS
  <2>4. out \in Variables /\ determinedBy[out] = d
    <3>1. Output(d) \in Variables
      BY <2>2, ConstraintFacts DEF Output
    <3> QED
      BY <1>1, <2>2, <2>3, <2>out, <3>1 DEF GraphAgrees, Determined
  <2>cs. PICK cs : cs = Consumers(out)
    OBVIOUS
  <2>5. cs \in Seq(Constraints) /\ \A c \in On(cs) : Satisfied(c)
    BY <1>1, <2>4, <2>cs, ConsumersFacts
  <2>6. todo' \in Seq(Constraints) /\ On(todo') = On(Tail(todo)) \union On(cs)
    <3> PICK rest : rest = Tail(todo)
      OBVIOUS
    <3>1. rest \in Seq(Constraints) /\ cs \in Seq(Constraints)
      BY <2>2, <2>5
    <3>2. rest \o cs \in Seq(Constraints) /\ On(rest \o cs) = On(rest) \union On(cs)
      BY ONLY <3>1, OnConcat
    <3>3. todo' = rest \o cs
      BY <1>5, <2>out, <2>cs
    <3> QED
      BY <3>2, <3>3
  <2>7. /\ Cells(var) /\ Cells(var')
        /\ \A u \in Variables : u # out => var'[u] = var[u]
        /\ CurrentIn(var', d, direction[d])
    BY <1>1, <1>5, <2>2, <2>out, RecalculateFacts, RecalculatedCurrent DEF Annotated
  <2>8. ASSUME NEW c \in Constraints, Satisfied(c), c # d, c \notin On(todo')
        PROVE  CurrentIn(var', c, direction[c])
    <3>1. c \notin On(todo) /\ c \notin On(cs)
      BY <2>2, <2>6, <2>8
    <3>2. CurrentIn(var, c, direction[c])
      BY <1>0, <1>1, <2>8, <3>1 DEF Annotated
    <3>3. out \notin InputsOf(c, direction[c])
      BY <1>1, <2>8, <2>cs, <3>1, FedIsConsumer
    <3>4. OutputOf(c, direction[c]) # out
      BY <1>1, <2>4, <2>8 DEF GraphAgrees, Determined, Output
    <3>5. InputsOf(c, direction[c]) \union {OutputOf(c, direction[c])} \subseteq Variables
      BY ConstraintFacts
    <3>6. \A u \in InputsOf(c, direction[c]) \union {OutputOf(c, direction[c])} :
            var'[u].walk = var[u].walk /\ var'[u].stay = var[u].stay
      BY <2>7, <3>3, <3>4, <3>5
    <3> QED
      BY <3>2, <3>6, CurrentStays
  <2>9. Annotated'
    <3>1. \A v \in Variables : determinedBy[v] = None => var'[v].walk = WEAKEST /\ var'[v].stay = TRUE
      <4>1. d # None
        BY <2>2, DeltaBlueAssumption
      <4> QED
        BY <1>1, <2>4, <2>7, <4>1 DEF Annotated
    <3> QED
      BY <1>0, <1>5, <2>7, <2>8, <3>1 DEF Annotated, Satisfied
  <2>10. LoopsTyped' /\ AddsListed'
    <3>1. \A c \in On(todo') : Satisfied(c)
      BY <2>1, <2>2, <2>5, <2>6
    <3> QED
      BY <1>0, <1>1, <1>5, <2>6, <3>1 DEF LoopsTyped, AddsListed, Addable, Satisfied
  <2> QED
    BY <1>2, <1>3, <2>9, <2>10 DEF PlannerInv
<1> QED
  BY <1>0, <1>4, <1>5

LEMMA PropagatedKeeps ==
  ASSUME PlannerInv, Propagated
  PROVE  PlannerInv'
<1>0. /\ pc = "propagate" /\ todo = <<>>
      /\ \/ overridden = None /\ pc' = (IF at = 0 THEN "script" ELSE "weaker") /\ focus' = focus
         \/ overridden # None /\ pc' = "satisfy" /\ focus' = overridden
      /\ UNCHANGED <<script, var, determinedBy, constraints, direction, overridden, todo, unsatisfied, at,
                     strength, plan>>
  BY DEF Propagated, EndAdd, removal, graph
<1>1. ScriptFits /\ ListsAgree /\ LoopsTyped /\ GraphAgrees /\ AddsListed /\ RemovesListed /\ Annotated
  BY DEF PlannerInv
<1>2. ScriptFits' /\ ListsAgree'
  BY <1>0, <1>1 DEF ScriptFits, ListsAgree
<1>3. GraphAgrees'
  BY <1>0, <1>1 DEF GraphAgrees, Determined, Satisfied, Output
<1>4. LoopsTyped' /\ RemovesListed'
  BY <1>0, <1>1 DEF LoopsTyped, RemovesListed
<1>5. AddsListed'
  BY <1>0, <1>1 DEF AddsListed, Addable, Satisfied
<1>6. Annotated'
  <2>1. On(todo) = {}
    BY <1>0 DEF On
  <2> QED
    BY <1>0, <1>1, <2>1 DEF Annotated, Satisfied
<1> QED
  BY <1>2, <1>3, <1>4, <1>5, <1>6 DEF PlannerInv

LEMMA DestroyConstraintKeeps ==
  ASSUME PlannerInv, DestroyConstraint
  PROVE  PlannerInv'
<1>asked. PICK c0, out : c0 = Asked /\ out = Output(c0)
  OBVIOUS
<1>0. /\ Asks("destroy") /\ pc = "script" /\ script' = Tail(script)
      /\ direction' = [direction EXCEPT ![c0] = "none"]
      /\ constraints' = [v \in Variables |->
           IF v \in VariablesOf(c0) THEN RemoveFirst(constraints[v], c0) ELSE constraints[v]]
      /\ determinedBy' = [v \in Variables |-> IF determinedBy[v] = c0 THEN None ELSE determinedBy[v]]
      /\ \/ /\ Satisfied(c0)
            /\ var' = [var EXCEPT ![out].walk = WEAKEST, ![out].stay = TRUE]
            /\ todo' = <<out>> /\ unsatisfied' = <<>> /\ at' = 1 /\ strength' = REQUIRED /\ pc' = "remove"
         \/ ~Satisfied(c0) /\ UNCHANGED <<var, todo, unsatisfied, at, strength, pc>>
      /\ UNCHANGED <<focus, overridden, plan>>
  BY <1>asked DEF DestroyConstraint, Asks, removal
<1>1. ScriptFits /\ ListsAgree /\ LoopsTyped /\ GraphAgrees /\ AddsListed /\ RemovesListed /\ Annotated
  BY DEF PlannerInv
<1>2. c0 \in Constraints /\ Fits(Tail(script)) /\ NewOn(Tail(script)) \subseteq NewOn(script)
  BY <1>0, <1>1, <1>asked, AskedFacts
<1>3. ASSUME NEW v \in Variables
      PROVE  /\ constraints'[v] \in Seq(Constraints) /\ Once(constraints'[v])
             /\ On(constraints'[v]) = On(constraints[v]) \ {c0}
  <2>1. constraints[v] \in Seq(Constraints) /\ Once(constraints[v])
    BY <1>1 DEF ListsAgree
  <2>2. CASE v \in VariablesOf(c0)
    <3>1. constraints'[v] = RemoveFirst(constraints[v], c0)
      BY <1>0, <2>2
    <3> QED
      BY <2>1, <3>1, RemoveFirstFacts
  <2>3. CASE v \notin VariablesOf(c0)
    <3>1. constraints'[v] = constraints[v]
      BY <1>0, <2>3
    <3>2. c0 \notin On(constraints[v])
      BY <1>1, <2>3 DEF ListsAgree
    <3> QED
      BY <2>1, <3>1, <3>2
  <2> QED
    BY <2>2, <2>3
<1>4. ASSUME NEW c \in Constraints, c # c0, ListedIn(constraints, c)
      PROVE  ListedIn(constraints', c)
  <2>1. VariablesOf(c) \subseteq Variables
    BY ConstraintFacts
  <2> QED
    BY <1>3, <1>4, <2>1 DEF ListedIn
<1>5. ListsAgree'
  <2>1. constraints' \in [Variables -> Seq(Constraints)]
    BY <1>0, <1>3
  <2>2. ASSUME NEW v \in Variables, NEW c \in On(constraints'[v])
        PROVE  v \in VariablesOf(c) /\ ListedIn(constraints', c)
    <3>1. c \in On(constraints[v]) /\ c # c0
      BY <1>3, <2>2
    <3>2. constraints[v] \in Seq(Constraints)
      BY <1>1 DEF ListsAgree
    <3>3. c \in Constraints
      BY <3>1, <3>2, LenProperties DEF On
    <3> QED
      BY <1>1, <1>4, <3>1, <3>3 DEF ListsAgree
  <2> QED
    BY <1>3, <2>1, <2>2 DEF ListsAgree
<1>6. ScriptFits'
  BY <1>0, <1>1, <1>2, <1>3 DEF ScriptFits
<1>7. /\ determinedBy \in [Variables -> Constraints \union {None}]
      /\ direction \in [Constraints -> {"none", "forward", "backward"}]
      /\ \A c \in Constraints, v \in Variables :
           determinedBy[v] = c <=> direction[c] # "none" /\ OutputOf(c, direction[c]) = v
      /\ \A c \in Constraints : direction[c] # "none" => ListedIn(constraints, c)
  BY <1>1 DEF GraphAgrees, Determined, Satisfied, Output
<1>8. /\ direction' \in [Constraints -> {"none", "forward", "backward"}]
      /\ direction'[c0] = "none" /\ \A c \in Constraints : c # c0 => direction'[c] = direction[c]
      /\ \A v \in Variables : determinedBy'[v] = IF determinedBy[v] = c0 THEN None ELSE determinedBy[v]
  BY <1>0, <1>2, <1>7
<1>9. GraphAgrees'
  <2>1. determinedBy' \in [Variables -> Constraints \union {None}]
    BY <1>0, <1>7
  <2>2. ASSUME NEW c \in Constraints, NEW v \in Variables
        PROVE  determinedBy'[v] = c <=> direction'[c] # "none" /\ OutputOf(c, direction'[c]) = v
    <3>1. c # None
      BY DeltaBlueAssumption
    <3>2. CASE c = c0
      BY <1>8, <3>1, <3>2
    <3>3. CASE c # c0
      BY <1>7, <1>8, <3>1, <3>3
    <3> QED
      BY <3>2, <3>3
  <2>3. \A c \in Constraints : direction'[c] # "none" => ListedIn(constraints', c)
    BY <1>4, <1>7, <1>8
  <2> QED
    BY <1>8, <2>1, <2>2, <2>3 DEF GraphAgrees, Determined, Satisfied, Output
<1>10. CASE /\ Satisfied(c0)
            /\ var' = [var EXCEPT ![out].walk = WEAKEST, ![out].stay = TRUE]
            /\ todo' = <<out>> /\ unsatisfied' = <<>> /\ at' = 1 /\ strength' = REQUIRED /\ pc' = "remove"
  <2>1. out \in Variables /\ out = OutputOf(c0, direction[c0]) /\ determinedBy[out] = c0
    <3>1. out \in Variables /\ out = OutputOf(c0, direction[c0])
      BY <1>2, <1>asked, ConstraintFacts DEF Output
    <3> QED
      BY <1>2, <1>7, <1>10, <3>1 DEF Satisfied
  <2>2. On(todo') = {out} /\ todo' \in Seq(Variables)
    BY <1>10, <2>1 DEF On
  <2>3. /\ Cells(var')
        /\ var'[out].walk = WEAKEST /\ var'[out].stay = TRUE
        /\ \A v \in Variables : v # out => var'[v] = var[v]
    <3>1. Cells(var)
      BY <1>1 DEF Annotated
    <3>2. NewAnnotation(var, [var EXCEPT ![out].walk = WEAKEST, ![out].stay = TRUE], out, WEAKEST, TRUE)
      BY <2>1, <3>1, AnnotationSet, Zenon
    <3>3. NewAnnotation(var, var', out, WEAKEST, TRUE)
      BY <1>10, <3>2
    <3> QED
      BY <3>3 DEF NewAnnotation
  <2>4. \A v \in Variables : determinedBy'[v] = None => var'[v].walk = WEAKEST /\ var'[v].stay = TRUE
    <3> SUFFICES ASSUME NEW v \in Variables, determinedBy'[v] = None
                 PROVE  var'[v].walk = WEAKEST /\ var'[v].stay = TRUE
      OBVIOUS
    <3>1. CASE v = out
      BY <2>3, <3>1
    <3>2. CASE v # out
      <4>1. determinedBy[v] # c0
        BY <1>2, <1>7, <2>1, <3>2
      <4>2. determinedBy[v] = None
        BY <1>8, <4>1
      <4> QED
        BY <1>1, <2>3, <3>2, <4>2 DEF Annotated
    <3> QED
      BY <3>1, <3>2
  <2>5. ASSUME NEW c \in Constraints, direction'[c] # "none", out \notin InputsOf(c, direction'[c])
        PROVE  CurrentIn(var', c, direction'[c])
    <3>1. c # c0 /\ direction'[c] = direction[c]
      BY <1>8, <2>5
    <3>2. CurrentIn(var, c, direction[c])
      BY <1>0, <1>1, <2>5, <3>1 DEF Annotated, Satisfied
    <3>3. OutputOf(c, direction[c]) # out
      BY <1>7, <2>1, <2>5, <3>1
    <3>4. InputsOf(c, direction[c]) \union {OutputOf(c, direction[c])} \subseteq Variables
      BY ConstraintFacts
    <3>5. \A u \in InputsOf(c, direction[c]) \union {OutputOf(c, direction[c])} :
            var'[u].walk = var[u].walk /\ var'[u].stay = var[u].stay
      BY <2>3, <2>5, <3>1, <3>3, <3>4
    <3> QED
      BY <3>1, <3>2, <3>5, CurrentStays
  <2>6. Annotated'
    <3>1. ASSUME NEW c \in Constraints, direction'[c] # "none"
          PROVE  CurrentIn(var', c, direction'[c]) \/ InputsOf(c, direction'[c]) \intersect On(todo') # {}
      BY <2>2, <2>5, <3>1
    <3> QED
      BY <1>10, <2>3, <2>4, <3>1 DEF Annotated, Satisfied
  <2>7. LoopsTyped' /\ AddsListed'
    BY <1>0, <1>1, <1>10, <2>2 DEF LoopsTyped, AddsListed
  <2>8. RemovesListed'
    <3>1. unsatisfied' \in Seq(Constraints) /\ On(unsatisfied') = {}
      BY <1>10, EmptySeq DEF On
    <3> QED
      BY <1>10, <3>1 DEF RemovesListed, WEAKEST, REQUIRED
  <2> QED
    BY <1>5, <1>6, <1>9, <2>6, <2>7, <2>8 DEF PlannerInv
<1>11. CASE ~Satisfied(c0) /\ UNCHANGED <<var, todo, unsatisfied, at, strength, pc>>
  <2>1. direction[c0] = "none"
    BY <1>11 DEF Satisfied
  <2>2. \A c \in Constraints : direction'[c] = direction[c]
    BY <1>8, <2>1
  <2>3. \A v \in Variables : determinedBy'[v] = determinedBy[v]
    BY <1>2, <1>7, <1>8, <2>1
  <2>4. Annotated'
    BY <1>0, <1>1, <1>11, <2>2, <2>3 DEF Annotated, Satisfied
  <2>5. LoopsTyped' /\ AddsListed' /\ RemovesListed'
    BY <1>0, <1>1, <1>11 DEF LoopsTyped, AddsListed, RemovesListed
  <2> QED
    BY <1>5, <1>6, <1>9, <2>4, <2>5 DEF PlannerInv
<1> QED
  BY <1>0, <1>10, <1>11

LEMMA RemovePropagateKeeps ==
  ASSUME PlannerInv, RemovePropagate
  PROVE  PlannerInv'
<1>1. PICK v, rest, cs, left, new :
        /\ v = Head(todo) /\ rest = Tail(todo) /\ cs = Consumers(v)
        /\ left = Among(constraints[v], {c \in Constraints : ~Satisfied(c)})
        /\ new = [i \in DOMAIN cs |-> Output(cs[i])]
  OBVIOUS
<1>2. /\ pc = "remove" /\ pc' = "remove" /\ todo # <<>>
      /\ unsatisfied' = unsatisfied \o left
      /\ var' = RecalculateAll(var, cs)
      /\ todo' = rest \o new
      /\ UNCHANGED <<script, determinedBy, constraints, direction, focus, overridden, at, strength, plan>>
  BY <1>1 DEF RemovePropagate, graph
<1>3. ScriptFits /\ ListsAgree /\ LoopsTyped /\ GraphAgrees /\ AddsListed /\ RemovesListed /\ Annotated
  BY DEF PlannerInv
<1>4. ScriptFits' /\ ListsAgree'
  BY <1>2, <1>3 DEF ScriptFits, ListsAgree
<1>5. GraphAgrees'
  BY <1>2, <1>3 DEF GraphAgrees, Determined, Satisfied, Output
<1>6. /\ v \in Variables /\ rest \in Seq(Variables) /\ On(todo) = {v} \union On(rest)
  <2>1. todo \in Seq(Variables)
    BY <1>2, <1>3 DEF LoopsTyped
  <2> QED
    BY <1>1, <1>2, <2>1, OnHeadTail
<1>7. /\ cs \in Seq(Constraints)
      /\ On(cs) = {c \in On(constraints[v]) : c # determinedBy[v] /\ Satisfied(c)}
  BY <1>1, <1>3, <1>6, ConsumersFacts
<1>8. \A c \in On(cs) : c \in Constraints /\ Satisfied(c)
  <2>1. \A c \in On(cs) : c \in Constraints
    BY <1>7, LenProperties DEF On
  <2> QED
    BY <1>7, <2>1
<1>9. PICK outs : outs = {Output(c) : c \in On(cs)}
  OBVIOUS
<1>10. new \in Seq(Variables) /\ On(new) = outs
  <2>1. Len(cs) \in Nat /\ DOMAIN cs = 1..Len(cs)
    BY <1>7, LenProperties
  <2>2. \A i \in 1..Len(cs) : cs[i] \in On(cs)
    BY <2>1 DEF On
  <2>3. \A c \in On(cs) : Output(c) \in Variables
    BY <1>8, ConstraintFacts DEF Output
  <2>4. new \in [1..Len(cs) -> Variables]
    BY <1>1, <2>1, <2>2, <2>3
  <2>5. new \in Seq(Variables) /\ DOMAIN new = 1..Len(cs)
    BY <2>1, <2>4, SeqMade
  <2>6. On(new) = {Output(cs[i]) : i \in 1..Len(cs)}
    BY <1>1, <2>1, <2>5 DEF On
  <2>7. outs = {Output(cs[i]) : i \in 1..Len(cs)}
    BY <1>9, <2>1 DEF On
  <2> QED
    BY <2>5, <2>6, <2>7
<1>11. todo' \in Seq(Variables) /\ On(todo') = On(rest) \union outs
  <2>1. rest \o new \in Seq(Variables) /\ On(rest \o new) = On(rest) \union On(new)
    BY <1>6, <1>10, OnConcat
  <2> QED
    BY <1>2, <1>10, <2>1
<1>12. /\ Cells(var')
       /\ \A u \in Variables : u \notin outs => var'[u] = var[u]
       /\ \A c \in On(cs) : \/ CurrentIn(var', c, direction[c])
                            \/ InputsOf(c, direction[c]) \intersect outs # {}
  <2>1. Determined /\ Cells(var)
    BY <1>3 DEF GraphAgrees, Annotated
  <2>2. /\ Cells(RecalculateAll(var, cs))
        /\ \A u \in Variables : u \notin outs => RecalculateAll(var, cs)[u] = var[u]
        /\ \A c \in On(cs) : \/ CurrentIn(RecalculateAll(var, cs), c, direction[c])
                             \/ InputsOf(c, direction[c]) \intersect outs # {}
    <3>1. cs \in Seq(Constraints) /\ \A c \in On(cs) : Satisfied(c) /\ Output(c) \in outs
      BY <1>7, <1>8, <1>9
    <3> QED
      BY <2>1, <3>1, RecalculateAllFacts
  <2> QED
    BY <1>2, <2>2
<1>13. ASSUME NEW u \in outs
       PROVE  \E c \in On(cs) : c \in Constraints /\ determinedBy[u] = c /\ Output(c) = u
  <2>1. PICK c \in On(cs) : u = Output(c)
    BY <1>9
  <2>2. u \in Variables
    BY <1>8, <2>1, ConstraintFacts DEF Output
  <2> QED
    BY <1>3, <1>8, <2>1, <2>2 DEF GraphAgrees, Determined
<1>14. Annotated'
  <2>1. ASSUME NEW u \in Variables, determinedBy[u] = None
        PROVE  var'[u].walk = WEAKEST /\ var'[u].stay = TRUE
    <3>1. u \notin outs
      BY <1>13, <2>1, DeltaBlueAssumption
    <3> QED
      BY <1>3, <1>12, <2>1, <3>1 DEF Annotated
  <2>2. ASSUME NEW c \in Constraints, Satisfied(c), InputsOf(c, direction[c]) \intersect On(todo') = {}
        PROVE  CurrentIn(var', c, direction[c])
    <3>1. CASE c \in On(cs)
      BY <1>11, <1>12, <2>2, <3>1
    <3>2. CASE c \notin On(cs)
      <4>1. v \notin InputsOf(c, direction[c])
        BY <1>1, <1>3, <2>2, <3>2, FedIsConsumer
      <4>2. InputsOf(c, direction[c]) \intersect On(todo) = {}
        BY <1>6, <1>11, <2>2, <4>1
      <4>3. CurrentIn(var, c, direction[c])
        BY <1>2, <1>3, <2>2, <4>2 DEF Annotated
      <4>4. OutputOf(c, direction[c]) \notin outs
        <5>1. SUFFICES ASSUME Output(c) \in outs
                       PROVE  FALSE
          BY DEF Output
        <5>2. PICK e \in On(cs) : e \in Constraints /\ determinedBy[Output(c)] = e
          BY <1>13, <5>1
        <5>3. Output(c) \in Variables
          BY ConstraintFacts DEF Output
        <5>4. determinedBy[Output(c)] = c
          BY <1>3, <2>2, <5>3 DEF GraphAgrees, Determined
        <5> QED
          BY <3>2, <5>2, <5>4
      <4>5. InputsOf(c, direction[c]) \union {OutputOf(c, direction[c])} \subseteq Variables
        BY ConstraintFacts
      <4>6. \A u \in InputsOf(c, direction[c]) \union {OutputOf(c, direction[c])} :
              var'[u].walk = var[u].walk /\ var'[u].stay = var[u].stay
        BY <1>11, <1>12, <2>2, <4>4, <4>5
      <4> QED
        BY <4>3, <4>6, CurrentStays
    <3> QED
      BY <3>1, <3>2
  <2> QED
    BY <1>2, <1>12, <2>1, <2>2 DEF Annotated, Satisfied
<1>15. left \in Seq(Constraints) /\ \A c \in On(left) : Addable(c)
  <2>1. constraints[v] \in Seq(Constraints)
    BY <1>3, <1>6 DEF ListsAgree
  <2>2. PICK S : S = {c \in Constraints : ~Satisfied(c)}
    OBVIOUS
  <2>3. left \in Seq(Constraints) /\ On(left) = On(constraints[v]) \intersect S
    BY <1>1, <2>1, <2>2, AmongFacts
  <2> QED
    BY <1>3, <1>6, <2>2, <2>3 DEF ListsAgree, Addable
<1>16. RemovesListed'
  <2>1. unsatisfied \in Seq(Constraints)
    BY <1>3 DEF RemovesListed
  <2>2. unsatisfied' \in Seq(Constraints) /\ On(unsatisfied') = On(unsatisfied) \union On(left)
    <3>1. /\ unsatisfied \o left \in Seq(Constraints)
          /\ On(unsatisfied \o left) = On(unsatisfied) \union On(left)
      BY <1>15, <2>1, OnConcat
    <3> QED
      BY <1>2, <3>1
  <2>3. \A c \in On(unsatisfied') : Addable(c)
    BY <1>2, <1>3, <1>15, <2>2 DEF RemovesListed, WEAKEST, REQUIRED
  <2>4. \A c \in On(unsatisfied') : Addable(c)'
    BY <1>2, <2>3 DEF Addable, Satisfied
  <2> QED
    BY <1>2, <1>3, <2>2, <2>4 DEF RemovesListed
<1>17. LoopsTyped' /\ AddsListed'
  BY <1>2, <1>3, <1>11 DEF LoopsTyped, AddsListed
<1> QED
  BY <1>4, <1>5, <1>14, <1>16, <1>17 DEF PlannerInv

LEMMA RemovePropagatedKeeps ==
  ASSUME PlannerInv, RemovePropagated
  PROVE  PlannerInv'
<1>0. /\ pc = "remove" /\ todo = <<>> /\ pc' = "again"
      /\ UNCHANGED <<script, var, determinedBy, constraints, direction, focus, overridden, todo, unsatisfied,
                     at, strength, plan>>
  BY DEF RemovePropagated, removal, graph
<1>1. ScriptFits /\ ListsAgree /\ LoopsTyped /\ GraphAgrees /\ AddsListed /\ RemovesListed /\ Annotated
  BY DEF PlannerInv
<1>2. ScriptFits' /\ ListsAgree' /\ LoopsTyped' /\ AddsListed'
  BY <1>0, <1>1 DEF ScriptFits, ListsAgree, LoopsTyped, AddsListed
<1>3. GraphAgrees'
  BY <1>0, <1>1 DEF GraphAgrees, Determined, Satisfied, Output
<1>4. RemovesListed'
  BY <1>0, <1>1 DEF RemovesListed, Addable, Satisfied
<1>5. Annotated'
  <2>1. On(todo) = {}
    BY <1>0 DEF On
  <2> QED
    BY <1>0, <1>1, <2>1 DEF Annotated, Satisfied
<1> QED
  BY <1>2, <1>3, <1>4, <1>5 DEF PlannerInv

LEMMA SatisfyAgainKeeps ==
  ASSUME PlannerInv, SatisfyAgain
  PROVE  PlannerInv'
<1>0. /\ pc = "weaker" \/ (pc = "again" /\ at <= Len(unsatisfied))
      /\ \/ /\ pc = "again" /\ Strength(unsatisfied[at]) = strength
            /\ focus' = unsatisfied[at] /\ pc' = "satisfy" /\ UNCHANGED <<at, strength>>
         \/ strength = WEAKEST /\ pc' = "keyError" /\ UNCHANGED <<at, strength, focus>>
         \/ /\ strength # WEAKEST /\ pc' = "again" /\ at' = at + 1 /\ strength' = NextWeaker(strength)
            /\ UNCHANGED focus
      /\ UNCHANGED <<script, var, determinedBy, constraints, direction, overridden, todo, unsatisfied, plan>>
  BY DEF SatisfyAgain, StartAdd, Weaken, graph
<1>1. ScriptFits /\ ListsAgree /\ LoopsTyped /\ GraphAgrees /\ AddsListed /\ RemovesListed /\ Annotated
  BY DEF PlannerInv
<1>2. ScriptFits' /\ ListsAgree'
  BY <1>0, <1>1 DEF ScriptFits, ListsAgree
<1>3. GraphAgrees'
  BY <1>0, <1>1 DEF GraphAgrees, Determined, Satisfied, Output
<1>4. LoopsTyped'
  BY <1>0, <1>1 DEF LoopsTyped
<1>5. Annotated'
  BY <1>0, <1>1 DEF Annotated, Satisfied
<1>6. CASE /\ pc = "again" /\ Strength(unsatisfied[at]) = strength
           /\ focus' = unsatisfied[at] /\ pc' = "satisfy" /\ UNCHANGED <<at, strength>>
  <2>1. unsatisfied \in Seq(Constraints) /\ at \in Nat /\ at # 0 /\ at <= Len(unsatisfied)
    BY <1>0, <1>1, <1>6 DEF RemovesListed
  <2>2. unsatisfied[at] \in Constraints /\ unsatisfied[at] \in On(unsatisfied)
    BY <2>1, LenProperties DEF On
  <2>3. strength = REQUIRED
    <3>1. Strength(unsatisfied[at]) \in {REQUIRED, PREFERRED, STRONG_DEFAULT, NORMAL}
      BY <2>2, ConstraintFacts
    <3> QED
      BY <1>1, <1>6, <3>1 DEF RemovesListed, REQUIRED, PREFERRED, STRONG_DEFAULT, NORMAL, WEAKEST
  <2>4. Addable(unsatisfied[at])
    BY <1>1, <1>6, <2>2, <2>3 DEF RemovesListed, REQUIRED, WEAKEST
  <2>5. AddsListed'
    BY <1>0, <1>6, <2>4 DEF AddsListed, Addable, Satisfied
  <2>6. RemovesListed'
    BY <1>0, <1>1, <1>6, <2>3 DEF RemovesListed
  <2> QED
    BY <1>2, <1>3, <1>4, <1>5, <2>5, <2>6 DEF PlannerInv
<1>7. CASE strength = WEAKEST /\ pc' = "keyError" /\ UNCHANGED <<at, strength, focus>>
  <2>1. AddsListed' /\ RemovesListed'
    BY <1>0, <1>1, <1>7 DEF AddsListed, RemovesListed
  <2> QED
    BY <1>2, <1>3, <1>4, <1>5, <2>1 DEF PlannerInv
<1>8. CASE /\ strength # WEAKEST /\ pc' = "again" /\ at' = at + 1 /\ strength' = NextWeaker(strength)
           /\ UNCHANGED focus
  <2>1. strength = REQUIRED /\ at \in Nat
    BY <1>1, <1>8 DEF RemovesListed
  <2>2. strength' = WEAKEST
    BY <1>8, <2>1 DEF NextWeaker, REQUIRED
  <2>3. at' \in Nat /\ at' # 0
    BY <1>8, <2>1
  <2>4. AddsListed' /\ RemovesListed'
    BY <1>0, <1>1, <1>8, <2>2, <2>3 DEF AddsListed, RemovesListed
  <2> QED
    BY <1>2, <1>3, <1>4, <1>5, <2>4 DEF PlannerInv
<1> QED
  BY <1>0, <1>6, <1>7, <1>8

LEMMA RepeatKeeps ==
  ASSUME PlannerInv, Repeat
  PROVE  PlannerInv'
<1>0. /\ pc = "again"
      /\ \/ strength # WEAKEST /\ at' = 1 /\ pc' = "again"
         \/ strength = WEAKEST /\ at' = 0 /\ pc' = "script"
      /\ UNCHANGED <<script, var, determinedBy, constraints, direction, focus, overridden, todo, unsatisfied,
                     strength, plan>>
  BY DEF Repeat, graph
<1>1. ScriptFits /\ ListsAgree /\ LoopsTyped /\ GraphAgrees /\ AddsListed /\ RemovesListed /\ Annotated
  BY DEF PlannerInv
<1>2. ScriptFits' /\ ListsAgree' /\ LoopsTyped' /\ AddsListed'
  BY <1>0, <1>1 DEF ScriptFits, ListsAgree, LoopsTyped, AddsListed
<1>3. GraphAgrees'
  BY <1>0, <1>1 DEF GraphAgrees, Determined, Satisfied, Output
<1>4. RemovesListed'
  BY <1>0, <1>1 DEF RemovesListed, Addable, Satisfied
<1>5. Annotated'
  BY <1>0, <1>1 DEF Annotated, Satisfied
<1> QED
  BY <1>2, <1>3, <1>4, <1>5 DEF PlannerInv

LEMMA ExtractPlanKeeps ==
  ASSUME PlannerInv, ExtractPlan
  PROVE  PlannerInv'
<1>0. /\ Asks("plan") /\ pc = "script" /\ pc' = "plan" /\ plan' = <<>> /\ script' = Tail(script)
      /\ todo' = IF Satisfied(Asked) THEN <<Asked>> ELSE <<>>
      /\ UNCHANGED <<var, determinedBy, constraints, direction, focus, overridden, unsatisfied, at, strength>>
  BY DEF ExtractPlan, Asks, removal, graph
<1>1. ScriptFits /\ ListsAgree /\ LoopsTyped /\ GraphAgrees /\ AddsListed /\ RemovesListed /\ Annotated
  BY DEF PlannerInv
<1>2. Asked \in Constraints /\ Fits(Tail(script)) /\ NewOn(Tail(script)) \subseteq NewOn(script)
  BY <1>0, <1>1, AskedFacts
<1>3. ScriptFits'
  BY <1>0, <1>1, <1>2 DEF ScriptFits
<1>4. todo' \in Seq(Constraints) /\ plan' \in Seq(Constraints)
  BY <1>0, <1>2, EmptySeq
<1>5. ListsAgree' /\ LoopsTyped' /\ AddsListed' /\ RemovesListed'
  BY <1>0, <1>1, <1>4 DEF ListsAgree, LoopsTyped, AddsListed, RemovesListed
<1>6. GraphAgrees'
  BY <1>0, <1>1 DEF GraphAgrees, Determined, Satisfied, Output
<1>7. Annotated'
  BY <1>0, <1>1 DEF Annotated, Satisfied
<1> QED
  BY <1>3, <1>5, <1>6, <1>7 DEF PlannerInv

LEMMA MakePlanKeeps ==
  ASSUME PlannerInv, MakePlan
  PROVE  PlannerInv'
<1>0. /\ pc = "plan" /\ pc' = "plan" /\ todo # <<>>
      /\ \/ plan' = Append(plan, Head(todo)) /\ todo' = Tail(todo) \o Consumers(Output(Head(todo)))
         \/ plan' = plan /\ todo' = Tail(todo)
      /\ UNCHANGED <<script, var, determinedBy, constraints, direction, focus, overridden, unsatisfied, at,
                     strength>>
  BY DEF MakePlan, removal, graph
<1>1. ScriptFits /\ ListsAgree /\ LoopsTyped /\ GraphAgrees /\ AddsListed /\ RemovesListed /\ Annotated
  BY DEF PlannerInv
<1>2. ScriptFits' /\ ListsAgree' /\ AddsListed' /\ RemovesListed'
  BY <1>0, <1>1 DEF ScriptFits, ListsAgree, AddsListed, RemovesListed
<1>3. GraphAgrees'
  BY <1>0, <1>1 DEF GraphAgrees, Determined, Satisfied, Output
<1>4. Annotated'
  BY <1>0, <1>1 DEF Annotated, Satisfied
<1>5. plan \in Seq(Constraints) /\ todo \in Seq(Constraints)
  BY <1>0, <1>1 DEF LoopsTyped
<1>6. PICK c, rest, cs : c = Head(todo) /\ rest = Tail(todo) /\ cs = Consumers(Output(c))
  OBVIOUS
<1>7. c \in Constraints /\ rest \in Seq(Constraints)
  BY <1>0, <1>5, <1>6, OnHeadTail
<1>8. cs \in Seq(Constraints)
  <2>1. Output(c) \in Variables
    BY <1>7, ConstraintFacts DEF Output
  <2> QED
    BY <1>1, <1>6, <2>1, ConsumersFacts
<1>9. Append(plan, c) \in Seq(Constraints) /\ rest \o cs \in Seq(Constraints)
  BY <1>5, <1>7, <1>8, OnConcat, OnAppend
<1>10. LoopsTyped'
  <2>1. plan' \in Seq(Constraints) /\ todo' \in Seq(Constraints)
    BY <1>0, <1>5, <1>6, <1>7, <1>9
  <2> QED
    BY <1>0, <2>1 DEF LoopsTyped
<1> QED
  BY <1>2, <1>3, <1>4, <1>10 DEF PlannerInv

LEMMA PlanMadeKeeps ==
  ASSUME PlannerInv, PlanMade
  PROVE  PlannerInv'
<1>0. /\ pc = "plan" /\ pc' = "script"
      /\ UNCHANGED <<script, var, determinedBy, constraints, direction, focus, overridden, todo, unsatisfied,
                     at, strength, plan>>
  BY DEF PlanMade, removal, graph
<1>1. ScriptFits /\ ListsAgree /\ LoopsTyped /\ GraphAgrees /\ AddsListed /\ RemovesListed /\ Annotated
  BY DEF PlannerInv
<1>2. ScriptFits' /\ ListsAgree' /\ LoopsTyped' /\ AddsListed' /\ RemovesListed'
  BY <1>0, <1>1 DEF ScriptFits, ListsAgree, LoopsTyped, AddsListed, RemovesListed
<1>3. GraphAgrees'
  BY <1>0, <1>1 DEF GraphAgrees, Determined, Satisfied, Output
<1>4. Annotated'
  BY <1>0, <1>1 DEF Annotated, Satisfied
<1> QED
  BY <1>2, <1>3, <1>4 DEF PlannerInv

LEMMA SetValueKeeps ==
  ASSUME PlannerInv, SetValue
  PROVE  PlannerInv'
<1>1. PICK v, w : v = Named(Asked) /\ w = Head(script).value
  OBVIOUS
<1>2. /\ Asks("set") /\ pc = "script" /\ pc' = "script" /\ script' = Tail(script)
      /\ var' = ExecuteAll([var EXCEPT ![v].value = w], plan)
      /\ UNCHANGED <<determinedBy, constraints, direction, focus, overridden, todo, unsatisfied, at, strength,
                     plan>>
  BY <1>1 DEF SetValue, Asks, removal, graph
<1>3. ScriptFits /\ ListsAgree /\ LoopsTyped /\ GraphAgrees /\ AddsListed /\ RemovesListed /\ Annotated
  BY DEF PlannerInv
<1>4. v \in Variables /\ Fits(Tail(script)) /\ NewOn(Tail(script)) \subseteq NewOn(script)
  BY <1>1, <1>2, <1>3, AskedFacts
<1>5. ScriptFits'
  BY <1>2, <1>3, <1>4 DEF ScriptFits
<1>6. ListsAgree' /\ LoopsTyped' /\ AddsListed' /\ RemovesListed'
  BY <1>2, <1>3 DEF ListsAgree, LoopsTyped, AddsListed, RemovesListed
<1>7. GraphAgrees'
  BY <1>2, <1>3 DEF GraphAgrees, Determined, Satisfied, Output
<1>8. PICK y : y = [var EXCEPT ![v].value = w]
  OBVIOUS
<1>9. NewValue(var, y, v)
  <2>1. Cells(var)
    BY <1>3 DEF Annotated
  <2> QED
    BY <1>4, <1>8, <2>1, ValueSet
<1>10. /\ Cells(var')
       /\ \A u \in Variables : var'[u].walk = var[u].walk /\ var'[u].stay = var[u].stay
  <2>1. plan \in Seq(Constraints) /\ Cells(y)
    BY <1>3, <1>9 DEF LoopsTyped, NewValue
  <2>2. /\ Cells(ExecuteAll(y, plan))
        /\ \A u \in Variables : /\ ExecuteAll(y, plan)[u].walk = y[u].walk
                                /\ ExecuteAll(y, plan)[u].stay = y[u].stay
    BY <2>1, ExecuteAllFacts
  <2> QED
    BY <1>2, <1>8, <1>9, <2>2 DEF NewValue
<1>11. ASSUME NEW c \in Constraints, CurrentIn(var, c, direction[c])
       PROVE  CurrentIn(var', c, direction[c])
  <2>1. InputsOf(c, direction[c]) \union {OutputOf(c, direction[c])} \subseteq Variables
    BY ConstraintFacts
  <2>2. \A u \in InputsOf(c, direction[c]) \union {OutputOf(c, direction[c])} :
          var'[u].walk = var[u].walk /\ var'[u].stay = var[u].stay
    BY <1>10, <2>1
  <2> QED
    BY <1>11, <2>2, CurrentStays
<1>12. Annotated'
  BY <1>2, <1>3, <1>10, <1>11 DEF Annotated, Satisfied
<1> QED
  BY <1>5, <1>6, <1>7, <1>12 DEF PlannerInv

-----------------------------------------------------------------------------
(* The theorems. *)

LEMMA PlannerStep == PlannerInv /\ [Next]_vars => PlannerInv'
<1> SUFFICES ASSUME PlannerInv, [Next]_vars
             PROVE  PlannerInv'
  OBVIOUS
<1>1. CASE UNCHANGED vars
  <2>1. UNCHANGED <<script, var, determinedBy, constraints, direction, pc, focus, overridden, todo,
                    unsatisfied, at, strength, plan>>
    BY <1>1 DEF vars, graph, removal
  <2>2. ScriptFits /\ ListsAgree /\ LoopsTyped /\ GraphAgrees /\ AddsListed /\ RemovesListed /\ Annotated
    BY DEF PlannerInv
  <2>3. ScriptFits' /\ ListsAgree' /\ LoopsTyped' /\ AddsListed'
    BY <2>1, <2>2 DEF ScriptFits, ListsAgree, LoopsTyped, AddsListed, Addable, Satisfied
  <2>4. GraphAgrees'
    BY <2>1, <2>2 DEF GraphAgrees, Determined, Satisfied, Output
  <2>5. RemovesListed' /\ Annotated'
    BY <2>1, <2>2 DEF RemovesListed, Annotated, Addable, Satisfied
  <2> QED
    BY <2>3, <2>4, <2>5 DEF PlannerInv
<1>2. CASE Next
  BY <1>2, NewConstraintKeeps, NotSatisfiedKeeps, SatisfyStepKeeps, AddPropagateKeeps, PropagatedKeeps,
     DestroyConstraintKeeps, RemovePropagateKeeps, RemovePropagatedKeeps, SatisfyAgainKeeps, RepeatKeeps,
     ExtractPlanKeeps, MakePlanKeeps, PlanMadeKeeps, SetValueKeeps DEF Next
<1> QED
  BY <1>1, <1>2

LEMMA PlannerAlways == Spec => []PlannerInv
BY PlannerInit, PlannerStep, PTL DEF Spec

(* For every size of the tests: at every step of the planner, a constraint *)
(* is satisfied exactly if its output says that it determines it.          *)
THEOREM DeltaBlueDetermined == Spec => []Determined
<1>1. PlannerInv => Determined
  BY DEF PlannerInv, GraphAgrees
<1> QED
  BY <1>1, PlannerAlways, PTL

(* For every size of the tests: whenever the planner is idle, strength and *)
(* stay flag of each variable are what the constraint that determines it   *)
(* makes of them; the propagation from what was changed, downstream alone, *)
(* forgets none.                                                           *)
THEOREM DeltaBlueAnnotations == Spec => []AnnotationsCurrent
<1>1. PlannerInv => AnnotationsCurrent
  <2> SUFFICES ASSUME PlannerInv, pc = "script", NEW v \in Variables
               PROVE  IF determinedBy[v] = None
                        THEN var[v].walk = WEAKEST /\ var[v].stay
                        ELSE /\ var[v].walk = Walk(var, determinedBy[v])
                             /\ var[v].stay = Stays(var, determinedBy[v])
    BY DEF AnnotationsCurrent, Idle
  <2>1. GraphAgrees /\ Annotated
    BY DEF PlannerInv
  <2>2. CASE determinedBy[v] = None
    BY <2>1, <2>2 DEF Annotated
  <2>3. CASE determinedBy[v] # None
    <3>1. PICK c : c = determinedBy[v]
      OBVIOUS
    <3>2. c \in Constraints
      BY <2>1, <2>3, <3>1 DEF GraphAgrees
    <3>3. Satisfied(c) /\ Output(c) = v
      BY <2>1, <3>1, <3>2 DEF GraphAgrees, Determined
    <3>4. CurrentIn(var, c, direction[c])
      BY <2>1, <3>2, <3>3 DEF Annotated
    <3>5. var[v].walk = Walk(var, c) /\ var[v].stay = Stays(var, c)
      BY <3>3, <3>4 DEF CurrentIn, Walk, Stays, Output, Input
    <3> QED
      BY <2>3, <3>1, <3>5
  <2> QED
    BY <2>2, <2>3
<1> QED
  BY <1>1, PlannerAlways, PTL

-----------------------------------------------------------------------------
(* Go.  Lists without repetition. *)

Distinct(s) == \A i, j \in DOMAIN s : s[i] = s[j] => i = j

LEMMA DistinctTail ==
  ASSUME NEW T, NEW s \in Seq(T), s # <<>>, Distinct(s)
  PROVE  Distinct(Tail(s)) /\ On(Tail(s)) = On(s) \ {Head(s)}
<1>1. /\ On(s) = {Head(s)} \union On(Tail(s))
      /\ Head(s) = s[1] /\ 1 \in DOMAIN s
      /\ \A i \in DOMAIN Tail(s) : Tail(s)[i] = s[i + 1] /\ i + 1 \in DOMAIN s
      /\ DOMAIN Tail(s) \subseteq Nat \ {0}
  <2>1. Tail(s) \in Seq(T)
    BY OnHeadTail
  <2>2. DOMAIN Tail(s) = 1..Len(Tail(s))
    BY <2>1, LenProperties
  <2> QED BY <2>2, OnHeadTail
<1>2. Distinct(Tail(s))
  <2> SUFFICES ASSUME NEW i \in DOMAIN Tail(s), NEW j \in DOMAIN Tail(s), Tail(s)[i] = Tail(s)[j]
               PROVE  i = j
    BY DEF Distinct
  <2>1. i \in Nat /\ j \in Nat /\ i + 1 \in DOMAIN s /\ j + 1 \in DOMAIN s /\ s[i + 1] = s[j + 1]
    BY <1>1
  <2>2. i + 1 = j + 1
    BY <2>1 DEF Distinct
  <2> QED BY <2>1, <2>2
<1>3. Head(s) \notin On(Tail(s))
  <2> SUFFICES ASSUME NEW i \in DOMAIN Tail(s), Tail(s)[i] = Head(s) PROVE FALSE
    BY DEF On
  <2>1. i \in Nat \ {0} /\ i + 1 \in DOMAIN s /\ s[i + 1] = s[1] /\ 1 \in DOMAIN s
    BY <1>1
  <2>2. i + 1 = 1
    BY <2>1 DEF Distinct
  <2> QED BY <2>1, <2>2
<1> QED BY <1>1, <1>2, <1>3

LEMMA DistinctConcat ==
  ASSUME NEW T, NEW s \in Seq(T), NEW t \in Seq(T), Distinct(s), Distinct(t),
         \A x \in On(s) : x \notin On(t)
  PROVE  Distinct(s \o t)
<1>1. /\ \A i \in 1..(Len(s) + Len(t)) : (s \o t)[i] = IF i <= Len(s) THEN s[i] ELSE t[i - Len(s)]
      /\ Len(s) \in Nat /\ Len(t) \in Nat
      /\ DOMAIN s = 1..Len(s) /\ DOMAIN t = 1..Len(t) /\ DOMAIN (s \o t) = 1..(Len(s) + Len(t))
  BY ConcatProperties, LenProperties
<1> SUFFICES ASSUME NEW i \in 1..(Len(s) + Len(t)), NEW j \in 1..(Len(s) + Len(t)),
                    (s \o t)[i] = (s \o t)[j]
             PROVE  i = j
  BY <1>1 DEF Distinct
<1>2. ASSUME NEW k \in 1..(Len(s) + Len(t)), k <= Len(s)
      PROVE  k \in DOMAIN s /\ (s \o t)[k] = s[k] /\ s[k] \in On(s)
  <2>1. k \in DOMAIN s
    BY <1>1, <1>2
  <2> QED BY <1>1, <1>2, <2>1 DEF On
<1>3. ASSUME NEW k \in 1..(Len(s) + Len(t)), ~(k <= Len(s))
      PROVE  k - Len(s) \in DOMAIN t /\ (s \o t)[k] = t[k - Len(s)] /\ t[k - Len(s)] \in On(t)
  <2>1. k - Len(s) \in DOMAIN t
    BY <1>1, <1>3
  <2> QED BY <1>1, <1>3, <2>1 DEF On
<1>4. CASE i <= Len(s) /\ j <= Len(s)
  BY <1>2, <1>4 DEF Distinct
<1>5. CASE ~(i <= Len(s)) /\ ~(j <= Len(s))
  <2>1. i - Len(s) = j - Len(s)
    BY <1>3, <1>5 DEF Distinct
  <2> QED BY <1>1, <2>1
<1>6. CASE (i <= Len(s)) # (j <= Len(s))
  BY <1>2, <1>3, <1>6
<1> QED BY <1>4, <1>5, <1>6

-----------------------------------------------------------------------------
(* The geometry of the board. *)
LEMMA DivisionFacts ==
  ASSUME NEW n \in Int, NEW d \in Nat \ {0}
  PROVE  /\ n \div d \in Int
         /\ (n % d) \in 0..(d - 1)
         /\ n = d * (n \div d) + (n % d)
OBVIOUS

LEMMA DivisionUnique ==
  ASSUME NEW d \in Nat \ {0}, NEW q \in Int, NEW r \in 0..(d - 1)
  PROVE  (d * q + r) \div d = q /\ ((d * q + r) % d) = r
OBVIOUS

LEMMA TimesMonotone ==
  ASSUME NEW a \in Int, NEW b \in Int, NEW d \in Nat, a <= b
  PROVE  d * a <= d * b
OBVIOUS

LEMMA Coordinates ==
  ASSUME NEW s \in Squares
  PROVE  /\ (s % BoardSize) \in 0..(BoardSize - 1)
         /\ (s \div BoardSize) \in 0..(BoardSize - 1)
         /\ s = BoardSize * (s \div BoardSize) + (s % BoardSize)
         /\ s \in Int
<1> DEFINE x == s % BoardSize
           y == s \div BoardSize
<1>0. BoardSize \in Nat \ {0} /\ s \in Int /\ 0 <= s /\ s < BoardSize * BoardSize
  BY GoAssumption DEF Squares
<1>1. y \in Int /\ x \in 0..(BoardSize - 1) /\ s = BoardSize * y + x
  BY <1>0, DivisionFacts, Zenon
<1> HIDE DEF x, y
<1>2. ~(y <= -1)
  <2> SUFFICES ASSUME y <= -1 PROVE FALSE
    OBVIOUS
  <2>1. BoardSize * y <= BoardSize * (-1)
    BY <1>0, <1>1, TimesMonotone
  <2> QED BY <1>0, <1>1, <2>1
<1>3. ~(BoardSize <= y)
  <2> SUFFICES ASSUME BoardSize <= y PROVE FALSE
    OBVIOUS
  <2>1. BoardSize * BoardSize <= BoardSize * y
    BY <1>0, <1>1, TimesMonotone
  <2> QED BY <1>0, <1>1, <2>1
<1>4. y \in 0..(BoardSize - 1)
  BY <1>0, <1>1, <1>2, <1>3
<1> QED BY <1>0, <1>1, <1>4 DEF x, y

LEMMA OnBoard ==
  ASSUME NEW x \in 0..(BoardSize - 1), NEW y \in 0..(BoardSize - 1)
  PROVE  /\ BoardSize * y + x \in Squares
         /\ ((BoardSize * y + x) % BoardSize) = x
         /\ (BoardSize * y + x) \div BoardSize = y
<1>0. BoardSize \in Nat \ {0} /\ x \in Int /\ y \in Int
  BY GoAssumption
<1>1. BoardSize * y <= BoardSize * (BoardSize - 1) /\ BoardSize * 0 <= BoardSize * y
  BY <1>0, TimesMonotone
<1>2. BoardSize * (BoardSize - 1) = BoardSize * BoardSize - BoardSize /\ BoardSize * 0 = 0
  BY <1>0
<1>3. BoardSize * y \in Int /\ BoardSize * BoardSize \in Int
  BY <1>0
<1>4. BoardSize * y + x \in Squares
  BY <1>0, <1>1, <1>2, <1>3 DEF Squares
<1>5. ((BoardSize * y + x) % BoardSize) = x /\ (BoardSize * y + x) \div BoardSize = y
  BY <1>0, DivisionUnique, Zenon
<1> QED BY <1>4, <1>5

\* what is on the board next to the square at x and y
NextTo(x, y, t) == \/ x > 0 /\ t = BoardSize * y + (x - 1)
                   \/ x < BoardSize - 1 /\ t = BoardSize * y + (x + 1)
                   \/ y > 0 /\ t = BoardSize * (y - 1) + x
                   \/ y < BoardSize - 1 /\ t = BoardSize * (y + 1) + x

\* one of the four parts of a list of neighbours
Single(u, v, t) == IF u > v THEN <<t>> ELSE <<>>

LEMMA SingleFacts ==
  ASSUME NEW T, NEW u \in Int, NEW v \in Int, NEW t, u > v => t \in T
  PROVE  /\ Single(u, v, t) \in Seq(T)
         /\ Distinct(Single(u, v, t))
         /\ Len(Single(u, v, t)) \in 0..1
         /\ \A z : z \in On(Single(u, v, t)) <=> u > v /\ z = t
<1>1. CASE u > v
  <2>1. Single(u, v, t) = <<t>> /\ t \in T
    BY <1>1 DEF Single
  <2>2. <<t>> \in Seq(T) /\ DOMAIN <<t>> = 1..1 /\ <<t>>[1] = t /\ Len(<<t>>) = 1
    BY <2>1
  <2>3. Distinct(<<t>>)
    BY <2>2 DEF Distinct
  <2>4. \A z : z \in On(<<t>>) <=> z = t
    BY <2>2 DEF On
  <2> QED BY <1>1, <2>1, <2>2, <2>3, <2>4
<1>2. CASE ~(u > v)
  <2>1. Single(u, v, t) = <<>>
    BY <1>2 DEF Single
  <2>2. <<>> \in Seq(T) /\ DOMAIN <<>> = {} /\ Len(<<>>) = 0
    OBVIOUS
  <2>3. Distinct(<<>>)
    BY <2>2 DEF Distinct
  <2>4. \A z : z \notin On(<<>>)
    BY <2>2 DEF On
  <2> QED BY <1>2, <2>1, <2>2, <2>3, <2>4
<1> QED BY <1>1, <1>2

LEMMA NeighbourFacts ==
  ASSUME NEW s \in Squares
  PROVE  /\ Neighbours(s) \in Seq(Squares)
         /\ Distinct(Neighbours(s))
         /\ Len(Neighbours(s)) \in 0..4
         /\ \A t : t \in Around(s) <=> NextTo(s % BoardSize, s \div BoardSize, t)
<1> DEFINE x == s % BoardSize
           y == s \div BoardSize
           left == s - 1
           right == s + 1
           above == s - BoardSize
           below == s + BoardSize
           edge == BoardSize - 1
           l == Single(x, 0, left)
           r == Single(edge, x, right)
           a == Single(y, 0, above)
           b == Single(edge, y, below)
<1>0. /\ BoardSize \in Nat \ {0} /\ s \in Int
      /\ x \in 0..(BoardSize - 1) /\ y \in 0..(BoardSize - 1) /\ s = BoardSize * y + x
  BY GoAssumption, Coordinates
<1>1. Neighbours(s) = l \o r \o a \o b
  <2>1. /\ (x < BoardSize - 1) = (BoardSize - 1 > x)
        /\ (y < BoardSize - 1) = (BoardSize - 1 > y)
    BY <1>0
  <2> QED BY <2>1 DEF Neighbours, Single
<1>2. Around(s) = On(Neighbours(s))
  BY DEF Around, On
<1> HIDE DEF x, y
<1>i. edge \in Int /\ x \in Int /\ y \in Int /\ 0 \in Int
  BY <1>0
<1>3. BoardSize * (y - 1) = BoardSize * y - BoardSize /\ BoardSize * (y + 1) = BoardSize * y + BoardSize
      /\ BoardSize * y \in Int
  BY <1>0
<1>4. /\ s - 1 = BoardSize * y + (x - 1) /\ s + 1 = BoardSize * y + (x + 1)
      /\ s - BoardSize = BoardSize * (y - 1) + x /\ s + BoardSize = BoardSize * (y + 1) + x
  BY <1>0, <1>3
<1>5. /\ x > 0 => left \in Squares
      /\ edge > x => right \in Squares
      /\ y > 0 => above \in Squares
      /\ edge > y => below \in Squares
  <2>1. x > 0 => x - 1 \in 0..(BoardSize - 1)
    BY <1>0
  <2>2. BoardSize - 1 > x => x + 1 \in 0..(BoardSize - 1)
    BY <1>0
  <2>3. y > 0 => y - 1 \in 0..(BoardSize - 1)
    BY <1>0
  <2>4. BoardSize - 1 > y => y + 1 \in 0..(BoardSize - 1)
    BY <1>0
  <2> QED BY <1>0, <1>4, <2>1, <2>2, <2>3, <2>4, OnBoard, Zenon
<1>s. ASSUME NEW u \in Int, NEW v \in Int, NEW t, u > v => t \in Squares
      PROVE  /\ Single(u, v, t) \in Seq(Squares)
             /\ Distinct(Single(u, v, t))
             /\ Len(Single(u, v, t)) \in 0..1
             /\ \A z : z \in On(Single(u, v, t)) <=> u > v /\ z = t
  <2> HIDE DEF Squares
  <2> QED BY <1>s, SingleFacts
<1> HIDE DEF left, right, above, below, edge
<1>6. /\ l \in Seq(Squares) /\ Distinct(l) /\ Len(l) \in 0..1
      /\ \A z : z \in On(l) <=> x > 0 /\ z = left
  BY <1>i, <1>5, <1>s, Zenon
<1>7. /\ r \in Seq(Squares) /\ Distinct(r) /\ Len(r) \in 0..1
      /\ \A z : z \in On(r) <=> edge > x /\ z = right
  BY <1>i, <1>5, <1>s, Zenon
<1>8. /\ a \in Seq(Squares) /\ Distinct(a) /\ Len(a) \in 0..1
      /\ \A z : z \in On(a) <=> y > 0 /\ z = above
  BY <1>i, <1>5, <1>s, Zenon
<1>9. /\ b \in Seq(Squares) /\ Distinct(b) /\ Len(b) \in 0..1
      /\ \A z : z \in On(b) <=> edge > y /\ z = below
  BY <1>i, <1>5, <1>s, Zenon
<1> HIDE DEF l, r, a, b
<1> USE DEF left, right, above, below, edge
<1>10. l \o r \in Seq(Squares) /\ On(l \o r) = On(l) \union On(r) /\ Distinct(l \o r)
  <2>1. \A z \in On(l) : z \notin On(r)
    BY <1>0, <1>6, <1>7
  <2> QED BY <1>6, <1>7, <2>1, OnConcat, DistinctConcat
<1>11. (l \o r) \o a \in Seq(Squares) /\ On((l \o r) \o a) = On(l \o r) \union On(a) /\ Distinct((l \o r) \o a)
  <2>1. \A z \in On(l \o r) : z \notin On(a)
    BY <1>0, <1>6, <1>7, <1>8, <1>10
  <2>2. Distinct((l \o r) \o a)
    BY <1>8, <1>10, <2>1, DistinctConcat
  <2>3. (l \o r) \o a \in Seq(Squares) /\ On((l \o r) \o a) = On(l \o r) \union On(a)
    <3>1. PICK m : m = l \o r
      OBVIOUS
    <3>2. m \in Seq(Squares) /\ a \in Seq(Squares)
      BY <1>8, <1>10, <3>1
    <3>3. m \o a \in Seq(Squares) /\ On(m \o a) = On(m) \union On(a)
      BY ONLY <3>2, OnConcat
    <3> QED BY <3>1, <3>3, Zenon
  <2> QED BY <2>2, <2>3
<1>12. /\ ((l \o r) \o a) \o b \in Seq(Squares) /\ Distinct(((l \o r) \o a) \o b)
       /\ On(((l \o r) \o a) \o b) = On((l \o r) \o a) \union On(b)
  <2>1. \A z \in On((l \o r) \o a) : z \notin On(b)
    BY <1>0, <1>6, <1>7, <1>8, <1>9, <1>10, <1>11
  <2>2. Distinct(((l \o r) \o a) \o b)
    BY <1>9, <1>11, <2>1, DistinctConcat
  <2>3. ((l \o r) \o a) \o b \in Seq(Squares) /\ On(((l \o r) \o a) \o b) = On((l \o r) \o a) \union On(b)
    <3>1. PICK m : m = (l \o r) \o a
      OBVIOUS
    <3>2. m \in Seq(Squares) /\ b \in Seq(Squares)
      BY <1>9, <1>11, <3>1
    <3>3. m \o b \in Seq(Squares) /\ On(m \o b) = On(m) \union On(b)
      BY ONLY <3>2, OnConcat
    <3> QED BY <3>1, <3>3, Zenon
  <2> QED BY <2>2, <2>3
<1>13. Len(l \o r \o a \o b) = Len(l) + Len(r) + Len(a) + Len(b)
  <2>1. Len(l \o r) = Len(l) + Len(r)
    BY <1>6, <1>7, ConcatProperties
  <2>2. Len((l \o r) \o a) = Len(l \o r) + Len(a)
    BY <1>8, <1>10, ConcatProperties
  <2>3. Len(((l \o r) \o a) \o b) = Len((l \o r) \o a) + Len(b)
    BY <1>9, <1>11, ConcatProperties
  <2> QED BY <2>1, <2>2, <2>3
<1>14. \A t : t \in Around(s) <=> NextTo(x, y, t)
  <2>1. \A t : t \in Around(s) <=> t \in On(l) \/ t \in On(r) \/ t \in On(a) \/ t \in On(b)
    BY <1>1, <1>2, <1>10, <1>11, <1>12
  <2> QED BY <2>1, <1>0, <1>4, <1>6, <1>7, <1>8, <1>9 DEF NextTo
<1>15. Len(Neighbours(s)) \in 0..4
  <2>1. Len(l) \in 0..1 /\ Len(r) \in 0..1 /\ Len(a) \in 0..1 /\ Len(b) \in 0..1
    BY <1>6, <1>7, <1>8, <1>9, Zenon
  <2>2. \A i, j, k, m \in 0..1 : i + j + k + m \in 0..4
    BY ONLY TRUE
  <2>3. Len(l) + Len(r) + Len(a) + Len(b) \in 0..4
    BY ONLY <2>1, <2>2, Zenon
  <2> QED BY ONLY <1>1, <1>13, <2>3
<1> QED BY <1>1, <1>12, <1>14, <1>15 DEF x, y

(* Neighbours are of each other, and never of themselves. *)
LEMMA AroundFacts ==
  ASSUME NEW s \in Squares, NEW t \in Around(s)
  PROVE  t \in Squares /\ t # s /\ s \in Around(t)
<1> DEFINE x == s % BoardSize
           y == s \div BoardSize
<1>0. /\ BoardSize \in Nat \ {0} /\ s \in Int
      /\ x \in 0..(BoardSize - 1) /\ y \in 0..(BoardSize - 1) /\ s = BoardSize * y + x
  BY GoAssumption, Coordinates
<1>1. NextTo(x, y, t)
  BY NeighbourFacts
<1> HIDE DEF x, y
<1>2. ASSUME NEW u \in 0..(BoardSize - 1), NEW v \in 0..(BoardSize - 1),
             t = BoardSize * v + u, NextTo(u, v, s)
      PROVE  t \in Squares /\ s \in Around(t)
  <2>1. t \in Squares /\ (t % BoardSize) = u /\ t \div BoardSize = v
    BY <1>2, OnBoard, Zenon
  <2> QED BY <1>2, <2>1, NeighbourFacts, Zenon
<1>3. CASE x > 0 /\ t = BoardSize * y + (x - 1)
  <2>1. x - 1 \in 0..(BoardSize - 1) /\ x - 1 < BoardSize - 1 /\ (x - 1) + 1 = x
    BY <1>0, <1>3
  <2>2. NextTo(x - 1, y, s)
    BY <1>0, <2>1, Zenon DEF NextTo
  <2>3. t # s
    BY <1>0, <1>3
  <2> QED BY <1>0, <1>2, <1>3, <2>1, <2>2, <2>3
<1>4. CASE x < BoardSize - 1 /\ t = BoardSize * y + (x + 1)
  <2>1. x + 1 \in 0..(BoardSize - 1) /\ x + 1 > 0 /\ (x + 1) - 1 = x
    BY <1>0, <1>4
  <2>2. NextTo(x + 1, y, s)
    BY <1>0, <2>1, Zenon DEF NextTo
  <2>3. t # s
    BY <1>0, <1>4
  <2> QED BY <1>0, <1>2, <1>4, <2>1, <2>2, <2>3
<1>d. BoardSize * (y - 1) = BoardSize * y - BoardSize /\ BoardSize * (y + 1) = BoardSize * y + BoardSize
      /\ BoardSize * y \in Int
  BY <1>0
<1>5. CASE y > 0 /\ t = BoardSize * (y - 1) + x
  <2>1. y - 1 \in 0..(BoardSize - 1) /\ y - 1 < BoardSize - 1 /\ (y - 1) + 1 = y
    BY <1>0, <1>5
  <2>2. NextTo(x, y - 1, s)
    BY <1>0, <2>1, Zenon DEF NextTo
  <2>3. t # s
    BY <1>0, <1>5, <1>d
  <2> QED BY <1>0, <1>2, <1>5, <2>1, <2>2, <2>3
<1>6. CASE y < BoardSize - 1 /\ t = BoardSize * (y + 1) + x
  <2>1. y + 1 \in 0..(BoardSize - 1) /\ y + 1 > 0 /\ (y + 1) - 1 = y
    BY <1>0, <1>6
  <2>2. NextTo(x, y + 1, s)
    BY <1>0, <2>1, Zenon DEF NextTo
  <2>3. t # s
    BY <1>0, <1>6, <1>d
  <2> QED BY <1>0, <1>2, <1>6, <2>1, <2>2, <2>3
<1> QED BY <1>1, <1>3, <1>4, <1>5, <1>6 DEF NextTo

LEMMA EdgeFacts ==
  ASSUME NEW s \in Squares
  PROVE  /\ Edges(s) \in Seq(Squares \X Squares)
         /\ Distinct(Edges(s))
         /\ Len(Edges(s)) \in 0..4
         /\ \A d : d \in On(Edges(s)) <=> \E n \in Around(s) : d = <<s, n>>
<1>0. Neighbours(s) \in Seq(Squares) /\ Distinct(Neighbours(s)) /\ Len(Neighbours(s)) \in 0..4
  BY NeighbourFacts
<1>1. /\ DOMAIN Neighbours(s) = 1..Len(Neighbours(s)) /\ Len(Neighbours(s)) \in Nat
      /\ \A i \in DOMAIN Neighbours(s) : Neighbours(s)[i] \in Squares
  BY <1>0, LenProperties, ElementOfSeq
<1>2. /\ DOMAIN Edges(s) = DOMAIN Neighbours(s)
      /\ \A i \in DOMAIN Neighbours(s) : Edges(s)[i] = <<s, Neighbours(s)[i]>>
  BY DEF Edges
<1> HIDE DEF Squares
<1>3. Edges(s) \in Seq(Squares \X Squares) /\ Len(Edges(s)) = Len(Neighbours(s))
  <2>1. Edges(s) \in [1..Len(Neighbours(s)) -> Squares \X Squares]
    BY <1>1 DEF Edges
  <2>2. Edges(s) \in Seq(Squares \X Squares)
    BY <1>1, <2>1, IsASeq
  <2>3. DOMAIN Edges(s) = 1..Len(Edges(s)) /\ Len(Edges(s)) \in Nat
    BY <2>2, LenProperties
  <2> QED BY <1>1, <1>2, <2>2, <2>3
<1>4. Distinct(Edges(s))
  BY <1>0, <1>2 DEF Distinct
<1>5. \A d : d \in On(Edges(s)) <=> \E n \in Around(s) : d = <<s, n>>
  BY <1>2 DEF On, Around
<1> QED BY <1>0, <1>3, <1>4, <1>5

-----------------------------------------------------------------------------
(* A loop that goes on with N[a] unless it stops at a, with result O[a].   *)
Loop(f, A, S, N, O) == f = [a \in A |-> IF a \in S THEN O[a] ELSE f[N[a]]]

\* a relation with every state and the one where the loop from it stops
LeadsTo(G, A, S, N) ==
  \A a \in A : IF a \in S THEN <<a, a>> \in G
               ELSE \A z \in A : <<N[a], z>> \in G => <<a, z>> \in G

\* the least of them, by state
StopsAt(a, A, S, N) ==
  {z \in A : \A G \in SUBSET (A \X A) : LeadsTo(G, A, S, N) => <<a, z>> \in G}

(* There is a function that such a loop defines. *)
LEMMA LoopExists ==
  ASSUME NEW A, NEW S, NEW N \in [A -> A], NEW O
  PROVE  \E f : Loop(f, A, S, N, O)
<1> DEFINE L == {d \in A \X A : d[2] \in StopsAt(d[1], A, S, N)}
<1>1. ASSUME NEW a \in A, NEW z \in A, z \in StopsAt(a, A, S, N),
             NEW G \in SUBSET (A \X A), LeadsTo(G, A, S, N)
      PROVE  <<a, z>> \in G
  BY <1>1, Zenon DEF StopsAt
<1>2. LeadsTo(L, A, S, N)
  <2>1. ASSUME NEW a \in A, a \in S PROVE <<a, a>> \in L
    <3>1. a \in StopsAt(a, A, S, N)
      BY <2>1, Zenon DEF StopsAt, LeadsTo
    <3> QED BY <3>1
  <2>2. ASSUME NEW a \in A, a \notin S, NEW z \in A, <<N[a], z>> \in L PROVE <<a, z>> \in L
    <3>1. z \in StopsAt(N[a], A, S, N) /\ N[a] \in A
      BY <2>2
    <3>2. ASSUME NEW G \in SUBSET (A \X A), LeadsTo(G, A, S, N) PROVE <<a, z>> \in G
      <4>1. <<N[a], z>> \in G
        BY <3>1, <3>2, <1>1
      <4> QED BY <2>2, <3>2, <4>1, Zenon DEF LeadsTo
    <3>3. z \in StopsAt(a, A, S, N)
      BY <3>2, Zenon DEF StopsAt
    <3> QED BY <3>3
  <2> HIDE DEF L
  <2> QED BY <2>1, <2>2, Zenon DEF LeadsTo
<1>3. ASSUME NEW a \in A, NEW z \in StopsAt(a, A, S, N), ~(a \in S /\ z = a),
             a \notin S => z \notin StopsAt(N[a], A, S, N)
      PROVE  FALSE
  <2> DEFINE G == L \ {<<a, z>>}
  <2>1. z \in A
    BY Zenon DEF StopsAt
  <2>2. LeadsTo(G, A, S, N)
    <3>1. ASSUME NEW b \in A, b \in S PROVE <<b, b>> \in G
      <4>1. <<b, b>> \in L
        BY <1>2, <3>1, Zenon DEF LeadsTo
      <4> QED BY <4>1, <1>3, <3>1
    <3>2. ASSUME NEW b \in A, b \notin S, NEW y \in A, <<N[b], y>> \in G PROVE <<b, y>> \in G
      <4>1. <<N[b], y>> \in L
        BY <3>2
      <4>2. <<b, y>> \in L
        BY <1>2, <3>2, <4>1, Zenon DEF LeadsTo
      <4>3. y \in StopsAt(N[b], A, S, N)
        BY <4>1
      <4> QED BY <4>2, <4>3, <1>3, <3>2
    <3> HIDE DEF G
    <3> QED BY <3>1, <3>2, Zenon DEF LeadsTo
  <2>3. <<a, z>> \in G
    BY <1>1, <2>1, <2>2
  <2> QED BY <2>3
<1> DEFINE f == [a \in A |-> O[CHOOSE z : z \in StopsAt(a, A, S, N)]]
<1>4. ASSUME NEW a \in A, a \in S PROVE f[a] = O[a]
  <2>1. StopsAt(a, A, S, N) = {a}
    <3>1. a \in StopsAt(a, A, S, N)
      BY <1>4, Zenon DEF StopsAt, LeadsTo
    <3>2. \A z \in StopsAt(a, A, S, N) : z = a
      BY <1>3, <1>4
    <3> QED BY <3>1, <3>2
  <2>2. (CHOOSE z : z \in {a}) = a
    OBVIOUS
  <2> QED BY <2>1, <2>2
<1>5. ASSUME NEW a \in A, a \notin S PROVE f[a] = f[N[a]]
  <2>1. \A z \in StopsAt(a, A, S, N) : z \in StopsAt(N[a], A, S, N)
    BY <1>3, <1>5
  <2>2. \A z \in StopsAt(N[a], A, S, N) : z \in StopsAt(a, A, S, N)
    <3> SUFFICES ASSUME NEW z \in StopsAt(N[a], A, S, N) PROVE z \in StopsAt(a, A, S, N)
      OBVIOUS
    <3>0. z \in A /\ N[a] \in A
      BY Zenon DEF StopsAt
    <3>1. <<N[a], z>> \in L
      BY <3>0
    <3>2. <<a, z>> \in L
      BY <1>2, <1>5, <3>0, <3>1, Zenon DEF LeadsTo
    <3> QED BY <3>2
  <2>3. StopsAt(a, A, S, N) = StopsAt(N[a], A, S, N)
    BY <2>1, <2>2
  <2> QED BY <2>3
<1>6. f = [a \in A |-> f[a]]
  OBVIOUS
<1> HIDE DEF f
<1>7. Loop(f, A, S, N, O)
  BY <1>4, <1>5, <1>6 DEF Loop
<1> QED BY <1>7

(* A loop whose steps lower a measure and keep in I stops there. *)
LEMMA LoopStops ==
  ASSUME NEW A, NEW S, NEW N \in [A -> A], NEW O, NEW f, Loop(f, A, S, N, O),
         NEW M \in [A -> Nat], \A a \in A : a \notin S => M[N[a]] < M[a],
         NEW I \in SUBSET A, \A a \in I : a \notin S => N[a] \in I
  PROVE  \A a \in I : \E z \in I : z \in S /\ f[a] = O[z]
<1> DEFINE Good == {k \in Nat : \A a \in I : M[a] <= k => \E z \in I : z \in S /\ f[a] = O[z]}
<1>0. \A a \in A : f[a] = IF a \in S THEN O[a] ELSE f[N[a]]
  BY DEF Loop
<1>1. 0 \in Good
  <2> SUFFICES ASSUME NEW a \in I, M[a] <= 0
               PROVE  \E z \in I : z \in S /\ f[a] = O[z]
    OBVIOUS
  <2>1. a \in S
    OBVIOUS
  <2> QED BY <1>0, <2>1
<1>2. ASSUME NEW k \in Nat \ {0}, k - 1 \in Good PROVE k \in Good
  <2> SUFFICES ASSUME NEW a \in I, M[a] <= k
               PROVE  \E z \in I : z \in S /\ f[a] = O[z]
    OBVIOUS
  <2>1. CASE a \in S
    BY <1>0, <2>1
  <2>2. CASE a \notin S
    <3>1. N[a] \in I /\ M[N[a]] <= k - 1 /\ f[a] = f[N[a]]
      BY <1>0, <2>2
    <3> QED BY <1>2, <3>1
  <2> QED BY <2>1, <2>2
<1> SUFFICES ASSUME NEW a \in I PROVE \E z \in I : z \in S /\ f[a] = O[z]
  OBVIOUS
<1>3. PICK n \in Nat : n = M[a]
  OBVIOUS
<1> HIDE DEF Good
<1>4. \A i \in 1..n : i - 1 \in Good => i \in Good
  BY <1>2
<1>5. \A i \in 0..n : i \in Good
  BY <1>1, <1>4, Upto
<1> QED BY <1>3, <1>5 DEF Good

-----------------------------------------------------------------------------
(* The references. *)

\* f is the chain of the references g from s on, up to the n-th
ChainUpTo(f, g, s, n) == f = [k \in 0..n |-> IF k = 0 THEN s ELSE g[f[k - 1]]]

LEMMA SquaresFinite == /\ IsFiniteSet(Squares) /\ Cardinality(Squares) \in Nat
                       /\ Squares \subseteq Nat
<1>1. BoardSize * BoardSize - 1 \in Int
  BY GoAssumption
<1>2. IsFiniteSet(Squares)
  BY <1>1, FS_Interval DEF Squares
<1> QED BY <1>2, FS_CardinalityType DEF Squares

LEMMA ChainExists ==
  ASSUME NEW g, NEW s, NEW n \in Nat
  PROVE  \E f : ChainUpTo(f, g, s, n)
<1> DEFINE Good == {k \in 0..n : \E f : ChainUpTo(f, g, s, k)}
<1>1. 0 \in Good
  <2>1. ChainUpTo([k \in 0..0 |-> s], g, s, 0)
    BY DEF ChainUpTo
  <2> QED BY <2>1
<1>2. ASSUME NEW m \in 1..n, m - 1 \in Good PROVE m \in Good
  <2>1. PICK f : ChainUpTo(f, g, s, m - 1)
    BY <1>2
  <2>2. \A k \in 0..(m - 1) : f[k] = IF k = 0 THEN s ELSE g[f[k - 1]]
    BY <2>1, Zenon DEF ChainUpTo
  <2> DEFINE h == [k \in 0..m |-> IF k = m THEN g[f[m - 1]] ELSE f[k]]
  <2>3. (\A k \in 0..(m - 1) : h[k] = f[k]) /\ h[m] = g[f[m - 1]]
    OBVIOUS
  <2>4. h = [k \in 0..m |-> h[k]]
    OBVIOUS
  <2> HIDE DEF h
  <2>5. ASSUME NEW k \in 0..m
        PROVE  h[k] = IF k = 0 THEN s ELSE g[h[k - 1]]
    <3>1. CASE k = m
      <4>1. k # 0 /\ m - 1 \in 0..(m - 1)
        BY <3>1
      <4> QED BY <2>3, <3>1, <4>1
    <3>2. CASE k # m
      <4>1. k \in 0..(m - 1)
        BY <3>2
      <4>2. k # 0 => k - 1 \in 0..(m - 1)
        BY <4>1
      <4> QED BY <2>2, <2>3, <4>1, <4>2
    <3> QED BY <3>1, <3>2
  <2>6. ChainUpTo(h, g, s, m)
    BY <2>4, <2>5, Zenon DEF ChainUpTo
  <2> QED BY <2>6
<1> HIDE DEF Good
<1>3. \A i \in 0..n : i \in Good
  BY <1>1, <1>2, Upto
<1> QED BY <1>3 DEF Good

LEMMA ChainFacts ==
  ASSUME NEW b, b.reference \in [Squares -> Squares], NEW s \in Squares,
         NEW n \in Nat, n = Cardinality(Squares)
  PROVE  /\ FindChain(b, s)[0] = s
         /\ \A k \in 1..n : FindChain(b, s)[k] = b.reference[FindChain(b, s)[k - 1]]
         /\ \A k \in 0..n : FindChain(b, s)[k] \in Squares
<1>1. ChainUpTo(CHOOSE f : ChainUpTo(f, b.reference, s, n), b.reference, s, n)
  BY ChainExists, Zenon
<1>2. ChainUpTo(FindChain(b, s), b.reference, s, n)
  BY <1>1, Zenon DEF FindChain, ChainUpTo
<1> DEFINE c == FindChain(b, s)
<1> HIDE DEF c
<1>3. \A k \in 0..n : c[k] = IF k = 0 THEN s ELSE b.reference[c[k - 1]]
  BY <1>2, Zenon DEF ChainUpTo, c
<1>4. c[0] = s /\ \A k \in 1..n : c[k] = b.reference[c[k - 1]]
  BY <1>3
<1> DEFINE Good == {k \in 0..n : c[k] \in Squares}
<1> HIDE DEF Squares
<1>5. 0 \in Good
  BY <1>4
<1>6. \A k \in 1..n : k - 1 \in Good => k \in Good
  BY <1>4
<1> HIDE DEF Good
<1>7. \A k \in 0..n : k \in Good
  BY <1>5, <1>6, Upto
<1> QED BY <1>4, <1>7 DEF Good, c

(* R is the last of the chain of references f from a square on; K falls    *)
(* along a chain.                                                          *)
Rooted(f, R, K) ==
  /\ f \in [Squares -> Squares] /\ R \in [Squares -> Squares] /\ K \in [Squares -> Nat]
  /\ \A t \in Squares : /\ R[f[t]] = R[t] /\ R[R[t]] = R[t]
                        /\ IF R[t] = t THEN f[t] = t
                           ELSE f[t] # t /\ K[f[t]] < K[t] /\ K[R[t]] < K[t]

LEMMA FindRefIsRoot ==
  ASSUME NEW b \in GoBoards, NEW R, NEW K, Rooted(b.reference, R, K), NEW s \in Squares
  PROVE  FindRef(b, s) = R[s] /\ \A t \in RefChain(b, s) : t \in Squares /\ R[t] = R[s]
<1> DEFINE c == FindChain(b, s)
<1>0. PICK n \in Nat : n = Cardinality(Squares)
  BY SquaresFinite
<1>1. /\ c[0] = s /\ \A k \in 1..n : c[k] = b.reference[c[k - 1]]
      /\ \A k \in 0..n : c[k] \in Squares
  <2>1. b.reference \in [Squares -> Squares]
    BY DEF Rooted
  <2> QED BY <1>0, <2>1, ChainFacts
<1> HIDE DEF c, Squares
<1> DEFINE Good == {k \in 0..n : /\ R[c[k]] = R[s]
                                 /\ c[k] # R[s] => \A j \in 0..k : /\ j # k => K[c[k]] < K[c[j]]
                                                                   /\ c[j] # R[s]}
<1>2. 0 \in Good
  BY <1>1
<1>3. ASSUME NEW k \in 1..n, k - 1 \in Good PROVE k \in Good
  <2>1. /\ k - 1 \in 0..n /\ c[k - 1] \in Squares /\ c[k] = b.reference[c[k - 1]] /\ c[k] \in Squares
    BY <1>1
  <2>2. R[c[k]] = R[s]
    BY <2>1, <1>3 DEF Rooted
  <2>3. ASSUME c[k] # R[s], NEW j \in 0..k
        PROVE  (j # k => K[c[k]] < K[c[j]]) /\ c[j] # R[s]
    <3>1. R[c[k - 1]] = R[s] /\ R[R[s]] = R[s] /\ R[s] \in Squares
      BY <1>3, <2>1 DEF Rooted
    <3>2. c[k - 1] # R[s]
      BY <2>1, <2>3, <3>1 DEF Rooted
    <3>3. K[c[k]] < K[c[k - 1]]
      BY <2>1, <3>1, <3>2 DEF Rooted
    <3>4. CASE j = k
      BY <2>3, <3>4
    <3>5. CASE j = k - 1
      BY <3>2, <3>3, <3>5
    <3>6. CASE j # k /\ j # k - 1
      <4>1. j \in 0..(k - 1) /\ j \in 0..n
        BY <3>6
      <4>2. K[c[k - 1]] < K[c[j]] /\ c[j] # R[s]
        BY <1>3, <3>2, <3>6, <4>1
      <4>3. K[c[k]] \in Nat /\ K[c[k - 1]] \in Nat /\ K[c[j]] \in Nat
        BY <1>1, <2>1, <4>1 DEF Rooted
      <4> QED BY <3>3, <4>2, <4>3
    <3> QED BY <3>4, <3>5, <3>6
  <2> QED BY <2>2, <2>3
<1> HIDE DEF Good
<1>4. \A k \in 0..n : k \in Good
  BY <1>2, <1>3, Upto
<1>5. \A k \in 0..n : c[k] \in Squares /\ R[c[k]] = R[s]
  BY <1>1, <1>4 DEF Good
<1>6. c[n] = R[s]
  <2> SUFFICES ASSUME c[n] # R[s] PROVE FALSE
    OBVIOUS
  <2>1. \A i \in 0..n : c[i] # R[s]
    <3>1. n \in Good
      BY <1>4
    <3> QED BY <3>1 DEF Good
  <2>2. \A i, j \in 0..n : j < i => K[c[i]] < K[c[j]]
    <3> SUFFICES ASSUME NEW i \in 0..n, NEW j \in 0..n, j < i PROVE K[c[i]] < K[c[j]]
      OBVIOUS
    <3>1. i \in Good /\ c[i] # R[s] /\ j \in 0..i /\ j # i
      BY <1>4, <2>1
    <3> QED BY <3>1 DEF Good
  <2>3. \A i \in 0..n : K[c[i]] \in Nat
    BY <1>1 DEF Rooted
  <2>4. \A i, j \in 0..n : i # j => c[i] # c[j]
    <3>1. \A i, j \in 0..n : j < i => c[i] # c[j]
      BY <2>2, <2>3
    <3> QED BY <3>1
  <2> DEFINE f == [i \in 0..n |-> c[i]]
  <2>5. f \in [0..n -> Squares]
    BY <1>1
  <2>6. IsFiniteSet(0..n) /\ Cardinality(0..n) = n + 1
    BY FS_Interval
  <2>7. \E i, j \in 0..n : i # j /\ f[i] = f[j]
    <3>1. Cardinality(Squares) < Cardinality(0..n)
      BY <1>0, <2>6
    <3> HIDE DEF f
    <3> QED BY <2>5, <2>6, <3>1, SquaresFinite, FS_PigeonHole
  <2> QED BY <2>4, <2>7
<1>7. FindRef(b, s) = R[s]
  BY <1>0, <1>6 DEF FindRef, c
<1>8. \A t \in RefChain(b, s) : \E k \in 0..n : t = c[k]
  BY <1>0 DEF RefChain, c
<1> QED BY <1>5, <1>7, <1>8

\* R and K are the roots and the ranks of a board, that find() finds
Ranked(b, R, K) == b \in GoBoards /\ Rooted(b.reference, R, K)
Finds(b, R) == \A s \in Squares : FindRef(b, s) = R[s]

LEMMA RankedFinds ==
  ASSUME NEW b, NEW R, NEW K, Ranked(b, R, K)
  PROVE  Finds(b, R)
<1> HIDE DEF Squares
<1> SUFFICES ASSUME NEW s \in Squares PROVE FindRef(b, s) = R[s]
  BY DEF Finds
<1>1. b \in GoBoards /\ Rooted(b.reference, R, K)
  BY DEF Ranked
<1> QED BY <1>1, FindRefIsRoot

(* find() with update keeps the roots. *)
LEMMA CompressedFacts ==
  ASSUME NEW b \in GoBoards, NEW R, NEW K, Rooted(b.reference, R, K), NEW s \in Squares
  PROVE  LET c == Compressed(b, s)
         IN  /\ c \in GoBoards /\ Rooted(c.reference, R, K)
             /\ c.color = b.color /\ c.ledges = b.ledges /\ c.used = b.used
             /\ c.empties = b.empties /\ c.place = b.place
<1> DEFINE c == Compressed(b, s)
           g == [t \in Squares |-> IF t \in RefChain(b, s) THEN FindRef(b, s) ELSE b.reference[t]]
<1> HIDE DEF Squares
<1>1. FindRef(b, s) = R[s] /\ \A t \in RefChain(b, s) : t \in Squares /\ R[t] = R[s]
  BY FindRefIsRoot
<1>2. c = [b EXCEPT !.reference = g]
  BY DEF Compressed
<1>3. g \in [Squares -> Squares]
  BY <1>1 DEF Rooted
<1>4. ASSUME NEW t \in Squares
      PROVE  g[t] = b.reference[t] \/ g[t] = R[t]
  BY <1>1
<1> HIDE DEF g
<1>5. /\ c \in GoBoards /\ c.reference = g
      /\ c.color = b.color /\ c.ledges = b.ledges /\ c.used = b.used
      /\ c.empties = b.empties /\ c.place = b.place
  BY <1>2, <1>3 DEF GoBoards
<1>6. Rooted(g, R, K)
  BY <1>3, <1>4 DEF Rooted
<1> QED BY <1>5, <1>6

\* c differs from b in references
OnlyReferences(c, b) == /\ c.color = b.color /\ c.ledges = b.ledges /\ c.used = b.used
                        /\ c.empties = b.empties /\ c.place = b.place

LEMMA RankedCompressed ==
  ASSUME NEW b, NEW R, NEW K, Ranked(b, R, K), NEW s \in Squares
  PROVE  Ranked(Compressed(b, s), R, K) /\ OnlyReferences(Compressed(b, s), b)
<1> HIDE DEF Squares
<1>1. b \in GoBoards /\ Rooted(b.reference, R, K)
  BY DEF Ranked
<1> QED BY <1>1, CompressedFacts DEF Ranked, OnlyReferences

-----------------------------------------------------------------------------
(* The list of empty squares has those of Z, each where its place says.    *)
Listed(b, Z) ==
  /\ \A i \in DOMAIN b.empties : b.empties[i] \in Z /\ b.place[b.empties[i]] = i
  /\ \A t \in Z : b.place[t] \in DOMAIN b.empties /\ b.empties[b.place[t]] = t

LEMMA GoneFacts ==
  ASSUME NEW b \in GoBoards, NEW s \in Squares
  PROVE  LET g == Gone(b, s)
         IN  /\ g \in GoBoards
             /\ g.reference = b.reference /\ g.ledges = b.ledges /\ g.used = b.used
             /\ g.color = [b.color EXCEPT ![s] = EMPTY_SQUARE]
             /\ \A Z \in SUBSET Squares : Listed(b, Z) /\ s \notin Z => Listed(g, Z \union {s})
<1> HIDE DEF Squares
<1> DEFINE g == Gone(b, s)
           e == Append(b.empties, s)
           p == [b.place EXCEPT ![s] = Len(b.empties) + 1]
           k == [b.color EXCEPT ![s] = EMPTY_SQUARE]
<1>1. g = [b EXCEPT !.color = k, !.empties = e, !.place = p]
  BY DEF Gone, AddEmpty, GoBoards
<1>2. /\ b.empties \in Seq(Squares) /\ b.place \in [Squares -> Nat]
      /\ b.color \in [Squares -> Stones \union {EMPTY_SQUARE}]
  BY DEF GoBoards
<1>3. /\ e \in Seq(Squares) /\ Len(b.empties) \in Nat /\ Len(e) = Len(b.empties) + 1
      /\ DOMAIN b.empties = 1..Len(b.empties) /\ DOMAIN e = 1..(Len(b.empties) + 1)
      /\ \A i \in 1..Len(b.empties) : e[i] = b.empties[i]
      /\ e[Len(b.empties) + 1] = s
  BY <1>2, AppendProperties, LenProperties
<1>4. p \in [Squares -> Nat] /\ k \in [Squares -> Stones \union {EMPTY_SQUARE}]
  BY <1>2, <1>3
<1>5. p[s] = Len(b.empties) + 1 /\ \A t \in Squares : t # s => p[t] = b.place[t]
  BY <1>2
<1> HIDE DEF e, p
<1>6. /\ g \in GoBoards /\ g.empties = e /\ g.place = p
      /\ g.reference = b.reference /\ g.ledges = b.ledges /\ g.used = b.used
      /\ g.color = k
  <2> HIDE DEF k
  <2> QED BY <1>1, <1>3, <1>4 DEF GoBoards
<1>7. ASSUME NEW Z \in SUBSET Squares, Listed(b, Z), s \notin Z
      PROVE  Listed(g, Z \union {s})
  <2>1. ASSUME NEW i \in DOMAIN e PROVE e[i] \in Z \union {s} /\ p[e[i]] = i
    <3>1. CASE i = Len(b.empties) + 1
      BY <1>3, <1>5, <3>1
    <3>2. CASE i # Len(b.empties) + 1
      <4>1. i \in DOMAIN b.empties /\ e[i] = b.empties[i]
        BY <1>3, <3>2
      <4>2. b.empties[i] \in Z /\ b.place[b.empties[i]] = i
        BY <1>7, <4>1 DEF Listed
      <4> QED BY <1>5, <1>7, <4>1, <4>2
    <3> QED BY <3>1, <3>2
  <2>2. ASSUME NEW t \in Z \union {s} PROVE p[t] \in DOMAIN e /\ e[p[t]] = t
    <3>1. CASE t = s
      BY <1>3, <1>5, <3>1
    <3>2. CASE t # s
      <4>1. b.place[t] \in DOMAIN b.empties /\ b.empties[b.place[t]] = t
        BY <1>7, <3>2 DEF Listed
      <4> QED BY <1>3, <1>5, <3>2, <4>1
    <3> QED BY <3>1, <3>2
  <2> QED BY <1>6, <2>1, <2>2 DEF Listed
<1> HIDE DEF g, k
<1> QED BY <1>6, <1>7 DEF g, k

LEMMA LedgeFacts ==
  ASSUME NEW b \in GoBoards, NEW r \in Squares, NEW v \in Int
  PROVE  LET c == [b EXCEPT !.ledges[r] = v]
         IN  /\ c \in GoBoards
             /\ c.ledges = [b.ledges EXCEPT ![r] = v]
             /\ c.color = b.color /\ c.reference = b.reference /\ c.used = b.used
             /\ c.empties = b.empties /\ c.place = b.place
<1> HIDE DEF Squares
<1> DEFINE l == [b.ledges EXCEPT ![r] = v]
<1>1. l \in [Squares -> Int]
  BY DEF GoBoards
<1>2. [b EXCEPT !.ledges[r] = v] = [b EXCEPT !.ledges = l]
  BY DEF GoBoards
<1> HIDE DEF l
<1>3. LET c == [b EXCEPT !.ledges = l]
      IN  /\ c \in GoBoards /\ c.ledges = l
          /\ c.color = b.color /\ c.reference = b.reference /\ c.used = b.used
          /\ c.empties = b.empties /\ c.place = b.place
  BY <1>1 DEF GoBoards
<1> QED BY <1>2, <1>3 DEF l

LEMMA FindRefType ==
  ASSUME NEW b, b.reference \in [Squares -> Squares], NEW s \in Squares
  PROVE  FindRef(b, s) \in Squares
<1>0. PICK n \in Nat : n = Cardinality(Squares)
  BY SquaresFinite
<1> HIDE DEF Squares
<1>1. n \in 0..n
  OBVIOUS
<1> QED BY <1>0, <1>1, ChainFacts DEF FindRef

LEMMA CompressedType ==
  ASSUME NEW b \in GoBoards, NEW s \in Squares
  PROVE  LET c == Compressed(b, s)
         IN  /\ c \in GoBoards
             /\ c.color = b.color /\ c.ledges = b.ledges /\ c.used = b.used
             /\ c.empties = b.empties /\ c.place = b.place
<1> DEFINE c == Compressed(b, s)
           g == [t \in Squares |-> IF t \in RefChain(b, s) THEN FindRef(b, s) ELSE b.reference[t]]
<1> HIDE DEF Squares
<1>1. FindRef(b, s) \in Squares /\ b.reference \in [Squares -> Squares]
  <2>1. b.reference \in [Squares -> Squares]
    BY DEF GoBoards
  <2> QED BY <2>1, FindRefType
<1>2. c = [b EXCEPT !.reference = g]
  BY DEF Compressed
<1>3. g \in [Squares -> Squares]
  BY <1>1
<1> HIDE DEF g
<1> QED BY <1>2, <1>3 DEF GoBoards

-----------------------------------------------------------------------------
(* Square.remove *)

\* how many stones are on a board
StonesOn(b) == Cardinality({t \in Squares : b.color[t] # EMPTY_SQUARE})

LEMMA StonesFinite ==
  ASSUME NEW b
  PROVE  IsFiniteSet({t \in Squares : b.color[t] # EMPTY_SQUARE}) /\ StonesOn(b) \in Nat
<1> HIDE DEF Squares
<1>1. IsFiniteSet({t \in Squares : b.color[t] # EMPTY_SQUARE})
  BY SquaresFinite, FS_Subset
<1> QED BY <1>1, FS_CardinalityType DEF StonesOn

\* what is left to do: every stone has at most four neighbours
ToDo(a) == 5 * StonesOn(a.board) + Len(a.agenda)

LEMMA RemoveNextCases ==
  ASSUME NEW a \in Agendas, a.agenda # <<>>, NEW ref
  PROVE  LET n == Head(a.agenda)[2]
             c == Compressed(a.board, n)
             z == RemoveNext(a, ref)
         IN  /\ n \in Squares /\ FindRef(a.board, n) \in Squares
             /\ Head(a.agenda) \in Squares \X Squares /\ Tail(a.agenda) \in Seq(Squares \X Squares)
             /\ a.board \in GoBoards /\ z \in Agendas
             /\ \/ /\ a.board.color[n] = EMPTY_SQUARE
                   /\ z = [board |-> a.board, agenda |-> Tail(a.agenda)]
                \/ /\ a.board.color[n] # EMPTY_SQUARE /\ FindRef(a.board, n) = ref
                   /\ z = [board |-> Gone(c, n), agenda |-> Edges(n) \o Tail(a.agenda)]
                \/ /\ a.board.color[n] # EMPTY_SQUARE /\ FindRef(a.board, n) # ref
                   /\ z = [board |-> [c EXCEPT !.ledges[FindRef(a.board, n)] = @ + 1],
                           agenda |-> Tail(a.agenda)]
<1> HIDE DEF Squares
<1> DEFINE n == Head(a.agenda)[2]
           found == FindRef(a.board, n)
           c == Compressed(a.board, n)
           z == RemoveNext(a, ref)
<1>1. /\ a.board \in GoBoards /\ a.agenda \in Seq(Squares \X Squares)
      /\ a = [board |-> a.board, agenda |-> a.agenda]
  BY DEF Agendas
<1>2. Head(a.agenda) \in Squares \X Squares /\ Tail(a.agenda) \in Seq(Squares \X Squares)
  BY <1>1, OnHeadTail, Zenon
<1>3. n \in Squares
  BY <1>2
<1>4. found \in Squares
  <2>1. a.board.reference \in [Squares -> Squares]
    BY <1>1 DEF GoBoards
  <2> QED BY <1>3, <2>1, FindRefType
<1>5. c \in GoBoards
  BY <1>1, <1>3, CompressedType
<1>6. Gone(c, n) \in GoBoards
  BY <1>3, <1>5, GoneFacts
<1>7. Edges(n) \o Tail(a.agenda) \in Seq(Squares \X Squares)
  BY <1>2, <1>3, EdgeFacts, OnConcat
<1> HIDE DEF n, c, found
<1>8. [c EXCEPT !.ledges[found] = @ + 1] \in GoBoards
  <2>1. c.ledges[found] + 1 \in Int
    BY <1>4, <1>5 DEF GoBoards
  <2> QED BY <1>4, <1>5, <2>1, LedgeFacts
<1>9. CASE a.board.color[n] = EMPTY_SQUARE
  <2>1. z = [board |-> a.board, agenda |-> Tail(a.agenda)]
    BY <1>1, <1>9 DEF RemoveNext, n
  <2> QED BY <1>1, <1>2, <1>3, <1>4, <1>9, <2>1 DEF Agendas, n, found
<1>10. CASE a.board.color[n] # EMPTY_SQUARE /\ found = ref
  <2>1. z = [board |-> Gone(c, n), agenda |-> Edges(n) \o Tail(a.agenda)]
    BY <1>10 DEF RemoveNext, n, found, c
  <2> QED BY <1>1, <1>2, <1>3, <1>4, <1>6, <1>7, <1>10, <2>1 DEF Agendas, n, found, c
<1>11. CASE a.board.color[n] # EMPTY_SQUARE /\ found # ref
  <2>1. z = [board |-> [c EXCEPT !.ledges[found] = @ + 1], agenda |-> Tail(a.agenda)]
    BY <1>11 DEF RemoveNext, n, found, c
  <2> QED BY <1>1, <1>2, <1>3, <1>4, <1>8, <1>11, <2>1 DEF Agendas, n, found, c
<1> QED BY <1>9, <1>10, <1>11

(* A step of the loop leaves less to do. *)
LEMMA RemoveNextLess ==
  ASSUME NEW a \in Agendas, a.agenda # <<>>, NEW ref
  PROVE  ToDo(RemoveNext(a, ref)) < ToDo(a)
<1> HIDE DEF Squares
<1> DEFINE n == Head(a.agenda)[2]
           c == Compressed(a.board, n)
           z == RemoveNext(a, ref)
           q == Tail(a.agenda)
           r == FindRef(a.board, n)
<1>1. /\ n \in Squares /\ r \in Squares
      /\ q \in Seq(Squares \X Squares) /\ a.board \in GoBoards
      /\ \/ /\ a.board.color[n] = EMPTY_SQUARE
            /\ z = [board |-> a.board, agenda |-> q]
         \/ /\ a.board.color[n] # EMPTY_SQUARE
            /\ z = [board |-> Gone(c, n), agenda |-> Edges(n) \o q]
         \/ /\ a.board.color[n] # EMPTY_SQUARE
            /\ z = [board |-> [c EXCEPT !.ledges[r] = @ + 1], agenda |-> q]
  BY RemoveNextCases, Zenon
<1>2. a.agenda \in Seq(Squares \X Squares)
  BY DEF Agendas
<1>3. Len(q) = Len(a.agenda) - 1 /\ Len(a.agenda) \in Nat
  BY <1>2, OnHeadTail, Zenon
<1>4. StonesOn(a.board) \in Nat
  BY StonesFinite
<1>5. c \in GoBoards /\ c.color = a.board.color
  BY <1>1, CompressedType, Zenon
<1> HIDE DEF n, c, z, q, r
<1>6. CASE z = [board |-> a.board, agenda |-> q]
  BY <1>3, <1>4, <1>6 DEF ToDo, z
<1>7. CASE z = [board |-> [c EXCEPT !.ledges[r] = @ + 1], agenda |-> q]
  <2>1. z.board.color = a.board.color /\ z.agenda = q
    BY <1>5, <1>7 DEF GoBoards
  <2>2. StonesOn(z.board) = StonesOn(a.board)
    BY <2>1 DEF StonesOn
  <2> QED BY <1>3, <1>4, <2>1, <2>2 DEF ToDo, z
<1>8. CASE z = [board |-> Gone(c, n), agenda |-> Edges(n) \o q] /\ a.board.color[n] # EMPTY_SQUARE
  <2>1. /\ z.board.color = [a.board.color EXCEPT ![n] = EMPTY_SQUARE]
        /\ z.agenda = Edges(n) \o q
    <3>1. Gone(c, n).color = [c.color EXCEPT ![n] = EMPTY_SQUARE]
      BY <1>1, <1>5, GoneFacts, Zenon
    <3> QED BY <1>5, <1>8, <3>1
  <2>2. a.board.color \in [Squares -> Stones \union {EMPTY_SQUARE}]
    BY <1>1 DEF GoBoards
  <2>3. \A t \in Squares : z.board.color[t] # EMPTY_SQUARE <=> a.board.color[t] # EMPTY_SQUARE /\ t # n
    BY <1>1, <2>1, <2>2
  <2> DEFINE old == {t \in Squares : a.board.color[t] # EMPTY_SQUARE}
  <2>4. {t \in Squares : z.board.color[t] # EMPTY_SQUARE} = old \ {n} /\ n \in old
    BY <1>1, <1>8, <2>3
  <2>5. IsFiniteSet(old)
    BY StonesFinite
  <2>6. Cardinality(old \ {n}) = Cardinality(old) - 1
    <3> HIDE DEF old
    <3> QED BY <2>4, <2>5, FS_RemoveElement
  <2>7. StonesOn(z.board) = StonesOn(a.board) - 1
    BY <2>4, <2>6 DEF StonesOn
  <2>8. Len(z.agenda) = Len(Edges(n)) + Len(q) /\ Len(Edges(n)) \in 0..4
    <3>1. Edges(n) \in Seq(Squares \X Squares) /\ Len(Edges(n)) \in 0..4
      BY <1>1, EdgeFacts
    <3> QED BY <1>1, <2>1, <3>1, ConcatProperties
  <2>9. ToDo(z) < ToDo(a)
    <3>1. PICK k \in Nat : k = StonesOn(a.board)
      BY <1>4
    <3>2. PICK e \in 0..4 : e = Len(Edges(n))
      BY <2>8
    <3>3. PICK l \in Nat : l = Len(a.agenda)
      BY <1>3
    <3>4. ToDo(a) = 5 * k + l /\ ToDo(z) = 5 * (k - 1) + (e + (l - 1))
      BY <1>3, <2>7, <2>8, <3>1, <3>2, <3>3, Zenon DEF ToDo
    <3>5. 5 * (k - 1) + (e + (l - 1)) < 5 * k + l
      OBVIOUS
    <3> QED BY <3>4, <3>5
  <2> QED BY <2>9 DEF z
<1> QED BY <1>1, <1>6, <1>7, <1>8 DEF z

RemoveLoop(f, ref) ==
  f = [a \in Agendas |-> IF a.agenda = <<>> THEN a.board ELSE f[RemoveNext(a, ref)]]

\* where the loop of Square.remove begins
RemoveStart(b, s) == [board |-> Gone(b, s), agenda |-> Edges(s)]

(* What every step of remove() keeps holds where it ends. *)
LEMMA RemoveGroupEnds ==
  ASSUME NEW b, NEW s, NEW ref, NEW I \in SUBSET Agendas, RemoveStart(b, s) \in I,
         \A a \in I : a.agenda # <<>> => RemoveNext(a, ref) \in I
  PROVE  \E z \in I : z.agenda = <<>> /\ RemoveGroup(b, s, ref) = z.board
<1> DEFINE S == {a \in Agendas : a.agenda = <<>>}
           N == [a \in Agendas |-> IF a.agenda = <<>> THEN a ELSE RemoveNext(a, ref)]
           O == [a \in Agendas |-> a.board]
           M == [a \in Agendas |-> ToDo(a)]
<1>1. N \in [Agendas -> Agendas]
  <2>1. \A a \in Agendas : a.agenda # <<>> => RemoveNext(a, ref) \in Agendas
    BY RemoveNextCases
  <2> QED BY <2>1
<1>2. \A f : Loop(f, Agendas, S, N, O) <=> RemoveLoop(f, ref)
  <2> SUFFICES ASSUME NEW f
               PROVE  Loop(f, Agendas, S, N, O) <=> RemoveLoop(f, ref)
    OBVIOUS
  <2>1. [a \in Agendas |-> IF a \in S THEN O[a] ELSE f[N[a]]]
        = [a \in Agendas |-> IF a.agenda = <<>> THEN a.board ELSE f[RemoveNext(a, ref)]]
    OBVIOUS
  <2> QED BY <2>1, Zenon DEF Loop, RemoveLoop
<1>3. M \in [Agendas -> Nat]
  <2> SUFFICES ASSUME NEW a \in Agendas PROVE ToDo(a) \in Nat
    OBVIOUS
  <2>1. Len(a.agenda) \in Nat /\ StonesOn(a.board) \in Nat
    BY StonesFinite, LenProperties DEF Agendas
  <2> QED BY <2>1 DEF ToDo
<1>4. \A a \in Agendas : a \notin S => M[N[a]] < M[a]
  <2> SUFFICES ASSUME NEW a \in Agendas, a.agenda # <<>> PROVE M[N[a]] < M[a]
    OBVIOUS
  <2>1. N[a] = RemoveNext(a, ref) /\ N[a] \in Agendas
    BY <1>1
  <2>2. ToDo(RemoveNext(a, ref)) < ToDo(a)
    BY RemoveNextLess
  <2> QED BY <2>1, <2>2
<1>5. \A a \in I : a \notin S => N[a] \in I
  OBVIOUS
<1>6. \E f : RemoveLoop(f, ref)
  <2>1. \E f : Loop(f, Agendas, S, N, O)
    <3> HIDE DEF S, N, O
    <3> QED BY <1>1, LoopExists
  <2> QED BY <1>2, <2>1
<1> DEFINE g == CHOOSE f : RemoveLoop(f, ref)
<1>7. RemoveLoop(g, ref)
  BY <1>6, Zenon
<1>8. RemoveGroup(b, s, ref) = g[RemoveStart(b, s)]
  BY Zenon DEF RemoveGroup, RemoveLoop, RemoveStart
<1> HIDE DEF g
<1>9. Loop(g, Agendas, S, N, O)
  BY <1>2, <1>7
<1>10. \A a \in I : \E z \in I : z \in S /\ g[a] = O[z]
  <2> HIDE DEF S, N, O, M
  <2> QED BY <1>1, <1>3, <1>4, <1>5, <1>9, LoopStops
<1>11. PICK z \in I : z \in S /\ g[RemoveStart(b, s)] = O[z]
  BY <1>10
<1> QED BY <1>8, <1>11

-----------------------------------------------------------------------------
(* The group of ref, with these roots, is removed from a board p, on which *)
(* the edges of C count; the list of empty squares had those of Z.         *)
Group(R, ref) == {t \in Squares : R[t] = ref}

\* of C, the edges of the group with root r
Fed(R, r, C) == {d \in C : R[d[1]] = r}

\* the edges to squares that were removed and that were counted again
Regained(a, X) ==
  {d \in Squares \X Squares : /\ d[2] \in X /\ a.board.color[d[2]] = EMPTY_SQUARE
                              /\ d[2] \in Around(d[1])
                              /\ <<d[2], d[1]>> \notin On(a.agenda)}

RemovePlaces(a, p, X) ==
  /\ \A t \in Squares : \/ a.board.color[t] = p[t]
                        \/ t \in X /\ a.board.color[t] = EMPTY_SQUARE
  /\ \A d \in On(a.agenda) : /\ d[1] \in X /\ a.board.color[d[1]] = EMPTY_SQUARE
                             /\ d[2] \in Around(d[1])
  /\ \A x \in X : a.board.color[x] = EMPTY_SQUARE =>
       \A t \in Around(x) : t \in X /\ a.board.color[t] # EMPTY_SQUARE => <<x, t>> \in On(a.agenda)
  /\ \E x \in X : a.board.color[x] = EMPTY_SQUARE

RemoveCounts(a, p, X, R, ref, C) ==
  \A r \in Squares : R[r] = r /\ r # ref /\ p[r] # EMPTY_SQUARE =>
    a.board.ledges[r] = Cardinality(Fed(R, r, C \union Regained(a, X)))

Removed(a, X) == {x \in X : a.board.color[x] = EMPTY_SQUARE}

RemoveInv(a, p, R, K, ref, C, Z) ==
  /\ a \in Agendas /\ Distinct(a.agenda)
  /\ Rooted(a.board.reference, R, K)
  /\ RemovePlaces(a, p, Group(R, ref))
  /\ RemoveCounts(a, p, Group(R, ref), R, ref, C)
  /\ Listed(a.board, Z \union Removed(a, Group(R, ref)))

\* what a square's group is known by before
RemoveReady(p, R, ref, C, Z) ==
  /\ p \in [Squares -> Stones \union {EMPTY_SQUARE}] /\ R \in [Squares -> Squares]
  /\ ref \in Squares /\ R[ref] = ref
  /\ \A t \in Squares : p[R[t]] = p[t]
  /\ p[ref] # EMPTY_SQUARE
  /\ C \in SUBSET (Squares \X Squares) /\ Z \in SUBSET Squares
  /\ \A d \in C : R[d[2]] # ref
  /\ \A t \in Z : R[t] # ref

LEMMA RegainedFacts ==
  ASSUME NEW a, NEW X, NEW d
  PROVE  d \in Regained(a, X) <=>
           /\ d \in Squares \X Squares /\ d[2] \in X /\ a.board.color[d[2]] = EMPTY_SQUARE
           /\ d[2] \in Around(d[1]) /\ <<d[2], d[1]>> \notin On(a.agenda)
BY Zenon DEF Regained

LEMMA RegainedSame ==
  ASSUME NEW a, NEW z, NEW X, NEW d,
         d \in Squares \X Squares /\ d[2] \in X /\ d[2] \in Around(d[1]) =>
           ((z.board.color[d[2]] = EMPTY_SQUARE /\ <<d[2], d[1]>> \notin On(z.agenda))
            <=> (a.board.color[d[2]] = EMPTY_SQUARE /\ <<d[2], d[1]>> \notin On(a.agenda)))
  PROVE  d \in Regained(z, X) <=> d \in Regained(a, X)
<1>1. ASSUME d \in Regained(z, X) PROVE d \in Regained(a, X)
  <2>1. /\ d \in Squares \X Squares /\ d[2] \in X /\ z.board.color[d[2]] = EMPTY_SQUARE
        /\ d[2] \in Around(d[1]) /\ <<d[2], d[1]>> \notin On(z.agenda)
    BY <1>1, RegainedFacts, Zenon
  <2>2. a.board.color[d[2]] = EMPTY_SQUARE /\ <<d[2], d[1]>> \notin On(a.agenda)
    BY <2>1, Zenon
  <2> QED BY <2>1, <2>2, RegainedFacts, Zenon
<1>2. ASSUME d \in Regained(a, X) PROVE d \in Regained(z, X)
  <2>1. /\ d \in Squares \X Squares /\ d[2] \in X /\ a.board.color[d[2]] = EMPTY_SQUARE
        /\ d[2] \in Around(d[1]) /\ <<d[2], d[1]>> \notin On(a.agenda)
    BY <1>2, RegainedFacts, Zenon
  <2>2. z.board.color[d[2]] = EMPTY_SQUARE /\ <<d[2], d[1]>> \notin On(z.agenda)
    BY <2>1, Zenon
  <2> QED BY <2>1, <2>2, RegainedFacts, Zenon
<1> QED BY <1>1, <1>2

LEMMA PairFinite ==
  ASSUME NEW C \in SUBSET (Squares \X Squares)
  PROVE  IsFiniteSet(C) /\ Cardinality(C) \in Nat
<1> HIDE DEF Squares
<1>1. IsFiniteSet(Squares \X Squares)
  BY SquaresFinite, FS_Product
<1>2. IsFiniteSet(C)
  BY <1>1, FS_Subset
<1> QED BY <1>2, FS_CardinalityType

(* A neighbour that is empty. *)
LEMMA RemoveSkips ==
  ASSUME NEW a, NEW p, NEW R, NEW K, NEW ref, NEW C, NEW Z,
         RemoveReady(p, R, ref, C, Z), RemoveInv(a, p, R, K, ref, C, Z), a.agenda # <<>>,
         a.board.color[Head(a.agenda)[2]] = EMPTY_SQUARE
  PROVE  RemoveInv(RemoveNext(a, ref), p, R, K, ref, C, Z)
<1> HIDE DEF Squares
<1> DEFINE n == Head(a.agenda)[2]
           x == Head(a.agenda)[1]
           z == RemoveNext(a, ref)
           X == Group(R, ref)
<1>1. a \in Agendas /\ Distinct(a.agenda) /\ a.agenda \in Seq(Squares \X Squares)
  BY DEF RemoveInv, Agendas
<1>2. /\ n \in Squares /\ Head(a.agenda) \in Squares \X Squares
      /\ z \in Agendas /\ z = [board |-> a.board, agenda |-> Tail(a.agenda)]
  BY <1>1, RemoveNextCases, Zenon
<1>3. /\ Distinct(z.agenda) /\ On(z.agenda) = On(a.agenda) \ {Head(a.agenda)}
      /\ z.board = a.board
  <2>1. z.agenda = Tail(a.agenda) /\ z.board = a.board
    BY <1>2
  <2> QED BY <1>1, <2>1, DistinctTail, Zenon
<1>4. Head(a.agenda) = <<x, n>> /\ Head(a.agenda) \in On(a.agenda)
  <2>1. Head(a.agenda) \in On(a.agenda)
    BY <1>1, OnHeadTail
  <2> QED BY <1>2, <2>1
<1>5. a.board.color[n] = EMPTY_SQUARE /\ RemovePlaces(a, p, X) /\ RemoveCounts(a, p, X, R, ref, C)
  BY DEF RemoveInv
<1> HIDE DEF n, x, z, X
<1>6. RemovePlaces(z, p, X)
  <2>1. ASSUME NEW y \in X, a.board.color[y] = EMPTY_SQUARE, NEW t \in Around(y), t \in X,
               a.board.color[t] # EMPTY_SQUARE
        PROVE  <<y, t>> \in On(z.agenda)
    <3>1. <<y, t>> \in On(a.agenda)
      BY <1>5, <2>1 DEF RemovePlaces
    <3>2. <<y, t>> # <<x, n>>
      BY <1>5, <2>1
    <3> QED BY <1>3, <1>4, <3>1, <3>2
  <2> QED BY <1>3, <1>5, <2>1, Zenon DEF RemovePlaces
<1>7. RemoveCounts(z, p, X, R, ref, C)
  <2> SUFFICES ASSUME NEW r \in Squares, R[r] = r, r # ref, p[r] # EMPTY_SQUARE
               PROVE  z.board.ledges[r] = Cardinality(Fed(R, r, C \union Regained(z, X)))
    BY DEF RemoveCounts
  <2>1. ASSUME NEW d, R[d[1]] = r
        PROVE  d \in Regained(z, X) <=> d \in Regained(a, X)
    <3>1. ASSUME d \in Squares \X Squares PROVE <<d[2], d[1]>> # <<x, n>>
      <4> SUFFICES ASSUME d[1] = n PROVE FALSE
        BY <3>1
      <4>1. R[n] = r /\ p[n] # EMPTY_SQUARE
        BY <1>2, <2>1 DEF RemoveReady
      <4>2. n \in X
        BY <1>2, <1>5, <4>1 DEF RemovePlaces
      <4> QED BY <4>1, <4>2 DEF X, Group
    <3>2. d \in Squares \X Squares =>
            (<<d[2], d[1]>> \in On(z.agenda) <=> <<d[2], d[1]>> \in On(a.agenda))
      BY <1>3, <1>4, <3>1
    <3>3. z.board.color[d[2]] = a.board.color[d[2]]
      BY <1>3
    <3> QED BY <3>2, <3>3, RegainedSame, Zenon
  <2>2. Fed(R, r, C \union Regained(z, X)) = Fed(R, r, C \union Regained(a, X))
    BY <2>1 DEF Fed
  <2> QED BY <1>3, <1>5, <2>2 DEF RemoveCounts
<1>8. Removed(z, X) = Removed(a, X)
  BY <1>3 DEF Removed
<1> QED BY <1>2, <1>3, <1>6, <1>7, <1>8, Zenon DEF RemoveInv, z, X

(* A neighbour of the group. *)
LEMMA RemoveGoesOn ==
  ASSUME NEW a, NEW p, NEW R, NEW K, NEW ref, NEW C, NEW Z,
         RemoveReady(p, R, ref, C, Z), RemoveInv(a, p, R, K, ref, C, Z), a.agenda # <<>>,
         a.board.color[Head(a.agenda)[2]] # EMPTY_SQUARE, Head(a.agenda)[2] \in Group(R, ref)
  PROVE  RemoveInv(RemoveNext(a, ref), p, R, K, ref, C, Z)
<1> HIDE DEF Squares
<1> DEFINE n == Head(a.agenda)[2]
           x == Head(a.agenda)[1]
           z == RemoveNext(a, ref)
           X == Group(R, ref)
           c == Compressed(a.board, n)
           q == Tail(a.agenda)
<1>1. /\ a \in Agendas /\ Distinct(a.agenda) /\ a.agenda \in Seq(Squares \X Squares)
      /\ a.board \in GoBoards /\ Rooted(a.board.reference, R, K)
  BY DEF RemoveInv, Agendas
<1>2. /\ n \in Squares /\ Head(a.agenda) \in Squares \X Squares /\ q \in Seq(Squares \X Squares)
      /\ z \in Agendas
      /\ FindRef(a.board, n) = ref => z = [board |-> Gone(c, n), agenda |-> Edges(n) \o q]
  BY <1>1, RemoveNextCases, Zenon
<1>3. FindRef(a.board, n) = ref
  <2>1. R[n] = ref
    BY DEF Group
  <2> HIDE DEF n
  <2>2. Rooted(a.board.reference, R, K) /\ n \in Squares /\ a.board \in GoBoards
    BY <1>1, <1>2
  <2>3. FindRef(a.board, n) = R[n]
    <3>1. Ranked(a.board, R, K)
      BY <2>2 DEF Ranked
    <3>2. Finds(a.board, R)
      BY <3>1, RankedFinds
    <3> QED BY <2>2, <3>2 DEF Finds
  <2> QED BY <2>1, <2>3
<1>4. Head(a.agenda) = <<x, n>> /\ Head(a.agenda) \in On(a.agenda)
  <2>1. Head(a.agenda) \in On(a.agenda)
    BY <1>1, OnHeadTail
  <2> QED BY <1>2, <2>1
<1>5. a.board.color[n] # EMPTY_SQUARE /\ RemovePlaces(a, p, X) /\ RemoveCounts(a, p, X, R, ref, C)
      /\ Listed(a.board, Z \union Removed(a, X))
  BY DEF RemoveInv
<1>6. n \in X /\ R[n] = ref
  BY DEF Group
<1>7. /\ c \in GoBoards /\ Rooted(c.reference, R, K)
      /\ c.color = a.board.color /\ c.ledges = a.board.ledges
      /\ c.empties = a.board.empties /\ c.place = a.board.place
  <2>1. Ranked(a.board, R, K) /\ n \in Squares
    BY <1>1, <1>2 DEF Ranked
  <2>2. Ranked(c, R, K) /\ OnlyReferences(c, a.board)
    BY <2>1, RankedCompressed
  <2> QED BY <2>2 DEF Ranked, OnlyReferences
<1> HIDE DEF n, x, z, X, c, q
<1>8. /\ Gone(c, n).reference = c.reference /\ Gone(c, n).ledges = c.ledges
      /\ Gone(c, n).color = [c.color EXCEPT ![n] = EMPTY_SQUARE]
      /\ \A Y \in SUBSET Squares : Listed(c, Y) /\ n \notin Y => Listed(Gone(c, n), Y \union {n})
  BY <1>2, <1>7, GoneFacts, Zenon
<1>9. Distinct(q) /\ On(q) = On(a.agenda) \ {<<x, n>>}
  BY <1>1, <1>4, DistinctTail, Zenon DEF q
<1>10. z.board = Gone(c, n) /\ z.agenda = Edges(n) \o q
  BY <1>2, <1>3
<1>11. a.board.color \in [Squares -> Stones \union {EMPTY_SQUARE}]
  BY <1>1 DEF GoBoards
<1>12. /\ \A t \in Squares : z.board.color[t] = IF t = n THEN EMPTY_SQUARE ELSE a.board.color[t]
       /\ z.board.ledges = a.board.ledges /\ Rooted(z.board.reference, R, K)
  BY <1>2, <1>7, <1>8, <1>10, <1>11
<1>13. /\ Edges(n) \in Seq(Squares \X Squares) /\ Distinct(Edges(n))
       /\ \A d : d \in On(Edges(n)) <=> \E m \in Around(n) : d = <<n, m>>
  BY <1>2, EdgeFacts
<1>14. /\ On(z.agenda) = On(Edges(n)) \union On(q)
       /\ Distinct(z.agenda)
  <2>1. \A d \in On(Edges(n)) : d \notin On(q)
    <3> SUFFICES ASSUME NEW d \in On(Edges(n)), d \in On(q) PROVE FALSE
      OBVIOUS
    <3>1. d[1] = n
      BY <1>13
    <3>2. a.board.color[d[1]] = EMPTY_SQUARE
      BY <1>5, <1>9 DEF RemovePlaces
    <3> QED BY <1>5, <3>1, <3>2
  <2>2. Distinct(Edges(n) \o q)
    BY <1>2, <1>9, <1>13, <2>1, DistinctConcat
  <2>3. On(Edges(n) \o q) = On(Edges(n)) \union On(q)
    BY <1>2, <1>13, OnConcat
  <2> QED BY <1>10, <2>2, <2>3
<1>15. \A t \in X : t \in Squares
  BY DEF X, Group
<1>16. RemovePlaces(z, p, X)
  <2>1. ASSUME NEW t \in Squares
        PROVE  z.board.color[t] = p[t] \/ (t \in X /\ z.board.color[t] = EMPTY_SQUARE)
    BY <1>5, <1>6, <1>12 DEF RemovePlaces
  <2>2. ASSUME NEW d \in On(z.agenda)
        PROVE  d[1] \in X /\ z.board.color[d[1]] = EMPTY_SQUARE /\ d[2] \in Around(d[1])
    <3>1. CASE d \in On(Edges(n))
      <4>1. PICK m \in Around(n) : d = <<n, m>>
        BY <1>13, <3>1
      <4> QED BY <1>2, <1>6, <1>12, <4>1
    <3>2. CASE d \in On(q)
      <4>1. d[1] \in X /\ a.board.color[d[1]] = EMPTY_SQUARE /\ d[2] \in Around(d[1])
        BY <1>5, <1>9, <3>2 DEF RemovePlaces
      <4> QED BY <1>12, <1>15, <4>1
    <3> QED BY <1>14, <3>1, <3>2
  <2>3. ASSUME NEW y \in X, z.board.color[y] = EMPTY_SQUARE, NEW t \in Around(y), t \in X,
               z.board.color[t] # EMPTY_SQUARE
        PROVE  <<y, t>> \in On(z.agenda)
    <3>1. CASE y = n
      BY <1>13, <1>14, <2>3, <3>1
    <3>2. CASE y # n
      <4>1. a.board.color[y] = EMPTY_SQUARE /\ a.board.color[t] # EMPTY_SQUARE /\ t # n
        BY <1>12, <1>15, <2>3, <3>2
      <4>2. <<y, t>> \in On(a.agenda)
        BY <1>5, <2>3, <4>1 DEF RemovePlaces
      <4>3. <<y, t>> # <<x, n>>
        BY <4>1
      <4> QED BY <1>9, <1>14, <4>2, <4>3
    <3> QED BY <3>1, <3>2
  <2>4. \E y \in X : z.board.color[y] = EMPTY_SQUARE
    BY <1>2, <1>6, <1>12
  <2> QED BY <2>1, <2>2, <2>3, <2>4, Zenon DEF RemovePlaces
<1>17. RemoveCounts(z, p, X, R, ref, C)
  <2> SUFFICES ASSUME NEW r \in Squares, R[r] = r, r # ref, p[r] # EMPTY_SQUARE
               PROVE  z.board.ledges[r] = Cardinality(Fed(R, r, C \union Regained(z, X)))
    BY DEF RemoveCounts
  <2>1. ASSUME NEW d, R[d[1]] = r
        PROVE  d \in Regained(z, X) <=> d \in Regained(a, X)
    <3>1. CASE ~(d \in Squares \X Squares /\ d[2] \in X /\ d[2] \in Around(d[1]))
      BY <3>1, RegainedFacts, Zenon
    <3>2. CASE d \in Squares \X Squares /\ d[2] \in X /\ d[2] \in Around(d[1])
      <4>1. d[1] # n
        BY <1>6, <2>1
      <4>2. CASE d[2] = n
        <5>1. d[1] \in Around(n)
          BY <3>2, <4>2, AroundFacts
        <5>2. <<d[2], d[1]>> \in On(z.agenda)
          BY <1>13, <1>14, <4>2, <5>1
        <5>3. a.board.color[d[2]] # EMPTY_SQUARE
          BY <1>5, <4>2
        <5> QED BY <5>2, <5>3, RegainedSame, Zenon
      <4>3. CASE d[2] # n
        <5>1. z.board.color[d[2]] = a.board.color[d[2]]
          BY <1>12, <1>15, <3>2, <4>3
        <5>2. <<d[2], d[1]>> \in On(z.agenda) <=> <<d[2], d[1]>> \in On(a.agenda)
          BY <1>9, <1>13, <1>14, <4>1, <4>3
        <5> QED BY <5>1, <5>2, RegainedSame, Zenon
      <4> QED BY <4>2, <4>3
    <3> QED BY <3>1, <3>2
  <2>2. Fed(R, r, C \union Regained(z, X)) = Fed(R, r, C \union Regained(a, X))
    BY <2>1 DEF Fed
  <2> QED BY <1>5, <1>12, <2>2 DEF RemoveCounts
<1>18. Listed(z.board, Z \union Removed(z, X))
  <2> DEFINE Y == Z \union Removed(a, X)
  <2>1. Y \in SUBSET Squares /\ n \notin Y
    <3>1. n \notin Z
      BY <1>2, <1>6 DEF RemoveReady, X, Group
    <3> QED BY <1>5, <1>15, <3>1 DEF RemoveReady, Removed
  <2>2. Z \union Removed(z, X) = Y \union {n}
    BY <1>6, <1>12, <1>15 DEF Removed
  <2>3. Listed(c, Y)
    BY <1>5, <1>7 DEF Listed
  <2> HIDE DEF Y
  <2> QED BY <1>8, <1>10, <2>1, <2>2, <2>3
<1> QED BY <1>2, <1>12, <1>14, <1>16, <1>17, <1>18, Zenon DEF RemoveInv, z, X

(* A neighbour of another group. *)
LEMMA RemoveFeeds ==
  ASSUME NEW a, NEW p, NEW R, NEW K, NEW ref, NEW C, NEW Z,
         RemoveReady(p, R, ref, C, Z), RemoveInv(a, p, R, K, ref, C, Z), a.agenda # <<>>,
         a.board.color[Head(a.agenda)[2]] # EMPTY_SQUARE, R[Head(a.agenda)[2]] # ref
  PROVE  RemoveInv(RemoveNext(a, ref), p, R, K, ref, C, Z)
<1> HIDE DEF Squares
<1> DEFINE n == Head(a.agenda)[2]
           x == Head(a.agenda)[1]
           z == RemoveNext(a, ref)
           X == Group(R, ref)
           c == Compressed(a.board, n)
           q == Tail(a.agenda)
           l == R[n]
<1>1. /\ a \in Agendas /\ Distinct(a.agenda) /\ a.agenda \in Seq(Squares \X Squares)
      /\ a.board \in GoBoards /\ Rooted(a.board.reference, R, K)
  BY DEF RemoveInv, Agendas
<1>2. /\ n \in Squares /\ Head(a.agenda) \in Squares \X Squares /\ q \in Seq(Squares \X Squares)
      /\ z \in Agendas
      /\ FindRef(a.board, n) # ref =>
           z = [board |-> [c EXCEPT !.ledges[FindRef(a.board, n)] = @ + 1], agenda |-> q]
  BY <1>1, RemoveNextCases, Zenon
<1>3. FindRef(a.board, n) = l /\ l # ref /\ l \in Squares /\ R[l] = l
  <2>1. FindRef(a.board, n) = l
    <3> HIDE DEF n
    <3>1. Rooted(a.board.reference, R, K) /\ n \in Squares /\ a.board \in GoBoards
      BY <1>1, <1>2
    <3>2. Ranked(a.board, R, K)
      BY <3>1 DEF Ranked
    <3>3. Finds(a.board, R)
      BY <3>2, RankedFinds
    <3> QED BY <3>1, <3>3 DEF Finds
  <2> QED BY <1>1, <1>2, <2>1 DEF Rooted
<1>4. Head(a.agenda) = <<x, n>> /\ Head(a.agenda) \in On(a.agenda) /\ x \in Squares
  <2>1. Head(a.agenda) \in On(a.agenda)
    BY <1>1, OnHeadTail
  <2> QED BY <1>2, <2>1
<1>5. a.board.color[n] # EMPTY_SQUARE /\ RemovePlaces(a, p, X) /\ RemoveCounts(a, p, X, R, ref, C)
      /\ Listed(a.board, Z \union Removed(a, X))
  BY DEF RemoveInv
<1>6. n \notin X
  BY DEF X, Group
<1>7. /\ c \in GoBoards /\ Rooted(c.reference, R, K)
      /\ c.color = a.board.color /\ c.ledges = a.board.ledges
      /\ c.empties = a.board.empties /\ c.place = a.board.place
  <2>1. Ranked(a.board, R, K) /\ n \in Squares
    BY <1>1, <1>2 DEF Ranked
  <2>2. Ranked(c, R, K) /\ OnlyReferences(c, a.board)
    BY <2>1, RankedCompressed
  <2> QED BY <2>2 DEF Ranked, OnlyReferences
<1>8. z = [board |-> [c EXCEPT !.ledges[l] = c.ledges[l] + 1], agenda |-> q]
  BY <1>2, <1>3
<1>9. Distinct(q) /\ On(q) = On(a.agenda) \ {<<x, n>>}
  BY <1>1, <1>4, DistinctTail, Zenon
<1> HIDE DEF n, x, z, X, c, q, l
<1>10. /\ z.agenda = q /\ z.board.color = a.board.color /\ z.board.reference = c.reference
       /\ z.board.ledges = [a.board.ledges EXCEPT ![l] = a.board.ledges[l] + 1]
       /\ z.board.empties = a.board.empties /\ z.board.place = a.board.place
       /\ a.board.ledges \in [Squares -> Int]
  <2>1. a.board.ledges \in [Squares -> Int]
    BY <1>1 DEF GoBoards
  <2>2. c.ledges[l] + 1 \in Int
    BY <1>3, <1>7, <2>1
  <2> DEFINE w == c.ledges[l] + 1
  <2> HIDE DEF w
  <2>3. /\ [c EXCEPT !.ledges[l] = w].ledges = [c.ledges EXCEPT ![l] = w]
        /\ [c EXCEPT !.ledges[l] = w].color = c.color
        /\ [c EXCEPT !.ledges[l] = w].reference = c.reference
        /\ [c EXCEPT !.ledges[l] = w].empties = c.empties
        /\ [c EXCEPT !.ledges[l] = w].place = c.place
    <3>1. w \in Int
      BY <2>2 DEF w
    <3>2. c \in GoBoards /\ l \in Squares
      BY <1>3, <1>7
    <3> QED BY <3>1, <3>2, LedgeFacts
  <2>4. z.board = [c EXCEPT !.ledges[l] = w] /\ z.agenda = q
    BY <1>8 DEF w
  <2> QED BY <1>7, <2>1, <2>3, <2>4 DEF w
<1>11. x \in X /\ a.board.color[x] = EMPTY_SQUARE /\ n \in Around(x) /\ x \in Around(n)
  <2>1. x \in X /\ a.board.color[x] = EMPTY_SQUARE /\ n \in Around(x)
    BY <1>4, <1>5 DEF RemovePlaces
  <2> QED BY <1>4, <2>1, AroundFacts
<1>12. RemovePlaces(z, p, X)
  <2>1. ASSUME NEW y \in X, a.board.color[y] = EMPTY_SQUARE, NEW t \in Around(y), t \in X,
               a.board.color[t] # EMPTY_SQUARE
        PROVE  <<y, t>> \in On(z.agenda)
    <3>1. <<y, t>> \in On(a.agenda)
      BY <1>5, <2>1 DEF RemovePlaces
    <3>2. <<y, t>> # <<x, n>>
      BY <1>6, <2>1
    <3> QED BY <1>9, <1>10, <3>1, <3>2
  <2>2. \A d \in On(z.agenda) : d \in On(a.agenda)
    BY <1>9, <1>10
  <2> QED BY <1>5, <1>10, <2>1, <2>2, Zenon DEF RemovePlaces
<1>13. <<n, x>> \in Regained(z, X) /\ <<n, x>> \notin Regained(a, X) /\ <<n, x>> \notin C
  <2>1. <<n, x>>[1] = n /\ <<n, x>>[2] = x /\ <<n, x>> \in Squares \X Squares
    BY <1>2, <1>4
  <2>2. <<x, n>> \notin On(z.agenda) /\ <<x, n>> \in On(a.agenda)
    BY <1>4, <1>9, <1>10
  <2>3. <<n, x>> \in Regained(z, X) /\ <<n, x>> \notin Regained(a, X)
    BY <1>10, <1>11, <2>1, <2>2, RegainedFacts
  <2> QED BY <1>11, <2>1, <2>3 DEF RemoveReady, X, Group
<1>14. \A d : d # <<n, x>> => (d \in Regained(z, X) <=> d \in Regained(a, X))
  <2> SUFFICES ASSUME NEW d, d # <<n, x>>
               PROVE  d \in Regained(z, X) <=> d \in Regained(a, X)
    OBVIOUS
  <2>1. d \in Squares \X Squares => <<d[2], d[1]>> # <<x, n>>
    OBVIOUS
  <2>2. d \in Squares \X Squares =>
          (<<d[2], d[1]>> \in On(z.agenda) <=> <<d[2], d[1]>> \in On(a.agenda))
    BY <1>9, <1>10, <2>1
  <2>3. z.board.color[d[2]] = a.board.color[d[2]]
    BY <1>10
  <2> QED BY <2>2, <2>3, RegainedSame, Zenon
<1>15. RemoveCounts(z, p, X, R, ref, C)
  <2> SUFFICES ASSUME NEW r \in Squares, R[r] = r, r # ref, p[r] # EMPTY_SQUARE
               PROVE  z.board.ledges[r] = Cardinality(Fed(R, r, C \union Regained(z, X)))
    BY DEF RemoveCounts
  <2> DEFINE old == Fed(R, r, C \union Regained(a, X))
             new == Fed(R, r, C \union Regained(z, X))
  <2>0. a.board.ledges[r] = Cardinality(old)
    BY <1>5 DEF RemoveCounts
  <2>1. CASE r # l
    <3>1. R[<<n, x>>[1]] # r
      BY <2>1 DEF l
    <3>2. new = old
      BY <1>14, <3>1 DEF Fed
    <3> QED BY <1>10, <2>0, <2>1, <3>2
  <2>2. CASE r = l
    <3>1. R[<<n, x>>[1]] = r
      BY <2>2 DEF l
    <3>2. new = old \union {<<n, x>>} /\ <<n, x>> \notin old
      BY <1>13, <1>14, <3>1 DEF Fed
    <3>3. IsFiniteSet(old)
      <4>1. old \in SUBSET (Squares \X Squares)
        BY DEF Fed, Regained, RemoveReady
      <4> HIDE DEF old
      <4> QED BY <4>1, PairFinite
    <3>4. Cardinality(new) = Cardinality(old) + 1
      <4> HIDE DEF old, new
      <4> QED BY <3>2, <3>3, FS_AddElement
    <3>5. z.board.ledges[r] = a.board.ledges[r] + 1
      BY <1>10, <2>2
    <3> QED BY <2>0, <3>4, <3>5
  <2> QED BY <2>1, <2>2
<1>16. Removed(z, X) = Removed(a, X)
  BY <1>10 DEF Removed
<1>17. Listed(z.board, Z \union Removed(z, X))
  BY <1>5, <1>10, <1>16 DEF Listed
<1> QED BY <1>2, <1>7, <1>9, <1>10, <1>12, <1>15, <1>17, Zenon DEF RemoveInv, z, X

(* Whoever has all neighbours of its colour has its whole group. *)
Closed(p, G) == \A t \in G : \A u \in Around(t) : p[u] = p[t] => u \in G
Held(p, R) ==
  \A G \in SUBSET Squares : Closed(p, G) =>
    \A t \in G : p[t] # EMPTY_SQUARE => \A u \in Squares : R[u] = R[t] => u \in G

\* all edges to the squares of a group
EdgesTo(R, ref) == {d \in Squares \X Squares : R[d[2]] = ref /\ d[2] \in Around(d[1])}

RemovalDone(g, b, R, K, ref, C, Z) ==
  /\ g \in GoBoards /\ Rooted(g.reference, R, K)
  /\ \A t \in Squares : g.color[t] = IF R[t] = ref THEN EMPTY_SQUARE ELSE b.color[t]
  /\ \A r \in Squares : R[r] = r /\ r # ref /\ b.color[r] # EMPTY_SQUARE =>
       g.ledges[r] = Cardinality(Fed(R, r, C \union EdgesTo(R, ref)))
  /\ Listed(g, Z \union Group(R, ref))

(* remove() takes the whole group from the board. *)
LEMMA RemoveGroupFacts ==
  ASSUME NEW b \in GoBoards, NEW R, NEW K, NEW ref, NEW C, NEW Z, NEW n \in Group(R, ref),
         Rooted(b.reference, R, K), RemoveReady(b.color, R, ref, C, Z), Listed(b, Z),
         Held(b.color, R),
         \A t \in Group(R, ref) : \A u \in Around(t) : b.color[u] = b.color[t] => R[u] = ref,
         \A r \in Squares : R[r] = r /\ r # ref /\ b.color[r] # EMPTY_SQUARE =>
           b.ledges[r] = Cardinality(Fed(R, r, C))
  PROVE  RemovalDone(RemoveGroup(b, n, ref), b, R, K, ref, C, Z)
<1> HIDE DEF Squares
<1> DEFINE p == b.color
           X == Group(R, ref)
           I == {a \in Agendas : RemoveInv(a, p, R, K, ref, C, Z)}
           st == RemoveStart(b, n)
           g == Gone(b, n)
<1>0. /\ \A t : t \in X <=> t \in Squares /\ R[t] = ref
      /\ n \in X /\ n \in Squares
      /\ p \in [Squares -> Stones \union {EMPTY_SQUARE}]
      /\ \A t \in X : p[t] # EMPTY_SQUARE
  <2>1. \A t : t \in X <=> t \in Squares /\ R[t] = ref
    BY DEF Group
  <2>2. p \in [Squares -> Stones \union {EMPTY_SQUARE}]
    BY DEF GoBoards
  <2>3. \A t \in X : p[t] # EMPTY_SQUARE
    <3>1. p[ref] # EMPTY_SQUARE /\ \A t \in Squares : p[R[t]] = p[t]
      BY DEF RemoveReady
    <3> QED BY <2>1, <3>1
  <2> QED BY <2>1, <2>2, <2>3
<1>1. /\ g \in GoBoards /\ g.reference = b.reference /\ g.ledges = b.ledges
      /\ g.color = [p EXCEPT ![n] = EMPTY_SQUARE]
      /\ \A Y \in SUBSET Squares : Listed(b, Y) /\ n \notin Y => Listed(g, Y \union {n})
  BY <1>0, GoneFacts, Zenon
<1>2. /\ Edges(n) \in Seq(Squares \X Squares) /\ Distinct(Edges(n))
      /\ \A d : d \in On(Edges(n)) <=> \E m \in Around(n) : d = <<n, m>>
  BY <1>0, EdgeFacts
<1>3. st \in Agendas /\ st.board = g /\ st.agenda = Edges(n)
  BY <1>1, <1>2 DEF RemoveStart, Agendas
<1> HIDE DEF p, X, st, g
<1>4. \A t \in Squares : st.board.color[t] = IF t = n THEN EMPTY_SQUARE ELSE p[t]
  BY <1>0, <1>1, <1>3
<1>5. RemovePlaces(st, p, X)
  <2>1. ASSUME NEW t \in Squares
        PROVE  st.board.color[t] = p[t] \/ (t \in X /\ st.board.color[t] = EMPTY_SQUARE)
    BY <1>0, <1>4
  <2>2. ASSUME NEW d \in On(st.agenda)
        PROVE  d[1] \in X /\ st.board.color[d[1]] = EMPTY_SQUARE /\ d[2] \in Around(d[1])
    <3>1. PICK m \in Around(n) : d = <<n, m>>
      BY <1>2, <1>3
    <3> QED BY <1>0, <1>4, <3>1
  <2>3. ASSUME NEW y \in X, st.board.color[y] = EMPTY_SQUARE, NEW t \in Around(y)
        PROVE  <<y, t>> \in On(st.agenda)
    <3>1. y = n
      BY <1>0, <1>4, <2>3
    <3> QED BY <1>2, <1>3, <3>1
  <2>4. \E y \in X : st.board.color[y] = EMPTY_SQUARE
    BY <1>0, <1>4
  <2> QED BY <2>1, <2>2, <2>3, <2>4, Zenon DEF RemovePlaces
<1>6. RemoveCounts(st, p, X, R, ref, C)
  <2> SUFFICES ASSUME NEW r \in Squares, R[r] = r, r # ref, p[r] # EMPTY_SQUARE
               PROVE  st.board.ledges[r] = Cardinality(Fed(R, r, C \union Regained(st, X)))
    BY DEF RemoveCounts
  <2>1. ASSUME NEW d, d \in Regained(st, X) PROVE FALSE
    <3>1. /\ d \in Squares \X Squares /\ d[2] \in X /\ st.board.color[d[2]] = EMPTY_SQUARE
          /\ d[2] \in Around(d[1]) /\ <<d[2], d[1]>> \notin On(st.agenda)
      BY <2>1, RegainedFacts, Zenon
    <3>2. d[2] = n /\ d[1] \in Around(n)
      BY <1>0, <1>4, <3>1, AroundFacts
    <3> QED BY <1>2, <1>3, <3>1, <3>2
  <2>2. Fed(R, r, C \union Regained(st, X)) = Fed(R, r, C)
    BY <2>1 DEF Fed
  <2>3. b.ledges[r] = Cardinality(Fed(R, r, C))
    BY DEF p
  <2> QED BY <1>1, <1>3, <2>2, <2>3
<1>7. Listed(st.board, Z \union Removed(st, X))
  <2>1. Removed(st, X) = {n}
    BY <1>0, <1>4 DEF Removed
  <2>2. Z \in SUBSET Squares /\ n \notin Z
    BY <1>0 DEF RemoveReady
  <2> QED BY <1>1, <1>3, <2>1, <2>2
<1>8. st \in I
  <2>1. Rooted(st.board.reference, R, K) /\ Distinct(st.agenda)
    BY <1>1, <1>2, <1>3
  <2> QED BY <1>3, <1>5, <1>6, <1>7, <2>1 DEF RemoveInv, X
<1>9. ASSUME NEW a \in I, a.agenda # <<>> PROVE RemoveNext(a, ref) \in I
  <2>0. RemoveReady(p, R, ref, C, Z) /\ RemoveInv(a, p, R, K, ref, C, Z) /\ a \in Agendas
    BY DEF p
  <2>1. RemoveInv(RemoveNext(a, ref), p, R, K, ref, C, Z)
    <3>1. Head(a.agenda)[2] \in Squares
      BY <1>9, <2>0, RemoveNextCases, Zenon
    <3>2. CASE a.board.color[Head(a.agenda)[2]] = EMPTY_SQUARE
      BY <1>9, <2>0, <3>2, RemoveSkips, Zenon
    <3>3. CASE a.board.color[Head(a.agenda)[2]] # EMPTY_SQUARE /\ Head(a.agenda)[2] \in Group(R, ref)
      BY <1>9, <2>0, <3>3, RemoveGoesOn, Zenon
    <3>4. CASE a.board.color[Head(a.agenda)[2]] # EMPTY_SQUARE /\ R[Head(a.agenda)[2]] # ref
      BY <1>9, <2>0, <3>4, RemoveFeeds, Zenon
    <3>5. Head(a.agenda)[2] \in Group(R, ref) \/ R[Head(a.agenda)[2]] # ref
      BY <3>1 DEF Group
    <3> QED BY <3>2, <3>3, <3>4, <3>5, Zenon
  <2>2. RemoveNext(a, ref) \in Agendas
    BY <2>1 DEF RemoveInv
  <2> QED BY <2>1, <2>2
<1>10. PICK z \in I : z.agenda = <<>> /\ RemoveGroup(b, n, ref) = z.board
  <2>1. I \in SUBSET Agendas /\ RemoveStart(b, n) \in I
        /\ \A a \in I : a.agenda # <<>> => RemoveNext(a, ref) \in I
    BY <1>8, <1>9 DEF st
  <2> HIDE DEF I
  <2>2. I \in SUBSET Agendas
    BY <2>1
  <2>3. RemoveStart(b, n) \in I
    BY <2>1
  <2>4. \A a \in I : a.agenda # <<>> => RemoveNext(a, ref) \in I
    BY <2>1
  <2> QED BY ONLY <2>2, <2>3, <2>4, RemoveGroupEnds
<1>11. /\ z \in Agendas /\ Rooted(z.board.reference, R, K)
       /\ RemovePlaces(z, p, X) /\ RemoveCounts(z, p, X, R, ref, C)
       /\ Listed(z.board, Z \union Removed(z, X))
  BY <1>10 DEF RemoveInv, X
<1>12. On(z.agenda) = {}
  <2>1. DOMAIN z.agenda = {}
    BY <1>10
  <2> QED BY <2>1 DEF On
<1>13. \A t \in X : z.board.color[t] = EMPTY_SQUARE
  <2> DEFINE G == Removed(z, X)
  <2>1. G \in SUBSET Squares
    BY <1>0 DEF Removed
  <2>2. ASSUME NEW t \in G, NEW u \in Around(t), p[u] = p[t] PROVE u \in G
    <3>1. t \in X /\ z.board.color[t] = EMPTY_SQUARE
      BY DEF Removed
    <3>2. u \in Squares /\ u \in X
      <4>1. u \in Squares
        BY <1>0, <3>1, AroundFacts
      <4>2. R[u] = ref
        BY <2>2, <3>1 DEF X, p
      <4> QED BY <1>0, <4>1, <4>2
    <3>3. z.board.color[u] = EMPTY_SQUARE
      BY <1>11, <1>12, <3>1, <3>2 DEF RemovePlaces
    <3> QED BY <3>2, <3>3 DEF Removed
  <2>3. Closed(p, G)
    BY <2>2 DEF Closed
  <2>4. PICK y \in X : z.board.color[y] = EMPTY_SQUARE
    BY <1>11 DEF RemovePlaces
  <2>5. y \in G /\ p[y] # EMPTY_SQUARE /\ R[y] = ref
    BY <1>0, <2>4 DEF Removed
  <2>6. \A u \in Squares : R[u] = R[y] => u \in G
    <3> HIDE DEF G
    <3> QED BY <2>1, <2>3, <2>5 DEF Held, p
  <2> QED BY <1>0, <2>5, <2>6 DEF Removed
<1>14. \A t \in Squares : z.board.color[t] = IF R[t] = ref THEN EMPTY_SQUARE ELSE p[t]
  BY <1>0, <1>11, <1>13 DEF RemovePlaces
<1>15. Regained(z, X) = EdgesTo(R, ref)
  <2>1. ASSUME NEW d PROVE d \in Regained(z, X) <=> d \in EdgesTo(R, ref)
    <3>1. ASSUME d \in Regained(z, X) PROVE d \in EdgesTo(R, ref)
      <4>1. d \in Squares \X Squares /\ d[2] \in X /\ d[2] \in Around(d[1])
        BY <3>1, RegainedFacts, Zenon
      <4> QED BY <1>0, <4>1 DEF EdgesTo
    <3>2. ASSUME d \in EdgesTo(R, ref) PROVE d \in Regained(z, X)
      <4>1. d \in Squares \X Squares /\ d[2] \in X /\ d[2] \in Around(d[1])
        BY <1>0, <3>2 DEF EdgesTo
      <4>2. z.board.color[d[2]] = EMPTY_SQUARE /\ <<d[2], d[1]>> \notin On(z.agenda)
        BY <1>12, <1>13, <4>1
      <4> QED BY <4>1, <4>2, RegainedFacts, Zenon
    <3> QED BY <3>1, <3>2
  <2> QED BY <2>1
<1>16. Removed(z, X) = X
  BY <1>13 DEF Removed
<1>17. z.board \in GoBoards
  BY <1>11 DEF Agendas
<1>18. RemovalDone(z.board, b, R, K, ref, C, Z)
  <2>1. \A r \in Squares : R[r] = r /\ r # ref /\ p[r] # EMPTY_SQUARE =>
          z.board.ledges[r] = Cardinality(Fed(R, r, C \union EdgesTo(R, ref)))
    BY <1>11, <1>15 DEF RemoveCounts
  <2> QED BY <1>11, <1>14, <1>16, <1>17, <2>1 DEF RemovalDone, p, X
<1> QED BY <1>10, <1>18

-----------------------------------------------------------------------------
(* Square.move *)

LEMMA RemoveGroupType ==
  ASSUME NEW b \in GoBoards, NEW s \in Squares, NEW ref
  PROVE  RemoveGroup(b, s, ref) \in GoBoards
<1> HIDE DEF Squares
<1>1. Gone(b, s) \in GoBoards
  BY GoneFacts
<1>2. Edges(s) \in Seq(Squares \X Squares)
  BY EdgeFacts
<1>3. RemoveStart(b, s) \in Agendas
  BY <1>1, <1>2 DEF RemoveStart, Agendas
<1>4. \A a \in Agendas : a.agenda # <<>> => RemoveNext(a, ref) \in Agendas
  BY RemoveNextCases
<1>5. Agendas \in SUBSET Agendas
  OBVIOUS
<1>6. PICK z \in Agendas : RemoveGroup(b, s, ref) = z.board
  BY ONLY <1>3, <1>4, <1>5, RemoveGroupEnds
<1> QED BY <1>6 DEF Agendas

(* What the loop does with a neighbour. *)
LEMMA MeetCases ==
  ASSUME NEW b \in GoBoards, NEW s \in Squares, NEW n \in Squares
  PROVE  LET ref == FindRef(b, n)
             c == Compressed(b, n)
             edges == c.ledges[ref] - 1
             m == MeetNeighbour(b, s, n)
         IN  /\ ref \in Squares /\ c \in GoBoards /\ edges \in Int
             /\ m \in GoBoards
             /\ \/ b.color[n] = EMPTY_SQUARE /\ m = [b EXCEPT !.ledges[s] = b.ledges[s] + 1]
                \/ /\ b.color[n] # EMPTY_SQUARE /\ b.color[n] = b.color[s] /\ ref = s
                   /\ m = [c EXCEPT !.ledges[ref] = edges]
                \/ /\ b.color[n] # EMPTY_SQUARE /\ b.color[n] = b.color[s] /\ ref # s
                   /\ m = [c EXCEPT !.ledges[s] = c.ledges[s] + edges, !.reference[ref] = s]
                \/ /\ b.color[n] # EMPTY_SQUARE /\ b.color[n] # b.color[s] /\ edges # 0
                   /\ m = [c EXCEPT !.ledges[ref] = edges]
                \/ /\ b.color[n] # EMPTY_SQUARE /\ b.color[n] # b.color[s] /\ edges = 0
                   /\ m = RemoveGroup([c EXCEPT !.ledges[ref] = edges], n, ref)
<1> HIDE DEF Squares
<1> DEFINE ref == FindRef(b, n)
           c == Compressed(b, n)
           edges == c.ledges[ref] - 1
           fewer == [c EXCEPT !.ledges[ref] = edges]
           joined == [c EXCEPT !.ledges[s] = c.ledges[s] + edges, !.reference[ref] = s]
           more == [b EXCEPT !.ledges[s] = b.ledges[s] + 1]
           m == MeetNeighbour(b, s, n)
<1>0. m = IF b.color[n] = EMPTY_SQUARE THEN more
          ELSE IF b.color[n] = b.color[s] THEN IF ref = s THEN fewer ELSE joined
          ELSE IF edges = 0 THEN RemoveGroup(fewer, n, ref) ELSE fewer
  BY Zenon DEF MeetNeighbour
<1>1. ref \in Squares /\ c \in GoBoards
  <2>1. b.reference \in [Squares -> Squares]
    BY DEF GoBoards
  <2>2. ref \in Squares
    BY <2>1, FindRefType
  <2>3. c \in GoBoards
    BY CompressedType
  <2> QED BY <2>2, <2>3
<1> HIDE DEF ref, c
<1>2. edges \in Int /\ c.ledges[s] + edges \in Int /\ b.ledges[s] + 1 \in Int
  <2>1. b.ledges[s] \in Int /\ c.ledges[s] \in Int /\ c.ledges[ref] \in Int
    BY <1>1 DEF GoBoards
  <2> QED BY <2>1
<1> HIDE DEF edges
<1>3. more \in GoBoards
  BY <1>2, LedgeFacts
<1>4. fewer \in GoBoards
  BY <1>1, <1>2, LedgeFacts
<1>5. joined \in GoBoards
  <2> DEFINE l == [c.ledges EXCEPT ![s] = c.ledges[s] + edges]
             r == [c.reference EXCEPT ![ref] = s]
  <2>1. l \in [Squares -> Int] /\ r \in [Squares -> Squares]
    BY <1>1, <1>2 DEF GoBoards
  <2>2. joined = [c EXCEPT !.ledges = l, !.reference = r]
    BY <1>1 DEF GoBoards
  <2> HIDE DEF l, r
  <2> QED BY <1>1, <2>1, <2>2 DEF GoBoards
<1>6. RemoveGroup(fewer, n, ref) \in GoBoards
  BY <1>4, RemoveGroupType
<1> HIDE DEF fewer, joined, more, m
<1>7. m \in GoBoards
  BY <1>0, <1>3, <1>4, <1>5, <1>6
<1> QED BY <1>0, <1>1, <1>2, <1>7, Zenon DEF fewer, joined, more, m, ref, c, edges

MeetNext(a, s) == [board |-> MeetNeighbour(a.board, s, Head(a.agenda)[2]), agenda |-> Tail(a.agenda)]
MeetLoop(f, s) ==
  f = [a \in Agendas |-> IF a.agenda = <<>> THEN a.board ELSE f[MeetNext(a, s)]]
MeetStart(b, s, c) == [board |-> NewStone(b, s, c), agenda |-> Edges(s)]

LEMMA MeetNextType ==
  ASSUME NEW a \in Agendas, a.agenda # <<>>, NEW s \in Squares
  PROVE  /\ MeetNext(a, s) \in Agendas
         /\ Head(a.agenda) \in Squares \X Squares /\ Head(a.agenda)[2] \in Squares
         /\ Tail(a.agenda) \in Seq(Squares \X Squares)
         /\ Len(Tail(a.agenda)) = Len(a.agenda) - 1 /\ Len(a.agenda) \in Nat
<1> HIDE DEF Squares
<1>1. a.board \in GoBoards /\ a.agenda \in Seq(Squares \X Squares)
  BY DEF Agendas
<1>2. /\ Head(a.agenda) \in Squares \X Squares /\ Tail(a.agenda) \in Seq(Squares \X Squares)
      /\ Len(Tail(a.agenda)) = Len(a.agenda) - 1 /\ Len(a.agenda) \in Nat
  BY <1>1, OnHeadTail, Zenon
<1>3. Head(a.agenda)[2] \in Squares
  BY <1>2
<1>4. MeetNeighbour(a.board, s, Head(a.agenda)[2]) \in GoBoards
  BY <1>1, <1>3, MeetCases, Zenon
<1> QED BY <1>2, <1>3, <1>4 DEF MeetNext, Agendas

(* What every turn of the loop keeps holds where it ends. *)
LEMMA MeetEnds ==
  ASSUME NEW b, NEW s \in Squares, NEW c, NEW I \in SUBSET Agendas, MeetStart(b, s, c) \in I,
         \A a \in I : a.agenda # <<>> => MeetNext(a, s) \in I
  PROVE  \E z \in I : z.agenda = <<>> /\ Placed(b, s, c) = RemoveEmpty(z.board, s)
<1> HIDE DEF Squares
<1> DEFINE S == {a \in Agendas : a.agenda = <<>>}
           N == [a \in Agendas |-> IF a.agenda = <<>> THEN a ELSE MeetNext(a, s)]
           O == [a \in Agendas |-> a.board]
           M == [a \in Agendas |-> Len(a.agenda)]
<1>1. N \in [Agendas -> Agendas]
  <2>1. \A a \in Agendas : a.agenda # <<>> => MeetNext(a, s) \in Agendas
    BY MeetNextType
  <2> QED BY <2>1
<1>2. \A f : Loop(f, Agendas, S, N, O) <=> MeetLoop(f, s)
  <2> SUFFICES ASSUME NEW f
               PROVE  Loop(f, Agendas, S, N, O) <=> MeetLoop(f, s)
    OBVIOUS
  <2>1. [a \in Agendas |-> IF a \in S THEN O[a] ELSE f[N[a]]]
        = [a \in Agendas |-> IF a.agenda = <<>> THEN a.board ELSE f[MeetNext(a, s)]]
    OBVIOUS
  <2> QED BY <2>1, Zenon DEF Loop, MeetLoop
<1>3. M \in [Agendas -> Nat]
  BY LenProperties DEF Agendas
<1>4. \A a \in Agendas : a \notin S => M[N[a]] < M[a]
  <2> SUFFICES ASSUME NEW a \in Agendas, a.agenda # <<>> PROVE M[N[a]] < M[a]
    OBVIOUS
  <2>1. N[a] = MeetNext(a, s) /\ N[a] \in Agendas
    BY <1>1
  <2>2. Len(MeetNext(a, s).agenda) = Len(a.agenda) - 1 /\ Len(a.agenda) \in Nat
    BY MeetNextType DEF MeetNext
  <2> QED BY <2>1, <2>2
<1>5. \A a \in I : a \notin S => N[a] \in I
  OBVIOUS
<1>6. \E f : MeetLoop(f, s)
  <2>1. \E f : Loop(f, Agendas, S, N, O)
    <3> HIDE DEF S, N, O
    <3> QED BY <1>1, LoopExists
  <2> QED BY <1>2, <2>1
<1> DEFINE g == CHOOSE f : MeetLoop(f, s)
<1>7. MeetLoop(g, s)
  BY <1>6, Zenon
<1>8. Placed(b, s, c) = RemoveEmpty(g[MeetStart(b, s, c)], s)
  BY Zenon DEF Placed, MeetLoop, MeetNext, MeetStart
<1> HIDE DEF g
<1>9. Loop(g, Agendas, S, N, O)
  BY <1>2, <1>7
<1>10. \A a \in I : \E z \in I : z \in S /\ g[a] = O[z]
  <2> HIDE DEF S, N, O, M
  <2> QED BY <1>1, <1>3, <1>4, <1>5, <1>9, LoopStops
<1>11. PICK z \in I : z \in S /\ g[MeetStart(b, s, c)] = O[z]
  BY <1>10
<1>12. g[MeetStart(b, s, c)] = z.board /\ z.agenda = <<>>
  BY <1>11
<1> QED BY <1>8, <1>12

-----------------------------------------------------------------------------
(* The loop of Square.move.  R and K are as before; Q has the pairs of the *)
(* new stone s and a neighbour that the loop still has to meet; p is the   *)
(* position when it begins, in which the stone is there and nothing was    *)
(* captured.                                                               *)

\* the edges that count: s as seen from a neighbour counts until they met
Due(k, s, Q) ==
  {d \in Squares \X Squares :
     /\ d[2] \in Around(d[1])
     /\ IF d[1] = s THEN k[d[2]] = EMPTY_SQUARE /\ d \notin Q
        ELSE IF d[2] = s THEN <<s, d[1]>> \in Q ELSE k[d[2]] = EMPTY_SQUARE}

\* t is in a group that has no edges left
Starved(p, t) ==
  \E G \in SUBSET Squares : /\ t \in G /\ Closed(p, G)
                            /\ \A u \in G : \A v \in Around(u) : p[v] # EMPTY_SQUARE

\* k is p without what was captured
MeetColors(k, p, s) ==
  /\ p \in [Squares -> Stones \union {EMPTY_SQUARE}] /\ p[s] # EMPTY_SQUARE
  /\ \A t \in Squares :
       k[t] = p[t] \/ (k[t] = EMPTY_SQUARE /\ p[t] = Opponent(p[s]) /\ Starved(p, t))
  /\ \A t \in Squares : \A u \in Around(t) : k[t] # p[t] /\ p[u] = p[t] => k[u] # p[u]
  /\ (\A t \in Squares : k[t] = p[t]) \/ \E n \in Around(s) : k[n] = EMPTY_SQUARE

Linked(k, R, Q) ==
  \A t \in Squares : \A u \in Around(t) :
    k[u] = k[t] /\ k[t] # EMPTY_SQUARE => R[u] = R[t] \/ <<t, u>> \in Q \/ <<u, t>> \in Q

Counts(l, k, R, s, C) ==
  \A r \in Squares : R[r] = r /\ k[r] # EMPTY_SQUARE =>
    l[r] = Cardinality(Fed(R, r, C)) /\ (r # s => l[r] # 0)

Empty(k) == {t \in Squares : k[t] = EMPTY_SQUARE}

MeetInv(b, Q, R, K, s, p) ==
  /\ b \in GoBoards /\ Rooted(b.reference, R, K)
  /\ s \in Squares /\ R[s] = s /\ K[s] = 0 /\ \A t \in Squares : t # s => K[t] # 0
  /\ Q \in SUBSET (Squares \X Squares) /\ \A d \in Q : d[1] = s /\ d[2] \in Around(s)
  /\ \A t \in Squares : b.color[R[t]] = b.color[t]
  /\ MeetColors(b.color, p, s)
  /\ Linked(b.color, R, Q)
  /\ Held(b.color, R)
  /\ Counts(b.ledges, b.color, R, s, Due(b.color, s, Q))
  /\ Listed(b, Empty(b.color) \union {s})

LEMMA DueFacts ==
  ASSUME NEW k, NEW s, NEW Q
  PROVE  /\ Due(k, s, Q) \subseteq Squares \X Squares
         /\ \A x \in Squares : \A y \in Squares :
              <<x, y>> \in Due(k, s, Q) <=>
                /\ y \in Around(x)
                /\ x = s => k[y] = EMPTY_SQUARE /\ <<x, y>> \notin Q
                /\ x # s /\ y = s => <<s, x>> \in Q
                /\ x # s /\ y # s => k[y] = EMPTY_SQUARE
<1> HIDE DEF Squares
<1>1. Due(k, s, Q) \subseteq Squares \X Squares
  BY DEF Due
<1>2. ASSUME NEW x \in Squares, NEW y \in Squares
      PROVE  <<x, y>> \in Due(k, s, Q) <=>
                /\ y \in Around(x)
                /\ x = s => k[y] = EMPTY_SQUARE /\ <<x, y>> \notin Q
                /\ x # s /\ y = s => <<s, x>> \in Q
                /\ x # s /\ y # s => k[y] = EMPTY_SQUARE
  <2>1. <<x, y>>[1] = x /\ <<x, y>>[2] = y /\ <<x, y>> \in Squares \X Squares
    OBVIOUS
  <2>2. <<x, y>> \in Due(k, s, Q) <=>
          /\ <<x, y>> \in Squares \X Squares /\ y \in Around(x)
          /\ IF x = s THEN k[y] = EMPTY_SQUARE /\ <<x, y>> \notin Q
             ELSE IF y = s THEN <<s, x>> \in Q ELSE k[y] = EMPTY_SQUARE
    BY <2>1, Zenon DEF Due
  <2>3. CASE x = s
    BY <2>1, <2>2, <2>3, Zenon
  <2>4. CASE x # s /\ y = s
    BY <2>1, <2>2, <2>4, Zenon
  <2>5. CASE x # s /\ y # s
    BY <2>1, <2>2, <2>5, Zenon
  <2> QED BY <2>3, <2>4, <2>5, Zenon
<1> QED BY <1>1, <1>2, Zenon

LEMMA SamePairs ==
  ASSUME NEW C \in SUBSET (Squares \X Squares), NEW D \in SUBSET (Squares \X Squares),
         \A x \in Squares : \A y \in Squares : <<x, y>> \in C <=> <<x, y>> \in D
  PROVE  C = D
<1> HIDE DEF Squares
<1> QED OBVIOUS

LEMMA FedFinite ==
  ASSUME NEW C \in SUBSET (Squares \X Squares), NEW R, NEW r
  PROVE  IsFiniteSet(Fed(R, r, C)) /\ Cardinality(Fed(R, r, C)) \in Nat
<1> HIDE DEF Squares
<1>1. Fed(R, r, C) \in SUBSET (Squares \X Squares)
  BY DEF Fed
<1> QED BY <1>1, PairFinite

(* A stone that was met no longer has the edge to s. *)
LEMMA DueMet ==
  ASSUME NEW k, NEW s \in Squares, NEW Q, NEW n \in Squares, n \in Around(s), <<s, n>> \in Q,
         k[n] # EMPTY_SQUARE
  PROVE  /\ Due(k, s, Q \ {<<s, n>>}) = Due(k, s, Q) \ {<<n, s>>}
         /\ <<n, s>> \in Due(k, s, Q)
<1> HIDE DEF Squares
<1>1. n # s /\ s \in Around(n)
  BY AroundFacts
<1>2. PICK P : P = Q \ {<<s, n>>}
  OBVIOUS
<1>3. /\ Due(k, s, Q) \subseteq Squares \X Squares
      /\ \A x \in Squares : \A y \in Squares :
           <<x, y>> \in Due(k, s, Q) <=>
             /\ y \in Around(x)
             /\ x = s => k[y] = EMPTY_SQUARE /\ <<x, y>> \notin Q
             /\ x # s /\ y = s => <<s, x>> \in Q
             /\ x # s /\ y # s => k[y] = EMPTY_SQUARE
  BY DueFacts
<1>4. /\ Due(k, s, P) \subseteq Squares \X Squares
      /\ \A x \in Squares : \A y \in Squares :
           <<x, y>> \in Due(k, s, P) <=>
             /\ y \in Around(x)
             /\ x = s => k[y] = EMPTY_SQUARE /\ <<x, y>> \notin P
             /\ x # s /\ y = s => <<s, x>> \in P
             /\ x # s /\ y # s => k[y] = EMPTY_SQUARE
  BY DueFacts
<1>5. <<n, s>> \in Due(k, s, Q)
  BY <1>1, <1>3
<1>6. ASSUME NEW x \in Squares, NEW y \in Squares
      PROVE  <<x, y>> \in Due(k, s, P) <=> <<x, y>> \in Due(k, s, Q) \ {<<n, s>>}
  BY <1>1, <1>2, <1>3, <1>4
<1>7. Due(k, s, P) = Due(k, s, Q) \ {<<n, s>>}
  <2>1. Due(k, s, Q) \ {<<n, s>>} \in SUBSET (Squares \X Squares)
    BY <1>3
  <2>2. Due(k, s, P) \in SUBSET (Squares \X Squares)
    BY <1>4
  <2> QED BY ONLY <1>6, <2>1, <2>2, SamePairs
<1> QED BY <1>2, <1>5, <1>7

(* The stone gains the edge to an empty neighbour. *)
LEMMA DueSeen ==
  ASSUME NEW k, NEW s \in Squares, NEW Q, NEW n \in Squares, n \in Around(s), <<s, n>> \in Q,
         k[n] = EMPTY_SQUARE
  PROVE  /\ Due(k, s, Q \ {<<s, n>>}) = (Due(k, s, Q) \union {<<s, n>>}) \ {<<n, s>>}
         /\ <<s, n>> \notin Due(k, s, Q)
<1> HIDE DEF Squares
<1>1. n # s /\ s \in Around(n)
  BY AroundFacts
<1>2. PICK P : P = Q \ {<<s, n>>}
  OBVIOUS
<1>3. /\ Due(k, s, Q) \subseteq Squares \X Squares
      /\ \A x \in Squares : \A y \in Squares :
           <<x, y>> \in Due(k, s, Q) <=>
             /\ y \in Around(x)
             /\ x = s => k[y] = EMPTY_SQUARE /\ <<x, y>> \notin Q
             /\ x # s /\ y = s => <<s, x>> \in Q
             /\ x # s /\ y # s => k[y] = EMPTY_SQUARE
  BY DueFacts
<1>4. /\ Due(k, s, P) \subseteq Squares \X Squares
      /\ \A x \in Squares : \A y \in Squares :
           <<x, y>> \in Due(k, s, P) <=>
             /\ y \in Around(x)
             /\ x = s => k[y] = EMPTY_SQUARE /\ <<x, y>> \notin P
             /\ x # s /\ y = s => <<s, x>> \in P
             /\ x # s /\ y # s => k[y] = EMPTY_SQUARE
  BY DueFacts
<1>5. <<s, n>> \notin Due(k, s, Q)
  BY <1>1, <1>3
<1>6. ASSUME NEW x \in Squares, NEW y \in Squares
      PROVE  <<x, y>> \in Due(k, s, P) <=> <<x, y>> \in (Due(k, s, Q) \union {<<s, n>>}) \ {<<n, s>>}
  BY <1>1, <1>2, <1>3, <1>4
<1>7. Due(k, s, P) = (Due(k, s, Q) \union {<<s, n>>}) \ {<<n, s>>}
  <2>1. (Due(k, s, Q) \union {<<s, n>>}) \ {<<n, s>>} \in SUBSET (Squares \X Squares)
    BY <1>3
  <2>2. Due(k, s, P) \in SUBSET (Squares \X Squares)
    BY <1>4
  <2> QED BY ONLY <1>6, <2>1, <2>2, SamePairs
<1> QED BY <1>2, <1>5, <1>7

-----------------------------------------------------------------------------
(* One turn of the loop. *)

LEMMA FedLoses ==
  ASSUME NEW C \in SUBSET (Squares \X Squares), NEW d \in C, NEW R, NEW r
  PROVE  /\ R[d[1]] = r => Cardinality(Fed(R, r, C \ {d})) = Cardinality(Fed(R, r, C)) - 1
         /\ R[d[1]] # r => Fed(R, r, C \ {d}) = Fed(R, r, C)
<1> HIDE DEF Squares
<1>1. ASSUME R[d[1]] = r
      PROVE  Cardinality(Fed(R, r, C \ {d})) = Cardinality(Fed(R, r, C)) - 1
  <2>1. PICK F : F = Fed(R, r, C)
    OBVIOUS
  <2>2. Fed(R, r, C \ {d}) = F \ {d} /\ d \in F
    BY <1>1, <2>1 DEF Fed
  <2>3. IsFiniteSet(F)
    BY <2>1, FedFinite
  <2>4. Cardinality(F \ {d}) = Cardinality(F) - 1
    BY <2>2, <2>3, FS_RemoveElement
  <2> QED BY <2>1, <2>2, <2>4
<1>2. ASSUME R[d[1]] # r
      PROVE  Fed(R, r, C \ {d}) = Fed(R, r, C)
  BY <1>2 DEF Fed
<1> QED BY <1>1, <1>2

LEMMA FedGains ==
  ASSUME NEW C \in SUBSET (Squares \X Squares), NEW d \in Squares \X Squares, d \notin C, NEW R, NEW r
  PROVE  /\ R[d[1]] = r => Cardinality(Fed(R, r, C \union {d})) = Cardinality(Fed(R, r, C)) + 1
         /\ R[d[1]] # r => Fed(R, r, C \union {d}) = Fed(R, r, C)
<1> HIDE DEF Squares
<1>1. ASSUME R[d[1]] = r
      PROVE  Cardinality(Fed(R, r, C \union {d})) = Cardinality(Fed(R, r, C)) + 1
  <2>1. Fed(R, r, C \union {d}) = Fed(R, r, C) \union {d} /\ d \notin Fed(R, r, C)
    BY <1>1 DEF Fed
  <2>2. IsFiniteSet(Fed(R, r, C))
    BY FedFinite
  <2> QED BY <2>1, <2>2, FS_AddElement
<1>2. ASSUME R[d[1]] # r
      PROVE  Fed(R, r, C \union {d}) = Fed(R, r, C)
  BY <1>2 DEF Fed
<1> QED BY <1>1, <1>2

LEMMA MeetFacts ==
  ASSUME NEW b, NEW Q, NEW R, NEW K, NEW s, NEW p, NEW n,
         MeetInv(b, Q, R, K, s, p), <<s, n>> \in Q
  PROVE  /\ b \in GoBoards /\ b.color \in [Squares -> Stones \union {EMPTY_SQUARE}]
         /\ b.ledges \in [Squares -> Int]
         /\ s \in Squares /\ n \in Squares /\ n \in Around(s) /\ n # s /\ s \in Around(n)
         /\ R \in [Squares -> Squares] /\ R[n] \in Squares /\ R[R[n]] = R[n] /\ R[s] = s
         /\ b.color[R[n]] = b.color[n]
         /\ FindRef(b, n) = R[n]
         /\ p \in [Squares -> Stones \union {EMPTY_SQUARE}]
         /\ b.color[s] = p[s] /\ p[s] \in Stones /\ Opponent(p[s]) # p[s] /\ Opponent(p[s]) # EMPTY_SQUARE
         /\ Due(b.color, s, Q) \in SUBSET (Squares \X Squares)
<1> HIDE DEF Squares
<1>1. /\ b \in GoBoards /\ Rooted(b.reference, R, K) /\ s \in Squares /\ R[s] = s
      /\ Q \in SUBSET (Squares \X Squares) /\ \A d \in Q : d[1] = s /\ d[2] \in Around(s)
      /\ \A t \in Squares : b.color[R[t]] = b.color[t]
      /\ MeetColors(b.color, p, s)
  BY DEF MeetInv
<1>2. n \in Squares /\ n \in Around(s)
  BY <1>1
<1>3. n # s /\ s \in Around(n)
  BY <1>1, <1>2, AroundFacts
<1>4. R \in [Squares -> Squares] /\ R[n] \in Squares /\ R[R[n]] = R[n]
  BY <1>1, <1>2 DEF Rooted
<1>5. FindRef(b, n) = R[n]
  <2>r. Ranked(b, R, K)
    BY <1>1, <1>2 DEF Ranked
  <2>f. Finds(b, R)
    BY <2>r, RankedFinds
  <2> QED BY <1>2, <2>f DEF Finds
<1>6. b.color \in [Squares -> Stones \union {EMPTY_SQUARE}] /\ b.ledges \in [Squares -> Int]
  BY <1>1 DEF GoBoards
<1>7. /\ p \in [Squares -> Stones \union {EMPTY_SQUARE}] /\ p[s] # EMPTY_SQUARE
      /\ \A t \in Squares : b.color[t] = p[t] \/ (b.color[t] = EMPTY_SQUARE /\ p[t] = Opponent(p[s]))
  BY <1>1 DEF MeetColors
<1>8. p[s] \in Stones /\ Opponent(p[s]) # p[s] /\ Opponent(p[s]) # EMPTY_SQUARE
  BY <1>1, <1>7 DEF Stones, Opponent, WHITE, BLACK, EMPTY_SQUARE
<1>9. b.color[s] = p[s]
  BY <1>1, <1>7, <1>8
<1>10. Due(b.color, s, Q) \in SUBSET (Squares \X Squares)
  BY DueFacts
<1> QED BY <1>1, <1>2, <1>3, <1>4, <1>5, <1>6, <1>7, <1>8, <1>9, <1>10

(* A turn that takes nothing and joins nothing. *)
LEMMA MeetKeeps ==
  ASSUME NEW b, NEW Q, NEW R, NEW K, NEW s, NEW p, NEW n, NEW m,
         MeetInv(b, Q, R, K, s, p), <<s, n>> \in Q,
         m \in GoBoards, Rooted(m.reference, R, K), m.color = b.color,
         m.empties = b.empties, m.place = b.place,
         b.color[n] = b.color[s] => R[n] = s,
         Counts(m.ledges, b.color, R, s, Due(b.color, s, Q \ {<<s, n>>}))
  PROVE  MeetInv(m, Q \ {<<s, n>>}, R, K, s, p)
<1> HIDE DEF Squares
<1>1. /\ s \in Squares /\ R[s] = s /\ K[s] = 0 /\ \A t \in Squares : t # s => K[t] # 0
      /\ Q \in SUBSET (Squares \X Squares) /\ \A d \in Q : d[1] = s /\ d[2] \in Around(s)
      /\ \A t \in Squares : b.color[R[t]] = b.color[t]
      /\ MeetColors(b.color, p, s)
      /\ Linked(b.color, R, Q)
      /\ Held(b.color, R)
      /\ Listed(b, Empty(b.color) \union {s})
  BY DEF MeetInv
<1>2. Linked(b.color, R, Q \ {<<s, n>>})
  <2> SUFFICES ASSUME NEW t \in Squares, NEW u \in Around(t), b.color[u] = b.color[t], b.color[t] # EMPTY_SQUARE
               PROVE  R[u] = R[t] \/ <<t, u>> \in Q \ {<<s, n>>} \/ <<u, t>> \in Q \ {<<s, n>>}
    BY DEF Linked
  <2>1. R[u] = R[t] \/ <<t, u>> \in Q \/ <<u, t>> \in Q
    BY <1>1 DEF Linked
  <2>2. CASE <<t, u>> = <<s, n>> \/ <<u, t>> = <<s, n>>
    BY <1>1, <2>2
  <2>3. CASE <<t, u>> # <<s, n>> /\ <<u, t>> # <<s, n>>
    BY <2>1, <2>3
  <2> QED BY <2>2, <2>3
<1>3. Listed(m, Empty(b.color) \union {s})
  BY <1>1 DEF Listed
<1>4. /\ Q \ {<<s, n>>} \in SUBSET (Squares \X Squares)
      /\ \A d \in Q \ {<<s, n>>} : d[1] = s /\ d[2] \in Around(s)
  BY <1>1
<1> QED BY <1>1, <1>2, <1>3, <1>4, Zenon DEF MeetInv

LEMMA MeetsEmpty ==
  ASSUME NEW b, NEW Q, NEW R, NEW K, NEW s, NEW p, NEW n,
         MeetInv(b, Q, R, K, s, p), <<s, n>> \in Q, b.color[n] = EMPTY_SQUARE
  PROVE  MeetInv([b EXCEPT !.ledges[s] = b.ledges[s] + 1], Q \ {<<s, n>>}, R, K, s, p)
<1> HIDE DEF Squares
<1> DEFINE v == b.ledges[s] + 1
           m == [b EXCEPT !.ledges[s] = v]
           C == Due(b.color, s, Q)
<1>1. /\ b \in GoBoards /\ b.ledges \in [Squares -> Int]
      /\ s \in Squares /\ n \in Squares /\ n \in Around(s) /\ n # s
      /\ R \in [Squares -> Squares] /\ R[s] = s
      /\ b.color[R[n]] = b.color[n] /\ b.color[s] # EMPTY_SQUARE
      /\ C \in SUBSET (Squares \X Squares)
  BY MeetFacts DEF Stones, WHITE, BLACK, EMPTY_SQUARE
<1>2. v \in Int /\ v = b.ledges[s] + 1
  BY <1>1
<1> HIDE DEF v
<1>3. /\ m \in GoBoards /\ m.ledges = [b.ledges EXCEPT ![s] = v]
      /\ m.color = b.color /\ m.reference = b.reference
      /\ m.empties = b.empties /\ m.place = b.place
  BY <1>1, <1>2, LedgeFacts
<1>4. Rooted(b.reference, R, K) /\ Counts(b.ledges, b.color, R, s, C)
  BY DEF MeetInv
<1>5. /\ Due(b.color, s, Q \ {<<s, n>>}) = (C \union {<<s, n>>}) \ {<<n, s>>}
      /\ <<s, n>> \notin C
  BY <1>1, DueSeen
<1> HIDE DEF C, m
<1>6. Counts(m.ledges, b.color, R, s, Due(b.color, s, Q \ {<<s, n>>}))
  <2> SUFFICES ASSUME NEW r \in Squares, R[r] = r, b.color[r] # EMPTY_SQUARE
               PROVE  /\ m.ledges[r] = Cardinality(Fed(R, r, (C \union {<<s, n>>}) \ {<<n, s>>}))
                      /\ r # s => m.ledges[r] # 0
    BY <1>5 DEF Counts
  <2>1. b.ledges[r] = Cardinality(Fed(R, r, C)) /\ (r # s => b.ledges[r] # 0)
    BY <1>4 DEF Counts
  <2>2. Fed(R, r, (C \union {<<s, n>>}) \ {<<n, s>>}) = Fed(R, r, C \union {<<s, n>>})
    BY <1>1 DEF Fed
  <2>3. <<s, n>> \in Squares \X Squares /\ <<s, n>>[1] = s
    BY <1>1
  <2>4. CASE r = s
    <3>1. Cardinality(Fed(R, r, C \union {<<s, n>>})) = Cardinality(Fed(R, r, C)) + 1
      BY <1>1, <1>5, <2>3, <2>4, FedGains
    <3> QED BY <1>1, <1>2, <1>3, <2>1, <2>2, <2>4, <3>1
  <2>5. CASE r # s
    <3>1. Fed(R, r, C \union {<<s, n>>}) = Fed(R, r, C)
      BY <1>1, <1>5, <2>3, <2>5, FedGains
    <3> QED BY <1>1, <1>3, <2>1, <2>2, <2>5, <3>1
  <2> QED BY <2>4, <2>5
<1>7. b.color[n] = b.color[s] => R[n] = s
  BY <1>1
<1>8. MeetInv(m, Q \ {<<s, n>>}, R, K, s, p)
  <2>1. Rooted(m.reference, R, K)
    BY <1>3, <1>4
  <2> QED BY <1>3, <1>6, <1>7, <2>1, MeetKeeps
<1> QED BY <1>8 DEF m, v

(* A neighbour of a group that keeps its root loses its edge. *)
LEMMA MeetsStone ==
  ASSUME NEW b, NEW Q, NEW R, NEW K, NEW s, NEW p, NEW n,
         MeetInv(b, Q, R, K, s, p), <<s, n>> \in Q, b.color[n] # EMPTY_SQUARE,
         b.color[n] = b.color[s] => R[n] = s,
         R[n] # s => b.ledges[R[n]] - 1 # 0
  PROVE  LET c == Compressed(b, n)
         IN  MeetInv([c EXCEPT !.ledges[R[n]] = c.ledges[R[n]] - 1], Q \ {<<s, n>>}, R, K, s, p)
<1> HIDE DEF Squares
<1> DEFINE c == Compressed(b, n)
           ref == R[n]
           v == c.ledges[ref] - 1
           m == [c EXCEPT !.ledges[ref] = v]
           C == Due(b.color, s, Q)
<1>1. /\ b \in GoBoards /\ b.ledges \in [Squares -> Int]
      /\ s \in Squares /\ n \in Squares /\ n \in Around(s) /\ n # s
      /\ R \in [Squares -> Squares] /\ ref \in Squares /\ R[ref] = ref
      /\ b.color[ref] = b.color[n]
      /\ C \in SUBSET (Squares \X Squares)
  BY MeetFacts
<1>2. Rooted(b.reference, R, K) /\ Counts(b.ledges, b.color, R, s, C)
  BY DEF MeetInv
<1>3. /\ c \in GoBoards /\ Rooted(c.reference, R, K)
      /\ c.color = b.color /\ c.ledges = b.ledges /\ c.empties = b.empties /\ c.place = b.place
  <2>1. Ranked(b, R, K) /\ n \in Squares
    BY <1>1, <1>2 DEF Ranked
  <2>2. Ranked(c, R, K) /\ OnlyReferences(c, b)
    BY <2>1, RankedCompressed
  <2> QED BY <2>2 DEF Ranked, OnlyReferences
<1> HIDE DEF c, ref, C
<1>4. v \in Int /\ v = c.ledges[ref] - 1
  BY <1>1, <1>3
<1> HIDE DEF v
<1>5. /\ m \in GoBoards /\ m.ledges = [c.ledges EXCEPT ![ref] = v]
      /\ m.color = c.color /\ m.reference = c.reference
      /\ m.empties = c.empties /\ m.place = c.place
  BY <1>1, <1>3, <1>4, LedgeFacts
<1>6. /\ Due(b.color, s, Q \ {<<s, n>>}) = C \ {<<n, s>>}
      /\ <<n, s>> \in C
  BY <1>1, DueMet DEF C
<1> HIDE DEF m
<1>7. Counts(m.ledges, b.color, R, s, Due(b.color, s, Q \ {<<s, n>>}))
  <2> SUFFICES ASSUME NEW r \in Squares, R[r] = r, b.color[r] # EMPTY_SQUARE
               PROVE  /\ m.ledges[r] = Cardinality(Fed(R, r, C \ {<<n, s>>}))
                      /\ r # s => m.ledges[r] # 0
    BY <1>6 DEF Counts
  <2>1. b.ledges[r] = Cardinality(Fed(R, r, C)) /\ (r # s => b.ledges[r] # 0)
    BY <1>2 DEF Counts
  <2>2. <<n, s>>[1] = n /\ R[n] = ref
    BY DEF ref
  <2>3. CASE r = ref
    <3>1. Cardinality(Fed(R, r, C \ {<<n, s>>})) = Cardinality(Fed(R, r, C)) - 1
      BY <1>1, <1>6, <2>2, <2>3, FedLoses
    <3>2. r # s => b.ledges[r] - 1 # 0
      BY <2>3 DEF ref
    <3> QED BY <1>1, <1>3, <1>4, <1>5, <2>1, <2>3, <3>1, <3>2
  <2>4. CASE r # ref
    <3>1. Fed(R, r, C \ {<<n, s>>}) = Fed(R, r, C)
      BY <1>1, <1>6, <2>2, <2>4, FedLoses
    <3> QED BY <1>1, <1>3, <1>5, <2>1, <2>4, <3>1
  <2> QED BY <2>3, <2>4
<1>8. MeetInv(m, Q \ {<<s, n>>}, R, K, s, p)
  <2>1. Rooted(m.reference, R, K) /\ m.color = b.color /\ m.empties = b.empties /\ m.place = b.place
    BY <1>3, <1>5
  <2> QED BY <1>5, <1>7, <2>1, MeetKeeps
<1> QED BY <1>8, Zenon DEF m, v, c, ref

-----------------------------------------------------------------------------
(* The stone joins the group with the root ref. *)
Joined(R, ref, s) == [t \in Squares |-> IF R[t] = ref THEN s ELSE R[t]]

LEMMA JoinedRooted ==
  ASSUME NEW f, NEW R, NEW K, NEW ref \in Squares, NEW s \in Squares, Rooted(f, R, K),
         R[s] = s, R[ref] = ref, ref # s, K[s] = 0, \A t \in Squares : t # s => K[t] # 0
  PROVE  Rooted([f EXCEPT ![ref] = s], Joined(R, ref, s), K)
<1> HIDE DEF Squares
<1> DEFINE g == [f EXCEPT ![ref] = s]
           R2 == Joined(R, ref, s)
<1>1. /\ f \in [Squares -> Squares] /\ R \in [Squares -> Squares] /\ K \in [Squares -> Nat]
      /\ \A t \in Squares : /\ R[f[t]] = R[t] /\ R[R[t]] = R[t]
                            /\ IF R[t] = t THEN f[t] = t
                               ELSE f[t] # t /\ K[f[t]] < K[t] /\ K[R[t]] < K[t]
  BY DEF Rooted
<1>2. \A t \in Squares : R2[t] = IF R[t] = ref THEN s ELSE R[t]
  BY DEF Joined
<1>3. \A t \in Squares : g[t] = IF t = ref THEN s ELSE f[t]
  BY <1>1
<1>4. g \in [Squares -> Squares] /\ R2 \in [Squares -> Squares]
  BY <1>1 DEF Joined
<1> HIDE DEF g, R2
<1>5. ASSUME NEW t \in Squares
      PROVE  /\ R2[g[t]] = R2[t] /\ R2[R2[t]] = R2[t]
             /\ IF R2[t] = t THEN g[t] = t
                ELSE g[t] # t /\ K[g[t]] < K[t] /\ K[R2[t]] < K[t]
  <2>1. /\ R[f[t]] = R[t] /\ R[R[t]] = R[t] /\ f[t] \in Squares /\ R[t] \in Squares
        /\ IF R[t] = t THEN f[t] = t
           ELSE f[t] # t /\ K[f[t]] < K[t] /\ K[R[t]] < K[t]
    BY <1>1
  <2>2. K[t] \in Nat /\ (t # s => K[t] > 0)
    BY <1>1
  <2>3. R2[s] = s
    BY <1>2
  <2>4. CASE t = ref
    <3>1. g[t] = s /\ R2[t] = s
      BY <1>2, <1>3, <2>4
    <3> QED BY <2>2, <2>3, <2>4, <3>1
  <2>5. CASE t # ref /\ R[t] = ref
    <3>1. g[t] = f[t] /\ R2[t] = s /\ R2[f[t]] = s /\ t # s
      BY <1>2, <1>3, <2>1, <2>5
    <3> QED BY <2>1, <2>2, <2>3, <2>5, <3>1
  <2>6. CASE t # ref /\ R[t] # ref
    <3>1. g[t] = f[t] /\ R2[t] = R[t] /\ R2[f[t]] = R[t] /\ R2[R[t]] = R[t]
      BY <1>2, <1>3, <2>1, <2>6
    <3> QED BY <2>1, <2>6, <3>1
  <2> QED BY <2>4, <2>5, <2>6
<1> QED BY <1>1, <1>4, <1>5 DEF Rooted, g, R2

LEMMA JoinedHeld ==
  ASSUME NEW k, NEW R \in [Squares -> Squares], NEW ref \in Squares, NEW s \in Squares, NEW n \in Squares,
         Held(k, R), R[s] = s, R[n] = ref, n \in Around(s), k[n] = k[s], k[n] # EMPTY_SQUARE
  PROVE  Held(k, Joined(R, ref, s))
<1> HIDE DEF Squares
<1>1. \A t \in Squares : Joined(R, ref, s)[t] = IF R[t] = ref THEN s ELSE R[t]
  BY DEF Joined
<1>2. s \in Around(n)
  BY AroundFacts
<1> SUFFICES ASSUME NEW G \in SUBSET Squares, Closed(k, G), NEW t \in G, k[t] # EMPTY_SQUARE,
                    NEW u \in Squares, Joined(R, ref, s)[u] = Joined(R, ref, s)[t]
             PROVE  u \in G
  BY DEF Held
<1>3. \A x \in G : k[x] # EMPTY_SQUARE => \A y \in Squares : R[y] = R[x] => y \in G
  BY DEF Held
<1>4. \A x \in G : \A y \in Around(x) : k[y] = k[x] => y \in G
  BY DEF Closed
<1>5. CASE R[t] = ref \/ R[t] = s
  <2>1. s \in G /\ n \in G
    BY <1>2, <1>3, <1>4, <1>5
  <2>2. R[u] = ref \/ R[u] = s
    BY <1>1, <1>5
  <2> QED BY <1>3, <2>1, <2>2
<1>6. CASE R[t] # ref /\ R[t] # s
  <2>1. R[u] = R[t]
    BY <1>1, <1>6
  <2> QED BY <1>3, <2>1
<1> QED BY <1>5, <1>6

(* It takes over the edges of the group but the one that ends at it. *)
LEMMA JoinedFed ==
  ASSUME NEW C \in SUBSET (Squares \X Squares), NEW R \in [Squares -> Squares],
         NEW ref \in Squares, NEW s \in Squares, NEW n \in Squares,
         R[s] = s, R[n] = ref, ref # s, <<n, s>> \in C
  PROVE  /\ Cardinality(Fed(Joined(R, ref, s), s, C \ {<<n, s>>}))
            = Cardinality(Fed(R, s, C)) + Cardinality(Fed(R, ref, C)) - 1
         /\ \A r \in Squares : r # s /\ r # ref =>
              Fed(Joined(R, ref, s), r, C \ {<<n, s>>}) = Fed(R, r, C)
<1> HIDE DEF Squares
<1>1. \A t \in Squares : Joined(R, ref, s)[t] = IF R[t] = ref THEN s ELSE R[t]
  BY DEF Joined
<1>2. \A d \in C : d[1] \in Squares
  OBVIOUS
<1>3. PICK F : F = Fed(R, s, C)
  OBVIOUS
<1>4. PICK G : G = Fed(R, ref, C \ {<<n, s>>})
  OBVIOUS
<1>5. Fed(Joined(R, ref, s), s, C \ {<<n, s>>}) = F \union G /\ F \intersect G = {}
  <2>1. \A d : d \in Fed(Joined(R, ref, s), s, C \ {<<n, s>>}) <=> d \in C /\ d # <<n, s>> /\ (R[d[1]] = ref \/ R[d[1]] = s)
    BY <1>1, <1>2 DEF Fed
  <2>2. \A d : d \in F <=> d \in C /\ R[d[1]] = s
    BY <1>3 DEF Fed
  <2>3. \A d : d \in G <=> d \in C /\ d # <<n, s>> /\ R[d[1]] = ref
    BY <1>4 DEF Fed
  <2>4. \A d : d \in F => d # <<n, s>>
    BY <2>2
  <2>5. \A d : d \in Fed(Joined(R, ref, s), s, C \ {<<n, s>>}) <=> d \in F \/ d \in G
    BY <2>1, <2>2, <2>3, <2>4
  <2>6. \A d : ~(d \in F /\ d \in G)
    BY <2>2, <2>3
  <2> QED BY <2>5, <2>6
<1>6. IsFiniteSet(F) /\ IsFiniteSet(G) /\ Cardinality(F) \in Nat /\ Cardinality(G) \in Nat
  <2>1. C \ {<<n, s>>} \in SUBSET (Squares \X Squares)
    OBVIOUS
  <2> QED BY <1>3, <1>4, <2>1, FedFinite
<1>7. Cardinality(F \union G) = Cardinality(F) + Cardinality(G)
  <2>1. Cardinality(F \intersect G) = 0
    BY <1>5, FS_EmptySet
  <2>2. Cardinality(F \union G) = Cardinality(F) + Cardinality(G) - Cardinality(F \intersect G)
    BY ONLY <1>6, FS_Union
  <2> QED BY <1>6, <2>1, <2>2
<1>8. Cardinality(G) = Cardinality(Fed(R, ref, C)) - 1
  <2>1. <<n, s>>[1] = n
    OBVIOUS
  <2> QED BY <1>4, <2>1, FedLoses
<1>9. Cardinality(Fed(R, ref, C)) \in Nat
  BY FedFinite
<1>10. ASSUME NEW r \in Squares, r # s, r # ref
       PROVE  Fed(Joined(R, ref, s), r, C \ {<<n, s>>}) = Fed(R, r, C)
  <2>1. \A d : d \in Fed(Joined(R, ref, s), r, C \ {<<n, s>>}) <=> d \in C /\ d # <<n, s>> /\ R[d[1]] = r
    BY <1>1, <1>2, <1>10 DEF Fed
  <2>2. \A d : d \in Fed(R, r, C) <=> d \in C /\ R[d[1]] = r
    BY DEF Fed
  <2>3. \A d : R[d[1]] = r => d # <<n, s>>
    BY <1>10
  <2> QED BY <2>1, <2>2, <2>3
<1> QED BY <1>3, <1>5, <1>6, <1>7, <1>8, <1>9, <1>10

LEMMA MeetsFriend ==
  ASSUME NEW b, NEW Q, NEW R, NEW K, NEW s, NEW p, NEW n,
         MeetInv(b, Q, R, K, s, p), <<s, n>> \in Q, b.color[n] = b.color[s], R[n] # s
  PROVE  LET c == Compressed(b, n)
             m == [c EXCEPT !.ledges[s] = c.ledges[s] + (c.ledges[R[n]] - 1), !.reference[R[n]] = s]
         IN  MeetInv(m, Q \ {<<s, n>>}, Joined(R, R[n], s), K, s, p)
<1> HIDE DEF Squares
<1> DEFINE c == Compressed(b, n)
           ref == R[n]
           R2 == Joined(R, ref, s)
           l == [c.ledges EXCEPT ![s] = c.ledges[s] + (c.ledges[ref] - 1)]
           g == [c.reference EXCEPT ![ref] = s]
           m == [c EXCEPT !.ledges[s] = c.ledges[s] + (c.ledges[ref] - 1), !.reference[ref] = s]
           k == b.color
           C == Due(k, s, Q)
           P == Q \ {<<s, n>>}
<1>1. /\ b \in GoBoards /\ k \in [Squares -> Stones \union {EMPTY_SQUARE}]
      /\ b.ledges \in [Squares -> Int]
      /\ s \in Squares /\ n \in Squares /\ n \in Around(s) /\ n # s
      /\ R \in [Squares -> Squares] /\ ref \in Squares /\ R[ref] = ref /\ R[s] = s
      /\ k[ref] = k[n] /\ k[n] = k[s] /\ k[n] # EMPTY_SQUARE
      /\ C \in SUBSET (Squares \X Squares)
  BY MeetFacts DEF Stones, WHITE, BLACK, EMPTY_SQUARE
<1>2. /\ Rooted(b.reference, R, K) /\ K[s] = 0 /\ \A t \in Squares : t # s => K[t] # 0
      /\ Q \in SUBSET (Squares \X Squares) /\ \A d \in Q : d[1] = s /\ d[2] \in Around(s)
      /\ \A t \in Squares : k[R[t]] = k[t]
      /\ MeetColors(k, p, s)
      /\ Linked(k, R, Q)
      /\ Held(k, R)
      /\ Counts(b.ledges, k, R, s, C)
      /\ Listed(b, Empty(k) \union {s})
  BY DEF MeetInv
<1>3. /\ c \in GoBoards /\ Rooted(c.reference, R, K)
      /\ c.color = k /\ c.ledges = b.ledges /\ c.empties = b.empties /\ c.place = b.place
  <2>1. Ranked(b, R, K) /\ n \in Squares
    BY <1>1, <1>2 DEF Ranked
  <2>2. Ranked(c, R, K) /\ OnlyReferences(c, b)
    BY <2>1, RankedCompressed
  <2> QED BY <2>2 DEF Ranked, OnlyReferences
<1>4. /\ Due(k, s, P) = C \ {<<n, s>>}
      /\ <<n, s>> \in C
  BY <1>1, <1>2, DueMet
<1>5. ref # s
  OBVIOUS
<1>6. \A t \in Squares : R2[t] = IF R[t] = ref THEN s ELSE R[t]
  BY DEF Joined
<1> HIDE DEF c, ref, k, C, R2
<1>7. l \in [Squares -> Int] /\ g \in [Squares -> Squares]
  BY <1>1, <1>3 DEF GoBoards
<1>8. m = [c EXCEPT !.ledges = l, !.reference = g]
  BY <1>3 DEF GoBoards
<1>9. /\ \A t \in Squares : l[t] = IF t = s THEN b.ledges[s] + (b.ledges[ref] - 1) ELSE b.ledges[t]
      /\ g = [c.reference EXCEPT ![ref] = s]
  BY <1>1, <1>3
<1> HIDE DEF l, g, m
<1>10. /\ m \in GoBoards /\ m.color = k /\ m.ledges = l /\ m.reference = g
       /\ m.empties = b.empties /\ m.place = b.place
  BY <1>3, <1>7, <1>8 DEF GoBoards
<1>11. Rooted(m.reference, R2, K) /\ R2[s] = s
  <2>1. Rooted(g, R2, K)
    BY <1>1, <1>2, <1>3, <1>5, <1>9, JoinedRooted DEF R2
  <2> QED BY <1>1, <1>6, <1>10, <2>1
<1>12. \A t \in Squares : k[R2[t]] = k[t]
  BY <1>1, <1>2, <1>6
<1>13. Held(k, R2)
  <2>1. R[n] = ref
    BY DEF ref
  <2> QED BY <1>1, <1>2, <2>1, JoinedHeld DEF R2
<1>14. Linked(k, R2, P)
  <2> SUFFICES ASSUME NEW t \in Squares, NEW u \in Around(t), k[u] = k[t], k[t] # EMPTY_SQUARE
               PROVE  R2[u] = R2[t] \/ <<t, u>> \in P \/ <<u, t>> \in P
    BY DEF Linked
  <2>1. R[u] = R[t] \/ <<t, u>> \in Q \/ <<u, t>> \in Q
    BY <1>2 DEF Linked
  <2>2. u \in Squares
    BY AroundFacts
  <2>3. CASE <<t, u>> = <<s, n>> \/ <<u, t>> = <<s, n>>
    <3>1. R2[s] = s /\ R2[n] = s
      BY <1>1, <1>5, <1>6 DEF ref
    <3> QED BY <2>3, <3>1
  <2>4. CASE <<t, u>> # <<s, n>> /\ <<u, t>> # <<s, n>>
    BY <1>6, <2>1, <2>2, <2>4
  <2> QED BY <2>3, <2>4
<1>15. Counts(m.ledges, k, R2, s, Due(k, s, P))
  <2> SUFFICES ASSUME NEW r \in Squares, R2[r] = r, k[r] # EMPTY_SQUARE
               PROVE  /\ l[r] = Cardinality(Fed(R2, r, C \ {<<n, s>>}))
                      /\ r # s => l[r] # 0
    BY <1>4, <1>10 DEF Counts
  <2>1. /\ Cardinality(Fed(R2, s, C \ {<<n, s>>}))
           = Cardinality(Fed(R, s, C)) + Cardinality(Fed(R, ref, C)) - 1
        /\ \A x \in Squares : x # s /\ x # ref => Fed(R2, x, C \ {<<n, s>>}) = Fed(R, x, C)
    <3>1. R[n] = ref
      BY DEF ref
    <3> QED BY <1>1, <1>4, <1>5, <3>1, JoinedFed DEF R2
  <2>2. \A x \in Squares : R[x] = x /\ k[x] # EMPTY_SQUARE =>
          b.ledges[x] = Cardinality(Fed(R, x, C)) /\ (x # s => b.ledges[x] # 0)
    BY <1>2 DEF Counts
  <2>3. CASE r = s
    <3>1. b.ledges[s] = Cardinality(Fed(R, s, C)) /\ b.ledges[ref] = Cardinality(Fed(R, ref, C))
      BY <1>1, <2>2
    <3>2. l[s] = b.ledges[s] + (b.ledges[ref] - 1) /\ b.ledges[s] \in Int /\ b.ledges[ref] \in Int
      BY <1>1, <1>9
    <3> QED BY <2>1, <2>3, <3>1, <3>2
  <2>4. CASE r # s
    <3>1. r # ref /\ R[r] = r
      BY <1>1, <1>5, <1>6, <2>4
    <3> QED BY <1>9, <2>1, <2>2, <2>4, <3>1
  <2> QED BY <2>3, <2>4
<1>16. Listed(m, Empty(k) \union {s})
  BY <1>2, <1>10 DEF Listed
<1>17. P \in SUBSET (Squares \X Squares) /\ \A d \in P : d[1] = s /\ d[2] \in Around(s)
  BY <1>2
<1>18. MeetInv(m, P, R2, K, s, p)
  <2> HIDE DEF P
  <2>1. /\ MeetColors(m.color, p, s) /\ Linked(m.color, R2, P) /\ Held(m.color, R2)
        /\ Counts(m.ledges, m.color, R2, s, Due(m.color, s, P))
        /\ Listed(m, Empty(m.color) \union {s})
        /\ \A t \in Squares : m.color[R2[t]] = m.color[t]
    BY <1>2, <1>10, <1>12, <1>13, <1>14, <1>15, <1>16
  <2> QED BY <1>1, <1>2, <1>10, <1>11, <1>17, <2>1 DEF MeetInv
<1> QED BY <1>18, Zenon DEF m, c, ref, R2

-----------------------------------------------------------------------------
(* The stone takes the last edge of a group of the opponent. *)

\* what is known of the group with the root ref when its last edge is taken
Doomed(b, P, R, s, p, ref) ==
  /\ s \in Squares /\ R \in [Squares -> Squares] /\ R[s] = s
  /\ ref \in Squares /\ R[ref] = ref /\ ref # s
  /\ b.color \in [Squares -> Stones \union {EMPTY_SQUARE}]
  /\ p \in [Squares -> Stones \union {EMPTY_SQUARE}]
  /\ b.color[ref] # EMPTY_SQUARE /\ b.color[ref] # b.color[s]
  /\ b.color[s] # EMPTY_SQUARE /\ b.color[s] = p[s]
  /\ \A t \in Squares : R[t] = ref => /\ b.color[t] = b.color[ref] /\ p[t] = b.color[t] /\ t # s
                                      /\ p[t] = Opponent(p[s])
  /\ \A t \in Squares : b.color[t] = p[t] \/ b.color[t] = EMPTY_SQUARE
  /\ \A d \in P : d[1] = s
  /\ \A t \in Squares : \A u \in Squares : R[t] = ref => <<t, u>> \notin Due(b.color, s, P)
  /\ \A t \in Squares : \A u \in Around(t) : R[t] = ref /\ b.color[u] = b.color[t] => R[u] = ref
  /\ \A r \in Squares : R[r] = r /\ b.color[r] # EMPTY_SQUARE /\ r # ref =>
       b.ledges[r] = Cardinality(Fed(R, r, Due(b.color, s, P))) /\ (r # s => b.ledges[r] # 0)

LEMMA BecomesDoomed ==
  ASSUME NEW b, NEW Q, NEW R, NEW K, NEW s, NEW p, NEW n,
         MeetInv(b, Q, R, K, s, p), <<s, n>> \in Q,
         b.color[n] # EMPTY_SQUARE, b.color[n] # b.color[s], b.ledges[R[n]] - 1 = 0
  PROVE  Doomed(b, Q \ {<<s, n>>}, R, s, p, R[n])
<1> HIDE DEF Squares
<1> DEFINE k == b.color
           ref == R[n]
           C == Due(k, s, Q \ {<<s, n>>})
           B == Due(k, s, Q)
<1>1. /\ MeetInv(b, Q, R, K, s, p) /\ <<s, n>> \in Q
      /\ k[n] # EMPTY_SQUARE /\ k[n] # k[s] /\ b.ledges[ref] - 1 = 0
  OBVIOUS
<1>2. /\ k \in [Squares -> Stones \union {EMPTY_SQUARE}]
      /\ b.ledges \in [Squares -> Int]
      /\ s \in Squares /\ n \in Squares /\ n \in Around(s) /\ n # s
      /\ R \in [Squares -> Squares] /\ ref \in Squares /\ R[ref] = ref /\ R[s] = s
      /\ k[ref] = k[n]
      /\ p \in [Squares -> Stones \union {EMPTY_SQUARE}]
      /\ k[s] = p[s] /\ p[s] \in Stones
      /\ B \in SUBSET (Squares \X Squares)
  BY <1>1, MeetFacts
<1>3. /\ \A d \in Q : d[1] = s /\ d[2] \in Around(s)
      /\ \A t \in Squares : k[R[t]] = k[t]
      /\ Linked(k, R, Q)
      /\ Counts(b.ledges, k, R, s, B)
      /\ \A t \in Squares : k[t] = p[t] \/ k[t] = EMPTY_SQUARE
  BY <1>1 DEF MeetInv, MeetColors
<1>4. /\ C = B \ {<<n, s>>} /\ <<n, s>> \in B
  BY <1>1, <1>2, DueMet
<1>5. k[s] # EMPTY_SQUARE
  BY <1>2 DEF Stones, WHITE, BLACK, EMPTY_SQUARE
<1>6. C \in SUBSET (Squares \X Squares)
  BY DueFacts
<1>7. ref # s
  BY <1>1, <1>2
<1>8. R[n] = ref
  OBVIOUS
<1> HIDE DEF k, ref, C, B
<1>9. ASSUME NEW t \in Squares, R[t] = ref
      PROVE  k[t] = k[ref] /\ p[t] = k[t] /\ t # s /\ p[t] = Opponent(p[s])
  <2>1. k[t] = k[ref] /\ p[t] = k[t] /\ t # s
    BY <1>1, <1>2, <1>3, <1>9
  <2>2. p[t] \in Stones /\ p[t] # p[s]
    BY <1>1, <1>2, <2>1
  <2> QED BY <1>2, <2>1, <2>2 DEF Stones, Opponent, WHITE, BLACK
<1>10. \A t \in Squares : \A u \in Squares : R[t] = ref => <<t, u>> \notin C
  <2>1. b.ledges[ref] = Cardinality(Fed(R, ref, B))
    BY <1>1, <1>2, <1>3 DEF Counts
  <2>2. <<n, s>>[1] = n
    OBVIOUS
  <2>3. Cardinality(Fed(R, ref, C)) = Cardinality(Fed(R, ref, B)) - 1
    BY <1>2, <1>4, <1>8, <2>2, FedLoses
  <2>4. Cardinality(Fed(R, ref, C)) = 0
    BY <1>1, <1>2, <2>1, <2>3
  <2>5. Fed(R, ref, C) = {}
    <3>1. PICK F : F = Fed(R, ref, C)
      OBVIOUS
    <3>2. IsFiniteSet(F) /\ Cardinality(F) = 0
      BY <1>6, <2>4, <3>1, FedFinite
    <3>3. F = {}
      BY <3>2, FS_EmptySet
    <3> QED BY <3>1, <3>3
  <2> SUFFICES ASSUME NEW t \in Squares, NEW u \in Squares, R[t] = ref, <<t, u>> \in C PROVE FALSE
    OBVIOUS
  <2>6. <<t, u>> \in Fed(R, ref, C)
    BY DEF Fed
  <2> QED BY <2>5, <2>6
<1>11. ASSUME NEW t \in Squares, NEW u \in Around(t), R[t] = ref, k[u] = k[t] PROVE R[u] = ref
  <2>1. u \in Squares /\ t # s /\ u # s /\ k[t] # EMPTY_SQUARE
    BY <1>1, <1>2, <1>9, <1>11, AroundFacts
  <2>2. R[u] = R[t] \/ <<t, u>> \in Q \/ <<u, t>> \in Q
    BY <1>3, <1>11, <2>1 DEF Linked
  <2> QED BY <1>3, <1>11, <2>1, <2>2
<1>12. ASSUME NEW r \in Squares, R[r] = r, k[r] # EMPTY_SQUARE, r # ref
       PROVE  b.ledges[r] = Cardinality(Fed(R, r, C)) /\ (r # s => b.ledges[r] # 0)
  <2>1. b.ledges[r] = Cardinality(Fed(R, r, B)) /\ (r # s => b.ledges[r] # 0)
    BY <1>3, <1>12 DEF Counts
  <2>2. <<n, s>>[1] = n
    OBVIOUS
  <2>3. Fed(R, r, C) = Fed(R, r, B)
    BY <1>2, <1>4, <1>8, <1>12, <2>2, FedLoses
  <2> QED BY <2>1, <2>3
<1>13. k[ref] # EMPTY_SQUARE /\ k[ref] # k[s]
  BY <1>1, <1>2
<1>14. \A d \in Q \ {<<s, n>>} : d[1] = s
  BY <1>3
<1> QED BY <1>2, <1>3, <1>5, <1>6, <1>7, <1>8, <1>9, <1>10, <1>11, <1>12, <1>13, <1>14, Zenon DEF k, C, Doomed

LEMMA DoomedDue ==
  ASSUME NEW b, NEW P, NEW R, NEW s, NEW p, NEW ref, Doomed(b, P, R, s, p, ref),
         NEW h, \A t \in Squares : h[t] = IF R[t] = ref THEN EMPTY_SQUARE ELSE b.color[t]
  PROVE  Due(h, s, P) = Due(b.color, s, P) \union EdgesTo(R, ref)
<1> HIDE DEF Squares
<1> DEFINE k == b.color
           C == Due(k, s, P)
<1>1. /\ s \in Squares /\ R[s] = s /\ ref # s
      /\ \A t \in Squares : R[t] = ref => k[t] # EMPTY_SQUARE /\ t # s
      /\ \A t \in Squares : \A u \in Squares : R[t] = ref => <<t, u>> \notin C
      /\ \A d \in P : d[1] = s
  BY DEF Doomed
<1>3. /\ Due(k, s, P) \subseteq Squares \X Squares
      /\ \A x \in Squares : \A y \in Squares :
           <<x, y>> \in Due(k, s, P) <=>
             /\ y \in Around(x)
             /\ x = s => k[y] = EMPTY_SQUARE /\ <<x, y>> \notin P
             /\ x # s /\ y = s => <<s, x>> \in P
             /\ x # s /\ y # s => k[y] = EMPTY_SQUARE
  BY DueFacts
<1>4. /\ Due(h, s, P) \subseteq Squares \X Squares
      /\ \A x \in Squares : \A y \in Squares :
           <<x, y>> \in Due(h, s, P) <=>
             /\ y \in Around(x)
             /\ x = s => h[y] = EMPTY_SQUARE /\ <<x, y>> \notin P
             /\ x # s /\ y = s => <<s, x>> \in P
             /\ x # s /\ y # s => h[y] = EMPTY_SQUARE
  BY DueFacts
<1>5. /\ EdgesTo(R, ref) \subseteq Squares \X Squares
      /\ \A x \in Squares : \A y \in Squares :
           <<x, y>> \in EdgesTo(R, ref) <=> R[y] = ref /\ y \in Around(x)
  BY DEF EdgesTo
<1>6. \A y \in Squares : h[y] = IF R[y] = ref THEN EMPTY_SQUARE ELSE k[y]
  OBVIOUS
<1> HIDE DEF k
<1>7. ASSUME NEW x \in Squares, NEW y \in Squares
      PROVE  <<x, y>> \in Due(h, s, P) <=> <<x, y>> \in C \union EdgesTo(R, ref)
  <2>1. CASE R[y] # ref
    <3>1. h[y] = k[y] /\ <<x, y>> \notin EdgesTo(R, ref)
      BY <1>5, <1>6, <2>1
    <3>2. <<x, y>> \in C <=>
            /\ y \in Around(x)
            /\ x = s => k[y] = EMPTY_SQUARE /\ <<x, y>> \notin P
            /\ x # s /\ y = s => <<s, x>> \in P
            /\ x # s /\ y # s => k[y] = EMPTY_SQUARE
      BY <1>3
    <3>3. <<x, y>> \in Due(h, s, P) <=>
            /\ y \in Around(x)
            /\ x = s => h[y] = EMPTY_SQUARE /\ <<x, y>> \notin P
            /\ x # s /\ y = s => <<s, x>> \in P
            /\ x # s /\ y # s => h[y] = EMPTY_SQUARE
      BY <1>4
    <3> QED BY <3>1, <3>2, <3>3, Zenon
  <2>2. CASE R[y] = ref /\ y \in Around(x)
    <3>1. h[y] = EMPTY_SQUARE /\ y # s /\ <<x, y>> \in EdgesTo(R, ref)
      BY <1>1, <1>5, <1>6, <2>2
    <3>2. x = s => <<x, y>> \notin P
      <4>1. SUFFICES ASSUME x = s, <<s, y>> \in P PROVE FALSE
        OBVIOUS
      <4>2. s \in Around(y)
        BY <1>1, <2>2, <4>1, AroundFacts
      <4>3. <<y, s>> \in C
        BY <1>1, <1>3, <2>2, <3>1, <4>1, <4>2
      <4> QED BY <1>1, <2>2, <4>3
    <3> QED BY <1>4, <2>2, <3>1, <3>2
  <2>3. CASE y \notin Around(x)
    BY <1>3, <1>4, <1>5, <2>3
  <2> QED BY <2>1, <2>2, <2>3
<1>8. Due(h, s, P) = C \union EdgesTo(R, ref)
  <2>1. C \union EdgesTo(R, ref) \in SUBSET (Squares \X Squares)
    BY <1>3, <1>5
  <2>2. Due(h, s, P) \in SUBSET (Squares \X Squares)
    BY <1>4
  <2> HIDE DEF C
  <2> QED BY ONLY <1>7, <2>1, <2>2, SamePairs
<1> QED BY <1>8 DEF C, k

LEMMA DoomedReady ==
  ASSUME NEW b, NEW P, NEW R, NEW s, NEW p, NEW ref, Doomed(b, P, R, s, p, ref),
         \A t \in Squares : b.color[R[t]] = b.color[t]
  PROVE  RemoveReady(b.color, R, ref, Due(b.color, s, P), Empty(b.color) \union {s})
<1> HIDE DEF Squares
<1> DEFINE k == b.color
           C == Due(k, s, P)
           Z == Empty(k) \union {s}
<1>1. /\ s \in Squares /\ R \in [Squares -> Squares] /\ R[s] = s
      /\ ref \in Squares /\ R[ref] = ref /\ ref # s
      /\ k \in [Squares -> Stones \union {EMPTY_SQUARE}] /\ k[ref] # EMPTY_SQUARE
      /\ \A t \in Squares : R[t] = ref => k[t] # EMPTY_SQUARE /\ t # s
  BY DEF Doomed
<1>2. /\ C \subseteq Squares \X Squares
      /\ \A x \in Squares : \A y \in Squares :
           <<x, y>> \in C <=>
             /\ y \in Around(x)
             /\ x = s => k[y] = EMPTY_SQUARE /\ <<x, y>> \notin P
             /\ x # s /\ y = s => <<s, x>> \in P
             /\ x # s /\ y # s => k[y] = EMPTY_SQUARE
  BY DueFacts
<1> HIDE DEF k, C
<1>3. \A d \in C : R[d[2]] # ref
  <2>1. \A x \in Squares : \A y \in Squares : <<x, y>> \in C => R[y] # ref
    BY <1>1, <1>2
  <2> QED BY <1>2, <2>1
<1>4. Z \in SUBSET Squares /\ \A t \in Z : R[t] # ref
  BY <1>1 DEF Empty
<1>5. \A t \in Squares : k[R[t]] = k[t]
  BY DEF k
<1> HIDE DEF Z
<1>6. RemoveReady(k, R, ref, C, Z)
  BY <1>1, <1>2, <1>3, <1>4, <1>5 DEF RemoveReady
<1> QED BY <1>6 DEF k, C, Z

(* The position without the group is still the old one without captures. *)
LEMMA DoomedColors ==
  ASSUME NEW b, NEW P, NEW R, NEW s, NEW p, NEW ref, Doomed(b, P, R, s, p, ref),
         MeetColors(b.color, p, s), NEW n \in Around(s), R[n] = ref,
         NEW h, \A t \in Squares : h[t] = IF R[t] = ref THEN EMPTY_SQUARE ELSE b.color[t]
  PROVE  MeetColors(h, p, s)
<1> HIDE DEF Squares
<1> DEFINE k == b.color
           C == Due(k, s, P)
           G == Group(R, ref)
<1>1. /\ s \in Squares /\ R[s] = s /\ ref # s /\ k[s] # EMPTY_SQUARE /\ k[s] = p[s]
      /\ \A t \in Squares : R[t] = ref => k[t] # EMPTY_SQUARE /\ p[t] = k[t] /\ t # s /\ p[t] = Opponent(p[s])
      /\ \A t \in Squares : k[t] = p[t] \/ k[t] = EMPTY_SQUARE
      /\ \A t \in Squares : \A u \in Squares : R[t] = ref => <<t, u>> \notin C
      /\ \A t \in Squares : \A u \in Around(t) : R[t] = ref /\ k[u] = k[t] => R[u] = ref
  BY DEF Doomed
<1>2. /\ p \in [Squares -> Stones \union {EMPTY_SQUARE}] /\ p[s] # EMPTY_SQUARE
      /\ \A t \in Squares :
           k[t] = p[t] \/ (k[t] = EMPTY_SQUARE /\ p[t] = Opponent(p[s]) /\ Starved(p, t))
      /\ \A t \in Squares : \A u \in Around(t) : k[t] # p[t] /\ p[u] = p[t] => k[u] # p[u]
  BY DEF MeetColors
<1>3. /\ C \subseteq Squares \X Squares
      /\ \A x \in Squares : \A y \in Squares :
           <<x, y>> \in C <=>
             /\ y \in Around(x)
             /\ x = s => k[y] = EMPTY_SQUARE /\ <<x, y>> \notin P
             /\ x # s /\ y = s => <<s, x>> \in P
             /\ x # s /\ y # s => k[y] = EMPTY_SQUARE
  BY DueFacts
<1>4. \A t \in Squares : h[t] = IF R[t] = ref THEN EMPTY_SQUARE ELSE k[t]
  OBVIOUS
<1>5. \A t : t \in G <=> t \in Squares /\ R[t] = ref
  BY DEF Group
<1>6. n \in Squares
  BY <1>1, AroundFacts
<1> HIDE DEF k, C, G
<1>7. ASSUME NEW t \in G, NEW u \in Around(t), p[u] = p[t] PROVE u \in G
  <2>1. u \in Squares /\ t \in Around(u) /\ t \in Squares
    BY <1>5, AroundFacts
  <2>2. k[t] = p[t] /\ k[t] # EMPTY_SQUARE
    BY <1>1, <1>5
  <2>3. k[u] = p[u]
    BY <1>2, <1>7, <2>1, <2>2
  <2> QED BY <1>1, <1>5, <1>7, <2>1, <2>2, <2>3
<1>8. ASSUME NEW t \in G, NEW u \in Around(t) PROVE p[u] # EMPTY_SQUARE
  <2>1. t \in Squares /\ R[t] = ref /\ u \in Squares /\ t # s
    BY <1>1, <1>5, AroundFacts
  <2>2. <<t, u>> \notin C
    BY <1>1, <2>1
  <2>3. u # s => k[u] # EMPTY_SQUARE
    BY <1>3, <2>1, <2>2
  <2> QED BY <1>1, <1>2, <2>1, <2>3
<1>9. ASSUME NEW t \in G PROVE Starved(p, t)
  <2>1. G \in SUBSET Squares
    BY <1>5
  <2>2. Closed(p, G)
    BY <1>7 DEF Closed
  <2> QED BY <1>8, <2>1, <2>2 DEF Starved
<1>10. \A t \in Squares :
         h[t] = p[t] \/ (h[t] = EMPTY_SQUARE /\ p[t] = Opponent(p[s]) /\ Starved(p, t))
  BY <1>1, <1>2, <1>4, <1>5, <1>9
<1>11. ASSUME NEW t \in Squares, NEW u \in Around(t), h[t] # p[t], p[u] = p[t] PROVE h[u] # p[u]
  <2>1. u \in Squares
    BY AroundFacts
  <2>2. CASE R[t] = ref
    <3>1. R[u] = ref /\ p[u] # EMPTY_SQUARE
      BY <1>1, <1>5, <1>7, <1>11, <2>1, <2>2
    <3> QED BY <1>4, <2>1, <3>1
  <2>3. CASE R[t] # ref
    <3>1. k[u] # p[u]
      BY <1>2, <1>4, <1>11, <2>3
    <3>2. R[u] # ref
      BY <1>1, <2>1, <3>1
    <3> QED BY <1>4, <2>1, <3>1, <3>2
  <2> QED BY <2>2, <2>3
<1>12. h[n] = EMPTY_SQUARE
  BY <1>4, <1>6
<1> QED BY <1>2, <1>10, <1>11, <1>12, Zenon DEF MeetColors

LEMMA DoomedHeld ==
  ASSUME NEW b, NEW P, NEW R, NEW s, NEW p, NEW ref, Doomed(b, P, R, s, p, ref),
         Held(b.color, R),
         NEW h, \A t \in Squares : h[t] = IF R[t] = ref THEN EMPTY_SQUARE ELSE b.color[t]
  PROVE  Held(h, R)
<1> HIDE DEF Squares
<1> DEFINE k == b.color
<1>1. /\ \A t \in Squares : R[t] = ref => k[t] # EMPTY_SQUARE
      /\ \A t \in Squares : \A u \in Around(t) : R[t] = ref /\ k[u] = k[t] => R[u] = ref
  BY DEF Doomed
<1>2. \A t \in Squares : h[t] = IF R[t] = ref THEN EMPTY_SQUARE ELSE k[t]
  OBVIOUS
<1> SUFFICES ASSUME NEW G \in SUBSET Squares, Closed(h, G), NEW t \in G, h[t] # EMPTY_SQUARE,
                    NEW u \in Squares, R[u] = R[t]
             PROVE  u \in G
  BY DEF Held
<1>3. PICK F \in SUBSET Squares : \A x : x \in F <=> x \in G /\ h[x] # EMPTY_SQUARE
  <2>1. {x \in G : h[x] # EMPTY_SQUARE} \in SUBSET Squares
    OBVIOUS
  <2> QED BY <2>1
<1>4. Closed(k, F)
  <2> SUFFICES ASSUME NEW x \in F, NEW y \in Around(x), k[y] = k[x] PROVE y \in F
    BY DEF Closed
  <2>1. x \in Squares /\ y \in Squares /\ x \in Around(y) /\ x \in G /\ h[x] # EMPTY_SQUARE
    BY <1>3, AroundFacts
  <2>2. R[x] # ref /\ R[y] # ref
    BY <1>1, <1>2, <2>1
  <2>3. h[y] = h[x]
    BY <1>2, <2>1, <2>2
  <2> QED BY <1>3, <2>1, <2>3 DEF Closed
<1>5. t \in F /\ k[t] # EMPTY_SQUARE
  BY <1>2, <1>3
<1>6. u \in F
  BY <1>4, <1>5 DEF Held
<1> QED BY <1>3, <1>6

LEMMA MeetsLast ==
  ASSUME NEW b, NEW Q, NEW R, NEW K, NEW s, NEW p, NEW n,
         MeetInv(b, Q, R, K, s, p), <<s, n>> \in Q,
         b.color[n] # EMPTY_SQUARE, b.color[n] # b.color[s], b.ledges[R[n]] - 1 = 0
  PROVE  LET c == Compressed(b, n)
         IN  MeetInv(RemoveGroup([c EXCEPT !.ledges[R[n]] = c.ledges[R[n]] - 1], n, R[n]),
                     Q \ {<<s, n>>}, R, K, s, p)
<1> HIDE DEF Squares
<1> DEFINE c == Compressed(b, n)
           ref == R[n]
           v == c.ledges[ref] - 1
           m == [c EXCEPT !.ledges[ref] = v]
           k == b.color
           P == Q \ {<<s, n>>}
           C == Due(k, s, P)
           Z == Empty(k) \union {s}
           g == RemoveGroup(m, n, ref)
<1>1. /\ b \in GoBoards /\ b.ledges \in [Squares -> Int]
      /\ n \in Squares /\ n \in Around(s)
  BY MeetFacts
<1>2. /\ Rooted(b.reference, R, K) /\ K[s] = 0 /\ \A t \in Squares : t # s => K[t] # 0
      /\ Q \in SUBSET (Squares \X Squares) /\ \A d \in Q : d[1] = s /\ d[2] \in Around(s)
      /\ \A t \in Squares : k[R[t]] = k[t]
      /\ MeetColors(k, p, s)
      /\ Linked(k, R, Q)
      /\ Held(k, R)
      /\ Listed(b, Z)
  BY DEF MeetInv
<1>3. Doomed(b, P, R, s, p, ref)
  BY BecomesDoomed
<1>4. /\ s \in Squares /\ R \in [Squares -> Squares] /\ R[s] = s
      /\ ref \in Squares /\ R[ref] = ref /\ ref # s /\ k[s] # EMPTY_SQUARE
      /\ \A t \in Squares : R[t] = ref => k[t] # EMPTY_SQUARE /\ t # s
      /\ \A t \in Squares : \A u \in Around(t) : R[t] = ref /\ k[u] = k[t] => R[u] = ref
      /\ \A r \in Squares : R[r] = r /\ k[r] # EMPTY_SQUARE /\ r # ref =>
           b.ledges[r] = Cardinality(Fed(R, r, C)) /\ (r # s => b.ledges[r] # 0)
  BY <1>3 DEF Doomed
<1>5. /\ c \in GoBoards /\ Rooted(c.reference, R, K)
      /\ c.color = k /\ c.ledges = b.ledges /\ c.empties = b.empties /\ c.place = b.place
  <2>1. Ranked(b, R, K) /\ n \in Squares
    BY <1>1, <1>2 DEF Ranked
  <2>2. Ranked(c, R, K) /\ OnlyReferences(c, b)
    BY <2>1, RankedCompressed
  <2> QED BY <2>2 DEF Ranked, OnlyReferences
<1>6. RemoveReady(k, R, ref, C, Z)
  BY <1>2, <1>3, DoomedReady
<1>7. R[n] = ref
  OBVIOUS
<1> HIDE DEF c, ref, k, P, C, Z
<1>8. v \in Int
  BY <1>1, <1>4, <1>5
<1> HIDE DEF v
<1>9. /\ m \in GoBoards /\ m.ledges = [c.ledges EXCEPT ![ref] = v]
      /\ m.color = k /\ Rooted(m.reference, R, K) /\ m.empties = b.empties /\ m.place = b.place
  BY <1>4, <1>5, <1>8, LedgeFacts
<1> HIDE DEF m
<1>10. RemovalDone(g, m, R, K, ref, C, Z)
  <2>1. n \in Group(R, ref)
    BY <1>1, <1>7 DEF Group
  <2>2. RemoveReady(m.color, R, ref, C, Z) /\ Held(m.color, R) /\ Listed(m, Z)
    BY <1>2, <1>6, <1>9 DEF Listed
  <2>3. \A t \in Group(R, ref) : \A u \in Around(t) : m.color[u] = m.color[t] => R[u] = ref
    BY <1>4, <1>9 DEF Group
  <2>4. \A r \in Squares : R[r] = r /\ r # ref /\ m.color[r] # EMPTY_SQUARE =>
          m.ledges[r] = Cardinality(Fed(R, r, C))
    BY <1>1, <1>4, <1>5, <1>9
  <2> QED BY ONLY <1>9, <2>1, <2>2, <2>3, <2>4, RemoveGroupFacts
<1> HIDE DEF g
<1>11. /\ g \in GoBoards /\ Rooted(g.reference, R, K)
       /\ \A t \in Squares : g.color[t] = IF R[t] = ref THEN EMPTY_SQUARE ELSE k[t]
       /\ \A r \in Squares : R[r] = r /\ r # ref /\ k[r] # EMPTY_SQUARE =>
            g.ledges[r] = Cardinality(Fed(R, r, C \union EdgesTo(R, ref)))
       /\ Listed(g, Z \union Group(R, ref))
  BY <1>9, <1>10 DEF RemovalDone
<1>12. PICK h : h = g.color
  OBVIOUS
<1>13. \A t \in Squares : h[t] = IF R[t] = ref THEN EMPTY_SQUARE ELSE b.color[t]
  BY <1>11, <1>12 DEF k
<1>14. MeetColors(h, p, s)
  <2>1. MeetColors(b.color, p, s)
    BY <1>2 DEF k
  <2> QED BY <1>1, <1>3, <1>7, <1>13, <2>1, DoomedColors
<1>15. Held(h, R)
  <2>1. Held(b.color, R)
    BY <1>2 DEF k
  <2> QED BY <1>3, <1>13, <2>1, DoomedHeld
<1>16. Due(h, s, P) = C \union EdgesTo(R, ref)
  BY <1>3, <1>13, DoomedDue DEF C, k
<1>17. Counts(g.ledges, h, R, s, Due(h, s, P))
  <2> SUFFICES ASSUME NEW r \in Squares, R[r] = r, h[r] # EMPTY_SQUARE
               PROVE  /\ g.ledges[r] = Cardinality(Fed(R, r, C \union EdgesTo(R, ref)))
                      /\ r # s => g.ledges[r] # 0
    BY <1>16 DEF Counts
  <2>1. r # ref /\ k[r] # EMPTY_SQUARE
    BY <1>4, <1>11, <1>12
  <2>2. g.ledges[r] = Cardinality(Fed(R, r, C \union EdgesTo(R, ref)))
    BY <1>11, <2>1
  <2>3. b.ledges[r] = Cardinality(Fed(R, r, C)) /\ (r # s => b.ledges[r] # 0)
    BY <1>4, <2>1
  <2>4. PICK F : F = Fed(R, r, C)
    OBVIOUS
  <2>5. PICK H : H = Fed(R, r, C \union EdgesTo(R, ref))
    OBVIOUS
  <2>6. C \in SUBSET (Squares \X Squares) /\ C \union EdgesTo(R, ref) \in SUBSET (Squares \X Squares)
    BY <1>6 DEF RemoveReady, EdgesTo
  <2>7. IsFiniteSet(H) /\ Cardinality(H) \in Nat /\ Cardinality(F) \in Nat
    BY <2>4, <2>5, <2>6, FedFinite
  <2>8. F \in SUBSET H
    BY <2>4, <2>5 DEF Fed
  <2>9. Cardinality(F) <= Cardinality(H)
    BY <2>7, <2>8, FS_Subset
  <2> QED BY <2>2, <2>3, <2>4, <2>5, <2>7, <2>9
<1>18. Linked(h, R, P)
  <2> SUFFICES ASSUME NEW t \in Squares, NEW u \in Around(t), h[u] = h[t], h[t] # EMPTY_SQUARE
               PROVE  R[u] = R[t] \/ <<t, u>> \in P \/ <<u, t>> \in P
    BY DEF Linked
  <2>1. u \in Squares /\ k[t] = h[t] /\ k[u] = h[u]
    BY <1>11, <1>12, AroundFacts
  <2>2. R[u] = R[t] \/ <<t, u>> \in Q \/ <<u, t>> \in Q
    BY <1>2, <2>1 DEF Linked
  <2>3. h[n] = EMPTY_SQUARE
    BY <1>1, <1>7, <1>11, <1>12
  <2>4. <<t, u>> # <<s, n>> /\ <<u, t>> # <<s, n>>
    BY <2>3
  <2> QED BY <2>2, <2>4 DEF P
<1>19. Listed(g, Empty(h) \union {s})
  <2>1. Z \union Group(R, ref) = Empty(h) \union {s}
    BY <1>4, <1>11, <1>12 DEF Z, Group, Empty
  <2> QED BY <1>11, <2>1
<1>20. \A t \in Squares : h[R[t]] = h[t]
  <2> SUFFICES ASSUME NEW t \in Squares PROVE h[R[t]] = h[t]
    OBVIOUS
  <2>1. R[t] \in Squares /\ R[R[t]] = R[t] /\ k[R[t]] = k[t]
    BY <1>2, <1>4 DEF Rooted
  <2> QED BY <1>11, <1>12, <2>1
<1>21. P \in SUBSET (Squares \X Squares) /\ \A d \in P : d[1] = s /\ d[2] \in Around(s)
  BY <1>2 DEF P
<1>22. MeetInv(g, P, R, K, s, p)
  BY <1>2, <1>4, <1>11, <1>12, <1>14, <1>15, <1>17, <1>18, <1>19, <1>20, <1>21 DEF MeetInv
<1> QED BY <1>22, Zenon DEF g, m, v, c, ref, P

(* One turn of the loop, whatever the neighbour is. *)
LEMMA MeetStep ==
  ASSUME NEW b, NEW Q, NEW R, NEW K, NEW s, NEW p, NEW n,
         MeetInv(b, Q, R, K, s, p), <<s, n>> \in Q
  PROVE  \E S : MeetInv(MeetNeighbour(b, s, n), Q \ {<<s, n>>}, S, K, s, p)
<1> HIDE DEF Squares
<1> DEFINE c == Compressed(b, n)
           m == MeetNeighbour(b, s, n)
           P == Q \ {<<s, n>>}
<1>1. /\ b \in GoBoards /\ s \in Squares /\ n \in Squares /\ FindRef(b, n) = R[n]
      /\ b.ledges \in [Squares -> Int] /\ R[n] \in Squares
  BY MeetFacts
<1>2. Rooted(b.reference, R, K)
  BY DEF MeetInv
<1>3. c.ledges = b.ledges
  <2>1. Ranked(b, R, K) /\ n \in Squares
    BY <1>1, <1>2 DEF Ranked
  <2>2. Ranked(c, R, K) /\ OnlyReferences(c, b)
    BY <2>1, RankedCompressed
  <2> QED BY <2>2 DEF Ranked, OnlyReferences
<1>4. \/ b.color[n] = EMPTY_SQUARE /\ m = [b EXCEPT !.ledges[s] = b.ledges[s] + 1]
      \/ /\ b.color[n] # EMPTY_SQUARE /\ b.color[n] = b.color[s] /\ R[n] = s
         /\ m = [c EXCEPT !.ledges[R[n]] = c.ledges[R[n]] - 1]
      \/ /\ b.color[n] # EMPTY_SQUARE /\ b.color[n] = b.color[s] /\ R[n] # s
         /\ m = [c EXCEPT !.ledges[s] = c.ledges[s] + (c.ledges[R[n]] - 1), !.reference[R[n]] = s]
      \/ /\ b.color[n] # EMPTY_SQUARE /\ b.color[n] # b.color[s] /\ c.ledges[R[n]] - 1 # 0
         /\ m = [c EXCEPT !.ledges[R[n]] = c.ledges[R[n]] - 1]
      \/ /\ b.color[n] # EMPTY_SQUARE /\ b.color[n] # b.color[s] /\ c.ledges[R[n]] - 1 = 0
         /\ m = RemoveGroup([c EXCEPT !.ledges[R[n]] = c.ledges[R[n]] - 1], n, R[n])
  <2>1. LET ref == FindRef(b, n)
            edges == c.ledges[ref] - 1
        IN  \/ b.color[n] = EMPTY_SQUARE /\ m = [b EXCEPT !.ledges[s] = b.ledges[s] + 1]
            \/ /\ b.color[n] # EMPTY_SQUARE /\ b.color[n] = b.color[s] /\ ref = s
               /\ m = [c EXCEPT !.ledges[ref] = edges]
            \/ /\ b.color[n] # EMPTY_SQUARE /\ b.color[n] = b.color[s] /\ ref # s
               /\ m = [c EXCEPT !.ledges[s] = c.ledges[s] + edges, !.reference[ref] = s]
            \/ /\ b.color[n] # EMPTY_SQUARE /\ b.color[n] # b.color[s] /\ edges # 0
               /\ m = [c EXCEPT !.ledges[ref] = edges]
            \/ /\ b.color[n] # EMPTY_SQUARE /\ b.color[n] # b.color[s] /\ edges = 0
               /\ m = RemoveGroup([c EXCEPT !.ledges[ref] = edges], n, ref)
    BY <1>1, MeetCases, Zenon
  <2> QED BY <1>1, <2>1, Zenon
<1> HIDE DEF c, m
<1>5. CASE b.color[n] = EMPTY_SQUARE /\ m = [b EXCEPT !.ledges[s] = b.ledges[s] + 1]
  <2>1. MeetInv([b EXCEPT !.ledges[s] = b.ledges[s] + 1], P, R, K, s, p)
    BY <1>5, MeetsEmpty
  <2> QED BY <1>5, <2>1 DEF m
<1>6. CASE /\ b.color[n] # EMPTY_SQUARE
           /\ \/ b.color[n] = b.color[s] /\ R[n] = s
              \/ b.color[n] # b.color[s] /\ c.ledges[R[n]] - 1 # 0
           /\ m = [c EXCEPT !.ledges[R[n]] = c.ledges[R[n]] - 1]
  <2>1. b.color[n] = b.color[s] => R[n] = s
    BY <1>6
  <2>2. R[n] # s => b.ledges[R[n]] - 1 # 0
    BY <1>3, <1>6
  <2>3. MeetInv([c EXCEPT !.ledges[R[n]] = c.ledges[R[n]] - 1], P, R, K, s, p)
    BY <1>6, <2>1, <2>2, MeetsStone, Zenon DEF c
  <2> QED BY <1>6, <2>3 DEF m
<1>7. CASE /\ b.color[n] # EMPTY_SQUARE /\ b.color[n] = b.color[s] /\ R[n] # s
           /\ m = [c EXCEPT !.ledges[s] = c.ledges[s] + (c.ledges[R[n]] - 1), !.reference[R[n]] = s]
  <2>1. MeetInv([c EXCEPT !.ledges[s] = c.ledges[s] + (c.ledges[R[n]] - 1), !.reference[R[n]] = s],
                P, Joined(R, R[n], s), K, s, p)
    BY <1>7, MeetsFriend, Zenon DEF c
  <2> QED BY <1>7, <2>1 DEF m
<1>8. CASE /\ b.color[n] # EMPTY_SQUARE /\ b.color[n] # b.color[s] /\ c.ledges[R[n]] - 1 = 0
           /\ m = RemoveGroup([c EXCEPT !.ledges[R[n]] = c.ledges[R[n]] - 1], n, R[n])
  <2>1. b.ledges[R[n]] - 1 = 0
    BY <1>3, <1>8
  <2>2. MeetInv(RemoveGroup([c EXCEPT !.ledges[R[n]] = c.ledges[R[n]] - 1], n, R[n]), P, R, K, s, p)
    BY <1>8, <2>1, MeetsLast, Zenon DEF c
  <2> QED BY <1>8, <2>2 DEF m
<1> QED BY <1>4, <1>5, <1>6, <1>7, <1>8, Zenon

-----------------------------------------------------------------------------
(* The board between moves: R has the root of every square's group, K      *)
(* falls along the references.                                             *)
Free(k) == {d \in Squares \X Squares : d[2] \in Around(d[1]) /\ k[d[2]] = EMPTY_SQUARE}

Sound(b, R, K) ==
  /\ b \in GoBoards /\ Rooted(b.reference, R, K)
  /\ \A t \in Squares : b.color[R[t]] = b.color[t]
  /\ \A t \in Squares : b.color[t] = EMPTY_SQUARE => R[t] = t
  /\ Linked(b.color, R, {})
  /\ Held(b.color, R)
  /\ \A r \in Squares : R[r] = r /\ b.color[r] # EMPTY_SQUARE =>
       b.ledges[r] = Cardinality(Fed(R, r, Free(b.color))) /\ b.ledges[r] # 0
  /\ Listed(b, Empty(b.color))

LEMMA NewStoneFacts ==
  ASSUME NEW b \in GoBoards, NEW s \in Squares, NEW c \in Stones
  PROVE  LET m == NewStone(b, s, c)
         IN  /\ m \in GoBoards
             /\ m.color = [b.color EXCEPT ![s] = c] /\ m.reference = [b.reference EXCEPT ![s] = s]
             /\ m.ledges = [b.ledges EXCEPT ![s] = 0]
             /\ m.empties = b.empties /\ m.place = b.place
<1> HIDE DEF Squares
<1> DEFINE k == [b.color EXCEPT ![s] = c]
           f == [b.reference EXCEPT ![s] = s]
           l == [b.ledges EXCEPT ![s] = 0]
           u == [b.used EXCEPT ![s] = TRUE]
           m == NewStone(b, s, c)
<1>1. /\ k \in [Squares -> Stones \union {EMPTY_SQUARE}] /\ f \in [Squares -> Squares]
      /\ l \in [Squares -> Int] /\ u \in [Squares -> BOOLEAN]
  BY DEF GoBoards
<1>2. m = [b EXCEPT !.color = k, !.reference = f, !.ledges = l, !.used = u]
  BY DEF NewStone, GoBoards
<1> HIDE DEF k, f, l, u, m
<1>3. /\ m \in GoBoards /\ m.color = k /\ m.reference = f /\ m.ledges = l
      /\ m.empties = b.empties /\ m.place = b.place
  BY <1>1, <1>2 DEF GoBoards
<1> QED BY <1>3, Zenon DEF m, k, f, l, u

LEMMA FreeFacts ==
  ASSUME NEW k
  PROVE  /\ Free(k) \subseteq Squares \X Squares
         /\ \A x \in Squares : \A y \in Squares :
              <<x, y>> \in Free(k) <=> y \in Around(x) /\ k[y] = EMPTY_SQUARE
<1> HIDE DEF Squares
<1> QED BY DEF Free

(* Where the loop begins. *)
LEMMA MeetBegins ==
  ASSUME NEW b, NEW R, NEW K, NEW s \in Squares, NEW c \in Stones,
         Sound(b, R, K), b.color[s] = EMPTY_SQUARE
  PROVE  MeetInv(NewStone(b, s, c), On(Edges(s)), R, [t \in Squares |-> IF t = s THEN 0 ELSE K[t] + 1],
                 s, [b.color EXCEPT ![s] = c])
<1> HIDE DEF Squares
<1> DEFINE k == b.color
           p == [k EXCEPT ![s] = c]
           m == NewStone(b, s, c)
           L == [t \in Squares |-> IF t = s THEN 0 ELSE K[t] + 1]
           Q == On(Edges(s))
<1>1. /\ b \in GoBoards /\ Rooted(b.reference, R, K)
      /\ \A t \in Squares : k[R[t]] = k[t]
      /\ \A t \in Squares : k[t] = EMPTY_SQUARE => R[t] = t
      /\ Linked(k, R, {})
      /\ Held(k, R)
      /\ \A r \in Squares : R[r] = r /\ k[r] # EMPTY_SQUARE =>
           b.ledges[r] = Cardinality(Fed(R, r, Free(k))) /\ b.ledges[r] # 0
      /\ Listed(b, Empty(k))
  BY DEF Sound
<1>2. /\ b.reference \in [Squares -> Squares] /\ R \in [Squares -> Squares] /\ K \in [Squares -> Nat]
      /\ \A t \in Squares : /\ R[b.reference[t]] = R[t] /\ R[R[t]] = R[t]
                            /\ IF R[t] = t THEN b.reference[t] = t
                               ELSE b.reference[t] # t /\ K[b.reference[t]] < K[t] /\ K[R[t]] < K[t]
  BY <1>1 DEF Rooted
<1>3. R[s] = s /\ b.reference[s] = s /\ \A t \in Squares : t # s => R[t] # s /\ b.reference[t] # s
  BY <1>1, <1>2
<1>4. /\ m \in GoBoards
      /\ m.color = p /\ m.reference = [b.reference EXCEPT ![s] = s]
      /\ m.ledges = [b.ledges EXCEPT ![s] = 0]
      /\ m.empties = b.empties /\ m.place = b.place
  BY <1>1, NewStoneFacts
<1>5. /\ k \in [Squares -> Stones \union {EMPTY_SQUARE}] /\ b.ledges \in [Squares -> Int]
  BY <1>1 DEF GoBoards
<1>6. /\ p \in [Squares -> Stones \union {EMPTY_SQUARE}]
      /\ \A t \in Squares : p[t] = IF t = s THEN c ELSE k[t]
      /\ c # EMPTY_SQUARE /\ k[s] = EMPTY_SQUARE
  BY <1>5 DEF Stones, WHITE, BLACK, EMPTY_SQUARE
<1>7. /\ Q \in SUBSET (Squares \X Squares)
      /\ \A n : <<s, n>> \in Q <=> n \in Around(s)
      /\ \A d \in Q : d[1] = s /\ d[2] \in Around(s)
  <2>1. \A d : d \in Q <=> \E n \in Around(s) : d = <<s, n>>
    BY EdgeFacts
  <2>2. \A n \in Around(s) : n \in Squares
    BY AroundFacts
  <2> QED BY <2>1, <2>2
<1>8. /\ L \in [Squares -> Nat] /\ L[s] = 0 /\ \A t \in Squares : t # s => L[t] = K[t] + 1 /\ K[t] \in Nat
  BY <1>2
<1> HIDE DEF k, p, m, L, Q
<1>9. Rooted(m.reference, R, L)
  <2>1. m.reference = b.reference
    BY <1>2, <1>3, <1>4
  <2>2. ASSUME NEW t \in Squares
        PROVE  /\ R[b.reference[t]] = R[t] /\ R[R[t]] = R[t]
               /\ IF R[t] = t THEN b.reference[t] = t
                  ELSE b.reference[t] # t /\ L[b.reference[t]] < L[t] /\ L[R[t]] < L[t]
    <3>1. b.reference[t] \in Squares /\ R[t] \in Squares
      BY <1>2
    <3>2. CASE R[t] = t
      BY <1>2, <3>2
    <3>3. CASE R[t] # t
      <4>1. t # s /\ b.reference[t] # s /\ R[t] # s
        BY <1>3, <3>3
      <4> QED BY <1>2, <1>8, <3>1, <3>3, <4>1
    <3> QED BY <3>2, <3>3
  <2> QED BY <1>2, <1>8, <2>1, <2>2 DEF Rooted
<1>10. \A t \in Squares : p[R[t]] = p[t]
  BY <1>1, <1>3, <1>6, <1>2
<1>11. MeetColors(p, p, s)
  BY <1>6 DEF MeetColors
<1>12. Linked(p, R, Q)
  <2> SUFFICES ASSUME NEW t \in Squares, NEW u \in Around(t), p[u] = p[t], p[t] # EMPTY_SQUARE
               PROVE  R[u] = R[t] \/ <<t, u>> \in Q \/ <<u, t>> \in Q
    BY DEF Linked
  <2>1. u \in Squares /\ t \in Around(u)
    BY AroundFacts
  <2>2. CASE t = s \/ u = s
    BY <1>7, <2>1, <2>2
  <2>3. CASE t # s /\ u # s
    BY <1>1, <1>6, <2>1, <2>3 DEF Linked
  <2> QED BY <2>2, <2>3
<1>13. Held(p, R)
  <2> SUFFICES ASSUME NEW G \in SUBSET Squares, Closed(p, G), NEW t \in G, p[t] # EMPTY_SQUARE,
                      NEW u \in Squares, R[u] = R[t]
               PROVE  u \in G
    BY DEF Held
  <2>1. CASE t = s
    BY <1>3, <2>1
  <2>2. CASE t # s
    <3>1. PICK F \in SUBSET Squares : \A x : x \in F <=> x \in G /\ k[x] # EMPTY_SQUARE
      <4>1. {x \in G : k[x] # EMPTY_SQUARE} \in SUBSET Squares
        OBVIOUS
      <4> QED BY <4>1
    <3>2. Closed(k, F)
      <4> SUFFICES ASSUME NEW x \in F, NEW y \in Around(x), k[y] = k[x] PROVE y \in F
        BY DEF Closed
      <4>1. x \in Squares /\ y \in Squares /\ x \in G /\ k[x] # EMPTY_SQUARE
        BY <3>1, AroundFacts
      <4>2. p[y] = p[x]
        BY <1>6, <4>1
      <4> QED BY <3>1, <4>1, <4>2 DEF Closed
    <3>3. t \in F
      BY <1>6, <2>2, <3>1
    <3>4. k[t] # EMPTY_SQUARE
      BY <3>1, <3>3
    <3>5. u \in F
      BY <1>1, <3>2, <3>3, <3>4 DEF Held
    <3> QED BY <3>1, <3>5
  <2> QED BY <2>1, <2>2
<1>14. /\ Due(p, s, Q) \subseteq Squares \X Squares
       /\ \A x \in Squares : \A y \in Squares :
            <<x, y>> \in Due(p, s, Q) <=>
              /\ y \in Around(x)
              /\ x = s => p[y] = EMPTY_SQUARE /\ <<x, y>> \notin Q
              /\ x # s /\ y = s => <<s, x>> \in Q
              /\ x # s /\ y # s => p[y] = EMPTY_SQUARE
  BY DueFacts
<1>15. /\ Free(k) \subseteq Squares \X Squares
       /\ \A x \in Squares : \A y \in Squares :
            <<x, y>> \in Free(k) <=> y \in Around(x) /\ k[y] = EMPTY_SQUARE
  BY FreeFacts
<1>16. \A x \in Squares : \A y \in Squares : <<x, y>> \in Due(p, s, Q) <=> x # s /\ <<x, y>> \in Free(k)
  <2> SUFFICES ASSUME NEW x \in Squares, NEW y \in Squares
               PROVE  <<x, y>> \in Due(p, s, Q) <=> x # s /\ <<x, y>> \in Free(k)
    OBVIOUS
  <2>1. y \in Around(x) => x \in Around(y)
    BY AroundFacts
  <2>2. CASE x = s
    BY <1>7, <1>14, <2>2
  <2>3. CASE x # s /\ y = s
    BY <1>6, <1>7, <1>14, <1>15, <2>1, <2>3
  <2>4. CASE x # s /\ y # s
    BY <1>6, <1>14, <1>15, <2>4
  <2> QED BY <2>2, <2>3, <2>4
<1>17. Counts(m.ledges, p, R, s, Due(p, s, Q))
  <2> SUFFICES ASSUME NEW r \in Squares, R[r] = r, p[r] # EMPTY_SQUARE
               PROVE  /\ m.ledges[r] = Cardinality(Fed(R, r, Due(p, s, Q)))
                      /\ r # s => m.ledges[r] # 0
    BY DEF Counts
  <2>1. CASE r = s
    <3>1. \A x \in Squares : \A y \in Squares : <<x, y>> \in Due(p, s, Q) => R[x] # s
      BY <1>3, <1>16
    <3>2. Fed(R, r, Due(p, s, Q)) = {}
      BY <1>14, <2>1, <3>1 DEF Fed
    <3> QED BY <1>4, <1>5, <2>1, <3>2, FS_EmptySet
  <2>2. CASE r # s
    <3>1. \A x \in Squares : \A y \in Squares :
            <<x, y>> \in Due(p, s, Q) /\ R[x] = r <=> <<x, y>> \in Free(k) /\ R[x] = r
      BY <1>3, <1>16, <2>2
    <3>2. /\ Fed(R, r, Due(p, s, Q)) \in SUBSET (Squares \X Squares)
          /\ Fed(R, r, Free(k)) \in SUBSET (Squares \X Squares)
      BY <1>14, <1>15 DEF Fed
    <3>3. \A x \in Squares : \A y \in Squares :
            <<x, y>> \in Fed(R, r, Due(p, s, Q)) <=> <<x, y>> \in Fed(R, r, Free(k))
      BY <3>1 DEF Fed
    <3>4. Fed(R, r, Due(p, s, Q)) = Fed(R, r, Free(k))
      BY ONLY <3>2, <3>3, SamePairs
    <3> QED BY <1>1, <1>4, <1>5, <1>6, <2>2, <3>4
  <2> QED BY <2>1, <2>2
<1>18. Listed(m, Empty(p) \union {s})
  <2>1. Empty(p) \union {s} = Empty(k)
    BY <1>6 DEF Empty
  <2> QED BY <1>1, <1>4, <2>1 DEF Listed
<1>19. /\ R[s] = s /\ L[s] = 0 /\ \A t \in Squares : t # s => L[t] # 0
  BY <1>3, <1>8
<1>20. MeetInv(m, Q, R, L, s, p)
  BY <1>4, <1>7, <1>9, <1>10, <1>11, <1>12, <1>13, <1>17, <1>18, <1>19 DEF MeetInv
<1> QED BY <1>20, Zenon DEF m, Q, L, p, k

(* Where it ends. *)
LEMMA MeetFinishes ==
  ASSUME NEW b, NEW R, NEW K, NEW s \in Squares, NEW c \in Stones,
         Sound(b, R, K), b.color[s] = EMPTY_SQUARE
  PROVE  \E z \in GoBoards : /\ \E S, L : MeetInv(z, {}, S, L, s, [b.color EXCEPT ![s] = c])
                             /\ Placed(b, s, c) = RemoveEmpty(z, s)
<1> HIDE DEF Squares
<1> DEFINE p == [b.color EXCEPT ![s] = c]
           L == [t \in Squares |-> IF t = s THEN 0 ELSE K[t] + 1]
           I == {a \in Agendas : Distinct(a.agenda) /\ \E S : MeetInv(a.board, On(a.agenda), S, L, s, p)}
           st == MeetStart(b, s, c)
<1>1. st \in I
  <2>1. /\ Edges(s) \in Seq(Squares \X Squares) /\ Distinct(Edges(s))
    BY EdgeFacts
  <2>2. NewStone(b, s, c) \in GoBoards
    BY NewStoneFacts DEF Sound
  <2>3. st.board = NewStone(b, s, c) /\ st.agenda = Edges(s) /\ st \in Agendas
    BY <2>1, <2>2 DEF MeetStart, Agendas
  <2>4. MeetInv(st.board, On(st.agenda), R, L, s, p)
    <3>1. MeetInv(NewStone(b, s, c), On(Edges(s)), R, L, s, p)
      BY MeetBegins
    <3> HIDE DEF L, p, st
    <3> QED BY <2>3, <3>1
  <2> QED BY <2>1, <2>3, <2>4
<1> HIDE DEF L, p
<1>2. ASSUME NEW a \in I, a.agenda # <<>> PROVE MeetNext(a, s) \in I
  <2>1. /\ MeetNext(a, s) \in Agendas
        /\ Head(a.agenda) \in Squares \X Squares
        /\ a.agenda \in Seq(Squares \X Squares)
    BY <1>2, MeetNextType DEF Agendas
  <2>2. PICK S : MeetInv(a.board, On(a.agenda), S, L, s, p)
    OBVIOUS
  <2>3. Distinct(a.agenda)
    OBVIOUS
  <2>4. /\ Distinct(Tail(a.agenda)) /\ On(Tail(a.agenda)) = On(a.agenda) \ {Head(a.agenda)}
        /\ Head(a.agenda) \in On(a.agenda)
    <3>1. On(a.agenda) = {Head(a.agenda)} \union On(Tail(a.agenda))
      BY <1>2, <2>1, OnHeadTail, Zenon
    <3>2. Distinct(Tail(a.agenda)) /\ On(Tail(a.agenda)) = On(a.agenda) \ {Head(a.agenda)}
      BY <1>2, <2>1, <2>3, DistinctTail, Zenon
    <3> QED BY <3>1, <3>2
  <2>5. PICK n : Head(a.agenda) = <<s, n>> /\ Head(a.agenda)[2] = n
    <3>1. Head(a.agenda)[1] = s
      BY <2>2, <2>4 DEF MeetInv
    <3> QED BY <2>1, <3>1
  <2>6. PICK T : MeetInv(MeetNeighbour(a.board, s, n), On(a.agenda) \ {<<s, n>>}, T, L, s, p)
    <3>1. <<s, n>> \in On(a.agenda)
      BY <2>4, <2>5
    <3> QED BY <2>2, <3>1, MeetStep
  <2>7. MeetNext(a, s).board = MeetNeighbour(a.board, s, n) /\ MeetNext(a, s).agenda = Tail(a.agenda)
    BY <2>5 DEF MeetNext
  <2>8. MeetInv(MeetNext(a, s).board, On(MeetNext(a, s).agenda), T, L, s, p)
    BY <2>4, <2>5, <2>6, <2>7
  <2> QED BY <2>1, <2>4, <2>7, <2>8
<1>3. I \in SUBSET Agendas /\ MeetStart(b, s, c) \in I
      /\ \A a \in I : a.agenda # <<>> => MeetNext(a, s) \in I
  BY <1>1, <1>2
<1>4. PICK z \in I : z.agenda = <<>> /\ Placed(b, s, c) = RemoveEmpty(z.board, s)
  <2> HIDE DEF I, st
  <2>1. I \in SUBSET Agendas
    BY <1>3
  <2>2. MeetStart(b, s, c) \in I
    BY <1>3
  <2>3. \A a \in I : a.agenda # <<>> => MeetNext(a, s) \in I
    BY <1>3
  <2> QED BY ONLY <2>1, <2>2, <2>3, s \in Squares, MeetEnds
<1>5. On(z.agenda) = {}
  <2>1. DOMAIN z.agenda = {}
    BY <1>4
  <2> QED BY <2>1 DEF On
<1>6. z.board \in GoBoards
  BY DEF Agendas
<1>7. PICK S : MeetInv(z.board, {}, S, L, s, p)
  BY <1>4, <1>5
<1> QED BY <1>4, <1>6, <1>7 DEF p

(* EmptySet.remove *)
LEMMA RemoveEmptyFacts ==
  ASSUME NEW b \in GoBoards, NEW Z \in SUBSET Squares, NEW s \in Squares, s \notin Z, Listed(b, Z \union {s})
  PROVE  LET g == RemoveEmpty(b, s)
         IN  /\ g \in GoBoards /\ Listed(g, Z)
             /\ g.color = b.color /\ g.reference = b.reference /\ g.ledges = b.ledges
<1> HIDE DEF Squares
<1> DEFINE e == b.empties
           q == b.place
           N == Len(e)
           last == e[N]
           x == [i \in 1..(N - 1) |-> IF i = q[s] THEN last ELSE e[i]]
           y == [q EXCEPT ![last] = q[s], ![s] = 0]
           g == RemoveEmpty(b, s)
<1>1. /\ e \in Seq(Squares) /\ q \in [Squares -> Nat]
      /\ N \in Nat /\ DOMAIN e = 1..N /\ \A i \in 1..N : e[i] \in Squares
  BY LenProperties DEF GoBoards
<1>2. /\ \A i \in 1..N : e[i] \in Z \union {s} /\ q[e[i]] = i
      /\ \A t \in Z \union {s} : q[t] \in 1..N /\ e[q[t]] = t
  BY <1>1 DEF Listed
<1> HIDE DEF e, q, N
<1>3. N \in 1..N /\ last \in Squares /\ q[last] = N /\ last \in Z \union {s}
  BY <1>1, <1>2
<1> HIDE DEF last
<1>4. x \in Seq(Squares) /\ DOMAIN x = 1..(N - 1) /\ \A i \in 1..(N - 1) : x[i] = IF i = q[s] THEN last ELSE e[i]
  <2>1. N - 1 \in Nat
    BY <1>1, <1>3
  <2>2. \A i \in 1..(N - 1) : x[i] \in Squares
    BY <1>1, <1>3
  <2>3. x \in [1..(N - 1) -> Squares]
    BY <2>2
  <2> QED BY <2>1, <2>3
<1>5. /\ y \in [Squares -> Nat]
      /\ \A t \in Squares : y[t] = IF t = s THEN 0 ELSE IF t = last THEN q[s] ELSE q[t]
  BY <1>1, <1>3
<1>6. g = [b EXCEPT !.empties = x, !.place = y]
  BY Zenon DEF RemoveEmpty, e, q, N, last
<1> HIDE DEF x, y, g
<1>7. /\ g \in GoBoards /\ g.empties = x /\ g.place = y
      /\ g.color = b.color /\ g.reference = b.reference /\ g.ledges = b.ledges
  BY <1>4, <1>5, <1>6 DEF GoBoards
<1>8. ASSUME NEW i \in 1..(N - 1) PROVE x[i] \in Z /\ y[x[i]] = i
  <2>1. i \in 1..N /\ i # N /\ i \in Nat /\ i # 0
    BY <1>1
  <2>2. CASE i = q[s]
    <3>1. last # s
      BY <1>3, <2>1, <2>2
    <3> QED BY <1>3, <1>4, <1>5, <2>2, <3>1
  <2>3. CASE i # q[s]
    <3>1. e[i] # s /\ e[i] # last /\ e[i] \in Z /\ q[e[i]] = i /\ e[i] \in Squares
      BY <1>1, <1>2, <1>3, <2>1, <2>3
    <3> QED BY <1>4, <1>5, <2>3, <3>1
  <2> QED BY <2>2, <2>3
<1>9. ASSUME NEW t \in Z PROVE y[t] \in 1..(N - 1) /\ x[y[t]] = t
  <2>1. t \in Squares /\ t # s /\ q[t] \in 1..N /\ e[q[t]] = t /\ q[s] \in 1..N /\ e[q[s]] = s
    BY <1>2
  <2>2. CASE t = last
    <3>1. y[t] = q[s] /\ q[s] # N
      BY <1>5, <2>1, <2>2 DEF last
    <3> QED BY <1>1, <1>4, <2>1, <2>2, <3>1
  <2>3. CASE t # last
    <3>1. y[t] = q[t] /\ q[t] # N /\ q[t] # q[s]
      BY <1>5, <2>1, <2>3 DEF last
    <3> QED BY <1>1, <1>4, <2>1, <3>1
  <2> QED BY <2>2, <2>3
<1>10. Listed(g, Z)
  BY <1>4, <1>7, <1>8, <1>9 DEF Listed
<1> QED BY <1>7, <1>10, Zenon DEF g

LEMMA ForgottenFacts ==
  ASSUME NEW b \in GoBoards
  PROVE  LET g == Forgotten(b)
         IN  /\ g \in GoBoards
             /\ g.color = b.color /\ g.empties = b.empties /\ g.place = b.place
             /\ \A t \in Squares :
                  /\ g.reference[t] = IF b.color[t] = EMPTY_SQUARE THEN t ELSE b.reference[t]
                  /\ b.color[t] # EMPTY_SQUARE => g.ledges[t] = b.ledges[t]
<1> HIDE DEF Squares
<1> DEFINE f == [s \in Squares |-> IF b.color[s] = EMPTY_SQUARE THEN s ELSE b.reference[s]]
           l == [s \in Squares |-> IF b.color[s] = EMPTY_SQUARE THEN 0 ELSE b.ledges[s]]
           g == Forgotten(b)
<1>1. f \in [Squares -> Squares] /\ l \in [Squares -> Int]
  BY DEF GoBoards
<1>2. g = [b EXCEPT !.reference = f, !.ledges = l]
  BY DEF Forgotten, GoBoards
<1>3. \A t \in Squares :
        /\ f[t] = IF b.color[t] = EMPTY_SQUARE THEN t ELSE b.reference[t]
        /\ b.color[t] # EMPTY_SQUARE => l[t] = b.ledges[t]
  OBVIOUS
<1> HIDE DEF f, l, g
<1>4. /\ g \in GoBoards /\ g.color = b.color /\ g.reference = f /\ g.ledges = l
      /\ g.empties = b.empties /\ g.place = b.place
  BY <1>1, <1>2 DEF GoBoards
<1> QED BY <1>3, <1>4, Zenon DEF g

(* When the new stone has an edge, the board is sound again. *)
LEMMA PlacedSound ==
  ASSUME NEW z \in GoBoards, NEW R, NEW K, NEW s, NEW p, MeetInv(z, {}, R, K, s, p), z.ledges[s] # 0
  PROVE  \E S : Sound(Forgotten(RemoveEmpty(z, s)), S, K)
<1> HIDE DEF Squares
<1> DEFINE k == z.color
           S == [t \in Squares |-> IF k[t] = EMPTY_SQUARE THEN t ELSE R[t]]
           g == RemoveEmpty(z, s)
           b == Forgotten(g)
<1>1. /\ Rooted(z.reference, R, K) /\ s \in Squares /\ R[s] = s
      /\ \A t \in Squares : k[R[t]] = k[t]
      /\ MeetColors(k, p, s) /\ Linked(k, R, {}) /\ Held(k, R)
      /\ Counts(z.ledges, k, R, s, Due(k, s, {}))
      /\ Listed(z, Empty(k) \union {s})
  BY DEF MeetInv
<1>2. k[s] # EMPTY_SQUARE
  BY <1>1 DEF MeetColors, Opponent, Stones, WHITE, BLACK, EMPTY_SQUARE
<1>3. s \notin Empty(k) /\ Empty(k) \in SUBSET Squares
  BY <1>2 DEF Empty
<1>4. /\ g \in GoBoards /\ Listed(g, Empty(k))
      /\ g.color = k /\ g.reference = z.reference /\ g.ledges = z.ledges
  <2>1. Listed(z, Empty(k) \union {s})
    BY <1>1
  <2>2. PICK Z : Z = Empty(k)
    OBVIOUS
  <2>3. Z \in SUBSET Squares /\ s \in Squares /\ s \notin Z /\ Listed(z, Z \union {s})
    BY <1>1, <1>3, <2>1, <2>2
  <2>4. /\ g \in GoBoards /\ Listed(g, Z)
        /\ g.color = k /\ g.reference = z.reference /\ g.ledges = z.ledges
    BY <2>3, RemoveEmptyFacts
  <2> QED BY <2>2, <2>4
<1> HIDE DEF g
<1>5. /\ b \in GoBoards
      /\ b.color = k /\ b.empties = g.empties /\ b.place = g.place
      /\ \A t \in Squares :
           /\ b.reference[t] = IF k[t] = EMPTY_SQUARE THEN t ELSE z.reference[t]
           /\ k[t] # EMPTY_SQUARE => b.ledges[t] = z.ledges[t]
  <2>1. /\ b \in GoBoards
        /\ b.color = g.color /\ b.empties = g.empties /\ b.place = g.place
        /\ \A t \in Squares :
             /\ b.reference[t] = IF g.color[t] = EMPTY_SQUARE THEN t ELSE g.reference[t]
             /\ g.color[t] # EMPTY_SQUARE => b.ledges[t] = g.ledges[t]
    BY <1>4, ForgottenFacts
  <2> QED BY <1>4, <2>1
<1> HIDE DEF b, k
<1>6. /\ z.reference \in [Squares -> Squares] /\ R \in [Squares -> Squares] /\ K \in [Squares -> Nat]
      /\ \A t \in Squares : /\ R[z.reference[t]] = R[t] /\ R[R[t]] = R[t]
                            /\ IF R[t] = t THEN z.reference[t] = t
                               ELSE z.reference[t] # t /\ K[z.reference[t]] < K[t] /\ K[R[t]] < K[t]
  BY <1>1 DEF Rooted
<1>7. S \in [Squares -> Squares] /\ \A t \in Squares : S[t] = IF k[t] = EMPTY_SQUARE THEN t ELSE R[t]
  BY <1>6
<1> HIDE DEF S
<1>8. Rooted(b.reference, S, K)
  <2>1. b.reference \in [Squares -> Squares]
    BY <1>5 DEF GoBoards
  <2>2. ASSUME NEW t \in Squares
        PROVE  /\ S[b.reference[t]] = S[t] /\ S[S[t]] = S[t]
               /\ IF S[t] = t THEN b.reference[t] = t
                  ELSE b.reference[t] # t /\ K[b.reference[t]] < K[t] /\ K[S[t]] < K[t]
    <3>1. CASE k[t] = EMPTY_SQUARE
      BY <1>5, <1>7, <3>1
    <3>2. CASE k[t] # EMPTY_SQUARE
      <4>1. z.reference[t] \in Squares /\ R[t] \in Squares
        BY <1>6
      <4>2. k[R[t]] = k[t] /\ k[z.reference[t]] = k[t]
        BY <1>1, <1>6, <4>1
      <4>3. b.reference[t] = z.reference[t] /\ S[t] = R[t] /\ S[R[t]] = R[t] /\ S[z.reference[t]] = R[t]
        BY <1>5, <1>6, <1>7, <3>2, <4>1, <4>2
      <4> QED BY <1>6, <4>3
    <3> QED BY <3>1, <3>2
  <2> QED BY <1>6, <1>7, <2>1, <2>2 DEF Rooted
<1>9. /\ \A t \in Squares : k[S[t]] = k[t]
      /\ \A t \in Squares : k[t] = EMPTY_SQUARE => S[t] = t
  BY <1>1, <1>7
<1>10. Linked(k, S, {})
  <2> SUFFICES ASSUME NEW t \in Squares, NEW u \in Around(t), k[u] = k[t], k[t] # EMPTY_SQUARE
               PROVE  S[u] = S[t]
    BY DEF Linked
  <2>1. u \in Squares
    BY AroundFacts
  <2> QED BY <1>1, <1>7, <2>1 DEF Linked
<1>11. Held(k, S)
  <2> SUFFICES ASSUME NEW G \in SUBSET Squares, Closed(k, G), NEW t \in G, k[t] # EMPTY_SQUARE,
                      NEW u \in Squares, S[u] = S[t]
               PROVE  u \in G
    BY DEF Held
  <2>1. k[u] = k[t]
    BY <1>9
  <2>2. R[u] = R[t]
    BY <1>7, <2>1
  <2> QED BY <1>1, <2>2 DEF Held
<1>12. /\ Due(k, s, {}) \subseteq Squares \X Squares
       /\ \A x \in Squares : \A y \in Squares :
            <<x, y>> \in Due(k, s, {}) <=>
              /\ y \in Around(x)
              /\ x = s => k[y] = EMPTY_SQUARE /\ <<x, y>> \notin {}
              /\ x # s /\ y = s => <<s, x>> \in {}
              /\ x # s /\ y # s => k[y] = EMPTY_SQUARE
  BY DueFacts
<1>13. /\ Free(k) \subseteq Squares \X Squares
       /\ \A x \in Squares : \A y \in Squares :
            <<x, y>> \in Free(k) <=> y \in Around(x) /\ k[y] = EMPTY_SQUARE
  BY FreeFacts
<1>14. Due(k, s, {}) = Free(k)
  <2>1. \A x \in Squares : \A y \in Squares : <<x, y>> \in Due(k, s, {}) <=> <<x, y>> \in Free(k)
    BY <1>2, <1>12, <1>13
  <2>2. Due(k, s, {}) \in SUBSET (Squares \X Squares) /\ Free(k) \in SUBSET (Squares \X Squares)
    BY <1>12, <1>13
  <2> QED BY ONLY <2>1, <2>2, SamePairs
<1>15. ASSUME NEW r \in Squares, S[r] = r, k[r] # EMPTY_SQUARE
       PROVE  b.ledges[r] = Cardinality(Fed(S, r, Free(k))) /\ b.ledges[r] # 0
  <2>1. R[r] = r
    BY <1>7, <1>15
  <2>2. z.ledges[r] = Cardinality(Fed(R, r, Free(k))) /\ z.ledges[r] # 0
    BY <1>1, <1>14, <1>15, <2>1 DEF Counts
  <2>3. \A x \in Squares : R[x] = r <=> S[x] = r
    BY <1>1, <1>7, <1>15
  <2>4. Fed(S, r, Free(k)) = Fed(R, r, Free(k))
    BY <1>13, <2>3 DEF Fed
  <2> QED BY <1>5, <1>15, <2>2, <2>4
<1>16. Listed(b, Empty(k))
  BY <1>4, <1>5 DEF Listed
<1>17. Sound(b, S, K)
  BY <1>5, <1>8, <1>9, <1>10, <1>11, <1>15, <1>16 DEF Sound
<1> QED BY <1>17 DEF b, g

-----------------------------------------------------------------------------
(* A useful move leaves its stone with an edge. *)

\* useful() takes r for weak
Weak(b, s, r) ==
  b.ledges[r] = Cardinality({n \in {m \in Around(s) : b.color[m] # EMPTY_SQUARE} : FindRef(b, n) = r})

LEMMA WeakFacts ==
  ASSUME NEW b, NEW R, NEW K, NEW s \in Squares, NEW r \in Squares,
         Sound(b, R, K), b.color[s] = EMPTY_SQUARE, R[r] = r, b.color[r] # EMPTY_SQUARE
  PROVE  /\ Weak(b, s, r) => \A d \in Fed(R, r, Free(b.color)) : d[2] = s
         /\ ~Weak(b, s, r) => \E d \in Fed(R, r, Free(b.color)) : d[2] # s
<1> HIDE DEF Squares
<1> DEFINE k == b.color
           N == {n \in {m \in Around(s) : k[m] # EMPTY_SQUARE} : FindRef(b, n) = r}
           F == Fed(R, r, Free(k))
           P == N \X {s}
<1>1. /\ b \in GoBoards /\ Rooted(b.reference, R, K)
      /\ \A t \in Squares : k[R[t]] = k[t]
      /\ b.ledges[r] = Cardinality(F)
  BY DEF Sound
<1>2. \A n \in Squares : FindRef(b, n) = R[n]
  <2>r. Ranked(b, R, K)
    BY <1>1 DEF Ranked
  <2>f. Finds(b, R)
    BY <2>r, RankedFinds
  <2> QED BY <2>f DEF Finds
<1>3. \A n : n \in N <=> n \in Around(s) /\ R[n] = r
  <2>1. \A n \in Around(s) : n \in Squares
    BY AroundFacts
  <2>2. \A n \in Around(s) : R[n] = r => k[n] # EMPTY_SQUARE
    BY <1>1, <2>1
  <2> QED BY <1>2, <2>1, <2>2
<1>4. Weak(b, s, r) <=> Cardinality(F) = Cardinality(N)
  BY <1>1 DEF Weak
<1>5. /\ Free(k) \subseteq Squares \X Squares
      /\ \A x \in Squares : \A y \in Squares :
           <<x, y>> \in Free(k) <=> y \in Around(x) /\ k[y] = EMPTY_SQUARE
  BY FreeFacts
<1>6. IsFiniteSet(F) /\ Cardinality(F) \in Nat /\ F \in SUBSET (Squares \X Squares)
      /\ \A x \in Squares : \A y \in Squares : <<x, y>> \in F <=> <<x, y>> \in Free(k) /\ R[x] = r
  <2>1. Free(k) \in SUBSET (Squares \X Squares)
    BY <1>5
  <2>2. IsFiniteSet(F) /\ Cardinality(F) \in Nat
    BY <2>1, FedFinite
  <2>3. \A x \in Squares : \A y \in Squares : <<x, y>> \in F <=> <<x, y>> \in Free(k) /\ R[x] = r
    BY DEF Fed
  <2>4. F \in SUBSET (Squares \X Squares)
    BY <2>1 DEF Fed
  <2> QED BY <2>2, <2>3, <2>4
<1> HIDE DEF N, F, k
<1>7. \A n \in N : n \in Squares /\ s \in Around(n)
  BY <1>3, AroundFacts
<1>8. IsFiniteSet(N) /\ Cardinality(N) \in Nat
  <2>1. N \in SUBSET Squares
    BY <1>7
  <2>2. IsFiniteSet(Squares)
    BY SquaresFinite
  <2>3. IsFiniteSet(N)
    BY <2>1, <2>2, FS_Subset
  <2> QED BY <2>3, FS_CardinalityType
<1>9. IsFiniteSet({s}) /\ Cardinality({s}) = 1
  BY FS_Singleton
<1>10. Cardinality(P) = Cardinality(N)
  <2>1. Cardinality(P) = Cardinality(N) * Cardinality({s})
    BY <1>8, <1>9, FS_Product
  <2> QED BY <1>8, <1>9, <2>1
<1>11. P \in SUBSET F
  <2>1. \A n \in N : <<n, s>> \in F
    BY <1>3, <1>5, <1>6, <1>7 DEF k
  <2> QED BY <2>1
<1> HIDE DEF P
<1>12. ASSUME Weak(b, s, r), NEW d \in F PROVE d[2] = s
  <2>1. F = P
    BY <1>4, <1>6, <1>10, <1>11, <1>12, FS_Subset
  <2> QED BY <2>1 DEF P
<1>13. ASSUME ~Weak(b, s, r) PROVE \E d \in F : d[2] # s
  <2>1. F # P
    BY <1>4, <1>10, <1>13
  <2>2. PICK d : d \in F /\ d \notin P
    BY <1>11, <2>1
  <2>3. PICK x \in Squares, y \in Squares : d = <<x, y>>
    BY <1>6, <2>2
  <2>4. y # s
    <3> SUFFICES ASSUME y = s PROVE FALSE
      OBVIOUS
    <3>1. s \in Around(x) /\ R[x] = r
      BY <1>5, <1>6, <2>2, <2>3
    <3>2. x \in Around(s)
      BY <3>1, AroundFacts
    <3>3. x \in N
      BY <1>3, <3>1, <3>2
    <3> QED BY <2>2, <2>3, <3>3 DEF P
  <2> QED BY <2>2, <2>3, <2>4
<1> QED BY <1>12, <1>13 DEF F, k

\* what useful() finds of a move of c at s
Hopeful(b, s, c) ==
  \E n \in Around(s) : \/ b.color[n] = EMPTY_SQUARE
                       \/ b.color[n] = Opponent(c) /\ Weak(b, s, FindRef(b, n))
                       \/ b.color[n] = c /\ ~Weak(b, s, FindRef(b, n))

\* the loop captured nothing
Spared(b, s, c, z) == \A t \in Squares : z.color[t] = IF t = s THEN c ELSE b.color[t]

(* A group of the opponent that lives on has an edge that is not to s.     *)
LEMMA OpponentBreathes ==
  ASSUME NEW b, NEW R, NEW K, NEW s \in Squares, NEW c \in Stones, NEW n \in Around(s),
         Sound(b, R, K), b.color[s] = EMPTY_SQUARE, b.color[n] = Opponent(c),
         NEW z, NEW S, NEW L, NEW p, MeetInv(z, {}, S, L, s, p), Spared(b, s, c, z)
  PROVE  \E d \in Fed(R, R[n], Free(b.color)) : d[2] # s
<1> HIDE DEF Squares
<1> DEFINE k == b.color
           h == z.color
           F == Fed(S, S[n], Due(h, s, {}))
           G == Group(R, R[n])
<1>1. /\ b \in GoBoards /\ Rooted(b.reference, R, K) /\ Linked(k, R, {})
      /\ \A t \in Squares : k[R[t]] = k[t]
  BY DEF Sound
<1>2. /\ R \in [Squares -> Squares] /\ \A t \in Squares : R[R[t]] = R[t]
      /\ k \in [Squares -> Stones \union {EMPTY_SQUARE}]
  BY <1>1 DEF Rooted, GoBoards
<1>3. /\ \A t \in Squares : h[t] = IF t = s THEN c ELSE k[t]
      /\ Opponent(c) # c /\ Opponent(c) # EMPTY_SQUARE /\ c # EMPTY_SQUARE
      /\ k[n] = Opponent(c) /\ k[s] = EMPTY_SQUARE
  BY <1>2 DEF Opponent, Stones, WHITE, BLACK, EMPTY_SQUARE, Spared
<1>4. n \in Squares /\ n # s
  BY AroundFacts
<1>5. /\ S \in [Squares -> Squares] /\ \A t \in Squares : S[S[t]] = S[t]
      /\ \A t \in Squares : h[S[t]] = h[t]
      /\ S[s] = s /\ Held(h, S) /\ Counts(z.ledges, h, S, s, Due(h, s, {}))
  BY DEF MeetInv, Rooted
<1> HIDE DEF k, h, F, G
<1>6. S[n] \in Squares /\ S[S[n]] = S[n] /\ h[S[n]] = Opponent(c) /\ S[n] # s
  BY <1>3, <1>4, <1>5
<1>7. Cardinality(F) # 0
  BY <1>3, <1>5, <1>6 DEF Counts, F
<1>8. F # {}
  BY <1>7, FS_EmptySet
<1>9. /\ Due(h, s, {}) \subseteq Squares \X Squares
      /\ \A x \in Squares : \A y \in Squares :
           <<x, y>> \in Due(h, s, {}) <=>
             /\ y \in Around(x)
             /\ x = s => h[y] = EMPTY_SQUARE /\ <<x, y>> \notin {}
             /\ x # s /\ y = s => <<s, x>> \in {}
             /\ x # s /\ y # s => h[y] = EMPTY_SQUARE
  BY DueFacts
<1>10. PICK x \in Squares, y \in Squares : <<x, y>> \in Due(h, s, {}) /\ S[x] = S[n]
  <2>1. PICK d : d \in F
    BY <1>8
  <2>2. d \in Due(h, s, {}) /\ S[d[1]] = S[n]
    BY <2>1 DEF F, Fed
  <2> QED BY <1>9, <2>2
<1>11. y \in Around(x) /\ h[y] = EMPTY_SQUARE
  BY <1>9, <1>10
<1>12. y # s /\ k[y] = EMPTY_SQUARE
  BY <1>3, <1>11
<1>13. \A t : t \in G <=> t \in Squares /\ R[t] = R[n]
  BY DEF G, Group
<1>14. Closed(h, G)
  <2> SUFFICES ASSUME NEW t \in G, NEW u \in Around(t), h[u] = h[t] PROVE u \in G
    BY DEF Closed
  <2>1. t \in Squares /\ u \in Squares /\ R[t] = R[n]
    BY <1>13, AroundFacts
  <2>2. k[t] = Opponent(c)
    BY <1>1, <1>3, <1>4, <2>1, <1>2 DEF k
  <2>3. k[u] = k[t] /\ k[t] # EMPTY_SQUARE
    BY <1>3, <2>1, <2>2
  <2>4. R[u] = R[t]
    BY <1>1, <2>1, <2>3 DEF Linked, k
  <2> QED BY <1>13, <2>1, <2>4
<1>15. x \in G
  <2>1. G \in SUBSET Squares /\ n \in G /\ h[n] # EMPTY_SQUARE
    BY <1>3, <1>4, <1>13
  <2> QED BY <1>5, <1>10, <1>14, <2>1 DEF Held
<1>16. <<x, y>> \in Fed(R, R[n], Free(k)) /\ <<x, y>>[2] = y
  <2>1. <<x, y>> \in Free(k)
    BY <1>11, <1>12, FreeFacts
  <2>2. <<x, y>>[1] = x /\ R[x] = R[n]
    BY <1>13, <1>15
  <2> QED BY <2>1, <2>2 DEF Fed
<1> QED BY <1>12, <1>16 DEF k

LEMMA StoneBreathes ==
  ASSUME NEW b, NEW R, NEW K, NEW s \in Squares, NEW c \in Stones,
         Sound(b, R, K), b.color[s] = EMPTY_SQUARE, Hopeful(b, s, c),
         NEW z, NEW S, NEW L, MeetInv(z, {}, S, L, s, [b.color EXCEPT ![s] = c])
  PROVE  z.ledges[s] # 0
<1> HIDE DEF Squares
<1> DEFINE k == b.color
           h == z.color
           p == [k EXCEPT ![s] = c]
           D == Due(h, s, {})
<1>1. /\ b \in GoBoards /\ Rooted(b.reference, R, K) /\ Linked(k, R, {}) /\ Held(k, R)
      /\ \A t \in Squares : k[R[t]] = k[t]
  BY DEF Sound
<1>2. /\ R \in [Squares -> Squares] /\ \A t \in Squares : R[R[t]] = R[t]
      /\ k \in [Squares -> Stones \union {EMPTY_SQUARE}]
  BY <1>1 DEF Rooted, GoBoards
<1>3. /\ \A t \in Squares : p[t] = IF t = s THEN c ELSE k[t]
      /\ Opponent(c) # c /\ Opponent(c) # EMPTY_SQUARE /\ c # EMPTY_SQUARE
      /\ k[s] = EMPTY_SQUARE
  BY <1>2 DEF Opponent, Stones, WHITE, BLACK, EMPTY_SQUARE
<1>4. /\ S[s] = s /\ Linked(h, S, {}) /\ Counts(z.ledges, h, S, s, D)
      /\ MeetColors(h, p, s)
      /\ \A t \in Squares : h[S[t]] = h[t]
  BY DEF MeetInv
<1>5. /\ \A t \in Squares : h[t] = p[t] \/ (h[t] = EMPTY_SQUARE /\ p[t] = Opponent(p[s]))
      /\ (\A t \in Squares : h[t] = p[t]) \/ \E n \in Around(s) : h[n] = EMPTY_SQUARE
  BY <1>4 DEF MeetColors
<1>6. /\ D \subseteq Squares \X Squares
      /\ \A x \in Squares : \A y \in Squares :
           <<x, y>> \in D <=>
             /\ y \in Around(x)
             /\ x = s => h[y] = EMPTY_SQUARE /\ <<x, y>> \notin {}
             /\ x # s /\ y = s => <<s, x>> \in {}
             /\ x # s /\ y # s => h[y] = EMPTY_SQUARE
  BY DueFacts
<1>7. \A n \in Squares : FindRef(b, n) = R[n]
  <2>r. Ranked(b, R, K)
    BY <1>1 DEF Ranked
  <2>f. Finds(b, R)
    BY <2>r, RankedFinds
  <2> QED BY <2>f DEF Finds
<1> HIDE DEF k, h, p, D
<1>8. h[s] = c
  BY <1>3, <1>5
<1>9. SUFFICES ASSUME \A x \in Squares : \A y \in Squares : <<x, y>> \in D => S[x] # s
               PROVE  FALSE
  <2> SUFFICES ASSUME z.ledges[s] = 0
               PROVE  \A x \in Squares : \A y \in Squares : <<x, y>> \in D => S[x] # s
    OBVIOUS
  <2>1. PICK F : F = Fed(S, s, D)
    OBVIOUS
  <2>2. Cardinality(F) = 0
    BY <1>3, <1>4, <1>8, <2>1 DEF Counts
  <2>3. IsFiniteSet(F)
    BY <1>6, <2>1, FedFinite
  <2>4. F = {}
    BY <2>2, <2>3, FS_EmptySet
  <2> SUFFICES ASSUME NEW x \in Squares, NEW y \in Squares, <<x, y>> \in D, S[x] = s PROVE FALSE
    OBVIOUS
  <2>5. <<x, y>> \in F
    BY <2>1 DEF Fed
  <2> QED BY <2>4, <2>5
<1>10. \A n \in Around(s) : n \in Squares /\ n # s /\ h[n] # EMPTY_SQUARE
  <2> SUFFICES ASSUME NEW n \in Around(s) PROVE n \in Squares /\ n # s /\ h[n] # EMPTY_SQUARE
    OBVIOUS
  <2>1. n \in Squares /\ n # s
    BY AroundFacts
  <2> QED BY <1>4, <1>6, <1>9, <2>1
<1>11. \A t \in Squares : h[t] = p[t]
  BY <1>5, <1>10
<1>12. PICK n \in Around(s) : \/ k[n] = EMPTY_SQUARE
                              \/ k[n] = Opponent(c) /\ Weak(b, s, R[n])
                              \/ k[n] = c /\ ~Weak(b, s, R[n])
  BY <1>7, <1>10 DEF Hopeful, k
<1>13. R[n] \in Squares /\ R[R[n]] = R[n] /\ k[R[n]] = k[n]
  BY <1>1, <1>2, <1>10 DEF k
<1>14. CASE k[n] = EMPTY_SQUARE
  BY <1>3, <1>10, <1>11, <1>14
<1>15. CASE k[n] = Opponent(c) /\ Weak(b, s, R[n])
  <2>1. \E d \in Fed(R, R[n], Free(b.color)) : d[2] # s
    <3>1. b.color[n] = Opponent(c)
      BY <1>15 DEF k
    <3>2. Spared(b, s, c, z)
      BY <1>3, <1>11 DEF h, k, Spared
    <3> HIDE DEF p
    <3> QED BY <3>1, <3>2, OpponentBreathes
  <2>2. \A d \in Fed(R, R[n], Free(b.color)) : d[2] = s
    <3>1. PICK r \in Squares : r = R[n]
      BY <1>13
    <3>2. R[r] = r /\ b.color[r] # EMPTY_SQUARE /\ Weak(b, s, r) /\ b.color[s] = EMPTY_SQUARE
      BY <1>3, <1>13, <1>15, <3>1 DEF k
    <3>3. /\ Weak(b, s, r) => \A d \in Fed(R, r, Free(b.color)) : d[2] = s
          /\ ~Weak(b, s, r) => \E d \in Fed(R, r, Free(b.color)) : d[2] # s
      BY <3>2, WeakFacts
    <3> QED BY <3>1, <3>2, <3>3
  <2> QED BY <2>1, <2>2
<1>16. CASE k[n] = c /\ ~Weak(b, s, R[n])
  <2>1. PICK d \in Fed(R, R[n], Free(b.color)) : d[2] # s
    <3>1. R[R[n]] = R[n] /\ b.color[R[n]] # EMPTY_SQUARE
      BY <1>3, <1>13, <1>16 DEF k
    <3> QED BY <1>13, <1>16, <3>1, WeakFacts
  <2>2. d \in Free(k) /\ R[d[1]] = R[n]
    BY DEF Fed, k
  <2>3. PICK x \in Squares, y \in Squares : d = <<x, y>> /\ <<x, y>> \in Free(k) /\ R[x] = R[n] /\ y # s
    BY <2>1, <2>2, FreeFacts
  <2>4. y \in Around(x) /\ k[y] = EMPTY_SQUARE
    BY <2>3, FreeFacts
  <2>5. x # s /\ k[x] = c
    BY <1>1, <1>3, <1>13, <1>16, <2>3 DEF k
  <2>6. h[y] = EMPTY_SQUARE
    BY <1>3, <1>11, <2>3, <2>4
  <2>7. S[x] = s
    <3>1. PICK G \in SUBSET Squares : \A t : t \in G <=> t \in Squares /\ S[t] = s /\ t # s
      <4>1. {t \in Squares : S[t] = s /\ t # s} \in SUBSET Squares
        OBVIOUS
      <4> QED BY <4>1
    <3>2. \A t \in G : k[t] = c
      BY <1>3, <1>4, <1>8, <1>11, <3>1
    <3>3. Closed(k, G)
      <4> SUFFICES ASSUME NEW t \in G, NEW u \in Around(t), k[u] = k[t] PROVE u \in G
        BY DEF Closed
      <4>1. t \in Squares /\ u \in Squares /\ k[t] = c /\ S[t] = s /\ t # s
        BY <3>1, <3>2, AroundFacts
      <4>2. u # s
        BY <1>3, <4>1
      <4>3. h[u] = h[t] /\ h[t] # EMPTY_SQUARE
        BY <1>3, <1>11, <4>1, <4>2
      <4>4. S[u] = S[t]
        BY <1>4, <4>1, <4>3 DEF Linked
      <4> QED BY <3>1, <4>1, <4>2, <4>4
    <3>4. n \in G
      <4>1. h[n] = h[s] /\ h[s] # EMPTY_SQUARE
        BY <1>3, <1>8, <1>10, <1>11, <1>16
      <4>2. S[n] = S[s]
        BY <1>4, <4>1 DEF Linked
      <4> QED BY <1>4, <1>10, <3>1, <4>2
    <3>5. x \in G
      BY <1>1, <1>3, <1>16, <2>3, <3>3, <3>4 DEF Held
    <3> QED BY <3>1, <3>5
  <2> QED BY <1>6, <1>9, <2>3, <2>4, <2>5, <2>6, <2>7
<1> QED BY <1>12, <1>14, <1>15, <1>16

-----------------------------------------------------------------------------
(* What check() finds of a sound board. *)

\* what a group grows by
More(p, s, g) == {t \in Squares \ g : p[t] = p[s] /\ Around(t) \intersect g # {}}
GrowLoop(f, p, s) ==
  f = [g \in SUBSET Squares |-> IF More(p, s, g) = {} THEN g ELSE f[g \union More(p, s, g)]]

(* What holds of the squares found so far holds of the group. *)
LEMMA GroupEnds ==
  ASSUME NEW p, NEW s \in Squares, NEW I \in SUBSET (SUBSET Squares), {s} \in I,
         \A g \in I : g \union More(p, s, g) \in I
  PROVE  \E z \in I : More(p, s, z) = {} /\ GroupOf(p, s) = z
<1> HIDE DEF Squares
<1> DEFINE A == SUBSET Squares
           S == {g \in A : More(p, s, g) = {}}
           N == [g \in A |-> IF More(p, s, g) = {} THEN g ELSE g \union More(p, s, g)]
           O == [g \in A |-> g]
           M == [g \in A |-> Cardinality(Squares \ g)]
<1>1. N \in [A -> A]
  <2>1. \A g \in A : g \union More(p, s, g) \in A
    BY DEF More
  <2> QED BY <2>1
<1>2. \A f : Loop(f, A, S, N, O) <=> GrowLoop(f, p, s)
  <2> SUFFICES ASSUME NEW f PROVE Loop(f, A, S, N, O) <=> GrowLoop(f, p, s)
    OBVIOUS
  <2>1. [g \in A |-> IF g \in S THEN O[g] ELSE f[N[g]]]
        = [g \in SUBSET Squares |-> IF More(p, s, g) = {} THEN g ELSE f[g \union More(p, s, g)]]
    OBVIOUS
  <2> QED BY <2>1, Zenon DEF Loop, GrowLoop
<1>3. \A g \in A : IsFiniteSet(Squares \ g) /\ Cardinality(Squares \ g) \in Nat
  <2> SUFFICES ASSUME NEW g \in A PROVE IsFiniteSet(Squares \ g) /\ Cardinality(Squares \ g) \in Nat
    OBVIOUS
  <2>1. IsFiniteSet(Squares)
    BY SquaresFinite
  <2>2. PICK T : T = Squares \ g
    OBVIOUS
  <2>3. T \in SUBSET Squares
    BY <2>2
  <2>4. IsFiniteSet(T)
    BY <2>1, <2>3, FS_Subset
  <2>5. Cardinality(T) \in Nat
    BY <2>4, FS_CardinalityType
  <2> QED BY <2>2, <2>4, <2>5
<1>4. M \in [A -> Nat]
  BY <1>3
<1>5. \A g \in A : g \notin S => M[N[g]] < M[g]
  <2> SUFFICES ASSUME NEW g \in A, More(p, s, g) # {} PROVE M[N[g]] < M[g]
    OBVIOUS
  <2>1. N[g] = g \union More(p, s, g) /\ N[g] \in A
    BY <1>1
  <2>2. PICK t : t \in More(p, s, g)
    OBVIOUS
  <2>3. t \in Squares \ g /\ t \in N[g]
    BY <2>1, <2>2 DEF More
  <2>4. PICK T : T = Squares \ g
    OBVIOUS
  <2>5. PICK U : U = Squares \ N[g]
    OBVIOUS
  <2>6. U \in SUBSET T /\ U # T
    BY <2>1, <2>3, <2>4, <2>5
  <2>7. IsFiniteSet(T) /\ Cardinality(T) \in Nat /\ Cardinality(U) \in Nat
    BY <1>3, <2>1, <2>4, <2>5
  <2>8. Cardinality(U) <= Cardinality(T) /\ Cardinality(U) # Cardinality(T)
    BY <2>6, <2>7, FS_Subset
  <2>9. M[g] = Cardinality(T) /\ M[N[g]] = Cardinality(U)
    BY <2>1, <2>4, <2>5
  <2> QED BY <2>7, <2>8, <2>9
<1>6. \A g \in I : g \notin S => N[g] \in I
  OBVIOUS
<1>7. \E f : GrowLoop(f, p, s)
  <2>1. \E f : Loop(f, A, S, N, O)
    <3> HIDE DEF A, S, N, O
    <3> QED BY <1>1, LoopExists
  <2> QED BY <1>2, <2>1
<1> DEFINE h == CHOOSE f : GrowLoop(f, p, s)
<1>8. GrowLoop(h, p, s)
  BY <1>7, Zenon
<1>9. GroupOf(p, s) = h[{s}]
  BY Zenon DEF GroupOf, GrowLoop, More
<1> HIDE DEF h
<1>10. Loop(h, A, S, N, O)
  BY <1>2, <1>8
<1>11. \A g \in I : \E z \in I : z \in S /\ h[g] = O[z]
  <2>1. I \in SUBSET A
    OBVIOUS
  <2> HIDE DEF A, S, N, O, M
  <2> QED BY <1>1, <1>4, <1>5, <1>6, <1>10, <2>1, LoopStops
<1>12. PICK z \in I : z \in S /\ h[{s}] = O[z]
  BY <1>11
<1>13. h[{s}] = z /\ More(p, s, z) = {}
  BY <1>12
<1> QED BY <1>9, <1>13

(* A group of stones is the class of its root. *)
LEMMA GroupIsClass ==
  ASSUME NEW b, NEW R, NEW K, NEW s \in Squares, Sound(b, R, K), b.color[s] # EMPTY_SQUARE
  PROVE  GroupOf(b.color, s) = Group(R, R[s])
<1> HIDE DEF Squares
<1> DEFINE p == b.color
           X == Group(R, R[s])
           I == {g \in SUBSET Squares : s \in g /\ g \subseteq X}
<1>1. /\ \A t \in Squares : p[R[t]] = p[t]
      /\ Linked(p, R, {}) /\ Held(p, R)
  BY DEF Sound
<1>2. \A t : t \in X <=> t \in Squares /\ R[t] = R[s]
  BY DEF Group
<1> HIDE DEF p, X
<1>3. p[s] # EMPTY_SQUARE
  BY DEF p
<1>4. {s} \in I
  BY <1>2
<1>5. ASSUME NEW g \in I PROVE g \union More(p, s, g) \in I
  <2>1. g \in SUBSET Squares /\ s \in g /\ g \subseteq X
    OBVIOUS
  <2>2. ASSUME NEW t \in More(p, s, g) PROVE t \in X
    <3>1. PICK u : u \in Around(t) /\ u \in g
      BY DEF More
    <3>2. t \in Squares /\ p[t] = p[s] /\ u \in Squares /\ R[u] = R[s]
      BY <1>2, <2>1, <3>1 DEF More
    <3>3. p[u] = p[t]
      BY <1>1, <3>2
    <3>4. R[u] = R[t]
      BY <1>1, <1>3, <3>1, <3>2, <3>3 DEF Linked
    <3> QED BY <1>2, <3>2, <3>4
  <2> QED BY <1>2, <2>1, <2>2
<1>6. PICK z \in I : More(p, s, z) = {} /\ GroupOf(p, s) = z
  <2>1. I \in SUBSET (SUBSET Squares)
    OBVIOUS
  <2>2. \A g \in I : g \union More(p, s, g) \in I
    BY <1>5
  <2> HIDE DEF I
  <2> QED BY ONLY s \in Squares, <1>4, <2>1, <2>2, GroupEnds
<1>7. z \in SUBSET Squares /\ s \in z /\ z \subseteq X
  OBVIOUS
<1>8. Closed(p, z)
  <2> SUFFICES ASSUME NEW t \in z, NEW u \in Around(t), p[u] = p[t] PROVE u \in z
    BY DEF Closed
  <2>1. t \in Squares /\ R[t] = R[s] /\ u \in Squares /\ t \in Around(u)
    BY <1>2, <1>7, AroundFacts
  <2>2. p[t] = p[s]
    BY <1>1, <2>1
  <2>3. u \notin More(p, s, z)
    BY <1>6
  <2> QED BY <2>1, <2>2, <2>3 DEF More
<1>9. \A t \in X : t \in z
  BY <1>1, <1>2, <1>3, <1>7, <1>8 DEF Held
<1>10. z = X
  BY <1>7, <1>9
<1> QED BY <1>6, <1>10 DEF p, X

LEMMA LibertiesAreFed ==
  ASSUME NEW b, NEW R, NEW K, NEW s \in Squares, Sound(b, R, K), b.color[s] # EMPTY_SQUARE
  PROVE  Liberties(b.color, s) = Fed(R, R[s], Free(b.color))
<1> HIDE DEF Squares
<1> DEFINE p == b.color
           X == Group(R, R[s])
           E(t) == {e \in Around(t) : p[e] = EMPTY_SQUARE}
<1>1. Liberties(p, s) = UNION {{t} \X E(t) : t \in X}
  BY GroupIsClass, Zenon DEF Liberties
<1>2. \A t : t \in X <=> t \in Squares /\ R[t] = R[s]
  BY DEF Group
<1>3. \A d : d \in Fed(R, R[s], Free(p)) <=> d \in Free(p) /\ R[d[1]] = R[s]
  BY DEF Fed
<1> HIDE DEF p, X
<1>4. ASSUME NEW d \in Liberties(p, s) PROVE d \in Fed(R, R[s], Free(p))
  <2>1. PICK t \in X : d \in {t} \X E(t)
    BY <1>1
  <2>2. d = <<t, d[2]>> /\ d[2] \in Around(t) /\ p[d[2]] = EMPTY_SQUARE /\ d[1] = t
    BY <2>1
  <2>3. t \in Squares /\ R[t] = R[s] /\ d[2] \in Squares
    BY <1>2, <2>2, AroundFacts
  <2>4. d \in Free(p)
    BY <2>2, <2>3, FreeFacts
  <2> QED BY <1>3, <2>2, <2>3, <2>4
<1>5. ASSUME NEW d \in Fed(R, R[s], Free(p)) PROVE d \in Liberties(p, s)
  <2>1. d \in Free(p) /\ R[d[1]] = R[s]
    BY <1>3
  <2>2. PICK x \in Squares, y \in Squares : d = <<x, y>>
    BY <2>1, FreeFacts
  <2>3. y \in Around(x) /\ p[y] = EMPTY_SQUARE /\ x \in X
    BY <1>2, <2>1, <2>2, FreeFacts
  <2>4. d \in {x} \X E(x)
    BY <2>2, <2>3
  <2> QED BY <1>1, <2>3, <2>4
<1>6. Liberties(p, s) = Fed(R, R[s], Free(p))
  BY <1>4, <1>5
<1> QED BY <1>6 DEF p

LEMMA EmptiesCount ==
  ASSUME NEW b \in GoBoards, Listed(b, Empty(b.color))
  PROVE  /\ Len(b.empties) = Cardinality(Empty(b.color))
         /\ Len(b.empties) \in 0..Cardinality(Squares)
<1> HIDE DEF Squares
<1> DEFINE e == b.empties
           Z == Empty(b.color)
           N == Len(e)
<1>1. e \in Seq(Squares) /\ N \in Nat /\ DOMAIN e = 1..N
  BY LenProperties DEF GoBoards
<1>2. /\ \A i \in DOMAIN e : e[i] \in Z /\ b.place[e[i]] = i
      /\ \A t \in Z : b.place[t] \in DOMAIN e /\ e[b.place[t]] = t
  BY DEF Listed
<1>3. Z \in SUBSET Squares
  BY DEF Empty
<1> HIDE DEF e, Z, N
<1>4. e \in [1..N -> Z]
  <2>1. e = [i \in DOMAIN e |-> e[i]]
    BY <1>1
  <2> QED BY <1>1, <1>2, <2>1
<1>5. \A i, j \in 1..N : e[i] = e[j] => i = j
  BY <1>1, <1>2
<1>6. \A t \in Z : \E i \in 1..N : e[i] = t
  BY <1>1, <1>2
<1>7. e \in Bijection(1..N, Z)
  BY <1>4, <1>5, <1>6 DEF Bijection, Injection, IsInjective, Surjection
<1>8. ExistsBijection(1..N, Z)
  BY <1>7 DEF ExistsBijection
<1>9. IsFiniteSet(1..N) /\ Cardinality(1..N) = N
  <2>1. IsFiniteSet(1..N) /\ Cardinality(1..N) = IF 1 > N THEN 0 ELSE N - 1 + 1
    BY <1>1, FS_Interval
  <2> QED BY <1>1, <2>1
<1>10. Cardinality(Z) = N
  <2>1. PICK D : D = 1..N
    OBVIOUS
  <2>2. IsFiniteSet(D) /\ ExistsBijection(D, Z) /\ Cardinality(D) = N
    BY <1>8, <1>9, <2>1
  <2>3. Cardinality(Z) = Cardinality(D)
    BY <2>2, FS_Bijection
  <2> QED BY <2>2, <2>3
<1>11. Cardinality(Z) <= Cardinality(Squares) /\ Cardinality(Squares) \in Nat
  BY <1>3, SquaresFinite, FS_Subset
<1> QED BY <1>1, <1>10, <1>11 DEF N, Z, e

LEMMA SoundChecks ==
  ASSUME NEW R, NEW K, Sound(square, R, K), GoTypeOK
  PROVE  BoardChecks
<1> HIDE DEF Squares
<1> DEFINE p == square.color
<1>1. /\ square \in GoBoards /\ Rooted(square.reference, R, K)
      /\ \A t \in Squares : p[R[t]] = p[t]
      /\ \A r \in Squares : R[r] = r /\ p[r] # EMPTY_SQUARE =>
           square.ledges[r] = Cardinality(Fed(R, r, Free(p))) /\ square.ledges[r] # 0
      /\ Listed(square, Empty(p))
  BY DEF Sound
<1>2. R \in [Squares -> Squares] /\ \A t \in Squares : R[R[t]] = R[t]
  BY <1>1 DEF Rooted
<1>3. \A t \in Squares : FindRef(square, t) = R[t]
  <2>r. Ranked(square, R, K)
    BY <1>1 DEF Ranked
  <2>f. Finds(square, R)
    BY <2>r, RankedFinds
  <2> QED BY <2>f DEF Finds
<1>4. ASSUME NEW s \in Squares, p[s] # EMPTY_SQUARE
      PROVE  /\ GroupOf(p, s) = {t \in Squares : p[t] # EMPTY_SQUARE /\
                                                 FindRef(square, t) = FindRef(square, s)}
             /\ Cardinality(Liberties(p, s)) = square.ledges[FindRef(square, s)]
             /\ Liberties(p, s) # {}
  <2>1. GroupOf(p, s) = Group(R, R[s])
    BY <1>4, GroupIsClass
  <2>2. Group(R, R[s]) = {t \in Squares : p[t] # EMPTY_SQUARE /\
                                          FindRef(square, t) = FindRef(square, s)}
    <3>1. \A t \in Squares : R[t] = R[s] => p[t] # EMPTY_SQUARE
      BY <1>1, <1>4
    <3> HIDE DEF p
    <3> QED BY <1>3, <3>1 DEF Group
  <2>3. Liberties(p, s) = Fed(R, R[s], Free(p))
    BY <1>4, LibertiesAreFed
  <2>4. R[s] \in Squares /\ R[R[s]] = R[s] /\ p[R[s]] # EMPTY_SQUARE
    BY <1>1, <1>2, <1>4
  <2>5. square.ledges[R[s]] = Cardinality(Liberties(p, s)) /\ square.ledges[R[s]] # 0
    BY <1>1, <2>3, <2>4
  <2>6. Liberties(p, s) # {}
    BY <2>5, FS_EmptySet
  <2> QED BY <1>3, <2>1, <2>2, <2>5, <2>6
<1>5. ASSUME NEW s \in Squares
      PROVE  p[s] = EMPTY_SQUARE <=>
               square.place[s] \in DOMAIN square.empties /\ square.empties[square.place[s]] = s
  BY <1>1 DEF Listed, Empty
<1>6. Len(square.empties) = Cardinality({s \in Squares : p[s] = EMPTY_SQUARE})
  BY <1>1, EmptiesCount DEF Empty
<1> QED BY <1>4, <1>5, <1>6, Zenon DEF BoardChecks

-----------------------------------------------------------------------------
(* The games. *)
GoInv == /\ GoTypeOK
         /\ \E R, K : Sound(square, R, K)
         /\ choices <= Len(square.empties)

LEMMA GoStart == GoInit => GoInv
<1> HIDE DEF Squares
<1> SUFFICES ASSUME GoInit PROVE GoInv
  OBVIOUS
<1> DEFINE M == Cardinality(Squares)
           k == [s \in Squares |-> EMPTY_SQUARE]
           f == [s \in Squares |-> s]
           l == [s \in Squares |-> 0]
           u == [s \in Squares |-> FALSE]
           e == [i \in 1..M |-> i - 1]
           q == [s \in Squares |-> s + 1]
<1>1. M \in Nat /\ Squares = 0..(M - 1)
  <2>1. BoardSize \in Nat /\ BoardSize # 0
    BY GoAssumption
  <2>2. PICK n \in Nat : n = BoardSize * BoardSize /\ n # 0
    BY <2>1
  <2>3. Squares = 0..(n - 1)
    BY <2>2 DEF Squares
  <2>4. 0 \in Int /\ n - 1 \in Int
    BY <2>2
  <2>5. Cardinality(0..(n - 1)) = IF 0 > n - 1 THEN 0 ELSE n - 1 - 0 + 1
    BY ONLY <2>4, FS_Interval
  <2>6. M = n
    BY <2>2, <2>3, <2>5
  <2> QED BY <2>3, <2>6
<1>2. square = [color |-> k, reference |-> f, ledges |-> l, used |-> u, empties |-> e, place |-> q]
  BY DEF GoInit
<1>3. /\ positions = {square.color} /\ turn = BLACK /\ passed = FALSE /\ finished = FALSE
      /\ choices = M /\ plays = 0 /\ path \in Paths
  BY DEF GoInit
<1> HIDE DEF M
<1>4. e \in Seq(Squares) /\ Len(e) = M /\ DOMAIN e = 1..M
  <2>1. e \in [1..M -> Squares]
    BY <1>1
  <2> QED BY <1>1, <2>1
<1>5. /\ k \in [Squares -> Stones \union {EMPTY_SQUARE}] /\ f \in [Squares -> Squares]
      /\ l \in [Squares -> Int] /\ q \in [Squares -> Nat]
  BY <1>1
<1>6. u \in [Squares -> BOOLEAN]
  OBVIOUS
<1> HIDE DEF e, u
<1>7. square \in GoBoards
  <2> HIDE DEF k, f, l, q
  <2> QED BY <1>2, <1>4, <1>5, <1>6 DEF GoBoards
<1>8. GoTypeOK
  <2>1. positions \subseteq [Squares -> Stones \union {EMPTY_SQUARE}]
    BY <1>2, <1>3, <1>5
  <2>2. turn \in Stones /\ passed \in BOOLEAN /\ finished \in BOOLEAN
    BY <1>3 DEF Stones
  <2>3. choices \in 0..Cardinality(Squares)
    BY <1>1, <1>3 DEF M
  <2>4. plays \in 0..MaxPlays /\ path \in Seq(Squares)
    BY <1>3, GoAssumption
  <2> QED BY <1>7, <2>1, <2>2, <2>3, <2>4 DEF GoTypeOK
<1>9. Sound(square, f, l)
  <2>1. square.color = k /\ square.reference = f /\ square.empties = e /\ square.place = q
    BY <1>2
  <2>2. Rooted(f, f, l)
    <3>1. l \in [Squares -> Nat]
      OBVIOUS
    <3> QED BY <1>5, <3>1 DEF Rooted
  <2>3. /\ \A t \in Squares : k[f[t]] = k[t]
        /\ \A t \in Squares : k[t] = EMPTY_SQUARE
        /\ \A t \in Squares : f[t] = t
    OBVIOUS
  <2>4. Linked(k, f, {})
    BY <2>3 DEF Linked
  <2>5. Held(k, f)
    BY <2>3 DEF Held
  <2>6. Listed(square, Empty(k))
    <3>1. Empty(k) = Squares
      BY <2>3 DEF Empty
    <3>2. \A i \in 1..M : e[i] = i - 1 /\ e[i] \in Squares /\ q[e[i]] = i
      BY <1>1 DEF e
    <3>3. \A t \in Squares : q[t] \in 1..M /\ e[q[t]] = t
      BY <1>1 DEF e
    <3> HIDE DEF q
    <3> QED BY <1>4, <2>1, <3>1, <3>2, <3>3 DEF Listed
  <2> HIDE DEF k, f, l
  <2> QED BY <1>7, <2>1, <2>2, <2>3, <2>4, <2>5, <2>6 DEF Sound
<1>10. choices <= Len(square.empties)
  BY <1>1, <1>2, <1>3, <1>4
<1> QED BY <1>8, <1>9, <1>10 DEF GoInv

LEMMA UsefulHopes ==
  ASSUME NEW s \in Squares, Useful(s)
  PROVE  Hopeful(square, s, turn)
<1> HIDE DEF Squares
<1> DEFINE b == square
           free == {n \in Around(s) : b.color[n] = EMPTY_SQUARE}
           groups(c) == {FindRef(b, n) : n \in {m \in Around(s) : b.color[m] = c}}
           weak(r) == b.ledges[r] = Cardinality({n \in Around(s) \ free : FindRef(b, n) = r})
           opps == groups(Opponent(turn))
           weakOpps == {r \in opps : weak(r)}
           neighs == groups(turn)
           weakNeighs == {r \in neighs : weak(r)}
<1>1. free # {} \/ weakOpps # {} \/ neighs # weakNeighs
  BY Zenon DEF Useful
<1>2. \A r : weak(r) <=> Weak(b, s, r)
  <2> SUFFICES ASSUME NEW r PROVE weak(r) <=> Weak(b, s, r)
    OBVIOUS
  <2>1. {n \in Around(s) \ free : FindRef(b, n) = r}
        = {n \in {m \in Around(s) : b.color[m] # EMPTY_SQUARE} : FindRef(b, n) = r}
    OBVIOUS
  <2> QED BY <2>1, Zenon DEF Weak
<1> HIDE DEF weak
<1>3. CASE free # {}
  BY <1>3 DEF Hopeful
<1>4. CASE weakOpps # {}
  <2>1. PICK r : r \in opps /\ weak(r)
    BY <1>4
  <2>2. PICK n \in Around(s) : b.color[n] = Opponent(turn) /\ r = FindRef(b, n)
    BY <2>1
  <2> QED BY <1>2, <2>1, <2>2 DEF Hopeful
<1>5. CASE neighs # weakNeighs
  <2>1. PICK r : r \in neighs /\ ~weak(r)
    BY <1>5
  <2>2. PICK n \in Around(s) : b.color[n] = turn /\ r = FindRef(b, n)
    BY <2>1
  <2> QED BY <1>2, <2>1, <2>2 DEF Hopeful
<1> QED BY <1>1, <1>3, <1>4, <1>5

(* A useful move leaves a sound board. *)
LEMMA MoveSound ==
  ASSUME GoInv, NEW s \in Squares, square.color[s] = EMPTY_SQUARE, Useful(s)
  PROVE  \E S, L : Sound(Forgotten(Placed(square, s, turn)), S, L)
<1> HIDE DEF Squares
<1>1. PICK R, K : Sound(square, R, K)
  BY DEF GoInv
<1>2. turn \in Stones
  BY DEF GoInv, GoTypeOK
<1>3. PICK z \in GoBoards : /\ \E S, L : MeetInv(z, {}, S, L, s, [square.color EXCEPT ![s] = turn])
                            /\ Placed(square, s, turn) = RemoveEmpty(z, s)
  BY <1>1, <1>2, MeetFinishes
<1>4. PICK S, L : MeetInv(z, {}, S, L, s, [square.color EXCEPT ![s] = turn])
  BY <1>3
<1>5. Hopeful(square, s, turn)
  BY UsefulHopes
<1>6. z.ledges[s] # 0
  BY <1>1, <1>2, <1>4, <1>5, StoneBreathes
<1>7. \E T : Sound(Forgotten(RemoveEmpty(z, s)), T, L)
  BY <1>4, <1>6, PlacedSound
<1> QED BY <1>3, <1>7

LEMMA PutStoneKeeps ==
  ASSUME GoInv, NEW s \in Squares, square.color[s] = EMPTY_SQUARE, Useful(s), PutStone(s),
         plays' \in 0..MaxPlays, path' \in Seq(Squares)
  PROVE  GoInv'
<1> HIDE DEF Squares
<1>1. GoTypeOK
  BY DEF GoInv
<1>2. PICK S, L : Sound(Forgotten(Placed(square, s, turn)), S, L)
  BY MoveSound
<1>3. /\ square' = Forgotten(Placed(square, s, turn))
      /\ positions' = positions \union {square'.color}
      /\ choices' = Len(square'.empties)
      /\ turn' = Opponent(turn) /\ passed' = FALSE /\ finished' = finished
  BY DEF PutStone
<1>4. Sound(square', S, L)
  BY <1>2, <1>3
<1>5. square' \in GoBoards /\ Listed(square', Empty(square'.color))
  BY <1>4 DEF Sound
<1>6. square'.color \in [Squares -> Stones \union {EMPTY_SQUARE}]
  BY <1>5 DEF GoBoards
<1>7. Len(square'.empties) \in 0..Cardinality(Squares)
  <2>1. PICK b : b = square'
    OBVIOUS
  <2>2. b \in GoBoards /\ Listed(b, Empty(b.color))
    BY <1>5, <2>1
  <2>3. Len(b.empties) \in 0..Cardinality(Squares)
    BY <2>2, EmptiesCount
  <2> QED BY <2>1, <2>3
<1>8. positions' \subseteq [Squares -> Stones \union {EMPTY_SQUARE}]
  BY <1>1, <1>3, <1>6 DEF GoTypeOK
<1>9. turn' \in Stones /\ passed' \in BOOLEAN /\ finished' \in BOOLEAN
  BY <1>1, <1>3 DEF GoTypeOK, Stones, Opponent
<1>10. GoTypeOK'
  BY <1>3, <1>5, <1>7, <1>8, <1>9 DEF GoTypeOK
<1>11. choices' <= Len(square'.empties)
  BY <1>3, <1>7, SquaresFinite
<1> QED BY <1>4, <1>10, <1>11 DEF GoInv

LEMMA SelectKeeps == GoInv /\ Select => GoInv'
<1> HIDE DEF Squares
<1> SUFFICES ASSUME GoInv, Select PROVE GoInv'
  OBVIOUS
<1>1. /\ path # <<>> /\ square.color[Head(path)] = EMPTY_SQUARE /\ Useful(Head(path))
      /\ PutStone(Head(path)) /\ path' = Tail(path) /\ plays' = plays
  BY DEF Select
<1>2. path \in Seq(Squares) /\ plays \in 0..MaxPlays
  BY DEF GoInv, GoTypeOK
<1>3. Head(path) \in Squares /\ Tail(path) \in Seq(Squares)
  BY <1>1, <1>2, OnHeadTail, Zenon
<1> QED BY <1>1, <1>2, <1>3, PutStoneKeeps

LEMMA DrawUsefulKeeps == ASSUME GoInv, NEW i \in 1..Cardinality(Squares), DrawUseful(i) PROVE GoInv'
<1> HIDE DEF Squares
<1>1. /\ plays < MaxPlays /\ i <= choices /\ Useful(square.empties[i])
      /\ PutStone(square.empties[i]) /\ plays' = plays + 1 /\ path' = path
  BY DEF DrawUseful, Playing
<1>2. /\ path \in Seq(Squares) /\ plays \in 0..MaxPlays /\ choices \in 0..Cardinality(Squares)
      /\ choices <= Len(square.empties) /\ square \in GoBoards
  BY DEF GoInv, GoTypeOK
<1>3. i \in 1..Len(square.empties)
  <2>1. Cardinality(Squares) \in Nat /\ Len(square.empties) \in Nat
    BY <1>2, SquaresFinite, LenProperties DEF GoBoards
  <2> QED BY <1>1, <1>2, <2>1
<1>4. square.empties[i] \in Squares /\ square.color[square.empties[i]] = EMPTY_SQUARE
  <2>1. Listed(square, Empty(square.color))
    BY DEF GoInv, Sound
  <2>2. i \in DOMAIN square.empties
    BY <1>2, <1>3, LenProperties DEF GoBoards
  <2>3. square.empties[i] \in Empty(square.color)
    BY <2>1, <2>2 DEF Listed
  <2> QED BY <2>3 DEF Empty
<1>5. plays' \in 0..MaxPlays
  BY <1>1, <1>2, GoAssumption
<1> QED BY <1>1, <1>2, <1>4, <1>5, PutStoneKeeps

LEMMA SoundSame ==
  ASSUME NEW b, NEW R, NEW K, Sound(b, R, K), NEW g \in GoBoards,
         g.color = b.color, g.reference = b.reference, g.ledges = b.ledges,
         Listed(g, Empty(b.color))
  PROVE  Sound(g, R, K)
<1> HIDE DEF Squares
<1> QED BY DEF Sound

(* What is drawn in vain changes places with the last choice. *)
LEMMA DrawUselessKeeps == ASSUME GoInv, NEW i \in 1..Cardinality(Squares), DrawUseless(i) PROVE GoInv'
<1> HIDE DEF Squares
<1> DEFINE e == square.empties
           q == square.place
           s == e[i]
           t == e[choices]
           N == Len(e)
           x == [e EXCEPT ![i] = t, ![choices] = s]
           y == [q EXCEPT ![t] = i, ![s] = choices]
           Z == Empty(square.color)
<1>1. /\ i <= choices /\ choices' = choices - 1
      /\ square' = [square EXCEPT !.empties[i] = t, !.empties[choices] = s,
                                  !.place = [@ EXCEPT ![t] = i, ![s] = choices]]
      /\ UNCHANGED <<positions, turn, passed, finished, plays, path>>
  BY DEF DrawUseless
<1>2. GoTypeOK /\ choices \in 0..Cardinality(Squares) /\ choices <= N /\ square \in GoBoards
  BY DEF GoInv, GoTypeOK
<1>3. PICK R, K : Sound(square, R, K)
  BY DEF GoInv
<1>4. /\ e \in Seq(Squares) /\ N \in Nat /\ DOMAIN e = 1..N /\ q \in [Squares -> Nat]
      /\ \A j \in 1..N : e[j] \in Squares
  BY <1>2, LenProperties DEF GoBoards
<1>5. /\ Z \in SUBSET Squares
      /\ \A j \in 1..N : e[j] \in Z /\ q[e[j]] = j
      /\ \A z \in Z : q[z] \in 1..N /\ e[q[z]] = z
  BY <1>3, <1>4 DEF Sound, Listed, Empty
<1>6. i \in 1..N /\ choices \in 1..N /\ Cardinality(Squares) \in Nat
  BY <1>1, <1>2, <1>4, SquaresFinite
<1>7. square' = [square EXCEPT !.empties = x, !.place = y]
  BY <1>1, <1>2 DEF GoBoards
<1> HIDE DEF e, q, N, Z
<1>8. s \in Squares /\ t \in Squares
  BY <1>4, <1>6
<1>9. /\ x \in Seq(Squares) /\ DOMAIN x = 1..N /\ Len(x) = N
      /\ \A j \in 1..N : x[j] = IF j = choices THEN s ELSE IF j = i THEN t ELSE e[j]
  <2>1. e = [j \in 1..N |-> e[j]]
    BY <1>4
  <2>2. x = [j \in 1..N |-> IF j = choices THEN s ELSE IF j = i THEN t ELSE e[j]]
    BY <1>4, <2>1
  <2>3. x \in [1..N -> Squares]
    <3> HIDE DEF s, t, x
    <3>1. \A j \in 1..N : (IF j = choices THEN s ELSE IF j = i THEN t ELSE e[j]) \in Squares
      BY <1>4, <1>8
    <3> QED BY ONLY <2>2, <3>1
  <2> HIDE DEF s, t, x
  <2>4. DOMAIN x = 1..N /\ \A j \in 1..N : x[j] = IF j = choices THEN s ELSE IF j = i THEN t ELSE e[j]
    BY ONLY <2>2
  <2>5. N \in Nat
    BY <1>4
  <2>6. x \in Seq(Squares)
    BY ONLY <2>3, <2>5, IsASeq
  <2>7. Len(x) \in Nat /\ DOMAIN x = 1..Len(x)
    BY ONLY <2>6, LenProperties
  <2>8. Len(x) = N
    BY ONLY <2>4, <2>5, <2>7
  <2> QED BY <2>4, <2>6, <2>8
<1>10. /\ y \in [Squares -> Nat]
       /\ \A z \in Squares : y[z] = IF z = s THEN choices ELSE IF z = t THEN i ELSE q[z]
  BY <1>4, <1>6, <1>8
<1> HIDE DEF x, y
<1>11. PICK g : g = square'
  OBVIOUS
<1>12. /\ g \in GoBoards /\ g.color = square.color /\ g.reference = square.reference
       /\ g.ledges = square.ledges /\ g.empties = x /\ g.place = y
  BY <1>2, <1>7, <1>9, <1>10, <1>11 DEF GoBoards
<1>13. Listed(g, Z)
  <2>1. q[s] = i /\ q[t] = choices /\ s \in Z /\ t \in Z
    BY <1>5, <1>6
  <2>2. ASSUME NEW j \in 1..N PROVE x[j] \in Z /\ y[x[j]] = j
    <3>1. CASE j = choices
      BY <1>8, <1>9, <1>10, <2>1, <3>1
    <3>2. CASE j # choices /\ j = i
      <4>1. x[j] = t /\ t # s
        BY <1>9, <2>1, <3>2
      <4> QED BY <1>8, <1>10, <2>1, <3>2, <4>1
    <3>3. CASE j # choices /\ j # i
      <4>1. x[j] = e[j] /\ e[j] # s /\ e[j] # t /\ e[j] \in Z /\ q[e[j]] = j /\ e[j] \in Squares
        BY <1>4, <1>5, <1>9, <2>1, <3>3
      <4> QED BY <1>10, <4>1
    <3> QED BY <3>1, <3>2, <3>3
  <2>3. ASSUME NEW z \in Z PROVE y[z] \in 1..N /\ x[y[z]] = z
    <3>1. z \in Squares /\ q[z] \in 1..N /\ e[q[z]] = z
      BY <1>5
    <3>2. CASE z = s
      BY <1>6, <1>9, <1>10, <3>1, <3>2
    <3>3. CASE z # s /\ z = t
      <4>1. y[z] = i /\ i # choices
        BY <1>10, <2>1, <3>1, <3>3
      <4> QED BY <1>6, <1>9, <3>3, <4>1
    <3>4. CASE z # s /\ z # t
      <4>1. y[z] = q[z] /\ q[z] # i /\ q[z] # choices
        BY <1>10, <3>1, <3>4
      <4> QED BY <1>9, <3>1, <4>1
    <3> QED BY <3>2, <3>3, <3>4
  <2> QED BY <1>9, <1>12, <2>2, <2>3 DEF Listed
<1>14. Sound(square', R, K)
  <2>1. Listed(g, Empty(square.color))
    BY <1>13 DEF Z
  <2> QED BY <1>3, <1>11, <1>12, <2>1, SoundSame
<1>15. choices' <= Len(square'.empties) /\ choices' \in 0..Cardinality(Squares)
  <2>1. Len(square'.empties) = N
    BY <1>9, <1>11, <1>12
  <2> QED BY <1>1, <1>2, <1>4, <1>6, <2>1
<1>16. GoTypeOK'
  <2>1. square' \in GoBoards
    BY <1>11, <1>12
  <2> QED BY <1>1, <1>2, <1>15, <2>1 DEF GoTypeOK
<1> QED BY <1>14, <1>15, <1>16 DEF GoInv

LEMMA PassKeeps == GoInv /\ Pass => GoInv'
<1> HIDE DEF Squares
<1> SUFFICES ASSUME GoInv, Pass PROVE GoInv'
  OBVIOUS
<1>1. /\ plays < MaxPlays /\ finished' = passed /\ passed' = TRUE /\ turn' = Opponent(turn)
      /\ choices' = Len(square.empties) /\ plays' = plays + 1
      /\ UNCHANGED <<square, positions, path>>
  BY DEF Pass, Playing
<1>2. GoTypeOK
  BY DEF GoInv
<1>3. PICK R, K : Sound(square, R, K)
  BY DEF GoInv
<1>4. Len(square.empties) \in 0..Cardinality(Squares)
  BY <1>3, EmptiesCount DEF Sound
<1>5. turn' \in Stones /\ finished' \in BOOLEAN /\ passed' \in BOOLEAN
  BY <1>1, <1>2 DEF GoTypeOK, Stones, Opponent
<1>6. plays' \in 0..MaxPlays
  BY <1>1, <1>2, GoAssumption DEF GoTypeOK
<1>7. GoTypeOK'
  BY <1>1, <1>2, <1>4, <1>5, <1>6 DEF GoTypeOK
<1>8. Sound(square', R, K)
  BY <1>1, <1>3
<1>9. choices' <= Len(square'.empties)
  BY <1>1, <1>4, SquaresFinite
<1> QED BY <1>7, <1>8, <1>9 DEF GoInv

LEMMA GoStep == GoInv /\ [GoNext]_goVars => GoInv'
<1> HIDE DEF Squares
<1> SUFFICES ASSUME GoInv, [GoNext]_goVars PROVE GoInv'
  OBVIOUS
<1>1. CASE Select
  BY <1>1, SelectKeeps
<1>2. CASE Pass
  BY <1>2, PassKeeps
<1>3. ASSUME NEW i \in 1..Cardinality(Squares), DrawUseful(i) PROVE GoInv'
  BY <1>3, DrawUsefulKeeps
<1>4. ASSUME NEW i \in 1..Cardinality(Squares), DrawUseless(i) PROVE GoInv'
  BY <1>4, DrawUselessKeeps
<1>5. CASE UNCHANGED goVars
  BY <1>5 DEF goVars, GoInv, GoTypeOK
<1> QED BY <1>1, <1>2, <1>3, <1>4, <1>5 DEF GoNext

(* Board.check() finds nothing wrong in any game on a board of any size:   *)
(* the references tell the groups, every root counts the edges of its      *)
(* group to empty squares, of which none is without, and the list of the   *)
(* empty squares has them all, each where its place says.                  *)
THEOREM GoBoardChecks == GoInit /\ [][GoNext]_goVars => []BoardChecks
<1>1. GoInit => GoInv
  BY GoStart
<1>2. GoInv /\ [GoNext]_goVars => GoInv'
  BY GoStep
<1>3. GoInv => BoardChecks
  BY SoundChecks DEF GoInv
<1> QED BY <1>1, <1>2, <1>3, PTL

-----------------------------------------------------------------------------
(* The rules: groups without edges, without roots and counts. *)

(* A stone has no liberties exactly if it is in a group that is starved. *)
LEMMA DeadIsStarved ==
  ASSUME NEW p, NEW s \in Squares
  PROVE  Liberties(p, s) = {} <=> Starved(p, s)
<1> HIDE DEF Squares
<1>1. /\ Liberties(p, s) = {} => \A t \in GroupOf(p, s) : \A u \in Around(t) : p[u] # EMPTY_SQUARE
      /\ (\A t \in GroupOf(p, s) : \A u \in Around(t) : p[u] # EMPTY_SQUARE) => Liberties(p, s) = {}
  <2> PICK X : X = GroupOf(p, s)
    OBVIOUS
  <2>1. Liberties(p, s) = UNION {{t} \X {e \in Around(t) : p[e] = EMPTY_SQUARE} : t \in X}
    BY Zenon DEF Liberties
  <2>2. ASSUME NEW t \in X, NEW u \in Around(t), p[u] = EMPTY_SQUARE
        PROVE  Liberties(p, s) # {}
    <3>1. <<t, u>> \in {t} \X {e \in Around(t) : p[e] = EMPTY_SQUARE}
      BY <2>2
    <3> QED BY <2>1, <2>2, <3>1
  <2>3. ASSUME NEW d \in Liberties(p, s)
        PROVE  \E t \in X : \E u \in Around(t) : p[u] = EMPTY_SQUARE
    <3>1. PICK t \in X : d \in {t} \X {e \in Around(t) : p[e] = EMPTY_SQUARE}
      BY <2>1
    <3> QED BY <3>1
  <2> QED BY <2>2, <2>3
<1>2. ASSUME NEW G \in SUBSET Squares, s \in G, Closed(p, G)
      PROVE  \E z \in SUBSET Squares : /\ s \in z /\ z \subseteq G /\ Closed(p, z)
                                       /\ GroupOf(p, s) = z
  <2> DEFINE I == {g \in SUBSET Squares : s \in g /\ g \subseteq G /\ \A t \in g : p[t] = p[s]}
  <2>1. {s} \in I
    BY <1>2
  <2>2. ASSUME NEW g \in I PROVE g \union More(p, s, g) \in I
    <3>1. ASSUME NEW t \in More(p, s, g) PROVE t \in Squares /\ t \in G /\ p[t] = p[s]
      <4>1. PICK u : u \in Around(t) /\ u \in g
        BY DEF More
      <4>2. t \in Squares /\ p[t] = p[s] /\ p[u] = p[s] /\ u \in G
        BY <4>1 DEF More
      <4>3. t \in Around(u)
        BY <4>1, <4>2, AroundFacts
      <4> QED BY <1>2, <4>2, <4>3 DEF Closed
    <3> QED BY <3>1
  <2>3. I \in SUBSET (SUBSET Squares)
    OBVIOUS
  <2>4. PICK z \in I : More(p, s, z) = {} /\ GroupOf(p, s) = z
    <3> HIDE DEF I
    <3> QED BY ONLY s \in Squares, <2>1, <2>2, <2>3, GroupEnds
  <2>5. Closed(p, z)
    <3> SUFFICES ASSUME NEW t \in z, NEW u \in Around(t), p[u] = p[t] PROVE u \in z
      BY DEF Closed
    <3>1. t \in Squares /\ p[t] = p[s]
      BY <2>4
    <3>2. u \in Squares /\ t \in Around(u)
      BY <3>1, AroundFacts
    <3>3. u \notin More(p, s, z)
      BY <2>4
    <3> QED BY <3>1, <3>2, <3>3 DEF More
  <2> QED BY <2>4, <2>5
<1>3. ASSUME Liberties(p, s) = {} PROVE Starved(p, s)
  <2>1. Squares \in SUBSET Squares /\ Closed(p, Squares)
    <3>1. \A t \in Squares : \A u \in Around(t) : u \in Squares
      BY AroundFacts
    <3> QED BY <3>1 DEF Closed
  <2>2. PICK z \in SUBSET Squares : s \in z /\ Closed(p, z) /\ GroupOf(p, s) = z
    BY <1>2, <2>1
  <2> QED BY <1>1, <1>3, <2>2 DEF Starved
<1>4. ASSUME Starved(p, s) PROVE Liberties(p, s) = {}
  <2>1. PICK G \in SUBSET Squares : /\ s \in G /\ Closed(p, G)
                                    /\ \A u \in G : \A v \in Around(u) : p[v] # EMPTY_SQUARE
    BY <1>4 DEF Starved
  <2>2. PICK z \in SUBSET Squares : z \subseteq G /\ GroupOf(p, s) = z
    BY <1>2, <2>1
  <2> QED BY <1>1, <2>1, <2>2
<1> QED BY <1>3, <1>4

\* what is captured by a stone of colour c at s, on a board without stone there
Taken(p, s, c, t) == [p EXCEPT ![s] = c][t] = Opponent(c) /\ Starved([p EXCEPT ![s] = c], t)

LEMMA AfterMoveFacts ==
  ASSUME NEW p, NEW s \in Squares, NEW c
  PROVE  AfterMove(p, s, c) = [t \in Squares |-> IF Taken(p, s, c, t) THEN EMPTY_SQUARE
                                                 ELSE [p EXCEPT ![s] = c][t]]
<1> HIDE DEF Squares
<1> PICK h : h = [p EXCEPT ![s] = c]
  OBVIOUS
<1>1. \A t \in Squares : Liberties(h, t) = {} <=> Starved(h, t)
  BY DeadIsStarved
<1>2. AfterMove(p, s, c) = [t \in Squares |-> IF h[t] = Opponent(c) /\ Liberties(h, t) = {}
                                              THEN EMPTY_SQUARE ELSE h[t]]
  BY DEF AfterMove, Capturing
<1>3. \A t : Taken(p, s, c, t) <=> h[t] = Opponent(c) /\ Starved(h, t)
  BY DEF Taken
<1> QED BY <1>1, <1>2, <1>3

(* The loop of Square.move captures what the rules say. *)
LEMMA CapturesByRules ==
  ASSUME NEW p, NEW s \in Squares, NEW c \in Stones,
         NEW h, MeetColors(h, [p EXCEPT ![s] = c], s),
         p \in [Squares -> Stones \union {EMPTY_SQUARE}],
         h \in [Squares -> Stones \union {EMPTY_SQUARE}],
         \A t \in Squares : h[t] # EMPTY_SQUARE => ~Starved(h, t)
  PROVE  h = AfterMove(p, s, c)
<1> HIDE DEF Squares
<1>p. PICK q : q = [p EXCEPT ![s] = c]
  OBVIOUS
<1>1. /\ q[s] = c
      /\ \A t \in Squares : h[t] = q[t] \/ (h[t] = EMPTY_SQUARE /\ q[t] = Opponent(c) /\ Starved(q, t))
      /\ \A t \in Squares : \A u \in Around(t) : h[t] # q[t] /\ q[u] = q[t] => h[u] # q[u]
  <2>1. q[s] = c
    BY <1>p
  <2>2. MeetColors(h, q, s)
    BY <1>p
  <2> QED BY <2>1, <2>2 DEF MeetColors
<1>2. Opponent(c) # EMPTY_SQUARE
  BY DEF Opponent, Stones, WHITE, BLACK, EMPTY_SQUARE
<1>3. ASSUME NEW t \in Squares, h[t] = q[t], q[t] = Opponent(c), Starved(q, t)
      PROVE  FALSE
  <2>1. PICK G \in SUBSET Squares : /\ t \in G /\ Closed(q, G)
                                    /\ \A u \in G : \A v \in Around(u) : q[v] # EMPTY_SQUARE
    BY <1>3 DEF Starved
  <2> DEFINE A == {u \in G : h[u] = q[u] /\ q[u] = Opponent(c)}
  <2>2. A \in SUBSET Squares /\ t \in A
    BY <1>3, <2>1
  <2>3. ASSUME NEW u \in A, NEW v \in Around(u)
        PROVE  /\ u \in Squares /\ v \in Squares /\ u \in Around(v) /\ u \in G
               /\ h[u] = q[u] /\ q[u] = Opponent(c)
    BY <2>1, AroundFacts
  <2>4. Closed(h, A)
    <3> SUFFICES ASSUME NEW u \in A, NEW v \in Around(u), h[v] = h[u] PROVE v \in A
      BY DEF Closed
    <3>1. h[v] = q[v] /\ q[v] = q[u] /\ q[v] = Opponent(c)
      BY <1>1, <1>2, <2>3
    <3>2. v \in G
      BY <2>1, <2>3, <3>1 DEF Closed
    <3> QED BY <3>1, <3>2
  <2>5. ASSUME NEW u \in A, NEW v \in Around(u) PROVE h[v] # EMPTY_SQUARE
    <3>1. q[v] # EMPTY_SQUARE
      BY <2>1, <2>3
    <3>2. CASE h[v] = q[v]
      BY <3>1, <3>2
    <3>3. CASE h[v] # q[v]
      <4>1. q[v] = Opponent(c)
        BY <1>1, <2>3, <3>3
      <4>2. h[u] # q[u]
        BY <1>1, <2>3, <3>3, <4>1
      <4> QED BY <2>3, <4>2
    <3> QED BY <3>2, <3>3
  <2>6. Starved(h, t)
    <3> HIDE DEF A
    <3> QED BY <2>2, <2>4, <2>5 DEF Starved
  <2> QED BY <1>2, <1>3, <2>6
<1>4. AfterMove(p, s, c) = [t \in Squares |-> IF Taken(p, s, c, t) THEN EMPTY_SQUARE ELSE q[t]]
  BY <1>p, AfterMoveFacts
<1>5. \A t : Taken(p, s, c, t) <=> q[t] = Opponent(c) /\ Starved(q, t)
  BY <1>p DEF Taken
<1>6. \A t \in Squares : h[t] = IF Taken(p, s, c, t) THEN EMPTY_SQUARE ELSE q[t]
  BY <1>1, <1>2, <1>3, <1>5
<1>7. h = [t \in Squares |-> h[t]]
  OBVIOUS
<1> QED BY <1>4, <1>6, <1>7

\* the references of the weak groups of colour d at s
WeakRefs(b, s, d) == {r \in {FindRef(b, n) : n \in {m \in Around(s) : b.color[m] = d}} : Weak(b, s, r)}

IsWeakRoot(b, R, s, d, r) == Weak(b, s, r) /\ \E n \in Around(s) : b.color[n] = d /\ R[n] = r

LEMMA WeakRefsFacts ==
  ASSUME NEW b, NEW R, NEW K, NEW s \in Squares, NEW d, NEW r, Sound(b, R, K)
  PROVE  r \in WeakRefs(b, s, d) <=> IsWeakRoot(b, R, s, d, r)
<1> HIDE DEF Squares
<1>1. \A n \in Squares : FindRef(b, n) = R[n]
  <2>1. Ranked(b, R, K)
    BY DEF Ranked, Sound
  <2>2. Finds(b, R)
    BY <2>1, RankedFinds
  <2> QED BY <2>2 DEF Finds
<1>2. \A n \in Around(s) : n \in Squares
  BY AroundFacts
<1> QED BY <1>1, <1>2 DEF WeakRefs, IsWeakRoot

(* A group of the opponent is taken exactly if it is weak and next to s. *)
LEMMA WeakIsTaken ==
  ASSUME NEW b, NEW R, NEW K, NEW s \in Squares, NEW c \in Stones, NEW t \in Squares,
         Sound(b, R, K), b.color[s] = EMPTY_SQUARE, b.color[t] = Opponent(c)
  PROVE  Taken(b.color, s, c, t) <=> R[t] \in WeakRefs(b, s, Opponent(c))
<1> HIDE DEF Squares
<1> DEFINE p == b.color
           q == [p EXCEPT ![s] = c]
           r == R[t]
           o == Opponent(c)
           F == Fed(R, r, Free(p))
<1>1. /\ p \in [Squares -> Stones \union {EMPTY_SQUARE}] /\ R \in [Squares -> Squares]
      /\ \A u \in Squares : p[R[u]] = p[u] /\ R[R[u]] = R[u]
      /\ Linked(p, R, {}) /\ Held(p, R)
      /\ \A u \in Squares : R[u] = u /\ p[u] # EMPTY_SQUARE =>
           b.ledges[u] = Cardinality(Fed(R, u, Free(p))) /\ b.ledges[u] # 0
  BY DEF Sound, GoBoards, Rooted
<1>2. o # c /\ o # EMPTY_SQUARE /\ c # EMPTY_SQUARE
  BY DEF Opponent, Stones, WHITE, BLACK, EMPTY_SQUARE
<1>3. /\ p[s] = EMPTY_SQUARE /\ p[t] = o /\ t # s
      /\ r \in Squares /\ R[r] = r /\ p[r] = o
  BY <1>1, <1>2
<1>4. \A u \in Squares : q[u] = IF u = s THEN c ELSE p[u]
  BY <1>1
<1>5. /\ Weak(b, s, r) => \A d \in F : d[2] = s
      /\ ~Weak(b, s, r) => \E d \in F : d[2] # s
  <2> PICK x : x = r
    OBVIOUS
  <2>1. x \in Squares /\ R[x] = x /\ b.color[x] # EMPTY_SQUARE
    BY <1>2, <1>3
  <2> HIDE DEF r
  <2>2. /\ Weak(b, s, x) => \A d \in Fed(R, x, Free(b.color)) : d[2] = s
        /\ ~Weak(b, s, x) => \E d \in Fed(R, x, Free(b.color)) : d[2] # s
    BY <2>1, WeakFacts
  <2> QED BY <2>2
<1>6. \A x, y \in Squares : <<x, y>> \in F <=> R[x] = r /\ y \in Around(x) /\ p[y] = EMPTY_SQUARE
  <2>1. \A x, y \in Squares : <<x, y>> \in F <=> <<x, y>> \in Free(p) /\ R[x] = r
    BY DEF Fed
  <2> QED BY <2>1, FreeFacts
<1>7. \A d \in F : \E x, y \in Squares : d = <<x, y>>
  BY FreeFacts DEF Fed
<1>8. F # {}
  <2>1. Cardinality(F) # 0
    BY <1>1, <1>2, <1>3
  <2>2. Cardinality({}) = 0
    BY FS_EmptySet
  <2> HIDE DEF F
  <2> QED BY <2>1, <2>2, Zenon
<1>9. r \in WeakRefs(b, s, o) <=> Weak(b, s, r) /\ \E n \in Around(s) : p[n] = o /\ R[n] = r
  <2>1. r \in WeakRefs(b, s, o) <=> IsWeakRoot(b, R, s, o, r)
    <3> HIDE DEF o, r, q, F, p
    <3> QED BY WeakRefsFacts
  <2> QED BY <2>1, Zenon DEF IsWeakRoot
<1>10. Taken(p, s, c, t) <=> Starved(q, t)
  BY <1>3, <1>4 DEF Taken
<1> HIDE DEF q, p, F, r, o
<1>11. ASSUME r \in WeakRefs(b, s, o) PROVE Starved(q, t)
  <2> DEFINE G == {u \in Squares : R[u] = r}
  <2>1. G \in SUBSET Squares /\ t \in G
    BY DEF r
  <2>2. ASSUME NEW u \in G, NEW v \in Around(u)
        PROVE  u \in Squares /\ v \in Squares /\ R[u] = r /\ p[u] = o /\ u # s /\ q[u] = o
    <3>1. u \in Squares /\ v \in Squares /\ R[u] = r
      BY AroundFacts
    <3>2. p[u] = o /\ u # s
      BY <1>1, <1>2, <1>3, <3>1
    <3> QED BY <1>4, <3>1, <3>2
  <2>3. Closed(q, G)
    <3> SUFFICES ASSUME NEW u \in G, NEW v \in Around(u), q[v] = q[u] PROVE v \in G
      BY DEF Closed
    <3>1. v # s /\ p[v] = p[u] /\ p[u] # EMPTY_SQUARE
      BY <1>2, <1>4, <2>2
    <3>2. R[v] = R[u]
      BY <1>1, <2>2, <3>1 DEF Linked
    <3> QED BY <2>2, <3>2
  <2>4. ASSUME NEW u \in G, NEW v \in Around(u) PROVE q[v] # EMPTY_SQUARE
    <3> SUFFICES ASSUME q[v] = EMPTY_SQUARE PROVE FALSE
      OBVIOUS
    <3>1. v # s /\ p[v] = EMPTY_SQUARE
      BY <1>2, <1>4, <2>2
    <3>2. <<u, v>> \in F /\ <<u, v>>[2] = v
      BY <1>6, <2>2, <3>1
    <3> QED BY <1>5, <1>9, <1>11, <3>1, <3>2
  <2> HIDE DEF G
  <2> QED BY <2>1, <2>3, <2>4 DEF Starved
<1>12. ASSUME Starved(q, t) PROVE r \in WeakRefs(b, s, o)
  <2>1. PICK G \in SUBSET Squares : /\ t \in G /\ Closed(q, G)
                                    /\ \A u \in G : \A v \in Around(u) : q[v] # EMPTY_SQUARE
    BY <1>12 DEF Starved
  <2> DEFINE A == {u \in G : p[u] = o}
  <2>2. A \in SUBSET Squares /\ t \in A
    BY <1>3, <2>1
  <2>3. Closed(p, A)
    <3> SUFFICES ASSUME NEW u \in A, NEW v \in Around(u), p[v] = p[u] PROVE v \in A
      BY DEF Closed
    <3>1. u \in Squares /\ v \in Squares /\ u \in G /\ p[u] = o /\ p[v] = o
      BY <2>1, AroundFacts
    <3>2. q[v] = o /\ q[u] = o
      BY <1>2, <1>3, <1>4, <3>1
    <3> QED BY <2>1, <3>1, <3>2 DEF Closed
  <2>4. \A u \in Squares : R[u] = r => u \in A
    <3> HIDE DEF A
    <3>1. p[t] # EMPTY_SQUARE
      BY <1>2, <1>3
    <3> QED BY <1>1, <2>2, <2>3, <3>1 DEF Held, r
  <2>5. \A d \in F : d[2] = s
    <3> SUFFICES ASSUME NEW x \in Squares, NEW y \in Squares, <<x, y>> \in F, y # s PROVE FALSE
      BY <1>7
    <3>1. R[x] = r /\ y \in Around(x) /\ p[y] = EMPTY_SQUARE
      BY <1>6
    <3>2. x \in G /\ q[y] = EMPTY_SQUARE
      BY <1>4, <2>4, <3>1
    <3> QED BY <2>1, <3>1, <3>2
  <2>6. PICK x \in Squares : <<x, s>> \in F
    <3>1. PICK d \in F : TRUE
      BY <1>8
    <3>2. PICK x \in Squares, y \in Squares : d = <<x, y>>
      BY <1>7
    <3> QED BY <2>5, <3>1, <3>2
  <2>7. x \in Around(s) /\ p[x] = o /\ R[x] = r
    <3>1. R[x] = r /\ s \in Around(x)
      BY <1>6, <2>6
    <3> QED BY <2>4, <3>1, AroundFacts
  <2> QED BY <1>5, <1>9, <2>5, <2>7
<1>13. Starved(q, t) <=> r \in WeakRefs(b, s, o)
  BY <1>11, <1>12
<1> QED BY <1>10, <1>13 DEF p, r, o

(* The hash that useful() makes is that of the position after the move. *)
LEMMA HashIsAfter ==
  ASSUME NEW R, NEW K, NEW s \in Squares, Sound(square, R, K), turn \in Stones,
         square.color[s] = EMPTY_SQUARE
  PROVE  HashAfter(s, WeakRefs(square, s, Opponent(turn))) = AfterMove(square.color, s, turn)
<1> HIDE DEF Squares
<1> DEFINE p == square.color
           q == [p EXCEPT ![s] = turn]
           o == Opponent(turn)
           W == WeakRefs(square, s, o)
<1>1. /\ p \in [Squares -> Stones \union {EMPTY_SQUARE}] /\ R \in [Squares -> Squares]
      /\ \A u \in Squares : p[R[u]] = p[u]
  BY DEF Sound, GoBoards, Rooted
<1>2. /\ o # turn /\ o # EMPTY_SQUARE /\ turn # EMPTY_SQUARE
      /\ \A u \in Squares : p[u] = EMPTY_SQUARE \/ p[u] = turn \/ p[u] = o
  BY <1>1 DEF Opponent, Stones, WHITE, BLACK, EMPTY_SQUARE
<1>3. \A n \in Squares : FindRef(square, n) = R[n]
  <2>1. Ranked(square, R, K)
    BY DEF Ranked, Sound
  <2>2. Finds(square, R)
    BY <2>1, RankedFinds
  <2> QED BY <2>2 DEF Finds
<1>4. \A t \in Squares : q[t] = IF t = s THEN turn ELSE p[t]
  BY <1>1
<1>5. HashAfter(s, W) = [t \in Squares |-> IF t = s THEN turn
                                           ELSE IF p[t] # EMPTY_SQUARE /\ FindRef(square, t) \in W
                                             THEN EMPTY_SQUARE ELSE p[t]]
  BY Zenon DEF HashAfter
<1>6. AfterMove(p, s, turn) = [t \in Squares |-> IF Taken(p, s, turn, t) THEN EMPTY_SQUARE ELSE q[t]]
  BY AfterMoveFacts
<1>7. \A t : Taken(p, s, turn, t) => q[t] = o
  BY DEF Taken
<1>8. \A t \in Squares : p[t] = o => (Taken(p, s, turn, t) <=> R[t] \in W)
  BY WeakIsTaken
<1>9. ASSUME NEW t \in Squares, R[t] \in W PROVE p[t] = o
  <2> PICK r : r = R[t]
    OBVIOUS
  <2>1. IsWeakRoot(square, R, s, o, r)
    BY <1>9, WeakRefsFacts
  <2>2. PICK n \in Around(s) : p[n] = o /\ R[n] = R[t]
    BY <2>1 DEF IsWeakRoot
  <2>3. n \in Squares
    BY AroundFacts
  <2> QED BY <1>1, <2>2, <2>3
<1>10. p[s] = EMPTY_SQUARE
  OBVIOUS
<1> HIDE DEF p, q, o, W
<1>11. ASSUME NEW t \in Squares
       PROVE  (IF t = s THEN turn
               ELSE IF p[t] # EMPTY_SQUARE /\ FindRef(square, t) \in W THEN EMPTY_SQUARE ELSE p[t])
              = IF Taken(p, s, turn, t) THEN EMPTY_SQUARE ELSE q[t]
  <2>1. CASE t = s
    BY <1>2, <1>4, <1>7, <2>1
  <2>2. CASE t # s /\ p[t] = o
    BY <1>2, <1>3, <1>4, <1>8, <2>2
  <2>3. CASE t # s /\ p[t] # o
    BY <1>2, <1>3, <1>4, <1>7, <1>9, <2>3
  <2> QED BY <2>1, <2>2, <2>3
<1>12. HashAfter(s, W) = AfterMove(p, s, turn)
  BY <1>5, <1>6, <1>11
<1> QED BY <1>12 DEF p, W, o

\* the references of the groups of colour d at s
Refs(b, s, d) == {FindRef(b, n) : n \in {m \in Around(s) : b.color[m] = d}}

(* Board.useful *)
LEMMA UsefulFacts ==
  ASSUME NEW s
  PROVE  Useful(s) <=>
           \/ ~square.used[s] /\ \E n \in Around(s) : square.color[n] = EMPTY_SQUARE
           \/ /\ HashAfter(s, WeakRefs(square, s, Opponent(turn))) \notin positions
              /\ \/ \E n \in Around(s) : square.color[n] = EMPTY_SQUARE
                 \/ WeakRefs(square, s, Opponent(turn)) # {}
                 \/ /\ Refs(square, s, turn) # WeakRefs(square, s, turn)
                    /\ \/ Refs(square, s, Opponent(turn)) # WeakRefs(square, s, Opponent(turn))
                       \/ WeakRefs(square, s, turn) # {}
<1> HIDE DEF Squares
<1> DEFINE b == square
           free == {n \in Around(s) : b.color[n] = EMPTY_SQUARE}
           groups(d) == {FindRef(b, n) : n \in {m \in Around(s) : b.color[m] = d}}
           weak(r) == b.ledges[r] = Cardinality({n \in Around(s) \ free : FindRef(b, n) = r})
           opps == groups(Opponent(turn))
           weakOpps == {r \in opps : weak(r)}
           neighs == groups(turn)
           weakNeighs == {r \in neighs : weak(r)}
<1>1. Useful(s) <=>
        \/ ~b.used[s] /\ free # {}
        \/ /\ HashAfter(s, weakOpps) \notin positions
           /\ \/ free # {} \/ weakOpps # {}
              \/ neighs # weakNeighs /\ (opps # weakOpps \/ weakNeighs # {})
  BY Zenon DEF Useful
<1>2. \A r : weak(r) <=> Weak(b, s, r)
  <2> SUFFICES ASSUME NEW r PROVE weak(r) <=> Weak(b, s, r)
    OBVIOUS
  <2>1. {n \in Around(s) \ free : FindRef(b, n) = r}
        = {n \in {m \in Around(s) : b.color[m] # EMPTY_SQUARE} : FindRef(b, n) = r}
    OBVIOUS
  <2> QED BY <2>1, Zenon DEF Weak
<1>3. free # {} <=> \E n \in Around(s) : b.color[n] = EMPTY_SQUARE
  OBVIOUS
<1>4. opps = Refs(b, s, Opponent(turn)) /\ neighs = Refs(b, s, turn)
  BY Zenon DEF Refs
<1> HIDE DEF weak, free
<1>5. weakOpps = WeakRefs(b, s, Opponent(turn)) /\ weakNeighs = WeakRefs(b, s, turn)
  BY <1>2 DEF WeakRefs
<1> HIDE DEF b, opps, neighs, weakOpps, weakNeighs
<1> QED BY <1>1, <1>3, <1>4, <1>5, Zenon DEF b

(* A move that takes nothing and joins only what it leaves without an      *)
(* edge is suicide.                                                        *)
LEMMA IsSuicide ==
  ASSUME NEW b, NEW R, NEW K, NEW s \in Squares, NEW c \in Stones,
         Sound(b, R, K), b.color[s] = EMPTY_SQUARE,
         \A n \in Around(s) : b.color[n] # EMPTY_SQUARE,
         WeakRefs(b, s, Opponent(c)) = {}, Refs(b, s, c) = WeakRefs(b, s, c)
  PROVE  Liberties(AfterMove(b.color, s, c), s) = {}
<1> HIDE DEF Squares
<1> DEFINE p == b.color
           q == [p EXCEPT ![s] = c]
           o == Opponent(c)
           N == Refs(b, s, c)
           G == {u \in Squares : u = s \/ R[u] \in N}
<1>1. /\ p \in [Squares -> Stones \union {EMPTY_SQUARE}] /\ R \in [Squares -> Squares]
      /\ \A u \in Squares : p[R[u]] = p[u] /\ R[R[u]] = R[u]
      /\ Linked(p, R, {})
  BY DEF Sound, GoBoards, Rooted
<1>2. o # c /\ o # EMPTY_SQUARE /\ c # EMPTY_SQUARE
  BY DEF Opponent, Stones, WHITE, BLACK, EMPTY_SQUARE
<1>3. \A n \in Squares : FindRef(b, n) = R[n]
  <2>1. Ranked(b, R, K)
    BY DEF Ranked, Sound
  <2>2. Finds(b, R)
    BY <2>1, RankedFinds
  <2> QED BY <2>2 DEF Finds
<1>4. /\ p[s] = EMPTY_SQUARE
      /\ \A u \in Squares : q[u] = IF u = s THEN c ELSE p[u]
  BY <1>1
<1>5. \A n \in Around(s) : n \in Squares /\ n # s /\ p[n] # EMPTY_SQUARE
  BY AroundFacts
<1>6. \A r \in N : Weak(b, s, r) /\ \E n \in Around(s) : p[n] = c /\ R[n] = r
  <2> SUFFICES ASSUME NEW r \in N PROVE Weak(b, s, r) /\ \E n \in Around(s) : p[n] = c /\ R[n] = r
    OBVIOUS
  <2>1. r \in WeakRefs(b, s, c)
    OBVIOUS
  <2>2. IsWeakRoot(b, R, s, c, r)
    BY <2>1, WeakRefsFacts
  <2> QED BY <2>2 DEF IsWeakRoot
<1>7. \A n \in Around(s) : p[n] = c => R[n] \in N
  BY <1>3, <1>5 DEF Refs
<1>8. AfterMove(p, s, c) = q
  <2>1. \A t \in Squares : p[t] = o => (Taken(p, s, c, t) <=> R[t] \in WeakRefs(b, s, o))
    BY WeakIsTaken
  <2>2. \A t \in Squares : ~Taken(p, s, c, t)
    <3> SUFFICES ASSUME NEW t \in Squares, Taken(p, s, c, t) PROVE FALSE
      OBVIOUS
    <3>1. q[t] = o
      BY DEF Taken
    <3>2. p[t] = o
      BY <1>2, <1>4, <3>1
    <3> QED BY <2>1, <3>2
  <2>3. AfterMove(p, s, c) = [t \in Squares |-> IF Taken(p, s, c, t) THEN EMPTY_SQUARE ELSE q[t]]
    BY AfterMoveFacts
  <2>4. q = [t \in Squares |-> q[t]]
    BY <1>1
  <2> HIDE DEF q
  <2> QED BY <2>2, <2>3, <2>4
<1>9. ASSUME NEW r \in N
      PROVE  /\ r \in Squares /\ R[r] = r /\ p[r] = c
             /\ \A d \in Fed(R, r, Free(p)) : d[2] = s
  <2>1. PICK n \in Around(s) : p[n] = c /\ R[n] = r
    BY <1>6
  <2>2. r \in Squares /\ R[r] = r /\ p[r] = c
    BY <1>1, <1>5, <2>1
  <2>3. b.color[r] # EMPTY_SQUARE /\ Weak(b, s, r)
    BY <1>2, <1>6, <2>2
  <2> HIDE DEF N
  <2>4. Weak(b, s, r) => \A d \in Fed(R, r, Free(b.color)) : d[2] = s
    BY <2>2, <2>3, WeakFacts
  <2> QED BY <2>2, <2>3, <2>4
<1>10. ASSUME NEW u \in G, u # s
       PROVE  u \in Squares /\ R[u] \in N /\ p[u] = c /\ q[u] = c
  <2>1. u \in Squares /\ R[u] \in N
    BY <1>10
  <2>2. p[u] = c
    BY <1>1, <1>9, <2>1
  <2> QED BY <1>4, <1>10, <2>1, <2>2
<1> HIDE DEF p, q, o, N
<1>11. Closed(q, G)
  <2> SUFFICES ASSUME NEW u \in G, NEW v \in Around(u), q[v] = q[u] PROVE v \in G
    BY DEF Closed
  <2>1. u \in Squares /\ v \in Squares
    BY AroundFacts
  <2>2. CASE u = s
    <3>1. p[v] = c
      BY <1>4, <1>5, <2>2
    <3> QED BY <1>7, <2>1, <2>2, <3>1
  <2>3. CASE u # s /\ v # s
    <3>1. R[u] \in N /\ p[u] = c /\ p[v] = c
      BY <1>4, <1>10, <2>1, <2>3
    <3>2. R[v] = R[u]
      BY <1>1, <1>2, <2>1, <3>1 DEF Linked
    <3> QED BY <2>1, <3>1, <3>2
  <2>4. CASE v = s
    BY <2>4
  <2> QED BY <2>2, <2>3, <2>4
<1>12. ASSUME NEW u \in G, NEW v \in Around(u) PROVE q[v] # EMPTY_SQUARE
  <2> SUFFICES ASSUME q[v] = EMPTY_SQUARE PROVE FALSE
    OBVIOUS
  <2>1. u \in Squares /\ v \in Squares /\ v # s /\ p[v] = EMPTY_SQUARE
    <3>1. u \in Squares /\ v \in Squares
      BY AroundFacts
    <3> QED BY <1>2, <1>4, <3>1
  <2>2. u # s
    BY <1>5, <2>1
  <2>3. R[u] \in N
    BY <1>10, <2>2
  <2>4. <<u, v>> \in Free(p)
    BY <2>1, FreeFacts
  <2>5. <<u, v>> \in Fed(R, R[u], Free(p)) /\ <<u, v>>[2] = v
    BY <2>4 DEF Fed
  <2> QED BY <1>9, <2>1, <2>3, <2>5
<1>13. Starved(q, s)
  <2>1. G \in SUBSET Squares /\ s \in G
    OBVIOUS
  <2> HIDE DEF G
  <2> QED BY <1>11, <1>12, <2>1 DEF Starved
<1>14. Liberties(q, s) = {}
  BY <1>13, DeadIsStarved
<1> QED BY <1>8, <1>14 DEF p

(* What is not useful is a move that no one would or may make. *)
LEMMA VainIsBad ==
  ASSUME GoInv, NEW s \in Squares, square.color[s] = EMPTY_SQUARE, ~Useful(s)
  PROVE  LET after == AfterMove(square.color, s, turn)
         IN  OwnEye(square.color, s, turn) \/ Liberties(after, s) = {} \/ after \in positions
<1> HIDE DEF Squares
<1> DEFINE p == square.color
           o == Opponent(turn)
           A == AfterMove(p, s, turn)
           W == WeakRefs(square, s, o)
           V == WeakRefs(square, s, turn)
<1>1. PICK R, K : Sound(square, R, K)
  BY DEF GoInv
<1>2. turn \in Stones
  BY DEF GoInv, GoTypeOK
<1>3. HashAfter(s, W) = A
  BY <1>1, <1>2, HashIsAfter
<1>4. A \notin positions => /\ \A n \in Around(s) : p[n] # EMPTY_SQUARE
                            /\ W = {}
                            /\ Refs(square, s, turn) = V \/ (Refs(square, s, o) = W /\ V = {})
  BY <1>3, UsefulFacts
<1>5. \A n \in Around(s) : p[n] = EMPTY_SQUARE \/ p[n] = turn \/ p[n] = o
  <2>1. \A n \in Around(s) : n \in Squares
    BY AroundFacts
  <2>2. p \in [Squares -> Stones \union {EMPTY_SQUARE}]
    BY <1>1 DEF Sound, GoBoards
  <2> QED BY <1>2, <2>1, <2>2 DEF Opponent, Stones
<1> HIDE DEF A
<1>6. CASE A \notin positions /\ Refs(square, s, turn) = V
  <2>1. Liberties(A, s) = {}
    BY <1>1, <1>2, <1>4, <1>6, IsSuicide DEF A
  <2> QED BY <2>1 DEF A
<1>7. CASE A \notin positions /\ Refs(square, s, o) = W
  <2>1. Refs(square, s, o) = {}
    BY <1>4, <1>7
  <2>2. \A n \in Around(s) : p[n] # o
    BY <2>1 DEF Refs
  <2>3. OwnEye(p, s, turn)
    BY <1>4, <1>5, <1>7, <2>2 DEF OwnEye
  <2> QED BY <2>3
<1>8. CASE A \in positions
  BY <1>8 DEF A
<1> QED BY <1>4, <1>6, <1>7, <1>8

-----------------------------------------------------------------------------
(* What the code marks as used: the square of the move. *)
LEMMA RemoveGroupKeepsUsed ==
  ASSUME NEW b \in GoBoards, NEW s \in Squares, NEW ref
  PROVE  RemoveGroup(b, s, ref).used = b.used
<1> HIDE DEF Squares
<1> DEFINE I == {a \in Agendas : a.board.used = b.used}
<1>1. Gone(b, s) \in GoBoards /\ Gone(b, s).used = b.used
  BY GoneFacts
<1>2. RemoveStart(b, s) \in I
  <2>1. Edges(s) \in Seq(Squares \X Squares)
    BY EdgeFacts
  <2> QED BY <1>1, <2>1 DEF RemoveStart, Agendas
<1>3. ASSUME NEW a \in I, a.agenda # <<>> PROVE RemoveNext(a, ref) \in I
  <2> DEFINE n == Head(a.agenda)[2]
             c == Compressed(a.board, n)
             found == FindRef(a.board, n)
             z == RemoveNext(a, ref)
  <2>2. a \in Agendas /\ a.board.used = b.used
    OBVIOUS
  <2> HIDE DEF I
  <2>1. /\ n \in Squares /\ found \in Squares /\ a.board \in GoBoards /\ z \in Agendas
        /\ \/ z = [board |-> a.board, agenda |-> Tail(a.agenda)]
           \/ z = [board |-> Gone(c, n), agenda |-> Edges(n) \o Tail(a.agenda)]
           \/ z = [board |-> [c EXCEPT !.ledges[found] = @ + 1], agenda |-> Tail(a.agenda)]
    BY <1>3, <2>2, RemoveNextCases, Zenon
  <2>4. c \in GoBoards /\ c.used = a.board.used
    BY <2>1, CompressedType, Zenon
  <2> HIDE DEF n, c, found, z
  <2>3. /\ n \in Squares /\ found \in Squares /\ a.board \in GoBoards /\ z \in Agendas
        /\ \/ z.board = a.board \/ z.board = Gone(c, n)
           \/ z.board = [c EXCEPT !.ledges[found] = c.ledges[found] + 1]
    BY <2>1
  <2>5. Gone(c, n).used = c.used
    BY <2>3, <2>4, GoneFacts
  <2>6. [c EXCEPT !.ledges[found] = c.ledges[found] + 1].used = c.used
    BY <2>4 DEF GoBoards
  <2>7. z.board.used = b.used
    BY <2>2, <2>3, <2>4, <2>5, <2>6
  <2> QED BY <2>3, <2>7 DEF I, z
<1>4. I \in SUBSET Agendas
  OBVIOUS
<1>5. PICK z \in I : RemoveGroup(b, s, ref) = z.board
  <2>1. \A a \in I : a.agenda # <<>> => RemoveNext(a, ref) \in I
    BY <1>3
  <2> HIDE DEF I
  <2> QED BY ONLY <1>2, <1>4, <2>1, RemoveGroupEnds
<1> QED BY <1>5

LEMMA MeetKeepsUsed ==
  ASSUME NEW b \in GoBoards, NEW s \in Squares, NEW n \in Squares
  PROVE  MeetNeighbour(b, s, n).used = b.used
<1> HIDE DEF Squares
<1> DEFINE ref == FindRef(b, n)
           c == Compressed(b, n)
           edges == c.ledges[ref] - 1
           m == MeetNeighbour(b, s, n)
<1>2. /\ ref \in Squares /\ c \in GoBoards /\ edges \in Int
      /\ \/ m = [b EXCEPT !.ledges[s] = b.ledges[s] + 1]
         \/ m = [c EXCEPT !.ledges[ref] = edges]
         \/ m = [c EXCEPT !.ledges[s] = c.ledges[s] + edges, !.reference[ref] = s]
         \/ m = RemoveGroup([c EXCEPT !.ledges[ref] = edges], n, ref)
  BY MeetCases, Zenon
<1>3. c.used = b.used
  BY CompressedType
<1> HIDE DEF ref, c, edges, m
<1>4. [c EXCEPT !.ledges[ref] = edges] \in GoBoards /\ [c EXCEPT !.ledges[ref] = edges].used = c.used
  BY <1>2, LedgeFacts
<1>5. RemoveGroup([c EXCEPT !.ledges[ref] = edges], n, ref).used = c.used
  <2>1. PICK f \in GoBoards : f = [c EXCEPT !.ledges[ref] = edges] /\ f.used = c.used
    BY <1>4
  <2>2. RemoveGroup(f, n, ref).used = f.used
    BY RemoveGroupKeepsUsed
  <2> QED BY <2>1, <2>2
<1>6. /\ [b EXCEPT !.ledges[s] = b.ledges[s] + 1].used = b.used
      /\ [c EXCEPT !.ledges[s] = c.ledges[s] + edges, !.reference[ref] = s].used = c.used
  BY <1>2 DEF GoBoards
<1>7. m.used = b.used
  BY <1>2, <1>3, <1>4, <1>5, <1>6
<1> QED BY <1>7 DEF m

LEMMA MoveUses ==
  ASSUME NEW b \in GoBoards, NEW s \in Squares, NEW c \in Stones
  PROVE  Forgotten(Placed(b, s, c)).used = [b.used EXCEPT ![s] = TRUE]
<1> HIDE DEF Squares
<1> DEFINE U == [b.used EXCEPT ![s] = TRUE]
           I == {a \in Agendas : a.board.used = U}
<1>1. NewStone(b, s, c) \in GoBoards /\ NewStone(b, s, c).used = U
  <2>1. NewStone(b, s, c) \in GoBoards
    BY NewStoneFacts
  <2>2. NewStone(b, s, c).used = U
    BY DEF NewStone, GoBoards
  <2> QED BY <2>1, <2>2
<1> HIDE DEF U
<1>2. MeetStart(b, s, c) \in I
  <2>1. Edges(s) \in Seq(Squares \X Squares)
    BY EdgeFacts
  <2> QED BY <1>1, <2>1 DEF MeetStart, Agendas
<1>3. ASSUME NEW a \in I, a.agenda # <<>> PROVE MeetNext(a, s) \in I
  <2>1. a \in Agendas /\ a.board.used = U /\ a.board \in GoBoards
    BY DEF Agendas
  <2> HIDE DEF I
  <2>2. MeetNext(a, s) \in Agendas /\ Head(a.agenda)[2] \in Squares
    BY <1>3, <2>1, MeetNextType
  <2>3. MeetNeighbour(a.board, s, Head(a.agenda)[2]).used = a.board.used
    BY <2>1, <2>2, MeetKeepsUsed
  <2>4. MeetNext(a, s).board.used = U
    BY <2>1, <2>3 DEF MeetNext
  <2> QED BY <2>2, <2>4 DEF I
<1>4. I \in SUBSET Agendas
  OBVIOUS
<1>5. PICK z \in I : Placed(b, s, c) = RemoveEmpty(z.board, s)
  <2>1. \A a \in I : a.agenda # <<>> => MeetNext(a, s) \in I
    BY <1>3
  <2> HIDE DEF I
  <2> QED BY ONLY <1>2, <1>4, <2>1, s \in Squares, MeetEnds
<1>6. z.board \in GoBoards /\ z.board.used = U
  BY DEF Agendas
<1>7. PICK d \in GoBoards : d = z.board /\ d.used = U /\ Placed(b, s, c) = RemoveEmpty(d, s)
  BY <1>5, <1>6
<1>8. RemoveEmpty(d, s).used = d.used
  BY DEF RemoveEmpty, GoBoards
<1>9. Forgotten(RemoveEmpty(d, s)).used = RemoveEmpty(d, s).used
  BY DEF Forgotten, RemoveEmpty, GoBoards
<1> QED BY <1>7, <1>8, <1>9 DEF U

-----------------------------------------------------------------------------
(* Games: what useful() promises is so. *)

\* used has the squares of all positions, what was drawn in vain is not useful
Remembers(b, P) == b.color \in P /\ \A k \in P : \A t \in Squares : k[t] # EMPTY_SQUARE => b.used[t]
DrawnInVain ==
  \A s \in Squares : \A i \in DOMAIN square.empties :
    i > choices /\ square.empties[i] = s => ~Useful(s)
GamesInv == GoInv /\ Remembers(square, positions) /\ DrawnInVain

LEMMA SoundBreathes ==
  ASSUME NEW b, NEW R, NEW K, Sound(b, R, K), NEW s \in Squares, b.color[s] # EMPTY_SQUARE
  PROVE  Liberties(b.color, s) # {} /\ ~Starved(b.color, s)
<1> HIDE DEF Squares
<1>1. PICK p : p = b.color
  OBVIOUS
<1>2. R[s] \in Squares /\ R[R[s]] = R[s] /\ p[R[s]] # EMPTY_SQUARE
  BY <1>1 DEF Sound, Rooted
<1>3. b.ledges[R[s]] = Cardinality(Fed(R, R[s], Free(p))) /\ b.ledges[R[s]] # 0
  BY <1>1, <1>2 DEF Sound
<1>4. Liberties(p, s) = Fed(R, R[s], Free(p))
  BY <1>1, LibertiesAreFed
<1>5. Liberties(p, s) # {}
  BY <1>3, <1>4, FS_EmptySet
<1> QED BY <1>1, <1>5, DeadIsStarved

(* A useful move takes what it captures, keeps an edge, repeats nothing. *)
LEMMA UsefulIsLegal ==
  ASSUME GoInv, Remembers(square, positions), NEW s \in Squares,
         square.color[s] = EMPTY_SQUARE, Useful(s),
         NEW g, g = Forgotten(Placed(square, s, turn))
  PROVE  /\ g.color[s] = turn /\ g.color = AfterMove(square.color, s, turn)
         /\ Liberties(g.color, s) # {}
         /\ g.color \notin positions
         /\ Remembers(g, positions \union {g.color})
<1> HIDE DEF Squares
<1> DEFINE p == square.color
           q == [p EXCEPT ![s] = turn]
<1>1. PICK R, K : Sound(square, R, K)
  BY DEF GoInv
<1>2. turn \in Stones /\ turn # EMPTY_SQUARE /\ turn # Opponent(turn)
  BY DEF GoInv, GoTypeOK, Stones, WHITE, BLACK, EMPTY_SQUARE, Opponent
<1>3. PICK z \in GoBoards : /\ \E S, L : MeetInv(z, {}, S, L, s, q)
                            /\ Placed(square, s, turn) = RemoveEmpty(z, s)
  BY <1>1, <1>2, MeetFinishes
<1>4. MeetColors(z.color, q, s)
  BY <1>3 DEF MeetInv
<1>5. g.color = z.color
  BY <1>3 DEF Forgotten, RemoveEmpty, GoBoards
<1>6. PICK S, L : Sound(g, S, L)
  BY MoveSound
<1>7. /\ p \in [Squares -> Stones \union {EMPTY_SQUARE}]
      /\ g.color \in [Squares -> Stones \union {EMPTY_SQUARE}]
      /\ square \in GoBoards
  BY <1>1, <1>6 DEF Sound, GoBoards
<1>8. /\ q[s] = turn /\ \A t \in Squares : t # s => q[t] = p[t]
      /\ \A t \in Squares : g.color[t] = q[t] \/ (g.color[t] = EMPTY_SQUARE /\ q[t] = Opponent(turn))
  BY <1>4, <1>5, <1>7 DEF MeetColors
<1>9. g.color[s] = turn
  BY <1>2, <1>8
<1>10. g.color = AfterMove(p, s, turn)
  <2>1. \A t \in Squares : g.color[t] # EMPTY_SQUARE => ~Starved(g.color, t)
    BY <1>6, SoundBreathes
  <2>2. MeetColors(g.color, [p EXCEPT ![s] = turn], s)
    BY <1>4, <1>5
  <2> QED BY ONLY s \in Squares, <1>2, <1>7, <2>1, <2>2, CapturesByRules
<1>11. Liberties(g.color, s) # {}
  BY <1>2, <1>6, <1>9, SoundBreathes
<1>12. g.color \notin positions
  <2>1. CASE HashAfter(s, WeakRefs(square, s, Opponent(turn))) \notin positions
    BY <1>1, <1>2, <1>10, <2>1, HashIsAfter
  <2>2. CASE ~square.used[s]
    BY <1>2, <1>9, <2>2 DEF Remembers
  <2> QED BY <2>1, <2>2, UsefulFacts
<1>13. Remembers(g, positions \union {g.color})
  <2>1. g.used = [square.used EXCEPT ![s] = TRUE]
    BY <1>2, <1>7, MoveUses
  <2>2. \A t \in Squares : (t = s \/ square.used[t]) => g.used[t]
    BY <1>7, <2>1 DEF GoBoards
  <2>3. \A t \in Squares : g.color[t] # EMPTY_SQUARE => t = s \/ square.used[t]
    BY <1>2, <1>8 DEF Remembers
  <2> QED BY <2>2, <2>3 DEF Remembers
<1> QED BY <1>9, <1>10, <1>11, <1>12, <1>13

\* a move of a game
LegalMove(p, q, c, P) ==
  /\ \E s \in Squares : /\ p[s] = EMPTY_SQUARE /\ q[s] = c
                        /\ q = AfterMove(p, s, c) /\ Liberties(q, s) # {}
  /\ q \notin P

LEMMA PutStoneLegal ==
  ASSUME GamesInv, NEW s \in Squares, square.color[s] = EMPTY_SQUARE, Useful(s), PutStone(s)
  PROVE  /\ LegalMove(square.color, square'.color, turn, positions)
         /\ ~passed'
         /\ Remembers(square', positions') /\ DrawnInVain'
<1> HIDE DEF Squares
<1>1. PICK g : g = square'
  OBVIOUS
<1>2. /\ g = Forgotten(Placed(square, s, turn))
      /\ positions' = positions \union {g.color}
      /\ choices' = Len(g.empties) /\ passed' = FALSE
  BY <1>1 DEF PutStone
<1>3. /\ g.color[s] = turn /\ g.color = AfterMove(square.color, s, turn)
      /\ Liberties(g.color, s) # {} /\ g.color \notin positions
      /\ Remembers(g, positions \union {g.color})
  BY <1>2, UsefulIsLegal DEF GamesInv
<1>4. LegalMove(square.color, g.color, turn, positions)
  BY <1>3 DEF LegalMove
<1>5. g \in GoBoards
  <2>1. \E S, L : Sound(g, S, L)
    BY <1>2, MoveSound DEF GamesInv
  <2> QED BY <2>1 DEF Sound
<1>6. \A i \in DOMAIN g.empties : ~(i > choices')
  BY <1>2, <1>5, LenProperties DEF GoBoards
<1>7. DrawnInVain'
  BY <1>1, <1>6 DEF DrawnInVain
<1> QED BY <1>1, <1>2, <1>3, <1>4, <1>7

LEMMA SelectLegal ==
  ASSUME GamesInv, Select
  PROVE  /\ LegalMove(square.color, square'.color, turn, positions) /\ ~passed'
         /\ Remembers(square', positions') /\ DrawnInVain'
<1> HIDE DEF Squares
<1>1. /\ path # <<>> /\ square.color[Head(path)] = EMPTY_SQUARE /\ Useful(Head(path))
      /\ PutStone(Head(path))
  BY DEF Select
<1>2. path \in Seq(Squares)
  BY DEF GamesInv, GoInv, GoTypeOK
<1>3. Head(path) \in Squares
  BY <1>1, <1>2, OnHeadTail, Zenon
<1> QED BY <1>1, <1>3, PutStoneLegal

LEMMA DrawUsefulLegal ==
  ASSUME GamesInv, NEW i \in 1..Cardinality(Squares), DrawUseful(i)
  PROVE  /\ LegalMove(square.color, square'.color, turn, positions) /\ ~passed'
         /\ Remembers(square', positions') /\ DrawnInVain'
<1> HIDE DEF Squares
<1>1. i <= choices /\ Useful(square.empties[i]) /\ PutStone(square.empties[i])
  BY DEF DrawUseful
<1>2. /\ choices \in 0..Cardinality(Squares) /\ choices <= Len(square.empties) /\ square \in GoBoards
      /\ Listed(square, Empty(square.color))
  BY DEF GamesInv, GoInv, GoTypeOK, Sound
<1>3. i \in DOMAIN square.empties
  <2>1. Cardinality(Squares) \in Nat /\ Len(square.empties) \in Nat
        /\ DOMAIN square.empties = 1..Len(square.empties)
    BY <1>2, SquaresFinite, LenProperties DEF GoBoards
  <2> QED BY <1>1, <1>2, <2>1
<1>4. square.empties[i] \in Squares /\ square.color[square.empties[i]] = EMPTY_SQUARE
  BY <1>2, <1>3 DEF Listed, Empty
<1> QED BY <1>1, <1>4, PutStoneLegal

\* find() in the references f, and useful() of a board in parts
FindIn(f, s) ==
  LET chain[k \in 0..Cardinality(Squares)] == IF k = 0 THEN s ELSE f[chain[k - 1]]
  IN  chain[Cardinality(Squares)]

UsefulIn(k, f, l, u, P, c, s) ==
  LET free == {n \in Around(s) : k[n] = EMPTY_SQUARE}
      groups(d) == {FindIn(f, n) : n \in {m \in Around(s) : k[m] = d}}
      weak(r) == l[r] = Cardinality({n \in Around(s) \ free : FindIn(f, n) = r})
      opps == groups(Opponent(c))
      weakOpps == {r \in opps : weak(r)}
      neighs == groups(c)
      weakNeighs == {r \in neighs : weak(r)}
      after == [t \in Squares |-> IF t = s THEN c
                                  ELSE IF k[t] # EMPTY_SQUARE /\ FindIn(f, t) \in weakOpps
                                    THEN EMPTY_SQUARE ELSE k[t]]
  IN  \/ ~u[s] /\ free # {}
      \/ /\ after \notin P
         /\ \/ free # {} \/ weakOpps # {}
            \/ neighs # weakNeighs /\ (opps # weakOpps \/ weakNeighs # {})

(* useful() does not look at the list of empty squares. *)
LEMMA UsefulSame ==
  ASSUME square'.color = square.color, square'.reference = square.reference,
         square'.ledges = square.ledges, square'.used = square.used,
         positions' = positions, turn' = turn, NEW s
  PROVE  Useful(s)' <=> Useful(s)
<1> HIDE DEF Squares
<1>1. Useful(s) <=> UsefulIn(square.color, square.reference, square.ledges, square.used, positions, turn, s)
  BY Zenon DEF Useful, UsefulIn, HashAfter, FindRef, FindChain, FindIn
<1>2. Useful(s)' <=> UsefulIn(square'.color, square'.reference, square'.ledges, square'.used,
                              positions', turn', s)
  BY Zenon DEF Useful, UsefulIn, HashAfter, FindRef, FindChain, FindIn
<1> QED BY <1>1, <1>2

LEMMA DrawUselessVain ==
  ASSUME GamesInv, NEW i \in 1..Cardinality(Squares), DrawUseless(i)
  PROVE  /\ square'.color = square.color /\ turn' = turn
         /\ Remembers(square', positions') /\ DrawnInVain'
<1> HIDE DEF Squares
<1> DEFINE e == square.empties
           s == e[i]
           t == e[choices]
           N == Len(e)
           x == [e EXCEPT ![i] = t, ![choices] = s]
<1>1. /\ i <= choices /\ ~Useful(s) /\ choices' = choices - 1
      /\ square' = [square EXCEPT !.empties[i] = t, !.empties[choices] = s,
                                  !.place = [@ EXCEPT ![t] = i, ![s] = choices]]
      /\ positions' = positions /\ turn' = turn
  BY DEF DrawUseless
<1>2. choices \in 0..Cardinality(Squares) /\ choices <= N /\ square \in GoBoards
  BY DEF GamesInv, GoInv, GoTypeOK
<1>3. e \in Seq(Squares) /\ N \in Nat /\ DOMAIN e = 1..N
  BY <1>2, LenProperties DEF GoBoards
<1>4. i \in 1..N /\ choices \in 1..N
  BY <1>1, <1>2, <1>3, SquaresFinite
<1>5. /\ square'.color = square.color /\ square'.reference = square.reference
      /\ square'.ledges = square.ledges /\ square'.used = square.used
      /\ square'.empties = x
  BY <1>1, <1>2 DEF GoBoards
<1>6. Remembers(square', positions')
  BY <1>1, <1>5 DEF GamesInv, Remembers
<1>7. /\ DOMAIN x = 1..N
      /\ \A j \in 1..N : x[j] = IF j = choices THEN s ELSE IF j = i THEN t ELSE e[j]
  BY <1>3, <1>4
<1>8. \A j \in 1..N : j > choices => ~Useful(e[j])
  <2>1. \A j \in 1..N : e[j] \in Squares
    BY <1>3
  <2> QED BY <1>3, <2>1 DEF GamesInv, DrawnInVain
<1>9. \A r : Useful(r)' <=> Useful(r)
  <2> SUFFICES ASSUME NEW r PROVE Useful(r)' <=> Useful(r)
    OBVIOUS
  <2> QED BY <1>1, <1>5, UsefulSame
<1> HIDE DEF e, s, t, N, x
<1>10. ASSUME NEW j \in 1..N, j > choices' PROVE ~Useful(x[j])
  <2>1. j = choices \/ (j > choices /\ j # i)
    BY <1>1, <1>2, <1>4, <1>10
  <2>2. CASE j = choices
    BY <1>1, <1>7, <2>2
  <2>3. CASE j > choices /\ j # i
    <3>1. x[j] = e[j]
      BY <1>2, <1>4, <1>7, <2>3
    <3> QED BY <1>8, <2>3, <3>1
  <2> QED BY <2>1, <2>2, <2>3
<1>11. DrawnInVain'
  <2> SUFFICES ASSUME NEW r \in Squares, NEW j \in DOMAIN square'.empties,
                      j > choices', square'.empties[j] = r
               PROVE  ~Useful(r)'
    BY DEF DrawnInVain
  <2>1. j \in 1..N /\ square'.empties = x
    BY <1>5, <1>7
  <2>2. ~Useful(r)
    BY <1>10, <2>1
  <2> QED BY <1>9, <2>2
<1> QED BY <1>1, <1>5, <1>6, <1>11

\* what a player has who passes
NothingLeft(p, c, P) ==
  \A s \in Squares : p[s] = EMPTY_SQUARE =>
    \/ OwnEye(p, s, c)
    \/ Liberties(AfterMove(p, s, c), s) = {}
    \/ AfterMove(p, s, c) \in P

LEMMA PassIsForced ==
  ASSUME GamesInv, Pass
  PROVE  /\ square' = square
         /\ NothingLeft(square.color, turn, positions)
         /\ Remembers(square', positions') /\ DrawnInVain'
<1> HIDE DEF Squares
<1>1. choices = 0 /\ choices' = Len(square.empties) /\ square' = square /\ positions' = positions
  BY DEF Pass
<1>2. square \in GoBoards /\ Listed(square, Empty(square.color)) /\ GoInv
  BY DEF GamesInv, GoInv, Sound
<1>3. /\ DOMAIN square.empties = 1..Len(square.empties) /\ Len(square.empties) \in Nat
  BY <1>2, LenProperties DEF GoBoards
<1>4. ASSUME NEW s \in Squares, square.color[s] = EMPTY_SQUARE
      PROVE  ~Useful(s)
  <2>1. PICK i \in DOMAIN square.empties : square.empties[i] = s
    BY <1>2, <1>4 DEF Listed, Empty
  <2>2. i > choices
    BY <1>1, <1>3
  <2> QED BY <2>1, <2>2 DEF GamesInv, DrawnInVain
<1>5. NothingLeft(square.color, turn, positions)
  <2> SUFFICES ASSUME NEW s \in Squares, square.color[s] = EMPTY_SQUARE
               PROVE  \/ OwnEye(square.color, s, turn)
                      \/ Liberties(AfterMove(square.color, s, turn), s) = {}
                      \/ AfterMove(square.color, s, turn) \in positions
    BY Zenon DEF NothingLeft
  <2> QED BY <1>2, <1>4, VainIsBad
<1>6. DrawnInVain'
  BY <1>1, <1>3 DEF DrawnInVain
<1> QED BY <1>1, <1>5, <1>6 DEF GamesInv

LEMMA GamesStart == GoInit => GamesInv
<1> HIDE DEF Squares
<1> SUFFICES ASSUME GoInit PROVE GamesInv
  OBVIOUS
<1>1. GoInv
  BY GoStart
<1>2. /\ square.color = [s \in Squares |-> EMPTY_SQUARE] /\ positions = {square.color}
      /\ square.empties = [i \in 1..Cardinality(Squares) |-> i - 1]
      /\ choices = Cardinality(Squares)
  BY DEF GoInit
<1>3. Remembers(square, positions)
  BY <1>2 DEF Remembers
<1>4. DrawnInVain
  BY <1>2, SquaresFinite DEF DrawnInVain
<1> QED BY <1>1, <1>3, <1>4 DEF GamesInv

\* what every step does
LegalStep ==
  /\ square'.color # square.color => LegalMove(square.color, square'.color, turn, positions)
  /\ turn' # turn /\ passed' => NothingLeft(square.color, turn, positions)

LEMMA GamesStep == GamesInv /\ [GoNext]_goVars => GamesInv' /\ LegalStep
<1> HIDE DEF Squares
<1> SUFFICES ASSUME GamesInv, [GoNext]_goVars
             PROVE  Remembers(square', positions') /\ DrawnInVain' /\ LegalStep
  BY GoStep DEF GamesInv
<1>1. CASE Select
  BY <1>1, SelectLegal DEF LegalStep
<1>2. CASE Pass
  BY <1>2, PassIsForced DEF LegalStep
<1>3. ASSUME NEW i \in 1..Cardinality(Squares), DrawUseful(i)
      PROVE  Remembers(square', positions') /\ DrawnInVain' /\ LegalStep
  BY <1>3, DrawUsefulLegal DEF LegalStep
<1>4. ASSUME NEW i \in 1..Cardinality(Squares), DrawUseless(i)
      PROVE  Remembers(square', positions') /\ DrawnInVain' /\ LegalStep
  BY <1>4, DrawUselessVain DEF LegalStep
<1>5. CASE UNCHANGED goVars
  <2>1. square' = square /\ positions' = positions /\ turn' = turn /\ choices' = choices
    BY <1>5 DEF goVars
  <2>2. LegalStep
    BY <2>1 DEF LegalStep
  <2>3. \A r : Useful(r)' <=> Useful(r)
    <3> SUFFICES ASSUME NEW r PROVE Useful(r)' <=> Useful(r)
      OBVIOUS
    <3> QED BY <2>1, UsefulSame
  <2>4. DrawnInVain'
    <3> SUFFICES ASSUME NEW r \in Squares, NEW j \in DOMAIN square.empties,
                        j > choices, square.empties[j] = r
                 PROVE  ~Useful(r)'
      BY <2>1 DEF DrawnInVain
    <3>1. ~Useful(r)
      BY DEF GamesInv, DrawnInVain
    <3> QED BY <2>3, <3>1
  <2> QED BY <2>1, <2>2, <2>4 DEF GamesInv
<1> QED BY <1>1, <1>2, <1>3, <1>4, <1>5 DEF GoNext

(* Every game on a board of any size follows the rules: useful() lets      *)
(* Board.move make only moves that take what they capture, leave the stone *)
(* an edge and repeat no position, and a player passes only when every     *)
(* empty square would break a rule or fill an eye.                         *)
THEOREM GoGamesAreLegal == GoInit /\ [][GoNext]_goVars => GamesAreLegal
<1>1. GoInit => GamesInv
  BY GamesStart
<1>2. GamesInv /\ [GoNext]_goVars => GamesInv'
  BY GamesStep
<1>3. ASSUME GamesInv, [GoNext]_goVars
      PROVE  [LET p == square.color
                  q == square'.color
              IN  /\ q # p =>
                       /\ \E s \in Squares : /\ p[s] = EMPTY_SQUARE /\ q[s] = turn
                                             /\ q = AfterMove(p, s, turn)
                                             /\ Liberties(q, s) # {}
                       /\ q \notin positions
                  /\ turn' # turn /\ passed' =>
                       \A s \in Squares : p[s] = EMPTY_SQUARE =>
                         \/ OwnEye(p, s, turn)
                         \/ \E after \in {AfterMove(p, s, turn)} :
                               Liberties(after, s) = {} \/ after \in positions]_goVars
  <2>1. LegalStep
    BY <1>3, GamesStep
  <2> HIDE DEF Squares
  <2> QED BY <2>1 DEF LegalStep, LegalMove, NothingLeft
<1> QED BY <1>1, <1>2, <1>3, PTL DEF GamesAreLegal
=============================================================================
