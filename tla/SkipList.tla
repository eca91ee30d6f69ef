------------------------------ MODULE SkipList ------------------------------
(***************************************************************************)
(* multithread/skiplist: a skip list that several threads search and       *)
(* change, each operation in a "with atomic" block.  A node is named by    *)
(* its element and has its list of successors, one for each level, from    *)
(* level 1 at the bottom (index 0 of the code).                            *)
(***************************************************************************)
EXTENDS Integers, Sequences, FiniteSets

CONSTANTS SkipElems,     \* the elements
          TopHeight      \* bound: the greatest height that is drawn

ASSUME SkipListAssumption == /\ SkipElems \subseteq Nat \ {0}
                             /\ IsFiniteSet(SkipElems)
                             /\ TopHeight \in Nat \ {0}

HeadNode == 0     \* the node before all elements
NoNode == -1
Nodes == SkipElems \union {HeadNode}

VARIABLES succ,       \* succ[x]: x.next, empty if the list has no node x
          maxHeight,
          len,
          found       \* whether the last insert added, or the last find found

skipVars == <<succ, maxHeight, len, found>>

SkipTypeOK == /\ succ \in [Nodes -> Seq(SkipElems \union {NoNode})]
              /\ maxHeight \in 0..TopHeight
              /\ len \in 0..Cardinality(SkipElems)
              /\ found \in BOOLEAN

SkipInit == /\ succ = [x \in Nodes |-> <<>>]
            /\ maxHeight = 0
            /\ len = 0
            /\ found = FALSE

-----------------------------------------------------------------------------
(* The nodes that have a link on level i. *)
OnLevel(next, i) == {x \in Nodes : i <= Len(next[x])}

(* The last node before e on level i, looked for from x on. *)
Before(next, x, i, e) ==
  LET walk[y \in OnLevel(next, i)] ==
        IF next[y][i] # NoNode /\ next[y][i] < e THEN walk[next[y][i]] ELSE y
  IN  walk[x]

(* updateList: on each level, the node after which e belongs; each level   *)
(* is entered where the search has left the one above.                     *)
UpdateList(next, height, e) ==
  LET update[i \in 1..height] ==
        Before(next, IF i = height THEN HeadNode ELSE update[i + 1], i, e)
  IN  update

(* find: the bottom level decides. *)
Find(next, height, e) == height > 0 /\ next[UpdateList(next, height, e)[1]][1] = e

(* Defect: links the new node on the bottom level alone. *)
LinkBottom(next, update, e, h) ==
  [next EXCEPT ![update[1]][1] = e, ![e] = [i \in 1..h |-> next[update[i]][i]]]

(* The links once a node of height h is in the list for e. *)
Link(next, update, e, h) ==
  [x \in Nodes |->
     IF x = e THEN [i \in 1..h |-> next[update[i]][i]]
     ELSE [i \in 1..Len(next[x]) |-> IF i <= h /\ update[i] = x THEN e ELSE next[x][i]]]

(* Defect: links the nodes before e to none. *)
UnlinkRest(next, update, e) ==
  [x \in Nodes |-> IF x = e THEN <<>>
                   ELSE [i \in 1..Len(next[x]) |->
                           IF i <= Len(next[e]) /\ update[i] = x THEN NoNode ELSE next[x][i]]]

(* The links without the node of e, of which nothing is left. *)
Unlink(next, update, e) ==
  [x \in Nodes |-> IF x = e THEN <<>>
                   ELSE [i \in 1..Len(next[x]) |->
                           IF i <= Len(next[e]) /\ update[i] = x THEN next[e][i] ELSE next[x][i]]]

(* insert, with a random height.  The list grows to that height before it  *)
(* turns out whether e is in it already.                                   *)
SkipInsert(e, h) ==
  LET top   == IF h > maxHeight THEN h ELSE maxHeight
      links == succ[HeadNode]
      grown == IF h <= Len(links) THEN succ
               ELSE [succ EXCEPT ![HeadNode] = links \o [i \in 1..(h - Len(links)) |-> NoNode]]
      isIn  == Find(grown, top, e)
  IN  /\ maxHeight' = top
      /\ succ' = IF isIn THEN grown ELSE Link(grown, UpdateList(grown, top, e), e, h)
      /\ len' = IF isIn THEN len ELSE len + 1
      /\ found' = ~isIn

(* remove: a level that the node leaves empty lowers the list by one. *)
SkipRemove(e) ==
  /\ Find(succ, maxHeight, e)
  /\ succ' = Unlink(succ, UpdateList(succ, maxHeight, e), e)
  /\ maxHeight' = maxHeight - Cardinality({i \in 1..Len(succ[e]) : succ'[HeadNode][i] = NoNode})
  /\ len' = len - 1
  /\ UNCHANGED found

SkipFind(e) == /\ found' = Find(succ, maxHeight, e)
               /\ UNCHANGED <<succ, maxHeight, len>>

SkipNext == \E e \in SkipElems : \/ \E h \in 1..TopHeight : SkipInsert(e, h)
                                 \/ SkipRemove(e)
                                 \/ SkipFind(e)

SkipSpec == SkipInit /\ [][SkipNext]_skipVars

-----------------------------------------------------------------------------
(* The elements on level i, from the head on. *)
Level(i) ==
  LET from[x \in (OnLevel(succ, i) \ {HeadNode}) \union {NoNode}] ==
        IF x = NoNode THEN {} ELSE {x} \union from[succ[x][i]]
  IN  IF i > Len(succ[HeadNode]) THEN {} ELSE from[succ[HeadNode][i]]

SharedSet == INSTANCE SetSpec WITH Elems <- SkipElems, set <- Level(1), answer <- found

(* The threads see one set: whatever nodes were linked, unlinked and put   *)
(* back at another height, a search from the top level finds exactly what  *)
(* is in the list, and no insertion of an element that is there adds it.   *)
SkipListIsSet == SharedSet!Spec

(* The levels agree after every change: each is sorted and is part of the  *)
(* one below, a node is on as many levels as it has links, no element is   *)
(* above maxHeight, where no search would pass, and len counts them.       *)
LevelsAgree ==
  /\ len = Cardinality(Level(1))
  /\ \A x \in Nodes, i \in 1..TopHeight :
       i <= Len(succ[x]) /\ succ[x][i] # NoNode => succ[x][i] > x
  /\ \A i \in 1..TopHeight : Level(i) = {x \in SkipElems : Len(succ[x]) >= i}
  /\ \A i \in (maxHeight + 1)..TopHeight : Level(i) = {}
=============================================================================
