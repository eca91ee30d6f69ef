-------------------------------- MODULE BTree -------------------------------
(***************************************************************************)
(* multithread/btree: a B-tree that several threads search and change,     *)
(* each operation in a "with atomic" block.  A node is a value: its        *)
(* contents and its children.  The code changes nodes in place and keeps   *)
(* the ancestors of a node in a list of (node, index of the child); here   *)
(* they are the path of those indices from the root, counted from 1.       *)
(***************************************************************************)
EXTENDS Integers, Sequences, FiniteSets

LOCAL INSTANCE SequencesExt    \* Front, Last, InsertAt, RemoveAt, ReplaceAt

CONSTANTS Items, Order

ASSUME BTreeAssumption == Items \subseteq Nat /\ Order \in Nat \ {0, 1}

VARIABLES root,
          known     \* what the last insertion or search returned

treeVars == <<root, known>>

Minimum == Order \div 2

Node(contents, children) == [contents |-> contents, children |-> children]
IsLeaf(n) == n.children = <<>>

(* Defect: a node that holds Order items may take one more. *)
FullLate(n) == Len(n.contents) > Order

(* no room for another item *)
Full(n) == Len(n.contents) >= Order

(* The nodes below the root are left to BTreeShape. *)
TreeTypeOK == /\ ToSet(root.contents) \subseteq Items
              /\ known \in BOOLEAN

TreeInit == root = Node(<<>>, <<>>) /\ known = FALSE

RECURSIVE At(_, _), Put(_, _, _)
At(n, path) == IF path = <<>> THEN n ELSE At(n.children[path[1]], Tail(path))
Put(n, path, new) ==
  IF path = <<>> THEN new
  ELSE [n EXCEPT !.children[path[1]] = Put(@, Tail(path), new)]

(* bisect_left, and so the child to search *)
Place(n, x) == 1 + Cardinality({i \in DOMAIN n.contents : n.contents[i] < x})
HasAt(n, i, x) == i <= Len(n.contents) /\ n.contents[i] = x

(* _path_to: the node that holds x, or the leaf that should. *)
RECURSIVE PathTo(_, _)
PathTo(n, x) == IF IsLeaf(n) \/ HasAt(n, Place(n, x), x) THEN <<>>
                ELSE <<Place(n, x)>> \o PathTo(n.children[Place(n, x)], x)

Present(t, x) == LET n == At(t, PathTo(t, x)) IN HasAt(n, Place(n, x), x)

(* lateral: child "from" of p gives an item, through p, and the child that *)
(* goes with it to its neighbour "to".                                     *)
Lateral(p, from, to) ==
  LET first == to < from
      s == p.children[from]
      d == p.children[to]
      sep == IF first THEN to ELSE from
      one(q) == IF q = <<>> THEN <<>> ELSE IF first THEN <<q[1]>> ELSE <<Last(q)>>
      rest(q) == IF q = <<>> THEN <<>> ELSE IF first THEN Tail(q) ELSE Front(q)
      join(q, r) == IF first THEN q \o r ELSE r \o q
  IN  [p EXCEPT !.contents[sep] = one(s.contents)[1],
                !.children[from] = Node(rest(s.contents), rest(s.children)),
                !.children[to] = Node(join(d.contents, <<p.contents[sep]>>), join(d.children, one(s.children)))]

(* split: the left half, the median and the right half *)
Split(n) ==
  LET c == Len(n.contents) \div 2 + 1
      children(a, b) == IF IsLeaf(n) THEN <<>> ELSE SubSeq(n.children, a, b)
  IN  [left   |-> Node(SubSeq(n.contents, 1, c - 1), children(1, c)),
       median |-> n.contents[c],
       right  |-> Node(SubSeq(n.contents, c + 1, Len(n.contents)),
                       children(c + 1, Len(n.contents) + 1))]

(* shrink the node at path, which has an item too many: lend one to a      *)
(* neighbour, else split and hand the median up.                           *)
RECURSIVE Shrink(_, _)
Shrink(t, path) ==
  LET half == Split(At(t, path))
  IN  IF path = <<>> THEN Node(<<half.median>>, <<half.left, half.right>>)
      ELSE LET up == Front(path)
               i  == Last(path)
               p  == At(t, up)
               q  == Node(InsertAt(p.contents, i, half.median),
                          InsertAt(ReplaceAt(p.children, i, half.left), i + 1, half.right))
           IN  CASE i > 1 /\ ~Full(p.children[i - 1]) -> Put(t, up, Lateral(p, i, i - 1))
                 [] (i = 1 \/ Full(p.children[i - 1])) /\ i < Len(p.children)
                      /\ ~Full(p.children[i + 1])     -> Put(t, up, Lateral(p, i, i + 1))
                 [] OTHER -> IF Len(q.contents) > Order THEN Shrink(Put(t, up, q), up)
                                                        ELSE Put(t, up, q)

(* Defect: the item between the two is lost. *)
ConsolidateLoses(p, i) ==
  LET l == p.children[i]
      r == p.children[i + 1]
      one == Node(l.contents \o r.contents, l.children \o r.children)
  IN  Node(RemoveAt(p.contents, i), RemoveAt(ReplaceAt(p.children, i, one), i + 1))

(* Children i and i + 1 of p and the item between them as one child. *)
Consolidate(p, i) ==
  LET l == p.children[i]
      r == p.children[i + 1]
      one == Node(Append(l.contents, p.contents[i]) \o r.contents, l.children \o r.children)
  IN  Node(RemoveAt(p.contents, i), RemoveAt(ReplaceAt(p.children, i, one), i + 1))

(* grow the node at path, which has an item too few: borrow one from a     *)
(* neighbour, else become one with it, which costs the parent an item.     *)
RECURSIVE Grow(_, _)
Grow(t, path) ==
  LET up == Front(path)
      i  == Last(path)
      p  == At(t, up)
      rich(j) == j \in DOMAIN p.children /\ Len(p.children[j].contents) > Minimum
      q  == Consolidate(p, IF i > 1 THEN i - 1 ELSE i)
  IN  CASE rich(i + 1) -> Put(t, up, Lateral(p, i + 1, i))
        [] ~rich(i + 1) /\ rich(i - 1) -> Put(t, up, Lateral(p, i - 1, i))
        [] OTHER -> CASE up # <<>> /\ Len(q.contents) < Minimum -> Grow(Put(t, up, q), up)
                      [] up = <<>> /\ q.contents = <<>>         -> q.children[1]
                      [] OTHER                                  -> Put(t, up, q)

(* _BNode.insert into the leaf at path *)
InsertInto(t, path, x) ==
  LET n == At(t, path)
      m == [n EXCEPT !.contents = InsertAt(@, Place(n, x), x)]
  IN  IF Len(m.contents) > Order THEN Shrink(Put(t, path, m), path) ELSE Put(t, path, m)

(* _BNode.remove from a leaf *)
RemoveLeaf(t, path, i) ==
  LET n == At(t, path)
      m == [n EXCEPT !.contents = RemoveAt(@, i)]
  IN  IF Len(m.contents) < Minimum /\ path # <<>> THEN Grow(Put(t, path, m), path)
                                                  ELSE Put(t, path, m)

RECURSIVE Leftmost(_), Rightmost(_)
Leftmost(n) == IF IsLeaf(n) THEN <<>> ELSE <<1>> \o Leftmost(n.children[1])
Rightmost(n) == IF IsLeaf(n) THEN <<>>
                ELSE <<Len(n.children)>> \o Rightmost(Last(n.children))

(* _BNode.remove: an item of a branch is replaced by the next one, if its  *)
(* leaf can spare it, or by the one before it.                             *)
RemoveFrom(t, path, i) ==
  LET n == At(t, path)
      right == path \o <<i + 1>> \o Leftmost(n.children[i + 1])
      left  == path \o <<i>> \o Rightmost(n.children[i])
      promote(leaf, k) == RemoveLeaf(Put(t, path, [n EXCEPT !.contents[i] = At(t, leaf).contents[k]]), leaf, k)
  IN  IF IsLeaf(n) THEN RemoveLeaf(t, path, i)
      ELSE IF Len(At(t, right).contents) > Minimum THEN promote(right, 1)
      ELSE promote(left, Len(At(t, left).contents))

-----------------------------------------------------------------------------
TreeInsert(x) == /\ known' = ~Present(root, x)
                 /\ root' = IF Present(root, x) THEN root ELSE InsertInto(root, PathTo(root, x), x)

TreeRemove(x) ==
  /\ Present(root, x)
  /\ LET path == PathTo(root, x) IN root' = RemoveFrom(root, path, Place(At(root, path), x))
  /\ UNCHANGED known

TreeContains(x) == known' = Present(root, x) /\ UNCHANGED root

TreeNext == \E x \in Items : TreeInsert(x) \/ TreeRemove(x) \/ TreeContains(x)

TreeSpec == TreeInit /\ [][TreeNext]_treeVars

-----------------------------------------------------------------------------
RECURSIVE InOrder(_), Height(_), WellFilled(_, _)

(* __iter__ *)
InOrder(n) == IF IsLeaf(n) THEN n.contents
              ELSE FlattenSeq([i \in DOMAIN n.contents |-> Append(InOrder(n.children[i]), n.contents[i])])
                   \o InOrder(Last(n.children))

TreeSet == INSTANCE SetSpec WITH Elems <- Items, set <- ToSet(InOrder(root)), answer <- known

(* The threads see one set: every split, loan and consolidation keeps all  *)
(* items, and the search finds what an iteration over the tree would.      *)
BTreeIsSet == TreeSet!Spec

Height(n) == IF IsLeaf(n) THEN 0 ELSE 1 + Height(n.children[1])

WellFilled(n, least) ==
  /\ Len(n.contents) \in least..Order
  /\ IsLeaf(n) \/ /\ Len(n.children) = Len(n.contents) + 1
                  /\ \A i, j \in DOMAIN n.children : Height(n.children[i]) = Height(n.children[j])
                  /\ \A i \in DOMAIN n.children : WellFilled(n.children[i], Minimum)

(* The tree stays a B-tree, so that a search takes logarithmic time: its   *)
(* items in order and none twice, its leaves at one depth, no node over    *)
(* Order or, but for the root, under half of it, though a removal starts   *)
(* at a leaf and may change every node up to the root.                     *)
BTreeShape ==
  /\ \A i \in 1..(Len(InOrder(root)) - 1) : InOrder(root)[i] < InOrder(root)[i + 1]
  /\ WellFilled(root, IF IsLeaf(root) THEN 0 ELSE 1)
=============================================================================
