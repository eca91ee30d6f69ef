------------------------------ MODULE SetSpec -------------------------------
(***************************************************************************)
(* What the threads of multithread/skiplist and multithread/btree share: a *)
(* set of elements.  Each operation is one step, for each is called in a   *)
(* "with atomic" block.  SkipList and BTree implement this specification.  *)
(***************************************************************************)
CONSTANT Elems

VARIABLES set,      \* the elements
          answer    \* what the last insertion or search found out

Init == set = {} /\ answer = FALSE

(* The answer is whether the element was new. *)
Insert(e) == set' = set \union {e} /\ answer' = (e \notin set)

Remove(e) == set' = set \ {e} /\ UNCHANGED answer

Contains(e) == answer' = (e \in set) /\ UNCHANGED set

Next == \E e \in Elems : Insert(e) \/ Remove(e) \/ Contains(e)

Spec == Init /\ [][Next]_<<set, answer>>
=============================================================================
