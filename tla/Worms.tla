-------------------------------- MODULE Worms -------------------------------
(***************************************************************************)
(* multithread/threadworms: worms that crawl on a shared grid, each in a   *)
(* thread of its own.  One round of a worm, from the look at the cell      *)
(* ahead to the release of the cell behind, is one "with atomic" block and *)
(* so one step here.  A cell of the grid holds the worm whose colour the   *)
(* code writes there; the colours themselves are left out.                 *)
(***************************************************************************)
EXTENDS Integers, Sequences

CONSTANTS CellsWide, CellsHigh, Worms,
          MaxSize,    \* maxsize of a worm
          NumSteps,   \* NUM_STEPS
          None

Directions == {"up", "down", "left", "right"}

ASSUME WormsAssumption == /\ CellsWide \in Nat \ {0}
                          /\ CellsHigh \in Nat \ {0}
                          /\ MaxSize \in Nat \ {0}
                          /\ NumSteps \in Nat
                          /\ None \notin Worms \union Directions

VARIABLES grid,      \* GRID
          body,      \* body[w]: its cells, head first; empty before __init__
          dir,       \* dir[w]: its direction; None before __init__
          rounds,    \* rounds[w]: the rounds it has still to run
          started    \* all worms have been made and their threads started

vars == <<grid, body, dir, rounds, started>>

Cells == (0..(CellsWide - 1)) \X (0..(CellsHigh - 1))

(* getNextPosition, from cell c in direction d; it may be off the grid. *)
NextPosition(c, d) == CASE d = "up"    -> <<c[1], c[2] - 1>>
                        [] d = "down"  -> <<c[1], c[2] + 1>>
                        [] d = "left"  -> <<c[1] - 1, c[2]>>
                        [] d = "right" -> <<c[1] + 1, c[2]>>

IsFree(c) == c \in Cells /\ grid[c] = None

(* getNewDirection chooses among these. *)
NewDirections(c) == {d \in Directions : IsFree(NextPosition(c, d))}

Last(s) == s[Len(s)]
Backwards(s) == [i \in 1..Len(s) |-> s[Len(s) + 1 - i]]

TypeOK == /\ grid \in [Cells -> Worms \union {None}]
          /\ body \in [Worms -> Seq(Cells)]
          /\ dir \in [Worms -> Directions \union {None}]
          /\ rounds \in [Worms -> 0..NumSteps]
          /\ started \in BOOLEAN

Init == /\ grid = [c \in Cells |-> None]
        /\ body = [w \in Worms |-> <<>>]
        /\ dir = [w \in Worms |-> None]
        /\ rounds = [w \in Worms |-> NumSteps]
        /\ started = FALSE

(* Worm.__init__, in the main thread: a random free cell.  With no cell    *)
(* free it draws for ever.                                                 *)
NewWorm(w) == /\ body[w] = <<>>
              /\ \E c \in Cells : /\ IsFree(c)
                                  /\ grid' = [grid EXCEPT ![c] = w]
                                  /\ body' = [body EXCEPT ![w] = <<c>>]
              /\ \E d \in Directions : dir' = [dir EXCEPT ![w] = d]
              /\ UNCHANGED <<rounds, started>>

StartAll == /\ ~started
            /\ \A w \in Worms : body[w] # <<>>
            /\ started' = TRUE
            /\ UNCHANGED <<grid, body, dir, rounds>>

(* Defect: the worm's last cell stays taken. *)
AdvanceNoButt(w, b, d) ==
  LET c == NextPosition(b[1], d)
  IN  /\ grid' = [grid EXCEPT ![c] = w]
      /\ body' = [body EXCEPT ![w] = IF Len(b) + 1 > MaxSize
                                       THEN <<c>> \o SubSeq(b, 1, Len(b) - 1)
                                       ELSE <<c>> \o b]
      /\ dir' = [dir EXCEPT ![w] = d]

(* The worm, head first in b, takes the next cell in direction d; if that  *)
(* makes it longer than it may be, it leaves the cell of its butt.         *)
Advance(w, b, d) ==
  LET c == NextPosition(b[1], d)
  IN  /\ IF Len(b) + 1 > MaxSize
           THEN /\ grid' = [grid EXCEPT ![c] = w, ![Last(b)] = None]
                /\ body' = [body EXCEPT ![w] = <<c>> \o SubSeq(b, 1, Len(b) - 1)]
           ELSE /\ grid' = [grid EXCEPT ![c] = w]
                /\ body' = [body EXCEPT ![w] = <<c>> \o b]
      /\ dir' = [dir EXCEPT ![w] = d]

(* Straight on in direction d, or where there is a way from the head. *)
Forward(w, d) ==
  IF IsFree(NextPosition(body[w][1], d))
    THEN Advance(w, body[w], d)
    ELSE \E nd \in NewDirections(body[w][1]) : Advance(w, body[w], nd)

(* No way on from the head: the worm reverses, and goes on from its butt,  *)
(* or stays and draws a direction for the next round.                      *)
TurnBack(w) ==
  LET b == Backwards(body[w])
  IN  /\ NewDirections(body[w][1]) = {}
      /\ \/ \E d \in NewDirections(b[1]) : Advance(w, b, d)
         \/ /\ NewDirections(b[1]) = {}
            /\ body' = [body EXCEPT ![w] = b]
            /\ \E d \in Directions : dir' = [dir EXCEPT ![w] = d]
            /\ UNCHANGED grid

(* Defect: one round too many. *)
RoundExtra(w) == /\ started
                 /\ rounds[w] >= 0
                 /\ rounds' = [rounds EXCEPT ![w] = @ - 1]
                 /\ (\E d \in {dir[w]} \union Directions : Forward(w, d)) \/ TurnBack(w)
                 /\ UNCHANGED started

(* One turn of the loop of Worm.run, which begins with a random change of  *)
(* direction, or none.                                                     *)
Round(w) == /\ started
            /\ rounds[w] > 0
            /\ rounds' = [rounds EXCEPT ![w] = @ - 1]
            /\ (\E d \in {dir[w]} \union Directions : Forward(w, d)) \/ TurnBack(w)
            /\ UNCHANGED started

Next == StartAll \/ \E w \in Worms : NewWorm(w) \/ Round(w)

Spec == Init /\ [][Next]_vars

-----------------------------------------------------------------------------
(* The grid and the bodies tell the same story, which only holds if every  *)
(* look at the grid and the move that follows are one atomic block: a cell *)
(* is marked for the worm that lies on it, and free if none does.  So no   *)
(* two worms cross, and no cell is left behind as a wall.                  *)
GridIsBodies ==
  \A c \in Cells, w \in Worms : grid[c] = w <=> \E i \in DOMAIN body[w] : body[w][i] = c

Adjacent(c, e) == \E d \in Directions : e = NextPosition(c, d)

(* A worm is one connected piece of its size at most that does not cross   *)
(* itself, through every move and every reversal, and it always has a      *)
(* direction to read (the assertion of getNextPosition).                   *)
BodyIsPath ==
  \A w \in Worms :
    /\ Len(body[w]) <= MaxSize
    /\ \A i, j \in DOMAIN body[w] : body[w][i] = body[w][j] => i = j
    /\ \A i \in 1..(Len(body[w]) - 1) : Adjacent(body[w][i + 1], body[w][i])
    /\ body[w] # <<>> => dir[w] \in Directions
=============================================================================
