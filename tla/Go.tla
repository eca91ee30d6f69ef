--------------------------------- MODULE Go ---------------------------------
(***************************************************************************)
(* own/go.py: the board on which the benchmark plays random games of Go.   *)
(* Groups of stones are kept as a union-find structure with a count of     *)
(* their edges to empty squares, the empty squares as a list with the      *)
(* place of each, the positions that occurred as hashes.  A game follows   *)
(* a path of the search tree and goes on with random moves.  A hash is     *)
(* the position itself here; the reference and the edges of an empty       *)
(* square, and the place of one that is not, are never read and reset.     *)
(***************************************************************************)
EXTENDS Integers, Sequences, FiniteSets

CONSTANTS BoardSize,   \* SIZE
          Paths,       \* bound: the paths of the search tree that games begin with
          MaxPlays     \* bound: the random moves after one (MAXMOVES)

Squares == 0..(BoardSize * BoardSize - 1)
EMPTY_SQUARE == 0
WHITE == 1
BLACK == 2
Stones == {WHITE, BLACK}
Opponent(c) == IF c = BLACK THEN WHITE ELSE BLACK

ASSUME GoAssumption == /\ BoardSize \in Nat \ {0}
                       /\ Paths \subseteq Seq(Squares)
                       /\ MaxPlays \in Nat

VARIABLES square,      \* the squares and the EmptySet, see GoBoards
          positions,   \* ZobristHash.hash_set
          turn,        \* Board.color
          passed,      \* whether Board.lastmove is PASS
          finished,
          choices,     \* those of random_choice that are left
          plays,       \* how many random moves were made
          path         \* what is left of it

goVars == <<square, positions, turn, passed, finished, choices, plays, path>>

GoBoards == [color     : [Squares -> Stones \union {EMPTY_SQUARE}],
             reference : [Squares -> Squares],
             ledges    : [Squares -> Int],
             used      : [Squares -> BOOLEAN],
             empties   : Seq(Squares),
             place     : [Squares -> Nat]]    \* empty_pos, from 1 on

GoTypeOK == /\ square \in GoBoards
            /\ positions \subseteq [Squares -> Stones \union {EMPTY_SQUARE}]
            /\ turn \in Stones
            /\ passed \in BOOLEAN /\ finished \in BOOLEAN
            /\ choices \in 0..Cardinality(Squares)
            /\ plays \in 0..MaxPlays
            /\ path \in Seq(Squares)

-----------------------------------------------------------------------------
(* set_neighbours: left, right, above, below *)
Neighbours(s) ==
  LET x == s % BoardSize
      y == s \div BoardSize
      on(there, t) == IF there THEN <<t>> ELSE <<>>
  IN  on(x > 0, s - 1) \o on(x < BoardSize - 1, s + 1) \o
      on(y > 0, s - BoardSize) \o on(y < BoardSize - 1, s + BoardSize)

Around(s) == {Neighbours(s)[i] : i \in DOMAIN Neighbours(s)}

(* find: the references from s on.  None of these chains is longer than    *)
(* the board.  With update, all of the chain then refer to its last.       *)
FindChain(b, s) ==
  LET chain[k \in 0..Cardinality(Squares)] == IF k = 0 THEN s ELSE b.reference[chain[k - 1]]
  IN  chain
RefChain(b, s) == {FindChain(b, s)[k] : k \in 0..Cardinality(Squares)}
FindRef(b, s) == FindChain(b, s)[Cardinality(Squares)]
Compressed(b, s) ==
  [b EXCEPT !.reference = [t \in Squares |-> IF t \in RefChain(b, s) THEN FindRef(b, s) ELSE @[t]]]

-----------------------------------------------------------------------------
(* EmptySet.add *)
AddEmpty(b, s) == [b EXCEPT !.empties = Append(@, s), !.place[s] = Len(b.empties) + 1]

(* EmptySet.remove: the last one takes the place of s. *)
RemoveEmpty(b, s) ==
  LET last == b.empties[Len(b.empties)]
  IN  [b EXCEPT !.empties = [i \in 1..(Len(@) - 1) |-> IF i = b.place[s] THEN last ELSE @[i]],
                !.place = [@ EXCEPT ![last] = b.place[s], ![s] = 0]]

(* What is left of the loops over neighbours: pairs of a square, self in   *)
(* the code, and the neighbour of it that is still to be looked at.        *)
Edges(s) == [i \in DOMAIN Neighbours(s) |-> <<s, Neighbours(s)[i]>>]
Agendas == [board : GoBoards, agenda : Seq(Squares \X Squares)]

Gone(b, s) == AddEmpty([b EXCEPT !.color[s] = EMPTY_SQUARE], s)

(* Square.remove: the neighbours of the group are removed in turn, the     *)
(* other groups gain an edge.                                              *)
RemoveNext(a, ref) ==
  LET n == Head(a.agenda)[2]
      found == FindRef(a.board, n)
      c == Compressed(a.board, n)
  IN  IF a.board.color[n] = EMPTY_SQUARE THEN [a EXCEPT !.agenda = Tail(@)]
      ELSE IF found = ref
        THEN [board |-> Gone(c, n), agenda |-> Edges(n) \o Tail(a.agenda)]
        ELSE [board |-> [c EXCEPT !.ledges[found] = @ + 1], agenda |-> Tail(a.agenda)]

RemoveGroup(b, s, ref) ==
  LET remove[a \in Agendas] ==
        IF a.agenda = <<>> THEN a.board ELSE remove[RemoveNext(a, ref)]
  IN  remove[[board |-> Gone(b, s), agenda |-> Edges(s)]]

(* Defect: a neighbour of a group that is joined already keeps its edge. *)
MeetNeighbourOnce(b, s, n) ==
  LET ref == FindRef(b, n)
      c == Compressed(b, n)
      edges == c.ledges[ref] - 1
      fewer == [c EXCEPT !.ledges[ref] = edges]
  IN  IF b.color[n] = EMPTY_SQUARE THEN [b EXCEPT !.ledges[s] = @ + 1]
      ELSE IF b.color[n] = b.color[s]
        THEN IF ref = s THEN c
             ELSE [c EXCEPT !.ledges[s] = @ + edges, !.reference[ref] = s]
      ELSE IF edges = 0 THEN RemoveGroup(fewer, n, ref) ELSE fewer

(* The loop of Square.move, for one neighbour n of the stone at s. *)
MeetNeighbour(b, s, n) ==
  LET ref == FindRef(b, n)
      c == Compressed(b, n)
      edges == c.ledges[ref] - 1
      fewer == [c EXCEPT !.ledges[ref] = edges]
  IN  IF b.color[n] = EMPTY_SQUARE THEN [b EXCEPT !.ledges[s] = @ + 1]
      ELSE IF b.color[n] = b.color[s]
        THEN IF ref = s THEN fewer
             ELSE [c EXCEPT !.ledges[s] = @ + edges, !.reference[ref] = s]
      ELSE IF edges = 0 THEN RemoveGroup(fewer, n, ref) ELSE fewer

(* Square.move and EmptySet.remove *)
NewStone(b, s, c) == [b EXCEPT !.color[s] = c, !.reference[s] = s, !.ledges[s] = 0, !.used[s] = TRUE]

Placed(b, s, c) ==
  LET meet[a \in Agendas] ==
        IF a.agenda = <<>> THEN a.board
        ELSE meet[[board |-> MeetNeighbour(a.board, s, Head(a.agenda)[2]), agenda |-> Tail(a.agenda)]]
  IN  RemoveEmpty(meet[[board |-> NewStone(b, s, c), agenda |-> Edges(s)]], s)

Forgotten(b) ==
  [b EXCEPT !.reference = [s \in Squares |-> IF b.color[s] = EMPTY_SQUARE THEN s ELSE @[s]],
            !.ledges = [s \in Squares |-> IF b.color[s] = EMPTY_SQUARE THEN 0 ELSE @[s]]]

-----------------------------------------------------------------------------
(* Defect: what would be captured is left in the hash. *)
HashAfterUncaptured(s, captured) == [square.color EXCEPT ![s] = turn]

(* The hash of a move at s that captures the groups of these references. *)
HashAfter(s, captured) ==
  [t \in Squares |-> IF t = s THEN turn
                     ELSE IF square.color[t] # EMPTY_SQUARE /\ FindRef(square, t) \in captured
                       THEN EMPTY_SQUARE ELSE square.color[t]]

(* Board.useful, for the colour whose turn it is.  A group is weak if all  *)
(* its edges to empty squares lead to s.                                   *)
Useful(s) ==
  LET b == square
      free == {n \in Around(s) : b.color[n] = EMPTY_SQUARE}
      groups(c) == {FindRef(b, n) : n \in {m \in Around(s) : b.color[m] = c}}
      weak(r) == b.ledges[r] = Cardinality({n \in Around(s) \ free : FindRef(b, n) = r})
      opps == groups(Opponent(turn))
      weakOpps == {r \in opps : weak(r)}
      neighs == groups(turn)
      weakNeighs == {r \in neighs : weak(r)}
  IN  \/ ~b.used[s] /\ free # {}
      \/ /\ HashAfter(s, weakOpps) \notin positions
         /\ \/ free # {} \/ weakOpps # {}
            \/ neighs # weakNeighs /\ (opps # weakOpps \/ weakNeighs # {})

(* Board.move, a stone *)
PutStone(s) ==
  /\ \E b \in {Forgotten(Placed(square, s, turn))} :
       /\ square' = b
       /\ positions' = positions \union {b.color}
       /\ choices' = Len(b.empties)
  /\ turn' = Opponent(turn)
  /\ passed' = FALSE
  /\ UNCHANGED finished

GoInit == /\ square = [color     |-> [s \in Squares |-> EMPTY_SQUARE],
                       reference |-> [s \in Squares |-> s],
                       ledges    |-> [s \in Squares |-> 0],
                       used      |-> [s \in Squares |-> FALSE],
                       empties   |-> [i \in 1..Cardinality(Squares) |-> i - 1],
                       place     |-> [s \in Squares |-> s + 1]]
          /\ positions = {square.color}
          /\ turn = BLACK
          /\ passed = FALSE
          /\ finished = FALSE
          /\ choices = Cardinality(Squares)
          /\ plays = 0
          /\ path \in Paths

(* UCTNode.play: the children of a node are among its useful moves, which  *)
(* are empty squares.                                                      *)
Select == /\ path # <<>>
          /\ square.color[Head(path)] = EMPTY_SQUARE
          /\ Useful(Head(path))
          /\ PutStone(Head(path))
          /\ path' = Tail(path)
          /\ UNCHANGED plays

Playing == path = <<>> /\ ~finished /\ plays < MaxPlays

(* random_choice: a draw.  What is not useful goes behind the rest. *)
DrawUseful(i) == /\ Playing /\ i <= choices
                 /\ Useful(square.empties[i])
                 /\ PutStone(square.empties[i])
                 /\ plays' = plays + 1
                 /\ UNCHANGED path

DrawUseless(i) ==
  /\ Playing /\ i <= choices
  /\ ~Useful(square.empties[i])
  /\ choices' = choices - 1
  /\ LET s == square.empties[i]
         t == square.empties[choices]
     IN  square' = [square EXCEPT !.empties[i] = t, !.empties[choices] = s,
                                  !.place = [@ EXCEPT ![t] = i, ![s] = choices]]
  /\ UNCHANGED <<positions, turn, passed, finished, plays, path>>

(* Nothing is useful: Board.move(PASS). *)
Pass == /\ Playing /\ choices = 0
        /\ finished' = passed
        /\ passed' = TRUE
        /\ turn' = Opponent(turn)
        /\ choices' = Len(square.empties)
        /\ plays' = plays + 1
        /\ UNCHANGED <<square, positions, path>>

GoNext == Select \/ Pass \/ \E i \in 1..Cardinality(Squares) : DrawUseful(i) \/ DrawUseless(i)

-----------------------------------------------------------------------------
(* The stones of a position that are connected with the one at s. *)
GroupOf(p, s) ==
  LET grown[g \in SUBSET Squares] ==
        LET more == {t \in Squares \ g : p[t] = p[s] /\ Around(t) \intersect g # {}}
        IN  IF more = {} THEN g ELSE grown[g \union more]
  IN  grown[{s}]

(* their edges to empty squares *)
Liberties(p, s) ==
  UNION {{t} \X {e \in Around(t) : p[e] = EMPTY_SQUARE} : t \in GroupOf(p, s)}

(* Board.check(): after every move and draw the references tell the        *)
(* groups, their roots count the edges to empty squares, and the list of   *)
(* empty squares has each where its place says.                            *)
BoardChecks ==
  LET p == square.color
  IN  /\ GoTypeOK
      /\ \A s \in Squares : p[s] # EMPTY_SQUARE =>
           /\ GroupOf(p, s) = {t \in Squares : p[t] # EMPTY_SQUARE /\
                                               FindRef(square, t) = FindRef(square, s)}
           /\ Cardinality(Liberties(p, s)) = square.ledges[FindRef(square, s)]
           /\ Liberties(p, s) # {}
      /\ \A s \in Squares : p[s] = EMPTY_SQUARE <=>
           square.place[s] \in DOMAIN square.empties /\ square.empties[square.place[s]] = s
      /\ Len(square.empties) = Cardinality({s \in Squares : p[s] = EMPTY_SQUARE})

(* The rules: what a stone of colour c at s makes of a position, q with it. *)
Capturing(q, c) ==
  [t \in Squares |-> IF q[t] = Opponent(c) /\ Liberties(q, t) = {} THEN EMPTY_SQUARE ELSE q[t]]
AfterMove(p, s, c) == Capturing([p EXCEPT ![s] = c], c)
OwnEye(p, s, c) == \A n \in Around(s) : p[n] = c

(* Games follow the rules, though useful() judges a move by counts and     *)
(* hashes, without making it: a move takes what it captures, is no         *)
(* suicide and repeats no position of the game; and a player passes only   *)
(* when every empty square would, or would fill an eye of the player's.    *)
GamesAreLegal ==
  [][LET p == square.color
         q == square'.color
     IN  /\ q # p =>
              /\ \E s \in Squares : /\ p[s] = EMPTY_SQUARE /\ q[s] = turn
                                    /\ q = AfterMove(p, s, turn)
                                    /\ Liberties(q, s) # {}
              /\ q \notin positions
         /\ turn' # turn /\ passed' =>
              \A s \in Squares : p[s] = EMPTY_SQUARE =>
                \/ OwnEye(p, s, turn)
                \/ \E after \in {AfterMove(p, s, turn)} :
                      Liberties(after, s) = {} \/ after \in positions]_goVars
=============================================================================
