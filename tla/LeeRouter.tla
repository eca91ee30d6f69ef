----------------------------- MODULE LeeRouter -----------------------------
(***************************************************************************)
(* multithread/lee_routing/lee_router.py: threads take the connections of  *)
(* a board, shortest first, and lay each as a track on a grid of two       *)
(* layers.  A track is searched on a grid of the thread's own and laid in  *)
(* one piece under grid_lock; between its taking and its laying the other  *)
(* threads may lay theirs.  (lee_router_tm.py does the same with atomic    *)
(* blocks.)                                                                *)
(***************************************************************************)
EXTENDS Integers, Sequences, FiniteSets, TLC

CONSTANTS GridSize,    \* GRID_SIZE, 600 in the source
          Pads,        \* the points that the lines C and P of the file occupy
          Nets,        \* its lines J: a sequence of pairs of points
          LongRun,     \* the 15 after which a track leaves its layer
          LeeThreads

Points == (0..(GridSize - 1)) \X (0..(GridSize - 1))
Inside == (1..(GridSize - 2)) \X (1..(GridSize - 2))
BoardCells == Points \X {0, 1}    \* a point and a layer

ASSUME LeeAssumption == /\ Pads \subseteq Inside
                        /\ \A n \in DOMAIN Nets : Nets[n] \in Pads \X Pads
                        /\ LongRun \in Nat

EMPTY == 0
OCC == 5120
VIA == 6000
BVIA == 6001
TRACK == 8192
TEMP_EMPTY == 10000

VARIABLES laid,     \* what the tracks have put into cells of LeeRouter.grid
          work,     \* LeeRouter.work, the connections nobody has taken
          leeAt,    \* leeAt[t]: "next", "lay" or "end"
          net       \* net[t]: the connection t took last, LeeThread.wq

leeVars == <<laid, work, leeAt, net>>

LeeTypeOK == /\ DOMAIN laid \subseteq BoardCells
             /\ \A c \in DOMAIN laid : laid[c] \in {VIA, BVIA, TRACK}
             /\ work \in Seq(DOMAIN Nets)
             /\ leeAt \in [LeeThreads -> {"next", "lay", "end"}]
             /\ net \in [LeeThreads -> {0} \union DOMAIN Nets]

-----------------------------------------------------------------------------
(* NEIGHBOUR_OFFS *)
Moved(p, d) == <<p[1] + d[1], p[2] + d[2]>>
East == <<1, 0>>  West == <<-1, 0>>  North == <<0, 1>>  South == <<0, -1>>
Beside(c) == <<<<Moved(c[1], North), c[2]>>, <<Moved(c[1], East), c[2]>>,
               <<Moved(c[1], South), c[2]>>, <<Moved(c[1], West), c[2]>>>>

Other(c) == <<c[1], 1 - c[2]>>
Distance2(p, q) == (q[1] - p[1]) * (q[1] - p[1]) + (q[2] - p[2]) * (q[2] - p[2])

(* occupy and add_weights, whose pass reaches one cell beyond the pads.    *)
WeightedBoard ==
  [c \in BoardCells |-> IF c[1] \in Pads THEN OCC
                        ELSE IF \E p \in Pads : Distance2(p, c[1]) = 1 THEN 1 ELSE EMPTY]

(* grid[c], where g is what has been laid *)
Value(g, c) == IF c \in DOMAIN g THEN g[c] ELSE WeightedBoard[c]

(* The file's connections each go to the front, and a stable sort follows. *)
SortedWork == LET length(n) == Distance2(Nets[n][1], Nets[n][2])
                  before(m, n) == length(m) < length(n) \/ (length(m) = length(n) /\ m > n)
              IN  SortSeq([n \in DOMAIN Nets |-> n], before)

LeeInit == /\ laid = <<>>
           /\ work = SortedWork
           /\ leeAt = [t \in LeeThreads |-> "next"]
           /\ net = [t \in LeeThreads |-> 0]

-----------------------------------------------------------------------------
(* A state of the search: the costs found so far and the cells to go on    *)
(* from; the two lists of the source are one queue.                        *)
Searches == [temp : [BoardCells -> Nat], front : Seq(BoardCells)]

(* The cells beside c that the search reaches, or reaches at less cost,    *)
(* from there.  The goal is reached whatever is on it, at any cost.        *)
Improved(temp, c, goal) ==
  {d \in Inside \X {c[2]} :
     /\ Distance2(c[1], d[1]) = 1
     /\ \/ d[1] = goal
        \/ temp[d] > temp[c] + Value(laid, d) + 1 /\ Value(laid, d) + 1 < OCC}

(* Defect: a track may come up anywhere on the other side. *)
CrossesAnywhere(temp, c) == temp[Other(c)] > temp[c]

Crosses(temp, c) == temp[Other(c)] > temp[c] /\ Value(laid, Other(c)) + 1 < OCC

(* One turn of the loops of _expand_from_to. *)
Expanded(s, goal) ==
  LET c == Head(s.front)
      improved == Improved(s.temp, c, goal)
      sideways == [d \in improved |-> s.temp[c] + Value(laid, d) + 1] @@ s.temp
      next == SelectSeq(Beside(c), LAMBDA d : d \in improved /\ d[1] # goal)
  IN  IF Crosses(sideways, c)
        THEN [temp |-> Other(c) :> s.temp[c] @@ sideways,
              front |-> Tail(s.front) \o next \o <<Other(c)>>]
        ELSE [temp |-> sideways, front |-> Tail(s.front) \o next]

Found(temp, goal) == \A z \in {0, 1} : temp[<<goal, z>>] # TEMP_EMPTY

(* _expand_from_to: the costs when the goal is found on both layers, or    *)
(* there is nowhere to go on from.                                         *)
Search(start, goal) ==
  LET expand[s \in Searches] ==
        IF s.front = <<>> \/ Found(s.temp, goal) THEN s.temp ELSE expand[Expanded(s, goal)]
  IN  expand[[temp |-> [c \in BoardCells |-> IF c[1] = start THEN 1 ELSE TEMP_EMPTY],
              front |-> <<<<start, 0>>, <<start, 1>>>>]]

-----------------------------------------------------------------------------
(* A state of the way back: the grid and the costs so far, the cell it has *)
(* come to, and the distance since the last via.                           *)
Tracks == [grid : [BoardCells -> Nat], temp : [BoardCells -> Nat], at : BoardCells, run : Nat]

(* DX, DY: along the preferred axis of its layer first *)
AxisFirst(z) == IF z = 0 THEN <<West, East, South, North>> ELSE <<South, North, West, East>>
Next4(c) == [d \in 1..4 |-> <<Moved(c[1], AxisFirst(c[2])[d]), c[2]>>]

Downhill(temp, c) ==
  {d \in 1..4 : temp[Next4(c)[d]] < temp[c] /\ temp[Next4(c)[d]] # TEMP_EMPTY}

Best(temp, c) == IF Downhill(temp, c) = {} THEN 1
                 ELSE CHOOSE d \in Downhill(temp, c) : \A e \in Downhill(temp, c) :
                        \/ temp[Next4(c)[d]] < temp[Next4(c)[e]]
                        \/ temp[Next4(c)[d]] = temp[Next4(c)[e]] /\ d <= e

PathFromOtherSide(temp, c) ==
  LET there == temp[Other(c)]
  IN  /\ there \notin {VIA, BVIA}
      /\ there <= temp[c]
      /\ \E d \in 1..4 : temp[Next4(Other(c))[d]] < there

Filled(grid, c) == [grid EXCEPT ![c] = IF @ < OCC THEN TRACK ELSE @]

(* One turn of the loop of _backtrack_from: a via, or a step of the track. *)
Back(b, start) ==
  LET c == b.at
      stuck == Downhill(b.temp, c) = {}
      run == IF stuck THEN b.run ELSE b.run + 1
      via == IF stuck THEN BVIA ELSE VIA
      change == /\ PathFromOtherSide(b.temp, c)
                /\ \/ /\ Best(b.temp, c) > 2 /\ run > LongRun
                      /\ Distance2(c[1], start) >= (LongRun + 1) * (LongRun + 1)
                   \/ stuck /\ b.grid[c] \notin {VIA, BVIA}
  IN  IF change
        THEN [grid |-> [b.grid EXCEPT ![c] = via, ![Other(c)] = via],
              temp |-> [b.temp EXCEPT ![c] = via, ![Other(c)] = via],
              at |-> Other(c), run |-> 0]
        ELSE [b EXCEPT !.grid = Filled(b.grid, c), !.at = Next4(c)[Best(b.temp, c)],
                       !.run = run]

Abs(i) == IF i < 0 THEN -i ELSE i

(* the layer to start on: that of the longer side, if the search got there *)
GoalLayer(temp, start, goal) ==
  LET z == IF Abs(goal[1] - start[1]) > Abs(goal[2] - start[2]) THEN 0 ELSE 1
  IN  IF temp[<<goal, z>>] = TEMP_EMPTY THEN 1 - z ELSE z

(* _backtrack_from, from the goal to the start: the grid afterwards *)
Backtrack(temp, start, goal) ==
  LET back[b \in Tracks] == IF b.at[1] = start THEN b.grid ELSE back[Back(b, start)]
  IN  back[[grid |-> laid @@ WeightedBoard, temp |-> temp,
            at |-> <<goal, GoalLayer(temp, start, goal)>>, run |-> 0]]

-----------------------------------------------------------------------------
(* get_next_track, under queue_lock *)
GetNextTrack(t) ==
  /\ leeAt[t] = "next"
  /\ IF work = <<>>
       THEN /\ leeAt' = [leeAt EXCEPT ![t] = "end"]
            /\ UNCHANGED <<work, net>>
       ELSE /\ net' = [net EXCEPT ![t] = Head(work)]
            /\ work' = Tail(work)
            /\ leeAt' = [leeAt EXCEPT ![t] = "lay"]
  /\ UNCHANGED laid

(* lay_next_track, under grid_lock: _connect.  A connection that is not    *)
(* found, on both layers of its goal, is given up.                         *)
LayNextTrack(t) ==
  /\ leeAt[t] = "lay"
  /\ LET start == Nets[net[t]][1]
         goal == Nets[net[t]][2]
     IN  \E temp \in {Search(start, goal)} :
           IF Found(temp, goal)
             THEN \E grid \in {Backtrack(temp, start, goal)} :
                    laid' = [c \in {d \in BoardCells : grid[d] # WeightedBoard[d]} |-> grid[c]]
             ELSE UNCHANGED laid
  /\ leeAt' = [leeAt EXCEPT ![t] = "next"]
  /\ UNCHANGED <<work, net>>

LeeNext == \E t \in LeeThreads : GetNextTrack(t) \/ LayNextTrack(t)

-----------------------------------------------------------------------------
(* The part of a set of cells that is joined to a point: side by side on   *)
(* one layer, or through a via or a pad.                                   *)
JoinedTo(p, cells, g) ==
  LET through(c) == Value(g, c) \in {VIA, BVIA, OCC}
      near(c, d) == \/ c[2] = d[2] /\ Distance2(c[1], d[1]) = 1
                    \/ d = Other(c) /\ through(c) /\ through(d)
      grown[s \in SUBSET BoardCells] ==
        LET more == {d \in cells \ s : \E c \in s : near(c, d)}
        IN  IF more = {} THEN s ELSE grown[s \union more]
  IN  grown[{<<p, 0>>, <<p, 1>>}]

(* Whatever was laid between its taking and its laying, a track goes over  *)
(* no pad and no other track, and is one piece of copper from one end of   *)
(* its connection to the other, with nothing that leads elsewhere.         *)
TracksConnect ==
  [][\A t \in LeeThreads : leeAt[t] = "lay" /\ leeAt'[t] = "next" =>
       LET goal == {Nets[net[t]][2]} \X {0, 1}
           new == DOMAIN laid' \ DOMAIN laid
       IN  /\ \A c \in DOMAIN laid : c \in DOMAIN laid' /\ laid'[c] = laid[c]
           /\ \A c \in new : WeightedBoard[c] < OCC
           /\ new # {} =>
                LET joined == JoinedTo(Nets[net[t]][1], new \union goal, laid')
                IN  new \subseteq joined /\ goal \intersect joined # {}]_leeVars
=============================================================================
