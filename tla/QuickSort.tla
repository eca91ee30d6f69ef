------------------------------ MODULE QuickSort -----------------------------
(***************************************************************************)
(* multithread/quick_sort: a task sorts a range of one shared list and,    *)
(* from a certain depth of its recursion on, leaves large parts to futures *)
(* that do the same.  It returns the futures that it has made; the main    *)
(* thread calls them, and those that they return, until none is left.      *)
(* The futures are those of FutureSpec, which FuturePool implements.  One  *)
(* of the five equal rounds of run() is modelled.                          *)
(***************************************************************************)
EXTENDS Integers, Sequences, FiniteSets

CONSTANTS Length,        \* n, the length of the list
          FutureLevel,   \* the depth from which futures are made (4)
          CallSize,      \* the largest part that is then left to a call (1500)
          Sorters,       \* the workers of the pool
          Sorting,       \* the main thread
          NoFuture

ASSUME QuickSortAssumption == /\ Length \in Nat \ {0}
                              /\ FutureLevel \in Nat
                              /\ CallSize \in Nat \ {0}
                              /\ Sorting \notin Sorters
                              /\ NoFuture \notin Nat \X Nat

Index == 0..(Length - 1)

(* A call of qsort_f sorts n elements from l0 on.  A part is smaller than  *)
(* its whole, so that the range of a future names it.                      *)
Ranges == {range \in Index \X (0..Length) : range[1] + range[2] <= Length}
Calls  == [l0 : 0..Length, n : 0..Length, level : 0..Length]
RangeOf(c) == <<c.l0, c.n>>
Whole == <<0, Length>>

VARIABLES xs,       \* the list
          fstate, fresult, fgot,   \* the futures: see FutureSpec
          flevel,   \* flevel[f]: the argument "level" of future f
          job,      \* job[w]: what worker w does
          called,   \* the future that the main thread calls
          fs        \* the futures that it knows of and has still to call

sortVars == <<xs, fstate, fresult, fgot, flevel, job, called, fs>>

F == INSTANCE FutureSpec WITH
       Threads <- {Sorting}, Futures <- Ranges, Outcomes <- SUBSET Ranges, None <- NoFuture,
       state <- fstate, outcome <- fresult, got <- fgot

(* The calls a task has still to make, the one in progress first; the      *)
(* parts it is about to leave to futures; whether it is in its loop, and   *)
(* the variables of that; the futures it has made.                         *)
Jobs == [task : Ranges \union {NoFuture}, calls : Seq(Calls), forks : Seq(Calls), loop : BOOLEAN,
         l : 0..Length, r : (-1)..Length, pivot : Index, made : SUBSET Ranges]

Free == [task |-> NoFuture, calls |-> <<>>, forks |-> <<>>, loop |-> FALSE,
         l |-> 0, r |-> 0, pivot |-> 0, made |-> {}]

SortTypeOK == /\ xs \in [Index -> Index]
              /\ flevel \in [Ranges -> 0..Length]
              /\ job \in [Sorters -> Jobs]
              /\ called \in Ranges \union {NoFuture}
              /\ fs \subseteq Ranges

SortInit == /\ xs = [i \in Index |-> i]
            /\ F!Init
            /\ flevel = [f \in Ranges |-> 0]
            /\ job = [w \in Sorters |-> Free]
            /\ called = NoFuture
            /\ fs = {}

futures == <<fstate, fresult, fgot, flevel>>

-----------------------------------------------------------------------------
(* The tasks. *)

BeginTask(w, f) ==
  /\ job[w] = Free
  /\ F!Start(f)
  /\ job' = [job EXCEPT ![w] = [Free EXCEPT !.task = f,
               !.calls = <<[l0 |-> f[1], n |-> f[2], level |-> flevel[f]]>>]]
  /\ UNCHANGED <<xs, flevel, called, fs>>

Between(w) == job[w] # Free /\ ~job[w].loop /\ job[w].forks = <<>>

(* if n < 2: return [] *)
CallReturns(w) == /\ Between(w) /\ job[w].calls # <<>>
                  /\ job[w].calls[1].n < 2
                  /\ job' = [job EXCEPT ![w].calls = Tail(@)]
                  /\ UNCHANGED <<xs, futures, called, fs>>

CallBegins(w) ==
  /\ Between(w) /\ job[w].calls # <<>>
  /\ LET c == job[w].calls[1]
     IN  /\ c.n >= 2
         /\ job' = [job EXCEPT ![w].loop = TRUE, ![w].l = c.l0, ![w].r = c.l0 + c.n - 1,
                               ![w].pivot = xs[c.l0 + c.n \div 2]]
  /\ UNCHANGED <<xs, futures, called, fs>>

(* One turn of the loop. *)
Partition(w) ==
  LET j == job[w]
  IN  /\ j.loop /\ j.l <= j.r
      /\ CASE xs[j.l] < j.pivot -> job' = [job EXCEPT ![w].l = @ + 1] /\ UNCHANGED xs
           [] xs[j.l] >= j.pivot /\ xs[j.r] > j.pivot ->
                job' = [job EXCEPT ![w].r = @ - 1] /\ UNCHANGED xs
           [] OTHER -> /\ xs' = [xs EXCEPT ![j.l] = xs[j.r], ![j.r] = xs[j.l]]
                       /\ job' = [job EXCEPT ![w].l = @ + 1, ![w].r = @ - 1]
      /\ UNCHANGED <<futures, called, fs>>

(* Defect: the left part has the first element of the right one. *)
PartsOverlap(j) ==
  LET c == j.calls[1]
  IN  << [l0 |-> c.l0, n |-> j.l - c.l0 + 1, level |-> c.level + 1],
         [l0 |-> j.l, n |-> c.l0 + c.n - j.l, level |-> c.level + 1] >>

(* largs and rargs, once the loop of the first call of j has ended *)
Parts(j) ==
  LET c == j.calls[1]
  IN  << [l0 |-> c.l0, n |-> j.r - c.l0 + 1, level |-> c.level + 1],
         [l0 |-> j.l, n |-> c.l0 + c.n - j.l, level |-> c.level + 1] >>

ToFuture(c) == c.level > FutureLevel /\ c.n > CallSize
If(yes, c) == IF yes THEN <<c>> ELSE <<>>

(* The parts that are to be futures are made first, then the others are    *)
(* sorted by calls, whose futures join the result.                         *)
Divide(w) ==
  /\ job[w].loop /\ job[w].l > job[w].r
  /\ LET left  == Parts(job[w])[1]
         right == Parts(job[w])[2]
     IN  job' = [job EXCEPT ![w].loop = FALSE, ![w].l = 0, ![w].r = 0, ![w].pivot = 0,
                   ![w].forks = If(ToFuture(left), left) \o If(ToFuture(right), right),
                   ![w].calls = If(~ToFuture(left), left) \o If(~ToFuture(right), right) \o Tail(@)]
  /\ UNCHANGED <<xs, futures, called, fs>>

(* fs.append(Future(qsort_f, *args)) *)
Fork(w) ==
  /\ job[w].forks # <<>>
  /\ LET c == job[w].forks[1]
     IN  /\ F!Create(RangeOf(c))
         /\ flevel' = [flevel EXCEPT ![RangeOf(c)] = c.level]
         /\ job' = [job EXCEPT ![w].forks = Tail(@), ![w].made = @ \union {RangeOf(c)}]
  /\ UNCHANGED <<xs, called, fs>>

(* Defect: the futures of the calls are not handed on. *)
EndTaskForgets(w) ==
  /\ Between(w) /\ job[w].calls = <<>>
  /\ F!Finish(job[w].task, {})
  /\ job' = [job EXCEPT ![w] = Free]
  /\ UNCHANGED <<xs, flevel, called, fs>>

(* return fs *)
EndTask(w) == /\ Between(w) /\ job[w].calls = <<>>
              /\ F!Finish(job[w].task, job[w].made)
              /\ job' = [job EXCEPT ![w] = Free]
              /\ UNCHANGED <<xs, flevel, called, fs>>

-----------------------------------------------------------------------------
(* The main thread. *)

(* A shuffled list, and the future that sorts it. *)
Shuffle == /\ fstate[Whole] = "none"
           /\ xs' \in {p \in [Index -> Index] : \A i, j \in Index : p[i] = p[j] => i = j}
           /\ F!Create(Whole)
           /\ called' = Whole
           /\ UNCHANGED <<flevel, job, fs>>

(* f = fs.pop(); the order of the list is left open. *)
PopFuture(f) == /\ called = NoFuture
                /\ f \in fs
                /\ called' = f
                /\ fs' = fs \ {f}
                /\ UNCHANGED <<xs, futures, job>>

(* fs.extend(f()) *)
FutureReturns(f) == /\ called = f
                    /\ F!Return(Sorting, f)
                    /\ fs' = fs \union fresult[f]
                    /\ called' = NoFuture
                    /\ UNCHANGED <<xs, flevel, job>>

SortNext == \/ Shuffle
            \/ \E f \in Ranges : PopFuture(f) \/ FutureReturns(f)
            \/ \E w \in Sorters : \/ \E f \in Ranges : BeginTask(w, f)
                                  \/ CallReturns(w) \/ CallBegins(w) \/ Partition(w)
                                  \/ Divide(w) \/ Fork(w) \/ EndTask(w)

SortSpec == SortInit /\ [][SortNext]_sortVars

-----------------------------------------------------------------------------
(* wait_for_futures has returned. *)
SortReturned == fgot[Sorting] # NoFuture /\ called = NoFuture /\ fs = {}

Positions(range) == range[1]..(range[1] + range[2] - 1)

(* The ranges that are still to be sorted: of the futures that have not    *)
(* begun, and what the tasks have before them.                             *)
ToSort == {f \in Ranges : fstate[f] = "pending"} \union
          (UNION {{RangeOf(job[w].calls[i]) : i \in DOMAIN job[w].calls} : w \in Sorters}) \union
          (UNION {{RangeOf(job[w].forks[i]) : i \in DOMAIN job[w].forks} : w \in Sorters})

(* Tasks that sort parts of one list at the same time never meet: the      *)
(* ranges that are still to be sorted are disjoint, each holds just the    *)
(* values that belong there, and what lies between them has its place, so  *)
(* that nobody need look at it again.                                      *)
RangesDisjoint ==
  /\ \A a, b \in ToSort : a # b => Positions(a) \intersect Positions(b) = {}
  /\ \A a \in ToSort : {xs[i] : i \in Positions(a)} = Positions(a)
  /\ fstate[Whole] # "none" => \A i \in Index \ UNION {Positions(a) : a \in ToSort} : xs[i] = i

(* When the main thread has called every future that it was told of, no    *)
(* task is left, and the list is sorted: no future was lost on the way up. *)
SortedAtLast == SortReturned => /\ \A i \in Index : xs[i] = i
                                /\ \A f \in Ranges : fstate[f] \in {"none", "done"}
=============================================================================
