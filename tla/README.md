# Verification of the PyPy benchmark suite

TLA+ modules of the parts of this repository in which something can go wrong
that a test would hardly reach, the TLC runs that check them on small instances,
and TLAPS proofs for every value of the constants. `PROJECT.json` names, for
every definition, the lines it stands for.

The repository is a collection: a runner that times benchmark programs on two
interpreters and uploads the times, a small thread pool with futures, and some
hundred benchmark programs, most of them pure computations or other people's
libraries. What is modelled is what keeps state across steps: the pool, the
programs whose threads share data or whose requests overlap, the runner's
pipeline with its choice of benchmarks, and the three sequential programs
(Richards, DeltaBlue, Go) whose data structures are intricate.

## The system

| Component | State | Operations | Interacts with | What is hard | What makes it correct |
|---|---|---|---|---|---|
| Thread pool, `multithread/common/abstract_threading.py` | a stack of tasks and a Condition per pool; result, exception, done flag and Condition per future; one global pool | `put`, `get`, the worker loop, `Future.__init__`, `_task`, `__call__`, `set_thread_pool`, `shutdown`, `atexit` | threads over shared lists; used by nearly every program in `multithread/` | `put` appends outside the lock; `get` and `__call__` test without it; exit items overtake tasks; the atexit hook belongs to the first pool | nothing lost, doubled or run twice; no lost wakeup; shutdown ends; a call returns the one outcome |
| Thread worms, `multithread/threadworms` | a grid, the worms' bodies | construction; a round of a worm | one thread a worm, one atomic block a round | look and move must be one step; reversal | the grid shows the bodies; a body is a path |
| Richards kernel, `multithread/multithread-richards.py` and `unladen_swallow/performance/richards.py` | task list, packets linked by one field, task flags | `schedule`, `runTask`, four task bodies, `qpkt`, `append_to` | tasks send packets | aliasing through the one link field; flags that copy the queues | packets kept; right counts |
| DeltaBlue, `own/deltablue.py` | variables, constraints, marks, plans | add, satisfy, propagate, remove, plan, execute | planner and constraints call each other | copies of walk strengths and stay flags; two records of one graph; the do-while | records agree, copies are current, equations hold |
| Go, `own/go.py` | a board: squares in groups, counts of edges, the list of empty squares, the hashes of the game | place a stone, capture, judge a move, draw, pass; the statistics of a search tree | one game after another on one board | counts kept through merges and captures; a move judged without being made | the board's own check; games follow the rules |
| Nightly run, `runner.py`, `unladen_swallow/perf.py`, `benchmarks.py`, `saveresults.py` | list of results, result file, errors; the servers' stores | measure, report, store, save, send with retries | servers over HTTP | lost answers, partial failure, several kinds of results | exit 0 means stored; uploads are independent |
| Memory tracking, `unladen_swallow/perf.py --track_memory` | a list of samples, an event and a thread per child process | start, sample, reap, collect, compare, report | main, children, sampler threads, `/proc` | who ends first; failures that leave samplers behind | the list is final; all threads end; the report is printed |
| Selection of benchmarks (`runner.py`, `perf.py`) | the list of names, the tables of both programs | groups, negative names, a file, defaults | runner calls perf | two tables of names, defaults of two programs | what runs is what was asked for, and exists |
| Quick sort, `multithread/quick_sort` | one deque; the ranges being sorted; futures not yet called | partition, fork, call, collect | futures of the pool, made by futures | ranges of one list sorted at the same time; futures handed up through returns | ranges disjoint; sorted when the last known future has returned |
| Skip list, `multithread/skiplist` | links per level, `maxHeight`, `len` | insert, remove, find, each in an atomic block | futures of the pool | all levels and the height change together | it is a set |
| B-tree, `multithread/btree` | a tree of nodes | insert, remove, search, each in an atomic block | futures of the pool | split, borrow, consolidate, up to the root | it is a set; the shape is kept |
| Prime sieve, `multithread/primes` | two library queues, the count of unfinished items | fill, work, join, read | threads over `Queue` | the order of result and acknowledgement, the pills | every batch counted once, all threads end |
| Lee router, `multithread/lee_routing` | a grid, a list of connections | take, search, lay | threads under two locks | the grid changes between taking and laying; vias | tracks connect their ends and cross nothing |
| Twisted benchmarks, `own/twisted` | requests in flight, jobs, timers | start, answer, failure, time up, port closed | one reactor | answers after the end of a job | each job counts its own; the reactor stops |
| Futures over independent data (mandelbrot, mersenne, n-queens, ray tracer, perlin noise, `minibench1.py`), web servers | none shared | futures over it | the pool | nothing beyond the pool | the pool's promise |
| Threads of Richards, `multithread-richards.py:425` | a lock a thread | start, run, join | each kernel is private | none | all end |
| K-best loop, `multithread/bench.py` | times | run, error bound | the clients | the number of runs | it ends |
| Sequential programs of `own/` and `unladen_swallow/performance` | local | timed loops | none | none | the result is right |
| Statistics, reports, warm-up scripts, the third-party test driver, vendored code | - | - | - | - | not subjects of this project |

## Modules

| Module | Models | Uses |
|---|---|---|
| `TaskStore` | what the pool's queue promises: a set, no lock, no order | |
| `TLQueue` | `TLQueue.put` and `get`, any number of queues and threads | implements `TaskStore` |
| `FutureSpec` | what a future promises: one start, one outcome, no early answer | |
| `FuturePool` | futures, workers, `set_thread_pool`, exit | contains the queues of `TLQueue` (an instance), implements `FutureSpec` |
| `Worms` | thread worms | |
| `Richards` | the kernel of Richards | |
| `QuickSort` | quick sort with futures | a client of `FutureSpec` (an instance), so of what `FuturePool` promises |
| `SetSpec` | what the shared structures promise: a set | |
| `SkipList`, `BTree` | the two structures and the operations of their tasks | implement `SetSpec` |
| `Primes` | the prime sieve | |
| `LeeRouter` | the Lee router | |
| `BenchLib` | the client and the drivers of the Twisted benchmarks | |
| `DeltaBlue` | the planner and its two tests | |
| `Go` | the board and the games on it | |
| `Upload` | the nightly run | |
| `Selection` | which benchmarks run | |
| `MemoryUsage` | `--track_memory` | |
| `MCTLQueue`, `MCFuturePool`, `MCSelection` | model values, functions and the symmetry for TLC | the module each is named after |
| `MCNightly` | a night: the benchmarks are chosen, then measured and uploaded | `MCSelection`, `Upload` |
| `MCPrograms` | one benchmark program, chosen at the start | `Worms`, `Richards`, `QuickSort`, `SkipList`, `BTree`, `Primes`, `BenchLib`, `LeeRouter` |
| `MCSequential` | one sequential program, chosen at the start | `DeltaBlue`, `Go` |
| `DataLemmas` | what `pop` does to a sequence; induction up to a number | |
| `TLQueueProofs`, `FuturePoolProofs`, `MemoryUsageProofs` | theorems | the module each is named after |
| `SequentialProofs` | theorems | `DeltaBlue`, `Go` |
| `NightlyProofs` | theorems | `Upload`, `Selection` |
| `ProgramsProofs` | theorems | `Worms`, `Primes`, `BenchLib`, `Richards` |
| `OrderProofs` | theorems | `QuickSort`, `SkipList` |

In every module, an operator commented "Defect" is a plausible bug of the
definition that follows it. No specification uses it: each shows that the
property named with it in `PROJECT.json` would notice the bug.

### The thread pool (`TaskStore`, `TLQueue`, `FutureSpec`, `FuturePool`)

`TLQueue` has a step for each point at which another thread may run: the append
without the lock (abstract_threading.py:68), the notification (69-70), the pop
without the lock (74-76), the lock, the test under it, the pop or the miss
(79-82), and the wait (84), which joins the wait set and releases the lock at
once. `qpc[t]` is where thread t is. The values put are objects of their own,
as the tuples built in `add_task` are. A thread starts an operation when it
likes.

`FuturePool` gives each pool such a queue and adds the threads: the main thread,
clients, and workers in `WorkersOf[pool]`. `pc[t]` is what a thread does outside
the queue; a worker that has got a task holds the future's lock from `_task`'s
`with` to its end (144-156), so notification and release are one step, while
`_done` is set in a step of its own because `__call__` reads it without the lock.
`SetThreadPool` and `Exit` are choices of the main thread, `ShutPut` and
`ShutJoin` the loops of `shutdown`. `Exit` shuts down `FirstPool`, for that is
the bound method that `atexit` got (123). A task may make and call futures while
it runs, as quick sort's do, and ends with a value, an exception, or an exit
that kills its worker. An `AtomicFuture` runs its function in an atomic block,
so such a task makes and calls no futures.

`Patient` scripts replace the pool only when all their futures are done, as the
benchmark programs do; the others may at any time. Under the others two things
happen that no text of the repository forbids: exit items, put last and popped
first, overtake tasks, and a task put by a constructor that had read
`_thread_pool` before it was replaced stays in a queue that nobody serves.
`TaskInOnePlace` still finds such a task there; `TasksRun` and `CallsReturn` are
claimed of patient scripts only, whose discipline excludes both.

`ExitsSuffice` counts what a shutdown has left to put or in its queue against
the workers that it will join and that have not got an exit item yet.
`ShutdownEnds` leaves out a shutdown whose own workers call futures for ever,
or wait for one for ever.

### Thread worms (`Worms`)

A round of `Worm.run` is one atomic block and one action: the random turn, the
look ahead, the turn away from an obstacle, the reversal when there is no way,
the advance and the release of the last cell. The colour of a cell is replaced
by the worm it belongs to. The constructor draws cells until one is free; with
none free it does not return, so it is an action that is not enabled.

### Richards (`Richards`)

`cur` is the task `schedule` looks at. Each of the ten ways a task body can
return is an action that includes what `runTask` did before it (taking the
packet, adjusting flags) and what the kernel call does (`waitTask`, `hold`,
`release`, `qpkt`). Lists are links, with stale links kept as in the code. The
letters in a packet are left out; their index is not. `c ^ 0xd008` is written
with divisions.

### Quick sort (`QuickSort`)

A job is a worker's stack: the calls of `qsort_f` still to make, the parts that
are to become futures, the loop variables of the call that is running, the
futures made so far. Each turn of the partition loop is a step, since tasks sort
parts of one deque at the same time. `Fork` is `Future(qsort_f, ...)`, a
`Create` of `FutureSpec`; taking, ending and calling a future are its `Start`,
`Finish` and `Return`. That the pool provides these is `ImplementsFuture` of
`FuturePool`, so that the two modules compose through the promise. Every order
of the elements is an initial list; `FutureLevel` and `CallSize` are the 4 and
the 1500 of the source.

### Skip list and B-tree (`SetSpec`, `SkipList`, `BTree`)

Each operation runs in a `with atomic` block and is one action. In `SkipList` a
node is named by its element and has a sequence of successors; `UpdateList` is
the walk that `insert` and `remove` share. The random height of an insertion is
any height up to `TopHeight`. In `BTree` a node is a value; the list of ancestors
is the path of child indices, and the functions follow the code's: `Lateral`,
`Shrink` and `Split` on the way up after an insertion, `Grow` and `Consolidate`
after a removal, the replacement of a branch's item from a leaf. Both map to
`SetSpec`: the bottom level, the items in order.

### Prime sieve (`Primes`)

The library's queue is its contents and the count of `task_done`s that are
missing; each of its operations is atomic there. The main thread's four stages
and a worker's put and `task_done` are steps of their own.

### Lee router (`LeeRouter`)

A thread takes a connection under `queue_lock` and lays it under `grid_lock`:
two steps, between which others lay theirs. The search is a recursive function
over the costs and the cells to go on from; the two lists of `_expand_from_to`
are one queue, since the delay `dw` of every cell that is appended is 0. `laid`
holds what tracks have put on the constant board, which is the pads and the
weight of 1 beside them. The way back chooses the cheaper of four neighbours
along the layer's axis first, and changes layer after `LongRun` steps (15 in the
source) or when it is stuck. As in the code, a goal counts as found when both of
its layers are reached, and a connection that is not found is given up.

### Twisted benchmarks (`BenchLib`)

`client[c]` is whether a job is open, its timer, its requests in flight and its
count. A request is answered (`Continue`), fails (`RequestFails`) or never ends;
both may come after the job is over. `StopClient` is `_stop`, of which only the
first call fires the job's Deferred; `Proceed` is what that calls: the report,
the next job, the next benchmark, the end of the reactor. `kind` says what the
`main()` of the benchmark does besides: web and names close their port before the
next job (`due`), pb and tcp make a connection before the client runs
(`connecting`), accepts, iteration and threads do neither. tcp's client is its
own; it is a client here with a single request, the connection, and only its
timer ends it, since nothing calls its `connectionLost` (tcp.py:75).

### DeltaBlue (`DeltaBlue`)

The constants of the tests are the constraints' names, so that a constraint is a
class and a variable. `script` is what is left of the test: constraints to make,
to destroy, plans to make, values to set. Recursion between `incremental_add`,
`satisfy` and `add_propagate` is a program counter and the work list `todo`.
`at`, `unsatisfied` and `strength` are the loop of `incremental_remove`, whose
strength moves inside the for loop, exactly as the source has it.

### Go (`Go`)

`square` holds the fields of all squares and the `EmptySet`, `positions` the
`hash_set`; a hash is the position itself. One action is one move with all its
captures, or one draw of `random_choice` (`DrawUseless` moves the square behind
those that are left). The loop of `Square.move` and the recursion of
`Square.remove` (`RemoveGroup`) are functions of a board and an agenda: what is
left of the loops over neighbours, in the order of the recursion. `find` is the
last of a chain of references as long as the board. The timestamps, by which
`useful` and `remove` tell what they have seen, are sets and the empty colour
here. `BoardChecks` is `Board.check()`, which the program never calls, and the
list of empty squares, which `check()` collects and does not compare.
`GamesAreLegal` states the rules without groups, counts or hashes.

### Nightly run (`Upload`)

`bench` counts the benchmark functions `perf.main` has called. `Outcomes` are
the lists of results that one of them can add; a time is a value only as far as
`save` looks: a time, no time, several, or the -1 of `benchmarks.py:56`.
`upload`, `pos` and `try` are the loops of `runner.main`, `save` and `send`.
`stored` is what the servers hold, tries kept apart, so that a request that was
stored although its answer was lost can be seen; `answered` is what `send` knows.

### Selection of benchmarks (`Selection`)

`list` grows by one argument at a time, a name, a group or a negative name, and
is then read by perf or, with runner's check before it, by runner, from `-b`,
from a file or by default. `Parse` is `ParseBenchmarksOption`: the errors, the
default that is taken as it is when there is no positive name, and the negative
names, of which only those of benchmarks take something away, while the others
make a warning and change nothing. `Looked` is what becomes of a name that has no
function. Which benchmarks ought to be the default, `RunsAreMeant` does not say:
the help texts do, and the runs `selection` and `selection_runner` compare the
program with them. The groups of the run
are like those of the source, whose default group names benchmarks that `perf.py`
does not have. `MCNightly` puts `Selection` before `Upload`.

### Memory tracking (`MemoryUsage`)

A child exits when it likes with 0, 42 (wants Python 3) or 1, and is a zombie
until `communicate` reaps it. The sampler reads and appends in two steps; only
an IOError ends it, which comes when the file is gone. Whether a zombie's file
can be read is the constant `ZombieReadable`; on Linux it can and is empty.
Pids are assumed not to be reused while a sampler still reads them.

## Runs

| Run | Question | Instance | Distinct states |
|---|---|---|---|
| `tlqueue` | Is no wakeup lost, is each value in one place, and is `TaskStore` implemented, with its liveness? | 3 threads, 2 queues, 3 values | 134078 |
| `pool_impatient` | Is no task lost or run twice, does no caller sleep through an end, is a replaced pool dead, are there exit items for all workers and does every shutdown end, by a script that replaces the pool at any time and tasks that make and call futures or exit; is `FutureSpec` implemented? | pools of 2 and 1 workers, 2 futures, one of them atomic | 220075 |
| `pool_patient` | Do all tasks run and all calls return under the scripts' discipline? | 1 pool of 2 workers, a client, 2 futures that may raise | 165952 |
| `programs` | For each program of `MCPrograms`: are its data right in every order of threads, tasks, operations and answers, and does it end? | see below | 374940 |
| `selection` | Finding: does perf without a positive name do what one of its two texts says? | 4 benchmarks, 2 groups | stops at the violation |
| `selection_runner` | Finding: does runner without `-b` run all the benchmarks it lists? | 4 benchmarks, 2 groups | stops at the violation |
| `sequential` | Do the planner's records and copies agree, are the equations solved, does it end? Does the board of Go keep its groups and counts, and do its games follow the rules? | both tests, n from 1 to 3, 3 rounds; board 3 x 3, three paths of the tree, 8 random moves after each | 9156 |
| `deltablue_again` | Finding: is a constraint satisfied again when its rival is gone? | n up to 2 | stops at the violation |
| `nightly` | Does runner's list mean to perf what it says, and has what runs a function? What do exit status, errors, retries and failures mean for what is stored? | 4 benchmarks, 2 groups, lists of up to 3; 2 benchmarks run, 2 + 1 urls, 1 retry, 1 healthy server | 160831 |
| `upload_error` | Finding: is exit status 0 a success when a benchmark reported a ResultError? | 2 benchmarks, 1 url | stops at the violation |
| `memory` | Are the samples final, does all end, is a good run undisturbed? | 2 benchmarks, 2 samples a child | 455627 |
| `memory_report` | Finding: is the report printed when no benchmark raised? | 1 benchmark | stops at the violation |

The type invariants of `TLQueue`, `FuturePool`, `Upload` and `MemoryUsage` are
proved for every instance and not run again, and so are `BodyIsPath` of `Worms`
and `AllOrNothing` of `Upload`. `TypesOK` of `programs` is that of its eight
programs together; `GoTypeOK` is a part of `BoardChecks`.

In `programs` the variable `program` is chosen at the start and the others'
variables stay as they are, so that its states are the sum of the programs', not
their product. What each is asked:

| Program | Instance | Properties |
|---|---|---|
| `threadworms` | 2 worms, grid 3 x 2, size 4, 5 rounds | `GridIsBodies` |
| `richards` | the benchmark's own numbers, 10000 idle rounds, one path | `PacketsKept`, `PendingIsInput`, `RightCounts`, `ProgramEnds` |
| `quick_sort` | every list of 6, 2 workers, futures from level 1 for parts of more than 2 | `RangesDisjoint`, `SortedAtLast`, `ProgramEnds` |
| `skiplist` | 4 elements, heights to 3 | `LevelsAgree`, `SkipListIsSet` |
| `btree` | 8 items, order 2 | `BTreeShape`, `BTreeIsSet` |
| `primes` | 8 numbers, batches of 3, 3 workers | `EveryPrimeCounted`, `ProgramEnds` |
| `twisted` | 2 benchmarks of 1 warm-up and 2 iterations, 2 requests in flight | `ReportsAreIterations`, `StragglersOnlyDrain`, `ProgramEnds` |
| `lee_routing` | board of 7 x 7 x 2, 5 connections, 2 threads, vias after 1 | `TracksConnect`, `ProgramEnds` |

### Why the bounds are enough

- `tlqueue`: two threads compete for a value while a third puts one; a lost
  wakeup needs a putter, a waiter and a thief. Two queues show that queues do
  not disturb each other. The proofs remove the bounds.
- `FuturePool`: a replaced pool, one in force, a worker that waits for a task
  that another worker runs, and more tasks than workers of the second pool.
  `todo` and `shut` are bounded by the workers and by one shutdown per pool and
  one at exit.
- `QuickSort`: lists of 6 have parts that are futures, calls and trivial, three
  deep, and futures that make futures; two workers sort two of them at once. The
  proofs hold for every length.
- `SkipList`: with heights to 3 and 4 elements a removal lowers `maxHeight` by
  more than one, and a later insertion raises it past nodes that are there. The proofs hold for
  any elements and heights.
- `BTree`: of order 2 (the smallest) with 8 items the tree is three levels high,
  so that borrowing on both sides, splits and consolidations reach the root; all
  trees that any sequence of operations makes are visited.
- `Primes`: three batches, of which the last is short, for three workers, so that
  a worker may get several, one, or a pill at once. The proofs hold for any
  numbers.
- `BenchLib`: two benchmarks in turn, of any two kinds, with a warm-up each; stragglers of a job
  live on through all later ones. An answer count stops at `MinCount`, since
  only "fewer" matters. The proofs hold for any number of benchmarks, iterations
  and requests.
- `LeeRouter`: the board is made so that the order of the threads decides which
  connections succeed; three of its pads end two connections each; with `LongRun`
  1 both kinds of via occur on so small a grid.
- `Selection`: three arguments are a group, a member and a negative name; one
  benchmark is known to perf only, one is in no default, and one name of the
  default group is no benchmark. A night follows runner's default list only: what
  is measured and uploaded does not depend on which names were chosen.
- `Worms`: 2 x 4 body cells do not fit on six cells, so that worms block each
  other, turn and reverse; the proofs hold on any grid.
- `Richards` is deterministic and run to its end.
- `DeltaBlue`: deterministic for each n; with n = 3 a chain has inner variables
  on both sides and a projection has several scale constraints that share their
  scale and offset. The source runs n = 100; of it speak the theorems on `Determined` and
  `AnnotationsCurrent`.
- `Go`: on 3 x 3 squares the three paths lead to captures of one and of three
  stones, to a position that a capture would repeat, to groups with eyes, and
  within 8 random moves to passes and to ends by two passes. A game from the
  empty board of 9 x 9 is out of reach, and so is the source's `MAXMOVES`; of them
  speak the theorems on `BoardChecks` and `GamesAreLegal`.
- `Upload`: two results (or three, for translate) with an error before, at or
  after each; an upload before and after the one that fails. `Retries` is 4 in
  the source, 1 in the run, any number in the theorems.
- `MemoryUsage`: two benchmarks, since what one leaves behind can disturb the
  next; `MaxSamples` = 2, since a list is compared only for being empty and for
  growing after it was returned.

Deadlock is not checked where a program ends, or waits for a script that does
nothing more; the liveness properties say where it may stop.

## Fairness

- `TLQueue`, `FuturePool`: weak fairness for what each thread has begun: the
  interpreter schedules every thread that can run. Locks are
  not assumed to be fair to those who compete for them: the runs show that the
  liveness properties need no strong fairness. Nothing makes a thread begin an
  operation, or a script set a pool or exit.
  `FuturePool` assumes that the function of a task ends, unless it calls futures
  for ever; `ShutdownEnds` makes no claim of a pool with such a task.
- `DeltaBlue`: a sequential program that goes on while it can: weak fairness of
  the next step.
- `MemoryUsage`: weak fairness of main, of each sampler and of each child's
  exit. A child that never exits would block `communicate`, as the source says
  of its future ("will block until the process exits").
- `MCPrograms`: weak fairness of the next step of Richards, quick sort, primes
  and the router, whose threads the interpreter schedules: no thread is singled
  out, for each of them only has finitely much to do. On the reactor, timers
  fire, ports close, connections to the server in the same process are made or
  refused, and the first job starts; nobody need answer a request.
  `ProgramEnds` leaves out one case, a job that fails under `multidriver`, which
  has no errback and never stops the reactor.
- `Worms`, `SkipList`, `BTree`, `Go`, `Upload`, `Selection`: safety only, no
  fairness.

## Findings

1. `upload_error`: `save` prints an error and returns 1 at a result of unknown
   type; `runner.main` ignores the 1, the later results stay unsent and the
   program exits 0 (saveresults.py:70, runner.py:331).
2. `memory_report`: results may be strings, and the final loop of `perf.main`
   calls a method they do not have (perf.py:1603).
3. `deltablue_again`: `incremental_remove` weakens its strength inside the for
   loop, so that the stay constraint of a changed variable is never satisfied
   again (deltablue.py:395). The benchmark's own checks do not notice.
4. `selection`: perf has two texts on a `-b` without positive names, and does
   what neither says. Its docstring says that omitting `-b` is the same as
   `-b default` (perf.py:16, and of `-b -2to3` at 22); the names of the default
   group that have no function (spitfire, slowpickle, slowunpickle) only make a
   warning in the latter, while in the former they end the run with a KeyError
   (perf.py:1464, 1576). `-b -spitfire` does not help, since a negative name that
   is no benchmark takes nothing away (1475). The help text of `-b` says that all
   benchmarks run except the negative ones (1533); the code starts from the group
   default. `OmittedAsDocumented` would be content with either; both are listed as
   findings, and the same trace refutes both.
5. `selection_runner`: the help text of runner's `-b` says "default: Run all listed
   benchmarks" (runner.py:146) and lists `BENCHMARK_FULL`; without `-b` runner takes
   `BENCHMARK_DEFAULT` (292), which leaves out the five of pickle.

## Proofs

All theorems are checked by `tlapm` to the last leaf, from the named assumptions
on the constants only.

**`TLQueueProofs`**, from `TLQueueAssumption` (None is neither a thread nor a
value), for any sets of threads, queues and values:

- `QTypeCorrect`: `QTypeOK`, strengthened by "a put that has not appended has
  its value in hand"; without it an append could put None into a list.
- `QLockDiscipline`: inductive with the types alone.
- `QNoLostWakeup`: needs the lock discipline: a notification finds the lock
  free, so no thread can be between its test and its wait.
- `QInOnePlace`: needs that a value put is fresh; the lemmas `AppendPlaces` and
  `PopPlaces` say what append and pop do to positions, the latter from
  `DataLemmas`.
- `QImplementsStore`: each step of a queue is a step of `TaskStore` or a
  stutter. A pop must take a value out of the set of contents, which holds
  because it was in the list once (`InOnePlace`).

**`FuturePoolProofs`**, from `FuturePoolAssumption` (what the names of threads,
futures and pools may not share, finite pools), for any pools, workers, clients
and futures, any script and any tasks. The invariant `Inv` is the types with

- `Hands` and `Control`: what a thread has in hand and may be doing, by its place
  outside the queue: only workers run tasks, only the main thread shuts down, a
  worker of a pool that was not yet built is off;
- `Shutdowns`: which pool is being shut down, how many workers are still to be
  told, and that only a replaced pool, or the one being replaced, has been shut
  down; `RetiredPoolIsDead` is inductive only with it;
- `Ended`: there is an outcome where one is about to be used;
- `Locks`: who owns a future's lock and who waits, from which
  `NoSleepingCaller` follows: the caller tests and waits under the lock that the
  worker holds until it notifies.

`PoolTypesCorrect`, `CallersAreWoken`, `RetiredWorkersAreDead` follow.

The second layer: no task is lost or run twice. `Places` takes
`TaskInOnePlace` apart (`NotLost`, `QueuedIsFree`, `OneHolder`, `DoneIsOver`,
`Positions`) and adds what makes it inductive: `Stages` (where a thread stands in
the queue, by where it stands in the pool), `InHand`, `Hand` and `Tasks` (an
object is in hand because it is about to be appended, has just been popped, or is
the task that runs), `Born` and `HeldIsMade`. Without them a pop could give a
worker a future that another still holds between its pop and its run.
`UnmadeFuturesAreFresh` discharges what `TLQueue` takes as a guard: `put` gets a
new object each time. That an exit item is new is left to the runs, where
`ShutPut` could not go on otherwise and `ShutdownEnds` would fail.

The third: `FuturesKeepTheirPromise`, the safety half of the
refinement of `FutureSpec`. The state of a future is read off the pool
(`StateOf`); `TaskLock` starts it, `TaskSetDone` finishes it, `CallReturn`
returns its outcome, the constructor creates it, and every other step is shown to
leave all states and known outcomes as they are. It needs `Places`: that the
future whose `_done` is set is the one this worker started, and that no other
worker runs it.

The fourth: `ShutdownPutsEnough`, that a shutdown has an exit item for every
worker it is going to join, for any number of workers. `Exits` adds to
`ExitsSuffice` who may append an exit item and which one (`ExitHands`: only the
main thread, the next of the loop), and which queues hold any (`ExitsQueued`), so
that no worker of a pool in force can pop one. The count itself (`Enough`) is
kept step by step: a worker that pops an item leaves both sides with one less,
one that dies of its task lowers the side of the workers only, and the append
moves an item from the loop to the queue. It is the safety half of
`ShutdownEnds`.

**`ProgramsProofs`**, one section for each of four programs.

- `Worms`, for any grid, any worms, any maximal size: `GridIsBodies` and
  `BodyIsPath` are inductive only together, with the types and "a started worm
  has a body": that a reversed or advanced body crosses nothing uses that the
  grid shows every body, and that the grid stays right when a last cell is freed
  uses that no body crosses itself. `BackwardsIsPath` and `AdvanceStep` carry the
  argument.
- `Primes`, for any limit, size of a batch and number of workers:
  `EveryPrimeCounted`. The invariant `PrimeInv` says that no prime is in two
  places (`InOnePlace`: of the batches queued, those in hand and the lists of
  results, any two are apart), that what is in none has been counted
  (`CountedSoFar`), and that a `task_done()` is due for just what is queued or in
  hand (`Unfinished`), so that `join()` lets the main thread read only when every
  worker has handed in its list. That the batches cut the numbers below the limit
  into disjoint parts is arithmetic of `\div` (`DivisionFacts`).
- `BenchLib`, for any number of programs, warm-ups, iterations and requests in
  flight: `ReportsAreIterations`, and the action property `StragglersOnlyDrain`.
  `TwistedInv` says that only the latest client may be open, and only while its
  deferred has not fired (`OneJob`), and that each benchmark has the reports of
  the jobs before the latest one (`Reported`).
- `Richards`, for any count of the idle task: `PendingIsInput`, with the types. That the counter of rounds stays a
  number needs `IdleEnds` (an idle task that has counted to its end holds for
  ever), and that the shift register stays a word needs `FlipIsWord` (what an
  exclusive-or with one bit does).
  `PacketsKept`: the state has lists as heads and a field `link` of each packet,
  in which neither "each packet is on one list" nor "no list is a ring" can be
  kept step by step. The invariant `PacketsInv` gives each packet an owner, which
  is a list or a device, and a rank in it (`KeptBy`): a head is the least of its
  list, a link leads to the next rank of the same owner, no two packets share
  owner and rank; what a task has in its hands has no owner. Taking the first
  packet (`TakeFirst`) and appending one (which a walk along the links does, to
  the greatest rank) then change one owner. `OnlyIdleDevicesWait` is needed
  because a device that takes a packet while it works on one would lose the
  latter. That the walk of `PacketsKept` along a list finds just the packets of
  its owner follows at the end (`ListsFollow`, `ListHolds`).

**`OrderProofs`**, the two programs that keep data in order.

- `QuickSort`, for any length, any workers and any depth and size from which
  parts become futures: `RangesDisjoint` and `SortedAtLast`. The invariant
  `SortInv` says that the parts that anybody has before him have no position in
  common; that each holds just the values that belong there, which the loop keeps
  because it has moved what is left of l and right of r to its side (`JobOK`);
  that a position nobody has is in its place; and that for each future that is
  not yet called somebody is left who will tell the main thread of it (`ToldOf`).
  The step that matters is the end of the loop: the two parts have the values of
  their positions since values and positions are equally many (`NoMoreValues`).
- `SkipList`, for any finite set of elements and any greatest height:
  `LevelsAgree` and the refinement `SkipListIsSet`. `WellLinked` says that on each
  level the successor of a node is the next of the level's nodes. From it follow
  that a search ends at the last node before the element (`Before` is the
  recursive function of the search; `BeforeIsLast` exhibits what solves its
  equation), that linking and unlinking change each level by
  that element, and that each operation is one on the set of the nodes of the
  lowest level.

**`SequentialProofs`**. Of `DeltaBlue`, for every `MaxSize` and every number of `Rounds`:
`Determined` and `AnnotationsCurrent`. The invariant `PlannerInv` has

- `ScriptFits`: a script makes no constraint twice, shown of `Chain(n)` and
  `Projection(n)` for every n, so that `NewConstraint` finds it on no list;
- `ListsAgree` and `GraphAgrees`: a constraint is on the lists of all its
  variables or of none, and is satisfied only if it is; this is why the consumers
  of a variable are all that it feeds (`FedIsConsumer`);
- `AddsListed` and `RemovesListed`: what is added, or added again after a removal,
  is on the lists and not satisfied, which `Determined` needs when `Satisfy` gives
  it an output;
- `Annotated`: each satisfied constraint is current unless the loop still has it
  on its list (`propagate`), or a variable that feeds it (`remove`). A propagation
  that stopped early would be found here, not in the state after it.

The lists of the planner are worked off by recursive functions and what these
compute is shown by induction up to a number (`Upto`), which is the least-element
principle of the library for a set instead of for an operator.

Of `Go`, for every size of the board, all paths and any number of moves:
`BoardChecks` and the action property `GamesAreLegal`. What makes it inductive is said of a function R, the root of every
square, and a function K that falls along the references, neither of which the
program has; they stand for where a chain of references ends and that it ends
(`Rooted`; `find` with update keeps it, whatever it shortens).

- Between moves the board is `Sound`: neighbours of one colour have one root
  (`Linked`), a set that with a stone has its neighbours of the same colour has
  all squares of its root (`Held`: groups are connected), a root counts the edges of its group that end at an
  empty square and has one, and the list of empty squares is in order (`Listed`).
- In the loop of `Square.move` the counts are wrong in a way that depends on how
  far it is. `MeetInv` says by how much: the stone has no edges yet to the
  neighbours it has not met, and a group that it has not met still counts the
  edges to it (`Due`). One lemma for each thing a turn can do follows:
  `MeetInv` holds after it for one neighbour less.
- A capture is taken off stone by stone, and each stone gives its neighbours of
  other groups an edge. `RemoveInv` says what the agenda of the recursion still
  has to contain: every pair of a stone that is gone and a neighbour that has not
  been told. That the recursion ends, and has then taken the whole group, is
  shown with a measure (`LoopStops`).
- That no group is left without an edge needs what `useful` promises
  (`UsefulHopes`): a free neighbour, a capture, or a friendly group with another
  edge.

That both loops, written as recursive functions on boards with an agenda, have a
solution at all is `LoopExists`. At the end `Board.check()` itself: the group
found by growing from a stone is the class of its root, and the set of its edges
has as many members as the root counts.

`GamesAreLegal` says what a move is by groups of a position alone (`GroupOf`,
`Liberties`). `DeadIsStarved` gives them a form without recursion, and with it

- what the loop captures is what the rules capture (`CapturesByRules`), and the
  hash that `useful` makes from roots and counts is of that position
  (`HashIsAfter`). The other way to be useful, a square never used with a free
  neighbour, repeats no position because `used` has the squares of all positions
  (`Remembers`);
- what is not useful would be suicide, fill an eye or repeat a position
  (`VainIsBad`), and what was drawn in vain stays useless while the choices
  shrink, since `useful` does not look at the list (`DrawnInVain`). So when no
  choice is left, no empty square was worth a move.

**`NightlyProofs`**. Of `Upload`, for any number of benchmarks, urls and retries
and any set of healthy servers, the invariant `IInv` adds to the types: `Phases` (nothing is
sent before the file is written), `Order` (every try made lies behind the place
of `send` or is a try of the result it is at), `Behind` (what lies behind is
stored or an error tells of it) and `Blame` (an error tells of a value that lies
behind, of an upload to a url that is not healthy, and that no try got an answer
for: a try that succeeds late leaves no error). `ExitStatusTells`,
`HealthyGetAll`, `SentAgainOnlyIfUnanswered` and `AllOrNothing` follow.

Of `Selection`, for any tables of benchmarks and groups and lists of any length:
`RunsAreMeant`. The assumptions are those of the source's tables: runner's names
are benchmarks of perf, no group has the name of a benchmark or contains itself,
runner's default is not empty; nothing is assumed of the members of a group, so
that the theorem covers a default group with names that have no function; for
a list without positive names it speaks of the
outcomes without error. That
a benchmark stands for itself needs that the recursion of `expansion` has a
solution (`LeavesSolve`: what every closed table says of a name).

**`MemoryUsageProofs`**, for any number of benchmarks and samples and for both
values of `ZombieReadable`. The invariant adds to the types: `Order` (a call that
main has not got to has no sampler; one that is compared has none at work, or
failed), `Processes` (a process has a return code exactly if it has exited) and
`Samples` (a list is returned only when its sampler is done, which is what
`UsageIsFinal` needs). `Undisturbed` is itself part of it: a child that is not
the one main waits for has exited.

Only model-checked:

- all liveness (`ShutdownEnds`, `CallsReturn`, `TasksRun`, `ProgramEnds`, `TestsEnd`,
  `Ends` of `MemoryUsage`)
  and the liveness half of `ImplementsStore`: fairness and ENABLED are out of
  the prover's reach;
- `BTree`, whose trees are values of any depth, over which only RECURSIVE
  operators go; with them the prover loses its SMT backend;
- `EquationsHold` of `DeltaBlue`: it rests on the order in which a plan executes
  its constraints, and on a scale factor that divides what it is to divide, which
  is a property of the numbers in the two tests;
- `RightCounts` of `Richards`, a property of one behaviour of 10000 rounds;
- `TracksConnect` of `LeeRouter`: the costs of a search share their numbers with
  the marks `VIA` and `TEMP_EMPTY`, so a proof needs a bound on the costs, which
  the source does not state;
- `TypesOK` of `MCPrograms`, the conjunction of the type invariants of its
  programs, of which those of `Worms`, `Primes`, `BenchLib`, `Richards`,
  `QuickSort` and `SkipList` are theorems one by one.

## Not modelled

`PROJECT.json` lists every component with the reason. The share of the
repository's lines that the modules stand for is small and will stay so: of its
two million lines nearly all are vendored libraries (sympy, django, html5lib,
twisted, the PyPy translator with its Unicode tables), which are other projects'
programs and only the load of a benchmark here. Of the rest most are timed loops
without state. Of the repository's own code, what is left out:

- statistics, reports, charts, local runs, warm-up scripts, the driver of
  third-party test suites: arithmetic on floating-point numbers, formatting and
  calls of other programs;
- the K-best loop of `bench.py`, sequential, whose end depends on times alone
  (at most 2k + 1 runs);
- the threads of Richards: every kernel is private to its thread, and each thread
  has a lock of its own that it releases last;
- futures over independent data and web servers: what they ask of the pool is in
  `pool_patient`;
- the sequential programs of `own/` and of Unladen Swallow, other than DeltaBlue,
  Go and Richards.

Inside the modelled ones:

- the numbers themselves: times, statistics, tables, charts;
- in `DeltaBlue`, what follows a cycle (`add_propagate` returning False): the
  run shows that the tests never get there;
- in `Go`, the statistics of the search tree, which choose a path (any path is
  one the run may be given), and the score;
- in `MemoryUsage`, the Windows sampler, `Measure2to3`, `MeasureStartup` and
  pybench's own comparison, which use the same future in the same way;
- in `Upload`, `saveresults.main`, which calls the same `save` for one url, and
  `testing=True`, which is for the tests. The assertion that ends a `--full-store`
  night with several times (saveresults.py:66) is in the model, as the status
  `died`; `HealthyGetAll` makes no claim of such a night;
- in `FuturePool`, software transactional memory itself: an atomic block is one
  step, or, where it only calls the function of a task, a task that makes and
  calls no futures;
- in `QuickSort`, `qsort`, which nothing calls, and four of the five equal rounds;
- in `BTree`, `bulkload`, which nothing calls;
- in `Primes`, pyprimes, taken to tell primes;
- in `LeeRouter`, the reading of the board and the display. Its twin
  `lee_router_tm.py` has the same two steps as atomic blocks;
- in `BenchLib`, what a request carries, the ports that tcp closes without
  waiting for them, and an exception of `main()` itself when the driver calls it
  from the reactor (benchlib.py:71): it would stay in a Deferred that nobody looks
  at, and the reactor would run on. The component is "partly" modelled for it;
- in `Selection`, options other than the choice of benchmarks.

## Plan

What is done, in the order in which it was built:

1. the pool, bottom up: `TaskStore`, `TLQueue`, `FutureSpec`, `FuturePool`, and
   all their safety properties as theorems;
2. `Worms`, `Upload`, `MemoryUsage` with theorems; `Richards`, `DeltaBlue`;
3. `Selection`;
4. `SetSpec` with `SkipList` and `BTree`;
5. `QuickSort` over the pool's promise; `Primes`; `LeeRouter`;
6. `BenchLib`, `Go`.

7. theorems about `QuickSort`, `SkipList`, `Primes`, `BenchLib`, `Richards`,
   `DeltaBlue`, `Selection` and `Go`.

What is left, the most useful first:

1. a theorem: `TracksConnect` of `LeeRouter`, for boards whose costs stay below
   the marks;
2. the threads of Richards and the K-best loop.
