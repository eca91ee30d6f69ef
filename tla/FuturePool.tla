----------------------------- MODULE FuturePool ----------------------------
(***************************************************************************)
(* The thread pool of multithread/common/abstract_threading.py: the worker *)
(* threads of each ThreadPool, the Futures whose tasks they run, the       *)
(* global _thread_pool with set_thread_pool() that replaces it, and the    *)
(* shutdown that atexit calls.  The queues are those of TLQueue, step by   *)
(* step: every thread's put() and get() interleaves with all the others.   *)
(*                                                                         *)
(* A thread is at "run" when it executes code of its own: the script's for *)
(* the main thread and the other clients, the function of a task for a     *)
(* worker.  What that code may do is any sequence of the module's          *)
(* operations, within the constants that follow.                           *)
(***************************************************************************)
EXTENDS Integers, Sequences, FiniteSets

CONSTANTS Main,        \* the main thread, the only one to change the pool
          Clients,     \* other threads of the script
          Pools,       \* the ThreadPools that may be built
          FirstPool,   \* the one built when the module is imported
          WorkersOf,   \* WorkersOf[p]: the worker threads of p
          Futures,     \* the Futures that may be made
          AtomicFutures,  \* those of them that are AtomicFutures
          Makers,      \* the threads that make futures
          Callers,     \* the threads that call futures
          Patient,     \* TRUE: the pool is replaced only when every future is done
          Endings,     \* how the function of a task may end
          None

Workers == UNION {WorkersOf[p] : p \in Pools}
Threads == {Main} \union Clients \union Workers

(* shutdown() puts one (sys.exit, (), {}) per worker.  Each is an object   *)
(* of its own; a pool is shut down at most twice (set_thread_pool, atexit).*)
ExitItem(p, i, round) == <<p, i, round>>
ExitItems == UNION {{ExitItem(p, i, r) : i \in 1..Cardinality(WorkersOf[p]), r \in 0..1}
                      : p \in Pools}

ASSUME FuturePoolAssumption ==
  /\ FirstPool \in Pools
  /\ WorkersOf \in [Pools -> SUBSET Workers]
  /\ \A p \in Pools : IsFiniteSet(WorkersOf[p])
  /\ \A p, q \in Pools : p # q => WorkersOf[p] \intersect WorkersOf[q] = {}
  /\ Main \notin Clients \union Workers
  /\ Clients \intersect Workers = {}
  /\ Futures \intersect ExitItems = {}
  /\ None \notin Threads \union Futures \union ExitItems \union Pools
  /\ AtomicFutures \subseteq Futures
  /\ Makers \subseteq Threads
  /\ Callers \subseteq Threads
  /\ Patient \in BOOLEAN
  /\ Endings \subseteq {"value", "exception", "exit"}

VARIABLES items, owner, waiters, qpc, chan, reg,   \* the queues: see TLQueue
          current,   \* _thread_pool
          built,     \* the pools built so far
          shut,      \* shut[p]: how many shutdown()s of p have begun
          pc,        \* pc[t]: where thread t is
          task,      \* task[w]: the future whose _task() worker w runs
          todo,      \* the puts that the shutdown in progress has still to do
          next,      \* the pool set_thread_pool() will install
          exiting,   \* the main thread runs the atexit handlers
          born,      \* born[f]: "no", "made", or "failed" for want of a pool
          done,      \* done[f]: f._done
          outcome,   \* outcome[f]: f._exception or f._result once written
          fowner,    \* fowner[f]: the thread that holds f._cond
          fwaiters,  \* fwaiters[f]: the threads in f._cond.wait()
          callee,    \* callee[t]: the future t calls
          got        \* got[t]: the last <<future, outcome>> a call returned

Q == INSTANCE TLQueue WITH Queues <- Pools, Values <- Futures \union ExitItems

qvars == <<items, owner, waiters, qpc, chan, reg>>
pvars == <<current, built, shut, todo, next, exiting>>
fvars == <<born, done, outcome, fowner, fwaiters, callee, got>>
vars  == <<qvars, pvars, fvars, pc, task>>

CallPC == {"enter", "check", "wait", "waiting", "return"}
TaskPC == {"loop", "getting", "lock", "setdone", "notify"}
ShutPC == {"shutput", "shutputting"}
PCs    == {"off", "run", "putting", "dead", "exited"} \union CallPC \union TaskPC \union ShutPC

Outcomes == {"value", "exception", "exit"}

PoolOf(w) == CHOOSE p \in Pools : w \in WorkersOf[p]

TypeOK == /\ Q!QTypeOK
          /\ current \in Pools \union {None}
          /\ built \subseteq Pools
          /\ shut \in [Pools -> 0..2]
          /\ pc \in [Threads -> PCs]
          /\ task \in [Threads -> Futures \union {None}]
          /\ todo \in Nat
          /\ next \in Pools \union {None}
          /\ exiting \in BOOLEAN
          /\ born \in [Futures -> {"no", "made", "failed"}]
          /\ done \in [Futures -> BOOLEAN]
          /\ outcome \in [Futures -> Outcomes \union {None}]
          /\ fowner \in [Futures -> Threads \union {None}]
          /\ fwaiters \in [Futures -> SUBSET Threads]
          /\ callee \in [Threads -> Futures \union {None}]
          /\ got \in [Threads -> {None} \union (Futures \X Outcomes)]

(* import abstract_threading: _thread_pool = ThreadPool() *)
Init == /\ Q!QInit
        /\ chan = [t \in Threads |-> FirstPool]
        /\ current = FirstPool
        /\ built = {FirstPool}
        /\ shut = [p \in Pools |-> 0]
        /\ pc = [t \in Threads |-> IF t \in WorkersOf[FirstPool] THEN "loop"
                                   ELSE IF t \in Workers THEN "off" ELSE "run"]
        /\ task = [t \in Threads |-> None]
        /\ todo = 0
        /\ next = None
        /\ exiting = FALSE
        /\ born = [f \in Futures |-> "no"]
        /\ done = [f \in Futures |-> FALSE]
        /\ outcome = [f \in Futures |-> None]
        /\ fowner = [f \in Futures |-> None]
        /\ fwaiters = [f \in Futures |-> {}]
        /\ callee = [t \in Threads |-> None]
        /\ got = [t \in Threads |-> None]

Goto(t, l) == pc' = [pc EXCEPT ![t] = l]

(* t executes code of its own.  The interpreter runs the atexit handlers   *)
(* when the other clients have ended, and its end stops the workers.       *)
Running(t) == pc[t] = "run" /\ (t \in Workers \/ ~exiting)

-----------------------------------------------------------------------------
(* Future(func, ...): the constructor reads _thread_pool once, then puts   *)
(* the task on the queue of that pool.                                     *)
NewFuture(t, f) == /\ t \in Makers
                   /\ Running(t)
                   /\ task[t] \notin AtomicFutures
                   /\ born[f] = "no"
                   /\ current # None
                   /\ born' = [born EXCEPT ![f] = "made"]
                   /\ Q!PutStart(t, current, f)
                   /\ Goto(t, "putting")
                   /\ UNCHANGED <<pvars, task, done, outcome, fowner, fwaiters, callee, got>>

(* After set_thread_pool(None): AttributeError, and no future. *)
NewFutureNoPool(t, f) == /\ t \in Makers
                         /\ Running(t)
                         /\ born[f] = "no"
                         /\ current = None
                         /\ born' = [born EXCEPT ![f] = "failed"]
                         /\ UNCHANGED <<qvars, pvars, pc, task, done, outcome,
                                        fowner, fwaiters, callee, got>>

(* The end of a put(), back in the constructor or in shutdown(). *)
PutReturns(t) == /\ Q!PutNotify(t)
                 /\ \/ pc[t] = "putting" /\ Goto(t, "run") /\ UNCHANGED todo
                    \/ pc[t] = "shutputting" /\ Goto(t, "shutput") /\ todo' = todo - 1
                 /\ UNCHANGED <<current, built, shut, next, exiting, fvars, task>>

(* A step of put() or get() that ends neither, or the pop that ends get(). *)
QueueStep(t) == /\ Q!PutAppend(t) \/ Q!GetStep(t)
                /\ UNCHANGED <<pvars, fvars, pc, task>>

-----------------------------------------------------------------------------
(* Future.__call__ *)

(* if not self._done, read without the lock *)
CallFuture(t, f) == /\ t \in Callers
                    /\ Running(t)
                    /\ task[t] \notin AtomicFutures \union {f}
                    /\ born[f] = "made"
                    /\ callee' = [callee EXCEPT ![t] = f]
                    /\ Goto(t, IF done[f] THEN "return" ELSE "enter")
                    /\ UNCHANGED <<qvars, pvars, task, born, done, outcome,
                                   fowner, fwaiters, got>>

(* with self._cond, on entry or when wait() takes the lock again *)
CallEnter(t) == /\ pc[t] = "enter"
                /\ fowner[callee[t]] = None
                /\ fowner' = [fowner EXCEPT ![callee[t]] = t]
                /\ Goto(t, "check")
                /\ UNCHANGED <<qvars, pvars, task, born, done, outcome,
                               fwaiters, callee, got>>

(* while not self._done; leaving the loop leaves the with block *)
CallCheck(t) == /\ pc[t] = "check"
                /\ IF done[callee[t]]
                     THEN /\ fowner' = [fowner EXCEPT ![callee[t]] = None]
                          /\ Goto(t, "return")
                     ELSE Goto(t, "wait") /\ UNCHANGED fowner
                /\ UNCHANGED <<qvars, pvars, task, born, done, outcome,
                               fwaiters, callee, got>>

(* self._cond.wait() releases the lock once t is in the wait set. *)
CallWait(t) == /\ pc[t] = "wait"
               /\ fwaiters' = [fwaiters EXCEPT ![callee[t]] = @ \union {t}]
               /\ fowner'   = [fowner EXCEPT ![callee[t]] = None]
               /\ Goto(t, "waiting")
               /\ UNCHANGED <<qvars, pvars, task, born, done, outcome, callee, got>>

(* raise self._exception or return self._result, without the lock *)
CallReturn(t) == /\ pc[t] = "return"
                 /\ got' = [got EXCEPT ![t] = <<callee[t], outcome[callee[t]]>>]
                 /\ callee' = [callee EXCEPT ![t] = None]
                 /\ Goto(t, "run")
                 /\ UNCHANGED <<qvars, pvars, task, born, done, outcome, fowner, fwaiters>>

-----------------------------------------------------------------------------
(* Worker.run and Future._task *)

(* while True: self.queue.get() *)
WorkerLoop(w) == /\ pc[w] = "loop"
                 /\ Q!GetStart(w, PoolOf(w))
                 /\ Goto(w, "getting")
                 /\ UNCHANGED <<pvars, fvars, task>>

(* get() has returned: sys.exit() raises SystemExit, which the worker does *)
(* not catch, and a task begins with its future's lock.                    *)
Dispatch(w) == /\ pc[w] = "getting"
               /\ qpc[w] = "idle"
               /\ IF reg[w] \in ExitItems
                    THEN Goto(w, "dead") /\ UNCHANGED task
                    ELSE Goto(w, "lock") /\ task' = [task EXCEPT ![w] = reg[w]]
               /\ UNCHANGED <<qvars, pvars, fvars>>

(* Defect: the task runs without its future's lock. *)
TaskLockNot(w) == /\ pc[w] = "lock"
                  /\ Goto(w, "run")
                  /\ UNCHANGED <<qvars, pvars, task, fvars>>

(* Defect: _done is set before func is called. *)
TaskLockDone(w) == /\ pc[w] = "lock"
                   /\ fowner[task[w]] = None
                   /\ fowner' = [fowner EXCEPT ![task[w]] = w]
                   /\ done' = [done EXCEPT ![task[w]] = TRUE]
                   /\ Goto(w, "run")
                   /\ UNCHANGED <<qvars, pvars, task, born, outcome, fwaiters, callee, got>>

(* with self._cond, held until the end of _task: func runs under it *)
TaskLock(w) == /\ pc[w] = "lock"
               /\ fowner[task[w]] = None
               /\ fowner' = [fowner EXCEPT ![task[w]] = w]
               /\ Goto(w, "run")
               /\ UNCHANGED <<qvars, pvars, task, born, done, outcome,
                              fwaiters, callee, got>>

(* func returns or raises.  "exit" is an exception that is not an          *)
(* Exception: neither _result nor _exception is assigned, and a call will  *)
(* return the None that __init__ left in _result.                          *)
TaskEnd(w, o) == /\ pc[w] = "run"
                 /\ task[w] # None
                 /\ o \in Endings
                 /\ outcome' = [outcome EXCEPT ![task[w]] = o]
                 /\ Goto(w, "setdone")
                 /\ UNCHANGED <<qvars, pvars, task, born, done, fowner, fwaiters, callee, got>>

(* finally: self._done = True, visible to calls that hold no lock *)
TaskSetDone(w) == /\ pc[w] = "setdone"
                  /\ done' = [done EXCEPT ![task[w]] = TRUE]
                  /\ Goto(w, "notify")
                  /\ UNCHANGED <<qvars, pvars, task, born, outcome,
                                 fowner, fwaiters, callee, got>>

(* Defect: the callers are not notified. *)
TaskNotifyNobody(w) ==
  /\ pc[w] = "notify"
  /\ fowner' = [fowner EXCEPT ![task[w]] = None]
  /\ task'   = [task EXCEPT ![w] = None]
  /\ Goto(w, IF outcome[task[w]] = "exit" THEN "dead" ELSE "loop")
  /\ UNCHANGED <<qvars, pvars, born, done, outcome, fwaiters, callee, got>>

(* notify_all() and the end of the with block.  SystemExit goes on through *)
(* the "except Exception" of Worker.run and ends the thread.               *)
TaskNotify(w) ==
  LET f == task[w]
  IN  /\ pc[w] = "notify"
      /\ fwaiters' = [fwaiters EXCEPT ![f] = {}]
      /\ fowner'   = [fowner EXCEPT ![f] = None]
      /\ task'     = [task EXCEPT ![w] = None]
      /\ pc' = [t \in Threads |-> IF t = w THEN IF outcome[f] = "exit" THEN "dead" ELSE "loop"
                                  ELSE IF t \in fwaiters[f] THEN "enter"
                                  ELSE pc[t]]
      /\ UNCHANGED <<qvars, pvars, born, done, outcome, callee, got>>

-----------------------------------------------------------------------------
(* set_thread_pool() and the end of the program; only the main thread.     *)

Start(ws) == [t \in Threads |-> IF t \in ws THEN "loop" ELSE pc[t]]

AllDone == \A f \in Futures : born[f] = "made" => done[f]

(* Defect: one exit item too few. *)
BeginShutdownShort(p) == /\ shut' = [shut EXCEPT ![p] = @ + 1]
                         /\ todo' = Cardinality(WorkersOf[p]) - 1

(* Defect: no exit items for the workers that run a task. *)
BeginShutdownIdle(p) == /\ shut' = [shut EXCEPT ![p] = @ + 1]
                        /\ todo' = Cardinality({w \in WorkersOf[p] : task[w] = None})

BeginShutdown(p) == /\ shut' = [shut EXCEPT ![p] = @ + 1]
                    /\ todo' = Cardinality(WorkersOf[p])

(* set_thread_pool(th): th is a new ThreadPool, whose constructor has      *)
(* started its workers, or None.  A pool in force is shut down first.      *)
SetThreadPool(th) ==
  /\ pc[Main] = "run"
  /\ ~exiting
  /\ Patient => AllDone
  /\ th \notin built
  /\ built' = built \union ({th} \ {None})
  /\ LET ws == IF th = None THEN {} ELSE WorkersOf[th]
     IN  IF current = None
           THEN /\ current' = th
                /\ pc' = Start(ws)
                /\ UNCHANGED <<shut, todo, next>>
           ELSE /\ BeginShutdown(current)
                /\ pc' = [Start(ws) EXCEPT ![Main] = "shutput"]
                /\ next' = th
                /\ UNCHANGED current
  /\ UNCHANGED <<qvars, fvars, task, exiting>>

(* The main thread ends; atexit calls the shutdown of the FIRST pool, which *)
(* may have been shut down long ago.                                       *)
Exit == /\ pc[Main] = "run"
        /\ ~exiting
        /\ \A c \in Clients : pc[c] = "run"
        /\ exiting' = TRUE
        /\ BeginShutdown(FirstPool)
        /\ Goto(Main, "shutput")
        /\ UNCHANGED <<qvars, fvars, task, current, built, next>>

ShutPool == IF exiting THEN FirstPool ELSE current

(* self.input_queue.put((sys.exit, (), {})), once per worker *)
ShutPut == /\ pc[Main] = "shutput"
           /\ todo > 0
           /\ Q!PutStart(Main, ShutPool, ExitItem(ShutPool, todo, shut[ShutPool] - 1))
           /\ Goto(Main, "shutputting")
           /\ UNCHANGED <<pvars, fvars, task>>

(* Defect: the workers are not joined. *)
ShutJoinNot == /\ pc[Main] = "shutput"
               /\ todo = 0
               /\ IF exiting THEN Goto(Main, "exited") /\ UNCHANGED <<current, next>>
                             ELSE /\ Goto(Main, "run")
                                  /\ current' = next
                                  /\ next' = None
               /\ UNCHANGED <<qvars, fvars, task, built, shut, todo, exiting>>

(* for w in self.workers: w.join(); then _thread_pool = th, or the end *)
ShutJoin == /\ pc[Main] = "shutput"
            /\ todo = 0
            /\ \A w \in WorkersOf[ShutPool] : pc[w] = "dead"
            /\ IF exiting THEN Goto(Main, "exited") /\ UNCHANGED <<current, next>>
                          ELSE /\ Goto(Main, "run")
                               /\ current' = next
                               /\ next' = None
            /\ UNCHANGED <<qvars, fvars, task, built, shut, todo, exiting>>

-----------------------------------------------------------------------------
(* What the code of t does next, if anything, is its own choice. *)
Choose(t) == \E f \in Futures : NewFuture(t, f) \/ NewFutureNoPool(t, f) \/ CallFuture(t, f)

(* What t does once it has begun. *)
Step(t) == \/ QueueStep(t) \/ PutReturns(t)
           \/ CallEnter(t) \/ CallCheck(t) \/ CallWait(t) \/ CallReturn(t)
           \/ WorkerLoop(t) \/ Dispatch(t) \/ TaskLock(t)
           \/ \E o \in Endings : TaskEnd(t, o)
           \/ TaskSetDone(t) \/ TaskNotify(t)

MainStep == ShutPut \/ ShutJoin

MainChoose == Exit \/ \E th \in Pools \union {None} : SetThreadPool(th)

Next == /\ pc[Main] # "exited"
        /\ \/ \E t \in Threads : Choose(t) \/ Step(t)
           \/ MainStep
           \/ MainChoose

(* Every thread is scheduled, and the function of every task ends, unless  *)
(* it calls futures for ever.                                              *)
Fairness == /\ \A t \in Threads : WF_vars(pc[Main] # "exited" /\ Step(t))
            /\ WF_vars(MainStep)

SafeSpec == Init /\ [][Next]_vars

Spec == SafeSpec /\ Fairness
-----------------------------------------------------------------------------
(* Safety. *)

Holds(t, f) == reg[t] = f \/ task[t] = f

InQueue(x, p) == \E i \in DOMAIN items[p] : items[p][i] = x

(* A future whose constructor has succeeded and whose task has not ended   *)
(* is in one place: in the hands of the thread that puts it, in one queue, *)
(* or in the hands of the one worker that got it.  A future that is done   *)
(* is in no queue and is nobody's next task.  So a task is never lost and  *)
(* never run twice, however puts, gets and shutdowns interleave.           *)
TaskInOnePlace ==
  \A f \in Futures :
    LET queued == \E p \in Pools : InQueue(f, p)
        holders == {t \in Threads : Holds(t, f)}
    IN  /\ born[f] = "made" /\ ~done[f] => queued \/ holders # {}
        /\ queued => born[f] = "made" /\ ~done[f] /\ holders = {}
        /\ \A t, u \in holders : t = u
        /\ done[f] => \A t \in holders : pc[t] \in {"notify", "loop", "dead"}
        /\ \A p, r \in Pools : \A i \in DOMAIN items[p], j \in DOMAIN items[r] :
             items[p][i] = f /\ items[r][j] = f => p = r /\ i = j

(* The lock of a future is held from the check of a call to its wait, and  *)
(* by the worker for as long as it runs the task, notification included.   *)
(* A thread is left in the wait set of a future that is done only while    *)
(* the worker that has finished the task is about to notify it.            *)
NoSleepingCaller ==
  \A f \in Futures :
    /\ done[f] => \A t \in Threads :
         callee[t] = f /\ pc[t] \in {"wait", "waiting"} =>
           \E w \in Workers : pc[w] = "notify" /\ task[w] = f /\ fowner[f] = w
    /\ \A t \in Threads : t \in fwaiters[f] <=> (pc[t] = "waiting" /\ callee[t] = f)

(* A pool that is neither in force, nor being installed, nor being shut    *)
(* down has no living worker: set_thread_pool() leaves no thread behind,   *)
(* so no task it has left in the old queue can ever start.                 *)
RetiredPoolIsDead ==
  \A p \in built : p \notin {current, next} => \A w \in WorkersOf[p] : pc[w] = "dead"

(* The exit items of the shutdown under way that no worker has taken:      *)
(* still to be put, the last of them perhaps in hand, or in the queue.     *)
ExitsLeft ==
  {i \in 1..Cardinality(WorkersOf[ShutPool]) :
     \/ i < todo
     \/ i = todo /\ ~(pc[Main] = "shutputting" /\ qpc[Main] = "notify")
     \/ InQueue(ExitItem(ShutPool, i, shut[ShutPool] - 1), ShutPool)}

ToldToExit(w) == pc[w] = "getting" /\ qpc[w] = "idle" /\ reg[w] \in ExitItems

(* There is an exit item for every worker that shutdown() will join and    *)
(* that has none yet: whichever worker takes which item, however many      *)
(* tasks it runs before, and whoever dies of a task of its own.  And only  *)
(* the shutdown under way ends a worker: the items a dead worker has left  *)
(* over never reach a pool in force.                                       *)
ExitsSuffice ==
  /\ pc[Main] \in ShutPC =>
       Cardinality({w \in WorkersOf[ShutPool] : pc[w] # "dead" /\ ~ToldToExit(w)})
         <= Cardinality(ExitsLeft)
  /\ \A w \in Workers : ToldToExit(w) => pc[Main] \in ShutPC /\ PoolOf(w) = ShutPool

-----------------------------------------------------------------------------
(* The promise the pool and its futures keep together. *)
FutureState ==
  [f \in Futures |->
     CASE born[f] # "made" -> "none"
       [] done[f] -> "done"
       [] born[f] = "made" /\ ~done[f] /\ \E w \in Workers : task[w] = f /\ pc[w] # "lock" -> "running"
       [] OTHER -> "pending"]

KnownOutcome == [f \in Futures |-> IF done[f] THEN outcome[f] ELSE None]

Promise == INSTANCE FutureSpec WITH state <- FutureState, outcome <- KnownOutcome

(* Each task is started at most once and has one outcome; a call returns   *)
(* that outcome, and never before the task has ended, although it reads    *)
(* _done, _exception and _result without the lock.                         *)
ImplementsFuture == Promise!Spec

-----------------------------------------------------------------------------
(* Liveness. *)

(* shutdown() ends: each worker is told to exit, and every join returns,   *)
(* even when tasks are pending, raise or exit the worker themselves;       *)
(* unless a task of that pool waits for a future for ever, or never stops  *)
(* to call futures.                                                        *)
ShutdownEnds ==
  pc[Main] \in ShutPC ~>
    \/ pc[Main] \in {"run", "exited"}
    \/ []<>(\E w \in Workers : PoolOf(w) = ShutPool /\ pc[w] \in CallPC)

(* With a patient script, whoever calls a future gets its outcome. *)
CallsReturn == \A t \in Callers : pc[t] \in CallPC ~> pc[t] = "run"

(* With a patient script, the task of every future runs to its end, unless *)
(* the program ends first.                                                 *)
TasksRun == \A f \in Futures : born[f] = "made" ~> (done[f] \/ exiting)
=============================================================================
