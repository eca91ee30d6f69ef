-------------------------- MODULE FuturePoolProofs --------------------------
(***************************************************************************)
(* Proofs about FuturePool, for any pools, workers, clients and futures.   *)
(* The inductive invariant Inv adds to the types and to the two safety     *)
(* properties what they rest on: where a thread may be (Control), when     *)
(* there is an outcome (Ended), how far a shutdown is (Shutdowns) and      *)
(* who holds the lock of a future (Locks).  Places, which rests on Inv,    *)
(* says where the task of each future is, and Exits what becomes of the    *)
(* exit items of a shutdown.  With Places FuturePool is shown to implement *)
(* FutureSpec.                                                             *)
(***************************************************************************)
EXTENDS FuturePool, DataLemmas, FiniteSetTheorems, TLAPS

Items == Futures \union ExitItems    \* what the queues hold

(* A put has its object in hand until it appends it, and a worker that has *)
(* come back from get() has one.                                           *)
Hands == /\ \A t \in Threads : qpc[t] = "append" => reg[t] \in Items
         /\ \A t \in Threads : pc[t] = "getting" /\ qpc[t] = "idle" => reg[t] \in Items

Control ==
  /\ \A t \in Threads : pc[t] \in TaskPC \union {"dead"} => t \in Workers
  /\ \A t \in Threads : task[t] # None => t \in Workers /\ pc[t] # "off"
  /\ \A t \in Threads : pc[t] \in {"lock", "setdone", "notify"} => task[t] # None
  /\ \A t \in Threads : pc[t] \in CallPC => callee[t] # None /\ callee[t] # task[t]
  /\ \A t \in Threads : pc[t] \in ShutPC => t = Main
  /\ \A p \in Pools \ built : \A w \in WorkersOf[p] : pc[w] = "off"

Ended ==
  /\ \A t \in Threads : pc[t] = "setdone" => outcome[task[t]] \in Outcomes
  /\ \A f \in Futures : done[f] => outcome[f] \in Outcomes
  /\ \A t \in Threads : pc[t] = "return" => done[callee[t]]

Shutdowns ==
  /\ current \in built \union {None}
  /\ next # None => pc[Main] \in ShutPC /\ ~exiting /\ next \in built
  /\ pc[Main] \in ShutPC => /\ ShutPool \in Pools
                            /\ todo <= Cardinality(WorkersOf[ShutPool])
                            /\ shut[ShutPool] >= 1
  /\ pc[Main] = "shutputting" => todo > 0
  /\ ~exiting => \A p \in Pools : shut[p] # 0 =>
       shut[p] = 1 /\ p \in built /\ p # next /\ (p = current => pc[Main] \in ShutPC)

Locks ==
  /\ \A t \in Threads : pc[t] \in {"check", "wait"} => fowner[callee[t]] = t
  /\ \A t \in Threads : task[t] # None /\ pc[t] # "lock" => fowner[task[t]] = t

PoolTypes == /\ current \in Pools \union {None}
             /\ built \subseteq Pools
             /\ shut \in [Pools -> 0..2]
             /\ pc \in [Threads -> PCs]
             /\ task \in [Threads -> Futures \union {None}]
             /\ todo \in Nat
             /\ next \in Pools \union {None}
             /\ exiting \in BOOLEAN
             /\ born \in [Futures -> {"no", "made", "failed"}]
             /\ done \in [Futures -> BOOLEAN]
             /\ outcome \in [Futures -> Outcomes \union {None}]
             /\ fowner \in [Futures -> Threads \union {None}]
             /\ fwaiters \in [Futures -> SUBSET Threads]
             /\ callee \in [Threads -> Futures \union {None}]
             /\ got \in [Threads -> {None} \union (Futures \X Outcomes)]

(* The queue's part of the types. *)
QueueTypes == /\ items   \in [Pools -> Seq(Items)]
              /\ owner   \in [Pools -> Threads \union {None}]
              /\ waiters \in [Pools -> SUBSET Threads]
              /\ qpc     \in [Threads -> {"idle", "append", "notify", "fast", "lock", "test", "wait", "waiting"}]
              /\ chan    \in [Threads -> Pools]
              /\ reg     \in [Threads -> Items \union {None}]

Inv == /\ QueueTypes /\ PoolTypes /\ Hands
       /\ Control /\ Ended /\ Shutdowns /\ Locks
       /\ NoSleepingCaller /\ RetiredPoolIsDead

-----------------------------------------------------------------------------
(* What the assumption says of the constants, with the sets of threads     *)
(* left folded.                                                            *)
LEMMA Constants ==
  /\ Main \in Threads /\ Main \notin Workers /\ Workers \subseteq Threads
  /\ FirstPool \in Pools
  /\ None \notin Threads /\ None \notin Futures /\ None \notin Pools /\ None \notin Items
  /\ \A p \in Pools : WorkersOf[p] \subseteq Workers /\ Cardinality(WorkersOf[p]) \in Nat
  /\ \A p, q \in Pools : p # q => WorkersOf[p] \intersect WorkersOf[q] = {}
  /\ \A w \in Workers : PoolOf(w) \in Pools
  /\ Endings \subseteq Outcomes
  /\ \A p \in Pools : \A i \in 1..Cardinality(WorkersOf[p]), r \in 0..1 :
       ExitItem(p, i, r) \in ExitItems
<1> USE FuturePoolAssumption
<1>1. Main \in Threads /\ Main \notin Workers /\ Workers \subseteq Threads
  BY DEF Threads
<1>2. \A p \in Pools : WorkersOf[p] \subseteq Workers
  OBVIOUS
<1>3. \A p \in Pools : Cardinality(WorkersOf[p]) \in Nat
  BY FS_CardinalityType
<1>4. \A w \in Workers : PoolOf(w) \in Pools
  BY DEF Workers, PoolOf
<1>5. Endings \subseteq Outcomes
  BY DEF Outcomes
<1>6. \A p \in Pools : \A i \in 1..Cardinality(WorkersOf[p]), r \in 0..1 :
        ExitItem(p, i, r) \in ExitItems
  BY DEF ExitItems
<1>7. None \notin Threads /\ None \notin Futures /\ None \notin Pools /\ None \notin Items
  BY DEF Items
<1> QED
  BY <1>1, <1>3, <1>4, <1>5, <1>6, <1>7

(* pop() of a list that holds something *)
LEMMA PopItems ==
  ASSUME NEW s \in Seq(Items), s # <<>>
  PROVE  SubSeq(s, 1, Len(s) - 1) \in Seq(Items) /\ s[Len(s)] \in Items
BY PopKeepsPrefix

(* TypeOK speaks of the queues and of the rest. *)
LEMMA TypesAre == TypeOK <=> QueueTypes /\ PoolTypes
BY DEF TypeOK, PoolTypes, Q!QTypeOK, QueueTypes, Q!PutPC, Q!GetPC, Items

(* What an operation of t on the queues does to the types and to what the  *)
(* threads have in hand.                                                   *)
LEMMA QueueOperation ==
  ASSUME QueueTypes, Hands, NEW t \in Threads,
         \/ \E p \in Pools : Q!GetStart(t, p)
         \/ \E p \in Pools, v \in Items : Q!PutStart(t, p, v)
         \/ Q!PutAppend(t) \/ Q!PutNotify(t) \/ Q!GetStep(t)
  PROVE  /\ QueueTypes'
         /\ \A u \in Threads : qpc'[u] = "append" => reg'[u] \in Items
         /\ \A u \in Threads \ {t} : reg'[u] = reg[u] /\ (qpc'[u] = "idle" => qpc[u] = "idle")
         /\ Q!GetStep(t) /\ qpc'[t] = "idle" => reg'[t] \in Items
         /\ Q!PutAppend(t) \/ (\E p \in Pools : Q!GetStart(t, p)) => qpc'[t] # "idle"
<1> USE Constants DEF QueueTypes, Hands
<1>1. CASE \E p \in Pools : Q!GetStart(t, p)
  BY <1>1 DEF Q!GetStart, Q!GetStep, Q!GetFastPop, Q!GetFastMiss, Q!GetLock, Q!GetTestPop,
     Q!GetTestMiss, Q!GetWait
<1>2. CASE \E p \in Pools, v \in Items : Q!PutStart(t, p, v)
  BY <1>2 DEF Q!PutStart, Q!GetStep, Q!GetFastPop, Q!GetFastMiss, Q!GetLock, Q!GetTestPop,
     Q!GetTestMiss, Q!GetWait, Q!GetStart, Q!PutAppend
<1>3. CASE Q!PutAppend(t)
  BY <1>3 DEF Q!PutAppend, Q!GetStep, Q!GetFastPop, Q!GetFastMiss, Q!GetLock,
     Q!GetTestPop, Q!GetTestMiss, Q!GetWait
<1>4. CASE Q!PutNotify(t)
  BY <1>4 DEF Q!PutNotify, Q!GetStep, Q!GetFastPop, Q!GetFastMiss, Q!GetLock,
     Q!GetTestPop, Q!GetTestMiss, Q!GetWait, Q!GetStart, Q!PutAppend
<1>5. CASE Q!GetFastPop(t) \/ Q!GetTestPop(t)
  <2>1. items[chan[t]] \in Seq(Items) /\ items[chan[t]] # <<>>
    BY <1>5 DEF Q!GetFastPop, Q!GetTestPop, Q!Pop
  <2> DEFINE s == items[chan[t]]
             rest == SubSeq(s, 1, Len(s) - 1)
             top == s[Len(s)]
  <2>2. rest \in Seq(Items) /\ top \in Items
    BY <2>1, PopItems
  <2>3. /\ reg' = [reg EXCEPT ![t] = top]
        /\ items' = [items EXCEPT ![chan[t]] = rest]
        /\ qpc' = [qpc EXCEPT ![t] = "idle"]
        /\ owner' = owner \/ owner' = [owner EXCEPT ![chan[t]] = None]
        /\ UNCHANGED <<waiters, chan>>
    BY <1>5 DEF Q!GetFastPop, Q!GetTestPop, Q!Pop
  <2> HIDE DEF rest, top
  <2>4. ~Q!PutAppend(t) /\ ~\E p \in Pools : Q!GetStart(t, p)
    BY <1>5 DEF Q!GetFastPop, Q!GetTestPop, Q!PutAppend, Q!GetStart
  <2> QED
    BY <2>2, <2>3, <2>4
<1>6. CASE Q!GetFastMiss(t) \/ Q!GetTestMiss(t)
  <2>1. PICK l \in {"lock", "wait"} : qpc' = [qpc EXCEPT ![t] = l]
    BY <1>6 DEF Q!GetFastMiss, Q!GetTestMiss
  <2>2. qpc[t] \in {"fast", "test"} /\ UNCHANGED <<items, owner, waiters, chan, reg>>
    BY <1>6 DEF Q!GetFastMiss, Q!GetTestMiss
  <2>3. ~Q!PutAppend(t) /\ ~\E p \in Pools : Q!GetStart(t, p)
    BY <2>2 DEF Q!PutAppend, Q!GetStart
  <2> QED
    BY <2>1, <2>2, <2>3
<1>7. CASE Q!GetLock(t)
  BY <1>7 DEF Q!GetLock, Q!PutAppend, Q!GetStart
<1>8. CASE Q!GetWait(t)
  BY <1>8 DEF Q!GetWait, Q!PutAppend, Q!GetStart
<1> QED
  BY <1>1, <1>2, <1>3, <1>4, <1>5, <1>6, <1>7, <1>8 DEF Q!GetStep

(* t appends its object, or goes on with its get(). *)
LEMMA QueueStepStep ==
  ASSUME Inv, NEW t \in Threads, QueueStep(t)
  PROVE  Inv'
<1>a. /\ QueueTypes'
      /\ \A u \in Threads : qpc'[u] = "append" => reg'[u] \in Items
      /\ \A u \in Threads \ {t} : reg'[u] = reg[u] /\ (qpc'[u] = "idle" => qpc[u] = "idle")
      /\ qpc'[t] = "idle" => reg'[t] \in Items
  BY QueueOperation DEF Inv, QueueStep
<1> USE Constants DEF Inv, QueueStep, Goto, qvars, pvars, fvars
<1>1. PoolTypes'
  BY DEF PoolTypes, Control, Ended, PCs, CallPC, TaskPC, ShutPC
<1>2. QueueTypes'
  BY <1>a
<1>3. Hands'
  BY <1>a DEF Inv, QueueStep, Goto, Hands, PoolTypes
<1>4. Control'
  BY DEF PoolTypes, Control, NoSleepingCaller, PCs, CallPC, TaskPC, ShutPC
<1>5. Ended'
  BY DEF PoolTypes, Control, Ended, PCs
<1>6. Shutdowns'
  BY DEF PoolTypes, Control, Shutdowns, ShutPool, PCs, TaskPC, CallPC, ShutPC
<1>7. Locks'
  BY DEF PoolTypes, Control, Locks, NoSleepingCaller, PCs, CallPC
<1>8. NoSleepingCaller'
  BY DEF PoolTypes, Control, Locks, NoSleepingCaller, PCs, CallPC, TaskPC
<1>9. RetiredPoolIsDead'
  BY DEF PoolTypes, Control, Shutdowns, RetiredPoolIsDead, PCs, CallPC, TaskPC, ShutPC
<1> QED
  BY <1>1, <1>2, <1>3, <1>4, <1>5, <1>6, <1>7, <1>8, <1>9 DEF Inv

(* t notifies, and is back from put(). *)
LEMMA PutReturnsStep ==
  ASSUME Inv, NEW t \in Threads, PutReturns(t)
  PROVE  Inv'
<1>a. /\ QueueTypes'
      /\ \A u \in Threads : qpc'[u] = "append" => reg'[u] \in Items
      /\ \A u \in Threads \ {t} : reg'[u] = reg[u] /\ (qpc'[u] = "idle" => qpc[u] = "idle")
  BY QueueOperation DEF Inv, PutReturns
<1> USE Constants DEF Inv, PutReturns, Goto, qvars, pvars, fvars
<1>1. PoolTypes'
  <2>1. pc[t] = "shutputting" => t = Main /\ todo > 0
    BY DEF Inv, Control, ShutPC, Shutdowns
  <2> QED
    BY <2>1, Constants DEF Inv, PutReturns, Goto, fvars, PoolTypes, PCs, CallPC, TaskPC,
       ShutPC
<1>2. QueueTypes'
  BY <1>a
<1>3. Hands'
  BY <1>a DEF Inv, PutReturns, Goto, Hands, PoolTypes
<1>4. Control'
  BY DEF PoolTypes, Control, NoSleepingCaller, PCs, CallPC, TaskPC, ShutPC
<1>5. Ended'
  BY DEF PoolTypes, Control, Ended, PCs
<1>6. Shutdowns'
  BY DEF PoolTypes, Control, Shutdowns, ShutPool, PCs, TaskPC, CallPC, ShutPC
<1>7. Locks'
  BY DEF PoolTypes, Control, Locks, NoSleepingCaller, PCs, CallPC
<1>8. NoSleepingCaller'
  BY DEF PoolTypes, Control, Locks, NoSleepingCaller, PCs, CallPC, TaskPC
<1>9. RetiredPoolIsDead'
  BY DEF PoolTypes, Control, Shutdowns, RetiredPoolIsDead, PCs, CallPC, TaskPC, ShutPC
<1> QED
  BY <1>1, <1>2, <1>3, <1>4, <1>5, <1>6, <1>7, <1>8, <1>9 DEF Inv

(* t makes f and begins to put its task. *)
LEMMA NewFutureStep ==
  ASSUME Inv, NEW t \in Threads, NEW f \in Futures, NewFuture(t, f)
  PROVE  Inv'
<1>a. /\ QueueTypes'
      /\ \A u \in Threads : qpc'[u] = "append" => reg'[u] \in Items
      /\ \A u \in Threads \ {t} : reg'[u] = reg[u] /\ (qpc'[u] = "idle" => qpc[u] = "idle")
  <2>1. \E p \in Pools, v \in Items : Q!PutStart(t, p, v)
    BY DEF Inv, NewFuture, PoolTypes, Items
  <2> QED
    BY <2>1, QueueOperation DEF Inv
<1> USE Constants DEF Inv, NewFuture, Goto, Running, qvars, pvars, fvars
<1>1. PoolTypes'
  BY DEF PoolTypes, Control, Ended, PCs, CallPC, TaskPC, ShutPC
<1>2. QueueTypes'
  BY <1>a
<1>3. Hands'
  BY <1>a DEF Inv, NewFuture, Goto, Hands, PoolTypes
<1>4. Control'
  BY DEF PoolTypes, Control, NoSleepingCaller, PCs, CallPC, TaskPC, ShutPC
<1>5. Ended'
  BY DEF PoolTypes, Control, Ended, PCs
<1>6. Shutdowns'
  BY DEF PoolTypes, Control, Shutdowns, ShutPool, PCs, TaskPC, CallPC, ShutPC
<1>7. Locks'
  BY DEF PoolTypes, Control, Locks, NoSleepingCaller, PCs, CallPC
<1>8. NoSleepingCaller'
  BY DEF PoolTypes, Control, Locks, NoSleepingCaller, PCs, CallPC, TaskPC
<1>9. RetiredPoolIsDead'
  BY DEF PoolTypes, Control, Shutdowns, RetiredPoolIsDead, PCs, CallPC, TaskPC, ShutPC
<1> QED
  BY <1>1, <1>2, <1>3, <1>4, <1>5, <1>6, <1>7, <1>8, <1>9 DEF Inv

(* t fails to make f, for there is no pool. *)
LEMMA NewFutureNoPoolStep ==
  ASSUME Inv, NEW t \in Threads, NEW f \in Futures, NewFutureNoPool(t, f)
  PROVE  Inv'
<1> USE Constants DEF Inv, NewFutureNoPool, Goto, qvars, pvars, fvars
<1>1. PoolTypes'
  BY DEF PoolTypes, Control, Ended, PCs, CallPC, TaskPC, ShutPC
<1>2. QueueTypes'
  BY DEF QueueTypes
<1>3. Hands'
  BY DEF Hands, PoolTypes, PCs
<1>4. Control'
  BY DEF PoolTypes, Control, NoSleepingCaller, PCs, CallPC, TaskPC, ShutPC
<1>5. Ended'
  BY DEF PoolTypes, Control, Ended, PCs
<1>6. Shutdowns'
  BY DEF PoolTypes, Control, Shutdowns, ShutPool, PCs, TaskPC, CallPC, ShutPC
<1>7. Locks'
  BY DEF PoolTypes, Control, Locks, NoSleepingCaller, PCs, CallPC
<1>8. NoSleepingCaller'
  BY DEF PoolTypes, Control, Locks, NoSleepingCaller, PCs, CallPC, TaskPC
<1>9. RetiredPoolIsDead'
  BY DEF PoolTypes, Control, Shutdowns, RetiredPoolIsDead, PCs, CallPC, TaskPC, ShutPC
<1> QED
  BY <1>1, <1>2, <1>3, <1>4, <1>5, <1>6, <1>7, <1>8, <1>9 DEF Inv

(* t calls f, and has seen whether it is done. *)
LEMMA CallFutureStep ==
  ASSUME Inv, NEW t \in Threads, NEW f \in Futures, CallFuture(t, f)
  PROVE  Inv'
<1> USE Constants DEF Inv, CallFuture, Goto, Running, qvars, pvars, fvars
<1>1. PoolTypes'
  BY DEF PoolTypes, Control, Ended, PCs, CallPC, TaskPC, ShutPC
<1>2. QueueTypes'
  BY DEF QueueTypes
<1>3. Hands'
  BY DEF Hands, PoolTypes, PCs
<1>4. Control'
  BY DEF PoolTypes, Control, NoSleepingCaller, PCs, CallPC, TaskPC, ShutPC
<1>5. Ended'
  BY DEF PoolTypes, Control, Ended, PCs
<1>6. Shutdowns'
  BY DEF PoolTypes, Control, Shutdowns, ShutPool, PCs, TaskPC, CallPC, ShutPC
<1>7. Locks'
  BY DEF PoolTypes, Control, Locks, NoSleepingCaller, PCs, CallPC
<1>8. NoSleepingCaller'
  BY DEF PoolTypes, Control, Locks, NoSleepingCaller, PCs, CallPC, TaskPC
<1>9. RetiredPoolIsDead'
  BY DEF PoolTypes, Control, Shutdowns, RetiredPoolIsDead, PCs, CallPC, TaskPC, ShutPC
<1> QED
  BY <1>1, <1>2, <1>3, <1>4, <1>5, <1>6, <1>7, <1>8, <1>9 DEF Inv

(* t takes the lock of the future it calls. *)
LEMMA CallEnterStep ==
  ASSUME Inv, NEW t \in Threads, CallEnter(t)
  PROVE  Inv'
<1> USE Constants DEF Inv, CallEnter, Goto, qvars, pvars, fvars
<1>1. PoolTypes'
  BY DEF PoolTypes, Control, Ended, PCs, CallPC, TaskPC, ShutPC
<1>2. QueueTypes'
  BY DEF QueueTypes
<1>3. Hands'
  BY DEF Hands, PoolTypes, PCs
<1>4. Control'
  BY DEF PoolTypes, Control, NoSleepingCaller, PCs, CallPC, TaskPC, ShutPC
<1>5. Ended'
  BY DEF PoolTypes, Control, Ended, PCs
<1>6. Shutdowns'
  BY DEF PoolTypes, Control, Shutdowns, ShutPool, PCs, TaskPC, CallPC, ShutPC
<1>7. Locks'
  BY DEF PoolTypes, Control, Locks, NoSleepingCaller, PCs, CallPC
<1>8. NoSleepingCaller'
  BY DEF PoolTypes, Control, Locks, NoSleepingCaller, PCs, CallPC, TaskPC
<1>9. RetiredPoolIsDead'
  BY DEF PoolTypes, Control, Shutdowns, RetiredPoolIsDead, PCs, CallPC, TaskPC, ShutPC
<1> QED
  BY <1>1, <1>2, <1>3, <1>4, <1>5, <1>6, <1>7, <1>8, <1>9 DEF Inv

(* t looks again, with the lock. *)
LEMMA CallCheckStep ==
  ASSUME Inv, NEW t \in Threads, CallCheck(t)
  PROVE  Inv'
<1> USE Constants DEF Inv, CallCheck, Goto, qvars, pvars, fvars
<1>1. PoolTypes'
  BY DEF PoolTypes, Control, Ended, PCs, CallPC, TaskPC, ShutPC
<1>2. QueueTypes'
  BY DEF QueueTypes
<1>3. Hands'
  BY DEF Hands, PoolTypes, PCs
<1>4. Control'
  BY DEF PoolTypes, Control, NoSleepingCaller, PCs, CallPC, TaskPC, ShutPC
<1>5. Ended'
  BY DEF PoolTypes, Control, Ended, PCs
<1>6. Shutdowns'
  BY DEF PoolTypes, Control, Shutdowns, ShutPool, PCs, TaskPC, CallPC, ShutPC
<1>7. Locks'
  BY DEF PoolTypes, Control, Locks, NoSleepingCaller, PCs, CallPC
<1>8. NoSleepingCaller'
  BY DEF PoolTypes, Control, Locks, NoSleepingCaller, PCs, CallPC, TaskPC
<1>9. RetiredPoolIsDead'
  BY DEF PoolTypes, Control, Shutdowns, RetiredPoolIsDead, PCs, CallPC, TaskPC, ShutPC
<1> QED
  BY <1>1, <1>2, <1>3, <1>4, <1>5, <1>6, <1>7, <1>8, <1>9 DEF Inv

(* t joins the wait set and releases the lock in one step. *)
LEMMA CallWaitStep ==
  ASSUME Inv, NEW t \in Threads, CallWait(t)
  PROVE  Inv'
<1> USE Constants DEF Inv, CallWait, Goto, qvars, pvars, fvars
<1>1. PoolTypes'
  BY DEF PoolTypes, Control, Ended, PCs, CallPC, TaskPC, ShutPC
<1>2. QueueTypes'
  BY DEF QueueTypes
<1>3. Hands'
  BY DEF Hands, PoolTypes, PCs
<1>4. Control'
  BY DEF PoolTypes, Control, NoSleepingCaller, PCs, CallPC, TaskPC, ShutPC
<1>5. Ended'
  BY DEF PoolTypes, Control, Ended, PCs
<1>6. Shutdowns'
  BY DEF PoolTypes, Control, Shutdowns, ShutPool, PCs, TaskPC, CallPC, ShutPC
<1>7. Locks'
  BY DEF PoolTypes, Control, Locks, NoSleepingCaller, PCs, CallPC
<1>8. NoSleepingCaller'
  BY DEF PoolTypes, Control, Locks, NoSleepingCaller, PCs, CallPC, TaskPC
<1>9. RetiredPoolIsDead'
  BY DEF PoolTypes, Control, Shutdowns, RetiredPoolIsDead, PCs, CallPC, TaskPC, ShutPC
<1> QED
  BY <1>1, <1>2, <1>3, <1>4, <1>5, <1>6, <1>7, <1>8, <1>9 DEF Inv

(* t has the outcome. *)
LEMMA CallReturnStep ==
  ASSUME Inv, NEW t \in Threads, CallReturn(t)
  PROVE  Inv'
<1> USE Constants DEF Inv, CallReturn, Goto, qvars, pvars, fvars
<1>1. PoolTypes'
  BY DEF PoolTypes, Control, Ended, PCs, CallPC, TaskPC, ShutPC
<1>2. QueueTypes'
  BY DEF QueueTypes
<1>3. Hands'
  BY DEF Hands, PoolTypes, PCs
<1>4. Control'
  BY DEF PoolTypes, Control, NoSleepingCaller, PCs, CallPC, TaskPC, ShutPC
<1>5. Ended'
  BY DEF PoolTypes, Control, Ended, PCs
<1>6. Shutdowns'
  BY DEF PoolTypes, Control, Shutdowns, ShutPool, PCs, TaskPC, CallPC, ShutPC
<1>7. Locks'
  BY DEF PoolTypes, Control, Locks, NoSleepingCaller, PCs, CallPC
<1>8. NoSleepingCaller'
  BY DEF PoolTypes, Control, Locks, NoSleepingCaller, PCs, CallPC, TaskPC
<1>9. RetiredPoolIsDead'
  BY DEF PoolTypes, Control, Shutdowns, RetiredPoolIsDead, PCs, CallPC, TaskPC, ShutPC
<1> QED
  BY <1>1, <1>2, <1>3, <1>4, <1>5, <1>6, <1>7, <1>8, <1>9 DEF Inv

(* Worker t begins a get() on the queue of its pool. *)
LEMMA WorkerLoopStep ==
  ASSUME Inv, NEW t \in Threads, WorkerLoop(t)
  PROVE  Inv'
<1>a. /\ QueueTypes'
      /\ \A u \in Threads : qpc'[u] = "append" => reg'[u] \in Items
      /\ \A u \in Threads \ {t} : reg'[u] = reg[u] /\ (qpc'[u] = "idle" => qpc[u] = "idle")
      /\ qpc'[t] # "idle"
  <2>1. t \in Workers
    BY Constants DEF Inv, WorkerLoop, Control, TaskPC
  <2>2. \E p \in Pools : Q!GetStart(t, p)
    BY <2>1, Constants DEF WorkerLoop
  <2> QED
    BY <2>2, QueueOperation DEF Inv
<1> USE Constants DEF Inv, WorkerLoop, Goto, qvars, pvars, fvars
<1>1. PoolTypes'
  BY DEF PoolTypes, Control, Ended, PCs, CallPC, TaskPC, ShutPC
<1>2. QueueTypes'
  BY <1>a
<1>3. Hands'
  BY <1>a DEF Inv, WorkerLoop, Goto, Hands, PoolTypes
<1>4. Control'
  BY DEF PoolTypes, Control, NoSleepingCaller, PCs, CallPC, TaskPC, ShutPC
<1>5. Ended'
  BY DEF PoolTypes, Control, Ended, PCs
<1>6. Shutdowns'
  BY DEF PoolTypes, Control, Shutdowns, ShutPool, PCs, TaskPC, CallPC, ShutPC
<1>7. Locks'
  BY DEF PoolTypes, Control, Locks, NoSleepingCaller, PCs, CallPC
<1>8. NoSleepingCaller'
  BY DEF PoolTypes, Control, Locks, NoSleepingCaller, PCs, CallPC, TaskPC
<1>9. RetiredPoolIsDead'
  BY DEF PoolTypes, Control, Shutdowns, RetiredPoolIsDead, PCs, CallPC, TaskPC, ShutPC
<1> QED
  BY <1>1, <1>2, <1>3, <1>4, <1>5, <1>6, <1>7, <1>8, <1>9 DEF Inv

(* Worker t ends, or has a task. *)
LEMMA DispatchStep ==
  ASSUME Inv, NEW t \in Threads, Dispatch(t)
  PROVE  Inv'
<1>a. t \in Workers /\ (reg[t] \notin ExitItems => reg[t] \in Futures)
  BY Constants DEF Inv, Dispatch, Hands, Items, Control, TaskPC
<1>b. pc' = [pc EXCEPT ![t] = IF reg[t] \in ExitItems THEN "dead" ELSE "lock"]
  BY DEF Dispatch, Goto
<1>c. task' = [task EXCEPT ![t] = IF reg[t] \in ExitItems THEN task[t] ELSE reg[t]]
  BY DEF Dispatch, Inv, PoolTypes
<1>1. PoolTypes'
  BY <1>a, <1>b, <1>c DEF Inv, Dispatch, qvars, pvars, fvars, PoolTypes, PCs, TaskPC
<1>2. QueueTypes'
  BY Constants DEF Inv, Dispatch, Goto, qvars, pvars, fvars, QueueTypes
<1>3. Hands'
  BY Constants DEF Inv, Dispatch, Goto, qvars, pvars, fvars, Hands, PoolTypes, PCs
<1>4. Control'
  BY Constants, <1>a, <1>b, <1>c DEF Inv, Dispatch, qvars, pvars, fvars, PoolTypes,
     Control, CallPC, TaskPC, ShutPC
<1>5. Ended'
  BY Constants DEF Inv, Dispatch, Goto, qvars, pvars, fvars, PoolTypes, Control, Ended,
     PCs
<1>6. Shutdowns'
  BY Constants DEF Inv, Dispatch, Goto, qvars, pvars, fvars, PoolTypes, Control,
     Shutdowns, ShutPool, PCs, TaskPC, CallPC, ShutPC
<1>7. Locks'
  BY Constants DEF Inv, Dispatch, Goto, qvars, pvars, fvars, PoolTypes, Control, Locks,
     NoSleepingCaller, PCs, CallPC
<1>8. NoSleepingCaller'
  BY Constants DEF Inv, Dispatch, Goto, qvars, pvars, fvars, PoolTypes, Control, Locks,
     NoSleepingCaller, PCs, CallPC, TaskPC
<1>9. RetiredPoolIsDead'
  BY Constants DEF Inv, Dispatch, Goto, qvars, pvars, fvars, PoolTypes, Control,
     Shutdowns, RetiredPoolIsDead, PCs, CallPC, TaskPC, ShutPC
<1> QED
  BY <1>1, <1>2, <1>3, <1>4, <1>5, <1>6, <1>7, <1>8, <1>9 DEF Inv

(* Worker t takes the lock of its task's future. *)
LEMMA TaskLockStep ==
  ASSUME Inv, NEW t \in Threads, TaskLock(t)
  PROVE  Inv'
<1> USE Constants DEF Inv, TaskLock, Goto, qvars, pvars, fvars
<1>1. PoolTypes'
  BY DEF PoolTypes, Control, Ended, PCs, CallPC, TaskPC, ShutPC
<1>2. QueueTypes'
  BY DEF QueueTypes
<1>3. Hands'
  BY DEF Hands, PoolTypes, PCs
<1>4. Control'
  BY DEF PoolTypes, Control, NoSleepingCaller, PCs, CallPC, TaskPC, ShutPC
<1>5. Ended'
  BY DEF PoolTypes, Control, Ended, PCs
<1>6. Shutdowns'
  BY DEF PoolTypes, Control, Shutdowns, ShutPool, PCs, TaskPC, CallPC, ShutPC
<1>7. Locks'
  BY DEF PoolTypes, Control, Locks, NoSleepingCaller, PCs, CallPC
<1>8. NoSleepingCaller'
  BY DEF PoolTypes, Control, Locks, NoSleepingCaller, PCs, CallPC, TaskPC
<1>9. RetiredPoolIsDead'
  BY DEF PoolTypes, Control, Shutdowns, RetiredPoolIsDead, PCs, CallPC, TaskPC, ShutPC
<1> QED
  BY <1>1, <1>2, <1>3, <1>4, <1>5, <1>6, <1>7, <1>8, <1>9 DEF Inv

(* The function of the task of t ends. *)
LEMMA TaskEndStep ==
  ASSUME Inv, NEW t \in Threads, NEW o \in Endings, TaskEnd(t, o)
  PROVE  Inv'
<1> USE Constants DEF Inv, TaskEnd, Goto, qvars, pvars, fvars
<1>1. PoolTypes'
  BY DEF PoolTypes, Control, Ended, PCs, CallPC, TaskPC, ShutPC
<1>2. QueueTypes'
  BY DEF QueueTypes
<1>3. Hands'
  BY DEF Hands, PoolTypes, PCs
<1>4. Control'
  BY DEF PoolTypes, Control, NoSleepingCaller, PCs, CallPC, TaskPC, ShutPC
<1>5. Ended'
  BY DEF PoolTypes, Control, Ended, PCs
<1>6. Shutdowns'
  BY DEF PoolTypes, Control, Shutdowns, ShutPool, PCs, TaskPC, CallPC, ShutPC
<1>7. Locks'
  BY DEF PoolTypes, Control, Locks, NoSleepingCaller, PCs, CallPC
<1>8. NoSleepingCaller'
  BY DEF PoolTypes, Control, Locks, NoSleepingCaller, PCs, CallPC, TaskPC
<1>9. RetiredPoolIsDead'
  BY DEF PoolTypes, Control, Shutdowns, RetiredPoolIsDead, PCs, CallPC, TaskPC, ShutPC
<1> QED
  BY <1>1, <1>2, <1>3, <1>4, <1>5, <1>6, <1>7, <1>8, <1>9 DEF Inv

(* Worker t sets _done. *)
LEMMA TaskSetDoneStep ==
  ASSUME Inv, NEW t \in Threads, TaskSetDone(t)
  PROVE  Inv'
<1> USE Constants DEF Inv, TaskSetDone, Goto, qvars, pvars, fvars
<1>1. PoolTypes'
  BY DEF PoolTypes, Control, Ended, PCs, CallPC, TaskPC, ShutPC
<1>2. QueueTypes'
  BY DEF QueueTypes
<1>3. Hands'
  BY DEF Hands, PoolTypes, PCs
<1>4. Control'
  BY DEF PoolTypes, Control, NoSleepingCaller, PCs, CallPC, TaskPC, ShutPC
<1>5. Ended'
  BY DEF PoolTypes, Control, Ended, PCs
<1>6. Shutdowns'
  BY DEF PoolTypes, Control, Shutdowns, ShutPool, PCs, TaskPC, CallPC, ShutPC
<1>7. Locks'
  BY DEF PoolTypes, Control, Locks, NoSleepingCaller, PCs, CallPC
<1>8. NoSleepingCaller'
  BY DEF PoolTypes, Control, Locks, NoSleepingCaller, PCs, CallPC, TaskPC
<1>9. RetiredPoolIsDead'
  BY DEF PoolTypes, Control, Shutdowns, RetiredPoolIsDead, PCs, CallPC, TaskPC, ShutPC
<1> QED
  BY <1>1, <1>2, <1>3, <1>4, <1>5, <1>6, <1>7, <1>8, <1>9 DEF Inv

(* Worker t wakes the callers, releases the lock and goes on or ends. *)
LEMMA TaskNotifyStep ==
  ASSUME Inv, NEW t \in Threads, TaskNotify(t)
  PROVE  Inv'
<1>a. t \in Workers /\ task[t] \in Futures
  BY Constants DEF Inv, TaskNotify, Control, TaskPC, PoolTypes
<1>b. \A u \in fwaiters[task[t]] : u \in Threads /\ pc[u] = "waiting"
  BY <1>a DEF Inv, PoolTypes, NoSleepingCaller
<1>c. /\ pc' \in [Threads -> PCs]
      /\ pc'[t] \in {"dead", "loop"}
      /\ \A u \in Threads \ {t} : pc'[u] = pc[u] \/ (pc[u] = "waiting" /\ pc'[u] = "enter")
  BY <1>a, <1>b DEF Inv, TaskNotify, PoolTypes, PCs, CallPC, TaskPC
<1>1. PoolTypes'
  BY Constants DEF Inv, TaskNotify, Goto, qvars, pvars, fvars, PoolTypes, Control, Ended,
     PCs, CallPC, TaskPC, ShutPC
<1>2. QueueTypes'
  BY Constants DEF Inv, TaskNotify, Goto, qvars, pvars, fvars, QueueTypes
<1>3. Hands'
  BY Constants DEF Inv, TaskNotify, Goto, qvars, pvars, fvars, Hands, PoolTypes, PCs
<1>4. Control'
  BY Constants DEF Inv, TaskNotify, Goto, qvars, pvars, fvars, PoolTypes, Control,
     NoSleepingCaller, PCs, CallPC, TaskPC, ShutPC
<1>5. Ended'
  BY Constants DEF Inv, TaskNotify, Goto, qvars, pvars, fvars, PoolTypes, Control, Ended,
     PCs
<1>6. Shutdowns'
  <2>1. Main # t /\ (pc'[Main] \in ShutPC <=> pc[Main] \in ShutPC)
    BY Constants, <1>a, <1>c DEF ShutPC
  <2>2. pc'[Main] = "shutputting" => pc[Main] = "shutputting"
    BY Constants, <1>a, <1>c
  <2> QED
    BY <2>1, <2>2 DEF Inv, TaskNotify, pvars, Shutdowns, ShutPool
<1>7. Locks'
  BY Constants DEF Inv, TaskNotify, Goto, qvars, pvars, fvars, PoolTypes, Control, Locks,
     NoSleepingCaller, PCs, CallPC
<1>8. NoSleepingCaller'
  BY Constants DEF Inv, TaskNotify, Goto, qvars, pvars, fvars, PoolTypes, Control, Locks,
     NoSleepingCaller, PCs, CallPC, TaskPC
<1>9. RetiredPoolIsDead'
  BY Constants, <1>c DEF Inv, TaskNotify, pvars, PoolTypes, RetiredPoolIsDead
<1> QED
  BY <1>1, <1>2, <1>3, <1>4, <1>5, <1>6, <1>7, <1>8, <1>9 DEF Inv

(* A pool is replaced: its shutdown begins, or there was none. *)
LEMMA SetThreadPoolStep ==
  ASSUME Inv, NEW th \in Pools \union {None}, SetThreadPool(th)
  PROVE  Inv'
<1> DEFINE ws == IF th = None THEN {} ELSE WorkersOf[th]
<1>a. ws \subseteq Workers /\ \A u \in ws : u \in Threads \ {Main} /\ pc[u] = "off" /\ task[u] = None
  BY Constants DEF Inv, SetThreadPool, Control
<1>b. /\ pc[Main] = "run" /\ next = None /\ exiting = FALSE
      /\ th \notin built /\ built' = built \union ({th} \ {None})
      /\ UNCHANGED <<qvars, fvars, task, exiting>>
  BY Constants DEF Inv, SetThreadPool, Shutdowns, ShutPC, PoolTypes
<1>c. /\ \A u \in ws : pc'[u] = "loop"
      /\ \A u \in Threads \ {Main} : u \notin ws => pc'[u] = pc[u]
      /\ pc' \in [Threads -> PCs]
      /\ pc'[Main] = IF current = None THEN "run" ELSE "shutput"
  <2>1. pc' = IF current = None THEN Start(ws) ELSE [Start(ws) EXCEPT ![Main] = "shutput"]
    BY DEF SetThreadPool
  <2> HIDE DEF ws
  <2>2. Start(ws) = [u \in Threads |-> IF u \in ws THEN "loop" ELSE pc[u]]
    BY DEF Start
  <2>3. Start(ws) \in [Threads -> PCs]
    BY <2>2 DEF Inv, PoolTypes, PCs, TaskPC
  <2> QED
    BY <1>a, <1>b, <2>1, <2>2, <2>3, Constants DEF PCs, ShutPC
<1>d. \/ current = None /\ current' = th /\ UNCHANGED <<shut, todo, next>>
      \/ /\ current \in built /\ current' = current /\ next' = th /\ shut[current] = 0
         /\ shut' = [shut EXCEPT ![current] = 1] /\ todo' = Cardinality(WorkersOf[current])
  <2>1. current # None => current \in built /\ shut[current] = 0
    BY <1>b DEF Inv, Shutdowns, PoolTypes, ShutPC
  <2>2. shut[current] = 0 => shut[current] + 1 = 1
    OBVIOUS
  <2> QED
    BY <2>1, <2>2 DEF SetThreadPool, BeginShutdown
<1> HIDE DEF ws
<1>1. PoolTypes'
  BY Constants, <1>a, <1>b, <1>c, <1>d DEF Inv, qvars, fvars, PoolTypes
<1>2. QueueTypes'
  BY <1>b DEF Inv, QueueTypes, qvars
<1>3. Hands'
  BY Constants, <1>a, <1>b, <1>c, <1>d DEF Inv, qvars, fvars, PoolTypes, Hands
<1>4. Control'
  BY Constants, <1>a, <1>b, <1>c, <1>d DEF Inv, qvars, fvars, PoolTypes, Control, CallPC,
     TaskPC, ShutPC, ws
<1>5. Ended'
  BY Constants, <1>a, <1>b, <1>c, <1>d DEF Inv, qvars, fvars, PoolTypes, Control, Ended
<1>6. Shutdowns'
  BY Constants, <1>a, <1>b, <1>c, <1>d DEF Inv, qvars, fvars, PoolTypes, Shutdowns,
     ShutPool, ShutPC
<1>7. Locks'
  BY Constants, <1>a, <1>b, <1>c, <1>d DEF Inv, qvars, fvars, PoolTypes, Locks, Control
<1>8. NoSleepingCaller'
  BY Constants, <1>a, <1>b, <1>c, <1>d DEF Inv, qvars, fvars, PoolTypes, NoSleepingCaller,
     CallPC
<1>9. RetiredPoolIsDead'
  BY Constants, <1>a, <1>b, <1>c, <1>d DEF Inv, qvars, fvars, PoolTypes,
     RetiredPoolIsDead, ws
<1> QED
  BY <1>1, <1>2, <1>3, <1>4, <1>5, <1>6, <1>7, <1>8, <1>9 DEF Inv

(* The shutdown of the first pool begins, whichever pool is in force. *)
LEMMA ExitStep == Inv /\ Exit => Inv'
<1> SUFFICES ASSUME Inv, Exit PROVE Inv'
  OBVIOUS
<1> USE Constants DEF Inv, Exit, Goto, BeginShutdown, qvars, pvars, fvars
<1>1. PoolTypes'
  <2>1. shut[FirstPool] \in 0..1
    BY Constants DEF Inv, Exit, PoolTypes, Shutdowns
  <2> QED
    BY <2>1, Constants DEF Inv, Exit, BeginShutdown, Goto, qvars, fvars, PoolTypes, PCs,
       CallPC, TaskPC, ShutPC
<1>2. QueueTypes'
  BY DEF QueueTypes
<1>3. Hands'
  BY DEF Hands, PoolTypes, PCs
<1>4. Control'
  BY DEF PoolTypes, Control, NoSleepingCaller, PCs, CallPC, TaskPC, ShutPC
<1>5. Ended'
  BY DEF PoolTypes, Control, Ended, PCs
<1>6. Shutdowns'
  BY DEF PoolTypes, Control, Shutdowns, ShutPool, PCs, TaskPC, CallPC, ShutPC
<1>7. Locks'
  BY DEF PoolTypes, Control, Locks, NoSleepingCaller, PCs, CallPC
<1>8. NoSleepingCaller'
  BY DEF PoolTypes, Control, Locks, NoSleepingCaller, PCs, CallPC, TaskPC
<1>9. RetiredPoolIsDead'
  BY DEF PoolTypes, Control, Shutdowns, RetiredPoolIsDead, PCs, CallPC, TaskPC, ShutPC
<1> QED
  BY <1>1, <1>2, <1>3, <1>4, <1>5, <1>6, <1>7, <1>8, <1>9 DEF Inv

(* The shutdown begins to put one more exit item. *)
LEMMA ShutPutStep == Inv /\ ShutPut => Inv'
<1> SUFFICES ASSUME Inv, ShutPut PROVE Inv'
  OBVIOUS
<1>a. /\ QueueTypes'
      /\ \A u \in Threads : qpc'[u] = "append" => reg'[u] \in Items
      /\ \A u \in Threads \ {Main} : reg'[u] = reg[u] /\ (qpc'[u] = "idle" => qpc[u] = "idle")
  <2>1. ShutPool \in Pools /\ todo \in 1..Cardinality(WorkersOf[ShutPool])
    BY Constants DEF Inv, ShutPut, Shutdowns, ShutPC, PoolTypes
  <2>2. shut[ShutPool] - 1 \in 0..1
    BY <2>1 DEF Inv, ShutPut, Shutdowns, ShutPC, PoolTypes
  <2>3. \E p \in Pools, v \in Items : Q!PutStart(Main, p, v)
    BY <2>1, <2>2, Constants DEF ShutPut, Items
  <2> QED
    BY <2>3, Constants, QueueOperation DEF Inv
<1> USE Constants DEF Inv, ShutPut, Goto, qvars, pvars, fvars
<1>1. PoolTypes'
  BY DEF PoolTypes, Control, Ended, PCs, CallPC, TaskPC, ShutPC
<1>2. QueueTypes'
  BY <1>a
<1>3. Hands'
  BY <1>a DEF Inv, ShutPut, Goto, Hands, PoolTypes
<1>4. Control'
  BY DEF PoolTypes, Control, NoSleepingCaller, PCs, CallPC, TaskPC, ShutPC
<1>5. Ended'
  BY DEF PoolTypes, Control, Ended, PCs
<1>6. Shutdowns'
  BY DEF PoolTypes, Control, Shutdowns, ShutPool, PCs, TaskPC, CallPC, ShutPC
<1>7. Locks'
  BY DEF PoolTypes, Control, Locks, NoSleepingCaller, PCs, CallPC
<1>8. NoSleepingCaller'
  BY DEF PoolTypes, Control, Locks, NoSleepingCaller, PCs, CallPC, TaskPC
<1>9. RetiredPoolIsDead'
  BY DEF PoolTypes, Control, Shutdowns, RetiredPoolIsDead, PCs, CallPC, TaskPC, ShutPC
<1> QED
  BY <1>1, <1>2, <1>3, <1>4, <1>5, <1>6, <1>7, <1>8, <1>9 DEF Inv

(* All workers have been joined: the new pool is installed, or the program ends. *)
LEMMA ShutJoinStep == Inv /\ ShutJoin => Inv'
<1> SUFFICES ASSUME Inv, ShutJoin PROVE Inv'
  OBVIOUS
<1> USE Constants DEF Inv, ShutJoin, Goto, ShutPool, qvars, pvars, fvars
<1>1. PoolTypes'
  BY DEF PoolTypes, Control, Ended, PCs, CallPC, TaskPC, ShutPC
<1>2. QueueTypes'
  BY DEF QueueTypes
<1>3. Hands'
  BY DEF Hands, PoolTypes, PCs
<1>4. Control'
  BY DEF PoolTypes, Control, NoSleepingCaller, PCs, CallPC, TaskPC, ShutPC
<1>5. Ended'
  BY DEF PoolTypes, Control, Ended, PCs
<1>6. Shutdowns'
  BY DEF PoolTypes, Control, Shutdowns, ShutPool, PCs, TaskPC, CallPC, ShutPC
<1>7. Locks'
  BY DEF PoolTypes, Control, Locks, NoSleepingCaller, PCs, CallPC
<1>8. NoSleepingCaller'
  BY DEF PoolTypes, Control, Locks, NoSleepingCaller, PCs, CallPC, TaskPC
<1>9. RetiredPoolIsDead'
  BY DEF PoolTypes, Control, Shutdowns, RetiredPoolIsDead, PCs, CallPC, TaskPC, ShutPC
<1> QED
  BY <1>1, <1>2, <1>3, <1>4, <1>5, <1>6, <1>7, <1>8, <1>9 DEF Inv

-----------------------------------------------------------------------------
(* The pool starts as Inv says. *)
LEMMA InvInit == Init => Inv
<1> SUFFICES ASSUME Init PROVE Inv
  OBVIOUS
<1>1. QueueTypes /\ Hands
  BY Constants DEF Init, Q!QInit, QueueTypes, Hands
<1>2. PoolTypes
  <2>1. pc \in [Threads -> PCs]
    BY DEF Init, PCs, TaskPC
  <2>2. shut \in [Pools -> 0..2]
    BY DEF Init
  <2>3. current \in Pools \union {None} /\ built \subseteq Pools /\ next \in Pools \union {None}
    BY Constants DEF Init
  <2>4. got \in [Threads -> {None} \union (Futures \X Outcomes)]
    BY DEF Init
  <2> QED
    BY <2>1, <2>2, <2>3, <2>4 DEF Init, PoolTypes
<1>3. Control
  BY Constants DEF Init, Control, TaskPC, CallPC, ShutPC
<1>4. Ended /\ Locks /\ NoSleepingCaller
  BY Constants DEF Init, Ended, Locks, NoSleepingCaller
<1>5. Shutdowns /\ RetiredPoolIsDead
  BY Constants DEF Init, Shutdowns, ShutPC, RetiredPoolIsDead
<1> QED
  BY <1>1, <1>2, <1>3, <1>4, <1>5 DEF Inv

(* Inv is inductive. *)
LEMMA InvStep == Inv /\ [Next]_vars => Inv'
<1> SUFFICES ASSUME Inv, [Next]_vars PROVE Inv'
  OBVIOUS
<1>1. CASE UNCHANGED vars
  BY <1>1 DEF vars, qvars, pvars, fvars, Inv, QueueTypes, PoolTypes, Hands, Control,
     Ended, Shutdowns, ShutPool, Locks, NoSleepingCaller, RetiredPoolIsDead
<1>2. ASSUME NEW t \in Threads, Choose(t) PROVE Inv'
  BY <1>2, NewFutureStep, NewFutureNoPoolStep, CallFutureStep DEF Choose
<1>3. ASSUME NEW t \in Threads, Step(t) PROVE Inv'
  BY <1>3, QueueStepStep, PutReturnsStep, CallEnterStep, CallCheckStep, CallWaitStep,
     CallReturnStep, WorkerLoopStep, DispatchStep, TaskLockStep, TaskEndStep,
     TaskSetDoneStep, TaskNotifyStep DEF Step
<1>4. CASE MainStep
  BY <1>4, ShutPutStep, ShutJoinStep DEF MainStep
<1>5. CASE MainChoose
  <2>1. CASE Exit
    BY <2>1, ExitStep
  <2>2. ASSUME NEW th \in Pools \union {None}, SetThreadPool(th) PROVE Inv'
    BY <2>2, SetThreadPoolStep
  <2> QED
    BY <1>5, <2>1, <2>2 DEF MainChoose
<1> QED
  BY <1>1, <1>2, <1>3, <1>4, <1>5 DEF Next

(* Inv holds in every reachable state. *)
THEOREM Invariance == SafeSpec => []Inv
BY InvInit, InvStep, PTL DEF SafeSpec

(* Every queue, pool, thread and future keeps its type, however many there *)
(* are and whatever the script and its tasks do.                           *)
THEOREM PoolTypesCorrect == SafeSpec => []TypeOK
<1>1. Inv => TypeOK
  BY TypesAre DEF Inv
<1> QED
  BY <1>1, Invariance, PTL

(* No caller is left asleep: while a thread waits for a future that is     *)
(* done, the worker that ran the task is still about to notify it.         *)
THEOREM CallersAreWoken == SafeSpec => []NoSleepingCaller
<1>1. Inv => NoSleepingCaller
  BY DEF Inv
<1> QED
  BY <1>1, Invariance, PTL

(* set_thread_pool() and the shutdown leave no living worker in a pool     *)
(* that has been replaced.                                                 *)
THEOREM RetiredWorkersAreDead == SafeSpec => []RetiredPoolIsDead
<1>1. Inv => RetiredPoolIsDead
  BY DEF Inv
<1> QED
  BY <1>1, Invariance, PTL

-----------------------------------------------------------------------------
(* TaskInOnePlace: no task is lost and none is run twice.  The inductive   *)
(* invariant Places says of each operation on the queues where its thread  *)
(* stands (Stages) and whether its object is still its own (InHand).       *)

Queued(f) == \E p \in Pools : InQueue(f, p)

(* The parts of TaskInOnePlace; Positions is the last. *)
NotLost == \A f \in Futures :
  born[f] = "made" /\ ~done[f] => Queued(f) \/ \E t \in Threads : Holds(t, f)
QueuedIsFree == \A f \in Futures :
  Queued(f) => born[f] = "made" /\ ~done[f] /\ \A t \in Threads : ~Holds(t, f)
OneHolder == \A f \in Futures : \A t, u \in Threads : Holds(t, f) /\ Holds(u, f) => t = u
DoneIsOver == \A f \in Futures : \A t \in Threads :
  done[f] /\ Holds(t, f) => pc[t] \in {"notify", "loop", "dead"}

Positions ==
  \A p, r \in Pools : \A i \in DOMAIN items[p], j \in DOMAIN items[r] :
    items[p][i] \in Futures /\ items[p][i] = items[r][j] => p = r /\ i = j

Stages ==
  /\ \A t \in Threads : qpc[t] \in {"append", "notify"} <=> pc[t] \in {"putting", "shutputting"}
  /\ \A t \in Threads : qpc[t] \notin {"idle", "append", "notify"} => pc[t] = "getting"
  /\ \A p \in Pools, t \in Threads : t \in waiters[p] => qpc[t] = "waiting" /\ chan[t] = p

Born == \A f \in Futures : done[f] => born[f] = "made"

HeldIsMade == \A f \in Futures : \A t \in Threads : Holds(t, f) => born[f] = "made"

(* A future that is not done is in hand for a reason. *)
InHand == \A t \in Threads : reg[t] \in Futures /\ ~done[reg[t]] =>
  \/ task[t] = reg[t]
  \/ qpc[t] = "append"
  \/ pc[t] = "getting" /\ qpc[t] = "idle"

Hand ==
  /\ \A t \in Threads : qpc[t] \notin {"idle", "append"} => reg[t] = None
  /\ \A t \in Threads : qpc[t] = "append" /\ reg[t] \in Futures => task[t] # reg[t]

Tasks ==
  /\ \A t \in Threads : pc[t] \in {"loop", "getting", "dead"} => task[t] = None
  /\ \A t \in Threads : pc[t] = "notify" => done[task[t]]

Places == /\ NotLost /\ QueuedIsFree /\ OneHolder /\ DoneIsOver /\ Positions
          /\ Stages /\ Born
          /\ HeldIsMade /\ InHand /\ Hand /\ Tasks

-----------------------------------------------------------------------------

(* append(): one position more *)
LEMMA AppendItems ==
  ASSUME NEW s \in Seq(Items), NEW v \in Items
  PROVE  LET r == Append(s, v)
             n == Len(s) + 1
         IN  /\ DOMAIN r = DOMAIN s \union {n} /\ n \notin DOMAIN s
             /\ r[n] = v
             /\ \A i \in DOMAIN s : r[i] = s[i]
<1>1. Len(s) \in Nat /\ DOMAIN s = 1..Len(s)
  OBVIOUS
<1>2. /\ Append(s, v) \in Seq(Items)
      /\ Len(Append(s, v)) = Len(s) + 1
      /\ \A i \in 1..Len(s) : Append(s, v)[i] = s[i]
      /\ Append(s, v)[Len(s) + 1] = v
  OBVIOUS
<1>3. DOMAIN Append(s, v) = 1..(Len(s) + 1)
  OBVIOUS
<1> QED
  OBVIOUS

(* The object of a put is now in its queue, and no longer in hand. *)
LEMMA AppendPlaces ==
  ASSUME Inv, Places, NEW t \in Threads, QueueStep(t), Q!PutAppend(t)
  PROVE  Places'
<1> USE Constants DEF Inv, Places
<1> DEFINE q == chan[t]
           v == reg[t]
           s == items[q]
           n == Len(s) + 1
<1>a. /\ qpc[t] = "append" /\ qpc' = [qpc EXCEPT ![t] = "notify"]
      /\ reg' = [reg EXCEPT ![t] = None]
      /\ items' = [items EXCEPT ![q] = Append(s, v)]
      /\ UNCHANGED <<waiters, chan, pc, task, born, done>>
  BY DEF QueueStep, Q!PutAppend, fvars
<1>b. q \in Pools /\ v \in Items /\ s \in Seq(Items)
  BY <1>a DEF Hands, QueueTypes
<1>c. /\ DOMAIN items'[q] = DOMAIN s \union {n} /\ n \notin DOMAIN s
      /\ items'[q][n] = v
      /\ \A i \in DOMAIN s : items'[q][i] = s[i]
      /\ \A p \in Pools \ {q} : items'[p] = items[p]
  <2>1. items'[q] = Append(s, v) /\ \A p \in Pools \ {q} : items'[p] = items[p]
    BY <1>a, <1>b DEF QueueTypes
  <2> HIDE DEF q, v, s
  <2> QED
    BY <2>1, <1>b, AppendItems
<1>d. \A u \in Threads : reg'[u] = IF u = t THEN None ELSE reg[u]
  BY <1>a DEF QueueTypes
<1>e. \A u \in Threads : qpc'[u] = IF u = t THEN "notify" ELSE qpc[u]
  BY <1>a DEF QueueTypes
<1> HIDE DEF q, s, n
<1>f. \A g \in Futures : Queued(g)' <=> Queued(g) \/ g = v
  <2> SUFFICES ASSUME NEW g \in Futures PROVE Queued(g)' <=> Queued(g) \/ g = v
    OBVIOUS
  <2> HIDE DEF v
  <2>1. \A p \in Pools : InQueue(g, p)' <=> InQueue(g, p) \/ (p = q /\ g = v)
    <3> SUFFICES ASSUME NEW p \in Pools
                 PROVE  InQueue(g, p)' <=> InQueue(g, p) \/ (p = q /\ g = v)
      OBVIOUS
    <3>1. CASE p = q
      BY <3>1, <1>c DEF InQueue, s
    <3>2. CASE p # q
      BY <3>2, <1>c DEF InQueue
    <3> QED
      BY <3>1, <3>2
  <2> QED
    BY <2>1, <1>b DEF Queued
<1>g. v \in Futures => /\ ~Queued(v) /\ born[v] = "made" /\ ~done[v]
                       /\ \A u \in Threads \ {t} : ~Holds(u, v)
                       /\ task[t] # v
  BY <1>a DEF QueuedIsFree, HeldIsMade, OneHolder, DoneIsOver, Hand, Stages, Holds
<1>1. Positions'
  <2>1. v \in Futures => \A p \in Pools : \A i \in DOMAIN items[p] : items[p][i] # v
    BY <1>g DEF Queued, InQueue
  <2> HIDE DEF v
  <2> SUFFICES ASSUME NEW p \in Pools, NEW r \in Pools,
                      NEW i \in DOMAIN items'[p], NEW j \in DOMAIN items'[r],
                      items'[p][i] \in Futures, items'[p][i] = items'[r][j]
               PROVE  p = r /\ i = j
    BY DEF Positions
  <2>2. CASE p = q /\ i = n
    BY <2>1, <2>2, <1>c DEF s
  <2>3. CASE r = q /\ j = n
    BY <2>1, <2>3, <1>c DEF s
  <2>4. CASE ~(p = q /\ i = n) /\ ~(r = q /\ j = n)
    <3>1. i \in DOMAIN items[p] /\ items'[p][i] = items[p][i]
      BY <2>4, <1>c DEF s
    <3>2. j \in DOMAIN items[r] /\ items'[r][j] = items[r][j]
      BY <2>4, <1>c DEF s
    <3> QED
      BY <3>1, <3>2 DEF Positions
  <2> QED
    BY <2>2, <2>3, <2>4
<1>2. Stages'
  BY <1>a, <1>e DEF Stages
<1>3. NotLost'
  BY <1>a, <1>d, <1>f DEF NotLost, Holds
<1>4. QueuedIsFree'
  BY <1>a, <1>d, <1>f, <1>g DEF QueuedIsFree, Holds
<1>5. Born' /\ HeldIsMade' /\ OneHolder' /\ DoneIsOver'
  BY <1>a, <1>d DEF Born, HeldIsMade, OneHolder, DoneIsOver, Holds
<1>6. InHand' /\ Hand' /\ Tasks'
  BY <1>a, <1>d, <1>e DEF InHand, Hand, Tasks
<1> QED
  BY <1>1, <1>2, <1>3, <1>4, <1>5, <1>6

(* A get() has popped: the object is in hand, and in no queue. *)
LEMMA PopPlaces ==
  ASSUME Inv, Places, NEW t \in Threads, QueueStep(t), Q!GetFastPop(t) \/ Q!GetTestPop(t)
  PROVE  Places'
<1> USE Constants DEF Inv, Places
<1> DEFINE q == chan[t]
           s == items[q]
           n == Len(s)
           v == s[n]
<1>a. /\ qpc[t] \in {"fast", "test"} /\ qpc' = [qpc EXCEPT ![t] = "idle"]
      /\ s # <<>> /\ reg' = [reg EXCEPT ![t] = v]
      /\ items' = [items EXCEPT ![q] = SubSeq(s, 1, n - 1)]
      /\ UNCHANGED <<waiters, chan, pc, task, born, done>>
  BY DEF QueueStep, Q!GetFastPop, Q!GetTestPop, Q!Pop, fvars
<1>b. q \in Pools /\ s \in Seq(Items)
  BY DEF QueueTypes
<1>c. /\ v \in Items /\ n \in DOMAIN s
      /\ DOMAIN items'[q] = DOMAIN s \ {n}
      /\ \A i \in DOMAIN items'[q] : items'[q][i] = s[i]
      /\ \A p \in Pools \ {q} : items'[p] = items[p]
  <2>1. items'[q] = SubSeq(s, 1, n - 1) /\ \A p \in Pools \ {q} : items'[p] = items[p]
    BY <1>a, <1>b DEF QueueTypes
  <2>2. s # <<>>
    BY <1>a
  <2> HIDE DEF q, s
  <2> QED
    BY <2>1, <2>2, <1>b, PopKeepsPrefix
<1>d. \A u \in Threads : reg'[u] = IF u = t THEN v ELSE reg[u]
  BY <1>a DEF QueueTypes
<1>e. \A u \in Threads : qpc'[u] = IF u = t THEN "idle" ELSE qpc[u]
  BY <1>a DEF QueueTypes
<1>f. pc[t] = "getting" /\ reg[t] = None /\ task[t] = None
  BY <1>a DEF Stages, Hand, Tasks
<1>g. v \in Futures => Queued(v)
  BY <1>b, <1>c DEF Queued, InQueue
<1>h. \A g \in Futures : Queued(g)' <=> Queued(g) /\ g # v
  <2> HIDE DEF q, n
  <2> SUFFICES ASSUME NEW g \in Futures PROVE Queued(g)' <=> Queued(g) /\ g # v
    OBVIOUS
  <2>1. \A p \in Pools : \A i \in DOMAIN items[p] : items[p][i] = g /\ g = v => p = q /\ i = n
    BY <1>b, <1>c DEF Positions
  <2>2. \A p \in Pools : InQueue(g, p)' <=> InQueue(g, p) /\ g # v
    <3> SUFFICES ASSUME NEW p \in Pools PROVE InQueue(g, p)' <=> InQueue(g, p) /\ g # v
      OBVIOUS
    <3>1. CASE p = q
      BY <3>1, <2>1, <1>b, <1>c DEF InQueue
    <3>2. CASE p # q
      BY <3>2, <2>1, <1>c DEF InQueue
    <3> QED
      BY <3>1, <3>2
  <2> QED
    BY <2>2 DEF Queued
<1>i. v \in Futures => born[v] = "made" /\ ~done[v] /\ \A u \in Threads : ~Holds(u, v)
  BY <1>g DEF QueuedIsFree
<1> HIDE DEF q, s, n, v
<1>1. Positions'
  <2> SUFFICES ASSUME NEW p \in Pools, NEW r \in Pools,
                      NEW i \in DOMAIN items'[p], NEW j \in DOMAIN items'[r],
                      items'[p][i] \in Futures, items'[p][i] = items'[r][j]
               PROVE  p = r /\ i = j
    BY DEF Positions
  <2>1. i \in DOMAIN items[p] /\ items'[p][i] = items[p][i]
    BY <1>c DEF s
  <2>2. j \in DOMAIN items[r] /\ items'[r][j] = items[r][j]
    BY <1>c DEF s
  <2> QED
    BY <2>1, <2>2 DEF Positions
<1>2. Stages'
  BY <1>a, <1>e DEF Stages
<1>3. NotLost'
  BY <1>a, <1>d, <1>f, <1>h DEF NotLost, Holds
<1>4. QueuedIsFree'
  BY <1>a, <1>d, <1>h DEF QueuedIsFree, Holds
<1>5. OneHolder'
  BY <1>a, <1>d, <1>f, <1>i DEF OneHolder, Holds
<1>6. Born' /\ HeldIsMade' /\ DoneIsOver'
  BY <1>a, <1>d, <1>f, <1>i DEF Born, HeldIsMade, DoneIsOver, Holds
<1>7. InHand' /\ Hand' /\ Tasks'
  BY <1>a, <1>d, <1>e, <1>f DEF InHand, Hand, Tasks
<1> QED
  BY <1>1, <1>2, <1>3, <1>4, <1>5, <1>6, <1>7

(* Every other step of a get() moves nothing. *)
LEMMA LookPlaces ==
  ASSUME Inv, Places, NEW t \in Threads, QueueStep(t),
         Q!GetFastMiss(t) \/ Q!GetLock(t) \/ Q!GetTestMiss(t) \/ Q!GetWait(t)
  PROVE  Places'
<1> USE Constants DEF Inv, Places
<1>a. /\ qpc[t] \notin {"idle", "append", "notify"}
      /\ UNCHANGED <<items, reg, chan, pc, task, born, done>>
  BY DEF QueueStep, Q!GetFastMiss, Q!GetLock, Q!GetTestMiss, Q!GetWait, fvars
<1>b. \A u \in Threads : IF u = t THEN qpc'[u] \in {"lock", "test", "wait", "waiting"}
                         ELSE qpc'[u] = qpc[u]
  BY DEF QueueTypes, Q!GetFastMiss, Q!GetLock, Q!GetTestMiss, Q!GetWait
<1>c. \A p \in Pools, u \in Threads : u \in waiters'[p] =>
        (u \in waiters[p] /\ u # t) \/ (u = t /\ qpc'[t] = "waiting" /\ chan[t] = p)
  <2>1. CASE Q!GetWait(t)
    BY <2>1 DEF QueueTypes, Q!GetWait, Stages
  <2>2. CASE ~Q!GetWait(t)
    <3>1. UNCHANGED waiters /\ qpc[t] # "waiting"
      BY <2>2 DEF Q!GetFastMiss, Q!GetLock, Q!GetTestMiss
    <3> QED
      BY <3>1 DEF Stages
  <2> QED
    BY <2>1, <2>2
<1>1. Stages'
  <2>1. \A u \in Threads : u # t => qpc'[u] = qpc[u]
    BY <1>b
  <2> QED
    BY <1>a, <1>b, <1>c, <2>1 DEF Stages
<1>2. Positions' /\ NotLost' /\ QueuedIsFree'
  BY <1>a DEF Positions, NotLost, QueuedIsFree, Queued, InQueue, Holds
<1>3. Born' /\ HeldIsMade' /\ OneHolder' /\ DoneIsOver' /\ Tasks'
  BY <1>a DEF Born, HeldIsMade, OneHolder, DoneIsOver, Tasks, Holds
<1>4. InHand' /\ Hand'
  BY <1>a, <1>b DEF InHand, Hand
<1> QED
  BY <1>1, <1>2, <1>3, <1>4

(* t appends its object, or goes on with its get(). *)
LEMMA QueueStepPlaces ==
  ASSUME Inv, Places, NEW t \in Threads, QueueStep(t)
  PROVE  Places'
BY AppendPlaces, PopPlaces, LookPlaces DEF QueueStep, Q!GetStep

(* t notifies, and is back from put(). *)
LEMMA PutReturnsPlaces ==
  ASSUME Inv, Places, NEW t \in Threads, PutReturns(t)
  PROVE  Places'
<1> USE Constants DEF Inv, Places, PoolTypes, QueueTypes
<1>a. /\ pc[t] \in {"putting", "shutputting"} /\ qpc[t] = "notify"
      /\ \E l \in {"run", "shutput"} : pc' = [pc EXCEPT ![t] = l]
      /\ \A u \in Threads : qpc'[u] = IF u = t THEN "idle"
                                      ELSE IF u \in waiters[chan[t]] THEN "lock" ELSE qpc[u]
      /\ waiters' = [waiters EXCEPT ![chan[t]] = {}]
      /\ UNCHANGED <<items, reg, chan, task, born, done>>
  BY DEF PutReturns, Q!PutNotify, Goto, fvars
<1>q. /\ \A g \in Futures : Queued(g)' <=> Queued(g)
      /\ Positions'
  BY <1>a DEF Queued, InQueue, Positions
<1>b. /\ qpc'[t] = "idle" /\ pc'[t] \in {"run", "shutput"}
      /\ \A u \in Threads \ {t} : qpc'[u] = qpc[u] \/ (qpc[u] = "waiting" /\ qpc'[u] = "lock")
      /\ \A u \in Threads \ {t} : pc'[u] = pc[u]
      /\ \A p \in Pools, u \in Threads : u \in waiters'[p] =>
           u # t /\ qpc'[u] = "waiting" /\ chan'[u] = p
  BY <1>a DEF Stages, QueueTypes
<1>c. UNCHANGED <<reg, task, born, done>>
  BY <1>a
<1>1. Stages'
  <2>1. ASSUME NEW u \in Threads \ {t}
        PROVE  /\ qpc'[u] \in {"append", "notify"} <=> pc'[u] \in {"putting", "shutputting"}
               /\ qpc'[u] \notin {"idle", "append", "notify"} => pc'[u] = "getting"
    <3>1. CASE qpc'[u] = qpc[u]
      BY <3>1, <1>b DEF Stages
    <3>2. CASE qpc[u] = "waiting" /\ qpc'[u] = "lock"
      <4>1. pc[u] = "getting"
        BY <3>2 DEF Stages
      <4> QED
        BY <3>2, <4>1, <1>b
    <3> QED
      BY <3>1, <3>2, <1>b
  <2>2. qpc'[t] = "idle" /\ pc'[t] \notin {"putting", "shutputting"}
    BY <1>b
  <2> QED
    BY <1>b, <2>1, <2>2 DEF Stages
<1>2. Born'
  BY <1>a, <1>b, <1>q DEF Born, HeldIsMade, Holds, Control, PCs, CallPC, TaskPC, ShutPC
<1>3. HeldIsMade'
  BY <1>a, <1>b, <1>q DEF HeldIsMade, Holds, PCs, CallPC, TaskPC, ShutPC
<1>4. InHand'
  BY <1>a, <1>b, <1>q DEF InHand, Stages, DoneIsOver, Holds, PCs, CallPC, TaskPC, ShutPC
<1>5. Hand'
  BY <1>b, <1>c DEF Hand, Stages
<1>6. Tasks'
  BY <1>a, <1>b, <1>q DEF Tasks, Control, PCs, CallPC, TaskPC, ShutPC
<1>7. NotLost'
  BY <1>a, <1>b, <1>q DEF NotLost, InHand, Stages, Holds, Tasks, PCs, CallPC, TaskPC,
     ShutPC
<1>8. QueuedIsFree'
  BY <1>a, <1>b, <1>q DEF QueuedIsFree, HeldIsMade, Holds, Tasks, Control, PCs, CallPC,
     TaskPC, ShutPC
<1>9. OneHolder'
  BY <1>a, <1>b, <1>q DEF OneHolder, HeldIsMade, Holds, PCs, CallPC, TaskPC, ShutPC
<1>10. DoneIsOver'
  BY <1>a, <1>b, <1>q DEF DoneIsOver, OneHolder, HeldIsMade, Tasks, Holds, Control, PCs,
     CallPC, TaskPC, ShutPC
<1> QED
  BY <1>q, <1>1, <1>2, <1>3, <1>4, <1>5, <1>6, <1>7, <1>8, <1>9, <1>10

(* t makes f and begins to put its task. *)
LEMMA NewFuturePlaces ==
  ASSUME Inv, Places, NEW t \in Threads, NEW f \in Futures, NewFuture(t, f)
  PROVE  Places'
<1> USE Constants DEF Inv, Places, PoolTypes, QueueTypes
<1>a. /\ pc[t] = "run" /\ qpc[t] = "idle" /\ born[f] = "no"
      /\ pc' = [pc EXCEPT ![t] = "putting"] /\ qpc' = [qpc EXCEPT ![t] = "append"]
      /\ reg' = [reg EXCEPT ![t] = f] /\ born' = [born EXCEPT ![f] = "made"]
      /\ \A u \in Threads \ {t} : chan'[u] = chan[u]
      /\ UNCHANGED <<items, waiters, task, done>>
  BY DEF QueueTypes, NewFuture, Running, Q!PutStart, Goto
<1>b. ~Queued(f) /\ ~done[f] /\ \A u \in Threads : ~Holds(u, f)
  BY <1>a DEF QueuedIsFree, HeldIsMade, Born
<1>q. /\ \A g \in Futures : Queued(g)' <=> Queued(g)
      /\ Positions'
  BY <1>a DEF Queued, InQueue, Positions
<1>c. \A g \in Futures : ~done[g] /\ Holds(t, g) => task[t] = g
  <2>1. reg[t] \in Futures => done[reg[t]] \/ task[t] = reg[t]
    BY <1>a DEF InHand
  <2> QED
    BY <2>1 DEF Holds
<1>1. Stages'
  BY <1>a, <1>b, <1>c, <1>q DEF Stages, QueueTypes
<1>2. Born'
  BY <1>a, <1>b, <1>c, <1>q DEF Born, HeldIsMade, Holds, Control, PCs, CallPC, TaskPC,
     ShutPC
<1>3. HeldIsMade'
  BY <1>a, <1>b, <1>c, <1>q DEF HeldIsMade, Holds, PCs, CallPC, TaskPC, ShutPC
<1>4. InHand'
  BY <1>a, <1>b, <1>c, <1>q DEF InHand, Stages, DoneIsOver, Holds, PCs, CallPC, TaskPC,
     ShutPC
<1>5. Hand'
  BY <1>a, <1>b, <1>c, <1>q DEF Hand, Holds, Stages, Tasks, Control, PCs, CallPC, TaskPC,
     ShutPC
<1>6. Tasks'
  BY <1>a, <1>b, <1>c, <1>q DEF Tasks, Control, PCs, CallPC, TaskPC, ShutPC
<1>7. NotLost'
  BY <1>a, <1>b, <1>c, <1>q DEF NotLost, InHand, Stages, Holds, Tasks, PCs, CallPC,
     TaskPC, ShutPC
<1>8. QueuedIsFree'
  BY <1>a, <1>b, <1>c, <1>q DEF QueuedIsFree, HeldIsMade, Holds, Tasks, Control, PCs,
     CallPC, TaskPC, ShutPC
<1>9. OneHolder'
  BY <1>a, <1>b, <1>c, <1>q DEF OneHolder, HeldIsMade, Holds, PCs, CallPC, TaskPC, ShutPC
<1>10. DoneIsOver'
  BY <1>a, <1>b, <1>c, <1>q DEF DoneIsOver, OneHolder, HeldIsMade, Tasks, Holds, Control,
     PCs, CallPC, TaskPC, ShutPC
<1> QED
  BY <1>q, <1>1, <1>2, <1>3, <1>4, <1>5, <1>6, <1>7, <1>8, <1>9, <1>10

(* t fails to make f, for there is no pool. *)
LEMMA NewFutureNoPoolPlaces ==
  ASSUME Inv, Places, NEW t \in Threads, NEW f \in Futures, NewFutureNoPool(t, f)
  PROVE  Places'
<1> USE Constants DEF Inv, Places, PoolTypes, NewFutureNoPool, Goto, qvars, pvars, fvars
<1>q. /\ \A g \in Futures : Queued(g)' <=> Queued(g)
      /\ Positions'
  BY DEF Queued, InQueue, Positions
<1>1. Stages'
  BY <1>q DEF Stages, QueueTypes
<1>2. Born'
  BY <1>q DEF Born, HeldIsMade, Holds, Control, PCs, CallPC, TaskPC, ShutPC
<1>3. HeldIsMade'
  BY <1>q DEF HeldIsMade, Holds, PCs, CallPC, TaskPC, ShutPC
<1>4. InHand'
  BY <1>q DEF InHand, Stages, DoneIsOver, Holds, PCs, CallPC, TaskPC, ShutPC
<1>5. Hand'
  BY <1>q DEF Hand, Holds, Stages, Tasks, Control, PCs, CallPC, TaskPC, ShutPC
<1>6. Tasks'
  BY <1>q DEF Tasks, Control, PCs, CallPC, TaskPC, ShutPC
<1>7. NotLost'
  BY <1>q DEF NotLost, InHand, Stages, Holds, Tasks, PCs, CallPC, TaskPC, ShutPC
<1>8. QueuedIsFree'
  BY <1>q DEF QueuedIsFree, HeldIsMade, Holds, Tasks, Control, PCs, CallPC, TaskPC, ShutPC
<1>9. OneHolder'
  BY <1>q DEF OneHolder, HeldIsMade, Holds, PCs, CallPC, TaskPC, ShutPC
<1>10. DoneIsOver'
  BY <1>q DEF DoneIsOver, OneHolder, HeldIsMade, Tasks, Holds, Control, PCs, CallPC,
     TaskPC, ShutPC
<1> QED
  BY <1>q, <1>1, <1>2, <1>3, <1>4, <1>5, <1>6, <1>7, <1>8, <1>9, <1>10

(* t calls f, and has seen whether it is done. *)
LEMMA CallFuturePlaces ==
  ASSUME Inv, Places, NEW t \in Threads, NEW f \in Futures, CallFuture(t, f)
  PROVE  Places'
<1> USE Constants DEF Inv, Places, PoolTypes, CallFuture, Goto, Running, qvars, pvars, fvars
<1>q. /\ \A g \in Futures : Queued(g)' <=> Queued(g)
      /\ Positions'
  BY DEF Queued, InQueue, Positions
<1>1. Stages'
  BY <1>q DEF Stages, QueueTypes
<1>2. Born'
  BY <1>q DEF Born, HeldIsMade, Holds, Control, PCs, CallPC, TaskPC, ShutPC
<1>3. HeldIsMade'
  BY <1>q DEF HeldIsMade, Holds, PCs, CallPC, TaskPC, ShutPC
<1>4. InHand'
  BY <1>q DEF InHand, Stages, DoneIsOver, Holds, PCs, CallPC, TaskPC, ShutPC
<1>5. Hand'
  BY <1>q DEF Hand, Holds, Stages, Tasks, Control, PCs, CallPC, TaskPC, ShutPC
<1>6. Tasks'
  BY <1>q DEF Tasks, Control, PCs, CallPC, TaskPC, ShutPC
<1>7. NotLost'
  BY <1>q DEF NotLost, InHand, Stages, Holds, Tasks, PCs, CallPC, TaskPC, ShutPC
<1>8. QueuedIsFree'
  BY <1>q DEF QueuedIsFree, HeldIsMade, Holds, Tasks, Control, PCs, CallPC, TaskPC, ShutPC
<1>9. OneHolder'
  BY <1>q DEF OneHolder, HeldIsMade, Holds, PCs, CallPC, TaskPC, ShutPC
<1>10. DoneIsOver'
  BY <1>q DEF DoneIsOver, OneHolder, HeldIsMade, Tasks, Holds, Control, PCs, CallPC,
     TaskPC, ShutPC
<1> QED
  BY <1>q, <1>1, <1>2, <1>3, <1>4, <1>5, <1>6, <1>7, <1>8, <1>9, <1>10

(* t takes the lock of the future it calls. *)
LEMMA CallEnterPlaces ==
  ASSUME Inv, Places, NEW t \in Threads, CallEnter(t)
  PROVE  Places'
<1> USE Constants DEF Inv, Places, PoolTypes, CallEnter, Goto, qvars, pvars, fvars
<1>q. /\ \A g \in Futures : Queued(g)' <=> Queued(g)
      /\ Positions'
  BY DEF Queued, InQueue, Positions
<1>1. Stages'
  BY <1>q DEF Stages, QueueTypes
<1>2. Born'
  BY <1>q DEF Born, HeldIsMade, Holds, Control, PCs, CallPC, TaskPC, ShutPC
<1>3. HeldIsMade'
  BY <1>q DEF HeldIsMade, Holds, PCs, CallPC, TaskPC, ShutPC
<1>4. InHand'
  BY <1>q DEF InHand, Stages, DoneIsOver, Holds, PCs, CallPC, TaskPC, ShutPC
<1>5. Hand'
  BY <1>q DEF Hand, Holds, Stages, Tasks, Control, PCs, CallPC, TaskPC, ShutPC
<1>6. Tasks'
  BY <1>q DEF Tasks, Control, PCs, CallPC, TaskPC, ShutPC
<1>7. NotLost'
  BY <1>q DEF NotLost, InHand, Stages, Holds, Tasks, PCs, CallPC, TaskPC, ShutPC
<1>8. QueuedIsFree'
  BY <1>q DEF QueuedIsFree, HeldIsMade, Holds, Tasks, Control, PCs, CallPC, TaskPC, ShutPC
<1>9. OneHolder'
  BY <1>q DEF OneHolder, HeldIsMade, Holds, PCs, CallPC, TaskPC, ShutPC
<1>10. DoneIsOver'
  BY <1>q DEF DoneIsOver, OneHolder, HeldIsMade, Tasks, Holds, Control, PCs, CallPC,
     TaskPC, ShutPC
<1> QED
  BY <1>q, <1>1, <1>2, <1>3, <1>4, <1>5, <1>6, <1>7, <1>8, <1>9, <1>10

(* t looks again, with the lock. *)
LEMMA CallCheckPlaces ==
  ASSUME Inv, Places, NEW t \in Threads, CallCheck(t)
  PROVE  Places'
<1> USE Constants DEF Inv, Places, PoolTypes, qvars
<1>a. \E l \in {"return", "wait"} : pc' = [pc EXCEPT ![t] = l]
  BY DEF CallCheck, Goto
<1>q. /\ \A g \in Futures : Queued(g)' <=> Queued(g)
      /\ Positions'
  BY DEF CallCheck, Queued, InQueue, Positions, qvars
<1>b. pc[t] = "check" /\ UNCHANGED <<qvars, task, born, done>>
  BY DEF CallCheck
<1>1. Stages'
  BY <1>a, <1>b, <1>q DEF Stages, QueueTypes
<1>2. Born'
  BY <1>a, <1>b, <1>q DEF Born, HeldIsMade, Holds, Control, PCs, CallPC, TaskPC, ShutPC
<1>3. HeldIsMade'
  BY <1>a, <1>b, <1>q DEF HeldIsMade, Holds, PCs, CallPC, TaskPC, ShutPC
<1>4. InHand'
  BY <1>a, <1>b, <1>q DEF InHand, Stages, DoneIsOver, Holds, PCs, CallPC, TaskPC, ShutPC
<1>5. Hand'
  BY <1>a, <1>b, <1>q DEF Hand, Holds, Stages, Tasks, Control, PCs, CallPC, TaskPC, ShutPC
<1>6. Tasks'
  BY <1>a, <1>b, <1>q DEF Tasks, Control, PCs, CallPC, TaskPC, ShutPC
<1>7. NotLost'
  BY <1>a, <1>b, <1>q DEF NotLost, InHand, Stages, Holds, Tasks, PCs, CallPC, TaskPC,
     ShutPC
<1>8. QueuedIsFree'
  BY <1>a, <1>b, <1>q DEF QueuedIsFree, HeldIsMade, Holds, Tasks, Control, PCs, CallPC,
     TaskPC, ShutPC
<1>9. OneHolder'
  BY <1>a, <1>b, <1>q DEF OneHolder, HeldIsMade, Holds, PCs, CallPC, TaskPC, ShutPC
<1>10. DoneIsOver'
  BY <1>a, <1>b, <1>q DEF DoneIsOver, OneHolder, HeldIsMade, Tasks, Holds, Control, PCs,
     CallPC, TaskPC, ShutPC
<1> QED
  BY <1>q, <1>1, <1>2, <1>3, <1>4, <1>5, <1>6, <1>7, <1>8, <1>9, <1>10

(* t joins the wait set and releases the lock in one step. *)
LEMMA CallWaitPlaces ==
  ASSUME Inv, Places, NEW t \in Threads, CallWait(t)
  PROVE  Places'
<1> USE Constants DEF Inv, Places, PoolTypes, CallWait, Goto, qvars, pvars, fvars
<1>q. /\ \A g \in Futures : Queued(g)' <=> Queued(g)
      /\ Positions'
  BY DEF Queued, InQueue, Positions
<1>1. Stages'
  BY <1>q DEF Stages, QueueTypes
<1>2. Born'
  BY <1>q DEF Born, HeldIsMade, Holds, Control, PCs, CallPC, TaskPC, ShutPC
<1>3. HeldIsMade'
  BY <1>q DEF HeldIsMade, Holds, PCs, CallPC, TaskPC, ShutPC
<1>4. InHand'
  BY <1>q DEF InHand, Stages, DoneIsOver, Holds, PCs, CallPC, TaskPC, ShutPC
<1>5. Hand'
  BY <1>q DEF Hand, Holds, Stages, Tasks, Control, PCs, CallPC, TaskPC, ShutPC
<1>6. Tasks'
  BY <1>q DEF Tasks, Control, PCs, CallPC, TaskPC, ShutPC
<1>7. NotLost'
  BY <1>q DEF NotLost, InHand, Stages, Holds, Tasks, PCs, CallPC, TaskPC, ShutPC
<1>8. QueuedIsFree'
  BY <1>q DEF QueuedIsFree, HeldIsMade, Holds, Tasks, Control, PCs, CallPC, TaskPC, ShutPC
<1>9. OneHolder'
  BY <1>q DEF OneHolder, HeldIsMade, Holds, PCs, CallPC, TaskPC, ShutPC
<1>10. DoneIsOver'
  BY <1>q DEF DoneIsOver, OneHolder, HeldIsMade, Tasks, Holds, Control, PCs, CallPC,
     TaskPC, ShutPC
<1> QED
  BY <1>q, <1>1, <1>2, <1>3, <1>4, <1>5, <1>6, <1>7, <1>8, <1>9, <1>10

(* t has the outcome. *)
LEMMA CallReturnPlaces ==
  ASSUME Inv, Places, NEW t \in Threads, CallReturn(t)
  PROVE  Places'
<1> USE Constants DEF Inv, Places, PoolTypes, CallReturn, Goto, qvars, pvars, fvars
<1>q. /\ \A g \in Futures : Queued(g)' <=> Queued(g)
      /\ Positions'
  BY DEF Queued, InQueue, Positions
<1>1. Stages'
  BY <1>q DEF Stages, QueueTypes
<1>2. Born'
  BY <1>q DEF Born, HeldIsMade, Holds, Control, PCs, CallPC, TaskPC, ShutPC
<1>3. HeldIsMade'
  BY <1>q DEF HeldIsMade, Holds, PCs, CallPC, TaskPC, ShutPC
<1>4. InHand'
  BY <1>q DEF InHand, Stages, DoneIsOver, Holds, PCs, CallPC, TaskPC, ShutPC
<1>5. Hand'
  BY <1>q DEF Hand, Holds, Stages, Tasks, Control, PCs, CallPC, TaskPC, ShutPC
<1>6. Tasks'
  BY <1>q DEF Tasks, Control, PCs, CallPC, TaskPC, ShutPC
<1>7. NotLost'
  BY <1>q DEF NotLost, InHand, Stages, Holds, Tasks, PCs, CallPC, TaskPC, ShutPC
<1>8. QueuedIsFree'
  BY <1>q DEF QueuedIsFree, HeldIsMade, Holds, Tasks, Control, PCs, CallPC, TaskPC, ShutPC
<1>9. OneHolder'
  BY <1>q DEF OneHolder, HeldIsMade, Holds, PCs, CallPC, TaskPC, ShutPC
<1>10. DoneIsOver'
  BY <1>q DEF DoneIsOver, OneHolder, HeldIsMade, Tasks, Holds, Control, PCs, CallPC,
     TaskPC, ShutPC
<1> QED
  BY <1>q, <1>1, <1>2, <1>3, <1>4, <1>5, <1>6, <1>7, <1>8, <1>9, <1>10

(* Worker t begins a get() on the queue of its pool. *)
LEMMA WorkerLoopPlaces ==
  ASSUME Inv, Places, NEW t \in Threads, WorkerLoop(t)
  PROVE  Places'
<1> USE Constants DEF Inv, Places, PoolTypes, QueueTypes
<1>a. /\ pc[t] = "loop" /\ qpc[t] = "idle"
      /\ pc' = [pc EXCEPT ![t] = "getting"] /\ qpc' = [qpc EXCEPT ![t] = "fast"]
      /\ reg' = [reg EXCEPT ![t] = None]
      /\ \A u \in Threads \ {t} : chan'[u] = chan[u]
      /\ UNCHANGED <<items, waiters, task, born, done>>
  BY DEF QueueTypes, WorkerLoop, Q!GetStart, Goto, fvars
<1>q. /\ \A g \in Futures : Queued(g)' <=> Queued(g)
      /\ Positions'
  BY <1>a DEF Queued, InQueue, Positions
<1>b. \A g \in Futures : ~done[g] => ~Holds(t, g)
  <2>1. task[t] = None
    BY <1>a DEF Tasks
  <2>2. reg[t] \in Futures => done[reg[t]]
    BY <1>a, <2>1 DEF InHand
  <2> QED
    BY <2>1, <2>2 DEF Holds
<1>1. Stages'
  BY <1>a, <1>b, <1>q DEF Stages, QueueTypes
<1>2. Born'
  BY <1>a, <1>b, <1>q DEF Born, HeldIsMade, Holds, Control, PCs, CallPC, TaskPC, ShutPC
<1>3. HeldIsMade'
  BY <1>a, <1>b, <1>q DEF HeldIsMade, Holds, PCs, CallPC, TaskPC, ShutPC
<1>4. InHand'
  BY <1>a, <1>b, <1>q DEF InHand, Stages, DoneIsOver, Holds, PCs, CallPC, TaskPC, ShutPC
<1>5. Hand'
  BY <1>a, <1>b, <1>q DEF Hand, Holds, Stages, Tasks, Control, PCs, CallPC, TaskPC, ShutPC
<1>6. Tasks'
  BY <1>a, <1>b, <1>q DEF Tasks, Control, PCs, CallPC, TaskPC, ShutPC
<1>7. NotLost'
  BY <1>a, <1>b, <1>q DEF NotLost, InHand, Stages, Holds, Tasks, PCs, CallPC, TaskPC,
     ShutPC
<1>8. QueuedIsFree'
  BY <1>a, <1>b, <1>q DEF QueuedIsFree, HeldIsMade, Holds, Tasks, Control, PCs, CallPC,
     TaskPC, ShutPC
<1>9. OneHolder'
  BY <1>a, <1>b, <1>q DEF OneHolder, HeldIsMade, Holds, PCs, CallPC, TaskPC, ShutPC
<1>10. DoneIsOver'
  BY <1>a, <1>b, <1>q DEF DoneIsOver, OneHolder, HeldIsMade, Tasks, Holds, Control, PCs,
     CallPC, TaskPC, ShutPC
<1> QED
  BY <1>q, <1>1, <1>2, <1>3, <1>4, <1>5, <1>6, <1>7, <1>8, <1>9, <1>10

(* Worker t ends, or has a task. *)
LEMMA DispatchPlaces ==
  ASSUME Inv, Places, NEW t \in Threads, Dispatch(t)
  PROVE  Places'
<1> USE Constants DEF Inv, Places, PoolTypes, qvars, pvars, fvars
<1>a. t \in Workers /\ (reg[t] \notin ExitItems => reg[t] \in Futures) /\ pc[t] = "getting" /\ qpc[t] = "idle"
  BY DEF Dispatch, Hands, Items, Control, TaskPC
<1>b. pc' = [pc EXCEPT ![t] = IF reg[t] \in ExitItems THEN "dead" ELSE "lock"]
  BY DEF Dispatch, Goto
<1>c. task' = [task EXCEPT ![t] = IF reg[t] \in ExitItems THEN task[t] ELSE reg[t]]
  BY DEF Dispatch
<1>d. UNCHANGED <<qvars, pvars, fvars>>
  BY DEF Dispatch
<1>q. /\ \A g \in Futures : Queued(g)' <=> Queued(g)
      /\ Positions'
  BY <1>d DEF Queued, InQueue, Positions, qvars
<1>1. Stages'
  BY <1>a, <1>b, <1>c, <1>d, <1>q DEF Stages, QueueTypes
<1>2. Born'
  BY <1>a, <1>b, <1>c, <1>d, <1>q DEF Born, HeldIsMade, Holds, Control, PCs, CallPC,
     TaskPC, ShutPC
<1>3. HeldIsMade'
  BY <1>a, <1>b, <1>c, <1>d, <1>q DEF HeldIsMade, Holds, PCs, CallPC, TaskPC, ShutPC
<1>4. InHand'
  BY <1>a, <1>b, <1>c, <1>d, FuturePoolAssumption DEF InHand, Holds
<1>5. Hand'
  BY <1>a, <1>b, <1>c, <1>d, <1>q DEF Hand, Holds, Stages, Tasks, Control, PCs, CallPC,
     TaskPC, ShutPC
<1>6. Tasks'
  BY <1>a, <1>b, <1>c, <1>d, <1>q DEF Tasks, Control, PCs, CallPC, TaskPC, ShutPC
<1>7. NotLost'
  BY <1>a, <1>b, <1>c, <1>d, <1>q DEF NotLost, InHand, Stages, Holds, Tasks, PCs, CallPC,
     TaskPC, ShutPC
<1>8. QueuedIsFree'
  BY <1>a, <1>b, <1>c, <1>d, <1>q DEF QueuedIsFree, HeldIsMade, Holds, Tasks, Control,
     PCs, CallPC, TaskPC, ShutPC
<1>9. OneHolder'
  BY <1>a, <1>b, <1>c, <1>d, <1>q DEF OneHolder, HeldIsMade, Holds, PCs, CallPC, TaskPC,
     ShutPC
<1>10. DoneIsOver'
  BY <1>a, <1>b, <1>c, <1>d, <1>q DEF DoneIsOver, OneHolder, HeldIsMade, Tasks, Holds,
     Control, PCs, CallPC, TaskPC, ShutPC
<1> QED
  BY <1>q, <1>1, <1>2, <1>3, <1>4, <1>5, <1>6, <1>7, <1>8, <1>9, <1>10

(* Worker t takes the lock of its task's future. *)
LEMMA TaskLockPlaces ==
  ASSUME Inv, Places, NEW t \in Threads, TaskLock(t)
  PROVE  Places'
<1> USE Constants DEF Inv, Places, PoolTypes, TaskLock, Goto, qvars, pvars, fvars
<1>q. /\ \A g \in Futures : Queued(g)' <=> Queued(g)
      /\ Positions'
  BY DEF Queued, InQueue, Positions
<1>1. Stages'
  BY <1>q DEF Stages, QueueTypes
<1>2. Born'
  BY <1>q DEF Born, HeldIsMade, Holds, Control, PCs, CallPC, TaskPC, ShutPC
<1>3. HeldIsMade'
  BY <1>q DEF HeldIsMade, Holds, PCs, CallPC, TaskPC, ShutPC
<1>4. InHand'
  BY <1>q DEF InHand, Stages, DoneIsOver, Holds, PCs, CallPC, TaskPC, ShutPC
<1>5. Hand'
  BY <1>q DEF Hand, Holds, Stages, Tasks, Control, PCs, CallPC, TaskPC, ShutPC
<1>6. Tasks'
  BY <1>q DEF Tasks, Control, PCs, CallPC, TaskPC, ShutPC
<1>7. NotLost'
  BY <1>q DEF NotLost, InHand, Stages, Holds, Tasks, PCs, CallPC, TaskPC, ShutPC
<1>8. QueuedIsFree'
  BY <1>q DEF QueuedIsFree, HeldIsMade, Holds, Tasks, Control, PCs, CallPC, TaskPC, ShutPC
<1>9. OneHolder'
  BY <1>q DEF OneHolder, HeldIsMade, Holds, PCs, CallPC, TaskPC, ShutPC
<1>10. DoneIsOver'
  BY <1>q DEF DoneIsOver, OneHolder, HeldIsMade, Tasks, Holds, Control, PCs, CallPC,
     TaskPC, ShutPC
<1> QED
  BY <1>q, <1>1, <1>2, <1>3, <1>4, <1>5, <1>6, <1>7, <1>8, <1>9, <1>10

(* The function of the task of t ends. *)
LEMMA TaskEndPlaces ==
  ASSUME Inv, Places, NEW t \in Threads, NEW o \in Endings, TaskEnd(t, o)
  PROVE  Places'
<1> USE Constants DEF Inv, Places, PoolTypes, TaskEnd, Goto, qvars, pvars, fvars
<1>q. /\ \A g \in Futures : Queued(g)' <=> Queued(g)
      /\ Positions'
  BY DEF Queued, InQueue, Positions
<1>1. Stages'
  BY <1>q DEF Stages, QueueTypes
<1>2. Born'
  BY <1>q DEF Born, HeldIsMade, Holds, Control, PCs, CallPC, TaskPC, ShutPC
<1>3. HeldIsMade'
  BY <1>q DEF HeldIsMade, Holds, PCs, CallPC, TaskPC, ShutPC
<1>4. InHand'
  BY <1>q DEF InHand, Stages, DoneIsOver, Holds, PCs, CallPC, TaskPC, ShutPC
<1>5. Hand'
  BY <1>q DEF Hand, Holds, Stages, Tasks, Control, PCs, CallPC, TaskPC, ShutPC
<1>6. Tasks'
  BY <1>q DEF Tasks, Control, PCs, CallPC, TaskPC, ShutPC
<1>7. NotLost'
  BY <1>q DEF NotLost, InHand, Stages, Holds, Tasks, PCs, CallPC, TaskPC, ShutPC
<1>8. QueuedIsFree'
  BY <1>q DEF QueuedIsFree, HeldIsMade, Holds, Tasks, Control, PCs, CallPC, TaskPC, ShutPC
<1>9. OneHolder'
  BY <1>q DEF OneHolder, HeldIsMade, Holds, PCs, CallPC, TaskPC, ShutPC
<1>10. DoneIsOver'
  BY <1>q DEF DoneIsOver, OneHolder, HeldIsMade, Tasks, Holds, Control, PCs, CallPC,
     TaskPC, ShutPC
<1> QED
  BY <1>q, <1>1, <1>2, <1>3, <1>4, <1>5, <1>6, <1>7, <1>8, <1>9, <1>10

(* Worker t sets _done. *)
LEMMA TaskSetDonePlaces ==
  ASSUME Inv, Places, NEW t \in Threads, TaskSetDone(t)
  PROVE  Places'
<1> USE Constants DEF Inv, Places, PoolTypes, TaskSetDone, Goto, qvars, pvars, fvars
<1>q. /\ \A g \in Futures : Queued(g)' <=> Queued(g)
      /\ Positions'
  BY DEF Queued, InQueue, Positions
<1>1. Stages'
  BY <1>q DEF Stages, QueueTypes
<1>2. Born'
  BY <1>q DEF Born, HeldIsMade, Holds, Control, PCs, CallPC, TaskPC, ShutPC
<1>3. HeldIsMade'
  BY <1>q DEF HeldIsMade, Holds, PCs, CallPC, TaskPC, ShutPC
<1>4. InHand'
  BY <1>q DEF InHand, Stages, DoneIsOver, Holds, PCs, CallPC, TaskPC, ShutPC
<1>5. Hand'
  BY <1>q DEF Hand, Holds, Stages, Tasks, Control, PCs, CallPC, TaskPC, ShutPC
<1>6. Tasks'
  BY <1>q DEF Tasks, Control, PCs, CallPC, TaskPC, ShutPC
<1>7. NotLost'
  BY <1>q DEF NotLost, InHand, Stages, Holds, Tasks, PCs, CallPC, TaskPC, ShutPC
<1>8. QueuedIsFree'
  BY <1>q DEF QueuedIsFree, HeldIsMade, Holds, Tasks, Control, PCs, CallPC, TaskPC, ShutPC
<1>9. OneHolder'
  BY <1>q DEF OneHolder, HeldIsMade, Holds, PCs, CallPC, TaskPC, ShutPC
<1>10. DoneIsOver'
  BY <1>q DEF DoneIsOver, OneHolder, HeldIsMade, Tasks, Holds, Control, PCs, CallPC,
     TaskPC, ShutPC
<1> QED
  BY <1>q, <1>1, <1>2, <1>3, <1>4, <1>5, <1>6, <1>7, <1>8, <1>9, <1>10

(* Worker t wakes the callers, releases the lock and goes on or ends. *)
LEMMA TaskNotifyPlaces ==
  ASSUME Inv, Places, NEW t \in Threads, TaskNotify(t)
  PROVE  Places'
<1> USE Constants DEF Inv, Places, PoolTypes, qvars
<1>a. t \in Workers /\ task[t] \in Futures /\ pc[t] = "notify"
  BY DEF TaskNotify, Control, TaskPC
<1>b. \A u \in fwaiters[task[t]] : u \in Threads /\ pc[u] = "waiting"
  BY <1>a DEF NoSleepingCaller
<1>c. /\ pc' \in [Threads -> PCs]
      /\ pc'[t] \in {"dead", "loop"}
      /\ \A u \in Threads \ {t} : pc'[u] = pc[u] \/ (pc[u] = "waiting" /\ pc'[u] = "enter")
  BY <1>a, <1>b DEF TaskNotify, PCs, CallPC, TaskPC
<1>d. /\ task' = [task EXCEPT ![t] = None]
      /\ UNCHANGED <<qvars, born, done>>
  BY DEF TaskNotify
<1>q. /\ \A g \in Futures : Queued(g)' <=> Queued(g)
      /\ Positions'
  BY <1>d DEF Queued, InQueue, Positions, qvars
<1>s. UNCHANGED <<reg, qpc, chan, waiters>>
  BY <1>d DEF qvars
<1>1. Stages'
  BY <1>a, <1>c, <1>s DEF Stages
<1>2. Born'
  BY <1>a, <1>c, <1>d, <1>q DEF Born, HeldIsMade, Holds, Control, PCs, CallPC, TaskPC,
     ShutPC
<1>3. HeldIsMade'
  BY <1>a, <1>c, <1>d, <1>q DEF HeldIsMade, Holds, PCs, CallPC, TaskPC, ShutPC
<1>4. InHand'
  BY <1>a, <1>c, <1>d, <1>s DEF InHand, Tasks
<1>5. Hand'
  BY <1>a, <1>c, <1>d, <1>q DEF Hand, Holds, Stages, Tasks, Control, PCs, CallPC, TaskPC,
     ShutPC
<1>6. Tasks'
  BY <1>a, <1>c, <1>d, <1>q DEF Tasks, Control, PCs, CallPC, TaskPC, ShutPC
<1>7. NotLost'
  BY <1>a, <1>c, <1>d, <1>q DEF NotLost, InHand, Stages, Holds, Tasks, PCs, CallPC,
     TaskPC, ShutPC
<1>8. QueuedIsFree'
  BY <1>a, <1>c, <1>d, <1>q DEF QueuedIsFree, HeldIsMade, Holds, Tasks, Control, PCs,
     CallPC, TaskPC, ShutPC
<1>9. OneHolder'
  BY <1>a, <1>c, <1>d, <1>q DEF OneHolder, HeldIsMade, Holds, PCs, CallPC, TaskPC, ShutPC
<1>10. DoneIsOver'
  BY <1>a, <1>c, <1>d, <1>q DEF DoneIsOver, OneHolder, HeldIsMade, Tasks, Holds, Control,
     PCs, CallPC, TaskPC, ShutPC
<1> QED
  BY <1>q, <1>1, <1>2, <1>3, <1>4, <1>5, <1>6, <1>7, <1>8, <1>9, <1>10

(* A pool is replaced: its shutdown begins, or there was none. *)
LEMMA SetThreadPoolPlaces ==
  ASSUME Inv, Places, NEW th \in Pools \union {None}, SetThreadPool(th)
  PROVE  Places'
<1> USE Constants DEF Inv, Places, PoolTypes, qvars, fvars
<1> DEFINE ws == IF th = None THEN {} ELSE WorkersOf[th]
<1>a. \A u \in ws : u \in Threads \ {Main} /\ pc[u] = "off" /\ task[u] = None
  BY DEF SetThreadPool, Control
<1>b. pc[Main] = "run" /\ UNCHANGED <<qvars, fvars, task>>
  BY DEF SetThreadPool
<1>c. \A u \in Threads : \/ pc'[u] = pc[u]
                         \/ pc[u] = "off" /\ pc'[u] = "loop" /\ task[u] = None
                         \/ u = Main /\ pc'[u] = "shutput"
  <2>1. pc' = IF current = None THEN Start(ws) ELSE [Start(ws) EXCEPT ![Main] = "shutput"]
    BY DEF SetThreadPool
  <2> HIDE DEF ws
  <2>2. Start(ws) = [u \in Threads |-> IF u \in ws THEN "loop" ELSE pc[u]]
    BY DEF Start
  <2> QED
    BY <1>a, <2>1, <2>2
<1>q. /\ \A g \in Futures : Queued(g)' <=> Queued(g)
      /\ Positions'
  BY <1>b DEF Queued, InQueue, Positions, qvars
<1>s. UNCHANGED <<qpc, chan, waiters>>
  BY <1>b DEF qvars
<1>1. Stages'
  BY <1>b, <1>c, <1>s DEF Stages
<1>2. Born'
  BY <1>b, <1>c, <1>q DEF Born, HeldIsMade, Holds, Control, PCs, CallPC, TaskPC, ShutPC
<1>3. HeldIsMade'
  BY <1>b, <1>c, <1>q DEF HeldIsMade, Holds, PCs, CallPC, TaskPC, ShutPC
<1>4. InHand'
  BY <1>b, <1>c, <1>q DEF InHand, Stages, DoneIsOver, Holds, PCs, CallPC, TaskPC, ShutPC
<1>5. Hand'
  BY <1>b, <1>c, <1>q DEF Hand, Holds, Stages, Tasks, Control, PCs, CallPC, TaskPC, ShutPC
<1>6. Tasks'
  BY <1>b, <1>c, <1>q DEF Tasks, Control, PCs, CallPC, TaskPC, ShutPC
<1>7. NotLost'
  BY <1>b, <1>c, <1>q DEF NotLost, InHand, Stages, Holds, Tasks, PCs, CallPC, TaskPC,
     ShutPC
<1>8. QueuedIsFree'
  BY <1>b, <1>c, <1>q DEF QueuedIsFree, HeldIsMade, Holds, Tasks, Control, PCs, CallPC,
     TaskPC, ShutPC
<1>9. OneHolder'
  BY <1>b, <1>c, <1>q DEF OneHolder, HeldIsMade, Holds, PCs, CallPC, TaskPC, ShutPC
<1>10. DoneIsOver'
  BY <1>b, <1>c, <1>q DEF DoneIsOver, OneHolder, HeldIsMade, Tasks, Holds, Control, PCs,
     CallPC, TaskPC, ShutPC
<1> QED
  BY <1>q, <1>1, <1>2, <1>3, <1>4, <1>5, <1>6, <1>7, <1>8, <1>9, <1>10

(* The shutdown of the first pool begins, whichever pool is in force. *)
LEMMA ExitPlaces == Inv /\ Places /\ Exit => Places'
<1> SUFFICES ASSUME Inv, Places, Exit PROVE Places'
  OBVIOUS
<1> USE Constants DEF Inv, Places, PoolTypes, Exit, Goto, BeginShutdown, qvars, pvars, fvars
<1>q. /\ \A g \in Futures : Queued(g)' <=> Queued(g)
      /\ Positions'
  BY DEF Queued, InQueue, Positions
<1>1. Stages'
  BY <1>q DEF Stages, QueueTypes
<1>2. Born'
  BY <1>q DEF Born, HeldIsMade, Holds, Control, PCs, CallPC, TaskPC, ShutPC
<1>3. HeldIsMade'
  BY <1>q DEF HeldIsMade, Holds, PCs, CallPC, TaskPC, ShutPC
<1>4. InHand'
  BY <1>q DEF InHand, Stages, DoneIsOver, Holds, PCs, CallPC, TaskPC, ShutPC
<1>5. Hand'
  BY <1>q DEF Hand, Holds, Stages, Tasks, Control, PCs, CallPC, TaskPC, ShutPC
<1>6. Tasks'
  BY <1>q DEF Tasks, Control, PCs, CallPC, TaskPC, ShutPC
<1>7. NotLost'
  BY <1>q DEF NotLost, InHand, Stages, Holds, Tasks, PCs, CallPC, TaskPC, ShutPC
<1>8. QueuedIsFree'
  BY <1>q DEF QueuedIsFree, HeldIsMade, Holds, Tasks, Control, PCs, CallPC, TaskPC, ShutPC
<1>9. OneHolder'
  BY <1>q DEF OneHolder, HeldIsMade, Holds, PCs, CallPC, TaskPC, ShutPC
<1>10. DoneIsOver'
  BY <1>q DEF DoneIsOver, OneHolder, HeldIsMade, Tasks, Holds, Control, PCs, CallPC,
     TaskPC, ShutPC
<1> QED
  BY <1>q, <1>1, <1>2, <1>3, <1>4, <1>5, <1>6, <1>7, <1>8, <1>9, <1>10

(* The shutdown begins to put one more exit item. *)
LEMMA ShutPutPlaces == Inv /\ Places /\ ShutPut => Places'
<1> SUFFICES ASSUME Inv, Places, ShutPut PROVE Places'
  OBVIOUS
<1> USE Constants DEF Inv, Places, PoolTypes, QueueTypes
<1>a. /\ pc[Main] = "shutput" /\ qpc[Main] = "idle"
      /\ pc' = [pc EXCEPT ![Main] = "shutputting"] /\ qpc' = [qpc EXCEPT ![Main] = "append"]
      /\ \E x \in ExitItems : reg' = [reg EXCEPT ![Main] = x]
      /\ \A u \in Threads \ {Main} : chan'[u] = chan[u]
      /\ UNCHANGED <<items, waiters, task, born, done>>
  <2>1. ShutPool \in Pools /\ todo \in 1..Cardinality(WorkersOf[ShutPool])
    BY DEF ShutPut, Shutdowns, ShutPC
  <2>2. shut[ShutPool] - 1 \in 0..1
    BY <2>1 DEF ShutPut, Shutdowns, ShutPC
  <2> QED
    BY <2>1, <2>2 DEF QueueTypes, ShutPut, Q!PutStart, Goto, fvars
<1>q. /\ \A g \in Futures : Queued(g)' <=> Queued(g)
      /\ Positions'
  BY <1>a DEF Queued, InQueue, Positions
<1>c. \A g \in Futures : ~done[g] => ~Holds(Main, g)
  <2>1. task[Main] = None
    BY DEF Control
  <2>2. reg[Main] \in Futures => done[reg[Main]]
    BY <1>a, <2>1 DEF InHand
  <2> QED
    BY <2>1, <2>2 DEF Holds
<1>1. Stages'
  BY <1>a, <1>c, FuturePoolAssumption, <1>q DEF Stages, QueueTypes
<1>2. Born'
  BY <1>a, <1>c, FuturePoolAssumption, <1>q DEF Born, HeldIsMade, Holds, Control, PCs,
     CallPC, TaskPC, ShutPC
<1>3. HeldIsMade'
  BY <1>a, <1>c, FuturePoolAssumption, <1>q DEF HeldIsMade, Holds, PCs, CallPC, TaskPC,
     ShutPC
<1>4. InHand'
  BY <1>a, <1>c, FuturePoolAssumption, <1>q DEF InHand, Stages, DoneIsOver, Holds, PCs,
     CallPC, TaskPC, ShutPC
<1>5. Hand'
  BY <1>a, <1>c, FuturePoolAssumption, <1>q DEF Hand, Holds, Stages, Tasks, Control, PCs,
     CallPC, TaskPC, ShutPC
<1>6. Tasks'
  BY <1>a, <1>c, FuturePoolAssumption, <1>q DEF Tasks, Control, PCs, CallPC, TaskPC,
     ShutPC
<1>7. NotLost'
  BY <1>a, <1>c, FuturePoolAssumption, <1>q DEF NotLost, InHand, Stages, Holds, Tasks,
     PCs, CallPC, TaskPC, ShutPC
<1>8. QueuedIsFree'
  BY <1>a, <1>c, FuturePoolAssumption, <1>q DEF QueuedIsFree, HeldIsMade, Holds, Tasks,
     Control, PCs, CallPC, TaskPC, ShutPC
<1>9. OneHolder'
  BY <1>a, <1>c, FuturePoolAssumption, <1>q DEF OneHolder, HeldIsMade, Holds, PCs, CallPC,
     TaskPC, ShutPC
<1>10. DoneIsOver'
  BY <1>a, <1>c, FuturePoolAssumption, <1>q DEF DoneIsOver, OneHolder, HeldIsMade, Tasks,
     Holds, Control, PCs, CallPC, TaskPC, ShutPC
<1> QED
  BY <1>q, <1>1, <1>2, <1>3, <1>4, <1>5, <1>6, <1>7, <1>8, <1>9, <1>10

(* All workers have been joined: the new pool is installed, or the program ends. *)
LEMMA ShutJoinPlaces == Inv /\ Places /\ ShutJoin => Places'
<1> SUFFICES ASSUME Inv, Places, ShutJoin PROVE Places'
  OBVIOUS
<1> USE Constants DEF Inv, Places, PoolTypes, qvars
<1>a. \E l \in {"run", "exited"} : pc' = [pc EXCEPT ![Main] = l]
  BY DEF ShutJoin, Goto
<1>q. /\ \A g \in Futures : Queued(g)' <=> Queued(g)
      /\ Positions'
  BY DEF ShutJoin, Queued, InQueue, Positions, qvars
<1>b. pc[Main] = "shutput" /\ UNCHANGED <<qvars, task, born, done>>
  BY DEF ShutJoin, fvars
<1>1. Stages'
  BY <1>a, <1>b, <1>q DEF Stages, QueueTypes
<1>2. Born'
  BY <1>a, <1>b, <1>q DEF Born, HeldIsMade, Holds, Control, PCs, CallPC, TaskPC, ShutPC
<1>3. HeldIsMade'
  BY <1>a, <1>b, <1>q DEF HeldIsMade, Holds, PCs, CallPC, TaskPC, ShutPC
<1>4. InHand'
  BY <1>a, <1>b, <1>q DEF InHand, Stages, DoneIsOver, Holds, PCs, CallPC, TaskPC, ShutPC
<1>5. Hand'
  BY <1>a, <1>b, <1>q DEF Hand, Holds, Stages, Tasks, Control, PCs, CallPC, TaskPC, ShutPC
<1>6. Tasks'
  BY <1>a, <1>b, <1>q DEF Tasks, Control, PCs, CallPC, TaskPC, ShutPC
<1>7. NotLost'
  BY <1>a, <1>b, <1>q DEF NotLost, InHand, Stages, Holds, Tasks, PCs, CallPC, TaskPC,
     ShutPC
<1>8. QueuedIsFree'
  BY <1>a, <1>b, <1>q DEF QueuedIsFree, HeldIsMade, Holds, Tasks, Control, PCs, CallPC,
     TaskPC, ShutPC
<1>9. OneHolder'
  BY <1>a, <1>b, <1>q DEF OneHolder, HeldIsMade, Holds, PCs, CallPC, TaskPC, ShutPC
<1>10. DoneIsOver'
  BY <1>a, <1>b, <1>q DEF DoneIsOver, OneHolder, HeldIsMade, Tasks, Holds, Control, PCs,
     CallPC, TaskPC, ShutPC
<1> QED
  BY <1>q, <1>1, <1>2, <1>3, <1>4, <1>5, <1>6, <1>7, <1>8, <1>9, <1>10

-----------------------------------------------------------------------------
(* At the import of the module nothing is queued and nothing in hand. *)
LEMMA PlacesInit == Init => Places
<1> SUFFICES ASSUME Init PROVE Places
  OBVIOUS
<1> USE Constants DEF Init, Q!QInit
<1>1. \A f \in Futures : ~Queued(f)
  BY DEF Queued, InQueue
<1>2. \A f \in Futures, t \in Threads : ~Holds(t, f)
  BY DEF Holds
<1>3. Positions
  BY DEF Positions
<1>4. NotLost /\ QueuedIsFree /\ OneHolder /\ DoneIsOver /\ Born /\ HeldIsMade
  BY <1>1, <1>2 DEF NotLost, QueuedIsFree, OneHolder, DoneIsOver, Born, HeldIsMade
<1>5. Stages
  BY DEF Stages
<1>6. InHand /\ Hand /\ Tasks
  BY DEF InHand, Hand, Tasks
<1> QED
  BY <1>3, <1>4, <1>5, <1>6 DEF Places

(* Places is inductive, relative to Inv. *)
LEMMA PlacesStep == Inv /\ Places /\ [Next]_vars => Places'
<1> SUFFICES ASSUME Inv, Places, [Next]_vars PROVE Places'
  OBVIOUS
<1>1. CASE UNCHANGED vars
  BY <1>1 DEF vars, qvars, fvars, Places, NotLost, QueuedIsFree, OneHolder, DoneIsOver,
     Positions, Stages, Born, HeldIsMade, InHand, Hand, Tasks, Queued, InQueue, Holds
<1>2. ASSUME NEW t \in Threads, Choose(t) PROVE Places'
  BY <1>2, NewFuturePlaces, NewFutureNoPoolPlaces, CallFuturePlaces DEF Choose
<1>3. ASSUME NEW t \in Threads, Step(t) PROVE Places'
  BY <1>3, QueueStepPlaces, PutReturnsPlaces, CallEnterPlaces, CallCheckPlaces,
     CallWaitPlaces, CallReturnPlaces, WorkerLoopPlaces, DispatchPlaces, TaskLockPlaces,
     TaskEndPlaces, TaskSetDonePlaces, TaskNotifyPlaces DEF Step
<1>4. CASE MainStep
  BY <1>4, ShutPutPlaces, ShutJoinPlaces DEF MainStep
<1>5. CASE MainChoose
  <2>1. CASE Exit
    BY <2>1, ExitPlaces
  <2>2. ASSUME NEW th \in Pools \union {None}, SetThreadPool(th) PROVE Places'
    BY <2>2, SetThreadPoolPlaces
  <2> QED
    BY <1>5, <2>1, <2>2 DEF MainChoose
<1> QED
  BY <1>1, <1>2, <1>3, <1>4, <1>5 DEF Next

(* Both invariants hold in every reachable state. *)
THEOREM PlacesInvariance == SafeSpec => [](Inv /\ Places)
BY InvInit, InvStep, PlacesInit, PlacesStep, PTL DEF SafeSpec

(* No task is lost and none is run twice: until it is done a future is in  *)
(* one queue, at one position, or in the hands of one thread.              *)
THEOREM NoTaskLostOrRunTwice == SafeSpec => []TaskInOnePlace
<1>1. Places => TaskInOnePlace
  <2> SUFFICES ASSUME Places, NEW f \in Futures
               PROVE  LET queued == \E p \in Pools : InQueue(f, p)
                          holders == {t \in Threads : Holds(t, f)}
                      IN  /\ born[f] = "made" /\ ~done[f] => queued \/ holders # {}
                          /\ queued => born[f] = "made" /\ ~done[f] /\ holders = {}
                          /\ \A t, u \in holders : t = u
                          /\ done[f] => \A t \in holders : pc[t] \in {"notify", "loop", "dead"}
                          /\ \A p, r \in Pools : \A i \in DOMAIN items[p], j \in DOMAIN items[r] :
                               items[p][i] = f /\ items[r][j] = f => p = r /\ i = j
    BY DEF TaskInOnePlace
  <2>1. NotLost /\ QueuedIsFree /\ OneHolder /\ DoneIsOver
    BY DEF Places
  <2>2. \A p, r \in Pools : \A i \in DOMAIN items[p], j \in DOMAIN items[r] :
          items[p][i] = f /\ items[r][j] = f => p = r /\ i = j
    BY DEF Places, Positions
  <2> QED
    BY <2>1, <2>2 DEF NotLost, QueuedIsFree, OneHolder, DoneIsOver, Queued
<1> QED
  BY <1>1, PlacesInvariance, PTL

(* A future that has not been made is nowhere, so that the put() of its    *)
(* constructor always has what TLQueue asks of a put: a new object.        *)
THEOREM UnmadeFuturesAreFresh ==
  SafeSpec => [](\A f \in Futures, t \in Threads : born[f] # "made" => Q!Fresh(t, f))
<1>1. Places => \A f \in Futures, t \in Threads : born[f] # "made" => Q!Fresh(t, f)
  BY DEF Places, QueuedIsFree, HeldIsMade, Queued, InQueue, Holds, Q!Fresh
<1> QED
  BY <1>1, PlacesInvariance, PTL

-----------------------------------------------------------------------------
(* ExitsSuffice: shutdown() puts enough for every worker it joins.  The    *)
(* inductive invariant Exits adds who may append an exit item to which     *)
(* queue (ExitHands) and which queues hold one (ExitsQueued).              *)

ExitHands ==
  /\ \A t \in Threads : pc[t] = "putting" /\ qpc[t] = "append" => reg[t] \in Futures
  /\ \A t \in Threads : pc[t] = "getting" => chan[t] = PoolOf(t)
  /\ pc[Main] = "shutputting" => chan[Main] = ShutPool
  /\ pc[Main] = "shutputting" /\ qpc[Main] = "append" =>
       reg[Main] = ExitItem(ShutPool, todo, shut[ShutPool] - 1)

(* An exit item is queued for the shutdown under way, or for nobody. *)
ExitsQueued == \A p \in Pools, x \in ExitItems : InQueue(x, p) =>
  \/ pc[Main] \in ShutPC /\ p = ShutPool
  \/ \A w \in WorkersOf[p] : pc[w] = "dead"

(* The workers for which an exit item has to be left. *)
Unexited == {w \in WorkersOf[ShutPool] : pc[w] # "dead" /\ ~ToldToExit(w)}

Enough == pc[Main] \in ShutPC => Cardinality(Unexited) <= Cardinality(ExitsLeft)

ToldByShutdown == \A w \in Workers :
  ToldToExit(w) => pc[Main] \in ShutPC /\ PoolOf(w) = ShutPool

Exits == ExitHands /\ ExitsQueued /\ Enough /\ ToldByShutdown

(* A worker is of one pool. *)
LEMMA PoolOfWorker == \A p \in Pools : \A w \in WorkersOf[p] : PoolOf(w) = p
<1> SUFFICES ASSUME NEW p \in Pools, NEW w \in WorkersOf[p] PROVE PoolOf(w) = p
  OBVIOUS
<1>1. \A r \in Pools : w \in WorkersOf[r] => r = p
  BY Constants
<1>2. PoolOf(w) \in Pools /\ w \in WorkersOf[PoolOf(w)]
  BY DEF PoolOf
<1> QED
  BY <1>1, <1>2

(* Fewer are enough for fewer. *)
LEMMA StillEnough ==
  ASSUME NEW A, NEW B, NEW A2, NEW B2, IsFiniteSet(A), IsFiniteSet(B2),
         A2 \subseteq A, B \subseteq B2, Cardinality(A) <= Cardinality(B)
  PROVE  Cardinality(A2) <= Cardinality(B2)
<1>1. IsFiniteSet(B)
  BY FS_Subset
<1>2. Cardinality(A2) <= Cardinality(A) /\ Cardinality(B) <= Cardinality(B2)
  BY FS_Subset
<1>3. IsFiniteSet(A2)
  BY FS_Subset
<1>4. /\ Cardinality(A) \in Nat /\ Cardinality(B) \in Nat
      /\ Cardinality(A2) \in Nat /\ Cardinality(B2) \in Nat
  BY <1>1, <1>3, FS_CardinalityType
<1> QED
  BY <1>2, <1>4

(* One is taken for one that needed it. *)
LEMMA OneForOne ==
  ASSUME NEW A, NEW B, NEW A2, NEW B2, IsFiniteSet(A), IsFiniteSet(B), IsFiniteSet(B2),
         NEW a \in A, A2 \subseteq A \ {a}, NEW i, B \ {i} \subseteq B2,
         Cardinality(A) <= Cardinality(B)
  PROVE  Cardinality(A2) <= Cardinality(B2)
<1>1. IsFiniteSet(A \ {a}) /\ Cardinality(A \ {a}) = Cardinality(A) - 1
  BY FS_RemoveElement
<1>2. /\ IsFiniteSet(B \ {i})
      /\ Cardinality(B \ {i}) = IF i \in B THEN Cardinality(B) - 1 ELSE Cardinality(B)
  BY FS_RemoveElement
<1>3. Cardinality(A) \in Nat /\ Cardinality(B) \in Nat
  BY FS_CardinalityType
<1>4. Cardinality(A \ {a}) <= Cardinality(B \ {i})
  BY <1>1, <1>2, <1>3
<1> QED
  BY <1>1, <1>4, StillEnough

(* The workers and the exit items of a shutdown are finitely many. *)
LEMMA ExitsFinite ==
  ASSUME ShutPool \in Pools
  PROVE  IsFiniteSet(Unexited) /\ IsFiniteSet(ExitsLeft)
<1>1. IsFiniteSet(WorkersOf[ShutPool]) /\ Unexited \subseteq WorkersOf[ShutPool]
  BY FuturePoolAssumption DEF Unexited
<1>2. Cardinality(WorkersOf[ShutPool]) \in Nat
  BY Constants
<1>3. IsFiniteSet(1..Cardinality(WorkersOf[ShutPool]))
  BY <1>2, FS_Interval
<1>4. ExitsLeft \subseteq 1..Cardinality(WorkersOf[ShutPool])
  BY DEF ExitsLeft
<1> QED
  BY <1>1, <1>3, <1>4, FS_Subset

(* What Enough needs of a step that takes no exit item. *)
LEMMA EnoughStays ==
  ASSUME Inv, Enough,
         pc'[Main] \in ShutPC => /\ pc[Main] \in ShutPC /\ ShutPool' = ShutPool
                                 /\ Unexited' \subseteq Unexited
                                 /\ ExitsLeft \subseteq ExitsLeft'
  PROVE  Enough'
<1> SUFFICES ASSUME pc'[Main] \in ShutPC
             PROVE  Cardinality(Unexited') <= Cardinality(ExitsLeft')
  BY DEF Enough
<1>1. ShutPool \in Pools
  BY DEF Inv, Shutdowns
<1>2. IsFiniteSet(Unexited) /\ IsFiniteSet(ExitsLeft')
  <2>1. IsFiniteSet(1..Cardinality(WorkersOf[ShutPool]))
    BY <1>1, Constants, FS_Interval
  <2>2. ExitsLeft' \subseteq 1..Cardinality(WorkersOf[ShutPool])
    BY DEF ExitsLeft
  <2> QED
    BY <1>1, <2>1, <2>2, ExitsFinite, FS_Subset
<1>3. Cardinality(Unexited) <= Cardinality(ExitsLeft)
  BY DEF Enough
<1> QED
  BY <1>2, <1>3, StillEnough

(* What it needs of a step by which worker w is told. *)
LEMMA EnoughPops ==
  ASSUME Inv, Enough, ShutPool' = ShutPool, pc[Main] \in ShutPC,
         NEW w \in Unexited, Unexited' \subseteq Unexited \ {w},
         NEW i, ExitsLeft \ {i} \subseteq ExitsLeft'
  PROVE  Enough'
<1> SUFFICES Cardinality(Unexited') <= Cardinality(ExitsLeft')
  BY DEF Enough
<1>1. ShutPool \in Pools
  BY DEF Inv, Shutdowns
<1>2. IsFiniteSet(Unexited) /\ IsFiniteSet(ExitsLeft) /\ IsFiniteSet(ExitsLeft')
  <2>1. IsFiniteSet(1..Cardinality(WorkersOf[ShutPool]))
    BY <1>1, Constants, FS_Interval
  <2>2. ExitsLeft' \subseteq 1..Cardinality(WorkersOf[ShutPool])
    BY DEF ExitsLeft
  <2> QED
    BY <1>1, <2>1, <2>2, ExitsFinite, FS_Subset
<1>3. Cardinality(Unexited) <= Cardinality(ExitsLeft)
  BY DEF Enough
<1> QED
  BY <1>2, <1>3, OneForOne

(* Steps that move no exit item and begin or end no shutdown. *)
Steady ==
  /\ UNCHANGED <<items, current, todo, shut, exiting>>
  /\ \A u \in Threads : pc[u] = "dead" => pc'[u] = "dead"
  /\ \A w \in Workers : ToldToExit(w)' => ToldToExit(w)
  /\ \A w \in Workers : ToldToExit(w) => ToldToExit(w)' \/ pc'[w] = "dead"
  /\ \A l \in ShutPC : pc'[Main] = l <=> pc[Main] = l
  /\ pc[Main] = "shutputting" => (qpc'[Main] = "notify" <=> qpc[Main] = "notify")

LEMMA SteadyExits ==
  ASSUME Inv, Exits, Steady
  PROVE  ExitsQueued' /\ Enough' /\ ToldByShutdown'
<1> USE Constants
<1>1. UNCHANGED <<items, todo, shut>> /\ ShutPool' = ShutPool
  BY DEF Steady, ShutPool
<1>2. pc'[Main] \in ShutPC <=> pc[Main] \in ShutPC
  BY DEF Steady
<1>3. Enough'
  <2>1. ASSUME pc[Main] \in ShutPC PROVE Unexited' \subseteq Unexited
    <3>1. WorkersOf[ShutPool] \subseteq Workers
      BY <2>1 DEF Inv, Shutdowns
    <3> QED
      BY <1>1, <3>1 DEF Unexited, Steady
  <2>2. ExitsLeft' = ExitsLeft
    <3>1. \A i : InQueue(ExitItem(ShutPool, i, shut[ShutPool] - 1), ShutPool)'
                   <=> InQueue(ExitItem(ShutPool, i, shut[ShutPool] - 1), ShutPool)
      BY <1>1 DEF InQueue
    <3>2. pc'[Main] = "shutputting" /\ qpc'[Main] = "notify"
            <=> pc[Main] = "shutputting" /\ qpc[Main] = "notify"
      BY DEF Steady, ShutPC
    <3> QED
      BY <1>1, <3>1, <3>2 DEF ExitsLeft
  <2> QED
    BY <1>1, <1>2, <2>1, <2>2, EnoughStays DEF Exits
<1>4. ExitsQueued'
  BY <1>1, <1>2 DEF Exits, ExitsQueued, InQueue, Steady
<1>5. ToldByShutdown'
  BY <1>1, <1>2 DEF Exits, ToldByShutdown, Steady
<1> QED
  BY <1>3, <1>4, <1>5

(* Steps that do not touch the queues either. *)
Special == {"dead", "getting", "putting"} \union ShutPC

LEMMA QuietExits ==
  ASSUME Inv, Exits, UNCHANGED <<qvars, pvars>>,
         \A u \in Threads : \/ pc'[u] = pc[u]
                            \/ pc[u] \notin Special /\ pc'[u] \notin Special \ {"dead"}
  PROVE  Exits'
<1> USE Constants DEF Special
<1>1. UNCHANGED <<items, qpc, chan, reg, current, todo, shut, exiting>> /\ ShutPool' = ShutPool
  BY DEF qvars, pvars, ShutPool
<1>2. \A l \in ShutPC : pc'[Main] = l <=> pc[Main] = l
  BY DEF ShutPC
<1>3. \A u \in Threads : /\ pc'[u] = "getting" <=> pc[u] = "getting"
                         /\ pc'[u] = "putting" <=> pc[u] = "putting"
                         /\ pc[u] = "dead" => pc'[u] = "dead"
  OBVIOUS
<1>4. Steady
  BY <1>1, <1>2, <1>3 DEF Steady, ToldToExit
<1>5. ExitHands'
  BY <1>1, <1>2, <1>3 DEF Exits, ExitHands, ShutPC
<1> QED
  BY <1>4, <1>5, SteadyExits DEF Exits

(* t makes f and begins to put its task. *)
LEMMA NewFutureExits ==
  ASSUME Inv, Exits, NEW t \in Threads, NEW f \in Futures, NewFuture(t, f)
  PROVE  Exits'
<1> USE Constants
<1>1. /\ pc[t] = "run" /\ pc' = [pc EXCEPT ![t] = "putting"]
      /\ qpc' = [qpc EXCEPT ![t] = "append"] /\ reg' = [reg EXCEPT ![t] = f]
      /\ \A u \in Threads \ {t} : chan'[u] = chan[u]
      /\ UNCHANGED <<items, current, todo, shut, exiting>> /\ ShutPool' = ShutPool
  BY DEF NewFuture, Running, Q!PutStart, Goto, pvars, ShutPool, Inv, QueueTypes
<1>2. Steady
  BY <1>1 DEF Steady, ToldToExit, ShutPC, Inv, QueueTypes, PoolTypes
<1>3. ExitHands'
  BY <1>1 DEF Exits, ExitHands, Inv, QueueTypes, PoolTypes
<1> QED
  BY <1>2, <1>3, SteadyExits DEF Exits

(* Worker t begins a get() on the queue of its pool. *)
LEMMA WorkerLoopExits ==
  ASSUME Inv, Exits, NEW t \in Threads, WorkerLoop(t)
  PROVE  Exits'
<1> USE Constants
<1>1. /\ pc[t] = "loop" /\ pc' = [pc EXCEPT ![t] = "getting"] /\ t # Main
      /\ qpc' = [qpc EXCEPT ![t] = "fast"] /\ reg' = [reg EXCEPT ![t] = None]
      /\ chan' = [chan EXCEPT ![t] = PoolOf(t)]
      /\ UNCHANGED <<items, current, todo, shut, exiting>> /\ ShutPool' = ShutPool
  BY DEF WorkerLoop, Q!GetStart, Goto, pvars, ShutPool, Inv, Control, TaskPC
<1>2. Steady
  BY <1>1 DEF Steady, ToldToExit, ShutPC, Inv, QueueTypes, PoolTypes
<1>3. ExitHands'
  BY <1>1 DEF Exits, ExitHands, Inv, QueueTypes, PoolTypes
<1> QED
  BY <1>2, <1>3, SteadyExits DEF Exits

(* Worker t ends, or has a task. *)
LEMMA DispatchExits ==
  ASSUME Inv, Exits, NEW t \in Threads, Dispatch(t)
  PROVE  Exits'
<1> USE Constants
<1>1. /\ pc[t] = "getting" /\ t # Main /\ qpc[t] = "idle"
      /\ pc' = [pc EXCEPT ![t] = IF reg[t] \in ExitItems THEN "dead" ELSE "lock"]
      /\ UNCHANGED <<qpc, chan, reg, items, current, todo, shut, exiting>> /\ ShutPool' = ShutPool
  BY DEF Dispatch, Goto, pvars, qvars, ShutPool, Inv, Control, TaskPC
<1>2. Steady
  BY <1>1 DEF Steady, ToldToExit, ShutPC, Inv, PoolTypes
<1>3. ExitHands'
  BY <1>1 DEF Exits, ExitHands, Inv, PoolTypes
<1> QED
  BY <1>2, <1>3, SteadyExits DEF Exits

(* The steps of a get() that pop nothing. *)
LEMMA LookExits ==
  ASSUME Inv, Places, Exits, NEW t \in Threads, QueueStep(t),
         Q!GetFastMiss(t) \/ Q!GetLock(t) \/ Q!GetTestMiss(t) \/ Q!GetWait(t)
  PROVE  Exits'
<1> USE Constants
<1>1. /\ qpc[t] \notin {"idle", "append", "notify"}
      /\ UNCHANGED <<items, reg, chan, pc, current, todo, shut, exiting>> /\ ShutPool' = ShutPool
  BY DEF QueueStep, Q!GetFastMiss, Q!GetLock, Q!GetTestMiss, Q!GetWait, pvars, ShutPool
<1>2. \A u \in Threads : IF u = t THEN qpc'[u] \in {"lock", "test", "wait", "waiting"}
                         ELSE qpc'[u] = qpc[u]
  BY DEF Inv, QueueTypes, Q!GetFastMiss, Q!GetLock, Q!GetTestMiss, Q!GetWait
<1>3. Steady
  BY <1>1, <1>2 DEF Steady, ToldToExit
<1>4. ExitHands'
  BY <1>1, <1>2 DEF Exits, ExitHands
<1> QED
  BY <1>3, <1>4, SteadyExits DEF Exits

(* What the exit items of the shutdown under way become. *)
LEMMA QueuedNext ==
  ASSUME UNCHANGED shut, ShutPool' = ShutPool, NEW i
  PROVE  InQueue(ExitItem(ShutPool, i, shut[ShutPool] - 1), ShutPool)' <=>
           \E k \in DOMAIN items'[ShutPool] :
             items'[ShutPool][k] = ExitItem(ShutPool, i, shut[ShutPool] - 1)
BY DEF InQueue

(* append(): what is queued stays so, and an exit item that is appended is *)
(* the one the shutdown under way has in hand.                             *)
LEMMA AppendExits ==
  ASSUME Inv, Places, Exits, NEW t \in Threads, QueueStep(t), Q!PutAppend(t)
  PROVE  Exits'
<1> USE Constants
<1> DEFINE q == chan[t]
           v == reg[t]
           s == items[q]
           n == Len(s) + 1
<1>a. /\ qpc[t] = "append" /\ qpc' = [qpc EXCEPT ![t] = "notify"]
      /\ reg' = [reg EXCEPT ![t] = None]
      /\ items' = [items EXCEPT ![q] = Append(s, v)]
      /\ UNCHANGED <<chan, pc, current, todo, shut, exiting>> /\ ShutPool' = ShutPool
  BY DEF QueueStep, Q!PutAppend, pvars, ShutPool
<1>b. q \in Pools /\ v \in Items /\ s \in Seq(Items)
  BY <1>a DEF Inv, Hands, QueueTypes
<1>c. /\ DOMAIN items'[q] = DOMAIN s \union {n}
      /\ items'[q][n] = v
      /\ \A i \in DOMAIN s : items'[q][i] = s[i]
      /\ \A p \in Pools \ {q} : items'[p] = items[p]
  <2>1. items'[q] = Append(s, v) /\ \A p \in Pools \ {q} : items'[p] = items[p]
    BY <1>a, <1>b DEF Inv, QueueTypes
  <2> HIDE DEF q, v, s
  <2> QED
    BY <2>1, <1>b, AppendItems
<1>d. \/ pc[t] = "putting" /\ v \in Futures
      \/ /\ t = Main /\ pc[Main] = "shutputting" /\ q = ShutPool
         /\ v = ExitItem(ShutPool, todo, shut[ShutPool] - 1)
  BY <1>a DEF Places, Stages, Inv, Control, ShutPC, Exits, ExitHands
<1>e. \A u \in Threads : qpc'[u] = IF u = t THEN "notify" ELSE qpc[u]
  BY <1>a DEF Inv, QueueTypes
<1>f. \A u \in Threads \ {t} : reg'[u] = reg[u]
  BY <1>a DEF Inv, QueueTypes
<1> HIDE DEF q, v, s, n
<1>g. \A x : \A p \in Pools : InQueue(x, p)' <=> InQueue(x, p) \/ (p = q /\ x = v)
  <2> SUFFICES ASSUME NEW x, NEW p \in Pools
               PROVE  InQueue(x, p)' <=> InQueue(x, p) \/ (p = q /\ x = v)
    OBVIOUS
  <2>1. CASE p = q
    BY <2>1, <1>c DEF InQueue, s
  <2>2. CASE p # q
    BY <2>2, <1>c DEF InQueue
  <2> QED
    BY <2>1, <2>2
<1>h. \A w \in Workers : ToldToExit(w)' <=> ToldToExit(w)
  BY <1>a, <1>e, <1>f DEF ToldToExit
<1>1. Enough'
  <2> SUFFICES ASSUME pc[Main] \in ShutPC
               PROVE  Unexited' \subseteq Unexited /\ ExitsLeft \subseteq ExitsLeft'
    BY <1>a, EnoughStays DEF Exits
  <2>1. ShutPool \in Pools /\ WorkersOf[ShutPool] \subseteq Workers
    BY DEF Inv, Shutdowns
  <2>2. Unexited' \subseteq Unexited
    BY <1>a, <1>h, <2>1 DEF Unexited
  <2>q. \A x : (\E k \in DOMAIN items'[ShutPool] : items'[ShutPool][k] = x)
                 <=> InQueue(x, ShutPool) \/ (ShutPool = q /\ x = v)
    BY <1>g, <2>1 DEF InQueue
  <2>3. \A i : InQueue(ExitItem(ShutPool, i, shut[ShutPool] - 1), ShutPool)
                 => InQueue(ExitItem(ShutPool, i, shut[ShutPool] - 1), ShutPool)'
    BY <1>a, <2>q, QueuedNext
  <2>4. t = Main /\ pc[Main] = "shutputting" =>
          InQueue(ExitItem(ShutPool, todo, shut[ShutPool] - 1), ShutPool)'
    <3>1. SUFFICES ASSUME t = Main, pc[Main] = "shutputting"
                   PROVE  InQueue(ExitItem(ShutPool, todo, shut[ShutPool] - 1), ShutPool)'
      OBVIOUS
    <3>2. \E k \in DOMAIN items'[ShutPool] :
             items'[ShutPool][k] = ExitItem(ShutPool, todo, shut[ShutPool] - 1)
      BY <1>d, <2>q, <3>1
    <3> QED
      BY <1>a, <3>2 DEF InQueue
  <2>5. t # Main => qpc'[Main] = qpc[Main]
    BY <1>e
  <2>6. ExitsLeft \subseteq ExitsLeft'
    BY <1>a, <2>3, <2>4, <2>5 DEF ExitsLeft
  <2> QED
    BY <2>2, <2>6
<1>2. ExitHands'
  BY <1>a, <1>e, <1>f DEF Exits, ExitHands
<1>3. ExitsQueued'
  <2> SUFFICES ASSUME NEW p \in Pools, NEW x \in ExitItems, InQueue(x, p)'
               PROVE  \/ pc[Main] \in ShutPC /\ p = ShutPool
                      \/ \A w \in WorkersOf[p] : pc[w] = "dead"
    BY <1>a DEF ExitsQueued
  <2>1. InQueue(x, p) \/ (p = q /\ x = v)
    BY <1>g
  <2>2. x = v => pc[Main] \in ShutPC /\ q = ShutPool
    BY <1>d, FuturePoolAssumption DEF ShutPC
  <2> QED
    BY <2>1, <2>2 DEF Exits, ExitsQueued
<1>4. ToldByShutdown'
  BY <1>a, <1>h DEF Exits, ToldByShutdown
<1> QED
  BY <1>1, <1>2, <1>3, <1>4 DEF Exits

(* pop(): a worker that pops an exit item needs no other. *)
LEMMA PopExits ==
  ASSUME Inv, Places, Exits, NEW t \in Threads, QueueStep(t), Q!GetFastPop(t) \/ Q!GetTestPop(t)
  PROVE  Exits'
<1> USE Constants
<1> DEFINE q == chan[t]
           s == items[q]
           n == Len(s)
           v == s[n]
<1>a. /\ qpc[t] \in {"fast", "test"} /\ qpc' = [qpc EXCEPT ![t] = "idle"]
      /\ s # <<>> /\ reg' = [reg EXCEPT ![t] = v]
      /\ items' = [items EXCEPT ![q] = SubSeq(s, 1, n - 1)]
      /\ UNCHANGED <<chan, pc, current, todo, shut, exiting>> /\ ShutPool' = ShutPool
  BY DEF QueueStep, Q!GetFastPop, Q!GetTestPop, Q!Pop, pvars, ShutPool
<1>b. q \in Pools /\ s \in Seq(Items)
  BY DEF Inv, QueueTypes
<1>c. /\ v \in Items /\ n \in DOMAIN s
      /\ DOMAIN items'[q] = DOMAIN s \ {n}
      /\ \A i \in DOMAIN items'[q] : items'[q][i] = s[i]
      /\ \A p \in Pools \ {q} : items'[p] = items[p]
  <2>1. items'[q] = SubSeq(s, 1, n - 1) /\ \A p \in Pools \ {q} : items'[p] = items[p]
    BY <1>a, <1>b DEF Inv, QueueTypes
  <2>2. s # <<>>
    BY <1>a
  <2> HIDE DEF q, s
  <2> QED
    BY <2>1, <2>2, <1>b, PopKeepsPrefix
<1>d. \A u \in Threads : reg'[u] = IF u = t THEN v ELSE reg[u]
  BY <1>a DEF Inv, QueueTypes
<1>e. \A u \in Threads : qpc'[u] = IF u = t THEN "idle" ELSE qpc[u]
  BY <1>a DEF Inv, QueueTypes
<1>f. pc[t] = "getting" /\ t \in Workers /\ t # Main /\ q = PoolOf(t) /\ t \in WorkersOf[q]
  <2>1. pc[t] = "getting" /\ t \in Workers
    BY <1>a DEF Places, Stages, Inv, Control, TaskPC
  <2>2. q = PoolOf(t)
    BY <2>1 DEF Exits, ExitHands
  <2>3. t \in WorkersOf[PoolOf(t)]
    BY <2>1, PoolOfWorker DEF Workers
  <2> QED
    BY <2>1, <2>2, <2>3
<1>g. v \in ExitItems => pc[Main] \in ShutPC /\ q = ShutPool
  <2>1. InQueue(v, q)
    BY <1>c DEF InQueue
  <2> QED
    BY <2>1, <1>b, <1>f DEF Exits, ExitsQueued
<1> HIDE DEF q, s, n, v
<1>h. \A x : \A p \in Pools : InQueue(x, p)' => InQueue(x, p)
  <2> SUFFICES ASSUME NEW x, NEW p \in Pools, InQueue(x, p)' PROVE InQueue(x, p)
    OBVIOUS
  <2>1. CASE p = q
    BY <2>1, <1>c DEF InQueue, s
  <2>2. CASE p # q
    BY <2>2, <1>c DEF InQueue
  <2> QED
    BY <2>1, <2>2
<1>i. \A x : \A p \in Pools : InQueue(x, p) /\ x # v => InQueue(x, p)'
  <2> SUFFICES ASSUME NEW x, NEW p \in Pools, InQueue(x, p), x # v PROVE InQueue(x, p)'
    OBVIOUS
  <2>1. CASE p = q
    <3>1. PICK i \in DOMAIN s : s[i] = x
      BY <2>1 DEF InQueue, s
    <3>2. i # n
      BY <3>1 DEF v
    <3> QED
      BY <2>1, <3>1, <3>2, <1>c DEF InQueue
  <2>2. CASE p # q
    BY <2>2, <1>c DEF InQueue
  <2> QED
    BY <2>1, <2>2
<1>j. \A w \in Workers \ {t} : ToldToExit(w)' <=> ToldToExit(w)
  BY <1>a, <1>d, <1>e DEF ToldToExit
<1>k. ToldToExit(t)' <=> v \in ExitItems
  BY <1>a, <1>d, <1>e, <1>f DEF ToldToExit
<1>l. ~ToldToExit(t)
  BY <1>a DEF ToldToExit
<1>1. ExitHands'
  BY <1>a, <1>d, <1>e, <1>f DEF Exits, ExitHands
<1>2. ExitsQueued'
  BY <1>a, <1>h DEF Exits, ExitsQueued
<1>3. ToldByShutdown'
  BY <1>a, <1>f, <1>g, <1>j, <1>k DEF Exits, ToldByShutdown
<1>4. Enough'
  <2>1. ASSUME pc[Main] \in ShutPC
        PROVE  ShutPool \in Pools /\ WorkersOf[ShutPool] \subseteq Workers /\ Unexited' \subseteq Unexited
    <3>1. ShutPool \in Pools /\ WorkersOf[ShutPool] \subseteq Workers
      BY <2>1 DEF Inv, Shutdowns
    <3> QED
      BY <3>1, <1>a, <1>j, <1>l DEF Unexited
  <2>2. CASE v \in ExitItems
    <3>0. PICK p \in Pools : \E i \in 1..Cardinality(WorkersOf[p]), r \in 0..1 :
                                v = ExitItem(p, i, r)
      BY <2>2 DEF ExitItems
    <3>1. PICK i \in 1..Cardinality(WorkersOf[p]), r \in 0..1 : v = ExitItem(p, i, r)
      BY <3>0
    <3>2. pc[Main] \in ShutPC /\ t \in Unexited /\ Unexited' \subseteq Unexited \ {t}
      BY <1>a, <1>f, <1>g, <1>k, <1>l, <2>1, <2>2 DEF Unexited
    <3>3. \A j : j # i => ExitItem(ShutPool, j, shut[ShutPool] - 1) # v
      BY <3>1 DEF ExitItem
    <3>4. \A j : j # i /\ InQueue(ExitItem(ShutPool, j, shut[ShutPool] - 1), ShutPool)
                   => InQueue(ExitItem(ShutPool, j, shut[ShutPool] - 1), ShutPool)'
      <4>1. \A x : InQueue(x, ShutPool) /\ x # v =>
                     \E k \in DOMAIN items'[ShutPool] : items'[ShutPool][k] = x
        BY <1>i, <2>1, <3>2 DEF InQueue
      <4> QED
        BY <1>a, <3>3, <4>1, QueuedNext
    <3>5. qpc'[Main] = qpc[Main]
      BY <1>e, <1>f
    <3>6. ExitsLeft \ {i} \subseteq ExitsLeft'
      BY <1>a, <3>4, <3>5 DEF ExitsLeft
    <3> QED
      BY <1>a, <3>2, <3>6, EnoughPops DEF Exits
  <2>3. CASE v \notin ExitItems
    <3>1. ASSUME pc[Main] \in ShutPC PROVE ExitsLeft \subseteq ExitsLeft'
      <4>1. shut[ShutPool] - 1 \in 0..1
        BY <2>1, <3>1 DEF Inv, Shutdowns, PoolTypes
      <4>2. \A j \in 1..Cardinality(WorkersOf[ShutPool]) :
              ExitItem(ShutPool, j, shut[ShutPool] - 1) # v
        BY <2>1, <2>3, <3>1, <4>1
      <4>3. \A j \in 1..Cardinality(WorkersOf[ShutPool]) :
              InQueue(ExitItem(ShutPool, j, shut[ShutPool] - 1), ShutPool)
                => InQueue(ExitItem(ShutPool, j, shut[ShutPool] - 1), ShutPool)'
        <5>1. \A x : InQueue(x, ShutPool) /\ x # v =>
                       \E k \in DOMAIN items'[ShutPool] : items'[ShutPool][k] = x
          BY <1>i, <2>1, <3>1 DEF InQueue
        <5> QED
          BY <1>a, <4>2, <5>1, QueuedNext
      <4>4. qpc'[Main] = qpc[Main]
        BY <1>e, <1>f
      <4> QED
        BY <1>a, <4>3, <4>4 DEF ExitsLeft
    <3> QED
      BY <1>a, <2>1, <3>1, EnoughStays DEF Exits
  <2> QED
    BY <2>2, <2>3
<1> QED
  BY <1>1, <1>2, <1>3, <1>4 DEF Exits

(* Back from put(): a task is queued, or one exit item more. *)
LEMMA PutReturnsExits ==
  ASSUME Inv, Places, Exits, NEW t \in Threads, PutReturns(t)
  PROVE  Exits'
<1> USE Constants
<1>a. /\ qpc[t] = "notify" /\ UNCHANGED <<items, chan, reg, current, shut, exiting>>
      /\ ShutPool' = ShutPool
      /\ \A u \in Threads : qpc'[u] = IF u = t THEN "idle"
                                      ELSE IF u \in waiters[chan[t]] THEN "lock" ELSE qpc[u]
  BY DEF PutReturns, Q!PutNotify, ShutPool
<1>b. \A u \in Threads : u \in waiters[chan[t]] => qpc[u] = "waiting"
  BY DEF Places, Stages, Inv, QueueTypes
<1>c. \A u \in Threads \ {t} : qpc'[u] = qpc[u] \/ (qpc[u] = "waiting" /\ qpc'[u] = "lock")
  BY <1>a, <1>b
<1>d. \A u \in Threads : u # t /\ qpc'[u] = "append" => qpc[u] = "append"
  BY <1>c
<1>1. CASE pc[t] = "putting"
  <2>1. pc' = [pc EXCEPT ![t] = "run"] /\ todo' = todo
    BY <1>1 DEF PutReturns, Goto
  <2>2. \A u \in Threads : pc'[u] = IF u = t THEN "run" ELSE pc[u]
    BY <2>1 DEF Inv, PoolTypes
  <2>3. \A w \in Workers : ToldToExit(w)' <=> ToldToExit(w)
    BY <1>1, <1>a, <1>c, <2>2 DEF ToldToExit
  <2>4. Steady
    BY <1>1, <1>a, <1>c, <2>1, <2>2, <2>3 DEF Steady, ShutPC
  <2>5. ExitHands'
    BY <1>1, <1>a, <1>d, <2>1, <2>2 DEF Exits, ExitHands
  <2> QED
    BY <2>4, <2>5, SteadyExits DEF Exits
<1>2. CASE pc[t] = "shutputting"
  <2>1. pc' = [pc EXCEPT ![t] = "shutput"] /\ todo' = todo - 1 /\ t = Main
    BY <1>2 DEF PutReturns, Goto, Inv, Control, ShutPC
  <2>2. \A u \in Threads : pc'[u] = IF u = Main THEN "shutput" ELSE pc[u]
    BY <2>1 DEF Inv, PoolTypes
  <2>3. \A w \in Workers : ToldToExit(w)' <=> ToldToExit(w)
    BY <1>a, <1>c, <2>1, <2>2 DEF ToldToExit
  <2>4. ShutPool \in Pools /\ WorkersOf[ShutPool] \subseteq Workers /\ pc[Main] \in ShutPC
    BY <1>2, <2>1 DEF Inv, Shutdowns, ShutPC
  <2>5. Unexited' \subseteq Unexited
    BY <1>a, <2>2, <2>3, <2>4 DEF Unexited
  <2>6. ExitsLeft \subseteq ExitsLeft'
    <3>1. \A i : InQueue(ExitItem(ShutPool, i, shut[ShutPool] - 1), ShutPool)
                   => InQueue(ExitItem(ShutPool, i, shut[ShutPool] - 1), ShutPool)'
      BY <1>a DEF InQueue
    <3>2. \A i \in 1..Cardinality(WorkersOf[ShutPool]) :
            i < todo => i < todo' \/ (i = todo' /\ pc'[Main] # "shutputting")
      BY <2>1, <2>2, <2>4 DEF Inv, PoolTypes
    <3>3. pc[Main] = "shutputting" /\ qpc[Main] = "notify"
      BY <1>2, <1>a, <2>1
    <3> QED
      BY <1>a, <3>1, <3>2, <3>3 DEF ExitsLeft
  <2>7. Enough'
    BY <1>a, <2>4, <2>5, <2>6, EnoughStays DEF Exits
  <2>8. ExitHands'
    BY <1>a, <1>d, <2>1, <2>2 DEF Exits, ExitHands
  <2>9. ExitsQueued' /\ ToldByShutdown'
    BY <1>a, <2>2, <2>3, <2>4 DEF Exits, ExitsQueued, ToldByShutdown, InQueue, ShutPC
  <2> QED
    BY <2>7, <2>8, <2>9 DEF Exits
<1> QED
  BY <1>1, <1>2 DEF PutReturns

(* A shutdown that begins has an exit item to put for every worker. *)
LEMMA BeginExits ==
  ASSUME NEW p \in Pools, ShutPool' = p, pc'[Main] = "shutput",
         todo' = Cardinality(WorkersOf[p])
  PROVE  Enough'
<1> USE Constants
<1> DEFINE n == Cardinality(WorkersOf[p])
<1>1. n \in Nat
  OBVIOUS
<1>2. 1..n \subseteq ExitsLeft'
  BY <1>1 DEF ExitsLeft
<1>3. ExitsLeft' \subseteq 1..n /\ Unexited' \subseteq WorkersOf[p]
  BY DEF ExitsLeft, Unexited
<1>4. Cardinality(1..n) = n
  <2> HIDE DEF n
  <2>1. 1 \in Int /\ n \in Int
    BY <1>1
  <2>2. Cardinality(1..n) = IF 1 > n THEN 0 ELSE n - 1 + 1
    BY ONLY <2>1, FS_Interval
  <2> QED
    BY <1>1, <2>2
<1>5. IsFiniteSet(WorkersOf[p])
  BY FuturePoolAssumption
<1>6. Cardinality(Unexited') <= n
  BY <1>3, <1>5, FS_Subset
<1>7. ExitsLeft' = 1..n
  BY <1>2, <1>3
<1> QED
  BY <1>4, <1>6, <1>7 DEF Enough

(* A pool is replaced: its shutdown begins, or there was none. *)
LEMMA SetThreadPoolExits ==
  ASSUME Inv, Exits, NEW th \in Pools \union {None}, SetThreadPool(th)
  PROVE  Exits'
<1> USE Constants
<1> DEFINE ws == IF th = None THEN {} ELSE WorkersOf[th]
<1>a. /\ pc[Main] = "run" /\ exiting = FALSE /\ exiting' = FALSE
      /\ UNCHANGED <<items, qpc, chan, reg>>
  BY DEF SetThreadPool, qvars, Inv, PoolTypes
<1>b. \A u \in ws : u \in Threads \ {Main} /\ pc[u] = "off"
  BY DEF Inv, SetThreadPool, Control
<1>c. pc' = IF current = None THEN Start(ws) ELSE [Start(ws) EXCEPT ![Main] = "shutput"]
  BY DEF SetThreadPool
<1>d. current # None => todo' = Cardinality(WorkersOf[current]) /\ current' = current
  BY DEF SetThreadPool, BeginShutdown
<1>s. current # None => current \in Pools
  BY DEF Inv, PoolTypes
<1>w. \A p \in Pools : p # th => WorkersOf[p] \intersect ws = {}
  OBVIOUS
<1>v. th \in Pools => ws = WorkersOf[th]
  OBVIOUS
<1> HIDE DEF ws
<1>e. /\ \A u \in ws : pc'[u] = "loop"
      /\ \A u \in Threads \ {Main} : u \notin ws => pc'[u] = pc[u]
      /\ pc'[Main] = IF current = None THEN "run" ELSE "shutput"
  BY <1>a, <1>b, <1>c DEF Start
<1>f. \A w \in Workers : ~ToldToExit(w)
  BY <1>a DEF Exits, ToldByShutdown, ShutPC
<1>g. \A w \in Workers : ~ToldToExit(w)'
  <2> SUFFICES ASSUME NEW w \in Workers PROVE ~ToldToExit(w)'
    OBVIOUS
  <2>1. pc'[w] = "loop" \/ pc'[w] = pc[w]
    BY <1>e
  <2> QED
    BY <1>a, <1>f, <2>1 DEF ToldToExit
<1>1. ExitHands'
  <2>1. \A u \in Threads : pc'[u] \in {"putting", "getting"} => pc'[u] = pc[u]
    BY <1>e
  <2>2. pc'[Main] # "shutputting"
    BY <1>e
  <2> QED
    BY <1>a, <2>1, <2>2 DEF Exits, ExitHands
<1>2. ExitsQueued'
  <2> SUFFICES ASSUME NEW p \in Pools, NEW x \in ExitItems, InQueue(x, p)'
               PROVE  \A w \in WorkersOf[p] : pc'[w] = "dead"
    BY DEF ExitsQueued
  <2>1. InQueue(x, p)
    BY <1>a DEF InQueue
  <2>2. \A w \in WorkersOf[p] : pc[w] = "dead"
    BY <1>a, <2>1 DEF Exits, ExitsQueued, ShutPC
  <2>3. \A w \in WorkersOf[p] : w \notin ws
    BY <1>b, <2>2
  <2> QED
    BY <1>e, <2>2, <2>3
<1>3. ToldByShutdown'
  BY <1>g DEF ToldByShutdown
<1>4. Enough'
  <2>1. CASE current = None
    BY <1>e, <2>1 DEF Enough, ShutPC
  <2>2. CASE current # None
    <3>1. ShutPool' = current
      BY <1>a, <1>d, <2>2 DEF ShutPool
    <3> QED
      BY <1>a, <1>d, <1>e, <1>s, <2>2, <3>1, BeginExits
  <2> QED
    BY <2>1, <2>2
<1> QED
  BY <1>1, <1>2, <1>3, <1>4 DEF Exits

(* The shutdown of the first pool begins, whichever pool is in force. *)
LEMMA ExitExits ==
  ASSUME Inv, Exits, Exit
  PROVE  Exits'
<1> USE Constants
<1>a. /\ pc[Main] = "run" /\ exiting' = TRUE /\ ShutPool' = FirstPool
      /\ todo' = Cardinality(WorkersOf[FirstPool])
      /\ UNCHANGED <<items, qpc, chan, reg>>
  BY DEF Exit, BeginShutdown, qvars, ShutPool
<1>b. \A u \in Threads : pc'[u] = IF u = Main THEN "shutput" ELSE pc[u]
  BY DEF Exit, Goto, Inv, PoolTypes
<1>c. \A w \in Workers : ~ToldToExit(w)
  BY <1>a DEF Exits, ToldByShutdown, ShutPC
<1>d. \A w \in Workers : ~ToldToExit(w)'
  BY <1>a, <1>b, <1>c DEF ToldToExit
<1>1. ExitHands'
  BY <1>a, <1>b DEF Exits, ExitHands
<1>2. ExitsQueued'
  <2> SUFFICES ASSUME NEW p \in Pools, NEW x \in ExitItems, InQueue(x, p)'
               PROVE  \A w \in WorkersOf[p] : pc'[w] = "dead"
    BY DEF ExitsQueued
  <2>1. InQueue(x, p)
    BY <1>a DEF InQueue
  <2> QED
    BY <1>a, <1>b, <2>1 DEF Exits, ExitsQueued, ShutPC
<1>3. ToldByShutdown'
  BY <1>d DEF ToldByShutdown
<1>4. Enough'
  BY <1>a, <1>b, BeginExits
<1> QED
  BY <1>1, <1>2, <1>3, <1>4 DEF Exits

(* The shutdown takes its next exit item in hand. *)
LEMMA ShutPutExits ==
  ASSUME Inv, Exits, ShutPut
  PROVE  Exits'
<1> USE Constants
<1>a. /\ pc[Main] = "shutput" /\ UNCHANGED <<items, current, todo, shut, exiting>>
      /\ ShutPool' = ShutPool
      /\ pc' = [pc EXCEPT ![Main] = "shutputting"]
  BY DEF ShutPut, Q!PutStart, Goto, pvars, ShutPool
<1>p. ShutPool \in Pools /\ WorkersOf[ShutPool] \subseteq Workers
  BY <1>a DEF Inv, Shutdowns, ShutPC
<1>b. /\ qpc' = [qpc EXCEPT ![Main] = "append"]
      /\ chan' = [chan EXCEPT ![Main] = ShutPool]
      /\ reg' = [reg EXCEPT ![Main] = ExitItem(ShutPool, todo, shut[ShutPool] - 1)]
  BY DEF ShutPut, Q!PutStart
<1>c. \A u \in Threads \ {Main} : /\ pc'[u] = pc[u] /\ qpc'[u] = qpc[u]
                                  /\ chan'[u] = chan[u] /\ reg'[u] = reg[u]
  BY <1>a, <1>b DEF Inv, PoolTypes, QueueTypes
<1>d. /\ pc'[Main] = "shutputting" /\ qpc'[Main] = "append" /\ chan'[Main] = ShutPool
      /\ reg'[Main] = ExitItem(ShutPool, todo, shut[ShutPool] - 1)
  BY <1>a, <1>b DEF Inv, PoolTypes, QueueTypes
<1>e. \A w \in Workers : ToldToExit(w)' <=> ToldToExit(w)
  BY <1>c DEF ToldToExit
<1>1. ExitHands'
  <2>1. ExitItem(ShutPool, todo, shut[ShutPool] - 1)'
          = ExitItem(ShutPool, todo, shut[ShutPool] - 1)
    BY <1>a DEF ExitItem
  <2> QED
    BY <1>a, <1>c, <1>d, <2>1 DEF Exits, ExitHands
<1>2. ExitsQueued' /\ ToldByShutdown'
  BY <1>a, <1>c, <1>d, <1>e DEF Exits, ExitsQueued, ToldByShutdown, InQueue, ShutPC
<1>3. Enough'
  <2>1. Unexited' \subseteq Unexited
    BY <1>a, <1>c, <1>e, <1>p DEF Unexited
  <2>2. \A i : InQueue(ExitItem(ShutPool, i, shut[ShutPool] - 1), ShutPool)
                 => InQueue(ExitItem(ShutPool, i, shut[ShutPool] - 1), ShutPool)'
    BY <1>a DEF InQueue
  <2>3. ExitsLeft \subseteq ExitsLeft'
    BY <1>a, <1>d, <2>2 DEF ExitsLeft
  <2> QED
    BY <1>a, <2>1, <2>3, EnoughStays DEF Exits, ShutPC
<1> QED
  BY <1>1, <1>2, <1>3 DEF Exits

(* The workers are joined: what is left in their queue ends nobody. *)
LEMMA ShutJoinExits ==
  ASSUME Inv, Exits, ShutJoin
  PROVE  Exits'
<1> USE Constants
<1>a. /\ pc[Main] = "shutput" /\ \A w \in WorkersOf[ShutPool] : pc[w] = "dead"
      /\ UNCHANGED <<items, qpc, chan, reg>>
  BY DEF ShutJoin, qvars
<1>b. \E l \in {"run", "exited"} : \A u \in Threads : pc'[u] = IF u = Main THEN l ELSE pc[u]
  BY DEF ShutJoin, Goto, Inv, PoolTypes
<1>c. \A w \in Workers : ~ToldToExit(w)
  <2> SUFFICES ASSUME NEW w \in Workers, ToldToExit(w) PROVE FALSE
    OBVIOUS
  <2>1. PoolOf(w) = ShutPool
    BY DEF Exits, ToldByShutdown
  <2>2. w \in WorkersOf[PoolOf(w)]
    BY PoolOfWorker DEF Workers
  <2> QED
    BY <1>a, <2>1, <2>2 DEF ToldToExit
<1>d. \A w \in Workers : ~ToldToExit(w)'
  BY <1>a, <1>b, <1>c DEF ToldToExit
<1>1. ExitHands'
  BY <1>a, <1>b DEF Exits, ExitHands
<1>2. ExitsQueued'
  <2> SUFFICES ASSUME NEW p \in Pools, NEW x \in ExitItems, InQueue(x, p)'
               PROVE  \A w \in WorkersOf[p] : pc'[w] = "dead"
    BY DEF ExitsQueued
  <2>1. InQueue(x, p)
    BY <1>a DEF InQueue
  <2>2. \A w \in WorkersOf[p] : pc[w] = "dead"
    BY <1>a, <2>1 DEF Exits, ExitsQueued
  <2> QED
    BY <1>b, <2>2
<1>3. ToldByShutdown'
  BY <1>d DEF ToldByShutdown
<1>4. Enough'
  BY <1>b DEF Enough, ShutPC
<1> QED
  BY <1>1, <1>2, <1>3, <1>4 DEF Exits

(* At the import of the module no exit item is anywhere. *)
LEMMA ExitsInit == Init => Exits
<1> SUFFICES ASSUME Init PROVE Exits
  OBVIOUS
<1> USE Constants DEF Init, Q!QInit
<1>1. \A t \in Threads : pc[t] \in {"loop", "off", "run"}
  OBVIOUS
<1>2. pc[Main] = "run"
  OBVIOUS
<1>3. \A x : \A p \in Pools : ~InQueue(x, p)
  BY DEF InQueue
<1> QED
  BY <1>1, <1>2, <1>3 DEF Exits, ExitHands, ExitsQueued, Enough, ToldByShutdown, ToldToExit,
     ShutPC

(* Exits is inductive, relative to Inv and Places. *)
LEMMA ExitsStep == Inv /\ Places /\ Exits /\ [Next]_vars => Exits'
<1> SUFFICES ASSUME Inv, Places, Exits, [Next]_vars PROVE Exits'
  OBVIOUS
<1> USE Constants
<1>1. CASE UNCHANGED vars
  BY <1>1, QuietExits DEF vars
<1>2. ASSUME NEW t \in Threads, Choose(t) PROVE Exits'
  <2>1. ASSUME NEW f \in Futures, NewFutureNoPool(t, f) PROVE Exits'
    BY <2>1, QuietExits DEF NewFutureNoPool
  <2>2. ASSUME NEW f \in Futures, CallFuture(t, f) PROVE Exits'
    BY <2>2, QuietExits DEF CallFuture, Running, Goto, Special, ShutPC, Inv, PoolTypes
  <2> QED
    BY <1>2, <2>1, <2>2, NewFutureExits DEF Choose
<1>3. ASSUME NEW t \in Threads, Step(t) PROVE Exits'
  <2>1. CASE QueueStep(t)
    BY <2>1, AppendExits, PopExits, LookExits DEF QueueStep, Q!GetStep
  <2>2. CASE CallEnter(t) \/ CallCheck(t) \/ CallWait(t) \/ CallReturn(t)
    BY <2>2, QuietExits
       DEF CallEnter, CallCheck, CallWait, CallReturn, Goto, Special, ShutPC, Inv, PoolTypes
  <2>3. CASE TaskLock(t) \/ (\E o \in Endings : TaskEnd(t, o)) \/ TaskSetDone(t)
    BY <2>3, QuietExits
       DEF TaskLock, TaskEnd, TaskSetDone, Goto, Special, ShutPC, Inv, PoolTypes
  <2>4. CASE TaskNotify(t)
    <3>1. \A u \in Threads : u \in fwaiters[task[t]] => pc[u] = "waiting"
      BY <2>4 DEF Inv, NoSleepingCaller, TaskNotify, Control, PoolTypes
    <3>2. UNCHANGED <<qvars, pvars>> /\ pc[t] = "notify"
      BY <2>4 DEF TaskNotify
    <3>3. \A u \in Threads : pc'[u] = IF u = t THEN pc'[t]
                                      ELSE IF u \in fwaiters[task[t]] THEN "enter" ELSE pc[u]
      BY <2>4 DEF TaskNotify
    <3>4. pc'[t] \in {"dead", "loop"}
      BY <2>4 DEF TaskNotify
    <3> QED
      BY <3>1, <3>2, <3>3, <3>4, QuietExits DEF Special, ShutPC
  <2> QED
    BY <1>3, <2>1, <2>2, <2>3, <2>4, PutReturnsExits, WorkerLoopExits, DispatchExits DEF Step
<1>4. CASE MainStep
  BY <1>4, ShutPutExits, ShutJoinExits DEF MainStep
<1>5. CASE MainChoose
  BY <1>5, ExitExits, SetThreadPoolExits DEF MainChoose
<1> QED
  BY <1>1, <1>2, <1>3, <1>4, <1>5 DEF Next

(* Whoever is shutting a pool down has an exit item, put or still to be    *)
(* put, for every worker it will join, and no other worker gets one.       *)
THEOREM ShutdownPutsEnough == SafeSpec => []ExitsSuffice
<1>1. Exits => ExitsSuffice
  BY DEF Exits, Enough, Unexited, ToldByShutdown, ExitsSuffice
<1> QED
  BY <1>1, InvInit, InvStep, PlacesInit, PlacesStep, ExitsInit, ExitsStep, PTL DEF SafeSpec

-----------------------------------------------------------------------------
(* FuturePool implements FutureSpec: each step of the pool creates, starts *)
(* or finishes one future, returns from a call, or changes nothing of the  *)
(* promise.  That a task is started and finished once is what Places says. *)

Executes(f) == \E w \in Workers : task[w] = f /\ pc[w] # "lock"

StateOf(f) == IF born[f] # "made" THEN "none"
              ELSE IF done[f] THEN "done"
              ELSE IF Executes(f) THEN "running" ELSE "pending"

LEMMA StateIs ==
  ASSUME Born PROVE \A f \in Futures : FutureState[f] = StateOf(f)
BY DEF Born, FutureState, StateOf, Executes

LEMMA StateIsNext ==
  ASSUME Born' PROVE \A f \in Futures : FutureState'[f] = StateOf(f)'
BY DEF Born, FutureState, StateOf, Executes

(* A step that changes the promise of the futures in S only. *)
LEMMA OthersStay ==
  ASSUME Born, Born', NEW S,
         \A f \in Futures \ S :
           /\ born'[f] = "made" <=> born[f] = "made"
           /\ done'[f] = done[f]
           /\ done[f] => outcome'[f] = outcome[f]
           /\ born[f] = "made" /\ ~done[f] => (Executes(f)' <=> Executes(f))
  PROVE  \A f \in Futures \ S : /\ FutureState'[f] = FutureState[f]
                                /\ KnownOutcome'[f] = KnownOutcome[f]
<1> SUFFICES ASSUME NEW f \in Futures \ S
             PROVE  FutureState'[f] = FutureState[f] /\ KnownOutcome'[f] = KnownOutcome[f]
  OBVIOUS
<1>1. FutureState[f] = StateOf(f) /\ FutureState'[f] = StateOf(f)'
  BY StateIs, StateIsNext
<1>2. StateOf(f)' = StateOf(f)
  BY DEF StateOf, Born
<1>3. KnownOutcome'[f] = KnownOutcome[f]
  BY DEF KnownOutcome
<1> QED
  BY <1>1, <1>2, <1>3

(* The domains of the two mapped functions. *)
LEMMA Mapped ==
  /\ FutureState = [f \in Futures |-> FutureState[f]]
  /\ FutureState' = [f \in Futures |-> FutureState'[f]]
  /\ KnownOutcome = [f \in Futures |-> KnownOutcome[f]]
  /\ KnownOutcome' = [f \in Futures |-> KnownOutcome'[f]]
BY DEF FutureState, KnownOutcome

(* A step that changes the promise of no future. *)
LEMMA NothingChanges ==
  ASSUME Born, Born', got' = got,
         \A f \in Futures :
           /\ born'[f] = "made" <=> born[f] = "made"
           /\ done'[f] = done[f]
           /\ done[f] => outcome'[f] = outcome[f]
           /\ born[f] = "made" /\ ~done[f] => (Executes(f)' <=> Executes(f))
  PROVE  UNCHANGED <<FutureState, KnownOutcome, got>>
<1>1. \A f \in Futures : FutureState'[f] = FutureState[f] /\ KnownOutcome'[f] = KnownOutcome[f]
  BY OthersStay
<1> QED
  BY <1>1, Mapped

(* A step that neither changes a task nor moves a thread to or from the    *)
(* lock of its task.                                                       *)
LEMMA SameExecutions ==
  ASSUME Born, Born', UNCHANGED <<born, done, outcome, got, task>>,
         \A w \in Workers : pc'[w] = "lock" <=> pc[w] = "lock"
  PROVE  UNCHANGED <<FutureState, KnownOutcome, got>>
<1>1. \A f \in Futures : Executes(f)' <=> Executes(f)
  BY DEF Executes
<1> QED
  BY <1>1, NothingChanges

-----------------------------------------------------------------------------
LEMMA NewFuturePromise ==
  ASSUME Inv, Places, Places', NEW t \in Threads, NEW f \in Futures, NewFuture(t, f)
  PROVE  Promise!Create(f)
<1>1. /\ born[f] = "no" /\ born' = [born EXCEPT ![f] = "made"]
      /\ pc[t] = "run" /\ pc' = [pc EXCEPT ![t] = "putting"]
      /\ UNCHANGED <<task, done, outcome, got>>
  BY DEF NewFuture, Goto, Running
<1>2. Born /\ Born' /\ born'[f] = "made" /\ ~done[f]
  BY <1>1 DEF Places, Born, Inv, PoolTypes
<1>3. \A g \in Futures : Executes(g)' <=> Executes(g)
  BY <1>1, Constants DEF Executes, Inv, PoolTypes
<1>4. ~Executes(f)
  BY <1>1, Constants DEF Executes, Places, HeldIsMade, Holds
<1>5. FutureState[f] = "none" /\ FutureState'[f] = "pending"
  BY <1>1, <1>2, <1>3, <1>4, StateIs, StateIsNext DEF StateOf
<1>6. \A g \in Futures \ {f} :
        FutureState'[g] = FutureState[g] /\ KnownOutcome'[g] = KnownOutcome[g]
  <2>1. \A g \in Futures \ {f} : born'[g] = born[g]
    BY <1>1 DEF Inv, PoolTypes
  <2> QED
    BY <2>1, <1>1, <1>2, <1>3, OthersStay
<1>7. KnownOutcome'[f] = KnownOutcome[f]
  BY <1>1 DEF KnownOutcome
<1> QED
  BY <1>1, <1>5, <1>6, <1>7, Mapped DEF Promise!Create

LEMMA TaskLockPromise ==
  ASSUME Inv, Places, Places', NEW t \in Threads, TaskLock(t)
  PROVE  \E f \in Futures : Promise!Start(f)
<1> DEFINE f == task[t]
<1>1. /\ pc[t] = "lock" /\ pc' = [pc EXCEPT ![t] = "run"]
      /\ UNCHANGED <<task, born, done, outcome, got>>
  BY DEF TaskLock, Goto
<1>2. t \in Workers /\ f \in Futures /\ pc'[t] = "run"
  BY <1>1 DEF Inv, PoolTypes, Control, TaskPC
<1>3. Born /\ Born' /\ born[f] = "made" /\ ~done[f]
  BY <1>1, <1>2 DEF Places, HeldIsMade, DoneIsOver, Holds
<1>4. ~Executes(f)
  BY <1>1, <1>2, Constants DEF Executes, Places, OneHolder, Holds
<1>5. Executes(f)'
  BY <1>1, <1>2 DEF Executes
<1>6. \A g \in Futures \ {f} : Executes(g)' <=> Executes(g)
  BY <1>1, Constants DEF Executes, Inv, PoolTypes
<1>7. FutureState[f] = "pending" /\ FutureState'[f] = "running"
  BY <1>1, <1>2, <1>3, <1>4, <1>5, StateIs, StateIsNext DEF StateOf
<1>8. \A g \in Futures \ {f} :
        FutureState'[g] = FutureState[g] /\ KnownOutcome'[g] = KnownOutcome[g]
  BY <1>1, <1>3, <1>6, OthersStay
<1>9. KnownOutcome'[f] = KnownOutcome[f]
  BY <1>1 DEF KnownOutcome
<1> HIDE DEF f
<1> QED
  BY <1>1, <1>2, <1>7, <1>8, <1>9, Mapped DEF Promise!Start

LEMMA TaskSetDonePromise ==
  ASSUME Inv, Places, Places', NEW t \in Threads, TaskSetDone(t)
  PROVE  \E f \in Futures : \E o \in Outcomes : Promise!Finish(f, o)
<1> DEFINE f == task[t]
           o == outcome[f]
<1>1. /\ pc[t] = "setdone" /\ pc' = [pc EXCEPT ![t] = "notify"]
      /\ done' = [done EXCEPT ![f] = TRUE]
      /\ UNCHANGED <<task, born, outcome, got>>
  BY DEF TaskSetDone, Goto
<1>2. t \in Workers /\ f \in Futures /\ done'[f] /\ o \in Outcomes
  BY <1>1 DEF Inv, PoolTypes, Control, TaskPC, Ended
<1>3. Born /\ Born' /\ born[f] = "made" /\ ~done[f]
  BY <1>1, <1>2 DEF Places, HeldIsMade, DoneIsOver, Holds
<1>4. Executes(f)
  BY <1>1, <1>2 DEF Executes
<1>5. \A g \in Futures : Executes(g)' <=> Executes(g)
  BY <1>1, Constants DEF Executes, Inv, PoolTypes
<1>6. FutureState[f] = "running" /\ FutureState'[f] = "done"
  BY <1>1, <1>2, <1>3, <1>4, StateIs, StateIsNext DEF StateOf
<1>7. \A g \in Futures \ {f} :
        FutureState'[g] = FutureState[g] /\ KnownOutcome'[g] = KnownOutcome[g]
  <2>1. \A g \in Futures \ {f} : done'[g] = done[g]
    BY <1>1 DEF Inv, PoolTypes
  <2> QED
    BY <2>1, <1>1, <1>3, <1>5, OthersStay
<1>8. KnownOutcome'[f] = o
  BY <1>1, <1>2 DEF KnownOutcome
<1> HIDE DEF f, o
<1>9. Promise!Finish(f, o)
  BY <1>1, <1>2, <1>6, <1>7, <1>8, Mapped DEF Promise!Finish
<1> QED
  BY <1>2, <1>9

LEMMA CallReturnPromise ==
  ASSUME Inv, Places, Places', NEW t \in Threads, CallReturn(t)
  PROVE  \E f \in Futures : Promise!Return(t, f)
<1> DEFINE f == callee[t]
<1>1. /\ pc[t] = "return" /\ pc' = [pc EXCEPT ![t] = "run"]
      /\ got' = [got EXCEPT ![t] = <<f, outcome[f]>>]
      /\ UNCHANGED <<task, born, done, outcome>>
  BY DEF CallReturn, Goto
<1>2. f \in Futures /\ done[f]
  BY <1>1 DEF Inv, PoolTypes, Control, CallPC, Ended
<1>3. Born /\ Born'
  BY DEF Places
<1>4. FutureState[f] = "done" /\ KnownOutcome[f] = outcome[f]
  BY <1>2, <1>3, StateIs DEF StateOf, Born, KnownOutcome
<1>5. \A g \in Futures : Executes(g)' <=> Executes(g)
  BY <1>1, Constants DEF Executes, Inv, PoolTypes
<1>6. \A g \in Futures \ {} :
        FutureState'[g] = FutureState[g] /\ KnownOutcome'[g] = KnownOutcome[g]
  BY <1>1, <1>3, <1>5, OthersStay
<1> HIDE DEF f
<1> QED
  BY <1>1, <1>2, <1>4, <1>6, Mapped DEF Promise!Return

-----------------------------------------------------------------------------
LEMMA NewFutureNoPoolPromise ==
  ASSUME Inv, Places, Places', NEW t \in Threads, NEW f \in Futures, NewFutureNoPool(t, f)
  PROVE  UNCHANGED <<FutureState, KnownOutcome, got>>
<1>1. /\ born[f] = "no" /\ born' = [born EXCEPT ![f] = "failed"]
      /\ UNCHANGED <<pc, task, done, outcome, got>>
  BY DEF NewFutureNoPool
<1>2. \A g \in Futures : born'[g] = "made" <=> born[g] = "made"
  BY <1>1 DEF Inv, PoolTypes
<1>3. \A g \in Futures : Executes(g)' <=> Executes(g)
  BY <1>1 DEF Executes
<1> QED
  BY <1>1, <1>2, <1>3, NothingChanges DEF Places

(* A thread calls, waits, asks for a task or goes on in put() or get(). *)
LEMMA QuietStepPromise ==
  ASSUME Inv, Places, Places', NEW t \in Threads,
         \/ \E f \in Futures : CallFuture(t, f)
         \/ QueueStep(t) \/ PutReturns(t)
         \/ CallEnter(t) \/ CallCheck(t) \/ CallWait(t) \/ WorkerLoop(t)
  PROVE  UNCHANGED <<FutureState, KnownOutcome, got>>
<1>1. UNCHANGED <<born, done, outcome, got, task>>
  BY DEF CallFuture, QueueStep, PutReturns, CallEnter, CallCheck, CallWait, WorkerLoop, fvars
<1>2. \/ UNCHANGED pc
      \/ pc[t] # "lock" /\ \E l \in PCs \ {"lock"} : pc' = [pc EXCEPT ![t] = l]
  BY DEF CallFuture, Running, QueueStep, PutReturns, CallEnter, CallCheck, CallWait, WorkerLoop,
     Goto, PCs, CallPC, TaskPC, ShutPC
<1>3. \A w \in Workers : pc'[w] = "lock" <=> pc[w] = "lock"
  BY <1>2, Constants DEF Inv, PoolTypes
<1> QED
  BY <1>1, <1>3, SameExecutions DEF Places

(* The task that a worker has got is not executed before it has the lock. *)
LEMMA DispatchPromise ==
  ASSUME Inv, Places, Places', NEW t \in Threads, Dispatch(t)
  PROVE  UNCHANGED <<FutureState, KnownOutcome, got>>
<1>1. /\ pc[t] = "getting" /\ task[t] = None
      /\ UNCHANGED <<born, done, outcome, got>>
  BY DEF Dispatch, fvars, Places, Tasks
<1>2. \/ UNCHANGED task /\ pc' = [pc EXCEPT ![t] = "dead"]
      \/ task' = [task EXCEPT ![t] = reg[t]] /\ pc' = [pc EXCEPT ![t] = "lock"]
  BY DEF Dispatch, Goto
<1>3. \A f \in Futures : Executes(f)' <=> Executes(f)
  BY <1>1, <1>2, Constants DEF Executes, Inv, PoolTypes
<1> QED
  BY <1>1, <1>3, NothingChanges DEF Places

(* The outcome is not known before _done is set. *)
LEMMA TaskEndPromise ==
  ASSUME Inv, Places, Places', NEW t \in Threads, NEW o \in Endings, TaskEnd(t, o)
  PROVE  UNCHANGED <<FutureState, KnownOutcome, got>>
<1> DEFINE f == task[t]
<1>1. /\ pc[t] = "run" /\ f # None /\ pc' = [pc EXCEPT ![t] = "setdone"]
      /\ outcome' = [outcome EXCEPT ![f] = o]
      /\ UNCHANGED <<task, born, done, got>>
  BY DEF TaskEnd, Goto
<1>2. f \in Futures /\ ~done[f]
  BY <1>1 DEF Inv, PoolTypes, Places, DoneIsOver, Holds
<1>3. \A g \in Futures : done[g] => outcome'[g] = outcome[g]
  BY <1>1, <1>2 DEF Inv, PoolTypes
<1>4. \A g \in Futures : Executes(g)' <=> Executes(g)
  BY <1>1, Constants DEF Executes, Inv, PoolTypes
<1> HIDE DEF f
<1> QED
  BY <1>1, <1>3, <1>4, NothingChanges DEF Places

(* The worker lets go of a task that is done. *)
LEMMA TaskNotifyPromise ==
  ASSUME Inv, Places, Places', NEW t \in Threads, TaskNotify(t)
  PROVE  UNCHANGED <<FutureState, KnownOutcome, got>>
<1> DEFINE f == task[t]
<1>1. /\ pc[t] = "notify" /\ done[f] /\ f \in Futures
      /\ task' = [task EXCEPT ![t] = None]
      /\ UNCHANGED <<born, done, outcome, got>>
  BY DEF TaskNotify, Places, Tasks, Inv, PoolTypes, Control
<1>2. \A w \in Threads \ {t} : pc'[w] = "lock" <=> pc[w] = "lock"
  BY <1>1 DEF TaskNotify, Inv, NoSleepingCaller, PoolTypes
<1>3. \A g \in Futures : ~done[g] => (Executes(g)' <=> Executes(g))
  BY <1>1, <1>2, Constants DEF Executes, Inv, PoolTypes
<1> HIDE DEF f
<1> QED
  BY <1>1, <1>3, NothingChanges DEF Places

(* The main thread changes the pool: new workers begin with no task. *)
LEMMA MainPromise ==
  ASSUME Inv, Places, Places', MainStep \/ MainChoose
  PROVE  UNCHANGED <<FutureState, KnownOutcome, got>>
<1>1. UNCHANGED <<born, done, outcome, got, task>>
  BY DEF MainStep, MainChoose, ShutPut, ShutJoin, Exit, SetThreadPool, fvars
<1>2. \A w \in Workers : pc'[w] = "lock" <=> pc[w] = "lock"
  <2>1. CASE MainStep \/ Exit
    BY <2>1, Constants DEF MainStep, ShutPut, ShutJoin, Exit, Goto, Inv, PoolTypes
  <2>2. ASSUME NEW th \in Pools \union {None}, SetThreadPool(th)
        PROVE  \A w \in Workers : pc'[w] = "lock" <=> pc[w] = "lock"
    <3>1. \A w \in Workers : th # None /\ w \in WorkersOf[th] => pc[w] = "off"
      BY <2>2 DEF SetThreadPool, Inv, Control
    <3> DEFINE ws == IF th = None THEN {} ELSE WorkersOf[th]
    <3>2. \/ pc' = Start(ws)
          \/ pc' = [Start(ws) EXCEPT ![Main] = "shutput"]
      BY <2>2 DEF SetThreadPool
    <3>3. \A w \in ws : w \in Workers => pc[w] = "off"
      BY <3>1
    <3> HIDE DEF ws
    <3>4. \A w \in Workers : pc'[w] = pc[w] \/ (w \in ws /\ pc'[w] = "loop")
      BY <3>2, Constants DEF Start
    <3> QED
      BY <3>3, <3>4
  <2> QED
    BY <2>1, <2>2 DEF MainChoose
<1> QED
  BY <1>1, <1>2, SameExecutions DEF Places

-----------------------------------------------------------------------------
(* Every step of the pool is one of the promise or leaves it alone. *)
LEMMA PromiseStep ==
  ASSUME Inv, Places, Places', [Next]_vars
  PROVE  Promise!Next \/ UNCHANGED <<FutureState, KnownOutcome, got>>
<1>1. CASE UNCHANGED vars
  BY <1>1 DEF vars, fvars, FutureState, KnownOutcome
<1>2. ASSUME NEW t \in Threads, Choose(t)
      PROVE  Promise!Next \/ UNCHANGED <<FutureState, KnownOutcome, got>>
  BY <1>2, NewFuturePromise, NewFutureNoPoolPromise, QuietStepPromise DEF Choose, Promise!Next
<1>3. ASSUME NEW t \in Threads, Step(t)
      PROVE  Promise!Next \/ UNCHANGED <<FutureState, KnownOutcome, got>>
  <2>1. CASE \/ QueueStep(t) \/ PutReturns(t) \/ CallEnter(t) \/ CallCheck(t)
             \/ CallWait(t) \/ WorkerLoop(t)
    BY <2>1, QuietStepPromise
  <2>2. CASE CallReturn(t)
    BY <2>2, CallReturnPromise DEF Promise!Next
  <2>3. CASE Dispatch(t) \/ (\E o \in Endings : TaskEnd(t, o)) \/ TaskNotify(t)
    BY <2>3, DispatchPromise, TaskEndPromise, TaskNotifyPromise
  <2>4. CASE TaskLock(t)
    BY <2>4, TaskLockPromise DEF Promise!Next
  <2>5. CASE TaskSetDone(t)
    BY <2>5, TaskSetDonePromise DEF Promise!Next
  <2> QED
    BY <1>3, <2>1, <2>2, <2>3, <2>4, <2>5 DEF Step
<1>4. CASE MainStep \/ MainChoose
  BY <1>4, MainPromise
<1> QED
  BY <1>1, <1>2, <1>3, <1>4 DEF Next

(* At first there is no future. *)
LEMMA PromiseInit == Init => Promise!Init
<1> SUFFICES ASSUME Init PROVE Promise!Init
  OBVIOUS
<1>1. \A f \in Futures : born[f] # "made" /\ ~done[f]
  BY DEF Init
<1>2. \A f \in Futures : FutureState[f] = "none" /\ KnownOutcome[f] = None
  BY <1>1, StateIs DEF Born, StateOf, KnownOutcome
<1>3. got = [t \in Threads |-> None]
  BY DEF Init
<1> QED
  BY <1>2, <1>3, Mapped DEF Promise!Init

(* The pool and its futures keep the promise of FutureSpec: a task is      *)
(* started once, it has one outcome, and no call returns before it ended.  *)
THEOREM FuturesKeepTheirPromise == SafeSpec => ImplementsFuture
<1>1. Inv /\ Places /\ (Inv /\ Places)' /\ [Next]_vars =>
        [Promise!Next]_<<FutureState, KnownOutcome, got>>
  BY PromiseStep
<1> QED
  BY <1>1, PromiseInit, PlacesInvariance, PTL
  DEF SafeSpec, ImplementsFuture, Promise!Spec, Promise!vars
=============================================================================
