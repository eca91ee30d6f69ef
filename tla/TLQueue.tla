------------------------------ MODULE TLQueue ------------------------------
(***************************************************************************)
(* The queue of multithread/common/abstract_threading.py (class TLQueue):  *)
(* a Python list used as a stack, and a Condition.  put() appends WITHOUT  *)
(* the lock and then takes it to notify all; get() first pops without the  *)
(* lock, and only then tests and waits under it.  Each step below is one   *)
(* the interpreter cannot be interrupted in: a call of append or pop (the  *)
(* "with atomic" blocks), or a step made while holding the Condition that  *)
(* touches only what the Condition protects.                               *)
(*                                                                         *)
(* The module describes any number of queues and threads, so that          *)
(* FuturePool can use its actions for the queues of several pools.         *)
(***************************************************************************)
EXTENDS Integers, Sequences

CONSTANTS Threads, Queues,
          Values,    \* what is put: each put() passes an object of its own
          None       \* no value, no thread

ASSUME TLQueueAssumption == /\ None \notin Threads
                            /\ None \notin Values

VARIABLES items,    \* items[q]: the list, popped at its end
          owner,    \* owner[q]: the thread that holds the Condition's lock
          waiters,  \* waiters[q]: the threads inside Condition.wait()
          qpc,      \* qpc[t]: where thread t is in put() or get()
          chan,     \* chan[t]: the queue of its operation
          reg       \* reg[t]: the value t is about to put or has got

qvars == <<items, owner, waiters, qpc, chan, reg>>

PutPC == {"append", "notify"}
GetPC == {"fast", "lock", "test", "wait", "waiting"}

QTypeOK == /\ items   \in [Queues -> Seq(Values)]
           /\ owner   \in [Queues -> Threads \union {None}]
           /\ waiters \in [Queues -> SUBSET Threads]
           /\ qpc     \in [Threads -> {"idle"} \union PutPC \union GetPC]
           /\ chan    \in [Threads -> Queues]
           /\ reg     \in [Threads -> Values \union {None}]

QInit == /\ items   = [q \in Queues |-> <<>>]
         /\ owner   = [q \in Queues |-> None]
         /\ waiters = [q \in Queues |-> {}]
         /\ qpc     = [t \in Threads |-> "idle"]
         /\ chan    \in [Threads -> Queues]
         /\ reg     = [t \in Threads |-> None]

-----------------------------------------------------------------------------
(* put(v) *)

(* The object passed to put() is new: no queue and no other thread has it. *)
Fresh(t, v) == /\ \A q \in Queues : \A i \in DOMAIN items[q] : items[q][i] # v
               /\ \A u \in Threads \ {t} : reg[u] # v

PutStart(t, q, v) == /\ qpc[t] = "idle"
                     /\ Fresh(t, v)
                     /\ qpc'  = [qpc EXCEPT ![t] = "append"]
                     /\ chan' = [chan EXCEPT ![t] = q]
                     /\ reg'  = [reg EXCEPT ![t] = v]
                     /\ UNCHANGED <<items, owner, waiters>>

(* self.items.append(v), before the lock is taken *)
PutAppend(t) == /\ qpc[t] = "append"
                /\ items' = [items EXCEPT ![chan[t]] = Append(@, reg[t])]
                /\ qpc'   = [qpc EXCEPT ![t] = "notify"]
                /\ reg'   = [reg EXCEPT ![t] = None]
                /\ UNCHANGED <<owner, waiters, chan>>

(* Defect: notify_all() without the lock. *)
PutNotifyUnlocked(t) ==
  LET q == chan[t]
  IN  /\ qpc[t] = "notify"
      /\ waiters' = [waiters EXCEPT ![q] = {}]
      /\ qpc' = [u \in Threads |-> IF u = t THEN "idle"
                                   ELSE IF u \in waiters[q] THEN "lock"
                                   ELSE qpc[u]]
      /\ UNCHANGED <<items, owner, chan, reg>>

(* with self._new_items: notify_all().  A woken thread goes back to taking *)
(* the lock: wait() takes it again, the with block ends, the loop restarts. *)
PutNotify(t) ==
  LET q == chan[t]
  IN  /\ qpc[t] = "notify"
      /\ owner[q] = None
      /\ waiters' = [waiters EXCEPT ![q] = {}]
      /\ qpc' = [u \in Threads |-> IF u = t THEN "idle"
                                   ELSE IF u \in waiters[q] THEN "lock"
                                   ELSE qpc[u]]
      /\ UNCHANGED <<items, owner, chan, reg>>

-----------------------------------------------------------------------------
(* get() *)

GetStart(t, q) == /\ qpc[t] = "idle"
                  /\ qpc'  = [qpc EXCEPT ![t] = "fast"]
                  /\ chan' = [chan EXCEPT ![t] = q]
                  /\ reg'  = [reg EXCEPT ![t] = None]
                  /\ UNCHANGED <<items, owner, waiters>>

(* Defect: returns the last element and leaves it in the list. *)
PopPeek(t) == LET q == chan[t]
              IN  /\ items[q] # <<>>
                  /\ reg' = [reg EXCEPT ![t] = items[q][Len(items[q])]]
                  /\ qpc' = [qpc EXCEPT ![t] = "idle"]
                  /\ UNCHANGED items

(* Defect: returns the first element and removes the last. *)
PopMixed(t) == LET q == chan[t]
               IN  /\ items[q] # <<>>
                   /\ reg'   = [reg EXCEPT ![t] = items[q][1]]
                   /\ items' = [items EXCEPT ![q] = SubSeq(@, 1, Len(@) - 1)]
                   /\ qpc'   = [qpc EXCEPT ![t] = "idle"]

(* items.pop(): the last element; the operation is over. *)
Pop(t) == LET q == chan[t]
          IN  /\ items[q] # <<>>
              /\ reg'   = [reg EXCEPT ![t] = items[q][Len(items[q])]]
              /\ items' = [items EXCEPT ![q] = SubSeq(@, 1, Len(@) - 1)]
              /\ qpc'   = [qpc EXCEPT ![t] = "idle"]

(* if items: return items.pop(), atomic and without the lock *)
GetFastPop(t) == /\ qpc[t] = "fast"
                 /\ Pop(t)
                 /\ UNCHANGED <<owner, waiters, chan>>

GetFastMiss(t) == /\ qpc[t] = "fast"
                  /\ items[chan[t]] = <<>>
                  /\ qpc' = [qpc EXCEPT ![t] = "lock"]
                  /\ UNCHANGED <<items, owner, waiters, chan, reg>>

(* Defect: waits without testing again under the lock. *)
GetLockToWait(t) == /\ qpc[t] = "lock"
                    /\ owner[chan[t]] = None
                    /\ owner' = [owner EXCEPT ![chan[t]] = t]
                    /\ qpc'   = [qpc EXCEPT ![t] = "wait"]
                    /\ UNCHANGED <<items, waiters, chan, reg>>

GetLock(t) == /\ qpc[t] = "lock"
              /\ owner[chan[t]] = None
              /\ owner' = [owner EXCEPT ![chan[t]] = t]
              /\ qpc'   = [qpc EXCEPT ![t] = "test"]
              /\ UNCHANGED <<items, waiters, chan, reg>>

(* The same test under the lock; returning leaves the with block. *)
GetTestPop(t) == /\ qpc[t] = "test"
                 /\ Pop(t)
                 /\ owner' = [owner EXCEPT ![chan[t]] = None]
                 /\ UNCHANGED <<waiters, chan>>

GetTestMiss(t) == /\ qpc[t] = "test"
                  /\ items[chan[t]] = <<>>
                  /\ qpc' = [qpc EXCEPT ![t] = "wait"]
                  /\ UNCHANGED <<items, owner, waiters, chan, reg>>

(* wait(): joins the wait set, then releases the lock.  An append made     *)
(* since the test is not seen here: only its notify_all() will tell.       *)
GetWait(t) == /\ qpc[t] = "wait"
              /\ waiters' = [waiters EXCEPT ![chan[t]] = @ \union {t}]
              /\ owner'   = [owner EXCEPT ![chan[t]] = None]
              /\ qpc'     = [qpc EXCEPT ![t] = "waiting"]
              /\ UNCHANGED <<items, chan, reg>>

-----------------------------------------------------------------------------
PutStep(t) == PutAppend(t) \/ PutNotify(t)

GetStep(t) == \/ GetFastPop(t) \/ GetFastMiss(t) \/ GetLock(t)
              \/ GetTestPop(t) \/ GetTestMiss(t) \/ GetWait(t)

QStart(t) == \E q \in Queues : GetStart(t, q) \/ \E v \in Values : PutStart(t, q, v)

QNext == \E t \in Threads : QStart(t) \/ PutStep(t) \/ GetStep(t)

(* The interpreter schedules every thread that can run; nothing makes a    *)
(* thread call put() or get() in the first place.                          *)
QFairness == \A t \in Threads : WF_qvars(PutStep(t) \/ GetStep(t))

QSafeSpec == QInit /\ [][QNext]_qvars

QSpec == QSafeSpec /\ QFairness

-----------------------------------------------------------------------------
(* Safety. *)

(* Only the thread that holds the Condition is between its acquisition and *)
(* the release that ends get() or starts wait(), and a waiting thread is   *)
(* in the wait set of the queue it asked: the lock discipline of get().    *)
LockDiscipline ==
  /\ \A t \in Threads : qpc[t] \in {"test", "wait"} <=> owner[chan[t]] = t
  /\ \A q \in Queues, t \in Threads : owner[q] = t => chan[t] = q
  /\ \A q \in Queues, t \in Threads :
       t \in waiters[q] <=> (qpc[t] = "waiting" /\ chan[t] = q)

(* No lost wakeup: although put() appends before it takes the lock, a      *)
(* queue that holds a value while a thread waits for it, or is committed   *)
(* to wait, is one whose notify_all() is still to come.                    *)
NoLostWakeup ==
  \A q \in Queues :
    (items[q] # <<>> /\ \E t \in Threads : chan[t] = q /\ qpc[t] \in {"wait", "waiting"})
      => \E u \in Threads : chan[u] = q /\ qpc[u] = "notify"

(* The object passed to one put() is in one place: at one position of one  *)
(* queue or in the hands of one thread.  No get() returns what another     *)
(* get() has returned, and none is both kept and returned.                 *)
InOnePlace ==
  /\ \A q, r \in Queues : \A i \in DOMAIN items[q], j \in DOMAIN items[r] :
       items[q][i] = items[r][j] => q = r /\ i = j
  /\ \A t \in Threads, q \in Queues : \A i \in DOMAIN items[q] : reg[t] # items[q][i]
  /\ \A t, u \in Threads : t # u /\ reg[t] # None => reg[t] # reg[u]

-----------------------------------------------------------------------------
(* The promise this queue implements. *)
StoreMode == [t \in Threads |-> CASE qpc[t] = "append" -> "put"
                                  [] qpc[t] \in GetPC  -> "get"
                                  [] OTHER             -> "idle"]

Contents == [q \in Queues |-> {items[q][i] : i \in DOMAIN items[q]}]

Store == INSTANCE TaskStore WITH store <- Contents, mode <- StoreMode, hand <- reg

(* TLQueue implements TaskStore: values are neither lost nor duplicated,   *)
(* and a thread that has asked is served while the queue holds a value.    *)
ImplementsStore == Store!Spec
=============================================================================
