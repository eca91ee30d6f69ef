---------------------------- MODULE TLQueueProofs ---------------------------
(***************************************************************************)
(* Proofs about TLQueue, for every number of threads, queues and values.   *)
(* The inductive invariant is built in layers: the types (with the value   *)
(* that a put has in hand), the lock discipline, then NoLostWakeup and     *)
(* InOnePlace, which each need the layers below and not one another.       *)
(***************************************************************************)
EXTENDS TLQueue, DataLemmas, TLAPS

(* A put that has not appended yet has its value in hand. *)
PutHasValue == \A t \in Threads : qpc[t] = "append" => reg[t] \in Values

TypeInv == QTypeOK /\ PutHasValue

(* Every queue operation preserves the types. *)
LEMMA TypeStep == TypeInv /\ [QNext]_qvars => TypeInv'
<1> SUFFICES ASSUME TypeInv, [QNext]_qvars PROVE TypeInv'
  OBVIOUS
<1> USE TLQueueAssumption DEF TypeInv, QTypeOK, PutHasValue, PutPC, GetPC
<1>1. CASE UNCHANGED qvars
  BY <1>1 DEF qvars
<1>2. ASSUME NEW t \in Threads, NEW q \in Queues, NEW v \in Values, PutStart(t, q, v)
      PROVE  TypeInv'
  BY <1>2 DEF PutStart
<1>3. ASSUME NEW t \in Threads, NEW q \in Queues, GetStart(t, q)
      PROVE  TypeInv'
  BY <1>3 DEF GetStart
<1>4. ASSUME NEW t \in Threads, PutAppend(t)
      PROVE  TypeInv'
  BY <1>4 DEF PutAppend
<1>5. ASSUME NEW t \in Threads, PutNotify(t)
      PROVE  TypeInv'
  BY <1>5 DEF PutNotify
<1>6. ASSUME NEW t \in Threads, Pop(t), GetFastPop(t) \/ GetTestPop(t)
      PROVE  TypeInv'
  <2>1. /\ items[chan[t]] \in Seq(Values)
        /\ items[chan[t]] # <<>>
    BY <1>6 DEF Pop
  <2>2. /\ SubSeq(items[chan[t]], 1, Len(items[chan[t]]) - 1) \in Seq(Values)
        /\ items[chan[t]][Len(items[chan[t]])] \in Values
    BY <2>1, PopKeepsPrefix
  <2> QED
    BY <1>6, <2>2 DEF Pop, GetFastPop, GetTestPop
<1>7. ASSUME NEW t \in Threads, GetFastMiss(t) \/ GetTestMiss(t)
      PROVE  TypeInv'
  BY <1>7 DEF GetFastMiss, GetTestMiss
<1>8. ASSUME NEW t \in Threads, GetLock(t)
      PROVE  TypeInv'
  BY <1>8 DEF GetLock
<1>9. ASSUME NEW t \in Threads, GetWait(t)
      PROVE  TypeInv'
  BY <1>9 DEF GetWait
<1> HIDE DEF TypeInv
<1> QED
  BY <1>1, <1>2, <1>3, <1>4, <1>5, <1>6, <1>7, <1>8, <1>9
     DEF QNext, QStart, PutStep, GetStep, GetFastPop, GetTestPop

(* The variables of a queue keep their types, in every execution. *)
THEOREM QTypeCorrect == QSafeSpec => []TypeInv
<1>1. QInit => TypeInv
  BY TLQueueAssumption DEF QInit, TypeInv, QTypeOK, PutHasValue
<1> QED
  BY <1>1, TypeStep, PTL DEF QSafeSpec

-----------------------------------------------------------------------------
(* A thread that is in no operation owns no lock and sleeps in no wait set. *)
LEMMA IdleHoldsNothing ==
  ASSUME LockDiscipline, NEW t \in Threads, qpc[t] = "idle"
  PROVE  \A q \in Queues : owner[q] # t /\ t \notin waiters[q]
<1> SUFFICES ASSUME NEW q \in Queues
             PROVE  owner[q] # t /\ t \notin waiters[q]
  OBVIOUS
<1>1. /\ qpc[t] # "test"
      /\ qpc[t] # "wait"
      /\ qpc[t] # "waiting"
  OBVIOUS
<1>2. owner[q] # t
  <2> SUFFICES ASSUME owner[q] = t PROVE FALSE
    OBVIOUS
  <2>1. chan[t] = q
    BY DEF LockDiscipline
  <2>2. owner[chan[t]] = t
    BY <2>1
  <2>3. qpc[t] \in {"test", "wait"}
    BY <2>2 DEF LockDiscipline
  <2> QED
    BY <1>1, <2>3
<1>3. t \notin waiters[q]
  BY <1>1 DEF LockDiscipline
<1> QED
  BY <1>2, <1>3

(* The lock discipline of get() is preserved by every queue operation. *)
LEMMA LockStep == TypeInv /\ LockDiscipline /\ [QNext]_qvars => LockDiscipline'
<1> SUFFICES ASSUME TypeInv, LockDiscipline, [QNext]_qvars PROVE LockDiscipline'
  OBVIOUS
<1>2. ASSUME NEW t \in Threads, qpc[t] = "idle"
      PROVE  \A q \in Queues : owner[q] # t /\ t \notin waiters[q]
  BY <1>2, IdleHoldsNothing
<1> USE TLQueueAssumption DEF TypeInv, QTypeOK, PutPC, GetPC, LockDiscipline
<1>1. CASE UNCHANGED qvars
  BY <1>1 DEF qvars
<1>3. ASSUME NEW t \in Threads, NEW q \in Queues,
             GetStart(t, q) \/ \E v \in Values : PutStart(t, q, v)
      PROVE  LockDiscipline'
  <2>1. /\ qpc[t] = "idle"
        /\ \E l \in {"append", "fast"} : qpc' = [qpc EXCEPT ![t] = l]
        /\ chan' = [chan EXCEPT ![t] = q]
        /\ UNCHANGED <<owner, waiters>>
    BY <1>3 DEF GetStart, PutStart
  <2>2. PICK l \in {"append", "fast"} : qpc' = [qpc EXCEPT ![t] = l]
    BY <2>1
  <2>3. \A r \in Queues : owner[r] # t /\ t \notin waiters[r]
    BY <1>2, <2>1
  <2>4. \A u \in Threads : qpc'[u] \in {"test", "wait"} <=> owner'[chan'[u]] = u
    BY <2>1, <2>2, <2>3
  <2>5. \A r \in Queues, u \in Threads : owner'[r] = u => chan'[u] = r
    BY <2>1, <2>3
  <2>6. \A r \in Queues, u \in Threads :
          u \in waiters'[r] <=> (qpc'[u] = "waiting" /\ chan'[u] = r)
    BY <2>1, <2>2, <2>3
  <2> QED
    BY <2>4, <2>5, <2>6
<1>4. ASSUME NEW t \in Threads, PutAppend(t)
      PROVE  LockDiscipline'
  BY <1>4 DEF PutAppend
<1>5. ASSUME NEW t \in Threads, PutNotify(t)
      PROVE  LockDiscipline'
  BY <1>5 DEF PutNotify
<1>6. ASSUME NEW t \in Threads, GetFastPop(t)
      PROVE  LockDiscipline'
  BY <1>6 DEF GetFastPop, Pop
<1>7. ASSUME NEW t \in Threads, GetTestPop(t)
      PROVE  LockDiscipline'
  BY <1>7 DEF GetTestPop, Pop
<1>8. ASSUME NEW t \in Threads, GetFastMiss(t) \/ GetTestMiss(t)
      PROVE  LockDiscipline'
  <2>1. CASE GetFastMiss(t)
    BY <2>1 DEF GetFastMiss
  <2>2. CASE GetTestMiss(t)
    BY <2>2 DEF GetTestMiss
  <2> QED
    BY <1>8, <2>1, <2>2
<1>9. ASSUME NEW t \in Threads, GetWait(t)
      PROVE  LockDiscipline'
  BY <1>9 DEF GetWait
<1>10. ASSUME NEW t \in Threads, GetLock(t)
       PROVE  LockDiscipline'
  BY <1>10 DEF GetLock
<1> HIDE DEF LockDiscipline
<1> QED
  BY <1>1, <1>10, <1>3, <1>4, <1>5, <1>6, <1>7, <1>8, <1>9
     DEF QNext, QStart, PutStep, GetStep

(* Two getters are never between test and wait of one queue, and the wait  *)
(* sets hold exactly the waiting threads.                                  *)
THEOREM QLockDiscipline == QSafeSpec => []LockDiscipline
<1>1. QInit => LockDiscipline
  BY TLQueueAssumption DEF QInit, LockDiscipline
<1> QED
  BY <1>1, QTypeCorrect, LockStep, PTL DEF QSafeSpec

-----------------------------------------------------------------------------
(* No queue operation can leave a value and a sleeper with no notification *)
(* to come.                                                                *)
LEMMA WakeupStep ==
  TypeInv /\ LockDiscipline /\ NoLostWakeup /\ [QNext]_qvars => NoLostWakeup'
<1> SUFFICES ASSUME TypeInv, LockDiscipline, NoLostWakeup, [QNext]_qvars,
                    NEW q \in Queues,
                    items'[q] # <<>>,
                    NEW s \in Threads, chan'[s] = q, qpc'[s] \in {"wait", "waiting"}
             PROVE  \E u \in Threads : chan'[u] = q /\ qpc'[u] = "notify"
  BY DEF NoLostWakeup
<1> USE TLQueueAssumption DEF TypeInv, QTypeOK, PutPC, GetPC, NoLostWakeup
<1>1. CASE UNCHANGED qvars
  BY <1>1 DEF qvars
<1>2. ASSUME NEW t \in Threads, NEW r \in Queues, NEW v \in Values, PutStart(t, r, v)
      PROVE  \E u \in Threads : chan'[u] = q /\ qpc'[u] = "notify"
  BY <1>2 DEF PutStart
<1>3. ASSUME NEW t \in Threads, NEW r \in Queues, GetStart(t, r)
      PROVE  \E u \in Threads : chan'[u] = q /\ qpc'[u] = "notify"
  BY <1>3 DEF GetStart
<1>4. ASSUME NEW t \in Threads, PutAppend(t)
      PROVE  \E u \in Threads : chan'[u] = q /\ qpc'[u] = "notify"
  <2>1. CASE chan[t] = q
    BY <1>4, <2>1 DEF PutAppend
  <2>2. CASE chan[t] # q
    BY <1>4, <2>2 DEF PutAppend
  <2> QED
    BY <2>1, <2>2
<1>5. ASSUME NEW t \in Threads, PutNotify(t)
      PROVE  \E u \in Threads : chan'[u] = q /\ qpc'[u] = "notify"
  <2>1. CASE chan[t] = q
    \* the lock is free, so nobody is about to wait, and all waiters are woken
    BY <1>5, <2>1 DEF PutNotify, LockDiscipline
  <2>2. CASE chan[t] # q
    <3>1. items[q] # <<>> /\ chan[s] = q /\ qpc[s] \in {"wait", "waiting"}
      BY <1>5, <2>2 DEF PutNotify, LockDiscipline
    <3>2. PICK u \in Threads : chan[u] = q /\ qpc[u] = "notify"
      BY <3>1
    <3>3. u # t /\ u \notin waiters[chan[t]]
      BY <2>2, <3>2 DEF LockDiscipline
    <3> QED
      BY <1>5, <3>2, <3>3 DEF PutNotify
  <2> QED
    BY <2>1, <2>2
<1>6. ASSUME NEW t \in Threads, GetFastPop(t) \/ GetTestPop(t)
      PROVE  \E u \in Threads : chan'[u] = q /\ qpc'[u] = "notify"
  <2>1. items[q] # <<>> /\ chan[s] = q /\ qpc[s] \in {"wait", "waiting"}
    BY <1>6 DEF GetFastPop, GetTestPop, Pop
  <2>2. PICK u \in Threads : chan[u] = q /\ qpc[u] = "notify"
    BY <2>1
  <2> QED
    BY <1>6, <2>2 DEF GetFastPop, GetTestPop, Pop
<1>7. ASSUME NEW t \in Threads, GetFastMiss(t) \/ GetTestMiss(t)
      PROVE  \E u \in Threads : chan'[u] = q /\ qpc'[u] = "notify"
  <2>1. chan[t] # q \/ s # t
    \* a getter that finds the queue empty adds no sleeper to a filled one
    BY <1>7 DEF GetFastMiss, GetTestMiss
  <2>2. items[q] # <<>> /\ chan[s] = q /\ qpc[s] \in {"wait", "waiting"}
    BY <1>7, <2>1 DEF GetFastMiss, GetTestMiss
  <2>3. PICK u \in Threads : chan[u] = q /\ qpc[u] = "notify"
    BY <2>2
  <2> QED
    BY <1>7, <2>3 DEF GetFastMiss, GetTestMiss
<1>8. ASSUME NEW t \in Threads, GetLock(t)
      PROVE  \E u \in Threads : chan'[u] = q /\ qpc'[u] = "notify"
  BY <1>8 DEF GetLock
<1>9. ASSUME NEW t \in Threads, GetWait(t)
      PROVE  \E u \in Threads : chan'[u] = q /\ qpc'[u] = "notify"
  BY <1>9 DEF GetWait
<1> QED
  BY <1>1, <1>2, <1>3, <1>4, <1>5, <1>6, <1>7, <1>8, <1>9 DEF QNext, QStart, PutStep, GetStep

(* No wakeup is lost, although put() appends before it takes the lock and  *)
(* get() pops without it.                                                  *)
THEOREM QNoLostWakeup == QSafeSpec => []NoLostWakeup
<1>1. QInit => NoLostWakeup
  BY DEF QInit, NoLostWakeup
<1> QED
  BY <1>1, QTypeCorrect, QLockDiscipline, WakeupStep, PTL DEF QSafeSpec

-----------------------------------------------------------------------------
(* What each step does to the place of the values: a put hands one to a    *)
(* queue, a pop takes the last one out of it.                              *)
LEMMA AppendPlaces ==
  ASSUME TypeInv, NEW t \in Threads, PutAppend(t)
  PROVE  LET q == chan[t]
         IN  /\ q \in Queues /\ reg[t] \in Values
             /\ \A r \in Queues \ {q} : items'[r] = items[r]
             /\ DOMAIN items[q] = 1..Len(items[q]) /\ Len(items[q]) \in Nat
             /\ DOMAIN items'[q] = 1..(Len(items[q]) + 1)
             /\ \A i \in DOMAIN items[q] : items'[q][i] = items[q][i]
             /\ items'[q][Len(items[q]) + 1] = reg[t]
<1> USE TLQueueAssumption DEF TypeInv, QTypeOK, PutHasValue
<1>1. chan[t] \in Queues /\ reg[t] \in Values /\ items[chan[t]] \in Seq(Values)
  BY DEF PutAppend
<1>2. items' = [items EXCEPT ![chan[t]] = Append(@, reg[t])]
  BY DEF PutAppend
<1>3. items'[chan[t]] = Append(items[chan[t]], reg[t])
  BY <1>1, <1>2
<1> HIDE DEF TypeInv, QTypeOK
<1>4. items'[chan[t]] \in Seq(Values) /\ Len(items'[chan[t]]) = Len(items[chan[t]]) + 1
  BY <1>1, <1>3, AppendProperties
<1>5. /\ \A i \in 1..Len(items[chan[t]]) : items'[chan[t]][i] = items[chan[t]][i]
      /\ items'[chan[t]][Len(items[chan[t]]) + 1] = reg[t]
  BY <1>1, <1>3, AppendProperties
<1>6. /\ DOMAIN items[chan[t]] = 1..Len(items[chan[t]]) /\ Len(items[chan[t]]) \in Nat
      /\ DOMAIN items'[chan[t]] = 1..Len(items'[chan[t]])
  BY <1>1, <1>4, LenProperties
<1>7. \A r \in Queues \ {chan[t]} : items'[r] = items[r]
  BY <1>2 DEF TypeInv, QTypeOK
<1> QED
  BY <1>1, <1>4, <1>5, <1>6, <1>7

LEMMA PopPlaces ==
  ASSUME TypeInv, NEW t \in Threads, Pop(t)
  PROVE  LET q == chan[t]
             n == Len(items[q])
         IN  /\ q \in Queues
             /\ \A r \in Queues \ {q} : items'[r] = items[r]
             /\ n \in DOMAIN items[q] /\ items[q][n] \in Values
             /\ \A i \in DOMAIN items'[q] : i \in DOMAIN items[q] /\ items'[q][i] = items[q][i] /\ i # n
             /\ \A i \in DOMAIN items[q] : i # n => i \in DOMAIN items'[q]
             /\ reg' = [reg EXCEPT ![t] = items[q][n]]
<1> USE DEF TypeInv, QTypeOK
<1>1. chan[t] \in Queues /\ items[chan[t]] \in Seq(Values) /\ items[chan[t]] # <<>>
  BY DEF Pop
<1>2. /\ items' = [items EXCEPT ![chan[t]] = SubSeq(@, 1, Len(@) - 1)]
      /\ reg' = [reg EXCEPT ![t] = items[chan[t]][Len(items[chan[t]])]]
  BY DEF Pop
<1>3. /\ items'[chan[t]] = SubSeq(items[chan[t]], 1, Len(items[chan[t]]) - 1)
      /\ \A r \in Queues \ {chan[t]} : items'[r] = items[r]
  BY <1>1, <1>2
<1> HIDE DEF TypeInv, QTypeOK
<1> QED
  BY <1>1, <1>2, <1>3, PopKeepsPrefix

(* No queue operation duplicates a value or hands it to two threads. *)
LEMMA OnePlaceStep == TypeInv /\ InOnePlace /\ [QNext]_qvars => InOnePlace'
<1> SUFFICES ASSUME TypeInv, InOnePlace, [QNext]_qvars PROVE InOnePlace'
  OBVIOUS
<1>0. /\ reg \in [Threads -> Values \union {None}]
      /\ None \notin Values
      /\ \A q \in Queues : \A i \in DOMAIN items[q] : items[q][i] \in Values
  <2>1. \A q \in Queues : items[q] \in Seq(Values)
    BY DEF TypeInv, QTypeOK
  <2> QED
    BY <2>1, LenProperties, TLQueueAssumption DEF TypeInv, QTypeOK
<1>1. CASE UNCHANGED <<items, reg>>
  BY <1>1 DEF InOnePlace
<1>2. ASSUME NEW t \in Threads, NEW q \in Queues, NEW v \in Values, PutStart(t, q, v)
      PROVE  InOnePlace'
  BY <1>0, <1>2 DEF PutStart, Fresh, InOnePlace
<1>3. ASSUME NEW t \in Threads, NEW q \in Queues, GetStart(t, q)
      PROVE  InOnePlace'
  BY <1>0, <1>3 DEF GetStart, InOnePlace
<1>4. ASSUME NEW t \in Threads, PutAppend(t)
      PROVE  InOnePlace'
  <2> DEFINE q == chan[t]
             n == Len(items[q])
             v == reg[t]
  <2>1. /\ q \in Queues /\ v \in Values
        /\ \A r \in Queues \ {q} : items'[r] = items[r]
        /\ DOMAIN items[q] = 1..n /\ n \in Nat
        /\ DOMAIN items'[q] = 1..(n + 1)
        /\ \A i \in DOMAIN items[q] : items'[q][i] = items[q][i]
        /\ items'[q][n + 1] = v
    BY <1>4, AppendPlaces
  <2>2. reg' = [reg EXCEPT ![t] = None]
    BY <1>4 DEF PutAppend
  <2> HIDE DEF q, n, v
  <2>3. \A r \in Queues : \A i \in DOMAIN items'[r] :
          \/ r = q /\ i = n + 1 /\ items'[r][i] = v
          \/ i \in DOMAIN items[r] /\ items'[r][i] = items[r][i]
    BY <2>1
  <2>4. \A r \in Queues : \A i \in DOMAIN items[r] : items[r][i] # v
    BY DEF InOnePlace, v
  <2>5. \A u \in Threads : reg'[u] # v /\ (reg'[u] = reg[u] \/ reg'[u] = None)
    BY <1>0, <2>1, <2>2 DEF InOnePlace, v
  <2>6. \A r1, r2 \in Queues : \A i \in DOMAIN items'[r1], j \in DOMAIN items'[r2] :
          items'[r1][i] = items'[r2][j] => r1 = r2 /\ i = j
    <3> SUFFICES ASSUME NEW r1 \in Queues, NEW r2 \in Queues,
                        NEW i \in DOMAIN items'[r1], NEW j \in DOMAIN items'[r2],
                        items'[r1][i] = items'[r2][j]
                 PROVE  r1 = r2 /\ i = j
      OBVIOUS
    <3> QED
      BY <2>3, <2>4 DEF InOnePlace
  <2>7. \A u \in Threads, r \in Queues : \A i \in DOMAIN items'[r] : reg'[u] # items'[r][i]
    BY <1>0, <2>3, <2>5 DEF InOnePlace
  <2>8. \A u1, u2 \in Threads : u1 # u2 /\ reg'[u1] # None => reg'[u1] # reg'[u2]
    BY <2>2, <1>0 DEF InOnePlace
  <2> QED
    BY <2>6, <2>7, <2>8 DEF InOnePlace
<1>5. ASSUME NEW t \in Threads, Pop(t)
      PROVE  InOnePlace'
  <2> DEFINE q == chan[t]
             n == Len(items[q])
             v == items[q][n]
  <2>1. /\ q \in Queues
        /\ \A r \in Queues \ {q} : items'[r] = items[r]
        /\ n \in DOMAIN items[q] /\ v \in Values
        /\ \A i \in DOMAIN items'[q] : i \in DOMAIN items[q] /\ items'[q][i] = items[q][i] /\ i # n
        /\ reg' = [reg EXCEPT ![t] = v]
    BY <1>5, PopPlaces
  <2> HIDE DEF q, n
  <2>2. \A r \in Queues : \A i \in DOMAIN items'[r] :
          i \in DOMAIN items[r] /\ items'[r][i] = items[r][i] /\ items[r][i] # v
    BY <2>1 DEF InOnePlace
  <2>3. \A u \in Threads : (u = t /\ reg'[u] = v) \/ (u # t /\ reg'[u] = reg[u] /\ reg[u] # v)
    BY <1>0, <2>1 DEF InOnePlace
  <2> HIDE DEF v
  <2>4. \A r1, r2 \in Queues : \A i \in DOMAIN items'[r1], j \in DOMAIN items'[r2] :
          items'[r1][i] = items'[r2][j] => r1 = r2 /\ i = j
    BY <2>2 DEF InOnePlace
  <2>5. \A u \in Threads, r \in Queues : \A i \in DOMAIN items'[r] : reg'[u] # items'[r][i]
    BY <2>2, <2>3 DEF InOnePlace
  <2>6. \A u1, u2 \in Threads : u1 # u2 /\ reg'[u1] # None => reg'[u1] # reg'[u2]
    BY <2>3 DEF InOnePlace
  <2> QED
    BY <2>4, <2>5, <2>6 DEF InOnePlace
<1> QED
  <2>1. CASE UNCHANGED qvars
    BY <1>1, <2>1 DEF qvars
  <2>2. CASE QNext
    BY <1>1, <1>2, <1>3, <1>4, <1>5, <2>2
       DEF QNext, QStart, PutStep, GetStep, PutNotify, GetFastPop, GetFastMiss,
           GetLock, GetTestPop, GetTestMiss, GetWait
  <2> QED
    BY <2>1, <2>2

(* The object of each put() is in one place: at most one get() returns it. *)
THEOREM QInOnePlace == QSafeSpec => []InOnePlace
<1>1. QInit => InOnePlace
  BY DEF QInit, InOnePlace
<1> QED
  BY <1>1, QTypeCorrect, OnePlaceStep, PTL DEF QSafeSpec

-----------------------------------------------------------------------------
(* Every step of the queue is a step of the store it promises, or none. *)
LEMMA StoreStep ==
  TypeInv /\ LockDiscipline /\ InOnePlace /\ [QNext]_qvars => [Store!Next]_Store!vars
<1> SUFFICES ASSUME TypeInv, LockDiscipline, InOnePlace, QNext
             PROVE  Store!Next \/ UNCHANGED Store!vars
  <2>1. CASE UNCHANGED qvars
    BY <2>1 DEF qvars, Store!vars, Contents, StoreMode
  <2> QED
    BY <2>1
<1>0. /\ \A q \in Queues : Contents[q] = {items[q][i] : i \in DOMAIN items[q]}
      /\ \A q \in Queues : Contents'[q] = {items'[q][i] : i \in DOMAIN items'[q]}
      /\ \A q \in Queues : \A x : x \in Contents[q] <=> \E i \in DOMAIN items[q] : x = items[q][i]
      /\ \A q \in Queues : \A x : x \in Contents'[q] <=> \E i \in DOMAIN items'[q] : x = items'[q][i]
      /\ Contents = [q \in Queues |-> Contents[q]]
      /\ Contents' = [q \in Queues |-> Contents'[q]]
  BY DEF Contents
<1>T. /\ qpc \in [Threads -> {"idle"} \union PutPC \union GetPC]
      /\ chan \in [Threads -> Queues]
      /\ reg \in [Threads -> Values \union {None}]
  BY DEF TypeInv, QTypeOK
<1>1. ASSUME NEW t \in Threads, NEW q \in Queues, NEW v \in Values, PutStart(t, q, v)
      PROVE  Store!Next
  <2>1. StoreMode[t] = "idle" /\ StoreMode' = [StoreMode EXCEPT ![t] = "put"]
    BY <1>1, <1>T DEF PutStart, StoreMode, PutPC, GetPC
  <2>2. Store!Fresh(t, v)
    BY <1>0, <1>1 DEF PutStart, Fresh, Store!Fresh
  <2>3. UNCHANGED Contents
    BY <1>1 DEF PutStart, Contents
  <2>4. Store!StartPut(t, q, v)
    BY <1>1, <2>1, <2>2, <2>3 DEF PutStart, Store!StartPut
  <2> QED
    BY <2>4 DEF Store!Next
<1>2. ASSUME NEW t \in Threads, NEW q \in Queues, GetStart(t, q)
      PROVE  Store!Next
  <2>1. StoreMode[t] = "idle" /\ StoreMode' = [StoreMode EXCEPT ![t] = "get"]
    BY <1>2, <1>T DEF GetStart, StoreMode, PutPC, GetPC
  <2>2. UNCHANGED Contents
    BY <1>2 DEF GetStart, Contents
  <2>3. Store!StartGet(t, q)
    BY <1>2, <2>1, <2>2 DEF GetStart, Store!StartGet
  <2> QED
    BY <2>3 DEF Store!Next
<1>3. ASSUME NEW t \in Threads, PutAppend(t)
      PROVE  Store!Next
  <2>1. StoreMode[t] = "put" /\ StoreMode' = [StoreMode EXCEPT ![t] = "idle"]
    BY <1>3, <1>T DEF PutAppend, StoreMode, PutPC, GetPC
  <2> DEFINE q == chan[t]
             n == Len(items[q])
             v == reg[t]
  <2>2. /\ q \in Queues
        /\ \A r \in Queues \ {q} : items'[r] = items[r]
        /\ DOMAIN items[q] = 1..n /\ n \in Nat
        /\ DOMAIN items'[q] = 1..(n + 1)
        /\ \A i \in DOMAIN items[q] : items'[q][i] = items[q][i]
        /\ items'[q][n + 1] = v
    BY <1>3, AppendPlaces
  <2> HIDE DEF n, v
  <2>3. /\ Contents'[q] = Contents[q] \union {v}
        /\ \A r \in Queues \ {q} : Contents'[r] = Contents[r]
    <3> HIDE DEF q
    <3>1. \A i \in DOMAIN items'[q] :
            (i \in DOMAIN items[q] /\ items'[q][i] = items[q][i]) \/ items'[q][i] = v
      BY <2>2
    <3>2. (n + 1) \in DOMAIN items'[q] /\ \A i \in DOMAIN items[q] : i \in DOMAIN items'[q]
      BY <2>2
    <3>3. ASSUME NEW x, x \in Contents'[q] PROVE x \in Contents[q] \union {v}
      <4>1. PICK i \in DOMAIN items'[q] : x = items'[q][i]
        BY <1>0, <2>2, <3>3
      <4> QED
        BY <1>0, <2>2, <3>1, <4>1
    <3>4. \A x : x \in Contents[q] \union {v} => x \in Contents'[q]
      BY <1>0, <2>2, <3>2
    <3>5. ASSUME NEW r \in Queues \ {q} PROVE Contents'[r] = Contents[r]
      <4>1. items'[r] = items[r]
        BY <2>2
      <4> QED
        BY <4>1 DEF Contents
    <3> QED
      BY <3>3, <3>4, <3>5
  <2>4. Contents' = [Contents EXCEPT ![q] = @ \union {v}]
    BY <1>0, <2>2, <2>3
  <2>5. Store!Put(t)
    BY <1>3, <2>1, <2>4 DEF PutAppend, Store!Put, v
  <2> QED
    BY <2>5 DEF Store!Next
<1>4. ASSUME NEW t \in Threads, Pop(t), GetFastPop(t) \/ GetTestPop(t)
      PROVE  Store!Next
  <2>1. StoreMode[t] = "get" /\ StoreMode' = [StoreMode EXCEPT ![t] = "idle"]
    BY <1>4, <1>T DEF GetFastPop, GetTestPop, Pop, StoreMode, PutPC, GetPC
  <2> DEFINE q == chan[t]
             n == Len(items[q])
             v == items[q][n]
  <2>2. /\ q \in Queues
        /\ \A r \in Queues \ {q} : items'[r] = items[r]
        /\ n \in DOMAIN items[q] /\ v \in Values
        /\ \A i \in DOMAIN items'[q] : i \in DOMAIN items[q] /\ items'[q][i] = items[q][i] /\ i # n
        /\ \A i \in DOMAIN items[q] : i # n => i \in DOMAIN items'[q]
        /\ reg' = [reg EXCEPT ![t] = v]
    BY <1>4, PopPlaces
  <2>3. \A i \in DOMAIN items[q] : items[q][i] = v <=> i = n
    BY <2>2 DEF InOnePlace
  <2> HIDE DEF n, v
  <2>4. /\ Contents'[q] = Contents[q] \ {v}
        /\ v \in Contents[q]
        /\ \A r \in Queues \ {q} : Contents'[r] = Contents[r]
    <3> HIDE DEF q
    <3>1. \A x : x \in Contents'[q] => x \in Contents[q] \ {v}
      BY <1>0, <2>2, <2>3
    <3>2. \A x : x \in Contents[q] \ {v} => x \in Contents'[q]
      BY <1>0, <2>2, <2>3
    <3>3. v \in Contents[q]
      BY <1>0, <2>2, <2>3
    <3>4. ASSUME NEW r \in Queues \ {q} PROVE Contents'[r] = Contents[r]
      <4>1. items'[r] = items[r]
        BY <2>2
      <4> QED
        BY <4>1 DEF Contents
    <3> QED
      BY <3>1, <3>2, <3>3, <3>4
  <2>5. Contents' = [Contents EXCEPT ![q] = @ \ {v}]
    BY <1>0, <2>2, <2>4
  <2>6. Store!Get(t, v)
    BY <1>4, <2>1, <2>2, <2>4, <2>5 DEF GetFastPop, GetTestPop, Store!Get
  <2> QED
    BY <2>2, <2>6 DEF Store!Next
<1>5. ASSUME NEW t \in Threads, PutNotify(t)
      PROVE  UNCHANGED Store!vars
  <2>1. \A u \in waiters[chan[t]] : u \in Threads => qpc[u] = "waiting"
    BY <1>T DEF LockDiscipline
  <2>2. \A u \in Threads : StoreMode'[u] = StoreMode[u]
    BY <1>5, <1>T, <2>1 DEF PutNotify, StoreMode, PutPC, GetPC
  <2>3. UNCHANGED StoreMode
    BY <2>2 DEF StoreMode
  <2> QED
    BY <1>5, <2>3 DEF PutNotify, Store!vars, Contents
<1>6. ASSUME NEW t \in Threads, GetFastMiss(t) \/ GetLock(t) \/ GetTestMiss(t) \/ GetWait(t)
      PROVE  UNCHANGED Store!vars
  <2>1. /\ UNCHANGED <<items, chan, reg>>
        /\ qpc[t] \in GetPC
        /\ \E l \in GetPC : qpc' = [qpc EXCEPT ![t] = l]
    BY <1>6 DEF GetFastMiss, GetLock, GetTestMiss, GetWait, GetPC
  <2>2. \A u \in Threads : StoreMode'[u] = StoreMode[u]
    BY <1>T, <2>1 DEF StoreMode, PutPC, GetPC
  <2>3. UNCHANGED StoreMode
    BY <2>2 DEF StoreMode
  <2> QED
    BY <2>1, <2>3 DEF Store!vars, Contents
<1> QED
  BY <1>1, <1>2, <1>3, <1>4, <1>5, <1>6
     DEF QNext, QStart, PutStep, GetStep, GetFastPop, GetTestPop

(* TLQueue implements the store: a value that is put is kept until one     *)
(* thread, and only one, gets it.                                          *)
THEOREM QImplementsStore == QSafeSpec => Store!SafeSpec
<1>1. QInit => Store!Init
  BY DEF QInit, Store!Init, Contents, StoreMode, PutPC, GetPC
<1> QED
  BY <1>1, QTypeCorrect, QLockDiscipline, QInOnePlace, StoreStep, PTL
     DEF QSafeSpec, Store!SafeSpec
=============================================================================
