------------------------------- MODULE Primes -------------------------------
(***************************************************************************)
(* multithread/primes: workers take batches of numbers from one queue and  *)
(* put lists of answers on another; the main thread waits until every      *)
(* batch and every poison pill is done, and counts the primes among the    *)
(* answers that it finds.  The queues are those of the library's module    *)
(* Queue, whose operations are atomic.                                     *)
(***************************************************************************)
EXTENDS Integers, Sequences, FiniteSets

CONSTANTS Limit,       \* LIMIT: the numbers below it are tested
          BatchSize,   \* BATCH_SIZE
          PrimeWorkers

ASSUME PrimesAssumption == /\ Limit \in Nat \ {0}
                           /\ BatchSize \in Nat \ {0}
                           /\ IsFiniteSet(PrimeWorkers) /\ PrimeWorkers # {}

Pill == <<>>    \* poison_pill: no batch is empty

VARIABLES tasks,        \* the queue of batches and pills
          unfinished,   \* its count of items without a task_done()
          results,      \* the queue of lists of answers, here the primes of each
          at,           \* at[w]: "off", "get", "check", "done", "pill" or "end"
          batch,        \* batch[w]: the batch that w has in hand, or Pill
          mainAt,       \* "fill", "start", "join", "read" or "end"
          primeCount

primeVars == <<tasks, unfinished, results, at, batch, mainAt, primeCount>>

IsPrime(n) == n > 1 /\ \A d \in 2..(n - 1) : n % d # 0

(* grouper: the numbers in batches, the last one filled up with ones *)
Batch(i) == [k \in 1..BatchSize |-> LET n == (i - 1) * BatchSize + k - 1
                                    IN  IF n < Limit THEN n ELSE 1]
NumBatches == (Limit + BatchSize - 1) \div BatchSize

Batches == {Batch(i) : i \in 1..NumBatches}
NumWorkers == Cardinality(PrimeWorkers)

(* check_prime for every number of a batch *)
PrimesOf(b) == {b[k] : k \in {j \in DOMAIN b : IsPrime(b[j])}}

PrimesTypeOK == /\ tasks \in Seq(Batches \union {Pill})
                /\ unfinished \in 0..(NumBatches + NumWorkers)
                /\ results \in Seq(SUBSET (0..Limit))
                /\ at \in [PrimeWorkers -> {"off", "get", "check", "done", "pill", "end"}]
                /\ batch \in [PrimeWorkers -> Batches \union {Pill}]
                /\ mainAt \in {"fill", "start", "join", "read", "end"}
                /\ primeCount \in Nat

PrimesInit == /\ tasks = <<>>
              /\ unfinished = 0
              /\ results = <<>>
              /\ at = [w \in PrimeWorkers |-> "off"]
              /\ batch = [w \in PrimeWorkers |-> Pill]
              /\ mainAt = "fill"
              /\ primeCount = 0

PrimeGoto(w, l) == at' = [at EXCEPT ![w] = l]

-----------------------------------------------------------------------------
(* worker(tasks, results) *)

GetBatch(w) == /\ at[w] = "get" /\ tasks # <<>>
               /\ tasks' = Tail(tasks)
               /\ batch' = [batch EXCEPT ![w] = tasks[1]]
               /\ PrimeGoto(w, IF tasks[1] = Pill THEN "pill" ELSE "check")
               /\ UNCHANGED <<unfinished, results, mainAt, primeCount>>

(* Every number is checked in an atomic block of its own, on data that no  *)
(* other thread sees; then results.put(result).                            *)
PutResult(w) == /\ at[w] = "check"
                /\ results' = Append(results, PrimesOf(batch[w]))
                /\ batch' = [batch EXCEPT ![w] = Pill]
                /\ PrimeGoto(w, "done")
                /\ UNCHANGED <<tasks, unfinished, mainAt, primeCount>>

(* tasks.task_done(), after a batch or a pill *)
TaskDone(w) == /\ at[w] \in {"done", "pill"}
               /\ unfinished' = unfinished - 1
               /\ PrimeGoto(w, IF at[w] = "pill" THEN "end" ELSE "get")
               /\ UNCHANGED <<tasks, results, batch, mainAt, primeCount>>

-----------------------------------------------------------------------------
(* run(threads, n) *)

(* In one atomic block: all batches, and a pill for each worker. *)
FillTasks == /\ mainAt = "fill"
             /\ tasks' = [i \in 1..(NumBatches + NumWorkers) |->
                            IF i <= NumBatches THEN Batch(i) ELSE Pill]
             /\ unfinished' = NumBatches + NumWorkers
             /\ mainAt' = "start"
             /\ UNCHANGED <<results, at, batch, primeCount>>

StartWorker(w) == /\ mainAt = "start"
                  /\ at[w] = "off"
                  /\ PrimeGoto(w, "get")
                  /\ mainAt' = IF \A v \in PrimeWorkers \ {w} : at[v] # "off" THEN "join" ELSE "start"
                  /\ UNCHANGED <<tasks, unfinished, results, batch, primeCount>>

(* Defect: waits only until the batches have been taken. *)
JoinTaken == /\ mainAt = "join" /\ \A i \in DOMAIN tasks : tasks[i] = Pill
             /\ mainAt' = "read"
             /\ UNCHANGED <<tasks, unfinished, results, at, batch, primeCount>>

(* tasks.join() *)
Join == /\ mainAt = "join" /\ unfinished = 0
        /\ mainAt' = "read"
        /\ UNCHANGED <<tasks, unfinished, results, at, batch, primeCount>>

(* while not results.empty() *)
ReadResult == /\ mainAt = "read" /\ results # <<>>
              /\ primeCount' = primeCount + Cardinality(results[1])
              /\ results' = Tail(results)
              /\ UNCHANGED <<tasks, unfinished, at, batch, mainAt>>

ReadNoMore == /\ mainAt = "read" /\ results = <<>>
              /\ mainAt' = "end"
              /\ UNCHANGED <<tasks, unfinished, results, at, batch, primeCount>>

PrimesNext == \/ FillTasks \/ Join \/ ReadResult \/ ReadNoMore
              \/ \E w \in PrimeWorkers : StartWorker(w) \/ GetBatch(w) \/ PutResult(w) \/ TaskDone(w)

PrimesSpec == PrimesInit /\ [][PrimesNext]_primeVars

-----------------------------------------------------------------------------
(* The main thread looks at the results only until it finds none, without  *)
(* waiting: yet it returns the number of primes, for the workers may come  *)
(* in any order, but no batch is done before its answers can be read.      *)
EveryPrimeCounted ==
  mainAt = "end" => primeCount = Cardinality({n \in 0..(Limit - 1) : IsPrime(n)})
=============================================================================
