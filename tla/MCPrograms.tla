----------------------------- MODULE MCPrograms -----------------------------
(* Instances for TLC of the benchmark programs that have a module of their *)
(* own.  One of them is chosen, as one is on the command line, and the     *)
(* variables of the others keep their initial values.                      *)
EXTENDS Worms, Richards, QuickSort, SkipList, BTree, Primes, BenchLib,
        LeeRouter

CONSTANTS w1, w2, q1, q2, p1, p2, p3, l1, l2, main

Programs == {"threadworms", "richards", "quick_sort", "skiplist", "btree", "primes", "twisted",
             "lee_routing"}

(* A board on which what can still be laid depends on the order in which   *)
(* the two threads lay their tracks; three pads end two connections each.  *)
BoardNets == <<<<<<4, 2>>, <<2, 4>>>>, <<<<2, 2>>, <<5, 2>>>>, <<<<3, 2>>, <<3, 5>>>>,
               <<<<1, 3>>, <<4, 2>>>>, <<<<2, 4>>, <<3, 2>>>>>>
BoardPads == UNION {{BoardNets[n][1], BoardNets[n][2]} : n \in DOMAIN BoardNets}

VARIABLE program    \* the name on the command line

allVars == <<program, vars, kernelVars, sortVars, skipVars, treeVars, primeVars, twistedVars,
             leeVars>>

ProgramsInit == /\ program \in Programs
                /\ Init /\ RichardsInit /\ SortInit /\ SkipInit /\ TreeInit /\ PrimesInit
                /\ BenchLibInit /\ LeeInit

RunWorms == /\ program = "threadworms" /\ Next
            /\ UNCHANGED <<kernelVars, sortVars, skipVars, treeVars, primeVars,
                           twistedVars, leeVars>>
RunRichards == /\ program = "richards" /\ RichardsNext
               /\ UNCHANGED <<vars, sortVars, skipVars, treeVars, primeVars,
                              twistedVars, leeVars>>
RunSort == /\ program = "quick_sort" /\ SortNext
           /\ UNCHANGED <<vars, kernelVars, skipVars, treeVars, primeVars,
                          twistedVars, leeVars>>
RunSkipList == /\ program = "skiplist" /\ SkipNext
               /\ UNCHANGED <<vars, kernelVars, sortVars, treeVars, primeVars,
                              twistedVars, leeVars>>
RunBTree == /\ program = "btree" /\ TreeNext
            /\ UNCHANGED <<vars, kernelVars, sortVars, skipVars, primeVars,
                           twistedVars, leeVars>>
RunPrimes == /\ program = "primes" /\ PrimesNext
             /\ UNCHANGED <<vars, kernelVars, sortVars, skipVars, treeVars,
                            twistedVars, leeVars>>
RunTwisted == /\ program = "twisted" /\ BenchLibNext
              /\ UNCHANGED <<vars, kernelVars, sortVars, skipVars, treeVars,
                             primeVars, leeVars>>
RunLee == /\ program = "lee_routing" /\ LeeNext
          /\ UNCHANGED <<vars, kernelVars, sortVars, skipVars, treeVars,
                         primeVars, twistedVars>>

ProgramsNext == /\ UNCHANGED program
                /\ \/ RunWorms \/ RunRichards \/ RunSort \/ RunSkipList \/ RunBTree \/ RunPrimes
                   \/ RunTwisted \/ RunLee

(* The threads of a program run on; on the reactor, timers fire and ports  *)
(* are closed, but nobody need answer a request.                           *)
ProgramsFairness ==
  /\ WF_allVars(UNCHANGED program /\ (RunRichards \/ RunSort \/ RunPrimes \/ RunLee))
  /\ WF_allVars(UNCHANGED program /\ RunTwisted /\ Goes)

ProgramsSpec == ProgramsInit /\ [][ProgramsNext]_allVars /\ ProgramsFairness

-----------------------------------------------------------------------------
(* Every variable of every program keeps its type. *)
TypesOK == /\ TypeOK /\ RichardsTypeOK /\ SortTypeOK /\ SkipTypeOK /\ TreeTypeOK
           /\ PrimesTypeOK /\ BenchLibTypeOK /\ LeeTypeOK

Ended == CASE program = "richards"   -> cur = Nil
           [] program = "quick_sort" -> SortReturned
           [] program = "primes"     -> mainAt = "end" /\ \A w \in PrimeWorkers : at[w] = "end"
           [] program = "twisted"    -> \/ reactor = "stopped"
                                        \/ driving = "multidriver" /\ fired = "failed"
           [] program = "lee_routing" -> \A t \in LeeThreads : leeAt[t] = "end"
           [] OTHER                  -> TRUE

(* Programs whose parts wait for one another come to their end: schedule() *)
(* to the end of its list; the main thread of quick_sort to the end of its *)
(* futures, which some worker must have taken; primes past its join, with  *)
(* a pill for every worker; the router to the end of its work; the reactor *)
(* of benchlib to stop, whatever becomes of the requests, but that         *)
(* multidriver() misses a failed job.                                      *)
ProgramEnds == <>Ended
=============================================================================
