----------------------------- MODULE MemoryUsage ----------------------------
(***************************************************************************)
(* perf.py --track_memory.  main runs each benchmark on the changed and    *)
(* then on the base interpreter, in a child process each, while a thread   *)
(* of its own, a MemoryUsageFuture, reads /proc/<pid>/smaps in a loop that *)
(* only an IOError ends.  A pid is taken to be unused as long as a future  *)
(* still reads it: the system hands pids out in turn.                      *)
(***************************************************************************)
EXTENDS Integers, Sequences

CONSTANTS NumBench,         \* the benchmarks to run
          MaxSamples,       \* a bound: a sampler takes no more of them
          ZombieReadable    \* the smaps file of a zombie is empty, not gone

ASSUME MemoryAssumption == /\ NumBench \in Nat
                           /\ MaxSamples \in Nat
                           /\ ZombieReadable \in BOOLEAN

Sides == {"changed", "base"}
Calls == (1..NumBench) \X Sides

VARIABLES bench,     \* the benchmark main is at
          side,      \* the side of it that is measured
          pc,        \* what main does next
          results,   \* what main keeps of the benchmarks
          errors,    \* the benchmarks that raised
          child,     \* child[c]: the process of call c
          code,      \* code[c]: its return code, -1 before it exits
          future,    \* future[c]: the thread that samples it
          usage,     \* usage[c]: the number of samples in its list
          returned   \* returned[c]: the mem_usage that the call returned

mainVars == <<bench, side, pc, results, errors>>
vars == <<mainVars, child, code, future, usage, returned>>

Codes == {0, 1, 42}
ResultTypes == {"memory", "text", "error"}   \* MemoryUsageResult, str, ResultError

TypeOK == /\ bench \in 1..(NumBench + 1)
          /\ side \in Sides
          /\ pc \in {"popen", "communicate", "usage", "compare", "printed", "raised", "died"}
          /\ results \in Seq(ResultTypes)
          /\ Len(results) < bench
          /\ errors \in SUBSET (1..NumBench)
          /\ child \in [Calls -> {"none", "running", "zombie", "reaped"}]
          /\ code \in [Calls -> Codes \union {-1}]
          /\ future \in [Calls -> {"none", "sampling", "holding", "done"}]
          /\ usage \in [Calls -> 0..MaxSamples]
          /\ returned \in [Calls -> {"nothing", "None", "list"}]

Init == /\ bench = 1
        /\ side = "changed"
        /\ pc = "popen"
        /\ results = <<>>
        /\ errors = {}
        /\ child = [c \in Calls |-> "none"]
        /\ code = [c \in Calls |-> -1]
        /\ future = [c \in Calls |-> "none"]
        /\ usage = [c \in Calls |-> 0]
        /\ returned = [c \in Calls |-> "nothing"]

-----------------------------------------------------------------------------
(* main and the functions it calls *)

ThisCall == <<bench, side>>
Running(p) == bench <= NumBench /\ pc = p

NextBench == /\ bench' = bench + 1
             /\ side' = "changed"
             /\ pc' = "popen"

\* the benchmark raises: main prints the exception and goes on
Raises == /\ errors' = errors \union {bench}
          /\ NextBench
          /\ UNCHANGED results

Reports(t) == /\ results' = Append(results, t)
              /\ NextBench
              /\ UNCHANGED errors

\* SimpleBenchmark gets the result of one side
Returns(mem) == /\ returned' = [returned EXCEPT ![ThisCall] = mem]
                /\ IF side = "changed" THEN side' = "base" /\ pc' = "popen"
                                       ELSE pc' = "compare" /\ UNCHANGED side
                /\ UNCHANGED <<bench, results, errors>>

\* Popen and the start of the future's thread
Popen == /\ Running("popen")
         /\ child' = [child EXCEPT ![ThisCall] = "running"]
         /\ future' = [future EXCEPT ![ThisCall] = "sampling"]
         /\ pc' = "communicate"
         /\ UNCHANGED <<bench, side, results, errors, code, usage, returned>>

\* RemovePycs or Popen fails; SimpleBenchmark knows only the first one's error
PopenFails == /\ Running("popen")
              /\ Raises \/ Reports("error")
              /\ UNCHANGED <<child, code, future, usage, returned>>

(* Defect: the child is not waited for. *)
CommunicateNoWait == /\ Running("communicate")
                     /\ child[ThisCall] = "zombie" /\ code[ThisCall] = 0
                     /\ pc' = "usage"
                     /\ UNCHANGED <<bench, side, results, errors, child, code, future, usage, returned>>

\* communicate() reaps the child.  Code 42 asks for Python 3; the assertion on
\* the output fails if it says so in another way.
Communicate == /\ Running("communicate")
               /\ child[ThisCall] = "zombie"
               /\ child' = [child EXCEPT ![ThisCall] = "reaped"]
               /\ \/ /\ code[ThisCall] = 0
                     /\ pc' = "usage"
                     /\ UNCHANGED <<bench, side, results, errors, returned>>
                  \/ code[ThisCall] = 42 /\ Returns("None")
                  \/ code[ThisCall] # 0 /\ Raises /\ UNCHANGED returned
               /\ UNCHANGED <<code, future, usage>>

(* Defect: GetMemoryUsage does not wait for _done. *)
GetMemoryUsageAtOnce == /\ Running("usage")
                        /\ Returns("list")
                        /\ UNCHANGED <<child, code, future, usage>>

\* the list that is returned is the future's own
GetMemoryUsage == /\ Running("usage")
                  /\ future[ThisCall] = "done"
                  /\ Returns("list")
                  /\ UNCHANGED <<child, code, future, usage>>

\* a line of the output is not a time
ParserRaises == /\ Running("usage")
                /\ future[ThisCall] = "done"
                /\ Raises
                /\ UNCHANGED <<child, code, future, usage, returned>>

(* CompareBenchmarkData: without a list for base a text; then an assertion *)
(* on changed and max() of both lists, which raises on an empty one.       *)
Compare == /\ Running("compare")
           /\ LET mem(s) == returned[<<bench, s>>]
                  empty(s) == usage[<<bench, s>>] = 0
              IN  \/ mem("base") = "None" /\ Reports("text")
                  \/ /\ mem("base") # "None"
                     /\ IF mem("changed") = "None" \/ empty("base") \/ empty("changed")
                          THEN Raises
                          ELSE Reports("memory")
           /\ UNCHANGED <<child, code, future, usage, returned>>

\* BM_PyBench takes no sample and reports a text
PyBench == /\ Running("popen") /\ side = "changed"
           /\ Reports("text")
           /\ UNCHANGED <<child, code, future, usage, returned>>

(* The last error is raised, or every result is printed; a text has no     *)
(* string_representation.                                                  *)
Report == /\ bench = NumBench + 1 /\ pc = "popen"
          /\ pc' = IF errors # {} THEN "raised"
                   ELSE IF \E i \in DOMAIN results : results[i] = "text" THEN "died"
                   ELSE "printed"
          /\ UNCHANGED <<bench, side, results, errors, child, code, future, usage, returned>>

Main == \/ Popen \/ PopenFails \/ Communicate \/ GetMemoryUsage \/ ParserRaises
        \/ Compare \/ PyBench \/ Report

-----------------------------------------------------------------------------
(* children and samplers *)

Exit(c) == /\ child[c] = "running"
           /\ child' = [child EXCEPT ![c] = "zombie"]
           /\ \E r \in Codes : code' = [code EXCEPT ![c] = r]
           /\ UNCHANGED <<mainVars, future, usage, returned>>

\* a sample is read, then appended: the child may be gone by then
ReadSmaps(c) == /\ future[c] = "sampling" /\ usage[c] < MaxSamples
                /\ child[c] = "running" \/ (child[c] = "zombie" /\ ZombieReadable)
                /\ future' = [future EXCEPT ![c] = "holding"]
                /\ UNCHANGED <<mainVars, child, code, usage, returned>>

AppendSample(c) == /\ future[c] = "holding"
                   /\ usage' = [usage EXCEPT ![c] = @ + 1]
                   /\ future' = [future EXCEPT ![c] = "sampling"]
                   /\ UNCHANGED <<mainVars, child, code, returned>>

\* IOError: the file is gone
SamplerEnds(c) == /\ future[c] = "sampling"
                  /\ child[c] = "reaped" \/ (child[c] = "zombie" /\ ~ZombieReadable)
                  /\ future' = [future EXCEPT ![c] = "done"]
                  /\ UNCHANGED <<mainVars, child, code, usage, returned>>

Next == Main \/ \E c \in Calls : Exit(c) \/ ReadSmaps(c) \/ AppendSample(c) \/ SamplerEnds(c)

(* Threads and processes are scheduled; a child that exits is assumed.     *)
Spec == Init /\ [][Next]_vars /\ WF_vars(Main)
             /\ \A c \in Calls : WF_vars(Exit(c)) /\ WF_vars(AppendSample(c) \/ SamplerEnds(c))

-----------------------------------------------------------------------------
(* The list that GetMemoryUsage returned does not grow any more: the       *)
(* maximum, the chart and the report are of the same samples.              *)
UsageIsFinal == [][\A c \in Calls : returned[c] = "list" => usage'[c] = usage[c]]_vars

(* Only a child that failed leaves a sampler at work while main measures   *)
(* another child: a good run is not disturbed by the one before it.        *)
Undisturbed == \A c \in Calls :
  future[c] \in {"sampling", "holding"} /\ c # ThisCall => code[c] \in {1, 42}

(* Every thread that samples ends, the ones included that main leaves      *)
(* behind when a benchmark fails, and main ends.                           *)
Ends == /\ <>[](pc \in {"printed", "raised", "died"})
        /\ <>[](\A c \in Calls : future[c] \in {"none", "done"})

(* If no benchmark raised, main prints its report.                         *)
ReportIsPrinted == pc # "died"
=============================================================================
