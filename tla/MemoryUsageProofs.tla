-------------------------- MODULE MemoryUsageProofs -------------------------
(***************************************************************************)
(* Proofs about MemoryUsage, for any number of benchmarks and samples and  *)
(* whether or not the file of a zombie can be read.                        *)
(***************************************************************************)
EXTENDS MemoryUsage, SequenceTheorems, TLAPS

Active(c) == future[c] \in {"sampling", "holding"}

\* main has not got to call c
Later(c) == c[1] > bench \/ (c[1] = bench /\ side = "changed" /\ c[2] = "base")

\* a sampler exists for the calls that main has made
Order == /\ \A c \in Calls : Later(c) => future[c] = "none"
         /\ Running("popen") => future[ThisCall] = "none"
         /\ pc = "compare" => /\ bench <= NumBench /\ side = "base"
                              /\ Active(ThisCall) => code[ThisCall] \in {1, 42}

Processes == \A c \in Calls : /\ child[c] \in {"none", "running"} <=> code[c] = -1
                              /\ future[c] = "none" => child[c] = "none"

Samples == \A c \in Calls : /\ future[c] = "holding" => usage[c] < MaxSamples
                            /\ returned[c] = "list" => future[c] = "done"

IInv == TypeOK /\ Order /\ Processes /\ Samples /\ Undisturbed

-----------------------------------------------------------------------------
LEMMA CallFacts ==
  ASSUME TypeOK
  PROVE  /\ \A c \in Calls : c = <<c[1], c[2]>> /\ c[1] \in 1..NumBench /\ c[2] \in Sides
         /\ bench <= NumBench => ThisCall \in Calls
         /\ \A c \in Calls : c = ThisCall <=> c[1] = bench /\ c[2] = side
         /\ NumBench \in Nat /\ bench \in Nat \ {0}
  BY MemoryAssumption DEF MemoryAssumption, TypeOK, Calls, Sides, ThisCall

LEMMA InitInv == Init => IInv
<1> SUFFICES ASSUME Init PROVE IInv
  OBVIOUS
<1> USE MemoryAssumption DEF MemoryAssumption, Init
<1>1. results \in Seq(ResultTypes) /\ Len(results) = 0
  BY EmptySeq
<1>2. TypeOK
  BY <1>1 DEF TypeOK, Sides, Codes
<1>3. \A c \in Calls : Running("popen") => ThisCall \in Calls
  BY <1>2, CallFacts DEF Running
<1>4. Order
  BY <1>2, CallFacts DEF Order, Running
<1> QED BY <1>2, <1>4 DEF IInv, Processes, Samples, Undisturbed

-----------------------------------------------------------------------------
(* How a step of main may move it: on to the next benchmark, once the call *)
(* it is at has no sampler or has failed, with at most one result.         *)
LEMMA NextBenchStep ==
  ASSUME IInv, bench <= NumBench, NextBench,
         Active(ThisCall) => code[ThisCall] \in {1, 42},
         results' = results \/ \E t \in ResultTypes : results' = Append(results, t),
         errors' \in {errors, errors \union {bench}},
         UNCHANGED <<code, future, usage, returned>>,
         child' \in [Calls -> {"none", "running", "zombie", "reaped"}],
         Processes'
  PROVE  IInv'
<1> USE CallFacts DEF IInv, NextBench
<1>1. results' \in Seq(ResultTypes) /\ Len(results') < bench'
  <2>1. results \in Seq(ResultTypes) /\ Len(results) \in Nat /\ Len(results) < bench
    BY LenProperties DEF TypeOK
  <2>2. CASE results' = results
    BY <2>1, <2>2
  <2>3. ASSUME NEW t \in ResultTypes, results' = Append(results, t)
        PROVE  results' \in Seq(ResultTypes) /\ Len(results') = Len(results) + 1
    BY <2>1, <2>3, AppendProperties
  <2> QED BY <2>1, <2>2, <2>3
<1>2. TypeOK'
  BY <1>1 DEF TypeOK, Sides
<1>3. Order'
  BY DEF Order, Later, Running, ThisCall, Active, Calls, Sides
<1>4. Undisturbed'
  <2> SUFFICES ASSUME NEW c \in Calls, Active(c) PROVE code[c] \in {1, 42}
    BY DEF Undisturbed, Active
  <2> QED BY DEF Undisturbed, Active
<1> QED BY <1>2, <1>3, <1>4 DEF Samples

(* ... or with the result of one side, final if it is a list. *)
LEMMA ReturnsStep ==
  ASSUME IInv, bench <= NumBench, pc \in {"communicate", "usage"},
         NEW mem \in {"None", "list"}, Returns(mem),
         Active(ThisCall) => code[ThisCall] \in {1, 42},
         mem = "list" => future[ThisCall] = "done",
         UNCHANGED <<code, future, usage>>,
         child' \in [Calls -> {"none", "running", "zombie", "reaped"}],
         Processes'
  PROVE  IInv'
<1> USE CallFacts DEF IInv, Returns
<1>1. TypeOK'
  BY DEF TypeOK, Sides
<1>2. Order'
  BY DEF Order, Later, Running, ThisCall, Active, Calls, Sides, TypeOK
<1>3. Samples'
  BY DEF Samples, TypeOK
<1>4. Undisturbed'
  <2> SUFFICES ASSUME NEW c \in Calls, Active(c), c # ThisCall' PROVE code[c] \in {1, 42}
    BY DEF Undisturbed, Active
  <2> QED BY DEF Undisturbed, Active
<1> QED BY <1>1, <1>2, <1>3, <1>4

-----------------------------------------------------------------------------
LEMMA MainStep == IInv /\ Main => IInv'
<1> SUFFICES ASSUME IInv, Main PROVE IInv'
  OBVIOUS
<1> USE CallFacts DEF IInv
<1>1. CASE Popen
  <2> USE <1>1 DEF Popen, Running
  <2>1. TypeOK'
    BY DEF TypeOK
  <2>2. Order'
    BY DEF Order, Later, ThisCall, Active, TypeOK
  <2>3. Processes'
    BY DEF Processes, TypeOK, Order
  <2>4. Samples'
    BY DEF Samples, TypeOK, Order
  <2>5. Undisturbed'
    BY DEF Undisturbed, TypeOK, ThisCall
  <2> QED BY <2>1, <2>2, <2>3, <2>4, <2>5
<1>2. CASE PopenFails
  BY <1>2, NextBenchStep DEF PopenFails, Running, Raises, Reports, Order, Active, ResultTypes,
     TypeOK, Processes
<1>3. CASE Communicate
  <2> USE <1>3 DEF Communicate, Running
  <2>1. /\ child' \in [Calls -> {"none", "running", "zombie", "reaped"}]
        /\ Processes'
        /\ code[ThisCall] \in Codes
    BY DEF TypeOK, Processes
  <2>2. CASE code[ThisCall] = 0 /\ pc' = "usage" /\ UNCHANGED <<bench, side, results, errors, returned>>
    <3>1. TypeOK'
      BY <2>1, <2>2 DEF TypeOK
    <3>2. Order' /\ Samples' /\ Undisturbed'
      BY <2>2 DEF Order, Later, ThisCall, Active, Samples, Undisturbed
    <3> QED BY <2>1, <3>1, <3>2
  <2>3. CASE code[ThisCall] = 42 /\ Returns("None")
    BY <2>1, <2>3, ReturnsStep
  <2>4. CASE code[ThisCall] # 0 /\ Raises /\ UNCHANGED returned
    BY <2>1, <2>4, NextBenchStep DEF Raises, Codes
  <2> QED BY <2>2, <2>3, <2>4
<1>4. CASE GetMemoryUsage
  BY <1>4, ReturnsStep DEF GetMemoryUsage, Running, Active, TypeOK, Processes
<1>5. CASE ParserRaises
  BY <1>5, NextBenchStep DEF ParserRaises, Running, Raises, Active, TypeOK, Processes
<1>6. CASE Compare
  <2>1. Raises \/ \E t \in ResultTypes : Reports(t)
    BY <1>6 DEF Compare, ResultTypes
  <2>2. /\ bench <= NumBench /\ (Active(ThisCall) => code[ThisCall] \in {1, 42})
        /\ UNCHANGED <<child, code, future, usage, returned>>
    BY <1>6 DEF Compare, Running, Order
  <2> QED BY <2>1, <2>2, NextBenchStep DEF Raises, Reports, TypeOK, Processes
<1>7. CASE PyBench
  BY <1>7, NextBenchStep DEF PyBench, Running, Reports, Order, Active, ResultTypes, TypeOK, Processes
<1>8. CASE Report
  <2> USE <1>8 DEF Report
  <2>1. TypeOK'
    BY DEF TypeOK
  <2>2. Order' /\ Processes' /\ Samples' /\ Undisturbed'
    BY DEF Order, Later, Running, ThisCall, Active, Processes, Samples, Undisturbed
  <2> QED BY <2>1, <2>2
<1> QED BY <1>1, <1>2, <1>3, <1>4, <1>5, <1>6, <1>7, <1>8 DEF Main

LEMMA OthersStep ==
  ASSUME IInv, NEW c \in Calls,
         Exit(c) \/ ReadSmaps(c) \/ AppendSample(c) \/ SamplerEnds(c)
  PROVE  IInv'
<1> USE CallFacts DEF IInv, mainVars
<1>1. CASE Exit(c)
  <2> USE <1>1 DEF Exit
  <2>1. PICK r \in Codes : code' = [code EXCEPT ![c] = r]
    OBVIOUS
  <2>2. code[c] = -1 /\ (c # ThisCall => ~Active(c))
    BY DEF Processes, Undisturbed, Active
  <2>3. TypeOK'
    BY <2>1 DEF TypeOK
  <2>4. Order'
    <3>1. UNCHANGED <<bench, side, pc, future, ThisCall>>
      BY DEF ThisCall
    <3>2. ASSUME pc = "compare", Active(ThisCall) PROVE code'[ThisCall] \in {1, 42}
      <4>1. ThisCall \in Calls /\ code[ThisCall] \in {1, 42}
        BY <3>2 DEF Order
      <4>2. c # ThisCall
        BY <2>2, <4>1
      <4> QED BY <2>1, <4>1, <4>2 DEF TypeOK
    <3> QED BY <3>1, <3>2 DEF Order, Later, Running, Active
  <2>5. Processes' /\ Samples'
    BY <2>1 DEF Processes, Samples, TypeOK, Codes
  <2>6. Undisturbed'
    BY <2>1, <2>2 DEF Undisturbed, TypeOK, ThisCall, Active
  <2> QED BY <2>3, <2>4, <2>5, <2>6
<1>2. CASE ReadSmaps(c) \/ AppendSample(c) \/ SamplerEnds(c)
  <2> USE <1>2 DEF ReadSmaps, AppendSample, SamplerEnds
  <2>1. Active(c) /\ UNCHANGED <<mainVars, child, code, returned>>
    BY DEF Active
  <2>2. future' \in [Calls -> {"none", "sampling", "holding", "done"}]
        /\ \A d \in Calls : d # c => future'[d] = future[d] /\ usage'[d] = usage[d]
    BY DEF TypeOK
  <2>3. future'[c] # "none" /\ usage'[c] \in 0..MaxSamples
        /\ (future'[c] = "holding" => usage'[c] < MaxSamples)
    BY MemoryAssumption DEF MemoryAssumption, TypeOK, Samples
  <2>4. usage' \in [Calls -> 0..MaxSamples]
    BY <2>2, <2>3 DEF TypeOK
  <2>5. TypeOK'
    BY <2>1, <2>2, <2>4 DEF TypeOK
  <2> HIDE <1>2
  <2>6. Order'
    BY <2>1, <2>2 DEF Order, Later, Running, ThisCall, Active
  <2>7. Processes' /\ Samples'
    BY <2>1, <2>2, <2>3 DEF Processes, Samples, Active
  <2>8. Undisturbed'
    BY <2>1, <2>2 DEF Undisturbed, ThisCall, Active
  <2> QED BY <2>5, <2>6, <2>7, <2>8
<1> QED BY <1>1, <1>2

LEMMA InvStep == IInv /\ [Next]_vars => IInv'
<1> SUFFICES ASSUME IInv, [Next]_vars PROVE IInv'
  OBVIOUS
<1>1. CASE Main
  BY <1>1, MainStep
<1>2. CASE \E c \in Calls : Exit(c) \/ ReadSmaps(c) \/ AppendSample(c) \/ SamplerEnds(c)
  BY <1>2, OthersStep
<1>3. CASE UNCHANGED vars
  BY <1>3 DEF vars, mainVars, IInv, TypeOK, Order, Later, Running, ThisCall, Active, Processes,
     Samples, Undisturbed
<1> QED BY <1>1, <1>2, <1>3 DEF Next

LEMMA InvAlways == Spec => []IInv
  BY InitInv, InvStep, PTL DEF Spec

-----------------------------------------------------------------------------
(* The types: main keeps at most one result per benchmark, of a known      *)
(* type, and no sampler passes its bound.                                  *)
THEOREM MemoryTypeCorrect == Spec => []TypeOK
<1>1. IInv => TypeOK
  BY DEF IInv
<1> QED BY <1>1, InvAlways, PTL

(* Only a failed call leaves a sampler at work while main is at another    *)
(* call (CallAndCaptureOutput raises before it waits for its future).      *)
THEOREM MemoryUndisturbed == Spec => []Undisturbed
<1>1. IInv => Undisturbed
  BY DEF IInv
<1> QED BY <1>1, InvAlways, PTL

(* The list that GetMemoryUsage returned never grows, although it is the   *)
(* sampler's own and nothing locks it.                                     *)
THEOREM MemoryUsageIsFinal == Spec => UsageIsFinal
<1>1. ASSUME IInv, [Next]_vars
      PROVE  [\A c \in Calls : returned[c] = "list" => usage'[c] = usage[c]]_vars
  <2> SUFFICES ASSUME NEW c \in Calls, returned[c] = "list"
               PROVE  usage'[c] = usage[c]
    OBVIOUS
  <2>1. future[c] = "done"
    BY <1>1 DEF IInv, Samples
  <2>2. CASE UNCHANGED usage
    BY <2>2
  <2>3. ASSUME NEW d \in Calls, AppendSample(d)
        PROVE  usage'[c] = usage[c]
    BY <1>1, <2>1, <2>3 DEF AppendSample, IInv, TypeOK
  <2>4. UNCHANGED usage \/ \E d \in Calls : AppendSample(d)
    BY <1>1 DEF Next, Main, Popen, PopenFails, Communicate, GetMemoryUsage, ParserRaises, Compare,
       PyBench, Report, Exit, ReadSmaps, SamplerEnds, vars
  <2> QED BY <2>2, <2>3, <2>4
<1> QED BY <1>1, InvAlways, PTL DEF Spec, UsageIsFinal
=============================================================================
