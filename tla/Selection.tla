------------------------------ MODULE Selection -----------------------------
(***************************************************************************)
(* Which benchmarks run.  runner.main takes a list from -b, from a file or *)
(* by default and hands it to perf.main as perf's -b; perf itself may be   *)
(* called with names, groups and negative names.  The variable list grows  *)
(* one element at a time, so that every list up to MaxArgs is looked at.   *)
(***************************************************************************)
EXTENDS Integers, Sequences

CONSTANTS Benchmarks,   \* the functions perf.main knows
          Groups,       \* BENCH_GROUPS, from names to sets of names
          Full,         \* runner's BENCHMARK_FULL
          DefaultList,  \* runner's BENCHMARK_DEFAULT
          MaxArgs

\* no group is among its own members, so that expanding one comes to an end
ASSUME SelectionAssumption == /\ Full \subseteq Benchmarks
                              /\ DefaultList \subseteq Full
                              /\ DefaultList # {}
                              /\ Benchmarks \intersect (DOMAIN Groups \union {"all"}) = {}
                              /\ "default" \in DOMAIN Groups
                              /\ "all" \notin DOMAIN Groups
                              /\ \A S \in (SUBSET DOMAIN Groups) \ {{}} :
                                   \E g \in S : Groups[g] \intersect S = {}

AllGroups == [g \in DOMAIN Groups \union {"all"} |->
                IF g = "all" THEN Benchmarks ELSE Groups[g]]
Names == Benchmarks \union DOMAIN AllGroups \union {"unknown"}
           \union UNION {AllGroups[g] : g \in DOMAIN AllGroups}
Args == [negative : BOOLEAN, name : Names]

VARIABLES list,     \* the arguments so far
          caller,   \* who names them
          outcome   \* what perf makes of them, or NotParsed

selectionVars == <<list, caller, outcome>>

Runs(S) == [error |-> "none", run |-> S]
Raises(e) == [error |-> e, run |-> {}]
NotParsed == Raises("notParsed")

SelectionInit == /\ list = <<>>
                 /\ caller \in {"perf", "option", "file"}
                 /\ outcome = NotParsed

-----------------------------------------------------------------------------
(* _ExpandBenchmarkName: a group in a group is expanded too.  An empty     *)
(* group is not told from a name that is no group.                         *)
expansion[n \in Names] == IF n \in DOMAIN AllGroups /\ AllGroups[n] # {}
                            THEN UNION {expansion[m] : m \in AllGroups[n]}
                            ELSE {n}

Positives(args) == {args[i].name : i \in {j \in DOMAIN args : ~args[j].negative}}
Negatives(args) == {args[i].name : i \in {j \in DOMAIN args : args[j].negative}}

(* should_run before the negative names.  Of a positive name, what is no   *)
(* benchmark only makes a warning; the default is taken as it is.          *)
Expanded(pos) == IF pos = {} THEN expansion["default"]
                             ELSE {b \in Benchmarks : \E n \in pos : b \in expansion[n]}

(* ParseBenchmarksOption.  The negative names come in any order, and the   *)
(* first that is a group, or that is not among those to run, raises.  A    *)
(* negative name that is no benchmark only makes a warning: what the       *)
(* default group names without a function stays among those to run.        *)
Parse(pos, neg) ==
  LET bad == (neg \intersect Benchmarks) \ Expanded(pos)
      groups == neg \intersect DOMAIN AllGroups
  IN  IF bad = {} /\ groups = {}
        THEN {Runs(Expanded(pos) \ (neg \intersect Benchmarks))}
        ELSE {Raises("KeyError") : b \in bad} \union {Raises("ValueError") : g \in groups}

(* perf.main looks each name up in bench_funcs before it calls it.         *)
Looked(o) == IF o.run \subseteq Benchmarks THEN o ELSE Raises("KeyError")
Perf(pos, neg) == {Looked(o) : o \in Parse(pos, neg)}

(* Defect: runner takes every name that perf knows of. *)
WrongForPerf(args) == \E i \in DOMAIN args : args[i].name \notin Names

(* runner checks each name before perf sees it. *)
Wrong(args) == \E i \in DOMAIN args : args[i].negative \/ args[i].name \notin Full

AddArg == /\ outcome = NotParsed
          /\ Len(list) < MaxArgs
          /\ \E a \in Args : list' = Append(list, a)
          /\ UNCHANGED <<caller, outcome>>

PerfParses == /\ outcome = NotParsed /\ caller = "perf"
              /\ outcome' \in Perf(Positives(list), Negatives(list))
              /\ UNCHANGED <<list, caller>>

(* runner.main: -b names at least one benchmark, a file may be empty.      *)
RunnerParses == /\ outcome = NotParsed /\ caller # "perf"
                /\ caller = "option" => list # <<>>
                /\ IF Wrong(list)
                     THEN outcome' = Raises("WrongBenchmark")
                     ELSE outcome' \in Perf(Positives(list), Negatives(list))
                /\ UNCHANGED <<list, caller>>

(* runner.main without a list: every name of BENCHMARK_DEFAULT, as one -b. *)
RunnerDefault == /\ outcome = NotParsed /\ caller = "option" /\ list = <<>>
                 /\ outcome' \in Perf(DefaultList, {})
                 /\ UNCHANGED <<list, caller>>

SelectionNext == AddArg \/ PerfParses \/ RunnerParses \/ RunnerDefault

SelectionSpec == SelectionInit /\ [][SelectionNext]_selectionVars

-----------------------------------------------------------------------------
(* Two programs read the names by tables of their own, and they agree: the *)
(* names that runner has let pass mean to perf exactly the benchmarks they *)
(* say, and its default is taken whole: no group, no warning, no error.    *)
(* perf itself, given positive names only, never raises; and where it does *)
(* not raise, it runs what is named and not taken back, and nothing that   *)
(* is taken back or has no function.  Which benchmarks ought to be the     *)
(* default is not decided here: see DefaultIsAllListed.                    *)
RunsAreMeant == outcome # NotParsed =>
  /\ list # <<>> /\ caller # "perf" =>
       outcome \in {Raises("WrongBenchmark"), Runs(Positives(list))}
  /\ list = <<>> /\ caller = "option" =>
       outcome.error = "none" /\ outcome.run # {} /\ outcome.run \subseteq Full
  /\ caller = "perf" /\ Positives(list) # {} /\ Negatives(list) = {} =>
       outcome.error = "none"
  /\ outcome.error = "none" =>
       /\ (Positives(list) \intersect Benchmarks) \ Negatives(list) \subseteq outcome.run
       /\ outcome.run \subseteq Benchmarks \ Negatives(list)

(* perf documents a list without positive names twice, and not alike: as   *)
(* the group default ("Omitting -b is the same as specifying `-b default`",*)
(* "`-b -2to3` ... is the same as `-b default,-2to3`"), and as all         *)
(* benchmarks but the negative ones ("If there are no positive arguments,  *)
(* we'll run all benchmarks except the negative arguments").  One of the   *)
(* two would have to be what perf does.                                    *)
OmittedAsDocumented ==
  caller = "perf" /\ Positives(list) = {} /\ outcome # NotParsed =>
    outcome \in Perf({"default"}, Negatives(list))
                 \union {Runs(Benchmarks \ Negatives(list))}

(* The help text of runner's -b lists BENCHMARK_FULL and goes on "default: *)
(* Run all listed benchmarks".                                             *)
DefaultIsAllListed ==
  caller = "option" /\ list = <<>> /\ outcome # NotParsed => outcome = Runs(Full)
=============================================================================
