---------------------------- MODULE MCSequential ----------------------------
(***************************************************************************)
(* Instances for TLC of the sequential programs of own/ that keep a state  *)
(* of their own.  One of them is chosen, as one is on the command line,    *)
(* and the variables of the other keep their initial values.               *)
(***************************************************************************)
EXTENDS DeltaBlue, Go

(* Games in which a position would repeat, several stones are captured, or *)
(* groups live by a single edge.                                           *)
GoPaths == {<<3, 2, 6, 4, 8, 0>>, <<4, 1, 3, 5, 7, 0>>, <<1, 4, 3, 5, 7, 8>>}

VARIABLE program    \* the name on the command line

allVars == <<program, vars, goVars>>

SequentialInit == /\ Init /\ GoInit
                  /\ \/ program = "deltablue" /\ path = CHOOSE p \in Paths : TRUE
                     \/ program = "go" /\ test = "chain" /\ size = 1

RunPlanner == program = "deltablue" /\ Next /\ UNCHANGED <<program, goVars>>
RunGo == program = "go" /\ GoNext /\ UNCHANGED <<program, vars>>

SequentialNext == RunPlanner \/ RunGo

(* A sequential program runs on. *)
SequentialSpec == /\ SequentialInit /\ [][SequentialNext]_allVars
                  /\ WF_allVars(RunPlanner)

-----------------------------------------------------------------------------
(* The planner comes to an end with every call of its tests, never at a    *)
(* cycle or a KeyError.                                                    *)
TestsEnd == program = "deltablue" => Ends
=============================================================================
