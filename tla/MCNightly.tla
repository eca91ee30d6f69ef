------------------------------ MODULE MCNightly -----------------------------
(***************************************************************************)
(* A night of runner.main, for TLC: the benchmarks are chosen, and if they *)
(* are runner's default, measured and uploaded.                            *)
(***************************************************************************)
EXTENDS Upload, MCSelection

nightVars == <<vars, selectionVars>>

NightInit == Init /\ SelectionInit

Choose == SelectionNext /\ UNCHANGED vars

Measure == /\ outcome = Runs(DefaultList) /\ list = <<>>
           /\ Next
           /\ UNCHANGED selectionVars

NightNext == Choose \/ Measure

NightSpec == NightInit /\ [][NightNext]_nightVars
=============================================================================
