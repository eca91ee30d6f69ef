---------------------------- MODULE MCFuturePool ---------------------------
(* Instances of FuturePool for TLC. *)
EXTENDS FuturePool, TLC

CONSTANTS main, c1, p1, p2, w1, w2, w3, f1, f2

TwoAndOne == p1 :> {w1, w2} @@ p2 :> {w3}
JustTwo   == p1 :> {w1, w2}
=============================================================================
