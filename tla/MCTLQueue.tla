----------------------------- MODULE MCTLQueue -----------------------------
(* An instance of TLQueue for TLC. *)
EXTENDS TLQueue

CONSTANTS t1, t2, t3, v1, v2, v3, q1, q2
=============================================================================
