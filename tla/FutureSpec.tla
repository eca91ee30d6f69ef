---------------------------- MODULE FutureSpec -----------------------------
(***************************************************************************)
(* What a Future promises, with no pool, no queue and no lock: the task    *)
(* given to it is started at most once, ends with one outcome that never   *)
(* changes, and a call of the future returns that outcome and nothing      *)
(* before the task has ended.  FuturePool implements this specification.   *)
(***************************************************************************)
CONSTANTS Threads, Futures, Outcomes, None

VARIABLES state,    \* state[f]: "none", "pending", "running" or "done"
          outcome,  \* outcome[f]: how the task of f ended
          got       \* got[t]: the last <<future, outcome>> a call returned to t

vars == <<state, outcome, got>>

Init == /\ state   = [f \in Futures |-> "none"]
        /\ outcome = [f \in Futures |-> None]
        /\ got     = [t \in Threads |-> None]

Create(f) == /\ state[f] = "none"
             /\ state' = [state EXCEPT ![f] = "pending"]
             /\ UNCHANGED <<outcome, got>>

Start(f) == /\ state[f] = "pending"
            /\ state' = [state EXCEPT ![f] = "running"]
            /\ UNCHANGED <<outcome, got>>

Finish(f, o) == /\ state[f] = "running"
                /\ state'   = [state EXCEPT ![f] = "done"]
                /\ outcome' = [outcome EXCEPT ![f] = o]
                /\ UNCHANGED got

Return(t, f) == /\ state[f] = "done"
                /\ got' = [got EXCEPT ![t] = <<f, outcome[f]>>]
                /\ UNCHANGED <<state, outcome>>

Next == \E f \in Futures : \/ Create(f)
                           \/ Start(f)
                           \/ \E o \in Outcomes : Finish(f, o)
                           \/ \E t \in Threads : Return(t, f)

Spec == Init /\ [][Next]_vars
=============================================================================
