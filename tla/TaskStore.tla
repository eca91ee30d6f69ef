----------------------------- MODULE TaskStore -----------------------------
(***************************************************************************)
(* What the queue between the clients of a thread pool and its workers     *)
(* promises, with no lock, no wait set and no order: a store keeps the     *)
(* values handed to it until a thread asks for one, each value goes to one *)
(* thread, and a thread that asks is not left without an answer while the  *)
(* store holds a value.  TLQueue implements this specification.            *)
(***************************************************************************)
CONSTANTS Threads, Queues, Values, None

VARIABLES store,   \* store[q]: the values that queue q holds
          mode,    \* mode[t]: "idle", or the operation t is in
          chan,    \* chan[t]: the queue of the operation of t
          hand     \* hand[t]: the value in the hands of t, or None

vars == <<store, mode, chan, hand>>

Init == /\ store = [q \in Queues |-> {}]
        /\ mode  = [t \in Threads |-> "idle"]
        /\ chan  \in [Threads -> Queues]
        /\ hand  = [t \in Threads |-> None]

(* v is nowhere in the system, or only t holds it. *)
Fresh(t, v) == /\ \A q \in Queues : v \notin store[q]
               /\ \A u \in Threads \ {t} : hand[u] # v

StartPut(t, q, v) == /\ mode[t] = "idle"
                     /\ Fresh(t, v)
                     /\ mode' = [mode EXCEPT ![t] = "put"]
                     /\ chan' = [chan EXCEPT ![t] = q]
                     /\ hand' = [hand EXCEPT ![t] = v]
                     /\ UNCHANGED store

Put(t) == /\ mode[t] = "put"
          /\ store' = [store EXCEPT ![chan[t]] = @ \union {hand[t]}]
          /\ mode' = [mode EXCEPT ![t] = "idle"]
          /\ hand' = [hand EXCEPT ![t] = None]
          /\ UNCHANGED chan

StartGet(t, q) == /\ mode[t] = "idle"
                  /\ mode' = [mode EXCEPT ![t] = "get"]
                  /\ chan' = [chan EXCEPT ![t] = q]
                  /\ hand' = [hand EXCEPT ![t] = None]
                  /\ UNCHANGED store

Get(t, v) == /\ mode[t] = "get"
             /\ v \in store[chan[t]]
             /\ store' = [store EXCEPT ![chan[t]] = @ \ {v}]
             /\ mode' = [mode EXCEPT ![t] = "idle"]
             /\ hand' = [hand EXCEPT ![t] = v]
             /\ UNCHANGED chan

Next == \E t \in Threads :
          \/ \E q \in Queues, v \in Values : StartPut(t, q, v)
          \/ Put(t)
          \/ \E q \in Queues : StartGet(t, q)
          \/ \E v \in Values : Get(t, v)

(* A value on queue q reaches some thread that asked q for one. *)
Delivery(q) == \E t \in Threads, v \in Values : chan[t] = q /\ Get(t, v)

SafeSpec == Init /\ [][Next]_vars

Spec == SafeSpec /\ \A q \in Queues : WF_vars(Delivery(q))
=============================================================================
