----------------------------- MODULE LossyStore -----------------------------
(***************************************************************************)
(* What the gateway may rely on when it uses L2: a shared store that may   *)
(* lose any entry at any time (expiry, eviction, clear), but whose reads   *)
(* return nothing or the value that was last stored for the key.           *)
(***************************************************************************)
CONSTANTS Clients, Keys, Values, NoValue

VARIABLES
    store,  \* store[k]: the value of k, or NoValue
    reply   \* reply[c]: what the last read of client c returned

vars == <<store, reply>>

Init ==
    /\ store = [k \in Keys |-> NoValue]
    /\ reply = [c \in Clients |-> NoValue]

Put(k, v) ==
    /\ store' = [store EXCEPT ![k] = v]
    /\ UNCHANGED reply

Drop(S) ==
    /\ store' = [k \in Keys |-> IF k \in S THEN NoValue ELSE store[k]]
    /\ UNCHANGED reply

\* A read takes effect at one point; it may also fail to find a value.
Read(c, k) ==
    /\ reply' \in {[reply EXCEPT ![c] = store[k]], [reply EXCEPT ![c] = NoValue]}
    /\ UNCHANGED store

Next ==
    \/ \E k \in Keys, v \in Values : Put(k, v)
    \/ \E S \in SUBSET Keys : Drop(S)
    \/ \E c \in Clients, k \in Keys : Read(c, k)

Spec == Init /\ [][Next]_vars

=============================================================================
