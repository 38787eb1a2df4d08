---------------------------- MODULE AtomicStore ----------------------------
(***************************************************************************)
(* What the key/value service promises to the users of its clerks: a store *)
(* on which every Put and Append takes effect at once, at one moment       *)
(* between its call and its return, and a Get returns what its key held at *)
(* such a moment.  That is linearizability, which the tests of the         *)
(* repository check with porcupine and models/kv.go.                       *)
(***************************************************************************)
EXTENDS Sequences

CONSTANTS
    Clients,      \* the clerks
    Keys,
    Operations,   \* records with the fields task, key and value
    Nothing       \* no operation is being called; not an operation

VARIABLES
    store,        \* store[k]: what key k holds, as a sequence of values
    pending,      \* pending[c]: the operation that clerk c is calling
    effective,    \* effective[c]: it is a Put or an Append that has taken effect
    seen,         \* seen[c]: the stores since it was called
    answer        \* answer[c]: what the last call of clerk c returned

vars == <<store, pending, effective, seen, answer>>

IsWrite(op) == op.task \in {"Put", "Append"}

\* The store after a Put or an Append; appending to a key without a value puts it.
Write(op) ==
    [store EXCEPT ![op.key] = IF op.task = "Put" THEN <<op.value>>
                                                 ELSE Append(@, op.value)]

Init ==
    /\ store = [k \in Keys |-> <<>>]
    /\ pending = [c \in Clients |-> Nothing]
    /\ effective = [c \in Clients |-> FALSE]
    /\ seen = [c \in Clients |-> {}]
    /\ answer = [c \in Clients |-> <<>>]

Call(c) ==
    /\ pending[c] = Nothing
    /\ \E op \in Operations : pending' = [pending EXCEPT ![c] = op]
    /\ seen' = [seen EXCEPT ![c] = {store}]
    /\ UNCHANGED <<store, effective, answer>>

TakeEffect(c) ==
    /\ pending[c] # Nothing /\ IsWrite(pending[c]) /\ ~effective[c]
    /\ store' = Write(pending[c])
    /\ effective' = [effective EXCEPT ![c] = TRUE]
    /\ seen' = [d \in Clients |-> IF pending[d] = Nothing THEN {}
                                  ELSE seen[d] \cup {store'}]
    /\ UNCHANGED <<pending, answer>>

Return(c) ==
    /\ pending[c] # Nothing
    /\ IF IsWrite(pending[c])
       THEN effective[c] /\ answer' = [answer EXCEPT ![c] = <<>>]
       ELSE \E st \in seen[c] : answer' = [answer EXCEPT ![c] = st[pending[c].key]]
    /\ pending' = [pending EXCEPT ![c] = Nothing]
    /\ effective' = [effective EXCEPT ![c] = FALSE]
    /\ seen' = [seen EXCEPT ![c] = {}]
    /\ UNCHANGED store

Next == \E c \in Clients : Call(c) \/ TakeEffect(c) \/ Return(c)

Spec == Init /\ [][Next]_vars
=============================================================================
