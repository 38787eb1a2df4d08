----------------------------- MODULE RemoteCall -----------------------------
(***************************************************************************)
(* What a caller may rely on: a call runs its handler at most once, maybe  *)
(* after the caller was told false; true means that it has run, and that   *)
(* what it saved outlives the server.                                      *)
(***************************************************************************)
CONSTANT Calls

VARIABLES
    status,    \* status[c]: "idle", "open", or the result "true" or "false"
    executed,  \* the calls whose handler has run
    kept       \* those of them whose updates the next incarnation will find

Init ==
    /\ status = [c \in Calls |-> "idle"]
    /\ executed = {} /\ kept = {}

Begin(c) ==
    /\ status[c] = "idle"
    /\ status' = [status EXCEPT ![c] = "open"]
    /\ UNCHANGED <<executed, kept>>

\* The handler of a server that is superseded saves where nobody will look.
Execute(c) ==
    /\ status[c] # "idle" /\ c \notin executed
    /\ executed' = executed \cup {c}
    /\ kept' \in {kept, kept \cup {c}}
    /\ UNCHANGED status

Succeed(c) ==
    /\ status[c] = "open" /\ c \in kept
    /\ status' = [status EXCEPT ![c] = "true"]
    /\ UNCHANGED <<executed, kept>>

Fail(c) ==
    /\ status[c] = "open"
    /\ status' = [status EXCEPT ![c] = "false"]
    /\ UNCHANGED <<executed, kept>>

Next == \E c \in Calls : Begin(c) \/ Execute(c) \/ Succeed(c) \/ Fail(c)

Spec == Init /\ [][Next]_<<status, executed, kept>>
=============================================================================
