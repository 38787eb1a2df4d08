---------------------------- MODULE LabRpcProps -----------------------------
(***************************************************************************)
(* What the simulated network promises: the comments at the head of        *)
(* labrpc.go and in processReq, and the abstract remote call.              *)
(***************************************************************************)
EXTENDS LabRpc

\* The variables hold what the declarations of labrpc.go and the configuration's
\* bookkeeping let them hold, and no request is dispatched on a server that is nil.
TypeOK ==
    /\ enabled \in [Ends -> BOOLEAN] /\ connections \in [Ends -> Servers \cup {Nil}]
    /\ reliable \in BOOLEAN /\ done \in BOOLEAN /\ looping \in BOOLEAN
    /\ phase \in [Calls -> {"idle"} \cup InFlight \cup Returned]
    /\ end \in [Calls -> Ends]
    /\ seen \in [Calls -> [name : Servers \cup {Nil}, server : Nat, reliable : BOOLEAN]]
    /\ handler \in [Calls -> {"none", "running", "ran"}]
    /\ \A c \in Calls : handler[c] # "none" => seen[c].server # 0
    /\ saved \in [Servers -> Nat \ {0}] /\ servers \in [Servers -> Nat]
    /\ fresh \in [Servers -> BOOLEAN]
    /\ holds \in [Servers -> SUBSET Calls]
    /\ disturbed \subseteq Calls /\ changes \in Nat

\* The reason the comment of processReq gives for its second look at the server: the
\* caller never gets a positive reply to an update that the server saved into the old
\* persister. What a positive reply stands for is in the persister in use, after any
\* number of restarts.
PositiveIsSaved ==
    \A c \in Calls : phase[c] \in {"late", "true"} => c \in holds[seen[c].name]

\* "Call() returns false if the network lost the request or reply or the server is
\* down": only then, so that a call fails only if the network was unreliable or
\* destroyed, the end disabled or the server deleted at some time since it was made.
FalseOnlyIfDisturbed ==
    \A c \in Calls : phase[c] \in {"lost", "false"} => c \in disturbed

\* The network implements the remote call of RemoteCall: no request is executed
\* twice, and none answered true that was not executed and saved.
Status == [c \in Calls |-> IF phase[c] \in InFlight THEN "open" ELSE phase[c]]
Remote == INSTANCE RemoteCall
          WITH status <- Status,
               executed <- {c \in Calls : handler[c] = "ran"},
               kept <- UNION {holds[s] : s \in Servers}
RemoteCalls == Remote!Spec

\* "Call() is guaranteed to return (perhaps after a delay) *except* if the handler
\* function on the server side does not return".
CallsReturn ==
    \A c \in Calls \ Stuck : phase[c] = "calling" ~> phase[c] \in Returned

\* Even then a call does not wait for a server that has been deleted, superseded or
\* cut off for good: processReq stops waiting for the handler.
DeadCallsReturn ==
    \A c \in Stuck :
        []<>~(phase[c] = "wait" /\ (enabled[end[c]] => servers[seen[c].name] # seen[c].server))
=============================================================================
