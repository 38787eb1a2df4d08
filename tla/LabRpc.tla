------------------------------- MODULE LabRpc -------------------------------
(***************************************************************************)
(* The simulated network of src/src/labrpc: a call, the goroutine of       *)
(* processReq that serves it and the one that runs its handler; the calls  *)
(* with which a test changes the network; and the order in which the       *)
(* tests' configuration deletes, copies and adds a server.                 *)
(***************************************************************************)
EXTENDS Integers, FiniteSets

CONSTANTS
    Calls,       \* the calls, each made at most once
    Ends,        \* ClientEnds, by name
    Servers,     \* servers, by name
    Stuck,       \* calls whose handler may never return
    Nil,         \* the connection of an end that has none
    MaxChanges   \* bound: calls of the test that change the network

ASSUME NilAssumption == Nil \notin Servers
ASSUME StuckAssumption == Stuck \subseteq Calls
ASSUME ChangesAssumption == MaxChanges \in Nat

VARIABLES
    \* Network
    enabled,      \* enabled[e]: may the end be used?
    connections,  \* connections[e]: the server e is connected to, or Nil
    servers,      \* servers[s]: the incarnation added under the name, or 0
    reliable,
    done,         \* the channel done is closed
    looping,      \* the goroutine of MakeNetwork still receives requests
    \* calls
    phase,        \* where Call, or processReq for it, is
    end,          \* end[c]: the ClientEnd
    seen,         \* seen[c]: what readEndnameInfo returned
    handler,      \* "none", "running" or "ran": its answer waits on ech
    \* the configuration of the tests
    saved,        \* saved[s]: which of its persisters, counted from 1, is in use
    fresh,        \* fresh[s]: no incarnation has been made from it
    holds,        \* holds[s]: the calls whose updates it holds
    \* history and bound
    disturbed,    \* calls with a reason to fail at some time since they were sent
    changes

netVars  == <<enabled, connections, servers, reliable, done>>
callVars == <<phase, end, seen, handler>>
confVars == <<saved, fresh>>
vars == <<netVars, looping, callVars, confVars, holds, disturbed, changes>>

NotSeen == [name |-> Nil, server |-> 0, reliable |-> TRUE]

\* "lost" and "late" have an answer on its way to the caller: false, and the
\* handler's.
InFlight == {"calling", "sent", "request", "wait", "check", "lost", "late"}
Returned == {"true", "false"}

\* MakeNetwork and MakeEnd: the ends are there, connected to nothing.
Init ==
    /\ enabled = [e \in Ends |-> FALSE] /\ connections = [e \in Ends |-> Nil]
    /\ servers = [s \in Servers |-> 0]
    /\ reliable = TRUE /\ done = FALSE /\ looping = TRUE
    /\ phase = [c \in Calls |-> "idle"] /\ end \in [Calls -> Ends]
    /\ seen = [c \in Calls |-> NotSeen] /\ handler = [c \in Calls |-> "none"]
    /\ saved = [s \in Servers |-> 1] /\ fresh = [s \in Servers |-> TRUE]
    /\ holds = [s \in Servers |-> {}]
    /\ disturbed = {} /\ changes = 0

Goto(c, p) == phase' = [phase EXCEPT ![c] = p]
-----------------------------------------------------------------------------
\* Call.

Call(c) ==
    /\ phase[c] = "idle"
    /\ Goto(c, "calling")
    /\ UNCHANGED <<netVars, looping, end, seen, handler, confVars, holds, changes>>

\* The goroutine of MakeNetwork takes the request, as long as it has not seen that
\* the network is destroyed.
Accept(c) ==
    /\ phase[c] = "calling" /\ looping
    /\ Goto(c, "sent")
    /\ UNCHANGED <<netVars, looping, end, seen, handler, confVars, holds, changes>>

\* Variant: Call waits for the network alone.
NeverRefuse(c) == FALSE

\* The other case of its select.
Refuse(c) ==
    /\ phase[c] = "calling" /\ done
    /\ Goto(c, "false")
    /\ UNCHANGED <<netVars, looping, end, seen, handler, confVars, holds, changes>>

\* rep := <-req.replyCh.
Return(c) ==
    /\ phase[c] \in {"late", "lost"}
    /\ Goto(c, IF phase[c] = "late" THEN "true" ELSE "false")
    /\ UNCHANGED <<netVars, looping, end, seen, handler, confVars, holds, changes>>

LoopEnds ==
    /\ done /\ looping
    /\ looping' = FALSE
    /\ UNCHANGED <<netVars, callVars, confVars, holds, changes>>
-----------------------------------------------------------------------------
\* processReq.

Server(e) == IF connections[e] = Nil THEN 0 ELSE servers[connections[e]]

\* Variant: the server of an end that is connected is taken to be there.
IsConnected(e) == enabled[e] /\ connections[e] # Nil

IsReachable(e) == enabled[e] /\ Server(e) # 0

\* One region of the network's lock; what it saw is used without looking again.
ReadEndnameInfo(c) ==
    LET e == end[c] IN
    /\ phase[c] = "sent"
    /\ IF IsReachable(e)
       THEN /\ seen' = [seen EXCEPT ![c] =
                   [name |-> connections[e], server |-> Server(e), reliable |-> reliable]]
            /\ Goto(c, "request")
       ELSE UNCHANGED seen /\ Goto(c, "lost")
    /\ UNCHANGED <<netVars, looping, end, handler, confVars, holds, changes>>

\* Variant: a reliable network loses messages too.
LosesAny(c) == TRUE

\* One in ten requests, and as many replies, if the network was unreliable.
Loses(c) == ~seen[c].reliable

DropRequest(c) ==
    /\ phase[c] = "request" /\ Loses(c)
    /\ Goto(c, "lost")
    /\ UNCHANGED <<netVars, looping, end, seen, handler, confVars, holds, changes>>

Dispatch(c) ==
    /\ phase[c] = "request"
    /\ handler' = [handler EXCEPT ![c] = "running"]
    /\ Goto(c, "wait")
    /\ UNCHANGED <<netVars, looping, end, seen, confVars, holds, changes>>

\* The handler runs on the server that was seen, and saves in that server's
\* persister, whoever has replaced either since.
HandlerRuns(c) ==
    LET s == seen[c].name IN
    /\ handler[c] = "running"
    /\ handler' = [handler EXCEPT ![c] = "ran"]
    /\ holds' = IF seen[c].server = saved[s]
                THEN [holds EXCEPT ![s] = @ \cup {c}] ELSE holds
    /\ UNCHANGED <<netVars, looping, phase, end, seen, confVars, changes>>

\* Variants: a link that is up is enough; a server of that name is enough.
IsLinkDown(c) == ~enabled[end[c]]
IsNameFree(c) == ~enabled[end[c]] \/ servers[seen[c].name] = 0

\* isServerDead.
IsServerDead(c) ==
    ~enabled[end[c]] \/ servers[seen[c].name] # seen[c].server

\* <-ech.
TakeReply(c) ==
    /\ phase[c] = "wait" /\ handler[c] = "ran"
    /\ Goto(c, "check")
    /\ UNCHANGED <<netVars, looping, end, seen, handler, confVars, holds, changes>>

\* A tick of the 100 ms that finds the server dead: the handler is left alone, its
\* reply drained by nobody that answers.
Poll(c) ==
    /\ phase[c] = "wait" /\ IsServerDead(c)
    /\ Goto(c, "lost")
    /\ UNCHANGED <<netVars, looping, end, seen, handler, confVars, holds, changes>>

\* Variant: the reply is sent without another look at the server.
SendReply(c) ==
    /\ phase[c] = "check"
    /\ \/ Goto(c, "late")
       \/ Loses(c) /\ Goto(c, "lost")
    /\ UNCHANGED <<netVars, looping, end, seen, handler, confVars, holds, changes>>

\* The second look, and the reply: dropped, sent at once, or sent much later.
CheckAndReply(c) ==
    /\ phase[c] = "check"
    /\ \/ IsServerDead(c) /\ Goto(c, "lost")
       \/ ~IsServerDead(c) /\ Loses(c) /\ Goto(c, "lost")
       \/ ~IsServerDead(c) /\ Goto(c, "late")
    /\ UNCHANGED <<netVars, looping, end, seen, handler, confVars, holds, changes>>
-----------------------------------------------------------------------------
\* What a test does to the network.

Changes ==
    /\ changes < MaxChanges
    /\ changes' = changes + 1
    /\ UNCHANGED <<looping, callVars, holds>>

\* An end can only be connected once.
Connect(e, s) ==
    /\ Changes
    /\ connections[e] = Nil
    /\ connections' = [connections EXCEPT ![e] = s]
    /\ UNCHANGED <<enabled, servers, reliable, done, confVars>>

Enable(e, yes) ==
    /\ Changes
    /\ enabled[e] # yes
    /\ enabled' = [enabled EXCEPT ![e] = yes]
    /\ UNCHANGED <<connections, servers, reliable, done, confVars>>

Reliable(yes) ==
    /\ Changes
    /\ reliable # yes
    /\ reliable' = yes
    /\ UNCHANGED <<enabled, connections, servers, done, confVars>>

\* The end of start1: the incarnation made from the present persister is added.
AddServer(s) ==
    /\ Changes
    /\ servers[s] = 0 /\ fresh[s]
    /\ servers' = [servers EXCEPT ![s] = saved[s]]
    /\ fresh' = [fresh EXCEPT ![s] = FALSE]
    /\ UNCHANGED <<enabled, connections, reliable, done, saved>>

\* The beginning of crash1.
DeleteServer(s) ==
    /\ Changes
    /\ servers[s] # 0
    /\ servers' = [servers EXCEPT ![s] = 0]
    /\ UNCHANGED <<enabled, connections, reliable, done, confVars>>

\* Then, with the server deleted, its persister is copied: what the old
\* incarnation saves from now on is lost.
CopyPersister(s) ==
    /\ servers[s] = 0 /\ ~fresh[s]
    /\ saved' = [saved EXCEPT ![s] = @ + 1]
    /\ fresh' = [fresh EXCEPT ![s] = TRUE]
    /\ UNCHANGED <<netVars, looping, callVars, holds, changes>>

Cleanup ==
    /\ Changes
    /\ ~done
    /\ done' = TRUE
    /\ UNCHANGED <<enabled, connections, servers, reliable, confVars>>
-----------------------------------------------------------------------------
\* A reason why the call may fail: the documentation names them.
Trouble(c) == ~reliable \/ done \/ ~IsReachable(end[c])

Serve(c) ==
    \/ Accept(c) \/ Refuse(c) \/ Return(c)
    \/ ReadEndnameInfo(c) \/ DropRequest(c) \/ Dispatch(c)
    \/ TakeReply(c) \/ Poll(c) \/ CheckAndReply(c)

Test ==
    \/ \E e \in Ends, s \in Servers : Connect(e, s)
    \/ \E e \in Ends, yes \in BOOLEAN : Enable(e, yes)
    \/ \E yes \in BOOLEAN : Reliable(yes)
    \/ \E s \in Servers : AddServer(s) \/ DeleteServer(s) \/ CopyPersister(s)
    \/ Cleanup

Step ==
    \/ \E c \in Calls : Call(c) \/ Serve(c) \/ HandlerRuns(c)
    \/ LoopEnds
    \/ Test

Next ==
    /\ Step
    /\ disturbed' = disturbed \cup {c \in Calls : phase'[c] \in InFlight /\ Trouble(c)'}

Spec == Init /\ [][Next]_vars
-----------------------------------------------------------------------------
\* Goroutines that can go on do, and a handler returns unless it is stuck.
Fairness ==
    /\ WF_vars(LoopEnds /\ Next)
    /\ \A c \in Calls : WF_vars(Serve(c) /\ Next)
    /\ \A c \in Calls \ Stuck : WF_vars(HandlerRuns(c) /\ Next)

FairSpec == Spec /\ Fairness
=============================================================================
