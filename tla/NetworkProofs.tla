--------------------------- MODULE NetworkProofs ----------------------------
(***************************************************************************)
(* The simulated network keeps its promises whatever the number of calls,  *)
(* ends and servers and however often the test changes it: a positive      *)
(* reply stands for a saved update, a call fails only for a reason, and    *)
(* the network implements RemoteCall.                                      *)
(***************************************************************************)
EXTENDS LabRpcProps, TLAPS

\* Who is looked at: a server that is added was made from the persister in use, and
\* a request knows the server its end is still connected to.
Known ==
    /\ \A s \in Servers : servers[s] \in {0, saved[s]}
    /\ \A c \in Calls : seen[c].server # 0 =>
          /\ seen[c].name \in Servers /\ seen[c].name = connections[end[c]]
          /\ seen[c].server <= saved[seen[c].name]

\* How far the handler is when processReq is at some place.
Progress ==
    \A c \in Calls :
        /\ phase[c] \in {"idle", "calling", "sent", "request"} => handler[c] = "none"
        /\ phase[c] \in {"request", "wait"} => seen[c].server # 0
        /\ phase[c] = "wait" => handler[c] # "none"
        /\ phase[c] \in {"check", "late", "true"} => handler[c] = "ran"

\* What ran on the server in use was saved where the next one finds it.
RanIsSaved ==
    \A c \in Calls :
        handler[c] = "ran" /\ seen[c].server = saved[seen[c].name]
            => c \in holds[seen[c].name]

\* What processReq saw when it began, and why it may fail.
Reasons ==
    \A c \in Calls :
        /\ phase[c] = "calling" /\ done => c \in disturbed
        /\ phase[c] \in {"request", "wait", "check"} =>
              \/ seen[c].reliable /\ servers[seen[c].name] = seen[c].server
              \/ c \in disturbed

NetInv ==
    /\ TypeOK /\ Known /\ Progress /\ RanIsSaved /\ PositiveIsSaved
    /\ Reasons /\ FalseOnlyIfDisturbed
-----------------------------------------------------------------------------
\* The steps of a call that change nothing but where it is.
Moves(c) ==
    \/ Call(c) \/ Accept(c) \/ Refuse(c) \/ Return(c) \/ DropRequest(c)
    \/ TakeReply(c) \/ Poll(c) \/ CheckAndReply(c)

\* What Next adds to a step: the calls in flight that have a reason to fail.
Records == disturbed' = disturbed \cup {c \in Calls : phase'[c] \in InFlight /\ Trouble(c)'}

\* The steps of the system, by what they change.
LEMMA StepCases ==
    ASSUME [Next]_vars
    PROVE  \/ UNCHANGED vars
           \/ /\ Records
              /\ \/ \E c \in Calls : Moves(c) \/ ReadEndnameInfo(c) \/ Dispatch(c)
                                     \/ HandlerRuns(c)
                 \/ LoopEnds \/ Cleanup
                 \/ \E e \in Ends, s \in Servers : Connect(e, s)
                 \/ \E e \in Ends, yes \in BOOLEAN : Enable(e, yes)
                 \/ \E yes \in BOOLEAN : Reliable(yes)
                 \/ \E s \in Servers : AddServer(s) \/ DeleteServer(s) \/ CopyPersister(s)
PROOF BY Zenon DEF Next, Step, Serve, Test, Moves, Records

\* A move goes from one place to another.
LEMMA MoveGoes ==
    ASSUME NEW c \in Calls, Moves(c), TypeOK
    PROVE  /\ UNCHANGED <<netVars, looping, end, seen, handler, confVars, holds, changes>>
           /\ \E p \in InFlight \cup Returned :
                 /\ phase' = [phase EXCEPT ![c] = p]
                 /\ \/ phase[c] = "idle" /\ p = "calling"
                    \/ phase[c] = "calling" /\ p = "sent"
                    \/ phase[c] = "calling" /\ done /\ p = "false"
                    \/ phase[c] = "late" /\ p = "true"
                    \/ phase[c] = "lost" /\ p = "false"
                    \/ phase[c] = "request" /\ Loses(c) /\ p = "lost"
                    \/ phase[c] = "wait" /\ handler[c] = "ran" /\ p = "check"
                    \/ phase[c] = "wait" /\ IsServerDead(c) /\ p = "lost"
                    \/ phase[c] = "check" /\ (IsServerDead(c) \/ Loses(c)) /\ p = "lost"
                    \/ phase[c] = "check" /\ ~IsServerDead(c) /\ p = "late"
PROOF
<1>1. CASE Call(c) \/ Accept(c) \/ Refuse(c)
    BY <1>1 DEF Call, Accept, Refuse, Goto, InFlight, Returned
<1>2. CASE Return(c)
    BY <1>2 DEF Return, Goto, InFlight, Returned
<1>3. CASE DropRequest(c) \/ TakeReply(c) \/ Poll(c)
    BY <1>3 DEF DropRequest, TakeReply, Poll, Goto, InFlight, Returned
<1>4. CASE CheckAndReply(c)
    BY <1>4 DEF CheckAndReply, Goto, InFlight, Returned
<1> QED
    BY <1>1, <1>2, <1>3, <1>4 DEF Moves
-----------------------------------------------------------------------------
LEMMA InvInit == Init => NetInv
PROOF
<1> SUFFICES ASSUME Init PROVE NetInv
    OBVIOUS
<1>1. TypeOK
    <2>1. NotSeen \in [name : Servers \cup {Nil}, server : Nat, reliable : BOOLEAN]
        BY DEF NotSeen
    <2>2. seen \in [Calls -> [name : Servers \cup {Nil}, server : Nat, reliable : BOOLEAN]]
        BY <2>1 DEF Init
    <2>3. phase \in [Calls -> {"idle"} \cup InFlight \cup Returned]
        BY DEF Init
    <2>4. /\ handler \in [Calls -> {"none", "running", "ran"}]
          /\ \A c \in Calls : handler[c] # "none" => seen[c].server # 0
        BY DEF Init
    <2>5. /\ enabled \in [Ends -> BOOLEAN] /\ connections \in [Ends -> Servers \cup {Nil}]
          /\ fresh \in [Servers -> BOOLEAN]
        BY DEF Init
    <2>6. /\ saved \in [Servers -> Nat \ {0}] /\ servers \in [Servers -> Nat]
          /\ holds \in [Servers -> SUBSET Calls] /\ end \in [Calls -> Ends]
        BY DEF Init
    <2>7. /\ reliable \in BOOLEAN /\ done \in BOOLEAN /\ looping \in BOOLEAN
          /\ disturbed \subseteq Calls /\ changes \in Nat
        BY DEF Init
    <2> QED
        BY <2>2, <2>3, <2>4, <2>5, <2>6, <2>7 DEF TypeOK
<1>2. Known /\ Progress /\ RanIsSaved
    BY DEF Init, Known, Progress, RanIsSaved, NotSeen
<1>3. Reasons /\ PositiveIsSaved /\ FalseOnlyIfDisturbed
    BY DEF Init, Reasons, PositiveIsSaved, FalseOnlyIfDisturbed
<1> QED
    BY <1>1, <1>2, <1>3 DEF NetInv

\* Whatever is recorded, the type of disturbed and what it holds stay.
LEMMA RecordsKeep ==
    ASSUME Records, disturbed \subseteq Calls
    PROVE  disturbed' \subseteq Calls /\ disturbed \subseteq disturbed'
PROOF BY DEF Records

LEMMA MovesStep ==
    ASSUME NetInv, Records, NEW c \in Calls, Moves(c)
    PROVE  NetInv'
PROOF
<1>0. TypeOK
    BY DEF NetInv
<1>1. UNCHANGED <<netVars, looping, end, seen, handler, confVars, holds, changes>>
    BY <1>0, MoveGoes
<1>2. PICK p \in InFlight \cup Returned :
          /\ phase' = [phase EXCEPT ![c] = p]
          /\ \/ phase[c] = "idle" /\ p = "calling"
             \/ phase[c] = "calling" /\ p = "sent"
             \/ phase[c] = "calling" /\ done /\ p = "false"
             \/ phase[c] = "late" /\ p = "true"
             \/ phase[c] = "lost" /\ p = "false"
             \/ phase[c] = "request" /\ Loses(c) /\ p = "lost"
             \/ phase[c] = "wait" /\ handler[c] = "ran" /\ p = "check"
             \/ phase[c] = "wait" /\ IsServerDead(c) /\ p = "lost"
             \/ phase[c] = "check" /\ (IsServerDead(c) \/ Loses(c)) /\ p = "lost"
             \/ phase[c] = "check" /\ ~IsServerDead(c) /\ p = "late"
    BY <1>0, MoveGoes
<1>3. phase'[c] = p /\ \A d \in Calls : d # c => phase'[d] = phase[d]
    BY <1>0, <1>2 DEF TypeOK
<1>4. disturbed' \subseteq Calls /\ disturbed \subseteq disturbed'
    BY <1>0, RecordsKeep DEF TypeOK
<1>5. TypeOK'
    BY <1>0, <1>1, <1>2, <1>4 DEF TypeOK, netVars, confVars
<1>6. Known' /\ RanIsSaved'
    BY <1>1 DEF NetInv, Known, RanIsSaved, netVars, confVars
<1>7. Progress'
    BY <1>1, <1>2, <1>3 DEF NetInv, Progress
<1>8. PositiveIsSaved'
    <2> SUFFICES ASSUME NEW d \in Calls, phase'[d] \in {"late", "true"}
                 PROVE  d \in holds[seen[d].name]
        BY <1>1 DEF PositiveIsSaved
    <2>1. CASE phase[d] \in {"late", "true"}
        BY <2>1 DEF NetInv, PositiveIsSaved
    <2>2. CASE d = c /\ phase[c] = "check" /\ ~IsServerDead(c)
        <3>1. handler[c] = "ran" /\ seen[c].server # 0
            BY <2>2 DEF NetInv, Progress, TypeOK
        <3>2. servers[seen[c].name] = seen[c].server /\ seen[c].name \in Servers
            BY <2>2, <3>1 DEF NetInv, Known, IsServerDead
        <3>3. seen[c].server = saved[seen[c].name]
            BY <3>1, <3>2 DEF NetInv, Known
        <3> QED
            BY <2>2, <3>1, <3>3 DEF NetInv, RanIsSaved
    <2> QED
        BY <1>2, <1>3, <2>1, <2>2
<1>9. \A d \in Calls : phase'[d] \in InFlight /\ Trouble(d) => d \in disturbed'
    <2>1. \A d \in Calls : Trouble(d)' = Trouble(d)
        BY <1>1 DEF Trouble, IsReachable, Server, netVars
    <2> QED
        BY <2>1 DEF Records
<1>10. Reasons'
    <2> SUFFICES ASSUME NEW d \in Calls
                 PROVE  /\ phase'[d] = "calling" /\ done => d \in disturbed'
                        /\ phase'[d] \in {"request", "wait", "check"} =>
                              \/ seen[d].reliable /\ servers[seen[d].name] = seen[d].server
                              \/ d \in disturbed'
        BY <1>1 DEF Reasons, netVars
    <2>1. CASE d # c
        BY <1>3, <1>4, <2>1 DEF NetInv, Reasons
    <2>2. CASE d = c
        BY <1>2, <1>3, <1>4, <1>9, <2>2 DEF NetInv, Reasons, Trouble, InFlight
    <2> QED
        BY <2>1, <2>2
<1>11. FalseOnlyIfDisturbed'
    <2> SUFFICES ASSUME NEW d \in Calls, phase'[d] \in {"lost", "false"}
                 PROVE  d \in disturbed'
        BY DEF FalseOnlyIfDisturbed
    <2>1. CASE phase[d] \in {"lost", "false"}
        BY <1>4, <2>1 DEF NetInv, FalseOnlyIfDisturbed
    <2>2. CASE d = c /\ phase[c] = "calling" /\ done
        BY <1>4, <2>2 DEF NetInv, Reasons
    <2>3. CASE d = c /\ phase[c] \in {"request", "wait", "check"} /\ Loses(c)
        BY <1>4, <2>3 DEF NetInv, Reasons, Loses
    <2>4. CASE /\ d = c /\ phase[c] \in {"request", "wait", "check"} /\ IsServerDead(c)
               /\ phase'[c] = "lost"
        <3>1. CASE ~enabled[end[c]]
            BY <1>9, <2>4, <3>1 DEF Trouble, IsReachable, InFlight
        <3>2. CASE servers[seen[c].name] # seen[c].server
            BY <1>4, <2>4, <3>2 DEF NetInv, Reasons
        <3> QED
            BY <2>4, <3>1, <3>2 DEF IsServerDead
    <2> QED
        BY <1>2, <1>3, <2>1, <2>2, <2>3, <2>4
<1> QED
    BY <1>5, <1>6, <1>7, <1>8, <1>10, <1>11 DEF NetInv

LEMMA ReadStep ==
    ASSUME NetInv, Records, NEW c \in Calls, ReadEndnameInfo(c)
    PROVE  NetInv'
PROOF
<1> DEFINE e == end[c]
           p == IF IsReachable(e) THEN "request" ELSE "lost"
           now == [name |-> connections[e], server |-> Server(e), reliable |-> reliable]
<1>0. TypeOK /\ e \in Ends
    BY DEF NetInv, TypeOK
<1>1. /\ phase[c] = "sent"
      /\ UNCHANGED <<netVars, looping, end, handler, confVars, holds, changes>>
      /\ phase' = [phase EXCEPT ![c] = p]
      /\ seen' = IF IsReachable(e) THEN [seen EXCEPT ![c] = now] ELSE seen
    BY DEF ReadEndnameInfo, Goto
<1>2. phase'[c] = p /\ \A d \in Calls : d # c => phase'[d] = phase[d] /\ seen'[d] = seen[d]
    BY <1>0, <1>1 DEF TypeOK
<1>3. disturbed' \subseteq Calls /\ disturbed \subseteq disturbed'
    BY <1>0, RecordsKeep DEF TypeOK
<1>4. IsReachable(e) =>
          /\ connections[e] \in Servers /\ Server(e) = servers[connections[e]]
          /\ Server(e) # 0 /\ Server(e) = saved[connections[e]] /\ Server(e) \in Nat
    BY <1>0, NilAssumption DEF IsReachable, Server, TypeOK, NetInv, Known
<1>5. IsReachable(e) => seen'[c] = now
    BY <1>0, <1>1 DEF TypeOK
<1>6. handler[c] = "none"
    BY <1>1 DEF NetInv, Progress
<1>7. TypeOK'
    <2>1. phase' \in [Calls -> {"idle"} \cup InFlight \cup Returned]
        BY <1>0, <1>1 DEF TypeOK, InFlight
    <2>2. IsReachable(e) =>
              now \in [name : Servers \cup {Nil}, server : Nat, reliable : BOOLEAN]
        BY <1>0, <1>4 DEF TypeOK
    <2>3. seen' \in [Calls -> [name : Servers \cup {Nil}, server : Nat, reliable : BOOLEAN]]
        BY <1>0, <1>1, <2>2 DEF TypeOK
    <2>4. \A d \in Calls : handler'[d] # "none" => seen'[d].server # 0
        BY <1>0, <1>1, <1>2, <1>6 DEF TypeOK
    <2> QED
        BY <1>0, <1>1, <1>3, <2>1, <2>3, <2>4 DEF TypeOK, netVars, confVars
<1>8. Known'
    <2> SUFFICES ASSUME NEW d \in Calls, seen'[d].server # 0
                 PROVE  /\ seen'[d].name \in Servers
                        /\ seen'[d].name = connections[end[d]]
                        /\ seen'[d].server <= saved[seen'[d].name]
        BY <1>1 DEF NetInv, Known, netVars, confVars
    <2>1. CASE d = c /\ IsReachable(e)
        BY <1>4, <1>5, <2>1
    <2>2. CASE seen'[d] = seen[d]
        BY <2>2 DEF NetInv, Known
    <2> QED
        BY <1>1, <1>2, <2>1, <2>2
<1>9. Progress'
    BY <1>1, <1>2, <1>4, <1>5, <1>6 DEF NetInv, Progress
<1>10. RanIsSaved'
    BY <1>1, <1>2, <1>6 DEF NetInv, RanIsSaved, confVars
<1>11. PositiveIsSaved'
    BY <1>1, <1>2 DEF NetInv, PositiveIsSaved
<1>12. c \in disturbed' \/ (IsReachable(e) /\ reliable)
    <2>1. Trouble(c)' = Trouble(c)
        BY <1>1 DEF Trouble, IsReachable, Server, netVars
    <2> QED
        BY <1>2, <2>1 DEF Records, InFlight, Trouble
<1>13. Reasons'
    <2> SUFFICES ASSUME NEW d \in Calls
                 PROVE  /\ phase'[d] = "calling" /\ done => d \in disturbed'
                        /\ phase'[d] \in {"request", "wait", "check"} =>
                              \/ seen'[d].reliable /\ servers[seen'[d].name] = seen'[d].server
                              \/ d \in disturbed'
        BY <1>1 DEF Reasons, netVars
    <2>1. CASE d # c
        BY <1>2, <1>3, <2>1 DEF NetInv, Reasons
    <2>2. CASE d = c
        BY <1>2, <1>4, <1>5, <1>12, <2>2
    <2> QED
        BY <2>1, <2>2
<1>14. FalseOnlyIfDisturbed'
    BY <1>2, <1>3, <1>12 DEF NetInv, FalseOnlyIfDisturbed
<1> QED
    BY <1>7, <1>8, <1>9, <1>10, <1>11, <1>13, <1>14 DEF NetInv

LEMMA DispatchStep ==
    ASSUME NetInv, Records, NEW c \in Calls, Dispatch(c)
    PROVE  NetInv'
PROOF
<1>0. TypeOK
    BY DEF NetInv
<1>1. /\ phase[c] = "request"
      /\ UNCHANGED <<netVars, looping, end, seen, confVars, holds, changes>>
      /\ phase' = [phase EXCEPT ![c] = "wait"]
      /\ handler' = [handler EXCEPT ![c] = "running"]
    BY DEF Dispatch, Goto
<1>2. disturbed' \subseteq Calls /\ disturbed \subseteq disturbed'
    BY <1>0, RecordsKeep DEF TypeOK
<1>3. seen[c].server # 0
    BY <1>1 DEF NetInv, Progress
<1>4. /\ phase'[c] = "wait" /\ handler'[c] = "running"
      /\ \A d \in Calls : d # c => phase'[d] = phase[d] /\ handler'[d] = handler[d]
    BY <1>0, <1>1 DEF TypeOK
<1>5. TypeOK'
    <2>1. phase' \in [Calls -> {"idle"} \cup InFlight \cup Returned]
        BY <1>0, <1>1 DEF TypeOK, InFlight
    <2>2. handler' \in [Calls -> {"none", "running", "ran"}]
        BY <1>0, <1>1 DEF TypeOK
    <2> QED
        BY <1>0, <1>1, <1>2, <1>3, <1>4, <2>1, <2>2 DEF TypeOK, netVars, confVars
<1>6. Known'
    BY <1>1 DEF NetInv, Known, netVars, confVars
<1>7. Progress' /\ RanIsSaved' /\ PositiveIsSaved'
    BY <1>1, <1>3, <1>4 DEF NetInv, Progress, RanIsSaved, PositiveIsSaved, confVars
<1>8. Reasons' /\ FalseOnlyIfDisturbed'
    BY <1>1, <1>2, <1>4 DEF NetInv, Reasons, FalseOnlyIfDisturbed, netVars
<1> QED
    BY <1>5, <1>6, <1>7, <1>8 DEF NetInv

LEMMA HandlerStep ==
    ASSUME NetInv, Records, NEW c \in Calls, HandlerRuns(c)
    PROVE  NetInv'
PROOF
<1> DEFINE s == seen[c].name
<1>0. TypeOK
    BY DEF NetInv
<1>1. /\ handler[c] = "running"
      /\ UNCHANGED <<netVars, looping, phase, end, seen, confVars, changes>>
      /\ handler' = [handler EXCEPT ![c] = "ran"]
      /\ holds' = IF seen[c].server = saved[s]
                  THEN [holds EXCEPT ![s] = @ \cup {c}] ELSE holds
    BY DEF HandlerRuns
<1>2. disturbed' \subseteq Calls /\ disturbed \subseteq disturbed'
    BY <1>0, RecordsKeep DEF TypeOK
<1>3. seen[c].server # 0 /\ s \in Servers
    BY <1>0, <1>1 DEF TypeOK, NetInv, Known
<1>4. /\ handler'[c] = "ran" /\ \A d \in Calls : d # c => handler'[d] = handler[d]
      /\ \A t \in Servers : holds[t] \subseteq holds'[t]
      /\ seen[c].server = saved[s] => c \in holds'[s]
    BY <1>0, <1>1, <1>3 DEF TypeOK
<1>5. TypeOK'
    <2>1. handler' \in [Calls -> {"none", "running", "ran"}]
        BY <1>0, <1>1 DEF TypeOK
    <2>2. holds' \in [Servers -> SUBSET Calls]
        BY <1>0, <1>1, <1>3 DEF TypeOK
    <2>3. \A d \in Calls : handler'[d] # "none" => seen[d].server # 0
        BY <1>0, <1>3, <1>4 DEF TypeOK
    <2> QED
        BY <1>0, <1>1, <1>2, <2>1, <2>2, <2>3 DEF TypeOK, netVars, confVars
<1>6. Known'
    BY <1>1 DEF NetInv, Known, netVars, confVars
<1>7. Progress'
    BY <1>0, <1>1, <1>4 DEF NetInv, Progress, TypeOK
<1>8. \A d \in Calls : handler[d] # "none" => seen[d].name \in Servers
    BY <1>0 DEF TypeOK, NetInv, Known
<1>9. RanIsSaved'
    BY <1>1, <1>4, <1>8 DEF NetInv, RanIsSaved, confVars
<1>10. PositiveIsSaved'
    BY <1>1, <1>4, <1>8 DEF NetInv, PositiveIsSaved, Progress
<1>11. Reasons' /\ FalseOnlyIfDisturbed'
    BY <1>1, <1>2 DEF NetInv, Reasons, FalseOnlyIfDisturbed, netVars
<1> QED
    BY <1>5, <1>6, <1>7, <1>9, <1>10, <1>11 DEF NetInv

\* What the test does to the network while the servers stay.
LEMMA SettingsStep ==
    ASSUME NetInv, Records, UNCHANGED <<servers, callVars, confVars, holds>>,
           \/ LoopEnds \/ Cleanup
           \/ \E e \in Ends, s \in Servers : Connect(e, s)
           \/ \E e \in Ends, yes \in BOOLEAN : Enable(e, yes)
           \/ \E yes \in BOOLEAN : Reliable(yes)
    PROVE  NetInv'
PROOF
<1>0. TypeOK
    BY DEF NetInv
<1>1. disturbed' \subseteq Calls /\ disturbed \subseteq disturbed'
    BY <1>0, RecordsKeep DEF TypeOK
<1>2. \A e \in Ends : connections[e] # Nil => connections'[e] = connections[e]
    BY <1>0 DEF TypeOK, LoopEnds, Cleanup, Connect, Enable, Reliable, netVars
<1>3. TypeOK'
    <2>1. enabled' \in [Ends -> BOOLEAN] /\ connections' \in [Ends -> Servers \cup {Nil}]
        BY <1>0 DEF TypeOK, LoopEnds, Cleanup, Connect, Enable, Reliable, netVars
    <2>2. reliable' \in BOOLEAN
        BY <1>0 DEF TypeOK, LoopEnds, Cleanup, Connect, Enable, Reliable, netVars
    <2>4. done' \in BOOLEAN
        BY <1>0 DEF TypeOK, LoopEnds, Cleanup, Connect, Enable, Reliable, netVars
    <2>5. looping' \in BOOLEAN
        BY <1>0 DEF TypeOK, LoopEnds, Cleanup, Connect, Enable, Reliable, Changes
    <2>3. changes' \in Nat
        BY <1>0 DEF TypeOK, LoopEnds, Cleanup, Connect, Enable, Reliable, Changes
    <2> QED
        BY <1>0, <1>1, <2>1, <2>2, <2>3, <2>4, <2>5 DEF TypeOK, callVars, confVars
<1>4. Known'
    <2> SUFFICES ASSUME NEW c \in Calls, seen[c].server # 0
                 PROVE  /\ seen[c].name \in Servers /\ seen[c].name = connections'[end[c]]
                        /\ seen[c].server <= saved[seen[c].name]
        BY DEF NetInv, Known, callVars, confVars
    <2>1. /\ seen[c].name \in Servers /\ seen[c].name = connections[end[c]]
          /\ seen[c].server <= saved[seen[c].name]
        BY DEF NetInv, Known
    <2>2. end[c] \in Ends /\ connections[end[c]] # Nil
        BY <1>0, <2>1, NilAssumption DEF TypeOK
    <2> QED
        BY <1>2, <2>1, <2>2
<1>5. Progress' /\ RanIsSaved' /\ PositiveIsSaved'
    BY DEF NetInv, Progress, RanIsSaved, PositiveIsSaved, callVars, confVars
<1>6. \A c \in Calls : phase[c] = "calling" /\ done' => c \in disturbed'
    <2> SUFFICES ASSUME NEW c \in Calls, phase[c] = "calling", done'
                 PROVE  c \in disturbed'
        OBVIOUS
    <2> QED
        BY DEF Records, Trouble, InFlight, callVars
<1>7. Reasons'
    BY <1>1, <1>6 DEF NetInv, Reasons, callVars
<1>8. FalseOnlyIfDisturbed'
    BY <1>1 DEF NetInv, FalseOnlyIfDisturbed, callVars
<1> QED
    BY <1>3, <1>4, <1>5, <1>7, <1>8 DEF NetInv

\* What it does to a server.
LEMMA ServersStep ==
    ASSUME NetInv, Records, NEW s \in Servers,
           AddServer(s) \/ DeleteServer(s) \/ CopyPersister(s)
    PROVE  NetInv'
PROOF
<1>0. TypeOK
    BY DEF NetInv
<1>1. disturbed' \subseteq Calls /\ disturbed \subseteq disturbed'
    BY <1>0, RecordsKeep DEF TypeOK
<1>2. /\ UNCHANGED <<enabled, connections, reliable, done, looping, callVars, holds>>
      /\ \A t \in Servers : t # s => servers'[t] = servers[t] /\ saved'[t] = saved[t]
      /\ \/ servers[s] = 0 /\ servers'[s] = saved[s] /\ saved'[s] = saved[s]
         \/ servers'[s] = 0 /\ saved'[s] = saved[s]
         \/ servers[s] = 0 /\ servers'[s] = 0 /\ saved'[s] = saved[s] + 1
    BY <1>0 DEF TypeOK, AddServer, DeleteServer, CopyPersister, Changes, netVars, confVars
<1>3. TypeOK'
    <2>1. saved' \in [Servers -> Nat \ {0}] /\ servers' \in [Servers -> Nat]
        BY <1>0 DEF TypeOK, AddServer, DeleteServer, CopyPersister, netVars, confVars
    <2>2. fresh' \in [Servers -> BOOLEAN]
        BY <1>0 DEF TypeOK, AddServer, DeleteServer, CopyPersister, confVars
    <2>3. changes' \in Nat
        BY <1>0 DEF TypeOK, AddServer, DeleteServer, CopyPersister, Changes
    <2> QED
        BY <1>0, <1>1, <1>2, <2>1, <2>2, <2>3 DEF TypeOK, callVars
<1>4. \A t \in Servers : saved[t] \in Nat /\ saved[t] <= saved'[t]
    BY <1>0, <1>2 DEF TypeOK
<1>5. Known'
    <2>1. \A t \in Servers : servers'[t] \in {0, saved'[t]}
        BY <1>2 DEF NetInv, Known
    <2>2. \A c \in Calls : seen[c].server # 0 =>
              /\ seen[c].name \in Servers /\ seen[c].name = connections[end[c]]
              /\ seen[c].server <= saved'[seen[c].name]
        <3> SUFFICES ASSUME NEW c \in Calls, seen[c].server # 0
                     PROVE  /\ seen[c].name \in Servers
                            /\ seen[c].name = connections[end[c]]
                            /\ seen[c].server <= saved'[seen[c].name]
            OBVIOUS
        <3>1. /\ seen[c].name \in Servers /\ seen[c].name = connections[end[c]]
              /\ seen[c].server <= saved[seen[c].name] /\ seen[c].server \in Nat
            BY <1>0 DEF TypeOK, NetInv, Known
        <3> QED
            BY <1>2, <1>4, <3>1
    <2> QED
        BY <1>2, <2>1, <2>2 DEF Known, callVars
<1>6. RanIsSaved'
    <2> SUFFICES ASSUME NEW c \in Calls, handler[c] = "ran",
                        seen[c].server = saved'[seen[c].name]
                 PROVE  c \in holds[seen[c].name]
        BY <1>2 DEF RanIsSaved, callVars
    <2>1. /\ seen[c].name \in Servers /\ seen[c].server \in Nat
          /\ seen[c].server <= saved[seen[c].name]
        BY <1>0 DEF TypeOK, NetInv, Known
    <2>2. seen[c].server = saved[seen[c].name]
        BY <1>4, <2>1
    <2> QED
        BY <2>2 DEF NetInv, RanIsSaved
<1>7. Progress' /\ PositiveIsSaved'
    BY <1>2 DEF NetInv, Progress, PositiveIsSaved, callVars
<1>8. Reasons'
    <2> SUFFICES ASSUME NEW c \in Calls, phase[c] \in {"request", "wait", "check"}
                 PROVE  \/ seen[c].reliable /\ servers'[seen[c].name] = seen[c].server
                        \/ c \in disturbed'
        BY <1>1, <1>2 DEF NetInv, Reasons, callVars
    <2>1. CASE c \in disturbed
        BY <1>1, <2>1
    <2>2. CASE servers'[seen[c].name] = servers[seen[c].name]
        BY <1>1, <2>2 DEF NetInv, Reasons
    <2>3. CASE seen[c].name = s /\ servers'[s] # servers[s]
        <3>1. seen[c].server # 0
            BY <1>0 DEF NetInv, Progress, TypeOK
        <3>2. connections[end[c]] = s
            BY <2>3, <3>1 DEF NetInv, Known
        <3>3. CASE servers[s] = 0
            BY <2>1, <2>3, <3>1, <3>3 DEF NetInv, Reasons
        <3>4. CASE servers'[s] = 0
            BY <1>2, <2>3, <3>2, <3>4
               DEF Records, Trouble, IsReachable, Server, InFlight, callVars
        <3> QED
            BY <1>2, <3>3, <3>4, <2>3
    <2>4. seen[c].name \in Servers
        BY <1>0 DEF NetInv, Progress, TypeOK, Known
    <2> QED
        BY <1>2, <2>2, <2>3, <2>4
<1>9. FalseOnlyIfDisturbed'
    BY <1>1, <1>2 DEF NetInv, FalseOnlyIfDisturbed, callVars
<1> QED
    BY <1>3, <1>5, <1>6, <1>7, <1>8, <1>9 DEF NetInv

LEMMA InvNext == NetInv /\ [Next]_vars => NetInv'
PROOF
<1> SUFFICES ASSUME NetInv, [Next]_vars PROVE NetInv'
    OBVIOUS
<1>1. CASE UNCHANGED vars
    BY <1>1 DEF NetInv, TypeOK, Known, Progress, RanIsSaved, PositiveIsSaved, Reasons,
           FalseOnlyIfDisturbed, vars, netVars, callVars, confVars
<1>2. ASSUME Records, NEW c \in Calls,
             Moves(c) \/ ReadEndnameInfo(c) \/ Dispatch(c) \/ HandlerRuns(c)
      PROVE  NetInv'
    BY <1>2, MovesStep, ReadStep, DispatchStep, HandlerStep
<1>3. ASSUME Records,
             \/ LoopEnds \/ Cleanup
             \/ \E e \in Ends, s \in Servers : Connect(e, s)
             \/ \E e \in Ends, yes \in BOOLEAN : Enable(e, yes)
             \/ \E yes \in BOOLEAN : Reliable(yes)
      PROVE  NetInv'
    <2>1. UNCHANGED <<servers, callVars, confVars, holds>>
        BY <1>3 DEF LoopEnds, Cleanup, Connect, Enable, Reliable, Changes, netVars
    <2> QED
        BY <1>3, <2>1, SettingsStep
<1>4. ASSUME Records, NEW s \in Servers,
             AddServer(s) \/ DeleteServer(s) \/ CopyPersister(s)
      PROVE  NetInv'
    BY <1>4, ServersStep
<1> QED
    BY <1>1, <1>2, <1>3, <1>4, StepCases

LEMMA InvAlways == Spec => []NetInv
PROOF BY InvInit, InvNext, PTL DEF Spec
-----------------------------------------------------------------------------
\* The variables keep their types, and no request is dispatched on a server that is
\* nil, whatever the test does between readEndnameInfo and the dispatch.
THEOREM NetworkTypes == Spec => []TypeOK
PROOF
<1>1. NetInv => TypeOK
    BY DEF NetInv
<1> QED
    BY <1>1, InvAlways, PTL

\* What processReq looks for before it replies is enough: an update answered with true
\* is in the persister in use, after any number of crashes and restarts.
THEOREM PositiveRepliesSaved == Spec => []PositiveIsSaved
PROOF
<1>1. NetInv => PositiveIsSaved
    BY DEF NetInv
<1> QED
    BY <1>1, InvAlways, PTL

\* A call fails only if something happened that the documentation of Call names.
THEOREM FailuresHaveReasons == Spec => []FalseOnlyIfDisturbed
PROOF
<1>1. NetInv => FalseOnlyIfDisturbed
    BY DEF NetInv
<1> QED
    BY <1>1, InvAlways, PTL
-----------------------------------------------------------------------------
Executed == {c \in Calls : handler[c] = "ran"}
Kept == UNION {holds[s] : s \in Servers}

\* The steps of a call are its own: the abstract call sees it begin and end.
LEMMA MovesRefine ==
    ASSUME NetInv, NEW c \in Calls, Moves(c)
    PROVE  Remote!Next \/ UNCHANGED <<Status, Executed, Kept>>
PROOF
<1>0. TypeOK
    BY DEF NetInv
<1>1. UNCHANGED <<netVars, looping, end, seen, handler, confVars, holds, changes>>
    BY <1>0, MoveGoes
<1>2. PICK p \in InFlight \cup Returned :
          /\ phase' = [phase EXCEPT ![c] = p]
          /\ \/ phase[c] = "idle" /\ p = "calling"
             \/ phase[c] = "calling" /\ p = "sent"
             \/ phase[c] = "calling" /\ done /\ p = "false"
             \/ phase[c] = "late" /\ p = "true"
             \/ phase[c] = "lost" /\ p = "false"
             \/ phase[c] = "request" /\ Loses(c) /\ p = "lost"
             \/ phase[c] = "wait" /\ handler[c] = "ran" /\ p = "check"
             \/ phase[c] = "wait" /\ IsServerDead(c) /\ p = "lost"
             \/ phase[c] = "check" /\ (IsServerDead(c) \/ Loses(c)) /\ p = "lost"
             \/ phase[c] = "check" /\ ~IsServerDead(c) /\ p = "late"
    BY <1>0, MoveGoes
<1>3. Executed' = Executed /\ Kept' = Kept
    BY <1>1 DEF Executed, Kept
<1>4. Status' = [Status EXCEPT ![c] = IF p \in InFlight THEN "open" ELSE p]
    BY <1>0, <1>2 DEF Status, TypeOK
<1>5. CASE phase[c] \in InFlight /\ p \in InFlight
    <2>1. Status[c] = "open"
        BY <1>5 DEF Status
    <2>2. Status' = Status
        BY <1>4, <1>5, <2>1 DEF Status
    <2> QED
        BY <1>3, <2>2
<1>6. CASE phase[c] = "idle" /\ p = "calling"
    <2>1. Status[c] = "idle" /\ Status' = [Status EXCEPT ![c] = "open"]
        BY <1>4, <1>6 DEF Status, InFlight
    <2> QED
        BY <1>3, <2>1 DEF Remote!Next, Remote!Begin, Executed, Kept
<1>7. CASE phase[c] \in {"calling", "lost"} /\ p = "false"
    <2>1. Status[c] = "open" /\ Status' = [Status EXCEPT ![c] = "false"]
        BY <1>4, <1>7 DEF Status, InFlight
    <2> QED
        BY <1>3, <2>1 DEF Remote!Next, Remote!Fail, Executed, Kept
<1>8. CASE phase[c] = "late" /\ p = "true"
    <2>1. Status[c] = "open" /\ Status' = [Status EXCEPT ![c] = "true"]
        BY <1>4, <1>8 DEF Status, InFlight
    <2>2. handler[c] = "ran" /\ seen[c].server # 0
        BY <1>0, <1>8 DEF NetInv, Progress, TypeOK
    <2>3. c \in holds[seen[c].name] /\ seen[c].name \in Servers
        BY <1>8, <2>2 DEF NetInv, PositiveIsSaved, Known
    <2>4. c \in Kept
        BY <2>3 DEF Kept
    <2> QED
        BY <1>3, <2>1, <2>4 DEF Remote!Next, Remote!Succeed, Executed, Kept
<1> QED
    BY <1>2, <1>5, <1>6, <1>7, <1>8 DEF InFlight

\* The handler's one run is the abstract execution.
LEMMA HandlerRefines ==
    ASSUME NetInv, NEW c \in Calls, HandlerRuns(c)
    PROVE  Remote!Next
PROOF
<1> DEFINE s == seen[c].name
<1>0. TypeOK
    BY DEF NetInv
<1>1. /\ handler[c] = "running" /\ UNCHANGED phase
      /\ handler' = [handler EXCEPT ![c] = "ran"]
      /\ holds' = IF seen[c].server = saved[s]
                  THEN [holds EXCEPT ![s] = @ \cup {c}] ELSE holds
    BY DEF HandlerRuns
<1>2. s \in Servers
    BY <1>0, <1>1 DEF TypeOK, NetInv, Known
<1>3. Status[c] # "idle" /\ Status' = Status
    BY <1>1 DEF Status, NetInv, Progress
<1>4. c \notin Executed /\ Executed' = Executed \cup {c}
    BY <1>0, <1>1 DEF Executed, TypeOK
<1>5. Kept' \in {Kept, Kept \cup {c}}
    <2>1. CASE holds' = holds
        BY <2>1 DEF Kept
    <2>2. CASE holds' = [holds EXCEPT ![s] = @ \cup {c}]
        <3>1. /\ holds'[s] = holds[s] \cup {c}
              /\ \A t \in Servers : t # s => holds'[t] = holds[t]
            BY <1>0, <2>2, <1>2 DEF TypeOK
        <3>2. \A x : (\E t \in Servers : x \in holds'[t])
                         <=> ((\E t \in Servers : x \in holds[t]) \/ x = c)
            BY <1>2, <3>1
        <3>3. \A x : x \in Kept' <=> x \in Kept \cup {c}
            BY <3>2 DEF Kept
        <3> QED
            BY <3>3
    <2> QED
        BY <1>1, <2>1, <2>2
<1> QED
    BY <1>3, <1>4, <1>5 DEF Remote!Next, Remote!Execute, Executed, Kept

\* Whatever the test does, the network promises what RemoteCall says: a call runs its
\* handler at most once, and true means that it ran and was saved for good.
THEOREM CallsImplementRemote == Spec => RemoteCalls
PROOF
<1>1. Init => Remote!Init
    BY DEF Init, Remote!Init, Status, InFlight
<1>2. NetInv /\ [Next]_vars => [Remote!Next]_<<Status, Executed, Kept>>
    <2> SUFFICES ASSUME NetInv, [Next]_vars
                 PROVE  Remote!Next \/ UNCHANGED <<Status, Executed, Kept>>
        OBVIOUS
    <2>1. CASE UNCHANGED <<phase, handler, holds>>
        BY <2>1 DEF Status, Executed, Kept
    <2>2. ASSUME NEW c \in Calls, ReadEndnameInfo(c) \/ Dispatch(c)
          PROVE  UNCHANGED <<Status, Executed, Kept>>
        <3>0. TypeOK
            BY DEF NetInv
        <3>1. /\ UNCHANGED holds
              /\ phase[c] \in InFlight
              /\ \E p \in InFlight : phase' = [phase EXCEPT ![c] = p]
            BY <2>2 DEF ReadEndnameInfo, Dispatch, Goto, InFlight
        <3>2. Status' = Status
            BY <3>0, <3>1 DEF Status, TypeOK
        <3>3. Executed' = Executed
            <4>1. handler' = handler \/ (handler[c] = "none"
                                         /\ handler' = [handler EXCEPT ![c] = "running"])
                BY <2>2 DEF ReadEndnameInfo, Dispatch, NetInv, Progress
            <4> QED
                BY <3>0, <4>1 DEF Executed, TypeOK
        <3> QED
            BY <3>1, <3>2, <3>3 DEF Kept
    <2>3. CASE UNCHANGED vars
        BY <2>1, <2>3 DEF vars, callVars
    <2>4. CASE \/ LoopEnds \/ Cleanup
               \/ \E e \in Ends, s \in Servers : Connect(e, s)
               \/ \E e \in Ends, yes \in BOOLEAN : Enable(e, yes)
               \/ \E yes \in BOOLEAN : Reliable(yes)
               \/ \E s \in Servers : AddServer(s) \/ DeleteServer(s) \/ CopyPersister(s)
        BY <2>1, <2>4 DEF LoopEnds, Cleanup, Connect, Enable, Reliable, AddServer,
               DeleteServer, CopyPersister, Changes, callVars
    <2> QED
        BY <2>2, <2>3, <2>4, StepCases, MovesRefine, HandlerRefines
<1> QED
    BY <1>1, <1>2, InvAlways, PTL DEF Spec, RemoteCalls, Remote!Spec, Executed, Kept
=============================================================================
