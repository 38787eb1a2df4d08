---------------------------- MODULE KVProofs ----------------------------
(***************************************************************************)
(* Theorems about the key/value service, for any number of servers and     *)
(* clerks: the types, the invariant ServiceInv, and that the service       *)
(* implements the atomic store.                                            *)
(***************************************************************************)
EXTENDS KVProps, SequenceTheorems, TLAPS

-----------------------------------------------------------------------------
\* The helpers.

\* One more copy of e: what StartAppend does to the commands on their way.
LEMMA BagAdd ==
    ASSUME NEW B, IsABag(B), NEW e
    PROVE  /\ IsABag(B (+) SetToBag({e}))
           /\ BagToSet(B (+) SetToBag({e})) = BagToSet(B) \cup {e}
BY DEF IsABag, BagToSet, SetToBag, (+)

\* One copy less: what Commit does to them.
LEMMA BagTake ==
    ASSUME NEW B, IsABag(B), NEW e
    PROVE  /\ IsABag(B (-) SetToBag({e}))
           /\ BagToSet(B (-) SetToBag({e})) \subseteq BagToSet(B)
BY DEF IsABag, BagToSet, SetToBag, (-)

\* A command of a clerk has a tag of a client and an id.
LEMMA TagType ==
    ASSUME NEW o \in Op
    PROVE  Tag(o) \in Clients \X (1..MaxOps)
BY DEF Op, Tag

\* listenApplyCh leaves the storage a store.
LEMMA AppliedType ==
    ASSUME NEW st \in Store, NEW o \in Op
    PROVE  Applied(st, o) \in Store
<1>1. o.key \in Keys /\ Tag(o) \in Clients \X (1..MaxOps) /\ st[o.key] \in Value
  BY TagType DEF Op, Store
<1>2. Append(st[o.key], Tag(o)) \in Value /\ <<Tag(o)>> \in Value
  BY <1>1 DEF Value
<1>3. Applied(st, o) \in {st, [st EXCEPT ![o.key] = Append(@, Tag(o))],
                          [st EXCEPT ![o.key] = <<Tag(o)>>]}
  BY DEF Applied
<1> QED
  BY <1>1, <1>2, <1>3 DEF Store

\* The empty storage is a store.
LEMMA EmptyType == Empty \in Store
BY DEF Empty, Store, Value

\* The clerk's loop stays among the servers.
LEMMA NextServerType ==
    ASSUME NEW i \in Servers
    PROVE  NextServer(i) \in Servers
BY ServersAssumption DEF NextServer, Servers

\* Start counts its append calls up to the number of peers.
LEMMA HeardTypes ==
    /\ 0 \in 0..N /\ 1 \in 0..N
    /\ \A n \in 0..N : n # N => n + 1 \in 0..N
BY ServersAssumption

-----------------------------------------------------------------------------
\* Types.

\* Turning to the next server keeps the types of what it touches.
LEMMA TryNextTypes ==
    ASSUME TypeOK, NEW c \in Clients, phase[c] \in Open, TryNext(c)
    PROVE  /\ phase' \in [Clients -> Open \cup {"idle"}] /\ server' \in [Clients -> Servers]
           /\ hearedBack' \in [Clients -> 0..N]
           /\ \A d \in Clients : phase'[d] \in Open => op'[d] \in Op
           /\ UNCHANGED <<op, issued, value, answer>>
<1>1. phase' \in [Clients -> Open \cup {"idle"}] /\ server' \in [Clients -> Servers]
  BY NextServerType DEF TypeOK, TryNext, Open
<1>2. hearedBack' \in [Clients -> 0..N]
  BY HeardTypes DEF TypeOK, TryNext
<1>3. UNCHANGED <<op, issued, value, answer>>
  BY DEF TryNext
<1>4. \A d \in Clients : phase'[d] \in Open => op'[d] \in Op
  BY <1>3 DEF TypeOK, TryNext
<1> QED
  BY <1>1, <1>2, <1>3, <1>4

\* The clerk's steps keep the types.
LEMMA ClerkTypes ==
    ASSUME TypeOK, NEW c \in Clients, ClerkStep(c)
    PROVE  TypeOK'
<1> USE NextServerType, HeardTypes DEF TypeOK, serverVars, raftVars, historyVars, counters, Open, Running
<1>1. CASE Invoke(c)
  <2>1. issued[c] + 1 \in 1..MaxOps
    BY <1>1, LimitsAssumption DEF Invoke
  <2>2. PICK t \in Tasks, k \in Keys :
           op' = [op EXCEPT ![c] = [task |-> t, key |-> k, client |-> c, id |-> issued'[c]]]
    BY <1>1 DEF Invoke
  <2>3. issued'[c] \in 1..MaxOps /\ issued' \in [Clients -> 0..MaxOps]
    BY <1>1, <2>1 DEF Invoke
  <2>4. op' \in [Clients -> Op \cup {NoOp}] /\ op'[c] \in Op
    BY <2>2, <2>3 DEF Op
  <2>5. since' \in [Clients -> Nat]
    <3>1. Len(log) \in Nat
      OBVIOUS
    <3> QED
      BY <1>1, <3>1 DEF Invoke
  <2>6. server' \in [Clients -> Servers]
    BY <1>1, ServersAssumption DEF Invoke, Servers
  <2>7. phase' \in [Clients -> Open \cup {"idle"}]
        /\ \A d \in Clients : phase'[d] \in Open => op'[d] \in Op
    BY <1>1, <2>2, <2>4 DEF Invoke
  <2> QED
    BY <1>1, <2>3, <2>4, <2>5, <2>6, <2>7 DEF Invoke
<1>2. CASE Return(c)
  BY <1>2 DEF Return
<1>3. CASE Drop(c)
  <2>1. phase[c] \in Open /\ TryNext(c)
    BY <1>3 DEF Drop
  <2>2. faults' \in 0..MaxFaults
    BY <1>3, LimitsAssumption DEF Drop
  <2> QED
    BY <1>3, <2>1, <2>2, TryNextTypes DEF Drop
<1>4. CASE Abandon(c)
  <2>1. adrift' \subseteq [op : Op, server : Servers, checked : BOOLEAN]
    <3>1. phase[c] \in Open /\ op[c] \in Op /\ server[c] \in Servers
      BY <1>4 DEF Abandon
    <3>2. [op |-> op[c], server |-> server[c], checked |-> phase[c] = "start"]
             \in [op : Op, server : Servers, checked : BOOLEAN]
      BY <3>1
    <3> QED
      BY <1>4, <3>2 DEF Abandon
  <2> QED
    BY SMTT(20), <1>4, <2>1, LimitsAssumption DEF Abandon, TryNext
<1> QED
  BY <1>1, <1>2, <1>3, <1>4 DEF ClerkStep

\* A handler's steps keep the types.
LEMMA HandlerTypes ==
    ASSUME TypeOK, NEW c \in Clients, HandlerStep(c)
    PROVE  TypeOK'
<1> USE NextServerType, HeardTypes DEF TypeOK, serverVars, raftVars, historyVars, counters, Open, Running
<1>1. CASE CheckLeader(c)
  <2>1. CASE server[c] \in leaders
    BY <1>1, <2>1 DEF CheckLeader
  <2>2. CASE server[c] \notin leaders
    <3>1. phase[c] \in Open /\ TryNext(c)
      BY <1>1, <2>2 DEF CheckLeader
    <3> QED
      BY <1>1, <3>1, TryNextTypes DEF CheckLeader
  <2> QED
    BY <2>1, <2>2
<1>2. CASE StartAppend(c)
  <2>1. [op |-> op[c], server |-> server[c]] \in [op : Op, server : Servers]
    BY <1>2 DEF StartAppend
  <2>2. IsABag(started') /\ BagToSet(started') \subseteq [op : Op, server : Servers]
    <3>1. started' = started (+) SetToBag({[op |-> op[c], server |-> server[c]]}) /\ IsABag(started)
      BY <1>2 DEF StartAppend
    <3>2. IsABag(started') /\ BagToSet(started') = BagToSet(started) \cup {[op |-> op[c], server |-> server[c]]}
      BY <3>1, BagAdd, Zenon
    <3> QED
      BY <2>1, <3>2
  <2> QED
    BY <1>2, <2>2 DEF StartAppend
<1>3. CASE StartReturns(c)
  <2>1. CASE server[c] \in leaders
    BY <1>3, <2>1 DEF StartReturns
  <2>2. CASE server[c] \notin leaders
    <3>1. phase[c] \in Open /\ TryNext(c)
      BY <1>3, <2>2 DEF StartReturns
    <3> QED
      BY <1>3, <3>1, TryNextTypes DEF StartReturns
  <2> QED
    BY <2>1, <2>2
<1>9. CASE StartWaits(c)
  BY <1>9 DEF StartWaits
<1>10. CASE AppendEnds(c)
  BY <1>10 DEF AppendEnds
<1>4. CASE Poll(c)
  BY <1>4 DEF Poll
<1>5. CASE PollAgain(c)
  BY <1>5 DEF PollAgain
<1>6. CASE GiveUp(c)
  <2>1. faults' \in 0..MaxFaults
    BY <1>6, LimitsAssumption DEF GiveUp
  <2>2. phase[c] \in Open /\ TryNext(c)
    BY <1>6 DEF GiveUp
  <2> QED
    BY <1>6, <2>1, <2>2, TryNextTypes DEF GiveUp
<1>7. CASE FindKey(c)
  <2>1. \/ TryNext(c) /\ UNCHANGED <<op, value>>
        \/ /\ phase' \in {[phase EXCEPT ![c] = "read"], [phase EXCEPT ![c] = "done"]}
           /\ value' = [value EXCEPT ![c] = <<>>]
           /\ UNCHANGED <<op, issued, server, answer, hearedBack>>
    BY <1>7 DEF FindKey, TryNext
  <2>2. UNCHANGED <<adrift, serverVars, raftVars, historyVars, counters>>
    BY <1>7 DEF FindKey
  <2>3. <<>> \in Value
    BY DEF Value
  <2>4. op[c] \in Op
    BY <1>7 DEF FindKey
  <2>5. CASE TryNext(c) /\ UNCHANGED <<op, value>>
    BY <2>2, <2>4, <2>5 DEF TryNext
  <2>6. CASE /\ phase' \in {[phase EXCEPT ![c] = "read"], [phase EXCEPT ![c] = "done"]}
             /\ value' = [value EXCEPT ![c] = <<>>]
             /\ UNCHANGED <<op, issued, server, answer, hearedBack>>
    BY <2>2, <2>3, <2>4, <2>6
  <2> QED
    BY <2>1, <2>5, <2>6
<1>8. CASE Read(c)
  <2>1. storage[server[c]][op[c].key] \in Value
    BY <1>8 DEF Read, Store, Op
  <2> QED
    BY <1>8, <2>1 DEF Read
<1> QED
  BY <1>1, <1>2, <1>3, <1>4, <1>5, <1>6, <1>7, <1>8, <1>9, <1>10 DEF HandlerStep

\* Handlers left behind keep the types.
LEMMA AdriftTypes ==
    ASSUME TypeOK, NEW a \in adrift, CheckAdrift(a) \/ StartAdrift(a)
    PROVE  TypeOK'
<1> USE DEF TypeOK, serverVars, raftVars, historyVars, counters
<1>1. a.op \in Op /\ a.server \in Servers
  OBVIOUS
<1>2. CASE CheckAdrift(a)
  <2>1. [a EXCEPT !.checked = TRUE] \in [op : Op, server : Servers, checked : BOOLEAN]
    OBVIOUS
  <2> QED
    BY <1>2, <2>1 DEF CheckAdrift
<1>3. CASE StartAdrift(a)
  <2>1. [op |-> a.op, server |-> a.server] \in [op : Op, server : Servers]
    BY <1>1
  <2>2. IsABag(started') /\ BagToSet(started') \subseteq [op : Op, server : Servers]
    <3>1. started' = started (+) SetToBag({[op |-> a.op, server |-> a.server]}) /\ IsABag(started)
      BY <1>3 DEF StartAdrift
    <3>2. IsABag(started') /\ BagToSet(started') = BagToSet(started) \cup {[op |-> a.op, server |-> a.server]}
      BY <3>1, BagAdd, Zenon
    <3> QED
      BY <2>1, <3>2
  <2> QED
    BY <1>3, <2>2 DEF StartAdrift
<1> QED
  BY <1>2, <1>3

\* A server's steps keep the types, when it has not applied more than the log.
LEMMA ServerTypes ==
    ASSUME TypeOK, PrefixesApplied, NEW s \in Servers, ServerStep(s)
    PROVE  TypeOK'
<1> USE DEF TypeOK, clerkVars, serverVars, raftVars, historyVars, counters
<1>1. CASE SendApply(s)
  BY <1>1 DEF SendApply
<1>2. CASE ListenApplyCh(s)
  <2>1. applied[s] + 1 \in 1..Len(log)
    BY <1>2 DEF ListenApplyCh, CanReceive, PrefixesApplied
  <2>2. log[applied[s] + 1] \in Op
    BY <2>1
  <2>3. Applied(storage[s], log[applied[s] + 1]) \in Store
    BY <2>2, AppliedType
  <2>4. Remembered(idTable[s], log[applied[s] + 1]) \in SUBSET (Clients \X (1..MaxOps))
    BY <2>2, TagType DEF Remembered
  <2>5. storage' \in [Servers -> Store] /\ idTable' \in [Servers -> SUBSET (Clients \X (1..MaxOps))]
    BY <1>2, <2>3, <2>4 DEF ListenApplyCh
  <2>6. applied' \in [Servers -> Nat]
    BY <1>2 DEF ListenApplyCh
  <2> QED
    BY <1>2, <2>5, <2>6 DEF ListenApplyCh
<1>3. CASE CrashRestart(s)
  <2>1. phase' \in [Clients -> Open \cup {"idle"}] /\ server' \in [Clients -> Servers]
    BY <1>3, NextServerType DEF CrashRestart, Open, Running
  <2>2. \A c \in Clients : phase'[c] \in Open => op'[c] \in Op
    BY <1>3 DEF CrashRestart, Open
  <2>3. storage' \in [Servers -> Store] /\ idTable' \in [Servers -> SUBSET (Clients \X (1..MaxOps))]
    BY <1>3, EmptyType DEF CrashRestart
  <2>4. hearedBack' \in [Clients -> 0..N]
    BY <1>3, HeardTypes DEF CrashRestart
  <2> QED
    BY <1>3, <2>1, <2>2, <2>3, <2>4, LimitsAssumption DEF CrashRestart
<1> QED
  BY <1>1, <1>2, <1>3 DEF ServerStep

\* Raft's steps keep the types.
LEMMA RaftTypes ==
    ASSUME TypeOK, PrefixesApplied,
           (\E e \in BagToSet(started) : Commit(e)) \/ (\E S \in SUBSET Servers : ChangeLeaders(S))
    PROVE  TypeOK'
<1> USE DEF TypeOK, clerkVars, serverVars, counters
<1>1. CASE \E e \in BagToSet(started) : Commit(e)
  <2>1. PICK e \in BagToSet(started) : Commit(e)
    BY <1>1
  <2>2. e.op \in Op
    OBVIOUS
  <2>3. log' \in Seq(Op)
    BY <2>1, <2>2 DEF Commit
  <2>4. versions[Len(versions)] \in Store
    BY DEF PrefixesApplied
  <2>5. versions' \in Seq(Store)
    BY <2>1, <2>2, <2>4, AppliedType DEF Commit
  <2>6. IsABag(started') /\ BagToSet(started') \subseteq [op : Op, server : Servers]
    BY <2>1, BagTake DEF Commit
  <2> QED
    BY <2>1, <2>3, <2>5, <2>6 DEF Commit
<1>2. CASE \E S \in SUBSET Servers : ChangeLeaders(S)
  BY <1>2, LimitsAssumption DEF ChangeLeaders, historyVars
<1> QED
  BY <1>1, <1>2

-----------------------------------------------------------------------------
\* What the steps leave alone.

\* Only Commit touches the log.
LEMMA LogKept ==
    ASSUME Next
    PROVE  UNCHANGED <<log, versions>> \/ \E e \in BagToSet(started) : Commit(e)
BY ZenonT(40) DEF Next, ClerkStep, HandlerStep, ServerStep, Invoke, Return, Drop, Abandon, CheckLeader,
       StartAppend, StartWaits, AppendEnds, StartReturns, Poll, PollAgain, GiveUp, FindKey, Read, CheckAdrift,
       StartAdrift, SendApply, ListenApplyCh, CrashRestart, ChangeLeaders, raftVars,
       historyVars

\* Only a server's own steps touch its storage.
LEMMA ServersKept ==
    ASSUME Next
    PROVE  UNCHANGED serverVars \/ \E s \in Servers : ServerStep(s)
BY DEF Next, ClerkStep, HandlerStep, Invoke, Return, Drop, Abandon, CheckLeader,
       StartAppend, StartWaits, AppendEnds, StartReturns, Poll, PollAgain, GiveUp, FindKey, Read, CheckAdrift,
       StartAdrift, Commit, ChangeLeaders

\* Only Invoke and Return begin and end calls.
LEMMA CallsKept ==
    ASSUME TypeOK, Next
    PROVE  \/ \E c \in Clients : Invoke(c) \/ Return(c)
           \/ /\ UNCHANGED <<op, issued, since, answer>>
              /\ \A c \in Clients : IsOpen(c)' <=> IsOpen(c)
<1> USE DEF IsOpen, clerkVars, historyVars
<1>1. CASE \E c \in Clients : ClerkStep(c)
  BY <1>1 DEF TypeOK, ClerkStep, Drop, Abandon, TryNext, Open, Running
<1>2. CASE \E c \in Clients : HandlerStep(c)
  BY SMTT(20), <1>2 DEF TypeOK, HandlerStep, CheckLeader, StartAppend, StartWaits, AppendEnds, StartReturns, Poll, PollAgain, GiveUp,
              FindKey, Read, TryNext
<1>3. CASE \E a \in adrift : CheckAdrift(a) \/ StartAdrift(a)
  BY <1>3 DEF CheckAdrift, StartAdrift
<1>4. CASE \E s \in Servers : ServerStep(s)
  BY <1>4 DEF ServerStep, SendApply, ListenApplyCh, CrashRestart, Running
<1>5. CASE \/ \E e \in BagToSet(started) : Commit(e)
           \/ \E S \in SUBSET Servers : ChangeLeaders(S)
  BY <1>5 DEF Commit, ChangeLeaders
<1> QED
  BY <1>1, <1>2, <1>3, <1>4, <1>5 DEF Next

\* Every step keeps the types.
LEMMA TypeStep ==
    ASSUME TypeOK, PrefixesApplied, [Next]_vars
    PROVE  TypeOK'
<1>1. CASE Next
  BY <1>1, ClerkTypes, HandlerTypes, AdriftTypes, ServerTypes, RaftTypes DEF Next
<1>2. CASE UNCHANGED vars
  BY <1>2 DEF vars, clerkVars, serverVars, raftVars, historyVars, counters, TypeOK
<1> QED
  BY <1>1, <1>2

-----------------------------------------------------------------------------
\* The log and the servers.

\* The log grows at its end, and the versions with it.
LEMMA CommitGrows ==
    ASSUME TypeOK, PrefixesApplied, NEW e \in BagToSet(started), Commit(e)
    PROVE  /\ e.op \in Op
           /\ Len(log') = Len(log) + 1 /\ Len(versions') = Len(versions) + 1
           /\ \A k \in 1..Len(log) : log'[k] = log[k]
           /\ log'[Len(log) + 1] = e.op
           /\ \A k \in 1..Len(versions) : versions'[k] = versions[k]
           /\ versions'[Len(versions) + 1] =
                 IF InLog(e.op) THEN versions[Len(versions)]
                 ELSE Applied(versions[Len(versions)], e.op)
<1>1. e.op \in Op /\ log \in Seq(Op) /\ versions \in Seq(Store)
  BY DEF TypeOK
<1>2. log' = Append(log, e.op)
  BY DEF Commit
<1>3. versions' = Append(versions, IF InLog(e.op) THEN versions[Len(versions)]
                                   ELSE Applied(versions[Len(versions)], e.op))
  BY DEF Commit, InLog
<1>4. versions[Len(versions)] \in Store
  BY <1>1 DEF PrefixesApplied, TypeOK
<1>5. (IF InLog(e.op) THEN versions[Len(versions)]
       ELSE Applied(versions[Len(versions)], e.op)) \in Store
  BY <1>1, <1>4, AppliedType
<1> QED
  BY <1>1, <1>2, <1>3, <1>5

\* Servers stay within the log.
LEMMA PrefixesStep ==
    ASSUME TypeOK, PrefixesApplied, Next
    PROVE  PrefixesApplied'
<1>1. Len(log) \in Nat
  BY DEF TypeOK
<1>2. CASE \E e \in BagToSet(started) : Commit(e)
  BY <1>1, <1>2, CommitGrows DEF TypeOK, PrefixesApplied, Commit, serverVars
<1>3. CASE UNCHANGED <<log, versions>>
  <2>1. CASE UNCHANGED serverVars
    BY <1>3, <2>1 DEF PrefixesApplied, serverVars
  <2>2. ASSUME NEW s \in Servers, ServerStep(s)
        PROVE  PrefixesApplied'
    <3>1. Len(log') = Len(log) /\ versions' = versions
      BY <1>3
    <3>2. /\ applied \in [Servers -> Nat] /\ LastApply \in [Servers -> Nat]
          /\ \A r \in Servers : applied[r] <= LastApply[r] /\ LastApply[r] <= Len(log)
          /\ Len(versions) = Len(log) + 1
      BY DEF TypeOK, PrefixesApplied
    <3>3. CASE SendApply(s)
      BY <1>1, <3>1, <3>2, <3>3 DEF PrefixesApplied, SendApply
    <3>4. CASE ListenApplyCh(s)
      BY <1>1, <3>1, <3>2, <3>4 DEF PrefixesApplied, ListenApplyCh, CanReceive
    <3>5. CASE CrashRestart(s)
      BY <1>1, <3>1, <3>2, <3>5 DEF PrefixesApplied, CrashRestart
    <3> QED
      BY <2>2, <3>3, <3>4, <3>5 DEF ServerStep
  <2> QED
    BY <2>1, <2>2, ServersKept
<1> QED
  BY <1>2, <1>3, LogKept

\* A commit replays the log one command further.
LEMMA VersionsStep ==
    ASSUME TypeOK, PrefixesApplied, VersionsReplay, Next
    PROVE  VersionsReplay'
<1>1. CASE UNCHANGED <<log, versions>>
  BY <1>1 DEF VersionsReplay, Tag, Empty
<1>2. ASSUME NEW e \in BagToSet(started), Commit(e)
      PROVE  VersionsReplay'
  <2>0. versions'[1] = Empty
    <3>1. 1 \in 1..Len(versions)
      BY DEF TypeOK, PrefixesApplied
    <3> QED
      BY <1>2, <3>1, CommitGrows DEF VersionsReplay
  <2> SUFFICES ASSUME NEW k \in 1..Len(log')
               PROVE  versions'[k + 1] = IF \E j \in 1 .. k-1 : Tag(log'[j]) = Tag(log'[k])
                                         THEN versions'[k] ELSE Applied(versions'[k], log'[k])
    BY <2>0 DEF VersionsReplay, Tag, Applied, Empty
  <2>1. Len(log) \in Nat /\ Len(versions) = Len(log) + 1
    BY DEF TypeOK, PrefixesApplied
  <2>2. CASE k \in 1..Len(log)
    <3>1. \A j \in 1..k : log'[j] = log[j]
      BY <1>2, <2>1, <2>2, CommitGrows
    <3>2. versions'[k] = versions[k] /\ versions'[k + 1] = versions[k + 1]
      BY <1>2, <2>1, <2>2, CommitGrows
    <3>3. (\E j \in 1 .. k-1 : Tag(log'[j]) = Tag(log'[k]))
             <=> \E j \in 1 .. k-1 : Tag(log[j]) = Tag(log[k])
      BY <3>1, <2>1
    <3>4. versions[k + 1] = IF \E j \in 1 .. k-1 : Tag(log[j]) = Tag(log[k])
                            THEN versions[k] ELSE Applied(versions[k], log[k])
      BY <2>2 DEF VersionsReplay
    <3> QED
      BY <3>1, <3>2, <3>3, <3>4, <2>2
  <2>3. CASE k = Len(log) + 1
    <3>1. InLog(e.op) <=> \E j \in 1 .. k-1 : Tag(log'[j]) = Tag(log'[k])
      BY <1>2, <2>1, <2>3, CommitGrows DEF InLog
    <3> QED
      BY <1>2, <2>1, <2>3, <3>1, CommitGrows
  <2> QED
    BY <1>2, <2>1, <2>2, <2>3, CommitGrows
<1> QED
  BY <1>1, <1>2, LogKept

\* A storage and an id table are what the log gives, after every step of their server.
LEMMA ReplicasStep ==
    ASSUME TypeOK, PrefixesApplied, VersionsReplay, TablesReplay, ReplicasAgree, Next
    PROVE  TablesReplay' /\ ReplicasAgree'
<1>1. Len(log) \in Nat /\ Len(versions) = Len(log) + 1
  BY DEF TypeOK, PrefixesApplied
<1>2. \A s \in Servers : applied[s] \in 0..Len(log)
  BY DEF TypeOK, PrefixesApplied
<1>3. ASSUME NEW e \in BagToSet(started), Commit(e)
      PROVE  TablesReplay' /\ ReplicasAgree'
  <2>1. UNCHANGED serverVars
    BY <1>3 DEF Commit
  <2>2. \A s \in Servers : \A k \in 1..applied[s] : log'[k] = log[k]
    BY <1>1, <1>2, <1>3, CommitGrows
  <2>3. \A s \in Servers : versions'[applied[s] + 1] = versions[applied[s] + 1]
    BY <1>1, <1>2, <1>3, CommitGrows
  <2> QED
    BY <2>1, <2>2, <2>3 DEF TablesReplay, ReplicasAgree, serverVars, Tag
<1>4. CASE UNCHANGED <<log, versions>> /\ UNCHANGED serverVars
  BY <1>4 DEF TablesReplay, ReplicasAgree, serverVars, Tag
<1>5. ASSUME UNCHANGED <<log, versions>>, NEW s \in Servers, ServerStep(s)
      PROVE  TablesReplay' /\ ReplicasAgree'
  <2>1. CASE SendApply(s)
    BY <1>5, <2>1 DEF SendApply, TablesReplay, ReplicasAgree, Tag
  <2>2. CASE ListenApplyCh(s)
    <3> DEFINE n == applied[s] + 1
               o == log[n]
    <3>1. n \in 1..Len(log) /\ applied[s] \in Nat
      BY <1>1, <1>2, <2>2 DEF ListenApplyCh, CanReceive, PrefixesApplied, TypeOK
    <3>2. existId(idTable[s], o) <=> \E j \in 1 .. n-1 : Tag(log[j]) = Tag(o)
      BY <3>1 DEF existId, TablesReplay
    <3>3. versions[n + 1] = IF existId(idTable[s], o) THEN storage[s] ELSE Applied(storage[s], o)
      BY <3>1, <3>2 DEF VersionsReplay, ReplicasAgree
    <3>4. applied' = [applied EXCEPT ![s] = n]
      BY <2>2 DEF ListenApplyCh
    <3>5. storage' = [storage EXCEPT ![s] = versions[n + 1]]
      BY <2>2, <3>3 DEF ListenApplyCh, TypeOK
    <3>6. idTable' = [idTable EXCEPT ![s] = @ \cup {Tag(o)}]
      BY <2>2 DEF ListenApplyCh, Remembered
    <3>7. idTable[s] \cup {Tag(o)} = {Tag(log[k]) : k \in 1..n}
      BY <3>1 DEF TablesReplay
    <3>8. ReplicasAgree'
      BY <1>5, <3>4, <3>5 DEF ReplicasAgree, TypeOK
    <3>9. TablesReplay'
      <4>1. applied'[s] = n /\ idTable'[s] = idTable[s] \cup {Tag(o)}
        BY <3>4, <3>6 DEF TypeOK
      <4>2. \A r \in Servers \ {s} : applied'[r] = applied[r] /\ idTable'[r] = idTable[r]
        BY <3>4, <3>6 DEF TypeOK
      <4>3. idTable'[s] = {Tag(log'[k]) : k \in 1..applied'[s]}
        BY <1>5, <3>7, <4>1
      <4>4. \A r \in Servers \ {s} : idTable'[r] = {Tag(log'[k]) : k \in 1..applied'[r]}
        BY <1>5, <4>2 DEF TablesReplay
      <4> QED
        BY <4>3, <4>4 DEF TablesReplay, Tag
    <3> QED
      BY <3>8, <3>9
  <2>3. CASE CrashRestart(s)
    <3>1. \A t \in Servers : /\ applied'[t] = IF t = s THEN 0 ELSE applied[t]
                             /\ storage'[t] = IF t = s THEN Empty ELSE storage[t]
                             /\ idTable'[t] = IF t = s THEN {} ELSE idTable[t]
      BY <2>3 DEF CrashRestart, TypeOK
    <3>2. versions[1] = Empty
      BY DEF VersionsReplay
    <3>3. ReplicasAgree'
      BY <1>5, <3>1, <3>2 DEF ReplicasAgree
    <3>4. TablesReplay'
      BY <1>5, <3>1 DEF TablesReplay, Tag
    <3> QED
      BY <3>3, <3>4
  <2> QED
    BY <1>5, <2>1, <2>2, <2>3 DEF ServerStep
<1> QED
  BY <1>3, <1>4, <1>5, LogKept, ServersKept

-----------------------------------------------------------------------------
\* The commands and the calls.

\* A command on its way was on its way before, or is of an open call.
LEMMA CommandsFrom ==
    ASSUME TypeOK, Next, NEW x \in BagToSet(started') \cup adrift'
    PROVE  \/ \E y \in BagToSet(started) \cup adrift : x.op = y.op
           \/ \E c \in Clients : IsOpen(c) /\ x.op = op[c]
<1> USE DEF raftVars, clerkVars
<1>1. IsABag(started)
  BY DEF TypeOK
<1>2. ASSUME NEW c \in Clients, StartAppend(c)
      PROVE  BagToSet(started') = BagToSet(started) \cup {[op |-> op[c], server |-> server[c]]}
             /\ adrift' = adrift /\ IsOpen(c)
  <2>1. started' = started (+) SetToBag({[op |-> op[c], server |-> server[c]]})
    BY <1>2 DEF StartAppend
  <2>2. BagToSet(started') = BagToSet(started) \cup {[op |-> op[c], server |-> server[c]]}
    BY <1>1, <2>1, BagAdd, Zenon
  <2> QED
    BY <1>2, <2>2 DEF StartAppend, IsOpen
<1>3. ASSUME NEW a \in adrift, StartAdrift(a)
      PROVE  BagToSet(started') = BagToSet(started) \cup {[op |-> a.op, server |-> a.server]}
             /\ adrift' \subseteq adrift
  <2>1. started' = started (+) SetToBag({[op |-> a.op, server |-> a.server]})
    BY <1>3 DEF StartAdrift
  <2>2. BagToSet(started') = BagToSet(started) \cup {[op |-> a.op, server |-> a.server]}
    BY <1>1, <2>1, BagAdd, Zenon
  <2> QED
    BY <1>3, <2>2 DEF StartAdrift
<1>4. ASSUME NEW a \in adrift, CheckAdrift(a)
      PROVE  started' = started /\ \A b \in adrift' : \E d \in adrift : b.op = d.op
  BY <1>4 DEF CheckAdrift, TypeOK
<1>5. ASSUME NEW e \in BagToSet(started), Commit(e)
      PROVE  BagToSet(started') \subseteq BagToSet(started) /\ adrift' = adrift
  BY <1>1, <1>5, BagTake DEF Commit
<1>6. ASSUME NEW c \in Clients, Abandon(c)
      PROVE  /\ started' = started /\ IsOpen(c)
             /\ \A b \in adrift' : b \in adrift \/ b.op = op[c]
  BY <1>6 DEF Abandon, IsOpen, Open, Running
<1>7. ASSUME NEW s \in Servers, CrashRestart(s)
      PROVE  started' = started /\ adrift' \subseteq adrift
  BY <1>7 DEF CrashRestart
<1>8. \/ UNCHANGED <<started, adrift>>
      \/ \E c \in Clients : StartAppend(c) \/ Abandon(c)
      \/ \E a \in adrift : StartAdrift(a) \/ CheckAdrift(a)
      \/ \E e \in BagToSet(started) : Commit(e)
      \/ \E s \in Servers : CrashRestart(s)
  BY DEF Next, ClerkStep, HandlerStep, ServerStep, Invoke, Return, Drop, CheckLeader,
         StartWaits, AppendEnds, StartReturns, Poll, PollAgain, GiveUp, FindKey, Read,
         SendApply, ListenApplyCh,
         ChangeLeaders
<1> QED
  BY <1>2, <1>3, <1>4, <1>5, <1>6, <1>7, <1>8

\* A command in the log stays there.
LEMMA InLogStays ==
    ASSUME TypeOK, PrefixesApplied, Next, NEW o, InLog(o)
    PROVE  \E k \in 1..Len(log') : Tag(log'[k]) = Tag(o)
<1>1. Len(log) \in Nat
  BY DEF TypeOK
<1>2. CASE UNCHANGED <<log, versions>>
  BY <1>2 DEF InLog
<1>3. CASE \E e \in BagToSet(started) : Commit(e)
  BY <1>1, <1>3, CommitGrows DEF InLog
<1> QED
  BY <1>2, <1>3, LogKept

\* A step keeps a known command known.
LEMMA KnownStays ==
    ASSUME ServiceInv, Next, NEW o \in Op, IsKnown(o)
    PROVE  IsKnown(o)'
<1> DEFINE c == o.client
           logged == \E k \in 1..Len(log') : Tag(log'[k]) = Tag(o)
<1>1. c \in Clients /\ o.id \in 1..MaxOps /\ issued[c] \in 0..MaxOps
  BY DEF Op, ServiceInv, TypeOK
<1>2. InLog(o) => logged
  BY InLogStays DEF ServiceInv
<1>3. logged => InLog(o)'
  BY DEF InLog, Tag
<1>4. ASSUME NEW d \in Clients, Invoke(d)
      PROVE  IsKnown(o)'
  <2>1. CASE d = c
    <3>1. InLog(o) /\ o.id <= issued[c]
      BY <1>4, <2>1 DEF Invoke, IsKnown, IsOpen
    <3>2. issued'[c] = issued[c] + 1
      BY <1>1, <1>4, <2>1 DEF Invoke, ServiceInv, TypeOK
    <3>3. o.id < issued'[c]
      BY <1>1, <3>1, <3>2, LimitsAssumption
    <3> QED
      BY <1>1, <1>2, <1>3, <3>1, <3>2, <3>3, LimitsAssumption DEF IsKnown
  <2>2. CASE d # c
    <3>1. issued'[c] = issued[c] /\ op'[c] = op[c] /\ phase'[c] = phase[c]
      BY <1>1, <1>4, <2>2 DEF Invoke, ServiceInv, TypeOK
    <3> QED
      BY <1>1, <1>2, <1>3, <3>1 DEF IsKnown, IsOpen
  <2> QED
    BY <2>1, <2>2
<1>5. ASSUME NEW d \in Clients, Return(d)
      PROVE  IsKnown(o)'
  <2>1. CASE d = c
    <3>1. InLog(op[c])
      BY <1>5, <2>1 DEF Return, ServiceInv, AnswersSeen
    <3>2. InLog(o)
      BY <3>1 DEF IsKnown
    <3> QED
      BY <1>2, <1>3, <1>5, <2>1, <3>2 DEF Return, IsKnown
  <2>2. CASE d # c
    BY <1>1, <1>2, <1>3, <1>5, <2>2 DEF Return, IsKnown, IsOpen, ServiceInv, TypeOK
  <2> QED
    BY <2>1, <2>2
<1>6. CASE /\ UNCHANGED <<op, issued, since, answer>>
           /\ \A d \in Clients : IsOpen(d)' <=> IsOpen(d)
  BY <1>1, <1>2, <1>3, <1>6 DEF IsKnown
<1> QED
  BY <1>4, <1>5, <1>6, CallsKept DEF ServiceInv

\* The command of an open call is known.
LEMMA OpenKnown ==
    ASSUME ServiceInv, NEW c \in Clients, IsOpen(c)
    PROVE  op[c] \in Op /\ IsKnown(op[c])
BY DEF ServiceInv, CallsCurrent, IsKnown, TypeOK

\* Every command stays known.
LEMMA CommandsStep ==
    ASSUME ServiceInv, Next
    PROVE  CommandsKnown'
<1>1. TypeOK /\ PrefixesApplied /\ CommandsKnown
  BY DEF ServiceInv
<1>2. ASSUME NEW x \in BagToSet(started') \cup adrift'
      PROVE  IsKnown(x.op)'
  <2>1. x.op \in Op /\ IsKnown(x.op)
    <3>1. CASE \E y \in BagToSet(started) \cup adrift : x.op = y.op
      BY <1>1, <3>1 DEF CommandsKnown, TypeOK
    <3>2. CASE \E c \in Clients : IsOpen(c) /\ x.op = op[c]
      BY <3>2, OpenKnown
    <3> QED
      BY <1>1, <1>2, <3>1, <3>2, CommandsFrom
  <2> QED
    BY <2>1, KnownStays
<1>3. ASSUME NEW k \in 1..Len(log')
      PROVE  IsKnown(log[k])'
  <2>1. log'[k] \in Op /\ IsKnown(log'[k])
    <3>1. CASE UNCHANGED <<log, versions>>
      BY <1>1, <3>1 DEF CommandsKnown, TypeOK
    <3>2. ASSUME NEW e \in BagToSet(started), Commit(e)
          PROVE  log'[k] \in Op /\ IsKnown(log'[k])
      <4>1. Len(log) \in Nat /\ Len(log') = Len(log) + 1 /\ e.op \in Op /\ IsKnown(e.op)
        <5>1. IsKnown(e.op)
          BY <1>1, <3>2 DEF CommandsKnown
        <5>2. Len(log') = Len(log) + 1 /\ e.op \in Op
          BY <1>1, <3>2, CommitGrows
        <5> QED
          BY <1>1, <5>1, <5>2 DEF TypeOK
      <4>2. CASE k \in 1..Len(log)
        <5>1. log'[k] = log[k]
          BY <1>1, <3>2, <4>2, CommitGrows
        <5>2. log[k] \in Op /\ IsKnown(log[k])
          BY <1>1, <4>2 DEF CommandsKnown, TypeOK
        <5> QED
          BY <5>1, <5>2
      <4>3. CASE k = Len(log) + 1
        BY <1>1, <3>2, <4>1, <4>3, CommitGrows
      <4> QED
        BY <4>1, <4>2, <4>3
    <3> QED
      BY <3>1, <3>2, LogKept
  <2>2. ASSUME NEW o \in Op, o = log'[k]
        PROVE  IsKnown(log[k])'
    <3>1. IsKnown(o)'
      BY <2>1, <2>2, KnownStays
    <3> QED
      BY <2>2, <3>1 DEF IsKnown, InLog, IsOpen, Tag
  <2> QED
    BY <2>1, <2>2
<1> QED
  BY <1>2, <1>3 DEF CommandsKnown

\* A call stays the current one of its clerk, and older than its commands.
LEMMA CurrentStep ==
    ASSUME ServiceInv, Next
    PROVE  CallsCurrent'
<1>1. TypeOK /\ PrefixesApplied /\ CallsCurrent /\ Len(log) \in Nat
  BY SMTT(20) DEF ServiceInv, TypeOK
<1>2. ASSUME NEW c \in Clients, Invoke(c)
      PROVE  CallsCurrent'
  <2>1. issued[c] + 1 \in 1..MaxOps
    BY <1>1, <1>2, LimitsAssumption DEF Invoke, TypeOK
  <2>2. log' = log /\ issued' = [issued EXCEPT ![c] = @ + 1] /\ since' = [since EXCEPT ![c] = Len(log)]
    BY <1>2 DEF Invoke, raftVars
  <2>3. PICK t \in Tasks, key \in Keys :
           op' = [op EXCEPT ![c] = [task |-> t, key |-> key, client |-> c, id |-> issued'[c]]]
    BY <1>2 DEF Invoke
  <2>4. op'[c] \in Op /\ op'[c].client = c /\ op'[c].id = issued'[c] /\ issued'[c] = issued[c] + 1
    BY <1>1, <2>1, <2>2, <2>3 DEF Op, TypeOK
  <2>5. ASSUME NEW k \in 1..Len(log)
        PROVE  Tag(log[k]) # Tag(op'[c])
    <3>1. log[k] \in Op /\ log[k].id <= issued[log[k].client]
      BY <1>1 DEF ServiceInv, CommandsKnown, IsKnown, TypeOK
    <3>2. Tag(log[k]) = Tag(op'[c]) => log[k].client = c /\ log[k].id = issued[c] + 1
      BY <2>4 DEF Tag
    <3>3. issued[c] \in Int
      BY <2>1, <1>1 DEF TypeOK
    <3> QED
      BY <3>1, <3>2, <3>3
  <2>6. since'[c] = Len(log)
    BY <1>1, <2>2 DEF TypeOK
  <2>7. ASSUME NEW d \in Clients, IsOpen(d)'
        PROVE  /\ op'[d] \in Op /\ op'[d].client = d /\ op'[d].id = issued'[d]
               /\ since'[d] <= Len(log')
               /\ \A k \in 1..Len(log') : Tag(log'[k]) = Tag(op'[d]) => k > since'[d]
    <3>1. CASE d = c
      BY <1>1, <2>2, <2>4, <2>5, <2>6, <3>1
    <3>2. CASE d # c
      <4>1. IsOpen(d) /\ op'[d] = op[d] /\ issued'[d] = issued[d] /\ since'[d] = since[d]
        BY <1>1, <1>2, <2>2, <2>3, <2>7, <3>2 DEF Invoke, IsOpen, TypeOK
      <4> QED
        BY <1>1, <2>2, <4>1 DEF CallsCurrent
    <3> QED
      BY <3>1, <3>2
  <2> QED
    BY <2>7 DEF CallsCurrent, IsOpen, Tag, Op
<1>3. ASSUME NEW c \in Clients, Return(c)
      PROVE  CallsCurrent'
  BY <1>1, <1>3 DEF Return, CallsCurrent, IsOpen, TypeOK, raftVars, historyVars, Tag, Op
<1>4. CASE /\ UNCHANGED <<op, issued, since, answer>>
           /\ \A d \in Clients : IsOpen(d)' <=> IsOpen(d)
  <2>1. ASSUME NEW d \in Clients, IsOpen(d)
        PROVE  /\ since[d] <= Len(log')
               /\ \A k \in 1..Len(log') : Tag(log'[k]) = Tag(op[d]) => k > since[d]
    <3>1. CASE UNCHANGED <<log, versions>>
      BY <2>1, <3>1 DEF CallsCurrent, ServiceInv
    <3>2. CASE \E e \in BagToSet(started) : Commit(e)
      <4>1. since[d] <= Len(log) /\ \A k \in 1..Len(log) : Tag(log[k]) = Tag(op[d]) => k > since[d]
        BY <1>1, <2>1 DEF CallsCurrent
      <4>2. Len(log') = Len(log) + 1 /\ \A k \in 1..Len(log) : log'[k] = log[k]
        BY <1>1, <3>2, CommitGrows
      <4>3. since[d] \in Nat
        BY <1>1 DEF TypeOK
      <4> QED
        BY <1>1, <4>1, <4>2, <4>3
    <3> QED
      BY <3>1, <3>2, LogKept
  <2> QED
    BY <1>1, <1>4, <2>1 DEF CallsCurrent, Tag, Op
<1> QED
  BY <1>1, <1>2, <1>3, <1>4, CallsKept

\* A handler that has found its id got there by a step of its own, or was there
\* before on a server that did not restart.
LEMMA HandlersFrom ==
    ASSUME TypeOK, Next, NEW c \in Clients, phase'[c] \in {"key", "read", "done"}
    PROVE  /\ op'[c] = op[c] /\ server'[c] = server[c] /\ since'[c] = since[c]
           /\ \/ Poll(c) \/ FindKey(c) \/ Read(c)
              \/ /\ phase'[c] = phase[c] /\ value'[c] = value[c]
                 /\ \A s \in Servers : CrashRestart(s) => server[c] # s
<1> USE DEF TypeOK, clerkVars, historyVars
<1>1. CASE \E d \in Clients : ClerkStep(d)
  <2>1. PICK d \in Clients : ClerkStep(d)
    BY <1>1
  <2>2. d # c
    BY <2>1 DEF ClerkStep, Invoke, Return, Drop, Abandon, TryNext
  <2>3. crashes' = crashes
    BY <2>1 DEF ClerkStep, Invoke, Return, Drop, Abandon, counters
  <2>4. \A s \in Servers : ~CrashRestart(s)
    BY <2>3 DEF CrashRestart
  <2> QED
    BY <2>1, <2>2, <2>4 DEF ClerkStep, Invoke, Return, Drop, Abandon, TryNext
<1>2. CASE \E d \in Clients : HandlerStep(d)
  <2>1. PICK d \in Clients : HandlerStep(d)
    BY <1>2
  <2>2. crashes' = crashes
    BY <2>1 DEF HandlerStep, CheckLeader, StartAppend, StartWaits, AppendEnds, StartReturns, Poll, PollAgain, GiveUp,
                FindKey, Read, counters
  <2>3. \A s \in Servers : ~CrashRestart(s)
    BY <2>2 DEF CrashRestart
  <2>4. CASE d # c
    BY <2>1, <2>3, <2>4 DEF HandlerStep, CheckLeader, StartAppend, StartWaits, AppendEnds, StartReturns, Poll, PollAgain,
                GiveUp, FindKey, Read, TryNext
  <2>5. CASE d = c
    BY <2>1, <2>5 DEF HandlerStep, CheckLeader, StartAppend, StartWaits, AppendEnds, StartReturns, Poll, PollAgain,
                GiveUp, FindKey, Read, TryNext
  <2> QED
    BY <2>4, <2>5
<1>3. CASE \E a \in adrift : CheckAdrift(a) \/ StartAdrift(a)
  <2>1. crashes' = crashes
    BY <1>3 DEF CheckAdrift, StartAdrift, counters
  <2> QED
    BY <1>3, <2>1 DEF CheckAdrift, StartAdrift, CrashRestart
<1>4. ASSUME NEW s \in Servers, ServerStep(s)
      PROVE  /\ op'[c] = op[c] /\ server'[c] = server[c] /\ since'[c] = since[c]
             /\ phase'[c] = phase[c] /\ value'[c] = value[c]
             /\ \A t \in Servers : CrashRestart(t) => server[c] # t
  <2>1. CASE SendApply(s) \/ ListenApplyCh(s)
    <3>1. crashes' = crashes
      BY <2>1 DEF SendApply, ListenApplyCh, counters
    <3> QED
      BY <2>1, <3>1 DEF SendApply, ListenApplyCh, CrashRestart
  <2>2. CASE \E t \in Servers : CrashRestart(t)
    BY <2>2 DEF CrashRestart, Running
  <2> QED
    BY <1>4, <2>1, <2>2 DEF ServerStep
<1>5. CASE \/ \E e \in BagToSet(started) : Commit(e)
           \/ \E S \in SUBSET Servers : ChangeLeaders(S)
  <2>1. crashes' = crashes
    BY <1>5 DEF Commit, ChangeLeaders, counters
  <2>2. \A s \in Servers : ~CrashRestart(s)
    BY <2>1 DEF CrashRestart
  <2>3. UNCHANGED <<phase, op, server, value, since>>
    BY <1>5 DEF Commit, ChangeLeaders
  <2> QED
    BY <2>2, <2>3
<1> QED
  BY <1>1, <1>2, <1>3, <1>4, <1>5 DEF Next

\* A handler's own steps leave the servers and the log alone.
LEMMA HandlersReadOnly ==
    ASSUME NEW c \in Clients, Poll(c) \/ FindKey(c) \/ Read(c)
    PROVE  UNCHANGED <<serverVars, log, versions, since, op>>
BY DEF Poll, FindKey, Read, TryNext, raftVars, historyVars

\* An id that was found stays in the table, unless the server restarts.
LEMMA IdsStep ==
    ASSUME ServiceInv, Next
    PROVE  IdsFound'
<1>1. TypeOK /\ IdsFound
  BY DEF ServiceInv
<1> SUFFICES ASSUME NEW c \in Clients, phase'[c] \in {"key", "read"}
             PROVE  /\ Tag(op'[c]) \in idTable'[server'[c]]
                    /\ phase'[c] = "read" => ~IsWrite(op'[c])
  BY DEF IdsFound, existId, Tag, IsWrite
<1>2. op'[c] = op[c] /\ server'[c] = server[c]
  BY <1>1, HandlersFrom
<1>3. CASE Poll(c)
  BY <1>1, <1>3 DEF Poll, existId, serverVars, TypeOK
<1>4. CASE FindKey(c) \/ Read(c)
  <2>1. phase[c] \in {"key", "read"}
    BY <1>4 DEF FindKey, Read
  <2>2. phase'[c] = "read" => ~IsWrite(op[c])
    BY <1>1, <1>4 DEF FindKey, Read, TryNext, TypeOK
  <2> QED
    BY <1>1, <1>2, <1>4, <2>1, <2>2, HandlersReadOnly DEF IdsFound, existId, serverVars
<1>5. CASE /\ phase'[c] = phase[c]
           /\ \A s \in Servers : CrashRestart(s) => server[c] # s
  <2>1. Tag(op[c]) \in idTable[server[c]] /\ (phase[c] = "read" => ~IsWrite(op[c]))
    BY <1>1, <1>5 DEF IdsFound, existId
  <2>2. CASE UNCHANGED serverVars
    BY <1>2, <1>5, <2>1, <2>2 DEF serverVars
  <2>3. ASSUME NEW s \in Servers, ServerStep(s)
        PROVE  idTable[server[c]] \subseteq idTable'[server[c]]
    <3>1. CASE SendApply(s)
      BY <3>1 DEF SendApply
    <3>2. CASE ListenApplyCh(s)
      BY <1>1, <3>2 DEF ListenApplyCh, Remembered, TypeOK
    <3>3. CASE CrashRestart(s)
      BY <1>1, <1>5, <3>3 DEF CrashRestart, TypeOK
    <3> QED
      BY <2>3, <3>1, <3>2, <3>3 DEF ServerStep
  <2> QED
    BY <1>2, <1>5, <2>1, <2>2, <2>3, ServersKept
<1> QED
  BY <1>1, <1>3, <1>4, <1>5, HandlersFrom

\* A server that has applied the command of a call has a storage the call has seen.
LEMMA FoundSeen ==
    ASSUME ServiceInv, NEW c \in Clients, phase[c] \in {"key", "read"}
    PROVE  /\ InLog(op[c])
           /\ applied[server[c]] + 1 \in since[c] + 1 .. Len(versions)
           /\ storage[server[c]] = versions[applied[server[c]] + 1]
<1>1. server[c] \in Servers /\ since[c] \in Nat /\ applied[server[c]] \in 0..Len(log)
      /\ Len(log) \in Nat /\ Len(versions) = Len(log) + 1
  BY DEF ServiceInv, TypeOK, PrefixesApplied
<1>2. PICK j \in 1..applied[server[c]] : Tag(log[j]) = Tag(op[c])
  BY <1>1 DEF ServiceInv, IdsFound, existId, TablesReplay
<1>3. j > since[c]
  BY <1>1, <1>2 DEF ServiceInv, CallsCurrent, IsOpen
<1> QED
  BY <1>1, <1>2, <1>3 DEF InLog, ServiceInv, ReplicasAgree

\* An answer stays one the call has seen.
LEMMA AnswersStep ==
    ASSUME ServiceInv, Next
    PROVE  AnswersSeen'
<1>1. TypeOK /\ PrefixesApplied /\ AnswersSeen /\ Len(log) \in Nat
  BY SMTT(20) DEF ServiceInv, TypeOK
<1> SUFFICES ASSUME NEW c \in Clients, phase'[c] = "done"
             PROVE  /\ \E k \in 1..Len(log') : Tag(log'[k]) = Tag(op'[c])
                    /\ IF IsWrite(op'[c]) THEN value'[c] = <<>>
                       ELSE \E k \in since'[c] + 1 .. Len(versions') :
                               value'[c] = versions'[k][op'[c].key]
  BY DEF AnswersSeen, InLog, Tag, IsWrite
<1>2. op'[c] = op[c] /\ since'[c] = since[c]
  BY <1>1, HandlersFrom
<1>3. CASE Poll(c)
  BY <1>1, <1>3 DEF Poll, TypeOK
<1>4. CASE FindKey(c)
  <2>1. phase[c] = "key" /\ UNCHANGED <<serverVars, log, versions>>
    BY <1>4, HandlersReadOnly DEF FindKey
  <2>2. value'[c] = <<>> /\ (IsWrite(op[c]) \/ storage[server[c]][op[c].key] = <<>>)
    BY <1>1, <1>4 DEF FindKey, TryNext, TypeOK
  <2> QED
    BY <1>2, <2>1, <2>2, FoundSeen DEF InLog
<1>5. CASE Read(c)
  <2>1. phase[c] = "read" /\ UNCHANGED <<serverVars, log, versions>>
    BY <1>5, HandlersReadOnly DEF Read
  <2>2. value'[c] = storage[server[c]][op[c].key]
    BY <1>1, <1>5 DEF Read, TypeOK
  <2>3. ~IsWrite(op[c])
    BY <2>1 DEF ServiceInv, IdsFound
  <2> QED
    BY <1>2, <2>1, <2>2, <2>3, FoundSeen DEF InLog
<1>6. CASE phase'[c] = phase[c] /\ value'[c] = value[c]
  <2>1. /\ InLog(op[c])
        /\ IF IsWrite(op[c]) THEN value[c] = <<>>
           ELSE \E k \in since[c] + 1 .. Len(versions) : value[c] = versions[k][op[c].key]
    BY <1>1, <1>6 DEF AnswersSeen
  <2>2. \E k \in 1..Len(log') : Tag(log'[k]) = Tag(op[c])
    BY <1>1, <2>1, InLogStays
  <2>3. Len(versions) <= Len(versions') /\ \A k \in 1..Len(versions) : versions'[k] = versions[k]
    <3>1. CASE UNCHANGED <<log, versions>>
      BY <1>1, <3>1 DEF PrefixesApplied
    <3>2. CASE \E e \in BagToSet(started) : Commit(e)
      BY <1>1, <3>2, CommitGrows DEF PrefixesApplied
    <3> QED
      BY <3>1, <3>2, LogKept
  <2>4. ASSUME NEW k \in since[c] + 1 .. Len(versions), value[c] = versions[k][op[c].key]
        PROVE  /\ k \in since[c] + 1 .. Len(versions')
               /\ value[c] = versions'[k][op[c].key]
    <3>1. since[c] \in Nat /\ Len(versions) \in Nat /\ Len(versions') \in Nat
      <4>1. CASE UNCHANGED <<log, versions>>
        BY <1>1, <4>1 DEF TypeOK
      <4>2. CASE \E e \in BagToSet(started) : Commit(e)
        BY <1>1, <4>2, CommitGrows DEF TypeOK
      <4> QED
        BY <1>1, <4>1, <4>2, LogKept DEF TypeOK
    <3>2. k \in 1..Len(versions)
      BY <3>1
    <3> QED
      BY <2>3, <2>4, <3>1, <3>2
  <2> QED
    BY <1>2, <1>6, <2>1, <2>2, <2>4
<1> QED
  BY <1>1, <1>3, <1>4, <1>5, <1>6, HandlersFrom

-----------------------------------------------------------------------------
\* The invariant.

\* It holds at first.
LEMMA ServiceInit == Init => ServiceInv
<1> SUFFICES ASSUME Init PROVE ServiceInv
  OBVIOUS
<1> USE DEF Init
<1>1. log = <<>> /\ Len(log) = 0 /\ versions = <<Empty>> /\ Len(versions) = 1 /\ versions[1] = Empty
  OBVIOUS
<1>2. BagToSet(started) = {} /\ IsABag(started)
  BY DEF EmptyBag, SetToBag, BagToSet, IsABag
<1>3. TypeOK
  <2>1. versions \in Seq(Store)
    BY EmptyType
  <2>2. storage \in [Servers -> Store] /\ <<>> \in Value
    BY EmptyType DEF Value
  <2>3. server \in [Clients -> Servers]
    BY ServersAssumption DEF Servers
  <2> QED
    BY <1>1, <1>2, <2>1, <2>2, <2>3, HeardTypes, LimitsAssumption DEF TypeOK, Open, Running
<1>4. PrefixesApplied /\ VersionsReplay
  BY <1>1 DEF PrefixesApplied, VersionsReplay
<1>5. TablesReplay /\ ReplicasAgree
  BY <1>1 DEF TablesReplay, ReplicasAgree
<1>6. CommandsKnown
  BY <1>1, <1>2 DEF CommandsKnown
<1>7. CallsCurrent /\ IdsFound /\ AnswersSeen
  BY DEF CallsCurrent, IdsFound, AnswersSeen, IsOpen
<1> QED
  BY <1>3, <1>4, <1>5, <1>6, <1>7 DEF ServiceInv

\* Every step keeps it.
LEMMA ServiceStep == ServiceInv /\ [Next]_vars => ServiceInv'
<1>1. ASSUME ServiceInv, Next
      PROVE  ServiceInv'
  <2>1. TypeOK'
    BY <1>1, TypeStep DEF ServiceInv
  <2>2. PrefixesApplied' /\ VersionsReplay'
    BY <1>1, PrefixesStep, VersionsStep DEF ServiceInv
  <2>3. TablesReplay' /\ ReplicasAgree'
    BY <1>1, ReplicasStep DEF ServiceInv
  <2>4. CommandsKnown' /\ CallsCurrent'
    BY <1>1, CommandsStep, CurrentStep
  <2>5. IdsFound' /\ AnswersSeen'
    BY <1>1, IdsStep, AnswersStep
  <2> QED
    BY <2>1, <2>2, <2>3, <2>4, <2>5 DEF ServiceInv
<1>2. ASSUME ServiceInv, UNCHANGED vars
      PROVE  ServiceInv'
  <2> USE <1>2 DEF vars, clerkVars, serverVars, raftVars, historyVars, counters, ServiceInv
  <2>1. TypeOK' /\ PrefixesApplied'
    BY DEF TypeOK, PrefixesApplied
  <2>2. VersionsReplay' /\ TablesReplay' /\ ReplicasAgree'
    BY DEF VersionsReplay, TablesReplay, ReplicasAgree
  <2>3. CommandsKnown' /\ CallsCurrent'
    BY DEF CommandsKnown, IsKnown, CallsCurrent, IsOpen, InLog
  <2>4. IdsFound' /\ AnswersSeen'
    BY DEF IdsFound, existId, AnswersSeen, InLog
  <2> QED
    BY <2>1, <2>2, <2>3, <2>4
<1> QED
  BY <1>1, <1>2

\* What servers, handlers and answers hold follows from the log (server.go:44-135).
THEOREM ServiceCorrect == Spec => []ServiceInv
BY ServiceInit, ServiceStep, PTL DEF Spec

\* Every variable of clerks, handlers and servers keeps its type: every call goes to
\* a server that exists, and nothing but the ids of calls enters an id table.
THEOREM ServiceTypes == Spec => []TypeOK
<1>1. ServiceInv => TypeOK
  BY DEF ServiceInv
<1> QED
  BY <1>1, ServiceCorrect, PTL

\* Servers hold what the commands they have received give, each id once
\* (server.go:119-131).
THEOREM ReplicasAlike == Spec => []ReplicasAgree
<1>1. ServiceInv => ReplicasAgree
  BY DEF ServiceInv
<1> QED
  BY <1>1, ServiceCorrect, PTL

-----------------------------------------------------------------------------
\* A write that is applied has left its key behind.

\* Only new calls bring new commands.
LEMMA CommandsGrow ==
    ASSUME ServiceInv, Next, NEW o \in Commands'
    PROVE  o \in Commands \/ \E c \in Clients : Invoke(c) /\ o = op'[c]
<1>1. TypeOK /\ PrefixesApplied
  BY DEF ServiceInv
<1>2. ASSUME NEW x \in BagToSet(started') \cup adrift', o = x.op
      PROVE  o \in Commands
  BY <1>1, <1>2, CommandsFrom DEF Commands
<1>3. ASSUME NEW k \in 1..Len(log'), o = log'[k]
      PROVE  o \in Commands
  <2>1. CASE UNCHANGED <<log, versions>>
    BY <1>3, <2>1 DEF Commands
  <2>2. ASSUME NEW e \in BagToSet(started), Commit(e)
        PROVE  o \in Commands
    <3>1. o = e.op \/ \E j \in 1..Len(log) : o = log[j]
      <4>1. Len(log') = Len(log) + 1
        BY <1>1, <2>2, CommitGrows
      <4>2. \A j \in 1..Len(log) : log'[j] = log[j]
        BY <1>1, <2>2, CommitGrows
      <4>3. log'[Len(log) + 1] = e.op
        BY <1>1, <2>2, CommitGrows
      <4>4. Len(log) \in Nat
        BY <1>1 DEF TypeOK
      <4>5. k \in 1..Len(log) \/ k = Len(log) + 1
        BY <4>1, <4>4
      <4> QED
        BY <1>3, <4>2, <4>3, <4>5
    <3> QED
      BY <3>1 DEF Commands
  <2> QED
    BY <2>1, <2>2, LogKept
<1>4. ASSUME NEW c \in Clients, IsOpen(c)', o = op'[c]
      PROVE  o \in Commands \/ \E d \in Clients : Invoke(d) /\ o = op'[d]
  <2>1. CASE \E d \in Clients : Invoke(d)
    <3>1. PICK d \in Clients : Invoke(d)
      BY <2>1
    <3>2. CASE c # d
      BY <1>1, <1>4, <3>1, <3>2 DEF Invoke, Commands, IsOpen, TypeOK
    <3> QED
      BY <1>4, <3>1, <3>2
  <2>2. CASE \E d \in Clients : Return(d)
    BY <1>1, <1>4, <2>2 DEF Return, Commands, IsOpen, TypeOK
  <2>3. CASE /\ UNCHANGED <<op, issued, since, answer>>
             /\ \A d \in Clients : IsOpen(d)' <=> IsOpen(d)
    BY <1>4, <2>3 DEF Commands
  <2> QED
    BY <1>1, <2>1, <2>2, <2>3, CallsKept
<1> QED
  BY <1>2, <1>3, <1>4 DEF Commands

\* The commands there are have an id that was issued.
LEMMA CommandsIssued ==
    ASSUME ServiceInv, NEW o \in Commands
    PROVE  o \in Op /\ o.id <= issued[o.client]
<1>1. CASE o \in {e.op : e \in BagToSet(started) \cup adrift} \cup {log[k] : k \in 1..Len(log)}
  BY <1>1 DEF ServiceInv, TypeOK, CommandsKnown, IsKnown
<1>2. CASE \E c \in Clients : IsOpen(c) /\ o = op[c]
  BY <1>2, OpenKnown DEF IsKnown
<1> QED
  BY <1>1, <1>2 DEF Commands

\* Ids stay unique.
LEMMA UniqueStep ==
    ASSUME ServiceInv, TagsUnique, Next
    PROVE  TagsUnique'
<1>1. ASSUME NEW c \in Clients, Invoke(c), NEW o \in Commands
      PROVE  Tag(o) # Tag(op'[c])
  <2>1. op'[c].client = c /\ op'[c].id = issued[c] + 1 /\ issued[c] \in Nat
    BY <1>1, LimitsAssumption DEF Invoke, ServiceInv, TypeOK
  <2>2. o \in Op /\ o.id <= issued[o.client] /\ o.id \in Nat
    BY CommandsIssued DEF Op
  <2> QED
    BY <2>1, <2>2 DEF Tag
<1>2. ASSUME NEW c \in Clients, NEW d \in Clients, Invoke(c), Invoke(d)
      PROVE  c = d
  BY <1>2 DEF Invoke, ServiceInv, TypeOK
<1> SUFFICES ASSUME NEW o1 \in Commands', NEW o2 \in Commands', Tag(o1) = Tag(o2)
             PROVE  o1 = o2
  BY DEF TagsUnique, Tag
<1> QED
  BY <1>1, <1>2, CommandsGrow DEF TagsUnique

\* A write leaves its key with a value, and nothing takes a value away.
LEMMA AppliedKeeps ==
    ASSUME NEW st \in Store, NEW o \in Op
    PROVE  /\ \A k \in Keys : st[k] # <<>> => Applied(st, o)[k] # <<>>
           /\ IsWrite(o) => Applied(st, o)[o.key] # <<>>
<1>1. o.key \in Keys /\ st[o.key] \in Value /\ Tag(o) \in Clients \X (1..MaxOps)
  BY TagType DEF Op, Store
<1>2. Append(st[o.key], Tag(o)) # <<>> /\ <<Tag(o)>> # <<>>
  BY <1>1 DEF Value
<1> QED
  BY <1>1, <1>2 DEF Applied, IsWrite, Store

\* So do the versions.
LEMMA KeysStep ==
    ASSUME ServiceInv, TagsUnique, KeysKept, Next
    PROVE  KeysKept'
<1>1. /\ TypeOK /\ PrefixesApplied /\ VersionsReplay
      /\ Len(log) \in Nat /\ Len(versions) = Len(log) + 1
  BY SMTT(20) DEF ServiceInv, TypeOK, PrefixesApplied
<1>2. CASE UNCHANGED <<log, versions>>
  BY <1>2 DEF KeysKept, IsWrite
<1>3. ASSUME NEW e \in BagToSet(started), Commit(e)
      PROVE  KeysKept'
  <2> DEFINE last == versions[Len(versions)]
             new == versions'[Len(versions) + 1]
  <2>1. last \in Store /\ e.op \in Op /\ log \in Seq(Op)
    BY <1>1 DEF TypeOK
  <2>2. /\ Len(log') = Len(log) + 1 /\ Len(versions') = Len(versions) + 1
        /\ \A k \in 1..Len(log) : log'[k] = log[k]
        /\ log'[Len(log) + 1] = e.op
        /\ \A k \in 1..Len(versions) : versions'[k] = versions[k]
        /\ new = IF InLog(e.op) THEN last ELSE Applied(last, e.op)
    BY <1>1, <1>3, CommitGrows
  <2>3. \A k \in Keys : last[k] # <<>> => new[k] # <<>>
    BY <2>1, <2>2, AppliedKeeps
  <2>4. \A k \in Keys : \A m \in 1..Len(versions) : versions[m][k] # <<>> => new[k] # <<>>
    BY <1>1, <2>3 DEF KeysKept
  <2>5. ASSUME NEW k \in Keys, NEW m \in 1..Len(versions'), NEW n \in 1..Len(versions'),
               m <= n, versions'[m][k] # <<>>
        PROVE  versions'[n][k] # <<>>
    <3>1. CASE n \in 1..Len(versions)
      <4>1. m \in 1..Len(versions)
        BY <1>1, <2>5, <3>1
      <4> QED
        BY <1>1, <2>2, <2>5, <3>1, <4>1 DEF KeysKept
    <3>2. CASE n = Len(versions) + 1
      BY <1>1, <2>2, <2>4, <2>5, <3>2
    <3> QED
      BY <1>1, <2>2, <3>1, <3>2
  <2>6. IsWrite(e.op) => new[e.op.key] # <<>>
    <3>1. CASE InLog(e.op)
      <4>1. PICK k \in 1..Len(log) : Tag(log[k]) = Tag(e.op)
        BY <3>1 DEF InLog
      <4>2. log[k] = e.op
        BY <4>1 DEF TagsUnique, Commands
      <4>3. e.op.key \in Keys /\ k + 1 \in 1..Len(versions)
        BY <1>1, <2>1 DEF Op
      <4> QED
        BY <2>4, <4>2, <4>3 DEF KeysKept
    <3>2. CASE ~InLog(e.op)
      BY <2>1, <2>2, <3>2, AppliedKeeps
    <3> QED
      BY <3>1, <3>2
  <2>7. ASSUME NEW m \in 1..Len(log'), IsWrite(log'[m])
        PROVE  versions'[m + 1][log'[m].key] # <<>>
    <3>1. CASE m \in 1..Len(log)
      BY <1>1, <2>2, <2>7, <3>1 DEF KeysKept
    <3>2. CASE m = Len(log) + 1
      BY <1>1, <2>2, <2>6, <2>7, <3>2
    <3> QED
      BY <1>1, <2>2, <3>1, <3>2
  <2> QED
    BY <2>5, <2>7 DEF KeysKept, IsWrite
<1> QED
  BY <1>2, <1>3, LogKept

\* The handler of a write finds the key that the write has left behind.
LEMMA KeyFound ==
    ASSUME ServiceInv, TagsUnique, KeysKept
    PROVE  WriteFindsKey
<1> SUFFICES ASSUME NEW c \in Clients, phase[c] = "key", IsWrite(op[c])
             PROVE  storage[server[c]][op[c].key] # <<>>
  BY DEF WriteFindsKey
<1> DEFINE n == applied[server[c]]
<1>1. /\ server[c] \in Servers /\ n \in 0..Len(log) /\ Len(log) \in Nat
      /\ Len(versions) = Len(log) + 1 /\ op[c] \in Op /\ op[c].key \in Keys
  BY DEF ServiceInv, TypeOK, PrefixesApplied, Open, Running, Op
<1>2. PICK j \in 1..n : Tag(log[j]) = Tag(op[c])
  BY <1>1 DEF ServiceInv, IdsFound, existId, TablesReplay
<1>3. log[j] = op[c]
  BY <1>1, <1>2 DEF TagsUnique, Commands, IsOpen
<1>4. versions[j + 1][op[c].key] # <<>>
  BY <1>1, <1>3 DEF KeysKept
<1>5. j + 1 \in 1..Len(versions) /\ n + 1 \in 1..Len(versions) /\ j + 1 <= n + 1
  BY <1>1
<1>6. storage[server[c]] = versions[n + 1]
  BY <1>1 DEF ServiceInv, ReplicasAgree
<1> QED
  BY <1>1, <1>4, <1>5, <1>6 DEF KeysKept

\* The branch of PutAppend that answers without an Err is never taken
\* (server.go:88).
THEOREM WritesFindKeys == Spec => []WriteFindsKey
<1> DEFINE I == ServiceInv /\ TagsUnique /\ KeysKept
<1>1. Init => I
  <2> SUFFICES ASSUME Init PROVE TagsUnique /\ KeysKept
    BY ServiceInit
  <2>1. Commands = {}
    BY DEF Init, Commands, EmptyBag, SetToBag, BagToSet, IsOpen
  <2>2. KeysKept
    BY DEF Init, KeysKept, Empty
  <2> QED
    BY <2>1, <2>2 DEF TagsUnique
<1>2. I /\ [Next]_vars => I'
  <2>1. CASE UNCHANGED vars
    BY <2>1, ServiceStep DEF vars, clerkVars, serverVars, raftVars, historyVars, counters,
       TagsUnique, Commands, IsOpen, KeysKept
  <2>2. CASE Next
    BY <2>2, ServiceStep, UniqueStep, KeysStep
  <2> QED
    BY <2>1, <2>2
<1>3. I => WriteFindsKey
  BY KeyFound
<1> QED
  BY <1>1, <1>2, <1>3, PTL DEF Spec

-----------------------------------------------------------------------------
\* The order of values.

\* Every value comes from a command of the log up to then, and those of one clerk
\* stand in the order in which it wrote them.
FromLog(v, n) == \A x \in DOMAIN v : \E j \in 1..n : v[x] = Tag(log[j])

InOrder(v) ==
    \A m, n \in DOMAIN v : m < n /\ v[m][1] = v[n][1] => v[m][2] < v[n][2]

ValuesInOrder ==
    \A m \in 1..Len(versions), k \in Keys :
        FromLog(versions[m][k], m - 1) /\ InOrder(versions[m][k])

\* A command that is new to the log is the last one of its clerk: an earlier one
\* that arrives late is of an operation that is in the log already.
LEMMA NewIsLast ==
    ASSUME ServiceInv, NEW e \in BagToSet(started), ~InLog(e.op), NEW j \in 1..Len(log),
           log[j].client = e.op.client
    PROVE  log[j].id < e.op.id
<1>1. e.op \in Op /\ log[j] \in Op /\ e.op.id \in Nat /\ log[j].id \in Nat
  <2>1. TypeOK
    BY DEF ServiceInv
  <2>2. log[j] \in Op /\ e.op \in Op
    BY <2>1 DEF TypeOK
  <2> QED
    BY <2>2 DEF Op
<1>2. IsKnown(e.op) /\ IsKnown(log[j])
  BY DEF ServiceInv, CommandsKnown
<1>3. e.op.id = issued[e.op.client] /\ log[j].id <= issued[e.op.client]
  BY <1>2 DEF IsKnown
<1>4. log[j].id # e.op.id
  BY DEF InLog, Tag
<1> QED
  BY <1>1, <1>3, <1>4

\* What one more command does to a value.
LEMMA AppliedOrder ==
    ASSUME NEW st \in Store, NEW o \in Op, NEW k \in Keys
    PROVE  Applied(st, o)[k] \in {st[k], <<Tag(o)>>, Append(st[k], Tag(o))}
BY DEF Applied, Store, Op

\* A sequence with one more element.
LEMMA OneMore ==
    ASSUME NEW S, NEW v \in Seq(S), NEW e \in S
    PROVE  /\ DOMAIN Append(v, e) = 1 .. Len(v) + 1 /\ DOMAIN v = 1..Len(v) /\ Len(v) \in Nat
           /\ \A x \in 1..Len(v) : Append(v, e)[x] = v[x]
           /\ Append(v, e)[Len(v) + 1] = e
OBVIOUS

LEMMA OrderStep ==
    ASSUME ServiceInv, ValuesInOrder, Next
    PROVE  ValuesInOrder'
<1>0. TypeOK /\ PrefixesApplied
  BY DEF ServiceInv
<1>1. Len(log) \in Nat /\ Len(versions) = Len(log) + 1
  BY <1>0 DEF TypeOK, PrefixesApplied
<1>2. CASE UNCHANGED <<log, versions>>
  BY <1>2 DEF ValuesInOrder, FromLog, InOrder, Tag
<1>3. ASSUME NEW e \in BagToSet(started), Commit(e)
      PROVE  ValuesInOrder'
  <2>1. /\ e.op \in Op /\ Len(versions') = Len(versions) + 1
        /\ \A n \in 1..Len(log) : log'[n] = log[n]
        /\ log'[Len(log) + 1] = e.op
        /\ \A n \in 1..Len(versions) : versions'[n] = versions[n]
        /\ versions'[Len(versions) + 1] =
              IF InLog(e.op) THEN versions[Len(versions)]
              ELSE Applied(versions[Len(versions)], e.op)
    BY <1>0, <1>3, CommitGrows
  <2> SUFFICES ASSUME NEW m \in 1..Len(versions'), NEW k \in Keys
               PROVE  /\ \A x \in DOMAIN versions'[m][k] :
                            \E j \in 1 .. m-1 : versions'[m][k][x] = Tag(log'[j])
                      /\ InOrder(versions'[m][k])
    BY DEF ValuesInOrder, FromLog, InOrder, Tag
  <2>2. CASE m \in 1..Len(versions)
    <3>1. versions'[m] = versions[m] /\ \A j \in 1 .. m-1 : log'[j] = log[j]
      BY <1>1, <2>1, <2>2
    <3> QED
      BY <2>2, <3>1 DEF ValuesInOrder, FromLog
  <2>3. CASE m = Len(versions) + 1
    <3> DEFINE n == Len(versions)
               v == versions[n][k]
    <3>1. v \in Value /\ versions[n] \in Store
      BY <1>0, <1>1 DEF TypeOK, Store
    <3>2. InOrder(v) /\ \A x \in DOMAIN v : \E j \in 1 .. n-1 : v[x] = Tag(log[j])
      BY <1>1 DEF ValuesInOrder, FromLog
    <3>3. \A x \in DOMAIN v : \E j \in 1 .. m-1 : v[x] = Tag(log'[j])
      <4>1. \A j \in 1 .. n-1 : j \in 1 .. m-1 /\ log'[j] = log[j]
        BY <1>1, <2>1, <2>3
      <4> QED
        BY <3>2, <4>1
    <3>4. Len(log) + 1 \in 1 .. m-1 /\ Tag(e.op) = Tag(log'[Len(log) + 1])
      BY <1>1, <2>1, <2>3
    <3>5. CASE InLog(e.op)
      BY <2>1, <2>3, <3>2, <3>3, <3>5
    <3>6. CASE ~InLog(e.op)
      <4>1. versions'[m][k] \in {v, <<Tag(e.op)>>, Append(v, Tag(e.op))}
        BY <2>1, <2>3, <3>1, <3>6, AppliedOrder
      <4>2. CASE versions'[m][k] = v
        BY <3>2, <3>3, <4>2
      <4>3. CASE versions'[m][k] = <<Tag(e.op)>>
        <5>1. DOMAIN <<Tag(e.op)>> = {1} /\ <<Tag(e.op)>>[1] = Tag(e.op)
          OBVIOUS
        <5> QED
          BY <3>4, <4>3, <5>1 DEF InOrder
      <4>4. CASE versions'[m][k] = Append(v, Tag(e.op))
        <5> DEFINE w == Append(v, Tag(e.op))
        <5>1. /\ DOMAIN w = 1 .. Len(v) + 1 /\ DOMAIN v = 1..Len(v) /\ Len(v) \in Nat
              /\ \A x \in 1..Len(v) : w[x] = v[x]
              /\ w[Len(v) + 1] = Tag(e.op)
          <6>1. v \in Seq(Clients \X (1..MaxOps)) /\ Tag(e.op) \in Clients \X (1..MaxOps)
            BY <2>1, <3>1, TagType DEF Value
          <6> QED
            BY <6>1, OneMore
        <5>2. ASSUME NEW x \in 1..Len(v), v[x][1] = e.op.client
              PROVE  v[x][2] < e.op.id
          <6>1. PICK j \in 1..Len(log) : v[x] = Tag(log[j])
            <7>1. n - 1 = Len(log) /\ x \in DOMAIN v
              BY <1>1, <5>1
            <7>2. \E j \in 1 .. n-1 : v[x] = Tag(log[j])
              BY <3>2, <7>1
            <7> QED
              BY <7>1, <7>2
          <6> QED
            BY <1>3, <3>6, <5>2, <6>1, NewIsLast DEF Tag
        <5>3. \A x \in 1..Len(v), y \in 1..Len(v) : x < y /\ v[x][1] = v[y][1] => v[x][2] < v[y][2]
          BY <3>2, <5>1 DEF InOrder
        <5>4. Tag(e.op)[1] = e.op.client /\ Tag(e.op)[2] = e.op.id
          BY DEF Tag
        <5> HIDE DEF v, w
        <5>5. InOrder(w)
          <6> SUFFICES ASSUME NEW x \in DOMAIN w, NEW y \in DOMAIN w, x < y, w[x][1] = w[y][1]
                       PROVE  w[x][2] < w[y][2]
            BY DEF InOrder
          <6>1. CASE y \in 1..Len(v)
            <7>1. x \in 1..Len(v) /\ w[x] = v[x] /\ w[y] = v[y]
              BY <5>1, <6>1
            <7> QED
              BY <5>3, <6>1, <7>1
          <6>2. CASE y = Len(v) + 1
            <7>1. x \in 1..Len(v) /\ w[x] = v[x] /\ w[y] = Tag(e.op)
              BY <5>1, <6>2
            <7>2. v[x][1] = e.op.client
              BY <5>4, <7>1
            <7> QED
              BY <5>2, <5>4, <7>1, <7>2
          <6> QED
            BY <5>1, <6>1, <6>2
        <5>6. \A x \in DOMAIN w : \E j \in 1 .. m-1 : w[x] = Tag(log'[j])
          <6> SUFFICES ASSUME NEW x \in DOMAIN w
                       PROVE  \E j \in 1 .. m-1 : w[x] = Tag(log'[j])
            OBVIOUS
          <6>1. CASE x \in 1..Len(v)
            BY <3>3, <5>1, <6>1
          <6>2. CASE x = Len(v) + 1
            BY <3>4, <5>1, <6>2
          <6> QED
            BY <5>1, <6>1, <6>2
        <5>7. versions'[m][k] = w
          BY <4>4 DEF w, v
        <5> QED
          BY <5>5, <5>6, <5>7
      <4> QED
        BY <4>1, <4>2, <4>3, <4>4
    <3> QED
      BY <3>5, <3>6
  <2> QED
    BY <1>1, <2>1, <2>2, <2>3
<1> QED
  BY <1>0, <1>2, <1>3, LogKept

\* No retry, late append or restart shows a value twice, or the values of a clerk out
\* of turn (server.go:118-141, client.go:52-71).
THEOREM AppendsKeepOrder == Spec => []AppendsInOrder
<1>1. Init => ValuesInOrder
  BY DEF Init, ValuesInOrder, FromLog, InOrder, Empty
<1>2. ServiceInv /\ ValuesInOrder /\ [Next]_vars => ValuesInOrder'
  <2>1. CASE UNCHANGED vars
    BY <2>1 DEF vars, raftVars, historyVars, ValuesInOrder, FromLog, InOrder, Tag
  <2> QED
    BY <2>1, OrderStep
<1>3. ServiceInv /\ ValuesInOrder => AppendsInOrder
  <2> SUFFICES ASSUME ServiceInv, ValuesInOrder, NEW s \in Servers, NEW k \in Keys
               PROVE  InOrder(storage[s][k])
    BY DEF AppendsInOrder, InOrder
  <2>1. storage[s] = versions[applied[s] + 1] /\ applied[s] + 1 \in 1..Len(versions)
    BY DEF ServiceInv, ReplicasAgree, PrefixesApplied, TypeOK
  <2> QED
    BY <2>1 DEF ValuesInOrder
<1> QED
  BY <1>1, <1>2, <1>3, ServiceCorrect, PTL DEF Spec
=============================================================================
