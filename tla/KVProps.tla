----------------------------- MODULE KVProps -----------------------------
(***************************************************************************)
(* Properties of the key/value service, and the atomic store it implements *)
(***************************************************************************)
EXTENDS KVService

-----------------------------------------------------------------------------
\* Type invariant.

Value == Seq(Clients \X (1..MaxOps))

Store == [Keys -> Value]

TypeOK ==
    /\ phase \in [Clients -> Open \cup {"idle"}]
    /\ op \in [Clients -> Op \cup {NoOp}]
    /\ \A c \in Clients : phase[c] \in Open => op[c] \in Op
    /\ issued \in [Clients -> 0..MaxOps]
    /\ server \in [Clients -> Servers]
    /\ value \in [Clients -> Value] /\ answer \in [Clients -> Value]
    /\ hearedBack \in [Clients -> 0..N]
    /\ adrift \subseteq [op : Op, server : Servers, checked : BOOLEAN]
    /\ storage \in [Servers -> Store]
    /\ idTable \in [Servers -> SUBSET (Clients \X (1..MaxOps))]
    /\ applied \in [Servers -> Nat] /\ LastApply \in [Servers -> Nat]
    /\ leaders \subseteq Servers
    /\ IsABag(started) /\ BagToSet(started) \subseteq [op : Op, server : Servers]
    /\ log \in Seq(Op) /\ versions \in Seq(Store)
    /\ since \in [Clients -> Nat]
    /\ faults \in 0..MaxFaults /\ changes \in 0..MaxChanges /\ crashes \in 0..MaxCrash

-----------------------------------------------------------------------------
\* Safety.

\* Every server, restarted ones included, holds exactly what the commands it has
\* received give when each id counts once: the test of the id table in
\* listenApplyCh (server.go:124) makes retries harmless on all servers alike.
ReplicasAgree ==
    \A s \in Servers : storage[s] = versions[applied[s] + 1]

\* A key shows each value at most once, and the values of one clerk in the order in
\* which it wrote them, whatever was retried, given up or appended late
\* (checkClntAppends, test/kvraft/test_test.go:84).
AppendsInOrder ==
    \A s \in Servers, k \in Keys :
        LET v == storage[s][k]
        IN  \A m, n \in DOMAIN v : m < n /\ v[m][1] = v[n][1] => v[m][2] < v[n][2]

\* A write that finds its id applied finds its key as well: the branch of PutAppend
\* that prints "err" and answers with an empty Err is never taken (server.go:88).
WriteFindsKey ==
    \A c \in Clients :
        phase[c] = "key" /\ IsWrite(op[c]) => storage[server[c]][op[c].key] # <<>>

-----------------------------------------------------------------------------
\* The atomic store: its store is what the committed commands give, and an operation
\* has seen every store since it was called.

IsOpen(c) == phase[c] # "idle"

InLog(o) == \E k \in 1..Len(log) : Tag(log[k]) = Tag(o)

Operations ==
    [task : Tasks, key : Keys, value : Clients \X (1..MaxOps)]

Pending ==
    [c \in Clients |-> IF IsOpen(c)
                       THEN [task |-> op[c].task, key |-> op[c].key, value |-> Tag(op[c])]
                       ELSE NoOp]

Effective == [c \in Clients |-> IsOpen(c) /\ IsWrite(op[c]) /\ InLog(op[c])]

Seen ==
    [c \in Clients |-> IF IsOpen(c)
                       THEN {versions[k] : k \in since[c] + 1 .. Len(versions)}
                       ELSE {}]

Atomic == INSTANCE AtomicStore WITH
    Nothing <- NoOp, store <- versions[Len(versions)],
    pending <- Pending, effective <- Effective, seen <- Seen

\* The service is linearizable: retries, duplicates in the log, handlers left behind,
\* restarts and reads of a storage that has moved on (server.go:54) cannot be told
\* from operations that take effect at once between their call and their return.
Linearizable == Atomic!Spec

-----------------------------------------------------------------------------
\* The inductive invariant of the proofs.

\* Every server is sent, and has applied, a prefix of the log.
PrefixesApplied ==
    /\ Len(versions) = Len(log) + 1
    /\ \A s \in Servers : applied[s] <= LastApply[s] /\ LastApply[s] <= Len(log)

\* The versions follow from the log: the first command with an id changes the store.
VersionsReplay ==
    /\ versions[1] = Empty
    /\ \A k \in 1..Len(log) :
          versions[k + 1] = IF \E j \in 1 .. k-1 : Tag(log[j]) = Tag(log[k])
                            THEN versions[k] ELSE Applied(versions[k], log[k])

\* An id table holds the ids of the commands its server has applied.
TablesReplay ==
    \A s \in Servers : idTable[s] = {Tag(log[k]) : k \in 1..applied[s]}

\* A command on its way or in the log is of an operation that was called; with the
\* id of the last one it is that one, and an operation that has returned is in the
\* log.
IsKnown(o) ==
    /\ o.id <= issued[o.client]
    /\ o.id = issued[o.client] => o = op[o.client]
    /\ (o.id = issued[o.client] /\ IsOpen(o.client)) \/ InLog(o)

CommandsKnown ==
    /\ \A e \in BagToSet(started) \cup adrift : IsKnown(e.op)
    /\ \A k \in 1..Len(log) : IsKnown(log[k])

\* An open call is of the operation issued last, none of whose commands is older
\* than the call.
CallsCurrent ==
    \A c \in Clients : IsOpen(c) =>
        /\ op[c] \in Op /\ op[c].client = c /\ op[c].id = issued[c]
        /\ since[c] <= Len(log)
        /\ \A k \in 1..Len(log) : Tag(log[k]) = Tag(op[c]) => k > since[c]

\* A handler goes on to the storage when its server has applied its command, and
\* reads it for a Get only ...
IdsFound ==
    \A c \in Clients : phase[c] \in {"key", "read"} =>
        /\ existId(idTable[server[c]], op[c])
        /\ phase[c] = "read" => ~IsWrite(op[c])

\* ... and what it answers is in a store that the operation has seen.
AnswersSeen ==
    \A c \in Clients : phase[c] = "done" =>
        /\ InLog(op[c])
        /\ IF IsWrite(op[c]) THEN value[c] = <<>>
           ELSE \E k \in since[c] + 1 .. Len(versions) : value[c] = versions[k][op[c].key]

\* Two commands with the same id are the same command: retries repeat it, and no
\* other operation has its id.
Commands ==
    {e.op : e \in BagToSet(started) \cup adrift} \cup {log[k] : k \in 1..Len(log)}
    \cup {op[c] : c \in {d \in Clients : IsOpen(d)}}

TagsUnique == \A o1, o2 \in Commands : Tag(o1) = Tag(o2) => o1 = o2

\* Once a key has a value it has one in every later version, and a write that is in
\* the log has given it one.
KeysKept ==
    /\ \A k \in Keys : \A m, n \in 1..Len(versions) :
          m <= n /\ versions[m][k] # <<>> => versions[n][k] # <<>>
    /\ \A m \in 1..Len(log) :
          IsWrite(log[m]) => versions[m + 1][log[m].key] # <<>>

\* Why the service is linearizable: what the servers, the handlers and the answers
\* hold follows from the log alone (server.go:54-61, 84-93, 118-141).
ServiceInv ==
    /\ TypeOK /\ PrefixesApplied /\ VersionsReplay /\ TablesReplay /\ ReplicasAgree
    /\ CommandsKnown /\ CallsCurrent /\ IdsFound /\ AnswersSeen

-----------------------------------------------------------------------------
\* Liveness.

\* What the service needs from Raft to make progress, and Raft does not promise: one
\* peer leads from some time on, ...
OneLeads == \E s \in Servers : <>[](leaders = {s})

\* ... rf.mu is free again for whoever waits for it, ...
LocksReturn ==
    /\ \A c \in Clients : /\ WF_vars(CheckLeader(c)) /\ WF_vars(StartAppend(c))
                          /\ WF_vars(StartWaits(c) \/ StartReturns(c))
    /\ \A s \in Servers : WF_vars(SendApply(s))

\* ... the append calls of a Start come to an end, ...
AppendsEnd == \A c \in Clients : WF_vars(AppendEnds(c))

\* ... and what a leader has appended is committed.
LeadersCommit ==
    \A s \in Servers :
        WF_vars(\E e \in BagToSet(started) :
                   e.server = s /\ s \in leaders /\ Commit(e))

\* Under these hypotheses every operation returns: Start's wait misses no signal
\* (raft.go:313-326), the clerk finds the leader, and a command that an earlier call
\* of the operation brought into the log is found in the id table (client.go:52-71).
OperationsReturn ==
    OneLeads /\ LocksReturn /\ AppendsEnd /\ LeadersCommit
        => \A c \in Clients : IsOpen(c) ~> ~IsOpen(c)

\* A peer whose lock is held by a send on the apply channel gets it back: the listener
\* never needs that lock (raft.go:455, server.go:113).
ApplyChannelDrains ==
    \A s \in Servers : RfHeld(s) ~> ~RfHeld(s)
=============================================================================
