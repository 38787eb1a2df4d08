---------------------------- MODULE KVService ----------------------------
(***************************************************************************)
(* The key/value servers and their clerks (kvraft/server.go, client.go),   *)
(* on top of what they rely on from Raft: one sequence of committed        *)
(* commands, of which every server is sent a prefix in order.  A command   *)
(* that Start has appended may be committed at any later time or never,    *)
(* and what Start returns says little about it.                            *)
(*                                                                         *)
(* A clerk calls one server after the other until one answers OK.  The     *)
(* call and the handler that serves it are one thread of control: phase[c] *)
(* is where it is.  A call that the network gives up leaves its handler    *)
(* behind; all that such a handler can still do is append its command.     *)
(*                                                                         *)
(* A step is one region that holds rf.mu or kv.mu, or one step of the      *)
(* network.  Strings are sequences of the values that were written; every  *)
(* Put and Append writes a value of its own, its client and id.            *)
(***************************************************************************)
EXTENDS Integers, Sequences, FiniteSets, Bags

CONSTANTS
    N,            \* number of servers
    Clients,      \* the clerks
    Keys,
    Tasks,        \* the operations they call, among "Get", "Put" and "Append"
    MaxOps,       \* bound: operations of each clerk
    MaxFaults,    \* bound: calls lost, given up by the network or by the handler
    MaxChanges,   \* bound: changes of the set of leaders
    MaxCrash      \* bound: restarts of servers

ASSUME ServersAssumption == N \in Nat \ {0}
ASSUME TasksAssumption == Tasks \subseteq {"Get", "Put", "Append"}
ASSUME LimitsAssumption ==
    MaxOps \in Nat /\ MaxFaults \in Nat /\ MaxChanges \in Nat /\ MaxCrash \in Nat

VARIABLES
    \* clerks and the handlers that serve them
    phase,        \* phase[c]: where clerk c and its handler are
    op,           \* op[c]: the operation of the call, or of the last one
    issued,       \* issued[c]: the id of that operation, a reading of the clock
    server,       \* server[c]: the server that is called
    value,        \* value[c]: reply.Value
    answer,       \* answer[c]: what the last finished call returned to the user
    hearedBack,   \* hearedBack[c]: the peer, and the append calls of Start that have ended
    adrift,       \* handlers that nobody waits for and that have not appended yet
    \* servers
    storage,      \* storage[s][k]: the value of key k, empty if there is none
    idTable,      \* idTable[s]: the <<client, id>> that server s has applied
    applied,      \* applied[s]: how many commands it has received
    LastApply,    \* LastApply[s]: how many its peer has sent or is sending
    \* Raft
    leaders,      \* peers that take themselves for leaders
    started,      \* commands appended to a log and not committed, as a bag
    log,          \* the committed commands
    \* history: the store after every command, and the length of the log when
    \* the operation of c was called
    versions, since,
    \* counters for the bounds
    faults, changes, crashes

clerkVars == <<phase, op, issued, server, value, answer, hearedBack, adrift>>
serverVars == <<storage, idTable, applied, LastApply>>
raftVars == <<leaders, started, log>>
historyVars == <<versions, since>>
counters == <<faults, changes, crashes>>
vars == <<clerkVars, serverVars, raftVars, historyVars, counters>>

Servers == 0 .. N-1

\* No operation has been called yet.
NoOp == [task |-> "none"]

Op == [task : Tasks, key : Keys, client : Clients, id : 1..MaxOps]

\* The phases in which a handler runs for the clerk, and those in which a call
\* is open.
Running == {"start", "wait", "blocked", "poll", "sleep", "key", "read", "done"}
Open == Running \cup {"sent"}

IsWrite(o) == o.task \in {"Put", "Append"}

Tag(o) == <<o.client, o.id>>

\* Variant: an Append to a key without a value is dropped.
AppliedToKnown(st, o) ==
    IF o.task = "Append" /\ st[o.key] # <<>> THEN [st EXCEPT ![o.key] = Append(@, Tag(o))]
    ELSE IF o.task = "Put" THEN [st EXCEPT ![o.key] = <<Tag(o)>>] ELSE st

\* Variant: an Append replaces the value.
AppliedBlindly(st, o) ==
    IF IsWrite(o) THEN [st EXCEPT ![o.key] = <<Tag(o)>>] ELSE st

\* What listenApplyCh does to the storage with a command that is new to it.
Applied(st, o) ==
    CASE o.task = "Append" /\ st[o.key] # <<>> ->
            [st EXCEPT ![o.key] = Append(@, Tag(o))]
      [] o.task = "Put" \/ (o.task = "Append" /\ st[o.key] = <<>>) ->
            [st EXCEPT ![o.key] = <<Tag(o)>>]
      [] OTHER -> st

Empty == [k \in Keys |-> <<>>]

\* Variant: only the last id of a clerk is kept.
RememberedLast(table, o) == {t \in table : t[1] # o.client} \cup {Tag(o)}

\* idTable after the command o, a map of maps whose keys are all that is used of it.
Remembered(table, o) == table \cup {Tag(o)}

\* Variant: no id is ever found.
existIdNever(table, o) == FALSE

\* Whether an id is in the table.
existId(table, o) == Tag(o) \in table

\* Variant: the counter is not wrapped.
NextServerOn(i) == i + 1

\* The servers are called in turn, from the first again after the last.
NextServer(i) == (i + 1) % N

\* startApply holds rf.mu while it sends, and the channel takes one command: the
\* lock is held as long as a second one waits.
RfHeld(s) == LastApply[s] - applied[s] > 1

Init ==
    /\ phase = [c \in Clients |-> "idle"]
    /\ op = [c \in Clients |-> NoOp]
    /\ issued = [c \in Clients |-> 0]
    /\ server = [c \in Clients |-> 0]
    /\ value = [c \in Clients |-> <<>>]
    /\ answer = [c \in Clients |-> <<>>]
    /\ hearedBack = [c \in Clients |-> 0]
    /\ adrift = {}
    /\ storage = [s \in Servers |-> Empty]
    /\ idTable = [s \in Servers |-> {}]
    /\ applied = [s \in Servers |-> 0]
    /\ LastApply = [s \in Servers |-> 0]
    /\ leaders = {}
    /\ started = EmptyBag
    /\ log = <<>>
    /\ versions = <<Empty>>
    /\ since = [c \in Clients |-> 0]
    /\ faults = 0 /\ changes = 0 /\ crashes = 0

-----------------------------------------------------------------------------
\* The clerk.

\* Get, Put and Append: with ck.mu held, an operation with an id of its own is
\* sent to the first server.
Invoke(c) ==
    /\ phase[c] = "idle" /\ issued[c] < MaxOps
    /\ issued' = [issued EXCEPT ![c] = @ + 1]
    /\ \E t \in Tasks, k \in Keys :
          op' = [op EXCEPT ![c] = [task |-> t, key |-> k, client |-> c, id |-> issued'[c]]]
    /\ phase' = [phase EXCEPT ![c] = "sent"]
    /\ server' = [server EXCEPT ![c] = 0]
    /\ since' = [since EXCEPT ![c] = Len(log)]
    /\ UNCHANGED <<value, answer, hearedBack, adrift, serverVars, raftVars, versions, counters>>

\* The call failed or its answer was not OK: the next server is called.
TryNext(c) ==
    /\ phase' = [phase EXCEPT ![c] = "sent"]
    /\ server' = [server EXCEPT ![c] = NextServer(@)]
    /\ hearedBack' = [hearedBack EXCEPT ![c] = 0]
    /\ UNCHANGED <<op, issued, value, answer>>

\* The answer is OK: the clerk returns.
Return(c) ==
    /\ phase[c] = "done"
    /\ answer' = [answer EXCEPT ![c] = value[c]]
    /\ phase' = [phase EXCEPT ![c] = "idle"]
    /\ UNCHANGED <<op, issued, server, value, hearedBack, adrift, serverVars, raftVars, historyVars,
                   counters>>

\* The network drops a request, or the server is down.
Drop(c) ==
    /\ phase[c] = "sent" /\ faults < MaxFaults
    /\ TryNext(c)
    /\ faults' = faults + 1
    /\ UNCHANGED <<adrift, serverVars, raftVars, historyVars, changes, crashes>>

\* The network drops an answer, or the link is cut while the handler runs: the
\* handler goes on without the clerk.
Abandon(c) ==
    /\ phase[c] \in Open /\ faults < MaxFaults
    /\ adrift' = IF phase[c] \in {"sent", "start"}
                 THEN adrift \cup {[op |-> op[c], server |-> server[c],
                                    checked |-> phase[c] = "start"]}
                 ELSE adrift
    /\ TryNext(c)
    /\ faults' = faults + 1
    /\ UNCHANGED <<serverVars, raftVars, historyVars, changes, crashes>>

-----------------------------------------------------------------------------
\* The handlers Get and PutAppend.

\* isLeader, and the same test again at the beginning of Start.
CheckLeader(c) ==
    /\ phase[c] = "sent" /\ ~RfHeld(server[c])
    /\ IF server[c] \in leaders
       THEN /\ phase' = [phase EXCEPT ![c] = "start"]
            /\ UNCHANGED <<op, issued, server, value, answer, hearedBack>>
       ELSE TryNext(c)
    /\ UNCHANGED <<adrift, serverVars, raftVars, historyVars, counters>>

\* Start appends the command, whether the peer is still leader or not, and makes one
\* append call to each of the others.
StartAppend(c) ==
    /\ phase[c] = "start" /\ ~RfHeld(server[c])
    /\ started' = started (+) SetToBag({[op |-> op[c], server |-> server[c]]})
    /\ phase' = [phase EXCEPT ![c] = "wait"]
    /\ hearedBack' = [hearedBack EXCEPT ![c] = 1]
    /\ UNCHANGED <<op, issued, server, value, answer, adrift, serverVars, leaders, log,
                   historyVars, counters>>

\* The head of Start's wait: as long as the peer leads, has not heard back from all
\* and has not committed the command, it waits for a signal ...
StartWaits(c) ==
    /\ phase[c] = "wait" /\ ~RfHeld(server[c])
    /\ hearedBack[c] # N /\ server[c] \in leaders
    /\ phase' = [phase EXCEPT ![c] = "blocked"]
    /\ UNCHANGED <<op, issued, server, value, answer, hearedBack, adrift, serverVars, raftVars,
                   historyVars, counters>>

\* Variant: no signal is given.
AppendEndsSilently(c) ==
    /\ phase[c] \in {"wait", "blocked"} /\ ~RfHeld(server[c])
    /\ hearedBack[c] # N
    /\ hearedBack' = [hearedBack EXCEPT ![c] = @ + 1]
    /\ UNCHANGED <<phase, op, issued, server, value, answer, adrift, serverVars, raftVars,
                   historyVars, counters>>

\* ... and every append call that ends, whatever came of it, gives one.
AppendEnds(c) ==
    /\ phase[c] \in {"wait", "blocked"} /\ ~RfHeld(server[c])
    /\ hearedBack[c] # N
    /\ hearedBack' = [hearedBack EXCEPT ![c] = @ + 1]
    /\ phase' = [phase EXCEPT ![c] = "wait"]
    /\ UNCHANGED <<op, issued, server, value, answer, adrift, serverVars, raftVars,
                   historyVars, counters>>

\* Start stops waiting and reports the command as committed if the peer leads.  The
\* service does not see CommitIndex: this may happen at any test of the condition.
StartReturns(c) ==
    /\ phase[c] = "wait" /\ ~RfHeld(server[c])
    /\ IF server[c] \in leaders
       THEN /\ phase' = [phase EXCEPT ![c] = "poll"]
            /\ hearedBack' = [hearedBack EXCEPT ![c] = 0]
            /\ UNCHANGED <<op, issued, server, value, answer>>
       ELSE TryNext(c)
    /\ UNCHANGED <<adrift, serverVars, raftVars, historyVars, counters>>

\* Variant: the handler trusts the success of Start.
PollTrusting(c) ==
    /\ phase[c] = "poll"
    /\ phase' = [phase EXCEPT ![c] = "key"]
    /\ UNCHANGED <<op, issued, server, value, answer, hearedBack, adrift, serverVars, raftVars,
                   historyVars, counters>>

\* existIdWithLock.
Poll(c) ==
    /\ phase[c] = "poll"
    /\ phase' = [phase EXCEPT ![c] = IF existId(idTable[server[c]], op[c]) THEN "key"
                                     ELSE "sleep"]
    /\ UNCHANGED <<op, issued, server, value, answer, hearedBack, adrift, serverVars, raftVars,
                   historyVars, counters>>

\* After 20 ms the handler polls again ...
PollAgain(c) ==
    /\ phase[c] = "sleep"
    /\ phase' = [phase EXCEPT ![c] = "poll"]
    /\ UNCHANGED <<op, issued, server, value, answer, hearedBack, adrift, serverVars, raftVars,
                   historyVars, counters>>

\* ... or, after ten times, answers ErrWrongLeader.  Where the peer leads, this is
\* a fault: the command was not committed or not applied in time.
GiveUp(c) ==
    /\ phase[c] = "sleep"
    /\ IF server[c] \in leaders
       THEN faults < MaxFaults /\ faults' = faults + 1
       ELSE UNCHANGED faults
    /\ TryNext(c)
    /\ UNCHANGED <<adrift, serverVars, raftVars, historyVars, changes, crashes>>

\* existKeyWithLock: a Get reads the key if it is there and answers with the empty
\* string if not; a write whose key is not there answers with no Err at all, which
\* is not OK.
FindKey(c) ==
    /\ phase[c] = "key"
    /\ LET found == storage[server[c]][op[c].key] # <<>>
       IN  \/ /\ found \/ ~IsWrite(op[c])
              /\ phase' = [phase EXCEPT ![c] = IF found /\ ~IsWrite(op[c]) THEN "read"
                                               ELSE "done"]
              /\ value' = [value EXCEPT ![c] = <<>>]
              /\ UNCHANGED <<op, issued, server, answer, hearedBack>>
           \/ ~found /\ IsWrite(op[c]) /\ TryNext(c)
    /\ UNCHANGED <<adrift, serverVars, raftVars, historyVars, counters>>

Read(c) ==
    /\ phase[c] = "read"
    /\ value' = [value EXCEPT ![c] = storage[server[c]][op[c].key]]
    /\ phase' = [phase EXCEPT ![c] = "done"]
    /\ UNCHANGED <<op, issued, server, answer, hearedBack, adrift, serverVars, raftVars, historyVars,
                   counters>>

\* A handler that nobody waits for: it tests the role, then appends.
CheckAdrift(a) ==
    /\ ~a.checked /\ ~RfHeld(a.server)
    /\ adrift' = (adrift \ {a}) \cup
                 (IF a.server \in leaders THEN {[a EXCEPT !.checked = TRUE]} ELSE {})
    /\ UNCHANGED <<phase, op, issued, server, value, answer, hearedBack, serverVars, raftVars,
                   historyVars, counters>>

StartAdrift(a) ==
    /\ a.checked /\ ~RfHeld(a.server)
    /\ started' = started (+) SetToBag({[op |-> a.op, server |-> a.server]})
    /\ adrift' = adrift \ {a}
    /\ UNCHANGED <<phase, op, issued, server, value, answer, hearedBack, serverVars, leaders, log,
                   historyVars, counters>>

-----------------------------------------------------------------------------
\* The servers.

\* startApply hands the next command to the apply channel.
SendApply(s) ==
    /\ LastApply[s] < Len(log) /\ ~RfHeld(s)
    /\ LastApply' = [LastApply EXCEPT ![s] = @ + 1]
    /\ UNCHANGED <<clerkVars, storage, idTable, applied, raftVars, historyVars, counters>>

\* Variant: the listener needs rf.mu to receive.
CanReceiveUnheld(s) == applied[s] < LastApply[s] /\ ~RfHeld(s)

\* There is a command for listenApplyCh to receive.
CanReceive(s) == applied[s] < LastApply[s]

\* One round of listenApplyCh.
ListenApplyCh(s) ==
    /\ CanReceive(s)
    /\ LET o == log[applied[s] + 1]
       IN  /\ storage' = IF existId(idTable[s], o) THEN storage
                         ELSE [storage EXCEPT ![s] = Applied(@, o)]
           /\ idTable' = [idTable EXCEPT ![s] = Remembered(@, o)]
    /\ applied' = [applied EXCEPT ![s] = @ + 1]
    /\ UNCHANGED <<clerkVars, LastApply, raftVars, historyVars, counters>>

\* The server is shut down and started again: the storage and the id table are
\* built anew from the log, and the handlers that run are cut off.
CrashRestart(s) ==
    /\ crashes < MaxCrash
    /\ storage' = [storage EXCEPT ![s] = Empty]
    /\ idTable' = [idTable EXCEPT ![s] = {}]
    /\ applied' = [applied EXCEPT ![s] = 0]
    /\ LastApply' = [LastApply EXCEPT ![s] = 0]
    /\ leaders' = leaders \ {s}
    /\ adrift' = {a \in adrift : a.server # s}
    /\ LET cut == {c \in Clients : server[c] = s /\ phase[c] \in Running}
       IN  /\ phase' = [c \in Clients |-> IF c \in cut THEN "sent" ELSE phase[c]]
           /\ server' = [c \in Clients |-> IF c \in cut THEN NextServer(s) ELSE server[c]]
           /\ hearedBack' = [c \in Clients |-> IF c \in cut THEN 0 ELSE hearedBack[c]]
    /\ crashes' = crashes + 1
    /\ UNCHANGED <<op, issued, value, answer, started, log, historyVars, faults, changes>>

-----------------------------------------------------------------------------
\* Raft, as the service sees it.

\* A command that a leader has counted is part of the log of all from then on.
Commit(e) ==
    /\ log' = Append(log, e.op)
    /\ started' = started (-) SetToBag({e})
    /\ LET last == versions[Len(versions)]
           known == \E k \in 1..Len(log) : Tag(log[k]) = Tag(e.op)
       IN  versions' = Append(versions, IF known THEN last ELSE Applied(last, e.op))
    /\ UNCHANGED <<clerkVars, serverVars, leaders, since, counters>>

\* Elections and step-downs.  Once the bound is reached there is still an election
\* when nobody leads.
ChangeLeaders(S) ==
    /\ S # leaders
    /\ \/ changes < MaxChanges /\ changes' = changes + 1
       \/ leaders = {} /\ changes = MaxChanges /\ UNCHANGED changes
    /\ leaders' = S
    /\ UNCHANGED <<clerkVars, serverVars, started, log, historyVars, faults, crashes>>

-----------------------------------------------------------------------------
ClerkStep(c) == Invoke(c) \/ Return(c) \/ Drop(c) \/ Abandon(c)

HandlerStep(c) ==
    \/ CheckLeader(c) \/ StartAppend(c) \/ StartWaits(c) \/ AppendEnds(c)
    \/ StartReturns(c)
    \/ Poll(c) \/ PollAgain(c) \/ GiveUp(c) \/ FindKey(c) \/ Read(c)

ServerStep(s) == SendApply(s) \/ ListenApplyCh(s) \/ CrashRestart(s)

Next ==
    \/ \E c \in Clients : ClerkStep(c) \/ HandlerStep(c)
    \/ \E a \in adrift : CheckAdrift(a) \/ StartAdrift(a)
    \/ \E s \in Servers : ServerStep(s)
    \/ \E e \in BagToSet(started) : Commit(e)
    \/ \E S \in SUBSET Servers : ChangeLeaders(S)

Spec == Init /\ [][Next]_vars

\* What the scheduling of goroutines gives: the clerk, a handler outside rf.mu and
\* the listener run on, and the polls of a server that does not lead are counted to
\* ten.  Nothing is supposed of Raft.
Fairness ==
    /\ \A c \in Clients :
          /\ WF_vars(Return(c)) /\ WF_vars(Poll(c)) /\ WF_vars(PollAgain(c))
          /\ WF_vars(FindKey(c)) /\ WF_vars(Read(c))
          /\ SF_vars(server[c] \notin leaders /\ GiveUp(c))
    /\ \A s \in Servers : WF_vars(ListenApplyCh(s))

FairSpec == Spec /\ Fairness
=============================================================================
