------------------------------ MODULE RunMode -------------------------------
(***************************************************************************)
(* One server in run mode: the order in which StartKVServerRun starts it,  *)
(* the requests net/rpc hands to it meanwhile and afterwards, the file     *)
(* <server>.yys that persist() writes and readPersistRun reads, and        *)
(* crashes at any point.  The server follows or campaigns; what it does as *)
(* leader, and the replies to its own requests, are in module Raft.        *)
(***************************************************************************)
EXTENDS Integers, FiniteSets, Sequences

CONSTANTS
    Requests,      \* RPCs that may reach the server, each at most once
    Me, Others,    \* the peers, as integers: one of them is 0
    None,          \* no request, no message, no vote granted, no file
    MaxTerm,       \* bound: the terms of requests and campaigns
    MaxEarly,      \* bound: how often rf.mu is taken while readPersistRun goes on
    MaxFail,       \* bound: persist() calls that fail
    MaxCrash       \* bound: crashes

ASSUME PeersAssumption ==
    Me \in Nat /\ Others \subseteq Nat \ {Me} /\ 0 \in Others \cup {Me}
ASSUME NoneAssumption ==
    /\ None \notin Requests \cup {Me} /\ None \notin Seq(Int)
    /\ None \notin [asked : Nat, term : Nat, to : Others \cup {Me}]
ASSUME MaximaAssumption ==
    MaxTerm \in Nat /\ MaxEarly \in Nat /\ MaxFail \in Nat /\ MaxCrash \in Nat

NoVote == -1
Entry == [cmd : Nat, term : Nat]

VARIABLES
    main,               \* the statement StartKVServerRun is at: see Startup
    made,               \* setRaft has made the channels
    Term, VotedFor, Log,
    ReceiveHB,          \* the place of that channel is taken
    Network,            \* "Connect" or "Disconnect"
    holder,             \* who has rf.mu: a request, Me for a campaign, or None
    at,                 \* at[r]: where the goroutine of a request, or campaign, is
    args, upToDate,     \* what the holder still needs: its message, and how the
                        \* candidate's log compared at the start of the region
    reply,              \* the vote the holder grants, a candidate to itself: the term
                        \* it was asked for in, the term of the answer, the candidate
    file,               \* what <server>.yys holds, value by value, or None
    found,              \* what readPersistRun has decoded
    saved,              \* history: memory when the last persist() was complete
    votes,              \* history: the votes it gave
    early,              \* history: how often rf.mu was taken while readPersistRun went on
    torn,               \* history: the last persist() that ended was not complete
    lost,               \* history: some persist() ended before the term was in the file
    fails, crashes

memory   == <<Term, VotedFor, Log>>
bootVars == <<main, made, found>>
taskVars == <<holder, at, args, upToDate, reply>>
histVars == <<saved, votes, early, torn, lost, fails, crashes>>
vars == <<memory, bootVars, ReceiveHB, Network, taskVars, file, histVars>>

\* "make" and "read" call MakeRun and readPersistRun; "term", "vote" and "log" are
\* the assignments at the end of readPersistRun.
Startup == {"make", "read", "term", "vote", "log"}

\* "jammed" and "send": at a send on ReceiveHB, the first on the nil channel, where it
\* stays.
Pending == {"checked", "jammed", "send", "create", "write"}
Ended   == {"done", "refused", "lost"}

\* The messages other peers send.
Messages ==
    [job : {"RequestVote"}, term : 1 .. MaxTerm, peer : Others, last : {<<0, 0>>, <<1, 1>>}]
      \cup [job : {"HeartBeat"}, term : 1 .. MaxTerm]
      \cup {[job |-> "Append", term |-> t, prev |-> p, prevTerm |-> IF p = 0 THEN 0 ELSE pt,
             entries |-> <<[cmd |-> p + 1, term |-> t]>>]
               : t \in 1 .. MaxTerm, p \in {0, 1}, pt \in 1 .. MaxTerm}
-----------------------------------------------------------------------------
\* The file: term, vote, number of entries, then the fields of each entry, of which
\* the command and the term stand for all four.

Items(term, vote, log) ==
    <<term, vote, Len(log)>>
       \o [k \in 1 .. 2 * Len(log) |->
             IF k % 2 = 1 THEN log[(k + 1) \div 2].cmd ELSE log[k \div 2].term]

\* A value that is missing decodes to zero.
Item(f, k) == IF k <= Len(f) THEN f[k] ELSE 0

\* Variant: the last entry is not read.
DecodeShort(f) ==
    [term |-> Item(f, 1), vote |-> Item(f, 2),
     log |-> [i \in 1 .. Item(f, 3) - 1 |-> [cmd |-> Item(f, 2*i + 2), term |-> Item(f, 2*i + 3)]]]

Decode(f) ==
    [term |-> Item(f, 1), vote |-> Item(f, 2),
     log |-> [i \in 1 .. Item(f, 3) |-> [cmd |-> Item(f, 2*i + 2), term |-> Item(f, 2*i + 3)]]]

\* The server's state when there is no file: setRaft's.
Fresh == [term |-> 0, vote |-> NoVote, log |-> <<>>]

\* The server is down, and was never up or has lived before: then it has voted and
\* appended in term 1, and saved both.
Init ==
    /\ \/ file = None /\ saved = Fresh /\ votes = {}
       \/ \E p \in Others :
             /\ saved = [term |-> 1, vote |-> p, log |-> <<[cmd |-> 1, term |-> 1]>>]
             /\ file = Items(saved.term, saved.vote, saved.log)
             /\ votes = {[asked |-> 1, term |-> 1, to |-> p]}
    /\ main = "down" /\ made = FALSE /\ found = Fresh
    /\ Term = 0 /\ VotedFor = 0 /\ Log = <<>>
    /\ ReceiveHB = FALSE /\ Network = "Connect"
    /\ holder = None /\ upToDate = FALSE
    /\ at = [r \in Requests \cup {Me} |-> "idle"]
    /\ args = None /\ reply = None
    /\ early = 0 /\ torn = FALSE /\ lost = FALSE /\ fails = 0 /\ crashes = 0
-----------------------------------------------------------------------------
\* StartKVServerRun.

\* new(raft.Raft) and setup: the services are registered and served from here on.
\* Network still has its zero value, which refuses nothing.
Setup ==
    /\ main = "down"
    /\ main' = "make" /\ Network' = "Connect"
    /\ UNCHANGED <<memory, made, found, ReceiveHB, taskVars, file, histVars>>

\* MakeRun and setRaft, without rf.mu.
MakeRun ==
    /\ main = "make"
    /\ main' = "read" /\ made' = TRUE
    /\ Term' = 0 /\ VotedFor' = NoVote /\ Log' = <<>>
    /\ Network' = "Connect"
    /\ UNCHANGED <<found, ReceiveHB, taskVars, file, histVars>>

\* readPersistRun opens and decodes the file; without one it returns.
ReadPersistRun ==
    /\ main = "read"
    /\ IF file = None
       THEN main' = "run" /\ UNCHANGED found
       ELSE main' = "term" /\ found' = Decode(file)
    /\ UNCHANGED <<memory, made, ReceiveHB, Network, taskVars, file, histVars>>

\* Its last three assignments, without rf.mu; then the server is up.
Restore ==
    /\ \/ main = "term" /\ main' = "vote" /\ Term' = found.term /\ UNCHANGED <<VotedFor, Log>>
       \/ main = "vote" /\ main' = "log" /\ VotedFor' = found.vote /\ UNCHANGED <<Term, Log>>
       \/ main = "log" /\ main' = "run" /\ Log' = found.log /\ UNCHANGED <<Term, VotedFor>>
    /\ UNCHANGED <<made, found, ReceiveHB, Network, taskVars, file, histVars>>
-----------------------------------------------------------------------------
\* Requests.

Goto(r, place) == at' = [at EXCEPT ![r] = place]

\* A request arrives.  checkNetwork is a region of its own: the handler runs later,
\* and what the request says does not matter before that.
CheckNetwork(r) ==
    /\ main # "down" /\ at[r] = "idle" /\ holder = None
    /\ Goto(r, IF Network = "Disconnect" THEN "refused" ELSE "checked")
    /\ UNCHANGED <<memory, bootVars, ReceiveHB, Network, holder, args, upToDate, reply,
                   file, histVars>>

\* Variant: the region begins without the lock.
TakesNothing(who) ==
    /\ holder' = who
    /\ UNCHANGED histVars

\* Somebody takes rf.mu.  Before the channels are made he keeps it for ever, and what
\* he has changed by then is overwritten.
Takes(who) ==
    /\ holder = None
    /\ holder' = who
    /\ early' = early + IF main \in Startup \ {"make"} THEN 1 ELSE 0
    /\ early' <= MaxEarly
    /\ UNCHANGED <<saved, votes, torn, lost, fails, crashes>>

LastTerm(log) == IF log = <<>> THEN 0 ELSE log[Len(log)].term

IsUpToDate(m) ==
    \/ LastTerm(Log) < m.last[1]
    \/ LastTerm(Log) = m.last[1] /\ Len(Log) <= m.last[2]

\* The first part of a handler, up to the send on ReceiveHB that a newer term, or
\* any term that is not older in HandleAppendEntries, calls for.
Notifies(m) == IF m.job = "RequestVote" THEN m.term > Term ELSE m.term >= Term

\* What HandleAppendEntries makes of the log: nothing while the previous entry is
\* missing, a cut where it is of another term.
AppendOutcome(log, m) ==
    IF m.prev > Len(log) THEN log
    ELSE IF m.prev = 0 \/ log[m.prev].term = m.prevTerm
    THEN SubSeq(log, 1, m.prev) \o [m.entries EXCEPT ![Len(m.entries)].term = m.term]
    ELSE SubSeq(log, 1, m.prev - 1)

Grants(vote, good) == vote = NoVote /\ good

\* The rest of a handler.  A request that does not notify is too old, or asks for a
\* vote in the term the server has; it keeps the vote.
Concludes(m, newer, good) ==
    LET vote == IF newer THEN NoVote ELSE VotedFor
        granted == m.job = "RequestVote" /\ Grants(vote, good)
    IN
    /\ VotedFor' = IF granted THEN m.peer
                   ELSE IF m.job = "RequestVote" THEN vote ELSE VotedFor
    /\ reply' = IF granted THEN [asked |-> m.term, term |-> Term, to |-> m.peer] ELSE None
    /\ Log' = IF m.job = "Append" /\ newer THEN AppendOutcome(Log, m) ELSE Log

Handle(r, m) ==
    LET good == m.job = "RequestVote" /\ IsUpToDate(m) IN
    /\ at[r] = "checked"
    /\ Takes(r)
    /\ IF Notifies(m)
       THEN /\ Term' = m.term /\ args' = m /\ upToDate' = good
            /\ Goto(r, IF made THEN "send" ELSE "jammed")
            /\ UNCHANGED <<VotedFor, Log, reply>>
       ELSE /\ Concludes(m, FALSE, good)
            /\ Goto(r, "create")
            /\ UNCHANGED <<Term, args, upToDate>>
    /\ UNCHANGED <<bootVars, ReceiveHB, Network, file>>

SendAndConclude(r) ==
    /\ at[r] = "send" /\ ~ReceiveHB
    /\ ReceiveHB' = TRUE
    /\ Concludes(args, TRUE, upToDate)
    /\ Goto(r, "create")
    /\ args' = None /\ upToDate' = FALSE
    /\ UNCHANGED <<Term, bootVars, Network, holder, file, histVars>>

\* The election goroutine: it receives the token, or campaigns.  It stays in its select
\* loop, since the server never wins here.
DrainHB ==
    /\ made /\ ReceiveHB
    /\ ReceiveHB' = FALSE
    /\ UNCHANGED <<memory, bootVars, Network, taskVars, file, histVars>>

\* The first region of startAsCand.
StartAsCand ==
    /\ made /\ Term < MaxTerm
    /\ Takes(Me)
    /\ Goto(Me, "create")
    /\ Term' = Term + 1 /\ VotedFor' = Me
    /\ reply' = [asked |-> Term + 1, term |-> Term + 1, to |-> Me]
    /\ UNCHANGED <<Log, bootVars, ReceiveHB, Network, args, upToDate, file>>
-----------------------------------------------------------------------------
\* persist(): the file is created, which empties the old one, and written value by
\* value from memory.

Create(r) ==
    /\ at[r] = "create"
    /\ file' = <<>>
    /\ Goto(r, "write")
    /\ UNCHANGED <<memory, bootVars, ReceiveHB, Network, holder, args, upToDate, reply,
                   histVars>>

Contents == Items(Term, VotedFor, Log)

\* Variant: the vote is not written.
WriteNoVote == Append(file, IF Len(file) = 1 THEN NoVote ELSE Contents[Len(file) + 1])

WriteNext == Append(file, Contents[Len(file) + 1])

Saved == [term |-> Term, vote |-> VotedFor, log |-> Log]

Write(r) ==
    /\ at[r] = "write" /\ Len(file) < Len(Contents)
    /\ file' = WriteNext
    /\ IF Len(file') = Len(Contents)
       THEN saved' = Saved /\ torn' = FALSE
       ELSE UNCHANGED <<saved, torn>>
    /\ UNCHANGED <<memory, bootVars, ReceiveHB, Network, taskVars, votes, early, lost,
                   fails, crashes>>

\* The region ends, and with it the handler: the reply leaves.
EndRegion(r) ==
    /\ holder' = None /\ reply' = None
    /\ Goto(r, IF r = Me THEN "idle" ELSE "done")
    /\ votes' = IF reply # None THEN votes \cup {reply} ELSE votes
    /\ UNCHANGED <<memory, bootVars, ReceiveHB, Network, args, upToDate, file, saved, early,
                   crashes>>

Finish(r) ==
    /\ at[r] = "write" /\ Len(file) >= Len(Contents)
    /\ EndRegion(r)
    /\ UNCHANGED <<torn, lost, fails>>

\* os.Create fails, or an Encode does and all those after it: persist() ignores the
\* error, and the region ends as if all had been written.
PersistFails(r) ==
    /\ at[r] = "create" \/ (at[r] = "write" /\ Len(file) < Len(Contents))
    /\ fails < MaxFail /\ fails' = fails + 1
    /\ torn' = TRUE
    /\ lost' = (lost \/ at[r] = "create" \/ file = <<>>)
    /\ EndRegion(r)
-----------------------------------------------------------------------------
\* The user interface, and the end of the process.

\* Connect and Disconnect.
SetNetwork(n) ==
    /\ main = "run" /\ holder = None /\ Network # n
    /\ Network' = n
    /\ UNCHANGED <<memory, bootVars, ReceiveHB, taskVars, file, histVars>>

Crash ==
    /\ main # "down" /\ crashes < MaxCrash
    /\ crashes' = crashes + 1
    /\ main' = "down" /\ made' = FALSE /\ found' = Fresh
    /\ Term' = 0 /\ VotedFor' = 0 /\ Log' = <<>> /\ ReceiveHB' = FALSE
    /\ holder' = None /\ args' = None /\ upToDate' = FALSE /\ reply' = None
    /\ at' = [r \in DOMAIN at |-> IF at[r] \notin Pending THEN at[r]
                                  ELSE IF r = Me THEN "idle" ELSE "lost"]
    /\ LET cut == \E r \in DOMAIN at : at[r] = "write" /\ Len(file) < Len(Contents)
       IN  torn' = (torn \/ cut) /\ lost' = (lost \/ (cut /\ file = <<>>))
    /\ UNCHANGED <<Network, file, saved, votes, early, fails>>
-----------------------------------------------------------------------------
Persisting ==
    \E r \in Requests \cup {Me} : Create(r) \/ Write(r) \/ Finish(r) \/ PersistFails(r)

Serves(r) ==
    SendAndConclude(r) \/ \E m \in Messages : Handle(r, m)

Starts == MakeRun \/ ReadPersistRun \/ Restore

Next ==
    \/ Setup \/ Starts \/ Persisting \/ DrainHB \/ StartAsCand \/ Crash
    \/ \E r \in Requests : CheckNetwork(r) \/ Serves(r)
    \/ \E n \in {"Connect", "Disconnect"} : SetNetwork(n)

Spec == Init /\ [][Next]_vars
=============================================================================
