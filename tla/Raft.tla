------------------------------- MODULE Raft -------------------------------
(***************************************************************************)
(* The Raft peer of src/src/raft in the mode the tests run it (rf.Test):   *)
(* elections, heartbeats, log repair, commitment, persistence and restart. *)
(*                                                                         *)
(* One action is one region the code runs while it holds rf.mu, or one     *)
(* receive of the election goroutine from a channel.  A goroutine between  *)
(* two regions is a pending record or flag.  Integers identify the peers,  *)
(* as in the code, because VotedFor starts as the zero value 0 at boot.    *)
(***************************************************************************)
EXTENDS Integers, FiniteSets, Sequences

CONSTANTS
    N,             \* number of peers (rf.PeerNumber)
    Tickers,       \* bound: the peers whose election ticker may fire
    MaxElections,  \* bound: candidacies, of all the peers together
    MaxCmd,        \* bound: number of client commands given to Start
    MaxCrash,      \* bound: number of crash-and-restart steps
    MaxRounds,     \* bound: heartbeat rounds, of all the leaders together
    MaxAppends     \* bound: StartOnePeerAppend calls in flight from one to another

ASSUME PeersAssumption == N \in Nat \ {0, 1}
ASSUME BoundsAssumption == Tickers \subseteq 0 .. N-1
                        /\ MaxElections \in Nat /\ MaxCmd \in Nat /\ MaxCrash \in Nat
                           /\ MaxRounds \in Nat /\ MaxAppends \in Nat

Server == 0 .. N-1
NoVote == -1                 \* VotedFor of a peer that may still vote
NoTerm == -1                 \* termForLog of an index outside the log
Roles  == {"Leader", "Cand", "Follwer"}
Jobs   == {"Append", "CommitAndHeartBeat", "HeartBeat"}

\* A log entry.  Its Index is always its position, so it is not a field.
Entry == [term : Nat, cmd : Nat]

VARIABLES
    Term, VotedFor, Log,      \* the fields persist() saves
    persisted,                \* what the persister holds of those three
    State, IsLeader,
    CommitIndex, LastApply,
    MatchIndex, PeerAlive, OpenCommit,
    stopped                   \* rf.mu is held forever, or the process panicked

durableVars == <<Term, VotedFor, Log, persisted>>
roleVars    == <<State, IsLeader>>
commitVars  == <<CommitIndex, LastApply>>
peerVars    == <<MatchIndex, PeerAlive, OpenCommit>>

VARIABLES
    ReceiveHB,                \* the one-place channels: is the place taken?
    BecomeFollwerFromLeader,
    electionResult,           \* the Win waiting for the loop, or NoWin
    loop,                     \* where startElection is: see Loops
    won,                      \* history: the Win that ended the last loop
    cands                     \* candidacies whose interval still runs

chanVars == <<ReceiveHB, BecomeFollwerFromLeader>>
loopVars == <<electionResult, loop, won, cands>>
mainVars == <<chanVars, loopVars>>

\* A Win is a constant of the code; here it also says what was won and by which
\* votes, for the properties alone.
NoWin == [term |-> 0, votes |-> {}]

\* "follow" is the select loop; after Win the goroutine waits on
\* BecomeFollwerFromLeader, first with startAsLeader still to take the lock
\* ("won") and then as leader ("lead").
Loops == {"follow", "won", "lead"}

VARIABLES
    beat,        \* next peer of the heartbeat round in progress; N when none
    starting,    \* commands whose Start saw a leader and has yet to append
    spawned,     \* peers with a StartOnePeerAppend goroutine yet to see a leader
    building,    \* those whose goroutine saw one and has yet to build the arguments
    appending,   \* arguments such a goroutine has built and has yet to send
    issued,      \* commands given to Start so far
    boots,       \* incarnation: a call of an earlier one has no reply
    crashes      \* crash-and-restart steps so far

taskVars == <<beat, starting, spawned, building, appending, issued>>
workVars == <<commitVars, peerVars, taskVars>>
lifeVars == <<stopped, boots, crashes>>

VARIABLES voteReqs, voteReps, appendReqs, appendReps   \* the network
voteNet   == <<voteReqs, voteReps>>
appendNet == <<appendReqs, appendReps>>
netVars   == <<voteNet, appendNet>>

VARIABLES
    elected,     \* history: the <<term, server>> of every leadership that began
    elections,   \* candidacies so far
    rounds       \* heartbeat rounds so far

histVars == <<elected, elections, rounds>>

vars == <<durableVars, roleVars, mainVars, workVars, lifeVars, netVars, histVars>>
-----------------------------------------------------------------------------
\* Log helpers (getters.go).

LastIndex(log) == Len(log)
LastTerm(log)  == IF log = <<>> THEN 0 ELSE log[Len(log)].term

\* getLogAtIndexWithoutLock and termForLog: index 0 is an entry of term 0.
Found(log, index)      == index \in 0 .. Len(log)
TermForLog(log, index) ==
    CASE index = 0            -> 0
      [] index \in 1..Len(log) -> log[index].term
      [] OTHER                -> NoTerm

\* Variant: a resend starts one entry too late.
AfterSkipping(log, k) == SubSeq(log, k + 2, Len(log))

\* The entries before and after an index (rf.Log[:k] and rf.Log[k:]).
Upto(log, k)  == SubSeq(log, 1, k)
After(log, k) == SubSeq(log, k + 1, Len(log))

\* Variant: the last entry keeps its term.
KeepLast(log, t) == log

\* Both the new leader and a follower that appends overwrite the term of
\* their last entry.
StampLast(log, t) ==
    IF log = <<>> THEN log ELSE [log EXCEPT ![Len(log)].term = t]

Minimum(a, b) == IF a < b THEN a ELSE b
Maximum(a, b) == IF a < b THEN b ELSE a

\* Variant: half of the peers is enough.
IsHalf(Q) == Cardinality(Q) >= N \div 2

\* votes > rf.PeerNumber/2, and granted >= rf.PeerNumber/2+1.
IsMajority(Q) == Cardinality(Q) > N \div 2
-----------------------------------------------------------------------------
\* Make: setRaft sets VotedFor to -1, then readPersist of an empty state puts
\* the zero value back, so at the first boot every peer "voted" for peer 0.
Init ==
    /\ Term = [i \in Server |-> 0] /\ VotedFor = [i \in Server |-> 0]
    /\ Log = [i \in Server |-> <<>>]
    /\ persisted = [i \in Server |-> [term |-> 0, vote |-> 0, log |-> <<>>]]
    /\ State = [i \in Server |-> "Follwer"] /\ IsLeader = [i \in Server |-> FALSE]
    /\ CommitIndex = [i \in Server |-> 0] /\ LastApply = [i \in Server |-> 0]
    /\ MatchIndex = [i \in Server |-> [s \in Server |-> 0]]
    /\ PeerAlive = [i \in Server |-> [s \in Server |-> FALSE]]
    /\ OpenCommit = [i \in Server |-> [s \in Server |-> FALSE]]
    /\ ReceiveHB = [i \in Server |-> FALSE]
    /\ BecomeFollwerFromLeader = [i \in Server |-> FALSE]
    /\ electionResult = [i \in Server |-> NoWin] /\ won = [i \in Server |-> NoWin]
    /\ loop = [i \in Server |-> "follow"] /\ cands = [i \in Server |-> {}]
    /\ beat = [i \in Server |-> N] /\ starting = [i \in Server |-> {}]
    /\ spawned = [i \in Server |-> {}] /\ building = [i \in Server |-> {}]
    /\ appending = {} /\ issued = 0
    /\ stopped = [i \in Server |-> FALSE]
    /\ boots = [i \in Server |-> 0] /\ crashes = 0
    /\ voteReqs = {} /\ voteReps = {} /\ appendReqs = {} /\ appendReps = {}
    /\ elected = {} /\ elections = 0 /\ rounds = 0
-----------------------------------------------------------------------------
\* Variants: persist() forgets the term, the vote, or the log.
PersistNoTerm(i) ==
    persisted' = [persisted EXCEPT ![i].vote = VotedFor'[i], ![i].log = Log'[i]]

PersistNoVote(i) ==
    persisted' = [persisted EXCEPT ![i].term = Term'[i], ![i].log = Log'[i]]

PersistNoLog(i) ==
    persisted' = [persisted EXCEPT ![i].term = Term'[i], ![i].vote = VotedFor'[i]]

\* persist(): the region ends with memory and persister equal.
Persist(i) ==
    persisted' = [persisted EXCEPT ![i] =
                     [term |-> Term'[i], vote |-> VotedFor'[i], log |-> Log'[i]]]

\* setFollwer, and the token that tells the election goroutine.
ChannelFree(i) ==
    IF IsLeader[i] THEN ~BecomeFollwerFromLeader[i] ELSE ~ReceiveHB[i]

\* Variant: a peer is told through BecomeFollwerFromLeader whatever its role.
NotifyDemotion(i) ==
    /\ BecomeFollwerFromLeader' = [BecomeFollwerFromLeader EXCEPT ![i] = TRUE]
    /\ UNCHANGED ReceiveHB

Notify(i) ==
    IF IsLeader[i]
    THEN /\ BecomeFollwerFromLeader' = [BecomeFollwerFromLeader EXCEPT ![i] = TRUE]
         /\ UNCHANGED ReceiveHB
    ELSE /\ ReceiveHB' = [ReceiveHB EXCEPT ![i] = TRUE]
         /\ UNCHANGED BecomeFollwerFromLeader

\* Variant: setFollwer leaves IsLeader alone.
SetFollwerState(i) ==
    /\ State' = [State EXCEPT ![i] = "Follwer"]
    /\ UNCHANGED IsLeader

SetFollwer(i) ==
    /\ State' = [State EXCEPT ![i] = "Follwer"]
    /\ IsLeader' = [IsLeader EXCEPT ![i] = FALSE]

\* A send on ReceiveHB that no receive will ever match: the channel is full,
\* the goroutine that drains it waits on the other channel, and whoever could
\* send there needs rf.mu.
SendBlocksForever(i) ==
    /\ ReceiveHB[i]
    /\ loop[i] # "follow"
    /\ ~BecomeFollwerFromLeader[i]

\* A region of i can begin.  The select loop polls without pause: unless a Win
\* waits there too, it receives a token before anything else happens.
Polled(i) == loop[i] = "follow" /\ ReceiveHB[i] /\ electionResult[i] = NoWin

Free(i) == ~stopped[i] /\ \A j \in Server : ~Polled(j)
-----------------------------------------------------------------------------
\* The election goroutine (startElection) and candidacies (startAsCand).

\* The timers.  A candidacy arms the ticker with its own interval (350 to 699
\* ms) and needReturn ends it 20 ms earlier: it is over at the tick it "armed".
\* A ticker rearmed meanwhile by a heartbeat or a new loop ("reset") may tick
\* during the candidacy, but only once: two such ticks are 700 ms apart.
Clocks == {"armed", "reset", "late"}

Rearm(cs) == {[c EXCEPT !.clock = IF @ = "armed" THEN "reset" ELSE @] : c \in cs}

Surviving(cs) == {[c EXCEPT !.clock = "late"] : c \in {d \in cs : d.clock = "reset"}}

Terms(cs) == {c.term : c \in cs}
Close(c)  == [c EXCEPT !.open = FALSE, !.votes = {}]

\* <-ticker.C and the first region of startAsCand.
Tick(i) ==
    /\ Free(i)
    /\ loop[i] = "follow"
    /\ i \in Tickers /\ elections < MaxElections
    /\ elections' = elections + 1
    /\ State' = [State EXCEPT ![i] = "Cand"]
    /\ Term' = [Term EXCEPT ![i] = @ + 1]
    /\ VotedFor' = [VotedFor EXCEPT ![i] = i]
    /\ UNCHANGED Log
    /\ Persist(i)
    /\ cands' = [cands EXCEPT ![i] = Surviving(@) \cup
                    {[term |-> Term[i] + 1, votes |-> {i}, clock |-> "armed", open |-> TRUE]}]
    /\ voteReqs' = voteReqs \cup
          {[from |-> i, to |-> s, term |-> Term[i] + 1,
            lastIndex |-> LastIndex(Log[i]), lastTerm |-> LastTerm(Log[i])]
              : s \in Server \ {i}}
    /\ voteReps' = {r \in voteReps : r.to = i => r.cand \in Terms(Surviving(cands[i]))}
    /\ UNCHANGED <<IsLeader, workVars, chanVars, electionResult, loop, won,
                   lifeVars, appendNet, elected, rounds>>

\* <-rf.ReceiveHB: the ticker starts over.
DrainHB(i) ==
    /\ loop[i] = "follow"
    /\ ReceiveHB[i]
    /\ ReceiveHB' = [ReceiveHB EXCEPT ![i] = FALSE]
    /\ cands' = [cands EXCEPT ![i] = Rearm(@)]
    /\ UNCHANGED <<durableVars, roleVars, workVars, BecomeFollwerFromLeader,
                   electionResult, loop, won, lifeVars, netVars, histVars>>

\* The last region of startAsCand returns Win.  (DidNotWin changes nothing: a
\* candidacy that gives up is one that never takes this step.)  The test reads
\* the role of now, not the term the votes were asked for.
CanWin(i, c) == c.open /\ State[i] = "Cand" /\ IsMajority(c.votes)

Decide(i, c) ==
    /\ Free(i)
    /\ electionResult[i] = NoWin
    /\ CanWin(i, c)
    /\ electionResult' = [electionResult EXCEPT ![i] = [term |-> c.term, votes |-> c.votes]]
    /\ cands' = [cands EXCEPT ![i] = (@ \ {c}) \cup {Close(c)}]
    /\ UNCHANGED <<durableVars, roleVars, workVars, chanVars, loop, won,
                   lifeVars, netVars, histVars>>

\* a := <-electionResult, Win: leave the loop.  The results of the remaining
\* candidacies go to a channel nobody reads.
BreakLoop(i) ==
    /\ loop[i] = "follow"
    /\ electionResult[i] # NoWin
    /\ loop' = [loop EXCEPT ![i] = "won"]
    /\ won' = [won EXCEPT ![i] = electionResult[i]]
    /\ electionResult' = [electionResult EXCEPT ![i] = NoWin]
    /\ cands' = [cands EXCEPT ![i] = Rearm({Close(c) : c \in @})]
    /\ voteReps' = {r \in voteReps : r.to = i => r.term > Term[i]}
    /\ UNCHANGED <<durableVars, roleVars, workVars, chanVars, lifeVars,
                   voteReqs, appendNet, histVars>>

\* The region of startAsLeader.  Whatever happened since the Win, the peer
\* leads the term it has now; the rewritten last entry is not persisted.
StartAsLeader(i) ==
    /\ Free(i)
    /\ loop[i] = "won"
    /\ loop' = [loop EXCEPT ![i] = "lead"]
    /\ MatchIndex' = [MatchIndex EXCEPT ![i] = [s \in Server |-> 0]]
    /\ PeerAlive' = [PeerAlive EXCEPT ![i] = [s \in Server |-> FALSE]]
    /\ OpenCommit' = [OpenCommit EXCEPT ![i] = [s \in Server |-> FALSE]]
    /\ Log' = [Log EXCEPT ![i] = StampLast(@, Term[i])]
    /\ State' = [State EXCEPT ![i] = "Leader"]
    /\ IsLeader' = [IsLeader EXCEPT ![i] = TRUE]
    /\ elected' = elected \cup {<<Term[i], i>>}
    /\ UNCHANGED <<Term, VotedFor, persisted, commitVars, chanVars,
                   electionResult, won, cands, taskVars, lifeVars, netVars,
                   elections, rounds>>

\* <-rf.BecomeFollwerFromLeader, and the next loop with a new ticker.
RecvDemote(i) ==
    /\ loop[i] = "lead"
    /\ BecomeFollwerFromLeader[i]
    /\ BecomeFollwerFromLeader' = [BecomeFollwerFromLeader EXCEPT ![i] = FALSE]
    /\ loop' = [loop EXCEPT ![i] = "follow"]
    /\ cands' = [cands EXCEPT ![i] = Rearm(@)]
    /\ UNCHANGED <<durableVars, roleVars, workVars, ReceiveHB, electionResult,
                   won, lifeVars, netVars, histVars>>
-----------------------------------------------------------------------------
\* Votes.

\* HandleRequestVote after the term step: the vote is free and the
\* candidate's log is as good.  Nothing refuses a smaller term.
UpToDate(i, m) ==
    \/ LastTerm(Log[i]) < m.lastTerm
    \/ LastTerm(Log[i]) = m.lastTerm /\ LastIndex(Log[i]) <= m.lastIndex

\* Variant: a peer that has voted votes again.
GrantsAgain(i, m, vote) == UpToDate(i, m)

Grants(i, m, vote) == vote = NoVote /\ UpToDate(i, m)

\* A reply is kept only if the candidacy listens and it can have an effect.
Matters(m, term, granted) ==
    m.term \in Terms(cands[m.from]) /\ (granted \/ term > Term[m.from])

HandleRequestVote(i, m) ==
    LET newer == m.term > Term[i]
        vote  == IF newer THEN NoVote ELSE VotedFor[i]
    IN
    /\ Free(i)
    /\ m.to = i
    /\ voteReqs' = voteReqs \ {m}
    /\ Term' = [Term EXCEPT ![i] = Maximum(@, m.term)]
    /\ IF newer
       THEN ChannelFree(i) /\ Notify(i) /\ SetFollwer(i)
       ELSE UNCHANGED <<roleVars, chanVars>>
    /\ VotedFor' = [VotedFor EXCEPT ![i] =
                       IF Grants(i, m, vote) THEN m.from ELSE vote]
    /\ UNCHANGED Log
    /\ Persist(i)
    /\ voteReps' =
          IF Matters(m, Maximum(Term[i], m.term), Grants(i, m, vote))
          THEN voteReps \cup {[from |-> i, to |-> m.from, cand |-> m.term,
                               term |-> Maximum(Term[i], m.term),
                               granted |-> Grants(i, m, vote)]}
          ELSE voteReps
    /\ UNCHANGED <<workVars, loopVars, lifeVars, appendNet, histVars>>

\* A reply to candidacy c with a higher term: the peer steps down, whatever
\* its role, and always through ReceiveHB.
StepsDown(i, r) == r.term > Term[i] /\ State[i] # "Follwer"

VoteReplyStepDown(i, c, r) ==
    /\ Free(i)
    /\ r.to = i /\ r.cand = c.term
    /\ StepsDown(i, r)
    /\ ~ReceiveHB[i]
    /\ ReceiveHB' = [ReceiveHB EXCEPT ![i] = TRUE]
    /\ SetFollwer(i)
    /\ Term' = [Term EXCEPT ![i] = r.term]
    /\ UNCHANGED <<VotedFor, Log>>
    /\ Persist(i)
    /\ voteReps' = voteReps \ {r}
    /\ UNCHANGED <<workVars, BecomeFollwerFromLeader, loopVars, lifeVars,
                   voteReqs, appendNet, histVars>>

\* Any other reply: it is counted if it grants and the peer is a candidate now.
\* A closed candidacy has returned, its count is read no more.
Counts(i, c, r) == r.granted /\ State[i] = "Cand" /\ c.open

VoteReply(i, c, r) ==
    /\ Free(i)
    /\ r.to = i /\ r.cand = c.term
    /\ ~StepsDown(i, r)
    /\ cands' = [cands EXCEPT ![i] =
                    IF Counts(i, c, r)
                    THEN (@ \ {c}) \cup {[c EXCEPT !.votes = @ \cup {r.from}]}
                    ELSE @]
    /\ voteReps' = voteReps \ {r}
    /\ UNCHANGED <<durableVars, roleVars, workVars, chanVars, electionResult,
                   loop, won, lifeVars, voteReqs, appendNet, histVars>>
-----------------------------------------------------------------------------
\* AppendEntries: the handler serves heartbeats and log repair.

\* Variant: entries are appended without the cut at PrevLogIndex.
AppendOutcomeNoCut(log, m) ==
    IF Found(log, m.prev) /\ TermForLog(log, m.prev) = m.prevTerm
    THEN [log |-> StampLast(log \o m.entries, m.term), success |-> TRUE, last |-> -1]
    ELSE [log |-> log, success |-> FALSE, last |-> LastIndex(log)]

\* The log the Append job leaves, and its answer.
AppendOutcome(log, m) ==
    IF ~Found(log, m.prev)
    THEN [log |-> log, success |-> FALSE, last |-> LastIndex(log)]
    ELSE IF TermForLog(log, m.prev) # m.prevTerm
    THEN [log |-> Upto(log, m.prev - 1), success |-> FALSE, last |-> -1]
    ELSE [log |-> StampLast(Upto(log, m.prev) \o m.entries, m.term),
          success |-> TRUE, last |-> -1]

\* A call whose caller restarted since, or was told that it failed, has nobody to
\* answer to.
NoCaller == -1

Waiting(m) == m.boot = boots[m.from]

Answer(m, term, success, last) ==
    appendReps' =
        IF Waiting(m)
        THEN appendReps \cup
             {[job |-> m.job, from |-> m.from, to |-> m.to, boot |-> m.boot,
               prev |-> m.prev, len |-> Len(m.entries),
               term |-> term, success |-> success, last |-> last]}
        ELSE appendReps

\* args.Term >= rf.Term: accept the sender as leader and do the job.  VotedFor
\* is kept even when the term grows, and CommitIndex may go back.
HandleAppendEntries(i, m) ==
    LET out    == AppendOutcome(Log[i], m)
        commit == Minimum(m.commit, LastIndex(Log[i]))
    IN
    /\ Free(i)
    /\ m.to = i
    /\ m.term >= Term[i]
    /\ appendReqs' = appendReqs \ {m}
    /\ ChannelFree(i) /\ Notify(i) /\ SetFollwer(i)
    /\ Term' = [Term EXCEPT ![i] = m.term]
    /\ UNCHANGED VotedFor
    /\ IF m.job = "Append"
       THEN /\ Log' = [Log EXCEPT ![i] = out.log]
            /\ Answer(m, m.term, out.success, out.last)
       ELSE /\ UNCHANGED Log
            /\ Answer(m, m.term, TRUE, 0)
    /\ IF m.job = "CommitAndHeartBeat"
       THEN /\ CommitIndex' = [CommitIndex EXCEPT ![i] = commit]
            /\ LastApply' = [LastApply EXCEPT ![i] = Maximum(@, commit)]
       ELSE UNCHANGED commitVars
    /\ Persist(i)
    /\ UNCHANGED <<peerVars, loopVars, taskVars, lifeVars, voteNet, histVars>>

\* args.Term < rf.Term: only the term is returned; LastIndex is its zero value.
RefuseAppendEntries(i, m) ==
    /\ Free(i)
    /\ m.to = i
    /\ m.term < Term[i]
    /\ appendReqs' = appendReqs \ {m}
    /\ UNCHANGED <<Term, VotedFor, Log>>
    /\ Persist(i)
    /\ Answer(m, Term[i], FALSE, 0)
    /\ UNCHANGED <<roleVars, workVars, mainVars, lifeVars, voteNet, histVars>>
-----------------------------------------------------------------------------
\* Sends that never return.  The handlers assign Term before they block, the
\* vote reply does not.  The call of a blocked handler neither returns nor fails.
HandlerBlocks(i, t) ==
    /\ Free(i)
    /\ ~IsLeader[i] /\ SendBlocksForever(i)
    /\ stopped' = [stopped EXCEPT ![i] = TRUE]
    /\ Term' = [Term EXCEPT ![i] = t]
    /\ UNCHANGED <<VotedFor, Log, persisted, roleVars, workVars, mainVars,
                   boots, crashes, voteReps, appendReps, histVars>>

RequestVoteBlocks(i, m) ==
    /\ m.to = i
    /\ m.term > Term[i]
    /\ HandlerBlocks(i, m.term)
    /\ voteReqs' = voteReqs \ {m}
    /\ UNCHANGED appendReqs

AppendEntriesBlocks(i, m) ==
    /\ m.to = i
    /\ m.term >= Term[i]
    /\ HandlerBlocks(i, m.term)
    /\ appendReqs' = appendReqs \ {m}
    /\ UNCHANGED voteReqs

VoteReplyBlocks(i, c, r) ==
    /\ Free(i)
    /\ r.to = i /\ r.cand = c.term
    /\ StepsDown(i, r)
    /\ SendBlocksForever(i)
    /\ stopped' = [stopped EXCEPT ![i] = TRUE]
    /\ voteReps' = voteReps \ {r}
    /\ UNCHANGED <<durableVars, roleVars, workVars, mainVars, boots, crashes,
                   voteReqs, appendNet, histVars>>
-----------------------------------------------------------------------------
\* The leader: heartbeats (sendHeartBeat).

NextPeer(i, s) == IF s + 1 = i THEN s + 2 ELSE s + 1
FirstPeer(i)   == NextPeer(i, -1)

\* A new round: leadership is read once, before the peers are gone through.
HeartBeatRound(i) ==
    /\ Free(i)
    /\ State[i] = "Leader"
    /\ beat[i] = N
    /\ rounds < MaxRounds
    /\ rounds' = rounds + 1
    /\ beat' = [beat EXCEPT ![i] = FirstPeer(i)]
    /\ UNCHANGED <<durableVars, roleVars, commitVars, peerVars, mainVars,
                   starting, spawned, building, appending, issued, lifeVars, netVars,
                   elected, elections>>

\* The region that fills the arguments for one peer.
BeatArgs(i, s) ==
    [job |-> IF OpenCommit[i][s] THEN "CommitAndHeartBeat" ELSE "HeartBeat",
     from |-> i, to |-> s, boot |-> boots[i], term |-> Term[i],
     prev |-> 0, prevTerm |-> 0, entries |-> <<>>,
     commit |-> IF OpenCommit[i][s] THEN CommitIndex[i] ELSE 0]

SendHeartBeat(i) ==
    LET s == beat[i] IN
    /\ Free(i)
    /\ s < N
    /\ beat' = [beat EXCEPT ![i] = NextPeer(i, s)]
    /\ appendReqs' = appendReqs \cup {BeatArgs(i, s)}
    /\ UNCHANGED <<durableVars, roleVars, commitVars, peerVars, mainVars,
                   starting, spawned, building, appending, issued, lifeVars, voteNet,
                   appendReps, histVars>>

\* A higher term demotes a leader through the other channel; otherwise a peer
\* that answers again gets its log repaired.
BeatReplyStepDown(i, r) ==
    /\ Free(i)
    /\ r.from = i /\ r.job # "Append"
    /\ r.term > Term[i] /\ State[i] = "Leader"
    /\ ~BecomeFollwerFromLeader[i]
    /\ Term' = [Term EXCEPT ![i] = r.term]
    /\ BecomeFollwerFromLeader' = [BecomeFollwerFromLeader EXCEPT ![i] = TRUE]
    /\ SetFollwer(i)
    /\ UNCHANGED <<VotedFor, Log>>
    /\ Persist(i)
    /\ appendReps' = appendReps \ {r}
    /\ UNCHANGED <<workVars, ReceiveHB, loopVars, lifeVars, voteNet, appendReqs,
                   histVars>>

BeatReply(i, r) ==
    LET back == ~PeerAlive[i][r.to] /\ State[i] = "Leader" IN
    /\ Free(i)
    /\ r.from = i /\ r.job # "Append"
    /\ ~(r.term > Term[i] /\ State[i] = "Leader")
    /\ PeerAlive' = [PeerAlive EXCEPT ![i][r.to] = @ \/ back]
    /\ spawned' = [spawned EXCEPT ![i] = IF back THEN @ \cup {r.to} ELSE @]
    /\ appendReps' = appendReps \ {r}
    /\ UNCHANGED <<durableVars, roleVars, commitVars, MatchIndex, OpenCommit,
                   mainVars, beat, starting, building, appending, issued, lifeVars,
                   voteNet, appendReqs, histVars>>

\* A heartbeat or append call of i returns false, before or after its handler; a
\* handler that has yet to run may still run.
CallFails(i, m) ==
    /\ Free(i)
    /\ m.from = i /\ m.boot = boots[i]
    /\ PeerAlive' = [PeerAlive EXCEPT ![i][m.to] = FALSE]
    /\ OpenCommit' = [OpenCommit EXCEPT ![i][m.to] = FALSE]
    /\ appendReqs' = {IF q = m THEN [q EXCEPT !.boot = NoCaller] ELSE q : q \in appendReqs}
    /\ appendReps' = appendReps \ {m}
    /\ UNCHANGED <<durableVars, roleVars, commitVars, MatchIndex, mainVars,
                   taskVars, lifeVars, voteNet, histVars>>
-----------------------------------------------------------------------------
\* The leader: client commands and log repair (Start, StartOnePeerAppend).

\* Start reads the role, then takes the lock again to append.
StartCheck(i) ==
    /\ Free(i)
    /\ State[i] = "Leader"
    /\ issued < MaxCmd
    /\ issued' = issued + 1
    /\ starting' = [starting EXCEPT ![i] = @ \cup {issued + 1}]
    /\ UNCHANGED <<durableVars, roleVars, commitVars, peerVars, mainVars, beat,
                   spawned, building, appending, lifeVars, netVars, histVars>>

StartAppend(i, cmd) ==
    /\ Free(i)
    /\ Log' = [Log EXCEPT ![i] = Append(@, [term |-> Term[i], cmd |-> cmd])]
    /\ UNCHANGED <<Term, VotedFor>>
    /\ Persist(i)
    /\ starting' = [starting EXCEPT ![i] = @ \ {cmd}]
    /\ spawned' = [spawned EXCEPT ![i] = Server \ {i}]
    /\ UNCHANGED <<roleVars, commitVars, peerVars, mainVars, beat, building, appending,
                   issued, lifeVars, netVars, histVars>>

\* The StartOnePeerAppend calls from i to s that have not ended.
AppendCalls(i, s) ==
    {a \in appending : a.from = i /\ a.to = s} \cup
    {m \in appendReqs \cup appendReps :
        m.from = i /\ m.to = s /\ m.boot = boots[i] /\ m.job = "Append"}

\* A goroutine of StartOnePeerAppend starts: it reads the role, and ends if the peer
\* does not lead.
AppendCheck(i, s) ==
    /\ Free(i)
    /\ spawned' = [spawned EXCEPT ![i] = @ \ {s}]
    /\ building' = [building EXCEPT ![i] = IF State[i] = "Leader" THEN @ \cup {s} ELSE @]
    /\ UNCHANGED <<durableVars, roleVars, commitVars, peerVars, mainVars, beat,
                   starting, appending, issued, lifeVars, netVars, histVars>>

\* It takes the lock again and builds its arguments, whatever the role is by now.
AppendBuild(i, s) ==
    /\ Free(i)
    /\ Cardinality(AppendCalls(i, s)) < MaxAppends
    /\ building' = [building EXCEPT ![i] = @ \ {s}]
    /\ appending' = appending \cup
          {[from |-> i, to |-> s, term |-> Term[i], prev |-> MatchIndex[i][s],
            prevTerm |-> TermForLog(Log[i], MatchIndex[i][s]),
            entries |-> After(Log[i], MatchIndex[i][s]), shared |-> FALSE,
            encoding |-> FALSE]}
    /\ UNCHANGED <<durableVars, roleVars, commitVars, peerVars, mainVars, beat,
                   starting, spawned, issued, lifeVars, netVars, histVars>>

\* What the encoder reads of the entries of a resend, a slice of the log's own array:
\* any of them may be overwritten by then.
Encodings(i, a) ==
    LET overwritten == {k \in DOMAIN a.entries : a.prev + k <= Len(Log[i])}
    IN  {[k \in DOMAIN a.entries |-> IF k \in S THEN Log[i][a.prev + k] ELSE a.entries[k]]
           : S \in SUBSET overwritten}

AppendArgs(i, a, es) ==
    [job |-> "Append", from |-> i, to |-> a.to, boot |-> boots[i],
     term |-> a.term, prev |-> a.prev, prevTerm |-> a.prevTerm,
     entries |-> es, commit |-> 0]

\* The head of the send loop: call the peer, or end if it seems dead or the
\* leadership is over.  Entries that were copied under the lock can no longer change;
\* those of a resend are encoded after the unlock.
AppendSend(i, a) ==
    LET calls == PeerAlive[i][a.to] /\ IsLeader[i] IN
    /\ Free(i)
    /\ a.from = i /\ ~a.encoding
    /\ appending' = (appending \ {a}) \cup
          (IF calls /\ a.shared THEN {[a EXCEPT !.encoding = TRUE]} ELSE {})
    /\ appendReqs' = appendReqs \cup
          (IF calls /\ ~a.shared THEN {AppendArgs(i, a, a.entries)} ELSE {})
    /\ UNCHANGED <<durableVars, roleVars, commitVars, peerVars, mainVars, beat,
                   starting, spawned, building, issued, lifeVars, voteNet, appendReps,
                   histVars>>

\* The encoder, without rf.mu, and even while somebody holds it for ever.
AppendEncode(i, a) ==
    /\ a.from = i /\ a.encoding
    /\ appending' = appending \ {a}
    /\ \E es \in Encodings(i, a) : appendReqs' = appendReqs \cup {AppendArgs(i, a, es)}
    /\ UNCHANGED <<durableVars, roleVars, commitVars, peerVars, mainVars, beat,
                   starting, spawned, building, issued, lifeVars, voteNet, appendReps,
                   histVars>>

\* updateCommitForLeader: the highest index past CommitIndex that the peers
\* marked alive and the leader itself hold in a majority.
Holders(i, k, match, alive) ==
    {i} \cup {s \in Server \ {i} : alive[s] /\ match[s] >= k}

Committable(i, match, alive) ==
    {k \in CommitIndex[i] + 1 .. LastIndex(Log[i]) :
        IsMajority(Holders(i, k, match, alive))}

\* Variant: lastCommittedIndex is taken even when the loop left it at -1.
NewestOrNone(S, k) == IF S = {} THEN -1 ELSE CHOOSE x \in S : \A y \in S : y <= x

\* The newest of a set of indexes, or the one given when there is none.
Newest(S, k) == IF S = {} THEN k ELSE CHOOSE x \in S : \A y \in S : y <= x

\* reply.Success: no test of the term, nor of the leadership the call is from,
\* except before the commit.
AppendReplySuccess(i, r) ==
    LET match  == [MatchIndex[i] EXCEPT ![r.to] = r.prev + r.len]
        alive  == [PeerAlive[i] EXCEPT ![r.to] = TRUE]
        commit == IF IsLeader[i]
                  THEN Newest(Committable(i, match, alive), CommitIndex[i])
                  ELSE CommitIndex[i]
    IN
    /\ Free(i)
    /\ r.from = i /\ r.job = "Append" /\ r.success
    /\ MatchIndex' = [MatchIndex EXCEPT ![i] = match]
    /\ PeerAlive' = [PeerAlive EXCEPT ![i] = alive]
    /\ OpenCommit' = [OpenCommit EXCEPT ![i][r.to] = TRUE]
    /\ CommitIndex' = [CommitIndex EXCEPT ![i] = commit]
    /\ LastApply' = [LastApply EXCEPT ![i] =
                        IF commit > CommitIndex[i] THEN Maximum(@, commit) ELSE @]
    /\ appendReps' = appendReps \ {r}
    /\ UNCHANGED <<durableVars, roleVars, mainVars, taskVars, lifeVars, voteNet,
                   appendReqs, histVars>>

\* The resend region: PrevLogIndex goes to where the peer's log ends, or one
\* back; slicing the log outside its range would panic.
ResendFrom(r) == IF r.last # -1 THEN r.last ELSE r.prev - 1

AppendReplyFailure(i, r) ==
    LET prev == ResendFrom(r) IN
    /\ Free(i)
    /\ r.from = i /\ r.job = "Append" /\ ~r.success
    /\ PeerAlive' = [PeerAlive EXCEPT ![i][r.to] = TRUE]
    /\ IF prev \notin 0 .. Len(Log[i])
       THEN /\ stopped' = [stopped EXCEPT ![i] = TRUE]
            /\ UNCHANGED appending
       ELSE /\ appending' = appending \cup
                 {[from |-> i, to |-> r.to, term |-> Term[i], prev |-> prev,
                   prevTerm |-> TermForLog(Log[i], prev),
                   entries |-> After(Log[i], prev), shared |-> TRUE, encoding |-> FALSE]}
            /\ UNCHANGED stopped
    /\ appendReps' = appendReps \ {r}
    /\ UNCHANGED <<durableVars, roleVars, commitVars, MatchIndex, OpenCommit,
                   mainVars, beat, starting, spawned, building, issued, boots, crashes,
                   voteNet, appendReqs, histVars>>
-----------------------------------------------------------------------------
\* The process ends (a kill, or after it stopped) and Make runs again on what
\* the persister holds.  Requests it sent may still arrive.
CrashRestart(i) ==
    /\ crashes < MaxCrash
    /\ crashes' = crashes + 1
    /\ boots' = [boots EXCEPT ![i] = crashes + 1]
    /\ Term' = [Term EXCEPT ![i] = persisted[i].term]
    /\ VotedFor' = [VotedFor EXCEPT ![i] = persisted[i].vote]
    /\ Log' = [Log EXCEPT ![i] = persisted[i].log]
    /\ State' = [State EXCEPT ![i] = "Follwer"]
    /\ IsLeader' = [IsLeader EXCEPT ![i] = FALSE]
    /\ CommitIndex' = [CommitIndex EXCEPT ![i] = 0]
    /\ LastApply' = [LastApply EXCEPT ![i] = 0]
    /\ MatchIndex' = [MatchIndex EXCEPT ![i] = [s \in Server |-> 0]]
    /\ PeerAlive' = [PeerAlive EXCEPT ![i] = [s \in Server |-> FALSE]]
    /\ OpenCommit' = [OpenCommit EXCEPT ![i] = [s \in Server |-> FALSE]]
    /\ stopped' = [stopped EXCEPT ![i] = FALSE]
    /\ ReceiveHB' = [ReceiveHB EXCEPT ![i] = FALSE]
    /\ BecomeFollwerFromLeader' = [BecomeFollwerFromLeader EXCEPT ![i] = FALSE]
    /\ electionResult' = [electionResult EXCEPT ![i] = NoWin]
    /\ loop' = [loop EXCEPT ![i] = "follow"]
    /\ won' = [won EXCEPT ![i] = NoWin]
    /\ cands' = [cands EXCEPT ![i] = {}]
    /\ beat' = [beat EXCEPT ![i] = N]
    /\ starting' = [starting EXCEPT ![i] = {}]
    /\ spawned' = [spawned EXCEPT ![i] = {}] /\ building' = [building EXCEPT ![i] = {}]
    /\ appending' = {a \in appending : a.from # i}
    /\ voteReps' = {r \in voteReps : r.to # i}
    /\ appendReps' = {r \in appendReps : r.from # i}
    /\ UNCHANGED <<persisted, issued, voteReqs, appendReqs, histVars>>
-----------------------------------------------------------------------------
ElectionStep(i) ==
    \/ Tick(i)
    \/ DrainHB(i)
    \/ \E c \in cands[i] : Decide(i, c)
    \/ BreakLoop(i)
    \/ StartAsLeader(i)
    \/ RecvDemote(i)

VoteStep(i) ==
    \/ \E m \in voteReqs : HandleRequestVote(i, m)
    \/ \E c \in cands[i], r \in voteReps : VoteReplyStepDown(i, c, r)
    \/ \E c \in cands[i], r \in voteReps : VoteReply(i, c, r)

AppendEntriesStep(i) ==
    \/ \E m \in appendReqs : HandleAppendEntries(i, m)
    \/ \E m \in appendReqs : RefuseAppendEntries(i, m)

BlockStep(i) ==
    \/ \E m \in voteReqs : RequestVoteBlocks(i, m)
    \/ \E m \in appendReqs : AppendEntriesBlocks(i, m)
    \/ \E c \in cands[i], r \in voteReps : VoteReplyBlocks(i, c, r)

HeartBeatStep(i) ==
    \/ HeartBeatRound(i)
    \/ SendHeartBeat(i)
    \/ \E r \in appendReps : BeatReplyStepDown(i, r)
    \/ \E r \in appendReps : BeatReply(i, r)
    \/ \E m \in appendReqs \cup appendReps : CallFails(i, m)

StartStep(i) ==
    \/ StartCheck(i)
    \/ \E cmd \in starting[i] : StartAppend(i, cmd)
    \/ \E s \in spawned[i] : AppendCheck(i, s)
    \/ \E s \in building[i] : AppendBuild(i, s)
    \/ \E a \in appending : AppendSend(i, a)
    \/ \E a \in appending : AppendEncode(i, a)

AppendReplyStep(i) ==
    \/ \E r \in appendReps : AppendReplySuccess(i, r)
    \/ \E r \in appendReps : AppendReplyFailure(i, r)

Next ==
    \E i \in Server :
        \/ ElectionStep(i)
        \/ VoteStep(i)
        \/ AppendEntriesStep(i)
        \/ BlockStep(i)
        \/ HeartBeatStep(i)
        \/ StartStep(i)
        \/ AppendReplyStep(i)
        \/ CrashRestart(i)

Spec == Init /\ [][Next]_vars
=============================================================================
