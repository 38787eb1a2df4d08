---------------------------- MODULE VoteProofs ----------------------------
(***************************************************************************)
(* The election properties of module Raft, for every number of peers and   *)
(* every bound.                                                            *)
(***************************************************************************)
EXTENDS RaftInv, RaftProofs

\* What a step can do to the term and the vote of a peer, and to what it saved:
\* save both with neither going back, leave them alone, block with a new term
\* unsaved, or restart from what was saved.

Holds(i) ==
    /\ Term'[i] >= Term[i]
    /\ Term'[i] = Term[i] /\ VotedFor[i] # NoVote => VotedFor'[i] = VotedFor[i]

Saves(i) ==
    /\ ~stopped[i]
    /\ Holds(i)
    /\ persisted'[i].term = Term'[i] /\ persisted'[i].vote = VotedFor'[i]
    /\ \A j \in Server \ {i} : /\ Term'[j] = Term[j] /\ VotedFor'[j] = VotedFor[j]
                               /\ persisted'[j] = persisted[j]
    /\ stopped' = stopped

Rests ==
    /\ UNCHANGED <<Term, VotedFor, persisted>>
    /\ \A j \in Server : stopped[j] => stopped'[j]

Stops(i) ==
    /\ stopped'[i]
    /\ Holds(i)
    /\ \A j \in Server \ {i} : /\ Term'[j] = Term[j] /\ VotedFor'[j] = VotedFor[j]
                               /\ stopped'[j] = stopped[j]
    /\ UNCHANGED persisted

Restores(i) ==
    /\ Term'[i] = persisted[i].term /\ VotedFor'[i] = persisted[i].vote
    /\ ~stopped'[i]
    /\ \A j \in Server \ {i} : /\ Term'[j] = Term[j] /\ VotedFor'[j] = VotedFor[j]
                               /\ stopped'[j] = stopped[j]
    /\ UNCHANGED persisted

\* The election goroutine saves a new candidacy and touches neither otherwise.
LEMMA ElectionKinds ==
  ASSUME TypeOK, NEW i \in Server, ElectionStep(i)
  PROVE  Saves(i) \/ Rests
<1>. USE DEF durableVars, lifeVars, workVars, mainVars, roleVars, netVars, histVars
<1>1. Term \in [Server -> Nat] /\ VotedFor \in [Server -> Server \cup {NoVote}]
      /\ persisted \in [Server -> [term : Nat, vote : Server \cup {NoVote}, log : Seq(Entry)]]
  BY DEF TypeOK, PeerTypes
<1>2. CASE Tick(i)
  BY <1>1, <1>2 DEF Tick, Free, Persist, Saves, Holds
<1>3. CASE DrainHB(i) \/ BreakLoop(i) \/ StartAsLeader(i) \/ RecvDemote(i)
  BY <1>3 DEF DrainHB, BreakLoop, StartAsLeader, RecvDemote, Rests
<1>4. CASE \E c \in cands[i] : Decide(i, c)
  BY <1>4 DEF Decide, Rests
<1>5. QED  BY <1>2, <1>3, <1>4 DEF ElectionStep

\* A vote request and a reply that makes the peer step down both end in persist().
LEMMA VoteKinds ==
  ASSUME TypeOK, NEW i \in Server, VoteStep(i)
  PROVE  Saves(i) \/ Rests
<1>. USE DEF durableVars, lifeVars, workVars, mainVars, roleVars, netVars, histVars
<1>1. Term \in [Server -> Nat] /\ VotedFor \in [Server -> Server \cup {NoVote}]
      /\ persisted \in [Server -> [term : Nat, vote : Server \cup {NoVote}, log : Seq(Entry)]]
  BY DEF TypeOK, PeerTypes
<1>2. ASSUME NEW m \in voteReqs, HandleRequestVote(i, m)
      PROVE  Saves(i)
  <2>1. m.term \in Nat /\ m.from \in Server
    BY DEF TypeOK, NetTypes, VoteReq
  <2>2. Term'[i] >= Term[i] /\ (m.term > Term[i] => Term'[i] = m.term)
    BY <1>1, <1>2, <2>1 DEF HandleRequestVote, Maximum
  <2>3. Term'[i] = Term[i] /\ VotedFor[i] # NoVote => VotedFor'[i] = VotedFor[i]
    BY <1>1, <1>2, <2>1, <2>2 DEF HandleRequestVote, Grants
  <2>4. QED  BY <1>1, <1>2, <2>2, <2>3 DEF HandleRequestVote, Free, Persist, Saves, Holds
<1>3. ASSUME NEW c \in cands[i], NEW r \in voteReps, VoteReplyStepDown(i, c, r)
      PROVE  Saves(i)
  <2>1. r.term \in Nat
    BY DEF TypeOK, NetTypes, VoteRep
  <2>2. QED
    BY <1>1, <1>3, <2>1 DEF VoteReplyStepDown, StepsDown, Free, Persist, Saves, Holds
<1>4. ASSUME NEW c \in cands[i], NEW r \in voteReps, VoteReply(i, c, r)
      PROVE  Rests
  BY <1>4 DEF VoteReply, Rests
<1>5. QED  BY <1>2, <1>3, <1>4 DEF VoteStep

\* HandleAppendEntries ends in persist(), whatever it answers.
LEMMA AppendEntriesKinds ==
  ASSUME TypeOK, NEW i \in Server, AppendEntriesStep(i)
  PROVE  Saves(i)
<1>. USE DEF durableVars, lifeVars, workVars, mainVars, roleVars, netVars, histVars
<1>1. Term \in [Server -> Nat] /\ VotedFor \in [Server -> Server \cup {NoVote}]
      /\ persisted \in [Server -> [term : Nat, vote : Server \cup {NoVote}, log : Seq(Entry)]]
  BY DEF TypeOK, PeerTypes
<1>2. ASSUME NEW m \in appendReqs, HandleAppendEntries(i, m)
      PROVE  Saves(i)
  <2>1. m.term \in Nat
    BY DEF TypeOK, NetTypes, AppendReq
  <2>2. QED  BY <1>1, <1>2, <2>1 DEF HandleAppendEntries, Free, Persist, Saves, Holds
<1>3. ASSUME NEW m \in appendReqs, RefuseAppendEntries(i, m)
      PROVE  Saves(i)
  BY <1>1, <1>3 DEF RefuseAppendEntries, Free, Persist, Saves, Holds
<1>4. QED  BY <1>2, <1>3 DEF AppendEntriesStep

\* A region that blocks has saved nothing, and its peer has stopped.
LEMMA BlockKinds ==
  ASSUME TypeOK, NEW i \in Server, BlockStep(i)
  PROVE  Stops(i)
<1>. USE DEF durableVars, lifeVars, workVars, mainVars, roleVars, netVars, histVars
<1>1. Term \in [Server -> Nat] /\ stopped \in [Server -> BOOLEAN]
  BY DEF TypeOK, PeerTypes, LifeTypes
<1>2. ASSUME NEW m \in voteReqs, RequestVoteBlocks(i, m)
      PROVE  Stops(i)
  <2>1. m.term \in Nat
    BY DEF TypeOK, NetTypes, VoteReq
  <2>2. QED  BY <1>1, <1>2, <2>1 DEF RequestVoteBlocks, HandlerBlocks, Stops, Holds
<1>3. ASSUME NEW m \in appendReqs, AppendEntriesBlocks(i, m)
      PROVE  Stops(i)
  <2>1. m.term \in Nat
    BY DEF TypeOK, NetTypes, AppendReq
  <2>2. QED  BY <1>1, <1>3, <2>1 DEF AppendEntriesBlocks, HandlerBlocks, Stops, Holds
<1>4. ASSUME NEW c \in cands[i], NEW r \in voteReps, VoteReplyBlocks(i, c, r)
      PROVE  Stops(i)
  BY <1>1, <1>4 DEF VoteReplyBlocks, Stops, Holds
<1>5. QED  BY <1>2, <1>3, <1>4 DEF BlockStep

\* Of the heartbeat regions, the one that steps down persists.
LEMMA HeartBeatKinds ==
  ASSUME TypeOK, NEW i \in Server, HeartBeatStep(i)
  PROVE  Saves(i) \/ Rests
<1>. USE DEF durableVars, lifeVars, workVars, mainVars, roleVars, netVars, histVars
<1>1. Term \in [Server -> Nat] /\ VotedFor \in [Server -> Server \cup {NoVote}]
      /\ persisted \in [Server -> [term : Nat, vote : Server \cup {NoVote}, log : Seq(Entry)]]
  BY DEF TypeOK, PeerTypes
<1>2. CASE HeartBeatRound(i) \/ SendHeartBeat(i)
  BY <1>2 DEF HeartBeatRound, SendHeartBeat, Rests
<1>3. ASSUME NEW r \in appendReps, BeatReplyStepDown(i, r)
      PROVE  Saves(i)
  <2>1. r.term \in Nat
    BY DEF TypeOK, NetTypes, AppendRep
  <2>2. QED  BY <1>1, <1>3, <2>1 DEF BeatReplyStepDown, Free, Persist, Saves, Holds
<1>4. ASSUME NEW r \in appendReps, BeatReply(i, r)
      PROVE  Rests
  BY <1>4 DEF BeatReply, Rests
<1>5. ASSUME NEW m \in appendReqs \cup appendReps, CallFails(i, m)
      PROVE  Rests
  BY <1>5 DEF CallFails, Rests
<1>6. QED  BY <1>2, <1>3, <1>4, <1>5 DEF HeartBeatStep

\* Of the regions of Start and its sends, the append persists.
LEMMA StartKinds ==
  ASSUME TypeOK, NEW i \in Server, StartStep(i)
  PROVE  Saves(i) \/ Rests
<1>. USE DEF durableVars, lifeVars, workVars, mainVars, roleVars, netVars, histVars
<1>1. Term \in [Server -> Nat] /\ VotedFor \in [Server -> Server \cup {NoVote}]
      /\ persisted \in [Server -> [term : Nat, vote : Server \cup {NoVote}, log : Seq(Entry)]]
  BY DEF TypeOK, PeerTypes
<1>2. CASE StartCheck(i)
  BY <1>2 DEF StartCheck, Rests
<1>3. ASSUME NEW cmd \in starting[i], StartAppend(i, cmd)
      PROVE  Saves(i)
  BY <1>1, <1>3 DEF StartAppend, Free, Persist, Saves, Holds
<1>4. ASSUME NEW s \in spawned[i], AppendCheck(i, s)
      PROVE  Rests
  BY <1>4 DEF AppendCheck, Rests
<1>5. ASSUME NEW s \in building[i], AppendBuild(i, s)
      PROVE  Rests
  BY <1>5 DEF AppendBuild, Rests
<1>6. ASSUME NEW a \in appending, AppendSend(i, a) \/ AppendEncode(i, a)
      PROVE  Rests
  BY <1>6 DEF AppendSend, AppendEncode, Rests
<1>7. QED  BY <1>2, <1>3, <1>4, <1>5, <1>6 DEF StartStep

\* The regions of an append reply change neither term nor vote.
LEMMA AppendReplyKinds ==
  ASSUME TypeOK, NEW i \in Server, AppendReplyStep(i)
  PROVE  Rests
<1>. USE DEF durableVars, lifeVars, workVars, mainVars, roleVars, netVars, histVars
<1>1. stopped \in [Server -> BOOLEAN]
  BY DEF TypeOK, LifeTypes
<1>2. ASSUME NEW r \in appendReps, AppendReplySuccess(i, r)
      PROVE  Rests
  BY <1>2 DEF AppendReplySuccess, Rests
<1>3. ASSUME NEW r \in appendReps, AppendReplyFailure(i, r)
      PROVE  Rests
  BY <1>1, <1>3 DEF AppendReplyFailure, Rests
<1>4. QED  BY <1>2, <1>3 DEF AppendReplyStep

\* A restart reads both back from the persister.
LEMMA CrashKind ==
  ASSUME TypeOK, NEW i \in Server, CrashRestart(i)
  PROVE  Restores(i)
BY DEF TypeOK, PeerTypes, LifeTypes, CrashRestart, Restores

\* Every step is of one of these kinds.
LEMMA StepKinds ==
  ASSUME TypeOK, [Next]_vars
  PROVE  Rests \/ \E i \in Server : Saves(i) \/ Stops(i) \/ Restores(i)
<1>1. CASE UNCHANGED vars
  BY <1>1 DEF vars, durableVars, lifeVars, Rests
<1>2. CASE Next
  BY <1>2, ElectionKinds, VoteKinds, AppendEntriesKinds, BlockKinds, HeartBeatKinds,
     StartKinds, AppendReplyKinds, CrashKind, Zenon DEF Next
<1>3. QED  BY <1>1, <1>2
-----------------------------------------------------------------------------
\* Every kind of step leaves saved what a running peer has.
LEMMA DurableStep ==
  ASSUME TypeOK, DurableVote, [Next]_vars
  PROVE  DurableVote'
<1>1. CASE Rests
  BY <1>1 DEF Rests, DurableVote
<1>2. CASE \E i \in Server : Saves(i)
  BY <1>2 DEF Saves, DurableVote
<1>3. CASE \E i \in Server : Stops(i)
  BY <1>3 DEF Stops, DurableVote
<1>4. CASE \E i \in Server : Restores(i)
  BY <1>4 DEF Restores, DurableVote
<1>5. QED  BY <1>1, <1>2, <1>3, <1>4, StepKinds

\* Whenever no region runs, the persister holds the term and the vote of every
\* peer that did not block: a crash loses neither.
THEOREM VoteIsDurable == Spec => []DurableVote
<1>1. Init => DurableVote
  BY DEF Init, DurableVote
<1>2. TypeOK /\ DurableVote /\ [Next]_vars => DurableVote'
  BY DurableStep
<1>3. QED  BY <1>1, <1>2, TypeCorrect, PTL DEF Spec

\* A running peer's term only grows, and its vote of a term is cast once,
\* through restarts too.
THEOREM VotesAreKept == Spec => VoteIsKept
<1>1. TypeOK /\ DurableVote /\ [Next]_vars =>
        [\A i \in Server : ~stopped[i] =>
           /\ Term'[i] >= Term[i]
           /\ Term'[i] = Term[i] /\ VotedFor[i] # NoVote => VotedFor'[i] = VotedFor[i]]_vars
  <2>. SUFFICES ASSUME TypeOK, DurableVote, [Next]_vars, NEW i \in Server, ~stopped[i]
                PROVE  Holds(i)
    BY DEF Holds
  <2>1. Term \in [Server -> Nat]
    BY DEF TypeOK, PeerTypes
  <2>2. CASE Rests
    BY <2>1, <2>2 DEF Rests, Holds
  <2>3. CASE \E j \in Server : Saves(j) \/ Stops(j)
    BY <2>1, <2>3 DEF Saves, Stops, Holds
  <2>4. CASE \E j \in Server : Restores(j)
    BY <2>1, <2>4 DEF Restores, DurableVote, Holds
  <2>5. QED  BY <2>2, <2>3, <2>4, StepKinds
<1>2. QED  BY <1>1, TypeCorrect, VoteIsDurable, PTL DEF Spec, VoteIsKept
-----------------------------------------------------------------------------
\* Every step keeps the election goroutine where the role of its peer needs it.
LEMMA LoopStep ==
  ASSUME TypeOK, LoopInv, [Next]_vars
  PROVE  LoopInv'
<1>. USE DEF durableVars, lifeVars, workVars, mainVars, roleVars, netVars, histVars,
             chanVars, loopVars, commitVars, peerVars, taskVars, voteNet, appendNet
<1>1. /\ State \in [Server -> Roles] /\ IsLeader \in [Server -> BOOLEAN]
      /\ BecomeFollwerFromLeader \in [Server -> BOOLEAN] /\ loop \in [Server -> Loops]
  BY DEF TypeOK, PeerTypes, MainTypes
<1>2. ASSUME UNCHANGED <<State, IsLeader, BecomeFollwerFromLeader, loop>>
      PROVE  LoopInv'
  BY <1>2 DEF LoopInv
<1>3. CASE UNCHANGED vars
  BY <1>2, <1>3 DEF vars
<1>4. ASSUME NEW i \in Server, ElectionStep(i)
      PROVE  LoopInv'
  <2>1. CASE Tick(i)
    BY <1>1, <2>1 DEF LoopInv, Tick
  <2>2. CASE DrainHB(i)
    BY <1>2, <2>2 DEF DrainHB
  <2>3. CASE \E c \in cands[i] : Decide(i, c)
    BY <1>2, <2>3 DEF Decide
  <2>4. CASE BreakLoop(i)
    BY <1>1, <2>4 DEF LoopInv, BreakLoop
  <2>5. CASE StartAsLeader(i)
    BY <1>1, <2>5 DEF LoopInv, StartAsLeader
  <2>6. CASE RecvDemote(i)
    BY <1>1, <2>6 DEF LoopInv, RecvDemote
  <2>7. QED  BY <1>4, <2>1, <2>2, <2>3, <2>4, <2>5, <2>6 DEF ElectionStep
<1>5. ASSUME NEW i \in Server, Notify(i), SetFollwer(i), UNCHANGED loop
      PROVE  LoopInv'
  BY <1>1, <1>5 DEF LoopInv, Notify, SetFollwer
<1>6. ASSUME NEW i \in Server, VoteStep(i)
      PROVE  LoopInv'
  <2>1. ASSUME NEW m \in voteReqs, HandleRequestVote(i, m)
        PROVE  LoopInv'
    <3>1. CASE m.term > Term[i]
      BY <1>5, <2>1, <3>1 DEF HandleRequestVote
    <3>2. CASE ~(m.term > Term[i])
      BY <1>2, <2>1, <3>2 DEF HandleRequestVote
    <3>3. QED  BY <3>1, <3>2
  <2>2. ASSUME NEW c \in cands[i], NEW r \in voteReps, VoteReplyStepDown(i, c, r)
        PROVE  LoopInv'
    BY <1>1, <2>2 DEF LoopInv, VoteReplyStepDown, SetFollwer
  <2>3. ASSUME NEW c \in cands[i], NEW r \in voteReps, VoteReply(i, c, r)
        PROVE  LoopInv'
    BY <1>2, <2>3 DEF VoteReply
  <2>4. QED  BY <1>6, <2>1, <2>2, <2>3 DEF VoteStep
<1>7. ASSUME NEW i \in Server, AppendEntriesStep(i)
      PROVE  LoopInv'
  <2>1. ASSUME NEW m \in appendReqs, HandleAppendEntries(i, m)
        PROVE  LoopInv'
    BY <1>5, <2>1 DEF HandleAppendEntries
  <2>2. ASSUME NEW m \in appendReqs, RefuseAppendEntries(i, m)
        PROVE  LoopInv'
    BY <1>2, <2>2 DEF RefuseAppendEntries
  <2>3. QED  BY <1>7, <2>1, <2>2 DEF AppendEntriesStep
<1>8. ASSUME NEW i \in Server, BlockStep(i)
      PROVE  LoopInv'
  BY <1>2, <1>8 DEF BlockStep, RequestVoteBlocks, AppendEntriesBlocks, VoteReplyBlocks,
                    HandlerBlocks
<1>9. ASSUME NEW i \in Server, HeartBeatStep(i)
      PROVE  LoopInv'
  <2>1. ASSUME NEW r \in appendReps, BeatReplyStepDown(i, r)
        PROVE  LoopInv'
    BY <1>1, <2>1 DEF LoopInv, BeatReplyStepDown, SetFollwer
  <2>2. CASE \/ HeartBeatRound(i) \/ SendHeartBeat(i)
             \/ \E r \in appendReps : BeatReply(i, r)
             \/ \E m \in appendReqs \cup appendReps : CallFails(i, m)
    BY <1>2, <2>2 DEF HeartBeatRound, SendHeartBeat, BeatReply, CallFails
  <2>3. QED  BY <1>9, <2>1, <2>2 DEF HeartBeatStep
<1>10. ASSUME NEW i \in Server, StartStep(i)
       PROVE  LoopInv'
  BY <1>2, <1>10 DEF StartStep, StartCheck, StartAppend, AppendCheck, AppendBuild, AppendSend,
               AppendEncode
<1>11. ASSUME NEW i \in Server, AppendReplyStep(i)
       PROVE  LoopInv'
  BY <1>2, <1>11 DEF AppendReplyStep, AppendReplySuccess, AppendReplyFailure
<1>12. ASSUME NEW i \in Server, CrashRestart(i)
       PROVE  LoopInv'
  BY <1>1, <1>12 DEF LoopInv, CrashRestart
<1>13. QED
  BY <1>3, <1>4, <1>6, <1>7, <1>8, <1>9, <1>10, <1>11, <1>12, Zenon DEF Next

\* A leader's election goroutine is past startAsLeader and its demotion channel
\* is empty; a pending demotion finds the goroutine waiting for it.
THEOREM LoopCorrect == Spec => []LoopInv
<1>1. Init => LoopInv
  BY DEF Init, LoopInv
<1>2. TypeOK /\ LoopInv /\ [Next]_vars => LoopInv'
  BY LoopStep
<1>3. QED  BY <1>1, <1>2, TypeCorrect, PTL DEF Spec

\* A leader's election goroutine waits for the demotion, and the channel it
\* waits on is empty: the send that demotes the leader never blocks.
THEOREM LeadersAwaitDemotion == Spec => []LeaderAwaitsDemotion
<1>1. LoopInv => LeaderAwaitsDemotion
  BY DEF LoopInv, LeaderAwaitsDemotion
<1>2. QED  BY <1>1, LoopCorrect, PTL
-----------------------------------------------------------------------------
\* Votes.

\* A voter that has saved a vote for i in term t, or a later term, never comes
\* to have saved anything that allows it another vote in t.
LEMMA PromisesKept ==
  ASSUME TypeOK, TypeOK', DurableVote, [Next]_vars,
         NEW v \in Server, NEW t \in Nat, NEW i \in Server, Promised(v, t, i)
  PROVE  Promised(v, t, i)'
<1>1. /\ persisted \in [Server -> [term : Nat, vote : Server \cup {NoVote}, log : Seq(Entry)]]
      /\ Term[v] \in Nat /\ i # NoVote
  BY DEF TypeOK, PeerTypes, Server, NoVote
<1>2. CASE persisted' = persisted
  BY <1>2 DEF Promised
<1>3. ASSUME NEW j \in Server, Saves(j)
      PROVE  Promised(v, t, i)'
  <2>1. CASE v # j
    BY <1>3, <2>1 DEF Saves, Promised
  <2>2. CASE v = j
    <3>1. /\ persisted[v].term = Term[v] /\ persisted[v].vote = VotedFor[v]
          /\ persisted'[v].term = Term'[v] /\ persisted'[v].vote = VotedFor'[v]
          /\ Holds(v)
      BY <1>3, <2>2 DEF Saves, DurableVote
    <3>2. Term[v] \in Nat /\ Term'[v] \in Nat
      BY DEF TypeOK, PeerTypes
    <3>3. CASE persisted[v].term > t
      BY <1>1, <3>1, <3>2, <3>3 DEF Holds, Promised
    <3>4. CASE persisted[v].term = t /\ persisted[v].vote = i
      BY <1>1, <3>1, <3>2, <3>4 DEF Holds, Promised
    <3>5. QED  BY <3>3, <3>4 DEF Promised
  <2>3. QED  BY <2>1, <2>2
<1>4. QED  BY <1>2, <1>3, StepKinds DEF Rests, Stops, Restores

\* Terms only grow while no peer restarts.
LEMMA TermsGrow ==
  ASSUME TypeOK, Rests \/ \E i \in Server : Saves(i) \/ Stops(i)
  PROVE  \A j \in Server : Term'[j] >= Term[j]
<1>1. Term \in [Server -> Nat]
  BY DEF TypeOK, PeerTypes
<1>2. QED  BY <1>1 DEF Rests, Saves, Stops, Holds

\* A tally is of a term, and its votes are of peers.
LEMMA TallyType ==
  ASSUME TypeOK, NEW i \in Server, NEW b \in Tally(i)
  PROVE  b.term \in Nat /\ b.votes \in SUBSET Server
<1>1. electionResult[i] \in Result /\ won[i] \in Result /\ cands[i] \in SUBSET Candidacy
  BY DEF TypeOK, MainTypes
<1>2. QED  BY <1>1 DEF Tally, Result, Candidacy

\* A tally that takes over no new vote: it is empty, or counts some of the
\* votes of an earlier one.
Inherited(i, b) ==
    \/ b = NoWin
    \/ \E d \in Tally(i) : d.term = b.term /\ b.votes \subseteq d.votes

\* A step that counts no new vote and answers no request keeps VoteInv.
LEMMA NoNewVote ==
  ASSUME TypeOK, TypeOK', DurableVote, VoteInv, [Next]_vars,
         \A i \in Server : \A b \in Tally(i)' : Inherited(i, b),
         \A i \in Server : Term'[i] >= Term[i] \/ Tally(i)' \subseteq {NoWin},
         Granted' \subseteq Granted,
         WinsAreMajorities'
  PROVE  VoteInv'
<1>1. Term \in [Server -> Nat] /\ Term' \in [Server -> Nat]
  BY DEF TypeOK, PeerTypes
<1>2. NoWin.term = 0 /\ NoWin.votes = {}
  BY DEF NoWin
<1>3. ASSUME NEW i \in Server, NEW b \in Current(i)', b # NoWin
      PROVE  \E d \in Current(i) : d.term = b.term /\ b.votes \subseteq d.votes
  <2>1. b \in Tally(i)' /\ b.term = Term'[i]
    BY <1>3 DEF Current
  <2>2. PICK d \in Tally(i) : d.term = b.term /\ b.votes \subseteq d.votes
    BY <1>3, <2>1 DEF Inherited
  <2>3. d.term <= Term[i] /\ Term'[i] >= Term[i] /\ d.term \in Nat
    BY <1>3, <2>1, TallyType DEF VoteInv, TalliesPromised
  <2>4. d.term = Term[i]
    BY <1>1, <2>1, <2>2, <2>3
  <2>5. QED  BY <2>2, <2>4 DEF Current
<1>4. ASSUME NEW r \in Granted
      PROVE  /\ r.from \in Server /\ r.to \in Server /\ r.term \in Nat /\ r.cand <= r.term
             /\ Promised(r.from, r.term, r.to) /\ Promised(r.from, r.term, r.to)'
  <2>1. r.from \in Server /\ r.to \in Server /\ r.term \in Nat
    BY DEF TypeOK, NetTypes, VoteRep, Granted
  <2>2. QED  BY <2>1, PromisesKept DEF VoteInv, GrantsPromised
<1>5. TalliesPromised'
  <2>1. ASSUME NEW i \in Server, NEW b \in Tally(i)'
        PROVE  b.term <= Term'[i]
    <3>1. CASE b = NoWin
      BY <1>1, <1>2, <3>1
    <3>2. CASE b # NoWin
      <4>1. PICK d \in Tally(i) : d.term = b.term
        BY <2>1, <3>2 DEF Inherited
      <4>2. d.term <= Term[i] /\ d.term \in Nat
        BY TallyType DEF VoteInv, TalliesPromised
      <4>3. Term'[i] >= Term[i]
        BY <2>1, <3>2
      <4>4. QED  BY <1>1, <4>1, <4>2, <4>3
    <3>3. QED  BY <3>1, <3>2
  <2>2. ASSUME NEW i \in Server, NEW b \in Current(i)', NEW v \in b.votes
        PROVE  Promised(v, b.term, i)'
    <3>1. b # NoWin
      BY <1>2, <2>2
    <3>2. PICK d \in Current(i) : d.term = b.term /\ b.votes \subseteq d.votes
      BY <1>3, <3>1
    <3>3. Promised(v, d.term, i)
      BY <2>2, <3>2 DEF VoteInv, TalliesPromised
    <3>4. d.term \in Nat /\ v \in Server
      BY <2>2, <3>2, TallyType DEF Current
    <3>5. QED  BY <3>2, <3>3, <3>4, PromisesKept
  <2>3. QED  BY <2>1, <2>2 DEF TalliesPromised
<1>6. GrantsPromised'
  BY <1>4 DEF GrantsPromised
<1>7. TalliesAgree'
  <2>1. ASSUME NEW i \in Server, NEW j \in Server, NEW b \in Current(i)', NEW d \in Current(j)',
               b.term = d.term, NEW v \in b.votes \cap d.votes
        PROVE  i = j
    <3>1. b # NoWin /\ d # NoWin
      BY <1>2, <2>1
    <3>2. PICK x \in Current(i) : x.term = b.term /\ b.votes \subseteq x.votes
      BY <1>3, <3>1
    <3>3. PICK y \in Current(j) : y.term = d.term /\ d.votes \subseteq y.votes
      BY <1>3, <3>1
    <3>4. v \in x.votes \cap y.votes /\ x.term = y.term
      BY <2>1, <3>2, <3>3
    <3>5. QED  BY <3>4 DEF VoteInv, TalliesAgree
  <2>2. QED  BY <2>1 DEF TalliesAgree
<1>8. GrantsAgreeWithTallies'
  <2>1. ASSUME NEW r \in Granted', NEW j \in Server, NEW d \in Current(j)',
               d.term = r.term, r.from \in d.votes
        PROVE  r.to = j
    <3>1. d # NoWin
      BY <1>2, <2>1
    <3>2. PICK y \in Current(j) : y.term = d.term /\ d.votes \subseteq y.votes
      BY <1>3, <3>1
    <3>3. QED  BY <2>1, <3>2 DEF VoteInv, GrantsAgreeWithTallies
  <2>2. QED  BY <2>1 DEF GrantsAgreeWithTallies
<1>9. GrantsAgree'
  BY DEF VoteInv, GrantsAgree
<1>10. QED  BY <1>5, <1>6, <1>7, <1>8, <1>9 DEF VoteInv

\* A step that leaves candidacies, results and the election goroutine alone.
LEMMA QuietStep ==
  ASSUME TypeOK, DurableVote, VoteInv, [Next]_vars,
         UNCHANGED <<cands, electionResult, won, loop>>,
         voteReps' \subseteq voteReps,
         Rests \/ \E i \in Server : Saves(i) \/ Stops(i)
  PROVE  VoteInv'
<1>1. TypeOK'
  BY TypeStep
<1>2. \A i \in Server : \A b \in Tally(i)' : Inherited(i, b)
  BY DEF Tally, Inherited
<1>3. \A i \in Server : Term'[i] >= Term[i]
  BY TermsGrow
<1>4. Granted' \subseteq Granted
  BY DEF Granted
<1>5. WinsAreMajorities'
  BY DEF VoteInv, WinsAreMajorities
<1>6. QED  BY <1>1, <1>2, <1>3, <1>4, <1>5, NoNewVote

\* The election goroutine moves tallies about; it adds no vote but a
\* candidate's own.
LEMMA MovedTallies ==
  ASSUME TypeOK, DurableVote, VoteInv, NEW i \in Server,
         \/ DrainHB(i) \/ \E c \in cands[i] : Decide(i, c)
         \/ BreakLoop(i) \/ StartAsLeader(i) \/ RecvDemote(i)
  PROVE  VoteInv'
<1>. USE DEF durableVars, lifeVars, workVars, mainVars, roleVars, netVars, histVars,
             chanVars, loopVars, commitVars, peerVars, taskVars, voteNet, appendNet
<1>1. Next
  BY Zenon DEF Next, ElectionStep
<1>2. TypeOK'
  BY <1>1, TypeStep
<1>3. /\ Term \in [Server -> Nat] /\ loop \in [Server -> Loops]
      /\ electionResult \in [Server -> Result] /\ won \in [Server -> Result]
      /\ cands \in [Server -> SUBSET Candidacy]
  BY DEF TypeOK, PeerTypes, MainTypes
<1>4. Term' = Term /\ Granted' \subseteq Granted
  BY DEF DrainHB, Decide, BreakLoop, StartAsLeader, RecvDemote, Granted
<1>5. \A j \in Server : Term'[j] >= Term[j]
  BY <1>3, <1>4
<1>6. SUFFICES /\ \A j \in Server : \A b \in Tally(j)' : Inherited(j, b)
               /\ WinsAreMajorities'
  BY <1>1, <1>2, <1>4, <1>5, NoNewVote
<1>7. CASE DrainHB(i) \/ RecvDemote(i)
  <2>1. /\ UNCHANGED <<electionResult, won>>
        /\ cands' = [cands EXCEPT ![i] = Rearm(@)]
        /\ \A j \in Server : loop'[j] = loop[j] \/ loop'[j] = "follow"
    BY <1>3, <1>7 DEF DrainHB, RecvDemote
  <2>2. WinsAreMajorities'
    BY <2>1 DEF VoteInv, WinsAreMajorities
  <2>3. \A b \in Rearm(cands[i]) : \E c \in cands[i] : b.term = c.term /\ b.votes = c.votes
    BY <1>3 DEF Rearm, Candidacy
  <2>4. \A j \in Server : \A b \in Tally(j)' : Inherited(j, b)
    BY <1>3, <2>1, <2>3 DEF Tally, Inherited
  <2>5. QED  BY <2>2, <2>4
<1>8. ASSUME NEW c \in cands[i], Decide(i, c)
      PROVE  /\ \A j \in Server : \A b \in Tally(j)' : Inherited(j, b)
             /\ WinsAreMajorities'
  <2>1. /\ electionResult' = [electionResult EXCEPT ![i] = [term |-> c.term, votes |-> c.votes]]
        /\ cands' = [cands EXCEPT ![i] = (@ \ {c}) \cup {Close(c)}]
        /\ UNCHANGED <<won, loop>> /\ IsMajority(c.votes)
    BY <1>8 DEF Decide, CanWin
  <2>2. WinsAreMajorities'
    BY <1>3, <2>1 DEF VoteInv, WinsAreMajorities
  <2>3. Close(c).term = c.term /\ Close(c).votes \subseteq c.votes
    BY <1>3 DEF Close, Candidacy
  <2>4. \A j \in Server : \A b \in Tally(j)' : Inherited(j, b)
    BY <1>3, <2>1, <2>3 DEF Tally, Inherited
  <2>5. QED  BY <2>2, <2>4
<1>9. CASE BreakLoop(i)
  <2>1. /\ won' = [won EXCEPT ![i] = electionResult[i]]
        /\ electionResult' = [electionResult EXCEPT ![i] = NoWin]
        /\ cands' = [cands EXCEPT ![i] = Rearm({Close(c) : c \in @})]
        /\ electionResult[i] # NoWin
        /\ loop' = [loop EXCEPT ![i] = "won"] /\ loop[i] = "follow"
    BY <1>9 DEF BreakLoop
  <2>2. WinsAreMajorities'
    BY <1>3, <2>1 DEF VoteInv, WinsAreMajorities
  <2>3. \A b \in Rearm({Close(c) : c \in cands[i]}) :
           \E c \in cands[i] : b.term = c.term /\ b.votes \subseteq c.votes
    <3>. DEFINE cs == {Close(c) : c \in cands[i]}
    <3>1. cs \in SUBSET Candidacy
      BY <1>3, CandidacySets
    <3>2. \A c \in cands[i] : Close(c).term = c.term /\ Close(c).votes = {}
      BY <1>3 DEF Close, Candidacy
    <3>3. \A d \in cs : \E c \in cands[i] : d.term = c.term /\ d.votes \subseteq c.votes
      BY <3>2
    <3>. HIDE DEF cs
    <3>4. \A b \in Rearm(cs) : \E d \in cs : b.term = d.term /\ b.votes = d.votes
      BY <3>1 DEF Rearm, Candidacy
    <3>5. \A b \in Rearm(cs) : \E c \in cands[i] : b.term = c.term /\ b.votes \subseteq c.votes
      BY <3>3, <3>4
    <3>6. QED  BY <3>5 DEF cs
  <2>4. ASSUME NEW j \in Server, NEW b \in Tally(j)'
        PROVE  Inherited(j, b)
    <3>1. CASE j # i
      BY <1>3, <2>1, <3>1 DEF Tally, Inherited
    <3>2. CASE j = i
      <4>1. \/ b = NoWin \/ b = electionResult[i]
            \/ \E c \in Rearm({Close(c) : c \in cands[i]}) : b = [term |-> c.term, votes |-> c.votes]
        BY <1>3, <2>1, <3>2 DEF Tally
      <4>2. electionResult[i] \in Tally(i)
        BY DEF Tally
      <4>3. \A c \in cands[i] : [term |-> c.term, votes |-> c.votes] \in Tally(i)
        BY DEF Tally
      <4>4. CASE b = NoWin \/ b = electionResult[i]
        BY <3>2, <4>2, <4>4 DEF Inherited
      <4>5. ASSUME NEW d \in Rearm({Close(c) : c \in cands[i]}),
                   b = [term |-> d.term, votes |-> d.votes]
            PROVE  Inherited(j, b)
        <5>1. PICK c \in cands[i] : d.term = c.term /\ d.votes \subseteq c.votes
          BY <2>3
        <5>2. [term |-> c.term, votes |-> c.votes] \in Tally(i)
          BY <4>3
        <5>3. QED  BY <3>2, <4>5, <5>1, <5>2 DEF Inherited
      <4>6. QED  BY <4>1, <4>4, <4>5
    <3>3. QED  BY <3>1, <3>2
  <2>5. QED  BY <2>2, <2>4
<1>10. CASE StartAsLeader(i)
  <2>1. /\ UNCHANGED <<electionResult, won, cands>>
        /\ loop' = [loop EXCEPT ![i] = "lead"] /\ loop[i] = "won"
    BY <1>10 DEF StartAsLeader
  <2>2. WinsAreMajorities'
    BY <1>3, <2>1 DEF VoteInv, WinsAreMajorities
  <2>3. \A j \in Server : \A b \in Tally(j)' : Inherited(j, b)
    BY <2>1 DEF Tally, Inherited
  <2>4. QED  BY <2>2, <2>3
<1>11. QED  BY <1>7, <1>8, <1>9, <1>10

\* A new candidacy: the peer's one current tally is its own vote, which nobody
\* can have had in the new term.
LEMMA TickVotes ==
  ASSUME TypeOK, DurableVote, VoteInv, NEW i \in Server, Tick(i)
  PROVE  VoteInv'
<1>. USE DEF durableVars, lifeVars, workVars, mainVars, roleVars, netVars, histVars,
             chanVars, loopVars, commitVars, peerVars, taskVars, voteNet, appendNet
<1>. DEFINE t   == Term[i] + 1
            own == [term |-> t, votes |-> {i}]
<1>1. Next
  BY Zenon DEF Next, ElectionStep
<1>2. TypeOK'
  BY <1>1, TypeStep
<1>3. /\ Term \in [Server -> Nat] /\ cands \in [Server -> SUBSET Candidacy]
      /\ persisted \in [Server -> [term : Nat, vote : Server \cup {NoVote}, log : Seq(Entry)]]
      /\ i # NoVote
  BY DEF TypeOK, PeerTypes, MainTypes, Server, NoVote
<1>4. /\ Term' = [Term EXCEPT ![i] = t]
      /\ cands' = [cands EXCEPT ![i] = Surviving(@) \cup
                     {[term |-> t, votes |-> {i}, clock |-> "armed", open |-> TRUE]}]
      /\ UNCHANGED <<electionResult, won, loop>>
      /\ Granted' \subseteq Granted
      /\ persisted[i].term = Term[i]
      /\ persisted'[i].term = t /\ persisted'[i].vote = i
  <2>1. /\ Term' = [Term EXCEPT ![i] = t]
        /\ cands' = [cands EXCEPT ![i] = Surviving(@) \cup
                       {[term |-> t, votes |-> {i}, clock |-> "armed", open |-> TRUE]}]
        /\ UNCHANGED <<electionResult, won, loop>>
    BY DEF Tick
  <2>2. Granted' \subseteq Granted
    BY DEF Tick, Granted
  <2>3. persisted[i].term = Term[i]
    BY DEF Tick, Free, DurableVote
  <2>4. VotedFor'[i] = i
    BY DEF Tick, TypeOK, PeerTypes
  <2>5. persisted'[i].term = t /\ persisted'[i].vote = i
    BY <1>3, <2>1, <2>4 DEF Tick, Persist
  <2>6. QED  BY <2>1, <2>2, <2>3, <2>5
<1>5. ASSUME NEW b \in Tally(i)', b # own
      PROVE  b.term \in Nat /\ b.term < t
  <2>1. \A c \in Surviving(cands[i]) : \E d \in cands[i] : c.term = d.term /\ c.votes = d.votes
    <3>1. cands[i] \in SUBSET Candidacy
      BY <1>3
    <3>2. \A d \in cands[i] : [d EXCEPT !.clock = "late"].term = d.term
                              /\ [d EXCEPT !.clock = "late"].votes = d.votes
      BY <3>1 DEF Candidacy
    <3>3. QED  BY <3>2 DEF Surviving
  <2>2. \E d \in Tally(i) : d.term = b.term
    <3>1. \/ b \in {electionResult[i], won[i]}
          \/ \E c \in Surviving(cands[i]) : b = [term |-> c.term, votes |-> c.votes]
      BY <1>3, <1>4, <1>5 DEF Tally
    <3>2. CASE b \in {electionResult[i], won[i]}
      BY <3>2 DEF Tally
    <3>3. ASSUME NEW c \in Surviving(cands[i]), b = [term |-> c.term, votes |-> c.votes]
          PROVE  \E d \in Tally(i) : d.term = b.term
      <4>1. PICK d \in cands[i] : c.term = d.term
        BY <2>1
      <4>2. [term |-> d.term, votes |-> d.votes] \in Tally(i)
        BY DEF Tally
      <4>3. QED  BY <3>3, <4>1, <4>2
    <3>4. QED  BY <3>1, <3>2, <3>3
  <2>3. QED  BY <1>3, <2>2, TallyType DEF VoteInv, TalliesPromised
<1>6. \A b \in Current(i)' : b = own
  BY <1>3, <1>4, <1>5 DEF Current
<1>7. \A j \in Server \ {i} : Tally(j)' = Tally(j) /\ Current(j)' = Current(j)
  BY <1>3, <1>4 DEF Current, Tally
<1>8. \A j \in Server : ~Promised(i, t, j)
  BY <1>3, <1>4 DEF Promised
<1>9. TalliesPromised'
  <2>1. \A b \in Tally(i)' : b.term <= Term'[i]
    BY <1>3, <1>4, <1>5
  <2>2. \A b \in Current(i)' : \A v \in b.votes : Promised(v, b.term, i)'
    BY <1>4, <1>6 DEF Promised
  <2>3. ASSUME NEW j \in Server \ {i}, NEW b \in Current(j), NEW v \in b.votes
        PROVE  Promised(v, b.term, j)'
    <3>1. v \in Server /\ b.term \in Nat /\ Promised(v, b.term, j)
      BY <2>3, TallyType DEF Current, VoteInv, TalliesPromised
    <3>2. QED  BY <1>1, <1>2, <3>1, PromisesKept
  <2>4. \A j \in Server \ {i} : \A b \in Tally(j) : b.term <= Term'[j]
    BY <1>3, <1>4 DEF VoteInv, TalliesPromised
  <2>5. QED  BY <1>7, <2>1, <2>2, <2>3, <2>4 DEF TalliesPromised
<1>10. ASSUME NEW r \in Granted
       PROVE  /\ r.from \in Server /\ r.to \in Server /\ r.term \in Nat /\ r.cand <= r.term
              /\ Promised(r.from, r.term, r.to) /\ Promised(r.from, r.term, r.to)'
  <2>1. r.from \in Server /\ r.to \in Server /\ r.term \in Nat
    BY DEF TypeOK, NetTypes, VoteRep, Granted
  <2>2. QED  BY <1>1, <1>2, <2>1, PromisesKept DEF VoteInv, GrantsPromised
<1>11. GrantsPromised'
  BY <1>4, <1>10 DEF GrantsPromised
<1>12. ASSUME NEW j \in Server \ {i}, NEW d \in Current(j), d.term = t
       PROVE  i \notin d.votes
  BY <1>8, <1>12 DEF VoteInv, TalliesPromised
<1>13. TalliesAgree'
  <2>1. ASSUME NEW j \in Server, NEW k \in Server, NEW b \in Current(j)', NEW d \in Current(k)',
               b.term = d.term, b.votes \cap d.votes # {}
        PROVE  j = k
    <3>1. CASE j = i /\ k # i
      <4>1. b = own /\ d \in Current(k)
        BY <1>6, <1>7, <2>1, <3>1
      <4>2. QED  BY <1>12, <2>1, <3>1, <4>1
    <3>2. CASE j # i /\ k = i
      <4>1. d = own /\ b \in Current(j)
        BY <1>6, <1>7, <2>1, <3>2
      <4>2. QED  BY <1>12, <2>1, <3>2, <4>1
    <3>3. CASE j # i /\ k # i
      BY <1>7, <2>1, <3>3 DEF VoteInv, TalliesAgree
    <3>4. QED  BY <3>1, <3>2, <3>3
  <2>2. QED  BY <2>1 DEF TalliesAgree
<1>14. GrantsAgreeWithTallies'
  <2>1. ASSUME NEW r \in Granted', NEW j \in Server, NEW d \in Current(j)',
               d.term = r.term, r.from \in d.votes
        PROVE  r.to = j
    <3>1. CASE j = i
      <4>1. d = own
        BY <1>6, <2>1, <3>1
      <4>2. r \in Granted /\ r.from = i /\ r.term = t
        BY <1>4, <2>1, <4>1
      <4>3. QED  BY <1>8, <1>10, <4>2
    <3>2. CASE j # i
      BY <1>4, <1>7, <2>1, <3>2 DEF VoteInv, GrantsAgreeWithTallies
    <3>3. QED  BY <3>1, <3>2
  <2>2. QED  BY <2>1 DEF GrantsAgreeWithTallies
<1>15. GrantsAgree' /\ WinsAreMajorities'
  BY <1>4 DEF VoteInv, GrantsAgree, WinsAreMajorities
<1>16. QED  BY <1>9, <1>11, <1>13, <1>14, <1>15 DEF VoteInv

\* A vote is granted only while it is free in the voter's term: no tally and no
\* other answer has it.
LEMMA GrantVotes ==
  ASSUME TypeOK, DurableVote, VoteInv, NEW i \in Server,
         NEW m \in voteReqs, HandleRequestVote(i, m)
  PROVE  VoteInv'
<1>. USE DEF durableVars, lifeVars, workVars, mainVars, roleVars, netVars, histVars,
             chanVars, loopVars, commitVars, peerVars, taskVars, voteNet, appendNet
<1>. DEFINE t    == Maximum(Term[i], m.term)
            vote == IF m.term > Term[i] THEN NoVote ELSE VotedFor[i]
            new  == [from |-> i, to |-> m.from, cand |-> m.term, term |-> t,
                     granted |-> Grants(i, m, vote)]
<1>1. Next
  BY Zenon DEF Next, VoteStep
<1>2. TypeOK'
  BY <1>1, TypeStep
<1>3. /\ Term \in [Server -> Nat] /\ VotedFor \in [Server -> Server \cup {NoVote}]
      /\ persisted \in [Server -> [term : Nat, vote : Server \cup {NoVote}, log : Seq(Entry)]]
      /\ m.term \in Nat /\ m.from \in Server /\ \A j \in Server : j # NoVote
  <2>1. PeerTypes /\ NetTypes
    BY DEF TypeOK
  <2>2. m.term \in Nat /\ m.from \in Server
    BY <2>1 DEF NetTypes, VoteReq
  <2>3. \A j \in Server : j # NoVote
    BY PeersAssumption DEF Server, NoVote
  <2>4. QED  BY <2>1, <2>2, <2>3 DEF PeerTypes
<1>4. /\ Term' = [Term EXCEPT ![i] = t]
      /\ UNCHANGED <<cands, electionResult, won, loop>>
      /\ voteReps' \subseteq voteReps \cup {new}
      /\ persisted[i].term = Term[i] /\ persisted[i].vote = VotedFor[i]
      /\ persisted'[i].term = t
      /\ Grants(i, m, vote) => persisted'[i].vote = m.from
  BY <1>3 DEF HandleRequestVote, Persist, Free, DurableVote
<1>5. t \in Nat /\ t >= Term[i] /\ t >= m.term
  BY <1>3 DEF Maximum
<1>6. CASE ~Grants(i, m, vote)
  <2>1. \A j \in Server : \A b \in Tally(j)' : Inherited(j, b)
    BY <1>4 DEF Tally, Inherited
  <2>2. \A j \in Server : Term'[j] >= Term[j]
    BY <1>3, <1>4, <1>5
  <2>3. Granted' \subseteq Granted
    BY <1>4, <1>6 DEF Granted
  <2>4. WinsAreMajorities'
    BY <1>4 DEF VoteInv, WinsAreMajorities
  <2>5. QED  BY <1>1, <1>2, <2>1, <2>2, <2>3, <2>4, NoNewVote
<1>7. CASE Grants(i, m, vote)
  <2>1. \A j \in Server : ~Promised(i, t, j)
    BY <1>3, <1>4, <1>5, <1>7 DEF Grants, Promised, Maximum
  <2>2. ASSUME NEW x, x = t
        PROVE  Promised(i, x, m.from)'
    BY <1>4, <1>7, <2>2 DEF Promised
  <2>3. Granted' \subseteq Granted \cup {new}
    BY <1>4 DEF Granted
  <2>4. ASSUME NEW j \in Server
        PROVE  Tally(j)' = Tally(j) /\ Current(j)' \subseteq Current(j) /\ Term'[j] >= Term[j]
    <3>1. Tally(j)' = Tally(j)
      BY <1>4 DEF Tally
    <3>2. Term'[j] >= Term[j]
      BY <1>3, <1>4, <1>5
    <3>3. \A b \in Tally(j) : b.term \in Nat /\ b.term <= Term[j]
      BY TallyType DEF VoteInv, TalliesPromised
    <3>4. Term[j] \in Nat /\ Term'[j] \in Nat
      BY <1>3, <1>4, <1>5
    <3>5. QED  BY <3>1, <3>2, <3>3, <3>4 DEF Current
  <2>5. ASSUME NEW r \in Granted
        PROVE  /\ r.from \in Server /\ r.to \in Server /\ r.term \in Nat /\ r.cand <= r.term
               /\ Promised(r.from, r.term, r.to) /\ Promised(r.from, r.term, r.to)'
    <3>1. r.from \in Server /\ r.to \in Server /\ r.term \in Nat
      BY DEF TypeOK, NetTypes, VoteRep, Granted
    <3>2. QED  BY <1>1, <1>2, <3>1, PromisesKept DEF VoteInv, GrantsPromised
  <2>6. TalliesPromised'
    <3>1. ASSUME NEW j \in Server, NEW b \in Tally(j)
          PROVE  b.term <= Term'[j]
      BY <1>3, <1>4, <1>5, <2>4, TallyType DEF VoteInv, TalliesPromised
    <3>2. ASSUME NEW j \in Server, NEW b \in Current(j), NEW v \in b.votes
          PROVE  Promised(v, b.term, j)'
      <4>1. v \in Server /\ b.term \in Nat /\ Promised(v, b.term, j)
        BY <3>2, TallyType DEF Current, VoteInv, TalliesPromised
      <4>2. QED  BY <1>1, <1>2, <4>1, PromisesKept
    <3>3. QED  BY <2>4, <3>1, <3>2 DEF TalliesPromised
  <2>7. GrantsPromised'
    <3>1. ASSUME NEW r \in Granted', r = new
          PROVE  r.cand <= r.term /\ Promised(r.from, r.term, r.to)'
      BY <1>5, <2>2, <3>1
    <3>2. QED  BY <2>3, <2>5, <3>1 DEF GrantsPromised
  <2>8. TalliesAgree'
    BY <2>4 DEF VoteInv, TalliesAgree
  <2>9. GrantsAgreeWithTallies'
    <3>1. ASSUME NEW r \in Granted', NEW j \in Server, NEW d \in Current(j)',
                 d.term = r.term, r.from \in d.votes
          PROVE  r.to = j
      <4>1. d \in Current(j)
        BY <2>4, <3>1
      <4>2. CASE r \in Granted
        BY <3>1, <4>1, <4>2 DEF VoteInv, GrantsAgreeWithTallies
      <4>3. CASE r = new
        BY <2>1, <3>1, <4>1, <4>3 DEF VoteInv, TalliesPromised
      <4>4. QED  BY <2>3, <3>1, <4>2, <4>3
    <3>2. QED  BY <3>1 DEF GrantsAgreeWithTallies
  <2>10. GrantsAgree'
    <3>1. ASSUME NEW r \in Granted', NEW q \in Granted', r.term = q.term, r.from = q.from
          PROVE  r.to = q.to
      <4>1. CASE r \in Granted /\ q \in Granted
        BY <3>1, <4>1 DEF VoteInv, GrantsAgree
      <4>2. CASE r \in Granted /\ q = new
        BY <2>1, <2>5, <3>1, <4>2
      <4>3. CASE r = new /\ q \in Granted
        BY <2>1, <2>5, <3>1, <4>3
      <4>4. QED  BY <2>3, <3>1, <4>1, <4>2, <4>3
    <3>2. QED  BY <3>1 DEF GrantsAgree
  <2>11. WinsAreMajorities'
    BY <1>4 DEF VoteInv, WinsAreMajorities
  <2>12. QED  BY <2>6, <2>7, <2>8, <2>9, <2>10, <2>11 DEF VoteInv
<1>8. QED  BY <1>6, <1>7

\* A granted answer is counted in a tally of the peer's own term only if the
\* voter is in that term too; the vote was then on its way to this peer alone.
LEMMA CountVotes ==
  ASSUME TypeOK, DurableVote, VoteInv, NEW i \in Server, NEW c \in cands[i],
         NEW r \in voteReps, VoteReply(i, c, r)
  PROVE  VoteInv'
<1>. USE DEF durableVars, lifeVars, workVars, mainVars, roleVars, netVars, histVars,
             chanVars, loopVars, commitVars, peerVars, taskVars, voteNet, appendNet
<1>1. Next
  BY Zenon DEF Next, VoteStep
<1>2. TypeOK'
  BY <1>1, TypeStep
<1>3. /\ Term \in [Server -> Nat] /\ cands \in [Server -> SUBSET Candidacy]
      /\ r \in VoteRep /\ c \in Candidacy
  BY DEF TypeOK, PeerTypes, MainTypes, NetTypes
<1>4. /\ UNCHANGED <<Term, persisted, electionResult, won, loop>>
      /\ Granted' \subseteq Granted
      /\ r.to = i /\ r.cand = c.term
  BY DEF VoteReply, Granted
<1>5. CASE ~Counts(i, c, r)
  <2>1. cands' = cands
    BY <1>3, <1>5 DEF VoteReply
  <2>2. Rests
    BY DEF VoteReply, Rests
  <2>3. voteReps' \subseteq voteReps
    BY DEF VoteReply
  <2>4. QED  BY <1>1, <1>4, <2>1, <2>2, <2>3, QuietStep
<1>6. CASE Counts(i, c, r)
  <2>1. /\ cands' = [cands EXCEPT ![i] =
                        (@ \ {c}) \cup {[c EXCEPT !.votes = @ \cup {r.from}]}]
        /\ r \in Granted
        /\ r.term <= Term[i]
    BY <1>3, <1>6 DEF VoteReply, Counts, StepsDown, Granted, VoteRep
  <2>2. c.term <= r.term
    BY <1>4, <2>1 DEF VoteInv, GrantsPromised
  <2>3. \A j \in Server \ {i} : Tally(j)' = Tally(j) /\ Current(j)' = Current(j)
    BY <1>3, <1>4, <2>1 DEF Tally, Current
  <2>4. ASSUME NEW b \in Tally(i)'
        PROVE  \/ b \in Tally(i)
               \/ b = [term |-> c.term, votes |-> c.votes \cup {r.from}]
    BY <1>3, <1>4, <2>1 DEF Tally, Candidacy
  <2>5. ASSUME NEW b \in Tally(i)'
        PROVE  \E d \in Tally(i) : /\ d.term = b.term
                                   /\ \A v \in b.votes : v \in d.votes \/ v = r.from
                                   /\ \A v \in b.votes : v \in d.votes \/ b.term = c.term
    <3>1. [term |-> c.term, votes |-> c.votes] \in Tally(i)
      BY DEF Tally
    <3>2. QED  BY <2>4, <2>5, <3>1
  \* A vote of a tally that is current now was in one before, or is the one r brings.
  <2>6. ASSUME NEW j \in Server, NEW b \in Current(j)', NEW v \in b.votes
        PROVE  \/ \E d \in Current(j) : d.term = b.term /\ v \in d.votes
               \/ j = i /\ v = r.from /\ r.term = b.term
    <3>1. CASE j # i
      BY <2>3, <2>6, <3>1
    <3>2. CASE j = i
      <4>1. b \in Tally(i)' /\ b.term = Term[i]
        BY <1>4, <2>6, <3>2 DEF Current
      <4>2. PICK d \in Tally(i) : /\ d.term = b.term
                                  /\ v \in d.votes \/ v = r.from
                                  /\ v \in d.votes \/ b.term = c.term
        BY <2>5, <2>6, <4>1
      <4>3. d \in Current(i)
        BY <4>1, <4>2 DEF Current
      <4>4. CASE v \in d.votes
        BY <3>2, <4>2, <4>3, <4>4
      <4>5. CASE v = r.from /\ b.term = c.term
        <5>1. r.term = b.term
          BY <1>3, <2>1, <2>2, <4>1, <4>5 DEF VoteRep, Candidacy
        <5>2. QED  BY <3>2, <4>5, <5>1
      <4>6. QED  BY <4>2, <4>4, <4>5
    <3>3. QED  BY <3>1, <3>2
  <2>7. \A q \in Granted : /\ q.from \in Server /\ q.to \in Server /\ q.term \in Nat
                           /\ q.cand <= q.term /\ Promised(q.from, q.term, q.to)
    BY DEF TypeOK, NetTypes, VoteRep, Granted, VoteInv, GrantsPromised
  <2>8. ASSUME NEW v \in Server, NEW x \in Nat, NEW j \in Server, Promised(v, x, j)
        PROVE  Promised(v, x, j)'
    BY <1>4, <2>8 DEF Promised
  <2>9. TalliesPromised'
    <3>1. ASSUME NEW j \in Server, NEW b \in Tally(j)'
          PROVE  b.term <= Term'[j]
      BY <1>4, <2>3, <2>5, <3>1 DEF VoteInv, TalliesPromised
    <3>2. ASSUME NEW j \in Server, NEW b \in Current(j)', NEW v \in b.votes
          PROVE  Promised(v, b.term, j)'
      <4>1. CASE j = i /\ v = r.from /\ r.term = b.term
        BY <1>4, <2>1, <2>7, <2>8, <4>1
      <4>2. ASSUME NEW d \in Current(j), d.term = b.term, v \in d.votes
            PROVE  Promised(v, b.term, j)'
        <5>1. Promised(v, d.term, j)
          BY <4>2 DEF VoteInv, TalliesPromised
        <5>2. v \in Server /\ d.term \in Nat
          BY <4>2, TallyType DEF Current
        <5>3. QED  BY <2>8, <4>2, <5>1, <5>2
      <4>3. QED  BY <2>6, <3>2, <4>1, <4>2
    <3>3. QED  BY <3>1, <3>2 DEF TalliesPromised
  <2>10. GrantsPromised'
    BY <1>4, <2>7, <2>8 DEF GrantsPromised
  <2>11. TalliesAgree'
    <3>1. ASSUME NEW j \in Server, NEW k \in Server, NEW b \in Current(j)',
                 NEW d \in Current(k)', b.term = d.term, NEW v \in b.votes \cap d.votes
          PROVE  j = k
      <4>1. ASSUME NEW x \in Current(j), x.term = b.term, v \in x.votes,
                   NEW y \in Current(k), y.term = d.term, v \in y.votes
            PROVE  j = k
        BY <3>1, <4>1 DEF VoteInv, TalliesAgree
      <4>2. ASSUME NEW x \in Current(j), x.term = b.term, v \in x.votes,
                   k = i, v = r.from, r.term = d.term
            PROVE  j = k
        BY <1>4, <2>1, <3>1, <4>2 DEF VoteInv, GrantsAgreeWithTallies
      <4>3. ASSUME NEW y \in Current(k), y.term = d.term, v \in y.votes,
                   j = i, v = r.from, r.term = b.term
            PROVE  j = k
        BY <1>4, <2>1, <3>1, <4>3 DEF VoteInv, GrantsAgreeWithTallies
      <4>4. QED  BY <2>6, <3>1, <4>1, <4>2, <4>3
    <3>2. QED  BY <3>1 DEF TalliesAgree
  <2>12. GrantsAgreeWithTallies'
    <3>1. ASSUME NEW q \in Granted', NEW j \in Server, NEW d \in Current(j)',
                 d.term = q.term, q.from \in d.votes
          PROVE  q.to = j
      <4>1. q \in Granted
        BY <1>4, <3>1
      <4>2. ASSUME NEW y \in Current(j), y.term = d.term, q.from \in y.votes
            PROVE  q.to = j
        BY <3>1, <4>1, <4>2 DEF VoteInv, GrantsAgreeWithTallies
      <4>3. CASE j = i /\ q.from = r.from /\ r.term = d.term
        BY <1>4, <2>1, <3>1, <4>1, <4>3 DEF VoteInv, GrantsAgree
      <4>4. QED  BY <2>6, <3>1, <4>2, <4>3
    <3>2. QED  BY <3>1 DEF GrantsAgreeWithTallies
  <2>13. GrantsAgree' /\ WinsAreMajorities'
    BY <1>4 DEF VoteInv, GrantsAgree, WinsAreMajorities
  <2>14. QED  BY <2>9, <2>10, <2>11, <2>12, <2>13 DEF VoteInv
<1>7. QED  BY <1>5, <1>6

\* A restart forgets every tally of the peer, though its term may go back to
\* the one it had saved.
LEMMA CrashVotes ==
  ASSUME TypeOK, DurableVote, VoteInv, NEW i \in Server, CrashRestart(i)
  PROVE  VoteInv'
<1>1. Next
  BY Zenon DEF Next
<1>2. TypeOK'
  BY <1>1, TypeStep
<1>3. /\ Term \in [Server -> Nat] /\ loop \in [Server -> Loops]
      /\ electionResult \in [Server -> Result] /\ won \in [Server -> Result]
      /\ cands \in [Server -> SUBSET Candidacy]
  BY DEF TypeOK, PeerTypes, MainTypes
<1>4. /\ Term' = [Term EXCEPT ![i] = persisted[i].term]
      /\ electionResult' = [electionResult EXCEPT ![i] = NoWin]
      /\ won' = [won EXCEPT ![i] = NoWin]
      /\ loop' = [loop EXCEPT ![i] = "follow"]
      /\ cands' = [cands EXCEPT ![i] = {}]
      /\ Granted' \subseteq Granted
  BY DEF CrashRestart, Granted
<1>5. Tally(i)' = {NoWin}
  BY <1>3, <1>4 DEF Tally
<1>6. \A j \in Server \ {i} : Tally(j)' = Tally(j) /\ Term'[j] >= Term[j]
  BY <1>3, <1>4 DEF Tally
<1>7. \A j \in Server : \A b \in Tally(j)' : Inherited(j, b)
  BY <1>5, <1>6 DEF Inherited
<1>8. \A j \in Server : Term'[j] >= Term[j] \/ Tally(j)' \subseteq {NoWin}
  BY <1>5, <1>6
<1>9. WinsAreMajorities'
  BY <1>3, <1>4 DEF VoteInv, WinsAreMajorities
<1>10. QED  BY <1>1, <1>2, <1>4, <1>7, <1>8, <1>9, NoNewVote
-----------------------------------------------------------------------------
\* Every step keeps VoteInv.
LEMMA VoteInvStep ==
  ASSUME TypeOK, DurableVote, VoteInv, [Next]_vars
  PROVE  VoteInv'
<1>. USE DEF durableVars, lifeVars, workVars, mainVars, roleVars, netVars, histVars,
             chanVars, loopVars, commitVars, peerVars, taskVars, voteNet, appendNet
<1>1. ASSUME UNCHANGED <<cands, electionResult, won, loop>>, voteReps' \subseteq voteReps,
             Rests \/ \E i \in Server : Saves(i) \/ Stops(i)
      PROVE  VoteInv'
  BY <1>1, QuietStep
<1>2. CASE UNCHANGED vars
  <2>1. Rests
    BY <1>2 DEF vars, Rests
  <2>2. UNCHANGED <<cands, electionResult, won, loop, voteReps>>
    BY <1>2 DEF vars
  <2>3. QED  BY <1>1, <2>1, <2>2
<1>3. ASSUME NEW i \in Server, ElectionStep(i)
      PROVE  VoteInv'
  BY <1>3, TickVotes, MovedTallies, Zenon DEF ElectionStep
<1>4. ASSUME NEW i \in Server, VoteStep(i)
      PROVE  VoteInv'
  <2>1. ASSUME NEW c \in cands[i], NEW r \in voteReps, VoteReplyStepDown(i, c, r)
        PROVE  VoteInv'
    <3>1. Saves(i) \/ Rests
      BY <1>4, VoteKinds
    <3>2. UNCHANGED <<cands, electionResult, won, loop>> /\ voteReps' \subseteq voteReps
      BY <2>1 DEF VoteReplyStepDown
    <3>3. QED  BY <1>1, <3>1, <3>2
  <2>2. QED  BY <1>4, <2>1, GrantVotes, CountVotes, Zenon DEF VoteStep
<1>5. ASSUME NEW i \in Server, AppendEntriesStep(i)
      PROVE  VoteInv'
  <2>1. UNCHANGED <<cands, electionResult, won, loop, voteReps>>
    BY <1>5 DEF AppendEntriesStep, HandleAppendEntries, RefuseAppendEntries
  <2>2. QED  BY <1>1, <1>5, <2>1, AppendEntriesKinds
<1>6. ASSUME NEW i \in Server, BlockStep(i)
      PROVE  VoteInv'
  <2>1. UNCHANGED <<cands, electionResult, won, loop>> /\ voteReps' \subseteq voteReps
    BY <1>6 DEF BlockStep, RequestVoteBlocks, AppendEntriesBlocks, VoteReplyBlocks, HandlerBlocks
  <2>2. QED  BY <1>1, <1>6, <2>1, BlockKinds
<1>7. ASSUME NEW i \in Server, HeartBeatStep(i)
      PROVE  VoteInv'
  <2>1. UNCHANGED <<cands, electionResult, won, loop, voteReps>>
    BY <1>7 DEF HeartBeatStep, HeartBeatRound, SendHeartBeat, BeatReplyStepDown, BeatReply, CallFails
  <2>2. QED  BY <1>1, <1>7, <2>1, HeartBeatKinds
<1>8. ASSUME NEW i \in Server, StartStep(i)
      PROVE  VoteInv'
  <2>1. UNCHANGED <<cands, electionResult, won, loop, voteReps>>
    BY <1>8 DEF StartStep, StartCheck, StartAppend, AppendCheck, AppendBuild, AppendSend,
               AppendEncode
  <2>2. QED  BY <1>1, <1>8, <2>1, StartKinds
<1>9. ASSUME NEW i \in Server, AppendReplyStep(i)
      PROVE  VoteInv'
  <2>1. UNCHANGED <<cands, electionResult, won, loop, voteReps>>
    BY <1>9 DEF AppendReplyStep, AppendReplySuccess, AppendReplyFailure
  <2>2. QED  BY <1>1, <1>9, <2>1, AppendReplyKinds
<1>10. ASSUME NEW i \in Server, CrashRestart(i)
       PROVE  VoteInv'
  BY <1>10, CrashVotes
<1>11. QED
  BY <1>2, <1>3, <1>4, <1>5, <1>6, <1>7, <1>8, <1>9, <1>10, Zenon DEF Next

\* The votes counted, the votes on their way and the wins taken from them stay
\* consistent with what each voter has saved.
THEOREM VotesCorrect == Spec => []VoteInv
<1>1. Init => VoteInv
  <2>. SUFFICES ASSUME Init
                PROVE  VoteInv
    OBVIOUS
  <2>1. \A i \in Server : Tally(i) = {NoWin} /\ Term[i] = 0
    BY DEF Init, Tally
  <2>2. NoWin.term = 0 /\ NoWin.votes = {}
    BY DEF NoWin
  <2>3. Granted = {}
    BY DEF Init, Granted
  <2>4. WinsAreMajorities
    BY DEF Init, WinsAreMajorities
  <2>5. QED
    BY <2>1, <2>2, <2>3, <2>4 DEF VoteInv, TalliesPromised, GrantsPromised, TalliesAgree,
       GrantsAgreeWithTallies, GrantsAgree, Current
<1>2. TypeOK /\ DurableVote /\ VoteInv /\ [Next]_vars => VoteInv'
  BY VoteInvStep
<1>3. QED  BY <1>1, <1>2, TypeCorrect, VoteIsDurable, PTL DEF Spec
-----------------------------------------------------------------------------
\* Two majorities of the peers have a voter in common.
LEMMA MajoritiesMeet ==
  ASSUME NEW P \in SUBSET Server, NEW Q \in SUBSET Server, IsMajority(P), IsMajority(Q)
  PROVE  P \cap Q # {}
<1>1. N \in Nat \ {0, 1}
  BY PeersAssumption
<1>2. IsFiniteSet(Server) /\ Cardinality(Server) = N
  <2>1. /\ IsFiniteSet(0 .. N-1)
        /\ Cardinality(0 .. N-1) = IF 0 > N-1 THEN 0 ELSE (N-1) - 0 + 1
    BY <1>1, FS_Interval
  <2>2. QED  BY <1>1, <2>1 DEF Server
<1>3. IsFiniteSet(P) /\ IsFiniteSet(Q)
  BY <1>2, FS_Subset
<1>4. Cardinality(P) \in Nat /\ Cardinality(Q) \in Nat
  BY <1>3, FS_CardinalityType
<1>5. Cardinality(P) + Cardinality(Q) > Cardinality(Server)
  BY <1>1, <1>2, <1>4 DEF IsMajority
<1>6. QED  BY <1>2, <1>5, FS_MajoritiesIntersect

\* Of two candidacies for the term their peers are still in, at most one
\* gathers a majority, whatever smaller terms the voters granted votes to.
THEOREM OneMajority == Spec => []OneMajorityPerTerm
<1>1. TypeOK /\ VoteInv => OneMajorityPerTerm
  <2>. SUFFICES ASSUME TypeOK, VoteInv, NEW i \in Server, NEW j \in Server,
                       NEW c \in cands[i], NEW d \in cands[j],
                       Majority(i, c), Majority(j, d), c.term = d.term
                PROVE  i = j
    BY DEF OneMajorityPerTerm
  <2>1. c.votes \in SUBSET Server /\ d.votes \in SUBSET Server
    BY DEF TypeOK, MainTypes, Candidacy
  <2>2. c.votes \cap d.votes # {}
    BY <2>1, MajoritiesMeet DEF Majority
  <2>3. [term |-> c.term, votes |-> c.votes] \in Current(i)
    BY DEF Majority, Current, Tally
  <2>4. [term |-> d.term, votes |-> d.votes] \in Current(j)
    BY DEF Majority, Current, Tally
  <2>5. QED  BY <2>2, <2>3, <2>4 DEF VoteInv, TalliesAgree
<1>2. QED  BY <1>1, TypeCorrect, VotesCorrect, PTL

\* A leader that leads the term it won is alone with that right.
THEOREM RightfulLeadersUnique == Spec => []RightfulLeaderUnique
<1>1. TypeOK /\ LoopInv /\ VoteInv => RightfulLeaderUnique
  <2>. SUFFICES ASSUME TypeOK, LoopInv, VoteInv, NEW i \in Server, NEW j \in Server,
                       Rightful(i), Rightful(j), Term[i] = Term[j]
                PROVE  i = j
    BY DEF RightfulLeaderUnique
  <2>1. \A k \in Server : Rightful(k) => won[k] \in Current(k) /\ IsMajority(won[k].votes)
    BY DEF Rightful, Current, Tally, LoopInv, VoteInv, WinsAreMajorities
  <2>2. won[i].votes \in SUBSET Server /\ won[j].votes \in SUBSET Server
    BY DEF TypeOK, MainTypes, Result
  <2>3. won[i].votes \cap won[j].votes # {}
    BY <2>1, <2>2, MajoritiesMeet
  <2>4. QED  BY <2>1, <2>3 DEF VoteInv, TalliesAgree, Rightful
<1>2. QED  BY <1>1, TypeCorrect, LoopCorrect, VotesCorrect, PTL
=============================================================================
