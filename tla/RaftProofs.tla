---------------------------- MODULE RaftProofs ----------------------------
(***************************************************************************)
(* Theorems about module Raft for every number of peers and every bound,   *)
(* with their proofs.                                                      *)
(***************************************************************************)
EXTENDS RaftProps, FiniteSetTheorems, SequenceTheorems, WellFoundedInduction, TLAPS

\* Arithmetic: a set of naturals has a least element, so one that is bounded
\* has a greatest (updateCommitForLeader's last index).
LEMMA LeastExists ==
  ASSUME NEW S \in SUBSET Nat, S # {}
  PROVE  \E n \in S : \A m \in S : n <= m
<1>1. \E x \in S : \A y \in S : <<y, x>> \notin OpToRel(<, Nat)
  <2>1. IsWellFoundedOn(OpToRel(<, Nat), S)
    BY NatLessThanWellFounded, IsWellFoundedOnSubset, Zenon
  <2>2. QED  BY <2>1, WFMin, Zenon
<1>2. \A x, y \in Nat : y < x => <<y, x>> \in OpToRel(<, Nat)
  BY Zenon DEF OpToRel
<1>3. \E x \in S : \A y \in S : ~(y < x)
  BY <1>1, <1>2, Zenon
<1>4. QED  BY <1>3

\* A bounded set of naturals has a greatest element.
LEMMA GreatestExists ==
  ASSUME NEW n \in Nat, NEW S \in SUBSET (0 .. n), S # {}
  PROVE  \E x \in S : \A y \in S : y <= x
<1>. DEFINE T == {n - x : x \in S}
<1>1. T \in SUBSET Nat /\ T # {}
  OBVIOUS
<1>2. PICK t \in T : \A u \in T : t <= u
  BY <1>1, LeastExists
<1>3. PICK x \in S : t = n - x
  BY <1>2
<1>4. \A y \in S : n - y \in T
  OBVIOUS
<1>5. QED  BY <1>2, <1>3, <1>4

\* What Newest returns: the given index, or the greatest of the set.
LEMMA NewestIsGreatest ==
  ASSUME NEW n \in Nat, NEW S \in SUBSET (0 .. n), NEW k
  PROVE  \/ S = {} /\ Newest(S, k) = k
         \/ Newest(S, k) \in S /\ \A y \in S : y <= Newest(S, k)
<1>1. CASE S = {}
  BY <1>1 DEF Newest
<1>2. CASE S # {}
  BY <1>2, GreatestExists DEF Newest
<1>3. QED  BY <1>1, <1>2

\* The commit index that updateCommitForLeader arrives at is a natural number.
LEMMA NewestType ==
  ASSUME NEW n \in Nat, NEW S \in SUBSET (0 .. n), NEW k \in Nat
  PROVE  Newest(S, k) \in Nat
<1>1. CASE S = {}
  BY <1>1 DEF Newest
<1>2. CASE S # {}
  <2>1. Newest(S, k) \in S
    BY <1>2, NewestIsGreatest, Zenon
  <2>2. Newest(S, k) \in 0 .. n
    BY <2>1, Zenon
  <2>3. QED  BY <2>2
<1>3. QED  BY <1>1, <1>2
-----------------------------------------------------------------------------
\* Overwriting the term of the last entry keeps the log a log, and its length.
LEMMA StampLastType ==
  ASSUME NEW log \in Seq(Entry), NEW t \in Nat
  PROVE  /\ StampLast(log, t) \in Seq(Entry)
         /\ Len(StampLast(log, t)) = Len(log)
<1>1. CASE log = <<>>
  BY <1>1 DEF StampLast
<1>2. CASE log # <<>>
  <2>. DEFINE n == Len(log)
              e == [log[n] EXCEPT !.term = t]
  <2>1. n \in 1 .. Len(log) /\ log[n] \in Entry
    BY <1>2
  <2>2. e \in Entry
    BY <2>1 DEF Entry
  <2>3. StampLast(log, t) = [log EXCEPT ![n] = e]
    BY <1>2 DEF StampLast
  <2>. HIDE DEF n, e
  <2>4. QED  BY <2>1, <2>2, <2>3, ExceptSeq
<1>3. QED  BY <1>1, <1>2

\* rf.Log[:k] is a log.
LEMMA UptoType ==
  ASSUME NEW log \in Seq(Entry), NEW k \in Int, k <= Len(log)
  PROVE  Upto(log, k) \in Seq(Entry)
BY SubSeqProperties DEF Upto

\* rf.Log[k:] is a log.
LEMMA AfterType ==
  ASSUME NEW log \in Seq(Entry), NEW k \in Nat
  PROVE  After(log, k) \in Seq(Entry)
BY SubSeqProperties DEF After

\* termForLog returns a term, or -1 for an index outside the log.
LEMMA TermForLogType ==
  ASSUME NEW log \in Seq(Entry), NEW k \in Int
  PROVE  TermForLog(log, k) \in Nat \cup {NoTerm}
<1>1. CASE k = 0
  BY <1>1 DEF TermForLog
<1>2. CASE k \in 1 .. Len(log)
  <2>1. log[k] \in Entry
    BY <1>2, ElementOfSeq
  <2>2. QED  BY <1>2, <2>1 DEF TermForLog, Entry
<1>3. CASE k # 0 /\ k \notin 1 .. Len(log)
  BY <1>3 DEF TermForLog
<1>4. QED  BY <1>1, <1>2, <1>3

\* The term HandleRequestVote compares is a natural number.
LEMMA LastTermType ==
  ASSUME NEW log \in Seq(Entry)
  PROVE  LastTerm(log) \in Nat
<1>1. CASE log = <<>>
  BY <1>1 DEF LastTerm
<1>2. CASE log # <<>>
  <2>1. log[Len(log)] \in Entry
    BY <1>2
  <2>2. QED  BY <1>2, <2>1 DEF LastTerm, Entry
<1>3. QED  BY <1>1, <1>2

\* The Append job leaves a log, and answers with an index or with -1.
LEMMA AppendOutcomeType ==
  ASSUME NEW log \in Seq(Entry), NEW m \in AppendReq
  PROVE  /\ AppendOutcome(log, m).log \in Seq(Entry)
         /\ AppendOutcome(log, m).success \in BOOLEAN
         /\ AppendOutcome(log, m).last \in Nat \cup {-1}
<1>1. m.prev \in Nat /\ m.term \in Nat /\ m.entries \in Seq(Entry)
  BY DEF AppendReq
<1>2. CASE ~Found(log, m.prev)
  BY <1>1, <1>2 DEF AppendOutcome, LastIndex
<1>3. CASE Found(log, m.prev)
  <2>1. Upto(log, m.prev - 1) \in Seq(Entry) /\ Upto(log, m.prev) \in Seq(Entry)
    BY <1>1, <1>3, UptoType DEF Found
  <2>2. StampLast(Upto(log, m.prev) \o m.entries, m.term) \in Seq(Entry)
    BY <1>1, <2>1, StampLastType, ConcatProperties
  <2>3. QED  BY <1>3, <2>1, <2>2 DEF AppendOutcome
<1>4. QED  BY <1>2, <1>3

\* However much of the shared array was overwritten, a log goes out.
LEMMA EncodingsType ==
  ASSUME NEW i \in Server, Log[i] \in Seq(Entry), NEW a \in Task
  PROVE  \A es \in Encodings(i, a) : es \in Seq(Entry)
<1>1. a.entries \in Seq(Entry) /\ a.prev \in Nat
  BY DEF Task
<1>. DEFINE written == {k \in DOMAIN a.entries : a.prev + k <= Len(Log[i])}
            sent(S) == [k \in DOMAIN a.entries |->
                          IF k \in S THEN Log[i][a.prev + k] ELSE a.entries[k]]
<1>2. ASSUME NEW S \in SUBSET written
      PROVE  sent(S) \in Seq(Entry)
  <2>1. DOMAIN a.entries = 1 .. Len(a.entries) /\ Len(a.entries) \in Nat
    BY <1>1
  <2>2. \A k \in 1 .. Len(a.entries) :
           (IF k \in S THEN Log[i][a.prev + k] ELSE a.entries[k]) \in Entry
    BY <1>1, <2>1
  <2>3. sent(S) \in [1 .. Len(a.entries) -> Entry]
    BY <2>1, <2>2
  <2>4. QED  BY <2>1, <2>3, SeqDef
<1>3. QED  BY <1>1, <1>2 DEF Encodings
-----------------------------------------------------------------------------
\* What the timers and the end of a candidacy do to it keeps it one.
LEMMA CandidacySets ==
  ASSUME NEW cs \in SUBSET Candidacy
  PROVE  /\ Rearm(cs) \in SUBSET Candidacy
         /\ Surviving(cs) \in SUBSET Candidacy
         /\ \A c \in cs : Close(c) \in Candidacy
BY DEF Rearm, Surviving, Close, Candidacy, Clocks
-----------------------------------------------------------------------------
\* Type correctness.  The groups of variables are tuples; a step that leaves a
\* group alone leaves each of its variables alone.

\* Make leaves every variable in its type.
LEMMA InitType == Init => TypeOK
BY PeersAssumption
   DEF Init, TypeOK, PeerTypes, MainTypes, WorkTypes, LifeTypes, NetTypes, HistTypes,
       Server, NoVote, Entry, Roles, Loops, NoWin, Result

\* So does a step that changes nothing.
LEMMA StutterType == TypeOK /\ UNCHANGED vars => TypeOK'
BY DEF TypeOK, PeerTypes, MainTypes, WorkTypes, LifeTypes, NetTypes, HistTypes,
       vars, durableVars, roleVars, commitVars, peerVars, chanVars, loopVars,
       mainVars, taskVars, workVars, lifeVars, voteNet, appendNet, netVars, histVars

\* The election goroutine keeps the types.
LEMMA ElectionType ==
  ASSUME TypeOK, NEW i \in Server, ElectionStep(i)
  PROVE  TypeOK'
<1>. USE DEF durableVars, roleVars, commitVars, peerVars, chanVars, loopVars,
             mainVars, taskVars, workVars, lifeVars, voteNet, appendNet, netVars,
             histVars
<1>1. PeerTypes /\ MainTypes /\ WorkTypes /\ LifeTypes /\ NetTypes /\ HistTypes
  BY DEF TypeOK
<1>2. cands[i] \in SUBSET Candidacy
  BY <1>1 DEF MainTypes
<1>3. CASE Tick(i)
  <2>1. PeerTypes'
    BY <1>1, <1>3 DEF PeerTypes, Tick, Persist, Roles
  <2>2. cands'[i] \in SUBSET Candidacy
    <3>1. [term |-> Term[i] + 1, votes |-> {i}, clock |-> "armed", open |-> TRUE] \in Candidacy
      BY <1>1 DEF PeerTypes, Candidacy, Clocks
    <3>2. cands'[i] = Surviving(cands[i]) \cup
             {[term |-> Term[i] + 1, votes |-> {i}, clock |-> "armed", open |-> TRUE]}
      BY <1>1, <1>3 DEF Tick, MainTypes
    <3>3. QED  BY <1>2, <3>1, <3>2, CandidacySets
  <2>3. MainTypes'
    BY <1>1, <1>3, <2>2 DEF MainTypes, Tick
  <2>4. NetTypes'
    BY <1>1, <1>3, LastTermType DEF NetTypes, PeerTypes, Tick, VoteReq, LastIndex
  <2>5. WorkTypes' /\ LifeTypes' /\ HistTypes'
    BY <1>1, <1>3 DEF WorkTypes, LifeTypes, HistTypes, Tick
  <2>6. QED  BY <2>1, <2>3, <2>4, <2>5 DEF TypeOK
<1>4. CASE DrainHB(i)
  <2>1. MainTypes'
    BY <1>1, <1>2, <1>4, CandidacySets DEF MainTypes, DrainHB
  <2>2. (PeerTypes /\ WorkTypes /\ LifeTypes /\ NetTypes /\ HistTypes)'
    BY <1>1, <1>4 DEF PeerTypes, WorkTypes, LifeTypes, NetTypes, HistTypes, DrainHB
  <2>3. QED  BY <2>1, <2>2 DEF TypeOK
<1>5. ASSUME NEW c \in cands[i], Decide(i, c)
      PROVE  TypeOK'
  <2>1. Close(c) \in Candidacy /\ [term |-> c.term, votes |-> c.votes] \in Result
    BY <1>2, CandidacySets DEF Candidacy, Result
  <2>2. MainTypes'
    BY <1>1, <1>2, <1>5, <2>1 DEF MainTypes, Decide
  <2>3. (PeerTypes /\ WorkTypes /\ LifeTypes /\ NetTypes /\ HistTypes)'
    BY <1>1, <1>5 DEF PeerTypes, WorkTypes, LifeTypes, NetTypes, HistTypes, Decide
  <2>4. QED  BY <2>2, <2>3 DEF TypeOK
<1>6. CASE BreakLoop(i)
  <2>1. Rearm({Close(c) : c \in cands[i]}) \in SUBSET Candidacy
    BY <1>2, CandidacySets
  <2>2. NoWin \in Result
    BY DEF NoWin, Result
  <2>3. MainTypes'
    BY <1>1, <1>6, <2>1, <2>2 DEF MainTypes, BreakLoop, Loops
  <2>4. (PeerTypes /\ WorkTypes /\ LifeTypes /\ NetTypes /\ HistTypes)'
    BY <1>1, <1>6 DEF PeerTypes, WorkTypes, LifeTypes, NetTypes, HistTypes, BreakLoop
  <2>5. QED  BY <2>3, <2>4 DEF TypeOK
<1>7. CASE StartAsLeader(i)
  <2>1. PeerTypes'
    BY <1>1, <1>7, StampLastType DEF PeerTypes, StartAsLeader, Roles
  <2>2. MainTypes'
    BY <1>1, <1>7 DEF MainTypes, StartAsLeader, Loops
  <2>3. WorkTypes'
    BY <1>1, <1>7 DEF WorkTypes, StartAsLeader
  <2>4. HistTypes'
    BY <1>1, <1>7 DEF HistTypes, PeerTypes, StartAsLeader
  <2>5. (LifeTypes /\ NetTypes)'
    BY <1>1, <1>7 DEF LifeTypes, NetTypes, StartAsLeader
  <2>6. QED  BY <2>1, <2>2, <2>3, <2>4, <2>5 DEF TypeOK
<1>8. CASE RecvDemote(i)
  <2>1. MainTypes'
    BY <1>1, <1>2, <1>8, CandidacySets DEF MainTypes, RecvDemote, Loops
  <2>2. (PeerTypes /\ WorkTypes /\ LifeTypes /\ NetTypes /\ HistTypes)'
    BY <1>1, <1>8 DEF PeerTypes, WorkTypes, LifeTypes, NetTypes, HistTypes, RecvDemote
  <2>3. QED  BY <2>1, <2>2 DEF TypeOK
<1>9. QED  BY <1>3, <1>4, <1>5, <1>6, <1>7, <1>8 DEF ElectionStep

\* Vote requests and their replies keep the types.
LEMMA VoteType ==
  ASSUME TypeOK, NEW i \in Server, VoteStep(i)
  PROVE  TypeOK'
<1>. USE DEF durableVars, roleVars, commitVars, peerVars, chanVars, loopVars,
             mainVars, taskVars, workVars, lifeVars, voteNet, appendNet, netVars,
             histVars
<1>1. PeerTypes /\ MainTypes /\ WorkTypes /\ LifeTypes /\ NetTypes /\ HistTypes
  BY DEF TypeOK
<1>2. cands[i] \in SUBSET Candidacy
  BY <1>1 DEF MainTypes
<1>3. ASSUME NEW m \in voteReqs, HandleRequestVote(i, m)
      PROVE  TypeOK'
  <2>1. m \in VoteReq /\ m.from \in Server /\ m.term \in Nat /\ Term[i] \in Nat
    BY <1>1 DEF NetTypes, VoteReq, PeerTypes
  <2>2. Maximum(Term[i], m.term) \in Nat
    BY <2>1 DEF Maximum
  <2>3. PeerTypes'
    <3>1. Term' \in [Server -> Nat] /\ Log' = Log
      BY <1>1, <1>3, <2>2 DEF PeerTypes, HandleRequestVote
    <3>2. VotedFor' \in [Server -> Server \cup {NoVote}]
      BY <1>1, <1>3, <2>1 DEF PeerTypes, HandleRequestVote
    <3>3. State' \in [Server -> Roles] /\ IsLeader' \in [Server -> BOOLEAN]
      BY <1>1, <1>3 DEF PeerTypes, HandleRequestVote, SetFollwer, Roles
    <3>4. Persist(i)
      BY <1>3 DEF HandleRequestVote
    <3>5. QED
      BY <1>1, <3>1, <3>2, <3>3, <3>4 DEF PeerTypes, Persist
  <2>4. MainTypes'
    BY <1>1, <1>3 DEF MainTypes, HandleRequestVote, Notify
  <2>5. Grants(i, m, IF m.term > Term[i] THEN NoVote ELSE VotedFor[i]) \in BOOLEAN
    BY DEF Grants
  <2>6. NetTypes'
    BY <1>1, <1>3, <2>1, <2>2, <2>5 DEF NetTypes, HandleRequestVote, VoteRep
  <2>7. (WorkTypes /\ LifeTypes /\ HistTypes)'
    BY <1>1, <1>3 DEF WorkTypes, LifeTypes, HistTypes, HandleRequestVote
  <2>8. QED  BY <2>3, <2>4, <2>6, <2>7 DEF TypeOK
<1>4. ASSUME NEW c \in cands[i], NEW r \in voteReps, VoteReplyStepDown(i, c, r)
      PROVE  TypeOK'
  <2>1. PeerTypes'
    BY <1>1, <1>4 DEF PeerTypes, NetTypes, VoteRep, VoteReplyStepDown, SetFollwer, Persist, Roles
  <2>2. (MainTypes /\ NetTypes)'
    BY <1>1, <1>4 DEF MainTypes, NetTypes, VoteReplyStepDown
  <2>3. (WorkTypes /\ LifeTypes /\ HistTypes)'
    BY <1>1, <1>4 DEF WorkTypes, LifeTypes, HistTypes, VoteReplyStepDown
  <2>4. QED  BY <2>1, <2>2, <2>3 DEF TypeOK
<1>5. ASSUME NEW c \in cands[i], NEW r \in voteReps, VoteReply(i, c, r)
      PROVE  TypeOK'
  <2>1. [c EXCEPT !.votes = @ \cup {r.from}] \in Candidacy
    BY <1>1, <1>2 DEF NetTypes, VoteRep, Candidacy
  <2>. DEFINE counted == (cands[i] \ {c}) \cup {[c EXCEPT !.votes = @ \cup {r.from}]}
  <2>2. counted \in SUBSET Candidacy
    BY <1>2, <2>1
  <2>3. \/ cands' = [cands EXCEPT ![i] = counted]
        \/ cands' = [cands EXCEPT ![i] = cands[i]]
    BY <1>5 DEF VoteReply
  <2>. HIDE DEF counted
  <2>4. MainTypes'
    BY <1>1, <1>2, <1>5, <2>2, <2>3 DEF MainTypes, VoteReply
  <2>5. (PeerTypes /\ WorkTypes /\ LifeTypes /\ NetTypes /\ HistTypes)'
    BY <1>1, <1>5 DEF PeerTypes, WorkTypes, LifeTypes, NetTypes, HistTypes, VoteReply
  <2>6. QED  BY <2>4, <2>5 DEF TypeOK
<1>6. QED  BY <1>3, <1>4, <1>5 DEF VoteStep

\* HandleAppendEntries keeps the types.
LEMMA AppendEntriesType ==
  ASSUME TypeOK, NEW i \in Server, AppendEntriesStep(i)
  PROVE  TypeOK'
<1>. USE DEF durableVars, roleVars, commitVars, peerVars, chanVars, loopVars,
             mainVars, taskVars, workVars, lifeVars, voteNet, appendNet, netVars,
             histVars
<1>1. PeerTypes /\ MainTypes /\ WorkTypes /\ LifeTypes /\ NetTypes /\ HistTypes
  BY DEF TypeOK
<1>2. ASSUME NEW m \in appendReqs, NEW t \in Nat, NEW ok \in BOOLEAN,
             NEW last \in Nat \cup {-1}, Answer(m, t, ok, last)
      PROVE  appendReps' \in SUBSET AppendRep
  <2>1. m \in AppendReq
    BY <1>1 DEF NetTypes
  <2>2. Len(m.entries) \in Nat
    BY <2>1 DEF AppendReq
  <2>3. Waiting(m) => m.boot \in Nat
    BY <1>1, <2>1 DEF Waiting, LifeTypes, AppendReq
  <2>4. QED  BY <1>1, <1>2, <2>1, <2>2, <2>3 DEF NetTypes, Answer, AppendReq, AppendRep
<1>3. ASSUME NEW m \in appendReqs, HandleAppendEntries(i, m)
      PROVE  TypeOK'
  <2>1. m \in AppendReq /\ m.term \in Nat /\ m.commit \in Nat /\ Log[i] \in Seq(Entry)
    BY <1>1 DEF NetTypes, AppendReq, PeerTypes
  <2>2. /\ AppendOutcome(Log[i], m).log \in Seq(Entry)
        /\ AppendOutcome(Log[i], m).success \in BOOLEAN
        /\ AppendOutcome(Log[i], m).last \in Nat \cup {-1}
    BY <2>1, AppendOutcomeType
  <2>3. Minimum(m.commit, LastIndex(Log[i])) \in Nat
    BY <2>1 DEF Minimum, LastIndex
  <2>4. PeerTypes'
    BY <1>1, <1>3, <2>1, <2>2
       DEF PeerTypes, HandleAppendEntries, SetFollwer, Persist, Roles
  <2>5. MainTypes'
    BY <1>1, <1>3 DEF MainTypes, HandleAppendEntries, Notify
  <2>6. WorkTypes'
    <3>1. CASE m.job = "CommitAndHeartBeat"
      <4>. DEFINE commit == Minimum(m.commit, LastIndex(Log[i]))
      <4>1. Maximum(LastApply[i], commit) \in Nat
        BY <1>1, <2>3 DEF WorkTypes, Maximum
      <4>2. /\ CommitIndex' = [CommitIndex EXCEPT ![i] = commit]
            /\ LastApply' = [LastApply EXCEPT ![i] = Maximum(LastApply[i], commit)]
        BY <1>1, <1>3, <3>1 DEF WorkTypes, HandleAppendEntries
      <4>3. QED  BY <1>1, <1>3, <2>3, <4>1, <4>2 DEF WorkTypes, HandleAppendEntries
    <3>2. CASE m.job # "CommitAndHeartBeat"
      BY <1>1, <1>3, <3>2 DEF WorkTypes, HandleAppendEntries
    <3>3. QED  BY <3>1, <3>2
  <2>7. appendReps' \in SUBSET AppendRep
    <3>1. \/ Answer(m, m.term, AppendOutcome(Log[i], m).success, AppendOutcome(Log[i], m).last)
          \/ Answer(m, m.term, TRUE, 0)
      BY <1>3 DEF HandleAppendEntries
    <3>2. QED  BY <1>2, <2>1, <2>2, <3>1
  <2>8. NetTypes'
    BY <1>1, <1>3, <2>7 DEF NetTypes, HandleAppendEntries
  <2>9. (LifeTypes /\ HistTypes)'
    BY <1>1, <1>3 DEF LifeTypes, HistTypes, HandleAppendEntries
  <2>10. QED  BY <2>4, <2>5, <2>6, <2>8, <2>9 DEF TypeOK
<1>4. ASSUME NEW m \in appendReqs, RefuseAppendEntries(i, m)
      PROVE  TypeOK'
  <2>1. PeerTypes'
    BY <1>1, <1>4 DEF PeerTypes, RefuseAppendEntries, Persist
  <2>2. appendReps' \in SUBSET AppendRep
    <3>1. Answer(m, Term[i], FALSE, 0)
      BY <1>4 DEF RefuseAppendEntries
    <3>2. Term[i] \in Nat
      BY <1>1 DEF PeerTypes
    <3>3. QED  BY <1>2, <3>1, <3>2
  <2>3. NetTypes'
    BY <1>1, <1>4, <2>2 DEF NetTypes, RefuseAppendEntries
  <2>4. (MainTypes /\ WorkTypes /\ LifeTypes /\ HistTypes)'
    BY <1>1, <1>4 DEF MainTypes, WorkTypes, LifeTypes, HistTypes, RefuseAppendEntries
  <2>5. QED  BY <2>1, <2>3, <2>4 DEF TypeOK
<1>5. QED  BY <1>3, <1>4 DEF AppendEntriesStep

\* A handler that hangs on its send keeps the types.
LEMMA BlockType ==
  ASSUME TypeOK, NEW i \in Server, BlockStep(i)
  PROVE  TypeOK'
<1>. USE DEF durableVars, roleVars, commitVars, peerVars, chanVars, loopVars,
             mainVars, taskVars, workVars, lifeVars, voteNet, appendNet, netVars,
             histVars
<1>1. PeerTypes /\ MainTypes /\ WorkTypes /\ LifeTypes /\ NetTypes /\ HistTypes
  BY DEF TypeOK
<1>2. ASSUME NEW m \in voteReqs, RequestVoteBlocks(i, m)
      PROVE  TypeOK'
  <2>1. (PeerTypes /\ LifeTypes /\ NetTypes)'
    BY <1>1, <1>2
       DEF PeerTypes, LifeTypes, NetTypes, VoteReq, RequestVoteBlocks, HandlerBlocks
  <2>2. (MainTypes /\ WorkTypes /\ HistTypes)'
    BY <1>1, <1>2 DEF MainTypes, WorkTypes, HistTypes, RequestVoteBlocks, HandlerBlocks
  <2>3. QED  BY <2>1, <2>2 DEF TypeOK
<1>3. ASSUME NEW m \in appendReqs, AppendEntriesBlocks(i, m)
      PROVE  TypeOK'
  <2>1. (PeerTypes /\ LifeTypes /\ NetTypes)'
    BY <1>1, <1>3
       DEF PeerTypes, LifeTypes, NetTypes, AppendReq, AppendEntriesBlocks, HandlerBlocks
  <2>2. (MainTypes /\ WorkTypes /\ HistTypes)'
    BY <1>1, <1>3 DEF MainTypes, WorkTypes, HistTypes, AppendEntriesBlocks, HandlerBlocks
  <2>3. QED  BY <2>1, <2>2 DEF TypeOK
<1>4. ASSUME NEW c \in cands[i], NEW r \in voteReps, VoteReplyBlocks(i, c, r)
      PROVE  TypeOK'
  <2>1. (LifeTypes /\ NetTypes)'
    BY <1>1, <1>4 DEF LifeTypes, NetTypes, VoteReplyBlocks
  <2>2. (PeerTypes /\ MainTypes /\ WorkTypes /\ HistTypes)'
    BY <1>1, <1>4 DEF PeerTypes, MainTypes, WorkTypes, HistTypes, VoteReplyBlocks
  <2>3. QED  BY <2>1, <2>2 DEF TypeOK
<1>5. QED  BY <1>2, <1>3, <1>4 DEF BlockStep

\* Heartbeats and their replies keep the types.
LEMMA HeartBeatType ==
  ASSUME TypeOK, NEW i \in Server, HeartBeatStep(i)
  PROVE  TypeOK'
<1>. USE DEF durableVars, roleVars, commitVars, peerVars, chanVars, loopVars,
             mainVars, taskVars, workVars, lifeVars, voteNet, appendNet, netVars,
             histVars
<1>1. PeerTypes /\ MainTypes /\ WorkTypes /\ LifeTypes /\ NetTypes /\ HistTypes
  BY DEF TypeOK
<1>2. \A s \in -1 .. N-1 : NextPeer(i, s) \in 0 .. N
  BY PeersAssumption DEF NextPeer, Server
<1>3. CASE HeartBeatRound(i)
  <2>1. FirstPeer(i) \in 0 .. N
    BY <1>2, PeersAssumption DEF FirstPeer
  <2>2. (WorkTypes /\ HistTypes)'
    BY <1>1, <1>3, <2>1 DEF WorkTypes, HistTypes, HeartBeatRound
  <2>3. (PeerTypes /\ MainTypes /\ LifeTypes /\ NetTypes)'
    BY <1>1, <1>3 DEF PeerTypes, MainTypes, LifeTypes, NetTypes, HeartBeatRound
  <2>4. QED  BY <2>2, <2>3 DEF TypeOK
<1>4. CASE SendHeartBeat(i)
  <2>1. beat[i] \in 0 .. N-1 /\ beat[i] \in Server /\ NextPeer(i, beat[i]) \in 0 .. N
    <3>1. beat[i] \in 0 .. N /\ beat[i] < N /\ N \in Nat
      BY <1>1, <1>4, PeersAssumption DEF WorkTypes, SendHeartBeat
    <3>2. beat[i] \in 0 .. N-1 /\ beat[i] \in -1 .. N-1
      BY <3>1
    <3>3. QED  BY <1>2, <3>2 DEF Server
  <2>2. BeatArgs(i, beat[i]) \in AppendReq
    BY <1>1, <2>1
       DEF BeatArgs, AppendReq, Jobs, PeerTypes, WorkTypes, LifeTypes
  <2>3. (WorkTypes /\ NetTypes)'
    BY <1>1, <1>4, <2>1, <2>2 DEF WorkTypes, NetTypes, SendHeartBeat
  <2>4. (PeerTypes /\ MainTypes /\ LifeTypes /\ HistTypes)'
    BY <1>1, <1>4 DEF PeerTypes, MainTypes, LifeTypes, HistTypes, SendHeartBeat
  <2>5. QED  BY <2>3, <2>4 DEF TypeOK
<1>5. ASSUME NEW r \in appendReps, BeatReplyStepDown(i, r)
      PROVE  TypeOK'
  <2>1. PeerTypes'
    BY <1>1, <1>5
       DEF PeerTypes, NetTypes, AppendRep, BeatReplyStepDown, SetFollwer, Persist, Roles
  <2>2. (MainTypes /\ NetTypes)'
    BY <1>1, <1>5 DEF MainTypes, NetTypes, BeatReplyStepDown
  <2>3. (WorkTypes /\ LifeTypes /\ HistTypes)'
    BY <1>1, <1>5 DEF WorkTypes, LifeTypes, HistTypes, BeatReplyStepDown
  <2>4. QED  BY <2>1, <2>2, <2>3 DEF TypeOK
<1>6. ASSUME NEW r \in appendReps, BeatReply(i, r)
      PROVE  TypeOK'
  <2>1. r.to \in Server
    BY <1>1 DEF NetTypes, AppendRep
  <2>2. (WorkTypes /\ NetTypes)'
    BY <1>1, <1>6, <2>1 DEF WorkTypes, NetTypes, BeatReply
  <2>3. (PeerTypes /\ MainTypes /\ LifeTypes /\ HistTypes)'
    BY <1>1, <1>6 DEF PeerTypes, MainTypes, LifeTypes, HistTypes, BeatReply
  <2>4. QED  BY <2>2, <2>3 DEF TypeOK
<1>7. ASSUME NEW m \in appendReqs \cup appendReps, CallFails(i, m)
      PROVE  TypeOK'
  <2>1. (WorkTypes /\ NetTypes)'
    <3>1. \A q \in appendReqs : [q EXCEPT !.boot = NoCaller] \in AppendReq
      BY <1>1 DEF NetTypes, AppendReq
    <3>2. appendReqs' \in SUBSET AppendReq
      BY <1>1, <1>7, <3>1 DEF NetTypes, CallFails
    <3>3. QED  BY <1>1, <1>7, <3>2 DEF WorkTypes, NetTypes, CallFails
  <2>2. (PeerTypes /\ MainTypes /\ LifeTypes /\ HistTypes)'
    BY <1>1, <1>7 DEF PeerTypes, MainTypes, LifeTypes, HistTypes, CallFails
  <2>3. QED  BY <2>1, <2>2 DEF TypeOK
<1>8. QED  BY <1>3, <1>4, <1>5, <1>6, <1>7 DEF HeartBeatStep

\* Start and the sending side of StartOnePeerAppend keep the types.
LEMMA StartType ==
  ASSUME TypeOK, NEW i \in Server, StartStep(i)
  PROVE  TypeOK'
<1>. USE DEF durableVars, roleVars, commitVars, peerVars, chanVars, loopVars,
             mainVars, taskVars, workVars, lifeVars, voteNet, appendNet, netVars,
             histVars
<1>1. PeerTypes /\ MainTypes /\ WorkTypes /\ LifeTypes /\ NetTypes /\ HistTypes
  BY DEF TypeOK
<1>2. Log[i] \in Seq(Entry) /\ Term[i] \in Nat /\ boots[i] \in Nat
  BY <1>1 DEF PeerTypes, LifeTypes
<1>3. CASE StartCheck(i)
  <2>1. WorkTypes'
    BY <1>1, <1>3 DEF WorkTypes, StartCheck
  <2>2. (PeerTypes /\ MainTypes /\ LifeTypes /\ NetTypes /\ HistTypes)'
    BY <1>1, <1>3 DEF PeerTypes, MainTypes, LifeTypes, NetTypes, HistTypes, StartCheck
  <2>3. QED  BY <2>1, <2>2 DEF TypeOK
<1>4. ASSUME NEW cmd \in starting[i], StartAppend(i, cmd)
      PROVE  TypeOK'
  <2>1. Append(Log[i], [term |-> Term[i], cmd |-> cmd]) \in Seq(Entry)
    BY <1>1, <1>2 DEF WorkTypes, Entry
  <2>2. PeerTypes'
    BY <1>1, <1>4, <2>1 DEF PeerTypes, StartAppend, Persist
  <2>3. WorkTypes'
    BY <1>1, <1>4 DEF WorkTypes, StartAppend
  <2>4. (MainTypes /\ LifeTypes /\ NetTypes /\ HistTypes)'
    BY <1>1, <1>4 DEF MainTypes, LifeTypes, NetTypes, HistTypes, StartAppend
  <2>5. QED  BY <2>2, <2>3, <2>4 DEF TypeOK
<1>5. ASSUME NEW s \in spawned[i], AppendCheck(i, s)
      PROVE  TypeOK'
  <2>1. s \in Server
    BY <1>1 DEF WorkTypes
  <2>2. WorkTypes'
    BY <1>1, <1>5, <2>1 DEF WorkTypes, AppendCheck
  <2>3. (PeerTypes /\ MainTypes /\ LifeTypes /\ NetTypes /\ HistTypes)'
    BY <1>1, <1>5 DEF PeerTypes, MainTypes, LifeTypes, NetTypes, HistTypes, AppendCheck
  <2>4. QED  BY <2>2, <2>3 DEF TypeOK
<1>6. ASSUME NEW s \in building[i], AppendBuild(i, s)
      PROVE  TypeOK'
  <2>. DEFINE a == [from |-> i, to |-> s, term |-> Term[i], prev |-> MatchIndex[i][s],
                    prevTerm |-> TermForLog(Log[i], MatchIndex[i][s]),
                    entries |-> After(Log[i], MatchIndex[i][s]), shared |-> FALSE,
                    encoding |-> FALSE]
  <2>1. s \in Server /\ MatchIndex[i][s] \in Nat
    BY <1>1 DEF WorkTypes
  <2>2. a \in Task
    <3>1. After(Log[i], MatchIndex[i][s]) \in Seq(Entry)
      BY <1>2, <2>1, AfterType
    <3>2. TermForLog(Log[i], MatchIndex[i][s]) \in Nat \cup {NoTerm}
      BY <1>2, <2>1, TermForLogType
    <3>3. QED  BY <1>2, <2>1, <3>1, <3>2 DEF Task
  <2>3. appending' = appending \cup {a}
    BY <1>6 DEF AppendBuild
  <2>. HIDE DEF a
  <2>4. WorkTypes'
    BY <1>1, <1>6, <2>2, <2>3 DEF WorkTypes, AppendBuild
  <2>5. (PeerTypes /\ MainTypes /\ LifeTypes /\ NetTypes /\ HistTypes)'
    BY <1>1, <1>6 DEF PeerTypes, MainTypes, LifeTypes, NetTypes, HistTypes, AppendBuild
  <2>6. QED  BY <2>4, <2>5 DEF TypeOK
<1>7. ASSUME NEW a \in Task, NEW es \in Seq(Entry)
      PROVE  AppendArgs(i, a, es) \in AppendReq
  BY <1>2 DEF AppendArgs, Task, AppendReq, Jobs
<1>8. ASSUME NEW a \in appending, AppendSend(i, a)
      PROVE  TypeOK'
  <2>1. a \in Task /\ a.entries \in Seq(Entry)
    BY <1>1 DEF WorkTypes, Task
  <2>2. [a EXCEPT !.encoding = TRUE] \in Task
    BY <2>1 DEF Task
  <2>3. AppendArgs(i, a, a.entries) \in AppendReq
    BY <1>7, <2>1
  <2>4. /\ appending' \subseteq appending \cup {[a EXCEPT !.encoding = TRUE]}
        /\ appendReqs' \subseteq appendReqs \cup {AppendArgs(i, a, a.entries)}
    BY <1>8 DEF AppendSend
  <2>5. (NetTypes /\ WorkTypes)'
    BY <1>1, <1>8, <2>2, <2>3, <2>4 DEF NetTypes, WorkTypes, AppendSend
  <2>6. (PeerTypes /\ MainTypes /\ LifeTypes /\ HistTypes)'
    BY <1>1, <1>8 DEF PeerTypes, MainTypes, LifeTypes, HistTypes, AppendSend
  <2>7. QED  BY <2>5, <2>6 DEF TypeOK
<1>9. ASSUME NEW a \in appending, AppendEncode(i, a)
      PROVE  TypeOK'
  <2>1. a \in Task
    BY <1>1 DEF WorkTypes
  <2>2. PICK es \in Encodings(i, a) : appendReqs' = appendReqs \cup {AppendArgs(i, a, es)}
    BY <1>9 DEF AppendEncode
  <2>3. AppendArgs(i, a, es) \in AppendReq
    BY <1>2, <1>7, <2>1, EncodingsType
  <2>4. (NetTypes /\ WorkTypes)'
    BY <1>1, <1>9, <2>2, <2>3 DEF NetTypes, WorkTypes, AppendEncode
  <2>5. (PeerTypes /\ MainTypes /\ LifeTypes /\ HistTypes)'
    BY <1>1, <1>9 DEF PeerTypes, MainTypes, LifeTypes, HistTypes, AppendEncode
  <2>6. QED  BY <2>4, <2>5 DEF TypeOK
<1>10. QED  BY <1>3, <1>4, <1>5, <1>6, <1>8, <1>9 DEF StartStep

\* Append replies keep the types: above all, no index becomes negative.
LEMMA AppendReplyType ==
  ASSUME TypeOK, NEW i \in Server, AppendReplyStep(i)
  PROVE  TypeOK'
<1>. USE DEF durableVars, roleVars, commitVars, peerVars, chanVars, loopVars,
             mainVars, taskVars, workVars, lifeVars, voteNet, appendNet, netVars,
             histVars
<1>1. PeerTypes /\ MainTypes /\ WorkTypes /\ LifeTypes /\ NetTypes /\ HistTypes
  BY DEF TypeOK
<1>2. Log[i] \in Seq(Entry) /\ Term[i] \in Nat /\ Len(Log[i]) \in Nat
  BY <1>1 DEF PeerTypes
<1>3. ASSUME NEW r \in appendReps, AppendReplySuccess(i, r)
      PROVE  TypeOK'
  <2>. DEFINE match  == [MatchIndex[i] EXCEPT ![r.to] = r.prev + r.len]
              alive  == [PeerAlive[i] EXCEPT ![r.to] = TRUE]
              commit == IF IsLeader[i]
                        THEN Newest(Committable(i, match, alive), CommitIndex[i])
                        ELSE CommitIndex[i]
  <2>1. r.to \in Server /\ r.prev + r.len \in Nat /\ CommitIndex[i] \in Nat /\ LastApply[i] \in Nat
    BY <1>1 DEF NetTypes, AppendRep, WorkTypes
  <2>2. match \in [Server -> Nat] /\ alive \in [Server -> BOOLEAN]
    BY <1>1, <2>1 DEF WorkTypes
  <2>3. Committable(i, match, alive) \in SUBSET (0 .. Len(Log[i]))
    BY <1>2, <2>1 DEF Committable, LastIndex
  <2>4. commit \in Nat
    <3>. HIDE DEF match, alive
    <3>1. Newest(Committable(i, match, alive), CommitIndex[i]) \in Nat
      BY <1>2, <2>1, <2>3, NewestType
    <3>2. QED  BY <2>1, <3>1
  <2>5. /\ MatchIndex' = [MatchIndex EXCEPT ![i] = match]
        /\ PeerAlive' = [PeerAlive EXCEPT ![i] = alive]
        /\ CommitIndex' = [CommitIndex EXCEPT ![i] = commit]
        /\ LastApply' = [LastApply EXCEPT ![i] =
                            IF commit > CommitIndex[i] THEN Maximum(@, commit) ELSE @]
    BY <1>3 DEF AppendReplySuccess
  <2>. HIDE DEF match, alive, commit
  <2>6. (IF commit > CommitIndex[i] THEN Maximum(LastApply[i], commit) ELSE LastApply[i]) \in Nat
    BY <2>1, <2>4 DEF Maximum
  <2>7. WorkTypes'
    BY <1>1, <1>3, <2>1, <2>2, <2>4, <2>5, <2>6 DEF WorkTypes, AppendReplySuccess
  <2>8. NetTypes'
    BY <1>1, <1>3 DEF NetTypes, AppendReplySuccess
  <2>9. (PeerTypes /\ MainTypes /\ LifeTypes /\ HistTypes)'
    BY <1>1, <1>3 DEF PeerTypes, MainTypes, LifeTypes, HistTypes, AppendReplySuccess
  <2>10. QED  BY <2>7, <2>8, <2>9 DEF TypeOK
<1>4. ASSUME NEW r \in appendReps, AppendReplyFailure(i, r)
      PROVE  TypeOK'
  <2>. DEFINE prev == ResendFrom(r)
              a == [from |-> i, to |-> r.to, term |-> Term[i], prev |-> prev,
                    prevTerm |-> TermForLog(Log[i], prev),
                    entries |-> After(Log[i], prev), shared |-> TRUE,
                    encoding |-> FALSE]
  <2>1. r.to \in Server /\ LifeTypes' /\ NetTypes'
    BY <1>1, <1>4 DEF NetTypes, AppendRep, LifeTypes, AppendReplyFailure
  <2>2. CASE prev \in 0 .. Len(Log[i])
    <3>1. a \in Task
      <4>1. prev \in Nat
        BY <1>2, <2>2
      <4>. HIDE DEF prev
      <4>2. After(Log[i], prev) \in Seq(Entry)
        BY <1>2, <4>1, AfterType
      <4>3. TermForLog(Log[i], prev) \in Nat \cup {NoTerm}
        BY <1>2, <4>1, TermForLogType
      <4>4. QED  BY <1>2, <2>1, <4>1, <4>2, <4>3 DEF Task
    <3>2. appending' = appending \cup {a}
      BY <1>4, <2>2 DEF AppendReplyFailure
    <3>. HIDE DEF a
    <3>3. WorkTypes'
      BY <1>1, <1>4, <2>1, <3>1, <3>2 DEF WorkTypes, AppendReplyFailure
    <3>4. QED
      BY <1>1, <1>4, <2>1, <3>3
         DEF PeerTypes, MainTypes, HistTypes, AppendReplyFailure, TypeOK
  <2>3. CASE prev \notin 0 .. Len(Log[i])
    <3>1. WorkTypes'
      BY <1>1, <1>4, <2>1, <2>3 DEF WorkTypes, AppendReplyFailure
    <3>2. QED
      BY <1>1, <1>4, <2>1, <3>1
         DEF PeerTypes, MainTypes, HistTypes, AppendReplyFailure, TypeOK
  <2>4. QED  BY <2>2, <2>3
<1>5. QED  BY <1>3, <1>4 DEF AppendReplyStep

\* A restart keeps the types.
LEMMA CrashType ==
  ASSUME TypeOK, NEW i \in Server, CrashRestart(i)
  PROVE  TypeOK'
<1>. USE DEF histVars
<1>1. PeerTypes /\ MainTypes /\ WorkTypes /\ LifeTypes /\ NetTypes /\ HistTypes
  BY DEF TypeOK
<1>2. NoWin \in Result
  BY DEF NoWin, Result
<1>3. (PeerTypes /\ LifeTypes)'
  <2>1. (Term \in [Server -> Nat] /\ VotedFor \in [Server -> Server \cup {NoVote}])'
    BY <1>1 DEF PeerTypes, CrashRestart
  <2>2. Log' \in [Server -> Seq(Entry)] /\ persisted' = persisted
    BY <1>1 DEF PeerTypes, CrashRestart
  <2>3. (State \in [Server -> Roles] /\ IsLeader \in [Server -> BOOLEAN])'
    BY <1>1 DEF PeerTypes, CrashRestart, Roles
  <2>4. LifeTypes'
    BY <1>1 DEF LifeTypes, CrashRestart
  <2>5. QED  BY <1>1, <2>1, <2>2, <2>3, <2>4 DEF PeerTypes
<1>4. MainTypes'
  BY <1>1, <1>2 DEF MainTypes, CrashRestart, Loops
<1>5. WorkTypes'
  BY <1>1, PeersAssumption DEF WorkTypes, CrashRestart
<1>6. (NetTypes /\ HistTypes)'
  BY <1>1 DEF NetTypes, HistTypes, CrashRestart
<1>7. QED  BY <1>3, <1>4, <1>5, <1>6 DEF TypeOK

\* Every step keeps the types.
LEMMA TypeStep ==
  ASSUME TypeOK, [Next]_vars
  PROVE  TypeOK'
<1>1. CASE Next
  BY <1>1, ElectionType, VoteType, AppendEntriesType, BlockType, HeartBeatType,
     StartType, AppendReplyType, CrashType, Zenon DEF Next
<1>2. CASE UNCHANGED vars
  BY <1>2, StutterType
<1>3. QED  BY <1>1, <1>2

\* Every value the peers and the network ever hold is of its type.
THEOREM TypeCorrect == Spec => []TypeOK
<1>1. Init => TypeOK
  BY InitType
<1>2. TypeOK /\ [Next]_vars => TypeOK'
  BY TypeStep
<1>3. QED  BY <1>1, <1>2, PTL DEF Spec
=============================================================================
