----------------------------- MODULE LogProofs -----------------------------
(***************************************************************************)
(* What a leader of module Raft may do to its own log, for every number of *)
(* peers and every bound.                                                  *)
(***************************************************************************)
EXTENDS VoteProofs, StateMachine

\* A leader keeps its term, and its log but for commands appended in that term.
Leads(i) ==
    /\ IsLeader[i]
    /\ Term'[i] = Term[i]
    /\ \/ Log'[i] = Log[i]
       \/ \E cmd \in Nat : Log'[i] = Append(Log[i], [term |-> Term[i], cmd |-> cmd])

\* Or it has just begun to lead, and stamped its last entry.
BeginsToLead(i) ==
    /\ ~IsLeader[i]
    /\ Term'[i] = Term[i]
    /\ Log'[i] = StampLast(Log[i], Term[i])

\* Every other change of a term or a log is made by a peer that does not lead
\* when the step is over.
LEMMA LeaderSteps ==
  ASSUME TypeOK, LoopInv, [Next]_vars, NEW l \in Server, IsLeader'[l]
  PROVE  Leads(l) \/ BeginsToLead(l)
<1>. USE DEF durableVars, lifeVars, workVars, mainVars, roleVars, netVars, histVars,
             chanVars, loopVars, commitVars, peerVars, taskVars, voteNet, appendNet
<1>1. /\ IsLeader \in [Server -> BOOLEAN] /\ Term \in [Server -> Nat]
      /\ Log \in [Server -> Seq(Entry)] /\ starting \in [Server -> SUBSET Nat]
  BY DEF TypeOK, PeerTypes, WorkTypes
<1>2. ASSUME UNCHANGED <<IsLeader, Term, Log>>
      PROVE  Leads(l)
  BY <1>1, <1>2 DEF Leads
<1>3. ASSUME NEW i \in Server, SetFollwer(i),
             \A j \in Server \ {i} : Term'[j] = Term[j] /\ Log'[j] = Log[j]
      PROVE  Leads(l)
  BY <1>1, <1>3 DEF Leads, SetFollwer
<1>4. CASE UNCHANGED vars
  BY <1>2, <1>4 DEF vars
<1>5. ASSUME NEW i \in Server, ElectionStep(i)
      PROVE  Leads(l) \/ BeginsToLead(l)
  <2>1. CASE Tick(i)
    BY <1>1, <2>1 DEF Tick, LoopInv, Leads
  <2>2. CASE DrainHB(i) \/ BreakLoop(i) \/ RecvDemote(i)
    BY <1>2, <2>2 DEF DrainHB, BreakLoop, RecvDemote
  <2>3. CASE \E c \in cands[i] : Decide(i, c)
    BY <1>2, <2>3 DEF Decide
  <2>4. CASE StartAsLeader(i)
    BY <1>1, <2>4 DEF StartAsLeader, LoopInv, Leads, BeginsToLead
  <2>5. QED  BY <1>5, <2>1, <2>2, <2>3, <2>4 DEF ElectionStep
<1>6. ASSUME NEW i \in Server, VoteStep(i)
      PROVE  Leads(l)
  <2>1. ASSUME NEW m \in voteReqs, HandleRequestVote(i, m)
        PROVE  Leads(l)
    <3>1. CASE m.term > Term[i]
      BY <1>1, <1>3, <2>1, <3>1 DEF HandleRequestVote
    <3>2. CASE ~(m.term > Term[i])
      <4>1. m.term \in Nat
        BY DEF TypeOK, NetTypes, VoteReq
      <4>2. QED  BY <1>1, <1>2, <2>1, <3>2, <4>1 DEF HandleRequestVote, Maximum
    <3>3. QED  BY <3>1, <3>2
  <2>2. ASSUME NEW c \in cands[i], NEW r \in voteReps, VoteReplyStepDown(i, c, r)
        PROVE  Leads(l)
    BY <1>1, <1>3, <2>2 DEF VoteReplyStepDown
  <2>3. ASSUME NEW c \in cands[i], NEW r \in voteReps, VoteReply(i, c, r)
        PROVE  Leads(l)
    BY <1>2, <2>3 DEF VoteReply
  <2>4. QED  BY <1>6, <2>1, <2>2, <2>3 DEF VoteStep
<1>7. ASSUME NEW i \in Server, AppendEntriesStep(i)
      PROVE  Leads(l)
  <2>1. ASSUME NEW m \in appendReqs, HandleAppendEntries(i, m)
        PROVE  Leads(l)
    BY <1>1, <1>3, <2>1 DEF HandleAppendEntries
  <2>2. ASSUME NEW m \in appendReqs, RefuseAppendEntries(i, m)
        PROVE  Leads(l)
    BY <1>2, <2>2 DEF RefuseAppendEntries
  <2>3. QED  BY <1>7, <2>1, <2>2 DEF AppendEntriesStep
<1>8. ASSUME NEW i \in Server, BlockStep(i)
      PROVE  Leads(l)
  BY <1>1, <1>8 DEF BlockStep, RequestVoteBlocks, AppendEntriesBlocks, VoteReplyBlocks,
                    HandlerBlocks, Leads
<1>9. ASSUME NEW i \in Server, HeartBeatStep(i)
      PROVE  Leads(l)
  <2>1. ASSUME NEW r \in appendReps, BeatReplyStepDown(i, r)
        PROVE  Leads(l)
    BY <1>1, <1>3, <2>1 DEF BeatReplyStepDown
  <2>2. CASE \/ HeartBeatRound(i) \/ SendHeartBeat(i)
             \/ \E r \in appendReps : BeatReply(i, r)
             \/ \E m \in appendReqs \cup appendReps : CallFails(i, m)
    BY <1>2, <2>2 DEF HeartBeatRound, SendHeartBeat, BeatReply, CallFails
  <2>3. QED  BY <1>9, <2>1, <2>2 DEF HeartBeatStep
<1>10. ASSUME NEW i \in Server, StartStep(i)
       PROVE  Leads(l)
  <2>1. ASSUME NEW cmd \in starting[i], StartAppend(i, cmd)
        PROVE  Leads(l)
    BY <1>1, <2>1 DEF StartAppend, Leads
  <2>2. CASE \/ StartCheck(i)
             \/ \E s \in spawned[i] : AppendCheck(i, s)
             \/ \E s \in building[i] : AppendBuild(i, s)
             \/ \E a \in appending : AppendSend(i, a) \/ AppendEncode(i, a)
    BY <1>2, <2>2 DEF StartCheck, AppendCheck, AppendBuild, AppendSend, AppendEncode
  <2>3. QED  BY <1>10, <2>1, <2>2 DEF StartStep
<1>11. ASSUME NEW i \in Server, AppendReplyStep(i)
       PROVE  Leads(l)
  BY <1>2, <1>11 DEF AppendReplyStep, AppendReplySuccess, AppendReplyFailure
<1>12. ASSUME NEW i \in Server, CrashRestart(i)
       PROVE  Leads(l)
  BY <1>1, <1>12 DEF CrashRestart, Leads
<1>13. QED
  BY <1>4, <1>5, <1>6, <1>7, <1>8, <1>9, <1>10, <1>11, <1>12, Zenon DEF Next

\* A leader's last entry is of its own term, because startAsLeader rewrites it
\* and whatever moves the term of a leader ends its leadership.
THEOREM LeadersLastTerm == Spec => []LeaderLastTerm
<1>1. Init => LeaderLastTerm
  BY DEF Init, LeaderLastTerm
<1>2. TypeOK /\ LoopInv /\ LeaderLastTerm /\ [Next]_vars => LeaderLastTerm'
  <2>. SUFFICES ASSUME TypeOK, LoopInv, LeaderLastTerm, [Next]_vars,
                       NEW l \in Server, IsLeader'[l], Log'[l] # <<>>
                PROVE  LastTerm(Log'[l]) = Term'[l]
    BY DEF LeaderLastTerm
  <2>1. Log[l] \in Seq(Entry) /\ Term[l] \in Nat
    BY DEF TypeOK, PeerTypes
  <2>2. CASE Leads(l)
    <3>1. CASE Log'[l] = Log[l]
      BY <2>2, <3>1 DEF Leads, LeaderLastTerm
    <3>2. ASSUME NEW cmd \in Nat, Log'[l] = Append(Log[l], [term |-> Term[l], cmd |-> cmd])
          PROVE  LastTerm(Log'[l]) = Term'[l]
      BY <2>1, <2>2, <3>2 DEF Leads, LastTerm, Entry
    <3>3. QED  BY <2>2, <3>1, <3>2 DEF Leads
  <2>3. CASE BeginsToLead(l)
    BY <2>1, <2>3 DEF BeginsToLead, LastTerm, StampLast, Entry
  <2>4. QED  BY <2>2, <2>3, LeaderSteps
<1>3. QED  BY <1>1, <1>2, TypeCorrect, LoopCorrect, PTL DEF Spec

\* A leader only appends to its log while it leads.
THEOREM LeadersAppendOnly == Spec => LeaderAppendOnly
<1>1. TypeOK /\ LoopInv /\ [Next]_vars =>
        [\A i \in Server : IsLeader[i] /\ IsLeader'[i] => IsPrefix(Log[i], Log'[i])]_vars
  <2>. SUFFICES ASSUME TypeOK, LoopInv, [Next]_vars, NEW l \in Server, IsLeader[l], IsLeader'[l]
                PROVE  IsPrefix(Log[l], Log'[l])
    OBVIOUS
  <2>1. Log[l] \in Seq(Entry) /\ Term[l] \in Nat
    BY DEF TypeOK, PeerTypes
  <2>2. Leads(l)
    BY LeaderSteps DEF BeginsToLead
  <2>3. CASE Log'[l] = Log[l]
    BY <2>1, <2>3 DEF IsPrefix
  <2>4. ASSUME NEW cmd \in Nat, Log'[l] = Append(Log[l], [term |-> Term[l], cmd |-> cmd])
        PROVE  IsPrefix(Log[l], Log'[l])
    BY <2>1, <2>4 DEF IsPrefix, Entry
  <2>5. QED  BY <2>2, <2>3, <2>4 DEF Leads
<1>2. QED  BY <1>1, TypeCorrect, LoopCorrect, PTL DEF Spec, LeaderAppendOnly

\* What a step of i may do to its log and to what it saved of it: save it or read it
\* back; leave both alone, and the label of a leader with them; or begin to lead.
LogSaved(i) ==
    \/ persisted'[i].log = Log'[i]
    \/ /\ persisted'[i] = persisted[i] /\ Log'[i] = Log[i]
       /\ ~IsLeader[i] \/ (IsLeader'[i] = IsLeader[i] /\ Term'[i] = Term[i])
    \/ /\ ~IsLeader[i] /\ IsLeader'[i] /\ Term'[i] = Term[i]
       /\ persisted'[i] = persisted[i] /\ Log'[i] = StampLast(Log[i], Term[i])

\* The step changes no other peer.
Elsewhere(i) ==
    \A j \in Server \ {i} :
        Log'[j] = Log[j] /\ Term'[j] = Term[j] /\ IsLeader'[j] = IsLeader[j]

Others(i) == Elsewhere(i) /\ \A j \in Server \ {i} : persisted'[j] = persisted[j]

LEMMA LogsSaved ==
  ASSUME TypeOK, LoopInv, [Next]_vars, NEW j \in Server
  PROVE  LogSaved(j)
<1>. USE DEF durableVars, roleVars, commitVars, peerVars, chanVars, loopVars,
             mainVars, taskVars, workVars, lifeVars, voteNet, appendNet, netVars,
             histVars
<1>1. /\ Log \in [Server -> Seq(Entry)] /\ Term \in [Server -> Nat]
      /\ IsLeader \in [Server -> BOOLEAN]
      /\ persisted \in [Server -> [term : Nat, vote : Server \cup {NoVote}, log : Seq(Entry)]]
  BY DEF TypeOK, PeerTypes
<1>2. ASSUME UNCHANGED <<Log, persisted, IsLeader, Term>>
      PROVE  LogSaved(j)
  BY <1>2 DEF LogSaved
<1>3. ASSUME NEW i \in Server, LogSaved(i), Others(i)
      PROVE  LogSaved(j)
  BY <1>3 DEF LogSaved, Others, Elsewhere
<1>4. ASSUME NEW i \in Server, Persist(i), Elsewhere(i)
      PROVE  LogSaved(j)
  BY <1>1, <1>3, <1>4 DEF Persist, LogSaved, Others
<1>5. CASE UNCHANGED vars
  BY <1>2, <1>5 DEF vars
<1>6. ASSUME NEW i \in Server, ElectionStep(i)
      PROVE  LogSaved(j)
  <2>1. CASE Tick(i)
    BY <1>1, <1>4, <2>1 DEF Tick, Elsewhere
  <2>2. CASE DrainHB(i) \/ BreakLoop(i) \/ RecvDemote(i)
    BY <1>2, <2>2 DEF DrainHB, BreakLoop, RecvDemote
  <2>3. CASE \E c \in cands[i] : Decide(i, c)
    BY <1>2, <2>3 DEF Decide
  <2>4. CASE StartAsLeader(i)
    BY <1>1, <1>3, <2>4 DEF StartAsLeader, LoopInv, LogSaved, Others, Elsewhere
  <2>5. QED  BY <1>6, <2>1, <2>2, <2>3, <2>4 DEF ElectionStep
<1>7. ASSUME NEW i \in Server, VoteStep(i)
      PROVE  LogSaved(j)
  <2>1. ASSUME NEW m \in voteReqs, HandleRequestVote(i, m)
        PROVE  LogSaved(j)
    BY <1>1, <1>4, <2>1 DEF HandleRequestVote, SetFollwer, Elsewhere
  <2>2. ASSUME NEW c \in cands[i], NEW r \in voteReps, VoteReplyStepDown(i, c, r)
        PROVE  LogSaved(j)
    BY <1>1, <1>4, <2>2 DEF VoteReplyStepDown, SetFollwer, Elsewhere
  <2>3. ASSUME NEW c \in cands[i], NEW r \in voteReps, VoteReply(i, c, r)
        PROVE  LogSaved(j)
    BY <1>2, <2>3 DEF VoteReply
  <2>4. QED  BY <1>7, <2>1, <2>2, <2>3 DEF VoteStep
<1>8. ASSUME NEW i \in Server, AppendEntriesStep(i)
      PROVE  LogSaved(j)
  <2>1. ASSUME NEW m \in appendReqs, HandleAppendEntries(i, m)
        PROVE  LogSaved(j)
    BY <1>1, <1>4, <2>1 DEF HandleAppendEntries, SetFollwer, Elsewhere
  <2>2. ASSUME NEW m \in appendReqs, RefuseAppendEntries(i, m)
        PROVE  LogSaved(j)
    BY <1>4, <2>2 DEF RefuseAppendEntries, Elsewhere
  <2>3. QED  BY <1>8, <2>1, <2>2 DEF AppendEntriesStep
<1>9. ASSUME NEW i \in Server, BlockStep(i)
      PROVE  LogSaved(j)
  <2>1. ASSUME NEW t, HandlerBlocks(i, t)
        PROVE  LogSaved(j)
    BY <1>1, <1>3, <2>1 DEF HandlerBlocks, LogSaved, Others, Elsewhere
  <2>2. ASSUME NEW c \in cands[i], NEW r \in voteReps, VoteReplyBlocks(i, c, r)
        PROVE  LogSaved(j)
    BY <1>2, <2>2 DEF VoteReplyBlocks
  <2>3. QED
    BY <1>9, <2>1, <2>2 DEF BlockStep, RequestVoteBlocks, AppendEntriesBlocks
<1>10. ASSUME NEW i \in Server, HeartBeatStep(i)
       PROVE  LogSaved(j)
  <2>1. ASSUME NEW r \in appendReps, BeatReplyStepDown(i, r)
        PROVE  LogSaved(j)
    BY <1>1, <1>4, <2>1 DEF BeatReplyStepDown, SetFollwer, Elsewhere
  <2>2. CASE \/ HeartBeatRound(i) \/ SendHeartBeat(i)
             \/ \E r \in appendReps : BeatReply(i, r)
             \/ \E m \in appendReqs \cup appendReps : CallFails(i, m)
    BY <1>2, <2>2 DEF HeartBeatRound, SendHeartBeat, BeatReply, CallFails
  <2>3. QED  BY <1>10, <2>1, <2>2 DEF HeartBeatStep
<1>11. ASSUME NEW i \in Server, StartStep(i)
       PROVE  LogSaved(j)
  <2>1. ASSUME NEW cmd \in starting[i], StartAppend(i, cmd)
        PROVE  LogSaved(j)
    BY <1>1, <1>4, <2>1 DEF StartAppend, Elsewhere
  <2>2. CASE \/ StartCheck(i)
             \/ \E s \in spawned[i] : AppendCheck(i, s)
             \/ \E s \in building[i] : AppendBuild(i, s)
             \/ \E a \in appending : AppendSend(i, a) \/ AppendEncode(i, a)
    BY <1>2, <2>2 DEF StartCheck, AppendCheck, AppendBuild, AppendSend, AppendEncode
  <2>3. QED  BY <1>11, <2>1, <2>2 DEF StartStep
<1>12. ASSUME NEW i \in Server, AppendReplyStep(i)
       PROVE  LogSaved(j)
  BY <1>2, <1>12 DEF AppendReplyStep, AppendReplySuccess, AppendReplyFailure
<1>13. ASSUME NEW i \in Server, CrashRestart(i)
       PROVE  LogSaved(j)
  <2>1. Log'[i] = persisted[i].log /\ persisted' = persisted
    BY <1>1, <1>13 DEF CrashRestart
  <2>2. Others(i)
    BY <1>1, <1>13 DEF CrashRestart, Others, Elsewhere
  <2>3. QED  BY <1>3, <2>1, <2>2 DEF LogSaved
<1>14. QED
  BY <1>5, <1>6, <1>7, <1>8, <1>9, <1>10, <1>11, <1>12, <1>13, Zenon DEF Next

\* Rewriting the last term leaves the commands alone.
LEMMA StampKeepsCommands ==
  ASSUME NEW log \in Seq(Entry), NEW t \in Nat
  PROVE  Commands(StampLast(log, t)) = Commands(log)
<1>1. CASE log = <<>>
  BY <1>1 DEF StampLast
<1>2. CASE log # <<>>
  <2>. DEFINE stamped == [log EXCEPT ![Len(log)].term = t]
  <2>1. DOMAIN stamped = DOMAIN log
    OBVIOUS
  <2>2. \A k \in DOMAIN log : stamped[k].cmd = log[k].cmd
    BY DEF Entry
  <2>3. StampLast(log, t) = stamped
    BY <1>2 DEF StampLast
  <2>. HIDE DEF stamped
  <2>4. QED  BY <2>1, <2>2, <2>3 DEF Commands
<1>3. QED  BY <1>1, <1>2

\* What the persister holds of a log is the log, whatever region runs, stops or is cut
\* off by a crash, but for the label of a last entry, and that only while the peer leads
\* the term of the label.
THEOREM LogDurable == Spec => []EntriesDurable
<1>1. Init => EntriesDurable
  BY DEF Init, EntriesDurable
<1>2. TypeOK /\ LoopInv /\ EntriesDurable /\ [Next]_vars => EntriesDurable'
  <2>. SUFFICES ASSUME TypeOK, LoopInv, EntriesDurable, [Next]_vars, NEW j \in Server
                PROVE  \/ persisted'[j].log = Log'[j]
                       \/ IsLeader'[j] /\ Log'[j] = StampLast(persisted'[j].log, Term'[j])
    BY DEF EntriesDurable
  <2>1. \/ persisted[j].log = Log[j]
        \/ IsLeader[j] /\ Log[j] = StampLast(persisted[j].log, Term[j])
    BY DEF EntriesDurable
  <2>2. LogSaved(j)
    BY LogsSaved
  <2>3. QED  BY <2>1, <2>2 DEF LogSaved
<1>3. QED  BY <1>1, <1>2, TypeCorrect, LoopCorrect, PTL DEF Spec

\* So the commands are all saved: a label is no part of them.
LEMMA DurableCommands ==
  ASSUME TypeOK, EntriesDurable, NEW i \in Server
  PROVE  Commands(persisted[i].log) = Commands(Log[i])
<1>1. persisted[i].log \in Seq(Entry) /\ Term[i] \in Nat
  BY DEF TypeOK, PeerTypes
<1>2. Commands(StampLast(persisted[i].log, Term[i])) = Commands(persisted[i].log)
  BY <1>1, StampKeepsCommands
<1>3. QED  BY <1>2 DEF EntriesDurable
-----------------------------------------------------------------------------
\* Slices of a log's commands: what a message carries of the log it was taken from.

\* A log's own entries are a slice of it, and a slice of a slice is one.
LEMMA SliceOfSelf ==
  ASSUME NEW a \in Seq(Entry)
  PROVE  SliceOf(a, 0, a)
BY DEF SliceOf

LEMMA SliceOfSlice ==
  ASSUME NEW a \in Seq(Entry), NEW b \in Seq(Entry), NEW es \in Seq(Entry), NEW p \in Nat,
         SliceOf(b, 0, a), SliceOf(a, p, es)
  PROVE  SliceOf(b, p, es)
<1>1. p + Len(es) <= Len(b)
  BY DEF SliceOf
<1>2. ASSUME NEW k \in DOMAIN es
      PROVE  es[k].cmd = b[p + k].cmd
  <2>1. p + k \in DOMAIN a
    BY DEF SliceOf
  <2>2. a[p + k].cmd = b[0 + (p + k)].cmd
    BY <2>1 DEF SliceOf
  <2>3. 0 + (p + k) = p + k
    BY <2>1
  <2>4. QED  BY <2>2, <2>3 DEF SliceOf
<1>3. QED  BY <1>1, <1>2 DEF SliceOf

\* Nothing is a slice at the start of any log.
LEMMA SliceOfNothing ==
  ASSUME NEW a \in Seq(Entry)
  PROVE  SliceOf(a, 0, <<>>)
BY DEF SliceOf

\* Logs with the same commands have the same slices.
LEMMA SameCommands ==
  ASSUME NEW a \in Seq(Entry), NEW b \in Seq(Entry), Commands(a) = Commands(b)
  PROVE  Len(a) = Len(b) /\ SliceOf(b, 0, a)
<1>1. DOMAIN a = DOMAIN b
  <2>1. DOMAIN Commands(a) = DOMAIN a /\ DOMAIN Commands(b) = DOMAIN b
    BY DEF Commands
  <2>2. QED  BY <2>1
<1>2. Len(a) = Len(b)
  BY <1>1
<1>3. \A k \in DOMAIN a : a[k].cmd = b[k].cmd
  <2>1. \A k \in DOMAIN a : Commands(a)[k] = a[k].cmd
    BY DEF Commands
  <2>2. \A k \in DOMAIN a : Commands(b)[k] = b[k].cmd
    BY <1>1 DEF Commands
  <2>3. QED  BY <2>1, <2>2
<1>4. QED  BY <1>2, <1>3 DEF SliceOf

\* StartOnePeerAppend sends rf.Log[k:]: the slice after k.
LEMMA AfterIsSlice ==
  ASSUME NEW a \in Seq(Entry), NEW n \in 0 .. Len(a)
  PROVE  SliceOf(a, n, After(a, n))
<1>1. /\ After(a, n) \in Seq(Entry)
      /\ Len(After(a, n)) = Len(a) - n
      /\ \A k \in 1 .. Len(a) - n : After(a, n)[k] = a[n + k]
  BY SubSeqProperties DEF After
<1>2. DOMAIN After(a, n) = 1 .. Len(a) - n
  BY <1>1
<1>3. QED  BY <1>1, <1>2 DEF SliceOf

\* A cut keeps a copy a copy.
LEMMA CutIsSlice ==
  ASSUME NEW a \in Seq(Entry), NEW b \in Seq(Entry), NEW n \in Int, n <= Len(a),
         SliceOf(b, 0, a)
  PROVE  SliceOf(b, 0, Upto(a, n))
<1>1. Upto(a, n) \in Seq(Entry) /\ Len(Upto(a, n)) <= Len(a)
      /\ \A k \in 1 .. Len(Upto(a, n)) : Upto(a, n)[k] = a[k]
  BY SubSeqProperties DEF Upto
<1>2. QED  BY <1>1 DEF SliceOf

\* So does the slice after the cut.
LEMMA CutAndAppend ==
  ASSUME NEW a \in Seq(Entry), NEW b \in Seq(Entry), NEW es \in Seq(Entry),
         NEW n \in 0 .. Len(a), SliceOf(b, 0, a), SliceOf(b, n, es)
  PROVE  SliceOf(b, 0, Upto(a, n) \o es)
<1>. DEFINE u == Upto(a, n)
<1>1. u \in Seq(Entry) /\ Len(u) = n /\ \A k \in 1 .. n : u[k] = a[k]
  BY SubSeqProperties DEF Upto
<1>. HIDE DEF u
<1>2. /\ u \o es \in Seq(Entry) /\ Len(u \o es) = n + Len(es)
      /\ \A k \in 1 .. n + Len(es) :
            (u \o es)[k] = IF k <= n THEN u[k] ELSE es[k - n]
  BY <1>1, ConcatProperties
<1>3. ASSUME NEW k \in 1 .. n + Len(es)
      PROVE  (u \o es)[k].cmd = b[k].cmd
  <2>1. CASE k <= n
    BY <1>1, <1>2, <2>1 DEF SliceOf
  <2>2. CASE ~(k <= n)
    <3>1. k - n \in DOMAIN es /\ n + (k - n) = k
      BY <2>2
    <3>2. es[k - n].cmd = b[n + (k - n)].cmd
      BY <3>1 DEF SliceOf
    <3>3. QED  BY <1>2, <2>2, <3>1, <3>2
  <2>3. QED  BY <2>1, <2>2
<1>4. SliceOf(b, 0, u \o es)
  BY <1>2, <1>3 DEF SliceOf
<1>5. QED  BY <1>4 DEF u

\* A new command leaves the log a slice of the longer one.
LEMMA AppendKeepsSlice ==
  ASSUME NEW a \in Seq(Entry), NEW e \in Entry
  PROVE  Append(a, e) \in Seq(Entry) /\ SliceOf(Append(a, e), 0, a)
BY DEF SliceOf

\* The append handler's outcome is a copy of what its log and the entries copy.
LEMMA OutcomeIsSlice ==
  ASSUME NEW a \in Seq(Entry), NEW b \in Seq(Entry), NEW m \in AppendReq,
         SliceOf(b, 0, a), SliceOf(b, m.prev, m.entries)
  PROVE  SliceOf(b, 0, AppendOutcome(a, m).log)
<1>1. m.prev \in Nat /\ m.term \in Nat /\ m.entries \in Seq(Entry)
  BY DEF AppendReq
<1>2. CASE ~Found(a, m.prev)
  BY <1>2 DEF AppendOutcome
<1>3. CASE Found(a, m.prev) /\ TermForLog(a, m.prev) # m.prevTerm
  <2>1. AppendOutcome(a, m).log = Upto(a, m.prev - 1)
    BY <1>3 DEF AppendOutcome
  <2>2. m.prev - 1 \in Int /\ m.prev - 1 <= Len(a)
    BY <1>1, <1>3 DEF Found
  <2>3. QED  BY <2>1, <2>2, CutIsSlice
<1>4. CASE Found(a, m.prev) /\ TermForLog(a, m.prev) = m.prevTerm
  <2>. DEFINE log == Upto(a, m.prev) \o m.entries
  <2>1. AppendOutcome(a, m).log = StampLast(log, m.term)
    BY <1>4 DEF AppendOutcome
  <2>2. m.prev \in 0 .. Len(a)
    BY <1>4 DEF Found
  <2>3. log \in Seq(Entry)
    BY <1>1, <2>2, UptoType
  <2>4. SliceOf(b, 0, log)
    BY <1>1, <2>2, CutAndAppend
  <2>. HIDE DEF log
  <2>5. StampLast(log, m.term) \in Seq(Entry) /\ SliceOf(log, 0, StampLast(log, m.term))
    BY <1>1, <2>3, StampLastType, StampKeepsCommands, SameCommands
  <2>6. SliceOf(b, 0, StampLast(log, m.term))
    BY <2>3, <2>4, <2>5, SliceOfSlice
  <2>7. QED  BY <2>1, <2>6
<1>5. QED  BY <1>2, <1>3, <1>4

\* Where the answer of a failed append tells the leader to go on is inside any log
\* that the follower's copies: its end when the index is past it, else one back.
LEMMA OutcomeInRange ==
  ASSUME NEW a \in Seq(Entry), NEW b \in Seq(Entry), NEW m \in AppendReq,
         SliceOf(b, 0, a), m.prev = 0 => m.prevTerm = 0,
         NEW r, r.prev = m.prev, r.last = AppendOutcome(a, m).last,
         ~AppendOutcome(a, m).success
  PROVE  ResendFrom(r) \in 0 .. Len(b)
<1>1. m.prev \in Nat /\ Len(a) <= Len(b)
  BY DEF AppendReq, SliceOf
<1>2. CASE ~Found(a, m.prev)
  <2>1. r.last = Len(a)
    BY <1>2 DEF AppendOutcome, LastIndex
  <2>2. QED  BY <1>1, <2>1 DEF ResendFrom
<1>3. CASE Found(a, m.prev)
  <2>1. r.last = -1 /\ TermForLog(a, m.prev) # m.prevTerm
    BY <1>3 DEF AppendOutcome
  <2>2. m.prev # 0
    BY <2>1 DEF TermForLog
  <2>3. QED  BY <1>1, <1>3, <2>1, <2>2 DEF ResendFrom, Found
<1>4. QED  BY <1>2, <1>3

\* Entries of a resend, some of them overwritten before the encoder reads them, are
\* still the commands of the log they were taken from.
LEMMA EncodingIsSlice ==
  ASSUME NEW i \in Server, Log[i] \in Seq(Entry), NEW a \in Task,
         SliceOf(Log[i], a.prev, a.entries), NEW es \in Encodings(i, a)
  PROVE  SliceOf(Log[i], a.prev, es)
<1>1. a.entries \in Seq(Entry) /\ a.prev \in Nat
  BY DEF Task
<1>2. PICK S : es = [k \in DOMAIN a.entries |->
                       IF k \in S THEN Log[i][a.prev + k] ELSE a.entries[k]]
  BY DEF Encodings
<1>3. es \in Seq(Entry)
  BY EncodingsType
<1>4. DOMAIN es = DOMAIN a.entries
  BY <1>2
<1>5. Len(es) = Len(a.entries)
  BY <1>1, <1>3, <1>4
<1>6. \A k \in DOMAIN es : es[k].cmd = Log[i][a.prev + k].cmd
  BY <1>2, <1>4 DEF SliceOf
<1>7. QED  BY <1>5, <1>6 DEF SliceOf
-----------------------------------------------------------------------------
\* One reign: the steps of the peers while l alone has led.

\* The reign goes on, and l's log has kept its commands.
ReignLasts(l) == Reign(l)' /\ SliceOf(Log'[l], 0, Log[l])

\* What a step must do for the reign of l to go on: l's log keeps its commands, and
\* whatever is new copies them or speaks of no index past them.
LEMMA ReignGoesOn ==
  ASSUME TypeOK, TypeOK', NEW l \in Server, Reign(l), OthersIdle(l)',
         SliceOf(Log'[l], 0, Log[l]),
         \A f \in Server \ {l} : SliceOf(Log[l], 0, Log'[f]),
         \A a \in appending' : a \in appending \/ CopyFrom(l, a),
         \A m \in appendReqs' : m \in appendReqs \/ CopyFrom(l, m),
         \A r \in appendReps' : r \in appendReps \/ AnswerTo(l, r),
         \A f \in Server : MatchIndex'[l][f] <= Len(Log[l])
  PROVE  ReignLasts(l)
<1>1. /\ \A f \in Server : Log[f] \in Seq(Entry) /\ Log'[f] \in Seq(Entry)
      /\ \A f \in Server : MatchIndex'[l][f] \in Nat
      /\ appending' \subseteq Task /\ appendReqs' \subseteq AppendReq
      /\ appendReps' \subseteq AppendRep
  BY DEF TypeOK, PeerTypes, WorkTypes, NetTypes
<1>2. Len(Log[l]) <= Len(Log'[l])
  BY <1>1 DEF SliceOf
<1>3. LogsCopy(l)'
  <2>1. SliceOf(Log'[l], 0, Log'[l])
    BY <1>1, SliceOfSelf
  <2>2. \A f \in Server \ {l} : SliceOf(Log'[l], 0, Log'[f])
    BY <1>1, SliceOfSlice
  <2>3. QED  BY <2>1, <2>2 DEF LogsCopy
<1>4. ASSUME NEW m, m.entries \in Seq(Entry), m.prev \in Nat, CopyFrom(l, m)
      PROVE  m.from = l /\ m.to # l /\ SliceOf(Log'[l], m.prev, m.entries)
  BY <1>1, <1>4, SliceOfSlice DEF CopyFrom
<1>5. TasksCopy(l)'
  <2>1. \A a \in appending' : CopyFrom(l, a) /\ a.entries \in Seq(Entry) /\ a.prev \in Nat
    BY <1>1 DEF Reign, TasksCopy, Task
  <2>2. QED  BY <1>4, <2>1 DEF TasksCopy, CopyFrom
<1>6. ReqsCopy(l)'
  <2>1. \A m \in appendReqs' : CopyFrom(l, m) /\ m.entries \in Seq(Entry) /\ m.prev \in Nat
    BY <1>1 DEF Reign, ReqsCopy, AppendReq
  <2>2. QED  BY <1>4, <2>1 DEF ReqsCopy, CopyFrom
<1>7. RepsWithin(l)'
  <2>1. \A r \in appendReps' : AnswerTo(l, r) /\ r.prev \in Nat /\ r.len \in Nat
    BY <1>1 DEF Reign, RepsWithin, AppendRep
  <2>2. QED  BY <1>1, <1>2, <2>1 DEF RepsWithin, AnswerTo
<1>8. MatchWithin(l)'
  BY <1>1, <1>2 DEF MatchWithin
<1>9. QED  BY <1>3, <1>5, <1>6, <1>7, <1>8 DEF Reign, ReignLasts

\* What the cases below use of a reign: what is on its way, and that no log moves
\* unless a step moves it.
LEMMA ReignFacts ==
  ASSUME TypeOK, NEW l \in Server, Reign(l)
  PROVE  /\ OthersIdle(l)
         /\ \A f \in Server : Log[f] \in Seq(Entry) /\ SliceOf(Log[l], 0, Log[f])
         /\ \A a \in appending : a \in Task /\ CopyFrom(l, a)
         /\ \A m \in appendReqs : m \in AppendReq /\ CopyFrom(l, m)
         /\ \A r \in appendReps : r \in AppendRep /\ AnswerTo(l, r)
         /\ \A f \in Server : MatchIndex[l][f] \in Nat /\ MatchIndex[l][f] <= Len(Log[l])
BY DEF TypeOK, PeerTypes, WorkTypes, NetTypes, Reign, LogsCopy, TasksCopy, ReqsCopy,
       RepsWithin, MatchWithin

\* A step that touches no log, begins no leadership and sends nothing new.
LEMMA ReignQuiet ==
  ASSUME TypeOK, TypeOK', NEW l \in Server, Reign(l),
         UNCHANGED <<Log, MatchIndex, starting, spawned, building, beat>>,
         appending' \subseteq appending,
         \A m \in appendReqs' : m \in appendReqs \/ CopyFrom(l, m),
         \A r \in appendReps' : r \in appendReps \/ AnswerTo(l, r),
         \A i \in Server : IsLeader'[i] => IsLeader[i]
  PROVE  ReignLasts(l)
<1>1. OthersIdle(l)'
  BY DEF Reign, OthersIdle
<1>2. QED  BY <1>1, ReignFacts, ReignGoesOn

\* The election goroutine: only the region of startAsLeader begins a leadership,
\* and the stamp it puts on the last entry leaves the commands alone.
LEMMA ReignElection ==
  ASSUME TypeOK, TypeOK', NEW l \in Server, Reign(l), OnlyLeader(l)',
         NEW i \in Server, ElectionStep(i)
  PROVE  ReignLasts(l)
<1>. USE DEF durableVars, lifeVars, workVars, mainVars, roleVars, netVars, histVars,
             chanVars, loopVars, commitVars, peerVars, taskVars, voteNet, appendNet
<1>1. CASE Tick(i) \/ DrainHB(i) \/ (\E c \in cands[i] : Decide(i, c)) \/ BreakLoop(i)
             \/ RecvDemote(i)
  BY <1>1, ReignQuiet DEF Tick, DrainHB, Decide, BreakLoop, RecvDemote
<1>2. CASE StartAsLeader(i)
  <2>1. i = l
    <3>1. <<Term[i], i>> \in elected'
      BY <1>2 DEF StartAsLeader
    <3>2. QED  BY <3>1 DEF OnlyLeader
  <2>2. Log \in [Server -> Seq(Entry)] /\ Term[l] \in Nat /\ IsLeader \in [Server -> BOOLEAN]
        /\ MatchIndex \in [Server -> [Server -> Nat]]
    BY DEF TypeOK, PeerTypes, WorkTypes
  <2>3. SliceOf(Log'[l], 0, Log[l])
    <3>1. Log'[l] = StampLast(Log[l], Term[l])
      BY <1>2, <2>1, <2>2 DEF StartAsLeader
    <3>2. QED  BY <2>2, <3>1, StampLastType, StampKeepsCommands, SameCommands
  <2>4. OthersIdle(l)'
    BY <1>2, <2>1, <2>2 DEF StartAsLeader, Reign, OthersIdle
  <2>5. \A f \in Server : MatchIndex'[l][f] = 0
    BY <1>2, <2>1, <2>2 DEF StartAsLeader
  <2>6. \A f \in Server \ {l} : Log'[f] = Log[f]
    BY <1>2, <2>1, <2>2 DEF StartAsLeader
  <2>7. UNCHANGED <<appending, appendReqs, appendReps>>
    BY <1>2 DEF StartAsLeader
  <2>8. \A f \in Server \ {l} : SliceOf(Log[l], 0, Log'[f])
    BY <2>6, ReignFacts
  <2>9. \A f \in Server : MatchIndex'[l][f] <= Len(Log[l])
    BY <2>2, <2>5
  <2>10. QED  BY <2>3, <2>4, <2>7, <2>8, <2>9, ReignGoesOn
<1>3. QED  BY <1>1, <1>2 DEF ElectionStep

\* The append handler: what it leaves of the follower's log is a copy, and a success
\* it answers speaks of entries that the leader's log holds.
LEMMA ReignAppendEntries ==
  ASSUME TypeOK, TypeOK', NEW l \in Server, Reign(l),
         NEW i \in Server, AppendEntriesStep(i)
  PROVE  ReignLasts(l)
<1>. USE DEF durableVars, lifeVars, workVars, mainVars, roleVars, netVars, histVars,
             chanVars, loopVars, commitVars, peerVars, taskVars, voteNet, appendNet
<1>1. Log \in [Server -> Seq(Entry)] /\ IsLeader \in [Server -> BOOLEAN]
  BY DEF TypeOK, PeerTypes
<1>2. ASSUME NEW m \in appendReqs, NEW term, NEW success, NEW last,
             Answer(m, term, success, last), success \in BOOLEAN,
             m.job = "Append" /\ ~success =>
                 \A r : r.prev = m.prev /\ r.last = last => ResendFrom(r) \in 0 .. Len(Log[l])
      PROVE  \A r \in appendReps' : r \in appendReps \/ AnswerTo(l, r)
  <2>. DEFINE new == [job |-> m.job, from |-> m.from, to |-> m.to, boot |-> m.boot,
                      prev |-> m.prev, len |-> Len(m.entries),
                      term |-> term, success |-> success, last |-> last]
  <2>1. m.from = l /\ m.to # l /\ m.prev + Len(m.entries) <= Len(Log[l])
    BY ReignFacts DEF CopyFrom, SliceOf
  <2>2. AnswerTo(l, new)
    <3>1. /\ new.from = l /\ new.to # l /\ new.job = m.job /\ new.success = success
          /\ new.prev + new.len <= Len(Log[l])
          /\ new.prev = m.prev /\ new.last = last
      BY <2>1
    <3>. HIDE DEF new
    <3>2. QED  BY <1>2, <3>1 DEF AnswerTo
  <2>3. QED  BY <1>2, <2>2 DEF Answer
<1>3. ASSUME NEW m \in appendReqs, HandleAppendEntries(i, m)
      PROVE  ReignLasts(l)
  <2>1. m \in AppendReq /\ CopyFrom(l, m) /\ SliceOf(Log[l], 0, Log[i])
    BY ReignFacts
  <2>2. i # l
    BY <1>3, <2>1 DEF HandleAppendEntries, CopyFrom
  <2>3. SliceOf(Log[l], 0, AppendOutcome(Log[i], m).log)
    BY <1>1, <2>1, OutcomeIsSlice DEF CopyFrom
  <2>4. Log'[l] = Log[l] /\ \A f \in Server \ {l} : SliceOf(Log[l], 0, Log'[f])
    <3>1. CASE m.job = "Append"
      <4>1. Log' = [Log EXCEPT ![i] = AppendOutcome(Log[i], m).log]
        BY <1>3, <3>1 DEF HandleAppendEntries
      <4>2. QED  BY <1>1, <2>2, <2>3, <4>1, ReignFacts
    <3>2. CASE m.job # "Append"
      BY <1>3, <3>2, ReignFacts DEF HandleAppendEntries
    <3>3. QED  BY <3>1, <3>2
  <2>5. \A r \in appendReps' : r \in appendReps \/ AnswerTo(l, r)
    <3>1. CASE m.job = "Append"
      <4>1. Answer(m, m.term, AppendOutcome(Log[i], m).success, AppendOutcome(Log[i], m).last)
        BY <1>3, <3>1 DEF HandleAppendEntries
      <4>2. ~AppendOutcome(Log[i], m).success =>
               \A r : r.prev = m.prev /\ r.last = AppendOutcome(Log[i], m).last =>
                       ResendFrom(r) \in 0 .. Len(Log[l])
        BY <1>1, <2>1, OutcomeInRange DEF CopyFrom
      <4>3. AppendOutcome(Log[i], m).success \in BOOLEAN
        BY <1>1, <2>1, AppendOutcomeType
      <4>4. QED  BY <1>2, <4>1, <4>2, <4>3
    <3>2. CASE m.job # "Append"
      <4>1. Answer(m, m.term, TRUE, 0)
        BY <1>3, <3>2 DEF HandleAppendEntries
      <4>2. QED  BY <1>2, <3>2, <4>1
    <3>3. QED  BY <3>1, <3>2
  <2>6. /\ UNCHANGED <<MatchIndex, starting, spawned, building, beat, appending>>
        /\ appendReqs' \subseteq appendReqs
        /\ IsLeader' = [IsLeader EXCEPT ![i] = FALSE]
    BY <1>3 DEF HandleAppendEntries, SetFollwer
  <2>7. OthersIdle(l)'
    BY <1>1, <2>6 DEF Reign, OthersIdle
  <2>8. SliceOf(Log'[l], 0, Log[l])
    BY <1>1, <2>4, SliceOfSelf
  <2>9. QED  BY <2>4, <2>5, <2>6, <2>7, <2>8, ReignFacts, ReignGoesOn
<1>4. ASSUME NEW m \in appendReqs, RefuseAppendEntries(i, m)
      PROVE  ReignLasts(l)
  <2>1. Answer(m, Term[i], FALSE, 0)
    BY <1>4 DEF RefuseAppendEntries
  <2>2. \A r \in appendReps' : r \in appendReps \/ AnswerTo(l, r)
    <3>1. \A r : r.last = 0 => ResendFrom(r) \in 0 .. Len(Log[l])
      BY <1>1 DEF ResendFrom
    <3>2. QED  BY <1>2, <2>1, <3>1
  <2>3. QED  BY <1>4, <2>2, ReignQuiet DEF RefuseAppendEntries
<1>5. QED  BY <1>3, <1>4 DEF AppendEntriesStep

\* Heartbeats go out from l alone, carry no entries, and skip l.
LEMMA ReignHeartBeat ==
  ASSUME TypeOK, TypeOK', LoopInv, NEW l \in Server, Reign(l),
         NEW i \in Server, HeartBeatStep(i)
  PROVE  ReignLasts(l)
<1>. USE DEF durableVars, lifeVars, workVars, mainVars, roleVars, netVars, histVars,
             chanVars, loopVars, commitVars, peerVars, taskVars, voteNet, appendNet
<1>1. /\ Log \in [Server -> Seq(Entry)] /\ IsLeader \in [Server -> BOOLEAN]
      /\ beat \in [Server -> 0 .. N] /\ spawned \in [Server -> SUBSET Server]
  BY DEF TypeOK, PeerTypes, WorkTypes
<1>2. SliceOf(Log[l], 0, Log[l])
  BY <1>1, SliceOfSelf
<1>3. l \in Nat /\ \A s \in Nat \cup {-1} : NextPeer(l, s) # l
  BY PeersAssumption DEF NextPeer, Server
<1>4. CASE HeartBeatRound(i)
  <2>1. i = l
    BY <1>4 DEF HeartBeatRound, LoopInv, Reign, OthersIdle
  <2>2. beat' = [beat EXCEPT ![l] = FirstPeer(l)] /\ FirstPeer(l) # l
    BY <1>3, <1>4, <2>1 DEF HeartBeatRound, FirstPeer
  <2>3. UNCHANGED <<Log, MatchIndex, starting, spawned, building, IsLeader, appending,
                    appendReqs, appendReps>>
    BY <1>4 DEF HeartBeatRound
  <2>4. OthersIdle(l)'
    BY <1>1, <2>2, <2>3 DEF Reign, OthersIdle
  <2>5. QED  BY <2>3, <2>4, ReignFacts, ReignGoesOn
<1>5. CASE SendHeartBeat(i)
  <2>1. i = l
    BY <1>5, PeersAssumption DEF SendHeartBeat, Reign, OthersIdle
  <2>2. beat[l] \in Nat /\ beat[l] # l
    BY <1>1, PeersAssumption, ReignFacts DEF OthersIdle
  <2>3. beat' = [beat EXCEPT ![l] = NextPeer(l, beat[l])] /\ NextPeer(l, beat[l]) # l
    BY <1>3, <1>5, <2>1, <2>2 DEF SendHeartBeat
  <2>4. UNCHANGED <<Log, MatchIndex, starting, spawned, building, IsLeader, appending,
                    appendReps>>
    BY <1>5 DEF SendHeartBeat
  <2>5. OthersIdle(l)'
    BY <1>1, <2>3, <2>4 DEF Reign, OthersIdle
  <2>6. CopyFrom(l, BeatArgs(l, beat[l]))
    BY <1>1, <2>2, SliceOfNothing DEF CopyFrom, BeatArgs
  <2>7. \A m \in appendReqs' : m \in appendReqs \/ CopyFrom(l, m)
    BY <1>5, <2>1, <2>6 DEF SendHeartBeat
  <2>8. QED  BY <2>4, <2>5, <2>7, ReignFacts, ReignGoesOn
<1>6. ASSUME NEW r \in appendReps, BeatReplyStepDown(i, r)
      PROVE  ReignLasts(l)
  <2>1. \A j \in Server : IsLeader'[j] => IsLeader[j]
    BY <1>1, <1>6 DEF BeatReplyStepDown, SetFollwer
  <2>2. QED  BY <1>6, <2>1, ReignQuiet DEF BeatReplyStepDown
<1>7. ASSUME NEW r \in appendReps, BeatReply(i, r)
      PROVE  ReignLasts(l)
  <2>1. r.from = l /\ r.to # l /\ r.from = i
    BY <1>7, ReignFacts DEF BeatReply, AnswerTo
  <2>2. /\ UNCHANGED <<Log, MatchIndex, starting, building, beat, IsLeader, appending,
                       appendReqs>>
        /\ appendReps' \subseteq appendReps
    BY <1>7 DEF BeatReply
  <2>3. /\ \A j \in Server \ {l} : spawned'[j] = spawned[j]
        /\ spawned'[l] \subseteq spawned[l] \cup {r.to}
    BY <1>1, <1>7, <2>1 DEF BeatReply
  <2>4. OthersIdle(l)'
    BY <2>1, <2>2, <2>3 DEF Reign, OthersIdle
  <2>5. QED  BY <2>2, <2>4, <1>2, ReignFacts, ReignGoesOn
<1>8. ASSUME NEW m \in appendReqs \cup appendReps, CallFails(i, m)
      PROVE  ReignLasts(l)
  <2>1. ASSUME NEW q \in appendReqs
        PROVE  CopyFrom(l, [q EXCEPT !.boot = NoCaller])
    <3>1. q \in AppendReq /\ CopyFrom(l, q)
      BY ReignFacts
    <3>2. QED  BY <3>1 DEF CopyFrom, AppendReq
  <2>2. \A q \in appendReqs' : q \in appendReqs \/ CopyFrom(l, q)
    BY <1>8, <2>1 DEF CallFails
  <2>3. QED  BY <1>8, <2>2, ReignQuiet DEF CallFails
<1>9. QED  BY <1>4, <1>5, <1>6, <1>7, <1>8 DEF HeartBeatStep

\* Commands and log repair: only l is given commands, and what it sends of its log
\* is a slice of it, whatever was appended since the slice was taken.
LEMMA ReignStart ==
  ASSUME TypeOK, TypeOK', LoopInv, NEW l \in Server, Reign(l),
         NEW i \in Server, StartStep(i)
  PROVE  ReignLasts(l)
<1>. USE DEF durableVars, lifeVars, workVars, mainVars, roleVars, netVars, histVars,
             chanVars, loopVars, commitVars, peerVars, taskVars, voteNet, appendNet
<1>1. /\ Log \in [Server -> Seq(Entry)] /\ Term \in [Server -> Nat]
      /\ starting \in [Server -> SUBSET Nat] /\ spawned \in [Server -> SUBSET Server]
      /\ building \in [Server -> SUBSET Server]
  BY DEF TypeOK, PeerTypes, WorkTypes
<1>2. SliceOf(Log[l], 0, Log[l])
  BY <1>1, SliceOfSelf
<1>3. CASE StartCheck(i)
  <2>1. i = l
    BY <1>3 DEF StartCheck, LoopInv, Reign, OthersIdle
  <2>2. UNCHANGED <<Log, MatchIndex, beat, spawned, building, IsLeader, appending,
                    appendReqs, appendReps>>
    BY <1>3 DEF StartCheck
  <2>3. \A j \in Server \ {l} : starting'[j] = starting[j]
    BY <1>1, <1>3, <2>1 DEF StartCheck
  <2>4. OthersIdle(l)'
    BY <2>2, <2>3 DEF Reign, OthersIdle
  <2>5. QED  BY <1>2, <2>2, <2>4, ReignFacts, ReignGoesOn
<1>4. ASSUME NEW cmd \in starting[i], StartAppend(i, cmd)
      PROVE  ReignLasts(l)
  <2>1. i = l
    BY <1>4 DEF Reign, OthersIdle
  <2>2. /\ UNCHANGED <<MatchIndex, beat, building, IsLeader, appending, appendReqs, appendReps>>
        /\ \A j \in Server \ {l} : Log'[j] = Log[j] /\ starting'[j] = starting[j]
                                   /\ spawned'[j] = spawned[j]
        /\ spawned'[l] = Server \ {l}
        /\ Log'[l] = Append(Log[l], [term |-> Term[l], cmd |-> cmd])
    BY <1>1, <1>4, <2>1 DEF StartAppend
  <2>3. SliceOf(Log'[l], 0, Log[l])
    BY <1>1, <2>1, <2>2, AppendKeepsSlice DEF Entry
  <2>4. OthersIdle(l)'
    BY <2>2 DEF Reign, OthersIdle
  <2>5. QED  BY <2>2, <2>3, <2>4, ReignFacts, ReignGoesOn
<1>5. ASSUME NEW s \in spawned[i], AppendCheck(i, s)
      PROVE  ReignLasts(l)
  <2>1. i = l /\ s # l
    BY <1>5 DEF Reign, OthersIdle
  <2>2. UNCHANGED <<Log, MatchIndex, beat, starting, IsLeader, appending, appendReqs,
                    appendReps>>
    BY <1>5 DEF AppendCheck
  <2>3. /\ \A j \in Server \ {l} : spawned'[j] = spawned[j] /\ building'[j] = building[j]
        /\ spawned'[l] \subseteq spawned[l] /\ building'[l] \subseteq building[l] \cup {s}
    BY <1>1, <1>5, <2>1 DEF AppendCheck
  <2>4. OthersIdle(l)'
    BY <2>1, <2>2, <2>3 DEF Reign, OthersIdle
  <2>5. QED  BY <1>2, <2>2, <2>4, ReignFacts, ReignGoesOn
<1>6. ASSUME NEW s \in building[i], AppendBuild(i, s)
      PROVE  ReignLasts(l)
  <2>1. i = l /\ s # l
    BY <1>6 DEF Reign, OthersIdle
  <2>2. /\ UNCHANGED <<Log, MatchIndex, beat, starting, spawned, IsLeader, appendReqs,
                       appendReps>>
        /\ building' = [building EXCEPT ![i] = @ \ {s}]
    BY <1>6 DEF AppendBuild
  <2>3. OthersIdle(l)'
    BY <1>1, <2>1, <2>2 DEF Reign, OthersIdle
  <2>4. \A a \in appending' : a \in appending \/ CopyFrom(l, a)
    <3>1. MatchIndex[l][s] \in 0 .. Len(Log[l])
      BY <1>1, <1>6, ReignFacts
    <3>2. SliceOf(Log[l], MatchIndex[l][s], After(Log[l], MatchIndex[l][s]))
      BY <1>1, <3>1, AfterIsSlice
    <3>3. MatchIndex[l][s] = 0 => TermForLog(Log[l], MatchIndex[l][s]) = 0
      BY DEF TermForLog
    <3>4. QED  BY <1>6, <2>1, <3>2, <3>3 DEF AppendBuild, CopyFrom
  <2>5. QED  BY <1>2, <2>2, <2>3, <2>4, ReignFacts, ReignGoesOn
<1>7. ASSUME NEW a \in Task, CopyFrom(l, a), NEW es, SliceOf(Log[l], a.prev, es)
      PROVE  CopyFrom(l, AppendArgs(l, a, es))
  BY <1>7 DEF CopyFrom, AppendArgs
<1>8. ASSUME NEW a \in appending, AppendSend(i, a)
      PROVE  ReignLasts(l)
  <2>1. a \in Task /\ CopyFrom(l, a) /\ i = l
    BY <1>8, ReignFacts DEF AppendSend, CopyFrom
  <2>2. UNCHANGED <<Log, MatchIndex, beat, starting, spawned, building, IsLeader,
                    appendReps>>
    BY <1>8 DEF AppendSend
  <2>3. CopyFrom(l, [a EXCEPT !.encoding = TRUE])
    BY <2>1 DEF CopyFrom, Task
  <2>4. \A b \in appending' : b \in appending \/ CopyFrom(l, b)
    BY <1>8, <2>3 DEF AppendSend
  <2>5. CopyFrom(l, AppendArgs(l, a, a.entries))
    BY <1>7, <2>1 DEF CopyFrom
  <2>6. \A m \in appendReqs' : m \in appendReqs \/ CopyFrom(l, m)
    BY <1>8, <2>1, <2>5 DEF AppendSend
  <2>7. OthersIdle(l)'
    BY <2>2 DEF Reign, OthersIdle
  <2>8. QED  BY <1>2, <2>2, <2>4, <2>6, <2>7, ReignFacts, ReignGoesOn
<1>9. ASSUME NEW a \in appending, AppendEncode(i, a)
      PROVE  ReignLasts(l)
  <2>1. a \in Task /\ CopyFrom(l, a) /\ i = l
    BY <1>9, ReignFacts DEF AppendEncode, CopyFrom
  <2>2. /\ UNCHANGED <<Log, MatchIndex, beat, starting, spawned, building, IsLeader,
                       appendReps>>
        /\ appending' \subseteq appending
    BY <1>9 DEF AppendEncode
  <2>3. PICK es \in Encodings(l, a) : appendReqs' = appendReqs \cup {AppendArgs(l, a, es)}
    BY <1>9, <2>1 DEF AppendEncode
  <2>4. SliceOf(Log[l], a.prev, es)
    BY <1>1, <2>1, EncodingIsSlice DEF CopyFrom
  <2>5. CopyFrom(l, AppendArgs(l, a, es))
    BY <1>7, <2>1, <2>4
  <2>6. OthersIdle(l)'
    BY <2>2 DEF Reign, OthersIdle
  <2>7. QED  BY <1>2, <2>2, <2>3, <2>5, <2>6, ReignFacts, ReignGoesOn
<1>10. QED  BY <1>3, <1>4, <1>5, <1>6, <1>8, <1>9 DEF StartStep

\* Answers to append calls: a late one may move MatchIndex back, never past the log,
\* and a resend takes a slice of the log.
LEMMA ReignAppendReply ==
  ASSUME TypeOK, TypeOK', NEW l \in Server, Reign(l),
         NEW i \in Server, AppendReplyStep(i)
  PROVE  ReignLasts(l)
<1>. USE DEF durableVars, lifeVars, workVars, mainVars, roleVars, netVars, histVars,
             chanVars, loopVars, commitVars, peerVars, taskVars, voteNet, appendNet
<1>1. /\ Log \in [Server -> Seq(Entry)] /\ MatchIndex \in [Server -> [Server -> Nat]]
  BY DEF TypeOK, PeerTypes, WorkTypes
<1>2. SliceOf(Log[l], 0, Log[l])
  BY <1>1, SliceOfSelf
<1>3. ASSUME NEW r \in appendReps, AppendReplySuccess(i, r)
      PROVE  ReignLasts(l)
  <2>1. i = l /\ r.prev + r.len <= Len(Log[l])
    BY <1>3, ReignFacts DEF AppendReplySuccess, AnswerTo
  <2>2. /\ UNCHANGED <<Log, beat, starting, spawned, building, IsLeader, appending, appendReqs>>
        /\ appendReps' \subseteq appendReps
        /\ MatchIndex' = [MatchIndex EXCEPT ![i] = [MatchIndex[i] EXCEPT ![r.to] = r.prev + r.len]]
    BY <1>3 DEF AppendReplySuccess
  <2>3. \A f \in Server : MatchIndex'[l][f] <= Len(Log[l])
    BY <1>1, <2>1, <2>2, ReignFacts
  <2>4. OthersIdle(l)'
    BY <2>2 DEF Reign, OthersIdle
  <2>5. QED  BY <1>2, <2>2, <2>3, <2>4, ReignFacts, ReignGoesOn
<1>4. ASSUME NEW r \in appendReps, AppendReplyFailure(i, r)
      PROVE  ReignLasts(l)
  <2>1. i = l /\ r.to # l
    BY <1>4, ReignFacts DEF AppendReplyFailure, AnswerTo
  <2>2. /\ UNCHANGED <<Log, MatchIndex, beat, starting, spawned, building, IsLeader, appendReqs>>
        /\ appendReps' \subseteq appendReps
    BY <1>4 DEF AppendReplyFailure
  <2>3. \A a \in appending' : a \in appending \/ CopyFrom(l, a)
    <3>1. CASE ResendFrom(r) \notin 0 .. Len(Log[i])
      BY <1>4, <3>1 DEF AppendReplyFailure
    <3>2. CASE ResendFrom(r) \in 0 .. Len(Log[i])
      <4>1. SliceOf(Log[l], ResendFrom(r), After(Log[l], ResendFrom(r)))
        BY <1>1, <2>1, <3>2, AfterIsSlice
      <4>2. ResendFrom(r) = 0 => TermForLog(Log[l], ResendFrom(r)) = 0
        BY DEF TermForLog
      <4>3. QED  BY <1>4, <2>1, <3>2, <4>1, <4>2 DEF AppendReplyFailure, CopyFrom
    <3>3. QED  BY <3>1, <3>2
  <2>4. OthersIdle(l)'
    BY <2>2 DEF Reign, OthersIdle
  <2>5. QED  BY <1>2, <2>2, <2>3, <2>4, ReignFacts, ReignGoesOn
<1>5. QED  BY <1>3, <1>4 DEF AppendReplyStep

\* A restart brings back the saved log, and the saved log holds the same commands.
LEMMA ReignCrash ==
  ASSUME TypeOK, TypeOK', EntriesDurable, NEW l \in Server, Reign(l),
         NEW i \in Server, CrashRestart(i)
  PROVE  ReignLasts(l)
<1>. USE DEF durableVars, lifeVars, workVars, mainVars, roleVars, netVars, histVars,
             chanVars, loopVars, commitVars, peerVars, taskVars, voteNet, appendNet
<1>1. /\ Log \in [Server -> Seq(Entry)] /\ persisted[i].log \in Seq(Entry)
      /\ MatchIndex \in [Server -> [Server -> Nat]] /\ IsLeader \in [Server -> BOOLEAN]
      /\ beat \in [Server -> 0 .. N] /\ starting \in [Server -> SUBSET Nat]
      /\ spawned \in [Server -> SUBSET Server] /\ building \in [Server -> SUBSET Server]
  BY DEF TypeOK, PeerTypes, WorkTypes
<1>2. /\ SliceOf(persisted[i].log, 0, Log[i])
      /\ SliceOf(Log[i], 0, persisted[i].log)
  BY <1>1, DurableCommands, SameCommands
<1>3. /\ Log' = [Log EXCEPT ![i] = persisted[i].log]
      /\ MatchIndex' = [MatchIndex EXCEPT ![i] = [s \in Server |-> 0]]
      /\ appending' \subseteq appending /\ appendReqs' = appendReqs
      /\ appendReps' \subseteq appendReps
  BY <1>1 DEF CrashRestart
<1>4. SliceOf(Log'[l], 0, Log[l])
  BY <1>1, <1>2, <1>3, SliceOfSelf
<1>5. \A f \in Server \ {l} : SliceOf(Log[l], 0, Log'[f])
  <2>1. SliceOf(Log[l], 0, Log[i])
    BY ReignFacts
  <2>2. SliceOf(Log[l], 0, persisted[i].log)
    BY <1>1, <1>2, <2>1, SliceOfSlice
  <2>3. QED  BY <1>1, <1>3, <2>2, ReignFacts
<1>6. \A f \in Server : MatchIndex'[l][f] <= Len(Log[l])
  BY <1>1, <1>3, ReignFacts
<1>7. OthersIdle(l)'
  BY <1>1 DEF CrashRestart, Reign, OthersIdle, Server
<1>8. QED  BY <1>3, <1>4, <1>5, <1>6, <1>7, ReignGoesOn

\* While l alone has led, its reign goes on, whatever step is taken.
LEMMA ReignStep ==
  ASSUME TypeOK, TypeOK', LoopInv, EntriesDurable, [Next]_vars,
         NEW l \in Server, Reign(l), OnlyLeader(l)'
  PROVE  ReignLasts(l)
<1>. USE DEF durableVars, lifeVars, workVars, mainVars, roleVars, netVars, histVars,
             chanVars, loopVars, commitVars, peerVars, taskVars, voteNet, appendNet
<1>1. CASE UNCHANGED vars
  BY <1>1, ReignQuiet DEF vars
<1>2. ASSUME NEW i \in Server, VoteStep(i)
      PROVE  ReignLasts(l)
  <2>1. /\ UNCHANGED <<Log, MatchIndex, starting, spawned, building, beat, appending,
                       appendReqs, appendReps>>
        /\ IsLeader' = IsLeader \/ IsLeader' = [IsLeader EXCEPT ![i] = FALSE]
    BY <1>2 DEF VoteStep, HandleRequestVote, VoteReplyStepDown, VoteReply, SetFollwer
  <2>2. \A j \in Server : IsLeader'[j] => IsLeader[j]
    BY <2>1 DEF TypeOK, PeerTypes
  <2>3. QED  BY <2>1, <2>2, ReignQuiet
<1>3. ASSUME NEW i \in Server, BlockStep(i)
      PROVE  ReignLasts(l)
  <2>1. /\ UNCHANGED <<Log, MatchIndex, starting, spawned, building, beat, appending, IsLeader,
                       appendReps>>
        /\ appendReqs' \subseteq appendReqs
    BY <1>3 DEF BlockStep, RequestVoteBlocks, AppendEntriesBlocks, VoteReplyBlocks,
                HandlerBlocks
  <2>2. QED  BY <2>1, ReignQuiet
<1>4. QED
  BY <1>1, <1>2, <1>3, ReignElection, ReignAppendEntries, ReignHeartBeat, ReignStart,
     ReignAppendReply, ReignCrash, Zenon DEF Next

\* Leaderships are only added to the history.
LEMMA ElectedGrows == [Next]_vars => elected \subseteq elected'
<1>. USE DEF histVars
<1>1. ASSUME NEW i \in Server, ElectionStep(i)
      PROVE  elected \subseteq elected'
  BY <1>1 DEF ElectionStep, Tick, DrainHB, Decide, BreakLoop, StartAsLeader, RecvDemote
<1>2. ASSUME NEW i \in Server, VoteStep(i) \/ AppendEntriesStep(i) \/ BlockStep(i)
      PROVE  elected \subseteq elected'
  BY <1>2
  DEF VoteStep, HandleRequestVote, VoteReplyStepDown, VoteReply,
      AppendEntriesStep, HandleAppendEntries, RefuseAppendEntries,
      BlockStep, RequestVoteBlocks, AppendEntriesBlocks, VoteReplyBlocks, HandlerBlocks
<1>3. ASSUME NEW i \in Server, HeartBeatStep(i)
      PROVE  elected \subseteq elected'
  BY <1>3 DEF HeartBeatStep, HeartBeatRound, SendHeartBeat, BeatReplyStepDown, BeatReply, CallFails
<1>4. ASSUME NEW i \in Server, StartStep(i)
      PROVE  elected \subseteq elected'
  BY <1>4 DEF StartStep, StartCheck, StartAppend, AppendCheck, AppendBuild, AppendSend, AppendEncode
<1>5. ASSUME NEW i \in Server, AppendReplyStep(i) \/ CrashRestart(i)
      PROVE  elected \subseteq elected'
  BY <1>5 DEF AppendReplyStep, AppendReplySuccess, AppendReplyFailure, CrashRestart
<1>6. UNCHANGED vars => elected \subseteq elected'
  BY DEF vars
<1>7. QED  BY <1>1, <1>2, <1>3, <1>4, <1>5, <1>6, Zenon DEF Next

\* As long as one peer, restarted or not, is the only one that ever led, every log and
\* every message holds its commands in place.
THEOREM ReignCorrect == Spec => []ReignInv
<1>1. Init => ReignInv
  <2>. SUFFICES ASSUME Init, NEW l \in Server
                PROVE  Reign(l)
    BY DEF ReignInv
  <2>1. OthersIdle(l)
    BY PeersAssumption DEF Init, OthersIdle, Server
  <2>2. \A f \in Server : Log[f] = <<>> /\ MatchIndex[l][f] = 0
    BY DEF Init
  <2>3. appending = {} /\ appendReqs = {} /\ appendReps = {}
    BY DEF Init
  <2>4. QED
    BY <2>1, <2>2, <2>3
    DEF Reign, LogsCopy, TasksCopy, ReqsCopy, RepsWithin, MatchWithin, SliceOf
<1>2. TypeOK /\ TypeOK' /\ LoopInv /\ EntriesDurable /\ ReignInv /\ [Next]_vars => ReignInv'
  <2>. SUFFICES ASSUME TypeOK, TypeOK', LoopInv, EntriesDurable, ReignInv, [Next]_vars,
                       NEW l \in Server, OnlyLeader(l)'
                PROVE  Reign(l)'
    BY DEF ReignInv
  <2>1. OnlyLeader(l)
    BY ElectedGrows DEF OnlyLeader
  <2>2. QED  BY <2>1, ReignStep DEF ReignInv, ReignLasts
<1>3. QED  BY <1>1, <1>2, TypeCorrect, LoopCorrect, LogDurable, PTL DEF Spec

\* A log whose entries are a slice at another's start holds a prefix of its commands.
LEMMA SliceIsPrefix ==
  ASSUME NEW a \in Seq(Entry), NEW b \in Seq(Entry), SliceOf(b, 0, a)
  PROVE  IsPrefix(Commands(a), Commands(b))
<1>1. ASSUME NEW log \in Seq(Entry)
      PROVE  /\ Commands(log) \in Seq(Nat) /\ Len(Commands(log)) = Len(log)
             /\ \A k \in 1 .. Len(log) : Commands(log)[k] = log[k].cmd
  <2>1. \A k \in 1 .. Len(log) : log[k].cmd \in Nat
    <3>1. \A k \in 1 .. Len(log) : log[k] \in Entry
      BY <1>1
    <3>2. QED  BY <3>1 DEF Entry
  <2>2. Commands(log) = [k \in 1 .. Len(log) |-> log[k].cmd]
    BY DEF Commands
  <2>3. QED  BY <2>1, <2>2
<1>2. Len(a) <= Len(b) /\ \A k \in 1 .. Len(a) : a[k].cmd = b[k].cmd
  BY DEF SliceOf
<1>. DEFINE ca == Commands(a)
            cb == Commands(b)
<1>3. /\ ca \in Seq(Nat) /\ cb \in Seq(Nat) /\ Len(ca) <= Len(cb)
      /\ \A k \in 1 .. Len(ca) : ca[k] = cb[k]
  BY <1>1, <1>2
<1>. HIDE DEF ca, cb
<1>4. SubSeq(ca, 1, Len(ca)) = SubSeq(cb, 1, Len(ca))
  <2>. DEFINE n == Len(ca)
              sa == SubSeq(ca, 1, n)
              sb == SubSeq(cb, 1, n)
  <2>1. n \in Nat /\ \A k \in 1 .. n : k \in 1 .. Len(ca) /\ k \in 1 .. Len(cb)
    BY <1>3
  <2>2. sa \in Seq(Nat) /\ Len(sa) = n /\ \A k \in 1 .. n : sa[k] = ca[k]
    BY <1>3, <2>1, SubSeqProperties
  <2>3. sb \in Seq(Nat) /\ Len(sb) = n /\ \A k \in 1 .. n : sb[k] = cb[k]
    BY <1>3, <2>1, SubSeqProperties
  <2>. HIDE DEF sa, sb
  <2>4. \A k \in 1 .. n : sa[k] = sb[k]
    BY <1>3, <2>2, <2>3
  <2>. HIDE DEF n
  <2>5. sa = sb
    BY <2>1, <2>2, <2>3, <2>4, SeqEqual
  <2>6. QED  BY <2>5 DEF sa, sb, n
<1>5. IsPrefix(ca, cb)
  BY <1>3, <1>4 DEF IsPrefix
<1>6. QED  BY <1>5 DEF ca, cb

\* While one leadership has begun, every log is a prefix of the leader's, and the
\* leader knows no peer to be ahead of it.
THEOREM OneLog == Spec => []OneReignOneLog
<1>1. TypeOK /\ ReignInv => OneReignOneLog
  <2>. SUFFICES ASSUME TypeOK, ReignInv, NEW e \in elected, elected = {e}, NEW f \in Server
                PROVE  /\ IsPrefix(Commands(Log[f]), Commands(Log[e[2]]))
                       /\ MatchIndex[e[2]][f] <= Len(Log[e[2]])
    BY DEF OneReignOneLog
  <2>1. e[2] \in Server
    BY DEF TypeOK, HistTypes
  <2>2. Reign(e[2])
    BY <2>1 DEF ReignInv, OnlyLeader
  <2>3. /\ Log[f] \in Seq(Entry) /\ Log[e[2]] \in Seq(Entry)
        /\ SliceOf(Log[e[2]], 0, Log[f])
        /\ MatchIndex[e[2]][f] <= Len(Log[e[2]])
    BY <2>1, <2>2, ReignFacts
  <2>4. QED  BY <2>3, SliceIsPrefix
<1>2. QED  BY <1>1, TypeCorrect, ReignCorrect, PTL

\* As long as one peer is the only one ever to have led, the slice that a resend takes
\* of rf.Log is inside it (raft.go:407-413): the goroutine cannot panic there.
ResendInRange ==
    \A r \in appendReps :
        r.job = "Append" /\ ~r.success /\ OnlyLeader(r.from) =>
            ResendFrom(r) \in 0 .. Len(Log[r.from])

THEOREM ResendsInRange == Spec => []ResendInRange
<1>1. TypeOK /\ ReignInv => ResendInRange
  <2>. SUFFICES ASSUME TypeOK, ReignInv, NEW r \in appendReps, OnlyLeader(r.from),
                       r.job = "Append", ~r.success
                PROVE  ResendFrom(r) \in 0 .. Len(Log[r.from])
    BY DEF ResendInRange
  <2>1. r.from \in Server
    BY DEF TypeOK, NetTypes, AppendRep
  <2>2. AnswerTo(r.from, r)
    BY <2>1, ReignFacts DEF ReignInv
  <2>3. QED  BY <2>2 DEF AnswerTo
<1>2. QED  BY <1>1, TypeCorrect, ReignCorrect, PTL
-----------------------------------------------------------------------------
\* What the peers hand to their state machines (module StateMachine).

\* startApply goes no further than the log reaches: the append handler caps the commit
\* index at its last entry, and the leader commits indexes of its own log.
LEMMA AppliedWithin ==
  ASSUME TypeOK, [Next]_vars, NEW j \in Server
  PROVE  LastApply'[j] <= LastApply[j] \/ LastApply'[j] <= Len(Log'[j])
<1>. USE DEF durableVars, lifeVars, workVars, mainVars, roleVars, netVars, histVars,
             chanVars, loopVars, commitVars, peerVars, taskVars, voteNet, appendNet
<1>1. /\ LastApply \in [Server -> Nat] /\ CommitIndex \in [Server -> Nat]
      /\ Log \in [Server -> Seq(Entry)]
  BY DEF TypeOK, PeerTypes, WorkTypes
<1>2. ASSUME UNCHANGED LastApply
      PROVE  LastApply'[j] <= LastApply[j]
  BY <1>1, <1>2
<1>3. ASSUME NEW i \in Server, NEW n \in Nat, n <= Len(Log[i]), UNCHANGED Log,
             LastApply' = [LastApply EXCEPT ![i] = Maximum(@, n)]
      PROVE  LastApply'[j] <= LastApply[j] \/ LastApply'[j] <= Len(Log'[j])
  BY <1>1, <1>3 DEF Maximum
<1>4. CASE UNCHANGED vars
  BY <1>2, <1>4 DEF vars
<1>5. ASSUME NEW i \in Server, ElectionStep(i)
      PROVE  LastApply'[j] <= LastApply[j]
  BY <1>2, <1>5 DEF ElectionStep, Tick, DrainHB, Decide, BreakLoop, StartAsLeader, RecvDemote
<1>6. ASSUME NEW i \in Server, VoteStep(i) \/ BlockStep(i) \/ HeartBeatStep(i) \/ StartStep(i)
      PROVE  LastApply'[j] <= LastApply[j]
  <2>1. CASE VoteStep(i) \/ BlockStep(i)
    BY <1>2, <2>1 DEF VoteStep, HandleRequestVote, VoteReplyStepDown, VoteReply, BlockStep,
                      RequestVoteBlocks, AppendEntriesBlocks, VoteReplyBlocks, HandlerBlocks
  <2>2. CASE HeartBeatStep(i)
    BY <1>2, <2>2 DEF HeartBeatStep, HeartBeatRound, SendHeartBeat, BeatReplyStepDown,
                      BeatReply, CallFails
  <2>3. CASE StartStep(i)
    BY <1>2, <2>3 DEF StartStep, StartCheck, StartAppend, AppendCheck, AppendBuild, AppendSend, AppendEncode
  <2>4. QED  BY <1>6, <2>1, <2>2, <2>3
<1>7. ASSUME NEW i \in Server, AppendEntriesStep(i)
      PROVE  LastApply'[j] <= LastApply[j] \/ LastApply'[j] <= Len(Log'[j])
  <2>1. ASSUME NEW m \in appendReqs, HandleAppendEntries(i, m)
        PROVE  LastApply'[j] <= LastApply[j] \/ LastApply'[j] <= Len(Log'[j])
    <3>1. CASE m.job = "CommitAndHeartBeat"
      <4>1. m.commit \in Nat
        BY DEF TypeOK, NetTypes, AppendReq
      <4>2. /\ Minimum(m.commit, LastIndex(Log[i])) \in Nat
            /\ Minimum(m.commit, LastIndex(Log[i])) <= Len(Log[i])
        BY <1>1, <4>1 DEF Minimum, LastIndex
      <4>3. /\ UNCHANGED Log
            /\ LastApply' =
                 [LastApply EXCEPT ![i] = Maximum(@, Minimum(m.commit, LastIndex(Log[i])))]
        BY <2>1, <3>1 DEF HandleAppendEntries
      <4>4. QED  BY <1>3, <4>2, <4>3
    <3>2. CASE m.job # "CommitAndHeartBeat"
      BY <1>2, <2>1, <3>2 DEF HandleAppendEntries
    <3>3. QED  BY <3>1, <3>2
  <2>2. ASSUME NEW m \in appendReqs, RefuseAppendEntries(i, m)
        PROVE  LastApply'[j] <= LastApply[j]
    BY <1>2, <2>2 DEF RefuseAppendEntries
  <2>3. QED  BY <1>7, <2>1, <2>2 DEF AppendEntriesStep
<1>8. ASSUME NEW i \in Server, NEW r \in appendReps, AppendReplySuccess(i, r)
      PROVE  LastApply'[j] <= LastApply[j] \/ LastApply'[j] <= Len(Log'[j])
  <2>. DEFINE match  == [MatchIndex[i] EXCEPT ![r.to] = r.prev + r.len]
              alive  == [PeerAlive[i] EXCEPT ![r.to] = TRUE]
              commit == IF IsLeader[i]
                        THEN Newest(Committable(i, match, alive), CommitIndex[i])
                        ELSE CommitIndex[i]
  <2>1. /\ UNCHANGED Log
        /\ LastApply' = [LastApply EXCEPT ![i] =
                            IF commit > CommitIndex[i] THEN Maximum(@, commit) ELSE @]
    BY <1>8 DEF AppendReplySuccess
  <2>2. commit = CommitIndex[i] \/ commit \in 0 .. Len(Log[i])
    <3>1. Committable(i, match, alive) \in SUBSET (0 .. Len(Log[i]))
      BY <1>1 DEF Committable, LastIndex
    <3>. DEFINE S == Committable(i, match, alive)
    <3>. HIDE DEF S
    <3>2. Newest(S, CommitIndex[i]) = CommitIndex[i] \/ Newest(S, CommitIndex[i]) \in S
      <4>1. Len(Log[i]) \in Nat
        BY <1>1
      <4>2. S \in SUBSET (0 .. Len(Log[i]))
        BY <3>1 DEF S
      <4>3. QED  BY <4>1, <4>2, NewestIsGreatest, Zenon
    <3>3. QED  BY <3>1, <3>2 DEF S
  <2>. HIDE DEF commit
  <2>3. CASE commit > CommitIndex[i]
    <3>1. commit \in Nat /\ commit <= Len(Log[i])
      BY <1>1, <2>2, <2>3
    <3>2. LastApply' = [LastApply EXCEPT ![i] = Maximum(@, commit)]
      BY <2>1, <2>3
    <3>3. QED  BY <1>3, <2>1, <3>1, <3>2
  <2>4. CASE ~(commit > CommitIndex[i])
    <3>1. LastApply' = LastApply
      BY <1>1, <2>1, <2>4
    <3>2. QED  BY <1>2, <3>1
  <2>5. QED  BY <2>3, <2>4
<1>9. ASSUME NEW i \in Server, NEW r \in appendReps, AppendReplyFailure(i, r)
      PROVE  LastApply'[j] <= LastApply[j]
  BY <1>2, <1>9 DEF AppendReplyFailure
<1>10. ASSUME NEW i \in Server, CrashRestart(i)
       PROVE  LastApply'[j] <= LastApply[j]
  BY <1>1, <1>10 DEF CrashRestart
<1>11. QED
  BY <1>4, <1>5, <1>6, <1>7, <1>8, <1>9, <1>10, Zenon DEF Next, AppendReplyStep

\* The ApplyMsgs so far hold what l's log holds, at indexes it has.
Told(l) ==
    \A d \in delivered : d.index \in 1 .. Len(Log[l]) /\ d.cmd = Log[l][d.index].cmd

ToldInv == \A l \in Server : OnlyLeader(l) => Told(l)

\* What is handed over stays what l's log holds, however commit indexes move and
\* whatever a restart applies again.
LEMMA ToldStep ==
  ASSUME TypeOK, TypeOK', ReignInv, ReignInv', LoopInv, EntriesDurable, ToldInv,
         [MachineNext]_machineVars
  PROVE  ToldInv'
<1>. SUFFICES ASSUME NEW l \in Server, OnlyLeader(l)', NEW d \in delivered'
              PROVE  d.index \in 1 .. Len(Log'[l]) /\ d.cmd = Log'[l][d.index].cmd
  BY DEF ToldInv, Told
<1>1. [Next]_vars
  BY DEF MachineNext, machineVars
<1>2. OnlyLeader(l)
  BY <1>1, ElectedGrows DEF OnlyLeader
<1>3. Reign(l) /\ Reign(l)'
  BY <1>2 DEF ReignInv
<1>4. \A f \in Server : Log[f] \in Seq(Entry) /\ Log'[f] \in Seq(Entry)
                        /\ LastApply[f] \in Nat /\ LastApply'[f] \in Nat
  BY DEF TypeOK, PeerTypes, WorkTypes
<1>5. CASE d \in delivered
  <2>1. d.index \in 1 .. Len(Log[l]) /\ d.cmd = Log[l][d.index].cmd
    BY <1>2, <1>5 DEF ToldInv, Told
  <2>2. SliceOf(Log'[l], 0, Log[l])
    BY <1>1, <1>3, ReignStep DEF ReignLasts
  <2>3. QED  BY <1>4, <2>1, <2>2 DEF SliceOf
<1>6. CASE d \notin delivered
  <2>1. PICK i \in Server : d \in ApplyMsgs(i)
    BY <1>6 DEF MachineNext, machineVars
  <2>2. PICK k \in LastApply[i] + 1 .. LastApply'[i] :
            d = [server |-> i, index |-> k, cmd |-> Log'[i][k].cmd]
    BY <2>1 DEF ApplyMsgs
  <2>3. k \in 1 .. Len(Log'[i])
    BY <1>1, <1>4, <2>2, AppliedWithin
  <2>4. SliceOf(Log'[l], 0, Log'[i])
    BY <1>3 DEF Reign, LogsCopy
  <2>5. k \in 1 .. Len(Log'[l]) /\ Log'[i][k].cmd = Log'[l][k].cmd
    BY <1>4, <2>3, <2>4 DEF SliceOf
  <2>6. QED  BY <2>2, <2>5
<1>7. QED  BY <1>5, <1>6

\* The peers with their history are the peers.
LEMMA MachineIsRaft == MachineSpec => Spec
<1>1. MachineInit => Init
  BY DEF MachineInit
<1>2. [MachineNext]_machineVars => [Next]_vars
  BY DEF MachineNext, machineVars
<1>3. QED  BY <1>1, <1>2, PTL DEF MachineSpec, Spec

\* Whatever a peer hands over during one reign is what the leader's log holds there.
THEOREM ToldCorrect == MachineSpec => []ToldInv
<1>1. MachineInit => ToldInv
  BY DEF MachineInit, ToldInv, Told
<1>2. QED
  BY <1>1, ToldStep, MachineIsRaft, TypeCorrect, ReignCorrect, LoopCorrect, LogDurable,
     PTL DEF MachineSpec

\* While one leadership has begun, what the state machines were given is the leader's log.
THEOREM OneHistory == MachineSpec => []OneReignOneHistory
<1>1. TypeOK /\ ToldInv => OneReignOneHistory
  <2>. SUFFICES ASSUME TypeOK, ToldInv, NEW e \in elected, NEW d \in delivered, elected = {e}
                PROVE  d.index <= Len(Log[e[2]]) /\ d.cmd = Log[e[2]][d.index].cmd
    BY DEF OneReignOneHistory
  <2>1. e[2] \in Server
    BY DEF TypeOK, HistTypes
  <2>2. Told(e[2])
    BY <2>1 DEF ToldInv, OnlyLeader
  <2>3. QED  BY <2>1, <2>2 DEF Told, TypeOK, PeerTypes
<1>2. QED  BY <1>1, ToldCorrect, MachineIsRaft, TypeCorrect, PTL

\* As long as all leaderships were of one peer, restarts of it included, no two state
\* machines are given different commands at one index: what config.go:189 checks fails
\* only after a second peer has led.
OneReignAgrees == (\E l \in Server : OnlyLeader(l)) => ApplyAgreement

THEOREM OneReignAgreement == MachineSpec => []OneReignAgrees
<1>1. ToldInv => OneReignAgrees
  BY DEF ToldInv, Told, OneReignAgrees, ApplyAgreement
<1>2. QED  BY <1>1, ToldCorrect, PTL
=============================================================================
