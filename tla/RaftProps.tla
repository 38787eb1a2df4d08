----------------------------- MODULE RaftProps -----------------------------
(***************************************************************************)
(* What the peer of module Raft promises, and, at the end, what the        *)
(* repository says of it and the code does not do.                         *)
(***************************************************************************)
EXTENDS Raft, SequencesExt

Candidacy == [term : Nat, votes : SUBSET Server, clock : Clocks, open : BOOLEAN]
Result    == [term : Nat, votes : SUBSET Server]
VoteReq   == [from : Server, to : Server, term : Nat, lastIndex : Nat, lastTerm : Nat]
VoteRep   == [from : Server, to : Server, cand : Nat, term : Nat, granted : BOOLEAN]
AppendReq == [job : Jobs, from : Server, to : Server, boot : Nat \cup {NoCaller}, term : Nat,
              prev : Nat, prevTerm : Nat \cup {NoTerm}, entries : Seq(Entry),
              commit : Nat]
AppendRep == [job : Jobs, from : Server, to : Server, boot : Nat, prev : Nat,
              len : Nat, term : Nat, success : BOOLEAN, last : Nat \cup {-1}]
Task      == [from : Server, to : Server, term : Nat, prev : Nat,
              prevTerm : Nat \cup {NoTerm}, entries : Seq(Entry), shared : BOOLEAN,
              encoding : BOOLEAN]

PeerTypes ==
    /\ Term \in [Server -> Nat]
    /\ VotedFor \in [Server -> Server \cup {NoVote}]
    /\ Log \in [Server -> Seq(Entry)]
    /\ persisted \in [Server -> [term : Nat, vote : Server \cup {NoVote},
                                 log : Seq(Entry)]]
    /\ State \in [Server -> Roles]
    /\ IsLeader \in [Server -> BOOLEAN]

MainTypes ==
    /\ ReceiveHB \in [Server -> BOOLEAN]
    /\ BecomeFollwerFromLeader \in [Server -> BOOLEAN]
    /\ electionResult \in [Server -> Result]
    /\ loop \in [Server -> Loops]
    /\ won \in [Server -> Result]
    /\ cands \in [Server -> SUBSET Candidacy]

WorkTypes ==
    /\ CommitIndex \in [Server -> Nat]
    /\ LastApply \in [Server -> Nat]
    /\ MatchIndex \in [Server -> [Server -> Nat]]
    /\ PeerAlive \in [Server -> [Server -> BOOLEAN]]
    /\ OpenCommit \in [Server -> [Server -> BOOLEAN]]
    /\ beat \in [Server -> 0 .. N]
    /\ starting \in [Server -> SUBSET Nat]
    /\ spawned \in [Server -> SUBSET Server]
    /\ building \in [Server -> SUBSET Server]
    /\ appending \in SUBSET Task
    /\ issued \in Nat

LifeTypes ==
    /\ stopped \in [Server -> BOOLEAN]
    /\ boots \in [Server -> Nat]
    /\ crashes \in Nat

NetTypes ==
    /\ voteReqs \in SUBSET VoteReq
    /\ voteReps \in SUBSET VoteRep
    /\ appendReqs \in SUBSET AppendReq
    /\ appendReps \in SUBSET AppendRep

HistTypes ==
    /\ elected \in SUBSET (Nat \X Server)
    /\ elections \in Nat
    /\ rounds \in Nat

\* Every variable keeps to the values the code can give it: above all, no index
\* is ever negative, although updateCommitForLeader looks for one from -1.
TypeOK == PeerTypes /\ MainTypes /\ WorkTypes /\ LifeTypes /\ NetTypes /\ HistTypes
-----------------------------------------------------------------------------
\* Elections.

\* Every region that changes the term or the vote ends in persist(), in every
\* path of both handlers, of the two reply goroutines and of startAsCand: when
\* rf.mu is free, a crash loses neither.  (A handler that blocks on its send
\* has assigned Term and not persisted it; it never answers either.)
DurableVote ==
    \A i \in Server :
        ~stopped[i] => /\ persisted[i].term = Term[i]
                       /\ persisted[i].vote = VotedFor[i]

\* Of two candidacies for the term their peers are still in, at most one has
\* gathered a majority, although HandleRequestVote grants votes to smaller
\* terms, AppendEntries moves a peer to a new term with its old vote, and votes
\* arrive late, are lost, or are of a peer that restarted since.
Majority(i, c) == c \in cands[i] /\ c.term = Term[i] /\ IsMajority(c.votes)

OneMajorityPerTerm ==
    \A i, j \in Server : \A c \in cands[i], d \in cands[j] :
        Majority(i, c) /\ Majority(j, d) /\ c.term = d.term => i = j

\* A leader whose term is the one it won (startAsLeader ran before anything
\* else moved the term) is alone with that right.
Rightful(i) == IsLeader[i] /\ won[i].term = Term[i]

RightfulLeaderUnique ==
    \A i, j \in Server :
        Rightful(i) /\ Rightful(j) /\ Term[i] = Term[j] => i = j

\* A leader's election goroutine waits on BecomeFollwerFromLeader, and that
\* channel is empty: the sends on it in both handlers and in the heartbeat
\* reply, made with rf.mu held, never block, and demote it.
LeaderAwaitsDemotion ==
    \A i \in Server :
        /\ State[i] = "Leader" <=> IsLeader[i]
        /\ IsLeader[i] => loop[i] = "lead" /\ ~BecomeFollwerFromLeader[i]

\* A peer's term never goes back and it never changes its vote within a term,
\* restarts included.
VoteIsKept ==
    [][\A i \in Server : ~stopped[i] =>
          /\ Term'[i] >= Term[i]
          /\ Term'[i] = Term[i] /\ VotedFor[i] # NoVote => VotedFor'[i] = VotedFor[i]]_vars
-----------------------------------------------------------------------------
\* Logs.

Commands(log) == [k \in DOMAIN log |-> log[k].cmd]

\* The persister holds the log, command by command and term by term: Start and the
\* append handler persist before they release rf.mu.  All that a crash can lose is the
\* label startAsLeader gives to the last entry without a persist(), and that only while
\* the peer still leads the term of the label: whatever demotes it persists the label.
EntriesDurable ==
    \A i \in Server :
        \/ persisted[i].log = Log[i]
        \/ IsLeader[i] /\ Log[i] = StampLast(persisted[i].log, Term[i])

\* The last entry of a leader is of its own term, by the rewriting in
\* startAsLeader or because Start appended it.  This is what lets
\* updateCommitForLeader do without Raft's test of the entry's term.
LeaderLastTerm ==
    \A i \in Server :
        IsLeader[i] /\ Log[i] # <<>> => LastTerm(Log[i]) = Term[i]

\* A peer that leads before and after a step has only appended to its log:
\* another leader's append demotes it in the step that truncates.
LeaderAppendOnly ==
    [][\A i \in Server : IsLeader[i] /\ IsLeader'[i] => IsPrefix(Log[i], Log'[i])]_vars

\* While only one leadership has begun, every peer holds a prefix of that
\* leader's commands, whatever order appends, resends and their answers take,
\* and whoever restarts, and the leader believes no peer ahead of its own log.
OneReignOneLog ==
    \A e \in elected : elected = {e} => LET l == e[2] IN
        \A f \in Server :
            /\ IsPrefix(Commands(Log[f]), Commands(Log[l]))
            /\ MatchIndex[l][f] <= Len(Log[l])
-----------------------------------------------------------------------------
\* What the repository says of the program and the code does not do.

\* test/raft/config.go:327: "term %d has %d (>1) leaders".
ElectionSafety ==
    \A i, j \in Server : IsLeader[i] /\ IsLeader[j] /\ Term[i] = Term[j] => i = j

\* raft.go:113: "wait to become a follwer": a peer that is no leader is never
\* left waiting with no demotion on its way.
NoOrphan ==
    \A i \in Server :
        loop[i] = "lead" /\ ~IsLeader[i] => BecomeFollwerFromLeader[i]
=============================================================================
