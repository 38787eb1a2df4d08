------------------------------ MODULE RaftInv ------------------------------
(***************************************************************************)
(* The inductive invariants behind the election and log properties of      *)
(* RaftProps.  None of those is inductive: one vote per term holds by what *)
(* the persister of each voter excludes about votes counted or still on    *)
(* their way, and one log by what is on its way into the logs.             *)
(***************************************************************************)
EXTENDS RaftProps

\* Where the election goroutine is, against the role of the peer.  The channel
\* BecomeFollwerFromLeader is filled only when a leader is demoted, and it is
\* empty again when the goroutine enters its select loop.
LoopInv ==
    \A i \in Server :
        /\ State[i] = "Leader" <=> IsLeader[i]
        /\ IsLeader[i] => loop[i] = "lead" /\ ~BecomeFollwerFromLeader[i]
        /\ BecomeFollwerFromLeader[i] => loop[i] = "lead"

\* Voter v can vote in term t for nobody but i: it has saved that vote, or a
\* later term.
Promised(v, t, i) ==
    \/ persisted[v].term > t
    \/ persisted[v].term = t /\ persisted[v].vote = i

\* The votes i counted: in running candidacies, in the Win that waits, and in
\* the Win it leads or led by.
Tally(i) == {[term |-> c.term, votes |-> c.votes] : c \in cands[i]}
               \cup {electionResult[i], won[i]}

\* A tally for the term the peer is still in.  Only of these is anything
\* promised: HandleRequestVote grants votes to smaller terms, but the voter
\* answers with its own higher term, so such a vote is counted only in a tally
\* that the peer's own term has already left behind.
Current(i) == {b \in Tally(i) : b.term = Term[i]}

Granted == {r \in voteReps : r.granted}

TalliesPromised ==
    \A i \in Server :
        /\ \A b \in Tally(i) : b.term <= Term[i]
        /\ \A b \in Current(i) : \A v \in b.votes : Promised(v, b.term, i)

GrantsPromised ==
    \A r \in Granted : r.cand <= r.term /\ Promised(r.from, r.term, r.to)

\* Nobody's vote of a term is counted, or waits to be counted, for two peers.
TalliesAgree ==
    \A i, j \in Server : \A b \in Current(i), d \in Current(j) :
        b.term = d.term /\ b.votes \cap d.votes # {} => i = j

GrantsAgreeWithTallies ==
    \A r \in Granted, j \in Server : \A d \in Current(j) :
        d.term = r.term /\ r.from \in d.votes => r.to = j

GrantsAgree ==
    \A r, q \in Granted : r.term = q.term /\ r.from = q.from => r.to = q.to

WinsAreMajorities ==
    \A i \in Server :
        /\ electionResult[i] # NoWin => IsMajority(electionResult[i].votes)
        /\ loop[i] # "follow" => IsMajority(won[i].votes)

\* All of this together is preserved by every step of the peers, whatever
\* interleaving of candidacies, late votes, restarts and demotions.
VoteInv ==
    /\ TalliesPromised
    /\ GrantsPromised
    /\ TalliesAgree
    /\ GrantsAgreeWithTallies
    /\ GrantsAgree
    /\ WinsAreMajorities
-----------------------------------------------------------------------------
\* Logs.

\* Every leadership so far was of peer l, restarts of it included.
OnlyLeader(l) == \A e \in elected : e[2] = l

\* The commands of es are those of a log after index prev.
SliceOf(log, prev, es) ==
    /\ prev + Len(es) <= Len(log)
    /\ \A k \in DOMAIN es : es[k].cmd = log[prev + k].cmd

\* No other peer does a leader's work, and l does none toward itself.
OthersIdle(l) ==
    /\ \A i \in Server \ {l} :
          /\ ~IsLeader[i] /\ starting[i] = {} /\ beat[i] = N
          /\ spawned[i] = {} /\ building[i] = {}
    /\ l \notin spawned[l] \cup building[l] /\ beat[l] # l

\* Every log, and whatever is on its way into one, holds commands of l's log in
\* place; whatever is on its way back to l speaks of no index past its end.
CopyFrom(l, m) ==
    /\ m.from = l /\ m.to # l
    /\ SliceOf(Log[l], m.prev, m.entries)
    /\ m.prev = 0 => m.prevTerm = 0

AnswerTo(l, r) ==
    /\ r.from = l /\ r.to # l
    /\ r.job = "Append" => IF r.success THEN r.prev + r.len <= Len(Log[l])
                           ELSE ResendFrom(r) \in 0 .. Len(Log[l])

LogsCopy(l)  == \A f \in Server : SliceOf(Log[l], 0, Log[f])
TasksCopy(l) == \A a \in appending : CopyFrom(l, a)
ReqsCopy(l)  == \A m \in appendReqs : CopyFrom(l, m)
RepsWithin(l) == \A r \in appendReps : AnswerTo(l, r)

MatchWithin(l) == \A f \in Server : MatchIndex[l][f] <= Len(Log[l])

Reign(l) ==
    OthersIdle(l) /\ LogsCopy(l) /\ TasksCopy(l) /\ ReqsCopy(l) /\ RepsWithin(l) /\ MatchWithin(l)

\* While one peer is the only one ever to have led, nothing that appends, resends,
\* late answers and restarts do leaves that peer's log: its commands only grow, and
\* a slice of them taken earlier is a slice of them still.
ReignInv == \A l \in Server : OnlyLeader(l) => Reign(l)
=============================================================================
