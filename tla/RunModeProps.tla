---------------------------- MODULE RunModeProps ----------------------------
(***************************************************************************)
(* What a server in run mode keeps over a crash, and when: the file holds  *)
(* what a test's persister would, except for the windows that persist and  *)
(* StartKVServerRun leave open.                                            *)
(***************************************************************************)
EXTENDS RunMode

\* The variables hold what their declarations let them hold, the file may hold any
\* prefix of what persist() writes, and one task at most is inside rf.mu: the holder.
TypeOK ==
    /\ main \in {"down", "run"} \cup Startup /\ made \in BOOLEAN
    /\ Term \in Nat /\ VotedFor \in Others \cup {Me, NoVote} /\ Log \in Seq(Entry)
    /\ ReceiveHB \in BOOLEAN /\ Network \in {"Connect", "Disconnect"}
    /\ holder \in Requests \cup {Me, None}
    /\ at \in [Requests \cup {Me} -> {"idle"} \cup Pending \cup Ended]
    /\ \A r \in DOMAIN at : at[r] \in Pending \ {"checked"} <=> r = holder
    /\ file = None \/ file \in Seq(Nat \cup {NoVote})
    /\ early \in Nat /\ torn \in BOOLEAN /\ lost \in BOOLEAN

\* A server that is up has in memory what its last complete persist() wrote, and so has
\* the file, whatever crashed or failed before it, and even behind a request that came
\* before MakeRun had made the channels and holds rf.mu for ever.  Excepted are the
\* windows of raft.go:470-480, until the next persist() is complete, and of a start:
\* a region that ran while readPersistRun, which does not take rf.mu, was going on.
RestoredAsSaved ==
    /\ main = "run" /\ (holder = None \/ at[holder] = "jammed")
    /\ ~torn /\ early = 0
    => /\ Saved = saved
       /\ file # None => Decode(file) = saved

\* In the terms it answers with, the server never gives its vote to two candidates,
\* itself among them, not even in two of its lives.  HandleRequestVote also grants in a
\* term that is past (handler.go:89): of two candidates that asked in one term, both may
\* be told yes, but one of them reads a higher term and steps down (raft.go:165).
\* Excepted is the vote of a persist() that ended before the term was in the file, by a
\* crash or an error it ignores, and the window of a start.
OneVotePerTerm ==
    lost \/ early > 0 \/
    \A v, w \in votes : v.to # w.to =>
        /\ v.term # w.term
        /\ v.asked = w.asked => v.term > v.asked \/ w.term > w.asked
=============================================================================
