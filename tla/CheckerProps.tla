---------------------------- MODULE CheckerProps ----------------------------
(***************************************************************************)
(* What the checker's answer means, stated against the definition of       *)
(* linearizability, and the state of the search that makes it so.          *)
(***************************************************************************)
EXTENDS Checker

\* Types; while the search goes on it looks at an entry that is in the list, never
\* at nil (checker.go:185) or at one it took out.
TypeOK ==
    /\ \A p \in Partition :
         /\ HasEntries(p) => /\ entry[p] \in Node(p)
                             /\ IdOf(p, entry[p]) \notin linearized[p]
         /\ linearized[p] \subseteq Ops(p)
         /\ state[p] \in Seq(Values)
         /\ \A k \in DOMAIN calls[p] :
               calls[p][k].entry \in Node(p) /\ calls[p][k].state \in Seq(Values)
         /\ \A i \in Ops(p) : longest[p][i] \in Seq(Ops(p))
         /\ verdict[p] \in {"running", "true", "false"}
    /\ received \subseteq Partition
    /\ {ok, timedOut, kill} \subseteq BOOLEAN
    /\ main \in {"loop", "drain", "done"}
    /\ result \in {"none", "Ok", "Illegal", "Unknown"}

-----------------------------------------------------------------------------
(* Linearizability, from its definition. *)

\* Operation i of p had returned before j was called.
Precedes(p, i, j) ==
    \E k, l \in Node(p) :
        /\ history[p].entries[k] = [kind |-> "return", id |-> i]
        /\ history[p].entries[l] = [kind |-> "call", id |-> j]
        /\ k < l

StateAfter(p, seq) ==
    LET after[k \in 0..Len(seq)] ==
          IF k = 0 THEN InitialState ELSE Step(after[k - 1], history[p].ops[seq[k]])
    IN after[Len(seq)]

\* The operations in seq may have taken effect in this order and no others
\* before them: each is legal where it stands, and preceded by what returned
\* before its call.
IsLinearization(p, seq) ==
    \A k \in DOMAIN seq :
        LET before == SubSeq(seq, 1, k - 1) IN
        /\ IsLegal(StateAfter(p, before), history[p].ops[seq[k]])
        /\ \A i \in Ops(p) : Precedes(p, i, seq[k]) => i \in ToSet(before)

Orders(p) == {s \in BoundedSeq(Ops(p), Cardinality(Ops(p))) : IsInjective(s)}

Linearizations(p) == {s \in Orders(p) : IsLinearization(p, s)}

IsLinearizable(p) == \E s \in Linearizations(p) : ToSet(s) = Ops(p)

-----------------------------------------------------------------------------
\* The search (checker.go:174-248): the list holds the entries of the
\* operations not chosen, in the order of the history and linked both ways, and
\* the calls linearize the operations chosen and lead to the state.
SearchSound ==
    \A p \in Partition :
        LET rest == {k \in Node(p) : IdOf(p, k) \notin linearized[p]} IN
        /\ \A k \in rest \cup {headEntry} :
              list[p].next[k] = IF \E m \in rest : m > k
                                THEN Min({m \in rest : m > k}) ELSE Nil
        /\ \A k \in rest :
              list[p].prev[k] = Max({m \in rest \cup {headEntry} : m < k})
        /\ linearized[p] = ToSet(CallIds(p))
        /\ CallIds(p) \in Linearizations(p)
        /\ state[p] = StateAfter(p, CallIds(p))

\* checkParallel's answer (checker.go:337-347) is the truth about the history:
\* "Ok" and "Illegal" whatever timeouts and kills happened on the way, and
\* "Unknown" only after a timeout.
VerdictRight ==
    /\ result = "Ok" => \A p \in Partition : IsLinearizable(p)
    /\ result = "Illegal" => \E p \in Partition : ~IsLinearizable(p)
    /\ result = "Unknown" => timedOut

\* checker.go:180: "longest linearizable prefix that includes the given entry":
\* what is returned for an operation is a linearization that includes it, and
\* unless the search was cut short none that includes it is longer.
PartialsRight ==
    main = "done" /\ computeInfo =>
        \A p \in Partition : \A i \in Ops(p) :
            /\ longest[p][i] # <<>> =>
                 longest[p][i] \in Linearizations(p) /\ i \in ToSet(longest[p][i])
            /\ ~timedOut =>
                 \A s \in Linearizations(p) :
                    i \in ToSet(s) => Len(longest[p][i]) >= Len(s)

\* checker.go:308: "otherwise we might race on access to longest[]": nobody
\* writes longest once the partial linearizations are read.
InfoSettled == [][main = "done" /\ computeInfo => UNCHANGED longest]_vars

\* The check ends, except that of an empty history without a timeout, where no
\* result ever comes (checker.go:289).
CheckEnds == (history # <<>> \/ timeout) ~> (main = "done")
=============================================================================
