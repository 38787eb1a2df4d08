------------------------------ MODULE Checker ------------------------------
(***************************************************************************)
(* The linearizability checker of porcupine/checker.go over the key/value  *)
(* model of models/kv.go.  checkParallel starts one goroutine for every    *)
(* partition of the history; each runs checkSingle, a depth-first search   *)
(* for an order of the operations, on a doubly linked list from which the  *)
(* operations chosen so far are taken out.  A step of a goroutine is one   *)
(* iteration of its loop; a step of the main goroutine is one receive.     *)
(***************************************************************************)
EXTENDS Integers, FiniteSets, SequencesExt

CONSTANTS
    Values,         \* what is put and appended
    MaxPartitions,  \* bound: the partitions of a history
    MaxOps,         \* bound: the operations of a history
    MaxOutput       \* bound: the values in the output of a Get

ASSUME LimitsAssumption ==
    MaxPartitions \in Nat /\ MaxOps \in Nat /\ MaxOutput \in Nat

VARIABLES
    history,     \* history[p]: the operations and the sorted entries of partition p
    computeInfo, \* partial linearizations are wanted (CheckOperationsVerbose)
    timeout,     \* a timeout was given
    \* local to checkSingle, for each partition
    list,        \* the fields next and prev of its nodes
    entry,       \* the node that the search looks at
    linearized,  \* the ids chosen
    cache,       \* the pairs of ids chosen and state that the search has met
    calls,       \* the stack of nodes taken out, each with the state before it
    state,       \* what the key holds after the calls
    longest,     \* longest[p][i]: the longest sequence met with i; <<>> is nil
    verdict,     \* "running", or what checkSingle returned: "true" or "false"
    \* local to checkParallel
    received,    \* the partitions whose results it has received
    ok, timedOut, kill,
    main,        \* it is in the "loop", in the "drain" of late results, or "done"
    result

inputVars  == <<history, computeInfo, timeout>>
searchVars == <<list, entry, linearized, cache, calls, state, longest, verdict>>
mainVars   == <<received, ok, timedOut, kill, main, result>>
vars       == <<inputVars, searchVars, mainVars>>

\* An operation on the key of its partition; the value of a Get is its output.
Operation ==
    [task : {"Get"}, value : BoundedSeq(Values, MaxOutput)]
        \cup [task : {"Put", "Append"}, value : Values]

\* KvModel: what a key holds at first, whether op may take effect on st, and
\* what the key holds then.
InitialState == <<>>

IsLegal(st, op) == op.task = "Get" => op.value = st

Step(st, op) ==
    CASE op.task = "Get"    -> st
      [] op.task = "Put"    -> <<op.value>>
      [] op.task = "Append" -> Append(st, op.value)

\* The entries of n operations sorted by time, the ids in the order of the calls.
Entries(n) ==
    {e \in [1..(2 * n) -> [kind : {"call", "return"}, id : 1..n]] :
        /\ IsInjective(e)
        /\ \A k, l \in 1..(2 * n) :
              (e[k].kind = "call" /\ k > l) =>
                 IF e[l].kind = "call" THEN e[l].id < e[k].id ELSE e[l].id # e[k].id}

Subhistories(max) ==
    UNION {[ops : [1..n -> Operation], entries : Entries(n)] : n \in 1..max}

\* Histories of at most MaxOps operations, with at least one in each partition.
Histories ==
    {<<>>} \cup
    UNION {{h \in [1..k -> Subhistories(MaxOps + 1 - k)] :
               SumFunction([p \in 1..k |-> Len(h[p].ops)]) <= MaxOps} :
           k \in 1..MaxPartitions}

Partition == DOMAIN history
Ops(p)    == DOMAIN history[p].ops
Node(p)   == DOMAIN history[p].entries
IdOf(p, k) == history[p].entries[k].id
OpOf(p, k) == history[p].ops[IdOf(p, k)]

headEntry == 0
Nil == -1

\* The return entry of the call k; a return entry has none.
IsCall(p, k) == history[p].entries[k].kind = "call"
Match(p, k)  == CHOOSE m \in Node(p) : ~IsCall(p, m) /\ IdOf(p, m) = IdOf(p, k)

MakeLinkedEntries(p) ==
    [next |-> [k \in Node(p) \cup {headEntry} |->
                 IF k + 1 \in Node(p) THEN k + 1 ELSE Nil],
     prev |-> [k \in Node(p) \cup {headEntry} |-> k - 1]]

\* The links l with node k taken out, or put back where its own links say; the
\* node after it may be nil.
Bypass(l, k) ==
    [next |-> [l.next EXCEPT ![l.prev[k]] = l.next[k]],
     prev |-> IF l.next[k] = Nil THEN l.prev
              ELSE [l.prev EXCEPT ![l.next[k]] = l.prev[k]]]

\* Variant: the next pointer only.
RelinkForward(l, k) == [l EXCEPT !.next[l.prev[k]] = k]

Relink(l, k) ==
    [next |-> [l.next EXCEPT ![l.prev[k]] = k],
     prev |-> IF l.next[k] = Nil THEN l.prev
              ELSE [l.prev EXCEPT ![l.next[k]] = k]]

lift(p, k)   == Bypass(Bypass(list[p], k), Match(p, k))
unlift(p, k) == Relink(Relink(list[p], Match(p, k)), k)

-----------------------------------------------------------------------------
Init ==
    /\ history \in Histories
    /\ computeInfo \in BOOLEAN /\ timeout \in BOOLEAN
    /\ list = [p \in Partition |-> MakeLinkedEntries(p)]
    /\ entry = [p \in Partition |-> 1]
    /\ linearized = [p \in Partition |-> {}]
    /\ cache = [p \in Partition |-> {}]
    /\ calls = [p \in Partition |-> <<>>]
    /\ state = [p \in Partition |-> InitialState]
    /\ longest = [p \in Partition |-> [i \in Ops(p) |-> <<>>]]
    /\ verdict = [p \in Partition |-> "running"]
    /\ received = {} /\ ok = TRUE /\ timedOut = FALSE /\ kill = FALSE
    /\ main = "loop" /\ result = "none"

HasEntries(p) == list[p].next[headEntry] # Nil

\* The loop goes round: there are entries left and nobody has set kill.
Iterates(p) == verdict[p] = "running" /\ HasEntries(p) /\ ~kill

\* The configuration that choosing the call k leads to, as the cache keeps it.
\* The hash of linearized only says where in the cache to look.
Choice(p, k) == <<linearized[p] \cup {IdOf(p, k)}, Step(state[p], OpOf(p, k))>>

\* Variant: by the bitset alone.
CacheContainsIds(p, choice) == \E c \in cache[p] : c[1] = choice[1]

CacheContains(p, choice) == choice \in cache[p]

\* The call that the search looks at is legal and leads to a new configuration.
IsChosen(p) ==
    /\ IsLegal(state[p], OpOf(p, entry[p]))
    /\ ~CacheContains(p, Choice(p, entry[p]))

\* Variant: the entry after the one taken out.
EntryAfter(p) == list'[p].next[entry[p]]

\* Where the search goes on after it took a call out: at the first entry.
FirstEntry(p) == list'[p].next[headEntry]

Choose(p) ==
    LET k == entry[p]
        c == Choice(p, k) IN
    /\ Iterates(p) /\ IsCall(p, k) /\ IsChosen(p)
    /\ cache' = [cache EXCEPT ![p] = @ \cup {c}]
    /\ calls' = [calls EXCEPT ![p] = Append(@, [entry |-> k, state |-> state[p]])]
    /\ linearized' = [linearized EXCEPT ![p] = c[1]]
    /\ state' = [state EXCEPT ![p] = c[2]]
    /\ list' = [list EXCEPT ![p] = lift(p, k)]
    /\ entry' = [entry EXCEPT ![p] = FirstEntry(p)]
    /\ UNCHANGED <<inputVars, mainVars, longest, verdict>>

Skip(p) ==
    /\ Iterates(p) /\ IsCall(p, entry[p]) /\ ~IsChosen(p)
    /\ entry' = [entry EXCEPT ![p] = list[p].next[@]]
    /\ UNCHANGED <<inputVars, mainVars, list, linearized, cache, calls, state,
                   longest, verdict>>

CallIds(p) == [k \in DOMAIN calls[p] |-> IdOf(p, calls[p][k].entry)]

\* Variant: the first sequence is never replaced.
FirstKept(p) ==
    [i \in Ops(p) |->
        IF i \in linearized[p] /\ longest[p][i] = <<>>
        THEN CallIds(p) ELSE longest[p][i]]

\* The chosen operations get the calls as their longest sequence if it is longer.
Lengthened(p) ==
    [i \in Ops(p) |->
        IF i \in linearized[p] /\ Len(calls[p]) > Len(longest[p][i])
        THEN CallIds(p) ELSE longest[p][i]]

\* A return entry: the operation was not chosen and may not be left out, so the
\* last choice is taken back.
Backtrack(p) ==
    LET top == Last(calls[p]) IN
    /\ Iterates(p) /\ ~IsCall(p, entry[p]) /\ calls[p] # <<>>
    /\ longest' = IF computeInfo THEN [longest EXCEPT ![p] = Lengthened(p)]
                                 ELSE longest
    /\ state' = [state EXCEPT ![p] = top.state]
    /\ linearized' = [linearized EXCEPT ![p] = @ \ {IdOf(p, top.entry)}]
    /\ calls' = [calls EXCEPT ![p] = Front(@)]
    /\ list' = [list EXCEPT ![p] = unlift(p, top.entry)]
    /\ entry' = [entry EXCEPT ![p] = list'[p].next[top.entry]]
    /\ UNCHANGED <<inputVars, mainVars, cache, verdict>>

\* checkSingle returns and its result is sent; the channel has a place for it.
Answers(p, b) ==
    /\ verdict' = [verdict EXCEPT ![p] = b]
    /\ UNCHANGED <<inputVars, mainVars, list, entry, linearized, cache, calls, state>>

Exhaust(p) ==
    /\ Iterates(p) /\ ~IsCall(p, entry[p]) /\ calls[p] = <<>>
    /\ Answers(p, "false") /\ UNCHANGED longest

Killed(p) ==
    /\ verdict[p] = "running" /\ HasEntries(p) /\ kill
    /\ Answers(p, "false") /\ UNCHANGED longest

Complete(p) ==
    /\ verdict[p] = "running" /\ ~HasEntries(p)
    /\ longest' = [longest EXCEPT ![p] = [i \in Ops(p) |-> CallIds(p)]]
    /\ Answers(p, "true")

Search(p) ==
    Choose(p) \/ Skip(p) \/ Backtrack(p) \/ Exhaust(p) \/ Killed(p) \/ Complete(p)

-----------------------------------------------------------------------------
\* The results in the channel, and whether those received are all.
Results == {p \in Partition \ received : verdict[p] # "running"}

\* Variant: one result too many.
IsCountedPast(rs) == Cardinality(rs) > Len(history)

IsCounted(rs) == Cardinality(rs) >= Len(history)

TakeResult(p) ==
    /\ main = "loop" /\ p \in Results
    /\ received' = received \cup {p}
    /\ ok' = (ok /\ verdict[p] = "true")
    /\ kill' = (kill \/ (~ok' /\ ~computeInfo))
    /\ main' = IF kill' \/ IsCounted(received') THEN "drain" ELSE "loop"
    /\ UNCHANGED <<inputVars, searchVars, timedOut, result>>

Timeout ==
    /\ main = "loop" /\ timeout
    /\ timedOut' = TRUE /\ kill' = TRUE /\ main' = "drain"
    /\ UNCHANGED <<inputVars, searchVars, received, ok, result>>

\* Late results are received but no longer looked at.
Drain(p) ==
    /\ main = "drain" /\ computeInfo /\ p \in Results
    /\ received' = received \cup {p}
    /\ UNCHANGED <<inputVars, searchVars, ok, timedOut, kill, main, result>>

\* Variant: the draining loop is missing.
HasNotWaited == TRUE

\* Whoever wants the partial linearizations has to wait for all goroutines.
HasWaited == computeInfo => IsCounted(received)

\* Besides its verdict checkParallel returns the sequences in longest.
Verdict == IF ~ok THEN "Illegal" ELSE IF timedOut THEN "Unknown" ELSE "Ok"

Finish ==
    /\ main = "drain" /\ HasWaited
    /\ result' = Verdict
    /\ main' = "done"
    /\ UNCHANGED <<inputVars, searchVars, received, ok, timedOut, kill>>

Main == Timeout \/ Finish \/ \E p \in Partition : TakeResult(p) \/ Drain(p)

Next == Main \/ \E p \in Partition : Search(p)

\* Goroutines that can go on do, and a timer that was set fires.
Fairness ==
    /\ WF_vars(Main)
    /\ \A p \in 1..MaxPartitions : WF_vars(p \in Partition /\ Search(p))

Spec == Init /\ [][Next]_vars /\ Fairness
=============================================================================
