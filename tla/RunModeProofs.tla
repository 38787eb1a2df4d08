--------------------------- MODULE RunModeProofs ---------------------------
(***************************************************************************)
(* Theorems about a server in run mode, for every set of requests, every   *)
(* number of peers and every bound: what its file holds at each step of    *)
(* persist() and of the start, and why it never votes twice in a term.     *)
(***************************************************************************)
EXTENDS RunModeProps, SequenceTheorems, TLAPS

Voters == Others \cup {Me, NoVote}

\* What persist() writes and readPersistRun reads back.
State == [term : Nat, vote : Voters, log : Seq(Entry)]

\* A vote that is given: the term it was asked for in, that of the answer, and to whom.
Vote == [asked : Nat, term : Nat, to : Voters \ {NoVote}]

\* Every value of the file but the second is a number that is not negative; the second
\* is a vote.
FileShape(f) ==
    /\ f \in Seq(Nat \cup {NoVote})
    /\ \A k \in DOMAIN f : IF k = 2 THEN f[k] \in Voters ELSE f[k] \in Nat

\* The types of everything, those that TypeOK leaves out included.
TypeInv ==
    /\ TypeOK
    /\ found \in State /\ saved \in State
    /\ file # None => FileShape(file)
    /\ \A r \in DOMAIN at : at[r] = "send" => args \in Messages
    /\ reply \in {None} \cup Vote
    /\ votes \subseteq Vote

Writing == \E r \in DOMAIN at : at[r] = "write"

\* Nobody is at work inside rf.mu: it is free, or held for ever at a channel that was
\* not made.
Quiet == holder = None \/ at[holder] = "jammed"

\* Where a start and a request can be: before the start nothing is pending, and nothing
\* but a jam before the channels are made; only a handler past its send, or a campaign,
\* has a vote to give; and a file is written once it was created.
PlaceInv ==
    /\ main = "down" => \A r \in DOMAIN at : at[r] \notin Pending
    /\ made <=> main \notin {"down", "make"}
    /\ main \in {"down", "make"} => Quiet /\ (holder = None => Term = 0)
    /\ reply # None => \E r \in DOMAIN at : at[r] \in {"create", "write"}
    /\ Writing => file # None

\* The file holds what the last complete persist() wrote; there is none before that.
FileIsSaved ==
    IF file = None THEN saved = Fresh
    ELSE file = Items(saved.term, saved.vote, saved.log)

\* The file holds the part of what persist() is to write that it has written.
FileIsPart ==
    /\ file # None /\ Len(file) <= Len(Contents)
    /\ \A k \in DOMAIN file : file[k] = Contents[k]
    /\ Len(file) = Len(Contents) => saved = Saved

\* Unless a region ran during a start: nobody is at work before the start is over, and
\* the start restores what is in the file.  That is what was saved, unless the last
\* persist() was not complete, and memory differs from it only while somebody is at work.
KeptInv ==
    early = 0 =>
        /\ main # "run" => Quiet
        /\ main = "read" => Saved = Fresh
        /\ main \in {"term", "vote", "log"} => file # None /\ found = Decode(file)
        /\ main \in {"vote", "log"} => Term = found.term
        /\ main = "log" => VotedFor = found.vote
        /\ main = "run" /\ Quiet /\ ~torn => Saved = saved
        /\ Writing => FileIsPart
        /\ ~Writing /\ ~torn => FileIsSaved

\* A server with this term and vote grants none of the votes of a term that it has
\* given one in.
Bars(term, vote) ==
    \A v \in votes : v.term < term \/ (v.term = term /\ vote # NoVote)

\* What the votes have to do with the file and with memory, unless a region ran during a
\* start or persist() ended before the term was in the file: both keep the server from
\* voting twice, the file even while it is written, and a vote that is about to be
\* given is the only one of its term.
VotesInv ==
    ~lost /\ early = 0 =>
        /\ \A v \in votes : v.asked <= v.term
        /\ \A v, w \in votes : v.term = w.term => v.to = w.to
        /\ file = None => votes = {}
        /\ file # None /\ ~(Writing /\ file = <<>>) => Bars(Item(file, 1), Item(file, 2))
        /\ main = "run" => Bars(Term, VotedFor)
        /\ \A r \in DOMAIN at : at[r] = "send" =>
              /\ args.term = Term
              /\ args.job = "RequestVote" => \A v \in votes : v.term < Term
        /\ reply # None =>
              /\ reply.term = Term /\ reply.to = VotedFor /\ reply.asked <= Term
              /\ \A v \in votes : v.term < Term

RunInv == TypeInv /\ PlaceInv /\ KeptInv /\ VotesInv
-----------------------------------------------------------------------------
\* The file's format.

\* Value by value, what persist() writes.
LEMMA ItemsAre ==
  ASSUME NEW t \in Nat, NEW v \in Voters, NEW log \in Seq(Entry)
  PROVE  /\ FileShape(Items(t, v, log))
         /\ Len(Items(t, v, log)) = 3 + 2 * Len(log)
         /\ Items(t, v, log)[1] = t /\ Items(t, v, log)[2] = v
         /\ Items(t, v, log)[3] = Len(log)
         /\ \A i \in 1 .. Len(log) : /\ Items(t, v, log)[2*i + 2] = log[i].cmd
                                     /\ Items(t, v, log)[2*i + 3] = log[i].term
<1>. DEFINE head == <<t, v, Len(log)>>
            tail == [k \in 1 .. 2 * Len(log) |->
                       IF k % 2 = 1 THEN log[(k + 1) \div 2].cmd ELSE log[k \div 2].term]
            Value == Nat \cup {NoVote}
<1>1. \A i \in 1 .. Len(log) : log[i].cmd \in Nat /\ log[i].term \in Nat
  <2>1. \A i \in 1 .. Len(log) : log[i] \in Entry
    OBVIOUS
  <2>2. QED  BY <2>1 DEF Entry
<1>2. v \in Value /\ Len(log) \in Nat
  BY PeersAssumption DEF Voters
<1>3. head \in Seq(Value) /\ Len(head) = 3
      /\ head[1] = t /\ head[2] = v /\ head[3] = Len(log)
  BY <1>2
<1>4. \A k \in 1 .. 2 * Len(log) : tail[k] \in Nat
  <2>. TAKE k \in 1 .. 2 * Len(log)
  <2>1. CASE k % 2 = 1
    <3>1. (k + 1) \div 2 \in 1 .. Len(log)
      BY <1>2, <2>1
    <3>2. QED  BY <1>1, <2>1, <3>1
  <2>2. CASE k % 2 # 1
    <3>1. k \div 2 \in 1 .. Len(log)
      BY <1>2, <2>2
    <3>2. QED  BY <1>1, <2>2, <3>1
  <2>3. QED  BY <2>1, <2>2
<1>5. tail \in Seq(Value) /\ Len(tail) = 2 * Len(log)
  BY <1>2, <1>4
<1>6. \A i \in 1 .. Len(log) : tail[2*i - 1] = log[i].cmd /\ tail[2*i] = log[i].term
  <2>. TAKE i \in 1 .. Len(log)
  <2>1. /\ 2*i - 1 \in 1 .. 2 * Len(log) /\ (2*i - 1) % 2 = 1 /\ ((2*i - 1) + 1) \div 2 = i
        /\ 2*i \in 1 .. 2 * Len(log) /\ (2*i) % 2 = 0 /\ (2*i) \div 2 = i
    BY <1>2
  <2>2. QED  BY <2>1
<1>. HIDE DEF head, tail
<1>. DEFINE items == head \o tail
<1>7. /\ items \in Seq(Value) /\ Len(items) = 3 + 2 * Len(log)
      /\ \A k \in 1 .. 3 + 2 * Len(log) :
            items[k] = IF k <= 3 THEN head[k] ELSE tail[k - 3]
  <2>. HIDE DEF Value
  <2>1. /\ items \in Seq(Value) /\ Len(items) = Len(head) + Len(tail)
        /\ \A k \in 1 .. Len(head) + Len(tail) :
              items[k] = IF k <= Len(head) THEN head[k] ELSE tail[k - Len(head)]
    <3>1. head \in Seq(Value) /\ tail \in Seq(Value)
      BY <1>3, <1>5
    <3>2. QED  BY <3>1, ConcatProperties
  <2>2. Len(head) = 3 /\ Len(tail) = 2 * Len(log) /\ Len(log) \in Nat
    BY <1>2, <1>3, <1>5
  <2>. HIDE DEF items
  <2>3. QED  BY <2>1, <2>2
<1>8. items[1] = t /\ items[2] = v /\ items[3] = Len(log)
  BY SMTT(20), <1>2, <1>3, <1>7
<1>9. \A i \in 1 .. Len(log) : items[2*i + 2] = log[i].cmd /\ items[2*i + 3] = log[i].term
  <2>. TAKE i \in 1 .. Len(log)
  <2>1. /\ 2*i + 2 \in 1 .. 3 + 2 * Len(log) /\ ~(2*i + 2 <= 3) /\ (2*i + 2) - 3 = 2*i - 1
        /\ 2*i + 3 \in 1 .. 3 + 2 * Len(log) /\ ~(2*i + 3 <= 3) /\ (2*i + 3) - 3 = 2*i
    BY <1>2
  <2>2. QED  BY <1>6, <1>7, <2>1
<1>10. \A k \in DOMAIN items : IF k = 2 THEN items[k] \in Voters ELSE items[k] \in Nat
  <2>1. DOMAIN items = 1 .. 3 + 2 * Len(log)
    BY <1>2, <1>7
  <2>2. ASSUME NEW k \in 1 .. 3 + 2 * Len(log), ~(k <= 3)
        PROVE  items[k] \in Nat
    <3>1. k - 3 \in 1 .. 2 * Len(log)
      BY <1>2, <2>2
    <3>2. tail[k - 3] \in Nat
      BY <1>4, <3>1
    <3>3. QED  BY <1>7, <2>2, <3>2
  <2>3. items[1] \in Nat /\ items[2] \in Voters /\ items[3] \in Nat
    BY <1>2, <1>8
  <2>4. QED  BY <2>1, <2>2, <2>3
<1>11. items = Items(t, v, log)
  BY DEF Items, head, tail
<1>12. QED  BY <1>7, <1>8, <1>9, <1>10, <1>11 DEF FileShape

\* readPersistRun reads back what a complete persist() wrote.
LEMMA DecodeItems ==
  ASSUME NEW t \in Nat, NEW v \in Voters, NEW log \in Seq(Entry)
  PROVE  Decode(Items(t, v, log)) = [term |-> t, vote |-> v, log |-> log]
<1>. DEFINE f == Items(t, v, log)
            read == [i \in 1 .. Item(f, 3) |->
                       [cmd |-> Item(f, 2*i + 2), term |-> Item(f, 2*i + 3)]]
<1>1. /\ Len(f) = 3 + 2 * Len(log)
      /\ f[1] = t /\ f[2] = v /\ f[3] = Len(log)
      /\ \A i \in 1 .. Len(log) : f[2*i + 2] = log[i].cmd /\ f[2*i + 3] = log[i].term
  <2>1. Items(t, v, log) = f
    OBVIOUS
  <2>. HIDE DEF f
  <2>2. QED  BY <2>1, ItemsAre
<1>. HIDE DEF f
<1>2. Item(f, 1) = t /\ Item(f, 2) = v /\ Item(f, 3) = Len(log)
  BY <1>1 DEF Item
<1>3. ASSUME NEW i \in 1 .. Len(log)
      PROVE  [cmd |-> Item(f, 2*i + 2), term |-> Item(f, 2*i + 3)] = log[i]
  <2>1. 2*i + 2 <= Len(f) /\ 2*i + 3 <= Len(f)
    BY <1>1
  <2>2. Item(f, 2*i + 2) = log[i].cmd /\ Item(f, 2*i + 3) = log[i].term
    BY <1>1, <2>1 DEF Item
  <2>3. log[i] \in Entry
    OBVIOUS
  <2>4. QED  BY <2>2, <2>3 DEF Entry
<1>4. read = log
  <2>1. read = [i \in 1 .. Len(log) |-> log[i]]
    BY <1>2, <1>3
  <2>. HIDE DEF read
  <2>2. log = [i \in 1 .. Len(log) |-> log[i]]
    OBVIOUS
  <2>3. QED  BY <2>1, <2>2
<1>5. Decode(f) = [term |-> t, vote |-> v, log |-> log]
  BY <1>2, <1>4 DEF Decode
<1>6. QED  BY <1>5 DEF f

\* A file of that shape, however short, decodes to a state.
LEMMA DecodeType ==
  ASSUME NEW f, FileShape(f)
  PROVE  Decode(f) \in State
<1>1. f \in Seq(Nat \cup {NoVote}) /\ 0 \in Voters
  BY PeersAssumption DEF FileShape, Voters
<1>2. \A k \in Nat \ {0, 2} : Item(f, k) \in Nat
  BY <1>1 DEF Item, FileShape
<1>3. Item(f, 2) \in Voters
  BY <1>1 DEF Item, FileShape
<1>4. ASSUME NEW i \in 1 .. Item(f, 3)
      PROVE  [cmd |-> Item(f, 2*i + 2), term |-> Item(f, 2*i + 3)] \in Entry
  <2>1. 2*i + 2 \in Nat \ {0, 2} /\ 2*i + 3 \in Nat \ {0, 2}
    BY <1>2
  <2>2. QED  BY <1>2, <2>1 DEF Entry
<1>5. [i \in 1 .. Item(f, 3) |-> [cmd |-> Item(f, 2*i + 2), term |-> Item(f, 2*i + 3)]]
         \in Seq(Entry)
  <2>1. Item(f, 3) \in Nat
    BY <1>2
  <2>2. QED  BY <1>4, <2>1
<1>6. QED  BY <1>2, <1>3, <1>5 DEF Decode, State
-----------------------------------------------------------------------------
\* Types.

\* What a message carries.
LEMMA MessageTypes ==
  ASSUME NEW m \in Messages
  PROVE  /\ m.term \in Nat /\ m.term > 0
         /\ m.job = "RequestVote" => m.peer \in Voters \ {NoVote}
         /\ m.job = "Append" =>
               /\ m.prev \in Nat /\ m.entries \in Seq(Entry) /\ m.entries # <<>>
<1>1. CASE m \in [job : {"RequestVote"}, term : 1 .. MaxTerm, peer : Others,
                    last : {<<0, 0>>, <<1, 1>>}]
  BY <1>1, PeersAssumption, MaximaAssumption DEF Voters, NoVote
<1>2. CASE m \in [job : {"HeartBeat"}, term : 1 .. MaxTerm]
  BY <1>2, MaximaAssumption
<1>3. ASSUME NEW t \in 1 .. MaxTerm, NEW p \in {0, 1}, NEW pt \in 1 .. MaxTerm,
             m = [job |-> "Append", term |-> t, prev |-> p,
                  prevTerm |-> IF p = 0 THEN 0 ELSE pt,
                  entries |-> <<[cmd |-> p + 1, term |-> t]>>]
      PROVE  /\ m.job = "Append" /\ m.term \in Nat /\ m.term > 0 /\ m.prev \in Nat
             /\ m.entries \in Seq(Entry) /\ m.entries # <<>>
  <2>1. [cmd |-> p + 1, term |-> t] \in Entry
    BY MaximaAssumption DEF Entry
  <2>2. m.entries = <<[cmd |-> p + 1, term |-> t]>>
    BY <1>3
  <2>3. m.entries \in Seq(Entry) /\ m.entries # <<>>
    BY <2>1, <2>2
  <2>4. QED  BY <1>3, <2>3, MaximaAssumption
<1>4. QED  BY <1>1, <1>2, <1>3 DEF Messages

\* What an append leaves is a log.
LEMMA AppendOutcomeType ==
  ASSUME NEW log \in Seq(Entry), NEW m \in Messages, m.job = "Append"
  PROVE  AppendOutcome(log, m) \in Seq(Entry)
<1>1. m.prev \in Nat /\ m.term \in Nat /\ m.entries \in Seq(Entry) /\ m.entries # <<>>
  BY MessageTypes
<1>2. CASE m.prev > Len(log)
  BY <1>2 DEF AppendOutcome
<1>3. CASE ~(m.prev > Len(log)) /\ (m.prev = 0 \/ log[m.prev].term = m.prevTerm)
  <2>. DEFINE es == [m.entries EXCEPT ![Len(m.entries)].term = m.term]
  <2>1. es \in Seq(Entry)
    <3>1. Len(m.entries) \in DOMAIN m.entries
      BY <1>1
    <3>2. m.entries[Len(m.entries)] \in Entry
      BY <1>1, <3>1
    <3>3. [m.entries[Len(m.entries)] EXCEPT !.term = m.term] \in Entry
      BY <1>1, <3>2 DEF Entry
    <3>4. QED  BY <1>1, <3>1, <3>3
  <2>2. SubSeq(log, 1, m.prev) \in Seq(Entry)
    BY <1>1, <1>3, SubSeqProperties
  <2>3. AppendOutcome(log, m) = SubSeq(log, 1, m.prev) \o es
    BY <1>3 DEF AppendOutcome
  <2>. HIDE DEF es
  <2>4. QED  BY <2>1, <2>2, <2>3, ConcatProperties
<1>4. CASE ~(m.prev > Len(log)) /\ ~(m.prev = 0 \/ log[m.prev].term = m.prevTerm)
  <2>1. AppendOutcome(log, m) = SubSeq(log, 1, m.prev - 1)
    BY <1>4 DEF AppendOutcome
  <2>2. QED  BY <1>1, <1>4, <2>1, SubSeqProperties
<1>5. QED  BY <1>2, <1>3, <1>4

\* What the rest of a handler may do.
LEMMA ConcludesTypes ==
  ASSUME NEW m \in Messages, NEW newer \in BOOLEAN, NEW good, Concludes(m, newer, good),
         Term \in Nat, VotedFor \in Voters, Log \in Seq(Entry)
  PROVE  /\ VotedFor' \in Voters /\ Log' \in Seq(Entry)
         /\ reply' \in {None} \cup Vote
         /\ reply' # None =>
               /\ reply' = [asked |-> m.term, term |-> Term, to |-> VotedFor']
               /\ m.job = "RequestVote" /\ (newer \/ VotedFor = NoVote)
         /\ VotedFor' = VotedFor \/ (m.job = "RequestVote" /\ (newer \/ VotedFor = NoVote))
<1>. DEFINE vote == IF newer THEN NoVote ELSE VotedFor
            granted == m.job = "RequestVote" /\ Grants(vote, good)
<1>1. /\ VotedFor' = IF granted THEN m.peer
                     ELSE IF m.job = "RequestVote" THEN vote ELSE VotedFor
      /\ reply' = IF granted THEN [asked |-> m.term, term |-> Term, to |-> m.peer] ELSE None
      /\ Log' = IF m.job = "Append" /\ newer THEN AppendOutcome(Log, m) ELSE Log
  BY DEF Concludes
<1>2. Log' \in Seq(Entry)
  BY <1>1, AppendOutcomeType
<1>3. NoVote \in Voters
  BY DEF Voters
<1>4. granted => m.job = "RequestVote" /\ vote = NoVote /\ m.peer \in Voters \ {NoVote}
  BY MessageTypes DEF Grants
<1>5. vote \in Voters /\ (vote = VotedFor \/ newer)
  BY <1>3
<1>. HIDE DEF granted, vote
<1>6. /\ VotedFor' \in Voters
      /\ reply' # None =>
            /\ reply' = [asked |-> m.term, term |-> Term, to |-> VotedFor']
            /\ m.job = "RequestVote" /\ vote = NoVote
  BY <1>1, <1>4, <1>5
<1>7. reply' \in {None} \cup Vote
  BY <1>1, <1>4, MessageTypes DEF Vote
<1>8. VotedFor' = VotedFor \/ (m.job = "RequestVote" /\ (newer \/ VotedFor = NoVote))
  <2>1. CASE newer
    BY <1>1, <1>4, <2>1
  <2>2. CASE ~newer
    <3>1. vote = VotedFor
      BY <2>2 DEF vote
    <3>2. QED  BY <1>1, <1>4, <3>1
  <2>3. QED  BY <2>1, <2>2
<1>9. QED  BY <1>2, <1>5, <1>6, <1>7, <1>8

\* Contents is what persist() writes of memory.
LEMMA ContentsAre ==
  ASSUME TypeOK
  PROVE  /\ FileShape(Contents) /\ Len(Contents) \in Nat /\ Len(Contents) >= 3
         /\ Contents[1] = Term /\ Contents[2] = VotedFor
         /\ Saved \in State
<1>1. Term \in Nat /\ VotedFor \in Voters /\ Log \in Seq(Entry)
  BY DEF TypeOK, Voters
<1>2. /\ FileShape(Items(Term, VotedFor, Log))
      /\ Len(Items(Term, VotedFor, Log)) = 3 + 2 * Len(Log)
      /\ Items(Term, VotedFor, Log)[1] = Term /\ Items(Term, VotedFor, Log)[2] = VotedFor
  BY <1>1, ItemsAre
<1>3. /\ FileShape(Contents) /\ Len(Contents) = 3 + 2 * Len(Log)
      /\ Contents[1] = Term /\ Contents[2] = VotedFor
  BY <1>2, Zenon DEF Contents
<1>4. Len(Log) \in Nat
  BY <1>1
<1>5. QED  BY <1>1, <1>3, <1>4 DEF Saved, State

\* A file that persist() goes on writing keeps its shape.
LEMMA WriteShape ==
  ASSUME TypeOK, FileShape(file), Len(file) < Len(Contents)
  PROVE  /\ FileShape(WriteNext) /\ Len(WriteNext) = Len(file) + 1
         /\ \A k \in DOMAIN file : WriteNext[k] = file[k]
         /\ WriteNext[Len(file) + 1] = Contents[Len(file) + 1]
<1>1. /\ file \in Seq(Nat \cup {NoVote}) /\ Contents \in Seq(Nat \cup {NoVote})
      /\ FileShape(Contents)
  BY ContentsAre DEF FileShape
<1>. DEFINE Value == Nat \cup {NoVote}
            x == Contents[Len(file) + 1]
            f == Append(file, x)
<1>2. Len(file) + 1 \in DOMAIN Contents /\ x \in Value
  BY <1>1
<1>. HIDE DEF x
<1>3. /\ f \in Seq(Value) /\ Len(f) = Len(file) + 1
      /\ \A k \in 1 .. Len(file) : f[k] = file[k]
      /\ f[Len(file) + 1] = x
  <2>. HIDE DEF Value
  <2>1. file \in Seq(Value) /\ x \in Value
    BY <1>1, <1>2 DEF Value
  <2>2. QED  BY <2>1, AppendProperties
<1>. HIDE DEF f
<1>4. IF Len(file) + 1 = 2 THEN x \in Voters ELSE x \in Nat
  BY <1>1, <1>2 DEF x, FileShape
<1>5. \A k \in DOMAIN f : IF k = 2 THEN f[k] \in Voters ELSE f[k] \in Nat
  <2>1. \A k \in 1 .. Len(file) : IF k = 2 THEN f[k] \in Voters ELSE f[k] \in Nat
    BY <1>1, <1>3 DEF FileShape
  <2>2. DOMAIN f = 1 .. Len(file) + 1
    BY <1>3
  <2>3. QED  BY <1>1, <1>3, <1>4, <2>1, <2>2
<1>6. f = WriteNext
  BY DEF f, x, WriteNext
<1>7. DOMAIN file = 1 .. Len(file)
  BY <1>1
<1>8. QED  BY <1>3, <1>5, <1>6, <1>7 DEF FileShape, x

\* A file is not the absence of one, and a vote not the absence of one.
LEMMA NoneIsNone ==
  /\ \A f : FileShape(f) => f # None
  /\ None \notin Vote
<1>1. ASSUME NEW f, FileShape(f)
      PROVE  f # None
  <2>1. f \in Seq(Int)
    <3>1. f \in Seq(Nat \cup {NoVote})
      BY <1>1 DEF FileShape
    <3>2. f \in [1 .. Len(f) -> Nat \cup {NoVote}] /\ Len(f) \in Nat
      BY <3>1
    <3>3. Nat \cup {NoVote} \subseteq Int
      BY DEF NoVote
    <3>4. f \in [1 .. Len(f) -> Int]
      BY <3>2, <3>3
    <3>5. QED  BY <3>2, <3>4
  <2>2. QED  BY <2>1, NoneAssumption
<1>2. Voters \ {NoVote} = Others \cup {Me}
  BY PeersAssumption DEF Voters, NoVote
<1>3. Vote = [asked : Nat, term : Nat, to : Others \cup {Me}]
  BY <1>2, Zenon DEF Vote
<1>4. QED  BY <1>1, <1>3, NoneAssumption, Zenon

\* Init is well typed, nothing is pending, and a vote of an earlier life is in the file.
LEMMA RunInit == Init => RunInv
<1>. SUFFICES ASSUME Init
              PROVE  RunInv
  OBVIOUS
<1>1. Fresh \in State
  BY DEF Fresh, State, Voters
<1>2. /\ main = "down" /\ made = FALSE /\ found = Fresh
      /\ Term = 0 /\ VotedFor = 0 /\ Log = <<>> /\ ReceiveHB = FALSE /\ Network = "Connect"
      /\ holder = None /\ at = [r \in Requests \cup {Me} |-> "idle"]
      /\ reply = None /\ early = 0 /\ torn = FALSE /\ lost = FALSE
  BY DEF Init
<1>. DEFINE lived ==
         /\ saved \in State /\ votes \subseteq Vote
         /\ file # None => FileShape(file)
         /\ FileIsSaved
         /\ \A v \in votes : v.asked <= v.term
         /\ \A v, w \in votes : v.to = w.to
         /\ file = None => votes = {}
         /\ file # None => Bars(Item(file, 1), Item(file, 2))
<1>3. lived
  <2>1. CASE file = None /\ saved = Fresh /\ votes = {}
    BY <1>1, <2>1 DEF FileIsSaved
  <2>2. ASSUME NEW p \in Others,
               saved = [term |-> 1, vote |-> p, log |-> <<[cmd |-> 1, term |-> 1]>>],
               file = Items(saved.term, saved.vote, saved.log),
               votes = {[asked |-> 1, term |-> 1, to |-> p]}
        PROVE  lived
    <3>1. p \in Voters \ {NoVote}
      BY PeersAssumption DEF Voters, NoVote
    <3>2. <<[cmd |-> 1, term |-> 1]>> \in Seq(Entry)
      BY DEF Entry
    <3>3. saved \in State /\ saved.term = 1 /\ saved.vote = p /\ saved.log \in Seq(Entry)
      BY <2>2, <3>1, <3>2 DEF State
    <3>4. /\ FileShape(file) /\ Len(file) = 3 + 2 * Len(saved.log)
          /\ file[1] = 1 /\ file[2] = p
      <4>. DEFINE log == saved.log
                  items == Items(1, p, log)
      <4>1. log \in Seq(Entry) /\ file = items
        BY <2>2, <3>3
      <4>. HIDE DEF log
      <4>2. /\ FileShape(items) /\ Len(items) = 3 + 2 * Len(log)
            /\ items[1] = 1 /\ items[2] = p
        BY <3>1, <4>1, ItemsAre
      <4>. HIDE DEF items
      <4>3. QED  BY <4>1, <4>2 DEF log
    <3>5. file # None
      BY <3>4, NoneIsNone
    <3>6. Item(file, 1) = 1 /\ Item(file, 2) = p
      BY <3>3, <3>4 DEF Item
    <3>7. Bars(1, p)
      BY <2>2, <3>1 DEF Bars
    <3>8. votes \subseteq Vote /\ \A v \in votes : v.asked = 1 /\ v.term = 1 /\ v.to = p
      BY <2>2, <3>1 DEF Vote
    <3>9. QED  BY <2>2, <3>3, <3>4, <3>5, <3>6, <3>7, <3>8 DEF FileIsSaved
  <2>3. QED  BY <2>1, <2>2 DEF Init
<1>4. TypeInv
  <2>1. /\ Log \in Seq(Entry) /\ VotedFor \in Voters
        /\ at \in [Requests \cup {Me} -> {"idle"} \cup Pending \cup Ended]
        /\ \A r \in DOMAIN at : at[r] = "idle"
    BY <1>2, PeersAssumption DEF Voters
  <2>2. \A r \in DOMAIN at : at[r] \in Pending \ {"checked"} <=> r = holder
    BY <1>2, <2>1, NoneAssumption DEF Pending
  <2>3. TypeOK
    BY <1>2, <1>3, <2>1, <2>2 DEF TypeOK, Voters, FileShape
  <2>4. QED  BY <1>1, <1>2, <1>3, <2>1, <2>3 DEF TypeInv
<1>5. \A r \in DOMAIN at : at[r] = "idle"
  BY <1>2
<1>6. PlaceInv
  BY <1>2, <1>5 DEF PlaceInv, Pending, Writing, Quiet
<1>7. ~Writing
  BY <1>5 DEF Writing
<1>8. KeptInv
  BY <1>2, <1>3, <1>7 DEF KeptInv, Quiet
<1>9. VotesInv
  BY <1>2, <1>3, <1>5, <1>7 DEF VotesInv
<1>10. QED  BY <1>4, <1>6, <1>8, <1>9 DEF RunInv

\* Every step keeps the types.
LEMMA TypeStep ==
  ASSUME TypeInv, PlaceInv, [Next]_vars
  PROVE  TypeInv'
<1>. USE DEF memory, bootVars, taskVars, histVars
<1>1. /\ TypeOK /\ found \in State /\ saved \in State /\ (file # None => FileShape(file))
      /\ \A r \in DOMAIN at : at[r] = "send" => args \in Messages
      /\ reply \in {None} \cup Vote
      /\ votes \subseteq Vote
  BY DEF TypeInv
<1>2. /\ Term \in Nat /\ VotedFor \in Voters /\ Log \in Seq(Entry)
      /\ at \in [Requests \cup {Me} -> {"idle"} \cup Pending \cup Ended]
      /\ \A r \in DOMAIN at : at[r] \in Pending \ {"checked"} <=> r = holder
      /\ NoVote \in Voters /\ 0 \in Voters /\ Me \in Voters \ {NoVote}
  BY <1>1, PeersAssumption DEF TypeOK, Voters, NoVote
<1>3. ASSUME NEW r \in Requests \cup {Me}, NEW p \in Pending \ {"checked"}, Goto(r, p),
             holder' = r, holder = None \/ holder = r
      PROVE  /\ at' \in [Requests \cup {Me} -> {"idle"} \cup Pending \cup Ended]
             /\ \A q \in DOMAIN at' : at'[q] \in Pending \ {"checked"} <=> q = holder'
             /\ \A q \in DOMAIN at' : at'[q] = "send" => q = r
  <2>1. /\ at' = [at EXCEPT ![r] = p] /\ None \notin Requests \cup {Me}
        /\ DOMAIN at = Requests \cup {Me} /\ DOMAIN at' = Requests \cup {Me}
    BY <1>2, <1>3, NoneAssumption DEF Goto
  <2>2. \A q \in Requests \cup {Me} : q # r => at'[q] = at[q] /\ q # holder /\ q # holder'
    BY <1>3, <2>1
  <2>3. \A q \in Requests \cup {Me} : q # r => at'[q] \notin Pending \ {"checked"}
    BY <1>2, <2>1, <2>2
  <2>4. at'[r] = p /\ r = holder'
    BY <1>2, <1>3, <2>1
  <2>5. "send" \in Pending \ {"checked"}
    BY DEF Pending
  <2>6. at' \in [Requests \cup {Me} -> {"idle"} \cup Pending \cup Ended]
    BY <1>2, <1>3, <2>1
  <2>7. \A q \in DOMAIN at' : at'[q] \in Pending \ {"checked"} <=> q = holder'
    BY <1>3, <2>1, <2>2, <2>3, <2>4
  <2>8. QED  BY <2>1, <2>3, <2>5, <2>6, <2>7
<1>4. ASSUME NEW r \in Requests \cup {Me}, NEW p \in {"idle", "checked"} \cup Ended, Goto(r, p),
             (r = holder /\ holder' = None) \/ (at[r] \in {"idle", "checked"} /\ holder' = holder)
      PROVE  /\ at' \in [Requests \cup {Me} -> {"idle"} \cup Pending \cup Ended]
             /\ \A q \in DOMAIN at' : at'[q] \in Pending \ {"checked"} <=> q = holder'
             /\ \A q \in DOMAIN at' : at'[q] = "send" => at[q] = "send"
  <2>1. /\ at' = [at EXCEPT ![r] = p] /\ None \notin Requests \cup {Me}
        /\ DOMAIN at = Requests \cup {Me} /\ DOMAIN at' = Requests \cup {Me}
    BY <1>2, <1>4, NoneAssumption DEF Goto
  <2>2. p \notin Pending \ {"checked"} /\ p \in {"idle"} \cup Pending \cup Ended /\ p # "send"
    BY DEF Pending, Ended
  <2>3. \A q \in Requests \cup {Me} : q # r => at'[q] = at[q]
    BY <2>1
  <2>4. at'[r] = p
    BY <1>2, <2>1
  <2>5. r # holder'
    <3>1. CASE r = holder /\ holder' = None
      BY <2>1, <3>1
    <3>2. CASE at[r] \in {"idle", "checked"} /\ holder' = holder
      <4>1. at[r] \notin Pending \ {"checked"}
        BY <3>2 DEF Pending
      <4>2. QED  BY <1>2, <2>1, <3>2, <4>1
    <3>3. QED  BY <1>4, <3>1, <3>2
  <2>6. \A q \in Requests \cup {Me} : q # r => (q = holder <=> q = holder')
    BY <1>4, <2>1
  <2>7. \A q \in DOMAIN at' : at'[q] \in Pending \ {"checked"} <=> q = holder'
    BY <1>2, <2>1, <2>2, <2>3, <2>4, <2>5, <2>6
  <2>8. at' \in [Requests \cup {Me} -> {"idle"} \cup Pending \cup Ended]
    BY <1>2, <2>1, <2>2
  <2>9. QED  BY <2>1, <2>2, <2>3, <2>4, <2>7, <2>8
<1>5. CASE UNCHANGED vars
  BY <1>1, <1>5 DEF vars, TypeInv, TypeOK, FileShape
<1>6. CASE Setup \/ MakeRun
  <2>1. /\ Term' \in Nat /\ VotedFor' \in Voters /\ Log' \in Seq(Entry)
        /\ main' \in {"make", "read"} /\ made' \in BOOLEAN
        /\ Network' = "Connect"
        /\ UNCHANGED <<found, ReceiveHB, taskVars, file, histVars>>
    <3>1. CASE Setup
      BY <1>1, <1>2, <3>1 DEF Setup, TypeOK
    <3>2. CASE MakeRun
      <4>1. /\ Term' = 0 /\ VotedFor' = NoVote /\ Log' = <<>> /\ main' = "read" /\ made' = TRUE
            /\ Network' = "Connect" /\ UNCHANGED <<found, ReceiveHB, taskVars, file, histVars>>
        BY <3>2 DEF MakeRun
      <4>2. QED  BY <1>2, <4>1
    <3>3. QED  BY <1>6, <3>1, <3>2
  <2>2. TypeOK'
    BY <1>1, <2>1 DEF TypeOK, Voters, Startup
  <2>3. QED  BY <1>1, <2>1, <2>2 DEF TypeInv, FileShape
<1>7. CASE ReadPersistRun
  <2>1. found' \in State
    BY <1>1, <1>7, DecodeType DEF ReadPersistRun
  <2>2. QED  BY <1>1, <1>7, <2>1 DEF ReadPersistRun, TypeInv, TypeOK, Startup, FileShape
<1>8. CASE Restore
  <2>1. Term' \in Nat /\ VotedFor' \in Voters /\ Log' \in Seq(Entry)
        /\ main' \in {"down", "run"} \cup Startup
    BY <1>1, <1>2, <1>8 DEF Restore, State, Startup
  <2>2. QED  BY <1>1, <1>8, <2>1 DEF Restore, TypeInv, TypeOK, FileShape, Voters
<1>9. ASSUME NEW r \in Requests, CheckNetwork(r)
      PROVE  TypeInv'
  <2>1. \E p \in {"idle", "checked"} \cup Ended : Goto(r, p)
    BY <1>9 DEF CheckNetwork, Ended
  <2>2. at[r] \in {"idle", "checked"} /\ holder' = holder
    BY <1>9 DEF CheckNetwork
  <2>3. /\ at' \in [Requests \cup {Me} -> {"idle"} \cup Pending \cup Ended]
        /\ \A q \in DOMAIN at' : at'[q] \in Pending \ {"checked"} <=> q = holder'
        /\ \A q \in DOMAIN at' : at'[q] = "send" => at[q] = "send"
    BY <1>4, <2>1, <2>2
  <2>4. UNCHANGED <<memory, bootVars, ReceiveHB, Network, holder, args, reply, file, histVars>>
    BY <1>9 DEF CheckNetwork
  <2>5. DOMAIN at' = DOMAIN at
    BY <1>2, <2>3
  <2>6. TypeOK'
    BY <1>1, <2>3, <2>4 DEF TypeOK
  <2>7. QED  BY <1>1, <2>3, <2>4, <2>5, <2>6 DEF TypeInv, FileShape
<1>10. ASSUME NEW r \in Requests, NEW m \in Messages, Handle(r, m)
       PROVE  TypeInv'
  <2>1. /\ holder = None /\ holder' = r /\ early' \in Nat
        /\ UNCHANGED <<bootVars, ReceiveHB, Network, file, saved, votes, torn, lost>>
    BY <1>1, <1>10 DEF Handle, Takes, TypeOK
  <2>2. CASE Notifies(m)
    <3>1. Term' = m.term /\ args' = m /\ UNCHANGED <<VotedFor, Log, reply>>
          /\ Goto(r, IF made THEN "send" ELSE "jammed")
      BY <1>10, <2>2 DEF Handle
    <3>2. (IF made THEN "send" ELSE "jammed") \in Pending \ {"checked"}
      BY DEF Pending
    <3>3. /\ at' \in [Requests \cup {Me} -> {"idle"} \cup Pending \cup Ended]
          /\ \A q \in DOMAIN at' : at'[q] \in Pending \ {"checked"} <=> q = holder'
      BY <1>3, <2>1, <3>1, <3>2
    <3>4. Term' \in Nat
      BY <3>1, MessageTypes
    <3>5. TypeOK'
      BY <1>1, <2>1, <3>1, <3>3, <3>4 DEF TypeOK
    <3>6. QED  BY <1>1, <2>1, <3>1, <3>5 DEF TypeInv, FileShape
  <2>3. CASE ~Notifies(m)
    <3>1. /\ \E good : Concludes(m, FALSE, good)
          /\ Goto(r, "create") /\ UNCHANGED <<Term, args>>
      BY <1>10, <2>3 DEF Handle
    <3>2. /\ at' \in [Requests \cup {Me} -> {"idle"} \cup Pending \cup Ended]
          /\ \A q \in DOMAIN at' : at'[q] \in Pending \ {"checked"} <=> q = holder'
          /\ \A q \in DOMAIN at' : at'[q] = "send" => q = r
      BY <1>3, <2>1, <3>1 DEF Pending
    <3>3. at'[r] = "create"
      BY <1>2, <3>1 DEF Goto
    <3>4. /\ VotedFor' \in Voters /\ Log' \in Seq(Entry)
          /\ reply' \in {None} \cup Vote
      BY <1>2, <3>1, ConcludesTypes
    <3>5. TypeOK'
      BY <1>1, <2>1, <3>1, <3>2, <3>4 DEF TypeOK, Voters
    <3>6. QED  BY <1>1, <2>1, <3>1, <3>2, <3>3, <3>4, <3>5 DEF TypeInv, FileShape
  <2>4. QED  BY <2>2, <2>3
<1>11. ASSUME NEW r \in Requests, SendAndConclude(r)
       PROVE  TypeInv'
  <2>1. /\ r = holder /\ args \in Messages
    BY <1>1, <1>2, <1>11 DEF SendAndConclude, Pending
  <2>2. /\ Goto(r, "create") /\ Concludes(args, TRUE, upToDate)
        /\ ReceiveHB' = TRUE
        /\ UNCHANGED <<Term, bootVars, Network, holder, file, histVars>>
    BY <1>11 DEF SendAndConclude
  <2>3. /\ at' \in [Requests \cup {Me} -> {"idle"} \cup Pending \cup Ended]
        /\ \A q \in DOMAIN at' : at'[q] \in Pending \ {"checked"} <=> q = holder'
        /\ \A q \in DOMAIN at' : at'[q] = "send" => q = r
    BY <1>3, <2>1, <2>2 DEF Pending
  <2>4. at'[r] = "create"
    BY <1>2, <2>2 DEF Goto
  <2>5. /\ VotedFor' \in Voters /\ Log' \in Seq(Entry)
        /\ reply' \in {None} \cup Vote
    BY <1>2, <2>1, <2>2, ConcludesTypes
  <2>6. TypeOK'
    BY <1>1, <2>2, <2>3, <2>5 DEF TypeOK, Voters
  <2>7. QED  BY <1>1, <2>2, <2>3, <2>4, <2>5, <2>6 DEF TypeInv, FileShape
<1>12. CASE DrainHB
  BY <1>1, <1>12 DEF DrainHB, TypeInv, TypeOK, FileShape
<1>13. CASE StartAsCand
  <2>1. /\ holder = None /\ holder' = Me /\ early' \in Nat /\ Goto(Me, "create")
        /\ Term' = Term + 1 /\ VotedFor' = Me
        /\ reply' = [asked |-> Term + 1, term |-> Term + 1, to |-> Me]
        /\ UNCHANGED <<Log, bootVars, ReceiveHB, Network, args, file, saved, votes, torn, lost>>
    BY <1>1, <1>13 DEF StartAsCand, Takes, TypeOK
  <2>2. /\ at' \in [Requests \cup {Me} -> {"idle"} \cup Pending \cup Ended]
        /\ \A q \in DOMAIN at' : at'[q] \in Pending \ {"checked"} <=> q = holder'
        /\ \A q \in DOMAIN at' : at'[q] = "send" => q = Me
    BY <1>3, <2>1 DEF Pending
  <2>3. at'[Me] = "create"
    BY <1>2, <2>1 DEF Goto
  <2>4. TypeOK'
    BY <1>1, <1>2, <2>1, <2>2 DEF TypeOK
  <2>5. reply' \in Vote
    BY <1>2, <2>1 DEF Vote
  <2>6. QED  BY <1>1, <1>2, <2>1, <2>2, <2>3, <2>4, <2>5 DEF TypeInv, FileShape
<1>14. ASSUME NEW r \in Requests \cup {Me}, Create(r)
       PROVE  TypeInv'
  <2>1. /\ r = holder /\ holder' = r /\ Goto(r, "write") /\ file' = <<>>
        /\ UNCHANGED <<memory, bootVars, ReceiveHB, Network, args, reply, histVars>>
    BY <1>2, <1>14 DEF Create, Pending
  <2>2. /\ at' \in [Requests \cup {Me} -> {"idle"} \cup Pending \cup Ended]
        /\ \A q \in DOMAIN at' : at'[q] \in Pending \ {"checked"} <=> q = holder'
        /\ \A q \in DOMAIN at' : at'[q] = "send" => q = r
    BY <1>3, <2>1 DEF Pending
  <2>3. at'[r] = "write"
    BY <1>2, <2>1 DEF Goto
  <2>4. FileShape(file')
    BY <2>1 DEF FileShape
  <2>5. TypeOK'
    BY <1>1, <2>1, <2>2 DEF TypeOK
  <2>6. QED  BY <1>1, <2>1, <2>2, <2>3, <2>4, <2>5 DEF TypeInv, FileShape
<1>15. ASSUME NEW r \in Requests \cup {Me}, Write(r)
       PROVE  TypeInv'
  <2>. file # None
    BY <1>2, <1>15 DEF Write, PlaceInv, Writing
  <2>1. FileShape(file') /\ saved' \in State /\ torn' \in BOOLEAN
    BY <1>1, <1>15, WriteShape, ContentsAre DEF Write, TypeOK
  <2>2. UNCHANGED <<memory, bootVars, ReceiveHB, Network, taskVars, votes, early, lost>>
    BY <1>15 DEF Write
  <2>3. TypeOK'
    BY <1>1, <2>1, <2>2 DEF TypeOK, FileShape
  <2>4. QED  BY <1>1, <2>1, <2>2, <2>3 DEF TypeInv, FileShape
<1>16. ASSUME NEW r \in Requests \cup {Me}, Finish(r) \/ PersistFails(r)
       PROVE  TypeInv'
  <2>1. /\ at[r] \in {"create", "write"} /\ EndRegion(r)
        /\ torn' \in BOOLEAN /\ lost' \in BOOLEAN
    BY <1>1, <1>16 DEF Finish, PersistFails, TypeOK
  <2>2. /\ r = holder /\ holder' = None /\ reply' = None
        /\ votes' = (IF reply # None THEN votes \cup {reply} ELSE votes)
        /\ Goto(r, IF r = Me THEN "idle" ELSE "done")
        /\ UNCHANGED <<memory, bootVars, ReceiveHB, Network, args, file, saved, early>>
    BY <1>2, <2>1 DEF EndRegion, Pending
  <2>3. (IF r = Me THEN "idle" ELSE "done") \in {"idle", "checked"} \cup Ended
    BY DEF Ended
  <2>4. /\ at' \in [Requests \cup {Me} -> {"idle"} \cup Pending \cup Ended]
        /\ \A q \in DOMAIN at' : at'[q] \in Pending \ {"checked"} <=> q = holder'
        /\ \A q \in DOMAIN at' : at'[q] = "send" => at[q] = "send"
    BY <1>4, <2>2, <2>3
  <2>5. votes' \subseteq Vote
    BY <1>1, <2>2
  <2>6. DOMAIN at' = DOMAIN at
    BY <1>2, <2>4
  <2>7. TypeOK'
    BY <1>1, <2>1, <2>2, <2>4 DEF TypeOK
  <2>8. QED  BY <1>1, <2>2, <2>4, <2>5, <2>6, <2>7 DEF TypeInv, FileShape
<1>17. ASSUME NEW n \in {"Connect", "Disconnect"}, SetNetwork(n)
       PROVE  TypeInv'
  BY <1>1, <1>17 DEF SetNetwork, TypeInv, TypeOK, FileShape
<1>18. CASE Crash
  <2>1. /\ main' = "down" /\ made' = FALSE /\ found' = Fresh
        /\ Term' = 0 /\ VotedFor' = 0 /\ Log' = <<>> /\ ReceiveHB' = FALSE
        /\ holder' = None /\ reply' = None
        /\ at' = [r \in DOMAIN at |-> IF at[r] \notin Pending THEN at[r]
                                      ELSE IF r = Me THEN "idle" ELSE "lost"]
        /\ torn' \in BOOLEAN /\ lost' \in BOOLEAN
        /\ UNCHANGED <<Network, file, saved, votes, early>>
    BY <1>1, <1>18 DEF Crash, TypeOK
  <2>2. \A r \in Requests \cup {Me} : at'[r] \in {"idle"} \cup Ended /\ at'[r] \notin Pending
    BY <1>2, <2>1 DEF Pending, Ended
  <2>3. DOMAIN at' = Requests \cup {Me} /\ \A r \in DOMAIN at' : at'[r] # "send"
    BY <1>2, <2>1, <2>2 DEF Pending
  <2>4. at' \in [Requests \cup {Me} -> {"idle"} \cup Pending \cup Ended]
    BY <1>2, <2>1, <2>2
  <2>5. \A r \in DOMAIN at' : at'[r] \in Pending \ {"checked"} <=> r = holder'
    BY <2>1, <2>2, <2>3, NoneAssumption
  <2>6. Fresh \in State
    BY DEF Fresh, State, Voters
  <2>7. /\ Term' \in Nat /\ VotedFor' \in Voters /\ Log' \in Seq(Entry)
        /\ holder' \in Requests \cup {Me, None}
    <3>1. <<>> \in Seq(Entry)
      OBVIOUS
    <3>2. QED  BY <1>2, <2>1, <3>1
  <2>8. TypeOK'
    BY <1>1, <2>1, <2>4, <2>5, <2>7 DEF TypeOK, Voters
  <2>9. QED  BY <1>1, <2>1, <2>3, <2>6, <2>8 DEF TypeInv, FileShape
<1>19. QED
  BY <1>5, <1>6, <1>7, <1>8, <1>9, <1>10, <1>11, <1>12, <1>13, <1>14, <1>15, <1>16, <1>17, <1>18
  DEF Next, Starts, Persisting, Serves
-----------------------------------------------------------------------------
\* Places.

\* A task moves, and no other.
LEMMA GotoIs ==
  ASSUME TypeOK, NEW r \in Requests \cup {Me}, NEW p, Goto(r, p)
  PROVE  /\ DOMAIN at' = DOMAIN at /\ DOMAIN at = Requests \cup {Me}
         /\ at'[r] = p
         /\ \A q \in DOMAIN at : q # r => at'[q] = at[q]
BY DEF TypeOK, Goto

\* Whoever is past rf.mu.Lock() is its holder.
LEMMA HolderOnly ==
  ASSUME TypeOK, NEW r \in Requests \cup {Me}, at[r] \in {"jammed", "send", "create", "write"}
  PROVE  r = holder /\ holder # None
<1>1. at[r] \in Pending \ {"checked"} /\ r \in DOMAIN at
  BY DEF TypeOK, Pending
<1>2. QED  BY <1>1, NoneAssumption DEF TypeOK

\* While nobody is at work inside rf.mu nothing is being sent, written or granted.
LEMMA QuietNow ==
  ASSUME TypeInv, PlaceInv, Quiet
  PROVE  /\ ~Writing /\ reply = None
         /\ \A r \in DOMAIN at : at[r] \notin {"send", "create", "write"}
<1>1. TypeOK /\ DOMAIN at = Requests \cup {Me}
  BY DEF TypeInv, TypeOK
<1>2. ASSUME NEW r \in DOMAIN at
      PROVE  at[r] \notin {"send", "create", "write"}
  <2>1. at[r] \in {"send", "create", "write"} => r = holder /\ holder # None
    BY <1>1, HolderOnly
  <2>2. QED  BY <2>1 DEF Quiet
<1>3. QED  BY <1>2 DEF PlaceInv, Writing

\* The same of the state after a step.
LEMMA QuietNext ==
  ASSUME TypeInv', PlaceInv', Quiet'
  PROVE  /\ ~Writing' /\ reply' = None
         /\ \A r \in DOMAIN at' : at'[r] \notin {"send", "create", "write"}
<1>1. /\ \A r \in DOMAIN at' : at'[r] \in Pending \ {"checked"} => r = holder'
      /\ DOMAIN at' = Requests \cup {Me}
  BY DEF TypeInv, TypeOK
<1>2. ASSUME NEW r \in DOMAIN at'
      PROVE  at'[r] \notin {"send", "create", "write"}
  <2>1. at'[r] \in {"send", "create", "write"} => r = holder'
    BY <1>1 DEF Pending
  <2>2. r # None
    BY <1>1, NoneAssumption
  <2>3. QED  BY <2>1, <2>2 DEF Quiet
<1>3. QED  BY <1>2 DEF PlaceInv, Writing

\* Whoever is at work inside rf.mu is its holder, and the channels are made.
LEMMA BusyUp ==
  ASSUME TypeInv, PlaceInv, NEW r \in Requests \cup {Me}, at[r] \in {"send", "create", "write"}
  PROVE  /\ holder = r /\ holder # None /\ ~Quiet
         /\ main \notin {"down", "make"} /\ made
         /\ \A q \in DOMAIN at : at[q] \in {"send", "create", "write"} => q = r
<1>1. TypeOK /\ DOMAIN at = Requests \cup {Me}
  BY DEF TypeInv, TypeOK
<1>2. \A q \in Requests \cup {Me} :
         at[q] \in {"send", "create", "write"} => q = holder /\ holder # None
  BY <1>1, HolderOnly
<1>3. ~Quiet
  BY <1>2 DEF Quiet
<1>4. QED  BY <1>1, <1>2, <1>3 DEF PlaceInv

\* Every step keeps the places.
LEMMA PlaceStep ==
  ASSUME TypeInv, TypeInv', PlaceInv, [Next]_vars
  PROVE  PlaceInv'
<1>. USE DEF memory, bootVars, taskVars, histVars
<1>1. /\ TypeOK /\ DOMAIN at = Requests \cup {Me} /\ (file # None => FileShape(file))
      /\ Term \in Nat /\ Me \in Voters
  BY DEF TypeInv, TypeOK, Voters
<1>2. /\ main = "down" => \A r \in DOMAIN at : at[r] \notin Pending
      /\ made <=> main \notin {"down", "make"}
      /\ main \in {"down", "make"} => Quiet /\ (holder = None => Term = 0)
      /\ reply # None => \E r \in DOMAIN at : at[r] \in {"create", "write"}
      /\ \A r \in DOMAIN at : at[r] = "write" => file # None
  BY DEF PlaceInv, Writing
<1>3. ASSUME UNCHANGED <<at, reply, file>>, main' # "down",
             made' <=> main' # "make",
             main' = "make" => Quiet' /\ (holder' = None => Term' = 0)
      PROVE  PlaceInv'
  BY <1>2, <1>3 DEF PlaceInv, Writing
<1>4. ASSUME NEW r \in Requests \cup {Me}, NEW p, Goto(r, p), main' # "down",
             reply' # None => p \in {"create", "write"},
             holder \in {None, r},
             p = "write" => file' # None,
             made' <=> main' # "make",
             main' = "make" => Quiet' /\ (holder' = None => Term' = 0)
      PROVE  PlaceInv'
  <2>1. /\ DOMAIN at' = DOMAIN at /\ at'[r] = p
        /\ \A q \in DOMAIN at : q # r => at'[q] = at[q]
    BY <1>1, <1>4, GotoIs
  <2>2. \A q \in DOMAIN at : at[q] = "write" => q = r
    BY <1>1, <1>4, HolderOnly
  <2>3. \A q \in DOMAIN at' : at'[q] = "write" => q = r
    BY <2>1, <2>2
  <2>4. Writing' => file' # None
    BY <1>4, <2>1, <2>3 DEF Writing
  <2>5. reply' # None => \E q \in DOMAIN at' : at'[q] \in {"create", "write"}
    BY <1>1, <1>4, <2>1
  <2>6. QED  BY <1>4, <2>4, <2>5 DEF PlaceInv
<1>5. CASE UNCHANGED vars
  BY <1>2, <1>5 DEF vars, PlaceInv, Writing, Quiet
<1>6. CASE Setup
  <2>1. /\ main = "down" /\ main' = "make"
        /\ UNCHANGED <<Term, at, holder, made, reply, file>>
    BY <1>6 DEF Setup
  <2>2. Quiet' <=> Quiet
    BY <2>1 DEF Quiet
  <2>3. QED  BY <1>2, <1>3, <2>1, <2>2
<1>7. CASE Starts \/ DrainHB
  <2>1. UNCHANGED <<at, reply, file>> /\ main' \notin {"down", "make"} /\ made'
    BY <1>2, <1>7 DEF Starts, MakeRun, ReadPersistRun, Restore, DrainHB
  <2>2. QED  BY <1>3, <2>1
<1>8. ASSUME NEW r \in Requests, CheckNetwork(r)
      PROVE  PlaceInv'
  <2>1. /\ \E p \in {"refused", "checked"} : Goto(r, p)
        /\ main' # "down" /\ holder = None
        /\ UNCHANGED <<main, made, Term, holder, reply>>
    BY <1>8 DEF CheckNetwork
  <2>2. reply = None /\ Quiet'
    BY <2>1, QuietNow DEF Quiet
  <2>3. QED  BY <1>2, <1>4, <2>1, <2>2
<1>9. ASSUME NEW r \in Requests, NEW m \in Messages, Handle(r, m)
      PROVE  PlaceInv'
  <2>1. /\ at[r] \in Pending /\ holder = None /\ holder' = r /\ r # None
        /\ UNCHANGED <<main, made>>
    BY <1>9, NoneAssumption DEF Handle, Takes, Pending
  <2>2. main' # "down" /\ reply = None
    BY <1>1, <1>2, <2>1, QuietNow DEF Quiet
  <2>3. CASE Notifies(m)
    <3>1. reply' = reply /\ Goto(r, IF made THEN "send" ELSE "jammed")
      BY <1>9, <2>3 DEF Handle
    <3>2. main' = "make" => Quiet'
      BY <1>1, <1>2, <2>1, <3>1, GotoIs DEF Quiet
    <3>3. (IF made THEN "send" ELSE "jammed") # "write"
      OBVIOUS
    <3>4. QED  BY <1>2, <1>4, <2>1, <2>2, <3>1, <3>2, <3>3
  <2>4. CASE ~Notifies(m)
    <3>1. Goto(r, "create")
      BY <1>9, <2>4 DEF Handle
    <3>2. main # "make"
      <4>1. m.term \in Nat /\ m.term > 0
        BY MessageTypes
      <4>2. Term # 0
        BY <1>1, <2>4, <4>1 DEF Notifies
      <4>3. QED  BY <1>2, <2>1, <4>2
    <3>3. QED  BY <1>2, <1>4, <2>1, <2>2, <3>1, <3>2
  <2>5. QED  BY <2>3, <2>4
<1>10. ASSUME NEW r \in Requests, SendAndConclude(r)
       PROVE  PlaceInv'
  <2>1. at[r] = "send" /\ UNCHANGED <<main, made>> /\ Goto(r, "create")
    BY <1>10 DEF SendAndConclude
  <2>2. main' \notin {"down", "make"} /\ holder = r /\ made
    BY <2>1, BusyUp
  <2>3. QED  BY <1>4, <2>1, <2>2
<1>11. CASE StartAsCand
  <2>1. made /\ holder = None /\ UNCHANGED <<main, made>> /\ Goto(Me, "create")
    BY <1>11 DEF StartAsCand, Takes
  <2>2. main' \notin {"down", "make"}
    BY <1>2, <2>1
  <2>3. QED  BY <1>4, <2>1, <2>2
<1>12. ASSUME NEW r \in Requests \cup {Me}, Create(r)
       PROVE  PlaceInv'
  <2>1. at[r] = "create" /\ UNCHANGED <<main, made>> /\ Goto(r, "write") /\ file' = <<>>
    BY <1>12 DEF Create
  <2>2. main' \notin {"down", "make"} /\ holder = r /\ made
    BY <2>1, BusyUp
  <2>3. file' # None
    <3>1. FileShape(<<>>)
      BY DEF FileShape
    <3>2. QED  BY <2>1, <3>1, NoneIsNone
  <2>4. QED  BY <1>4, <2>1, <2>2, <2>3
<1>13. ASSUME NEW r \in Requests \cup {Me}, Write(r)
       PROVE  PlaceInv'
  <2>1. at[r] = "write" /\ Len(file) < Len(Contents) /\ file' = WriteNext
        /\ UNCHANGED <<at, reply, main, made>>
    BY <1>13 DEF Write
  <2>2. main \notin {"down", "make"} /\ made
    BY <2>1, BusyUp
  <2>3. FileShape(file)
    BY <1>1, <1>2, <2>1
  <2>4. file' # None
    BY <1>1, <2>1, <2>3, WriteShape, NoneIsNone
  <2>5. QED  BY <1>2, <2>1, <2>2, <2>4 DEF PlaceInv, Writing
<1>14. ASSUME NEW r \in Requests \cup {Me}, Finish(r) \/ PersistFails(r)
       PROVE  PlaceInv'
  <2>1. at[r] \in {"create", "write"} /\ UNCHANGED <<main, made>> /\ reply' = None
        /\ \E p \in {"idle", "done"} : Goto(r, p)
    BY <1>14 DEF Finish, PersistFails, EndRegion
  <2>2. main' \notin {"down", "make"} /\ holder = r /\ made
    BY <2>1, BusyUp
  <2>3. QED  BY <1>4, <2>1, <2>2
<1>15. ASSUME NEW n \in {"Connect", "Disconnect"}, SetNetwork(n)
       PROVE  PlaceInv'
  <2>1. UNCHANGED <<at, reply, file, made>> /\ main = "run" /\ main' = main
    BY <1>15 DEF SetNetwork
  <2>2. QED  BY <1>2, <1>3, <2>1
<1>16. CASE Crash
  <2>1. /\ made' = FALSE /\ reply' = None /\ main' = "down" /\ holder' = None /\ Term' = 0
        /\ at' = [r \in DOMAIN at |-> IF at[r] \notin Pending THEN at[r]
                                      ELSE IF r = Me THEN "idle" ELSE "lost"]
    BY <1>16 DEF Crash
  <2>2. \A r \in DOMAIN at' : at'[r] \notin Pending
    BY <2>1 DEF Pending
  <2>3. ~Writing'
    BY <2>2 DEF Writing, Pending
  <2>4. QED  BY <2>1, <2>2, <2>3 DEF PlaceInv, Quiet
<1>17. QED
  BY <1>5, <1>6, <1>7, <1>8, <1>9, <1>10, <1>11, <1>12, <1>13, <1>14, <1>15, <1>16
  DEF Next, Persisting, Serves
-----------------------------------------------------------------------------
\* The file.

\* What persist() has written, when it has written it all, is memory.
LEMMA PartIsWhole ==
  ASSUME TypeInv, FileIsPart, Len(file) >= Len(Contents)
  PROVE  saved = Saved /\ FileIsSaved
<1>1. /\ FileShape(file) /\ FileShape(Contents)
      /\ Len(file) <= Len(Contents)
      /\ \A k \in DOMAIN file : file[k] = Contents[k]
      /\ Len(file) = Len(Contents) => saved = Saved
  BY ContentsAre DEF TypeInv, FileIsPart
<1>2. file \in Seq(Nat \cup {NoVote}) /\ Contents \in Seq(Nat \cup {NoVote})
  BY <1>1 DEF FileShape
<1>3. Len(file) = Len(Contents)
  BY <1>1, <1>2
<1>4. file = Contents
  BY <1>1, <1>2, <1>3
<1>5. saved = Saved
  BY <1>1, <1>3
<1>6. file # None
  BY DEF FileIsPart
<1>7. QED  BY <1>4, <1>5, <1>6 DEF FileIsSaved, Contents, Saved

\* What a complete file decodes to.
LEMMA DecodeSaved ==
  ASSUME TypeInv, FileIsSaved, file # None
  PROVE  Decode(file) = saved
<1>1. saved \in State /\ file = Items(saved.term, saved.vote, saved.log)
  BY DEF TypeInv, FileIsSaved
<1>2. saved.term \in Nat /\ saved.vote \in Voters /\ saved.log \in Seq(Entry)
  BY <1>1 DEF State
<1>3. Decode(file) = [term |-> saved.term, vote |-> saved.vote, log |-> saved.log]
  BY <1>1, <1>2, DecodeItems
<1>4. QED  BY <1>1, <1>3 DEF State

\* A window that was hit stays hit.
LEMMA WindowsStay ==
  ASSUME early \in Nat, lost \in BOOLEAN, [Next]_vars
  PROVE  (lost => lost') /\ (early # 0 => early' # 0)
<1>. USE DEF histVars
<1>1. ASSUME NEW who, Takes(who)
      PROVE  lost' = lost /\ (early # 0 => early' # 0)
  BY <1>1 DEF Takes
<1>2. ASSUME NEW r \in Requests, Serves(r)
      PROVE  lost' = lost /\ (early # 0 => early' # 0)
  BY <1>1, <1>2 DEF Serves, SendAndConclude, Handle
<1>3. CASE StartAsCand
  BY <1>1, <1>3 DEF StartAsCand
<1>4. CASE Crash
  BY <1>4 DEF Crash
<1>5. CASE UNCHANGED <<lost, early>>
  BY <1>5
<1>6. CASE Setup \/ Starts \/ DrainHB
  BY <1>6 DEF Setup, Starts, MakeRun, ReadPersistRun, Restore, DrainHB
<1>7. ASSUME NEW r \in Requests \cup {Me}, Create(r) \/ Write(r) \/ Finish(r) \/ PersistFails(r)
      PROVE  (lost => lost') /\ early' = early
  <2>1. CASE Create(r) \/ Write(r)
    BY <2>1 DEF Create, Write
  <2>2. CASE Finish(r) \/ PersistFails(r)
    <3>1. early' = early
      BY <2>2 DEF Finish, PersistFails, EndRegion
    <3>2. lost' = lost \/ lost' = (lost \/ at[r] = "create" \/ file = <<>>)
      BY <2>2 DEF Finish, PersistFails
    <3>3. QED  BY <3>1, <3>2
  <2>3. QED  BY <1>7, <2>1, <2>2
<1>8. QED
  BY <1>2, <1>3, <1>4, <1>5, <1>6, <1>7 DEF Next, Persisting, vars, CheckNetwork, SetNetwork

\* Each step of persist(), of the start and of a crash keeps the file's part of the
\* invariant.
LEMMA KeptStep ==
  ASSUME TypeInv, TypeInv', PlaceInv, PlaceInv', KeptInv, [Next]_vars
  PROVE  KeptInv'
<1>. USE DEF memory, bootVars, taskVars, histVars
<1>1. /\ TypeOK /\ DOMAIN at = Requests \cup {Me} /\ DOMAIN at' = Requests \cup {Me}
      /\ file # None => FileShape(file)
      /\ early \in Nat /\ lost \in BOOLEAN
      /\ main \in {"down", "run"} \cup Startup
  BY DEF TypeInv, TypeOK
<1>2. early # 0 => early' # 0
  BY <1>1, WindowsStay
<1>. SUFFICES ASSUME early' = 0
              PROVE  KeptInv'
  BY DEF KeptInv
<1>3. /\ main # "run" => Quiet
      /\ main = "read" => Saved = Fresh
      /\ main \in {"term", "vote", "log"} => file # None /\ found = Decode(file)
      /\ main \in {"vote", "log"} => Term = found.term
      /\ main = "log" => VotedFor = found.vote
      /\ main = "run" /\ Quiet /\ ~torn => Saved = saved
      /\ Writing => FileIsPart
      /\ ~Writing /\ ~torn => FileIsSaved
  BY <1>2 DEF KeptInv
<1>4. ASSUME main' = "run",
             Quiet' /\ ~torn' => Saved' = saved',
             Writing' => FileIsPart',
             ~Writing' /\ ~torn' => FileIsSaved'
      PROVE  KeptInv'
  BY <1>4 DEF KeptInv
<1>5. ASSUME UNCHANGED <<memory, main, found, file, saved, torn>>, Writing' <=> Writing,
             Quiet' <=> Quiet
      PROVE  KeptInv'
  <2>1. /\ FileIsPart' <=> FileIsPart
        /\ FileIsSaved' <=> FileIsSaved
        /\ Saved' = Saved
    BY <1>5 DEF FileIsPart, FileIsSaved, Contents, Saved
  <2>2. /\ main' # "run" => Quiet'
        /\ main' = "read" => Saved' = Fresh
        /\ main' \in {"term", "vote", "log"} => file' # None /\ found' = Decode(file')
        /\ main' \in {"vote", "log"} => Term' = found'.term
        /\ main' = "log" => VotedFor' = found'.vote
        /\ main' = "run" /\ Quiet' /\ ~torn' => Saved' = saved'
    BY <1>3, <1>5, <2>1
  <2>3. /\ Writing' => FileIsPart'
        /\ ~Writing' /\ ~torn' => FileIsSaved'
    BY <1>3, <1>5, <2>1
  <2>4. QED  BY <2>2, <2>3 DEF KeptInv
<1>6. ASSUME UNCHANGED <<memory, main, found, holder, at, file, saved, torn>>
      PROVE  KeptInv'
  <2>1. (Writing' <=> Writing) /\ (Quiet' <=> Quiet)
    BY <1>6 DEF Writing, Quiet
  <2>2. QED  BY <1>5, <1>6, <2>1
<1>7. CASE UNCHANGED vars \/ DrainHB \/ \E n \in {"Connect", "Disconnect"} : SetNetwork(n)
  BY <1>6, <1>7 DEF vars, DrainHB, SetNetwork
\* A step of the start: nobody is at work, and persist() is not called.
<1>9. ASSUME main # "run", UNCHANGED <<holder, at, file, saved, torn>>
      PROVE  /\ Quiet' /\ ~Writing'
             /\ ~torn' => FileIsSaved /\ FileIsSaved'
  <2>1. Quiet /\ ~Writing
    BY <1>3, <1>9, QuietNow
  <2>2. Quiet' /\ ~Writing'
    BY <1>9, <2>1 DEF Writing, Quiet
  <2>3. QED  BY <1>3, <1>9, <2>1, <2>2 DEF FileIsSaved
<1>10. CASE Setup \/ MakeRun
  <2>1. /\ main # "run" /\ main' \in {"make", "read"} /\ UNCHANGED <<holder, at, file, saved, torn>>
        /\ main' = "read" => Term' = 0 /\ VotedFor' = NoVote /\ Log' = <<>>
    BY <1>10 DEF Setup, MakeRun
  <2>2. main' = "read" => Saved' = Fresh
    BY <2>1 DEF Saved, Fresh
  <2>3. QED  BY <1>9, <2>1, <2>2 DEF KeptInv
<1>12. CASE ReadPersistRun
  <2>1. /\ main = "read" /\ UNCHANGED <<memory, at, file, saved, holder, torn>>
        /\ IF file = None THEN main' = "run"
           ELSE main' = "term" /\ found' = Decode(file)
    BY <1>12 DEF ReadPersistRun
  <2>2. Quiet' /\ ~Writing' /\ (~torn' => FileIsSaved /\ FileIsSaved')
    BY <1>9, <2>1
  <2>3. CASE file = None
    <3>1. ~torn' => saved = Fresh
      BY <2>2, <2>3 DEF FileIsSaved
    <3>2. Saved' = Saved /\ saved' = saved /\ main' = "run"
      BY <2>1, <2>3 DEF Saved
    <3>3. QED  BY <1>3, <1>4, <2>1, <2>2, <3>1, <3>2
  <2>4. CASE file # None
    BY <2>1, <2>2, <2>4 DEF KeptInv
  <2>5. QED  BY <2>3, <2>4
<1>13. CASE Restore
  <2>1. main # "run" /\ UNCHANGED <<found, at, file, saved, holder, torn>>
    BY <1>13 DEF Restore
  <2>2. Quiet' /\ ~Writing' /\ (~torn' => FileIsSaved /\ FileIsSaved')
    BY <1>9, <2>1
  <2>3. CASE main = "term"
    <3>1. main' = "vote" /\ Term' = found.term
      BY <1>13, <2>3 DEF Restore
    <3>2. QED  BY <1>3, <2>1, <2>2, <2>3, <3>1 DEF KeptInv
  <2>4. CASE main = "vote"
    <3>1. main' = "log" /\ VotedFor' = found.vote /\ Term' = Term
      BY <1>13, <2>4 DEF Restore
    <3>2. QED  BY <1>3, <2>1, <2>2, <2>4, <3>1 DEF KeptInv
  <2>5. CASE main = "log"
    <3>1. main' = "run" /\ Log' = found.log /\ UNCHANGED <<Term, VotedFor>>
      BY <1>13, <2>5 DEF Restore
    <3>2. Saved' = [term |-> found.term, vote |-> found.vote, log |-> found.log]
      BY <1>3, <2>5, <3>1 DEF Saved
    <3>3. Saved' = found
      BY <3>2 DEF TypeInv, State
    <3>4. ~torn' => Saved' = saved'
      BY <1>3, <2>1, <2>2, <2>5, <3>3, DecodeSaved
    <3>5. QED  BY <1>4, <2>2, <3>1, <3>4
  <2>6. QED  BY <1>13, <2>3, <2>4, <2>5 DEF Restore
<1>14. ASSUME NEW r \in Requests \cup {Me}, NEW p, Goto(r, p), p # "write", at[r] # "write"
       PROVE  Writing' <=> Writing
  <2>1. /\ DOMAIN at' = DOMAIN at /\ at'[r] = p
        /\ \A q \in DOMAIN at : q # r => at'[q] = at[q]
    BY <1>1, <1>14, GotoIs
  <2>2. \A q \in DOMAIN at : at'[q] = "write" <=> at[q] = "write"
    BY <1>1, <1>14, <2>1
  <2>3. QED  BY <2>1, <2>2 DEF Writing
<1>15. ASSUME NEW r \in Requests, CheckNetwork(r)
       PROVE  KeptInv'
  <2>1. /\ at[r] = "idle" /\ \E p \in {"refused", "checked"} : Goto(r, p)
        /\ holder = None
        /\ UNCHANGED <<memory, main, found, holder, file, saved, torn>>
    BY <1>15 DEF CheckNetwork
  <2>2. Quiet' /\ Quiet
    BY <2>1 DEF Quiet
  <2>3. QED  BY <1>5, <1>14, <2>1, <2>2
\* The holder is at a place of its region where nothing is written.
<1>16. ASSUME NEW r \in Requests \cup {Me}, NEW p \in {"send", "create"}, Goto(r, p),
              at[r] # "write", ~Writing, main = "run",
              main' = main, holder' = r, UNCHANGED <<file, saved, torn>>
       PROVE  KeptInv'
  <2>1. ~Writing'
    BY <1>14, <1>16
  <2>2. ~torn' => FileIsSaved'
    BY <1>3, <1>16 DEF FileIsSaved
  <2>3. at'[holder'] = p /\ holder' # None
    BY <1>1, <1>16, GotoIs, NoneAssumption
  <2>4. ~Quiet'
    BY <2>3 DEF Quiet
  <2>5. QED  BY <1>4, <1>16, <2>1, <2>2, <2>4
<1>17. ASSUME made, early' = early + IF main \in Startup \ {"make"} THEN 1 ELSE 0
       PROVE  main = "run"
  BY <1>1, <1>17 DEF PlaceInv
<1>18. ASSUME NEW r \in Requests, NEW m \in Messages, Handle(r, m)
       PROVE  KeptInv'
  <2>1. /\ at[r] = "checked" /\ holder = None /\ holder' = r /\ main' = main
        /\ early' = early + (IF main \in Startup \ {"make"} THEN 1 ELSE 0)
        /\ UNCHANGED <<file, saved, torn>>
        /\ Goto(r, IF Notifies(m) THEN IF made THEN "send" ELSE "jammed" ELSE "create")
    BY <1>18 DEF Handle, Takes
  <2>2. main # "down" /\ ~Writing
    BY <1>1, <2>1, QuietNow DEF PlaceInv, Pending, Quiet
  <2>3. CASE made
    <3>1. \E p \in {"send", "create"} : Goto(r, p)
      BY <2>1, <2>3
    <3>2. QED  BY <1>16, <1>17, <2>1, <2>2, <2>3, <3>1
  <2>4. CASE ~made
    <3>1. main = "make" /\ Term = 0
      BY <2>1, <2>2, <2>4 DEF PlaceInv
    <3>2. m.term \in Nat /\ m.term > 0
      BY MessageTypes
    <3>3. Notifies(m)
      BY <3>1, <3>2 DEF Notifies
    <3>4. Goto(r, "jammed")
      BY <2>1, <2>4, <3>3
    <3>5. ~Writing' /\ Quiet'
      BY <1>1, <1>14, <2>1, <2>2, <3>4, GotoIs DEF Quiet
    <3>6. ~torn' => FileIsSaved'
      BY <1>3, <2>1, <2>2 DEF FileIsSaved
    <3>7. QED  BY <2>1, <3>1, <3>5, <3>6 DEF KeptInv
  <2>5. QED  BY <2>3, <2>4
<1>19. CASE StartAsCand
  <2>1. /\ made /\ holder = None /\ holder' = Me /\ main' = main
        /\ early' = early + (IF main \in Startup \ {"make"} THEN 1 ELSE 0)
        /\ UNCHANGED <<file, saved, torn>> /\ Goto(Me, "create")
    BY <1>19 DEF StartAsCand, Takes
  <2>2. ~Writing
    BY <2>1, QuietNow DEF Quiet
  <2>3. at[Me] # "write"
    BY <1>1, <2>2 DEF Writing
  <2>4. QED  BY <1>16, <1>17, <2>1, <2>2, <2>3
<1>20. ASSUME NEW r \in Requests \cup {Me}, at[r] \in {"send", "create", "write"}
       PROVE  /\ main = "run" /\ r = holder /\ holder # None
              /\ Writing <=> at[r] = "write"
  <2>1. /\ r = holder /\ holder # None /\ ~Quiet
        /\ \A q \in DOMAIN at : at[q] = "write" => q = r
    BY <1>20, BusyUp
  <2>2. QED  BY <1>1, <1>3, <1>20, <2>1 DEF Writing
<1>21. ASSUME NEW r \in Requests, SendAndConclude(r)
       PROVE  KeptInv'
  <2>1. at[r] = "send" /\ Goto(r, "create") /\ UNCHANGED <<main, holder, file, saved, torn>>
    BY <1>21 DEF SendAndConclude
  <2>2. QED  BY <1>16, <1>20, <2>1
<1>22. ASSUME NEW r \in Requests \cup {Me}, Create(r)
       PROVE  KeptInv'
  <2>1. /\ at[r] = "create" /\ Goto(r, "write") /\ file' = <<>>
        /\ UNCHANGED <<memory, main, holder, saved, torn>>
    BY <1>22 DEF Create
  <2>2. main = "run" /\ holder' = r /\ holder' # None
    BY <1>20, <2>1
  <2>3. Writing' /\ at'[r] = "write"
    BY <1>1, <2>1, GotoIs DEF Writing
  <2>4. Len(Contents) \in Nat /\ Len(Contents) >= 3
    BY <1>1, ContentsAre
  <2>5. Contents' = Contents /\ Len(file') = 0 /\ DOMAIN file' = {} /\ file' # None
    BY <2>1, <2>3 DEF Contents, PlaceInv
  <2>6. FileIsPart'
    BY <2>4, <2>5 DEF FileIsPart
  <2>7. ~Quiet'
    BY <2>2, <2>3 DEF Quiet
  <2>8. QED  BY <1>4, <2>1, <2>2, <2>3, <2>6, <2>7
<1>23. ASSUME NEW r \in Requests \cup {Me}, Write(r)
       PROVE  KeptInv'
  <2>1. /\ at[r] = "write" /\ Len(file) < Len(Contents) /\ file' = WriteNext
        /\ Len(file') = Len(Contents) => saved' = Saved
        /\ UNCHANGED <<memory, main, at, holder>>
    BY <1>23 DEF Write
  <2>2. main = "run" /\ holder = r /\ holder # None /\ Writing /\ Writing'
    BY <1>20, <2>1, <1>1 DEF Writing
  <2>3. FileIsPart
    BY <1>3, <2>2
  <2>4. /\ Len(file) \in Nat /\ Len(Contents) \in Nat /\ Len(file') = Len(file) + 1
        /\ \A k \in DOMAIN file : file'[k] = file[k]
        /\ file'[Len(file) + 1] = Contents[Len(file) + 1]
        /\ file' \in Seq(Nat \cup {NoVote}) /\ file \in Seq(Nat \cup {NoVote})
    BY <1>1, <2>1, <2>3, WriteShape, ContentsAre DEF FileIsPart, FileShape
  <2>5. Contents' = Contents /\ Saved' = Saved /\ file' # None
    BY <2>1, <2>2 DEF Contents, Saved, PlaceInv
  <2>6. ASSUME NEW k \in DOMAIN file'
        PROVE  file'[k] = Contents[k]
    <3>1. k \in DOMAIN file \/ k = Len(file) + 1
      BY <2>4
    <3>2. QED  BY <2>3, <2>4, <3>1 DEF FileIsPart
  <2>7. FileIsPart'
    BY <2>1, <2>4, <2>5, <2>6 DEF FileIsPart
  <2>8. ~Quiet'
    BY <2>1, <2>2 DEF Quiet
  <2>9. QED  BY <1>4, <2>1, <2>2, <2>7, <2>8
<1>24. ASSUME NEW r \in Requests \cup {Me}, Finish(r)
       PROVE  KeptInv'
  <2>1. /\ at[r] = "write" /\ Len(file) >= Len(Contents)
        /\ holder' = None
        /\ UNCHANGED <<memory, main, file, saved>>
    BY <1>24 DEF Finish, EndRegion
  <2>2. main = "run" /\ Writing
    BY <1>20, <2>1
  <2>3. saved = Saved /\ FileIsSaved
    BY <1>3, <2>1, <2>2, PartIsWhole
  <2>4. Saved' = saved' /\ FileIsSaved'
    BY <2>1, <2>3 DEF Saved, FileIsSaved
  <2>5. ~Writing'
    BY <2>1, QuietNext DEF Quiet
  <2>6. QED  BY <1>4, <2>1, <2>2, <2>4, <2>5
<1>25. ASSUME NEW r \in Requests \cup {Me}, PersistFails(r)
       PROVE  KeptInv'
  <2>1. at[r] \in {"create", "write"} /\ holder' = None /\ torn' /\ main' = main
    BY <1>25 DEF PersistFails, EndRegion
  <2>2. main' = "run" /\ ~Writing'
    BY <1>20, <2>1, QuietNext DEF Quiet
  <2>3. QED  BY <1>4, <2>1, <2>2
<1>26. CASE Crash
  <2>1. /\ main' = "down" /\ holder' = None /\ UNCHANGED <<file, saved>>
        /\ torn' = (torn \/ \E r \in DOMAIN at : at[r] = "write" /\ Len(file) < Len(Contents))
    BY <1>26 DEF Crash
  <2>2. ~Writing' /\ Quiet'
    BY <2>1, QuietNext DEF Quiet
  <2>3. ASSUME ~torn'
        PROVE  FileIsSaved
    <3>1. CASE Writing
      <4>1. FileIsPart /\ ~(Len(file) < Len(Contents))
        BY <1>3, <2>1, <2>3, <3>1 DEF Writing
      <4>2. Len(file) \in Nat /\ Len(Contents) \in Nat
        BY <1>1, <4>1, ContentsAre DEF FileIsPart, FileShape
      <4>3. QED  BY <4>1, <4>2, PartIsWhole
    <3>2. QED  BY <1>3, <2>1, <2>3, <3>1
  <2>4. ~torn' => FileIsSaved'
    BY <2>1, <2>3 DEF FileIsSaved
  <2>5. QED  BY <2>1, <2>2, <2>4 DEF KeptInv
<1>27. QED
  BY <1>7, <1>10, <1>12, <1>13, <1>15, <1>18, <1>19, <1>21, <1>22, <1>23, <1>24, <1>25, <1>26
  DEF Next, Starts, Persisting, Serves
-----------------------------------------------------------------------------
\* Votes.

\* Each step keeps the votes' part of the invariant.
LEMMA VotesStep ==
  ASSUME TypeInv, TypeInv', PlaceInv, PlaceInv', KeptInv, VotesInv, [Next]_vars
  PROVE  VotesInv'
<1>. USE DEF memory, bootVars, taskVars, histVars
<1>1. /\ TypeOK /\ DOMAIN at = Requests \cup {Me} /\ DOMAIN at' = Requests \cup {Me}
      /\ file # None => FileShape(file)
      /\ early \in Nat /\ lost \in BOOLEAN
      /\ main \in {"down", "run"} \cup Startup
      /\ Term \in Nat /\ VotedFor \in Voters /\ Log \in Seq(Entry)
      /\ reply # None => reply \in Vote
      /\ \A r \in DOMAIN at : at[r] = "send" => args \in Messages
  BY DEF TypeInv, TypeOK, Voters
<1>2. (lost => lost') /\ (early # 0 => early' # 0)
  BY <1>1, WindowsStay
<1>. SUFFICES ASSUME ~lost', early' = 0
              PROVE  VotesInv'
  BY DEF VotesInv
<1>3. /\ \A v \in votes : v.asked <= v.term
      /\ \A v, w \in votes : v.term = w.term => v.to = w.to
      /\ file = None => votes = {}
      /\ file # None /\ ~(Writing /\ file = <<>>) =>
            \A v \in votes : v.term < Item(file, 1)
                               \/ (v.term = Item(file, 1) /\ Item(file, 2) # NoVote)
      /\ main = "run" =>
            \A v \in votes : v.term < Term \/ (v.term = Term /\ VotedFor # NoVote)
      /\ \A r \in DOMAIN at : at[r] = "send" =>
            /\ args.term = Term
            /\ args.job = "RequestVote" => \A v \in votes : v.term < Term
      /\ reply # None =>
            /\ reply.term = Term /\ reply.to = VotedFor /\ reply.asked <= Term
            /\ \A v \in votes : v.term < Term
  BY <1>2 DEF VotesInv, Bars
<1>4. \A v \in votes : v.term \in Nat /\ v.asked \in Nat
  BY DEF TypeInv, Vote
<1>5. /\ main # "run" => Quiet
      /\ main \in {"term", "vote", "log"} => file # None /\ found = Decode(file)
      /\ main \in {"vote", "log"} => Term = found.term
      /\ main = "log" => VotedFor = found.vote
      /\ Writing => FileIsPart
  BY <1>2 DEF KeptInv
\* A step that changes neither the file nor the votes.
<1>6. ASSUME UNCHANGED <<votes, file>>, Writing => Writing',
             main' = "run" =>
                \A v \in votes : v.term < Term' \/ (v.term = Term' /\ VotedFor' # NoVote),
             \A r \in DOMAIN at' : at'[r] = "send" =>
                /\ args'.term = Term'
                /\ args'.job = "RequestVote" => \A v \in votes : v.term < Term',
             reply' # None =>
                /\ reply'.term = Term' /\ reply'.to = VotedFor' /\ reply'.asked <= Term'
                /\ \A v \in votes : v.term < Term'
      PROVE  VotesInv'
  BY <1>3, <1>6 DEF VotesInv, Bars
\* One after which nobody is at work.
<1>7. ASSUME UNCHANGED <<votes, file>>, ~Writing, Quiet',
             main' = "run" =>
                \A v \in votes : v.term < Term' \/ (v.term = Term' /\ VotedFor' # NoVote)
      PROVE  VotesInv'
  <2>1. reply' = None /\ \A r \in DOMAIN at' : at'[r] # "send"
    BY <1>7, QuietNext
  <2>2. QED  BY <1>6, <1>7, <2>1
<1>8. CASE UNCHANGED <<memory, main, at, args, reply, file, votes>>
  <2>1. Writing' <=> Writing
    BY <1>8 DEF Writing
  <2>2. QED  BY <1>3, <1>6, <1>8, <2>1
<1>9. ASSUME main # "run", UNCHANGED <<holder, at>>
      PROVE  Quiet' /\ ~Writing
  BY <1>5, <1>9, QuietNow DEF Quiet
<1>10. CASE Setup \/ MakeRun
  <2>1. main # "run" /\ main' # "run" /\ UNCHANGED <<holder, at, votes, file>>
    BY <1>10 DEF Setup, MakeRun
  <2>2. QED  BY <1>7, <1>9, <2>1
<1>11. CASE ReadPersistRun
  <2>1. /\ main = "read" /\ UNCHANGED <<holder, at, votes, file>>
        /\ file # None => main' = "term"
    BY <1>11 DEF ReadPersistRun
  <2>2. QED  BY <1>3, <1>7, <1>9, <2>1
<1>12. CASE Restore
  <2>1. /\ main # "run" /\ UNCHANGED <<holder, at, votes, file>>
        /\ main # "log" => main' # "run"
        /\ main = "log" => UNCHANGED <<Term, VotedFor>>
    BY <1>12 DEF Restore
  <2>2. ASSUME main = "log"
        PROVE  Term' = Item(file, 1) /\ VotedFor' = Item(file, 2) /\ file # None
    BY <1>5, <2>1, <2>2 DEF Decode
  <2>3. QED  BY <1>3, <1>7, <1>9, <2>1, <2>2
<1>13. CASE Crash
  <2>1. /\ main' = "down" /\ holder' = None /\ UNCHANGED <<votes, file>>
        /\ lost' = (lost \/ ((\E r \in DOMAIN at : at[r] = "write" /\ Len(file) < Len(Contents))
                               /\ file = <<>>))
    BY <1>13 DEF Crash
  <2>2. ~(Writing /\ file = <<>>)
    <3>1. SUFFICES ASSUME Writing, file = <<>>
                   PROVE  FALSE
      OBVIOUS
    <3>2. Len(file) < Len(Contents)
      BY <1>1, <3>1, ContentsAre
    <3>3. QED  BY <2>1, <3>1, <3>2 DEF Writing
  <2>3. reply' = None /\ ~Writing' /\ \A r \in DOMAIN at' : at'[r] # "send"
    BY <2>1, QuietNext DEF Quiet
  <2>4. QED  BY <1>3, <2>1, <2>2, <2>3 DEF VotesInv, Bars
<1>14. ASSUME NEW r \in Requests, CheckNetwork(r)
       PROVE  VotesInv'
  <2>1. /\ holder = None /\ UNCHANGED <<memory, main, holder, votes, file>>
    BY <1>14 DEF CheckNetwork
  <2>2. ~Writing /\ Quiet'
    BY <2>1, QuietNow DEF Quiet
  <2>3. QED  BY <1>3, <1>7, <2>1, <2>2
<1>15. ASSUME NEW r \in Requests \cup {Me}, NEW p, Goto(r, p), p # "send", holder \in {None, r}
       PROVE  \A q \in DOMAIN at' : at'[q] # "send"
  <2>1. /\ DOMAIN at' = DOMAIN at /\ at'[r] = p
        /\ \A q \in DOMAIN at : q # r => at'[q] = at[q]
    BY <1>1, <1>15, GotoIs
  <2>2. \A q \in DOMAIN at : at[q] = "send" => q = r
    BY <1>1, <1>15, HolderOnly
  <2>3. QED  BY <1>15, <2>1, <2>2
<1>16. ASSUME made, early' = early + IF main \in Startup \ {"make"} THEN 1 ELSE 0
       PROVE  main = "run"
  BY <1>1, <1>16 DEF PlaceInv
<1>17. ASSUME NEW r \in Requests, NEW m \in Messages, Handle(r, m)
       PROVE  VotesInv'
  <2>1. /\ at[r] = "checked" /\ holder = None /\ holder' = r /\ main' = main
        /\ early' = early + (IF main \in Startup \ {"make"} THEN 1 ELSE 0)
        /\ UNCHANGED <<votes, file>>
    BY <1>17 DEF Handle, Takes
  <2>2. ~Writing /\ reply = None /\ main # "down"
    BY <1>1, <2>1, QuietNow DEF Quiet, PlaceInv, Pending
  <2>3. m.term \in Nat /\ m.term > 0
    BY MessageTypes
  <2>4. CASE ~made
    <3>1. main = "make" /\ Term = 0
      BY <2>1, <2>2, <2>4 DEF PlaceInv
    <3>2. Goto(r, "jammed")
      <4>1. Notifies(m)
        BY <2>3, <3>1 DEF Notifies
      <4>2. QED  BY <1>17, <2>4, <4>1 DEF Handle
    <3>3. Quiet'
      BY <1>1, <2>1, <3>2, GotoIs DEF Quiet
    <3>4. QED  BY <1>7, <2>1, <2>2, <3>1, <3>3
  <2>5. CASE made /\ Notifies(m)
    <3>1. main = "run"
      BY <1>16, <2>1, <2>5
    <3>2. Term' = m.term /\ args' = m /\ UNCHANGED <<VotedFor, reply>>
      BY <1>17, <2>5 DEF Handle
    <3>3. /\ m.term >= Term
          /\ m.job = "RequestVote" => m.term > Term
      BY <1>1, <2>3, <2>5 DEF Notifies
    <3>4. /\ \A v \in votes : v.term < Term' \/ (v.term = Term' /\ VotedFor' # NoVote)
          /\ m.job = "RequestVote" => \A v \in votes : v.term < Term'
      BY <1>1, <1>3, <1>4, <2>3, <3>1, <3>2, <3>3
    <3>5. QED  BY <1>6, <2>1, <2>2, <3>2, <3>4
  <2>6. CASE made /\ ~Notifies(m)
    <3>1. main = "run"
      BY <1>16, <2>1, <2>6
    <3>2. /\ \E good : Concludes(m, FALSE, good)
          /\ Goto(r, "create") /\ UNCHANGED <<Term, args>>
      BY <1>17, <2>6 DEF Handle
    <3>3. /\ reply' # None =>
                /\ reply' = [asked |-> m.term, term |-> Term, to |-> VotedFor']
                /\ m.job = "RequestVote" /\ VotedFor = NoVote
          /\ VotedFor' = VotedFor \/ VotedFor = NoVote
      BY <1>1, <3>2, ConcludesTypes
    <3>4. reply' # None =>
             /\ reply'.term = Term' /\ reply'.to = VotedFor' /\ reply'.asked <= Term'
             /\ \A v \in votes : v.term < Term'
      BY <1>1, <1>3, <2>3, <2>6, <3>1, <3>2, <3>3 DEF Notifies
    <3>5. \A v \in votes : v.term < Term' \/ (v.term = Term' /\ VotedFor' # NoVote)
      BY <1>3, <3>1, <3>2, <3>3
    <3>6. \A q \in DOMAIN at' : at'[q] # "send"
      BY <1>15, <2>1, <3>2
    <3>7. QED  BY <1>6, <2>1, <2>2, <3>4, <3>5, <3>6
  <2>7. QED  BY <2>4, <2>5, <2>6
<1>18. ASSUME NEW r \in Requests \cup {Me}, at[r] \in {"send", "create", "write"}
       PROVE  /\ main = "run" /\ holder = r /\ (Writing <=> at[r] = "write")
              /\ \A v \in votes : v.term < Term \/ (v.term = Term /\ VotedFor # NoVote)
  <2>1. /\ r = holder /\ ~Quiet
        /\ \A q \in DOMAIN at : at[q] = "write" => q = r
    BY <1>18, BusyUp
  <2>2. QED  BY <1>1, <1>3, <1>5, <1>18, <2>1 DEF Writing
<1>19. ASSUME NEW r \in Requests, SendAndConclude(r)
       PROVE  VotesInv'
  <2>1. /\ at[r] = "send" /\ Goto(r, "create") /\ Concludes(args, TRUE, upToDate)
        /\ UNCHANGED <<Term, main, votes, file>>
    BY <1>19 DEF SendAndConclude
  <2>2. holder = r /\ ~Writing /\ args \in Messages
    BY <1>1, <1>18, <2>1
  <2>3. /\ reply' # None =>
              /\ reply' = [asked |-> args.term, term |-> Term, to |-> VotedFor']
              /\ args.job = "RequestVote"
        /\ VotedFor' = VotedFor \/ args.job = "RequestVote"
    BY <1>1, <2>1, <2>2, ConcludesTypes
  <2>4. \A q \in DOMAIN at' : at'[q] # "send"
    BY <1>15, <2>1, <2>2
  <2>5. args.term = Term /\ (args.job = "RequestVote" => \A v \in votes : v.term < Term)
    BY <1>1, <1>3, <2>1
  <2>6. reply' # None =>
           /\ reply'.term = Term' /\ reply'.to = VotedFor' /\ reply'.asked <= Term'
           /\ \A v \in votes : v.term < Term'
    BY <1>1, <2>1, <2>3, <2>5
  <2>7. \A v \in votes : v.term < Term' \/ (v.term = Term' /\ VotedFor' # NoVote)
    BY <1>18, <2>1, <2>3, <2>5
  <2>8. QED  BY <1>6, <2>1, <2>2, <2>4, <2>6, <2>7
<1>20. CASE StartAsCand
  <2>1. /\ made /\ holder = None /\ Goto(Me, "create") /\ main' = main
        /\ early' = early + (IF main \in Startup \ {"make"} THEN 1 ELSE 0)
        /\ Term' = Term + 1 /\ VotedFor' = Me
        /\ reply' = [asked |-> Term + 1, term |-> Term + 1, to |-> Me]
        /\ UNCHANGED <<votes, file>>
    BY <1>20 DEF StartAsCand, Takes
  <2>2. main = "run" /\ ~Writing
    BY <1>16, <2>1, QuietNow DEF Quiet
  <2>3. \A v \in votes : v.term < Term'
    BY <1>1, <1>3, <1>4, <2>1, <2>2
  <2>4. \A q \in DOMAIN at' : at'[q] # "send"
    BY <1>15, <2>1
  <2>5. reply'.term = Term' /\ reply'.to = VotedFor' /\ reply'.asked <= Term'
    BY <1>1, <2>1
  <2>6. QED  BY <1>6, <2>1, <2>2, <2>3, <2>4, <2>5
<1>21. ASSUME NEW r \in Requests \cup {Me}, Create(r)
       PROVE  VotesInv'
  <2>1. /\ at[r] = "create" /\ Goto(r, "write") /\ file' = <<>>
        /\ UNCHANGED <<Term, VotedFor, main, reply, votes>>
    BY <1>21 DEF Create
  <2>2. holder = r
    BY <1>18, <2>1
  <2>3. \A q \in DOMAIN at' : at'[q] # "send"
    BY <1>15, <2>1, <2>2
  <2>4. Writing' /\ file' # None
    BY <1>1, <2>1, GotoIs DEF Writing, PlaceInv
  <2>5. QED  BY <1>3, <2>1, <2>3, <2>4 DEF VotesInv, Bars
\* The term first, then the vote: a file that has the term of memory bars as memory does.
<1>22. ASSUME NEW f, FileShape(f), f # <<>>, f[1] = Term,
              Len(f) >= 2 => f[2] = VotedFor,
              NEW v \in votes
       PROVE  v.term < Item(f, 1) \/ (v.term = Item(f, 1) /\ Item(f, 2) # NoVote)
                <=> v.term < Term \/ (v.term = Term /\ (Len(f) >= 2 => VotedFor # NoVote))
  <2>1. Len(f) \in Nat /\ Len(f) >= 1
    BY <1>22 DEF FileShape
  <2>2. Item(f, 1) = Term /\ Item(f, 2) = (IF Len(f) >= 2 THEN VotedFor ELSE 0)
    BY <1>22, <2>1 DEF Item
  <2>3. QED  BY <2>2 DEF NoVote
<1>23. ASSUME NEW r \in Requests \cup {Me}, Write(r)
       PROVE  VotesInv'
  <2>1. /\ at[r] = "write" /\ Len(file) < Len(Contents) /\ file' = WriteNext
        /\ UNCHANGED <<memory, main, at, args, reply, votes>>
    BY <1>23 DEF Write
  <2>2. Writing /\ FileIsPart
    BY <1>1, <1>5, <2>1 DEF Writing
  <2>3. /\ FileShape(file') /\ Len(file') = Len(file) + 1 /\ Len(file) \in Nat
        /\ \A k \in DOMAIN file : file'[k] = file[k]
        /\ file'[Len(file) + 1] = Contents[Len(file) + 1]
        /\ DOMAIN file = 1 .. Len(file)
    BY <1>1, <2>1, <2>2, WriteShape DEF FileIsPart, FileShape
  <2>4. Contents[1] = Term /\ Contents[2] = VotedFor
    BY <1>1, ContentsAre
  <2>5. file'[1] = Term /\ (Len(file') >= 2 => file'[2] = VotedFor)
    BY <2>2, <2>3, <2>4 DEF FileIsPart
  <2>6. file' # <<>> /\ file' # None
    BY <2>3, NoneIsNone
  <2>7. \A v \in votes : v.term < Item(file', 1)
                           \/ (v.term = Item(file', 1) /\ Item(file', 2) # NoVote)
    BY <1>18, <1>22, <2>1, <2>3, <2>5, <2>6
  <2>8. QED  BY <1>3, <2>1, <2>6, <2>7 DEF VotesInv, Bars
<1>24. ASSUME NEW r \in Requests \cup {Me}, Finish(r) \/ PersistFails(r)
       PROVE  VotesInv'
  <2>1. /\ at[r] \in {"create", "write"} /\ EndRegion(r)
        /\ at[r] = "write" /\ file # <<>>
    <3>1. CASE Finish(r)
      <4>1. Len(Contents) >= 3
        BY <1>1, ContentsAre
      <4>2. QED  BY <3>1, <4>1 DEF Finish
    <3>2. CASE PersistFails(r)
      BY <3>2 DEF PersistFails
    <3>3. QED  BY <1>24, <3>1, <3>2
  <2>2. /\ holder' = None /\ UNCHANGED <<memory, main, file>>
        /\ votes' = (IF reply # None THEN votes \cup {reply} ELSE votes)
    BY <2>1 DEF EndRegion
  <2>3. Writing /\ FileIsPart /\ main = "run"
    BY <1>1, <1>5, <1>18, <2>1 DEF Writing
  <2>4. /\ FileShape(file) /\ Len(file) \in Nat /\ DOMAIN file = 1 .. Len(file)
        /\ Len(file) >= 1
    BY <1>1, <2>1, <2>3 DEF FileIsPart, FileShape
  <2>5. file[1] = Term /\ (Len(file) >= 2 => file[2] = VotedFor)
    <3>1. Contents[1] = Term /\ Contents[2] = VotedFor
      BY <1>1, ContentsAre
    <3>2. QED  BY <2>3, <2>4, <3>1 DEF FileIsPart
  <2>6. Item(file, 1) = Term /\ Item(file, 2) = (IF Len(file) >= 2 THEN VotedFor ELSE 0)
    BY <2>4, <2>5 DEF Item
  <2>7. reply' = None /\ ~Writing' /\ \A q \in DOMAIN at' : at'[q] # "send"
    BY <2>2, QuietNext DEF Quiet
  <2>8. CASE reply = None
    <3>1. votes' = votes
      BY <2>2, <2>8
    <3>2. QED  BY <1>3, <1>18, <2>1, <2>2, <2>3, <2>6, <2>7, <3>1 DEF VotesInv, Bars, NoVote
  <2>9. CASE reply # None
    <3>1. /\ votes' = votes \cup {reply} /\ reply.asked <= reply.term
          /\ reply.term = Term /\ reply.to = VotedFor /\ reply.to # NoVote
          /\ \A v \in votes : v.term < Term
      BY <1>1, <1>3, <2>2, <2>9 DEF Vote
    <3>2. \A v \in votes' : /\ v.asked <= v.term
                            /\ v.term < Term \/ v = reply
      BY <1>3, <3>1
    <3>3. ASSUME NEW v \in votes', NEW w \in votes', v.term = w.term
          PROVE  v.to = w.to
      BY <1>1, <1>3, <1>4, <3>1, <3>3
    <3>4. \A v \in votes' : v.term < Term \/ v.term = Term
      BY <3>1, <3>2
    <3>5. VotedFor # NoVote /\ Item(file, 2) # NoVote
      BY <2>6, <3>1 DEF NoVote
    <3>6. file' # None
      BY <2>2, <2>4, NoneIsNone
    <3>7. QED  BY <2>2, <2>6, <2>7, <3>2, <3>3, <3>4, <3>5, <3>6 DEF VotesInv, Bars
  <2>10. QED  BY <2>8, <2>9
<1>25. CASE DrainHB \/ UNCHANGED vars \/ \E n \in {"Connect", "Disconnect"} : SetNetwork(n)
  BY <1>8, <1>25 DEF DrainHB, SetNetwork, vars
<1>26. QED
  BY <1>10, <1>11, <1>12, <1>13, <1>14, <1>17, <1>19, <1>20, <1>21, <1>23, <1>24, <1>25
  DEF Next, Starts, Persisting, Serves
-----------------------------------------------------------------------------
\* The theorems.

\* The inductive invariant of a server in run mode: types, places, file and votes.
THEOREM RunCorrect == Spec => []RunInv
<1>1. Init => RunInv
  BY RunInit
<1>2. RunInv /\ [Next]_vars => RunInv'
  <2>1. SUFFICES ASSUME RunInv, [Next]_vars
                 PROVE  RunInv'
    OBVIOUS
  <2>2. TypeInv'
    BY <2>1, TypeStep DEF RunInv
  <2>3. PlaceInv'
    BY <2>1, <2>2, PlaceStep DEF RunInv
  <2>4. KeptInv'
    BY <2>1, <2>2, <2>3, KeptStep DEF RunInv
  <2>5. VotesInv'
    BY <2>1, <2>2, <2>3, VotesStep DEF RunInv
  <2>6. QED  BY <2>2, <2>3, <2>4, <2>5 DEF RunInv
<1>3. QED  BY <1>1, <1>2, PTL DEF Spec

\* Requests, the campaign, the start and the crashes of a run-mode server keep every
\* variable in its type, and one task at most inside rf.mu.
THEOREM RunModeTypes == Spec => []TypeOK
<1>1. RunInv => TypeOK
  BY DEF RunInv, TypeInv
<1>2. QED  BY <1>1, RunCorrect, PTL

\* Over any number of crashes, starts and failed writes, readPersistRun restores what the
\* last complete persist() wrote and a server that is up keeps it in its file, unless the
\* last persist() that ended was not complete or rf.mu was taken during a start.
THEOREM RestoredIsSaved == Spec => []RestoredAsSaved
<1>1. RunInv => RestoredAsSaved
  <2>1. SUFFICES ASSUME RunInv, main = "run", Quiet, ~torn, early = 0
                 PROVE  Saved = saved /\ (file # None => Decode(file) = saved)
    BY DEF RestoredAsSaved, Quiet
  <2>2. ~Writing
    BY <2>1, QuietNow DEF RunInv
  <2>3. Saved = saved /\ FileIsSaved
    BY <2>1, <2>2 DEF RunInv, KeptInv
  <2>4. QED  BY <2>1, <2>3, DecodeSaved DEF RunInv
<1>2. QED  BY <1>1, RunCorrect, PTL

\* RequestVote and startAsCand never give the votes of one term, as the answer states it,
\* to two candidates, not even before and after a crash or a failed write; and of two
\* that asked in one term, one is answered with a higher term.  Excepted are a persist()
\* that ended before the term was in the file, and a region that ran during a start.
THEOREM VotesOncePerTerm == Spec => []OneVotePerTerm
<1>1. RunInv => OneVotePerTerm
  <2>1. SUFFICES ASSUME RunInv, ~lost, ~(early > 0),
                        NEW v \in votes, NEW w \in votes, v.to # w.to
                 PROVE  /\ v.term # w.term
                        /\ v.asked = w.asked => v.term > v.asked \/ w.term > w.asked
    BY DEF OneVotePerTerm
  <2>2. early = 0 /\ v \in Vote /\ w \in Vote
    BY <2>1 DEF RunInv, TypeInv, TypeOK
  <2>3. v.term # w.term /\ v.asked <= v.term /\ w.asked <= w.term
    BY <2>1, <2>2 DEF RunInv, VotesInv
  <2>4. QED  BY <2>2, <2>3 DEF Vote
<1>2. QED  BY <1>1, RunCorrect, PTL
=============================================================================
