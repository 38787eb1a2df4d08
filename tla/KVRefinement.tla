-------------------------- MODULE KVRefinement --------------------------
(***************************************************************************)
(* The key/value service implements the atomic store, for any number of    *)
(* servers and clerks: an operation takes effect with the first commit of  *)
(* its command, and a Get returns what its key held at some time since its *)
(* call.                                                                   *)
(***************************************************************************)
EXTENDS KVProofs

-----------------------------------------------------------------------------
\* A call that is open is not the absence of a call.
LEMMA PendingOpen ==
    ASSUME ServiceInv, NEW c \in Clients
    PROVE  /\ Pending[c] = NoOp <=> ~IsOpen(c)
           /\ IsOpen(c) => /\ Pending[c].task = op[c].task /\ Pending[c].key = op[c].key
                           /\ Pending[c].value = Tag(op[c])
<1>1. CASE IsOpen(c)
  <2>1. op[c] \in Op
    BY <1>1, OpenKnown
  <2>2. op[c].task # "none"
    BY <2>1, TasksAssumption DEF Op
  <2>3. Pending[c] = [task |-> op[c].task, key |-> op[c].key, value |-> Tag(op[c])]
    BY <1>1 DEF Pending
  <2>4. Pending[c].task # NoOp.task
    BY <2>2, <2>3 DEF NoOp
  <2> QED
    BY <1>1, <2>3, <2>4
<1>2. CASE ~IsOpen(c)
  BY <1>2 DEF Pending
<1> QED
  BY <1>1, <1>2

\* The initial states are initial states of the atomic store.
LEMMA InitAtomic == Init => Atomic!Init
<1> SUFFICES ASSUME Init PROVE Atomic!Init
  OBVIOUS
<1>1. \A c \in Clients : ~IsOpen(c)
  BY DEF Init, IsOpen
<1>2. Pending = [c \in Clients |-> NoOp] /\ Effective = [c \in Clients |-> FALSE]
      /\ Seen = [c \in Clients |-> {}]
  BY <1>1 DEF Pending, Effective, Seen
<1>3. versions[Len(versions)] = [k \in Keys |-> <<>>] /\ answer = [c \in Clients |-> <<>>]
  BY DEF Init, Empty
<1> QED
  BY <1>2, <1>3 DEF Atomic!Init

\* The store grows by whole versions; what a call may see is never empty.
LEMMA SeenLast ==
    ASSUME ServiceInv, NEW c \in Clients, IsOpen(c)
    PROVE  /\ since[c] \in Nat /\ since[c] + 1 \in 1..Len(versions)
           /\ versions[Len(versions)] \in {versions[k] : k \in since[c] + 1 .. Len(versions)}
<1>1. /\ since[c] \in Nat /\ since[c] <= Len(log) /\ Len(log) \in Nat
      /\ Len(versions) = Len(log) + 1
  BY DEF ServiceInv, TypeOK, PrefixesApplied, CallsCurrent
<1> QED
  BY <1>1

\* Invoke is the call of the operation.
LEMMA InvokeCalls ==
    ASSUME ServiceInv, NEW c \in Clients, Invoke(c)
    PROVE  Atomic!Call(c)
<1>0. TypeOK /\ PrefixesApplied /\ CommandsKnown
  BY DEF ServiceInv
<1>1. /\ TypeOK /\ Len(log) \in Nat /\ Len(versions) = Len(log) + 1
  <2>1. Len(log) \in Nat
    BY <1>0 DEF TypeOK
  <2> QED
    BY <1>0, <2>1 DEF PrefixesApplied
<1>2. issued[c] + 1 \in 1..MaxOps
  BY <1>1, LimitsAssumption DEF Invoke, TypeOK
<1>3. PICK t \in Tasks, k \in Keys :
         op' = [op EXCEPT ![c] = [task |-> t, key |-> k, client |-> c, id |-> issued[c] + 1]]
  BY <1>1 DEF Invoke, TypeOK
<1>4. op'[c] = [task |-> t, key |-> k, client |-> c, id |-> issued[c] + 1]
  BY <1>1, <1>3 DEF TypeOK
<1>5. \A d \in Clients \ {c} : op'[d] = op[d] /\ phase'[d] = phase[d] /\ since'[d] = since[d]
  BY <1>1, <1>3 DEF Invoke, TypeOK
<1>6. /\ phase[c] = "idle" /\ phase'[c] = "sent" /\ since'[c] = Len(log)
      /\ log' = log /\ versions' = versions /\ answer' = answer
  BY <1>1 DEF Invoke, TypeOK, raftVars
<1> DEFINE o == [task |-> t, key |-> k, value |-> <<c, issued[c] + 1>>]
<1>7. o \in Operations
  BY <1>2 DEF Operations
<1>8. Pending' = [Pending EXCEPT ![c] = o]
  <2>1. \A d \in Clients : Pending'[d] = IF d = c THEN o ELSE Pending[d]
    BY <1>4, <1>5, <1>6 DEF Pending, IsOpen, Tag
  <2> QED
    BY <2>1 DEF Pending
<1>9. Effective' = Effective
  <2>1. ASSUME NEW j \in 1..Len(log)
        PROVE  <<log[j].client, log[j].id>> # <<c, issued[c] + 1>>
    <3>1. log[j] \in Op /\ log[j].id <= issued[log[j].client] /\ log[j].id \in Nat
      <4>1. log[j] \in Op
        BY <1>0 DEF TypeOK
      <4>2. log[j].id <= issued[log[j].client]
        BY <1>0 DEF CommandsKnown, IsKnown
      <4> QED
        BY <4>1, <4>2 DEF Op
    <3>2. issued[c] \in Nat
      BY <1>1 DEF TypeOK
    <3> QED
      BY <3>1, <3>2
  <2>2. Effective'[c] = FALSE /\ Effective[c] = FALSE
    <3>1. Tag(op'[c]) = <<c, issued[c] + 1>>
      BY <1>4 DEF Tag
    <3>2. ~\E j \in 1..Len(log') : Tag(log'[j]) = Tag(op'[c])
      BY <1>6, <2>1, <3>1 DEF Tag
    <3>3. Effective[c] = FALSE
      BY <1>6 DEF Effective, IsOpen
    <3>4. ~InLog(op[c])'
      BY <3>2 DEF InLog, Tag
    <3> QED
      BY <3>3, <3>4 DEF Effective
  <2>3. \A d \in Clients \ {c} : Effective'[d] = Effective[d]
    BY <1>5, <1>6 DEF Effective, InLog, IsOpen, Tag, IsWrite
  <2>4. \A d \in Clients : Effective'[d] = Effective[d]
    BY <2>2, <2>3
  <2> QED
    BY <2>4 DEF Effective
<1>10. Seen' = [Seen EXCEPT ![c] = {versions[Len(versions)]}]
  <2>1. {versions[n] : n \in Len(log) + 1 .. Len(versions)} = {versions[Len(versions)]}
    BY <1>1
  <2>2. Seen'[c] = {versions[Len(versions)]}
    <3>1. IsOpen(c)'
      BY <1>6 DEF IsOpen
    <3>2. Seen'[c] = {versions'[n] : n \in since'[c] + 1 .. Len(versions')}
      BY <3>1 DEF Seen
    <3>3. Seen'[c] = {versions[n] : n \in Len(log) + 1 .. Len(versions)}
      BY <1>6, <3>2
    <3> QED
      BY <2>1, <3>3
  <2>3. ASSUME NEW d \in Clients \ {c}
        PROVE  Seen'[d] = Seen[d]
    <3>1. phase'[d] = phase[d] /\ since'[d] = since[d] /\ versions' = versions
      BY <1>5, <1>6
    <3>2. IsOpen(d)' <=> IsOpen(d)
      BY <3>1 DEF IsOpen
    <3>3. CASE IsOpen(d)
      <4>1. Seen'[d] = {versions'[n] : n \in since'[d] + 1 .. Len(versions')}
        BY <3>2, <3>3 DEF Seen
      <4>2. Seen[d] = {versions[n] : n \in since[d] + 1 .. Len(versions)}
        BY <3>3 DEF Seen
      <4> QED
        BY <3>1, <4>1, <4>2
    <3>4. CASE ~IsOpen(d)
      BY <3>2, <3>4 DEF Seen
    <3> QED
      BY <3>3, <3>4
  <2>4. /\ Seen = [d \in Clients |-> Seen[d]]
        /\ Seen' = [d \in Clients |-> Seen'[d]]
    BY DEF Seen
  <2> QED
    BY <2>2, <2>3, <2>4
<1>11. Pending[c] = NoOp
  BY <1>6 DEF Pending, IsOpen
<1> QED
  BY <1>6, <1>7, <1>8, <1>9, <1>10, <1>11 DEF Atomic!Call

\* Return is the return of the operation.
LEMMA ReturnReturns ==
    ASSUME ServiceInv, NEW c \in Clients, Return(c)
    PROVE  Atomic!Return(c)
<1>1. phase[c] = "done" /\ IsOpen(c) /\ TypeOK
  BY DEF Return, IsOpen, ServiceInv
<1>2. /\ \A d \in Clients \ {c} : phase'[d] = phase[d]
      /\ phase'[c] = "idle" /\ answer' = [answer EXCEPT ![c] = value[c]]
      /\ UNCHANGED <<op, log, versions, since>>
  BY <1>1 DEF Return, TypeOK, raftVars, historyVars
<1>3. Pending[c] # NoOp /\ Pending[c].task = op[c].task /\ Pending[c].key = op[c].key
  BY <1>1, PendingOpen
<1>4. Pending' = [Pending EXCEPT ![c] = NoOp]
  <2>1. \A d \in Clients : Pending'[d] = IF d = c THEN NoOp ELSE Pending[d]
    BY <1>2 DEF Pending, IsOpen
  <2> QED
    BY <2>1 DEF Pending
<1>5. Effective' = [Effective EXCEPT ![c] = FALSE]
  <2>1. \A d \in Clients : Effective'[d] = IF d = c THEN FALSE ELSE Effective[d]
    BY <1>2 DEF Effective, IsOpen, InLog, Tag, IsWrite
  <2> QED
    BY <2>1 DEF Effective
<1>6. Seen' = [Seen EXCEPT ![c] = {}]
  <2>1. \A d \in Clients : Seen'[d] = IF d = c THEN {} ELSE Seen[d]
    BY <1>2 DEF Seen, IsOpen
  <2> QED
    BY <2>1 DEF Seen
<1>7. IF Pending[c].task \in {"Put", "Append"}
      THEN Effective[c] /\ answer' = [answer EXCEPT ![c] = <<>>]
      ELSE \E st \in Seen[c] : answer' = [answer EXCEPT ![c] = st[Pending[c].key]]
  <2>1. /\ InLog(op[c])
        /\ IF IsWrite(op[c]) THEN value[c] = <<>>
           ELSE \E k \in since[c] + 1 .. Len(versions) : value[c] = versions[k][op[c].key]
    BY <1>1 DEF ServiceInv, AnswersSeen
  <2>2. CASE IsWrite(op[c])
    BY <1>1, <1>2, <1>3, <2>1, <2>2 DEF Effective, IsWrite
  <2>3. CASE ~IsWrite(op[c])
    <3>1. PICK k \in since[c] + 1 .. Len(versions) : value[c] = versions[k][op[c].key]
      BY <2>1, <2>3
    <3>2. versions[k] \in Seen[c]
      BY <1>1 DEF Seen
    <3> QED
      BY <1>2, <1>3, <2>3, <3>1, <3>2 DEF IsWrite
  <2> QED
    BY <2>2, <2>3
<1>8. versions'[Len(versions')] = versions[Len(versions)]
  BY <1>2
<1> QED
  BY <1>3, <1>4, <1>5, <1>6, <1>7, <1>8 DEF Atomic!Return, Atomic!IsWrite

\* A commit is a write taking effect, if it is the first of an open write, and
\* changes nothing otherwise.
LEMMA CommitTakesEffect ==
    ASSUME ServiceInv, NEW e \in BagToSet(started), Commit(e)
    PROVE  Atomic!TakeEffect(e.op.client) \/ UNCHANGED Atomic!vars
<1> DEFINE o == e.op
           c == o.client
           last == versions[Len(versions)]
           new == IF InLog(o) THEN last ELSE Applied(last, o)
<1>1. /\ TypeOK /\ PrefixesApplied /\ Len(log) \in Nat /\ Len(versions) = Len(log) + 1
      /\ o \in Op /\ c \in Clients /\ last \in Store
  <2>1. TypeOK /\ PrefixesApplied
    BY DEF ServiceInv
  <2>2. Len(log) \in Nat /\ o \in Op
    BY <2>1 DEF TypeOK
  <2>3. Len(versions) = Len(log) + 1
    BY <2>1 DEF PrefixesApplied
  <2>4. versions \in Seq(Store)
    BY <2>1 DEF TypeOK
  <2>5. last \in Store
    BY <2>2, <2>3, <2>4
  <2> QED
    BY <2>1, <2>2, <2>3, <2>5 DEF Op
<1>2. /\ Len(log') = Len(log) + 1 /\ Len(versions') = Len(versions) + 1
      /\ \A k \in 1..Len(log) : log'[k] = log[k]
      /\ log'[Len(log) + 1] = o
      /\ \A k \in 1..Len(versions) : versions'[k] = versions[k]
      /\ versions'[Len(versions) + 1] = new
  BY <1>1, CommitGrows
<1>3. versions'[Len(versions')] = new
  BY <1>2
<1>4. UNCHANGED <<phase, op, since, answer>>
  BY DEF Commit, clerkVars
<1>5. Pending' = Pending
  BY <1>4 DEF Pending, IsOpen, Tag
<1>6. \A d \in Clients : Seen'[d] = IF ~IsOpen(d) THEN {} ELSE Seen[d] \cup {new}
  <2>1. ASSUME NEW d \in Clients, IsOpen(d)
        PROVE  {versions'[k] : k \in since[d] + 1 .. Len(versions')} =
               {versions[k] : k \in since[d] + 1 .. Len(versions)} \cup {new}
    <3>1. since[d] \in Nat /\ since[d] + 1 \in 1..Len(versions)
      BY <2>1, SeenLast
    <3>2. since[d] + 1 .. Len(versions') =
             (since[d] + 1 .. Len(versions)) \cup {Len(versions) + 1}
      BY <1>1, <1>2, <3>1
    <3>3. \A k \in since[d] + 1 .. Len(versions) : versions'[k] = versions[k]
      BY <1>1, <1>2, <3>1
    <3> QED
      BY <1>2, <3>2, <3>3
  <2> QED
    BY <1>4, <2>1 DEF Seen, IsOpen
<1>7. \A x : (\E k \in 1..Len(log') : Tag(log'[k]) = x)
             <=> (\E k \in 1..Len(log) : Tag(log[k]) = x) \/ x = Tag(o)
  <2>1. 1..Len(log') = (1..Len(log)) \cup {Len(log) + 1}
    BY <1>1, <1>2
  <2> QED
    BY <1>2, <2>1
<1>8. \A d \in Clients : Effective'[d] = (IsOpen(d) /\ IsWrite(op[d])
                                          /\ (InLog(op[d]) \/ Tag(op[d]) = Tag(o)))
  <2>1. \A d \in Clients : Effective'[d] = (IsOpen(d) /\ IsWrite(op[d])
            /\ \E k \in 1..Len(log') : Tag(log'[k]) = Tag(op[d]))
    BY <1>4 DEF Effective, IsOpen, IsWrite, InLog, Tag
  <2> QED
    BY <1>7, <2>1 DEF InLog
<1>9. \A d \in Clients : IsOpen(d) /\ Tag(op[d]) = Tag(o) => d = c
  <2>1. \A d \in Clients : IsOpen(d) => op[d].client = d
    BY DEF ServiceInv, CallsCurrent
  <2> QED
    BY <2>1 DEF Tag
<1>10. CASE InLog(o) \/ ~IsWrite(o)
  <2>1. new = last
    BY <1>10 DEF Applied, IsWrite
  <2>2. Seen' = Seen
    <3>1. \A d \in Clients : IsOpen(d) => last \in Seen[d]
      BY SeenLast DEF Seen
    <3>2. \A d \in Clients : ~IsOpen(d) => Seen[d] = {}
      BY DEF Seen
    <3>3. \A d \in Clients : Seen'[d] = Seen[d]
      BY <1>6, <2>1, <3>1, <3>2
    <3> QED
      BY <3>3 DEF Seen
  <2>3. ASSUME NEW d \in Clients, IsOpen(d), IsWrite(op[d]), Tag(op[d]) = Tag(o)
        PROVE  InLog(op[d])
    <3>1. CASE InLog(o)
      BY <2>3, <3>1 DEF InLog
    <3>2. CASE ~InLog(o)
      <4>1. IsKnown(o)
        BY DEF ServiceInv, CommandsKnown
      <4>2. o = op[c]
        BY <3>2, <4>1 DEF IsKnown
      <4> QED
        BY <1>9, <1>10, <2>3, <3>2, <4>2
    <3> QED
      BY <3>1, <3>2
  <2>4. Effective' = Effective
    <3>1. \A d \in Clients : Effective'[d] = Effective[d]
      BY <1>8, <2>3 DEF Effective
    <3> QED
      BY <3>1 DEF Effective
  <2> QED
    BY <1>3, <1>4, <1>5, <2>1, <2>2, <2>4 DEF Atomic!vars
<1>11. CASE ~InLog(o) /\ IsWrite(o)
  <2>1. IsOpen(c) /\ o = op[c]
    <3>1. IsKnown(o)
      BY DEF ServiceInv, CommandsKnown
    <3> QED
      BY <1>11, <3>1 DEF IsKnown
  <2>2. /\ Pending[c] # NoOp /\ Pending[c].task = o.task /\ Pending[c].key = o.key
        /\ Pending[c].value = Tag(o)
    BY <1>1, <2>1, PendingOpen
  <2>3. Effective[c] = FALSE
    BY <1>1, <1>11, <2>1 DEF Effective
  <2>4. new = [last EXCEPT ![o.key] = IF o.task = "Put" THEN <<Tag(o)>> ELSE Append(@, Tag(o))]
    <3>1. o.key \in Keys /\ last[o.key] \in Value
      BY <1>1 DEF Op, Store
    <3>2. new = Applied(last, o)
      BY <1>11
    <3>3. CASE o.task = "Put"
      BY <3>2, <3>3 DEF Applied
    <3>4. CASE o.task = "Append" /\ last[o.key] = <<>>
      <4>1. Append(last[o.key], Tag(o)) = <<Tag(o)>>
        BY <3>4
      <4> QED
        BY <3>2, <3>4, <4>1 DEF Applied
    <3>5. CASE o.task = "Append" /\ last[o.key] # <<>>
      BY <3>2, <3>5 DEF Applied
    <3> QED
      BY <1>11, <3>3, <3>4, <3>5 DEF IsWrite
  <2>5. Effective' = [Effective EXCEPT ![c] = TRUE]
    <3>1. \A d \in Clients : Effective'[d] = IF d = c THEN TRUE ELSE Effective[d]
      BY <1>8, <1>9, <1>11, <2>1 DEF Effective
    <3> QED
      BY <3>1 DEF Effective
  <2>6. Seen' = [d \in Clients |-> IF Pending[d] = NoOp THEN {} ELSE Seen[d] \cup {new}]
    <3>1. \A d \in Clients : Pending[d] = NoOp <=> ~IsOpen(d)
      BY PendingOpen
    <3>2. \A d \in Clients : Seen'[d] = IF Pending[d] = NoOp THEN {} ELSE Seen[d] \cup {new}
      BY <1>6, <3>1
    <3> QED
      BY <3>2 DEF Seen
  <2>7. Pending[c].task \in {"Put", "Append"}
    BY <1>11, <2>2 DEF IsWrite
  <2> QED
    BY <1>3, <1>4, <1>5, <2>2, <2>3, <2>4, <2>5, <2>6, <2>7
       DEF Atomic!TakeEffect, Atomic!IsWrite, Atomic!Write
<1> QED
  BY <1>10, <1>11

\* Every step of the service is a step of the atomic store, or none.
LEMMA StepAtomic ==
    ASSUME ServiceInv, [Next]_vars
    PROVE  [Atomic!Next]_(Atomic!vars)
<1>1. CASE \E c \in Clients : Invoke(c) \/ Return(c)
  BY <1>1, InvokeCalls, ReturnReturns DEF Atomic!Next
<1>2. CASE \E e \in BagToSet(started) : Commit(e)
  <2>1. PICK e \in BagToSet(started) : Commit(e)
    BY <1>2
  <2>2. e.op.client \in Clients
    BY DEF ServiceInv, TypeOK, Op
  <2> QED
    BY <2>1, <2>2, CommitTakesEffect DEF Atomic!Next
<1>3. CASE /\ UNCHANGED <<op, issued, since, answer, log, versions>>
           /\ \A c \in Clients : IsOpen(c)' <=> IsOpen(c)
  <2>1. Pending' = Pending
    BY <1>3 DEF Pending, Tag
  <2>2. Effective' = Effective
    BY <1>3 DEF Effective, InLog, Tag, IsWrite
  <2>3. Seen' = Seen
    BY <1>3 DEF Seen
  <2> QED
    BY <1>3, <2>1, <2>2, <2>3 DEF Atomic!vars
<1>4. CASE UNCHANGED vars
  BY <1>3, <1>4 DEF vars, clerkVars, raftVars, historyVars, IsOpen
<1>5. CASE Next
  BY <1>1, <1>2, <1>3, <1>5, CallsKept, LogKept DEF ServiceInv
<1> QED
  BY <1>4, <1>5

\* The service is linearizable: every behaviour of clerks, handlers, servers and
\* network is one of a store on which operations take effect at once between call
\* and return (server.go:44-135, client.go:40-97).
THEOREM ServiceLinearizable == Spec => Linearizable
<1>1. Init => Atomic!Init
  BY InitAtomic
<1>2. ServiceInv /\ [Next]_vars => [Atomic!Next]_(Atomic!vars)
  BY StepAtomic
<1> QED
  BY <1>1, <1>2, ServiceCorrect, PTL DEF Spec, Linearizable, Atomic!Spec
=============================================================================
