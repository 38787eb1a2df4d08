---------------------------- MODULE StateMachine ----------------------------
(***************************************************************************)
(* What the peers of module Raft hand to their state machines: the         *)
(* ApplyMsgs that startApply puts on the apply channel, kept as history.   *)
(***************************************************************************)
EXTENDS RaftInv

VARIABLE delivered   \* history: every ApplyMsg of every peer

machineVars == <<vars, delivered>>

\* startApply sends the entries from LastApply to the commit index, each with the
\* command the log holds at that moment; LastApply never goes back but by a restart.
ApplyMsgs(i) ==
    {[server |-> i, index |-> k, cmd |-> Log'[i][k].cmd] : k \in LastApply[i] + 1 .. LastApply'[i]}

MachineInit == Init /\ delivered = {}

MachineNext ==
    /\ Next
    /\ delivered' = delivered \cup UNION {ApplyMsgs(i) : i \in Server}

MachineSpec == MachineInit /\ [][MachineNext]_machineVars
-----------------------------------------------------------------------------
\* While only one leadership has begun, whatever a peer hands to its state machine
\* is what the leader's log holds there, although appends arrive late and cut what
\* was applied, and commit indexes go back (handler.go:48-60, raft.go:384-397).
OneReignOneHistory ==
    \A e \in elected, d \in delivered :
        elected = {e} => /\ d.index <= Len(Log[e[2]])
                         /\ d.cmd = Log[e[2]][d.index].cmd

\* test/raft/config.go:189: "commit index=%v server=%v %v != server=%v %v": no two
\* peers hand different commands to their state machines at one index.
ApplyAgreement ==
    \A d, e \in delivered : d.index = e.index => d.cmd = e.cmd
-----------------------------------------------------------------------------
\* Some of the behaviours of MachineSpec, chosen to be deep: peers 0 and 1 are the
\* only ones to take steps, with one command and one heartbeat round, until a command
\* is delivered; then peer 1 stands for election and 1 and 2 are the only ones.

Local(i) ==
    <<Term[i], VotedFor[i], Log[i], State[i], loop[i], cands[i], beat[i],
      ReceiveHB[i], MatchIndex[i], PeerAlive[i], starting[i], spawned[i], building[i],
      {a \in appending : a.from = i}>>

Cut(e) == IF e < 2 THEN 2 ELSE 0

Schedule ==
    /\ \A i \in Server : i = Cut(elections') => UNCHANGED Local(i)
    /\ elections' = 2 => delivered # {}
    /\ issued' <= elections' /\ rounds' <= elections'
    /\ \A i, s \in Server : PeerAlive[i][s] => PeerAlive'[i][s]

ScheduledSpec == MachineInit /\ [][MachineNext /\ Schedule]_machineVars
=============================================================================
