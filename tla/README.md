# Formal model of Sharded-Raft-KeyValue-Store

TLA+ modules of the Raft peer in `src/src/raft`, in the tests and as a process of its
own, of the key/value service in `src/src/kvraft`, of the simulated network in
`src/src/labrpc` and of the linearizability checker in `src/src/porcupine`; the TLC
runs that check them on small instances; and theorems about them that TLAPS proves
for every number of peers, servers, clerks and calls and for histories of any
length. The reference is the Go code; `PROJECT.json` ("map") lists every definition that models
code with the lines it stands for.

## 1. The system

| Part | Source | State | Operations |
|---|---|---|---|
| Raft peer | `raft/raft.go`, `handler.go`, `getters.go`, `rpc.go` | `Log`, `Term`, `VotedFor` (saved); `State`, `IsLeader`, `CommitIndex`, `LastApply`, `MatchIndex`, `PeerAlive`, `OpenCommit`, `NextIndex`; two one-place channels | `startElection`, `startAsCand`, `startAsLeader`, `sendHeartBeat`, `Start`, `StartOnePeerAppend`, `HandleAppendEntries`, `HandleRequestVote`, `persist`, `readPersist`, `Kill` |
| Persister | `raft/persister.go` | one byte string per peer | `SaveRaftState`, `ReadRaftState` |
| Run-mode peer | `raft/raftRun.go`, `persist` | `Network` switch, the state file | the same handlers over `net/rpc`, `checkNetwork`, `Connect`, `Disconnect` |
| Key/value server | `kvraft/server.go` | `storage`, `idTable` | `Get`, `PutAppend`, `listenApplyCh` |
| Clerk | `kvraft/client.go` | client id | `Get`, `Put`, `Append`, with endless retry |
| Run-mode server and client | `kvraft/serverRun.go`, `clientRun.go` | the state file | boot, `readPersistRun`, menus |
| Simulated network | `labrpc/labrpc.go` | ends, servers, connections, reliability flags | `Call`, `processReq`, `AddServer`, `DeleteServer`, `Enable` |
| Encoding | `labgob/labgob.go` | - | wraps `encoding/gob` |
| Linearizability checker | `porcupine/*.go`, `models/kv.go` | linked entries, cache, bitset | `checkSingle`, `checkParallel` |
| Visualization, mains | `porcupine/visualization.go`, `runner/` | - | I/O |

How they interact. The key/value server calls `Start` of its peer and receives
`ApplyMsg`s from a channel of one place that `startApply` fills with `rf.mu`
held. Peers call each other's two handlers through `labrpc` (tests) or
`net/rpc` (run mode). Inside a peer, four kinds of goroutine share the state
under `rf.mu`: the election goroutine, candidacies with one goroutine per vote
request, heartbeat rounds with one goroutine per peer, and append calls. The
election goroutine is told about leaders and demotions only through the two
channels `ReceiveHB` and `BecomeFollwerFromLeader`, which are filled with
`rf.mu` held.

What is hard in it:

* **stale results**: a `Win`, a vote reply, a heartbeat reply or an append reply
  is used under a later acquisition of the lock, in another term or another
  leadership than the one it belongs to, and most of these uses test the role of
  now and not the term of then;
* **channel sends with the lock held**: a send that finds its channel full and
  its receiver elsewhere holds `rf.mu` for ever;
* **the network**: calls fail before or after their handler ran, and are
  answered late and in any order;
* **restart**: a peer comes back with what the persister holds, and requests of
  its earlier life are still on their way;
* **log repair**: cutting, appending and re-labelling of the last entry, by
  overlapping append calls to the same follower;
* **retries** of the clerk against the id table of the server;
* **deleted servers**: the simulated network looks a server up, and uses it after it
  was deleted, replaced under its name or cut off;
* **start-up in run mode**: a server is served to the network before it has its
  channels, and reads its file after it has begun to vote; and the file is
  written in place, value by value.

What makes each part correct: a peer votes once per term and remembers it; one
leader per term; a leader never loses or reorders its own log and a follower's
log agrees with it; what is committed is held by a majority and stays; the two
channels never block. The service built on it applies each operation once and
in one order; the network loses and delays but does not invent calls, and its
"true" stands for something that was saved; a process comes back with what it
saved; the checker says "Ok" exactly for linearizable histories.

## 2. Modules

| Module | Contents |
|---|---|
| `Raft` | the peer: variables, `Init`, one action per region of the code, `Next`, `Spec` |
| `RaftProps` | `TypeOK`, the safety and action properties, and the claims of the repository that the code does not meet |
| `RaftInv` | the inductive invariants `LoopInv`, `VoteInv` and `ReignInv` |
| `RaftProofs` | lemmas about the log helpers; `TypeCorrect` |
| `VoteProofs` | what every step does to term and vote; `VoteIsDurable`, `VotesAreKept`, `LoopCorrect`, `LeadersAwaitDemotion`; the steps that keep `VoteInv`; `VotesCorrect`, `OneMajority`, `RightfulLeadersUnique` |
| `LogProofs` | `LeadersLastTerm`, `LeadersAppendOnly`, `LogDurable`; the steps that keep `ReignInv`; `ReignCorrect`, `OneLog`, `ResendsInRange`; over `StateMachine` `ToldCorrect`, `OneHistory`, `OneReignAgreement` |
| `StateMachine` | what `startApply` delivers, as history over `Raft`; two properties of it, and a schedule for one of them |
| `AtomicStore` | the abstract specification: a store on which every operation takes effect at one moment between its call and its return |
| `KVService` | clerks, their calls, the handlers `Get` and `PutAppend`, `listenApplyCh`, restarts, over what they rely on from Raft |
| `KVProps` | `TypeOK`, the invariants, the refinement mapping to `AtomicStore`, the liveness properties and what they suppose of Raft |
| `MCKVService`, `MCRunMode` | the symmetries of two runs: clerks, and requests, are interchangeable |
| `KVProofs` | `ServiceCorrect`, `ServiceTypes`, `ReplicasAlike`, `AppendsKeepOrder`, `WritesFindKeys` |
| `KVRefinement` | `ServiceLinearizable` |
| `Checker` | the searches of the linearizability checker and the goroutine that collects their results |
| `CheckerProps` | `TypeOK`, linearizability by its definition, what verdict and partial linearizations mean |
| `CheckerProofs` | the linked list, the paths of a search, the invariant `CheckerInv`; `CheckerTypes`, `SearchIsSound`, `VerdictIsRight`, `PartialsAreRight`, `InfoStaysSettled` |
| `RemoteCall` | the abstract specification of a remote call: run at most once; true means run, and saved for good |
| `LabRpc` | the simulated network: `Call`, the request loop, `processReq`, and what a test does to the network |
| `LabRpcProps` | `TypeOK`, the promises of the comments in `labrpc.go`, the refinement mapping to `RemoteCall`, liveness |
| `NetworkProofs` | `NetworkTypes`, `PositiveRepliesSaved`, `FailuresHaveReasons`, `CallsImplementRemote` |
| `RunMode` | one server as a process: its start, the requests meanwhile and later, its file, crashes |
| `RunModeProps` | `TypeOK`, what is restored, and which votes are given |
| `RunModeProofs` | the format of the file, the invariant `RunInv`; `RunModeTypes`, `RestoredIsSaved`, `VotesOncePerTerm` |

Peer and service are not composed. `KVService` relies on a promise (one sequence of
committed commands, prefixes of which reach every server in order) that `Raft`
is meant to keep; the runs below show where this code may not keep it. What is
shown of the service holds as long as Raft keeps its promise. Likewise `Raft` does
not run over `LabRpc`: its sets of calls in flight are the calls of `RemoteCall`, whose
handler runs at most once, maybe after the caller was told that it failed; what
`LabRpc` implements.

### How `Raft` corresponds to the code

A step is one region that holds `rf.mu`, or one receive of the election
goroutine from a channel. The variables have the names of the fields. Control
that lives in goroutines is data:

* `loop[i]` is where `startElection` is: the select loop (`"follow"`), waiting
  for a demotion while `startAsLeader` has yet to take the lock (`"won"`), or
  waiting for it as leader (`"lead"`). `electionResult[i]` is the `Win` in the
  channel of that name.
* `cands[i]` are the candidacies whose interval is not over, each with its term
  and the votes counted; `open` says whether its result can still be sent.
* `voteReqs`, `voteReps`, `appendReqs`, `appendReps` are the calls in flight, as
  sets. A call that is lost stays in its set for ever; a reply that may no
  longer have an effect (the candidacy it belongs to is over, or it neither
  grants nor carries a higher term) is dropped at once. Two calls that are equal
  in every field are one.
* `spawned`, `building`, `appending`, `starting`, `beat` are goroutines between two
  regions: an append call yet to look whether its peer leads (`AppendCheck`), one that
  has seen it lead and, maybe no longer leading, has yet to build its arguments
  (`AppendBuild`), built arguments yet to be sent (`AppendSend`), a `Start` between its
  check and its append, and a heartbeat round in progress.
* `stopped[i]` is a mutex held for ever or a panic: nothing of the peer runs
  again until `CrashRestart`.
* `boots[i]` tells the incarnations of a peer apart: calls of an earlier one
  still reach their handlers and have nobody to answer to. So does a call that was
  given up: `CallFails` takes back what the caller knew of the peer and leaves the request
  on its way, marked `NoCaller`; its handler may run at any later time, or never.
* `elected`, `won` and the fields of a Win are history for the properties.

Decisions of the model that a reader should know:

* **Boot.** `Make` reads an empty persister after `setRaft`: the decoder leaves
  zero values, so at the first boot `VotedFor` is 0, not -1. `Init` says so.
* **Timers.** No clock is modelled. A candidacy arms the ticker with its own
  interval and gives up 20 ms before that tick, so a tick ends the candidacy that
  armed it. A ticker that a heartbeat or a new loop rearmed in the meantime may
  tick during the candidacy, but only once: two ticks are at least 700 ms apart
  and a candidacy is over after 679. Giving up is a candidacy that never decides.
* **The select loop polls** (it has a `default`): a token in `ReceiveHB` is
  received before any peer begins another region (`Polled`), unless a `Win`
  waits in the same select, when either may be taken. This is the one place where
  the model is less than fully interleaved; without it every handler could find
  the channel full for the microseconds the poll takes.
* **The shared slice.** The entries of a resend are a slice of the log's own
  array and are encoded without the lock: `AppendSend` makes the test under the lock, and
  `AppendEncode` is a step of its own, any time later, even while somebody holds
  the lock for ever. `Encodings` lets every position that the log still covers be read
  either as it was or as it is then.
* **The apply channel** is taken to be drained, so `startApply` ends. `Raft` keeps
  only how far it got (`LastApply`); `StateMachine` adds the messages
  (`delivered`), which are those that the step's `LastApply` passed.
* `NextIndex` is written and never read; it is not modelled. Nor is the wait of
  `Start` for its commit: it changes nothing in the peer. `KVService` has it, since
  its handlers wait there.
* A killed instance is gone. In the tests it is disconnected first and its
  persister is copied, so what it still does reaches nobody.

### How `KVService` corresponds to the code

A clerk's call, the network's wait for it and the handler that serves it are one
thread of control. `phase[c]` says where it is: `"sent"` (the request is on its
way or the handler has not tested the role), `"start"` (between `isLeader` and the
append in `Start`), `"wait"` and `"blocked"` (at the condition of `Start`'s wait, and in
`cond.Wait`), `"poll"`, `"sleep"` (the loop
of ten polls), `"key"` and `"read"` (`existKeyWithLock`, then the read of the
storage, two acquisitions of `kv.mu` after the one of the poll), `"done"`.

* **Lost calls.** `Drop` loses a request, `Abandon` gives a call up at any moment
  while its handler goes on. All that such a handler can still do is append its
  command, even after its operation has returned to the user through another
  server: `adrift` holds it until then. A call that `GetRun` or `PutAppendRun`
  serves goes the same way.
* **Raft.** `started` is the bag of commands in some peer's log; any of them may
  be committed (`Commit`) at any later time, or never; `leaders` is any set of
  peers, also several.
* **Start's wait.** `hearedBack[c]` counts the append calls that have ended, whatever
  came of them; each end signals (`AppendEnds`), and nothing else does. A handler that finds
  its condition unmet blocks until the next signal (`StartWaits`). The commit index
  that the condition reads is Raft's and not in this module: `StartReturns` may come at any
  look at the condition, and reports success if the peer leads then.
* **The apply channel** has one place and is filled with `rf.mu` held: `LastApply`
  may be two ahead of `applied`, and then no region of the peer runs (`RfHeld`).
* **Values.** A string is the sequence of the values it was put together from, and
  every Put and Append writes a value of its own (its client and id), so a
  value applied twice or lost shows. The empty string as a value written is left
  out. Ids are distinct per clerk; the code takes them from the clock.
* **Restart** empties storage and id table and applies the log again from its
  first command; the handlers that ran are cut off.
* `versions` (the store after every command of the log) and `since` (the length of
  the log when the operation was called) are history.

The refinement mapping takes the last version as the store of `AtomicStore`. A
write takes effect when its command is committed for the first time; a Get may
return what its key held in any version since its call (`Seen`).

### How `Checker` corresponds to the code

`Init` is the state after `checkOperations` has split the history by key and sorted
the entries of each part, and `checkParallel` has started a search per part. An
iteration of the loop in `checkSingle` is a step: `Choose` takes the call it looks at
out of the list, `Skip` passes over it, `Backtrack` puts the last one back; `Exhaust`,
`Killed` and `Complete` are its three returns. A node is the position of its entry
in the sorted history, its pointers are the two functions in `list`. The bitset is
the set of its ids, and the hash, which only says where in the cache to look, is
left out. The receives of `checkParallel` are `TakeResult` in the select loop and
`Drain` after it, `Timeout` is the timer.

A string is the sequence of values it was put together from, and the value of a
Get is what it returned. Entries have distinct times; ids follow the calls.
`CheckEvents`, which no code of the repository calls, is left out.

### How `LabRpc` corresponds to the code

`phase[c]` is where the goroutines of a call are. `"calling"`: `Call` is at its select;
`"sent"`: `processReq` has the request; `"request"`: it has looked its server up
(`seen[c]`); `"wait"`: it waits for the handler, which another goroutine runs
(`handler[c]`); `"check"`: the handler's answer is there; `"lost"` and `"late"`: false, or
that answer, is on its way to `Call`, which returns it (`"false"`, `"true"`). Each region of
the network's lock is a step, so that a test may change the network between the
look-up, the drop of a request, the dispatch, the polls and the last look before
the reply.

* **Delays** have no length: a message on its way may take any time. That covers the
  pauses of an unreliable network, `LongReordering` and `LongDelays`, which
  therefore are no variables of their own.
* **Servers** are incarnations: `servers[s]` is 0 for nil, or tells which of those that
  were added under the name is there. The handler of a dispatched request runs
  on the incarnation that was seen, also after it was deleted.
* **Persisters.** `crash1` of `test/raft/config.go` deletes the server, then copies its
  persister; `start1` makes the next incarnation from the copy and adds it.
  `saved[s]` counts the copies and `holds[s]` is the set of calls whose updates the copy in
  use holds. This part is the tests', not the library's; the comment in `processReq` at
  lines 265-270 relies on it.
* **Handlers** return, but those of the calls in `Stuck` may not: a peer whose
  mutex is held for ever.
* A test connects an end once in its life, as the comment on `Connect` says.
* Left out: the counters, the reflection by which a service finds a method,
  `log.Fatalf` on an unknown one, and argument encoding.

### How `RunMode` corresponds to the code

`main` is the statement `StartKVServerRun` is at. `Setup` stands for `new(raft.Raft)` and
`setup`: from then on `net/rpc` hands requests to a peer that is all zero values.
`MakeRun` sets the fields and makes the channels, `ReadPersistRun` decodes the
file, and `Restore` makes its last three assignments one at a time; none takes `rf.mu`,
so that a request or a campaign may come between any two of them.

A request passes `CheckNetwork` and then `Handle`, the region of `HandleRequestVote` or
`HandleAppendEntries` up to its send on `ReceiveHB`; a send on the nil channel is `"jammed"`,
for ever and with `rf.mu` held, and one that finds the place taken waits at `"send"`.
`SendAndConclude` is the rest of the region up to `persist()`, which is `Create` (the file
is emptied) and a `Write` per value; `Finish` ends the region, and the vote leaves.
`PersistFails` is an `os.Create` or an `Encode` that fails: the code ignores the error,
so the region ends, and the vote leaves, as if all had been written. A campaign is `StartAsCand`,
then the same `persist()`. The server starts with no file, or with that of an
earlier life in which it has voted and appended.

* The file is the sequence of values encoded into it, and a value that is not
  there decodes to zero, as `Decode` leaves a variable alone when it meets the end of
  the file. The four fields of an entry are two, command and term.
* `votes` is history: each vote given, itself included, with the term it was asked for in,
  the term the answer carries, and the candidate. The two terms differ when
  `HandleRequestVote` grants in a term that is past.
* `torn` says that the last `persist()` that ended, by a crash or an error, was not complete; `lost`
  that one ended before the term was in the file; `early` that `rf.mu` was taken
  while `readPersistRun` went on.
* The peer stays in the select loop, as it never wins here, so its election goroutine always
  comes to receive from `ReceiveHB`; that it may not is in `Raft` (`SendBlocksForever`).
* Left out: what the server does when it leads and with the replies to its
  own requests (both are in `Raft`), the commit part of a heartbeat, the
  key/value calls, which wrap the handlers of `KVService`, and the menu but for
  `Connect` and `Disconnect`.

### Bounds

The constants bound the model, not the code: `MaxElections` candidacies,
`MaxRounds` heartbeat rounds and `MaxCmd` commands of all peers together,
`MaxCrash` restarts, `MaxAppends` append calls in flight between two peers, and
`Tickers`, the peers that may stand for election. They are the only guards that
have no line in the code. In `KVService` they are `MaxOps` operations of each clerk,
`MaxFaults` calls that are dropped, abandoned or given up by a server that
leads, `MaxChanges` changes of the set of leaders (when nobody leads there is
always one more election) and `MaxCrash` restarts. Because they run out, the bounded model stops where
the program would go on: every run has `CHECK_DEADLOCK FALSE`. The checker is bounded by
its input only: `MaxPartitions` keys, `MaxOps` operations, outputs of `MaxOutput` values;
it stops when it is done. In `LabRpc`, `MaxChanges` bounds what a test does to the
network (`CopyPersister` follows a deletion and is not counted). In `RunMode` each
request arrives once, `MaxTerm` bounds the terms of requests and campaigns,
`MaxCrash` the crashes, `MaxFail` the `persist()` calls that fail, and `MaxEarly` how often `rf.mu`
is taken before a start is over.

## 3. Runs

`N` peers; `E` candidacies, `C` commands, `K` crashes, `H` heartbeat rounds, `A`
append calls in flight; `T` tickers.

| Run | N E C K H A T | Checks | Why this instance |
|---|---|---|---|
| `elections` | 3 3 0 1 0 0 {0,1} | `OneMajorityPerTerm`, `RightfulLeaderUnique`, `DurableVote`, `VoteIsKept`, `VoteInv` | three candidacies, two for one term or one after the other, with every order of votes, late votes and decisions, and a voter that restarts between them; third candidacies find a peer that has won and holds a token it has not received; `VoteInv` is the invariant of the proofs. No heartbeats or appends are sent: what they do to terms and votes is left to the theorems |
| `handover` | 2 2 1 1 2 1 {0,1} | `TypeOK`, `LeaderLastTerm`, `LeaderAppendOnly`, `LeaderAwaitsDemotion`, `EntriesDurable`, `ReignInv` | two leaderships, a command of the first repaired by the second, a restart at any point; a leader is demoted by a request, a heartbeat and a heartbeat's reply, and may still append the command it was given before |
| `reorder` | 2 1 2 1 3 2 {0} | `OneReignOneLog`, `OneReignOneHistory`, `ReignInv` | two commands, two append calls at once, and three rounds of heartbeats with the commit index of their moment, in any order, with a restart; in one leadership followers do not interact, so one follower is enough; `ReignInv` is the invariant of the proofs, which are for any number of followers |

`OneReignOneLog` and `OneReignOneHistory` speak of the time while only one leadership has
begun. They say that within it nothing goes wrong although every ingredient of
`apply_error` is there: appends arrive late and cut what was committed and applied,
`MatchIndex` and `CommitIndex` go back, and a follower takes a commit index for a log that does
not have the entry yet. What a peer has delivered is still what the leader's log
holds. With a second leadership it is not so; `apply_error` shows that below.

The repair of a follower's log has two ways to fail. The previous entry that is
not there is reached by `reorder`; the previous entry of another
term needs two leaders that both appended, more than these bounds allow, and is
covered by the theorems only. `EntriesDurable` compares commands and terms:
`startAsLeader` re-labels the last entry and does not save it, so a crash may bring back the
old label, but only while the peer leads the term of that label; every demotion
saves it. The runs have 1.2 (`elections`), 0.8 (`handover`) and 1.9 million states (`reorder`).

The runs of the service (`N` servers; `O` operations of each clerk, `F` faults,
`L` changes of leaders, `K` restarts):

| Run | N O F L K | Clerks and tasks | Checks | Why this instance |
|---|---|---|---|---|
| `kv_concurrent` | 2 1 1 1 0 | two; Get, Append | `Linearizable` | a write and a read, or two writes, overlap on two servers that both answer; an `Append` shows in the value which writes came before it, so the `Put` is left to `kv_retries`; 1.5 million states up to a renaming of the clerks |
| `kv_retries` | 2 2 1 1 1 | one; Get, Put, Append | `TypeOK`, `ServiceInv`, `ReplicasAgree`, `AppendsInOrder`, `WriteFindsKey`, `Linearizable` | the command of a given-up call is appended twice, or after the next operation has been called, with a restart that applies the log anew |
| `kv_returns` | 2 1 1 2 1 | one; Append | `OperationsReturn`, `ApplyChannelDrains` | a fault, a restart and two changes of leaders, before or after what `OperationsReturn` supposes sets in |

The run of the checker, `checker`, starts from every history of up to three operations
(Get with an output of up to two values, Put, Append) on one key or two, with
and without partial linearizations and timeout: 10 924 of them, 360 588 states. It
checks `TypeOK`, `SearchSound` (the list is the history without the operations
chosen, linked both ways, and the calls linearize them), `VerdictRight`,
`PartialsRight`, `InfoSettled` and `CheckEnds`. Three operations are the fewest with
which the cache can be wrong: two writes in either order lead to two states with the
same set of ids, and a read tells them apart.

The run of the network, `network`, makes two calls through one end to one server, with
seven changes by the test: connected, enabled, added, deleted and added again, and
two more (unreliable, disabled, destroyed) at any point. One of the two handlers may
never return. It checks `TypeOK` (no request is dispatched on a server that is nil),
`PositiveIsSaved`, `FalseOnlyIfDisturbed`, the refinement `RemoteCalls`, and the liveness
`CallsReturn` and `DeadCallsReturn`, on 86 753 states. Calls do not interact but through the
network, so two are enough to have one that ends and one that hangs; ends
interact through nothing but the servers they are connected to.

The run of a process, `run_mode`, has two requests, two terms, one crash, one failed `persist()`, and
`rf.mu` taken once before a start is over, on 10 million states up to a renaming of the
requests. `RestoredAsSaved` and `OneVotePerTerm` hold outside the windows that the code
leaves open, and TLC refutes them without each of these exceptions:

* `RestoredAsSaved` says nothing after a `persist()` that did not end (`torn`) until the next one is
  complete, nor of a start during which `rf.mu` was taken (`early`). It holds behind a request that came before
  the channels were made and keeps `rf.mu` for ever.
* `OneVotePerTerm` says nothing if a `persist()` ended before the term was in the file (`lost`), nor of
  such a start. A file cut off later is no exception: the vote then reads back as that of peer 0, and
  the server gives no other in that term.

`OneVotePerTerm` is about the terms that answers carry, and with them about the terms that
candidates ask for. The run reaches grants in a past term, and reaches two candidates that asked
in one term and were both granted: the property then says that one of the two answers
carries a higher term, which makes its reader step down (`raft.go:165`).

Whether a request is answered is not claimed. A request that took `rf.mu` before the channels were
made never is, nor any after it; and in `Raft` a send on `ReceiveHB` blocks for ever
once the election goroutine waits for a demotion that is not coming.

Three runs are expected to fail. Each checks one sentence that the repository
states and the code does not keep:

| Run | Claim | What TLC finds |
|---|---|---|
| `two_leaders` | `ElectionSafety`: `test/raft/config.go:328` "term %d has %d (>1) leaders" | A peer wins term 1, and before `startAsLeader` takes the lock it adopts term 2 from the leader of term 2; then it leads term 2. `startAsLeader` tests neither term nor role. |
| `orphan` | `NoOrphan`: `raft.go:113` "wait to become a follwer" | A late vote reply with a higher term reaches a peer that leads by then. It is demoted through `ReceiveHB`; its election goroutine waits on `BecomeFollwerFromLeader` and never stands for election again. |
| `apply_error` | `ApplyAgreement`: `test/raft/config.go:189` "commit index=%v server=%v %v != server=%v %v" | A delayed append without entries reaches a follower after the one that carried a command, and cuts the command off although the leader has counted, committed and applied it. The follower wins the next election and delivers another command at that index. |

The counterexample of `apply_error` has 44 states, out of reach of a search of all
behaviours of three peers. `ScheduledSpec` therefore keeps only some of them: in each
half of the run one peer takes no part, and each half has one command and one round of
heartbeats. Every behaviour it allows is one of `MachineSpec`, so the violation is one of the model.

So election safety does not hold of this code as it stands. What does hold, and
is checked and proved, is what remains of it: votes are sound
(`OneMajorityPerTerm`), and leaders that lead the term they won are unique
(`RightfulLeaderUnique`).

**Fairness.** `kv_returns` assumes of the specification only what the scheduling of goroutines gives: the clerk, a
handler outside `rf.mu` and the listener go on when they can (weak fairness). The polls of a handler are
counted to ten: where its server does not lead, giving up is strongly fair; where it
leads, giving up is a fault (the command was not applied within 200 ms) and bounded like
the others. What the service needs from Raft is not assumed but stands, by name, to the left of the
implication in `OperationsReturn`, because Raft does not promise it:

* `OneLeads`: one peer leads from some time on;
* `LocksReturn`: who waits for `rf.mu` gets it, and `startApply` ends;
* `AppendsEnd`: the append calls of a `Start` end, as calls of the network do;
* `LeadersCommit`: what a leader has appended is committed.

TLC refutes the conclusion when any one of the four is dropped; without `AppendsEnd` it finds the wait of
`raft.go:324` that goes on for ever. With them, the wait misses no signal, the clerk's turn comes to the
leader and the operation returns. `ApplyChannelDrains` needs none of them: the listener,
which alone can end a hold of `rf.mu` by `startApply`, never needs that lock.

`checker` assumes that goroutines that can go on do and that a timer that was set
fires. Then the check ends, except that of an empty history without a timeout.

`network` assumes that goroutines that can go on do, each call's for itself, and that a
handler returns unless its call is in `Stuck`. Nothing obliges the test to do anything, so
`DeadCallsReturn` promises only that a call does not stay with a server that is gone for good.

No liveness of the Raft peer is checked: with the orphaned election goroutine and
the mutex that a blocked send holds, the code makes no progress promise that
survives these interleavings, and the timers on which progress rests are not
modelled.

## 4. Proofs

Proved by TLAPS for every value of the constants. Of the peer they assume
`N >= 2` and bounds that are naturals (`PeersAssumption`, `BoundsAssumption`), of
the service at least one server, the three tasks, and bounds that are naturals
(`ServersAssumption`, `TasksAssumption`, `LimitsAssumption`); clerks and keys are
any sets. Of the network they assume that `Nil` is no server, that `Stuck` are calls
and that its bound is a natural (`NilAssumption`, `StuckAssumption`, `ChangesAssumption`); of a process that peers are
naturals, 0 among them (the vote a new peer has is the zero value, 0), that `None` is none of the values
it stands beside, and that bounds are naturals (`PeersAssumption`, `NoneAssumption`,
`MaximaAssumption`); of the checker that the limits of its input are naturals (`LimitsAssumption`).

| Theorem | States |
|---|---|
| `TypeCorrect` | `Spec => []TypeOK` |
| `VoteIsDurable` | `Spec => []DurableVote` |
| `VotesAreKept` | `Spec => VoteIsKept` |
| `LoopCorrect`, `LeadersAwaitDemotion` | `Spec => []LoopInv`, `Spec => []LeaderAwaitsDemotion` |
| `VotesCorrect` | `Spec => []VoteInv` |
| `OneMajority` | `Spec => []OneMajorityPerTerm` |
| `RightfulLeadersUnique` | `Spec => []RightfulLeaderUnique` |
| `LeadersLastTerm` | `Spec => []LeaderLastTerm` |
| `LeadersAppendOnly` | `Spec => LeaderAppendOnly` |
| `LogDurable` | `Spec => []EntriesDurable` |
| `ReignCorrect` | `Spec => []ReignInv` |
| `OneLog` | `Spec => []OneReignOneLog` |
| `ResendsInRange` | `Spec => []ResendInRange`: while one peer is the only one that ever led, a resend slices the log inside its bounds |
| `OneHistory` | `MachineSpec => []OneReignOneHistory` |
| `OneReignAgreement` | `MachineSpec => []OneReignAgrees`: `ApplyAgreement` as long as one peer is the only one that ever led |
| `ServiceCorrect` | `Spec => []ServiceInv` (service) |
| `ServiceTypes` | `Spec => []TypeOK` (service) |
| `AppendsKeepOrder` | `Spec => []AppendsInOrder` (service) |
| `ReplicasAlike` | `Spec => []ReplicasAgree` (service) |
| `WritesFindKeys` | `Spec => []WriteFindsKey` (service) |
| `ServiceLinearizable` | `Spec => Linearizable` (service) |
| `NetworkTypes` | `Spec => []TypeOK` (network) |
| `PositiveRepliesSaved` | `Spec => []PositiveIsSaved` (network) |
| `FailuresHaveReasons` | `Spec => []FalseOnlyIfDisturbed` (network) |
| `CallsImplementRemote` | `Spec => RemoteCalls` (network) |
| `RunModeTypes` | `Spec => []TypeOK` (process) |
| `RestoredIsSaved` | `Spec => []RestoredAsSaved` (process) |
| `VotesOncePerTerm` | `Spec => []OneVotePerTerm` (process) |
| `CheckerTypes` | `Spec => []TypeOK` (checker) |
| `SearchIsSound` | `Spec => []SearchSound` (checker) |
| `VerdictIsRight` | `Spec => []VerdictRight` (checker) |
| `PartialsAreRight` | `Spec => []PartialsRight` (checker) |
| `InfoStaysSettled` | `Spec => InfoSettled` (checker) |

**Terms and votes.** The "kinds" lemmas sort every action by what it does to term,
vote and persister: it saves both and neither goes back (`Saves`), leaves all
three alone (`Rests`), blocks with a term assigned but not saved (`Stops`), or
restarts from what was saved (`Restores`). `DurableVote` and `VoteIsKept` follow
from the kinds alone; every later proof uses them instead of the actions.

**Elections.** `OneMajorityPerTerm` is not inductive: it speaks of votes counted,
and a vote is sound because of what the voter has saved. `VoteInv` adds that.
`Promised(v, t, i)` says that the persister of `v` holds a later term than `t`,
or term `t` with a vote for `i`; `PromisesKept` shows that no step takes a
promise back, not even a restart. Each vote in a tally for the term its peer is
in, and each granted answer on its way, is promised (`TalliesPromised`,
`GrantsPromised`); so two tallies, a tally and an answer, or two answers with
the same voter and term are of the same candidate (`TalliesAgree`,
`GrantsAgreeWithTallies`, `GrantsAgree`); wins come from majorities
(`WinsAreMajorities`). The restriction to tallies *for the term the peer is in*
is needed: `HandleRequestVote` grants votes to smaller terms, answering with its
own higher term, so a vote for a past term can be given twice. Such an answer
cannot be counted in a current tally, because its `term` is larger than the
candidacy's and a candidate that reads it steps down (`CountVotes`). TLC does
not reach this case in the small instances (it needs a peer whose `VotedFor` was
reset in a term it did not vote in because of its log); the theorem covers it.
Two majorities meet in a voter (`MajoritiesMeet`), whence the theorems.

**Leaders' logs.** `LeaderSteps` shows from `LoopInv` that a peer that leads after
a step led before it in the same term and at most appended to its log, or has
just begun and re-labelled its last entry. `LogDurable` adds the persister: `LogsSaved` says of every step that it
saves the log, leaves log, term and role alone, or begins a leadership with the label unsaved.

**One reign.** `OneReignOneLog` compares logs, and what enters a log was on its way before: it is
not inductive. `ReignInv` says of a peer `l` that is the only one ever to have led, restarted or not:
every other log, every append call built or in flight holds commands of
`l`'s log in their places (`LogsCopy`, `TasksCopy`, `ReqsCopy`); every answer, and with it every entry of
`MatchIndex[l]`, speaks of no index past its end (`RepsWithin`, `MatchWithin`); and nobody else has
a leader's work to do (`OthersIdle`). `l`'s commands only grow (`LeaderSteps`, and over a restart
`DurableCommands`), so a slice of them taken earlier, also one torn between two moments (`Encodings`), is a
slice of them still. Therefore cutting and appending, in whatever order, leaves a follower's log a
prefix, and a resend asked for by an answer, however late, slices inside the log. `ToldInv` adds what was
handed to the state machines: each command is `l`'s at its index. This is the exact border of the finding
`apply_error`: `OneReignAgreement` proves the agreement that fails there as soon as
a second peer leads.

**The service.** That servers agree is not inductive; that each is a replay of the
log is. `VersionsReplay` says that `versions` is the log folded one command at a
time, skipping ids that came before; `ReplicasAgree` and `TablesReplay` say that a
server that has received `n` commands holds `versions[n + 1]` and the ids of the
first `n`. `WriteFindsKey` needs besides that ids tell commands apart
(`TagsUnique`) and that a key with a value keeps one (`KeysKept`).

**Linearizability.** Four more conjuncts of `ServiceInv` speak of calls: a command
that is under way or in the log is of an operation that was called, and the one
with the clerk's present id is its present operation (`CommandsKnown`,
`CallsCurrent`); a handler past the poll has its id in the table (`IdsFound`); and
what a Get answers is in a version since its call (`AnswersSeen`). Then every
step maps: `Invoke` is the call, the first commit of an open write is its effect,
the clerk's return is the return, and all else stutters. The crux is that an id
found in the table was committed *after* the call, because no command carried it
before; so the storage read, which is at least as far in the log, is one the
call may see.

**Appends in order.** `AppendsInOrder` follows from the same property of all versions of the
store, `ValuesInOrder`: a command that is in the log for the first time is of the clerk's
present operation, so its value's number is above all of the clerk's that are in a
version already; one whose id came before changes nothing.

**The network.** `NetInv` relates the two looks of `processReq`. `Known`: a server that is there was
made from the persister in use, and the server a request saw is no newer. `RanIsSaved`: if a handler
has run and its server's persister is still the one in use, its update is there. The
last look before the reply finds the server that was seen, so its persister is in
use (`Known`), the update is saved (`RanIsSaved`), and `CopyPersister` copies it on from then on:
`PositiveIsSaved`. `Progress` says how far the handler is at each place of `processReq`; with it every
step maps to a step of `RemoteCall` or stutters. `Reasons` says of a call that has not failed yet
why it may: it saw an unreliable network, or its server is no longer what it saw, and then it is
in `disturbed`; whence `FalseOnlyIfDisturbed`.

**The process.** `RunInv` has four parts. `TypeInv` and `PlaceInv` say who can be where: one task in `rf.mu`, and
what its place is while `persist()` runs. `KeptInv` says which part of the saved values the file holds at
each `Write`, and which of the three assignments of `readPersistRun` have been made at
each statement of the start; `DecodeSaved` shows that decoding gives back what was encoded, for a log of any
length. `VotesInv` says that memory, and the file unless it is empty, `Bars` a second vote: every vote given
is of an earlier term, or of this one, and then the vote that stands there is not free. It holds of
a file cut off after the term, because what is missing reads back as 0 and not as -1. A vote
leaves only when `persist()` has ended. All but the types is claimed outside the windows named by `torn`,
`lost` and `early` only.

**The checker.** That a history with the answer "Illegal" has no linearization is a statement about choices
the search did not try, or gave up because the cache knew them. A *configuration* is the set of
operations chosen and the state reached; a *path* from it is a sequence of permitted choices: each of
a call left in the list before the first return left, and legal. A configuration is `Settled` if no path from it
chooses everything and, when partial linearizations are wanted, none is longer than what is recorded
in `longest` for its operations. `CheckerInv` says of every search:
the list links exactly the entries left, and the nodes taken out keep the neighbours they had then, level by
level of the stack, so that `unlift` puts them back right (`Linked`, `Stale`); in the
configuration of each level, every call before the one in progress was tried, that is, illegal or leading
to a settled configuration (`Tried`); and every configuration in the cache is settled or on
the stack (`CacheInv`). The crux is that a configuration *on the stack* has fewer operations chosen
than the one looked up, so a hit in the cache is never one of those; it is settled and may be
skipped. When the search comes to a return entry, everything before it was tried
and nothing after it is permitted, so the top is settled (`SettledWhenTried`) and its call counts as
tried one level down. At the bottom of the stack the first configuration is settled: no
linearization exists, for linearizations are paths (`LinearPath`). The other way, the stack is
itself a linearization (`CallsLinear`), complete when the list is empty. `MainInv` relates the collecting
goroutine to the searches: the false of a killed search means
nothing, but results count only while nobody has been killed, so the one that made the answer
"Illegal" was of a search that had tried everything.

The two places that need induction (the states along a sequence exist, and are `StateAfter`) take the
least natural number for which they fail; `LeastExists` gets it from the
well-foundedness of the naturals.

Every invariant, action property and refinement of a passing run is stated by a theorem. Only
model-checked are the liveness properties (`OperationsReturn`, `ApplyChannelDrains`, `CheckEnds`, `CallsReturn`,
`DeadCallsReturn`), which rest on fairness and are out of the prover's reach. The
violations are TLC's, as counterexamples are.

## 5. Not modelled

* **Visualization, menus, mains, and what is printed**: input and output only.
* **Encoding** (`labgob`): it wraps `encoding/gob` and warns; the one thing the peer depends on,
  that an empty state decodes to zero values, is in `Init` of `Raft`.
* **`net/rpc`**: requests of a run-mode server arrive at any moment, at most once each.
* **Time**: intervals, delays and timeouts have an order but no length. Operation ids and client
  ids are clock readings in the code; the model takes them to be distinct.
* **A killed instance** of the peer: it calls itself leader after `Kill`, but is cut off by then.
* **Equal times** in a history of the checker, and `CheckEvents`.
* **The tests**: their configuration appears as the environment (`LabRpc`'s changes, restarts) and as
  the source of claims.

## 6. Plan

Done: the peer, the service over it, the checker, the simulated network, the run mode, the history
of what is applied, and a proof of every safety property checked of them. Left:

1. The vote book (who can still vote for whom) as an abstract specification that the elections
   implement.
2. Composition of the peer with the service through the promise that `KVService` relies on, for as long
   as one peer leads (`OneReignAgreement` is the peer's half).
