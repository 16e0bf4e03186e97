# Codex Kernel: a TLA+ model of consensus and push enforcement

Codex Kernel lets a Git push change a protected field of `src/state.json` only
when a 2/3 + 1 quorum of authorized nodes has approved exactly that change
beforehand. Two programs make that happen and never run together: the
**consensus side** (gossip, bridge, ballot gate, store), which turns signed
proposals and votes into one durable approval per mutation, and the
**enforcement side** (pre-receive hook, algebra gate), which recomputes the
mutation from Git objects during the push and looks the approval up. They meet
only in the table `consensus_approvals`.

Paths below are relative to `src/local_worker/src/` unless they start with
`local_worker/`.

## 1. Inventory

| Component | State | Operations | Talks to |
|---|---|---|---|
| ballot gate, `consensus_gate.py` | `ballot_box`: hash -> proposal with its votes | `propose_mutation`, `cast_vote`, `check_consensus`, `require_consensus` | called by the bridge |
| transport bridge, `consensus_transport_bridge.py` | `pending_votes`: hash -> queued envelopes; the gate; the store | `handle_envelope` (proposal, vote), replay command line | called by gossip in one thread per connection; calls gate and store |
| Postgres store, `postgres_consensus_store.py`, `local_worker/migrations/` | tables proposals, votes, approvals | `record_proposal`, `record_vote`, `has_approval`, `read_approval`, `write_approval`, one transaction each | called by the bridge; read by the approval reader |
| file store, `ApprovedProposalStore` | approved/*.json and their temporary files, events.jsonl | `has_approval`, `read_approval`, `write_approval` | the bridge, when Postgres is not configured |
| gossip transport, `gossip_protocol.py` | seen ids, ledger messages.jsonl | `propose` and `vote` commands; `serve_forever`, `receive`, `forward` | peers over TCP; calls the bridge; its ledger file is read by the replay command line |
| canonical hashing, `canonical_consensus.py` | none | `proposal_material`, `build_proposal_hash`, `build_approval_hash` | everybody |
| proposal producer, `proposal_producer.py` | none | `derive_mutations` | shares the derivation of the hook |
| pre-receive gate, `pre_receive_gate.py` | none of its own; the hub's refs and objects | `check_updates`, `check_update`, `derive_protected_mutations` | run by git receive-pack; calls the algebra gate |
| algebra gate and reader, `local_worker/algebra_gate.py`, `consensus_approval_reader.py` | none; reads the approvals and `CODEX_AUTHORIZED_NODES` | `require_consensus_approval`, `verify_quorum`, `verify_approval_payload` | called by the hook |
| contract verifier and migrations | catalogue | `verify` | at start-up |
| reconciler, federated linker, consensus manager, AST gate | working tree | stand-alone scripts | nothing calls them |

What is hard here:

- **Threads without locks.** Gossip starts one daemon thread per connection and
  neither bridge nor gate takes a lock, so handlers of the same ballot
  interleave between any two touches of shared memory and around each store call.
- **Partial failure.** Memory is changed first, then a row is written; a call
  may raise, or commit and lose its answer. Gossip swallows the exception.
- **Crash and replay.** Ballots are in memory only; the transport ledger is the
  only source from which they can be rebuilt, over a store that survived.
- **Flooding.** A node forwards only the first copy it sees, with that copy's
  TTL; sends are never repeated; a handler that raises is not followed by a
  forward; what the commands of a node send, its own serve process never hears.
- **Files.** Ledger and events files are appended to without locks and can be
  torn by a failed write or a crash; the file store publishes by renaming a
  temporary file whose name all writers of an approval share.
- **Ordering.** Votes come before or after their proposal, several nodes propose
  the same mutation, a node changes its mind.
- **Check, then act, in the hook.** The hook judges old ids that clients name;
  the refs can move, approvals can arrive and the node list can change meanwhile.

What makes each part correct: approvals list only what nodes said, carry a
quorum, never change, and exist for every ballot at quorum (bridge); the checker
accepts exactly sound artifacts of the bridge (algebra gate); every move of a
hub ref that touches a protected field was approved, tips hold no forbidden
call, history only grows (hub); a message is handed over once and reaches every
node that working sends lead to, and the file of a node holds all it knew
(gossip); published approvals are whole and final (file store); a mutation that a quorum supports is eventually
approved, and an approved push lands (bridge and hub).

## 2. Modules

| Module | Models | Kind |
|---|---|---|
| `QuorumRule` | the threshold and the test against it | constant level, used by all |
| `ConsensusLedger` | what the consensus service promises: ballots that can be forgotten, approvals that are snapshots of a ballot at quorum | abstract specification |
| `ConsensusBridge` | bridge, ballot gate and Postgres store under threads, faults, crashes | detailed specification; implements `ConsensusLedger` with one thread |
| `ConsensusBridgeProofs` | theorems about `ConsensusBridge` with any number of threads, and what one thread adds to the quorum | proofs |
| `ConsensusBridgeSequentialProofs` | theorems about one handler at a time, and the refinement of `ConsensusLedger` | proofs |
| `GossipTransport` | commands, connections, seen set, ledger file, flooding, failures of several nodes | state and actions, used by the next |
| `ConsensusNetwork` | gossip with a bridge behind every node and the replay command line | specification over `GossipTransport` and `QuorumRule` |
| `ApprovedProposalStore` | the file-backed store, cut at every touch of the file system | specification |
| `AlgebraGate` | what the bridge writes into an approval, and the whole verification of it | functions |
| `ApprovalCheck` | one run of the algebra gate over any table and node list, and what it is for | specification over `AlgebraGate` |
| `AlgebraGateProofs` | sorted lists of names, and what `verify_quorum` accepts | lemmas used by the next and by the hub's proofs |
| `ApprovalCheckProofs` | the gate is exact | proofs |
| `PreReceiveGate` | hub, hook, producer and the arrival of approvals | specification over `AlgebraGate` |
| `ConsensusNetworkProofs`, `ApprovedProposalStoreProofs`, `PreReceiveGateProofs` | theorems about the network, the file store and the hub | proofs |
| `ConsensusNetworkFloodProofs` | how far floods get, and what they leave in the ballots when nothing fails | proofs |
| `MCConsensusBridge`, `MCConsensusNetwork`, `MCApprovedProposalStore`, `MCAlgebraGate`, `MCPreReceiveGate` | instances for TLC | model checking |

### ConsensusBridge

`ballot_box` maps a hash to the proposal envelope whose registration made the
current ballot; `votes` holds the votes dict of every such object, because a
thread can keep working on an object that was replaced in the box. `heard` is
history: every envelope ever handed over. Each thread has a program counter
`pc` and its Python locals. The cuts, in the order of the code:

| Code | Actions |
|---|---|
| `receive` -> `handle_envelope`, validation | `Accept`, `Reject` |
| `self.ballot_box[proposal_hash]` in `cast_vote`, in each `check_consensus` and at the end of `require_consensus` | `LookUp`, before `Cast`, `Tally`, `Check`, `Require` and `ScanYes`: another handler may replace the ballot between any two of them |
| `_handle_proposal` | `Propose` (test), `Register` (assignment), `RecordProposal`, `PopPending`, `NextPending` (the loop), `Check` |
| `_handle_vote` | `Find` (test), then `Queue`, or `Cast`, `Tally`, `RecordVote` |
| `_emit_approval` | `HasApproval`, `Require`, `ScanYes`, `ScanNo`, `WriteApproval` |
| a dict that grows under an iterator | `ScanBroken` |
| an exception anywhere, swallowed in `_handle_connection` | `StoreRaises`, `AnswerLost`, `End` |
| process restart, with or without replay of the ledger file | `Restart` |

A vote replayed from the queue runs through the same vote actions with `cur`
set; an exception in it unwinds the whole handler and its remaining popped
votes, as in Python.

Abstractions. A mutation is its hash. One scan of a votes dict is one step,
except that a key inserted meanwhile raises. `setdefault` and `append` are one
step, as are `has_approval` and the `read_approval` that follows it (an approval
never disappears). Timestamps and the approval hash are left out. One process
serves the store; several bridge processes on one database are not modelled.
Gossip hands an envelope over once per process; a duplicate delivery is a second
envelope with the same content (`ConsensusNetwork` shows when there is one).

### GossipTransport and ConsensusNetwork

`net` is the deployment (nodes, peers of each, messages that may be sent,
connections a node handles at a time, number of failures), chosen in `Init` and
never changed; one run thus covers several topologies. `wire` is the bag of
copies that are in some connection, so copies overtake each other and the same
message can be on its way twice.

| Code | Actions |
|---|---|
| `propose` and `vote` commands: `ledger.append`, then `broadcast` | `CliAppend` or `CliAppendFails`, then `Broadcast` |
| `_handle_connection`, `receive`: verification and the first seen test | `Accept` |
| `GossipLedger.append`: second seen test and write; `_seen.add` | `AppendLine` or `AppendFails`; `Mark` |
| `self.on_message(envelope)` | `Dispatch` with `Count`, or `HandlerRaises` with `CountRaises` (which may have committed the approval) |
| the forwarding loop | `Forward` |
| the serve process dies; it starts and runs `_load_seen` | `Crash` with `Forget`; `Restart` |
| the bridge's command line over the ledger file | `Replay` |

Abstractions. The sends of one loop over the peers are one step, in which any
subset fails (a process that dies in the loop is one whose remaining sends
fail). A signature is what it covers, of which only the TTL changes on the way,
so an envelope that is forwarded without being signed again is refused.
Re-signing uses the one shared secret, as the code does. Appending one line is atomic
between the processes of a node unless the write fails; a failed write leaves
nothing, a piece, or the line without its newline, and the next line joins it.
A ballot of the network is the set of messages it took and a handler is one
step: what a ballot is under racing handlers is the subject of
`ConsensusBridge`. One mutation, and every vote is a yes.

`lost` and `heard` are history: which sends and handlers failed, and how often
each node's `on_message` was called. `Known` is what a node handed to its
bridges and what its commands broadcast.

`PeersAssumption` says that a node lists other nodes of the service only. The
code checks no entry, so that is up to whoever deploys it; a node that listed
itself would send its own messages to itself, and hear them.

### ApprovedProposalStore

An artifact is the number of the attempt that built it, and a file is an inode,
so that a rename, a truncation through an old descriptor and a reader in between
mean what they mean on disk.

| Code | Actions |
|---|---|
| `_emit_approval`: `has_approval`, then either `read_approval` or building the artifact | `Begin`, `HasApproval`, `ReadApproval` |
| `write_approval`: the test for the file | `TestExists` |
| `tmp.open("w")`, `json.dump`, `tmp.replace(path)` | `OpenTemporary`, `WriteTemporary`, `Replace` |
| the events line | `LogEvent` |
| a write raises or the process dies, between or within these | `Stop` |

Quorum tests are not repeated here: a writer is a handler that found a quorum.
`shared` is history: the hashes for which two writers were once both between
their test and the rename. The code has no lock against that, and for such a
hash the published file may be truncated by the other writer, so the properties
exempt it (section 4).

### AlgebraGate and ApprovalCheck

Node names are ranks in string order, lists are sequences, so that sortedness
and duplicates mean what they mean in the code. A hash is the value it covers,
so hashes are equal exactly when the canonical JSON is. Absent or mistyped
fields are the values `NotAnInteger` and `NotAList`. Raising is FALSE. The
trusted nodes are a set: a sorted list without duplicates equals
`sorted(trusted)` when it has the same members. For
`authorized_nodes_from_env` the empty set stands for its exceptions, since the
quorum check refuses an empty list as well. `SortedNodes`, Python's `sorted` of a
set of names, is the ascending list of its members; that there is one, and only
one, is proved (`AllListed`, `AscendingUnique`).

`ApprovalCheck` is one call of `run_gate`: a table with any values in its
columns and fields, a setting of `CODEX_AUTHORIZED_NODES`, and the set of
mutations that get through. Of the table it assumes what migration 001
declares: the key is unique, and a payload and its quorum block have exactly
the keys the schema lists (`WholeRow`: all are required and
`additionalProperties` is false). What the schema says of the values is not
used, so the theorem is about any. An event has a `proposer`: the bridge writes
it and the approval hash covers it, but the gate does not look at it, so a row
that is sealed with another proposer gets through. `AcceptsExactlySoundApprovals`
says just that: the row is what the bridge builds from a sound ballot, whoever
it names as proposer.
`MCAlgebraGate` gives it tables and settings for TLC.

### PreReceiveGate

A push is a sequence of ref updates. `Receive` starts a hook with the current
environment; `CheckUpdate` is one call of `check_update`, which either passes
the update or rejects the whole push; `ApplyUpdate` is git's compare-and-set of
one ref (external); `Approve` is the consensus side storing an approval of a
mutation that the producer derived, with any ballot of `Ballots` (also one that
is not sound, since a race can store one); `Reconfigure` changes
`CODEX_AUTHORIZED_NODES`. One check is atomic: Git objects do not change and
approvals only arrive, so reading them one after another decides nothing else.
`git show` succeeds for every blob that exists (section 4).
Diff hash and changed paths are functions of the two revisions a mutation names
and are left out of it. Files that are neither Python nor `src/state.json`,
quarantined objects and hook-side input parsing are not modelled.

## 3. Runs

Bridge runs use four authorized nodes (threshold 3, so that one may dissent)
and an outsider.

| Run | Setting | Shows |
|---|---|---|
| `seq_faults` | one thread, each store call may raise or lose its answer, crash and replay at any point | `AuthenticApprovals`, `ApprovalCarriesQuorum`, refinement `ImplementsLedger` |
| `seq_live` | one thread, two mutations, second proposer, a flip, every kind of refused envelope, fairness | `EveryHeardVoteCounts`, `ApprovalNamesRecordedProposer`, `NoStrandedVotes`, `VotesDurableBeforeApproval`, `ReturnedIsStored`, `QuorumEventuallyApproved` |
| `threads` | two threads, second proposer, a flip | `AuthenticApprovals`, `QuorumIsApproved`, `ApprovalIsFinal` |
| `network` | four nodes in a line with two failures, in a ring with two connections each and one failure, a fan without failures; three in a triangle with one failure; two with three failures; fairness | `OncePerConnection`, `ReplayRebuildsQuorum`, `TornLineCostsOne`, `OthersMakeTheQuorum`, `ApprovedMeansSupported`, `FloodArrives`, `FloodReachesAll` |
| `file_store` | two writers, two approvals, up to four attempts that may fail or die anywhere | `PublishedWhole`, `PublishedFinal`, `ReturnedIsStored`, `JournalMatches` |
| `algebra` | every ballot over four names against two memberships, alterations of each field, the proposer too, resealed or not, seven settings of the node list | `AcceptsExactlySoundApprovals` |
| `hub` | two pushers, default flags, seven commits, honest, stale and false old ids, a two-ref push, a node list that changes at any point | `TipsClean`, `ProtectedChangesApproved`, `HistoryOnlyGrows`, `LandsOnce` |
| `hub_open` | two pushers, deletions and rewinds allowed, an approved rewind so that main comes back to `c0` and is raised again, sound ballots only, fairness | `TipsClean`, `ProtectedChangesApproved`, `PreparedPushLands` |

Bounds. Two threads are enough for every race between two handlers; races of three are not covered by
TLC (the theorems cover any number). One mutation suffices where handlers of
different hashes share nothing; `seq_live` has two. Six to twelve envelopes give
a quorum, a dissenter, a flip, a duplicate proposal and refused messages. In the
network, TTL is 2, so that four nodes in a line are the longest flood that must
arrive; `FloodArrives` and `FloodReachesAll` claim it for at most TTL + 2 nodes,
which with the code's TTL of 3 is five, and while no ledger file is torn. The
second condition does not show in four nodes: section 4 has the behaviour that
needs it, and `FloodsArrive` (section 5) is about any number of nodes. Each
deployment is there for one case: a line where
every node is needed, a ring where both copies meet in racing handlers, crossing
floods, a file that is torn, continued and read again (three failures), and a
quorum that the others make. In the file store, four attempts are one that dies,
its repetition and two more, on the same approval or beside it; writers and
hashes are symmetric. In the
hub, the commit graph has a protected change, a deletion of the file, a
forbidden call hidden behind a harmless commit, a broken file and an unrelated
root; two refs and two pushers make every conflict of two pushes. In `hub` the
pushers are symmetric (`hub_open` checks liveness and has no symmetry). Deadlock
checking is off because these systems may rightly come to rest when no message
or push is left.

Each run with a `TypeOK` among its invariants checks it too; it is left out of
the table.

Fairness. In the network, a command that has logged its message broadcasts it
and a node that is up takes its connections and runs their threads (`Progress`);
nobody owes sending, restarting or replaying. In the bridge and the hub, a started handler goes on (a thread that is runnable is scheduled) and
gossip hands over what it has while a thread is free; a started hook runs on and
receive-pack applies what it passed. Voters, clients, operators and the
consensus side owe nothing. `QuorumEventuallyApproved` is stated with one
thread, a store that answers and no crash: the code has no retry, so a lost
registration or a stranded vote really blocks it (next section).

The properties that need one thread really need it: the runs below show what two
do to `NoStrandedVotes` and `ApprovalCarriesQuorum`, and `ReturnedIsStored` fails
with two as well, when both find no approval and the handler whose insert is
dropped returns its own artifact. That racing threads keep the quorum as long as
nobody changes its answer and each mutation is proposed once is proved
(section 5), for any number of threads.

## 4. Disagreements between code and documents

Each is a run that TLC ends with a counterexample.

| Run | Property | What happens |
|---|---|---|
| `race_stranded_vote` | `NoStrandedVotes` | a vote finds no ballot, the proposal handler registers it and empties the queue, the vote is queued for good |
| `race_replaced` | `ApprovalCarriesQuorum` | everybody says yes; the handler of a second proposal has passed the ballot test, and assigns its fresh ballot between the count of `require_consensus` and its second look-up (`consensus_gate.py:109`): the approval stored for good has one yes |
| `hub_retyped` | `ProtectedChangesApproved` | a protected field changes from `0` to `false`; Python finds them equal |
| `network_own_votes` | `SomeBridgeApproves` | three nodes, all in favour, nothing fails: the commands are processes of their own and no message is forwarded to its sender, so the running bridge of each node counts only the two others and the threshold of 3 is never reached; the approval is written only when somebody replays a ledger file |

A second way to a bad block needs one proposal only: a node changes its answer
between the count and the two scans of `_approval_event_from_proposal`, and is
stored on both sides, or the yes list is below the threshold. The push check
refuses such blocks, and they can never be replaced. Both ways are closed by the
two hypotheses of `SteadfastQuorum` (section 5).

The passing hub runs use integer values and a `git show` that works; under these
two conditions, which hold in ordinary operation, `ProtectedChangesApproved` holds.

Limits of the properties that follow from the code. Except for the third they
contradict no document:

- `git show` failing for a blob that exists is taken for an absent file;
  failing for both revisions would hide a protected change.
- A proposal whose row could not be written stays in memory: later proposals of
  that hash are ignored and each vote dies on the foreign key after it was
  counted, so this process never approves it.
- Two connections that bring the same message at once may both hand it over:
  `OncePerConnection` says once per connection, and the ring has two.
  `src/README.md:114` says that messages are deduplicated by `message_id`; the
  code departs from it for such a pair, because the id is added to `_seen` only
  after the write.
- One torn line aborts the replay of a whole ledger file, and the transport
  forgets the message on it; `OncePerConnection` and `ReplayRebuildsQuorum`
  are about sound files. `TornLineCostsOne` is about all: a torn line costs at
  most one message that was handed over or sent.
- A vote that fails in the replay of the queue takes the popped votes after it
  along (`consensus_transport_bridge.py:241`); nothing brings them back.
- A process whose ledger line of a message was torn forgets the message when it
  starts again, takes the next copy for new and forwards it a second time, with
  less TTL than the first. A node that this second copy reaches first, because
  the first one failed to reach it, may not pass it on: with the code's TTL of 3
  five nodes are enough for a node behind it to be left out although working
  sends lead to it. `FloodArrives` and `FloodReachesAll` are about floods in
  which no file is torn; `FloodsArrive` proves that this is the only way.
- Two writers of one approval in the file store share its temporary file: one
  may truncate what the other has just published, for as long as its own write
  takes, or find the file moved away. `Alone` exempts such an approval.

One consequence of the design that is no disagreement: a stored approval is
final, so one that was written for an earlier node list, or that a race
spoiled, blocks its mutation for ever. The operator has to make a new commit.

## 5. Proofs

Each theorem holds for every value of the constants that meets the assumptions
named in the module it is about, and in the presence of all the failures that
module has actions for, except those its hypotheses exclude. Every safety
property that a run checks is also the statement of a theorem.

### The bridge, any number of threads

`ConsensusBridgeProofs`, for every set of nodes, envelopes, threads and faulty
calls (`Authorized` finite, envelopes of the right shape, `None` none of the
values that stand beside it in a variable):

| Theorem | States | Hypothesis | Argument |
|---|---|---|---|
| `TypeCorrect` | `TypeOK` and `Control` | | `Control` ties a thread's locals to its program counter: which of them are set, that the ballot it works on exists, and that keys agree. Without it the type of `votes[proposal]` is not preserved by the scans. |
| `ApprovalsAuthentic` | `AuthenticApprovals` | | `Testimony`: all that memory, queues, locals and tables hold was said in `heard`; `heard` only grows, so a restart keeps it. |
| `ApprovalsFinal` | `ApprovalIsFinal` | | the one step that writes an approval does nothing when there is one. |
| `SteadfastQuorum` | `ApprovalCarriesQuorum` | `Steadfast`: no node changes its answer; `ProposedOnce`: a mutation is proposed by one message | votes of one object only grow from none to an answer that stays, so what `require_consensus` counted is still there in the scans (`QuorumGrows`); and as a hash never has a second object, what it looks up after the count is what it counted. |
| `SequentialQuorum` | `ApprovalCarriesQuorum` | one thread | between the count and the write nobody else steps: the artifact under construction is a snapshot (`Snapshot`). |
| `QuorumAlwaysApproved` | `QuorumIsApproved` | store calls answer | `Noticed`: a ballot at quorum without approval always has an `Attending` handler, one that is at a step from which it must still look at this ballot. A handler lets go of the ballot only when it sees no quorum (then another one's vote is still to come, with its own tally) or an approval. `RowsStay` and `Recording` rule out that its INSERT meets a missing foreign key. |

The two quorum theorems have conditions because the unconditional statement is
false: without `ProposedOnce` by `race_replaced`, in which everybody is
steadfast, and without `Steadfast` by the flip of section 4. `QuorumAlwaysApproved` allows crashes, which
forget the ballot as well; with a store call that raises it is false, since the
exception unwinds the handler and nobody retries.

### The bridge, one handler at a time

`ConsensusBridgeSequentialProofs`, with the hypothesis `Sequential` (at most one
thread). Each theorem names the failures it excludes, because the code has no
retry and each statement is false with them; every other failure, and a restart
where it is not excluded, may happen at any step.

| Theorem | States | Besides `Sequential` | Argument |
|---|---|---|---|
| `BridgeImplementsLedger` | `ImplementsLedger` | | `Alone`: what a step has read (no ballot, a quorum, no approval, the names under yes) is still so when a later step acts on it. Then `Register` maps to `Open`, the assignment to `Cast`, the INSERT that wins to `Approve`, a restart to `Forget`, and all else to stuttering (`Views`). |
| `StoresWhatItReturns` | `ReturnedIsStored` | `~MayCrash`, `write_approval` answers | the row of the proposal is there for the foreign key (`RowOK`) and `Alone` says no approval came in between, so the INSERT takes effect. A handler that dies or whose call raises at this step leaves it without a row, and returns nothing. |
| `NamesRecordedProposer` | `ApprovalNamesRecordedProposer` | `~MayCrash` | `RecordedProposer`: the row and the ballot name one proposer, because only the handler that registers a ballot writes the row. After a crash another proposer's envelope may come first, and the old row stays. |
| `VotesBeforeApproval` | `VotesDurableBeforeApproval` | `record_vote` answers | `Durable`: a yes in memory has its row, or is the vote whose row is being written; a restart forgets the memory and keeps the rows. If the row is not written the vote still counts, and the next one completes the quorum. |
| `NoVoteStranded` | `NoStrandedVotes` | `record_proposal` answers | `Queued`: a hash with a ballot has an empty queue unless its registration is on the way to `PopPending`. An exception there leaves ballot and queue, and no later proposal pops it. |
| `HeardVotesCount` | `EveryHeardVoteCounts` | all calls answer, `~MayCrash` | `HeardOK`: an envelope that was handed over is counted in its ballot, waits in a queue, or is carried by the handler (as its own or among the popped ones, which `Frame` describes as a suffix of the queue); and a ballot holds nothing else than answers its nodes gave. |

These are the conditions of the run `seq_live`, less what the proof does not need;
`seq_faults` and `race_stranded_vote` show the rest.

### The network

`ConsensusNetworkProofs`, for every deployment over a finite `Nodes`, any TTL and
any number of messages, connections and failures:

| Theorem | States | Argument |
|---|---|---|
| `TypeCorrect` | `TypeOK` and `Control` | `Control`: a thread in flight has a message and a running process, forwards only with TTL left and has marked what it hands over; no copy has more TTL than it was built with; a file without a final newline has a line. |
| `SupportedApprovals` | `ApprovedMeansSupported` | `Provenance`: whatever is on the wire, in a thread, in a file or in a ballot was issued by its command; quorums grow with the messages (`ApprovesGrows`), and `Threshold` exceeds two thirds. |
| `QuorumsReplayed` | `ReplayRebuildsQuorum` | `Kept`: a sound file holds what was handed over, sent and seen, and what a handler is about to mark. A write to a file that is sound afterwards found it sound and kept its lines (`WriteType`). |
| `HandedOverOnce` | `OncePerConnection` | `Once`: calls made, plus handlers that still have the message, are at most the connections; a running process that made a call has the message in its seen set, which a new one reads back from the file. |

`ConsensusNetworkFloodProofs`, for the same deployments:

| Theorem | States | Argument |
|---|---|---|
| `TornLinesCostOne` | `TornLineCostsOne`, whatever tears files | `Accounted`: the messages that were handed over, sent or marked (`Logged`) and are on no closed line can be `Matched`, each with a torn line of its own. A step logs at most one message and only by writing it (`LoggedCases`, where `Repeats` says of a thread that finds its message seen that another thread wrote it): the line is the message, or a torn one that closes with it (`LineCloses`). Closed lines stay. |
| `FloodsArrive` | `FloodArrives`, whatever sends, writes, handlers and processes failed | `Wave`, while no file is torn: a copy with TTL `ttl` has a `Trail` of `TTL - ttl + 1` different nodes that handed the message over, different because a node that did takes no copy that comes back (`Once`). So among TTL + 2 nodes a copy that runs out of TTL has been everywhere (`TrailEnds`). Hence `Frontier`: whoever has a message, and did not die over it, has passed it to each of its peers (it was lost there, is `Coming`, or arrived) or is about to. A copy that is dropped as seen was `Written`, so it was handed over, is about to be, or died; this is where a process started again must not have forgotten anything (`Kept`). Paths are the closed sets of nodes (`Reached`), so no induction over their length is needed. |
| `FloodTakenWhole` | `FloodSettles`: when nothing failed and at most TTL + 2 nodes are quiet, the ballot of each is the set of messages that others sent and that a path of peers leads to it | `Calm`: without a failure nothing is lost or torn and a ballot is what was handed over; then from `FloodArrives` and `Taken` (only what a path leads to is handed over). |
| `OthersDecide` | `OthersMakeTheQuorum`, if every deployment is `Complete` | in a deployment where every node reaches every other, the ballot of a node is all that others sent, and it is at quorum exactly when they are. |

`Complete` says three things of a deployment: at most TTL + 2 nodes, from each a
path to each, and messages sent by its own nodes. The lines, rings and triangles
of the run `network` are of this kind; of its fan, in which a node hears
everybody and is heard by one, only `FloodTakenWhole` speaks.

### File store, hub and algebra gate

`ApprovedProposalStoreProofs`, for every set of writers and hashes and any number
of artifacts (`BoundAssumption`, `DistinctAssumption`):

| Theorem | States | Argument |
|---|---|---|
| `TypeCorrect` | `TypeOK` and `Control` | `Control`: names and descriptors of a hash are inodes that attempts for this hash created, so approvals of different hashes never share a file. |
| `WholeApprovals`, `StoredApprovals`, `FinalApprovals` | `PublishedWhole`, `ReturnedIsStored`, `PublishedFinal` | `Solo(h)`, for a hash that never had two writers at once: nothing is published while somebody writes, the writer's descriptor is the temporary name, and what it renamed or returned is in place. A step for another hash touches no inode of this one (`OtherHash`). |
| `JournalTrue` | `JournalMatches` | `Journal`: lines are artifacts that were built, each is there once, none is that of an attempt still under way, and what is stored has a line or a writer that owes it (`Told`). |

`PreReceiveGateProofs`, for every commit graph, set of pushes and ballots, number
of pushers and setting of the node list:

| Theorem | States | Argument |
|---|---|---|
| `HubCorrect` | `TypeOK` and `PassedJudged` | what the hook established of an update that passed still holds when it is applied: objects do not change and approvals only arrive, while refs and the node list may change. |
| `TipsStayClean` | `TipsClean` | of a passed update each source that differs between the revisions was scanned; the rest was at the tip it replaces, because the old id git compares is the one the hook used. |
| `HistoryGrows`, `EachLandsOnce` | `HistoryOnlyGrows`, `LandsOnce`, under `DefaultFlags` | a ref moves to descendants only; where an update landed, the ref still is or has gone on (`Behind`), and ancestors are ordered. |
| `ChangesApproved` | `ProtectedChangesApproved`, under `OneTypePerField` | `QuorumVerified`: a block that `verify_quorum` accepts carries 2/3 + 1 of the trusted nodes (sorted lists without duplicates count their members, `NodeListSize`); `ApprovalFound` ties it to the row of exactly this mutation. |

`DefaultFlags` is needed because the flags exist to allow the opposite;
`OneTypePerField`, that no commit only retypes a value, because `hub_retyped`
shows the statement false without it.

`ApprovalCheckProofs`, for every set of mutations, every content of the approvals
table (`TablesAssumption`: rows and events have exactly their keys, with any values,
and the key is unique) and every setting of the node list:

| Theorem | States | Argument |
|---|---|---|
| `GateExact` | `AcceptsExactlySoundApprovals` | a list that `verify_quorum` accepts is ascending (`NodeListAscends`, from comparing neighbours) and so the one sorted list of its members (`AscendingUnique`): the block is that of a ballot (`VerifiedEmitted`); the seal ties in the proposer, whom the gate checks against nothing. Conversely every finite set of names has a sorted list (`AllListed`), which is accepted (`SortedAccepted`), and so is every block of a ballot at quorum (`EmittedVerified`). A setting is taken exactly when it names no node twice (`MembersTaken`). |

The arguments by induction in these lemmas are about least elements of sets of
numbers (`Least`, from the well-foundedness of `<`): the shortest list that is
missing, the first position where two lists differ.

Only model-checked: the liveness properties `QuorumEventuallyApproved`,
`FloodReachesAll` and `PreparedPushLands` (fairness and ENABLED are beyond the
prover). The theorems above prove the safety half of the first two: no quorum
goes unnoticed (`QuorumAlwaysApproved`), and a flood that is over has arrived
(`FloodsArrive`); what is left to fairness is that threads and connections go on.

## 6. Plan

Done: the consensus side over Postgres, gossip and its composition with the
bridges, the file store, the verification of approvals, the hub, and a theorem
for every safety property of the runs. Next:

1. The shape checks of `proposal_material` in `AlgebraGate`.

## 7. Not modelled

- The byte layout of canonical JSON and HMAC (a hash or a signature is what it
  covers), sockets, message sizes, and what the JSON schemas of the
  tables say of values (of the approvals table, the key sets are in
  `ApprovalCheck`).
- The contract verifier (`memory.py`) and the migrations: a comparison of
  names in the catalogue at start-up, without state; the keys and foreign keys
  the migrations declare are in `ConsensusBridge`.
- The reconciler: a manual script that nothing calls; it rewrites `src/state.json` of
  a working tree, stages and commits it, and only a later push of that commit
  touches the rest of the system.
- The federated linker, a stub nothing imports; the consensus manager and AST
  gate, file scanners outside the enforcement path; the container set-up.
- Several bridge processes on one Postgres database, and a `sender_id` shared by
  two nodes.
