# A TLA+ model of Vela Network

Vela Network (`src/`, Rust) is a small proof-of-authority blockchain node: three
validators with fixed keys take turns in producing blocks, gossip them over libp2p,
store them in sled, and serve an HTTP API. A HotStuff-style consensus engine runs
beside the chain. These modules model the node's control: what each task does between
two points where another task, another node, a client or a crash can interfere.

Paths below are relative to the repository; `main.rs:173` is line 173 of `src/main.rs`.

## 1. The system

### Components

| component | state it keeps | operations | talks to |
|---|---|---|---|
| **types** (`types.rs`) | – | hashes of blocks, votes and their signatures, certificates, genesis, Merkle root | everybody |
| **consensus engine** (`consensus/hotstuff.rs`) | round, phase, locked and highest certificate, three vote maps, committed blocks, pending block | `propose`, `handle_propose`, `handle_vote`, `handle_new_view` | called by the handler of peer messages, under its own lock |
| **node** (`main.rs`) | the producer's round counter; shared: chain, world state, mempool, engine | start and reload; handlers of six peer messages; block producer; start-up sync; broadcast of RPC transactions | all others |
| **world state** (`storage/state.rs`) | balances, nonces, total supply, number of transactions, faucet times | `apply_genesis`, `apply_block`, `can_faucet`, `mark_faucet` | called by node and RPC under its lock |
| **block storage** (`storage/db.rs`) | sled: height → block | `open`, `save_block`, `load_all_blocks` | called by node |
| **network** (`network/mod.rs`) | gossipsub's duplicate cache, two bounded channels, peer count | publish, deliver, dial, redial | node, peers |
| **RPC server** (`rpc/mod.rs`) | – (uses the node's) | `post_send_tx`, `post_faucet`, read-only endpoints | node |
| mempool struct (`mempool/mod.rs`) | map of transactions | unused: the mempool in use is a `Vec` in `NodeState` | – |
| key generation (`crypto/mod.rs`), CLI wallet (`bin/vela-cli.rs`), web pages | – | clients and helpers | RPC |

### How they interact

Every process runs these tasks on one shared state. The *producer* wakes up every 10 s,
and in the rounds it leads (`round % 3 == index`) drains the mempool into a block on its
own tip, applies, saves and appends it under the write lock of the chain, then announces
it with two messages (`ConsensusPropose`, `NewBlock`). The *handler* takes one message
at a time off a channel: `NewBlock` and `SyncResponse` blocks are accepted when their
height is one above the tip; `ConsensusPropose` and `ConsensusVote` go to the engine;
`SyncRequest` is answered, to everybody, with all blocks above a height. The *start-up
sync* sends one `SyncRequest`. The *RPC server* works on requests side by side; two of
its handlers add transactions to the mempool and pass them to the *broadcast* task. The
*network task* moves messages between two bounded channels and the gossip of libp2p.

The engine and the chain are two separate things: no code reads the blocks the engine
commits, and the chain waits for no vote. `propose` and `handle_new_view` are called by
nobody, so the engine stays in round 0.

### What is hard about it

* tasks interleave at every await; locks of chain, world state, mempool and engine are
  taken one by one, and up to three are kept while a task waits for another lock or for
  room in a channel;
* the handlers of the RPC server check, look up and change the state under separate locks,
  and their futures are dropped at any await when a client hangs up;
* producers of different nodes count rounds on their own; nothing synchronises them;
* gossip delivers in any order, to those who are up and connected, suppresses repeated
  bytes, and drops what it fails to publish; the start-up sync asks once;
* a crash loses memory and what sled has not flushed; the error of a save is dropped;
  round counter, world state, mempool and votes are rebuilt or lost at a restart;
* votes of different blocks, rounds and phases meet in one set of maps in the engine;
* `u64` arithmetic wraps in release builds.

`PROJECT.json` lists these as hazards, line by line, with the properties that watch them.

## 2. The modules

```
VelaTypes ── HotStuffEngine ──┬── HotStuffNode ── MCHotStuff
        │                     │        └── HotStuffProofs
        └─── WorldState ──┬───┴── VelaNode ── MCVela
                          │        │  └── VelaNodeProofs ── VelaChainProofs
              ChainLog ───┼────────┘ (refined by)
                          ├── Ledger ─┬─ MCLedger
                          │   Merkle ─┘
                          ├── Rpc ── MCRpc
                          └── WorldStateProofs, which these also extend:
                              LedgerProofs (of Ledger), MerkleProofs (of Merkle),
                              RpcProofs (of Rpc), VelaChainProofs
Awaits ── Tasks ── NodeTasks ──┬─ MCTasks
                               └─ NodeTasksProofs
```

A line is EXTENDS; VelaNode INSTANCEs ChainLog and NodeTasks INSTANCEs Tasks.

* **VelaTypes** – blocks, hashes, votes, certificates. A hash is the pair (round, stamp)
  of the header: the real digest covers the whole header, which these two already
  identify: within a run of a process that is checked and proved (`HashIdentifiesBlock`).
  The stamp abstracts the millisecond timestamp to "which run of the process made it": a
  leader that goes through a round again after a restart makes a block of another hash by
  construction, on the assumption that its clock does not show the same millisecond twice.
  A signature is the key that made it. An `Option` is a set with at most one element.
* **HotStuffEngine** – the methods of `HotStuffNode` as operators from a state to the
  set of possible replies. There is more than one where `form_qc` depends on the order
  in which a `HashMap` is iterated.
* **HotStuffNode** – one engine as a state machine, driven through its methods in any
  order. `Api` chooses the methods: all of them, or the two `main.rs` calls. Everything
  that comes from peers is arbitrary: votes, verified or not, from `Voters` that need not
  be validators (the engine never looks whether they are), proposals, and NewViews whose
  round and certificate (`ReceivedQCs`) nobody has checked. `handle_new_view` takes any
  certificate of a later round than its highest one, so `high_qc` may be a forgery, of any
  round; what the engine does keep is said about its own votes and its lock.
* **WorldState** – balances and nonces: `apply_genesis`, `apply_block`, replay. All
  arithmetic is modulo `U64`. The loops over transactions and blocks are recursive
  functions of the number of turns, which can be reasoned about (section 4).
* **Ledger** – the world state of one node under any sequence of blocks with any
  contents. `fees` and `wrapped` are history variables.
* **VelaNode** – a network of nodes: every task, the engine, the world state, storage and
  gossip. One action for each step of a task between awaits that matter; the table below
  gives the correspondence.
* **ChainLog** – what a node promises about its chain with tasks, messages and storage
  left out: a log that grows by one block of the next height, a stable part of it that
  only grows (all of the log, but for nodes whose saves may fail), and recovery from that
  part. `VelaNode!ImplementsLog` is the refinement.
* **Merkle** – `merkle_root`. What it binds a block to is a theorem (section 4), and two
  assumptions of MCLedger let TLC evaluate it: lists without repetition have different
  roots; a list of three has the root of the list in which the third comes twice, because
  odd levels are filled up with their last hash.
* **Rpc** – `post_faucet` and `post_send_tx` at the grain of their critical sections, on
  the state of one node: other requests, gossip, blocks, ticks of the clock and a restart
  come in between, and a request can be dropped between any two of its sections.
* **Awaits, Tasks** – the part of tokio the node is built on: fair reader-writer locks
  (first come, first served), bounded channels, and tasks given as lists of points where
  they await one or the other, with the guards in scope there. Tokio is not part of the
  repository: these two modules are marked external and modelled from how it is used.
* **NodeTasks** – the programs of all tasks of a node in that vocabulary: the six branches
  of the handler, the producer, the start-up sync, the broadcast task, `P2PNode::run` and
  the eight endpoints that take a lock.
* **MCHotStuff, MCLedger, MCVela, MCRpc, MCTasks** – small instances for TLC.
* **HotStuffProofs, VelaNodeProofs, VelaChainProofs, WorldStateProofs, LedgerProofs,
  MerkleProofs, RpcProofs, NodeTasksProofs** – theorems. WorldStateProofs has the lemmas
  about induction, sums and the loops over blocks that four of the others rest on.

VelaNode, Rpc and NodeTasks are three views of one process. VelaNode has the data of all
tasks but the RPC server's, and of many nodes; Rpc has the RPC server's and reduces the
other tasks to what they do to the state it shares with them; NodeTasks has no data but
every lock and channel, and so justifies that the other two let tasks run on until they
are done with a lock.

| VelaNode | code |
|---|---|
| `up`, `run` | the process runs; how often it has been started |
| `blocks`, `ws`, `mempool` | `NodeState.blocks`, `.world_state`, `.mempool` (`rpc/mod.rs:16-24`) |
| `hs` | the engine, `main.rs:138` |
| `pc`, `round`, `made` | where the producer task is; its locals `round` and `block` |
| `syncDue`, `handling` | the start-up task has not sent yet; blocks left in the loop of `main.rs:235` |
| `db`, `disk` | what sled returns; what it has flushed. A sequence in the order of the keys |
| `net`, `seen` | messages on their way to a node; its duplicate cache |
| `lost` | history: sync messages published while a node was up that it did not get |
| `minted` | history: every block ever made |
| `Boot`, `Crash`, `Flush` | `main.rs:117-159`; the process dies; sled's background flush |
| `StartProducer`, `Produce`, `AnnouncePropose`, `AnnounceBlock`, `SkipRound` | `main.rs:273-322` |
| `StartupSync` | `main.rs:249-258` |
| `OnNewBlock`, `OnTransaction`, `OnVote`, `OnPropose`, `OnSyncRequest`, `OnSyncResponse`, `SyncStep` | `main.rs:169-244` |
| `SubmitTx` | `post_send_tx` and the broadcast task |
| `unsaved` | history: heights whose save failed |

| Rpc | code |
|---|---|
| `ws`, `faucet_last`, `mempool` | `WorldState.accounts`, `.faucet_last`, `NodeState.mempool` |
| `req[c]` | where a request's handler is, the text it marks and its transaction |
| `clock`, `setBack` | `SystemTime::now()` in seconds; whether it has gone back |
| `FaucetCheck`, `FaucetNonce`, `FaucetMark`, `Push`, `Answer` | `post_faucet`, `rpc/mod.rs:222-234`, `239-245`, `246`, `247`, `249-250` |
| `SendCheck`, `SendLookup`, `Push`, `Answer` | `post_send_tx`, `rpc/mod.rs:257-295`, `296-302`, `303`, `305-306` |
| `HangUp` | hyper drops the future of the request |
| `OnNewTransaction`, `OnNewBlock`, `Produce`, `Restart` | `main.rs:187-190`, `169-178`, `283-311`, `117-150` |
| `marks`, `paid`, `accepted`, `included`, `overflowed` | history |

| NodeTasks | code |
|---|---|
| `todo[t]` | the awaits ahead of task `t`; the first is where it is |
| `queue[l]`, `len[c]` | who waits for a lock; how full a channel is |
| `Start`, `Acquire`, `Enqueue`, `Grant`, `Deliver`, `Cancel` | what tokio does at an await |
| `OnNewBlock` … `OnSyncResponse`, `Produce`, `P2PRun`, `GetStatus`, … | each the awaits of that code; every outcome of a condition on data is a job of its own |

Definitions whose comment begins with "Mutant" are never used: each is a way to get the
definition after it wrong, and the property that notices is named in `PROJECT.json`.

### Abstractions worth knowing

* `Accept` (apply, save, append) is one step. The three calls happen under the write lock
  of the chain; who reads the world state alone cannot tell the step apart from its
  parts, and a crash in between is a crash before or after, as memory is lost either way.
* A message to a node that is down is lost; one to a node that is up may be handled at any
  later time, or never (safety), or in the end (`FairSpec`). Without `LinksMayFail`,
  peers that are up are connected. With it, a publish reaches any of them, or none
  (`Reachable`), for whatever reason `network/mod.rs:151-153` drops the error: no peer is
  connected yet (a bootstrap peer that did not answer is dialled again after 30 s, the
  request goes out after 2), or the message is beyond gossipsub's default size (64 KB;
  a SyncResponse holds all missing blocks). Which of these it was is not told apart.
  gossipsub's late re-delivery of a message to a peer that joins within a few seconds is
  left out, and so are invalid and forged messages.
* The duplicate cache lives 60 s: `RememberSeen` says whether a behaviour lies within that
  time or outside of it.
* `SubmitTx` in VelaNode merges the critical sections of `post_send_tx`; Rpc has them.
  `HasClients` says whose RPC servers are used: one node's in `consensus`, from where the
  payment gets to the other by gossip; both in `replay`.
* In Rpc a transaction of the faucet has no timestamp, so two payments at one nonce are
  equal; no property about clients' transactions sees them (`Submissions` come from other
  accounts). A text is what the client wrote; `AccountOf` is the address it decodes to.
  A peer's block holds one transaction. The channel to the broadcast task always has room
  (NodeTasks bounds it).
* In NodeTasks, what a task does between two awaits is part of the step that leaves the
  first: it needs nobody else. Time is left out: a sleeping task is idle and may wake up
  at any moment. Messages from peers never run out. Log output and HTTP are instantaneous.
* Restarts are bounded by `MaxRuns`, rounds by `MaxRound`, mempools by `MaxMempool`.
  Nodes outside `MayCrash` never read their disk back, so it is not written either.

## 3. What the runs check

Deadlock is checked in `engine`, `rpc` and `tasks`. It is off where producers stop at `MaxRound` or
blocks at `MaxHeight`: the system is stopped by the bound, and the code has no such end.
Times are of TLC with two workers.

| run | instance | shows |
|---|---|---|
| `engine` | 4 validators (f = 1, quorum 3), 3 voters, one of them no validator, valid and invalid signatures, 2 competing proposals, NewViews of 2 rounds with certificates of 3 rounds, earned or without a vote, all methods (0.39 million states, 100 s) | **TypeOK**; **NoPhaseSkipped**: past a phase, a quorum of verified votes of different voters is held; **ThreeQuorums**: a commit needs three quorums of the current round that the engine collected itself; **CertificatesNeverRegress**: the lock is never dropped, older or without a quorum, and the highest certificate goes back only to one the engine forms |
| `ledger` | 3 accounts, 7 transfers, blocks of up to 2, 5 blocks, `U64` = 16; Merkle roots of lists of up to 6 | **TypeOK**, **Conservation**, **SupplyIsCapped**, **NoncesCountTransactions**; `RootBinds`, `RootIgnoresRepeat` |
| `chain` | 2 nodes, one crashes and may fail to save, 3 rounds each, 2 runs (1.2 million states, 150 s) | **TypeOK**, **HashIdentifiesBlock**, **ChainIsWhole** (a chain misses only blocks whose save failed), **StoredChain**, **ImplementsLog** |
| `consensus` | 2 nodes with engines, a client of one of them with a payment, all topics, nothing lost (0.73 million states, 2 min) | **VotesNameTheirBlock**, **StateMatchesChain** |
| `sync` | 2 nodes started at any time, 4 rounds, links that may fail at any message, fair (65 thousand states, 100 s) | **SyncCatchesUp**: a node that starts with a part of its peer's chain gets that chain, block by block, unless a sync message did not arrive or it made or took other blocks meanwhile; **ProducersProgress** |
| `rpc` | 2 requests at a time, 3 in all, one address and one text that is none, a payment, the one after it and one that does not verify, a peer's transaction, blocks of 2, 2 blocks, 3 clock readings, cooldown 2 (1.2 million states, 1 min) | **TypeOK**, **GrantsAreSpaced**, **PaymentsAreMarked**, **CopiesBounded**, **NoFutureNonces**, **NothingLost** |
| `tasks` | the five tasks of a node and one request at a time, channels of one message, SyncResponses with 0 or 2 blocks that follow (1.2 million states, 90 s) | **TypeOK**, **LockProgress**, **OnlyJamStalls** |
| `pacemaker` | 3 validators, methods of `main.rs`, fair | violated: **LeaderIsReplaced** |
| `sync_dup` | 2 connected nodes, one starts twice, within 60 s, fair | violated: **DownloadsMissed** |
| `fork` | 3 nodes, no crash, no loss | violated: **Agreement** |
| `cert` | 3 nodes exchanging proposals and votes | violated: **CertifiesItsBlock** |
| `replay` | 2 nodes, a client, no crash, no loss | violated: **TransactionsOnce** |

Why the bounds are enough: two nodes give every kind of interleaving the handlers can
see, since a handler looks at one message and one chain; rounds 0 to 2 let each of two
nodes lead, accept, and produce again on an accepted block; two runs give a crash at every
point and a restart. In `engine`, four validators is the smallest set with f > 0, where
a quorum is not one vote; certificates of rounds 0 to 2 are older than, of, and ahead of the
NewView and the engine they meet in rounds 0 and 1. In `sync` every publish reaches its
peer or not, so that a node may sync after any part of what it missed was announced to it
in vain. In `ledger` the grants (9 and 4) and the modulus (16) stand in
the order of 900 000 000, 100 000 000 and 2^64: each balance can be exceeded, and a sum
can wrap. In `rpc` two requests pass a check together, and the third comes after a
cooldown, or finds two copies, or a mempool beyond the size of a block. In `tasks` a
channel of one message is full after one message, the five tasks are there already, and a
request takes each lock in the presence of all of them. `consensus` has no crash: a
restart computes the world state anew, so the question is whether the running node keeps
it up to date. Every safety property that a passing run finds to hold on
these instances is also proved, for all others.

**Fairness** (`VelaNode!Fairness`): weak fairness of the producer, the handler and the
start-up sync of each node. They are tokio tasks in endless loops: a timer fires, a
message in the channel is taken, a lock is granted in the end: tokio's queues are fair,
and no circle of tasks waits for each other's locks (`LocksProgress`). The exception is
the jam of section 4, which VelaNode does not have, because its channels are unbounded:
its liveness is about nodes whose channels do not fill up. Nothing forces
a node to start, crash or flush, or a client to send. `HotStuffNode!Fairness` says that
each proposal and each vote that keeps being sent is handled in the end.

### Where code and documents disagree

* **Agreement** – `docs/whitepaper.html:134`: "It also gives you deterministic finality.
  Once a block is committed, it's done." A leader appends its block at once
  (`main.rs:309`) and a peer appends any block of the next height (`main.rs:173`); two
  nodes that produce before they hear of each other keep different blocks of one height.
* **CertifiesItsBlock** – `hotstuff.rs:10`: "Safety: a block is committed only when 2f+1
  validators voted in all 3 phases"; `types.rs:225`: "A QC proves that 2f+1 validators
  signed a vote for a block". `form_qc` names the block of one of the votes
  (`hotstuff.rs:277`) and `commit_block` takes whatever block is pending
  (`hotstuff.rs:282`). Nor does the engine look whether a voter is a validator: the
  quorums of `NoPhaseSkipped` and `ThreeQuorums` are of different *voters*, and that is
  all that holds.
* **LeaderIsReplaced** – `hotstuff.rs:11`: "Liveness: view-change (pacemaker) replaces
  slow/faulty leader". Nothing calls `handle_new_view`, the only way to a new round: the
  engine enters Decide once, with a block or without one, and stays there.
* **TransactionsOnce** – `types.rs:95`, on the nonce: "prevents replay attacks".
  `apply_block` looks at the balance only (`state.rs:76`), and a transaction is in the
  mempool of every node (`main.rs:189`), so two leaders execute it twice.
* **DownloadsMissed** in `sync_dup` – `docs/run-node.html:132`: "On startup, your node will
  connect to the public peer, send a sync request, and download all blocks it missed".
  Messages are identified by their bytes (`network/mod.rs:79`): a peer that has seen the
  same request within a minute, or has sent it itself, does not deliver it, and nothing
  sends it again. Any other failure of that one publish, or of the answer's, has the same
  effect. `SyncCatchesUp` is what is left of the promise: it holds when both arrive.
* The faucet, without a run of its own – `docs/whitepaper.html:196`: "a 24-hour cooldown
  per address"; `rpc/mod.rs:226`: "Faucet cooldown: 24 hours between requests".
  `GrantsAreSpaced` is weaker, as the code is: requests that check together are all
  granted; a restart forgets every grant (`state.rs:127`); after the clock is set back the
  subtraction wraps and grants at once (`state.rs:117`); and the cooldown belongs to the
  text of the request, so that an address written in two ways has two.

### What the properties leave open

The model has these behaviours, and no property excludes them, because the code does not:

* a transfer whose amount + fee wraps mints (`state.rs:76`); `SupplyIsCapped` is about
  states in which none has been executed;
* what a block finds beyond its limit is dropped (`main.rs:290`); `NothingLost` is about
  states in which no block has;
* a transaction whose nonce is late by the time it is included is executed all the same:
  `NoFutureNonces` is an upper bound;
* blocks that a crashed node had announced and not flushed are known to its peers and not
  to itself, and it may make others in their place; `ImplementsLog` is about each node's
  own log and disk;
* the early grants of the faucet and the forks of the list above.

## 4. What is proved

With TLAPS, for any values of the constants that satisfy the named assumptions of the
modules (`ValidatorCount`, `HotStuffAssumption`, `WorldStateAssumption`,
`LedgerAssumption`, `VelaAssumption`, `RpcAssumption`, `NodeTasksAssumption`): any number
of validators, requests and accounts, any bounds. `WorldStateAssumption` says that the
accounts are finitely many (they are the keys of a `HashMap`), that the supply of genesis
fits into a `u64`, and that amounts and fees of transactions do.

| module | theorem | says |
|---|---|---|
| VelaNodeProofs | `TypeCorrect` | `Spec => []TypeOK` |
| | `HashesUnique` | `Spec => []HashIdentifiesBlock` |
| | `VotesAreNamed` | `Spec => []VotesNameTheirBlock` |
| VelaChainProofs | `StoresAreOrdered` | `Spec => []StoredChain` |
| | `ChainsAreWhole` | `Spec => []ChainIsWhole` |
| | `NodesImplementLog` | `Spec => ImplementsLog` |
| | `StatesReplayable` | `Spec => []StateMatchesChain` |
| | `NoOverdraft` | `Spec => [](\A n \in Validators : ws[n] \in WorldStates)`: no balance below zero or beyond a `u64` |
| | `NetworkMintsNothing` | `Spec => []SupplyHolds`: balances of a chain without wrapping transactions are within the supply |
| LedgerProofs | `LedgerTypes` | `Spec => []TypeOK` |
| | `ValueConserved` | `Spec => []Conservation` |
| | `SupplyCapped` | `Spec => []SupplyIsCapped` |
| | `NoncesCount` | `Spec => []NoncesCountTransactions` |
| MerkleProofs | `RootBindsAll` | lists without repetition, of any lengths, with equal roots are equal |
| | `RepeatHides` | a list of odd length above one has the root of the one with its last entry once more |
| HotStuffProofs | `TypeCorrect` | `Spec => []TypeOK` |
| | `PhasesAreEarned` | `Spec => []NoPhaseSkipped` |
| | `CommitsAreCertified` | `Spec => ThreeQuorums` |
| | `LocksNeverRegress` | `Spec => CertificatesNeverRegress` |
| NodeTasksProofs | `TypeCorrect` | `Spec => []TypeOK` |
| | `LocksProgress` | `Spec => []LockProgress` |
| | `NothingElseStalls` | `Spec => []OnlyJamStalls` |
| | `JamsAreForever` | `Spec => JamIsForever` |
| RpcProofs | `NoUnmarkedPayment` | `Spec => []PaymentsAreMarked` |
| | `CopiesAreBounded` | `Spec => []CopiesBounded` |
| | `CooldownsHold` | `Spec => []GrantsAreSpaced` |
| | `AcceptedIsKept` | `Spec => []NothingLost` |
| | `RpcTypes` | `Spec => []TypeOK` |
| | `NothingWaitsAhead` | `Spec => []NoFutureNonces` |

### The network of nodes

1. `Typed` adds to the type invariant that a running node has a chain: the tip is read
   without a test (`main.rs:287`). It is inductive; one step for each action.
2. `HashIdentifiesBlock` is not inductive: nothing in it says that a round is not used
   twice. `RoundDiscipline` does. A validator leads the rounds that are its index modulo
   N, so blocks of one round have one maker; a block made in the present run of its maker
   is of a round its producer has passed (`PastRound`: before the counter, or the counter
   itself while the block is being announced); earlier runs carry another stamp. The
   counter starts from the chain, from blocks of others: it never starts at 0, so that
   nothing collides with genesis.
3. `ChainSteps` sorts all actions into those that leave chains and stores alone, `Boot`,
   `Crash`, `Flush`, and steps where a node takes a block on top of its chain (`Grows`).
   `SaveIsAppend` shows that sled's insert by key is then an append. From these,
   `StoredChain` is inductive: only `Flush` writes to the disk, and what it writes extends
   what is there.
4. `ChainIsWhole` needs that stores lack only unsaved heights while a node is down, and
   that a node that is down has no chain (`Whole`); `ImplementsLog` follows step by step,
   each action being a step of ChainLog or a stutter.
5. `VotesNameTheirBlock` is inductive once types are added: votes reach an engine through
   the network only (`NetHeard`), and all it holds was taken from them (`HoldsOnly`, one
   lemma for each method), certificates included.

### The engine

The methods are operators on the engine's record, so the invariant `Good(h)` and what a
step may do, `Allowed(h, g)`, are predicates on records, with one lemma for each method.
The properties of the runs are not inductive: they need that the votes of a phase are a
finite set of verified votes, one for each voter (`Tallied`: otherwise a quorum could be
one voter counted three times), that the lock has a quorum of such votes and is of a round
the engine has reached (`LockIsEarned`: otherwise `advance_round` could make an old lock
current), and that the votes and the lock of the phases passed are still there
(`PhaseHolds`). Nothing is assumed of `high_qc`, nor of the certificates in NewViews: the
lock is always a certificate the engine has just formed of votes it verified.

### The tasks of a node

`TaskInv` says that every task keeps to a discipline in all it has ahead of it. Locks are
taken downwards in the order blocks, mempool, world_state, others (`Rank`), locks of the
last kind are held at no await, each task sends to one channel (`Outlet`), and only the
handler does so while it holds a lock. This is checked program by program. In the queue of
a lock stand only tasks that wait for it, each once. Then the lowest lock with a queue is
held by a task that is not waiting, or its head can be served: `LockProgress`.
For `OnlyJamStalls`: at a standstill every chain of waiting ends at a task that waits for
room in a channel; only the handler does that with a lock; p2p empties `tx_out` unless it
waits for room in `tx_in`, and the handler empties `tx_in` unless it waits for room in
`tx_out`. `JamsAreForever` says that this jam (`main.rs:184` with `network/mod.rs:182`)
never ends: neither of the two can be dropped, and nobody else makes room.

### The RPC server

What is known of requests (`RequestsOK`) and of the state they share (`SharedOK`) is
common to four invariants of their own.

* `PaidInv`: payments made plus requests about to make one are no more than the grants.
* `CopiesInv`: copies in the mempool plus requests that have looked for it in vain and are
  about to push it are no more than the requests served at a time, because a request that
  looks now finds a copy if there is one.
* `GrantsInv`: the grants of a text are in the order of time; as long as less than a
  cooldown has passed since one of them, the later ones and the requests that have passed
  the check and not marked yet are, together, fewer than the requests served at a time
  (`FewCheckers`): all of them passed before that grant.
* `KeptInv`: what was accepted is in the mempool or included; what is about to be accepted
  is in the mempool, included or lost to a block that overflowed.

* `AccountsInv`: the accounts are well formed, what requests carry and what waits in the
  mempool are payments, and their nonce is at most one above the sender's (`Timely`),
  which survives because nonces only grow while blocks are executed and a restart, after
  which they are smaller, empties the mempool. `RpcTypes` and `NothingWaitsAhead` follow.

### The world state

`apply_block` and the replay of a chain are loops, so what they do to lists of any length
is proved by induction. The library's induction theorems take the property as an operator,
which the provers cannot instantiate; WorldStateProofs derives from the well-foundedness
of `<` an induction over a *set* of numbers (`LeastElement`, `Induct`), and over subsets of
a finite set (`NoMinimalSubset`). A recursive function is first shown to exist (as the
one that satisfies its equation, by induction on its domain); after that it may be unfolded.

* Sums over a finite set change by what one entry changes (`DebitSums`, `CreditSums`):
  a debit and a credit touch one account each, which may be the same one. So a transaction
  either is skipped, or takes its fee out of the sum of the balances, plus a multiple of
  the modulus: of 0, unless its amount + fee wraps, or a balance does.
* `LedgerInv` keeps this as an equation over the integers: balances + burned fees =
  supply + a multiple of the modulus, and the multiple is 0 as long as nothing has
  wrapped. The second half needs the first: balances that add up to the supply cannot
  exceed a `u64`, so a credit does not wrap (`ApplyTxSums`). `ValueConserved` is the
  equation modulo `U64`, `SupplyCapped` its case 0.
* In VelaNode the world state comes from whatever blocks a node accepted or reloaded. That
  it is the replay of the chain (`StatesReplayable`) is inductive once running and stopped
  nodes are told apart (`StateInv`): a crash leaves neither chain nor state. Then
  `ReplayBacked` says of the replay of *any* blocks that balances are `u64` values, and
  that they add up to no more than the supply unless some transaction wraps
  (`NoneWraps`): `NoOverdraft` and `NetworkMintsNothing`.

### The Merkle root

The levels of the loop are again a recursive function. A level of leaves without repetition
stays without repetition when it is paired up, and two levels without repetition that pair
up to the same are the same: a pair of equal hashes can only be the last, filled up one
(`PairUpInjective`). So from a common root one can walk back level by level
(`LevelsMeet`), to the leaves of both lists at once, because a leaf is no pair
(`FirstTime`). `RepeatHides` shows that the hypothesis is needed. All this takes blake3
for collision-free.

**Not proved, only model-checked.** The liveness properties `SyncCatchesUp` and
`ProducersProgress`: fairness and ENABLED are out of the prover's reach.

## 5. Not modelled

* How connections come about: listening, mDNS, dialling and redialling are libp2p's. In
  VelaNode a connection that is not there is a publish that misses a peer (`LinksMayFail`).
* The value of `peer_count` and what the read-only endpoints put into their answers; their
  locks are in NodeTasks. `current_round` is never written.
* The bytes of hashes, signatures and messages, and messages that do not decode.
* `Mempool` (`mempool/mod.rs`), `crypto/mod.rs` and `HotStuffMsg::Timeout`: no code uses
  them.
* The CLI wallet and the web pages: clients, whose requests are inputs of Rpc.

`PROJECT.json` gives the reason for each component.

## 6. Plan

Done: types, engine, world state, Merkle roots, network of nodes, refinement, RPC server,
tasks with their locks and channels, and the theorems above. What could follow:

1. **HotStuffCluster** – several engines that exchange `Propose`, `Vote` and `NewView` as
   `hotstuff.rs:4-8` describes. `main.rs` never drives them that way, so it would be about
   the engine as a library: agreement of committed blocks, and for which validator sets
   quorums intersect in a correct validator.
2. Liveness of NodeTasks under fair scheduling: a task that waits for a lock gets it, as
   long as the channels do not jam. The state space of the run `tasks` is too large for
   TLC's liveness check; a smaller set of endpoints would have to be argued for.
3. Rpc inside VelaNode: a payment from the request to the chains of all nodes.
