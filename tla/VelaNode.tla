------------------------------ MODULE VelaNode ------------------------------
(***************************************************************************)
(* A network of Vela nodes: main.rs with the parts it wires together.      *)
(* Every node runs four tasks that share its chain, world state, mempool   *)
(* and consensus engine: the block producer, the handler of peer messages, *)
(* the start-up sync and the RPC server.  An action is what a task does    *)
(* between two points where another task can interfere; a task that holds  *)
(* the write lock of the chain across an await keeps the others off it     *)
(* (LockFree).                                                             *)
(*                                                                         *)
(* Messages travel by gossip: unordered, lost when a node is down or (with *)
(* LinksMayFail) not reached, and never delivered at all as far as safety  *)
(* goes (nothing forces a message to be handled).  A node can crash        *)
(* between any two steps; it then loses everything except the blocks sled  *)
(* has flushed.                                                            *)
(***************************************************************************)
EXTENDS HotStuffEngine, WorldState

CONSTANTS
  Topics,         \* the gossip topics that deliver: messages on others are lost
  RememberSeen,   \* gossipsub's duplicate cache has not expired (60 s)
  LinksMayFail,   \* a publish may miss peers that are up, or fail altogether
  MayCrash,       \* the nodes that can crash (the disk of others is never read back)
  SaveMayFail,    \* the nodes where save_block may return an error, which is ignored
  BlockTxLimit,   \* transactions taken into a block (100)
  HasClients,     \* the nodes whose RPC server has clients
  Submissions,    \* transactions clients send to the RPC servers
  MaxMempool,     \* bound on the length of a mempool
  MaxRound,       \* bound on the rounds producers go through
  MaxRuns         \* bound on the number of times a node is started

ASSUME VelaAssumption ==
  /\ Topics \subseteq {"blocks", "transactions", "consensus"}
  /\ RememberSeen \in BOOLEAN
  /\ LinksMayFail \in BOOLEAN
  /\ MayCrash \subseteq Validators
  /\ SaveMayFail \subseteq Validators
  /\ BlockTxLimit \in Nat \ {0}
  /\ Submissions \subseteq Tx
  /\ MaxMempool \in Nat
  /\ MaxRound \in Nat
  /\ MaxRuns \in Nat

VARIABLES
  up,        \* up[n]: the process of node n is running
  run,       \* run[n]: how many times it has been started
  (* shared state of a process (NodeState, hotstuff); empty while down *)
  blocks,    \* blocks[n]: the chain
  ws,        \* ws[n]: the world state
  mempool,   \* mempool[n]: transactions waiting for a block
  hs,        \* hs[n]: the consensus engine
  (* local variables of the tasks *)
  pc,        \* pc[n]: where the producer is
  round,     \* round[n]: the producer's round counter
  made,      \* made[n]: the block the producer made last
  syncDue,   \* syncDue[n]: the start-up sync request has not been sent yet
  handling,  \* handling[n]: blocks of a SyncResponse the handler has still to look at
  (* storage: sled's map from heights to blocks, in the order of its keys *)
  db,        \* db[n]: what the process reads back
  disk,      \* disk[n]: what survives a crash
  (* the gossip network *)
  net,       \* net[n]: messages on their way to n
  seen,      \* seen[n]: n's duplicate cache
  (* history *)
  lost,      \* lost[n]: sync messages published while n was up that n did not get
  minted,    \* every block any producer has ever made
  unsaved    \* unsaved[n]: the heights at which n's last save_block failed

chainVars == <<blocks, ws, db, unsaved>>
taskVars  == <<pc, round, made, syncDue, handling>>
netVars   == <<net, seen, lost>>
vars == <<up, run, blocks, ws, mempool, hs, pc, round, made, syncDue, handling,
          db, disk, net, seen, lost, minted, unsaved>>

-----------------------------------------------------------------------------
(* Messages *)

(* Mutant: the block is stamped anew when it is sent. *)
RestampedNewBlock(block) == [type |-> "NewBlock", block |-> [block EXCEPT !.stamp = @ + 1]]

NewBlock(block)         == [type |-> "NewBlock", block |-> block]
NewTransaction(tx)      == [type |-> "NewTransaction", tx |-> tx]
ConsensusVote(vote)     == [type |-> "ConsensusVote", vote |-> vote]
ConsensusPropose(block) == [type |-> "ConsensusPropose", block |-> block]
SyncRequest(h)          == [type |-> "SyncRequest", from_height |-> h]
SyncResponse(bs)        == [type |-> "SyncResponse", blocks |-> bs]

(* Mutant: the vote carries the round of the engine. *)
VoteInEngineRound(n, block) == ConsensusVote(Sign(Hash(block), hs[n].round, n))

(* The vote n casts for a block it has accepted, or that was proposed. *)
VoteFor(n, block) == ConsensusVote(Sign(Hash(block), block.round, n))

TopicOf(m) ==
  CASE m.type \in {"NewBlock", "SyncRequest", "SyncResponse"} -> "blocks"
    [] m.type = "NewTransaction" -> "transactions"
    [] OTHER -> "consensus"

(***************************************************************************)
(* gossipsub: a message is identified by its bytes.  publish refuses one   *)
(* that is still in the sender's duplicate cache, and a peer that has it   *)
(* in its own cache does not deliver it again.  It also fails when there   *)
(* is no peer to send to, or none connected yet, and when the message is   *)
(* too large; the error is dropped.  A peer that is up is missed when the  *)
(* connection to it is not there.                                          *)
(***************************************************************************)
UpPeers(n) == {p \in Validators \ {n} : up[p]}

Reachable(n) == IF LinksMayFail THEN SUBSET UpPeers(n) ELSE {UpPeers(n)}

Published(n, ms, reached) ==
  {m \in ms : TopicOf(m) \in Topics /\ m \notin seen[n] /\ reached # {}}

(* What p gets of the messages ms that n publishes. *)
Delivered(n, p, ms, reached) ==
  IF p \in reached THEN Published(n, ms, reached) \ seen[p] ELSE {}

NetAfter(n, consumed, ms, reached) ==
  [p \in Validators |->
     IF p = n THEN net[n] \ consumed ELSE net[p] \cup Delivered(n, p, ms, reached)]

SyncMessages(ms) == {m \in ms : m.type \in {"SyncRequest", "SyncResponse"}}

(* n takes the messages in consumed off its channel and publishes ms. *)
Exchange(n, consumed, ms) ==
  \E reached \in Reachable(n) :
    /\ net' = NetAfter(n, consumed, ms, reached)
    /\ seen' = [p \in Validators |->
                  IF RememberSeen /\ p \in reached \cup {n}
                  THEN seen[p] \cup Published(n, ms, reached) ELSE seen[p]]
    /\ lost' = [p \in Validators |->
                  IF p \in UpPeers(n)
                  THEN lost[p] \cup (SyncMessages(ms) \ Delivered(n, p, ms, reached)) ELSE lost[p]]

Publish(n, ms) == Exchange(n, {}, ms)

-----------------------------------------------------------------------------
(* Storage (storage/db.rs) *)

Elements(seq) == {seq[i] : i \in DOMAIN seq}

Below(chain, h) == Cardinality({i \in DOMAIN chain : chain[i].height < h})
UpTo(chain, h)  == Cardinality({i \in DOMAIN chain : chain[i].height <= h})

(* sled's insert: the block replaces the one stored under its height, or   *)
(* takes its place in the order of heights.                                *)
SaveBlock(store, block) ==
  SubSeq(store, 1, Below(store, block.height))
    \o <<block>>
    \o SubSeq(store, UpTo(store, block.height) + 1, Len(store))

-----------------------------------------------------------------------------
(* The chain (NodeState.blocks) *)

TipOf(n) == blocks[n][Len(blocks[n])]

(* The write lock of the chain is free: the handler is not half way        *)
(* through a SyncResponse.                                                 *)
LockFree(n) == up[n] /\ handling[n] = << >>

(* The one check a block has to pass to be accepted: mutants let a block   *)
(* in that leaves a gap, or that replaces the tip.                         *)
FollowsWithGap(n, block) == block.height > TipOf(n).height
FollowsOrReplaces(n, block) == block.height - TipOf(n).height \in {0, 1}

Follows(n, block) == block.height = TipOf(n).height + 1

(* Mutant: the block is pushed and saved, but not applied. *)
AcceptUnapplied(n, block) ==
  /\ blocks' = [blocks EXCEPT ![n] = Append(blocks[n], block)]
  /\ db' = [db EXCEPT ![n] = SaveBlock(db[n], block)]
  /\ UNCHANGED <<ws, unsaved>>

(* The three calls with which a block enters a node: apply_block, then     *)
(* save_block with its error ignored, then push.                           *)
Accept(n, block) ==
  /\ ws' = [ws EXCEPT ![n] = ApplyBlock(ws[n], block)]
  /\ blocks' = [blocks EXCEPT ![n] = Append(blocks[n], block)]
  /\ \/ /\ db' = [db EXCEPT ![n] = SaveBlock(db[n], block)]
        /\ unsaved' = [unsaved EXCEPT ![n] = @ \ {block.height}]
     \/ /\ n \in SaveMayFail
        /\ db' = db
        /\ unsaved' = [unsaved EXCEPT ![n] = @ \cup {block.height}]

(* Mutant: the first missing block is left out. *)
AboveNext(chain, h) == SubSeq(chain, UpTo(chain, h) + 2, Len(chain))

(* The blocks above a height.  Heights increase along a chain, so the      *)
(* filter of the SyncRequest handler keeps a suffix.                       *)
Above(chain, h) == SubSeq(chain, UpTo(chain, h) + 1, Len(chain))

-----------------------------------------------------------------------------
(* The process *)

Init ==
  /\ up = [n \in Validators |-> FALSE]
  /\ run = [n \in Validators |-> 0]
  /\ blocks = [n \in Validators |-> << >>]
  /\ ws = [n \in Validators |-> NewWorldState]
  /\ mempool = [n \in Validators |-> << >>]
  /\ hs = [n \in Validators |-> NewHotStuff]
  /\ pc = [n \in Validators |-> "start"]
  /\ round = [n \in Validators |-> 0]
  /\ made = [n \in Validators |-> Genesis]
  /\ syncDue = [n \in Validators |-> FALSE]
  /\ handling = [n \in Validators |-> << >>]
  /\ db = [n \in Validators |-> << >>]
  /\ disk = [n \in Validators |-> << >>]
  /\ net = [n \in Validators |-> {}]
  /\ seen = [n \in Validators |-> {}]
  /\ lost = [n \in Validators |-> {}]
  /\ minted = {}
  /\ unsaved = [n \in Validators |-> {}]

(* Mutant: the chain starts anew whatever is stored. *)
LoadedFresh(n) == <<Genesis>>

(* What main finds in the database, after it has stored genesis in an      *)
(* empty one.                                                              *)
Loaded(n) == IF disk[n] = << >> THEN <<Genesis>> ELSE disk[n]

(* main: open the database, load and replay its blocks (or store genesis), *)
(* create the engine and spawn the tasks.                                  *)
Boot(n) ==
  /\ ~up[n] /\ run[n] < MaxRuns
  /\ blocks' = [blocks EXCEPT ![n] = Loaded(n)]
  /\ db' = [db EXCEPT ![n] = Loaded(n)]
  /\ ws' = [ws EXCEPT ![n] = Replay(Loaded(n))]
  /\ up' = [up EXCEPT ![n] = TRUE]
  /\ run' = [run EXCEPT ![n] = @ + 1]
  /\ syncDue' = [syncDue EXCEPT ![n] = TRUE]
  /\ UNCHANGED <<mempool, hs, pc, round, made, handling, disk, minted, unsaved>>
  /\ UNCHANGED netVars

(* The process dies; what sled had not flushed is gone. *)
Crash(n) ==
  /\ up[n] /\ n \in MayCrash
  /\ up' = [up EXCEPT ![n] = FALSE]
  /\ blocks' = [blocks EXCEPT ![n] = << >>]
  /\ ws' = [ws EXCEPT ![n] = NewWorldState]
  /\ mempool' = [mempool EXCEPT ![n] = << >>]
  /\ hs' = [hs EXCEPT ![n] = NewHotStuff]
  /\ pc' = [pc EXCEPT ![n] = "start"]
  /\ round' = [round EXCEPT ![n] = 0]
  /\ made' = [made EXCEPT ![n] = Genesis]
  /\ syncDue' = [syncDue EXCEPT ![n] = FALSE]
  /\ handling' = [handling EXCEPT ![n] = << >>]
  /\ db' = [db EXCEPT ![n] = disk[n]]
  /\ net' = [net EXCEPT ![n] = {}]
  /\ seen' = [seen EXCEPT ![n] = {}]
  /\ UNCHANGED <<run, disk, lost, minted, unsaved>>

(* sled's background flush: writes reach the disk in the order they were   *)
(* made.                                                                   *)
Flush(n) ==
  /\ up[n] /\ n \in MayCrash /\ disk[n] # db[n]
  /\ disk' = [disk EXCEPT ![n] = db[n]]
  /\ UNCHANGED <<up, run, mempool, hs, minted>> /\ UNCHANGED chainVars
  /\ UNCHANGED taskVars /\ UNCHANGED netVars

-----------------------------------------------------------------------------
(* The block producer *)

(* Mutant: the producer starts in the round of the last block. *)
RoundOfTip(n) == TipOf(n).round

(* The producer starts in the round after that of the last block. *)
FirstRound(n) == TipOf(n).round + 1

StartProducer(n) ==
  /\ LockFree(n) /\ pc[n] = "start"
  /\ round' = [round EXCEPT ![n] = FirstRound(n)]
  /\ pc' = [pc EXCEPT ![n] = "sleep"]
  /\ UNCHANGED <<up, run, mempool, hs, made, syncDue, handling, disk, minted>>
  /\ UNCHANGED chainVars /\ UNCHANGED netVars

(* mempool.drain(..).take(100): what is not taken is dropped. *)
Taken(pool) ==
  SubSeq(pool, 1, IF Len(pool) < BlockTxLimit THEN Len(pool) ELSE BlockTxLimit)

NextBlock(n) ==
  [height |-> TipOf(n).height + 1, parent |-> Hash(TipOf(n)), round |-> round[n],
   stamp |-> run[n], txs |-> Taken(mempool[n])]

(* A tick in a round the node leads. *)
Produce(n) ==
  /\ LockFree(n) /\ pc[n] = "sleep" /\ round[n] <= MaxRound
  /\ IsLeader(round[n], n)
  /\ Accept(n, NextBlock(n))
  /\ mempool' = [mempool EXCEPT ![n] = << >>]
  /\ made' = [made EXCEPT ![n] = NextBlock(n)]
  /\ minted' = minted \cup {NextBlock(n)}
  /\ pc' = [pc EXCEPT ![n] = "propose"]
  /\ UNCHANGED <<up, run, hs, round, syncDue, handling, disk>> /\ UNCHANGED netVars

(* Mutant: a broadcast that reaches no peer stops the producer. *)
AnnounceProposeToPeers(n) ==
  /\ up[n] /\ pc[n] = "propose"
  /\ \E p \in Validators \ {n} : up[p]
  /\ Publish(n, {ConsensusPropose(made[n])})
  /\ pc' = [pc EXCEPT ![n] = "announce"]
  /\ UNCHANGED <<up, run, mempool, hs, round, made, syncDue, handling, disk, minted>>
  /\ UNCHANGED chainVars

AnnouncePropose(n) ==
  /\ up[n] /\ pc[n] = "propose"
  /\ Publish(n, {ConsensusPropose(made[n])})
  /\ pc' = [pc EXCEPT ![n] = "announce"]
  /\ UNCHANGED <<up, run, mempool, hs, round, made, syncDue, handling, disk, minted>>
  /\ UNCHANGED chainVars

AnnounceBlock(n) ==
  /\ up[n] /\ pc[n] = "announce"
  /\ Publish(n, {NewBlock(made[n])})
  /\ pc' = [pc EXCEPT ![n] = "sleep"]
  /\ round' = [round EXCEPT ![n] = @ + 1]
  /\ UNCHANGED <<up, run, mempool, hs, made, syncDue, handling, disk, minted>>
  /\ UNCHANGED chainVars

(* A tick in a round another node leads. *)
SkipRound(n) ==
  /\ up[n] /\ pc[n] = "sleep" /\ round[n] <= MaxRound
  /\ ~IsLeader(round[n], n)
  /\ round' = [round EXCEPT ![n] = @ + 1]
  /\ UNCHANGED <<up, run, mempool, hs, pc, made, syncDue, handling, disk, minted>>
  /\ UNCHANGED chainVars /\ UNCHANGED netVars

-----------------------------------------------------------------------------
(* The start-up sync: one request, two seconds after the start *)

StartupSync(n) ==
  /\ LockFree(n) /\ syncDue[n]
  /\ Publish(n, {SyncRequest(TipOf(n).height)})
  /\ syncDue' = [syncDue EXCEPT ![n] = FALSE]
  /\ UNCHANGED <<up, run, mempool, hs, pc, round, made, handling, disk, minted>>
  /\ UNCHANGED chainVars

-----------------------------------------------------------------------------
(* The handler of peer messages: one message at a time *)

Receives(n, m, type) == LockFree(n) /\ m \in net[n] /\ m.type = type

(* NewBlock: a block of the next height is accepted and voted for.         *)
(* Neither its parent nor its leader nor any certificate is checked.       *)
OnNewBlock(n, m) ==
  /\ Receives(n, m, "NewBlock")
  /\ \/ /\ Follows(n, m.block)
        /\ Accept(n, m.block)
        /\ Exchange(n, {m}, {VoteFor(n, m.block)})
     \/ /\ ~Follows(n, m.block)
        /\ Exchange(n, {m}, {})
        /\ UNCHANGED chainVars
  /\ UNCHANGED <<up, run, mempool, hs, disk, minted>> /\ UNCHANGED taskVars

(* NewTransaction: pushed without any check. *)
OnTransaction(n, m) ==
  /\ Receives(n, m, "NewTransaction")
  /\ Len(mempool[n]) < MaxMempool
  /\ mempool' = [mempool EXCEPT ![n] = Append(@, m.tx)]
  /\ Exchange(n, {m}, {})
  /\ UNCHANGED <<up, run, hs, disk, minted>> /\ UNCHANGED chainVars /\ UNCHANGED taskVars

(* ConsensusVote: the engine's answer is not sent; a placeholder is.       *)
OnVote(n, m) ==
  /\ Receives(n, m, "ConsensusVote")
  /\ \E r \in HandleVote(hs[n], m.vote) :
       /\ hs' = [hs EXCEPT ![n] = r.hs]
       /\ Exchange(n, {m}, {NewBlock(Genesis) : out \in r.out})
  /\ UNCHANGED <<up, run, mempool, disk, minted>> /\ UNCHANGED chainVars
  /\ UNCHANGED taskVars

(* ConsensusPropose: the vote sent is signed anew, for the block's round.  *)
OnPropose(n, m) ==
  /\ Receives(n, m, "ConsensusPropose")
  /\ \E r \in HandlePropose(hs[n], n, m.block) :
       /\ hs' = [hs EXCEPT ![n] = r.hs]
       /\ Exchange(n, {m}, {VoteFor(n, m.block) : out \in r.out})
  /\ UNCHANGED <<up, run, mempool, disk, minted>> /\ UNCHANGED chainVars
  /\ UNCHANGED taskVars

(* SyncRequest: answered, to everybody, when there is something to send.   *)
OnSyncRequest(n, m) ==
  /\ Receives(n, m, "SyncRequest")
  /\ LET missing == Above(blocks[n], m.from_height)
     IN  Exchange(n, {m}, IF missing = << >> THEN {} ELSE {SyncResponse(missing)})
  /\ UNCHANGED <<up, run, mempool, hs, disk, minted>> /\ UNCHANGED chainVars
  /\ UNCHANGED taskVars

(* SyncResponse: the handler takes the lock of the chain, and keeps it     *)
(* while it goes through the blocks (SyncStep).                            *)
OnSyncResponse(n, m) ==
  /\ Receives(n, m, "SyncResponse")
  /\ handling' = [handling EXCEPT ![n] = m.blocks]
  /\ Exchange(n, {m}, {})
  /\ UNCHANGED <<up, run, mempool, hs, pc, round, made, syncDue, disk, minted>>
  /\ UNCHANGED chainVars

SyncStep(n) ==
  /\ up[n] /\ handling[n] # << >>
  /\ handling' = [handling EXCEPT ![n] = Tail(@)]
  /\ \/ Follows(n, Head(handling[n])) /\ Accept(n, Head(handling[n]))
     \/ ~Follows(n, Head(handling[n])) /\ UNCHANGED chainVars
  /\ UNCHANGED <<up, run, mempool, hs, pc, round, made, syncDue, disk, minted>>
  /\ UNCHANGED netVars

Handle(n, m) ==
  \/ OnNewBlock(n, m)
  \/ OnTransaction(n, m)
  \/ OnVote(n, m)
  \/ OnPropose(n, m)
  \/ OnSyncRequest(n, m)
  \/ OnSyncResponse(n, m)

Handler(n) == SyncStep(n) \/ \E m \in net[n] : Handle(n, m)

-----------------------------------------------------------------------------
(* The RPC server: post_send_tx, and the task that broadcasts what it      *)
(* accepts.  Balance and nonce are checked against the committed state.    *)
SubmitTx(n, tx) ==
  /\ n \in HasClients
  /\ up[n] /\ Len(mempool[n]) < MaxMempool
  /\ ws[n].accounts[tx.from].balance >= Cost(tx)
  /\ ws[n].accounts[tx.from].nonce + 1 = tx.nonce
  /\ \A i \in DOMAIN mempool[n] : mempool[n][i] # tx
  /\ mempool' = [mempool EXCEPT ![n] = Append(@, tx)]
  /\ Publish(n, {NewTransaction(tx)})
  /\ UNCHANGED <<up, run, hs, disk, minted>> /\ UNCHANGED chainVars /\ UNCHANGED taskVars

-----------------------------------------------------------------------------
Producer(n) ==
  \/ StartProducer(n)
  \/ Produce(n)
  \/ AnnouncePropose(n)
  \/ AnnounceBlock(n)
  \/ SkipRound(n)

Next ==
  \E n \in Validators :
    \/ Boot(n)
    \/ Crash(n)
    \/ Flush(n)
    \/ Producer(n)
    \/ StartupSync(n)
    \/ Handler(n)
    \/ \E tx \in Submissions : SubmitTx(n, tx)

Spec == Init /\ [][Next]_vars

(***************************************************************************)
(* The tasks run forever: a producer's timer fires, the handler takes      *)
(* messages off its channel and a lock is granted in the end.  Nothing     *)
(* makes a process start, crash or flush, or a client send.                *)
(***************************************************************************)
Fairness ==
  \A n \in Validators :
    /\ WF_vars(Producer(n))
    /\ WF_vars(StartupSync(n))
    /\ WF_vars(Handler(n))

FairSpec == Spec /\ Fairness

-----------------------------------------------------------------------------
(* Properties *)

(* The blocks a chain can hold. *)
Existing == minted \cup {Genesis}

Vote == [hash : HashType, round : Nat, voter : Validators, signer : Validators]

(* Heights from which a sync can be asked for are heights of blocks. *)
Message ==
  [type : {"NewBlock", "ConsensusPropose"}, block : Existing]
    \cup [type : {"NewTransaction"}, tx : Tx]
    \cup [type : {"ConsensusVote"}, vote : Vote]
    \cup [type : {"SyncRequest"}, from_height : Nat]
    \cup [type : {"SyncResponse"}, blocks : Seq(Existing)]

(***************************************************************************)
(* Type invariant.  No block is forged on the way: what a node's chain,    *)
(* its storage, its half-handled SyncResponse and the messages to it hold  *)
(* are blocks some producer made (and genesis).  ws and hs have type       *)
(* invariants of their own (Ledger, HotStuffNode).                         *)
(***************************************************************************)
TypeOK ==
  /\ up \in [Validators -> BOOLEAN]
  /\ run \in [Validators -> Nat]
  /\ blocks \in [Validators -> Seq(Existing)]
  /\ mempool \in [Validators -> Seq(Tx)]
  /\ pc \in [Validators -> {"start", "sleep", "propose", "announce"}]
  /\ round \in [Validators -> Nat]
  /\ made \in [Validators -> Existing]
  /\ syncDue \in [Validators -> BOOLEAN]
  /\ handling \in [Validators -> Seq(Existing)]
  /\ db \in [Validators -> Seq(Existing)]
  /\ disk \in [Validators -> Seq(Existing)]
  /\ net \in [Validators -> SUBSET Message]
  /\ seen \in [Validators -> SUBSET Message]
  /\ lost \in [Validators -> SUBSET Message]
  /\ minted \subseteq Block
  /\ unsaved \in [Validators -> SUBSET Nat]

(***************************************************************************)
(* HashIdentifiesBlock: of all blocks ever made by any node, in any of its *)
(* runs, no two have the same hash; no validator makes two blocks for a    *)
(* round in one run, although its round counter is reset to a value read   *)
(* from its chain at every start and other nodes' blocks may carry any     *)
(* round.  Votes and certificates name blocks by their hash.               *)
(***************************************************************************)
HashIdentifiesBlock ==
  \A b, c \in Existing : Hash(b) = Hash(c) => b = c

Increasing(chain) ==
  \A i, j \in DOMAIN chain : i < j => chain[i].height < chain[j].height

(***************************************************************************)
(* StoredChain: heights strictly increase along every chain and in every   *)
(* store, a store never holds a block above the tip of the running chain,  *)
(* and what survives a crash is a prefix of what was stored, whatever      *)
(* saves fail and wherever crashes strike: so save_block never overwrites  *)
(* a block, and a chain can be reloaded.                                   *)
(***************************************************************************)
StoredChain ==
  \A n \in Validators :
    /\ Increasing(blocks[n]) /\ Increasing(db[n])
    /\ up[n] => /\ blocks[n] # << >>
                /\ \A i \in DOMAIN db[n] : db[n][i].height <= TipOf(n).height
    /\ IsPrefix(disk[n], db[n])

(* The block of height h is in n's store, and in its chain. *)
Holds(n, h) ==
  \E i \in DOMAIN db[n] : db[n][i].height = h /\ db[n][i] \in Elements(blocks[n])

(***************************************************************************)
(* ChainIsWhole: between genesis and its tip, a running node misses only   *)
(* heights at which it failed to save a block: every other one is in its   *)
(* chain and, the same block, in its store.  A failed save costs the block *)
(* it was for and no other, after any restart and whatever NewBlock and    *)
(* SyncResponse messages arrived in whatever order.                        *)
(***************************************************************************)
ChainIsWhole ==
  \A n \in Validators : up[n] =>
    \A h \in 0 .. TipOf(n).height : h \in unsaved[n] \/ Holds(n, h)

(***************************************************************************)
(* ImplementsLog: a network of nodes implements what ChainLog promises:    *)
(* chains are the logs and disks their stable parts, from which blocks are *)
(* missing only where saves may fail.  So a block that has reached the     *)
(* disk of a node is never replaced or lost there, whatever peers send.    *)
(***************************************************************************)
Log == INSTANCE ChainLog
         WITH Node <- Validators, First <- Genesis, Lossy <- SaveMayFail,
              entries <- minted, log <- blocks, stable <- disk

ImplementsLog == Log!Spec

(***************************************************************************)
(* StateMatchesChain: the world state a node answers queries from is what  *)
(* replaying its chain from nothing gives, so a restart (main.rs           *)
(* recomputes it) changes no balance other than by the blocks that were    *)
(* lost.                                                                   *)
(***************************************************************************)
StateMatchesChain == \A n \in Validators : up[n] => ws[n] = Replay(blocks[n])

(***************************************************************************)
(* VotesNameTheirBlock: every vote, on its way or counted by an engine, is *)
(* for a block that some leader made and carries that block's round, on    *)
(* both paths that cast votes (the NewBlock and the ConsensusPropose       *)
(* handlers): the two votes of a node for one block are one message.       *)
(***************************************************************************)
Cast(vote) == \E b \in Existing : vote.hash = Hash(b) /\ vote.round = b.round

VotesNameTheirBlock ==
  \A n \in Validators :
    /\ \A m \in net[n] : m.type = "ConsensusVote" => Cast(m.vote)
    /\ \A v \in hs[n].prepare_votes \cup hs[n].precommit_votes \cup hs[n].commit_votes : Cast(v)
    /\ \A qc \in hs[n].high_qc \cup hs[n].locked_qc : \A v \in qc.votes : Cast(v) /\ v.voter # n

(***************************************************************************)
(* Whitepaper: "deterministic finality. Once a block is committed, it's    *)
(* done."  Two nodes never hold different blocks of one height.            *)
(***************************************************************************)
Agreement ==
  \A m, n \in Validators : \A b \in Elements(blocks[m]), c \in Elements(blocks[n]) :
    b.height = c.height => b = c

(***************************************************************************)
(* types.rs: "A QC proves that 2f+1 validators signed a vote for a block". *)
(* The certificate an engine stores in a block is for that block.          *)
(***************************************************************************)
CertifiesItsBlock ==
  \A n \in Validators : \A i \in DOMAIN hs[n].committed :
    \A qc \in hs[n].committed[i].qc : qc.hash = Hash(hs[n].committed[i].block)

(***************************************************************************)
(* types.rs, on the nonce: "prevents replay attacks".  No account pays     *)
(* twice for one transaction: in a chain, a transaction is in one block,   *)
(* once.                                                                   *)
(***************************************************************************)
TransactionsOnce ==
  \A n \in Validators : \A i, j \in DOMAIN blocks[n] :
    \A k \in DOMAIN blocks[n][i].txs, l \in DOMAIN blocks[n][j].txs :
      blocks[n][i].txs[k] = blocks[n][j].txs[l] => i = j /\ k = l

(* When n starts, p has the blocks up to height k, and n a part of them.   *)
Misses(n, p, k) ==
  /\ up[n] /\ syncDue[n] /\ up[p]
  /\ TipOf(p).height >= k
  /\ IsPrefix(blocks[n], blocks[p])

Forked(n, p, k) ==
  \E b \in Elements(blocks[n]) : b.height <= k /\ b \notin Elements(blocks[p])

(* n has the blocks of p up to height k; or one of the two has stopped, or *)
(* n has another block at such a height by now, which it never gives up.   *)
CaughtUp(n, p, k) ==
  \/ ~up[n] \/ ~up[p]
  \/ \A b \in Elements(blocks[p]) : b.height <= k => b \in Elements(blocks[n])
  \/ Forked(n, p, k)

(***************************************************************************)
(* run-node.html: on start-up a node will "send a sync request, and        *)
(* download all blocks it missed".  The blocks a running peer has when a   *)
(* node starts, the node has in the end.                                   *)
(***************************************************************************)
DownloadsMissed ==
  \A n \in Validators : \A p \in Validators \ {n} : \A k \in 1 .. MaxRound :
    Misses(n, p, k) ~> CaughtUp(n, p, k)

(***************************************************************************)
(* SyncCatchesUp: what the code keeps of DownloadsMissed.  The node gets   *)
(* the blocks unless the one request did not reach the peer or an answer   *)
(* did not reach the node; blocks announced meanwhile, in any order or not *)
(* at all, and the producer running beside the sync do not get in the way. *)
(***************************************************************************)
SyncLost(n, p) ==
  \/ \E m \in lost[p] : m.type = "SyncRequest"
  \/ \E m \in lost[n] : m.type = "SyncResponse"

SyncCatchesUp ==
  \A n \in Validators : \A p \in Validators \ {n} : \A k \in 1 .. MaxRound :
    Misses(n, p, k) ~> (CaughtUp(n, p, k) \/ SyncLost(n, p))

(***************************************************************************)
(* Producers never stall: every running producer gets through its rounds,  *)
(* whether or not the leaders of the other rounds are up, and although it  *)
(* shares the lock of the chain with the handler.                          *)
(***************************************************************************)
ProducersProgress == \A n \in Validators : <>[](up[n] => round[n] > MaxRound)
=============================================================================
