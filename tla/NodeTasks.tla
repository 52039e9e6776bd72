----------------------------- MODULE NodeTasks -----------------------------
(***************************************************************************)
(* The tasks of one node process (main.rs, network/mod.rs, rpc/mod.rs) at  *)
(* the grain of their awaits: which guard or channel each of them waits    *)
(* for, in which order, holding what.  The data behind the locks and in    *)
(* the messages is left out (VelaNode and Rpc have it): every outcome of a *)
(* condition on it is a job of its own.                                    *)
(***************************************************************************)
EXTENDS Awaits, Naturals, Sequences, SequencesExt

CONSTANTS
  Request,         \* the requests the RPC server works on at a time
  ChannelSize,     \* the bound of tx_in, tx_out and tx_broadcast (256)
  Batches          \* how many blocks of a SyncResponse may follow the tip

ASSUME NodeTasksAssumption ==
  /\ Request \cap {"handler", "producer", "sync", "txs", "p2p"} = {}
  /\ ChannelSize \in Nat \ {0}
  /\ Batches \subseteq Nat

VARIABLES todo, queue, len

Task == {"handler", "producer", "sync", "txs", "p2p"} \cup Request

Lock == {"blocks", "mempool", "world_state", "hotstuff", "peer_count", "current_round"}

(* tx_in: peers' messages; tx_out: messages for peers; tx_broadcast:       *)
(* transactions the RPC server has accepted.                               *)
Channel == {"in", "out", "broadcast"}

-----------------------------------------------------------------------------
(* The handler of peer messages *)

(* A block that follows the tip is applied and voted for, with the chain   *)
(* locked all the while; another one is dropped.                           *)
OnNewBlock ==
  {Job({"in"}, <<Take(W("blocks"), {}),
                 Take(W("world_state"), {W("blocks")}),
                 Take(R("hotstuff"), {W("blocks")}),
                 Send("out", {W("blocks")})>>),
   Job({"in"}, <<Take(W("blocks"), {})>>)}

OnNewTransaction == {Job({"in"}, <<Take(W("mempool"), {})>>)}

OnConsensusVote ==
  {Job({"in"}, <<Take(W("hotstuff"), {}), Send("out", {})>>),
   Job({"in"}, <<Take(W("hotstuff"), {})>>)}

(* Mutant: the engine is still locked when the vote is signed. *)
OnConsensusProposeLocked ==
  {Job({"in"}, <<Take(W("hotstuff"), {}), Take(R("hotstuff"), {W("hotstuff")}), Send("out", {})>>),
   Job({"in"}, <<Take(W("hotstuff"), {})>>)}

OnConsensusPropose ==
  {Job({"in"}, <<Take(W("hotstuff"), {}), Take(R("hotstuff"), {}), Send("out", {})>>),
   Job({"in"}, <<Take(W("hotstuff"), {})>>)}

OnSyncRequest ==
  {Job({"in"}, <<Take(R("blocks"), {}), Send("out", {R("blocks")})>>),
   Job({"in"}, <<Take(R("blocks"), {})>>)}

OnSyncResponse ==
  {Job({"in"}, <<Take(W("blocks"), {})>>
                 \o [i \in 1 .. k |-> Take(W("world_state"), {W("blocks")})]) : k \in Batches}

HandlerJobs ==
  OnNewBlock \cup OnNewTransaction \cup OnConsensusVote \cup OnConsensusPropose
    \cup OnSyncRequest \cup OnSyncResponse

-----------------------------------------------------------------------------
(* The other tasks main spawns *)

StartProducer == <<Take(R("blocks"), {})>>

(* A round the node leads; in the others it awaits nothing. *)
Produce ==
  {Job({}, <<Take(W("blocks"), {}),
             Take(W("mempool"), {W("blocks")}),
             Take(W("world_state"), {W("blocks"), W("mempool")}),
             Send("out", {}),
             Send("out", {})>>)}

StartupSync == <<Take(R("blocks"), {}), Send("out", {})>>

BroadcastTx == {Job({"broadcast"}, <<Send("out", {})>>)}

(* P2PNode::run: publish a message, forward one, or count the peers. *)
P2PRun ==
  {Job({"out"}, << >>),
   Job({}, <<Send("in", {})>>),
   Job({}, <<Take(W("peer_count"), {})>>)}

-----------------------------------------------------------------------------
(* The RPC server *)

(* Mutant: the world state is locked before the chain. *)
GetStatusStateFirst ==
  {Job({}, <<Take(R("peer_count"), {}),
             Take(R("world_state"), {}),
             Take(R("blocks"), {R("world_state")}),
             Take(R("mempool"), {R("blocks"), R("world_state")}),
             Take(R("current_round"), {R("blocks"), R("mempool"), R("world_state")})>>)}

GetStatus ==
  {Job({}, <<Take(R("peer_count"), {}),
             Take(R("blocks"), {}),
             Take(R("mempool"), {R("blocks")}),
             Take(R("world_state"), {R("blocks"), R("mempool")}),
             Take(R("current_round"), {R("blocks"), R("mempool"), R("world_state")})>>)}

GetBlock        == {Job({}, <<Take(R("blocks"), {})>>)}
GetTransactions == {Job({}, <<Take(R("blocks"), {})>>)}
GetTx           == {Job({}, <<Take(R("blocks"), {})>>)}
GetBalance      == {Job({}, <<Take(R("world_state"), {})>>)}
GetValidators   == {Job({}, <<Take(R("current_round"), {})>>)}

(* Granted, or refused for the cooldown or the address. *)
PostFaucet ==
  {Job({}, <<Take(R("world_state"), {}),
             Take(R("world_state"), {}),
             Take(W("world_state"), {}),
             Take(W("mempool"), {}),
             Send("broadcast", {})>>),
   Job({}, <<Take(R("world_state"), {})>>)}

(* Accepted, or refused for the state or as a duplicate. *)
PostSendTx ==
  {Job({}, <<Take(R("world_state"), {}),
             Take(R("mempool"), {}),
             Take(W("mempool"), {}),
             Send("broadcast", {})>>),
   Job({}, <<Take(R("world_state"), {})>>),
   Job({}, <<Take(R("world_state"), {}), Take(R("mempool"), {})>>)}

(* make_router *)
RequestJobs ==
  GetStatus \cup GetBlock \cup GetTransactions \cup GetTx \cup GetBalance
    \cup GetValidators \cup PostFaucet \cup PostSendTx

-----------------------------------------------------------------------------
LoopOf(t) ==
  CASE t = "handler"  -> HandlerJobs
    [] t = "producer" -> Produce
    [] t = "sync"     -> {}
    [] t = "txs"      -> BroadcastTx
    [] t = "p2p"      -> P2PRun
    [] OTHER          -> RequestJobs

FirstOf(t) ==
  CASE t = "producer" -> StartProducer
    [] t = "sync"     -> StartupSync
    [] OTHER          -> << >>

(* hyper drops the future of a request whose client hangs up. *)
INSTANCE Tasks
  WITH Capacity <- [c \in Channel |-> ChannelSize],
       First <- [t \in Task |-> FirstOf(t)],
       Loop <- [t \in Task |-> LoopOf(t)],
       Cancellable <- Request

-----------------------------------------------------------------------------
(* Properties *)

(* Type invariant; no channel holds more than it has room for. *)
TypeOK == TasksOK

AtSend(t, c) == Sending(t) /\ Head(todo[t]).chan = c /\ len[c] = ChannelSize

(* The handler waits for room in tx_out and p2p, which makes it, waits for *)
(* room in tx_in, which the handler makes.                                 *)
Jammed == AtSend("handler", "out") /\ AtSend("p2p", "in")

(***************************************************************************)
(* OnlyJamStalls: whatever the tasks and the requests do, in whatever      *)
(* order they are scheduled and wherever clients hang up, the one way a    *)
(* process can come to a standstill is the jam.                            *)
(***************************************************************************)
OnlyJamStalls == Stalled => Jammed
=============================================================================
