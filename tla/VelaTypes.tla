------------------------------ MODULE VelaTypes ------------------------------
(***************************************************************************)
(* The data of types.rs that the other modules share: blocks, votes and    *)
(* quorum certificates, with what the properties do not tell apart left    *)
(* out (state_root and proposer are the same constants in every header,    *)
(* tx_root is a function of the transactions).                             *)
(*                                                                         *)
(* An Option is a set with at most one element: None is {} and Some(x) is  *)
(* {x}.                                                                    *)
(***************************************************************************)
EXTENDS Naturals, Sequences

CONSTANT Tx   \* the transactions that can exist

(***************************************************************************)
(* Hashes.  BlockHeader::hash is a collision-free digest of the header,    *)
(* and round and timestamp already tell any two headers apart              *)
(* (VelaNode!HashIdentifiesBlock), so a hash is that pair.  The timestamp  *)
(* of a block is abstracted to a stamp: the number of the run of the       *)
(* process that made it, since two runs never make a block in the same     *)
(* millisecond of the same round.  Genesis carries a fixed stamp.          *)
(***************************************************************************)
HashType == Nat \X Nat
ZERO     == <<0, 0>>

Block == [height : Nat, parent : HashType, round : Nat, stamp : Nat, txs : Seq(Tx)]

Hash(block) == <<block.round, block.stamp>>

Genesis == [height |-> 0, parent |-> ZERO, round |-> 0, stamp |-> 1, txs |-> << >>]

(***************************************************************************)
(* Votes.  A signature is abstracted to the key that made it; it verifies  *)
(* when that key is the one the vote names as its voter.  Nothing links    *)
(* the voter to the validator set.                                         *)
(***************************************************************************)
Sign(hash, round, key) == [hash |-> hash, round |-> round, voter |-> key, signer |-> key]

Verify(vote) == vote.signer = vote.voter

(* QuorumCert: the votes are kept as a set, at most one for each voter.    *)
QuorumCert(hash, round, votes) == [hash |-> hash, round |-> round, votes |-> votes]
=============================================================================
