----------------------------- MODULE MCHotStuff -----------------------------
(* Instances of HotStuffNode for TLC. *)
EXTENDS HotStuffNode

Child(parent, round, stamp) ==
  [height |-> parent.height + 1, parent |-> Hash(parent), round |-> round,
   stamp |-> stamp, txs |-> << >>]

(* Two blocks on genesis and a child of the first. *)
B1 == Child(Genesis, 1, 1)
B2 == Child(Genesis, 2, 1)
B3 == Child(B1, 3, 1)

ForkedProposals == {B1, B2}
ChainedProposals == {B1, B3}
MCVoteHashes == {Hash(B1), Hash(B2)}
MCChainHashes == {Hash(B1), Hash(B3)}

(* What NewViews carry: certificates that every validator signed and       *)
(* certificates that nobody signed, of rounds up to one after the last     *)
(* that a NewView announces.                                               *)
MCReceivedQCs ==
  {QuorumCert(hash, round, {Sign(hash, round, k) : k \in signers}) :
     hash \in MCVoteHashes, round \in 0 .. MaxRound + 1, signers \in {{}, Validators}}

NoQCs == {}
=============================================================================
