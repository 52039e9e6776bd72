---------------------------- MODULE HotStuffNode ----------------------------
(***************************************************************************)
(* One consensus engine (consensus/hotstuff.rs) driven through its public  *)
(* methods, in any order and with any arguments that come from peers.      *)
(* Api says which methods are called: the node's main loop only ever calls *)
(* handle_propose and handle_vote, the other methods are there for a       *)
(* caller that is not written yet.  No method verifies a certificate, and  *)
(* none compares its round with anything but that of high_qc.              *)
(***************************************************************************)
EXTENDS HotStuffEngine, SequencesExt

CONSTANTS
  Self,        \* validator index of the engine
  Api,         \* the methods that are called
  Proposals,   \* blocks other validators may propose
  VoteHashes,  \* hashes that votes may carry
  Voters,      \* keys that sign votes: nothing limits them to validators
  VoteRounds,  \* rounds that votes may carry
  ReceivedQCs, \* certificates NewViews may carry, earned or not
  MaxRound,    \* bound on the rounds of NewView messages
  MaxCommits   \* bound on the blocks the engine has committed

Methods == {"propose", "handle_propose", "handle_vote", "handle_new_view"}

(* The methods main.rs calls. *)
MainCalls == {"handle_propose", "handle_vote"}

Vote == [hash : HashType, round : Nat, voter : Voters \cup Validators,
         signer : Voters \cup Validators]

Certificate == [hash : HashType, round : Nat, votes : SUBSET Vote]

ASSUME HotStuffAssumption ==
  /\ Self \in Validators
  /\ Api \subseteq Methods
  /\ Proposals \subseteq Block
  /\ VoteHashes \subseteq HashType
  /\ VoteRounds \subseteq Nat
  /\ ReceivedQCs \subseteq Certificate
  /\ MaxRound \in Nat
  /\ MaxCommits \in Nat

VARIABLE hs   \* the HotStuffNode

-----------------------------------------------------------------------------
Init == hs = NewHotStuff

Becomes(replies) == \E r \in replies : hs' = r.hs

CallPropose ==
  /\ "propose" \in Api
  /\ IsLeader(hs.round, Self)
  /\ Becomes(Propose(hs, << >>, Len(hs.committed) + 1))

CallHandlePropose(block) ==
  /\ "handle_propose" \in Api
  /\ Becomes(HandlePropose(hs, Self, block))

CallHandleVote(hash, round, voter, signer) ==
  /\ "handle_vote" \in Api
  /\ Len(hs.committed) <= MaxCommits
  /\ Becomes(HandleVote(hs, [hash |-> hash, round |-> round,
                             voter |-> voter, signer |-> signer]))

(* Neither the round nor the certificate of a NewView is checked, and      *)
(* nothing relates one to the other.                                       *)
CallHandleNewView(round, qc) ==
  /\ "handle_new_view" \in Api
  /\ Becomes(HandleNewView(hs, Self, round, qc))

Next ==
  \/ CallPropose
  \/ \E block \in Proposals : CallHandlePropose(block)
  \/ \E hash \in VoteHashes, round \in VoteRounds, voter, signer \in Voters :
       CallHandleVote(hash, round, voter, signer)
  \/ \E round \in 0 .. MaxRound, qc \in ReceivedQCs : CallHandleNewView(round, qc)

Spec == Init /\ [][Next]_hs

(***************************************************************************)
(* Every message that keeps being gossiped is handled in the end: the      *)
(* handler task of main.rs takes messages off its channel forever.         *)
(***************************************************************************)
Fairness ==
  /\ \A block \in Proposals : WF_hs(CallHandlePropose(block))
  /\ \A hash \in VoteHashes, round \in VoteRounds, voter \in Voters :
       WF_hs(CallHandleVote(hash, round, voter, voter))

FairSpec == Spec /\ Fairness

-----------------------------------------------------------------------------
(* Properties *)

IsOption(o, S) == o \subseteq S /\ \A x, y \in o : x = y

(* Type invariant: the engine's record keeps the shape of struct           *)
(* HotStuffNode; an Option holds at most one value.                        *)
TypeOK ==
  /\ hs.round \in Nat
  /\ hs.phase \in {"Prepare", "PreCommit", "Commit", "Decide"}
  /\ IsOption(hs.locked_qc, Certificate)
  /\ IsOption(hs.high_qc, Certificate)
  /\ hs.prepare_votes \subseteq Vote
  /\ hs.precommit_votes \subseteq Vote
  /\ hs.commit_votes \subseteq Vote
  /\ hs.committed \in Seq([block : Block, qc : SUBSET Certificate])
  /\ Len(hs.committed) > 0
  /\ IsOption(hs.pending, Block)

OneVotePerVoter(votes) == \A v, w \in votes : v.voter = w.voter => v = w

IsQuorum(votes) ==
  /\ OneVotePerVoter(votes)
  /\ \A v \in votes : Verify(v)
  /\ Cardinality(votes) >= QuorumSize

(***************************************************************************)
(* handle_vote never skips a phase: an engine in PreCommit or Commit has   *)
(* collected a quorum of verified votes of different voters in each        *)
(* earlier phase of its round, and what was collected is not thrown away   *)
(* half way (by propose, commit_block or advance_round).                   *)
(***************************************************************************)
NoPhaseSkipped ==
  /\ hs.phase \in {"PreCommit", "Commit"} => IsQuorum(hs.prepare_votes)
  /\ hs.phase = "Commit" => IsQuorum(hs.precommit_votes)

(***************************************************************************)
(* commit_block runs only on three quorums of verified votes of different  *)
(* voters, collected by the engine itself in the round it is in: its       *)
(* prepare votes, the certificate it is locked on and the certificate the  *)
(* block is stored with, however votes, proposals and NewViews interleave  *)
(* and whatever the NewViews carry.                                        *)
(***************************************************************************)
ThreeQuorums ==
  [][hs'.committed # hs.committed =>
       /\ IsQuorum(hs.prepare_votes)
       /\ \E qc \in hs.locked_qc : qc.round = hs.round /\ IsQuorum(qc.votes)
       /\ \E qc \in Last(hs'.committed).qc : qc.round = hs.round /\ IsQuorum(qc.votes)]_hs

(* The engine forms a certificate of its round from its prepare votes.     *)
FormsPrepareQC(p) ==
  /\ hs.phase = "Prepare" /\ hs'.phase = "PreCommit"
  /\ p.round = hs.round /\ IsQuorum(p.votes)

(***************************************************************************)
(* The lock (hotstuff.rs "LOCK HERE") is never dropped, never replaced by  *)
(* one of an earlier round and never one without a quorum, by any method,  *)
(* a change of round and NewViews with forged certificates included.  The  *)
(* highest certificate, which is whatever a NewView carried, is never      *)
(* dropped either, and goes back to an earlier round only when the engine  *)
(* forms a certificate itself.                                             *)
(***************************************************************************)
CertificatesNeverRegress ==
  [][/\ \A q \in hs.locked_qc : \E p \in hs'.locked_qc : p.round >= q.round
     /\ \A p \in hs'.locked_qc : IsQuorum(p.votes)
     /\ \A q \in hs.high_qc : \E p \in hs'.high_qc :
          p.round >= q.round \/ FormsPrepareQC(p)]_hs

(***************************************************************************)
(* What hotstuff.rs says of the engine ("Liveness: view-change (pacemaker) *)
(* replaces slow/faulty leader"): it does not stay in one round forever.   *)
(***************************************************************************)
LeaderIsReplaced == \A r \in 0 .. MaxRound : (hs.round = r) ~> (hs.round > r)
=============================================================================
