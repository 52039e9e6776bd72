--------------------------- MODULE HotStuffEngine ---------------------------
(***************************************************************************)
(* The consensus engine of consensus/hotstuff.rs as operators on the state *)
(* record of one HotStuffNode.  Every method becomes an operator from the  *)
(* engine's state (and the method's arguments) to a set of replies         *)
(* [hs |-> the state after the call, out |-> the message returned].        *)
(* The set has more than one element only where the method depends on the  *)
(* iteration order of a HashMap (form_qc).                                 *)
(***************************************************************************)
EXTENDS VelaTypes, FiniteSets, Integers

CONSTANT N   \* number of validators: validator_set.len()

ASSUME ValidatorCount == N \in Nat \ {0}

Validators == 0 .. N - 1

-----------------------------------------------------------------------------
(* ConsensusConfig *)

F == (N - 1) \div 3

QuorumSize == 2 * F + 1

IsLeader(round, index) == round % N = index

-----------------------------------------------------------------------------
(* HotStuffNode: its state, and the messages its methods return *)

NewHotStuff ==
  [round |-> 0, phase |-> "Prepare", locked_qc |-> {}, high_qc |-> {},
   prepare_votes |-> {}, precommit_votes |-> {}, commit_votes |-> {},
   committed |-> <<[block |-> Genesis, qc |-> {}]>>, pending |-> {}]

ProposeMsg(block, qc)  == [type |-> "Propose", block |-> block, high_qc |-> qc]
VoteMsg(vote)          == [type |-> "Vote", vote |-> vote]
NewViewMsg(round, qc)  == [type |-> "NewView", round |-> round, high_qc |-> qc]

Reply(hs, out) == [hs |-> hs, out |-> out]

Tip(hs) == hs.committed[Len(hs.committed)].block

(* Mutant: votes are kept in a list, two of one voter count twice.         *)
InsertAgain(votes, vote) == votes \cup {vote}

(***************************************************************************)
(* A vote map is a HashMap from voters to votes: a later vote of the same  *)
(* voter replaces the earlier one.                                         *)
(***************************************************************************)
Insert(votes, vote) == {v \in votes : v.voter # vote.voter} \cup {vote}

(***************************************************************************)
(* form_qc takes the certified hash from the first vote of the map, which  *)
(* is any of them: a HashMap is iterated in an arbitrary order.  Neither   *)
(* the hashes nor the rounds of the votes are compared.                    *)
(***************************************************************************)
FormQC(round, votes) == {QuorumCert(v.hash, round, votes) : v \in votes}

ClearVotes(hs) ==
  [hs EXCEPT !.prepare_votes = {}, !.precommit_votes = {}, !.commit_votes = {}]

(* commit_block commits the pending block, whatever block qc certifies.    *)
CommitBlock(hs, qc) ==
  IF hs.pending = {} THEN hs
  ELSE LET block == CHOOSE b \in hs.pending : TRUE
       IN  [ClearVotes(hs) EXCEPT
              !.committed = Append(hs.committed, [block |-> block, qc |-> {qc}]),
              !.pending = {}]

AdvanceRound(hs, round) ==
  [ClearVotes(hs) EXCEPT !.round = round, !.phase = "Prepare", !.pending = {}]

-----------------------------------------------------------------------------
(* The methods *)

(* propose: the caller leads the engine's round (an assertion of the code, *)
(* a guard here).  The votes of an earlier proposal of the round are kept. *)
Propose(hs, txs, stamp) ==
  LET block == [height |-> Tip(hs).height + 1, parent |-> Hash(Tip(hs)),
                round |-> hs.round, stamp |-> stamp, txs |-> txs]
  IN  {Reply([hs EXCEPT !.pending = {block}, !.phase = "Prepare"],
             {ProposeMsg(block, hs.high_qc)})}

(* handle_propose: rejects a block that is not a child of the locked one.  *)
ExtendsLock(hs, block) == \A qc \in hs.locked_qc : block.parent = qc.hash

(* Mutant: a second proposal does not replace the pending one.             *)
HandleProposeQueues(hs, key, block) ==
  {Reply([hs EXCEPT !.pending = @ \cup {block}], {VoteMsg(Sign(Hash(block), hs.round, key))})}

HandlePropose(hs, key, block) ==
  IF ExtendsLock(hs, block)
  THEN {Reply([hs EXCEPT !.pending = {block}],
              {VoteMsg(Sign(Hash(block), hs.round, key))})}
  ELSE {Reply(hs, {})}

(* handle_vote, one operator for each phase the engine can be in.          *)
VoteInPrepare(hs, vote) ==
  LET votes == Insert(hs.prepare_votes, vote)
      next  == [hs EXCEPT !.prepare_votes = votes]
  IN  IF Cardinality(votes) < QuorumSize THEN {Reply(next, {})}
      ELSE {Reply([next EXCEPT !.high_qc = {qc}, !.phase = "PreCommit"],
                  {NewViewMsg(hs.round, qc)}) : qc \in FormQC(hs.round, votes)}

(* Mutant: the engine does not lock.                                       *)
VoteInPreCommitUnlocked(hs, vote) ==
  LET votes == Insert(hs.precommit_votes, vote)
      next  == [hs EXCEPT !.precommit_votes = votes]
  IN  IF Cardinality(votes) < QuorumSize THEN {Reply(next, {})}
      ELSE {Reply([next EXCEPT !.phase = "Commit"],
                  {NewViewMsg(hs.round, qc)}) : qc \in FormQC(hs.round, votes)}

VoteInPreCommit(hs, vote) ==
  LET votes == Insert(hs.precommit_votes, vote)
      next  == [hs EXCEPT !.precommit_votes = votes]
  IN  IF Cardinality(votes) < QuorumSize THEN {Reply(next, {})}
      ELSE {Reply([next EXCEPT !.locked_qc = {qc}, !.phase = "Commit"],
                  {NewViewMsg(hs.round, qc)}) : qc \in FormQC(hs.round, votes)}

VoteInCommit(hs, vote) ==
  LET votes == Insert(hs.commit_votes, vote)
      next  == [hs EXCEPT !.commit_votes = votes]
  IN  IF Cardinality(votes) < QuorumSize THEN {Reply(next, {})}
      ELSE {Reply(CommitBlock([next EXCEPT !.phase = "Decide"], qc),
                  {NewViewMsg(hs.round + 1, qc)}) : qc \in FormQC(hs.round, votes)}

HandleVote(hs, vote) ==
  IF ~Verify(vote) THEN {Reply(hs, {})}
  ELSE CASE hs.phase = "Prepare"   -> VoteInPrepare(hs, vote)
         [] hs.phase = "PreCommit" -> VoteInPreCommit(hs, vote)
         [] hs.phase = "Commit"    -> VoteInCommit(hs, vote)
         [] OTHER                  -> {Reply(hs, {})}

(* Mutant: any certificate is adopted.                                     *)
HandleNewViewAdopting(hs, key, round, qc) ==
  LET seen == [hs EXCEPT !.high_qc = {qc}]
  IN  IF round > hs.round THEN {Reply(AdvanceRound(seen, round), {})}
      ELSE {Reply(seen, {VoteMsg(Sign(Hash(b), hs.round, key)) : b \in hs.pending})}

(* handle_new_view: adopts a certificate that is not older than the one    *)
(* held, then moves to a later round or votes for the pending block.       *)
HandleNewView(hs, key, round, qc) ==
  LET fresh == \A q \in hs.high_qc : qc.round >= q.round
      seen  == IF fresh THEN [hs EXCEPT !.high_qc = {qc}] ELSE hs
  IN  IF round > hs.round THEN {Reply(AdvanceRound(seen, round), {})}
      ELSE {Reply(seen, {VoteMsg(Sign(Hash(b), hs.round, key)) : b \in hs.pending})}
=============================================================================
