--------------------------- MODULE HotStuffProofs ---------------------------
(***************************************************************************)
(* Theorems about one consensus engine (HotStuffNode), for any validator   *)
(* set, any blocks and votes, and its methods called in any order.         *)
(*                                                                         *)
(* The methods are operators on the engine's record, so the invariant and  *)
(* what a step may do are predicates on records too: Good(h), and          *)
(* Allowed(h, g) for a step from h to g.  There is one lemma for each      *)
(* method.                                                                 *)
(***************************************************************************)
EXTENDS HotStuffNode, SequenceTheorems, FiniteSetTheorems, TLAPS

Option(S) == {o \in SUBSET S : \A x, y \in o : x = y}

(* The fields of struct HotStuffNode and their types. *)
Engine ==
  [round : Nat, phase : {"Prepare", "PreCommit", "Commit", "Decide"},
   locked_qc : Option(Certificate), high_qc : Option(Certificate),
   prepare_votes : SUBSET Vote, precommit_votes : SUBSET Vote, commit_votes : SUBSET Vote,
   committed : Seq([block : Block, qc : SUBSET Certificate]), pending : Option(Block)]

(* What insertion keeps true of the votes of a phase. *)
Tallied(votes) ==
  /\ votes \in SUBSET Vote
  /\ IsFiniteSet(votes)
  /\ OneVotePerVoter(votes)
  /\ \A v \in votes : Verify(v)

(* The lock is a quorum's, and of no round after the engine's.  (Nothing   *)
(* of the kind is true of high_qc, which may be what a NewView carried.)   *)
LockIsEarned(h) == \A qc \in h.locked_qc : qc.round <= h.round /\ IsQuorum(qc.votes)

(* Past a phase, its votes are held, and past PreCommit a lock of the      *)
(* round.                                                                  *)
PhaseHolds(h) ==
  /\ h.phase \in {"PreCommit", "Commit"} => Cardinality(h.prepare_votes) >= QuorumSize
  /\ h.phase = "Commit" =>
       /\ Cardinality(h.precommit_votes) >= QuorumSize
       /\ \E qc \in h.locked_qc : qc.round = h.round

Good(h) ==
  /\ h \in Engine
  /\ h.committed # << >>
  /\ Tallied(h.prepare_votes) /\ Tallied(h.precommit_votes) /\ Tallied(h.commit_votes)
  /\ LockIsEarned(h)
  /\ PhaseHolds(h)

CommitsWithThree(h, g) ==
  g.committed # h.committed =>
    /\ IsQuorum(h.prepare_votes)
    /\ \E qc \in h.locked_qc : qc.round = h.round /\ IsQuorum(qc.votes)
    /\ \E qc \in Last(g.committed).qc : qc.round = h.round /\ IsQuorum(qc.votes)

(* The engine has formed p, a certificate of its round, in the step.       *)
Forms(h, g, p) ==
  /\ h.phase = "Prepare" /\ g.phase = "PreCommit"
  /\ p.round = h.round /\ IsQuorum(p.votes)

KeepsCertificates(h, g) ==
  /\ \A q \in h.locked_qc : \E p \in g.locked_qc : p.round >= q.round
  /\ \A p \in g.locked_qc : IsQuorum(p.votes)
  /\ \A q \in h.high_qc : \E p \in g.high_qc : p.round >= q.round \/ Forms(h, g, p)

Allowed(h, g) == Good(g) /\ CommitsWithThree(h, g) /\ KeepsCertificates(h, g)

-----------------------------------------------------------------------------
LEMMA QuorumType == QuorumSize \in Nat
BY ValidatorCount DEF QuorumSize, F

(* An engine that stays as it is, is allowed to. *)
LEMMA Stutters == ASSUME NEW h, Good(h) PROVE Allowed(h, h)
<1>1. KeepsCertificates(h, h)
  <2>1. \A q \in h.locked_qc \cup h.high_qc : q.round \in Nat
    BY DEF Good, Engine, Option, Certificate
  <2> QED BY <2>1 DEF KeepsCertificates, Good, LockIsEarned
<1> QED BY <1>1 DEF Allowed, CommitsWithThree

(* So is a step that leaves both certificates alone, as far as they go. *)
LEMMA KeepsBoth ==
  ASSUME NEW h, Good(h), NEW g, g.locked_qc = h.locked_qc, g.high_qc = h.high_qc
  PROVE  KeepsCertificates(h, g)
<1>1. \A q \in h.locked_qc \cup h.high_qc : q.round \in Nat
  BY DEF Good, Engine, Option, Certificate
<1> QED BY <1>1 DEF KeepsCertificates, Good, LockIsEarned

LEMMA Counts == ASSUME NEW votes, Tallied(votes) PROVE Cardinality(votes) \in Nat
BY FS_CardinalityType DEF Tallied

(* A verified vote put into the votes of a phase. *)
LEMMA InsertTallied ==
  ASSUME NEW votes, Tallied(votes), NEW vote \in Vote, Verify(vote)
  PROVE  Tallied(Insert(votes, vote))
<1> DEFINE others == {v \in votes : v.voter # vote.voter}
<1>1. IsFiniteSet(others \cup {vote})
  <2>1. IsFiniteSet(others)
    BY FS_Subset DEF Tallied
  <2> QED BY <2>1, FS_AddElement
<1>2. OneVotePerVoter(others \cup {vote})
  BY DEF Tallied, OneVotePerVoter
<1> QED BY <1>1, <1>2 DEF Tallied, Insert

LEMMA NoVotes == Tallied({})
BY FS_EmptySet DEF Tallied, OneVotePerVoter

(* The certificate of a quorum. *)
LEMMA CertificateType ==
  ASSUME NEW round \in Nat, NEW votes, Tallied(votes), NEW qc \in FormQC(round, votes)
  PROVE  /\ qc \in Certificate /\ {qc} \in Option(Certificate)
         /\ qc.round = round /\ qc.votes = votes
<1>1. PICK v \in votes : qc = QuorumCert(v.hash, round, votes)
  BY DEF FormQC
<1>2. qc \in Certificate
  BY <1>1 DEF QuorumCert, Certificate, Tallied, Vote
<1> QED BY <1>1, <1>2 DEF QuorumCert, Option

-----------------------------------------------------------------------------
(* handle_vote, phase by phase *)

LEMMA PreparePhase ==
  ASSUME NEW h, Good(h), h.phase = "Prepare", NEW vote \in Vote, Verify(vote),
         NEW r \in VoteInPrepare(h, vote)
  PROVE  Allowed(h, r.hs)
<1> DEFINE votes == Insert(h.prepare_votes, vote)
<1>0. h \in Engine
  BY DEF Good
<1>1. Tallied(votes) /\ votes \in SUBSET Vote /\ Cardinality(votes) \in Nat
  BY InsertTallied, Counts DEF Good, Tallied
<1> HIDE DEF votes
<1>2. CASE r.hs = [h EXCEPT !.prepare_votes = votes]
  <2> DEFINE g == r.hs
  <2>1. /\ g \in Engine
        /\ g.prepare_votes = votes /\ g.phase = "Prepare"
        /\ g.round = h.round /\ g.locked_qc = h.locked_qc /\ g.high_qc = h.high_qc
        /\ g.precommit_votes = h.precommit_votes /\ g.commit_votes = h.commit_votes
        /\ g.committed = h.committed
    BY <1>0, <1>1, <1>2 DEF Engine
  <2> HIDE DEF g
  <2>2. Good(g)
    BY <1>1, <2>1 DEF Good, LockIsEarned, PhaseHolds
  <2>3. CommitsWithThree(h, g) /\ KeepsCertificates(h, g)
    BY <2>1, KeepsBoth DEF CommitsWithThree
  <2> QED BY <2>2, <2>3 DEF Allowed, g
<1>3. ASSUME Cardinality(votes) >= QuorumSize, NEW qc \in FormQC(h.round, votes),
             r.hs = [[h EXCEPT !.prepare_votes = votes] EXCEPT !.high_qc = {qc}, !.phase = "PreCommit"]
      PROVE  Allowed(h, r.hs)
  <2> DEFINE g == r.hs
  <2>0. h.round \in Nat
    BY <1>0 DEF Engine
  <2>1. {qc} \in Option(Certificate) /\ qc.round = h.round /\ IsQuorum(qc.votes)
    BY <1>1, <1>3, <2>0, CertificateType DEF IsQuorum, Tallied
  <2>2. /\ g \in Engine
        /\ g.prepare_votes = votes /\ g.phase = "PreCommit"
        /\ g.round = h.round /\ g.locked_qc = h.locked_qc /\ g.high_qc = {qc}
        /\ g.precommit_votes = h.precommit_votes /\ g.commit_votes = h.commit_votes
        /\ g.committed = h.committed
    BY <1>0, <1>1, <1>3, <2>1 DEF Engine
  <2> HIDE DEF g
  <2>3. Good(g)
    BY <1>1, <1>3, <2>0, <2>1, <2>2 DEF Good, LockIsEarned, PhaseHolds
  <2>4. CommitsWithThree(h, g)
    BY <2>2 DEF CommitsWithThree
  <2>5. Forms(h, g, qc)
    BY <2>1, <2>2 DEF Forms
  <2>6. KeepsCertificates(h, g)
    BY <2>2, <2>5, Stutters DEF KeepsCertificates, Allowed
  <2> QED BY <2>3, <2>4, <2>6 DEF Allowed, g
<1>4. CASE Cardinality(votes) < QuorumSize
  <2>1. r \in {Reply([h EXCEPT !.prepare_votes = votes], {})}
    BY <1>4 DEF VoteInPrepare, votes
  <2> QED BY <1>2, <2>1 DEF Reply
<1>5. CASE ~(Cardinality(votes) < QuorumSize)
  <2>1. r \in {Reply([[h EXCEPT !.prepare_votes = votes] EXCEPT !.high_qc = {qc}, !.phase = "PreCommit"],
                     {NewViewMsg(h.round, qc)}) : qc \in FormQC(h.round, votes)}
    BY <1>5 DEF VoteInPrepare, votes
  <2>2. PICK qc \in FormQC(h.round, votes) :
          r = Reply([[h EXCEPT !.prepare_votes = votes] EXCEPT !.high_qc = {qc}, !.phase = "PreCommit"],
                    {NewViewMsg(h.round, qc)})
    BY <2>1
  <2>3. r.hs = [[h EXCEPT !.prepare_votes = votes] EXCEPT !.high_qc = {qc}, !.phase = "PreCommit"]
    BY <2>2 DEF Reply
  <2>4. Cardinality(votes) >= QuorumSize
    BY <1>1, <1>5, QuorumType
  <2> QED BY <1>3, <2>3, <2>4
<1> QED BY <1>4, <1>5

LEMMA PreCommitPhase ==
  ASSUME NEW h, Good(h), h.phase = "PreCommit", NEW vote \in Vote, Verify(vote),
         NEW r \in VoteInPreCommit(h, vote)
  PROVE  Allowed(h, r.hs)
<1> DEFINE votes == Insert(h.precommit_votes, vote)
<1>0. h \in Engine
  BY DEF Good
<1>1. Tallied(votes) /\ votes \in SUBSET Vote /\ Cardinality(votes) \in Nat
  BY InsertTallied, Counts DEF Good, Tallied
<1> HIDE DEF votes
<1>2. CASE r.hs = [h EXCEPT !.precommit_votes = votes]
  <2> DEFINE g == r.hs
  <2>1. /\ g \in Engine
        /\ g.precommit_votes = votes /\ g.phase = "PreCommit"
        /\ g.round = h.round /\ g.locked_qc = h.locked_qc /\ g.high_qc = h.high_qc
        /\ g.prepare_votes = h.prepare_votes /\ g.commit_votes = h.commit_votes
        /\ g.committed = h.committed
    BY <1>0, <1>1, <1>2 DEF Engine
  <2> HIDE DEF g
  <2>2. Good(g)
    BY <1>1, <2>1 DEF Good, LockIsEarned, PhaseHolds
  <2>3. CommitsWithThree(h, g) /\ KeepsCertificates(h, g)
    BY <2>1, KeepsBoth DEF CommitsWithThree
  <2> QED BY <2>2, <2>3 DEF Allowed, g
<1>3. ASSUME Cardinality(votes) >= QuorumSize, NEW qc \in FormQC(h.round, votes),
             r.hs = [[h EXCEPT !.precommit_votes = votes] EXCEPT !.locked_qc = {qc}, !.phase = "Commit"]
      PROVE  Allowed(h, r.hs)
  <2> DEFINE g == r.hs
  <2>0. h.round \in Nat
    BY <1>0 DEF Engine
  <2>1. {qc} \in Option(Certificate) /\ qc.round = h.round /\ IsQuorum(qc.votes)
    BY <1>1, <1>3, <2>0, CertificateType DEF IsQuorum, Tallied
  <2>2. /\ g \in Engine
        /\ g.precommit_votes = votes /\ g.phase = "Commit"
        /\ g.round = h.round /\ g.locked_qc = {qc} /\ g.high_qc = h.high_qc
        /\ g.prepare_votes = h.prepare_votes /\ g.commit_votes = h.commit_votes
        /\ g.committed = h.committed
    BY <1>0, <1>1, <1>3, <2>1 DEF Engine
  <2> HIDE DEF g
  <2>3. Good(g)
    <3>1. LockIsEarned(g)
      BY <2>0, <2>1, <2>2 DEF Good, LockIsEarned
    <3>2. PhaseHolds(g)
      BY <1>3, <2>1, <2>2 DEF Good, PhaseHolds
    <3> QED BY <1>1, <2>2, <3>1, <3>2 DEF Good
  <2>4. CommitsWithThree(h, g)
    BY <2>2 DEF CommitsWithThree
  <2>5. KeepsCertificates(h, g)
    <3>1. \A q \in h.locked_qc : qc.round >= q.round
      BY <2>0, <2>1 DEF Good, LockIsEarned, Engine, Option, Certificate
    <3>2. \A q \in h.high_qc : q.round \in Nat
      BY DEF Good, Engine, Option, Certificate
    <3> QED BY <2>1, <2>2, <3>1, <3>2 DEF KeepsCertificates
  <2> QED BY <2>3, <2>4, <2>5 DEF Allowed, g
<1>4. CASE Cardinality(votes) < QuorumSize
  <2>1. r \in {Reply([h EXCEPT !.precommit_votes = votes], {})}
    BY <1>4 DEF VoteInPreCommit, votes
  <2> QED BY <1>2, <2>1 DEF Reply
<1>5. CASE ~(Cardinality(votes) < QuorumSize)
  <2>1. r \in {Reply([[h EXCEPT !.precommit_votes = votes] EXCEPT !.locked_qc = {qc}, !.phase = "Commit"],
                     {NewViewMsg(h.round, qc)}) : qc \in FormQC(h.round, votes)}
    BY <1>5 DEF VoteInPreCommit, votes
  <2>2. PICK qc \in FormQC(h.round, votes) :
          r = Reply([[h EXCEPT !.precommit_votes = votes] EXCEPT !.locked_qc = {qc}, !.phase = "Commit"],
                    {NewViewMsg(h.round, qc)})
    BY <2>1
  <2>3. r.hs = [[h EXCEPT !.precommit_votes = votes] EXCEPT !.locked_qc = {qc}, !.phase = "Commit"]
    BY <2>2 DEF Reply
  <2>4. Cardinality(votes) >= QuorumSize
    BY <1>1, <1>5, QuorumType
  <2> QED BY <1>3, <2>3, <2>4
<1> QED BY <1>4, <1>5

LEMMA CommitPhase ==
  ASSUME NEW h, Good(h), h.phase = "Commit", NEW vote \in Vote, Verify(vote),
         NEW r \in VoteInCommit(h, vote)
  PROVE  Allowed(h, r.hs)
<1> DEFINE votes == Insert(h.commit_votes, vote)
           decided == [[h EXCEPT !.commit_votes = votes] EXCEPT !.phase = "Decide"]
<1>0. h \in Engine /\ h.round \in Nat
  BY DEF Good, Engine
<1>1. Tallied(votes) /\ votes \in SUBSET Vote /\ Cardinality(votes) \in Nat
  BY InsertTallied, Counts DEF Good, Tallied
<1> HIDE DEF votes
<1>2. CASE r.hs = [h EXCEPT !.commit_votes = votes]
  <2> DEFINE g == r.hs
  <2>1. /\ g \in Engine
        /\ g.commit_votes = votes /\ g.phase = "Commit"
        /\ g.round = h.round /\ g.locked_qc = h.locked_qc /\ g.high_qc = h.high_qc
        /\ g.prepare_votes = h.prepare_votes /\ g.precommit_votes = h.precommit_votes
        /\ g.committed = h.committed
    BY <1>0, <1>1, <1>2 DEF Engine
  <2> HIDE DEF g
  <2>2. Good(g)
    BY <1>1, <2>1 DEF Good, LockIsEarned, PhaseHolds
  <2>3. CommitsWithThree(h, g) /\ KeepsCertificates(h, g)
    BY <2>1, KeepsBoth DEF CommitsWithThree
  <2> QED BY <2>2, <2>3 DEF Allowed, g
<1>3. ASSUME Cardinality(votes) >= QuorumSize, NEW qc \in FormQC(h.round, votes),
             r.hs = CommitBlock(decided, qc)
      PROVE  Allowed(h, r.hs)
  <2> DEFINE g == r.hs
  <2>1. qc \in Certificate /\ qc.round = h.round /\ IsQuorum(qc.votes)
    <3>1. qc \in Certificate /\ qc.round = h.round /\ qc.votes = votes
      BY <1>0, <1>1, <1>3, CertificateType
    <3> QED BY <1>1, <1>3, <3>1 DEF IsQuorum, Tallied
  <2>2. /\ decided \in Engine
        /\ decided.commit_votes = votes /\ decided.phase = "Decide"
        /\ decided.round = h.round /\ decided.locked_qc = h.locked_qc /\ decided.high_qc = h.high_qc
        /\ decided.prepare_votes = h.prepare_votes /\ decided.precommit_votes = h.precommit_votes
        /\ decided.committed = h.committed /\ decided.pending = h.pending
    BY <1>0, <1>1 DEF Engine
  <2> HIDE DEF decided, g
  <2>3. CASE decided.pending = {}
    <3>1. g = decided
      BY <1>3, <2>3 DEF CommitBlock, g
    <3>2. Good(g)
      BY <1>1, <2>2, <3>1 DEF Good, LockIsEarned, PhaseHolds
    <3>3. CommitsWithThree(h, g) /\ KeepsCertificates(h, g)
      BY <2>2, <3>1, KeepsBoth DEF CommitsWithThree
    <3> QED BY <3>2, <3>3 DEF Allowed, g
  <2>4. CASE decided.pending # {}
    <3> DEFINE block == CHOOSE b \in decided.pending : TRUE
               entry == [block |-> block, qc |-> {qc}]
    <3>1. block \in Block
      BY <2>2, <2>4 DEF Engine, Option
    <3>2. entry \in [block : Block, qc : SUBSET Certificate]
      BY <2>1, <3>1
    <3>3. g = [ClearVotes(decided) EXCEPT !.committed = Append(decided.committed, entry),
                                          !.pending = {}]
      BY <1>3, <2>4 DEF CommitBlock, g
    <3> HIDE DEF block, entry
    <3>4. Append(h.committed, entry) \in Seq([block : Block, qc : SUBSET Certificate])
      BY <1>0, <3>2, AppendProperties DEF Engine
    <3>5. /\ g \in Engine
          /\ g.prepare_votes = {} /\ g.precommit_votes = {} /\ g.commit_votes = {}
          /\ g.phase = "Decide" /\ g.round = h.round
          /\ g.locked_qc = h.locked_qc /\ g.high_qc = h.high_qc
          /\ g.committed = Append(h.committed, entry)
      BY <2>2, <3>3, <3>4 DEF Engine, ClearVotes, Option
    <3>6. g.committed # << >> /\ Last(g.committed) = entry
      <4>1. h.committed \in Seq([block : Block, qc : SUBSET Certificate])
        BY <1>0 DEF Engine
      <4> QED BY <3>2, <3>5, <4>1, AppendProperties DEF Last
    <3>7. Good(g)
      BY <3>5, <3>6, NoVotes DEF Good, LockIsEarned, PhaseHolds
    <3>8. CommitsWithThree(h, g)
      <4>1. entry.qc = {qc}
        BY DEF entry
      <4>2. IsQuorum(h.prepare_votes)
        BY DEF Good, PhaseHolds, Tallied, IsQuorum
      <4>3. \E q \in h.locked_qc : q.round = h.round /\ IsQuorum(q.votes)
        BY DEF Good, PhaseHolds, LockIsEarned
      <4> QED BY <2>1, <3>6, <4>1, <4>2, <4>3 DEF CommitsWithThree
    <3>9. KeepsCertificates(h, g)
      BY <3>5, KeepsBoth
    <3> QED BY <3>7, <3>8, <3>9 DEF Allowed, g
  <2> QED BY <2>3, <2>4
<1>4. CASE Cardinality(votes) < QuorumSize
  <2>1. r \in {Reply([h EXCEPT !.commit_votes = votes], {})}
    BY <1>4 DEF VoteInCommit, votes
  <2> QED BY <1>2, <2>1 DEF Reply
<1>5. CASE ~(Cardinality(votes) < QuorumSize)
  <2>1. r \in {Reply(CommitBlock(decided, qc), {NewViewMsg(h.round + 1, qc)}) : qc \in FormQC(h.round, votes)}
    BY <1>5 DEF VoteInCommit, votes
  <2>2. PICK qc \in FormQC(h.round, votes) :
          r = Reply(CommitBlock(decided, qc), {NewViewMsg(h.round + 1, qc)})
    BY <2>1
  <2>3. r.hs = CommitBlock(decided, qc)
    BY <2>2 DEF Reply
  <2>4. Cardinality(votes) >= QuorumSize
    BY <1>1, <1>5, QuorumType
  <2> QED BY <1>3, <2>3, <2>4
<1> QED BY <1>4, <1>5

LEMMA HandlesVote ==
  ASSUME NEW h, Good(h), NEW vote \in Vote, NEW r \in HandleVote(h, vote)
  PROVE  Allowed(h, r.hs)
<1>1. ASSUME r \in {Reply(h, {})}
      PROVE  Allowed(h, r.hs)
  <2>1. r.hs = h
    BY <1>1 DEF Reply
  <2> QED BY <2>1, Stutters
<1>2. h.phase \in {"Prepare", "PreCommit", "Commit", "Decide"}
  BY DEF Good, Engine
<1>3. CASE ~Verify(vote)
  BY <1>1, <1>3 DEF HandleVote
<1>4. CASE Verify(vote) /\ h.phase = "Prepare"
  BY <1>4, PreparePhase DEF HandleVote
<1>5. CASE Verify(vote) /\ h.phase = "PreCommit"
  BY <1>5, PreCommitPhase DEF HandleVote
<1>6. CASE Verify(vote) /\ h.phase = "Commit"
  BY <1>6, CommitPhase DEF HandleVote
<1>7. CASE Verify(vote) /\ h.phase = "Decide"
  BY <1>1, <1>7 DEF HandleVote
<1> QED BY <1>2, <1>3, <1>4, <1>5, <1>6, <1>7

-----------------------------------------------------------------------------
(* The other methods *)

LEMMA TipIsBlock ==
  ASSUME NEW h, Good(h)
  PROVE  Tip(h) \in Block /\ Hash(Tip(h)) \in HashType
<1>1. h.committed \in Seq([block : Block, qc : SUBSET Certificate]) /\ h.committed # << >>
  BY DEF Good, Engine
<1>2. h.committed[Len(h.committed)] \in [block : Block, qc : SUBSET Certificate]
  <2>1. Len(h.committed) \in Nat /\ Len(h.committed) # 0
    BY <1>1, EmptySeq, LenProperties
  <2>2. Len(h.committed) \in 1 .. Len(h.committed)
    BY <2>1
  <2> QED BY <1>1, <2>2, ElementOfSeq
<1>3. Tip(h) \in Block
  BY <1>2 DEF Tip
<1> QED BY <1>3 DEF Hash, HashType, Block

LEMMA Proposes ==
  ASSUME NEW h, Good(h), NEW r \in Propose(h, << >>, Len(h.committed) + 1)
  PROVE  Allowed(h, r.hs)
<1> DEFINE block == [height |-> Tip(h).height + 1, parent |-> Hash(Tip(h)),
                     round |-> h.round, stamp |-> Len(h.committed) + 1, txs |-> << >>]
           g == [h EXCEPT !.pending = {block}, !.phase = "Prepare"]
<1>1. r.hs = g
  BY DEF Propose, Reply
<1>2. block \in Block
  <2>1. Tip(h).height + 1 \in Nat /\ Hash(Tip(h)) \in HashType
    BY TipIsBlock DEF Block
  <2>2. h.round \in Nat /\ Len(h.committed) + 1 \in Nat
    BY LenProperties DEF Good, Engine
  <2>3. << >> \in Seq(Tx)
    OBVIOUS
  <2> QED BY <2>1, <2>2, <2>3 DEF Block
<1> HIDE DEF block
<1>3. /\ g \in Engine
      /\ g.phase = "Prepare" /\ g.round = h.round
      /\ g.locked_qc = h.locked_qc /\ g.high_qc = h.high_qc
      /\ g.prepare_votes = h.prepare_votes /\ g.precommit_votes = h.precommit_votes
      /\ g.commit_votes = h.commit_votes /\ g.committed = h.committed
  BY <1>2 DEF Good, Engine, Option
<1> HIDE DEF g
<1>4. Good(g)
  BY <1>3 DEF Good, LockIsEarned, PhaseHolds
<1>5. CommitsWithThree(h, g) /\ KeepsCertificates(h, g)
  BY <1>3, KeepsBoth DEF CommitsWithThree
<1> QED BY <1>1, <1>4, <1>5 DEF Allowed

LEMMA HandlesPropose ==
  ASSUME NEW h, Good(h), NEW key, NEW block \in Block, NEW r \in HandlePropose(h, key, block)
  PROVE  Allowed(h, r.hs)
<1> DEFINE g == [h EXCEPT !.pending = {block}]
<1>1. r.hs = g \/ r.hs = h
  BY DEF HandlePropose, Reply
<1>2. /\ g \in Engine
      /\ g.phase = h.phase /\ g.round = h.round
      /\ g.locked_qc = h.locked_qc /\ g.high_qc = h.high_qc
      /\ g.prepare_votes = h.prepare_votes /\ g.precommit_votes = h.precommit_votes
      /\ g.commit_votes = h.commit_votes /\ g.committed = h.committed
  BY DEF Good, Engine, Option
<1> HIDE DEF g
<1>3. Good(g)
  BY <1>2 DEF Good, LockIsEarned, PhaseHolds
<1>4. CommitsWithThree(h, g) /\ KeepsCertificates(h, g)
  BY <1>2, KeepsBoth DEF CommitsWithThree
<1> QED BY <1>1, <1>3, <1>4, Stutters DEF Allowed

(* A change of round keeps the lock and drops votes and proposal; the      *)
(* certificate that comes with it can be any.                              *)
LEMMA HandlesNewView ==
  ASSUME NEW h, Good(h), NEW key, NEW round \in Nat, NEW qc \in Certificate,
         NEW r \in HandleNewView(h, key, round, qc)
  PROVE  Allowed(h, r.hs)
<1> DEFINE fresh == \A q \in h.high_qc : qc.round >= q.round
           seen  == IF fresh THEN [h EXCEPT !.high_qc = {qc}] ELSE h
<1>0. /\ h \in Engine /\ h.round \in Nat
      /\ \A q \in h.high_qc \cup h.locked_qc : q.round \in Nat
  BY DEF Good, Engine, Option, Certificate
<1>1. /\ seen \in Engine
      /\ seen.phase = h.phase /\ seen.round = h.round
      /\ seen.locked_qc = h.locked_qc
      /\ seen.high_qc = IF fresh THEN {qc} ELSE h.high_qc
      /\ seen.prepare_votes = h.prepare_votes /\ seen.precommit_votes = h.precommit_votes
      /\ seen.commit_votes = h.commit_votes /\ seen.committed = h.committed
  BY <1>0 DEF Engine, Option
<1>2. r.hs = IF round > h.round THEN AdvanceRound(seen, round) ELSE seen
  <2>1. r \in IF round > h.round THEN {Reply(AdvanceRound(seen, round), {})}
             ELSE {Reply(seen, {VoteMsg(Sign(Hash(b), h.round, key)) : b \in h.pending})}
    BY DEF HandleNewView
  <2> HIDE DEF seen
  <2> QED BY <2>1 DEF Reply
<1>3. /\ \A q \in h.locked_qc : \E p \in seen.locked_qc : p.round >= q.round
      /\ \A p \in seen.locked_qc : p.round <= h.round /\ IsQuorum(p.votes)
      /\ \A q \in h.high_qc : \E p \in seen.high_qc : p.round >= q.round
  BY <1>0, <1>1 DEF Good, LockIsEarned
<1> HIDE DEF seen, fresh
<1>4. CASE round > h.round
  <2> DEFINE g == AdvanceRound(seen, round)
  <2>1. /\ g \in Engine
        /\ g.phase = "Prepare" /\ g.round = round
        /\ g.locked_qc = seen.locked_qc /\ g.high_qc = seen.high_qc
        /\ g.prepare_votes = {} /\ g.precommit_votes = {} /\ g.commit_votes = {}
        /\ g.committed = h.committed
    BY <1>1 DEF AdvanceRound, ClearVotes, Engine, Option
  <2> HIDE DEF g
  <2>2. LockIsEarned(g)
    BY <1>0, <1>1, <1>3, <1>4, <2>1 DEF LockIsEarned
  <2>3. Good(g)
    BY <2>1, <2>2, NoVotes DEF Good, PhaseHolds
  <2>4. CommitsWithThree(h, g) /\ KeepsCertificates(h, g)
    BY <1>3, <2>1 DEF CommitsWithThree, KeepsCertificates
  <2>5. r.hs = g
    BY <1>2, <1>4 DEF g
  <2> QED BY <2>3, <2>4, <2>5 DEF Allowed
<1>5. CASE ~(round > h.round)
  <2>1. r.hs = seen
    BY <1>2, <1>5
  <2>2. Good(seen)
    BY <1>1, <1>3 DEF Good, LockIsEarned, PhaseHolds
  <2>3. CommitsWithThree(h, seen) /\ KeepsCertificates(h, seen)
    BY <1>1, <1>3 DEF CommitsWithThree, KeepsCertificates
  <2> QED BY <2>1, <2>2, <2>3 DEF Allowed
<1> QED BY <1>4, <1>5

-----------------------------------------------------------------------------
LEMMA StartsGood == Init => Good(hs)
<1> SUFFICES ASSUME Init PROVE Good(NewHotStuff)
  BY DEF Init
<1>1. Genesis \in Block
  BY DEF Genesis, Block, HashType, ZERO
<1>2. [block |-> Genesis, qc |-> {}] \in [block : Block, qc : SUBSET Certificate]
  BY <1>1
<1>3. NewHotStuff \in Engine /\ NewHotStuff.committed # << >>
  BY <1>2 DEF NewHotStuff, Engine, Option
<1>4. /\ Tallied(NewHotStuff.prepare_votes) /\ Tallied(NewHotStuff.precommit_votes)
      /\ Tallied(NewHotStuff.commit_votes)
  BY NoVotes DEF NewHotStuff
<1>5. LockIsEarned(NewHotStuff) /\ PhaseHolds(NewHotStuff)
  BY DEF NewHotStuff, LockIsEarned, PhaseHolds
<1> QED BY <1>3, <1>4, <1>5 DEF Good

LEMMA StepsAllowed ==
  ASSUME Good(hs), [Next]_hs
  PROVE  Allowed(hs, hs')
<1>1. ASSUME CallPropose
      PROVE  Allowed(hs, hs')
  BY <1>1, Proposes DEF CallPropose, Becomes
<1>2. ASSUME NEW block \in Proposals, CallHandlePropose(block)
      PROVE  Allowed(hs, hs')
  <2>1. block \in Block
    BY HotStuffAssumption
  <2> QED BY <1>2, <2>1, HandlesPropose DEF CallHandlePropose, Becomes
<1>3. ASSUME NEW hash \in VoteHashes, NEW round \in VoteRounds, NEW voter \in Voters, NEW signer \in Voters,
             CallHandleVote(hash, round, voter, signer)
      PROVE  Allowed(hs, hs')
  <2> DEFINE vote == [hash |-> hash, round |-> round, voter |-> voter, signer |-> signer]
  <2>1. vote \in Vote
    BY HotStuffAssumption DEF Vote
  <2> HIDE DEF vote
  <2>2. \E r \in HandleVote(hs, vote) : hs' = r.hs
    BY <1>3 DEF CallHandleVote, Becomes, vote
  <2> QED BY <2>1, <2>2, HandlesVote
<1>4. ASSUME NEW round \in 0 .. MaxRound, NEW qc \in ReceivedQCs, CallHandleNewView(round, qc)
      PROVE  Allowed(hs, hs')
  <2>1. round \in Nat /\ qc \in Certificate
    BY HotStuffAssumption
  <2>2. \E r \in HandleNewView(hs, Self, round, qc) : hs' = r.hs
    BY <1>4 DEF CallHandleNewView, Becomes
  <2> QED BY <2>1, <2>2, HandlesNewView
<1>5. CASE UNCHANGED hs
  BY <1>5, Stutters
<1> QED BY <1>1, <1>2, <1>3, <1>4, <1>5 DEF Next

LEMMA GoodAlways == Spec => []Good(hs)
<1>1. Good(hs) /\ [Next]_hs => Good(hs)'
  <2>1. ASSUME Good(hs), [Next]_hs
        PROVE  Good(hs')
    BY <2>1, StepsAllowed DEF Allowed
  <2> QED BY <2>1
<1> QED BY <1>1, StartsGood, PTL DEF Spec

(* The record keeps the shape of struct HotStuffNode.                      *)
THEOREM TypeCorrect == Spec => []TypeOK
<1>1. Good(hs) => TypeOK
  <2>1. SUFFICES ASSUME Good(hs) PROVE TypeOK
    OBVIOUS
  <2>2. hs.committed \in Seq([block : Block, qc : SUBSET Certificate]) /\ Len(hs.committed) > 0
    BY <2>1, EmptySeq, LenProperties DEF Good, Engine
  <2> QED BY <2>1, <2>2 DEF Good, Engine, Option, TypeOK, IsOption
<1> QED BY <1>1, GoodAlways, PTL

(***************************************************************************)
(* PhasesAreEarned: for any validator set, an engine past a phase holds a  *)
(* quorum of that phase.                                                   *)
(***************************************************************************)
THEOREM PhasesAreEarned == Spec => []NoPhaseSkipped
<1>1. Good(hs) => NoPhaseSkipped
  BY DEF Good, PhaseHolds, Tallied, NoPhaseSkipped, IsQuorum
<1> QED BY <1>1, GoodAlways, PTL

(***************************************************************************)
(* CommitsAreCertified: for any validator set and whatever certificates    *)
(* NewViews carry, commit_block runs only on three quorums of one round:   *)
(* the prepare votes the engine holds, its lock and the certificate it     *)
(* stores.                                                                 *)
(***************************************************************************)
THEOREM CommitsAreCertified == Spec => ThreeQuorums
<1>1. Good(hs) /\ [Next]_hs => CommitsWithThree(hs, hs')
  BY StepsAllowed DEF Allowed
<1>2. CommitsWithThree(hs, hs') => [hs'.committed # hs.committed =>
       /\ IsQuorum(hs.prepare_votes)
       /\ \E qc \in hs.locked_qc : qc.round = hs.round /\ IsQuorum(qc.votes)
       /\ \E qc \in Last(hs'.committed).qc : qc.round = hs.round /\ IsQuorum(qc.votes)]_hs
  BY DEF CommitsWithThree
<1> QED BY <1>1, <1>2, GoodAlways, PTL DEF Spec, ThreeQuorums

(***************************************************************************)
(* LocksNeverRegress: for any validator set and whatever certificates      *)
(* NewViews carry, the lock stays a quorum's and is never dropped or       *)
(* replaced by an older one, and the highest certificate gives way to an   *)
(* older one only when the engine forms that one itself.                   *)
(***************************************************************************)
THEOREM LocksNeverRegress == Spec => CertificatesNeverRegress
<1>1. Good(hs) /\ [Next]_hs => KeepsCertificates(hs, hs')
  BY StepsAllowed DEF Allowed
<1>2. KeepsCertificates(hs, hs') =>
        [/\ \A q \in hs.locked_qc : \E p \in hs'.locked_qc : p.round >= q.round
         /\ \A p \in hs'.locked_qc : IsQuorum(p.votes)
         /\ \A q \in hs.high_qc : \E p \in hs'.high_qc :
              p.round >= q.round \/ FormsPrepareQC(p)]_hs
  BY DEF KeepsCertificates, Forms, FormsPrepareQC
<1> QED BY <1>1, <1>2, GoodAlways, PTL DEF Spec, CertificatesNeverRegress
=============================================================================
