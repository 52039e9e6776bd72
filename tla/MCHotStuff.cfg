\* A validator set of four (f = 1, quorum 3), every method called. Of the voters,
\* 4 is no validator.
CONSTANTS
  Tx = {}
  N = 4
  Self = 0
  Api <- Methods
  Proposals <- ForkedProposals
  VoteHashes <- MCVoteHashes
  Voters = {1, 2, 4}
  VoteRounds = {0}
  ReceivedQCs <- MCReceivedQCs
  MaxRound = 1
  MaxCommits = 1
SPECIFICATION Spec
INVARIANTS TypeOK NoPhaseSkipped
PROPERTIES ThreeQuorums CertificatesNeverRegress
