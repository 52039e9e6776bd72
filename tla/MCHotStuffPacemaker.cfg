\* The deployed configuration: three validators (f = 0, quorum 1), the
\* methods main.rs calls, every proposal and vote handled in the end.
CONSTANTS
  Tx = {}
  N = 3
  Self = 0
  Api <- MainCalls
  Proposals <- ChainedProposals
  VoteHashes <- MCChainHashes
  Voters = {0, 1, 2}
  VoteRounds = {0}
  ReceivedQCs <- NoQCs
  MaxRound = 1
  MaxCommits = 2
SPECIFICATION FairSpec
PROPERTY LeaderIsReplaced
