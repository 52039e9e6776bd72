\* A client, mempools, blocks, proposals and votes; nothing is lost.
CONSTANTS
  N = 2
  t = t
  f = f
  a = a
  Addr = {t, f, a}
  Treasury = t
  Faucet = f
  TreasuryGrant = 9
  FaucetGrant = 4
  U64 = 16
  Tx <- OnePayment
  HasClients = {1}
  Submissions <- OnePayment
  BlockTxLimit = 1
  MaxMempool = 1
  Topics = {"blocks", "transactions", "consensus"}
  RememberSeen = TRUE
  LinksMayFail = FALSE
  MayCrash = {}
  SaveMayFail = {}
  MaxRound = 2
  MaxRuns = 1
SPECIFICATION Spec
INVARIANTS StateMatchesChain VotesNameTheirBlock
CHECK_DEADLOCK FALSE
