\* Nodes start one after another; duplicates are not suppressed.
CONSTANTS
  N = 2
  t = t
  f = f
  a = a
  Addr = {t, f, a}
  Treasury = t
  Faucet = f
  TreasuryGrant = 9
  FaucetGrant = 4
  U64 = 16
  Tx = {}
  HasClients = {}
  Submissions = {}
  BlockTxLimit = 1
  MaxMempool = 2
  Topics = {"blocks"}
  RememberSeen = FALSE
  LinksMayFail = TRUE
  MayCrash = {}
  SaveMayFail = {}
  MaxRound = 3
  MaxRuns = 1
SPECIFICATION FairSpec
PROPERTIES SyncCatchesUp ProducersProgress
CHECK_DEADLOCK FALSE
