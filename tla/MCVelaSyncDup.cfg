\* A node starts twice within the life of the duplicate cache.
CONSTANTS
  N = 2
  t = t
  f = f
  a = a
  Addr = {t, f, a}
  Treasury = t
  Faucet = f
  TreasuryGrant = 9
  FaucetGrant = 4
  U64 = 16
  Tx = {}
  HasClients = {}
  Submissions = {}
  BlockTxLimit = 1
  MaxMempool = 2
  Topics = {"blocks"}
  RememberSeen = TRUE
  LinksMayFail = FALSE
  MayCrash = {0}
  SaveMayFail = {}
  MaxRound = 1
  MaxRuns = 2
SPECIFICATION FairSpec
PROPERTY DownloadsMissed
CHECK_DEADLOCK FALSE
