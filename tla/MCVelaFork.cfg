\* The deployed network, no crash, nothing lost.
CONSTANTS
  N = 3
  t = t
  f = f
  a = a
  Addr = {t, f, a}
  Treasury = t
  Faucet = f
  TreasuryGrant = 9
  FaucetGrant = 4
  U64 = 16
  Tx = {}
  HasClients = {}
  Submissions = {}
  BlockTxLimit = 1
  MaxMempool = 2
  Topics = {"blocks"}
  RememberSeen = TRUE
  LinksMayFail = FALSE
  MayCrash = {}
  SaveMayFail = {}
  MaxRound = 3
  MaxRuns = 1
SPECIFICATION Spec
INVARIANT Agreement
CHECK_DEADLOCK FALSE
