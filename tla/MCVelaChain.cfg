\* Two nodes, one of which may crash; its saves may fail.
CONSTANTS
  N = 2
  t = t
  f = f
  a = a
  Addr = {t, f, a}
  Treasury = t
  Faucet = f
  TreasuryGrant = 9
  FaucetGrant = 4
  U64 = 16
  Tx = {}
  HasClients = {}
  Submissions = {}
  BlockTxLimit = 1
  MaxMempool = 2
  Topics = {"blocks"}
  RememberSeen = FALSE
  LinksMayFail = FALSE
  MayCrash = {1}
  SaveMayFail = {1}
  MaxRound = 2
  MaxRuns = 2
SPECIFICATION Spec
INVARIANTS TypeOK HashIdentifiesBlock ChainIsWhole StoredChain
PROPERTY ImplementsLog
CHECK_DEADLOCK FALSE
