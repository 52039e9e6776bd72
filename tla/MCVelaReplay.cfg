\* A network with a client, no crash, nothing lost.
CONSTANTS
  N = 2
  t = t
  f = f
  a = a
  Addr = {t, f, a}
  Treasury = t
  Faucet = f
  TreasuryGrant = 9
  FaucetGrant = 4
  U64 = 16
  Tx <- OnePayment
  HasClients = {0, 1}
  Submissions <- OnePayment
  BlockTxLimit = 1
  MaxMempool = 2
  Topics = {"blocks", "transactions"}
  RememberSeen = TRUE
  LinksMayFail = FALSE
  MayCrash = {}
  SaveMayFail = {}
  MaxRound = 2
  MaxRuns = 1
SPECIFICATION Spec
INVARIANT TransactionsOnce
CHECK_DEADLOCK FALSE
