\* Two requests at a time, one address, blocks of two transactions.
CONSTANTS
  t = t
  f = f
  a = a
  Addr = {t, f, a}
  Treasury = t
  Faucet = f
  TreasuryGrant = 9
  FaucetGrant = 6
  U64 = 16
  Tx <- MCTxs
  Client = {c1, c2}
  Text = {"a", "x"}
  AccountOf <- MCAccountOf
  Submissions <- MCSubmissions
  Forged <- MCForged
  Gossip <- MCGossip
  FaucetAmount = 2
  Cooldown = 2
  BlockTxLimit = 2
  MaxRequests = 3
  MaxTime = 2
  MaxHeight = 2
  MaxGossip = 1
SYMMETRY Symmetry
SPECIFICATION Spec
INVARIANTS TypeOK GrantsAreSpaced PaymentsAreMarked CopiesBounded NoFutureNonces NothingLost
