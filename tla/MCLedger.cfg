\* Transfers that fit the integer type and transfers at its edge; the digests
\* of lists of up to six transactions.
CONSTANTS
  t = t
  f = f
  a = a
  Addr = {t, f, a}
  Treasury = t
  Faucet = f
  TreasuryGrant = 9
  FaucetGrant = 4
  U64 = 16
  Tx <- MCTxs
  MaxBlockTxs = 2
  MaxHeight = 5
  Digested = {x1, x2, x3, x4, x5, x6}
SPECIFICATION Spec
INVARIANTS TypeOK Conservation SupplyIsCapped NoncesCountTransactions
CHECK_DEADLOCK FALSE
