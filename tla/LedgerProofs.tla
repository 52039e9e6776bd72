----------------------------- MODULE LedgerProofs -----------------------------
(***************************************************************************)
(* Theorems about Ledger, for any accounts, any transactions and blocks of *)
(* any length.  What a block does to the sums of the balances and of the   *)
(* nonces is in WorldStateProofs.                                          *)
(***************************************************************************)
EXTENDS Ledger, WorldStateProofs

-----------------------------------------------------------------------------
(* The invariants                                                          *)

(* Conservation with its multiple of the modulus, which is what a step     *)
(* changes.                                                                *)
ConservedUpTo(q) == Supply(ws) + fees = TOTAL_SUPPLY + q * U64

(* What the properties need to be inductive: the record has no more fields *)
(* than the accounts and the two counters, and conservation holds over the *)
(* integers and not only modulo u64.                                       *)
LedgerInv ==
  /\ TypeOK
  /\ ws \in WorldStates
  /\ \E q \in Int : ConservedUpTo(q)
  /\ SupplyIsCapped
  /\ NoncesCountTransactions

(* Ledger's sum of the balances is the one these proofs are about. *)
LEMMA TotalIsSupply == TotalBalance = Supply(ws)
BY DEF TotalBalance, Supply, Balances

(* The invariants hold of the state right after genesis. *)
LEMMA InitLedgerInv == Init => LedgerInv
<1> SUFFICES ASSUME Init PROVE LedgerInv  OBVIOUS
<1>1. /\ ws \in WorldStates /\ ws.total_supply = TOTAL_SUPPLY /\ ws.total_txs = 0
      /\ Supply(ws) = TOTAL_SUPPLY /\ SumFunction(Nonces(ws)) = 0
  BY GenesisSums DEF Init
<1>2. TOTAL_SUPPLY \in Nat /\ U64 \in Nat  BY WorldStateAssumption DEF TOTAL_SUPPLY
<1>3. TypeOK
  <2>1. ws.accounts \in [Addr -> [balance : 0 .. U64 - 1, nonce : Nat]]
    BY <1>1 DEF WorldStates, Account
  <2>2. height \in 0 .. MaxHeight  BY LedgerAssumption DEF Init
  <2>3. fees \in Nat /\ wrapped \in BOOLEAN  BY DEF Init
  <2>4. ws.total_txs \in Nat  BY <1>1
  <2> QED BY <1>1, <2>1, <2>2, <2>3, <2>4 DEF TypeOK
<1>4. ConservedUpTo(0)  BY <1>1, <1>2 DEF ConservedUpTo, Init
<1>5. SupplyIsCapped  BY <1>1, <1>2, TotalIsSupply DEF SupplyIsCapped, Init
<1>6. NoncesCountTransactions  BY <1>1 DEF NoncesCountTransactions, Nonces
<1> QED BY <1>1, <1>3, <1>4, <1>5, <1>6 DEF LedgerInv

(* What a block of Ledger consists of are transactions on known accounts   *)
(* with u64 amounts and fees.                                              *)
LEMMA ContentsType ==
  ASSUME NEW txs \in Contents
  PROVE  Len(txs) \in Nat /\ DOMAIN txs = 1 .. Len(txs) /\ \A i \in 1 .. Len(txs) : Payable(txs[i])
<1>1. PICK k \in 0 .. MaxBlockTxs : txs \in [1 .. k -> Tx]  BY DEF Contents
<1>2. k \in Nat  BY LedgerAssumption
<1>3. txs \in Seq(Tx)  BY <1>1, <1>2
<1>4. \A i \in 1 .. Len(txs) : txs[i] \in Tx  BY <1>3
<1> QED BY <1>3, <1>4, WorldStateAssumption DEF Payable

(* Applying a block keeps the invariants. *)
LEMMA StepLedgerInv ==
  ASSUME LedgerInv, NEW txs \in Contents, Apply(txs)
  PROVE  LedgerInv'
<1> DEFINE n == Len(txs)
           block == BlockOf(height + 1, txs)
<1>1. n \in Nat /\ DOMAIN txs = 1 .. n /\ \A i \in 1 .. n : Payable(txs[i])  BY ContentsType
<1>2. ws \in WorldStates /\ height \in Nat /\ fees \in Nat /\ ws.total_supply = TOTAL_SUPPLY
  BY LedgerAssumption DEF LedgerInv, TypeOK
<1>3. block.txs = txs /\ block.height # 0  BY <1>2 DEF BlockOf
<1>4. ws' = ApplyBlock(ws, block)  BY DEF Apply
<1>5. ws' = Along(ws, txs)[n]  BY <1>3, <1>4 DEF ApplyBlock
<1>6. AddsUp(ws, txs, n)  BY <1>1, <1>2, AlongAddsUp
<1>7. ws'.total_supply = TOTAL_SUPPLY
  <2> HIDE DEF block
  <2> QED BY <1>1, <1>2, <1>3, <1>4, ApplyBlockNonces
<1>8. Executed(ws, txs) \cap 1 .. n = Executed(ws, txs)  BY <1>1 DEF Executed
<1>9. fees' = fees + Burned(ws, txs, n)
  BY <1>8, Zenon DEF Apply, Burned
<1>10. ws' \in WorldStates /\ Burned(ws, txs, n) \in Nat  BY <1>5, <1>6 DEF AddsUp
<1>11. TypeOK'
  <2>1. height' \in 0 .. MaxHeight  BY LedgerAssumption DEF LedgerInv, TypeOK, Apply
  <2>2. wrapped' \in BOOLEAN  BY DEF LedgerInv, TypeOK, Apply
  <2> QED BY <1>2, <1>7, <1>9, <1>10, <2>1, <2>2 DEF TypeOK, WorldStates, Account
<1>12. Supply(ws) \in Nat /\ Supply(ws') \in Nat  BY <1>2, <1>10, SupplyType
<1>13. U64 \in Nat /\ TOTAL_SUPPLY \in Nat /\ TOTAL_SUPPLY < U64
  BY WorldStateAssumption DEF TOTAL_SUPPLY
<1>14. \E q \in Int : ConservedUpTo(q)'
  <2>1. PICK q \in Int : Supply(ws) + fees = TOTAL_SUPPLY + q * U64
    BY DEF LedgerInv, ConservedUpTo
  <2>2. PICK k \in Int : Supply(ws') + Burned(ws, txs, n) = Supply(ws) + k * U64
    BY <1>5, <1>6 DEF AddsUp
  <2>3. q + k \in Int /\ (q + k) * U64 = q * U64 + k * U64 /\ q * U64 \in Int /\ k * U64 \in Int
    BY <1>13
  <2>4. Supply(ws') + Burned(ws, txs, n) + fees = TOTAL_SUPPLY + q * U64 + k * U64
    BY <1>2, <1>10, <1>12, <1>13, <2>1, <2>2, <2>3
  <2>5. Supply(ws') + fees' = TOTAL_SUPPLY + (q + k) * U64
    BY <1>2, <1>9, <1>10, <1>12, <1>13, <2>3, <2>4
  <2> QED BY <2>3, <2>5 DEF ConservedUpTo
<1>15. SupplyIsCapped'
  <2>1. SUFFICES ASSUME ~wrapped' PROVE Supply(ws') + fees' = TOTAL_SUPPLY
    BY <1>7, TotalIsSupply DEF SupplyIsCapped, TotalBalance, Supply, Balances
  <2>2. ~wrapped /\ \A i \in Executed(ws, txs) : ~ (txs[i].amount + txs[i].fee >= U64)
    BY <2>1 DEF Apply
  <2>3. Fit(ws, txs, n)
    <3>1. \A i \in 1 .. n : txs[i].amount \in Nat /\ txs[i].fee \in Nat
      BY <1>1, <1>13 DEF Payable
    <3> QED BY <1>13, <2>2, <3>1 DEF Fit
  <2>4. Supply(ws) + fees = TOTAL_SUPPLY
    BY <1>2, <2>2, TotalIsSupply DEF LedgerInv, SupplyIsCapped
  <2>5. Supply(ws) < U64  BY <1>2, <1>12, <1>13, <2>4
  <2>6. Supply(ws') + Burned(ws, txs, n) = Supply(ws)  BY <1>5, <1>6, <2>3, <2>5 DEF AddsUp
  <2> QED BY <1>2, <1>9, <1>10, <1>12, <2>4, <2>6
<1>16. NoncesCountTransactions'
  <2>1. SumFunction(Nonces(ws')) - ws'.total_txs = SumFunction(Nonces(ws)) - ws.total_txs
    BY <1>5, <1>6 DEF AddsUp
  <2>2. SumFunction(Nonces(ws)) = ws.total_txs  BY DEF LedgerInv, NoncesCountTransactions, Nonces
  <2>3. SumFunction(Nonces(ws)) \in Nat /\ SumFunction(Nonces(ws')) \in Nat
    BY <1>2, <1>10, SupplyType
  <2>4. ws'.total_txs \in Nat  BY <1>10 DEF WorldStates
  <2>5. SumFunction(Nonces(ws')) = ws'.total_txs  BY <2>1, <2>2, <2>3, <2>4
  <2> QED BY <2>5 DEF NoncesCountTransactions, Nonces
<1> QED BY <1>10, <1>11, <1>14, <1>15, <1>16 DEF LedgerInv

(* In every reachable state of Ledger the invariants hold. *)
THEOREM LedgerInvariant == Spec => []LedgerInv
<1>1. ASSUME LedgerInv, [Next]_vars PROVE LedgerInv'
  <2>1. CASE Next  BY <1>1, <2>1, StepLedgerInv DEF Next
  <2>2. CASE UNCHANGED vars
    BY <1>1, <2>2 DEF vars, LedgerInv, TypeOK, ConservedUpTo, SupplyIsCapped, TotalBalance,
                      NoncesCountTransactions
  <2> QED BY <1>1, <2>1, <2>2
<1> QED BY <1>1, InitLedgerInv, PTL DEF Spec

(* Balances stay u64 values: the unchecked subtraction of apply_block never *)
(* goes below zero.                                                        *)
THEOREM LedgerTypes == Spec => []TypeOK
<1>1. LedgerInv => TypeOK  BY DEF LedgerInv
<1> QED BY <1>1, LedgerInvariant, PTL

(* Without a transaction whose amount + fee wraps around u64, balances and *)
(* burned fees always add up to the supply of genesis: apply_block mints   *)
(* nothing, whatever its blocks hold.                                      *)
THEOREM SupplyCapped == Spec => []SupplyIsCapped
<1>1. LedgerInv => SupplyIsCapped  BY DEF LedgerInv
<1> QED BY <1>1, LedgerInvariant, PTL

(* The nonces of all accounts always add up to total_txs, whatever         *)
(* transactions are skipped, repeated or sent to their sender.             *)
THEOREM NoncesCount == Spec => []NoncesCountTransactions
<1>1. LedgerInv => NoncesCountTransactions  BY DEF LedgerInv
<1> QED BY <1>1, LedgerInvariant, PTL

(* With them too, balances and burned fees add up to the supply modulo u64: *)
(* what a wrapping transaction can mint is a multiple of the modulus.      *)
THEOREM ValueConserved == Spec => []Conservation
<1>1. ASSUME LedgerInv PROVE Conservation
  <2>1. PICK q \in Int : Supply(ws) + fees = TOTAL_SUPPLY + q * U64
    BY <1>1 DEF LedgerInv, ConservedUpTo
  <2>2. TOTAL_SUPPLY \in 0 .. U64 - 1 /\ U64 \in Nat \ {0}
    BY WorldStateAssumption DEF TOTAL_SUPPLY
  <2>3. (TOTAL_SUPPLY + q * U64) % U64 = TOTAL_SUPPLY  BY <2>2, ModMult
  <2>4. ws.total_supply = TOTAL_SUPPLY  BY <1>1 DEF LedgerInv, TypeOK
  <2> QED BY <2>1, <2>3, <2>4, TotalIsSupply, Zenon DEF Conservation
<1> QED BY <1>1, LedgerInvariant, PTL
=============================================================================
