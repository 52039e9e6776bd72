----------------------------- MODULE WorldState -----------------------------
(***************************************************************************)
(* The account state of storage/state.rs as operators on its record.       *)
(* accounts maps every address to its balance and nonce: an address that   *)
(* is not in the HashMap has both zero, which is what balance(), nonce()   *)
(* and apply_block read for it.  faucet_last is not part of the record:    *)
(* apply_block neither reads nor writes it.                                *)
(***************************************************************************)
EXTENDS VelaTypes, SequencesExt

CONSTANTS
  Addr,            \* account addresses
  Treasury,        \* the treasury's address
  Faucet,          \* the faucet's address
  TreasuryGrant,   \* VELA minted to the treasury at genesis (900 000 000)
  FaucetGrant,     \* VELA minted to the faucet at genesis (100 000 000)
  U64              \* the modulus of u64 arithmetic (2^64): release builds wrap

TOTAL_SUPPLY == TreasuryGrant + FaucetGrant

ASSUME WorldStateAssumption ==
  /\ IsFiniteSet(Addr)
  /\ {Treasury, Faucet} \subseteq Addr
  /\ Treasury # Faucet
  /\ TreasuryGrant \in Nat \ {0}
  /\ FaucetGrant \in Nat
  /\ U64 \in Nat
  /\ TOTAL_SUPPLY < U64
  /\ \A tx \in Tx : /\ {tx.from, tx.to} \subseteq Addr
                    /\ {tx.amount, tx.fee} \subseteq 0 .. U64 - 1

NewWorldState ==
  [accounts |-> [a \in Addr |-> [balance |-> 0, nonce |-> 0]],
   total_supply |-> 0, total_txs |-> 0]

ApplyGenesis(ws) ==
  [accounts |-> [ws.accounts EXCEPT ![Treasury] = [balance |-> TreasuryGrant, nonce |-> 0],
                                    ![Faucet]   = [balance |-> FaucetGrant, nonce |-> 0]],
   total_supply |-> TOTAL_SUPPLY, total_txs |-> ws.total_txs]

(* The sum a transaction must be covered for: u64 addition. *)
Cost(tx) == (tx.amount + tx.fee) % U64

(* Mutant: the credit saturates.                                           *)
CreditSaturating(accounts, tx) ==
  [accounts EXCEPT ![tx.to] =
     [balance |-> IF @.balance + tx.amount < U64 THEN @.balance + tx.amount ELSE U64 - 1,
      nonce |-> @.nonce]]

(* The two accounts a transaction changes.  The fee is debited and         *)
(* credited to nobody.                                                     *)
Debit(accounts, tx) ==
  [accounts EXCEPT ![tx.from] = [balance |-> @.balance - Cost(tx), nonce |-> @.nonce + 1]]

Credit(accounts, tx) ==
  [accounts EXCEPT ![tx.to] = [balance |-> (@.balance + tx.amount) % U64, nonce |-> @.nonce]]

(* One more transaction has been executed, with this effect.               *)
Counted(ws, accounts) ==
  [accounts |-> accounts, total_supply |-> ws.total_supply, total_txs |-> ws.total_txs + 1]

(* Mutants of ApplyTx: the fee is left out of the check; the fee is paid   *)
(* to the recipient; the recipient's account is read before the sender's   *)
(* is written.                                                             *)
ApplyTxUncovered(ws, tx) ==
  IF ws.accounts[tx.from].balance < tx.amount THEN ws
  ELSE Counted(ws, Credit(Debit(ws.accounts, tx), tx))

ApplyTxFeeToRecipient(ws, tx) ==
  IF ws.accounts[tx.from].balance < Cost(tx) THEN ws
  ELSE Counted(ws, Credit(Debit(ws.accounts, tx), [tx EXCEPT !.amount = Cost(tx)]))

ApplyTxStale(ws, tx) ==
  IF ws.accounts[tx.from].balance < Cost(tx) THEN ws
  ELSE Counted(ws, [Debit(ws.accounts, tx) EXCEPT ![tx.to] = Credit(ws.accounts, tx)[tx.to]])

(***************************************************************************)
(* One turn of apply_block's loop: a transaction whose sender cannot cover *)
(* it is skipped.  Neither the nonce nor the signature of the transaction  *)
(* is looked at.                                                           *)
(***************************************************************************)
ApplyTx(ws, tx) ==
  IF ws.accounts[tx.from].balance < Cost(tx) THEN ws
  ELSE Counted(ws, Credit(Debit(ws.accounts, tx), tx))

(* The states of that loop: Along(ws, txs)[i] is the one in which it has   *)
(* gone through the first i transactions.                                  *)
Along(ws, txs) ==
  LET after[i \in 0 .. Len(txs)] == IF i = 0 THEN ws ELSE ApplyTx(after[i - 1], txs[i])
  IN  after

(* The transactions of a block it does not skip, by their positions, and   *)
(* what they burn.                                                         *)
Executed(ws, txs) == {i \in DOMAIN txs : Along(ws, txs)[i] # Along(ws, txs)[i - 1]}

Fees(txs) == [i \in DOMAIN txs |-> txs[i].fee]

ApplyBlock(ws, block) ==
  Along(IF block.height = 0 /\ ws.total_supply = 0 THEN ApplyGenesis(ws) ELSE ws,
        block.txs)[Len(block.txs)]

(* main.rs on start-up: the stored blocks applied to an empty state.       *)
Replay(blocks) ==
  LET after[i \in 0 .. Len(blocks)] ==
        IF i = 0 THEN NewWorldState ELSE ApplyBlock(after[i - 1], blocks[i])
  IN  after[Len(blocks)]
=============================================================================
