------------------------------- MODULE Ledger -------------------------------
(***************************************************************************)
(* The world state of one node (storage/state.rs): genesis, then any       *)
(* sequence of blocks.  The transactions of a block are whatever a leader  *)
(* drained from its mempool, so the same transaction may come again, in    *)
(* one block or in several.                                                *)
(***************************************************************************)
EXTENDS WorldState

CONSTANTS
  MaxBlockTxs,   \* bound on the transactions of a block
  MaxHeight      \* bound on the blocks applied

ASSUME LedgerAssumption ==
  /\ MaxBlockTxs \in Nat /\ MaxHeight \in Nat

VARIABLES
  ws,      \* the WorldState
  height,  \* height of the last block applied
  fees,    \* history: the fees of the transactions executed so far
  wrapped  \* history: amount + fee of one of them did not fit a u64

vars == <<ws, height, fees, wrapped>>

Contents == UNION {[1 .. k -> Tx] : k \in 0 .. MaxBlockTxs}

BlockOf(h, txs) == [height |-> h, parent |-> ZERO, round |-> h, stamp |-> 1, txs |-> txs]

Init ==
  /\ ws = ApplyBlock(NewWorldState, Genesis)
  /\ height = 0
  /\ fees = 0
  /\ wrapped = FALSE

Apply(txs) ==
  /\ height < MaxHeight
  /\ height' = height + 1
  /\ ws' = ApplyBlock(ws, BlockOf(height + 1, txs))
  /\ fees' = fees + SumFunctionOnSet(Fees(txs), Executed(ws, txs))
  /\ wrapped' = (wrapped \/ \E i \in Executed(ws, txs) : txs[i].amount + txs[i].fee >= U64)

Next == \E txs \in Contents : Apply(txs)

Spec == Init /\ [][Next]_vars

-----------------------------------------------------------------------------
(* Properties *)

TotalBalance == SumFunction([a \in Addr |-> ws.accounts[a].balance])

(* Type invariant: balances stay u64 values (the subtraction of            *)
(* apply_block never goes below zero).                                     *)
TypeOK ==
  /\ ws.accounts \in [Addr -> [balance : 0 .. U64 - 1, nonce : Nat]]
  /\ ws.total_supply = TOTAL_SUPPLY
  /\ ws.total_txs \in Nat
  /\ height \in 0 .. MaxHeight
  /\ fees \in Nat
  /\ wrapped \in BOOLEAN

(***************************************************************************)
(* Conservation: apply_block neither mints nor loses VELA other than the   *)
(* fees of the transactions it executes, up to the wrap-around of u64,     *)
(* whatever transactions are skipped, repeated or sent to their sender.    *)
(***************************************************************************)
Conservation == (TotalBalance + fees) % U64 = ws.total_supply

(***************************************************************************)
(* SupplyIsCapped: only a transaction whose amount + fee wraps around u64  *)
(* can mint VELA.  As long as none is executed, balances and burned fees   *)
(* add up to the supply minted at genesis (TOTAL_SUPPLY in                 *)
(* storage/state.rs), so no balance exceeds it.                            *)
(***************************************************************************)
SupplyIsCapped == ~wrapped => TotalBalance + fees = ws.total_supply

(* Every executed transaction, and nothing else, moves the nonce of its    *)
(* sender: total_txs and the nonces, which the RPC server reports          *)
(* separately, always agree.                                               *)
NoncesCountTransactions == SumFunction([a \in Addr |-> ws.accounts[a].nonce]) = ws.total_txs
=============================================================================
