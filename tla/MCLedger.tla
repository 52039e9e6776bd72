------------------------------ MODULE MCLedger ------------------------------
(* Instances of Ledger and Merkle for TLC. *)
EXTENDS Ledger, Merkle, Functions

CONSTANTS t, f, a,   \* treasury, faucet and a user
          Digested   \* the transactions of the lists whose roots are compared

Pay(from, to, amount, fee) == [from |-> from, to |-> to, amount |-> amount, fee |-> fee]

(* Transfers that fit: one to its own sender, one that only the initial    *)
(* balance of the treasury covers, one whose amount is covered but not its *)
(* fee.  And transfers whose amount + fee equals and exceeds the modulus.  *)
MCTxs == {Pay(t, a, 3, 1), Pay(a, f, 2, 1), Pay(a, a, 1, 1), Pay(t, f, 8, 1),
          Pay(f, t, 4, 1), Pay(t, f, 15, 1), Pay(f, a, 15, 2)}

(* Lists in which no transaction comes twice have different roots: a root  *)
(* binds its block to the transactions and to their order.                 *)
Unrepeated ==
  {txs \in UNION {[1 .. k -> Digested] : k \in 0 .. Cardinality(Digested)} :
     Cardinality(Range(txs)) = Len(txs)}

ASSUME RootBinds ==
  Cardinality({MerkleRoot(txs) : txs \in Unrepeated}) = Cardinality(Unrepeated)

(* But a block with three transactions has the root of the one in which    *)
(* the third comes twice.                                                  *)
ASSUME RootIgnoresRepeat ==
  \A x, y, z \in Digested : MerkleRoot(<<x, y, z>>) = MerkleRoot(<<x, y, z, z>>)
=============================================================================
