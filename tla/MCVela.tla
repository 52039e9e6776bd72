------------------------------- MODULE MCVela -------------------------------
(* Instances of VelaNode for TLC. *)
EXTENDS VelaNode

CONSTANTS t, f, a   \* treasury, faucet and a user

Pay(from, to, amount, nonce) ==
  [from |-> from, to |-> to, amount |-> amount, fee |-> 1, nonce |-> nonce]

(* A payment of the treasury to the user. *)
OnePayment == {Pay(t, a, 2, 1)}
=============================================================================
