------------------------------- MODULE MCRpc -------------------------------
(* Instances of Rpc for TLC. *)
EXTENDS Rpc

CONSTANTS t, f, a   \* treasury, faucet and a user

Pay(from, to, amount, fee, nonce) ==
  [from |-> from, to |-> to, amount |-> amount, fee |-> fee, nonce |-> nonce]

(* A payment the treasury can make at once and the one after it. *)
First  == Pay(t, a, 2, 1, 1)
Second == Pay(t, a, 2, 1, 2)

(* A peer's transaction whose amount is covered but not its fee. *)
Uncovered == Pay(f, t, 6, 1, 1)

(* One that does not verify. *)
Bad == Pay(t, f, 1, 1, 1)

MCSubmissions == {First, Second, Bad}
MCForged      == {Bad}
MCGossip      == {Uncovered}
MCTxs         == MCSubmissions \cup MCGossip

(* One well-formed address and one text that is none. *)
MCAccountOf == [text \in {"a"} |-> a]

Symmetry == Permutations(Client)
=============================================================================
