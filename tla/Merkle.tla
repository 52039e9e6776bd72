------------------------------- MODULE Merkle -------------------------------
(***************************************************************************)
(* merkle_root (types.rs), the digest of its transactions a block carries  *)
(* in its header.  blake3 is taken for collision-free: the hash of two     *)
(* hashes stands for their pair, and that of a transaction for it.         *)
(***************************************************************************)
EXTENDS Naturals, Sequences

NoTxs    == [zero |-> TRUE]
Leaf(tx) == [leaf |-> tx]

Node(left, right) == [node |-> <<left, right>>]

(* An odd level is filled up with its last hash. *)
Padded(hashes) ==
  IF Len(hashes) % 2 = 1 THEN Append(hashes, hashes[Len(hashes)]) ELSE hashes

(* One turn of the loop. *)
PairUp(hashes) ==
  IF Len(hashes) <= 1 THEN hashes
  ELSE [i \in 1 .. Len(Padded(hashes)) \div 2 |->
          Node(Padded(hashes)[2 * i - 1], Padded(hashes)[2 * i])]

(* One hash is left after fewer turns than there are transactions. *)
MerkleRoot(txs) ==
  LET level[n \in 0 .. Len(txs)] ==
        IF n = 0 THEN [i \in DOMAIN txs |-> Leaf(txs[i])] ELSE PairUp(level[n - 1])
  IN  IF txs = << >> THEN NoTxs ELSE level[Len(txs)][1]
=============================================================================
