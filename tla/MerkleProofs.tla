----------------------------- MODULE MerkleProofs -----------------------------
(***************************************************************************)
(* What merkle_root binds a block to, for lists of every length.           *)
(***************************************************************************)
EXTENDS Merkle, WorldStateProofs

(* A list of hashes.                                                       *)
IsList(h) == \E S : h \in Seq(S)

(* No entry of a list comes twice.                                         *)
Distinct(h) == \A i, j \in 1 .. Len(h) : h[i] = h[j] => i = j

(* Half of a number, rounded up.                                           *)
LEMMA Halves ==
  ASSUME NEW n \in Nat, n >= 2
  PROVE  \E m \in Nat : /\ m >= 1 /\ m <= n - 1 /\ (n = 2 * m \/ n = 2 * m - 1)
                        /\ (n % 2 = 1 => n = 2 * m - 1) /\ (n % 2 # 1 => n = 2 * m)
                        /\ (2 * m) \div 2 = m
<1>1. n = 2 * (n \div 2) + (n % 2) /\ n % 2 \in {0, 1} /\ n \div 2 \in Nat
  OBVIOUS
<1>2. CASE n % 2 = 1
  <2>1. n \div 2 + 1 \in Nat /\ (2 * (n \div 2 + 1)) \div 2 = n \div 2 + 1
    BY <1>1
  <2>2. n = 2 * (n \div 2 + 1) - 1 /\ n \div 2 + 1 <= n - 1
    BY <1>1, <1>2
  <2> QED BY <1>1, <1>2, <2>1, <2>2
<1>3. CASE n % 2 = 0
  <2>1. (2 * (n \div 2)) \div 2 = n \div 2
    BY <1>1
  <2> QED BY <1>1, <1>3, <2>1
<1> QED BY <1>1, <1>2, <1>3

(* A list is the function of its entries.                                  *)
LEMMA ListIs ==
  ASSUME NEW h, IsList(h)
  PROVE  Len(h) \in Nat /\ DOMAIN h = 1 .. Len(h) /\ h = [i \in 1 .. Len(h) |-> h[i]]
BY DEF IsList

(* The right one of a pair: the last hash of an odd level is its own.      *)
Right(h, i) == IF 2 * i <= Len(h) THEN h[2 * i] ELSE h[Len(h)]

(* One turn of the loop, by the pairs it makes.                            *)
LEMMA PairUpIs ==
  ASSUME NEW h, IsList(h), Len(h) >= 2
  PROVE  \E m \in Nat :
           /\ m >= 1 /\ m <= Len(h) - 1 /\ (Len(h) = 2 * m \/ Len(h) = 2 * m - 1)
           /\ PairUp(h) = [i \in 1 .. m |-> Node(h[2 * i - 1], Right(h, i))]
<1>1. PICK S : h \in Seq(S)  BY DEF IsList
<1>2. PICK n : n = Len(h)  OBVIOUS
<1>3. n \in Nat /\ n >= 2 /\ h[n] \in S  BY <1>1, <1>2
<1>4. PICK m \in Nat : /\ m >= 1 /\ m <= n - 1 /\ (n = 2 * m \/ n = 2 * m - 1)
                       /\ (n % 2 = 1 => n = 2 * m - 1) /\ (n % 2 # 1 => n = 2 * m)
                       /\ (2 * m) \div 2 = m
  BY <1>3, Halves
<1>5. PICK p : p = Padded(h)  OBVIOUS
<1>6. /\ Len(p) = 2 * m
      /\ \A i \in 1 .. m : p[2 * i - 1] = h[2 * i - 1] /\ p[2 * i] = Right(h, i)
  <2>1. CASE n % 2 = 1
    <3>1. p = Append(h, h[n])  BY <1>2, <1>5, <2>1 DEF Padded
    <3>2. Len(p) = n + 1 /\ p[n + 1] = h[n] /\ \A i \in 1 .. n : p[i] = h[i]
      BY <1>1, <1>2, <1>3, <3>1
    <3>3. n = 2 * m - 1  BY <1>4, <2>1
    <3>4. ASSUME NEW i \in 1 .. m PROVE p[2 * i - 1] = h[2 * i - 1] /\ p[2 * i] = Right(h, i)
      <4>1. 2 * i - 1 \in 1 .. n /\ (2 * i <= n \/ 2 * i = n + 1)  BY <1>4, <3>3
      <4> QED BY <1>2, <1>3, <3>2, <4>1 DEF Right
    <3> QED BY <1>3, <3>2, <3>3, <3>4
  <2>2. CASE n % 2 # 1
    <3>1. p = h  BY <1>2, <1>5, <2>2 DEF Padded
    <3>2. n = 2 * m  BY <1>4, <2>2
    <3>3. \A i \in 1 .. m : 2 * i <= n  BY <3>2, <1>3
    <3> QED BY <1>2, <3>1, <3>2, <3>3 DEF Right
  <2> QED BY <2>1, <2>2
<1>7. PairUp(h) = [i \in 1 .. Len(p) \div 2 |-> Node(p[2 * i - 1], p[2 * i])]
  BY <1>2, <1>3, <1>5 DEF PairUp
<1>8. Len(p) \div 2 = m  BY <1>4, <1>6
<1>9. PairUp(h) = [i \in 1 .. m |-> Node(h[2 * i - 1], Right(h, i))]
  BY <1>6, <1>7, <1>8
<1> QED BY <1>2, <1>4, <1>9

(* A hash tells what it is of.                                             *)
LEMMA NodesDiffer ==
  ASSUME NEW a, NEW b, NEW c, NEW d
  PROVE  /\ Node(a, b) = Node(c, d) => a = c /\ b = d
         /\ Leaf(a) = Leaf(b) => a = b
         /\ Leaf(a) # Node(c, d) /\ Leaf(a) # NoTxs /\ Node(c, d) # NoTxs
<1>1. Node(a, b) = Node(c, d) => a = c /\ b = d
  <2>1. Node(a, b).node = <<a, b>> /\ Node(c, d).node = <<c, d>>  BY DEF Node
  <2> QED BY <2>1
<1>2. Leaf(a) = Leaf(b) => a = b
  <2>1. Leaf(a).leaf = a /\ Leaf(b).leaf = b  BY DEF Leaf
  <2> QED BY <2>1
<1>3. DOMAIN Leaf(a) = {"leaf"} /\ DOMAIN Node(c, d) = {"node"} /\ DOMAIN NoTxs = {"zero"}
  BY DEF Leaf, Node, NoTxs
<1> QED BY <1>1, <1>2, <1>3

(* Pairing up keeps a list, of hashes of pairs, in which no hash repeats.  *)
LEMMA PairUpKeeps ==
  ASSUME NEW h, IsList(h), Len(h) >= 2
  PROVE  /\ IsList(PairUp(h)) /\ Len(PairUp(h)) >= 1 /\ Len(PairUp(h)) <= Len(h) - 1
         /\ \A i \in 1 .. Len(PairUp(h)) : \E a, b : PairUp(h)[i] = Node(a, b)
         /\ Distinct(h) => Distinct(PairUp(h))
<1>1. PICK m \in Nat :
        /\ m >= 1 /\ m <= Len(h) - 1 /\ (Len(h) = 2 * m \/ Len(h) = 2 * m - 1)
        /\ PairUp(h) = [i \in 1 .. m |-> Node(h[2 * i - 1], Right(h, i))]
  BY PairUpIs
<1>2. PICK p : p = PairUp(h)  OBVIOUS
<1>3. \A i \in 1 .. m : p[i] = Node(h[2 * i - 1], Right(h, i))  BY <1>1, <1>2
<1>4. Len(p) = m /\ IsList(p)
  <2>1. PICK T : \A i \in 1 .. m : p[i] \in T
    <3>1. \A i \in 1 .. m : p[i] \in {p[k] : k \in 1 .. m}  OBVIOUS
    <3> QED BY <3>1
  <2>2. p = [i \in 1 .. m |-> p[i]]  BY <1>1, <1>2
  <2>3. p \in Seq(T) /\ Len(p) = m  BY <2>1, <2>2
  <2> QED BY <2>3 DEF IsList
<1>5. ASSUME Distinct(h) PROVE Distinct(p)
  <2>1. ASSUME NEW i \in 1 .. m, NEW j \in 1 .. m, p[i] = p[j] PROVE i = j
    <3>1. h[2 * i - 1] = h[2 * j - 1]  BY <1>3, <2>1, NodesDiffer
    <3>2. 2 * i - 1 \in 1 .. Len(h) /\ 2 * j - 1 \in 1 .. Len(h)  BY <1>1, ListIs
    <3>3. 2 * i - 1 = 2 * j - 1  BY <1>5, <3>1, <3>2 DEF Distinct
    <3> QED BY <3>3
  <2> QED BY <1>4, <2>1 DEF Distinct
<1> QED BY <1>1, <1>2, <1>3, <1>4, <1>5

(* Of lists in which no hash repeats, different ones pair up differently:  *)
(* only the last pair of an odd list has two equal parts.                  *)
LEMMA PairUpInjective ==
  ASSUME NEW h, IsList(h), Len(h) >= 2, Distinct(h),
         NEW g, IsList(g), Len(g) >= 2, Distinct(g), PairUp(h) = PairUp(g)
  PROVE  h = g
<1>1. PICK m \in Nat :
        /\ m >= 1 /\ (Len(h) = 2 * m \/ Len(h) = 2 * m - 1)
        /\ PairUp(h) = [i \in 1 .. m |-> Node(h[2 * i - 1], Right(h, i))]
  BY PairUpIs
<1>2. PICK k \in Nat :
        /\ k >= 1 /\ (Len(g) = 2 * k \/ Len(g) = 2 * k - 1)
        /\ PairUp(g) = [i \in 1 .. k |-> Node(g[2 * i - 1], Right(g, i))]
  BY PairUpIs
<1>3. m = k
  <2>1. Len([i \in 1 .. m |-> Node(h[2 * i - 1], Right(h, i))]) = m  OBVIOUS
  <2>2. Len([i \in 1 .. k |-> Node(g[2 * i - 1], Right(g, i))]) = k  OBVIOUS
  <2> QED BY <1>1, <1>2, <2>1, <2>2
<1>4. ASSUME NEW i \in 1 .. m PROVE h[2 * i - 1] = g[2 * i - 1] /\ Right(h, i) = Right(g, i)
  <2>1. PairUp(h)[i] = Node(h[2 * i - 1], Right(h, i)) /\ PairUp(g)[i] = Node(g[2 * i - 1], Right(g, i))
    BY <1>1, <1>2, <1>3
  <2> QED BY <2>1, NodesDiffer
<1>5. Len(h) \in Nat /\ Len(g) \in Nat  BY ListIs
<1>6. h[2 * m - 1] = Right(h, m) <=> Len(h) = 2 * m - 1
  <2>1. CASE Len(h) = 2 * m - 1  BY <2>1, <1>5 DEF Right
  <2>2. CASE Len(h) = 2 * m
    <3>1. h[2 * m - 1] # h[2 * m]  BY <1>1, <2>2 DEF Distinct
    <3> QED BY <2>2, <3>1 DEF Right
  <2> QED BY <1>1, <2>1, <2>2
<1>7. g[2 * m - 1] = Right(g, m) <=> Len(g) = 2 * m - 1
  <2>1. CASE Len(g) = 2 * m - 1  BY <2>1, <1>5 DEF Right
  <2>2. CASE Len(g) = 2 * m
    <3>1. g[2 * m - 1] # g[2 * m]  BY <1>1, <2>2 DEF Distinct
    <3> QED BY <2>2, <3>1 DEF Right
  <2> QED BY <1>2, <1>3, <2>1, <2>2
<1>8. Len(h) = Len(g)  BY <1>1, <1>2, <1>3, <1>4, <1>6, <1>7
<1>9. ASSUME NEW j \in 1 .. Len(h) PROVE h[j] = g[j]
  <2>1. PICK i \in Nat : j = 2 * i - 1 \/ j = 2 * i
    <3>1. /\ (j + 1) \div 2 \in Nat
          /\ j = 2 * ((j + 1) \div 2) - 1 \/ j = 2 * ((j + 1) \div 2)
      BY <1>5
    <3> QED BY <3>1
  <2>2. i \in 1 .. m  BY <1>1, <2>1
  <2>3. CASE j = 2 * i - 1  BY <1>4, <2>2, <2>3
  <2>4. CASE j = 2 * i
    <3>1. 2 * i <= Len(h) /\ 2 * i <= Len(g)  BY <1>8, <2>4
    <3> QED BY <1>4, <2>2, <2>4, <3>1 DEF Right
  <2> QED BY <2>1, <2>3, <2>4
<1>10. h = [j \in 1 .. Len(h) |-> h[j]] /\ g = [j \in 1 .. Len(g) |-> g[j]]  BY ListIs
<1> QED BY <1>8, <1>9, <1>10

-----------------------------------------------------------------------------
(* Levels                                                                  *)

(* g is the list of levels merkle_root goes through in n turns from h.     *)
IsLevels(h, n, g) ==
  g = [i \in 0 .. n |-> IF i = 0 THEN h ELSE PairUp(g[i - 1])]

(* A level is paired up from the one before.                               *)
LEMMA LevelIs ==
  ASSUME NEW h, NEW n \in Nat, NEW g, IsLevels(h, n, g)
  PROVE  g[0] = h /\ \A i \in 1 .. n : g[i] = PairUp(g[i - 1])
<1>1. g[0] = h  BY DEF IsLevels
<1>2. ASSUME NEW i \in 1 .. n PROVE g[i] = PairUp(g[i - 1])
  <2>1. i \in 0 .. n /\ i # 0  OBVIOUS
  <2> QED BY <2>1 DEF IsLevels
<1> QED BY <1>1, <1>2

(* There is such a list.                                                   *)
LEMMA IsLevelsExists ==
  ASSUME NEW h, NEW n \in Nat
  PROVE  \E g : IsLevels(h, n, g)
<1> DEFINE S == {k \in 0 .. n : \E g : IsLevels(h, k, g)}
<1>1. 0 \in S
  <2>1. IsLevels(h, 0, [i \in 0 .. 0 |-> h])  BY DEF IsLevels
  <2> QED BY <2>1
<1>2. ASSUME NEW k \in 1 .. n, k - 1 \in S PROVE k \in S
  <2>1. PICK g : IsLevels(h, k - 1, g)  BY <1>2
  <2> DEFINE f == [i \in 0 .. k |-> IF i = k THEN PairUp(g[k - 1]) ELSE g[i]]
  <2>2. f[0] = h  BY <2>1 DEF IsLevels
  <2>3. ASSUME NEW i \in 0 .. k, i # 0 PROVE f[i] = PairUp(f[i - 1])
    <3>1. f[i - 1] = g[i - 1]  BY <2>3
    <3>2. CASE i = k  BY <3>1, <3>2
    <3>3. CASE i # k
      <4>1. g[i] = PairUp(g[i - 1])  BY <2>1, <2>3, <3>3 DEF IsLevels
      <4> QED BY <3>1, <3>3, <4>1
    <3> QED BY <3>2, <3>3
  <2>4. IsLevels(h, k, f)
    <3>1. f = [i \in 0 .. k |-> f[i]]  OBVIOUS
    <3> HIDE DEF f
    <3> QED BY <2>2, <2>3, <3>1 DEF IsLevels
  <2> QED BY <2>4
<1>3. n \in S
  <2> HIDE DEF S
  <2> QED BY <1>1, <1>2, Induct
<1> QED BY <1>3

(* The level the loop starts from.                                         *)
Leaves(txs) == [i \in DOMAIN txs |-> Leaf(txs[i])]

(* The root is the first hash of the last level.                           *)
LEMMA RootIs ==
  ASSUME NEW txs, Len(txs) \in Nat, txs # << >>
  PROVE  \E g : IsLevels(Leaves(txs), Len(txs), g) /\ MerkleRoot(txs) = g[Len(txs)][1]
<1> DEFINE g == CHOOSE x : IsLevels(Leaves(txs), Len(txs), x)
<1>1. IsLevels(Leaves(txs), Len(txs), g)  BY IsLevelsExists
<1>2. MerkleRoot(txs) = g[Len(txs)][1]  BY DEF MerkleRoot, IsLevels, Leaves
<1> QED BY <1>1, <1>2

(* What every level is: a list, in which no hash repeats if none repeats   *)
(* in the first; and a level that is not the first has fewer hashes than   *)
(* the one before, all of pairs, unless nothing is left to pair.           *)
LEMMA LevelsAre ==
  ASSUME NEW h, IsList(h), Len(h) >= 1, NEW n \in Nat, NEW g, IsLevels(h, n, g), NEW k \in 0 .. n
  PROVE  /\ IsList(g[k]) /\ Len(g[k]) >= 1
         /\ Len(g[k]) = 1 \/ Len(g[k]) + k <= Len(h)
         /\ Distinct(h) => Distinct(g[k])
<1> DEFINE Good(i) == /\ IsList(g[i]) /\ Len(g[i]) >= 1
                      /\ Len(g[i]) = 1 \/ Len(g[i]) + i <= Len(h)
                      /\ Distinct(h) => Distinct(g[i])
           S == {i \in 0 .. n : Good(i)}
<1>1. 0 \in S
  <2>1. g[0] = h  BY LevelIs
  <2>2. Good(0)  BY <2>1, ListIs
  <2> QED BY <2>2
<1>2. ASSUME NEW i \in 1 .. n, i - 1 \in S PROVE i \in S
  <2>1. PICK p : p = g[i - 1]  OBVIOUS
  <2>2. g[i] = PairUp(p)  BY <2>1, LevelIs
  <2>3. /\ IsList(p) /\ Len(p) \in Nat /\ Len(p) >= 1 /\ (Len(p) = 1 \/ Len(p) + (i - 1) <= Len(h))
        /\ Distinct(h) => Distinct(p)
    BY <1>2, <2>1, ListIs
  <2>4. Len(h) \in Nat  BY ListIs
  <2>5. CASE Len(p) = 1
    <3>1. g[i] = p  BY <2>2, <2>5 DEF PairUp
    <3>2. Good(i)  BY <2>3, <2>5, <3>1
    <3> QED BY <3>2
  <2>6. CASE Len(p) >= 2
    <3>1. PICK q : q = PairUp(p)  OBVIOUS
    <3>2. /\ IsList(q) /\ Len(q) \in Nat /\ Len(q) >= 1 /\ Len(q) <= Len(p) - 1
          /\ Distinct(p) => Distinct(q)
      BY <2>3, <2>6, <3>1, PairUpKeeps, ListIs
    <3>3. Len(q) + i <= Len(h)
      <4>1. PICK a \in Nat, b \in Nat, c \in Nat : a = Len(p) /\ b = Len(q) /\ c = Len(h)
        BY <2>3, <2>4, <3>2
      <4>2. i \in Nat  OBVIOUS
      <4>3. a >= 2 /\ (a = 1 \/ a + (i - 1) <= c) /\ b <= a - 1
        BY <2>3, <2>6, <3>2, <4>1
      <4>4. b + i <= c  BY <4>2, <4>3
      <4> QED BY <4>1, <4>4
    <3>4. Good(i)  BY <2>2, <2>3, <3>1, <3>2, <3>3
    <3> QED BY <3>4
  <2> QED BY <2>3, <2>5, <2>6
<1>3. k \in S
  <2>1. 0 .. n \subseteq S
    <3> HIDE DEF S
    <3> QED BY <1>1, <1>2, Induct
  <2> HIDE DEF S
  <2> QED BY <2>1
<1> QED BY <1>3

(* As many turns as there are hashes leave one.                            *)
LEMMA OneLeft ==
  ASSUME NEW h, IsList(h), Len(h) >= 1, NEW g, IsLevels(h, Len(h), g)
  PROVE  g[Len(h)] = <<g[Len(h)][1]>>
<1>1. Len(h) \in Nat  BY ListIs
<1>2. PICK p : p = g[Len(h)]  OBVIOUS
<1>3. IsList(p) /\ Len(p) >= 1 /\ (Len(p) = 1 \/ Len(p) + Len(h) <= Len(h))
  BY <1>1, <1>2, LevelsAre
<1>4. Len(p) = 1  BY <1>1, <1>3, ListIs
<1>5. p = [i \in 1 .. 1 |-> p[i]]  BY <1>3, <1>4, ListIs
<1>6. p = <<p[1]>>  BY <1>5
<1> QED BY <1>2, <1>6

(* A level is the first, or was paired up from one with hashes to pair.    *)
LEMMA FirstTime ==
  ASSUME NEW h, IsList(h), Len(h) >= 1, NEW n \in Nat, NEW g, IsLevels(h, n, g), NEW d \in 0 .. n
  PROVE  g[d] = h \/ \E j \in 1 .. n : Len(g[j - 1]) >= 2 /\ g[j] = g[d]
<1> DEFINE T == {j \in 0 .. n : g[j] = g[d]}
<1>1. PICK j \in T : \A k \in T : ~ (k < j)
  <2>1. T \in SUBSET Nat /\ T # {}  OBVIOUS
  <2> HIDE DEF T
  <2> QED BY <2>1, LeastElement
<1>2. CASE j = 0  BY <1>2, LevelIs
<1>3. CASE j # 0
  <2>1. j \in 1 .. n /\ j - 1 \in 0 .. n /\ j - 1 < j  BY <1>3
  <2>2. g[j - 1] # g[j]  BY <1>1, <2>1
  <2>3. g[j] = PairUp(g[j - 1])  BY <2>1, LevelIs
  <2>4. PICK p : p = g[j - 1]  OBVIOUS
  <2>5. IsList(p) /\ Len(p) >= 1 /\ Len(p) \in Nat  BY <2>1, <2>4, LevelsAre, ListIs
  <2>6. Len(p) # 1
    <3>1. PairUp(p) # p  BY <2>2, <2>3, <2>4
    <3>2. Len(p) = 1 => PairUp(p) = p  BY DEF PairUp
    <3> QED BY <3>1, <3>2
  <2>7. Len(p) >= 2
    <3>1. PICK a \in Nat : a = Len(p)  BY <2>5
    <3>2. a >= 1 /\ a # 1  BY <2>5, <2>6, <3>1
    <3> QED BY <3>1, <3>2
  <2> QED BY <2>1, <2>4, <2>7
<1> QED BY <1>2, <1>3

(* All hashes are of transactions, as in the first level.                  *)
AllLeaves(h) == \A i \in 1 .. Len(h) : \E x : h[i] = Leaf(x)

(* What was paired up is no list of leaves.                                *)
LEMMA PairedIsNoLeaves ==
  ASSUME NEW h, IsList(h), Len(h) >= 2
  PROVE  ~ AllLeaves(PairUp(h))
<1>1. PICK q : q = PairUp(h)  OBVIOUS
<1>2. IsList(q) /\ Len(q) >= 1 /\ \A i \in 1 .. Len(q) : \E a, b : q[i] = Node(a, b)
  BY <1>1, PairUpKeeps
<1>3. 1 \in 1 .. Len(q)  BY <1>2, ListIs
<1>4. PICK a, b : q[1] = Node(a, b)  BY <1>2, <1>3
<1>5. \A x : q[1] # Leaf(x)  BY <1>4, NodesDiffer
<1> QED BY <1>1, <1>3, <1>5 DEF AllLeaves

(* Two lists of leaves without repetitions whose levels meet anywhere are  *)
(* the same: walk back from where they meet, one level of g at a time.     *)
LEMMA LevelsMeet ==
  ASSUME NEW h, IsList(h), Len(h) >= 1, Distinct(h), AllLeaves(h),
         NEW e, IsList(e), Len(e) >= 1, Distinct(e), AllLeaves(e),
         NEW n \in Nat, NEW g, IsLevels(h, n, g),
         NEW m \in Nat, NEW f, IsLevels(e, m, f), g[n] = f[m]
  PROVE  h = e
<1>1. g[0] = h /\ \A i \in 1 .. n : g[i] = PairUp(g[i - 1])  BY LevelIs
<1>2. f[0] = e /\ \A i \in 1 .. m : f[i] = PairUp(f[i - 1])  BY LevelIs
<1> DEFINE S == {k \in 0 .. n : \E d \in 0 .. m : g[n - k] = f[d]}
<1>3. 0 \in S
  <2>1. n - 0 = n /\ m \in 0 .. m  OBVIOUS
  <2> QED BY <2>1
<1>4. ASSUME NEW k \in 1 .. n, k - 1 \in S PROVE k \in S
  <2>1. PICK i : i = n - k + 1  OBVIOUS
  <2>2. i \in 1 .. n /\ n - k = i - 1 /\ n - (k - 1) = i /\ i - 1 \in 0 .. n /\ k \in 0 .. n  BY <2>1
  <2>3. PICK d \in 0 .. m : g[i] = f[d]  BY <1>4, <2>2
  <2>4. PICK p : p = g[i - 1]  OBVIOUS
  <2>5. g[i] = PairUp(p)  BY <1>1, <2>2, <2>4
  <2>6. IsList(p) /\ Len(p) >= 1 /\ Distinct(p) /\ Len(p) \in Nat  BY <2>2, <2>4, LevelsAre, ListIs
  <2>7. CASE Len(p) = 1
    <3>1. p = f[d]  BY <2>3, <2>5, <2>7 DEF PairUp
    <3>2. g[i - 1] = f[d]  BY <2>4, <3>1
    <3>3. g[n - k] = f[d]  BY <2>2, <3>2
    <3> QED BY <2>2, <3>3
  <2>8. CASE Len(p) # 1
    <3>1. Len(p) >= 2
      <4>1. PICK a \in Nat : a = Len(p)  BY <2>6
      <4>2. a >= 1 /\ a # 1  BY <2>6, <2>8, <4>1
      <4> QED BY <4>1, <4>2
    <3>2. f[d] # e  BY <2>3, <2>5, <2>6, <3>1, PairedIsNoLeaves
    <3>3. PICK j \in 1 .. m : Len(f[j - 1]) >= 2 /\ f[j] = f[d]  BY <3>2, FirstTime
    <3>4. j - 1 \in 0 .. m  OBVIOUS
    <3>5. PICK q : q = f[j - 1]  OBVIOUS
    <3>6. f[j] = PairUp(q)  BY <1>2, <3>5
    <3>7. IsList(q) /\ Distinct(q) /\ Len(q) >= 2  BY <3>3, <3>4, <3>5, LevelsAre
    <3>8. PairUp(p) = PairUp(q)  BY <2>3, <2>5, <3>3, <3>6
    <3>9. p = q  BY <2>6, <3>1, <3>7, <3>8, PairUpInjective
    <3>10. g[i - 1] = f[j - 1]  BY <2>4, <3>5, <3>9
    <3>11. g[n - k] = f[j - 1]  BY <2>2, <3>10
    <3> QED BY <2>2, <3>4, <3>11
  <2> QED BY <2>7, <2>8
<1>5. n \in S
  <2>1. 0 .. n \subseteq S
    <3> HIDE DEF S
    <3> QED BY <1>3, <1>4, Induct
  <2> HIDE DEF S
  <2> QED BY <2>1
<1>6. PICK d \in 0 .. m : h = f[d]
  <2>1. g[0] = h  BY <1>1
  <2>2. n - n = 0  OBVIOUS
  <2> QED BY <1>5, <2>1, <2>2
<1>7. f[d] # e => FALSE
  <2> SUFFICES ASSUME f[d] # e PROVE FALSE  OBVIOUS
  <2>1. PICK j \in 1 .. m : Len(f[j - 1]) >= 2 /\ f[j] = f[d]  BY FirstTime
  <2>2. j - 1 \in 0 .. m  OBVIOUS
  <2>3. PICK q : q = f[j - 1]  OBVIOUS
  <2>4. f[j] = PairUp(q)  BY <1>2, <2>3
  <2>5. IsList(q) /\ Len(q) >= 2  BY <2>1, <2>2, <2>3, LevelsAre
  <2>6. ~ AllLeaves(h)  BY <1>6, <2>1, <2>4, <2>5, PairedIsNoLeaves
  <2> QED BY <2>6
<1> QED BY <1>6, <1>7

(* The leaves of a list: as many, as different, and they give it back.     *)
LEMMA LeavesAre ==
  ASSUME NEW S, NEW s \in Seq(S)
  PROVE  /\ IsList(Leaves(s)) /\ Len(Leaves(s)) = Len(s) /\ AllLeaves(Leaves(s))
         /\ Distinct(s) => Distinct(Leaves(s))
         /\ \A i \in 1 .. Len(s) : Leaves(s)[i] = Leaf(s[i])
<1>1. PICK p : p = Leaves(s)  OBVIOUS
<1>2. p = [i \in 1 .. Len(s) |-> Leaf(s[i])]  BY <1>1 DEF Leaves
<1>3. p \in Seq({Leaf(x) : x \in S}) /\ Len(p) = Len(s) /\ \A i \in 1 .. Len(s) : p[i] = Leaf(s[i])
  <2>1. \A i \in 1 .. Len(s) : Leaf(s[i]) \in {Leaf(x) : x \in S}  OBVIOUS
  <2>2. Len(s) \in Nat  OBVIOUS
  <2> QED BY <1>2, <2>1, <2>2
<1>4. IsList(p)  BY <1>3 DEF IsList
<1>5. AllLeaves(p)  BY <1>3 DEF AllLeaves
<1>6. ASSUME Distinct(s) PROVE Distinct(p)
  <2>1. ASSUME NEW i \in 1 .. Len(s), NEW j \in 1 .. Len(s), p[i] = p[j] PROVE i = j
    <3>1. s[i] = s[j]  BY <1>3, <2>1, NodesDiffer
    <3> QED BY <1>6, <3>1 DEF Distinct
  <2> QED BY <1>3, <2>1 DEF Distinct
<1> QED BY <1>1, <1>3, <1>4, <1>5, <1>6

(* The root of a list with transactions is not that of the empty one.      *)
LEMMA RootNotZero ==
  ASSUME NEW S, NEW s \in Seq(S), s # << >>
  PROVE  MerkleRoot(s) # NoTxs
<1>1. Len(s) \in Nat /\ Len(s) >= 1  OBVIOUS
<1>2. PICK h : h = Leaves(s)  OBVIOUS
<1>3. IsList(h) /\ Len(h) = Len(s) /\ h[1] = Leaf(s[1])  BY <1>1, <1>2, LeavesAre
<1>4. PICK n \in Nat : n = Len(s)  BY <1>1
<1>5. PICK g : IsLevels(h, n, g) /\ MerkleRoot(s) = g[n][1]  BY <1>1, <1>2, <1>4, RootIs
<1>6. CASE g[n] = h  BY <1>3, <1>5, <1>6, NodesDiffer
<1>7. CASE g[n] # h
  <2>1. PICK j \in 1 .. n : Len(g[j - 1]) >= 2 /\ g[j] = g[n]
    BY <1>1, <1>3, <1>5, <1>7, FirstTime
  <2>2. PICK p : p = g[j - 1]  OBVIOUS
  <2>3. IsList(p) /\ Len(p) >= 2  BY <1>1, <1>3, <1>5, <2>1, <2>2, LevelsAre
  <2>4. PICK q : q = PairUp(p)  OBVIOUS
  <2>5. g[n] = q  BY <1>5, <2>1, <2>2, <2>4, LevelIs
  <2>6. IsList(q) /\ Len(q) >= 1 /\ \A i \in 1 .. Len(q) : \E a, b : q[i] = Node(a, b)
    BY <2>3, <2>4, PairUpKeeps
  <2>7. 1 \in 1 .. Len(q)  BY <2>6, ListIs
  <2>8. PICK a, b : q[1] = Node(a, b)  BY <2>6, <2>7
  <2> QED BY <1>5, <2>5, <2>8, NodesDiffer
<1> QED BY <1>6, <1>7

(***************************************************************************)
(* merkle_root binds its block to its transactions and to their order:     *)
(* lists of any lengths in which no transaction comes twice have different *)
(* roots, however often a level was filled up on the way.                  *)
(***************************************************************************)
THEOREM RootBindsAll ==
  ASSUME NEW S, NEW s \in Seq(S), NEW t \in Seq(S), Distinct(s), Distinct(t),
         MerkleRoot(s) = MerkleRoot(t)
  PROVE  s = t
<1>1. CASE s = << >>
  <2>1. MerkleRoot(s) = NoTxs  BY <1>1 DEF MerkleRoot
  <2> QED BY <1>1, <2>1, RootNotZero
<1>2. CASE t = << >>
  <2>1. MerkleRoot(t) = NoTxs  BY <1>2 DEF MerkleRoot
  <2> QED BY <1>2, <2>1, RootNotZero
<1>3. CASE s # << >> /\ t # << >>
  <2>1. Len(s) \in Nat /\ Len(s) >= 1 /\ Len(t) \in Nat /\ Len(t) >= 1  BY <1>3
  <2>2. PICK h : h = Leaves(s)  OBVIOUS
  <2>3. PICK e : e = Leaves(t)  OBVIOUS
  <2>4. /\ IsList(h) /\ Len(h) = Len(s) /\ AllLeaves(h) /\ Distinct(h)
        /\ \A i \in 1 .. Len(s) : h[i] = Leaf(s[i])
    BY <2>2, LeavesAre
  <2>5. /\ IsList(e) /\ Len(e) = Len(t) /\ AllLeaves(e) /\ Distinct(e)
        /\ \A i \in 1 .. Len(t) : e[i] = Leaf(t[i])
    BY <2>3, LeavesAre
  <2>6. PICK g : IsLevels(h, Len(h), g) /\ MerkleRoot(s) = g[Len(h)][1]
    BY <1>3, <2>1, <2>2, <2>4, RootIs
  <2>7. PICK f : IsLevels(e, Len(e), f) /\ MerkleRoot(t) = f[Len(e)][1]
    BY <1>3, <2>1, <2>3, <2>5, RootIs
  <2>8. Len(h) >= 1 /\ Len(e) >= 1 /\ Len(h) \in Nat /\ Len(e) \in Nat  BY <2>1, <2>4, <2>5
  <2>9. g[Len(h)] = f[Len(e)]
    <3>1. g[Len(h)] = <<g[Len(h)][1]>>  BY <2>4, <2>6, <2>8, OneLeft
    <3>2. f[Len(e)] = <<f[Len(e)][1]>>  BY <2>5, <2>7, <2>8, OneLeft
    <3> QED BY <2>6, <2>7, <3>1, <3>2
  <2>10. h = e  BY <2>4, <2>5, <2>6, <2>7, <2>8, <2>9, LevelsMeet
  <2>11. Len(s) = Len(t) /\ \A i \in 1 .. Len(s) : s[i] = t[i]
    BY <2>4, <2>5, <2>10, NodesDiffer
  <2>12. s = [i \in 1 .. Len(s) |-> s[i]] /\ t = [i \in 1 .. Len(t) |-> t[i]]  OBVIOUS
  <2> QED BY <2>11, <2>12
<1> QED BY <1>1, <1>2, <1>3

(* A list of odd length and the one with its last hash once more pair up   *)
(* to the same.                                                            *)
LEMMA RepeatPairs ==
  ASSUME NEW h, IsList(h), Len(h) >= 2, Len(h) % 2 = 1
  PROVE  PairUp(Append(h, h[Len(h)])) = PairUp(h)
<1>1. PICK S : h \in Seq(S)  BY DEF IsList
<1>2. PICK n \in Nat : n = Len(h)  BY <1>1
<1>3. PICK p : p = Append(h, h[n])  OBVIOUS
<1>4. h[n] \in S  BY <1>1, <1>2
<1>5. Len(p) = n + 1 /\ p \in Seq(S)  BY <1>1, <1>2, <1>3, <1>4
<1>6. (n + 1) % 2 # 1 /\ n >= 2 /\ n % 2 = 1  BY <1>2
<1>7. Padded(p) = p /\ ~ (Len(p) <= 1)  BY <1>5, <1>6 DEF Padded
<1>8. Padded(h) = p  BY <1>2, <1>3, <1>6 DEF Padded
<1>9. PairUp(p) = [i \in 1 .. Len(p) \div 2 |-> Node(p[2 * i - 1], p[2 * i])]
  BY <1>7, Zenon DEF PairUp
<1>10. PairUp(h) = [i \in 1 .. Len(p) \div 2 |-> Node(p[2 * i - 1], p[2 * i])]
  BY <1>2, <1>6, <1>8 DEF PairUp
<1> QED BY <1>2, <1>3, <1>9, <1>10

(***************************************************************************)
(* It binds to nothing more: a list of odd length has the root of the list *)
(* in which its last transaction comes once more.                          *)
(***************************************************************************)
THEOREM RepeatHides ==
  ASSUME NEW S, NEW s \in Seq(S), Len(s) >= 2, Len(s) % 2 = 1
  PROVE  MerkleRoot(Append(s, s[Len(s)])) = MerkleRoot(s)
<1>1. PICK n \in Nat : n = Len(s)  OBVIOUS
<1>2. n >= 2 /\ n % 2 = 1 /\ s[n] \in S  BY <1>1
<1>3. PICK t : t = Append(s, s[n])  OBVIOUS
<1>4. t \in Seq(S) /\ Len(t) = n + 1 /\ t[n + 1] = s[n] /\ \A i \in 1 .. n : t[i] = s[i]
  BY <1>1, <1>2, <1>3
<1>5. PICK h : h = Leaves(s)  OBVIOUS
<1>6. IsList(h) /\ Len(h) = n /\ \A i \in 1 .. n : h[i] = Leaf(s[i])
  BY <1>1, <1>5, LeavesAre
<1>7. Leaves(t) = Append(h, h[n])
  <2>1. PICK H : h \in Seq(H)  BY <1>6 DEF IsList
  <2>2. h[n] \in H  BY <1>2, <1>6, <2>1
  <2>3. PICK e : e = Append(h, h[n])  OBVIOUS
  <2>4. e \in Seq(H) /\ Len(e) = n + 1 /\ e[n + 1] = h[n] /\ \A i \in 1 .. n : e[i] = h[i]
    BY <1>6, <2>1, <2>2, <2>3
  <2>5. \A i \in 1 .. n + 1 : e[i] = Leaf(t[i])
    <3>1. \A i \in 1 .. n : e[i] = Leaf(t[i])  BY <1>4, <1>6, <2>4
    <3>2. e[n + 1] = Leaf(t[n + 1])  BY <1>2, <1>4, <1>6, <2>4
    <3> QED BY <3>1, <3>2
  <2>6. e = [i \in 1 .. n + 1 |-> e[i]]  BY <2>4
  <2>7. Leaves(t) = [i \in 1 .. n + 1 |-> Leaf(t[i])]  BY <1>4 DEF Leaves
  <2> QED BY <2>3, <2>5, <2>6, <2>7
<1>8. PICK g : IsLevels(h, n, g) /\ MerkleRoot(s) = g[n][1]
  <2>1. s # << >>  BY <1>1, <1>2
  <2> QED BY <1>1, <1>5, <2>1, RootIs
<1>9. PICK m \in Nat : m = n + 1  OBVIOUS
<1>10. PICK e : e = Append(h, h[n])  OBVIOUS
<1>11. PICK f : IsLevels(e, m, f) /\ MerkleRoot(t) = f[m][1]
  <2>1. t # << >> /\ Len(t) = m  BY <1>4, <1>9
  <2> QED BY <1>7, <1>10, <2>1, RootIs
<1>12. f[0] = e /\ \A i \in 1 .. m : f[i] = PairUp(f[i - 1])
  <2>1. IsLevels(e, m, f)  BY <1>11
  <2> HIDE <1>11
  <2> QED BY <2>1, LevelIs
<1>13. g[0] = h /\ \A i \in 1 .. n : g[i] = PairUp(g[i - 1])  BY <1>8, LevelIs
<1>14. f[1] = g[1]
  <2>1. 1 \in 1 .. m /\ 1 \in 1 .. n /\ 1 - 1 = 0  BY <1>2, <1>9
  <2>2. f[1] = PairUp(e) /\ g[1] = PairUp(h)  BY <1>12, <1>13, <2>1
  <2> QED BY <1>2, <1>6, <1>10, <2>2, RepeatPairs
<1> DEFINE E == {i \in 0 .. n : i = 0 \/ f[i] = g[i]}
<1>15. n \in E
  <2>1. 0 \in E  OBVIOUS
  <2>2. ASSUME NEW i \in 1 .. n, i - 1 \in E PROVE i \in E
    <3>0. i \in 1 .. m  BY <1>9
    <3>1. f[i] = PairUp(f[i - 1]) /\ g[i] = PairUp(g[i - 1])  BY <1>12, <1>13, <3>0
    <3>2. CASE i = 1  BY <1>14, <3>2
    <3>3. CASE i # 1  BY <2>2, <3>1, <3>3
    <3> QED BY <3>2, <3>3
  <2>3. 0 .. n \subseteq E
    <3> HIDE DEF E
    <3> QED BY <2>1, <2>2, Induct
  <2> HIDE DEF E
  <2> QED BY <2>3
<1>16. f[m] = g[n]
  <2>1. f[m] = PairUp(f[n])
    <3>1. m \in 1 .. m /\ m - 1 = n  BY <1>9
    <3> QED BY <1>12, <3>1
  <2>2. f[n] = g[n]  BY <1>2, <1>15
  <2>3. g[n] = <<g[n][1]>>  BY <1>2, <1>6, <1>8, OneLeft
  <2>4. Len(g[n]) <= 1
    <3>1. PICK r : g[n] = <<r>>  BY <2>3
    <3> QED BY <3>1
  <2>5. PairUp(g[n]) = g[n]  BY <2>4 DEF PairUp
  <2> QED BY <2>1, <2>2, <2>5
<1> QED BY <1>1, <1>3, <1>8, <1>11, <1>16
=============================================================================
