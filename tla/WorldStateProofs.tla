--------------------------- MODULE WorldStateProofs ---------------------------
(***************************************************************************)
(* Lemmas about the operators of WorldState: what apply_block's loop and   *)
(* the replay of main.rs compute for blocks of any length, which the       *)
(* proofs about Ledger, Rpc and VelaNode cite.                             *)
(*                                                                         *)
(* The induction theorems of the library take an operator as a parameter.  *)
(* The first section derives what is needed from well-foundedness instead, *)
(* with the property given as a set.                                       *)
(***************************************************************************)
EXTENDS WorldState, Integers, FiniteSetTheorems, TLAPS

-----------------------------------------------------------------------------
(* Induction                                                               *)

(* Every nonempty set of naturals has a least element: the library's       *)
(* well-foundedness of <, in a form the provers can use.                   *)
LEMMA LeastElement ==
  ASSUME NEW T \in SUBSET Nat, T # {}
  PROVE  \E m \in T : \A k \in T : ~ (k < m)
<1> DEFINE R == {ss \in Nat \X Nat : ss[1] < ss[2]}
<1>1. IsWellFoundedOn(R, Nat)  BY NatLessThanWellFounded, Zenon DEF OpToRel
<1>2. \E x \in T : \A y \in T : ~ (<<y, x>> \in R)
  <2> HIDE DEF R
  <2> QED BY <1>1, WFMin
<1> QED BY <1>2

(* Induction up to n for a property given as a set: the loops of apply_block*)
(* and of the replay go through their lists in order.                      *)
LEMMA Induct ==
  ASSUME NEW n \in Nat, NEW S, 0 \in S, \A i \in 1 .. n : i - 1 \in S => i \in S
  PROVE  0 .. n \subseteq S
<1> DEFINE T == (0 .. n) \ S
<1> SUFFICES ASSUME T # {} PROVE FALSE  OBVIOUS
<1>1. PICK m \in T : \A k \in T : ~ (k < m)
  <2>1. T \in SUBSET Nat  OBVIOUS
  <2> HIDE DEF T
  <2> QED BY <2>1, LeastElement
<1>2. m # 0 /\ m \in 0 .. n  OBVIOUS
<1>3. m - 1 \in 0 .. n /\ m - 1 < m /\ m - 1 \notin T
  BY <1>1, <1>2
<1> QED BY <1>2, <1>3

(* Induction over the subsets of a finite set, as infinite descent: a set of*)
(* them (those for which a claim fails) that has no minimal member is empty.*)
LEMMA NoMinimalSubset ==
  ASSUME NEW U, IsFiniteSet(U), NEW B \in SUBSET SUBSET U,
         \A T \in B : \E t \in B : t \subseteq T /\ t # T
  PROVE  B = {}
<1> SUFFICES ASSUME B # {} PROVE FALSE  OBVIOUS
<1> DEFINE R == StrictSubsetOrdering(U)
<1>1. IsWellFoundedOn(R, SUBSET U)
  <2>1. IsWellFoundedOn(StrictSubsetOrdering(U), FiniteSubsetsOf(U))
    BY FS_StrictSubsetOrderingWellFounded
  <2>2. FiniteSubsetsOf(U) = SUBSET U  BY FS_FiniteSubsetsOfFinite
  <2> QED BY <2>1, <2>2
<1>2. PICK T \in B : \A t \in B : ~ (<<t, T>> \in R)
  <2> HIDE DEF R
  <2> QED BY <1>1, WFMin
<1>3. PICK t \in B : t \subseteq T /\ t # T  OBVIOUS
<1>4. <<t, T>> \in R  BY <1>3 DEF StrictSubsetOrdering
<1> QED BY <1>2, <1>4

-----------------------------------------------------------------------------
(* Sums over finite sets (SumFunction, SumFunctionOnSet of Functions)      *)

Pick(s) == CHOOSE x \in s : TRUE

(* g is the recursive function that sums f over the subsets of U.          *)
IsSum(f, U, g) ==
  g = [s \in SUBSET U |-> IF s = {} THEN 0 ELSE f[Pick(s)] + g[s \ {Pick(s)}]]

(* The element a sum takes first is one of the set.                        *)
LEMMA PickIn == ASSUME NEW s, s # {} PROVE Pick(s) \in s
BY DEF Pick

(* The sum of the community modules is a recursive function of that kind.  *)
LEMMA SumIs ==
  ASSUME NEW f, NEW S
  PROVE  SumFunctionOnSet(f, S) = (CHOOSE g : IsSum(f, S, g))[S]
BY DEF SumFunctionOnSet, FoldFunctionOnSet, MapThenFoldSet, IsSum, Pick

(* Two such functions agree where both are defined.                        *)
LEMMA IsSumAgree ==
  ASSUME NEW f, NEW U, IsFiniteSet(U), NEW V \in SUBSET U,
         NEW g, NEW h, IsSum(f, U, g), IsSum(f, V, h)
  PROVE  \A s \in SUBSET V : g[s] = h[s]
<1> DEFINE B == {s \in SUBSET V : g[s] # h[s]}
<1>1. ASSUME NEW s \in B PROVE \E t \in B : t \subseteq s /\ t # s
  <2>1. s # {}  BY DEF IsSum
  <2> DEFINE t == s \ {Pick(s)}
  <2>2. Pick(s) \in s  BY <2>1, PickIn
  <2>3. g[s] = f[Pick(s)] + g[t]  BY <2>1 DEF IsSum
  <2>4. h[s] = f[Pick(s)] + h[t]  BY <2>1 DEF IsSum
  <2>5. t \in B  BY <2>3, <2>4
  <2> QED BY <2>5, <2>2
<1>2. IsFiniteSet(V)  BY FS_Subset
<1>3. B = {}
  <2>1. B \in SUBSET SUBSET V  OBVIOUS
  <2> HIDE DEF B
  <2> QED BY <1>1, <1>2, <2>1, NoMinimalSubset
<1> QED BY <1>3

(* Such a function exists for every finite set.                            *)
LEMMA IsSumExists ==
  ASSUME NEW f, NEW U, IsFiniteSet(U)
  PROVE  \E g : IsSum(f, U, g)
<1> DEFINE B == {T \in SUBSET U : ~ \E g : IsSum(f, T, g)}
<1>1. ASSUME NEW T \in B PROVE \E t \in B : t \subseteq T /\ t # T
  <2> SUFFICES ASSUME \A t \in SUBSET T : t # T => t \notin B PROVE FALSE  OBVIOUS
  <2> DEFINE G(t) == CHOOSE g : IsSum(f, t, g)
  <2>1. ASSUME NEW t \in SUBSET T, t # T PROVE IsSum(f, t, G(t))  
    BY <2>1
  <2> DEFINE val(s) == IF s = {} THEN 0 ELSE f[Pick(s)] + G(s \ {Pick(s)})[s \ {Pick(s)}]
             h == [s \in SUBSET T |-> val(s)]
  <2>2. ASSUME NEW t \in SUBSET T, t # T PROVE G(t)[t] = h[t]
    <3>1. G(t)[t] = IF t = {} THEN 0 ELSE f[Pick(t)] + G(t)[t \ {Pick(t)}]
      BY <2>1, <2>2 DEF IsSum
    <3>2. CASE t = {}  BY <3>1, <3>2
    <3>3. CASE t # {}
      <4> DEFINE u == t \ {Pick(t)}
      <4>1. Pick(t) \in t  BY <3>3, PickIn
      <4>2. u \in SUBSET t /\ u # T /\ u \in SUBSET T  BY <4>1
      <4>3. IsSum(f, t, G(t)) /\ IsSum(f, u, G(u))  BY <2>1, <2>2, <4>2
      <4>4. IsFiniteSet(t)  BY FS_Subset
      <4>5. G(t)[u] = G(u)[u]
        <5> HIDE DEF G, u
        <5> QED BY <4>2, <4>3, <4>4, IsSumAgree
      <4> QED BY <3>1, <3>3, <4>5
    <3> QED BY <3>2, <3>3
  <2>3. ASSUME NEW s \in SUBSET T, s # {} PROVE h[s] = f[Pick(s)] + h[s \ {Pick(s)}]
    <3>1. Pick(s) \in s  BY <2>3, PickIn
    <3>2. s \ {Pick(s)} \in SUBSET T /\ s \ {Pick(s)} # T  BY <3>1
    <3>3. h[s \ {Pick(s)}] = G(s \ {Pick(s)})[s \ {Pick(s)}]  BY <3>2, <2>2
    <3>4. h[s] = f[Pick(s)] + G(s \ {Pick(s)})[s \ {Pick(s)}]  BY <2>3
    <3> QED BY <3>3, <3>4
  <2>4. h[{}] = 0  OBVIOUS
  <2>5. IsSum(f, T, h)
    <3>1. h = [s \in SUBSET T |-> h[s]]  OBVIOUS
    <3> HIDE DEF h
    <3> QED BY <3>1, <2>3, <2>4 DEF IsSum
  <2> QED BY <2>5
<1>2. B = {}
  <2>1. B \in SUBSET SUBSET U  OBVIOUS
  <2> HIDE DEF B
  <2> QED BY <1>1, <2>1, NoMinimalSubset
<1> QED BY <1>2

(* The sum over no element is zero.                                        *)
LEMMA SumEmpty == ASSUME NEW f PROVE SumFunctionOnSet(f, {}) = 0
<1>1. \E g : IsSum(f, {}, g)  BY FS_EmptySet, IsSumExists
<1>2. IsSum(f, {}, CHOOSE g : IsSum(f, {}, g))  BY <1>1
<1> QED BY <1>2, SumIs DEF IsSum

(* The recursion equation of the sum.                                      *)
LEMMA SumPick ==
  ASSUME NEW f, NEW S, IsFiniteSet(S), S # {}
  PROVE  SumFunctionOnSet(f, S) = f[Pick(S)] + SumFunctionOnSet(f, S \ {Pick(S)})
<1> DEFINE T == S \ {Pick(S)}
           g == CHOOSE x : IsSum(f, S, x)
           h == CHOOSE x : IsSum(f, T, x)
<1>1. IsFiniteSet(T)  BY FS_Subset
<1>2. IsSum(f, S, g) /\ IsSum(f, T, h)  BY <1>1, IsSumExists
<1>3. g[T] = h[T]
  <2> HIDE DEF g, h
  <2> QED BY <1>2, IsSumAgree
<1>4. g[S] = f[Pick(S)] + g[T]
  <2> HIDE DEF g
  <2> QED BY <1>2 DEF IsSum
<1> QED BY <1>3, <1>4, SumIs

(* A sum of naturals is a natural, one of integers an integer.             *)
LEMMA SumIn ==
  ASSUME NEW V \in {Nat, Int}, NEW f, NEW S, IsFiniteSet(S), \A x \in S : f[x] \in V
  PROVE  SumFunctionOnSet(f, S) \in V
<1> DEFINE B == {T \in SUBSET S : SumFunctionOnSet(f, T) \notin V}
<1>1. ASSUME NEW T \in B PROVE \E t \in B : t \subseteq T /\ t # T
  <2>1. IsFiniteSet(T)  BY FS_Subset
  <2>2. T # {}  BY SumEmpty
  <2>3. Pick(T) \in T  BY <2>2, PickIn
  <2>4. SumFunctionOnSet(f, T) = f[Pick(T)] + SumFunctionOnSet(f, T \ {Pick(T)})
    BY <2>1, <2>2, SumPick
  <2>5. T \ {Pick(T)} \in B  BY <2>3, <2>4
  <2> QED BY <2>3, <2>5
<1>2. B = {}
  <2>1. B \in SUBSET SUBSET S  OBVIOUS
  <2> HIDE DEF B
  <2> QED BY <1>1, <2>1, NoMinimalSubset
<1> QED BY <1>2

(* The sum depends on the values summed only.                              *)
LEMMA SumAgree ==
  ASSUME NEW f, NEW g, NEW S, IsFiniteSet(S), \A x \in S : f[x] = g[x]
  PROVE  SumFunctionOnSet(f, S) = SumFunctionOnSet(g, S)
<1> DEFINE B == {T \in SUBSET S : SumFunctionOnSet(f, T) # SumFunctionOnSet(g, T)}
<1>1. ASSUME NEW T \in B PROVE \E t \in B : t \subseteq T /\ t # T
  <2>1. IsFiniteSet(T)  BY FS_Subset
  <2>2. T # {}  BY SumEmpty
  <2>3. Pick(T) \in T  BY <2>2, PickIn
  <2>4. SumFunctionOnSet(f, T) = f[Pick(T)] + SumFunctionOnSet(f, T \ {Pick(T)})
    BY <2>1, <2>2, SumPick
  <2>5. SumFunctionOnSet(g, T) = g[Pick(T)] + SumFunctionOnSet(g, T \ {Pick(T)})
    BY <2>1, <2>2, SumPick
  <2>6. T \ {Pick(T)} \in B  BY <2>3, <2>4, <2>5
  <2> QED BY <2>3, <2>6
<1>2. B = {}
  <2>1. B \in SUBSET SUBSET S  OBVIOUS
  <2> HIDE DEF B
  <2> QED BY <1>1, <2>1, NoMinimalSubset
<1> QED BY <1>2

(* Any element can be taken out first: the order of the sum does not matter.*)
LEMMA SumRemove ==
  ASSUME NEW f, NEW S, IsFiniteSet(S), \A x \in S : f[x] \in Int, NEW a \in S
  PROVE  SumFunctionOnSet(f, S) = f[a] + SumFunctionOnSet(f, S \ {a})
<1> DEFINE Sum(T) == SumFunctionOnSet(f, T)
           B == {T \in SUBSET S : \E x \in T : Sum(T) # f[x] + Sum(T \ {x})}
<1>1. ASSUME NEW T \in SUBSET S PROVE Sum(T) \in Int /\ IsFiniteSet(T)
  BY FS_Subset, SumIn
<1>2. ASSUME NEW T \in SUBSET S, T # {} PROVE Sum(T) = f[Pick(T)] + Sum(T \ {Pick(T)})
  BY <1>1, <1>2, SumPick
<1> HIDE DEF Sum
<1>3. ASSUME NEW T \in B PROVE \E t \in B : t \subseteq T /\ t # T
  <2>1. PICK x \in T : Sum(T) # f[x] + Sum(T \ {x})  OBVIOUS
  <2> DEFINE p == Pick(T)
             U == T \ {p}
             V == T \ {x}
  <2>2. p \in T  BY PickIn
  <2>3. Sum(T) = f[p] + Sum(U)  BY <1>2
  <2>4. p # x  BY <2>1, <2>3
  <2>5. x \in U /\ p \in V /\ U \ {x} = V \ {p}  BY <2>2, <2>4
  <2>6. U \in SUBSET S /\ V \in SUBSET S /\ U # T /\ V # T  BY <2>2
  <2>7. SUFFICES ASSUME U \notin B, V \notin B PROVE FALSE  BY <2>6
  <2>8. Sum(U) = f[x] + Sum(U \ {x}) /\ Sum(V) = f[p] + Sum(V \ {p})
    BY <2>5, <2>6, <2>7
  <2>9. f[x] \in Int /\ f[p] \in Int /\ Sum(U \ {x}) \in Int
    BY <1>1, <2>2, <2>6
  <2>10. Sum(T) # f[x] + Sum(V)  BY <2>1
  <2> HIDE DEF p, U, V, B
  <2>11. Sum(U \ {x}) = Sum(V \ {p})  BY <2>5, Zenon
  <2> QED BY <2>3, <2>8, <2>9, <2>10, <2>11
<1>4. B = {}
  <2>1. B \in SUBSET SUBSET S  OBVIOUS
  <2> HIDE DEF B
  <2> QED BY <1>3, <2>1, NoMinimalSubset
<1>5. S \notin B  BY <1>4
<1> QED BY <1>5 DEF Sum

(* A sum over one more element.                                            *)
LEMMA SumAdd ==
  ASSUME NEW f, NEW S, IsFiniteSet(S), NEW a, a \notin S, \A x \in S \cup {a} : f[x] \in Int
  PROVE  SumFunctionOnSet(f, S \cup {a}) = SumFunctionOnSet(f, S) + f[a]
<1> DEFINE T == S \cup {a}
<1>1. IsFiniteSet(T)  BY FS_AddElement
<1>2. a \in T /\ T \ {a} = S  OBVIOUS
<1>3. SumFunctionOnSet(f, T) = f[a] + SumFunctionOnSet(f, T \ {a})
  <2>1. \A x \in T : f[x] \in Int  OBVIOUS
  <2> HIDE DEF T
  <2> QED BY <1>1, <1>2, <2>1, SumRemove
<1>4. SumFunctionOnSet(f, S) \in Int /\ f[a] \in Int  BY SumIn
<1>5. SumFunctionOnSet(f, T) = SumFunctionOnSet(f, S) + f[a]
  <2> HIDE DEF T
  <2>1. SumFunctionOnSet(f, T \ {a}) = SumFunctionOnSet(f, S)  BY <1>2, Zenon
  <2> QED BY <1>3, <1>4, <2>1
<1> QED BY <1>5

(* A change of one value changes the sum by the difference: the balances   *)
(* before and after a debit or a credit.                                   *)
LEMMA SumUpdate ==
  ASSUME NEW S, IsFiniteSet(S), NEW f \in [S -> Int], NEW g \in [S -> Int], NEW a \in S,
         \A x \in S \ {a} : g[x] = f[x]
  PROVE  SumFunction(g) = SumFunction(f) - f[a] + g[a]
<1>1. SumFunction(f) = SumFunctionOnSet(f, S) /\ SumFunction(g) = SumFunctionOnSet(g, S)
  BY DEF SumFunction
<1> DEFINE T == S \ {a}
<1>2. IsFiniteSet(T)  BY FS_Subset
<1>3. SumFunctionOnSet(f, S) = f[a] + SumFunctionOnSet(f, T)  BY SumRemove
<1>4. SumFunctionOnSet(g, S) = g[a] + SumFunctionOnSet(g, T)  BY SumRemove
<1>5. SumFunctionOnSet(f, T) = SumFunctionOnSet(g, T)
  <2>1. \A x \in T : f[x] = g[x]  OBVIOUS
  <2> HIDE DEF T
  <2> QED BY <1>2, <2>1, SumAgree
<1>6. SumFunctionOnSet(f, T) \in Int
  <2>1. \A x \in T : f[x] \in Int  OBVIOUS
  <2> HIDE DEF T
  <2> QED BY <1>2, <2>1, SumIn
<1> QED BY <1>1, <1>3, <1>4, <1>5, <1>6

(* No value exceeds the sum of naturals: no balance exceeds the total.     *)
LEMMA SumBound ==
  ASSUME NEW S, IsFiniteSet(S), NEW f \in [S -> Nat], NEW a \in S
  PROVE  SumFunction(f) \in Nat /\ f[a] <= SumFunction(f)
<1>1. SumFunction(f) = SumFunctionOnSet(f, S)  BY DEF SumFunction
<1> DEFINE T == S \ {a}
<1>2. IsFiniteSet(T)  BY FS_Subset
<1>3. SumFunctionOnSet(f, S) = f[a] + SumFunctionOnSet(f, T)  BY SumRemove
<1>4. SumFunctionOnSet(f, T) \in Nat
  <2>1. \A x \in T : f[x] \in Nat  OBVIOUS
  <2> HIDE DEF T
  <2> QED BY <1>2, <2>1, SumIn
<1> QED BY <1>1, <1>3, <1>4

(* A sum of zeros is zero: the accounts before genesis.                    *)
LEMMA SumZero ==
  ASSUME NEW S, IsFiniteSet(S), NEW f \in [S -> {0}]
  PROVE  SumFunction(f) = 0
<1> DEFINE B == {T \in SUBSET S : SumFunctionOnSet(f, T) # 0}
<1>1. ASSUME NEW T \in B PROVE \E t \in B : t \subseteq T /\ t # T
  <2>1. IsFiniteSet(T)  BY FS_Subset
  <2>2. T # {}  BY SumEmpty
  <2>3. Pick(T) \in T /\ f[Pick(T)] = 0  BY <2>2, PickIn
  <2>4. SumFunctionOnSet(f, T) = f[Pick(T)] + SumFunctionOnSet(f, T \ {Pick(T)})
    BY <2>1, <2>2, SumPick
  <2>5. T \ {Pick(T)} \in B  BY <2>3, <2>4
  <2> QED BY <2>3, <2>5
<1>2. B = {}
  <2>1. B \in SUBSET SUBSET S  OBVIOUS
  <2> HIDE DEF B
  <2> QED BY <1>1, <2>1, NoMinimalSubset
<1> QED BY <1>2 DEF SumFunction

-----------------------------------------------------------------------------
(* Arithmetic on u64                                                       *)

(* Division with remainder.                                                *)
LEMMA DivMod == ASSUME NEW M \in Nat \ {0}, NEW x \in Int
  PROVE /\ x \div M \in Int /\ x % M \in 0 .. M - 1
        /\ x = (x \div M) * M + (x % M)
OBVIOUS

(* Zero is the only multiple of M strictly between -M and M.               *)
LEMMA NoMultipleBetween == ASSUME NEW M \in Nat \ {0}, NEW k \in Int, NEW s \in Int, -M < s, s < M, s = k * M PROVE k = 0
<1>1. CASE k >= 1  
  <2>1. (k-1)*M >= 0 BY <1>1
  <2> QED BY <2>1
<1>2. CASE k <= -1  
  <2>1. (-k-1)*M >= 0 BY <1>2
  <2> QED BY <2>1
<1> QED BY <1>1, <1>2

(* Multiples of the modulus vanish.                                        *)
LEMMA ModMult == ASSUME NEW M \in Nat \ {0}, NEW s \in 0 .. M-1, NEW q \in Int PROVE (s + q*M) % M = s
<1> DEFINE x == s + q * M
           d == x \div M
           r == x % M
<1>1. x \in Int OBVIOUS
<1>2. d \in Int /\ r \in 0 .. M - 1 /\ x = (d * M) + r
  <2> HIDE DEF x
  <2> QED BY <1>1, DivMod
<1>3. s - r = (d - q) * M
  <2> HIDE DEF d, r
  <2> QED BY <1>2
<1>4. d - q = 0
  <2> HIDE DEF d, r
  <2>1. s - r \in Int /\ -M < s - r /\ s - r < M /\ d - q \in Int BY <1>2
  <2> QED BY <2>1, <1>3, NoMultipleBetween
<1>5. s - r = 0
  <2> HIDE DEF d, r
  <2> QED BY <1>2, <1>3, <1>4
<1> QED BY <1>2, <1>5

(* A sum of two u64 values wraps at most once.                             *)
LEMMA ModOnce ==
  ASSUME NEW M \in Nat, NEW a \in 0 .. M - 1, NEW b \in 0 .. M - 1
  PROVE  (a + b) % M = IF a + b < M THEN a + b ELSE a + b - M
OBVIOUS

-----------------------------------------------------------------------------
(* The loops                                                               *)

(* g is the recursive function of Along up to k.                           *)
IsAlong(ws, txs, k, g) ==
  g = [i \in 0 .. k |-> IF i = 0 THEN ws ELSE ApplyTx(g[i - 1], txs[i])]

(* The recursion of apply_block's loop has a solution.                     *)
LEMMA IsAlongExists ==
  ASSUME NEW ws, NEW txs, NEW n \in Nat
  PROVE  \E g : IsAlong(ws, txs, n, g)
<1> DEFINE S == {k \in 0 .. n : \E g : IsAlong(ws, txs, k, g)}
<1>1. 0 \in S
  <2>1. IsAlong(ws, txs, 0, [i \in 0 .. 0 |-> ws])  BY DEF IsAlong
  <2> QED BY <2>1
<1>2. ASSUME NEW k \in 1 .. n, k - 1 \in S PROVE k \in S
  <2>1. PICK g : IsAlong(ws, txs, k - 1, g)  BY <1>2
  <2> DEFINE h == [i \in 0 .. k |-> IF i = k THEN ApplyTx(g[k - 1], txs[k]) ELSE g[i]]
  <2>2. h[0] = ws  BY <2>1 DEF IsAlong
  <2>3. ASSUME NEW i \in 0 .. k, i # 0 PROVE h[i] = ApplyTx(h[i - 1], txs[i])
    <3>1. h[i - 1] = g[i - 1]  BY <2>3
    <3>2. CASE i = k  BY <3>1, <3>2
    <3>3. CASE i # k
      <4>1. g[i] = ApplyTx(g[i - 1], txs[i])  BY <2>1, <2>3, <3>3 DEF IsAlong
      <4> QED BY <3>1, <3>3, <4>1
    <3> QED BY <3>2, <3>3
  <2>4. IsAlong(ws, txs, k, h)
    <3>1. h = [i \in 0 .. k |-> h[i]]  OBVIOUS
    <3> HIDE DEF h
    <3> QED BY <2>2, <2>3, <3>1 DEF IsAlong
  <2> QED BY <2>4
<1>3. n \in S
  <2> HIDE DEF S
  <2> QED BY <1>1, <1>2, Induct
<1> QED BY <1>3

(* Along goes through the transactions in order.                           *)
LEMMA AlongDef ==
  ASSUME NEW ws, NEW txs, Len(txs) \in Nat
  PROVE  /\ Along(ws, txs)[0] = ws
         /\ \A i \in 1 .. Len(txs) : Along(ws, txs)[i] = ApplyTx(Along(ws, txs)[i - 1], txs[i])
<1>1. IsAlong(ws, txs, Len(txs), Along(ws, txs))
  BY IsAlongExists DEF Along, IsAlong
<1> QED BY <1>1 DEF IsAlong

(* g is the recursive function of Replay up to k.                          *)
IsReplay(blocks, k, g) ==
  g = [i \in 0 .. k |-> IF i = 0 THEN NewWorldState ELSE ApplyBlock(g[i - 1], blocks[i])]

(* The recursion of the replay has a solution.                             *)
LEMMA IsReplayExists ==
  ASSUME NEW blocks, NEW n \in Nat
  PROVE  \E g : IsReplay(blocks, n, g)
<1> DEFINE S == {k \in 0 .. n : \E g : IsReplay(blocks, k, g)}
<1>1. 0 \in S
  <2>1. IsReplay(blocks, 0, [i \in 0 .. 0 |-> NewWorldState])  BY DEF IsReplay
  <2> QED BY <2>1
<1>2. ASSUME NEW k \in 1 .. n, k - 1 \in S PROVE k \in S
  <2>1. PICK g : IsReplay(blocks, k - 1, g)  BY <1>2
  <2> DEFINE h == [i \in 0 .. k |-> IF i = k THEN ApplyBlock(g[k - 1], blocks[k]) ELSE g[i]]
  <2>2. h[0] = NewWorldState  BY <2>1 DEF IsReplay
  <2>3. ASSUME NEW i \in 0 .. k, i # 0 PROVE h[i] = ApplyBlock(h[i - 1], blocks[i])
    <3>1. h[i - 1] = g[i - 1]  BY <2>3
    <3>2. CASE i = k  BY <3>1, <3>2
    <3>3. CASE i # k
      <4>1. g[i] = ApplyBlock(g[i - 1], blocks[i])  BY <2>1, <2>3, <3>3 DEF IsReplay
      <4> QED BY <3>1, <3>3, <4>1
    <3> QED BY <3>2, <3>3
  <2>4. IsReplay(blocks, k, h)
    <3>1. h = [i \in 0 .. k |-> h[i]]  OBVIOUS
    <3> HIDE DEF h
    <3> QED BY <2>2, <2>3, <3>1 DEF IsReplay
  <2> QED BY <2>4
<1>3. n \in S
  <2> HIDE DEF S
  <2> QED BY <1>1, <1>2, Induct
<1> QED BY <1>3

(* Replay is the last value of a solution.                                 *)
LEMMA ReplayIs ==
  ASSUME NEW blocks, Len(blocks) \in Nat
  PROVE  \E g : IsReplay(blocks, Len(blocks), g) /\ Replay(blocks) = g[Len(blocks)]
<1> DEFINE g == CHOOSE x : IsReplay(blocks, Len(blocks), x)
<1>1. IsReplay(blocks, Len(blocks), g)  BY IsReplayExists
<1>2. Replay(blocks) = g[Len(blocks)]  BY DEF Replay, IsReplay
<1> QED BY <1>1, <1>2

(* What a replay reaches after m blocks depends on these blocks only.      *)
LEMMA ReplayAgree ==
  ASSUME NEW b, NEW c, NEW m \in Nat, NEW n \in Nat, m <= n,
         \A i \in 1 .. m : b[i] = c[i],
         NEW g, NEW h, IsReplay(b, m, g), IsReplay(c, n, h)
  PROVE  g[m] = h[m]
<1> DEFINE S == {k \in 0 .. m : g[k] = h[k]}
<1>1. 0 \in S  BY DEF IsReplay
<1>2. ASSUME NEW k \in 1 .. m, k - 1 \in S PROVE k \in S
  <2>1. g[k] = ApplyBlock(g[k - 1], b[k])  BY DEF IsReplay
  <2>2. h[k] = ApplyBlock(h[k - 1], c[k])  BY DEF IsReplay
  <2> QED BY <1>2, <2>1, <2>2
<1>3. m \in S
  <2> HIDE DEF S
  <2> QED BY <1>1, <1>2, Induct
<1> QED BY <1>3

(* The replay of no block is the empty state.                              *)
LEMMA ReplayEmpty == Replay(<< >>) = NewWorldState
<1>1. Len(<< >>) = 0  OBVIOUS
<1> QED BY <1>1, ReplayIs DEF IsReplay

(* Replaying a chain and then applying one more block is replaying the longer*)
(* chain: main.rs's start-up loop and the calls of apply_block agree.      *)
LEMMA ReplayAppend ==
  ASSUME NEW B, NEW blocks \in Seq(B), NEW b \in B
  PROVE  Replay(Append(blocks, b)) = ApplyBlock(Replay(blocks), b)
<1> DEFINE more == Append(blocks, b)
           n == Len(blocks)
<1>1. n \in Nat /\ Len(more) = n + 1 /\ more[n + 1] = b /\ \A i \in 1 .. n : blocks[i] = more[i]
  OBVIOUS
<1>2. PICK g : IsReplay(blocks, n, g) /\ Replay(blocks) = g[n]  BY <1>1, ReplayIs
<1> HIDE DEF more
<1>3. PICK h : IsReplay(more, n + 1, h) /\ Replay(more) = h[n + 1]
  <2>1. Len(more) \in Nat  BY <1>1
  <2>2. \E h : IsReplay(more, Len(more), h) /\ Replay(more) = h[Len(more)]  BY <2>1, ReplayIs
  <2> QED BY <1>1, <2>2
<1> HIDE DEF n
<1>4. g[n] = h[n]
  <2>1. n + 1 \in Nat /\ n <= n + 1  BY <1>1
  <2> QED BY <1>1, <1>2, <1>3, <2>1, ReplayAgree
<1>5. h[n + 1] = ApplyBlock(h[n], more[n + 1])  BY <1>1, <1>3 DEF IsReplay
<1>6. Replay(more) = ApplyBlock(Replay(blocks), b)  BY <1>1, <1>2, <1>3, <1>4, <1>5
<1> QED BY <1>6 DEF more

-----------------------------------------------------------------------------
(* Types                                                                   *)

(* The accounts and states of the program, and the transactions whose      *)
(* fields have their types.                                                *)
Account == [balance : 0 .. U64 - 1, nonce : Nat]

WorldStates == [accounts : [Addr -> Account], total_supply : Nat, total_txs : Nat]

Payable(tx) == {tx.from, tx.to} \subseteq Addr /\ {tx.amount, tx.fee} \subseteq 0 .. U64 - 1

(* The cost of a transaction is a u64 value, off by the modulus if it wraps.*)
LEMMA CostIs ==
  ASSUME NEW tx, Payable(tx)
  PROVE  /\ Cost(tx) \in 0 .. U64 - 1
         /\ Cost(tx) = IF tx.amount + tx.fee < U64 THEN tx.amount + tx.fee
                                                   ELSE tx.amount + tx.fee - U64
<1>1. tx.amount \in 0 .. U64 - 1 /\ tx.fee \in 0 .. U64 - 1 /\ U64 \in Nat
  BY WorldStateAssumption DEF Payable
<1>2. Cost(tx) = IF tx.amount + tx.fee < U64 THEN tx.amount + tx.fee ELSE tx.amount + tx.fee - U64
  BY <1>1, ModOnce, Zenon DEF Cost
<1> QED BY <1>1, <1>2

(* A covered debit leaves u64 balances: the subtraction does not go below  *)
(* zero.                                                                   *)
LEMMA DebitType ==
  ASSUME NEW ws \in WorldStates, NEW tx, Payable(tx),
         ws.accounts[tx.from].balance >= Cost(tx)
  PROVE  Debit(ws.accounts, tx) \in [Addr -> Account]
<1>1. Cost(tx) \in 0 .. U64 - 1  BY CostIs
<1>2. ws.accounts \in [Addr -> Account] /\ tx.from \in Addr  BY DEF WorldStates, Payable
<1>3. ws.accounts[tx.from].balance \in 0 .. U64 - 1 /\ ws.accounts[tx.from].nonce \in Nat
  BY <1>2 DEF Account
<1> DEFINE acc == [balance |-> ws.accounts[tx.from].balance - Cost(tx), nonce |-> ws.accounts[tx.from].nonce + 1]
<1>4. acc \in Account
  <2>1. ws.accounts[tx.from].balance - Cost(tx) \in 0 .. U64 - 1
    BY <1>1, <1>3, WorldStateAssumption
  <2> QED BY <1>3, <2>1 DEF Account
<1>5. Debit(ws.accounts, tx) = [ws.accounts EXCEPT ![tx.from] = acc]  BY DEF Debit
<1> QED BY <1>2, <1>4, <1>5

(* So does a credit.                                                       *)
LEMMA CreditType ==
  ASSUME NEW accounts \in [Addr -> Account], NEW tx, Payable(tx)
  PROVE  /\ Credit(accounts, tx) \in [Addr -> Account]
         /\ (accounts[tx.to].balance + tx.amount) % U64 \in 0 .. U64 - 1
<1>1. tx.to \in Addr /\ tx.amount \in 0 .. U64 - 1  BY DEF Payable
<1>2. accounts[tx.to].balance \in 0 .. U64 - 1 /\ accounts[tx.to].nonce \in Nat
  BY <1>1 DEF Account
<1> DEFINE acc == [balance |-> (accounts[tx.to].balance + tx.amount) % U64, nonce |-> accounts[tx.to].nonce]
<1>3. (accounts[tx.to].balance + tx.amount) % U64 \in 0 .. U64 - 1
  <2> DEFINE x == accounts[tx.to].balance
  <2>1. U64 \in Nat  BY WorldStateAssumption
  <2>2. x \in 0 .. U64 - 1  BY <1>2
  <2> HIDE DEF x
  <2>3. (x + tx.amount) % U64 = IF x + tx.amount < U64 THEN x + tx.amount ELSE x + tx.amount - U64
    BY <1>1, <2>1, <2>2, ModOnce, Zenon
  <2>4. (x + tx.amount) % U64 \in 0 .. U64 - 1  BY <1>1, <2>1, <2>2, <2>3
  <2> QED BY <2>4 DEF x
<1>4. acc \in Account  BY <1>2, <1>3 DEF Account
<1>5. Credit(accounts, tx) = [accounts EXCEPT ![tx.to] = acc]  BY DEF Credit
<1> QED BY <1>1, <1>3, <1>4, <1>5

(* What one turn of the loop does: nothing, or a debit, a credit and a count.*)
LEMMA ApplyTxIs ==
  ASSUME NEW ws \in WorldStates, NEW tx, Payable(tx)
  PROVE  /\ ws.accounts[tx.from].balance < Cost(tx) => ApplyTx(ws, tx) = ws
         /\ ws.accounts[tx.from].balance >= Cost(tx) =>
              /\ ApplyTx(ws, tx) \in WorldStates
              /\ ApplyTx(ws, tx).accounts = Credit(Debit(ws.accounts, tx), tx)
              /\ ApplyTx(ws, tx).total_supply = ws.total_supply
              /\ ApplyTx(ws, tx).total_txs = ws.total_txs + 1
<1>1. ws.accounts[tx.from].balance < Cost(tx) => ApplyTx(ws, tx) = ws  BY DEF ApplyTx
<1>2. ASSUME ws.accounts[tx.from].balance >= Cost(tx)
      PROVE  ApplyTx(ws, tx) = Counted(ws, Credit(Debit(ws.accounts, tx), tx))
  <2>1. ws.accounts \in [Addr -> Account] /\ tx.from \in Addr /\ tx.to \in Addr
    BY DEF WorldStates, Payable
  <2>2. ws.accounts[tx.from].balance \in Int /\ Cost(tx) \in Int
    BY <2>1, CostIs DEF Account
  <2>3. ~ (ws.accounts[tx.from].balance < Cost(tx))  BY <1>2, <2>2
  <2> QED BY <2>3 DEF ApplyTx
<1>3. ASSUME ws.accounts[tx.from].balance >= Cost(tx)
      PROVE  /\ ApplyTx(ws, tx) \in WorldStates
             /\ ApplyTx(ws, tx).accounts = Credit(Debit(ws.accounts, tx), tx)
             /\ ApplyTx(ws, tx).total_supply = ws.total_supply
             /\ ApplyTx(ws, tx).total_txs = ws.total_txs + 1
  <2>1. Credit(Debit(ws.accounts, tx), tx) \in [Addr -> Account]
    BY <1>3, DebitType, CreditType
  <2> QED BY <1>2, <1>3, <2>1 DEF WorldStates, Counted
<1>4. ws.accounts[tx.from].balance \in Int /\ Cost(tx) \in Int
  BY CostIs DEF WorldStates, Payable, Account
<1> QED BY <1>1, <1>3

(* It keeps the types and the supply, and lowers no nonce.                 *)
LEMMA ApplyTxKeeps ==
  ASSUME NEW ws \in WorldStates, NEW tx, Payable(tx)
  PROVE  /\ ApplyTx(ws, tx) \in WorldStates
         /\ ApplyTx(ws, tx).total_supply = ws.total_supply
         /\ \A a \in Addr : ApplyTx(ws, tx).accounts[a].nonce >= ws.accounts[a].nonce
<1>1. /\ ws.accounts \in [Addr -> Account] /\ tx.from \in Addr /\ tx.to \in Addr
      /\ ws.accounts[tx.from].balance \in Int /\ Cost(tx) \in Int
  BY CostIs DEF WorldStates, Payable, Account
<1>2. CASE ws.accounts[tx.from].balance < Cost(tx)
  <2>1. ApplyTx(ws, tx) = ws  BY <1>2, ApplyTxIs
  <2>2. \A a \in Addr : ws.accounts[a].nonce \in Nat  BY <1>1 DEF Account
  <2> QED BY <2>1, <2>2
<1>3. CASE ws.accounts[tx.from].balance >= Cost(tx)
  <2>1. /\ ApplyTx(ws, tx) \in WorldStates
        /\ ApplyTx(ws, tx).accounts = Credit(Debit(ws.accounts, tx), tx)
        /\ ApplyTx(ws, tx).total_supply = ws.total_supply
    BY <1>3, ApplyTxIs
  <2>2. Debit(ws.accounts, tx) \in [Addr -> Account]  BY <1>3, DebitType
  <2>3. ASSUME NEW a \in Addr
        PROVE  Credit(Debit(ws.accounts, tx), tx)[a].nonce >= ws.accounts[a].nonce
    <3>1. ws.accounts[a].nonce \in Nat  BY <1>1 DEF Account
    <3>2. Debit(ws.accounts, tx)[a].nonce >= ws.accounts[a].nonce
      BY <1>1, <3>1 DEF Debit
    <3>3. Credit(Debit(ws.accounts, tx), tx)[a].nonce = Debit(ws.accounts, tx)[a].nonce
      BY <1>1, <2>2 DEF Credit
    <3> QED BY <3>2, <3>3
  <2> QED BY <2>1, <2>3
<1> QED BY <1>1, <1>2, <1>3

(* The whole loop keeps the types and the supply, and lowers no nonce.     *)
LEMMA AlongKeeps ==
  ASSUME NEW ws \in WorldStates, NEW txs, Len(txs) \in Nat,
         \A i \in 1 .. Len(txs) : Payable(txs[i])
  PROVE  \A i \in 0 .. Len(txs) :
           /\ Along(ws, txs)[i] \in WorldStates
           /\ Along(ws, txs)[i].total_supply = ws.total_supply
           /\ \A a \in Addr : Along(ws, txs)[i].accounts[a].nonce >= ws.accounts[a].nonce
<1> DEFINE Keeps(v) == /\ v \in WorldStates
                       /\ v.total_supply = ws.total_supply
                       /\ \A a \in Addr : v.accounts[a].nonce >= ws.accounts[a].nonce
           n == Len(txs)
           S == {i \in 0 .. n : Keeps(Along(ws, txs)[i])}
<1>1. 0 \in S
  <2>1. \A a \in Addr : ws.accounts[a].nonce \in Nat  BY DEF WorldStates, Account
  <2>2. Keeps(ws)  BY <2>1
  <2> QED BY <2>2, AlongDef
<1>2. ASSUME NEW i \in 1 .. n, i - 1 \in S PROVE i \in S
  <2> DEFINE v == Along(ws, txs)[i - 1]
  <2>1. Along(ws, txs)[i] = ApplyTx(v, txs[i])  BY AlongDef
  <2>2. Keeps(v) /\ Payable(txs[i])  BY <1>2
  <2> HIDE DEF v
  <2>3. /\ ApplyTx(v, txs[i]) \in WorldStates
        /\ ApplyTx(v, txs[i]).total_supply = v.total_supply
        /\ \A a \in Addr : ApplyTx(v, txs[i]).accounts[a].nonce >= v.accounts[a].nonce
    BY <2>2, ApplyTxKeeps
  <2>4. ASSUME NEW a \in Addr
        PROVE  ApplyTx(v, txs[i]).accounts[a].nonce >= ws.accounts[a].nonce
    <3>1. /\ ApplyTx(v, txs[i]).accounts[a].nonce \in Nat
          /\ v.accounts[a].nonce \in Nat /\ ws.accounts[a].nonce \in Nat
      BY <2>2, <2>3 DEF WorldStates, Account
    <3> QED BY <2>2, <2>3, <3>1
  <2>5. Keeps(ApplyTx(v, txs[i]))  BY <2>2, <2>3, <2>4
  <2> HIDE DEF Keeps
  <2> QED BY <2>1, <2>5
<1>3. 0 .. n \subseteq S
  <2> HIDE DEF S
  <2> QED BY <1>1, <1>2, Induct
<1> QED BY <1>3

(* Genesis yields a state.                                                 *)
LEMMA GenesisAccounts ==
  /\ NewWorldState \in WorldStates
  /\ \A ws \in WorldStates : ApplyGenesis(ws) \in WorldStates
<1>1. NewWorldState \in WorldStates
  <2>1. 0 \in 0 .. U64 - 1  BY WorldStateAssumption DEF TOTAL_SUPPLY
  <2> QED BY <2>1 DEF NewWorldState, WorldStates, Account
<1>2. ASSUME NEW ws \in WorldStates PROVE ApplyGenesis(ws) \in WorldStates
  <2>1. TreasuryGrant \in 0 .. U64 - 1 /\ FaucetGrant \in 0 .. U64 - 1 /\ TOTAL_SUPPLY \in Nat
    BY WorldStateAssumption DEF TOTAL_SUPPLY
  <2>2. [balance |-> TreasuryGrant, nonce |-> 0] \in Account /\ [balance |-> FaucetGrant, nonce |-> 0] \in Account
    BY <2>1 DEF Account
  <2>3. [ws.accounts EXCEPT ![Treasury] = [balance |-> TreasuryGrant, nonce |-> 0],
                            ![Faucet] = [balance |-> FaucetGrant, nonce |-> 0]] \in [Addr -> Account]
    BY <2>2 DEF WorldStates
  <2> QED BY <2>1, <2>3 DEF ApplyGenesis, WorldStates
<1> QED BY <1>1, <1>2

(* A block of well-formed transactions leads from a state to a state.      *)
LEMMA ApplyBlockType ==
  ASSUME NEW ws \in WorldStates, NEW block, Len(block.txs) \in Nat,
         \A i \in 1 .. Len(block.txs) : Payable(block.txs[i])
  PROVE  ApplyBlock(ws, block) \in WorldStates
<1> DEFINE start == IF block.height = 0 /\ ws.total_supply = 0 THEN ApplyGenesis(ws) ELSE ws
<1>1. start \in WorldStates  BY GenesisAccounts
<1>2. ApplyBlock(ws, block) = Along(start, block.txs)[Len(block.txs)]  BY DEF ApplyBlock
<1> HIDE DEF start
<1> QED BY <1>1, <1>2, AlongKeeps

(* Above height zero a block mints nothing and lowers no nonce: so a nonce *)
(* that was next, or late, stays so.                                       *)
LEMMA ApplyBlockNonces ==
  ASSUME NEW ws \in WorldStates, NEW block, Len(block.txs) \in Nat,
         \A i \in 1 .. Len(block.txs) : Payable(block.txs[i]), block.height # 0
  PROVE  /\ ApplyBlock(ws, block).total_supply = ws.total_supply
         /\ \A a \in Addr : ApplyBlock(ws, block).accounts[a].nonce >= ws.accounts[a].nonce
<1>1. ApplyBlock(ws, block) = Along(ws, block.txs)[Len(block.txs)]  BY DEF ApplyBlock
<1> QED BY <1>1, AlongKeeps

(* Blocks of payable transactions replay to well-formed accounts, however  *)
(* many there are and whatever their heights.                              *)
LEMMA ReplayType ==
  ASSUME NEW blocks, Len(blocks) \in Nat,
         \A i \in 1 .. Len(blocks) :
           /\ Len(blocks[i].txs) \in Nat
           /\ \A k \in 1 .. Len(blocks[i].txs) : Payable(blocks[i].txs[k])
  PROVE  Replay(blocks) \in WorldStates
<1> DEFINE n == Len(blocks)
<1>1. PICK g : IsReplay(blocks, n, g) /\ Replay(blocks) = g[n]  BY ReplayIs
<1> DEFINE S == {i \in 0 .. n : g[i] \in WorldStates}
<1>2. 0 \in S  BY <1>1, GenesisAccounts DEF IsReplay
<1>3. ASSUME NEW k \in 1 .. n, k - 1 \in S PROVE k \in S
  <2>1. g[k] = ApplyBlock(g[k - 1], blocks[k])  BY <1>1 DEF IsReplay
  <2>2. g[k - 1] \in WorldStates  BY <1>3
  <2>3. g[k] \in WorldStates  BY <2>1, <2>2, ApplyBlockType
  <2> QED BY <2>3
<1>4. n \in S
  <2> HIDE DEF S
  <2> QED BY <1>2, <1>3, Induct
<1> QED BY <1>1, <1>4

-----------------------------------------------------------------------------
(* The sums of the balances and of the nonces                              *)

Balances(w) == [a \in Addr |-> w.accounts[a].balance]
Nonces(w)   == [a \in Addr |-> w.accounts[a].nonce]
Supply(w)   == SumFunction(Balances(w))

(* The sums of the balances and of the nonces are natural numbers. *)
LEMMA SupplyType ==
  ASSUME NEW w \in WorldStates
  PROVE  /\ Balances(w) \in [Addr -> 0 .. U64 - 1] /\ Supply(w) \in Nat
         /\ Nonces(w) \in [Addr -> Nat] /\ SumFunction(Nonces(w)) \in Nat
<1>1. Balances(w) \in [Addr -> 0 .. U64 - 1] /\ Nonces(w) \in [Addr -> Nat]
  BY DEF Balances, Nonces, WorldStates, Account
<1>2. IsFiniteSet(Addr) /\ Treasury \in Addr  BY WorldStateAssumption
<1>3. Balances(w) \in [Addr -> Nat]  BY <1>1, WorldStateAssumption
<1> QED BY <1>1, <1>2, <1>3, SumBound DEF Supply

(* The sender's half of a transaction in apply_block takes its cost out of *)
(* the supply and adds one to the nonces.                                  *)
LEMMA DebitSums ==
  ASSUME NEW w \in WorldStates, NEW v \in WorldStates, NEW tx, Payable(tx),
         w.accounts[tx.from].balance >= Cost(tx), v.accounts = Debit(w.accounts, tx)
  PROVE  /\ Supply(v) = Supply(w) - Cost(tx)
         /\ SumFunction(Nonces(v)) = SumFunction(Nonces(w)) + 1
<1>1. tx.from \in Addr /\ Cost(tx) \in 0 .. U64 - 1 /\ IsFiniteSet(Addr) /\ U64 \in Nat
  BY CostIs, WorldStateAssumption DEF Payable
<1>2. /\ Balances(v)[tx.from] = Balances(w)[tx.from] - Cost(tx)
      /\ Nonces(v)[tx.from] = Nonces(w)[tx.from] + 1
      /\ \A a \in Addr \ {tx.from} : Balances(v)[a] = Balances(w)[a] /\ Nonces(v)[a] = Nonces(w)[a]
  BY <1>1 DEF Balances, Nonces, Debit, WorldStates, Account
<1>3. /\ Balances(v) \in [Addr -> Int] /\ Balances(w) \in [Addr -> Int]
      /\ Nonces(v) \in [Addr -> Int] /\ Nonces(w) \in [Addr -> Int]
  BY <1>1, SupplyType
<1>4. Supply(v) = Supply(w) - Balances(w)[tx.from] + Balances(v)[tx.from]
  BY <1>1, <1>2, <1>3, SumUpdate DEF Supply
<1>5. SumFunction(Nonces(v)) = SumFunction(Nonces(w)) - Nonces(w)[tx.from] + Nonces(v)[tx.from]
  BY <1>1, <1>2, <1>3, SumUpdate
<1>6. Supply(w) \in Int /\ SumFunction(Nonces(w)) \in Int  BY SupplyType
<1>7. Balances(w)[tx.from] \in Int /\ Nonces(w)[tx.from] \in Int  BY <1>1, <1>3
<1> QED BY <1>1, <1>2, <1>4, <1>5, <1>6, <1>7

(* The recipient's half adds the amount, up to one wrap-around of the      *)
(* balance, and leaves the nonces alone.                                   *)
LEMMA CreditSums ==
  ASSUME NEW w \in WorldStates, NEW v \in WorldStates, NEW tx, Payable(tx),
         v.accounts = Credit(w.accounts, tx)
  PROVE  /\ Supply(v) = Supply(w) + tx.amount \/ Supply(v) = Supply(w) + tx.amount - U64
         /\ Supply(w) + tx.amount < U64 => Supply(v) = Supply(w) + tx.amount
         /\ SumFunction(Nonces(v)) = SumFunction(Nonces(w))
<1> DEFINE x == w.accounts[tx.to].balance
<1>1. /\ tx.to \in Addr /\ tx.amount \in 0 .. U64 - 1 /\ IsFiniteSet(Addr) /\ U64 \in Nat
      /\ x \in 0 .. U64 - 1
  BY WorldStateAssumption DEF Payable, WorldStates, Account
<1>2. /\ Balances(w)[tx.to] = x
      /\ Balances(v)[tx.to] = (x + tx.amount) % U64
      /\ Nonces(v)[tx.to] = Nonces(w)[tx.to]
      /\ \A a \in Addr \ {tx.to} : Balances(v)[a] = Balances(w)[a] /\ Nonces(v)[a] = Nonces(w)[a]
  BY <1>1 DEF Balances, Nonces, Credit, WorldStates, Account
<1>3. /\ Balances(v) \in [Addr -> Int] /\ Balances(w) \in [Addr -> Nat]
      /\ Nonces(v) \in [Addr -> Int] /\ Nonces(w) \in [Addr -> Int]
      /\ Balances(w) \in [Addr -> Int]
  BY <1>1, SupplyType
<1>4. Supply(v) = Supply(w) - Balances(w)[tx.to] + Balances(v)[tx.to]
  BY <1>1, <1>2, <1>3, SumUpdate DEF Supply
<1>5. SumFunction(Nonces(v)) = SumFunction(Nonces(w)) - Nonces(w)[tx.to] + Nonces(v)[tx.to]
  BY <1>1, <1>2, <1>3, SumUpdate
<1>6. Supply(w) \in Nat /\ SumFunction(Nonces(w)) \in Nat  BY SupplyType
<1>7. x <= Supply(w)  BY <1>1, <1>2, <1>3, SumBound DEF Supply
<1>8. Nonces(w)[tx.to] \in Int  BY <1>1, <1>3
<1> HIDE DEF x
<1>9. (x + tx.amount) % U64 = IF x + tx.amount < U64 THEN x + tx.amount ELSE x + tx.amount - U64
  BY <1>1, ModOnce, Zenon
<1>10. SumFunction(Nonces(v)) = SumFunction(Nonces(w))  BY <1>2, <1>5, <1>6, <1>8
<1>11. Supply(v) = Supply(w) - x + IF x + tx.amount < U64 THEN x + tx.amount ELSE x + tx.amount - U64
  BY <1>2, <1>4, <1>9
<1> QED BY <1>1, <1>6, <1>7, <1>10, <1>11

(* Executing a transaction changes the supply by its fee, up to a multiple *)
(* of the modulus that is there only if amount + fee wraps.                *)
LEMMA ApplyTxSums ==
  ASSUME NEW w \in WorldStates, NEW tx, Payable(tx), w.accounts[tx.from].balance >= Cost(tx)
  PROVE  /\ \E k \in {-1, 0, 1} : Supply(ApplyTx(w, tx)) + tx.fee = Supply(w) + k * U64
         /\ tx.amount + tx.fee < U64 /\ Supply(w) < U64
              => Supply(ApplyTx(w, tx)) + tx.fee = Supply(w)
         /\ SumFunction(Nonces(ApplyTx(w, tx))) = SumFunction(Nonces(w)) + 1
<1> DEFINE mid == [accounts |-> Debit(w.accounts, tx), total_supply |-> w.total_supply,
                   total_txs |-> w.total_txs]
           v == ApplyTx(w, tx)
<1>1. mid \in WorldStates /\ mid.accounts = Debit(w.accounts, tx)
  BY DebitType DEF WorldStates
<1>2. v \in WorldStates /\ v.accounts = Credit(mid.accounts, tx)
  BY <1>1, ApplyTxIs
<1> HIDE DEF mid, v
<1>3. Supply(mid) = Supply(w) - Cost(tx) /\ SumFunction(Nonces(mid)) = SumFunction(Nonces(w)) + 1
  BY <1>1, DebitSums
<1>4. /\ Supply(v) = Supply(mid) + tx.amount \/ Supply(v) = Supply(mid) + tx.amount - U64
      /\ Supply(mid) + tx.amount < U64 => Supply(v) = Supply(mid) + tx.amount
      /\ SumFunction(Nonces(v)) = SumFunction(Nonces(mid))
  BY <1>1, <1>2, CreditSums
<1>5. /\ Supply(w) \in Nat /\ Supply(mid) \in Nat /\ Supply(v) \in Nat
      /\ tx.amount \in Nat /\ tx.fee \in Nat /\ U64 \in Nat
  BY <1>1, <1>2, SupplyType, WorldStateAssumption DEF Payable
<1>6. /\ Cost(tx) \in 0 .. U64 - 1
      /\ Cost(tx) = IF tx.amount + tx.fee < U64 THEN tx.amount + tx.fee ELSE tx.amount + tx.fee - U64
  BY CostIs
<1>7. \E k \in {-1, 0, 1} : Supply(v) + tx.fee = Supply(w) + k * U64
  BY <1>3, <1>4, <1>5, <1>6
<1>8. tx.amount + tx.fee < U64 /\ Supply(w) < U64 => Supply(v) + tx.fee = Supply(w)
  BY <1>3, <1>4, <1>5, <1>6
<1> QED BY <1>3, <1>4, <1>7, <1>8 DEF v

-----------------------------------------------------------------------------
(* Blocks                                                                  *)

(* The fees of the transactions executed among the first i.                *)
Burned(w, txs, i) == SumFunctionOnSet(Fees(txs), Executed(w, txs) \cap 1 .. i)

(* None of them wraps.                                                     *)
Fit(w, txs, i) == \A j \in Executed(w, txs) \cap 1 .. i : txs[j].amount + txs[j].fee < U64

(* How the burned fees of a block's first transactions grow with the next  *)
(* one: by its fee if it is executed, and not at all otherwise.            *)
LEMMA BurnedStep ==
  ASSUME NEW w, NEW txs, Len(txs) \in Nat, DOMAIN txs = 1 .. Len(txs),
         \A j \in 1 .. Len(txs) : Payable(txs[j]), NEW i \in 1 .. Len(txs)
  PROVE  /\ Burned(w, txs, 0) = 0
         /\ Burned(w, txs, i) \in Nat
         /\ i \notin Executed(w, txs) => Burned(w, txs, i) = Burned(w, txs, i - 1)
         /\ i \in Executed(w, txs) => Burned(w, txs, i) = Burned(w, txs, i - 1) + txs[i].fee
<1> DEFINE E(k) == Executed(w, txs) \cap 1 .. k
<1>1. \A j \in 1 .. Len(txs) : Fees(txs)[j] \in Nat /\ Fees(txs)[j] = txs[j].fee
  BY WorldStateAssumption DEF Fees, Payable
<1>2. ASSUME NEW k \in 0 .. Len(txs) PROVE IsFiniteSet(E(k)) /\ E(k) \subseteq 1 .. Len(txs)
  <2>1. IsFiniteSet(1 .. k)  BY FS_Interval
  <2>2. E(k) \subseteq 1 .. k  OBVIOUS
  <2>3. IsFiniteSet(E(k))  BY <2>1, <2>2, FS_Subset
  <2> QED BY <2>3
<1>3. Burned(w, txs, 0) = 0
  <2>1. E(0) = {}  OBVIOUS
  <2> QED BY <2>1, SumEmpty, Zenon DEF Burned
<1>4. Burned(w, txs, i) \in Nat
  <2>1. IsFiniteSet(E(i)) /\ \A j \in E(i) : Fees(txs)[j] \in Nat  BY <1>1, <1>2
  <2> QED BY <2>1, SumIn DEF Burned
<1>5. ASSUME i \notin Executed(w, txs) PROVE Burned(w, txs, i) = Burned(w, txs, i - 1)
  <2>1. E(i) = E(i - 1)  BY <1>5
  <2> QED BY <2>1, Zenon DEF Burned
<1>6. ASSUME i \in Executed(w, txs) PROVE Burned(w, txs, i) = Burned(w, txs, i - 1) + txs[i].fee
  <2>1. E(i) = E(i - 1) \cup {i} /\ i \notin E(i - 1)  BY <1>6
  <2>2. i - 1 \in 0 .. Len(txs)  OBVIOUS
  <2>3. IsFiniteSet(E(i - 1)) /\ \A j \in E(i - 1) \cup {i} : Fees(txs)[j] \in Int
    BY <1>1, <1>2, <2>2
  <2>4. Burned(w, txs, i) = SumFunctionOnSet(Fees(txs), E(i - 1) \cup {i})
    BY <2>1, Zenon DEF Burned
  <2>5. SumFunctionOnSet(Fees(txs), E(i - 1) \cup {i}) = SumFunctionOnSet(Fees(txs), E(i - 1)) + Fees(txs)[i]
    <3> HIDE DEF E
    <3> QED BY <2>1, <2>3, SumAdd
  <2> QED BY <1>1, <2>4, <2>5 DEF Burned
<1> QED BY <1>3, <1>4, <1>5, <1>6

(***************************************************************************)
(* Along a block, balances and burned fees add up to what they were, up to *)
(* a multiple of the modulus, and without it as long as no executed        *)
(* transaction wraps; nonces and total_txs grow together.                  *)
(***************************************************************************)
AddsUp(w, txs, i) ==
  LET v == Along(w, txs)[i]
  IN  /\ v \in WorldStates
      /\ Burned(w, txs, i) \in Nat
      /\ \E q \in Int : Supply(v) + Burned(w, txs, i) = Supply(w) + q * U64
      /\ Fit(w, txs, i) /\ Supply(w) < U64 => Supply(v) + Burned(w, txs, i) = Supply(w)
      /\ SumFunction(Nonces(v)) - v.total_txs = SumFunction(Nonces(w)) - w.total_txs

(* One turn of apply_block's loop keeps AddsUp. *)
LEMMA AddsUpStep ==
  ASSUME NEW w \in WorldStates, NEW txs, Len(txs) \in Nat, DOMAIN txs = 1 .. Len(txs),
         \A j \in 1 .. Len(txs) : Payable(txs[j]), NEW i \in 1 .. Len(txs),
         AddsUp(w, txs, i - 1)
  PROVE  AddsUp(w, txs, i)
<1>0. PICK u, v, tx : u = Along(w, txs)[i - 1] /\ v = Along(w, txs)[i] /\ tx = txs[i]
  OBVIOUS
<1>1. v = ApplyTx(u, tx)  BY <1>0, AlongDef
<1>2. u \in WorldStates /\ Payable(tx)  BY <1>0 DEF AddsUp
<1>3. i \in Executed(w, txs) <=> v # u  BY <1>0 DEF Executed
<1>4. PICK q \in Int : Supply(u) + Burned(w, txs, i - 1) = Supply(w) + q * U64  BY <1>0 DEF AddsUp
<1>5. Fit(w, txs, i - 1) /\ Supply(w) < U64 => Supply(u) + Burned(w, txs, i - 1) = Supply(w)
  BY <1>0 DEF AddsUp
<1>6. SumFunction(Nonces(u)) - u.total_txs = SumFunction(Nonces(w)) - w.total_txs  BY <1>0 DEF AddsUp
<1>7. Burned(w, txs, i - 1) \in Nat  BY DEF AddsUp
<1>8. Fit(w, txs, i) => Fit(w, txs, i - 1)  BY DEF Fit
<1>9. i \in Executed(w, txs) /\ Fit(w, txs, i) => tx.amount + tx.fee < U64  BY <1>0 DEF Fit
<1>10. /\ Burned(w, txs, i) \in Nat
       /\ i \notin Executed(w, txs) => Burned(w, txs, i) = Burned(w, txs, i - 1)
       /\ i \in Executed(w, txs) => Burned(w, txs, i) = Burned(w, txs, i - 1) + tx.fee
  BY <1>0, BurnedStep
<1>11. u.total_txs \in Nat /\ w.total_txs \in Nat  BY <1>2 DEF WorldStates
<1>12. u.accounts[tx.from].balance \in Int  BY <1>2 DEF WorldStates, Account, Payable
<1>13. U64 \in Nat /\ Cost(tx) \in Int /\ tx.fee \in Nat
  BY <1>2, CostIs, WorldStateAssumption DEF Payable
<1>14. Supply(u) \in Nat /\ Supply(w) \in Nat /\ SumFunction(Nonces(u)) \in Nat /\ SumFunction(Nonces(w)) \in Nat
  BY <1>2, SupplyType
<1>15. v \in WorldStates  BY <1>1, <1>2, ApplyTxKeeps
<1>16. Supply(v) \in Nat  BY <1>15, SupplyType
<1>17. CASE u.accounts[tx.from].balance < Cost(tx)
  <2>1. v = u  BY <1>1, <1>2, <1>17, ApplyTxIs
  <2>2. Burned(w, txs, i) = Burned(w, txs, i - 1)  BY <1>3, <1>10, <2>1
  <2>3. Supply(v) + Burned(w, txs, i) = Supply(w) + q * U64  BY <1>4, <2>1, <2>2
  <2>4. Fit(w, txs, i) /\ Supply(w) < U64 => Supply(v) + Burned(w, txs, i) = Supply(w)
    BY <1>5, <1>8, <2>1, <2>2
  <2>5. SumFunction(Nonces(v)) - v.total_txs = SumFunction(Nonces(w)) - w.total_txs
    BY <1>6, <2>1
  <2> QED BY <1>0, <1>10, <1>15, <2>3, <2>4, <2>5 DEF AddsUp
<1>18. CASE u.accounts[tx.from].balance >= Cost(tx)
  <2>1. /\ \E k \in {-1, 0, 1} : Supply(v) + tx.fee = Supply(u) + k * U64
        /\ tx.amount + tx.fee < U64 /\ Supply(u) < U64 => Supply(v) + tx.fee = Supply(u)
        /\ SumFunction(Nonces(v)) = SumFunction(Nonces(u)) + 1
    BY <1>1, <1>2, <1>18, ApplyTxSums
  <2>2. v.total_txs = u.total_txs + 1  BY <1>1, <1>2, <1>18, ApplyTxIs
  <2>3. i \in Executed(w, txs)
    <3>1. v # u  BY <1>11, <2>2
    <3> QED BY <1>3, <3>1
  <2>4. Burned(w, txs, i) = Burned(w, txs, i - 1) + tx.fee  BY <1>10, <2>3
  <2>5. PICK k \in {-1, 0, 1} : Supply(v) + tx.fee = Supply(u) + k * U64  BY <2>1
  <2>6. q + k \in Int /\ (q + k) * U64 = q * U64 + k * U64 /\ q * U64 \in Int /\ k * U64 \in Int
    BY <1>13
  <2>7. Supply(v) + Burned(w, txs, i) = Supply(w) + (q + k) * U64
    <3>1. Supply(v) + tx.fee + Burned(w, txs, i - 1) = Supply(w) + q * U64 + k * U64
      BY <1>4, <1>7, <1>13, <1>14, <1>16, <2>5, <2>6
    <3> QED BY <1>7, <1>13, <1>14, <1>16, <2>4, <2>6, <3>1
  <2>8. Fit(w, txs, i) /\ Supply(w) < U64 => Supply(v) + Burned(w, txs, i) = Supply(w)
    <3>1. SUFFICES ASSUME Fit(w, txs, i), Supply(w) < U64
                   PROVE  Supply(v) + Burned(w, txs, i) = Supply(w)
      OBVIOUS
    <3>2. Supply(u) + Burned(w, txs, i - 1) = Supply(w)  BY <1>5, <1>8, <3>1
    <3>3. Supply(u) < U64  BY <1>7, <1>13, <1>14, <3>1, <3>2
    <3>4. Supply(v) + tx.fee = Supply(u)  BY <1>9, <2>1, <2>3, <3>1, <3>3
    <3> QED BY <1>7, <1>13, <1>14, <1>16, <2>4, <3>2, <3>4
  <2>9. SumFunction(Nonces(v)) - v.total_txs = SumFunction(Nonces(w)) - w.total_txs
    <3>1. SumFunction(Nonces(v)) = SumFunction(Nonces(u)) + 1  BY <2>1
    <3> QED BY <1>6, <1>11, <1>14, <2>2, <3>1
  <2> QED BY <1>0, <1>10, <1>15, <2>6, <2>7, <2>8, <2>9 DEF AddsUp
<1> QED BY <1>17, <1>18, <1>12, <1>13

(* A whole block keeps AddsUp, whatever its length: by induction on its    *)
(* transactions.                                                           *)
LEMMA AlongAddsUp ==
  ASSUME NEW w \in WorldStates, NEW txs, Len(txs) \in Nat, DOMAIN txs = 1 .. Len(txs),
         \A j \in 1 .. Len(txs) : Payable(txs[j])
  PROVE  AddsUp(w, txs, Len(txs))
<1> DEFINE n == Len(txs)
           S == {i \in 0 .. n : AddsUp(w, txs, i)}
<1>1. 0 \in S
  <2>1. Along(w, txs)[0] = w  BY AlongDef
  <2>2. Burned(w, txs, 0) = 0
    <3>1. Executed(w, txs) \cap 1 .. 0 = {}  OBVIOUS
    <3> QED BY <3>1, SumEmpty, Zenon DEF Burned
  <2>3. Supply(w) \in Nat /\ 0 * U64 = 0 /\ SumFunction(Nonces(w)) \in Nat
    BY SupplyType, WorldStateAssumption
  <2>4. Supply(w) + Burned(w, txs, 0) = Supply(w) + 0 * U64 /\ Supply(w) + Burned(w, txs, 0) = Supply(w)
    BY <2>2, <2>3
  <2>5. AddsUp(w, txs, 0)  BY <2>1, <2>2, <2>4 DEF AddsUp
  <2> QED BY <2>5
<1>2. ASSUME NEW i \in 1 .. n, i - 1 \in S PROVE i \in S
  BY <1>2, AddsUpStep
<1>3. n \in S
  <2>1. 0 .. n \subseteq S
    <3> HIDE DEF S
    <3> QED BY <1>1, <1>2, Induct
  <2> HIDE DEF S
  <2> QED BY <2>1
<1> QED BY <1>3

(* Genesis mints TOTAL_SUPPLY and has no transactions. *)
LEMMA GenesisSums ==
  LET g == ApplyGenesis(NewWorldState)
  IN  /\ ApplyBlock(NewWorldState, Genesis) = g
      /\ g \in WorldStates
      /\ g.total_supply = TOTAL_SUPPLY /\ g.total_txs = 0
      /\ Supply(g) = TOTAL_SUPPLY
      /\ SumFunction(Nonces(g)) = 0
<1>1. PICK g : g = ApplyGenesis(NewWorldState)  OBVIOUS
<1>2. ApplyBlock(NewWorldState, Genesis) = g
  <2>1. Len(<< >>) = 0  OBVIOUS
  <2>2. ApplyBlock(NewWorldState, Genesis) = Along(g, << >>)[Len(<< >>)]
    BY <1>1 DEF ApplyBlock, Genesis, NewWorldState
  <2> QED BY <2>1, <2>2, AlongDef
<1>3. g \in WorldStates  BY <1>1, GenesisAccounts
<1>4. g.total_supply = TOTAL_SUPPLY /\ g.total_txs = 0
  BY <1>1 DEF ApplyGenesis, NewWorldState
<1>5. IsFiniteSet(Addr) /\ Treasury \in Addr /\ Faucet \in Addr /\ Treasury # Faucet
  BY WorldStateAssumption
<1>6. Nonces(g) \in [Addr -> {0}]
  BY <1>1, <1>5 DEF Nonces, ApplyGenesis, NewWorldState
<1>7. SumFunction(Nonces(g)) = 0  BY <1>5, <1>6, SumZero
<1> DEFINE f0 == [a \in Addr |-> 0]
           f1 == [a \in Addr |-> IF a = Treasury THEN TreasuryGrant ELSE 0]
<1>8. Balances(g) = [a \in Addr |-> IF a = Faucet THEN FaucetGrant ELSE f1[a]]
  BY <1>1, <1>5 DEF Balances, ApplyGenesis, NewWorldState
<1>9. f0 \in [Addr -> {0}] /\ f0 \in [Addr -> Int] /\ f1 \in [Addr -> Int] /\ Balances(g) \in [Addr -> Int]
  BY <1>8, WorldStateAssumption
<1>10. /\ f0[Treasury] = 0 /\ f1[Treasury] = TreasuryGrant /\ \A a \in Addr \ {Treasury} : f1[a] = f0[a]
       /\ f1[Faucet] = 0 /\ Balances(g)[Faucet] = FaucetGrant
       /\ \A a \in Addr \ {Faucet} : Balances(g)[a] = f1[a]
  BY <1>5, <1>8
<1> HIDE DEF f0, f1
<1>11. SumFunction(f0) = 0  BY <1>5, <1>9, SumZero
<1>12. SumFunction(f1) = SumFunction(f0) - f0[Treasury] + f1[Treasury]
  BY <1>5, <1>9, <1>10, SumUpdate
<1>13. Supply(g) = SumFunction(f1) - f1[Faucet] + Balances(g)[Faucet]
  BY <1>5, <1>9, <1>10, SumUpdate DEF Supply
<1>14. Supply(g) = TOTAL_SUPPLY
  BY <1>10, <1>11, <1>12, <1>13, WorldStateAssumption DEF TOTAL_SUPPLY
<1> QED BY <1>1, <1>2, <1>3, <1>4, <1>7, <1>14

(***************************************************************************)
(* Backed: the balances never exceed what total_supply says was minted,    *)
(* which is nothing or the supply of genesis.                              *)
(***************************************************************************)
Backed(w) == w.total_supply \in {0, TOTAL_SUPPLY} /\ Supply(w) <= w.total_supply

(* None of these transactions has an amount + fee that wraps around u64.   *)
NoneWraps(txs) == \A k \in 1 .. Len(txs) : txs[k].amount + txs[k].fee < U64

(* Genesis replaces two accounts, of a state in which all are empty.       *)
LEMMA GenesisBacked ==
  ASSUME NEW w \in WorldStates, w.total_supply = 0, Supply(w) <= 0
  PROVE  Backed(ApplyGenesis(w))
<1>1. PICK g : g = ApplyGenesis(w)  OBVIOUS
<1>2. g \in WorldStates  BY <1>1, GenesisAccounts
<1>3. IsFiniteSet(Addr) /\ Treasury \in Addr /\ Faucet \in Addr /\ Treasury # Faucet
  BY WorldStateAssumption
<1>4. TreasuryGrant \in Nat /\ FaucetGrant \in Nat /\ U64 \in Nat  BY WorldStateAssumption
<1>5. w.accounts \in [Addr -> Account]  BY DEF WorldStates
<1> DEFINE f == [a \in Addr |-> IF a = Treasury THEN TreasuryGrant ELSE Balances(w)[a]]
<1>6. Balances(w) \in [Addr -> 0 .. U64 - 1] /\ Balances(g) \in [Addr -> 0 .. U64 - 1]
  BY <1>2, SupplyType
<1>7. \A a \in Addr : Balances(w)[a] \in Nat /\ Balances(w)[a] \in Int  BY <1>4, <1>6
<1>8. Balances(w) \in [Addr -> Int] /\ Balances(g) \in [Addr -> Int] /\ f \in [Addr -> Int]
  BY <1>4, <1>6, <1>7
<1>9. \A a \in Addr : Balances(g)[a] = IF a = Faucet THEN FaucetGrant ELSE f[a]
  BY <1>1, <1>3, <1>5 DEF Balances, ApplyGenesis
<1>10. /\ f[Treasury] = TreasuryGrant /\ \A a \in Addr \ {Treasury} : f[a] = Balances(w)[a]
       /\ f[Faucet] = Balances(w)[Faucet] /\ Balances(g)[Faucet] = FaucetGrant
       /\ \A a \in Addr \ {Faucet} : Balances(g)[a] = f[a]
  BY <1>3, <1>9
<1> HIDE DEF f
<1>11. SumFunction(f) = Supply(w) - Balances(w)[Treasury] + TreasuryGrant
  BY <1>3, <1>8, <1>10, SumUpdate DEF Supply
<1>12. Supply(g) = SumFunction(f) - Balances(w)[Faucet] + FaucetGrant
  BY <1>3, <1>8, <1>10, SumUpdate DEF Supply
<1>13. Supply(w) \in Nat  BY SupplyType
<1>14. Supply(g) <= TOTAL_SUPPLY
  BY <1>3, <1>4, <1>7, <1>11, <1>12, <1>13 DEF TOTAL_SUPPLY
<1>15. g.total_supply = TOTAL_SUPPLY  BY <1>1 DEF ApplyGenesis
<1> QED BY <1>1, <1>14, <1>15 DEF Backed

(* A block in which nothing wraps leaves the balances backed.              *)
LEMMA BlockBacked ==
  ASSUME NEW w \in WorldStates, Backed(w), NEW block,
         Len(block.txs) \in Nat, DOMAIN block.txs = 1 .. Len(block.txs),
         \A i \in 1 .. Len(block.txs) : Payable(block.txs[i]), NoneWraps(block.txs)
  PROVE  ApplyBlock(w, block) \in WorldStates /\ Backed(ApplyBlock(w, block))
<1>1. PICK start : start = IF block.height = 0 /\ w.total_supply = 0 THEN ApplyGenesis(w) ELSE w
  OBVIOUS
<1>2. start \in WorldStates  BY <1>1, GenesisAccounts
<1>3. Backed(start)  BY <1>1, GenesisBacked DEF Backed
<1>4. PICK txs : txs = block.txs  OBVIOUS
<1>5. PICK n : n = Len(txs)  OBVIOUS
<1>6. n \in Nat /\ DOMAIN txs = 1 .. n /\ \A i \in 1 .. n : Payable(txs[i])  BY <1>4, <1>5
<1>7. PICK v : v = ApplyBlock(w, block)  OBVIOUS
<1>8. v = Along(start, txs)[n]  BY <1>1, <1>4, <1>5, <1>7 DEF ApplyBlock
<1>9. AddsUp(start, txs, n)  BY <1>2, <1>5, <1>6, AlongAddsUp
<1>10. v \in WorldStates /\ v.total_supply = start.total_supply
  BY <1>2, <1>5, <1>6, <1>8, AlongKeeps
<1>11. Supply(start) < U64
  BY <1>2, <1>3, SupplyType, WorldStateAssumption DEF Backed, TOTAL_SUPPLY
<1>12. Fit(start, txs, n)  BY <1>4, <1>5, <1>6 DEF Fit, NoneWraps
<1>13. Burned(start, txs, n) \in Nat /\ Supply(v) + Burned(start, txs, n) = Supply(start)
  BY <1>8, <1>9, <1>11, <1>12 DEF AddsUp
<1>14. Supply(v) \in Nat /\ Supply(start) \in Nat  BY <1>2, <1>10, SupplyType
<1>15. Supply(v) <= Supply(start)  BY <1>13, <1>14
<1>16. start.total_supply \in Nat  BY <1>2 DEF WorldStates
<1>17. Backed(v)  BY <1>3, <1>10, <1>14, <1>15, <1>16 DEF Backed
<1> QED BY <1>7, <1>10, <1>17

(* So a chain of any length in which nothing wraps mints nothing but the   *)
(* supply of genesis, even if it held a second block of height zero.       *)
LEMMA ReplayBacked ==
  ASSUME NEW blocks, Len(blocks) \in Nat,
         \A i \in 1 .. Len(blocks) :
           /\ Len(blocks[i].txs) \in Nat /\ DOMAIN blocks[i].txs = 1 .. Len(blocks[i].txs)
           /\ \A k \in 1 .. Len(blocks[i].txs) : Payable(blocks[i].txs[k])
           /\ NoneWraps(blocks[i].txs)
  PROVE  Replay(blocks) \in WorldStates /\ Backed(Replay(blocks))
<1> DEFINE n == Len(blocks)
<1>1. PICK g : IsReplay(blocks, n, g) /\ Replay(blocks) = g[n]  BY ReplayIs
<1> DEFINE S == {i \in 0 .. n : g[i] \in WorldStates /\ Backed(g[i])}
<1>2. 0 \in S
  <2>1. g[0] = NewWorldState /\ NewWorldState \in WorldStates
    BY <1>1, GenesisAccounts DEF IsReplay
  <2>2. Balances(NewWorldState) \in [Addr -> {0}]  BY DEF Balances, NewWorldState
  <2>3. Supply(NewWorldState) = 0  BY <2>2, SumZero, WorldStateAssumption DEF Supply
  <2>4. Backed(NewWorldState)
    <3>1. NewWorldState.total_supply = 0  BY DEF NewWorldState
    <3> QED BY <2>3, <3>1 DEF Backed
  <2> QED BY <2>1, <2>4
<1>3. ASSUME NEW k \in 1 .. n, k - 1 \in S PROVE k \in S
  <2>1. g[k] = ApplyBlock(g[k - 1], blocks[k])  BY <1>1 DEF IsReplay
  <2>2. g[k - 1] \in WorldStates /\ Backed(g[k - 1])  BY <1>3
  <2>3. g[k] \in WorldStates /\ Backed(g[k])  BY <2>1, <2>2, BlockBacked
  <2> QED BY <2>3
<1>4. n \in S
  <2> HIDE DEF S
  <2> QED BY <1>2, <1>3, Induct
<1> QED BY <1>1, <1>4
=============================================================================
