----------------------------- MODULE RpcProofs -----------------------------
(***************************************************************************)
(* Theorems about Rpc, for any number of requests served at a time, any    *)
(* cooldown and any block size.  Each invariant of the runs has an         *)
(* inductive one of its own; they share what is known of the requests.     *)
(***************************************************************************)
EXTENDS Rpc, WorldStateProofs, SequenceTheorems

-----------------------------------------------------------------------------
(* Counting requests *)

LEMMA Subsets ==
  ASSUME NEW A \in SUBSET Client
  PROVE  /\ IsFiniteSet(A)
         /\ Cardinality(A) \in Nat /\ Cardinality(Client) \in Nat
         /\ Cardinality(A) <= Cardinality(Client)
BY RpcAssumption, FS_Subset, FS_CardinalityType

LEMMA Fewer ==
  ASSUME NEW A \in SUBSET Client, NEW B \in SUBSET A
  PROVE  Cardinality(B) <= Cardinality(A)
BY Subsets, FS_Subset

LEMMA OneMore ==
  ASSUME NEW A \in SUBSET Client, NEW c \in Client, NEW B \in SUBSET (A \cup {c})
  PROVE  Cardinality(B) <= Cardinality(A) + 1
<1>1. Cardinality(A \cup {c}) <= Cardinality(A) + 1
  BY Subsets, FS_AddElement
<1>2. Cardinality(B) <= Cardinality(A \cup {c})
  BY Fewer
<1> QED BY <1>1, <1>2, Subsets

LEMMA OneLess ==
  ASSUME NEW A \in SUBSET Client, NEW c \in A, NEW B \in SUBSET (A \ {c})
  PROVE  Cardinality(B) <= Cardinality(A) - 1
<1>1. Cardinality(A \ {c}) = Cardinality(A) - 1
  BY Subsets, FS_RemoveElement
<1>2. Cardinality(B) <= Cardinality(A \ {c})
  BY Fewer
<1> QED BY <1>1, <1>2, Subsets

LEMMA NotAll ==
  ASSUME NEW c \in Client, NEW B \in SUBSET (Client \ {c})
  PROVE  Cardinality(B) <= Cardinality(Client) - 1
BY OneLess

-----------------------------------------------------------------------------
(* What is known of the requests and of the types of what they share.      *)

IsRequest(r) ==
  \/ r = Idle
  \/ \E text \in Text : r = [at |-> "nonce", for |-> {text}]
  \/ \E text \in Text : \E tx : r = With("mark", {text}, tx) /\ tx.from = Faucet
  \/ \E tx \in Submissions : r = With("lookup", {}, tx)
  \/ \E for \in SUBSET Text : \E tx : r = With("push", for, tx)
  \/ \E tx : r = With("answer", {}, tx)

RequestsOK ==
  /\ req = [c \in Client |-> req[c]]
  /\ \A c \in Client : IsRequest(req[c])

SharedOK ==
  /\ faucet_last \in [Text -> SUBSET (0 .. MaxTime)]
  /\ marks \in [Text -> Seq(0 .. MaxTime)]
  /\ paid \in [Text -> Nat]
  /\ clock \in 0 .. MaxTime
  /\ \E S : mempool \in Seq(S)

(* Where a request is tells what it carries. *)
LEMMA Sections ==
  ASSUME NEW r, IsRequest(r)
  PROVE  /\ r.at = "nonce" => \E text \in Text : r.for = {text}
         /\ r.at = "mark" => r.tx.from = Faucet /\ \E text \in Text : r.for = {text}
         /\ r.at = "lookup" => r.tx \in Submissions
         /\ r.at = "push" => r.for \in SUBSET Text
<1>1. CASE r = Idle
  BY <1>1 DEF Idle
<1>2. CASE \E text \in Text : r = [at |-> "nonce", for |-> {text}]
  BY <1>2
<1>3. CASE \E text \in Text : \E tx : r = With("mark", {text}, tx) /\ tx.from = Faucet
  BY <1>3 DEF With
<1>4. CASE \E tx \in Submissions : r = With("lookup", {}, tx)
  BY <1>4 DEF With
<1>5. CASE \E for \in SUBSET Text : \E tx : r = With("push", for, tx)
  BY <1>5 DEF With
<1>6. CASE \E tx : r = With("answer", {}, tx)
  BY <1>6 DEF With
<1> QED BY <1>1, <1>2, <1>3, <1>4, <1>5, <1>6 DEF IsRequest

(* A request that moves leaves the others where they are. *)
LEMMA Moves ==
  ASSUME RequestsOK, NEW c \in Client, NEW r, IsRequest(r), Goto(c, r)
  PROVE  /\ RequestsOK'
         /\ req'[c] = r
         /\ \A d \in Client \ {c} : req'[d] = req[d]
BY DEF RequestsOK, Goto

LEMMA Appended ==
  ASSUME NEW S, NEW s \in Seq(S), NEW x
  PROVE  /\ Append(s, x) \in Seq(S \cup {x})
         /\ Len(Append(s, x)) = Len(s) + 1
         /\ \A i \in 1 .. Len(s) : Append(s, x)[i] = s[i]
         /\ Append(s, x)[Len(s) + 1] = x
<1>1. s \in Seq(S \cup {x})
  BY SeqMonotonic
<1> QED BY <1>1, AppendProperties

(* Every step of a request leaves requests that are well formed. *)
LEMMA StepsOfRequests ==
  ASSUME RequestsOK, NEW c \in Client, Request(c)
  PROVE  /\ RequestsOK'
         /\ \A d \in Client \ {c} : req'[d] = req[d]
<1>0. IsRequest(req[c]) BY DEF RequestsOK
<1>1. ASSUME NEW text \in Text, FaucetCheck(c, text)
      PROVE  \E r : IsRequest(r) /\ Goto(c, r)
  BY <1>1 DEF FaucetCheck, Arrive, IsRequest
<1>2. ASSUME FaucetNonce(c)
      PROVE  \E r : IsRequest(r) /\ Goto(c, r)
  <2>1. PICK text \in req[c].for : Goto(c, With("mark", {text}, FaucetTx(text, Nonce(Faucet) + 1)))
    BY <1>2 DEF FaucetNonce
  <2>2. text \in Text
    BY <1>0, <1>2, Sections DEF FaucetNonce
  <2>3. FaucetTx(text, Nonce(Faucet) + 1).from = Faucet
    BY DEF FaucetTx
  <2>4. IsRequest(With("mark", {text}, FaucetTx(text, Nonce(Faucet) + 1)))
    BY <2>2, <2>3 DEF IsRequest
  <2> QED BY <2>1, <2>4
<1>3. ASSUME FaucetMark(c)
      PROVE  \E r : IsRequest(r) /\ Goto(c, r)
  <2>1. req[c].for \in SUBSET Text
    BY <1>0, <1>3, Sections DEF FaucetMark
  <2>2. IsRequest(With("push", req[c].for, req[c].tx))
    BY <2>1 DEF IsRequest
  <2> QED BY <1>3, <2>2 DEF FaucetMark
<1>4. ASSUME NEW tx \in Submissions, SendCheck(c, tx)
      PROVE  \E r : IsRequest(r) /\ Goto(c, r)
  <2>1. IsRequest(With("lookup", {}, tx))
    BY DEF IsRequest
  <2> QED BY <1>4, <2>1 DEF SendCheck, Arrive
<1>5. ASSUME SendLookup(c)
      PROVE  \E r : IsRequest(r) /\ Goto(c, r)
  <2>1. IsRequest(Idle) /\ IsRequest(With("push", {}, req[c].tx))
    BY DEF IsRequest
  <2> QED BY <1>5, <2>1 DEF SendLookup
<1>6. ASSUME Push(c)
      PROVE  \E r : IsRequest(r) /\ Goto(c, r)
  <2>1. IsRequest(With("answer", {}, req[c].tx))
    BY DEF IsRequest
  <2> QED BY <1>6, <2>1 DEF Push
<1>7. ASSUME Answer(c) \/ HangUp(c)
      PROVE  \E r : IsRequest(r) /\ Goto(c, r)
  BY <1>7 DEF Answer, HangUp, IsRequest
<1>8. PICK r : IsRequest(r) /\ Goto(c, r)
  BY <1>1, <1>2, <1>3, <1>4, <1>5, <1>6, <1>7 DEF Request
<1> QED BY <1>8, Moves

(* The other tasks leave the requests alone, and a restart ends them. *)
LEMMA OtherSteps ==
  ASSUME RequestsOK,
         \/ \E tx \in Gossip : OnNewTransaction(tx)
         \/ \E tx \in Gossip \cup accepted : OnNewBlock(tx)
         \/ Produce \/ Restart \/ Tick \/ SetBack \/ UNCHANGED vars
  PROVE  RequestsOK'
<1>1. CASE Restart
  BY <1>1 DEF Restart, RequestsOK, IsRequest
<1> QED
  BY <1>1 DEF OnNewTransaction, OnNewBlock, Produce, Tick, SetBack, vars, requestVars, RequestsOK

LEMMA RequestsStep ==
  ASSUME RequestsOK, [Next]_vars
  PROVE  RequestsOK'
BY StepsOfRequests, OtherSteps DEF Next

LEMMA SharedStep ==
  ASSUME RequestsOK, SharedOK, [Next]_vars
  PROVE  SharedOK'
<1> USE DEF SharedOK, requestVars, faucetVars, chainVars, timeVars
<1>1. PICK S : mempool \in Seq(S) OBVIOUS
<1>2. ASSUME NEW c \in Client, FaucetMark(c)
      PROVE  SharedOK'
  <2>1. PICK text \in req[c].for :
          /\ faucet_last' = [faucet_last EXCEPT ![text] = {clock}]
          /\ marks' = [marks EXCEPT ![text] = Append(@, clock)]
    BY <1>2 DEF FaucetMark
  <2>2. paid' = paid /\ clock' = clock /\ mempool' = mempool
    BY <1>2 DEF FaucetMark
  <2>3. clock \in 0 .. MaxTime /\ marks[text] \in Seq(0 .. MaxTime)
    <3>1. RequestsOK => IsRequest(req[c]) BY DEF RequestsOK
    <3> QED BY <1>2, <3>1, Sections DEF FaucetMark
  <2>4. Append(marks[text], clock) \in Seq(0 .. MaxTime)
    BY <2>3, AppendProperties
  <2>5. faucet_last' \in [Text -> SUBSET (0 .. MaxTime)] /\ marks' \in [Text -> Seq(0 .. MaxTime)]
    BY <2>1, <2>3, <2>4
  <2> QED BY <2>2, <2>5
<1>3. ASSUME NEW c \in Client, Push(c)
      PROVE  SharedOK'
  <2>1. mempool' \in Seq(S \cup {req[c].tx})
    BY <1>1, <1>3, Appended DEF Push
  <2>2. paid' \in [Text -> Nat]
    BY <1>3 DEF Push
  <2>3. faucet_last' = faucet_last /\ marks' = marks /\ clock' = clock
    BY <1>3 DEF Push
  <2> QED BY <2>1, <2>2, <2>3
<1>4. ASSUME NEW tx \in Gossip, OnNewTransaction(tx)
      PROVE  SharedOK'
  <2>1. mempool' \in Seq(S \cup {tx})
    BY <1>1, <1>4, Appended DEF OnNewTransaction
  <2> QED BY <1>4, <2>1 DEF OnNewTransaction
<1>5. ASSUME Produce
      PROVE  SharedOK'
  <2>1. mempool' \in Seq({})
    BY <1>5 DEF Produce
  <2> QED BY <1>5, <2>1 DEF Produce, Extend
<1>6. ASSUME Restart
      PROVE  SharedOK'
  <2>1. mempool' \in Seq({}) /\ << >> \in Seq(0 .. MaxTime)
    BY <1>6 DEF Restart
  <2> QED BY <1>6, <2>1 DEF Restart
<1>7. ASSUME Tick \/ SetBack
      PROVE  SharedOK'
  <2>1. clock' \in 0 .. MaxTime
    BY <1>7, RpcAssumption DEF Tick, SetBack
  <2>2. faucet_last' = faucet_last /\ marks' = marks /\ paid' = paid /\ mempool' = mempool
    BY <1>7 DEF Tick, SetBack
  <2> QED BY <1>1, <2>1, <2>2
<1>8. ASSUME NEW tx \in Gossip \cup accepted, OnNewBlock(tx)
      PROVE  SharedOK'
  BY <1>8 DEF OnNewBlock, Extend
<1>9. ASSUME NEW c \in Client,
             \/ \E text \in Text : FaucetCheck(c, text)
             \/ FaucetNonce(c)
             \/ \E tx \in Submissions : SendCheck(c, tx)
             \/ SendLookup(c) \/ Answer(c) \/ HangUp(c)
      PROVE  SharedOK'
  BY <1>9 DEF FaucetCheck, FaucetNonce, SendCheck, SendLookup, Answer, HangUp
<1>10. CASE UNCHANGED vars
  BY <1>10 DEF vars
<1> QED BY <1>2, <1>3, <1>4, <1>5, <1>6, <1>7, <1>8, <1>9, <1>10 DEF Next, Request

LEMMA Starts ==
  ASSUME Init
  PROVE  RequestsOK /\ SharedOK
<1>1. mempool \in Seq({}) /\ << >> \in Seq(0 .. MaxTime)
  BY DEF Init
<1> QED BY <1>1, RpcAssumption DEF Init, RequestsOK, SharedOK, IsRequest

-----------------------------------------------------------------------------
(* Payments and marks *)

(* The requests about to push a payment to this text. *)
Pushers(text) == {c \in Client : req[c].at = "push" /\ text \in req[c].for}

(***************************************************************************)
(* PaidInv: a mark is there for every payment of the faucet that has been  *)
(* pushed and for every one about to be (mark_faucet runs before the push, *)
(* in the same request).                                                   *)
(***************************************************************************)
PaidInv == \A text \in Text : paid[text] + Cardinality(Pushers(text)) <= Len(marks[text])

LEMMA PaidStep ==
  ASSUME RequestsOK, SharedOK, PaidInv, [Next]_vars
  PROVE  PaidInv'
<1> DEFINE Count(text) == Cardinality(Pushers(text))
<1>a. \A text \in Text : /\ Pushers(text) \in SUBSET Client
                         /\ Count(text) \in Nat
                         /\ paid[text] \in Nat /\ Len(marks[text]) \in Nat
                         /\ paid[text] + Count(text) <= Len(marks[text])
  BY Subsets, LenProperties DEF PaidInv, SharedOK, Pushers
<1>b. ASSUME NEW text \in Text, Pushers(text)' \in SUBSET Pushers(text),
             paid'[text] = paid[text], marks'[text] = marks[text]
      PROVE  paid'[text] + Count(text)' <= Len(marks'[text])
  <2>1. Count(text)' <= Count(text) /\ Count(text)' \in Nat
    BY <1>a, <1>b, Fewer, Subsets
  <2> QED BY <1>a, <1>b, <2>1
<1>1. ASSUME NEW c \in Client, FaucetMark(c)
      PROVE  PaidInv'
  <2>0. IsRequest(req[c]) /\ req[c].at = "mark"
    BY <1>1 DEF RequestsOK, FaucetMark
  <2>1. PICK t \in Text : req[c].for = {t}
    BY <2>0, Sections
  <2>2. /\ req'[c].at = "push" /\ req'[c].for = {t}
        /\ \A d \in Client \ {c} : req'[d] = req[d]
    BY <1>1, <2>1 DEF FaucetMark, Goto, RequestsOK, With
  <2>3. /\ marks' = [marks EXCEPT ![t] = Append(@, clock)]
        /\ paid' = paid
    BY <1>1, <2>1 DEF FaucetMark
  <2>4. paid'[t] + Count(t)' <= Len(marks'[t])
    <3>1. Len(marks'[t]) = Len(marks[t]) + 1
      BY <2>3, AppendProperties DEF SharedOK
    <3>2. Pushers(t)' \in SUBSET (Pushers(t) \cup {c})
      BY <2>2 DEF Pushers
    <3>3. Count(t)' <= Count(t) + 1 /\ Count(t)' \in Nat
      <4>1. Pushers(t)' \in SUBSET Client
        BY DEF Pushers
      <4> QED BY <1>a, <3>2, <4>1, OneMore, Subsets
    <3> QED BY <1>a, <2>3, <3>1, <3>3
  <2>5. ASSUME NEW text \in Text \ {t}
        PROVE  paid'[text] + Count(text)' <= Len(marks'[text])
    <3>1. Pushers(text)' \in SUBSET Pushers(text)
      BY <2>2 DEF Pushers
    <3> QED BY <1>b, <2>3, <3>1 DEF SharedOK
  <2> QED BY <2>4, <2>5 DEF PaidInv
<1>2. ASSUME NEW c \in Client, Push(c)
      PROVE  PaidInv'
  <2>1. /\ req[c].at = "push" /\ req'[c].at = "answer"
        /\ \A d \in Client \ {c} : req'[d] = req[d]
    BY <1>2 DEF Push, Goto, RequestsOK, With
  <2>2. /\ marks' = marks
        /\ \A text \in Text :
             paid'[text] = IF text \in req[c].for THEN paid[text] + 1 ELSE paid[text]
    BY <1>2 DEF Push
  <2>3. ASSUME NEW text \in Text, text \in req[c].for
        PROVE  paid'[text] + Count(text)' <= Len(marks'[text])
    <3>1. c \in Pushers(text) /\ Pushers(text)' \in SUBSET (Pushers(text) \ {c})
      BY <2>1, <2>3 DEF Pushers
    <3>2. Count(text)' <= Count(text) - 1 /\ Count(text)' \in Nat
      <4>1. Pushers(text)' \in SUBSET Client
        BY DEF Pushers
      <4> QED BY <1>a, <3>1, <4>1, OneLess, Subsets
    <3> QED BY <1>a, <2>2, <2>3, <3>2
  <2>4. ASSUME NEW text \in Text, text \notin req[c].for
        PROVE  paid'[text] + Count(text)' <= Len(marks'[text])
    <3>1. Pushers(text)' \in SUBSET Pushers(text)
      BY <2>1 DEF Pushers
    <3> QED BY <1>b, <2>2, <2>4, <3>1
  <2> QED BY <2>3, <2>4 DEF PaidInv
<1>3. ASSUME NEW c \in Client,
             \/ \E text \in Text : FaucetCheck(c, text)
             \/ FaucetNonce(c)
             \/ \E tx \in Submissions : SendCheck(c, tx)
             \/ SendLookup(c) \/ Answer(c) \/ HangUp(c)
      PROVE  PaidInv'
  <2>1. /\ req'[c].at # "push" \/ req'[c].for = {}
        /\ \A d \in Client \ {c} : req'[d] = req[d]
    BY <1>3 DEF FaucetCheck, FaucetNonce, SendCheck, SendLookup, Answer, HangUp, Arrive, Goto,
                RequestsOK, With, Idle
  <2>2. \A text \in Text : Pushers(text)' \in SUBSET Pushers(text)
    BY <2>1 DEF Pushers
  <2>3. paid' = paid /\ marks' = marks
    BY <1>3 DEF FaucetCheck, FaucetNonce, SendCheck, SendLookup, Answer, HangUp, faucetVars
  <2> QED BY <1>b, <2>2, <2>3 DEF PaidInv
<1>4. CASE Restart
  <2>1. /\ \A text \in Text : Pushers(text)' \in SUBSET {}
        /\ \A text \in Text : paid'[text] = 0 /\ marks'[text] = << >>
    BY <1>4 DEF Restart, Pushers, Idle
  <2>2. \A text \in Text : Count(text)' = 0
    BY <2>1, FS_EmptySet
  <2> QED BY <2>1, <2>2 DEF PaidInv
<1>5. CASE \/ \E tx \in Gossip : OnNewTransaction(tx)
           \/ \E tx \in Gossip \cup accepted : OnNewBlock(tx)
           \/ Produce \/ Tick \/ SetBack \/ UNCHANGED vars
  <2>1. req' = req /\ paid' = paid /\ marks' = marks
    BY <1>5 DEF OnNewTransaction, OnNewBlock, Produce, Tick, SetBack, vars, requestVars, faucetVars
  <2> QED BY <2>1 DEF PaidInv, Pushers
<1> QED BY <1>1, <1>2, <1>3, <1>4, <1>5 DEF Next, Request

(***************************************************************************)
(* NoUnmarkedPayment: at every moment of every run of the process, the     *)
(* faucet has paid a text at most as often as it marked it.                *)
(***************************************************************************)
THEOREM NoUnmarkedPayment == Spec => []PaymentsAreMarked
<1>1. Init => RequestsOK /\ SharedOK /\ PaidInv
  <2>1. ASSUME Init PROVE \A text \in Text : Pushers(text) = {} /\ paid[text] = 0 /\ marks[text] = << >>
    BY <2>1 DEF Init, Pushers, Idle
  <2>2. Init => PaidInv
    <3>1. Cardinality({}) = 0 /\ Len(<< >>) = 0
      BY FS_EmptySet
    <3> QED BY <2>1, <3>1 DEF PaidInv
  <2> QED BY <2>2, Starts
<1>2. RequestsOK /\ SharedOK /\ PaidInv /\ [Next]_vars => (RequestsOK /\ SharedOK /\ PaidInv)'
  BY RequestsStep, SharedStep, PaidStep
<1>3. SharedOK /\ PaidInv => PaymentsAreMarked
  <2>1. \A text \in Text : Cardinality(Pushers(text)) \in Nat
    BY Subsets DEF Pushers
  <2> QED BY <2>1, LenProperties DEF SharedOK, PaidInv, PaymentsAreMarked
<1> QED BY <1>1, <1>2, <1>3, PTL DEF Spec

-----------------------------------------------------------------------------
(* Copies in the mempool *)

(* The requests about to push this transaction. *)
Senders(tx) == {c \in Client : req[c].at = "push" /\ req[c].tx = tx}

(***************************************************************************)
(* CopiesInv: the copies of a client's transaction and the requests about  *)
(* to push one more are together no more than the requests served at a     *)
(* time.  A request joins them only when the mempool has no copy.          *)
(***************************************************************************)
CopiesInv ==
  \A tx \in Submissions \ Gossip : Copies(tx) + Cardinality(Senders(tx)) <= Cardinality(Client)

(* A transaction pushed adds a copy of itself and of no other. *)
LEMMA OneMoreCopy ==
  ASSUME SharedOK, NEW pushed, mempool' = Append(mempool, pushed), NEW tx
  PROVE  /\ Copies(tx) \in Nat /\ Copies(tx)' \in Nat
         /\ Copies(tx)' <= Copies(tx) + 1
         /\ tx # pushed => Copies(tx)' = Copies(tx)
<1> DEFINE Places == {i \in DOMAIN mempool : mempool[i] = tx}
<1>1. PICK S : mempool \in Seq(S)
  BY DEF SharedOK
<1>2. /\ DOMAIN mempool = 1 .. Len(mempool) /\ DOMAIN mempool' = 1 .. Len(mempool) + 1
      /\ Len(mempool) \in Nat
      /\ \A i \in 1 .. Len(mempool) : mempool'[i] = mempool[i]
      /\ mempool'[Len(mempool) + 1] = pushed
  BY <1>1, Appended, LenProperties
<1>3. IsFiniteSet(Places) /\ Cardinality(Places) \in Nat
  <2>1. IsFiniteSet(1 .. Len(mempool))
    BY <1>2, FS_Interval
  <2> QED BY <1>2, <2>1, FS_Subset, FS_CardinalityType
<1>6. Copies(tx) = Cardinality(Places) /\ Copies(tx)' = Cardinality(Places')
  BY DEF Copies
<1>4. CASE tx = pushed
  <2>1. Places' = Places \cup {Len(mempool) + 1}
    BY <1>2, <1>4
  <2>2. ASSUME NEW A, NEW x, IsFiniteSet(A), Cardinality(A) \in Nat
        PROVE  Cardinality(A \cup {x}) \in Nat /\ Cardinality(A \cup {x}) <= Cardinality(A) + 1
    <3>1. Cardinality(A \cup {x}) = IF x \in A THEN Cardinality(A) ELSE Cardinality(A) + 1
      BY <2>2, FS_AddElement
    <3>2. CASE x \in A
      BY <2>2, <3>1, <3>2
    <3>3. CASE x \notin A
      BY <2>2, <3>1, <3>3
    <3> QED BY <3>2, <3>3
  <2> HIDE DEF Places
  <2>3. Cardinality(Places') \in Nat /\ Cardinality(Places') <= Cardinality(Places) + 1
    BY <1>3, <2>1, <2>2
  <2> QED BY <1>3, <1>4, <1>6, <2>3
<1>5. CASE tx # pushed
  <2>1. Places' = Places
    BY <1>2, <1>5
  <2> HIDE DEF Places
  <2> QED BY <1>3, <1>5, <1>6, <2>1
<1> QED BY <1>4, <1>5

LEMMA CopiesStep ==
  ASSUME RequestsOK, SharedOK, CopiesInv, [Next]_vars
  PROVE  CopiesInv'
<1> DEFINE Count(tx) == Cardinality(Senders(tx))
           Few(tx) == Copies(tx) + Count(tx) <= Cardinality(Client)
<1>a. \A tx : /\ Senders(tx) \in SUBSET Client /\ Senders(tx)' \in SUBSET Client
              /\ Count(tx) \in Nat /\ Count(tx)' \in Nat
              /\ Copies(tx) \in Nat
              /\ Cardinality(Client) \in Nat
  <2>1. PICK S : mempool \in Seq(S)
    BY DEF SharedOK
  <2>2. IsFiniteSet(1 .. Len(mempool)) /\ DOMAIN mempool = 1 .. Len(mempool)
    BY <2>1, LenProperties, FS_Interval
  <2>3. ASSUME NEW tx PROVE Copies(tx) \in Nat
    BY <2>2, FS_Subset, FS_CardinalityType DEF Copies
  <2>4. ASSUME NEW tx PROVE Senders(tx) \in SUBSET Client /\ Senders(tx)' \in SUBSET Client
    BY DEF Senders
  <2> QED BY <2>3, <2>4, Subsets
<1>b. ASSUME NEW tx \in Submissions \ Gossip, Senders(tx)' \in SUBSET Senders(tx),
             Copies(tx)' = Copies(tx)
      PROVE  Few(tx)'
  <2>1. Count(tx)' <= Count(tx)
    BY <1>a, <1>b, Fewer
  <2> QED BY <1>a, <1>b, <2>1 DEF CopiesInv
<1>1. ASSUME NEW c \in Client, SendLookup(c)
      PROVE  CopiesInv'
  <2>1. /\ req'[c] = IF InMempool(req[c].tx) THEN Idle ELSE With("push", {}, req[c].tx)
        /\ \A d \in Client \ {c} : req'[d] = req[d]
        /\ mempool' = mempool
    BY <1>1 DEF SendLookup, Goto, RequestsOK
  <2>2. ASSUME NEW tx \in Submissions \ Gossip, tx = req[c].tx, ~InMempool(tx)
        PROVE  Few(tx)'
    <3>1. Copies(tx)' = 0
      <4>1. {i \in DOMAIN mempool' : mempool'[i] = tx} = {}
        BY <2>1, <2>2 DEF InMempool
      <4> QED BY <4>1, FS_EmptySet DEF Copies
    <3>2. Count(tx)' <= Cardinality(Client)
      BY <1>a, Subsets
    <3> QED BY <1>a, <3>1, <3>2
  <2>3. ASSUME NEW tx \in Submissions \ Gossip, tx # req[c].tx \/ InMempool(tx)
        PROVE  Few(tx)'
    <3>1. Senders(tx)' \in SUBSET Senders(tx)
      BY <2>1, <2>3 DEF Senders, With, Idle
    <3>2. Copies(tx)' = Copies(tx)
      BY <2>1 DEF Copies
    <3> QED BY <1>b, <3>1, <3>2
  <2> QED BY <2>2, <2>3 DEF CopiesInv
<1>2. ASSUME NEW c \in Client, Push(c)
      PROVE  CopiesInv'
  <2>1. /\ req[c].at = "push" /\ req'[c].at = "answer"
        /\ \A d \in Client \ {c} : req'[d] = req[d]
        /\ mempool' = Append(mempool, req[c].tx)
    BY <1>2 DEF Push, Goto, RequestsOK, With
  <2>2. ASSUME NEW tx \in Submissions \ Gossip, tx = req[c].tx
        PROVE  Few(tx)'
    <3>1. c \in Senders(tx) /\ Senders(tx)' \in SUBSET (Senders(tx) \ {c})
      BY <2>1, <2>2 DEF Senders
    <3>2. Count(tx)' <= Count(tx) - 1
      BY <1>a, <3>1, OneLess
    <3>3. Copies(tx)' \in Nat /\ Copies(tx)' <= Copies(tx) + 1
      BY <2>1, OneMoreCopy
    <3> QED BY <1>a, <3>2, <3>3 DEF CopiesInv
  <2>3. ASSUME NEW tx \in Submissions \ Gossip, tx # req[c].tx
        PROVE  Few(tx)'
    <3>1. Senders(tx)' \in SUBSET Senders(tx)
      BY <2>1 DEF Senders
    <3>2. Copies(tx)' = Copies(tx)
      BY <2>1, <2>3, OneMoreCopy
    <3> QED BY <1>b, <3>1, <3>2
  <2> QED BY <2>2, <2>3 DEF CopiesInv
<1>3. ASSUME NEW c \in Client, FaucetMark(c)
      PROVE  CopiesInv'
  <2>1. IsRequest(req[c]) /\ req[c].at = "mark"
    BY <1>3 DEF FaucetMark, RequestsOK
  <2>2. /\ req[c].tx.from = Faucet
        /\ req'[c].tx = req[c].tx
        /\ \A d \in Client \ {c} : req'[d] = req[d]
        /\ mempool' = mempool
    BY <1>3, <2>1, Sections DEF FaucetMark, Goto, RequestsOK, With
  <2>3. ASSUME NEW tx \in Submissions \ Gossip
        PROVE  Few(tx)'
    <3>1. Senders(tx)' \in SUBSET Senders(tx)
      BY <2>2, RpcAssumption DEF Senders
    <3>2. Copies(tx)' = Copies(tx)
      BY <2>2 DEF Copies
    <3> QED BY <1>b, <3>1, <3>2
  <2> QED BY <2>3 DEF CopiesInv
<1>4. ASSUME NEW c \in Client,
             \/ \E text \in Text : FaucetCheck(c, text)
             \/ FaucetNonce(c)
             \/ \E tx \in Submissions : SendCheck(c, tx)
             \/ Answer(c) \/ HangUp(c)
      PROVE  CopiesInv'
  <2>1. /\ req'[c].at # "push"
        /\ \A d \in Client \ {c} : req'[d] = req[d]
    BY <1>4 DEF FaucetCheck, FaucetNonce, SendCheck, Answer, HangUp, Arrive, Goto, RequestsOK, With, Idle
  <2>2. mempool' = mempool
    BY <1>4 DEF FaucetCheck, FaucetNonce, SendCheck, Answer, HangUp
  <2>3. \A tx : Senders(tx)' \in SUBSET Senders(tx) /\ Copies(tx)' = Copies(tx)
    BY <2>1, <2>2 DEF Senders, Copies
  <2> QED BY <1>b, <2>3 DEF CopiesInv
<1>5. CASE Produce \/ Restart
  <2>1. mempool' = << >> /\ (req' = req \/ \A c \in Client : req'[c].at # "push")
    BY <1>5 DEF Produce, Restart, requestVars, Idle
  <2>2. ASSUME NEW tx \in Submissions \ Gossip
        PROVE  Few(tx)'
    <3>1. {i \in DOMAIN mempool' : mempool'[i] = tx} = {}
      BY <2>1
    <3>2. Copies(tx)' = 0
      BY <3>1, FS_EmptySet DEF Copies
    <3>3. Senders(tx)' \in SUBSET Senders(tx)
      BY <2>1 DEF Senders
    <3>4. Count(tx)' <= Count(tx)
      BY <1>a, <3>3, Fewer
    <3> QED BY <1>a, <3>2, <3>4 DEF CopiesInv
  <2> QED BY <2>2 DEF CopiesInv
<1>6. ASSUME NEW pushed \in Gossip, OnNewTransaction(pushed)
      PROVE  CopiesInv'
  <2>1. mempool' = Append(mempool, pushed) /\ req' = req
    BY <1>6 DEF OnNewTransaction, requestVars
  <2>2. ASSUME NEW tx \in Submissions \ Gossip
        PROVE  Few(tx)'
    <3>1. Copies(tx)' = Copies(tx)
      BY <2>1, OneMoreCopy
    <3>2. Senders(tx)' \in SUBSET Senders(tx)
      BY <2>1 DEF Senders
    <3> QED BY <1>b, <3>1, <3>2
  <2> QED BY <2>2 DEF CopiesInv
<1>7. CASE \/ \E tx \in Gossip \cup accepted : OnNewBlock(tx)
           \/ Tick \/ SetBack \/ UNCHANGED vars
  <2>1. req' = req /\ mempool' = mempool
    BY <1>7 DEF OnNewBlock, Tick, SetBack, vars, requestVars
  <2> QED BY <2>1 DEF CopiesInv, Senders, Copies
<1> QED BY <1>1, <1>2, <1>3, <1>4, <1>5, <1>6, <1>7 DEF Next, Request

(***************************************************************************)
(* CopiesAreBounded: for any number of requests served at a time, the gap  *)
(* between the search for a duplicate and the push never lets more copies  *)
(* of a client's transaction in than that number.                          *)
(***************************************************************************)
THEOREM CopiesAreBounded == Spec => []CopiesBounded
<1>1. Init => RequestsOK /\ SharedOK /\ CopiesInv
  <2>1. ASSUME Init PROVE \A tx : Senders(tx) = {} /\ {i \in DOMAIN mempool : mempool[i] = tx} = {}
    BY <2>1 DEF Init, Senders, Idle
  <2>2. Init => CopiesInv
    <3>1. Cardinality({}) = 0 /\ Cardinality(Client) \in Nat
      BY FS_EmptySet, Subsets
    <3> QED BY <2>1, <3>1 DEF CopiesInv, Copies
  <2> QED BY <2>2, Starts
<1>2. RequestsOK /\ SharedOK /\ CopiesInv /\ [Next]_vars => (RequestsOK /\ SharedOK /\ CopiesInv)'
  BY RequestsStep, SharedStep, CopiesStep
<1>3. SharedOK /\ CopiesInv => CopiesBounded
  <2>1. SUFFICES ASSUME SharedOK, CopiesInv, NEW tx \in Submissions \ Gossip
                 PROVE  Copies(tx) <= Cardinality(Client)
    BY DEF CopiesBounded
  <2>2. PICK S : mempool \in Seq(S)
    BY <2>1 DEF SharedOK
  <2>3. IsFiniteSet(1 .. Len(mempool)) /\ DOMAIN mempool = 1 .. Len(mempool)
    BY <2>2, LenProperties, FS_Interval
  <2>4. Copies(tx) \in Nat
    BY <2>3, FS_Subset, FS_CardinalityType DEF Copies
  <2>5. Cardinality(Senders(tx)) \in Nat /\ Cardinality(Client) \in Nat
    BY Subsets DEF Senders
  <2> QED BY <2>1, <2>4, <2>5 DEF CopiesInv
<1> QED BY <1>1, <1>2, <1>3, PTL DEF Spec

-----------------------------------------------------------------------------
(* Grants and cooldowns *)

(* The requests that have found no cooldown for this text and have not     *)
(* started one yet.                                                        *)
Checkers(text) == {c \in Client : req[c].at \in {"nonce", "mark"} /\ text \in req[c].for}

(* Marks are in the order of the clock, and the node keeps the last one.   *)
MarksInOrder(text) ==
  /\ marks[text] # << >> => faucet_last[text] = {marks[text][Len(marks[text])]}
  /\ \A i \in DOMAIN marks[text] : marks[text][i] <= clock
  /\ \A i, j \in DOMAIN marks[text] : i <= j => marks[text][i] <= marks[text][j]

(***************************************************************************)
(* While a grant is younger than the cooldown, no request passes the check *)
(* any more: the grants after it and the requests that passed before it    *)
(* are all of other clients than its own.                                  *)
(***************************************************************************)
FewCheckers(text) ==
  \A i \in DOMAIN marks[text] :
    clock - marks[text][i] < Cooldown =>
      (Len(marks[text]) - i) + Cardinality(Checkers(text)) <= Cardinality(Client) - 1

Spaced(text) ==
  \A i \in DOMAIN marks[text] :
    i > Cardinality(Client) => marks[text][i] - marks[text][i - Cardinality(Client)] >= Cooldown

GrantsInv ==
  ~setBack => \A text \in Text : MarksInOrder(text) /\ FewCheckers(text) /\ Spaced(text)

LEMMA MarksAreTimes ==
  ASSUME SharedOK, NEW text \in Text
  PROVE  /\ marks[text] \in Seq(0 .. MaxTime)
         /\ Len(marks[text]) \in Nat
         /\ DOMAIN marks[text] = 1 .. Len(marks[text])
         /\ \A i \in DOMAIN marks[text] : marks[text][i] \in 0 .. MaxTime
         /\ clock \in 0 .. MaxTime
         /\ MaxTime \in Nat /\ Cooldown \in Nat
         /\ Cardinality(Checkers(text)) \in Nat /\ Cardinality(Client) \in Nat
<1>1. marks[text] \in Seq(0 .. MaxTime)
  BY DEF SharedOK
<1>2. Checkers(text) \in SUBSET Client
  BY DEF Checkers
<1>3. U64 \in Nat /\ MaxTime \in Nat /\ Cooldown \in Nat
  BY RpcAssumption, WorldStateAssumption
<1> QED BY <1>1, <1>2, <1>3, Subsets, ElementOfSeq, LenProperties DEF SharedOK

(* A text whose marks and clock stand still keeps its invariant when no    *)
(* request joins its checkers.                                             *)
LEMMA NoNewChecker ==
  ASSUME SharedOK, NEW text \in Text,
         marks'[text] = marks[text], faucet_last'[text] = faucet_last[text], clock' = clock,
         Checkers(text)' \in SUBSET Checkers(text),
         MarksInOrder(text), FewCheckers(text), Spaced(text)
  PROVE  MarksInOrder(text)' /\ FewCheckers(text)' /\ Spaced(text)'
<1>1. /\ Cardinality(Checkers(text)') <= Cardinality(Checkers(text))
      /\ Cardinality(Checkers(text)') \in Nat
  <2>1. Checkers(text) \in SUBSET Client /\ Checkers(text)' \in SUBSET Client
    BY DEF Checkers
  <2> QED BY <2>1, Fewer, Subsets
<1>2. FewCheckers(text)'
  <2>1. ASSUME NEW i \in DOMAIN marks[text], clock - marks[text][i] < Cooldown
        PROVE  (Len(marks[text]) - i) + Cardinality(Checkers(text)') <= Cardinality(Client) - 1
    <3>1. (Len(marks[text]) - i) + Cardinality(Checkers(text)) <= Cardinality(Client) - 1
      BY <2>1 DEF FewCheckers
    <3>2. i \in Int /\ Len(marks[text]) \in Int /\ Cardinality(Checkers(text)) \in Nat
          /\ Cardinality(Client) \in Nat
      BY MarksAreTimes
    <3> QED BY <1>1, <3>1, <3>2
  <2> QED BY <2>1 DEF FewCheckers
<1> QED BY <1>2 DEF MarksInOrder, Spaced

(* A request that passes the check finds no grant younger than a cooldown. *)
LEMMA CheckPasses ==
  ASSUME SharedOK, NEW text \in Text, MarksInOrder(text), CanFaucet(text)
  PROVE  \A i \in DOMAIN marks[text] : clock - marks[text][i] >= Cooldown
<1> SUFFICES ASSUME NEW i \in DOMAIN marks[text]
             PROVE  clock - marks[text][i] >= Cooldown
  OBVIOUS
<1> DEFINE n == Len(marks[text])
           last == marks[text][n]
<1>1. /\ n \in DOMAIN marks[text] /\ i <= n
      /\ last \in 0 .. MaxTime /\ marks[text][i] \in 0 .. MaxTime /\ clock \in 0 .. MaxTime
      /\ MaxTime \in Nat /\ Cooldown \in Nat
  BY MarksAreTimes
<1>2. last <= clock /\ marks[text][i] <= last
  BY <1>1 DEF MarksInOrder
<1>3. faucet_last[text] = {last}
  <2>1. marks[text] # << >>
    BY <1>1
  <2> QED BY <2>1 DEF MarksInOrder
<1>4. (clock - last) % U64 >= Cooldown
  BY <1>3 DEF CanFaucet
<1>5. (clock - last) % U64 = clock - last
  <2>1. U64 \in Nat /\ MaxTime \in 0 .. U64 - 1
    BY RpcAssumption, WorldStateAssumption
  <2>2. clock - last \in 0 .. U64 - 1
    BY <1>1, <1>2, <2>1
  <2> QED BY <2>1, <2>2
<1> QED BY <1>1, <1>2, <1>4, <1>5

(* The mark of a request ends its own check and counts against the others. *)
LEMMA MarkStep ==
  ASSUME SharedOK, NEW text \in Text, NEW c \in Checkers(text),
         Checkers(text)' \in SUBSET (Checkers(text) \ {c}),
         marks'[text] = Append(marks[text], clock), faucet_last'[text] = {clock}, clock' = clock,
         MarksInOrder(text), FewCheckers(text), Spaced(text)
  PROVE  MarksInOrder(text)' /\ FewCheckers(text)' /\ Spaced(text)'
<1> DEFINE m == marks[text]
           n == Len(m)
           N == Cardinality(Client)
           k == Cardinality(Checkers(text))
<1>1. /\ n \in Nat /\ N \in Nat /\ k \in Nat /\ Cooldown \in Nat
      /\ DOMAIN m = 1 .. n
      /\ clock \in Int /\ \A i \in 1 .. n : m[i] \in Int
  BY MarksAreTimes
<1>2. /\ Len(marks'[text]) = n + 1 /\ DOMAIN marks'[text] = 1 .. n + 1
      /\ \A i \in 1 .. n : marks'[text][i] = m[i]
      /\ marks'[text][n + 1] = clock
  <2>1. m \in Seq(0 .. MaxTime)
    BY MarksAreTimes
  <2>2. Append(m, clock) \in Seq((0 .. MaxTime) \cup {clock})
    BY <2>1, Appended
  <2> QED BY <2>1, <2>2, Appended, LenProperties
<1>3. /\ Cardinality(Checkers(text)') <= k - 1
      /\ Cardinality(Checkers(text)') <= N - 1
      /\ Cardinality(Checkers(text)') \in Nat
      /\ k >= 1
  <2>1. Checkers(text) \in SUBSET Client /\ Checkers(text)' \in SUBSET (Client \ {c}) /\ c \in Client
    BY DEF Checkers
  <2>2. Cardinality(Checkers(text)') <= k - 1
    BY <2>1, OneLess
  <2>3. Cardinality(Checkers(text)') <= N - 1 /\ Cardinality(Checkers(text)') \in Nat
    BY <2>1, NotAll, Subsets
  <2> QED BY <1>1, <2>2, <2>3
<1> HIDE DEF m, n, N, k
<1>4. MarksInOrder(text)'
  <2>1. \A i \in 1 .. n : m[i] <= clock
    BY <1>1 DEF MarksInOrder, m
  <2>2. \A i, j \in 1 .. n : i <= j => m[i] <= m[j]
    BY <1>1 DEF MarksInOrder, m
  <2>3. \A i \in DOMAIN marks'[text] : marks'[text][i] <= clock
    <3>1. \A i \in 1 .. n + 1 : i \in 1 .. n \/ i = n + 1
      BY <1>1
    <3> QED BY <1>1, <1>2, <2>1, <3>1
  <2>4. ASSUME NEW i \in DOMAIN marks'[text], NEW j \in DOMAIN marks'[text], i <= j
        PROVE  marks'[text][i] <= marks'[text][j]
    <3>1. CASE j = n + 1
      BY <1>2, <2>3, <3>1
    <3>2. CASE j \in 1 .. n
      <4>1. i \in 1 .. n
        BY <1>1, <1>2, <2>4, <3>2
      <4> QED BY <1>2, <2>2, <2>4, <3>2, <4>1
    <3>3. j = n + 1 \/ j \in 1 .. n
      BY <1>1, <1>2
    <3> QED BY <3>1, <3>2, <3>3
  <2> QED BY <1>2, <2>3, <2>4 DEF MarksInOrder
<1>5. ASSUME NEW i \in 1 .. n, clock - m[i] < Cooldown
      PROVE  (n - i) + k <= N - 1
  BY <1>1, <1>5 DEF FewCheckers, m, n, N, k
<1>6. FewCheckers(text)'
  <2>1. ASSUME NEW i \in DOMAIN marks'[text], clock - marks'[text][i] < Cooldown
        PROVE  (Len(marks'[text]) - i) + Cardinality(Checkers(text)') <= N - 1
    <3>1. CASE i = n + 1
      BY <1>1, <1>2, <1>3, <3>1
    <3>2. CASE i \in 1 .. n
      <4>1. (n - i) + k <= N - 1
        BY <1>2, <1>5, <2>1, <3>2
      <4> QED BY <1>1, <1>2, <1>3, <3>2, <4>1
    <3> QED BY <1>1, <1>2, <3>1, <3>2
  <2> QED BY <2>1 DEF FewCheckers, N
<1>7. Spaced(text)'
  <2>1. ASSUME NEW i \in DOMAIN marks'[text], i > N
        PROVE  marks'[text][i] - marks'[text][i - N] >= Cooldown
    <3>0. N > 0
      BY <1>1, <1>3
    <3>1. CASE i = n + 1
      <4>1. i - N \in 1 .. n
        BY <1>1, <2>1, <3>0, <3>1
      <4>2. ~(clock - m[i - N] < Cooldown)
        <5>1. ~((n - (i - N)) + k <= N - 1)
          BY <1>1, <1>3, <3>1
        <5> QED BY <1>5, <4>1, <5>1
      <4>3. marks'[text][i] = clock /\ marks'[text][i - N] = m[i - N]
        BY <1>2, <3>1, <4>1
      <4>4. m[i - N] \in Int
        BY <1>1, <4>1
      <4>5. clock - m[i - N] >= Cooldown
        BY <1>1, <4>2, <4>4
      <4> QED BY <4>3, <4>5
    <3>2. CASE i \in 1 .. n
      <4>1. i - N \in 1 .. n
        BY <1>1, <2>1, <3>0, <3>2
      <4>2. m[i] - m[i - N] >= Cooldown
        BY <1>1, <2>1, <3>2 DEF Spaced, m, N
      <4>3. marks'[text][i] = m[i] /\ marks'[text][i - N] = m[i - N]
        BY <1>2, <3>2, <4>1
      <4> QED BY <4>2, <4>3
    <3>3. i = n + 1 \/ i \in 1 .. n
      BY <1>1, <1>2
    <3> QED BY <3>1, <3>2, <3>3
  <2> QED BY <2>1 DEF Spaced, N
<1> QED BY <1>4, <1>6, <1>7

LEMMA GrantsStep ==
  ASSUME RequestsOK, SharedOK, GrantsInv, [Next]_vars
  PROVE  GrantsInv'
<1> SUFFICES ASSUME ~setBack', NEW text \in Text
             PROVE  MarksInOrder(text)' /\ FewCheckers(text)' /\ Spaced(text)'
  BY DEF GrantsInv
<1> DEFINE Goal == MarksInOrder(text)' /\ FewCheckers(text)' /\ Spaced(text)'
<1>a. ~SetBack
  BY DEF SetBack
<1>b. ~setBack
  <2>1. ~setBack' /\ setBack' = setBack => ~setBack
    OBVIOUS
  <2> QED
    BY <1>a, <2>1 DEF Next, Request, FaucetCheck, FaucetNonce, FaucetMark, SendCheck, SendLookup, Push,
       Answer, HangUp, OnNewTransaction, OnNewBlock, Produce, Restart, Tick, timeVars, vars
<1>c. MarksInOrder(text) /\ FewCheckers(text) /\ Spaced(text)
  BY <1>b DEF GrantsInv
<1>1. ASSUME NEW c \in Client, NEW t \in Text, FaucetCheck(c, t)
      PROVE  Goal
  <2>1. /\ req'[c].for = {t}
        /\ \A d \in Client \ {c} : req'[d] = req[d]
        /\ marks' = marks /\ faucet_last' = faucet_last /\ clock' = clock
    BY <1>1 DEF FaucetCheck, Arrive, Goto, RequestsOK, faucetVars, timeVars
  <2>2. CASE text = t
    <3>1. \A i \in DOMAIN marks[text] : ~(clock - marks[text][i] < Cooldown)
      <4>1. \A i \in DOMAIN marks[text] : clock - marks[text][i] >= Cooldown
        BY <1>1, <1>c, <2>2, CheckPasses DEF FaucetCheck
      <4> QED BY <4>1, MarksAreTimes
    <3>2. FewCheckers(text)'
      BY <2>1, <3>1 DEF FewCheckers
    <3> QED BY <1>c, <2>1, <3>2 DEF MarksInOrder, Spaced
  <2>3. CASE text # t
    <3>1. Checkers(text)' \in SUBSET Checkers(text)
      BY <2>1, <2>3 DEF Checkers
    <3> QED BY <1>c, <2>1, <3>1, NoNewChecker
  <2> QED BY <2>2, <2>3
<1>2. ASSUME NEW c \in Client, FaucetNonce(c)
      PROVE  Goal
  <2>0. IsRequest(req[c]) /\ req[c].at = "nonce"
    BY <1>2 DEF RequestsOK, FaucetNonce
  <2>1. PICK t \in Text : req[c].for = {t}
    BY <2>0, Sections
  <2>2. /\ req'[c].for = {t}
        /\ \A d \in Client \ {c} : req'[d] = req[d]
        /\ marks' = marks /\ faucet_last' = faucet_last /\ clock' = clock
    BY <1>2, <2>1 DEF FaucetNonce, Goto, RequestsOK, With, faucetVars, timeVars
  <2>3. Checkers(text)' \in SUBSET Checkers(text)
    BY <2>0, <2>1, <2>2 DEF Checkers
  <2> QED BY <1>c, <2>2, <2>3, NoNewChecker
<1>3. ASSUME NEW c \in Client, FaucetMark(c)
      PROVE  Goal
  <2>0. IsRequest(req[c]) /\ req[c].at = "mark"
    BY <1>3 DEF RequestsOK, FaucetMark
  <2>1. PICK t \in Text : req[c].for = {t}
    BY <2>0, Sections
  <2>2. /\ req'[c].at = "push"
        /\ \A d \in Client \ {c} : req'[d] = req[d]
        /\ faucet_last' = [faucet_last EXCEPT ![t] = {clock}]
        /\ marks' = [marks EXCEPT ![t] = Append(@, clock)]
        /\ clock' = clock
    BY <1>3, <2>1 DEF FaucetMark, Goto, RequestsOK, With, timeVars
  <2>3. Checkers(text)' \in SUBSET (Checkers(text) \ {c})
    BY <2>2 DEF Checkers
  <2>4. CASE text = t
    <3>1. c \in Checkers(text)
      BY <2>0, <2>1, <2>4 DEF Checkers
    <3>2. marks'[text] = Append(marks[text], clock) /\ faucet_last'[text] = {clock}
      BY <2>2, <2>4 DEF SharedOK
    <3> QED BY <1>c, <2>2, <2>3, <3>1, <3>2, MarkStep
  <2>5. CASE text # t
    <3>1. marks'[text] = marks[text] /\ faucet_last'[text] = faucet_last[text]
      BY <2>2, <2>5 DEF SharedOK
    <3> QED BY <1>c, <2>2, <2>3, <3>1, NoNewChecker
  <2> QED BY <2>4, <2>5
<1>4. ASSUME NEW c \in Client,
             \/ \E tx \in Submissions : SendCheck(c, tx)
             \/ SendLookup(c) \/ Push(c) \/ Answer(c) \/ HangUp(c)
      PROVE  Goal
  <2>1. /\ req'[c].at \notin {"nonce", "mark"}
        /\ \A d \in Client \ {c} : req'[d] = req[d]
    BY <1>4 DEF SendCheck, SendLookup, Push, Answer, HangUp, Arrive, Goto, RequestsOK, With, Idle
  <2>2. marks' = marks /\ faucet_last' = faucet_last /\ clock' = clock
    BY <1>4 DEF SendCheck, SendLookup, Push, Answer, HangUp, faucetVars, timeVars
  <2>3. Checkers(text)' \in SUBSET Checkers(text)
    BY <2>1 DEF Checkers
  <2> QED BY <1>c, <2>2, <2>3, NoNewChecker
<1>5. CASE Restart
  <2>1. marks'[text] = << >>
    BY <1>5 DEF Restart
  <2> QED BY <2>1 DEF MarksInOrder, FewCheckers, Spaced
<1>6. CASE Tick
  <2>1. req' = req /\ marks' = marks /\ faucet_last' = faucet_last /\ clock' = clock + 1
    BY <1>6 DEF Tick, requestVars, faucetVars
  <2>2. Checkers(text)' = Checkers(text)
    BY <2>1 DEF Checkers
  <2>3. \A i \in DOMAIN marks[text] :
          /\ marks[text][i] <= clock => marks[text][i] <= clock + 1
          /\ clock + 1 - marks[text][i] < Cooldown => clock - marks[text][i] < Cooldown
    BY MarksAreTimes
  <2>4. MarksInOrder(text)'
    BY <1>c, <2>1, <2>3 DEF MarksInOrder
  <2>5. FewCheckers(text)'
    <3>1. ASSUME NEW i \in DOMAIN marks[text], clock + 1 - marks[text][i] < Cooldown
          PROVE  (Len(marks[text]) - i) + Cardinality(Checkers(text)) <= Cardinality(Client) - 1
      BY <1>c, <2>3, <3>1 DEF FewCheckers
    <3>2. ASSUME NEW i \in DOMAIN marks'[text], clock' - marks'[text][i] < Cooldown
          PROVE  (Len(marks'[text]) - i) + Cardinality(Checkers(text)') <= Cardinality(Client) - 1
      <4>1. marks'[text] = marks[text] /\ clock' = clock + 1
        BY <2>1
      <4>2. i \in DOMAIN marks[text]
        BY <4>1
      <4>3. clock + 1 - marks[text][i] < Cooldown
        BY <3>2, <4>1, <4>2, MarksAreTimes
      <4>4. (Len(marks[text]) - i) + Cardinality(Checkers(text)) <= Cardinality(Client) - 1
        BY <3>1, <4>2, <4>3
      <4> QED BY <2>2, <4>1, <4>4
    <3> QED BY <3>2 DEF FewCheckers
  <2>6. Spaced(text)'
    BY <1>c, <2>1 DEF Spaced
  <2> QED BY <2>4, <2>5, <2>6
<1>7. CASE \/ \E tx \in Gossip : OnNewTransaction(tx)
           \/ \E tx \in Gossip \cup accepted : OnNewBlock(tx)
           \/ Produce \/ UNCHANGED vars
  <2>1. req' = req /\ marks' = marks /\ faucet_last' = faucet_last /\ clock' = clock
    BY <1>7 DEF OnNewTransaction, OnNewBlock, Produce, vars, requestVars, faucetVars, timeVars
  <2>2. Checkers(text)' \in SUBSET Checkers(text)
    BY <2>1 DEF Checkers
  <2> QED BY <1>c, <2>1, <2>2, NoNewChecker
<1> QED BY <1>a, <1>1, <1>2, <1>3, <1>4, <1>5, <1>6, <1>7 DEF Next, Request

(***************************************************************************)
(* CooldownsHold: for any number of requests served at a time and any      *)
(* cooldown, the requests that check together are all that a text can get  *)
(* within a cooldown, while the clock is not set back and the process      *)
(* runs.                                                                   *)
(***************************************************************************)
THEOREM CooldownsHold == Spec => []GrantsAreSpaced
<1>1. Init => RequestsOK /\ SharedOK /\ GrantsInv
  <2>1. ASSUME Init, NEW text \in Text
        PROVE  MarksInOrder(text) /\ FewCheckers(text) /\ Spaced(text)
    <3>1. marks[text] = << >> /\ DOMAIN marks[text] = {}
      BY <2>1 DEF Init
    <3> QED BY <3>1 DEF MarksInOrder, FewCheckers, Spaced
  <2> QED BY <2>1, Starts DEF GrantsInv
<1>2. RequestsOK /\ SharedOK /\ GrantsInv /\ [Next]_vars => (RequestsOK /\ SharedOK /\ GrantsInv)'
  BY RequestsStep, SharedStep, GrantsStep
<1>3. GrantsInv => GrantsAreSpaced
  BY DEF GrantsInv, GrantsAreSpaced, Spaced
<1> QED BY <1>1, <1>2, <1>3, PTL DEF Spec

-----------------------------------------------------------------------------
(* What was accepted *)

(* Accepted, or about to be: pushed and not yet answered. *)
Told(tx) == tx \in accepted \/ \E c \in Client : req[c].at = "answer" /\ req[c].tx = tx

(***************************************************************************)
(* KeptInv: a client is answered after the push, so what it may yet be     *)
(* told is kept like what it was told.                                     *)
(***************************************************************************)
KeptInv == ~overflowed => \A tx : Told(tx) => InMempool(tx) \/ tx \in included

(* A transaction that is pushed is in the mempool, with all that was. *)
LEMMA InAfterAppend ==
  ASSUME SharedOK, NEW pushed, mempool' = Append(mempool, pushed)
  PROVE  /\ InMempool(pushed)'
         /\ \A tx : InMempool(tx) => InMempool(tx)'
<1>1. PICK S : mempool \in Seq(S)
  BY DEF SharedOK
<1>2. /\ DOMAIN mempool = 1 .. Len(mempool) /\ DOMAIN mempool' = 1 .. Len(mempool) + 1
      /\ Len(mempool) \in Nat
      /\ \A i \in 1 .. Len(mempool) : mempool'[i] = mempool[i]
      /\ mempool'[Len(mempool) + 1] = pushed
  BY <1>1, Appended, LenProperties
<1>3. Len(mempool) + 1 \in DOMAIN mempool' /\ DOMAIN mempool \subseteq DOMAIN mempool'
  BY <1>2
<1>4. InMempool(pushed)'
  BY <1>2, <1>3 DEF InMempool
<1>5. ASSUME NEW tx, InMempool(tx)
      PROVE  InMempool(tx)'
  <2>1. PICK i \in DOMAIN mempool : mempool[i] = tx
    BY <1>5 DEF InMempool
  <2>2. i \in DOMAIN mempool' /\ mempool'[i] = tx
    BY <1>2, <1>3, <2>1
  <2> QED BY <2>2 DEF InMempool
<1> QED BY <1>4, <1>5

(* A block that does not find too many transactions takes them all. *)
LEMMA AllTaken ==
  ASSUME SharedOK, ~(Len(mempool) > BlockTxLimit), NEW tx, InMempool(tx)
  PROVE  tx \in Range(Taken)
<1>1. PICK S : mempool \in Seq(S)
  BY DEF SharedOK
<1>2. Len(mempool) \in Nat /\ BlockTxLimit \in Nat
  BY <1>1, LenProperties, RpcAssumption
<1>3. Taken = SubSeq(mempool, 1, Len(mempool))
  BY <1>2 DEF Taken
<1>4. Taken = mempool
  BY <1>1, <1>3, SubSeqFull
<1> QED BY <1>4 DEF Range, InMempool

LEMMA KeptStep ==
  ASSUME RequestsOK, SharedOK, KeptInv, [Next]_vars
  PROVE  KeptInv'
<1> SUFFICES ASSUME ~overflowed', NEW tx, Told(tx)'
             PROVE  InMempool(tx)' \/ tx \in included'
  BY DEF KeptInv
<1> DEFINE Goal == InMempool(tx)' \/ tx \in included'
<1>a. ASSUME ~overflowed, Told(tx)
      PROVE  InMempool(tx) \/ tx \in included
  BY <1>a DEF KeptInv
<1>1. ASSUME NEW c \in Client, Push(c)
      PROVE  Goal
  <2>1. /\ mempool' = Append(mempool, req[c].tx)
        /\ req'[c].at = "answer" /\ req'[c].tx = req[c].tx
        /\ \A d \in Client \ {c} : req'[d] = req[d]
        /\ accepted' = accepted /\ included' = included /\ overflowed' = overflowed
    BY <1>1 DEF Push, Goto, RequestsOK, With, chainVars
  <2>2. tx = req[c].tx \/ Told(tx)
    BY <2>1 DEF Told
  <2> QED BY <1>a, <2>1, <2>2, InAfterAppend
<1>2. ASSUME NEW c \in Client, Answer(c)
      PROVE  Goal
  <2>1. /\ req[c].at = "answer" /\ req'[c].at = "idle"
        /\ \A d \in Client \ {c} : req'[d] = req[d]
        /\ accepted' = accepted \cup {req[c].tx}
        /\ mempool' = mempool /\ included' = included /\ overflowed' = overflowed
    BY <1>2 DEF Answer, Goto, RequestsOK, Idle, chainVars
  <2>2. Told(tx)
    BY <2>1 DEF Told
  <2> QED BY <1>a, <2>1, <2>2 DEF InMempool
<1>3. ASSUME NEW c \in Client,
             \/ \E text \in Text : FaucetCheck(c, text)
             \/ FaucetNonce(c) \/ FaucetMark(c)
             \/ \E t \in Submissions : SendCheck(c, t)
             \/ SendLookup(c) \/ HangUp(c)
      PROVE  Goal
  <2>1. /\ req'[c].at # "answer"
        /\ \A d \in Client \ {c} : req'[d] = req[d]
    BY <1>3 DEF FaucetCheck, FaucetNonce, FaucetMark, SendCheck, SendLookup, HangUp, Arrive, Goto,
                RequestsOK, With, Idle
  <2>2. /\ accepted' = accepted /\ mempool' = mempool
        /\ included' = included /\ overflowed' = overflowed
    BY <1>3 DEF FaucetCheck, FaucetNonce, FaucetMark, SendCheck, SendLookup, HangUp, chainVars
  <2>3. Told(tx)
    BY <2>1, <2>2 DEF Told
  <2> QED BY <1>a, <2>2, <2>3 DEF InMempool
<1>4. ASSUME NEW t \in Gossip, OnNewTransaction(t)
      PROVE  Goal
  <2>1. /\ mempool' = Append(mempool, t) /\ req' = req /\ accepted' = accepted
        /\ included' = included /\ overflowed' = overflowed
    BY <1>4 DEF OnNewTransaction, requestVars, chainVars
  <2>2. Told(tx)
    BY <2>1 DEF Told
  <2> QED BY <1>a, <2>1, <2>2, InAfterAppend
<1>5. CASE Produce
  <2>1. /\ included' = included \cup Range(Taken) /\ req' = req /\ accepted' = accepted
        /\ overflowed' = (overflowed \/ Len(mempool) > BlockTxLimit)
    BY <1>5 DEF Produce, requestVars
  <2>2. Told(tx) /\ ~overflowed /\ ~(Len(mempool) > BlockTxLimit)
    BY <2>1 DEF Told
  <2> QED BY <1>a, <2>1, <2>2, AllTaken
<1>6. CASE Restart
  <2>1. accepted' = {} /\ \A c \in Client : req'[c].at = "idle"
    BY <1>6 DEF Restart, Idle
  <2> QED BY <2>1 DEF Told
<1>7. CASE \/ \E t \in Gossip \cup accepted : OnNewBlock(t)
           \/ Tick \/ SetBack \/ UNCHANGED vars
  <2>1. /\ req' = req /\ accepted' = accepted /\ mempool' = mempool
        /\ included' = included /\ overflowed' = overflowed
    BY <1>7 DEF OnNewBlock, Tick, SetBack, vars, requestVars, chainVars
  <2>2. Told(tx)
    BY <2>1 DEF Told
  <2> QED BY <1>a, <2>1, <2>2 DEF InMempool
<1> QED BY <1>1, <1>2, <1>3, <1>4, <1>5, <1>6, <1>7 DEF Next, Request

(***************************************************************************)
(* AcceptedIsKept: whatever the sizes, what a client was told is accepted  *)
(* is waiting or in a block, unless a block found more than it takes.      *)
(***************************************************************************)
THEOREM AcceptedIsKept == Spec => []NothingLost
<1>1. Init => RequestsOK /\ SharedOK /\ KeptInv
  <2>1. ASSUME Init, NEW tx PROVE ~Told(tx)
    BY <2>1 DEF Init, Told, Idle
  <2> QED BY <2>1, Starts DEF KeptInv
<1>2. RequestsOK /\ SharedOK /\ KeptInv /\ [Next]_vars => (RequestsOK /\ SharedOK /\ KeptInv)'
  BY RequestsStep, SharedStep, KeptStep
<1>3. KeptInv => NothingLost
  BY DEF KeptInv, NothingLost, Told
<1> QED BY <1>1, <1>2, <1>3, PTL DEF Spec
-----------------------------------------------------------------------------
(* Types and nonces *)

(* A transaction of the right type, next in the order of its sender or late. *)
Timely(tx) == tx \in Payment /\ tx.nonce <= Nonce(tx.from) + 1

Carrying == {"mark", "lookup", "push", "answer"}

(***************************************************************************)
(* AccountsInv: the accounts are well formed, the text of a request that   *)
(* is past its check is an address, what a request carries and what was    *)
(* accepted are timely, and what waits are payments.  A transaction is     *)
(* timely when the handler has looked at the nonce, and no block lowers a  *)
(* nonce.                                                                  *)
(***************************************************************************)
AccountsInv ==
  /\ ws \in WorldStates
  /\ \A c \in Client : /\ req[c].at = "nonce" => req[c].for \subseteq DOMAIN AccountOf
                       /\ req[c].at \in Carrying => Timely(req[c].tx)
  /\ \A tx \in accepted : Timely(tx)
  /\ mempool \in Seq(Payment)
  /\ height \in 0 .. MaxHeight /\ gossiped \in 0 .. MaxGossip /\ requests \in 0 .. MaxRequests

(* Payments are what the lemmas about blocks ask of a transaction. *)
LEMMA PaymentsArePayable ==
  ASSUME NEW tx \in Payment
  PROVE  Payable(tx)
BY DEF Payment, Payable

(* What the faucet pays is timely. *)
LEMMA FaucetTxTimely ==
  ASSUME ws \in WorldStates, NEW text \in DOMAIN AccountOf
  PROVE  Timely(FaucetTx(text, Nonce(Faucet) + 1))
<1>1. AccountOf[text] \in Addr /\ Faucet \in Addr  BY RpcAssumption, WorldStateAssumption
<1>2. FaucetAmount \in 0 .. U64 - 1 /\ 1 \in 0 .. U64 - 1
  BY RpcAssumption, WorldStateAssumption
<1>3. Nonce(Faucet) \in Nat  BY <1>1 DEF Nonce, WorldStates, Account
<1>4. FaucetTx(text, Nonce(Faucet) + 1) \in Payment
  BY <1>1, <1>2, <1>3 DEF FaucetTx, Payment
<1> QED BY <1>3, <1>4 DEF Timely, FaucetTx

(* A block leaves the accounts well formed and what was timely timely. *)
LEMMA ExtendKeeps ==
  ASSUME ws \in WorldStates, height \in Nat, NEW txs \in Seq(Payment), Extend(txs)
  PROVE  /\ ws' \in WorldStates
         /\ \A tx : Timely(tx) => Timely(tx)'
         /\ height' \in 0 .. MaxHeight
<1> DEFINE block == [height |-> height + 1, txs |-> txs]
<1>1. block.height # 0 /\ block.txs = txs  OBVIOUS
<1>2. Len(txs) \in Nat /\ \A i \in 1 .. Len(txs) : Payable(txs[i])  BY PaymentsArePayable
<1>3. ws' = ApplyBlock(ws, block)  BY DEF Extend
<1>4. ws' \in WorldStates /\ \A a \in Addr : ws'.accounts[a].nonce >= ws.accounts[a].nonce
  <2> HIDE DEF block
  <2>1. Len(block.txs) \in Nat /\ \A i \in 1 .. Len(block.txs) : Payable(block.txs[i])
    BY <1>1, <1>2
  <2> QED BY <1>1, <1>3, <2>1, ApplyBlockType, ApplyBlockNonces
<1>5. ASSUME NEW tx, Timely(tx) PROVE Timely(tx)'
  <2>1. tx.from \in Addr /\ tx.nonce \in Nat /\ tx.nonce <= ws.accounts[tx.from].nonce + 1
    BY <1>5 DEF Timely, Payment, Nonce
  <2>2. ws.accounts[tx.from].nonce \in Nat /\ ws'.accounts[tx.from].nonce \in Nat
    BY <1>4, <2>1 DEF WorldStates, Account
  <2>3. tx.nonce <= ws'.accounts[tx.from].nonce + 1  BY <1>4, <2>1, <2>2
  <2> QED BY <1>5, <2>3 DEF Timely, Nonce
<1>6. height' \in 0 .. MaxHeight  BY RpcAssumption DEF Extend
<1> QED BY <1>4, <1>5, <1>6

(* Every action keeps the accounts well formed and nothing ahead of them.  *)
LEMMA AccountsStep ==
  ASSUME RequestsOK, SharedOK, AccountsInv, [Next]_vars
  PROVE  AccountsInv'
<1> USE DEF chainVars, faucetVars, timeVars, requestVars
<1> DEFINE Good(r) == /\ r.at = "nonce" => r.for \subseteq DOMAIN AccountOf
                      /\ r.at \in Carrying => Timely(r.tx)
<1>a. /\ ws \in WorldStates /\ mempool \in Seq(Payment) /\ height \in Nat
      /\ \A c \in Client : Good(req[c])
      /\ \A tx \in accepted : Timely(tx)
  BY DEF AccountsInv
(* The handlers leave the accounts alone. *)
<1>b. ASSUME NEW c \in Client, NEW r, Good(r), Goto(c, r), ws' = ws, height' = height,
             gossiped' = gossiped, requests' \in 0 .. MaxRequests,
             mempool' \in Seq(Payment), \A tx \in accepted' : Timely(tx)
      PROVE  AccountsInv'
  <2>1. \A tx : Timely(tx)' <=> Timely(tx)  BY <1>b DEF Timely, Nonce
  <2>2. \A d \in Client : req'[d] = IF d = c THEN r ELSE req[d]
    BY <1>b DEF Goto, RequestsOK
  <2>3. \A d \in Client : /\ req'[d].at = "nonce" => req'[d].for \subseteq DOMAIN AccountOf
                          /\ req'[d].at \in Carrying => Timely(req'[d].tx)
    BY <1>a, <1>b, <2>2
  <2> QED BY <1>b, <2>1, <2>3 DEF AccountsInv
<1>c. requests \in 0 .. MaxRequests  BY DEF AccountsInv
<1>1. ASSUME NEW c \in Client, NEW text \in Text, FaucetCheck(c, text)
      PROVE  AccountsInv'
  <2>1. requests' \in 0 .. MaxRequests  BY <1>1, <1>c, RpcAssumption DEF FaucetCheck, Arrive
  <2>2. Good([at |-> "nonce", for |-> {text}])  BY <1>1 DEF FaucetCheck, Carrying
  <2>3. Goto(c, [at |-> "nonce", for |-> {text}])  BY <1>1 DEF FaucetCheck, Arrive
  <2>4. ws' = ws /\ height' = height /\ gossiped' = gossiped /\ mempool' = mempool /\ accepted' = accepted
    BY <1>1 DEF FaucetCheck
  <2> HIDE DEF Good
  <2> QED BY <1>a, <1>b, <2>1, <2>2, <2>3, <2>4
<1>2. ASSUME NEW c \in Client, FaucetNonce(c)
      PROVE  AccountsInv'
  <2>1. PICK text \in req[c].for : Goto(c, With("mark", {text}, FaucetTx(text, Nonce(Faucet) + 1)))
    BY <1>2 DEF FaucetNonce
  <2>2. text \in DOMAIN AccountOf  BY <1>a, <1>2 DEF FaucetNonce
  <2>3. Good(With("mark", {text}, FaucetTx(text, Nonce(Faucet) + 1)))
    BY <1>a, <2>2, FaucetTxTimely DEF With
  <2>4. /\ ws' = ws /\ height' = height /\ gossiped' = gossiped /\ mempool' = mempool
        /\ accepted' = accepted /\ requests' = requests
    BY <1>2 DEF FaucetNonce
  <2> HIDE DEF Good
  <2> QED BY <1>a, <1>b, <1>c, <2>1, <2>3, <2>4
<1>3. ASSUME NEW c \in Client, FaucetMark(c)
      PROVE  AccountsInv'
  <2>1. Goto(c, With("push", req[c].for, req[c].tx))  BY <1>3 DEF FaucetMark
  <2>2. Good(With("push", req[c].for, req[c].tx))
    BY <1>a, <1>3 DEF FaucetMark, With, Carrying
  <2>3. /\ ws' = ws /\ height' = height /\ gossiped' = gossiped /\ mempool' = mempool
        /\ accepted' = accepted /\ requests' = requests
    BY <1>3 DEF FaucetMark
  <2> HIDE DEF Good
  <2> QED BY <1>a, <1>b, <1>c, <2>1, <2>2, <2>3
<1>4. ASSUME NEW c \in Client, NEW tx \in Submissions, SendCheck(c, tx)
      PROVE  AccountsInv'
  <2>1. requests' \in 0 .. MaxRequests  BY <1>4, <1>c, RpcAssumption DEF SendCheck, Arrive
  <2>2. Timely(tx)
    <3>1. tx \in Payment  BY RpcAssumption
    <3>2. tx.from \in Addr  BY <3>1 DEF Payment
    <3>3. Nonce(tx.from) \in Nat  BY <1>a, <3>2 DEF Nonce, WorldStates, Account
    <3>4. tx.nonce = Nonce(tx.from) + 1  BY <1>4 DEF SendCheck
    <3> QED BY <3>1, <3>3, <3>4 DEF Timely
  <2>3. Good(With("lookup", {}, tx))  BY <2>2 DEF With
  <2>4. Goto(c, With("lookup", {}, tx))  BY <1>4 DEF SendCheck, Arrive
  <2>5. ws' = ws /\ height' = height /\ gossiped' = gossiped /\ mempool' = mempool /\ accepted' = accepted
    BY <1>4 DEF SendCheck
  <2> HIDE DEF Good
  <2> QED BY <1>a, <1>b, <2>1, <2>3, <2>4, <2>5
<1>5. ASSUME NEW c \in Client, SendLookup(c) \/ HangUp(c)
      PROVE  AccountsInv'
  <2>1. PICK r : Goto(c, r) /\ (r = Idle \/ (req[c].at = "lookup" /\ r = With("push", {}, req[c].tx)))
    BY <1>5 DEF SendLookup, HangUp
  <2>2. Good(r)  BY <1>a, <2>1 DEF With, Idle, Carrying
  <2>3. /\ ws' = ws /\ height' = height /\ gossiped' = gossiped /\ mempool' = mempool
        /\ accepted' = accepted /\ requests' = requests
    BY <1>5 DEF SendLookup, HangUp
  <2> HIDE DEF Good
  <2> QED BY <1>a, <1>b, <1>c, <2>1, <2>2, <2>3
<1>6. ASSUME NEW c \in Client, Push(c)
      PROVE  AccountsInv'
  <2>1. Timely(req[c].tx)  BY <1>a, <1>6 DEF Push, Carrying
  <2>2. Goto(c, With("answer", {}, req[c].tx))  BY <1>6 DEF Push
  <2>3. Good(With("answer", {}, req[c].tx))  BY <2>1 DEF With
  <2>4. mempool' \in Seq(Payment)  BY <1>a, <1>6, <2>1, AppendProperties DEF Push, Timely
  <2>5. ws' = ws /\ height' = height /\ gossiped' = gossiped /\ accepted' = accepted /\ requests' = requests
    BY <1>6 DEF Push
  <2> HIDE DEF Good
  <2> QED BY <1>a, <1>b, <1>c, <2>2, <2>3, <2>4, <2>5
<1>7. ASSUME NEW c \in Client, Answer(c)
      PROVE  AccountsInv'
  <2>1. Timely(req[c].tx)  BY <1>a, <1>7 DEF Answer, Carrying
  <2>2. Goto(c, Idle) /\ accepted' = accepted \cup {req[c].tx}  BY <1>7 DEF Answer
  <2>3. Good(Idle)  BY DEF Idle, Carrying
  <2>4. \A tx \in accepted' : Timely(tx)  BY <1>a, <2>1, <2>2
  <2>5. ws' = ws /\ height' = height /\ gossiped' = gossiped /\ mempool' = mempool /\ requests' = requests
    BY <1>7 DEF Answer
  <2> HIDE DEF Good
  <2> QED BY <1>a, <1>b, <1>c, <2>2, <2>3, <2>4, <2>5
<1>8. ASSUME NEW tx \in Gossip, OnNewTransaction(tx)
      PROVE  AccountsInv'
  <2>1. mempool' \in Seq(Payment)  BY <1>8, <1>a, RpcAssumption, AppendProperties DEF OnNewTransaction
  <2>2. gossiped' \in 0 .. MaxGossip  BY <1>8, RpcAssumption DEF OnNewTransaction, AccountsInv
  <2>3. ws' = ws /\ height' = height /\ req' = req /\ accepted' = accepted /\ requests' = requests
    BY <1>8 DEF OnNewTransaction
  <2> QED BY <2>1, <2>2, <2>3 DEF AccountsInv, Timely, Nonce
<1>d. ASSUME NEW txs \in Seq(Payment), Extend(txs), mempool' \in Seq(Payment), req' = req,
             requests' = requests, gossiped' = gossiped, accepted' = accepted
      PROVE  AccountsInv'
  <2>1. ws' \in WorldStates /\ height' \in 0 .. MaxHeight /\ \A tx : Timely(tx) => Timely(tx)'
    BY <1>a, <1>d, ExtendKeeps
  <2> QED BY <1>d, <2>1 DEF AccountsInv
<1>9. ASSUME NEW tx \in Gossip \cup accepted, OnNewBlock(tx)
      PROVE  AccountsInv'
  <2>1. tx \in Payment  BY <1>a, RpcAssumption DEF Timely
  <2>2. <<tx>> \in Seq(Payment)  BY <2>1
  <2> QED BY <1>9, <1>a, <1>d, <2>2 DEF OnNewBlock
<1>10. CASE Produce
  <2>1. Taken \in Seq(Payment)
    <3>1. Len(mempool) \in Nat /\ BlockTxLimit \in Nat  BY <1>a, LenProperties, RpcAssumption
    <3>2. PICK m \in 0 .. Len(mempool) : Taken = SubSeq(mempool, 1, m)  BY <3>1 DEF Taken
    <3> QED BY <1>a, <3>1, <3>2, SubSeqProperties
  <2>2. mempool' = << >> /\ << >> \in Seq(Payment)  BY <1>10 DEF Produce
  <2> QED BY <1>10, <1>d, <2>1, <2>2 DEF Produce
<1>11. CASE Restart
  <2>1. mempool' \in Seq(Payment) /\ accepted' = {} /\ \A c \in Client : req'[c].at = "idle"
    BY <1>11 DEF Restart, Idle
  <2>2. ws' = ws /\ height' = height /\ gossiped' = gossiped /\ requests' = requests
    BY <1>11 DEF Restart
  <2> QED BY <2>1, <2>2 DEF AccountsInv, Carrying
<1>12. CASE Tick \/ SetBack \/ UNCHANGED vars
  <2>1. /\ ws' = ws /\ height' = height /\ gossiped' = gossiped /\ requests' = requests
        /\ req' = req /\ accepted' = accepted /\ mempool' = mempool
    BY <1>12 DEF Tick, SetBack, vars
  <2> QED BY <2>1 DEF AccountsInv, Timely, Nonce
<1> QED BY <1>1, <1>2, <1>3, <1>4, <1>5, <1>6, <1>7, <1>8, <1>9, <1>10, <1>11, <1>12 DEF Next, Request

(* The accounts after genesis are well formed, and nobody has asked. *)
LEMMA AccountsStart ==
  ASSUME Init
  PROVE  AccountsInv
<1>1. ws \in WorldStates
  <2>1. Genesis.txs = << >> /\ Len(<< >>) = 0 /\ Len(<< >>) \in Nat /\ 1 .. 0 = {}
    BY DEF Genesis
  <2> QED BY <2>1, GenesisAccounts, ApplyBlockType DEF Init
<1>2. mempool \in Seq(Payment) /\ accepted = {} /\ \A c \in Client : req[c].at = "idle"
  BY DEF Init, Idle
<1>3. 0 \in 0 .. MaxHeight /\ 0 \in 0 .. MaxGossip /\ 0 \in 0 .. MaxRequests
  BY RpcAssumption
<1>4. height = 0 /\ gossiped = 0 /\ requests = 0  BY DEF Init
<1> QED BY <1>1, <1>2, <1>3, <1>4 DEF AccountsInv, Carrying

(* All three invariants together. *)
RpcInv == RequestsOK /\ SharedOK /\ AccountsInv

(* It is inductive.                                                        *)
LEMMA RpcInvariant == Spec => []RpcInv
<1>1. Init => RpcInv  BY Starts, AccountsStart DEF RpcInv
<1>2. RpcInv /\ [Next]_vars => RpcInv'
  BY RequestsStep, SharedStep, AccountsStep DEF RpcInv
<1> QED BY <1>1, <1>2, PTL DEF Spec

(***************************************************************************)
(* RpcTypes: for any requests, blocks and gossip, what waits and what is   *)
(* carried are payments, and balances stay u64 values.                     *)
(***************************************************************************)
THEOREM RpcTypes == Spec => []TypeOK
<1>1. ASSUME RpcInv PROVE TypeOK
  <2>1. ws.accounts \in [Addr -> [balance : 0 .. U64 - 1, nonce : Nat]]
    BY <1>1 DEF RpcInv, AccountsInv, WorldStates, Account
  <2>2. \A i \in DOMAIN mempool : mempool[i] \in Payment
    BY <1>1, LenProperties, ElementOfSeq DEF RpcInv, AccountsInv
  <2>3. ASSUME NEW c \in Client
        PROVE  \/ req[c] = Idle
               \/ req[c] \in [at : {"nonce"}, for : SUBSET Text]
               \/ req[c] \in [at : {"mark", "lookup", "push", "answer"}, for : SUBSET Text, tx : Payment]
    <3> DEFINE r == req[c]
    <3>0. IsRequest(r)  BY <1>1 DEF RpcInv, RequestsOK
    <3>1. r.at \in Carrying => r.tx \in Payment
      BY <1>1 DEF RpcInv, AccountsInv, Timely
    <3> HIDE DEF r
    <3>2. ASSUME NEW at \in Carrying, NEW for \in SUBSET Text, NEW tx, r = With(at, for, tx)
          PROVE  r \in [at : {"mark", "lookup", "push", "answer"}, for : SUBSET Text, tx : Payment]
      BY <3>1, <3>2 DEF With, Carrying
    <3>3. CASE \E text \in Text : r = [at |-> "nonce", for |-> {text}]
      BY <3>3 DEF r
    <3>4. CASE \E text \in Text : \E tx : r = With("mark", {text}, tx) /\ tx.from = Faucet
      BY <3>2, <3>4 DEF r, Carrying
    <3>5. CASE \E tx \in Submissions : r = With("lookup", {}, tx)
      BY <3>2, <3>5 DEF r, Carrying
    <3>6. CASE \E for \in SUBSET Text : \E tx : r = With("push", for, tx)
      BY <3>2, <3>6 DEF r, Carrying
    <3>7. CASE \E tx : r = With("answer", {}, tx)
      BY <3>2, <3>7 DEF r, Carrying
    <3> QED BY <3>0, <3>3, <3>4, <3>5, <3>6, <3>7 DEF IsRequest, r
  <2>4. faucet_last \in [Text -> SUBSET (0 .. MaxTime)] /\ clock \in 0 .. MaxTime
    BY <1>1 DEF RpcInv, SharedOK
  <2>5. height \in 0 .. MaxHeight /\ gossiped \in 0 .. MaxGossip /\ requests \in 0 .. MaxRequests
    BY <1>1 DEF RpcInv, AccountsInv
  <2> QED BY <2>1, <2>2, <2>3, <2>4, <2>5 DEF TypeOK
<1> QED BY <1>1, RpcInvariant, PTL

(***************************************************************************)
(* NothingWaitsAhead: whatever blocks arrive between the check of a nonce  *)
(* and the push, nothing a client was told is accepted waits for a nonce   *)
(* nobody has sent.                                                        *)
(***************************************************************************)
THEOREM NothingWaitsAhead == Spec => []NoFutureNonces
<1>1. RpcInv => NoFutureNonces  BY DEF RpcInv, AccountsInv, Timely, NoFutureNonces
<1> QED BY <1>1, RpcInvariant, PTL
=============================================================================
