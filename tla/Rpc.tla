-------------------------------- MODULE Rpc --------------------------------
(***************************************************************************)
(* The two handlers of the RPC server that change state, post_faucet and   *)
(* post_send_tx (rpc/mod.rs), at the grain of their critical sections, on  *)
(* the state of one node they share with its other tasks.  Between two     *)
(* sections other requests run, messages and blocks arrive, a block is     *)
(* made, time passes, and the future of the request may be dropped because *)
(* its client hung up.                                                     *)
(***************************************************************************)
EXTENDS WorldState, FiniteSets

CONSTANTS
  Client,         \* the requests served at a time
  Text,           \* what a client may write for an address
  AccountOf,      \* AccountOf[text]: its address; a text without is invalid
  Submissions,    \* the transactions clients submit
  Forged,         \* those whose signature does not verify
  Gossip,         \* the transactions peers send and include
  FaucetAmount,   \* FAUCET_AMOUNT (100)
  Cooldown,       \* FAUCET_COOLDOWN_SECS (86400)
  BlockTxLimit,   \* transactions taken into a block (100)
  MaxRequests,    \* bound on the requests that pass the first section
  MaxTime,        \* bound on the clock
  MaxHeight,      \* bound on the blocks
  MaxGossip       \* bound on the transactions from peers

(* A Transaction: its accounts, its two u64 amounts and its nonce. *)
Payment == [from : Addr, to : Addr, amount : 0 .. U64 - 1, fee : 0 .. U64 - 1, nonce : Nat]

ASSUME RpcAssumption ==
  /\ DOMAIN AccountOf \subseteq Text
  /\ \A text \in DOMAIN AccountOf : AccountOf[text] \in Addr
  /\ IsFiniteSet(Client)
  /\ Forged \subseteq Submissions
  /\ Submissions \cup Gossip \subseteq Tx \cap Payment
  /\ \A tx \in Submissions : tx.from # Faucet
  /\ FaucetAmount \in Nat /\ FaucetAmount + 1 < U64
  /\ Cooldown \in 1 .. U64 - 1 /\ MaxTime \in 0 .. U64 - 1
  /\ {BlockTxLimit, MaxRequests, MaxHeight, MaxGossip} \subseteq Nat

VARIABLES
  ws,            \* accounts of the world state
  faucet_last,   \* faucet_last[text]: {the time of its last grant}, or {}
  mempool,       \* transactions waiting for a block
  req,           \* req[c]: where the request of c is, and what it carries
  clock,         \* seconds of the system clock
  height,        \* height of the chain
  gossiped,      \* how many transactions peers have sent
  requests,      \* how many requests have passed the first section
  marks,         \* history: marks[text]: the times of its grants in this run
  paid,          \* history: paid[text]: its payments pushed in this run
  accepted,      \* history: what clients of this run were told is accepted
  included,      \* history: what the node has put into blocks
  overflowed,    \* history: a block found more than it takes in the mempool
  setBack        \* history: the clock was set back

requestVars == <<req, requests>>
faucetVars  == <<faucet_last, marks, paid>>
chainVars   == <<ws, height, included, overflowed>>
timeVars    == <<clock, setBack>>

vars == <<requestVars, faucetVars, chainVars, timeVars, mempool, gossiped, accepted>>

-----------------------------------------------------------------------------
Idle == [at |-> "idle"]

Balance(a) == ws.accounts[a].balance
Nonce(a)   == ws.accounts[a].nonce

InMempool(tx) == \E i \in DOMAIN mempool : mempool[i] = tx
Copies(tx)    == Cardinality({i \in DOMAIN mempool : mempool[i] = tx})

(* The faucet's payment.  The time in a transaction is left out; it tells  *)
(* payments of the faucet from what clients submit.                        *)
FaucetTx(text, nonce) ==
  [from |-> Faucet, to |-> AccountOf[text], amount |-> FaucetAmount, fee |-> 1, nonce |-> nonce]

(* Mutant: the clock is subtracted from the time of the last grant. *)
CanFaucetSwapped(text) == \A last \in faucet_last[text] : (last - clock) % U64 >= Cooldown

(* now - last, on u64. *)
CanFaucet(text) == \A last \in faucet_last[text] : (clock - last) % U64 >= Cooldown

-----------------------------------------------------------------------------
(* Requests *)

(* The handler of c goes on to another section, or is done. *)
Goto(c, r) == req' = [req EXCEPT ![c] = r]

(* A request with the text it marks, if any, and its transaction. *)
With(at, for, tx) == [at |-> at, for |-> for, tx |-> tx]

(* The first section of a handler; a request refused there changes nothing. *)
Arrive(c, r) ==
  /\ req[c] = Idle
  /\ requests < MaxRequests
  /\ requests' = requests + 1
  /\ Goto(c, r)

(* post_faucet: the cooldown of the text as it stands, and its decoding, *)
FaucetCheck(c, text) ==
  /\ CanFaucet(text) /\ text \in DOMAIN AccountOf
  /\ Arrive(c, [at |-> "nonce", for |-> {text}])
  /\ UNCHANGED <<faucetVars, chainVars, timeVars, mempool, gossiped, accepted>>

(* the nonce of the faucet's account, *)
FaucetNonce(c) ==
  /\ req[c].at = "nonce"
  /\ \E text \in req[c].for :
       Goto(c, With("mark", {text}, FaucetTx(text, Nonce(Faucet) + 1)))
  /\ UNCHANGED <<requests, faucetVars, chainVars, timeVars, mempool, gossiped, accepted>>

(* Mutant: only the first grant is remembered. *)
FaucetMarkOnce(c) ==
  /\ req[c].at = "mark"
  /\ \E text \in req[c].for :
       IF faucet_last[text] = {}
       THEN /\ faucet_last' = [faucet_last EXCEPT ![text] = {clock}]
            /\ marks' = [marks EXCEPT ![text] = Append(@, clock)]
       ELSE UNCHANGED <<faucet_last, marks>>
  /\ Goto(c, With("push", req[c].for, req[c].tx))
  /\ UNCHANGED <<requests, paid, chainVars, timeVars, mempool, gossiped, accepted>>

(* mark_faucet, *)
FaucetMark(c) ==
  /\ req[c].at = "mark"
  /\ \E text \in req[c].for :
       /\ faucet_last' = [faucet_last EXCEPT ![text] = {clock}]
       /\ marks' = [marks EXCEPT ![text] = Append(@, clock)]
  /\ Goto(c, With("push", req[c].for, req[c].tx))
  /\ UNCHANGED <<requests, paid, chainVars, timeVars, mempool, gossiped, accepted>>

(* Mutant: a nonce ahead of the account's will do. *)
SendCheckAhead(c, tx) ==
  /\ Balance(tx.from) >= Cost(tx) /\ tx.nonce > Nonce(tx.from) /\ tx \notin Forged
  /\ Arrive(c, With("lookup", {}, tx))
  /\ UNCHANGED <<faucetVars, chainVars, timeVars, mempool, gossiped, accepted>>

(* post_send_tx: balance and nonce of the sender, and the signature, *)
SendCheck(c, tx) ==
  /\ Balance(tx.from) >= Cost(tx) /\ tx.nonce = Nonce(tx.from) + 1 /\ tx \notin Forged
  /\ Arrive(c, With("lookup", {}, tx))
  /\ UNCHANGED <<faucetVars, chainVars, timeVars, mempool, gossiped, accepted>>

(* Mutant: only the latest transaction is compared. *)
SendLookupLast(c) ==
  /\ req[c].at = "lookup"
  /\ Goto(c, IF mempool # << >> /\ mempool[Len(mempool)] = req[c].tx
             THEN Idle ELSE With("push", {}, req[c].tx))
  /\ UNCHANGED <<requests, faucetVars, chainVars, timeVars, mempool, gossiped, accepted>>

(* the search for the same transaction in the mempool, *)
SendLookup(c) ==
  /\ req[c].at = "lookup"
  /\ Goto(c, IF InMempool(req[c].tx) THEN Idle ELSE With("push", {}, req[c].tx))
  /\ UNCHANGED <<requests, faucetVars, chainVars, timeVars, mempool, gossiped, accepted>>

(* and, in both handlers, the push *)
Push(c) ==
  /\ req[c].at = "push"
  /\ mempool' = Append(mempool, req[c].tx)
  /\ paid' = [text \in Text |-> IF text \in req[c].for THEN paid[text] + 1 ELSE paid[text]]
  /\ Goto(c, With("answer", {}, req[c].tx))
  /\ UNCHANGED <<requests, faucet_last, marks, chainVars, timeVars, gossiped, accepted>>

(* and the answer, once the transaction is in the channel to the peers. *)
Answer(c) ==
  /\ req[c].at = "answer"
  /\ accepted' = accepted \cup {req[c].tx}
  /\ Goto(c, Idle)
  /\ UNCHANGED <<requests, faucetVars, chainVars, timeVars, mempool, gossiped>>

(* The client hangs up; hyper drops the future where it is. *)
HangUp(c) ==
  /\ req[c] # Idle
  /\ Goto(c, Idle)
  /\ UNCHANGED <<requests, faucetVars, chainVars, timeVars, mempool, gossiped, accepted>>

-----------------------------------------------------------------------------
(* The node's other tasks *)

OnNewTransaction(tx) ==
  /\ gossiped < MaxGossip
  /\ gossiped' = gossiped + 1
  /\ mempool' = Append(mempool, tx)
  /\ UNCHANGED <<requestVars, faucetVars, chainVars, timeVars, accepted>>

(* Mutant: a block takes one transaction less. *)
TakenLess == SubSeq(mempool, 1, IF Len(mempool) < BlockTxLimit THEN Len(mempool) ELSE BlockTxLimit - 1)

(* mempool.drain(..).take(100): what is beyond the limit is dropped too. *)
Taken == SubSeq(mempool, 1, IF Len(mempool) < BlockTxLimit THEN Len(mempool) ELSE BlockTxLimit)

(* A block is applied, made by this node or by a peer. *)
Extend(txs) ==
  /\ height < MaxHeight
  /\ height' = height + 1
  /\ ws' = ApplyBlock(ws, [height |-> height + 1, txs |-> txs])

Produce ==
  /\ Extend(Taken)
  /\ mempool' = << >>
  /\ included' = included \cup Range(Taken)
  /\ overflowed' = (overflowed \/ Len(mempool) > BlockTxLimit)
  /\ UNCHANGED <<requestVars, faucetVars, timeVars, gossiped, accepted>>

(* A block of a peer leaves the mempool as it is. *)
OnNewBlock(tx) ==
  /\ Extend(<<tx>>)
  /\ UNCHANGED <<requestVars, faucetVars, timeVars, mempool, gossiped, accepted, included, overflowed>>

(* The process ends and starts again: the accounts are computed from the   *)
(* stored blocks (VelaNode has what a crash can lose of them), all else    *)
(* was in memory.                                                          *)
Restart ==
  /\ req' = [c \in Client |-> Idle]
  /\ mempool' = << >>
  /\ faucet_last' = [text \in Text |-> {}]
  /\ marks' = [text \in Text |-> << >>]
  /\ paid' = [text \in Text |-> 0]
  /\ accepted' = {}
  /\ UNCHANGED <<chainVars, timeVars, requests, gossiped>>

Tick ==
  /\ clock < MaxTime
  /\ clock' = clock + 1
  /\ UNCHANGED <<requestVars, faucetVars, chainVars, setBack, mempool, gossiped, accepted>>

SetBack ==
  /\ clock > 0
  /\ clock' = clock - 1
  /\ setBack' = TRUE
  /\ UNCHANGED <<requestVars, faucetVars, chainVars, mempool, gossiped, accepted>>

-----------------------------------------------------------------------------
Init ==
  /\ ws = ApplyBlock(NewWorldState, Genesis)
  /\ faucet_last = [text \in Text |-> {}]
  /\ mempool = << >>
  /\ req = [c \in Client |-> Idle]
  /\ clock = 0 /\ height = 0 /\ gossiped = 0 /\ requests = 0
  /\ marks = [text \in Text |-> << >>]
  /\ paid = [text \in Text |-> 0]
  /\ accepted = {} /\ included = {}
  /\ overflowed = FALSE /\ setBack = FALSE

Request(c) ==
  \/ \E text \in Text : FaucetCheck(c, text)
  \/ FaucetNonce(c)
  \/ FaucetMark(c)
  \/ \E tx \in Submissions : SendCheck(c, tx)
  \/ SendLookup(c)
  \/ Push(c)
  \/ Answer(c)
  \/ HangUp(c)

Next ==
  \/ \E c \in Client : Request(c)
  \/ \E tx \in Gossip : OnNewTransaction(tx)
  \/ \E tx \in Gossip \cup accepted : OnNewBlock(tx)
  \/ Produce
  \/ Restart
  \/ Tick
  \/ SetBack

Spec == Init /\ [][Next]_vars

-----------------------------------------------------------------------------
(* Properties *)

(* Type invariant. *)
TypeOK ==
  /\ ws.accounts \in [Addr -> [balance : 0 .. U64 - 1, nonce : Nat]]
  /\ faucet_last \in [Text -> SUBSET (0 .. MaxTime)]
  /\ \A i \in DOMAIN mempool : mempool[i] \in Payment
  /\ \A c \in Client :
       \/ req[c] = Idle
       \/ req[c] \in [at : {"nonce"}, for : SUBSET Text]
       \/ req[c] \in [at : {"mark", "lookup", "push", "answer"}, for : SUBSET Text, tx : Payment]
  /\ <<clock, height, gossiped, requests>>
       \in (0 .. MaxTime) \X (0 .. MaxHeight) \X (0 .. MaxGossip) \X (0 .. MaxRequests)

(***************************************************************************)
(* GrantsAreSpaced: requests that check a cooldown together can all pass,  *)
(* but no more than are served at a time: of the grants a text gets from   *)
(* one run of the process, with a clock that is not set back, any one and  *)
(* the one |Client| grants later are a cooldown apart.                     *)
(***************************************************************************)
GrantsAreSpaced ==
  ~setBack =>
    \A text \in Text : \A i \in DOMAIN marks[text] :
      i > Cardinality(Client) => marks[text][i] - marks[text][i - Cardinality(Client)] >= Cooldown

(***************************************************************************)
(* PaymentsAreMarked: wherever requests are dropped, the faucet never pays *)
(* without having started a cooldown for that payment (the converse fails: *)
(* a request dropped after mark_faucet leaves a cooldown and no payment).  *)
(***************************************************************************)
PaymentsAreMarked == \A text \in Text : paid[text] <= Len(marks[text])

(***************************************************************************)
(* CopiesBounded: the search for a duplicate and the push are separate, so *)
(* one transaction can be in the mempool more than once, but no more often *)
(* than requests are served at a time, if peers do not send it.            *)
(***************************************************************************)
CopiesBounded ==
  \A tx \in Submissions \ Gossip : Copies(tx) <= Cardinality(Client)

(***************************************************************************)
(* NoFutureNonces: what clients were told is accepted and still waits is   *)
(* next in the order of its sender or late, whatever blocks arrived since  *)
(* its nonce was checked: nothing waits for a nonce nobody has sent.       *)
(***************************************************************************)
NoFutureNonces ==
  \A tx \in accepted : InMempool(tx) => tx.nonce <= Nonce(tx.from) + 1

(***************************************************************************)
(* NothingLost: what a client was told is accepted stays in the mempool    *)
(* until this node puts it into a block, unless the process ends or a      *)
(* block finds more transactions than it takes.                            *)
(***************************************************************************)
NothingLost ==
  ~overflowed => \A tx \in accepted : InMempool(tx) \/ tx \in included
=============================================================================
