-------------------------- MODULE NodeTasksProofs --------------------------
(***************************************************************************)
(* Theorems about NodeTasks, for any number of requests served at a time,  *)
(* any size of the channels and SyncResponses of any length.               *)
(***************************************************************************)
EXTENDS NodeTasks, SequenceTheorems, TLAPS

-----------------------------------------------------------------------------
(* The discipline of the awaits *)

(* Locks are taken from higher ranks to lower ones. *)
Rank(l) ==
  CASE l = "blocks"      -> 3
    [] l = "mempool"     -> 2
    [] l = "world_state" -> 1
    [] OTHER             -> 0

(* The one channel a task sends to. *)
Outlet(t) ==
  CASE t \in {"handler", "producer", "sync", "txs"} -> "out"
    [] t = "p2p" -> "in"
    [] OTHER     -> "broadcast"

(* The awaits t may have ahead of it: a lock is taken below all that are   *)
(* held; a channel is sent to without a guard, but by the handler; p2p     *)
(* takes no lock but peer_count, which no one holds at an await.           *)
AwaitOf(t) ==
  {a \in Await :
     /\ \A g \in a.holding : Rank(g.lock) > 0
     /\ a.kind = "take" =>
          /\ \A g \in a.holding : Rank(a.guard.lock) < Rank(g.lock)
          /\ t = "p2p" => a.guard.lock = "peer_count"
          /\ t # "txs"
     /\ a.kind = "send" => a.chan = Outlet(t) /\ (t = "handler" \/ a.holding = {})}

LEMMA TakeFits ==
  ASSUME NEW t \in Task \ {"p2p", "txs"}, NEW g \in Guard, NEW holding \in SUBSET Guard,
         \A h \in holding : Rank(g.lock) < Rank(h.lock)
  PROVE  Take(g, holding) \in AwaitOf(t)
<1>1. Take(g, holding) \in Await
  BY DEF Take, Await
<1>2. \A h \in holding : Rank(g.lock) >= 0 /\ Rank(h.lock) > 0
  BY DEF Rank
<1> QED BY <1>1, <1>2 DEF Take, AwaitOf

LEMMA SendFits ==
  ASSUME NEW t \in Task, NEW holding \in SUBSET Guard,
         t = "handler" \/ holding = {}, \A h \in holding : Rank(h.lock) > 0
  PROVE  Send(Outlet(t), holding) \in AwaitOf(t)
<1>1. Send(Outlet(t), holding) \in Await
  BY DEF Send, Await, Channel, Outlet
<1> QED BY <1>1 DEF Send, AwaitOf

LEMMA GuardType ==
  ASSUME NEW l \in Lock
  PROVE  R(l) \in Guard /\ W(l) \in Guard /\ R(l).lock = l /\ W(l).lock = l
BY DEF R, W, Guard

LEMMA Ranks ==
  /\ {"blocks", "mempool", "world_state", "hotstuff", "peer_count", "current_round"} = Lock
  /\ Rank("blocks") = 3 /\ Rank("mempool") = 2 /\ Rank("world_state") = 1
  /\ Rank("hotstuff") = 0 /\ Rank("peer_count") = 0 /\ Rank("current_round") = 0
BY DEF Rank, Lock

(* What a job of t looks like. *)
Fits(t, from, job) == job.from = from /\ job.awaits \in Seq(AwaitOf(t))

LEMMA JobFits ==
  ASSUME NEW t, NEW from, NEW awaits \in Seq(AwaitOf(t))
  PROVE  Fits(t, from, Job(from, awaits))
BY DEF Fits, Job

LEMMA HandlerFits == \A job \in HandlerJobs : Fits("handler", {"in"}, job)
<1>1. "handler" \in Task \ {"p2p", "txs"} /\ Outlet("handler") = "out" /\ "in" \in Channel
  BY DEF Task, Outlet, Channel
<1>2. \A l \in Lock : /\ Take(R(l), {}) \in AwaitOf("handler")
                      /\ Take(W(l), {}) \in AwaitOf("handler")
  BY <1>1, GuardType, TakeFits
<1>3. /\ Take(W("world_state"), {W("blocks")}) \in AwaitOf("handler")
      /\ Take(R("hotstuff"), {W("blocks")}) \in AwaitOf("handler")
  BY <1>1, GuardType, Ranks, TakeFits
<1>4. /\ Send("out", {}) \in AwaitOf("handler")
      /\ Send("out", {W("blocks")}) \in AwaitOf("handler")
      /\ Send("out", {R("blocks")}) \in AwaitOf("handler")
  BY <1>1, GuardType, Ranks, SendFits
<1>5. \A job \in OnNewBlock : Fits("handler", {"in"}, job)
  <2>1. /\ <<Take(W("blocks"), {}),
             Take(W("world_state"), {W("blocks")}),
             Take(R("hotstuff"), {W("blocks")}),
             Send("out", {W("blocks")})>> \in Seq(AwaitOf("handler"))
        /\ <<Take(W("blocks"), {})>> \in Seq(AwaitOf("handler"))
    BY <1>2, <1>3, <1>4, Ranks
  <2> QED BY <2>1, JobFits DEF OnNewBlock
<1>6. \A job \in OnNewTransaction \cup OnConsensusVote \cup OnConsensusPropose \cup OnSyncRequest :
        Fits("handler", {"in"}, job)
  <2>1. /\ <<Take(W("mempool"), {})>> \in Seq(AwaitOf("handler"))
        /\ <<Take(W("hotstuff"), {})>> \in Seq(AwaitOf("handler"))
        /\ <<Take(R("blocks"), {})>> \in Seq(AwaitOf("handler"))
        /\ <<Take(W("hotstuff"), {}), Send("out", {})>> \in Seq(AwaitOf("handler"))
        /\ <<Take(W("hotstuff"), {}), Take(R("hotstuff"), {}), Send("out", {})>>
             \in Seq(AwaitOf("handler"))
        /\ <<Take(R("blocks"), {}), Send("out", {R("blocks")})>> \in Seq(AwaitOf("handler"))
    BY <1>2, <1>4, Ranks
  <2>2. \A job \in OnNewTransaction : Fits("handler", {"in"}, job)
    BY <2>1, JobFits DEF OnNewTransaction
  <2>3. \A job \in OnConsensusVote : Fits("handler", {"in"}, job)
    BY <2>1, JobFits DEF OnConsensusVote
  <2>4. \A job \in OnConsensusPropose : Fits("handler", {"in"}, job)
    BY <2>1, JobFits DEF OnConsensusPropose
  <2>5. \A job \in OnSyncRequest : Fits("handler", {"in"}, job)
    BY <2>1, JobFits DEF OnSyncRequest
  <2> QED BY <2>2, <2>3, <2>4, <2>5
<1>7. \A job \in OnSyncResponse : Fits("handler", {"in"}, job)
  <2> TAKE job \in OnSyncResponse
  <2>0. PICK k \in Batches :
          job = Job({"in"}, <<Take(W("blocks"), {})>>
                              \o [i \in 1 .. k |-> Take(W("world_state"), {W("blocks")})])
    BY DEF OnSyncResponse
  <2>1. [i \in 1 .. k |-> Take(W("world_state"), {W("blocks")})] \in Seq(AwaitOf("handler"))
    BY <1>3, NodeTasksAssumption
  <2>2. <<Take(W("blocks"), {})>> \in Seq(AwaitOf("handler"))
    BY <1>2, Ranks
  <2>3. <<Take(W("blocks"), {})>> \o [i \in 1 .. k |-> Take(W("world_state"), {W("blocks")})]
          \in Seq(AwaitOf("handler"))
    BY <2>1, <2>2, ConcatProperties
  <2> QED BY <2>0, <2>3, JobFits
<1> QED BY <1>1, <1>5, <1>6, <1>7 DEF HandlerJobs, Fits

LEMMA MainFits ==
  /\ StartProducer \in Seq(AwaitOf("producer"))
  /\ \A job \in Produce : Fits("producer", {}, job)
  /\ StartupSync \in Seq(AwaitOf("sync"))
<1>1. /\ "producer" \in Task \ {"p2p", "txs"} /\ Outlet("producer") = "out"
      /\ "sync" \in Task \ {"p2p", "txs"} /\ Outlet("sync") = "out"
  BY DEF Task, Outlet
<1>2. /\ Take(R("blocks"), {}) \in AwaitOf("producer")
      /\ Take(W("blocks"), {}) \in AwaitOf("producer")
      /\ Send("out", {}) \in AwaitOf("producer")
  BY <1>1, GuardType, Ranks, TakeFits, SendFits
<1>3. /\ Take(W("mempool"), {W("blocks")}) \in AwaitOf("producer")
      /\ Take(W("world_state"), {W("blocks"), W("mempool")}) \in AwaitOf("producer")
  BY <1>1, GuardType, Ranks, TakeFits
<1>4. Take(R("blocks"), {}) \in AwaitOf("sync") /\ Send("out", {}) \in AwaitOf("sync")
  BY <1>1, GuardType, Ranks, TakeFits, SendFits
<1>5. \A job \in Produce : Fits("producer", {}, job)
  <2>1. <<Take(W("blocks"), {}),
          Take(W("mempool"), {W("blocks")}),
          Take(W("world_state"), {W("blocks"), W("mempool")}),
          Send("out", {}),
          Send("out", {})>> \in Seq(AwaitOf("producer"))
    BY <1>2, <1>3
  <2> QED BY <2>1, JobFits DEF Produce
<1> QED BY <1>2, <1>4, <1>5 DEF StartProducer, StartupSync, Fits

LEMMA NetworkFits ==
  /\ \A job \in BroadcastTx : Fits("txs", {"broadcast"}, job)
  /\ \A job \in P2PRun : Fits("p2p", {"out"}, job) \/ Fits("p2p", {}, job)
<1>1. "txs" \in Task /\ Outlet("txs") = "out" /\ "p2p" \in Task /\ Outlet("p2p") = "in"
  BY DEF Task, Outlet
<1>2. Send("out", {}) \in AwaitOf("txs") /\ Send("in", {}) \in AwaitOf("p2p")
  BY <1>1, SendFits
<1>3. Take(W("peer_count"), {}) \in AwaitOf("p2p")
  <2>1. Take(W("peer_count"), {}) \in Await
    BY GuardType, Ranks DEF Take, Await
  <2> QED BY <2>1, GuardType, Ranks DEF Take, AwaitOf
<1>4. << >> \in Seq(AwaitOf("p2p"))
  OBVIOUS
<1> QED BY <1>2, <1>3, <1>4 DEF BroadcastTx, P2PRun, Job, Fits, Channel

LEMMA RequestFits ==
  ASSUME NEW t \in Request
  PROVE  \A job \in RequestJobs : Fits(t, {}, job)
<1>1. t \in Task \ {"p2p", "txs"} /\ Outlet(t) = "broadcast" /\ t # "handler"
  BY NodeTasksAssumption DEF Task, Outlet
<1>2. \A l \in Lock : Take(R(l), {}) \in AwaitOf(t) /\ Take(W(l), {}) \in AwaitOf(t)
  BY <1>1, GuardType, TakeFits
<1>3. /\ Take(R("mempool"), {R("blocks")}) \in AwaitOf(t)
      /\ Take(R("world_state"), {R("blocks"), R("mempool")}) \in AwaitOf(t)
      /\ Take(R("current_round"), {R("blocks"), R("mempool"), R("world_state")}) \in AwaitOf(t)
  BY <1>1, GuardType, Ranks, TakeFits
<1>4. Send("broadcast", {}) \in AwaitOf(t)
  BY <1>1, SendFits
<1>5. \A job \in GetStatus : Fits(t, {}, job)
  <2>1. <<Take(R("peer_count"), {}),
          Take(R("blocks"), {}),
          Take(R("mempool"), {R("blocks")}),
          Take(R("world_state"), {R("blocks"), R("mempool")}),
          Take(R("current_round"), {R("blocks"), R("mempool"), R("world_state")})>> \in Seq(AwaitOf(t))
    BY <1>2, <1>3, Ranks
  <2> QED BY <2>1, JobFits DEF GetStatus
<1>6. \A job \in PostFaucet \cup PostSendTx : Fits(t, {}, job)
  <2>1. /\ <<Take(R("world_state"), {}),
             Take(R("world_state"), {}),
             Take(W("world_state"), {}),
             Take(W("mempool"), {}),
             Send("broadcast", {})>> \in Seq(AwaitOf(t))
        /\ <<Take(R("world_state"), {}),
             Take(R("mempool"), {}),
             Take(W("mempool"), {}),
             Send("broadcast", {})>> \in Seq(AwaitOf(t))
        /\ <<Take(R("world_state"), {})>> \in Seq(AwaitOf(t))
        /\ <<Take(R("world_state"), {}), Take(R("mempool"), {})>> \in Seq(AwaitOf(t))
    BY <1>2, <1>4, Ranks
  <2>2. \A job \in PostFaucet : Fits(t, {}, job)
    BY <2>1, JobFits DEF PostFaucet
  <2>3. \A job \in PostSendTx : Fits(t, {}, job)
    BY <2>1, JobFits DEF PostSendTx
  <2> QED BY <2>2, <2>3
<1>7. \A job \in GetBlock \cup GetTransactions \cup GetTx \cup GetBalance \cup GetValidators :
        Fits(t, {}, job)
  <2>1. \A l \in Lock : <<Take(R(l), {})>> \in Seq(AwaitOf(t))
    BY <1>2
  <2>2. {"blocks", "world_state", "current_round"} \subseteq Lock
    BY Ranks
  <2>3. \A job \in GetBlock : Fits(t, {}, job)
    BY <2>1, <2>2, JobFits DEF GetBlock
  <2>4. \A job \in GetBalance : Fits(t, {}, job)
    BY <2>1, <2>2, JobFits DEF GetBalance
  <2>5. \A job \in GetValidators : Fits(t, {}, job)
    BY <2>1, <2>2, JobFits DEF GetValidators
  <2>6. GetTransactions = GetBlock /\ GetTx = GetBlock
    BY DEF GetBlock, GetTransactions, GetTx
  <2> QED BY <2>3, <2>4, <2>5, <2>6
<1> QED BY <1>5, <1>6, <1>7 DEF RequestJobs, Fits

(* Every task keeps the discipline in all it ever does. *)
LEMMA ProgramsFit ==
  ASSUME NEW t \in Task
  PROVE  /\ FirstOf(t) \in Seq(AwaitOf(t))
         /\ \A job \in LoopOf(t) : job.awaits \in Seq(AwaitOf(t)) /\ job.from \subseteq Channel
<1>1. << >> \in Seq(AwaitOf(t)) /\ {"in", "out", "broadcast"} = Channel
  BY DEF Channel
<1>2. CASE t = "handler"
  BY <1>1, <1>2, HandlerFits DEF FirstOf, LoopOf, Fits
<1>3. CASE t = "producer"
  BY <1>3, MainFits DEF FirstOf, LoopOf, Fits
<1>4. CASE t = "sync"
  BY <1>4, MainFits DEF FirstOf, LoopOf, Fits
<1>5. CASE t = "txs"
  BY <1>1, <1>5, NetworkFits DEF FirstOf, LoopOf, Fits
<1>6. CASE t = "p2p"
  BY <1>1, <1>6, NetworkFits DEF FirstOf, LoopOf, Fits
<1>7. CASE t \in Request
  <2>1. t \notin {"handler", "producer", "sync", "txs", "p2p"}
    BY <1>7, NodeTasksAssumption
  <2> QED BY <1>1, <1>7, <2>1, RequestFits DEF FirstOf, LoopOf, Fits
<1> QED BY <1>2, <1>3, <1>4, <1>5, <1>6, <1>7 DEF Task

-----------------------------------------------------------------------------
(* The inductive invariant *)

Distinct(q) == \A i, j \in DOMAIN q : q[i] = q[j] => i = j

(* Who stands in the queue of a lock waits for it, and stands there once. *)
InLine(t, l)  == Taking(t) /\ Wanted(t).lock = l
QueueKept(l)  == Distinct(queue[l]) /\ \A i \in DOMAIN queue[l] : InLine(queue[l][i], l)

TaskInv ==
  /\ TypeOK
  /\ \A t \in Task : todo[t] \in Seq(AwaitOf(t))
  /\ \A l \in Lock : QueueKept(l)

LEMMA AwaitOfIsAwait == \A t : AwaitOf(t) \subseteq Await
BY DEF AwaitOf

LEMMA TailKeeps ==
  ASSUME NEW S, NEW q \in Seq(S), q # << >>, Distinct(q)
  PROVE  /\ Tail(q) \in Seq(S)
         /\ Distinct(Tail(q))
         /\ \A j \in DOMAIN Tail(q) : Tail(q)[j] # Head(q) /\ \E k \in DOMAIN q : Tail(q)[j] = q[k]
BY HeadTailProperties DEF Distinct

LEMMA RemoveAtKeeps ==
  ASSUME NEW S, NEW q \in Seq(S), Distinct(q), NEW i \in DOMAIN q
  PROVE  /\ RemoveAt(q, i) \in Seq(S)
         /\ Distinct(RemoveAt(q, i))
         /\ \A j \in DOMAIN RemoveAt(q, i) :
              RemoveAt(q, i)[j] # q[i] /\ \E k \in DOMAIN q : RemoveAt(q, i)[j] = q[k]
<1> DEFINE a == SubSeq(q, 1, i - 1)
           b == SubSeq(q, i + 1, Len(q))
           at(j) == IF j < i THEN j ELSE j + 1
<1>1. i \in 1 .. Len(q) /\ Len(q) \in Nat /\ DOMAIN q = 1 .. Len(q)
  OBVIOUS
<1>2. a \in Seq(S) /\ Len(a) = i - 1 /\ \A j \in 1 .. i - 1 : a[j] = q[j]
  BY <1>1, SubSeqProperties
<1>3. b \in Seq(S) /\ Len(b) = Len(q) - i /\ \A j \in 1 .. Len(q) - i : b[j] = q[i + j]
  BY <1>1, SubSeqProperties
<1>4. RemoveAt(q, i) = a \o b
  BY DEF RemoveAt
<1> HIDE DEF a, b
<1>5. /\ RemoveAt(q, i) \in Seq(S)
      /\ DOMAIN RemoveAt(q, i) = 1 .. Len(q) - 1
      /\ \A j \in 1 .. Len(q) - 1 : RemoveAt(q, i)[j] = IF j <= i - 1 THEN a[j] ELSE b[j - (i - 1)]
  <2>1. /\ a \o b \in Seq(S)
        /\ Len(a \o b) = Len(a) + Len(b)
        /\ \A j \in 1 .. Len(a) + Len(b) :
             (a \o b)[j] = IF j <= Len(a) THEN a[j] ELSE b[j - Len(a)]
    BY <1>2, <1>3, ConcatProperties, Zenon
  <2>2. Len(a) = i - 1 /\ Len(a) + Len(b) = Len(q) - 1
    BY <1>1, <1>2, <1>3
  <2>3. DOMAIN (a \o b) = 1 .. Len(a \o b)
    BY <2>1, LenProperties
  <2> QED BY <1>4, <2>1, <2>2, <2>3
<1>6. \A j \in 1 .. Len(q) - 1 :
        /\ at(j) \in DOMAIN q /\ at(j) # i
        /\ RemoveAt(q, i)[j] = q[at(j)]
  <2> SUFFICES ASSUME NEW j \in 1 .. Len(q) - 1
               PROVE  at(j) \in DOMAIN q /\ at(j) # i /\ RemoveAt(q, i)[j] = q[at(j)]
    OBVIOUS
  <2>1. CASE j <= i - 1
    BY <1>1, <1>2, <1>5, <2>1
  <2>2. CASE j > i - 1
    <3>1. j - (i - 1) \in 1 .. Len(q) - i /\ i + (j - (i - 1)) = j + 1
      BY <1>1, <2>2
    <3> QED BY <1>1, <1>3, <1>5, <2>2, <3>1
  <2> QED BY <1>1, <2>1, <2>2
<1>7. \A j, k \in 1 .. Len(q) - 1 : at(j) = at(k) => j = k
  BY <1>1
<1> QED BY <1>5, <1>6, <1>7 DEF Distinct

(* A queue is kept by a step that changes the awaits of one task only and  *)
(* leaves the queue with the other tasks, or some of them.                 *)
LEMMA QueueStep ==
  ASSUME TaskInv, NEW t \in Task, NEW x, todo' = [todo EXCEPT ![t] = x],
         NEW l \in Lock, Distinct(queue'[l]),
         \A j \in DOMAIN queue'[l] : queue'[l][j] # t
                                       /\ \E k \in DOMAIN queue[l] : queue'[l][j] = queue[l][k]
  PROVE  QueueKept(l)'
<1>1. SUFFICES ASSUME NEW j \in DOMAIN queue'[l]
               PROVE  InLine(queue[l][j], l)'
  BY DEF QueueKept
<1>2. PICK k \in DOMAIN queue[l] : queue'[l][j] = queue[l][k] /\ queue[l][k] # t
  OBVIOUS
<1>3. InLine(queue[l][k], l) /\ queue[l][k] \in Task
  BY DEF TaskInv, QueueKept, TypeOK, TasksOK
<1>4. todo'[queue[l][k]] = todo[queue[l][k]]
  BY <1>2, <1>3 DEF TaskInv, TypeOK, TasksOK
<1> QED BY <1>2, <1>3, <1>4 DEF InLine, Taking, Wanted, Busy

(* The same when the queues do not change and t is in none of them. *)
LEMMA QueuesStand ==
  ASSUME TaskInv, NEW t \in Task, NEW x, todo' = [todo EXCEPT ![t] = x], UNCHANGED queue,
         \A l \in Lock : ~InLine(t, l) \/ ~Queued(t, l)
  PROVE  \A l \in Lock : QueueKept(l)'
<1> SUFFICES ASSUME NEW l \in Lock
             PROVE  QueueKept(l)'
  OBVIOUS
<1>1. \A j \in DOMAIN queue[l] : queue[l][j] # t
  BY DEF TaskInv, QueueKept, Queued
<1>2. Distinct(queue'[l]) /\ \A j \in DOMAIN queue'[l] :
        queue'[l][j] # t /\ \E k \in DOMAIN queue[l] : queue'[l][j] = queue[l][k]
  BY <1>1 DEF TaskInv, QueueKept
<1> QED BY <1>2, QueueStep

(* The awaits of the tasks stay theirs. *)
LEMMA TodoStep ==
  ASSUME TaskInv, NEW t \in Task, NEW x \in Seq(AwaitOf(t)), todo' = [todo EXCEPT ![t] = x]
  PROVE  todo' \in [Task -> Seq(Await)] /\ \A u \in Task : todo'[u] \in Seq(AwaitOf(u))
BY AwaitOfIsAwait DEF TaskInv, TypeOK, TasksOK

LEMMA TailTodo ==
  ASSUME TaskInv, NEW t \in Task, Busy(t)
  PROVE  /\ Tail(todo[t]) \in Seq(AwaitOf(t))
         /\ Head(todo[t]) \in AwaitOf(t)
BY HeadTailProperties DEF TaskInv, Busy

LEMMA WantedLock ==
  ASSUME TaskInv, NEW t \in Task, Taking(t)
  PROVE  \E l \in Lock : l = Wanted(t).lock
BY TailTodo DEF Taking, Wanted, AwaitOf, Await, Guard

LEMMA InitInv == Init => TaskInv
<1> SUFFICES ASSUME Init PROVE TaskInv
  OBVIOUS
<1>1. \A t \in Task : todo[t] \in Seq(AwaitOf(t)) /\ todo[t] \in Seq(Await)
  BY ProgramsFit, AwaitOfIsAwait DEF Init
<1>2. TypeOK
  BY <1>1, NodeTasksAssumption DEF Init, TypeOK, TasksOK
<1> QED BY <1>1, <1>2 DEF Init, TaskInv, QueueKept, Distinct

LEMMA NextInv == TaskInv /\ [Next]_taskVars => TaskInv'
<1> SUFFICES ASSUME TaskInv, [Next]_taskVars PROVE TaskInv'
  OBVIOUS
<1> USE DEF TypeOK
<1>1. ASSUME NEW t \in Task, Start(t) PROVE TaskInv'
  <2>1. PICK job \in LoopOf(t) : ~Busy(t) /\ Begin(t, job)
    BY <1>1 DEF Start
  <2>2. job.awaits \in Seq(AwaitOf(t)) /\ job.from \subseteq Channel
    BY ProgramsFit
  <2>3. \A u \in Task : todo'[u] \in Seq(AwaitOf(u))
    BY <2>1, <2>2, TodoStep DEF Begin
  <2>4. todo' \in [Task -> Seq(Await)] /\ queue' \in [Lock -> Seq(Task)]
    BY <2>1, <2>2, TodoStep DEF Begin, TaskInv, TasksOK
  <2>5. len' \in [Channel -> Nat] /\ \A c \in Channel : len'[c] <= ChannelSize
    BY <2>1, <2>2, NodeTasksAssumption DEF Begin, TaskInv, TasksOK
  <2>6. \A l \in Lock : QueueKept(l)'
    BY <2>1, QueuesStand DEF Begin, InLine, Taking
  <2> QED BY <2>3, <2>4, <2>5, <2>6 DEF TaskInv, TasksOK
<1>2. ASSUME NEW t \in Task, Acquire(t) PROVE TaskInv'
  <2>1. /\ todo' = [todo EXCEPT ![t] = Tail(todo[t])]
        /\ Tail(todo[t]) \in Seq(AwaitOf(t))
        /\ UNCHANGED <<queue, len>>
    BY <1>2, TailTodo DEF Acquire, Proceed, Taking
  <2>2. \A l \in Lock : ~InLine(t, l) \/ ~Queued(t, l)
    BY <1>2 DEF Acquire, InLine, Queued
  <2>3. \A l \in Lock : QueueKept(l)'
    BY <2>1, <2>2, QueuesStand
  <2> QED BY <2>1, <2>3, TodoStep DEF TaskInv, TasksOK
<1>3. ASSUME NEW t \in Task, Enqueue(t) PROVE TaskInv'
  <2>1. PICK w \in Lock : w = Wanted(t).lock
    BY <1>3, WantedLock DEF Enqueue
  <2>2. /\ Taking(t) /\ ~Queued(t, w)
        /\ queue' = [queue EXCEPT ![w] = Append(queue[w], t)]
        /\ UNCHANGED <<todo, len>>
    BY <1>3, <2>1 DEF Enqueue, Waiting
  <2>3. queue[w] \in Seq(Task) /\ queue' \in [Lock -> Seq(Task)]
    BY <2>2, <2>1, AppendProperties DEF TaskInv, TasksOK
  <2>4. \A l \in Lock : l # w => QueueKept(l)'
    BY <2>2, <2>1 DEF TaskInv, TasksOK, QueueKept, InLine, Taking, Wanted, Busy
  <2>5. QueueKept(w)'
    <3>1. queue'[w] = Append(queue[w], t)
      BY <2>2, <2>1 DEF TaskInv, TasksOK
    <3>2. /\ DOMAIN Append(queue[w], t) = 1 .. Len(queue[w]) + 1
          /\ \A i \in 1 .. Len(queue[w]) : Append(queue[w], t)[i] = queue[w][i]
          /\ Append(queue[w], t)[Len(queue[w]) + 1] = t
          /\ DOMAIN queue[w] = 1 .. Len(queue[w]) /\ Len(queue[w]) \in Nat
      BY <2>3, AppendProperties, LenProperties
    <3>3. \A i \in DOMAIN queue[w] : queue[w][i] # t
      BY <2>2 DEF Queued
    <3>4. Distinct(queue[w]) /\ \A i \in DOMAIN queue[w] : InLine(queue[w][i], w)
      BY <2>1 DEF TaskInv, QueueKept
    <3>5. Distinct(queue'[w])
      BY <3>1, <3>2, <3>3, <3>4 DEF Distinct
    <3>6. InLine(t, w)
      BY <2>2, <2>1 DEF InLine
    <3>7. \A i \in DOMAIN queue'[w] : InLine(queue'[w][i], w)
      BY <3>1, <3>2, <3>4, <3>6
    <3> QED BY <2>2, <3>5, <3>7 DEF QueueKept, InLine, Taking, Wanted, Busy
  <2> QED BY <2>2, <2>3, <2>4, <2>5 DEF TaskInv, TasksOK
<1>4. ASSUME NEW t \in Task, Grant(t) PROVE TaskInv'
  <2>0. PICK w \in Lock : w = Wanted(t).lock
    BY <1>4, WantedLock DEF Grant, Waiting
  <2>1. /\ Taking(t) /\ Head(queue[w]) = t /\ Queued(t, w)
        /\ queue' = [queue EXCEPT ![w] = Tail(queue[w])]
        /\ todo' = [todo EXCEPT ![t] = Tail(todo[t])]
        /\ UNCHANGED len
    BY <1>4, <2>0 DEF Grant, Waiting, Proceed
  <2>2. Tail(todo[t]) \in Seq(AwaitOf(t))
    BY <2>1, TailTodo DEF Taking
  <2>3. \A l \in Lock : l # w => ~InLine(t, l)
    BY <2>0 DEF InLine
  <2>4. queue[w] \in Seq(Task) /\ Distinct(queue[w]) /\ queue[w] # << >>
    BY <2>1, <2>2 DEF TaskInv, TasksOK, QueueKept, Queued
  <2>5. queue' \in [Lock -> Seq(Task)] /\ queue'[w] = Tail(queue[w])
    BY <2>1, <2>2, <2>4, TailKeeps DEF TaskInv, TasksOK
  <2>6. QueueKept(w)'
    <3>1. Distinct(queue'[w])
      BY <2>4, <2>5, TailKeeps
    <3>2. \A j \in DOMAIN queue'[w] :
            queue'[w][j] # t /\ \E k \in DOMAIN queue[w] : queue'[w][j] = queue[w][k]
      BY <2>1, <2>4, <2>5, TailKeeps
    <3> QED BY <2>1, <2>2, <3>1, <3>2, QueueStep
  <2>7. ASSUME NEW l \in Lock, l # w PROVE QueueKept(l)'
    <3>1. queue'[l] = queue[l]
      BY <2>1, <2>2, <2>7 DEF TaskInv, TasksOK
    <3>2. \A j \in DOMAIN queue[l] : queue[l][j] # t
      BY <2>3, <2>7 DEF TaskInv, QueueKept
    <3>3. Distinct(queue'[l])
      BY <3>1 DEF TaskInv, QueueKept
    <3> QED BY <2>1, <2>2, <3>1, <3>2, <3>3, QueueStep
  <2> QED BY <2>1, <2>2, <2>5, <2>6, <2>7, TodoStep DEF TaskInv, TasksOK
<1>5. ASSUME NEW t \in Task, Deliver(t) PROVE TaskInv'
  <2> DEFINE c == Head(todo[t]).chan
  <2>1. /\ Sending(t) /\ len[c] < [x \in Channel |-> ChannelSize][c]
        /\ len' = [len EXCEPT ![c] = len[c] + 1]
        /\ todo' = [todo EXCEPT ![t] = Tail(todo[t])]
        /\ UNCHANGED queue
    BY <1>5 DEF Deliver, Proceed
  <2>2. c \in Channel /\ Tail(todo[t]) \in Seq(AwaitOf(t))
    BY <2>1, TailTodo DEF Sending, AwaitOf, Await
  <2> HIDE DEF c
  <2>3. len' \in [Channel -> Nat] /\ \A d \in Channel : len'[d] <= ChannelSize
    BY <2>1, <2>2, NodeTasksAssumption DEF TaskInv, TasksOK
  <2>4. \A l \in Lock : QueueKept(l)'
    BY <2>1, QueuesStand DEF InLine, Taking, Sending
  <2> QED BY <2>1, <2>2, <2>3, <2>4, TodoStep DEF TaskInv, TasksOK
<1>6. ASSUME NEW t \in Task, Cancel(t) PROVE TaskInv'
  <2>1. todo' = [todo EXCEPT ![t] = << >>] /\ UNCHANGED len /\ << >> \in Seq(AwaitOf(t))
    BY <1>6 DEF Cancel
  <2>2. CASE Waiting(t)
    <3>1. PICK w \in Lock : w = Wanted(t).lock
      BY <2>2, WantedLock DEF Waiting
    <3>2. PICK i \in DOMAIN queue[w] :
            queue[w][i] = t /\ queue' = [queue EXCEPT ![w] = RemoveAt(queue[w], i)]
      BY <1>6, <2>2, <3>1 DEF Cancel
    <3>3. \A l \in Lock : l # w => ~InLine(t, l)
      BY <3>1 DEF InLine
    <3>4. queue[w] \in Seq(Task) /\ Distinct(queue[w])
      BY <3>1 DEF TaskInv, TasksOK, QueueKept
    <3>5. queue' \in [Lock -> Seq(Task)] /\ queue'[w] = RemoveAt(queue[w], i)
      BY <3>2, <3>1, <3>4, RemoveAtKeeps DEF TaskInv, TasksOK
    <3>6. QueueKept(w)'
      <4>1. Distinct(queue'[w])
        BY <3>4, <3>5, RemoveAtKeeps
      <4>2. \A j \in DOMAIN queue'[w] :
              queue'[w][j] # t /\ \E k \in DOMAIN queue[w] : queue'[w][j] = queue[w][k]
        BY <3>2, <3>4, <3>5, RemoveAtKeeps
      <4> QED BY <2>1, <3>1, <4>1, <4>2, QueueStep
    <3>7. ASSUME NEW l \in Lock, l # w PROVE QueueKept(l)'
      <4>1. queue'[l] = queue[l]
        BY <3>2, <3>1, <3>7 DEF TaskInv, TasksOK
      <4>2. \A j \in DOMAIN queue[l] : queue[l][j] # t
        BY <3>3, <3>7 DEF TaskInv, QueueKept
      <4>3. Distinct(queue'[l])
        BY <4>1 DEF TaskInv, QueueKept
      <4> QED BY <2>1, <4>1, <4>2, <4>3, QueueStep
    <3> QED BY <2>1, <3>5, <3>6, <3>7, TodoStep DEF TaskInv, TasksOK
  <2>3. CASE ~Waiting(t)
    <3>1. UNCHANGED queue
      BY <1>6, <2>3 DEF Cancel
    <3>2. \A l \in Lock : ~InLine(t, l) \/ ~Queued(t, l)
      BY <2>3 DEF Waiting, InLine
    <3>3. \A l \in Lock : QueueKept(l)'
      BY <2>1, <3>1, <3>2, QueuesStand
    <3> QED BY <2>1, <3>1, <3>3, TodoStep DEF TaskInv, TasksOK
  <2> QED BY <2>2, <2>3
<1>7. CASE UNCHANGED taskVars
  BY <1>7 DEF taskVars, TaskInv, TasksOK, QueueKept, InLine, Taking, Wanted, Busy
<1> QED BY <1>1, <1>2, <1>3, <1>4, <1>5, <1>6, <1>7 DEF Next, Resume

(***************************************************************************)
(* TypeCorrect: what the tasks do keeps the state well-formed and never    *)
(* puts more into a channel than it has room for.                          *)
(***************************************************************************)
THEOREM TypeCorrect == Spec => []TypeOK
<1>1. Spec => []TaskInv
  BY InitInv, NextInv, PTL DEF Spec
<1>2. TaskInv => TypeOK
  BY DEF TaskInv
<1> QED BY <1>1, <1>2, PTL

-----------------------------------------------------------------------------
(* Locks alone never block the tasks *)

Progress ==
  \E u \in Task :
    \/ Held(u) # {} /\ ~Waiting(u)
    \/ Waiting(u) /\ Head(queue[Wanted(u).lock]) = u /\ Free(Wanted(u))

LEMMA RankRange == \A l \in Lock : Rank(l) \in 0 .. 3
BY Ranks

(* Who is first in a queue waits for its lock. *)
LEMMA HeadOfQueue ==
  ASSUME TaskInv, NEW l \in Lock, queue[l] # << >>
  PROVE  /\ Head(queue[l]) \in Task
         /\ Waiting(Head(queue[l]))
         /\ Wanted(Head(queue[l])).lock = l
<1>1. queue[l] \in Seq(Task)
  BY DEF TaskInv, TypeOK, TasksOK
<1>2. 1 \in DOMAIN queue[l] /\ Head(queue[l]) = queue[l][1] /\ queue[l][1] \in Task
  BY <1>1
<1>3. InLine(queue[l][1], l)
  BY <1>2 DEF TaskInv, QueueKept
<1> QED BY <1>2, <1>3 DEF InLine, Waiting, Queued

(* A lock one waits for ranks below those one holds, and has a queue. *)
LEMMA WaitsBelow ==
  ASSUME TaskInv, NEW u \in Task, Waiting(u), NEW h \in Held(u)
  PROVE  /\ Wanted(u).lock \in Lock
         /\ Rank(Wanted(u).lock) < Rank(h.lock)
         /\ queue[Wanted(u).lock] # << >>
<1>1. Busy(u) /\ Taking(u) /\ Queued(u, Wanted(u).lock)
  BY DEF Waiting, Taking
<1>2. Head(todo[u]) \in AwaitOf(u)
  BY <1>1, TailTodo
<1>3. Head(todo[u]).kind = "take" /\ h \in Head(todo[u]).holding
  BY <1>1 DEF Taking, Held
<1>4. Wanted(u).lock \in Lock /\ Rank(Wanted(u).lock) < Rank(h.lock)
  BY <1>1, <1>2, <1>3, WantedLock DEF AwaitOf, Wanted
<1>5. queue[Wanted(u).lock] # << >>
  BY <1>1 DEF Queued
<1> QED BY <1>4, <1>5

(* The lowest lock with a queue is what the others wait for in the end. *)
LEMMA LowestQueue ==
  ASSUME TaskInv, NEW l \in Lock, queue[l] # << >>,
         \A m \in Lock : Rank(m) < Rank(l) => queue[m] = << >>
  PROVE  Progress
<1> DEFINE t == Head(queue[l])
<1>1. t \in Task /\ Waiting(t) /\ Wanted(t).lock = l
  BY HeadOfQueue
<1> HIDE DEF t
<1>2. CASE Free(Wanted(t))
  BY <1>1, <1>2 DEF Progress, t
<1>3. CASE ~Free(Wanted(t))
  <2>1. PICK u \in Task : \E h \in Held(u) : h.lock = l
    BY <1>1, <1>3 DEF Free, Compatible
  <2>2. ~Waiting(u)
    BY <2>1, WaitsBelow
  <2> QED BY <2>1, <2>2 DEF Progress
<1> QED BY <1>2, <1>3

LEMMA TasksProgress == TaskInv => LockProgress
<1> SUFFICES ASSUME TaskInv, NEW t \in Task, Waiting(t), ~Progress
             PROVE  FALSE
  BY DEF LockProgress, Progress
<1> DEFINE Quiet(k) == \A m \in Lock : Rank(m) < k => queue[m] = << >>
<1>1. ASSUME NEW k \in 0 .. 3, Quiet(k) PROVE Quiet(k + 1)
  BY <1>1, RankRange, LowestQueue
<1>2. Quiet(0)
  BY RankRange
<1> HIDE DEF Quiet
<1>3. Quiet(1) /\ Quiet(2) /\ Quiet(3) /\ Quiet(4)
  <2>1. Quiet(0 + 1)
    BY <1>1, <1>2
  <2>2. Quiet(1 + 1)
    BY <1>1, <2>1
  <2>3. Quiet(2 + 1)
    BY <1>1, <2>2
  <2>4. Quiet(3 + 1)
    BY <1>1, <2>3
  <2> QED BY <2>1, <2>2, <2>3, <2>4
<1>4. \A m \in Lock : queue[m] = << >>
  BY <1>3, RankRange DEF Quiet
<1>5. PICK l \in Lock : l = Wanted(t).lock
  BY WantedLock DEF Waiting
<1> QED BY <1>4, <1>5 DEF Waiting, Queued

(***************************************************************************)
(* LocksProgress: the order in which the handlers of main.rs, the producer *)
(* and the RPC handlers take blocks, mempool, world_state and the rest     *)
(* leaves no circle of tasks that wait for each other's locks.             *)
(***************************************************************************)
THEOREM LocksProgress == Spec => []LockProgress
<1>1. Spec => []TaskInv
  BY InitInv, NextInv, PTL DEF Spec
<1> QED BY <1>1, TasksProgress, PTL

-----------------------------------------------------------------------------
(* The jam *)

(* Who takes messages from which channel. *)
LEMMA Readers ==
  /\ \E job \in LoopOf("handler") : job.from = {"in"}
  /\ \E job \in LoopOf("p2p") : job.from = {"out"}
  /\ \E job \in LoopOf("txs") : job.from = {"broadcast"}
  /\ \A t \in Task \ {"handler", "p2p"} : \A job \in LoopOf(t) :
       "in" \notin job.from /\ "out" \notin job.from
<1>1. \E job \in LoopOf("handler") : job.from = {"in"}
  <2>1. \E job : job \in HandlerJobs
    BY DEF HandlerJobs, OnNewTransaction
  <2> QED BY <2>1, HandlerFits DEF LoopOf, Fits
<1>2. \E job \in LoopOf("p2p") : job.from = {"out"}
  BY DEF LoopOf, P2PRun, Job
<1>3. \E job \in LoopOf("txs") : job.from = {"broadcast"}
  BY DEF LoopOf, BroadcastTx, Job
<1>4. ASSUME NEW t \in Task \ {"handler", "p2p"}, NEW job \in LoopOf(t)
      PROVE  "in" \notin job.from /\ "out" \notin job.from
  <2>1. CASE t = "producer"
    BY <2>1, MainFits DEF LoopOf, Fits
  <2>2. CASE t = "sync"
    BY <2>2 DEF LoopOf
  <2>3. CASE t = "txs"
    BY <2>3, NetworkFits DEF LoopOf, Fits
  <2>4. CASE t \in Request
    <3>1. t \notin {"handler", "producer", "sync", "txs", "p2p"}
      BY <2>4, NodeTasksAssumption
    <3> QED BY <2>4, <3>1, RequestFits DEF LoopOf, Fits
  <2> QED BY <2>1, <2>2, <2>3, <2>4 DEF Task
<1> QED BY <1>1, <1>2, <1>3, <1>4

(* A task that is neither idle nor able to go on waits for a lock or for   *)
(* room in its channel.                                                    *)
LEMMA Blocked ==
  ASSUME TaskInv, NEW t \in Task, Busy(t), ~CanResume(t)
  PROVE  \/ Waiting(t)
         \/ /\ Sending(t) /\ Head(todo[t]).chan = Outlet(t) /\ len[Outlet(t)] = ChannelSize
            /\ t # "handler" => Held(t) = {}
<1>1. Head(todo[t]) \in AwaitOf(t)
  BY TailTodo
<1>2. CASE Taking(t)
  BY <1>2 DEF CanResume
<1>3. CASE Sending(t)
  <2>1. /\ Head(todo[t]).kind = "send" /\ Head(todo[t]).chan \in Channel
        /\ Head(todo[t]).chan = Outlet(t)
        /\ t = "handler" \/ Head(todo[t]).holding = {}
    BY <1>1, <1>3 DEF Sending, AwaitOf, Await
  <2>2. len[Outlet(t)] \in Nat /\ len[Outlet(t)] <= ChannelSize
    BY <2>1 DEF TaskInv, TypeOK, TasksOK
  <2>3. ~(len[Outlet(t)] < ChannelSize)
    BY <1>3, <2>1 DEF CanResume
  <2> QED BY <1>3, <2>1, <2>2, <2>3, NodeTasksAssumption DEF Held
<1> QED BY <1>1, <1>2, <1>3 DEF Taking, Sending, AwaitOf, Await

LEMMA StalledIsJammed == TaskInv => OnlyJamStalls
<1> SUFFICES ASSUME TaskInv, Stalled PROVE Jammed
  BY DEF OnlyJamStalls
<1>1. /\ {"handler", "txs", "p2p"} \subseteq Task
      /\ Outlet("handler") = "out" /\ Outlet("txs") = "out" /\ Outlet("p2p") = "in"
      /\ \A t \in Task : Outlet(t) \in {"in", "out", "broadcast"} /\ (Outlet(t) = "in" => t = "p2p")
  BY DEF Task, Outlet
<1>2. \A t \in Task : Busy(t) => ~CanResume(t)
  BY DEF Stalled
<1>3. \A t \in Task : \A job \in LoopOf(t) : ~Busy(t) => \A c \in job.from : len[c] = 0
  BY DEF Stalled
<1>4. /\ len["in"] # 0 => Busy("handler")
      /\ len["out"] # 0 => Busy("p2p")
      /\ len["broadcast"] # 0 => Busy("txs")
  BY <1>1, <1>3, Readers
<1>5. ChannelSize # 0
  BY NodeTasksAssumption
(* Whoever waits for a lock waits in the end for the handler, *)
<1>6. ASSUME NEW t \in Task, Waiting(t)
      PROVE  AtSend("handler", "out")
  <2>1. PICK u \in Task :
          \/ Held(u) # {} /\ ~Waiting(u)
          \/ Waiting(u) /\ Head(queue[Wanted(u).lock]) = u /\ Free(Wanted(u))
    BY <1>6, TasksProgress DEF LockProgress
  <2>2. Busy(u)
    BY <2>1 DEF Held, Waiting, Taking
  <2>3. Held(u) # {} /\ ~Waiting(u)
    BY <1>2, <2>1, <2>2 DEF CanResume
  <2> QED BY <1>1, <1>2, <2>2, <2>3, Blocked DEF AtSend
(* and whoever waits for room, for room in tx_out. *)
<1>7. len["out"] = ChannelSize
  <2>1. PICK t \in Task : Busy(t)
    BY DEF Stalled
  <2>2. CASE \E u \in Task : Waiting(u)
    BY <1>6, <2>2 DEF AtSend
  <2>3. CASE \A u \in Task : ~Waiting(u)
    <3>1. \A u \in Task : Busy(u) => len[Outlet(u)] = ChannelSize
      BY <1>2, <2>3, Blocked
    <3> QED BY <1>1, <1>4, <1>5, <2>1, <3>1
  <2> QED BY <2>2, <2>3
<1>8. ~Waiting("p2p")
  <2> SUFFICES ASSUME Waiting("p2p") PROVE FALSE
    OBVIOUS
  <2> DEFINE l == "peer_count"
  <2>1. l \in Lock /\ queue[l] # << >>
    <3>1. Taking("p2p") /\ Queued("p2p", Wanted("p2p").lock)
      BY DEF Waiting
    <3>2. Wanted("p2p").lock = l
      BY <1>1, <3>1, TailTodo DEF Taking, Wanted, AwaitOf
    <3> QED BY <3>1, <3>2 DEF Queued, Lock
  <2>2. PICK t \in Task : t = Head(queue[l]) /\ Waiting(t) /\ Wanted(t).lock = l
    BY <2>1, HeadOfQueue
  <2>3. Free(Wanted(t))
    <3> SUFFICES ASSUME NEW u \in Task, NEW h \in Held(u) PROVE h.lock # l
      BY <2>2 DEF Free, Compatible
    <3>1. Busy(u) /\ h \in Head(todo[u]).holding
      BY DEF Held
    <3>2. Rank(h.lock) > 0
      BY <3>1, TailTodo DEF AwaitOf
    <3> QED BY <3>2, Ranks
  <2> QED BY <1>2, <2>2, <2>3 DEF CanResume, Waiting, Taking
<1>9. AtSend("p2p", "in")
  BY <1>1, <1>2, <1>4, <1>5, <1>7, <1>8, Blocked DEF AtSend
<1>10. AtSend("handler", "out")
  <2>1. Busy("handler")
    BY <1>4, <1>5, <1>9 DEF AtSend
  <2> QED BY <1>1, <1>2, <1>6, <2>1, Blocked DEF AtSend
<1> QED BY <1>9, <1>10 DEF Jammed

(***************************************************************************)
(* NothingElseStalls: the handler waiting for room in tx_out while p2p     *)
(* waits for room in tx_in is the one way the tasks come to a standstill,  *)
(* with channels of any size and any number of requests.                   *)
(***************************************************************************)
THEOREM NothingElseStalls == Spec => []OnlyJamStalls
<1>1. Spec => []TaskInv
  BY InitInv, NextInv, PTL DEF Spec
<1> QED BY <1>1, StalledIsJammed, PTL

(* No step ends a jam. *)
JamIsForever == [][Jammed => Jammed']_taskVars

LEMMA JamStep == TaskInv /\ Jammed /\ [Next]_taskVars => Jammed'
<1> SUFFICES ASSUME TaskInv, Jammed, [Next]_taskVars PROVE Jammed'
  OBVIOUS
<1>1. /\ Sending("handler") /\ Head(todo["handler"]).chan = "out" /\ len["out"] = ChannelSize
      /\ Sending("p2p") /\ Head(todo["p2p"]).chan = "in" /\ len["in"] = ChannelSize
  BY DEF Jammed, AtSend
<1>2. /\ {"handler", "p2p"} \subseteq Task /\ {"handler", "p2p"} \cap Request = {}
      /\ {"in", "out"} \subseteq Channel /\ ChannelSize \in Nat
  BY NodeTasksAssumption DEF Task, Channel
<1>3. SUFFICES /\ UNCHANGED <<todo["handler"], todo["p2p"], len["in"], len["out"]>>
  BY <1>1 DEF Jammed, AtSend, Sending, Busy
<1>4. ASSUME NEW t \in Task, Start(t) \/ Resume(t) \/ Cancel(t)
      PROVE  UNCHANGED <<todo["handler"], todo["p2p"], len["in"], len["out"]>>
  <2>1. t \notin {"handler", "p2p"}
    <3>1. CASE t \in {"handler", "p2p"}
      <4>1. Sending(t) /\ len[Head(todo[t]).chan] = ChannelSize /\ Head(todo[t]).chan \in Channel
        BY <1>1, <1>2, <3>1
      <4>2. ~Taking(t) /\ Busy(t) /\ t \notin Request
        BY <1>2, <3>1, <4>1 DEF Taking, Sending
      <4>3. ~Deliver(t)
        BY <1>2, <4>1 DEF Deliver
      <4> QED BY <1>4, <4>2, <4>3 DEF Start, Resume, Acquire, Enqueue, Grant, Waiting, Cancel
    <3> QED BY <3>1
  <2>2. UNCHANGED <<todo["handler"], todo["p2p"]>>
    BY <1>2, <1>4, <2>1
    DEF TaskInv, TypeOK, TasksOK, Start, Begin, Resume, Acquire, Enqueue, Grant, Deliver, Cancel, Proceed
  <2>3. UNCHANGED <<len["in"], len["out"]>>
    <3>1. CASE Start(t)
      BY <1>2, <2>1, <3>1, Readers DEF Start, Begin
    <3>2. CASE Deliver(t)
      BY <1>1, <1>2, <3>2 DEF Deliver, TaskInv, TypeOK, TasksOK
    <3>3. CASE Acquire(t) \/ Enqueue(t) \/ Grant(t) \/ Cancel(t)
      BY <3>3 DEF Acquire, Enqueue, Grant, Cancel
    <3> QED BY <1>4, <3>1, <3>2, <3>3 DEF Resume
  <2> QED BY <2>2, <2>3
<1>5. CASE UNCHANGED taskVars
  BY <1>5 DEF taskVars
<1> QED BY <1>4, <1>5 DEF Next

(***************************************************************************)
(* JamsAreForever: nothing a request, a timer or a peer does afterwards    *)
(* ends the jam; the process has to be killed.                             *)
(***************************************************************************)
THEOREM JamsAreForever == Spec => JamIsForever
<1>1. Spec => []TaskInv
  BY InitInv, NextInv, PTL DEF Spec
<1> QED BY <1>1, JamStep, PTL DEF Spec, JamIsForever
=============================================================================
