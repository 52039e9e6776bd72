------------------------------- MODULE Tasks -------------------------------
(***************************************************************************)
(* Asynchronous tasks that share reader-writer locks and bounded channels: *)
(* the part of tokio the node is built on.  What a task does is the list   *)
(* of points where it awaits a lock or room in a channel, each with the    *)
(* guards in scope there.  What it does between two such points needs      *)
(* nobody else and is part of the step that leaves the first: it is over   *)
(* before the next await begins, and a guard that is not in scope there    *)
(* has been dropped.                                                       *)
(***************************************************************************)
EXTENDS Awaits, Naturals, Sequences, SequencesExt

CONSTANTS
  Task,         \* the tasks
  Lock,         \* the locks
  Channel,      \* the bounded channels
  Capacity,     \* Capacity[c]: how many messages c holds
  First,        \* First[t]: the awaits t begins with
  Loop,         \* Loop[t]: the jobs it does afterwards, again and again
  Cancellable   \* the tasks that can be dropped at an await

VARIABLES
  todo,    \* todo[t]: the awaits ahead of t; empty while it is idle
  queue,   \* queue[l]: the tasks waiting for l, in the order they asked
  len      \* len[c]: how many messages wait in c

taskVars == <<todo, queue, len>>

-----------------------------------------------------------------------------
Guard == [lock : Lock, mode : {"read", "write"}]

Await ==
  [kind : {"take"}, guard : Guard, holding : SUBSET Guard]
    \cup [kind : {"send"}, chan : Channel, holding : SUBSET Guard]

-----------------------------------------------------------------------------
Busy(t)    == todo[t] # << >>
Held(t)    == IF Busy(t) THEN Head(todo[t]).holding ELSE {}
Taking(t)  == Busy(t) /\ Head(todo[t]).kind = "take"
Sending(t) == Busy(t) /\ Head(todo[t]).kind = "send"
Wanted(t)  == Head(todo[t]).guard

Queued(t, l) == \E i \in DOMAIN queue[l] : queue[l][i] = t
Waiting(t)   == Taking(t) /\ Queued(t, Wanted(t).lock)

(* Any number of readers, or one writer. *)
Compatible(g, h) == g.lock = h.lock => g.mode = "read" /\ h.mode = "read"
Free(g) == \A u \in Task : \A h \in Held(u) : Compatible(g, h)

Init ==
  /\ todo = [t \in Task |-> First[t]]
  /\ queue = [l \in Lock |-> << >>]
  /\ len = [c \in Channel |-> 0]

(* recv: the message is gone from the channel. *)
Begin(t, job) ==
  /\ \A c \in job.from : len[c] > 0
  /\ todo' = [todo EXCEPT ![t] = job.awaits]
  /\ len' = [c \in Channel |-> IF c \in job.from THEN len[c] - 1 ELSE len[c]]
  /\ UNCHANGED queue

Start(t) == ~Busy(t) /\ \E job \in Loop[t] : Begin(t, job)

Proceed(t) == todo' = [todo EXCEPT ![t] = Tail(@)]

(* A lock is taken at once when it is free and nobody waits for it. *)
Acquire(t) ==
  /\ Taking(t) /\ queue[Wanted(t).lock] = << >> /\ Free(Wanted(t))
  /\ Proceed(t)
  /\ UNCHANGED <<queue, len>>

(* Otherwise the task queues up, *)
Enqueue(t) ==
  /\ Taking(t) /\ ~Waiting(t)
  /\ queue[Wanted(t).lock] # << >> \/ ~Free(Wanted(t))
  /\ queue' = [queue EXCEPT ![Wanted(t).lock] = Append(@, t)]
  /\ UNCHANGED <<todo, len>>

(* and is served in its turn, readers and writers alike. *)
Grant(t) ==
  /\ Waiting(t) /\ Head(queue[Wanted(t).lock]) = t /\ Free(Wanted(t))
  /\ queue' = [queue EXCEPT ![Wanted(t).lock] = Tail(@)]
  /\ Proceed(t)
  /\ UNCHANGED len

(* Mutant: the channels are unbounded. *)
DeliverUnbounded(t) ==
  /\ Sending(t)
  /\ len' = [len EXCEPT ![Head(todo[t]).chan] = IF @ > Capacity[Head(todo[t]).chan] THEN @ ELSE @ + 1]
  /\ Proceed(t)
  /\ UNCHANGED queue

Deliver(t) ==
  /\ Sending(t) /\ len[Head(todo[t]).chan] < Capacity[Head(todo[t]).chan]
  /\ len' = [len EXCEPT ![Head(todo[t]).chan] = @ + 1]
  /\ Proceed(t)
  /\ UNCHANGED queue

(* The future is dropped at an await: its guards and its place in a queue  *)
(* go with it.                                                             *)
Cancel(t) ==
  /\ t \in Cancellable /\ Busy(t)
  /\ todo' = [todo EXCEPT ![t] = << >>]
  /\ IF Waiting(t)
     THEN \E i \in DOMAIN queue[Wanted(t).lock] :
            /\ queue[Wanted(t).lock][i] = t
            /\ queue' = [queue EXCEPT ![Wanted(t).lock] = RemoveAt(@, i)]
     ELSE UNCHANGED queue
  /\ UNCHANGED len

Resume(t) == Acquire(t) \/ Enqueue(t) \/ Grant(t) \/ Deliver(t)

Next == \E t \in Task : Start(t) \/ Resume(t) \/ Cancel(t)

Spec == Init /\ [][Next]_taskVars

-----------------------------------------------------------------------------
(* t is not blocked where it is (it may only have to queue up). *)
CanResume(t) ==
  \/ Taking(t) /\ ~Waiting(t)
  \/ Waiting(t) /\ Head(queue[Wanted(t).lock]) = t /\ Free(Wanted(t))
  \/ Sending(t) /\ len[Head(todo[t]).chan] < Capacity[Head(todo[t]).chan]

(* Every task is blocked, or idle with no message to begin a job with. *)
Stalled ==
  /\ \E t \in Task : Busy(t)
  /\ \A t \in Task :
       IF Busy(t) THEN ~CanResume(t)
       ELSE \A job \in Loop[t] : \A c \in job.from : len[c] = 0

(* What the state of the tasks consists of. *)
TasksOK ==
  /\ todo \in [Task -> Seq(Await)]
  /\ queue \in [Lock -> Seq(Task)]
  /\ len \in [Channel -> Nat]
  /\ \A c \in Channel : len[c] <= Capacity[c]

(***************************************************************************)
(* LockProgress: locks alone never block tasks for good.  Whenever a task  *)
(* waits for a lock, some task that holds one is not waiting for another,  *)
(* or the task at the head of a queue can be served.                       *)
(***************************************************************************)
LockProgress ==
  (\E t \in Task : Waiting(t)) =>
    \E u \in Task :
      \/ Held(u) # {} /\ ~Waiting(u)
      \/ Waiting(u) /\ Head(queue[Wanted(u).lock]) = u /\ Free(Wanted(u))
=============================================================================
