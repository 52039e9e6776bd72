------------------------------- MODULE Awaits -------------------------------
(* The vocabulary in which the programs of tasks are written. *)

(* Guards of reader-writer locks. *)
R(l) == [lock |-> l, mode |-> "read"]
W(l) == [lock |-> l, mode |-> "write"]

(* Awaiting a guard, or room in a channel, with guards in scope. *)
Take(guard, holding) == [kind |-> "take", guard |-> guard, holding |-> holding]
Send(chan, holding)  == [kind |-> "send", chan |-> chan, holding |-> holding]

(* A job begins with a message from one of the channels, or with none. *)
Job(from, awaits) == [from |-> from, awaits |-> awaits]
=============================================================================
