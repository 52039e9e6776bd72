------------------------------ MODULE ChainLog ------------------------------
(***************************************************************************)
(* What a Vela node promises about its chain, with tasks, messages and     *)
(* storage left out: every node keeps a log of blocks that grows by one    *)
(* block of the next height at a time, out of the blocks that were made; a *)
(* part of it is stable; a node that fails forgets its log and starts      *)
(* again from the stable part, which only ever grows.  Only a lossy node   *)
(* may leave blocks out of its stable part.  Nothing is promised between   *)
(* nodes.                                                                  *)
(***************************************************************************)
EXTENDS Naturals, Sequences, SequencesExt

CONSTANTS
  Node,   \* the nodes
  First,  \* the block every log starts with
  Lossy   \* the nodes whose stable part may lack blocks of the log

VARIABLES
  entries,   \* the blocks made so far
  log,       \* log[n]: empty while n is down
  stable     \* stable[n]

vars == <<entries, log, stable>>

Init ==
  /\ entries = {}
  /\ log = [n \in Node |-> << >>]
  /\ stable = [n \in Node |-> << >>]

(* The next block of n's log is one that was made before or is made now.   *)
Extend(n) ==
  /\ log[n] # << >>
  /\ \E e \in entries' :
       /\ e.height = log[n][Len(log[n])].height + 1
       /\ log' = [log EXCEPT ![n] = Append(@, e)]
       /\ entries' = entries \cup {e}
  /\ UNCHANGED stable

(* s is a part of n's log, in its order: all of it unless n is lossy.      *)
PartOfLog(n, s) ==
  /\ n \notin Lossy => s = log[n]
  /\ \A i \in DOMAIN s : \E j \in DOMAIN log[n] : s[i] = log[n][j]
  /\ \A i, j \in DOMAIN s : i < j => s[i].height < s[j].height

(* The stable part only ever grows. *)
Stabilise(n) ==
  /\ stable'[n] # stable[n]
  /\ PartOfLog(n, stable'[n])
  /\ IsPrefix(stable[n], stable'[n])
  /\ stable' = [stable EXCEPT ![n] = stable'[n]]
  /\ UNCHANGED <<entries, log>>

Fail(n) ==
  /\ log' = [log EXCEPT ![n] = << >>]
  /\ UNCHANGED <<entries, stable>>

Recover(n) ==
  /\ log[n] = << >>
  /\ log' = [log EXCEPT ![n] = IF stable[n] = << >> THEN <<First>> ELSE stable[n]]
  /\ UNCHANGED <<entries, stable>>

Next == \E n \in Node : Extend(n) \/ Stabilise(n) \/ Fail(n) \/ Recover(n)

Spec == Init /\ [][Next]_vars
=============================================================================
