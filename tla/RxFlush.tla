------------------------------ MODULE RxFlush ------------------------------
(***************************************************************************)
(* What the receiver-side barrier promises to its caller, without rings,   *)
(* messages and rounds: heartbeats wait on the machine, leave it in any    *)
(* order (processed or dropped by the kernel), and a flush returns only    *)
(* when every heartbeat that was waiting at the call has left.             *)
(***************************************************************************)
EXTENDS Integers

CONSTANTS
  Node,    \* senders of heartbeats
  MaxHb    \* bound: heartbeats that arrive

VARIABLES
  pending,   \* heartbeats on the machine that the queue thread has not processed
  arrived,   \* heartbeats that have reached the machine, so far
  phase,     \* "idle", "flushing" or "flushed"
  mark       \* arrived when the last flush was called

flushVars == <<pending, arrived, phase, mark>>

Init ==
  /\ pending = {}
  /\ arrived = 0
  /\ phase = "idle"
  /\ mark = 0

Arrive(n) ==
  /\ arrived < MaxHb
  /\ arrived' = arrived + 1
  /\ pending' = pending \cup {[id |-> arrived + 1, node |-> n]}
  /\ UNCHANGED <<phase, mark>>

\* Heartbeats leave the machine: one that is processed, or some that are dropped.
Leave(S) ==
  /\ pending' = pending \ S
  /\ UNCHANGED <<arrived, phase, mark>>

FlushCall ==
  /\ phase # "flushing"
  /\ phase' = "flushing"
  /\ mark' = arrived
  /\ UNCHANGED <<pending, arrived>>

\* Mutant: the flush returns as soon as one old heartbeat has left.
FlushReturnEarly ==
  /\ phase = "flushing"
  /\ \E k \in 1 .. mark : \A h \in pending : h.id # k
  /\ phase' = "flushed"
  /\ UNCHANGED <<pending, arrived, mark>>

FlushReturn ==
  /\ phase = "flushing"
  /\ \A h \in pending : h.id > mark
  /\ phase' = "flushed"
  /\ UNCHANGED <<pending, arrived, mark>>

FlushFails ==
  /\ phase = "flushing"
  /\ phase' = "idle"
  /\ UNCHANGED <<pending, arrived, mark>>

Next ==
  \/ \E n \in Node : Arrive(n)
  \/ \E S \in SUBSET pending : Leave(S)
  \/ FlushCall \/ FlushReturn \/ FlushFails

Spec == Init /\ [][Next]_flushVars
=============================================================================
