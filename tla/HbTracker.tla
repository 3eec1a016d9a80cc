----------------------------- MODULE HbTracker -----------------------------
(***************************************************************************)
(* The first version of the kernel module that tracks and blocks           *)
(* heartbeats on the sender (kmodule/send/hb_sender_tracker).  Its         *)
(* debugfs files give it the epochs of an application whose heartbeats are *)
(* [flag, epoch]; a probe on napi_consume_skb notes that a heartbeat has   *)
(* left the NIC, and a hook on POST_ROUTING drops heartbeats once the last *)
(* heartbeat that left is too old.  Times and epochs as in the sample      *)
(* application (SampleHb).                                                 *)
(***************************************************************************)
EXTENDS Integers, Sequences

CONSTANTS
  Node,                \* machines that send heartbeats
  BaseTime,            \* start of epoch 1
  Interval,            \* length of an epoch
  max_transfer_delay,
  max_clock_deviation

ASSUME TrackerAssumption ==
  /\ BaseTime \in Nat \ {0} /\ Interval \in Nat \ {0}
  /\ max_transfer_delay \in Nat \ {0} /\ max_clock_deviation \in Nat

VARIABLES
  now,
  base_time, timeout_interval,  \* per node; 0 until written
  sent_epoch, prev_sent_epoch,
  clearing                      \* value set_to_zero has read and not yet subtracted

trackerVars == <<base_time, timeout_interval, sent_epoch, prev_sent_epoch, clearing>>

None == -1

TrackerInit ==
  /\ base_time = [n \in Node |-> 0] /\ timeout_interval = [n \in Node |-> 0]
  /\ sent_epoch = [n \in Node |-> 0] /\ prev_sent_epoch = [n \in Node |-> 0]
  /\ clearing = [n \in Node |-> None]

time_to_epoch(t) == IF t < BaseTime THEN -1 ELSE (t - BaseTime) \div Interval + 1
epoch_to_time(id) == BaseTime + id * Interval

-----------------------------------------------------------------------------
(* kretprobe.c and debugfs.h, for node n *)

prepared(n) == base_time[n] > 0 /\ timeout_interval[n] > 0

get_send_hb_timeout(n) ==
  IF sent_epoch[n] = 0 THEN -1
  ELSE base_time[n] + (sent_epoch[n] + 1) * timeout_interval[n]
         - max_transfer_delay - max_clock_deviation

get_send_block_timeout(n) == get_send_hb_timeout(n) + max_transfer_delay

block_send(n) ==
  prepared(n) /\ get_send_block_timeout(n) >= 0 /\ now >= get_send_block_timeout(n)

is_send_hb_timeout(n) ==
  IF prepared(n) /\ get_send_hb_timeout(n) >= 0 THEN now - get_send_hb_timeout(n) ELSE 0

\* Mutant: the increment replaces the epoch.
sentEpochSet(n, epoch) ==
  IF prepared(n) /\ is_send_hb_timeout(n) <= 0 THEN epoch - prev_sent_epoch[n] ELSE sent_epoch[n]

\* What entry_handler makes of sent_epoch when the message [flag, epoch] has left.
\* prev_sent_epoch is the epoch written to debugfs and never changes here, so
\* that the second and later heartbeats add too much: 1, 2, 4, 7, ...
sentEpochAfter(n, epoch) ==
  IF prepared(n) /\ is_send_hb_timeout(n) <= 0
    THEN sent_epoch[n] + (epoch - prev_sent_epoch[n])
    ELSE sent_epoch[n]

-----------------------------------------------------------------------------
(* debugfs.c *)

\* A write adds the epoch to sent_epoch, and sets prev_sent_epoch.
sent_epoch_write(n, epoch) ==
  /\ sent_epoch' = [sent_epoch EXCEPT ![n] = @ + epoch]
  /\ prev_sent_epoch' = [prev_sent_epoch EXCEPT ![n] = epoch]
  /\ UNCHANGED <<base_time, timeout_interval, clearing>>

base_time_write(n) ==
  /\ base_time' = [base_time EXCEPT ![n] = BaseTime]
  /\ UNCHANGED <<timeout_interval, sent_epoch, prev_sent_epoch, clearing>>

timeout_interval_write(n) ==
  /\ timeout_interval' = [timeout_interval EXCEPT ![n] = Interval]
  /\ UNCHANGED <<base_time, sent_epoch, prev_sent_epoch, clearing>>

\* set_to_zero reads sent_epoch first and subtracts that value last, so an
\* increment in between stays; prev_sent_epoch is not reset.
ClearReads(n) ==
  /\ clearing[n] = None
  /\ clearing' = [clearing EXCEPT ![n] = sent_epoch[n]]
  /\ UNCHANGED <<base_time, timeout_interval, sent_epoch, prev_sent_epoch>>

set_to_zero(n) ==
  /\ clearing[n] # None
  /\ base_time' = [base_time EXCEPT ![n] = 0]
  /\ timeout_interval' = [timeout_interval EXCEPT ![n] = 0]
  /\ sent_epoch' = [sent_epoch EXCEPT ![n] = @ - clearing[n]]
  /\ clearing' = [clearing EXCEPT ![n] = None]
  /\ UNCHANGED prev_sent_epoch
=============================================================================
