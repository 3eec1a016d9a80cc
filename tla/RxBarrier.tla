----------------------------- MODULE RxBarrier -----------------------------
(***************************************************************************)
(* The receiver-side barrier: the NIC's rx rings, the netfilter queue, the *)
(* queue thread of queue.c (process_packet) and the client that sends a    *)
(* barrier message along every ring (send_barrier_message of barrier.c).   *)
(*                                                                         *)
(* Packets of one ring stay in order (RPS is off for the two ports), all   *)
(* rings feed one netfilter queue, and one thread empties it.  A barrier   *)
(* message that has come out of a ring has therefore pushed out every      *)
(* heartbeat that was in the ring before it; process_packet counts, per    *)
(* epoch, the rings whose message it has seen.                             *)
(*                                                                         *)
(* The caller is barrier_flush, the only caller queue.c ever had (it is    *)
(* commented out in this version, queue.c:254-281).                        *)
(***************************************************************************)
EXTENDS Integers, Sequences

CONSTANTS
  IRQ_NUM,      \* number of rx rings
  ARRAY_SIZE,   \* rows of received_barrier_msg_array
  Node,         \* senders of heartbeats
  NfqCap,       \* packets the netfilter queue holds before it drops
  MaxEpoch,     \* bound: last epoch the caller flushes
  MaxHb,        \* bound: heartbeats that arrive
  MaxDup,       \* bound: spurious TCP retransmissions
  MaxSkip,      \* bound: epoch numbers the caller leaves out at a time
  Faults        \* of {"timeout", "error"}: may sem_timedwait time out, may send()
                \* or the queue thread's recv() fail?

Ring == 0 .. IRQ_NUM - 1
Row == 0 .. ARRAY_SIZE - 1

ASSUME ConstantsAssumption ==
  /\ IRQ_NUM \in Nat \ {0}
  /\ ARRAY_SIZE \in Nat \ {0}
  /\ NfqCap \in Nat \ {0}
  /\ MaxEpoch \in Nat /\ MaxHb \in Nat /\ MaxDup \in Nat /\ MaxSkip \in Nat

VARIABLES
  rings,                       \* rx rings, FIFO
  nfq,                         \* netfilter queue 0, FIFO
  unsent,                      \* per flow: epochs send() took, not yet on the wire
  outstanding,                 \* per flow: epochs in the unacknowledged segment
  accepted,                    \* flows whose segment has passed the queue
  received_barrier_msg_array,  \* round in which [epoch % ARRAY_SIZE][ring] was seen
  array_round,
  barrier_all_processed,       \* value of the semaphore
  epoch_no_sem_post,
  queue_loop,                  \* the loop of the queue thread: "running" or "exited"
  epoch,                       \* last epoch handed to barrier_flush
  next,                        \* next flow send_barrier_message sends on
  pc,                          \* where barrier_flush is
  arrived,                     \* heartbeats that have reached a ring, so far
  dups,                        \* spurious retransmissions so far
  mark,                        \* history: arrived when the last flush began
  delivered,                   \* history: per ring, epochs process_packet has seen
  declared                     \* history: epochs declared complete

tcpVars == <<unsent, outstanding, accepted, dups>>
arrayVars == <<received_barrier_msg_array, array_round, barrier_all_processed,
               delivered, declared>>
callerVars == <<epoch_no_sem_post, epoch, next, pc, mark>>
vars == <<rings, nfq, queue_loop, arrived, tcpVars, arrayVars, callerVars>>

Heartbeat == [kind : {"udp"}, node : Node, ring : Ring, id : Nat]
BarrierMsg == [kind : {"tcp"}, epoch : Nat, index : Ring]
ShortSegment == [kind : {"short"}]
Packet == Heartbeat \cup BarrierMsg \cup ShortSegment

\* The handshake of a flow leaves a TCP segment without payload in its ring.
Init ==
  /\ rings \in [Ring -> {<<>>, <<[kind |-> "short"]>>}]
  /\ nfq = <<>>
  /\ unsent = [i \in Ring |-> <<>>]
  /\ outstanding = [i \in Ring |-> <<>>]
  /\ accepted = {}
  /\ received_barrier_msg_array = [x \in Row |-> [i \in Ring |-> 0]]
  /\ array_round = 1
  /\ barrier_all_processed = 0
  /\ epoch_no_sem_post = 0
  /\ queue_loop = "running"
  /\ epoch = 0
  /\ next = 0
  /\ pc = "idle"
  /\ arrived = 0
  /\ dups = 0
  /\ mark = 0
  /\ delivered = [i \in Ring |-> {}]
  /\ declared = {}

-----------------------------------------------------------------------------
(* The caller. *)

\* barrier_flush(e) is called; the history variable remembers which
\* heartbeats are already on the machine.
FlushStart ==
  /\ pc \in {"idle", "flushed", "failed"}
  /\ \E e \in epoch + 1 .. epoch + 1 + MaxSkip :
       /\ e <= MaxEpoch
       /\ epoch' = e
  /\ next' = 0
  /\ mark' = arrived
  /\ pc' = "sending"
  /\ UNCHANGED <<rings, nfq, queue_loop, arrived, tcpVars, arrayVars, epoch_no_sem_post>>

\* One turn of the loop of send_barrier_message: the kernel takes the message.
SendBarrier ==
  /\ pc = "sending"
  /\ unsent' = [unsent EXCEPT ![next] = Append(@, epoch)]
  /\ next' = next + 1
  /\ pc' = IF next + 1 = IRQ_NUM THEN "waiting" ELSE "sending"
  /\ UNCHANGED <<rings, nfq, queue_loop, arrived, outstanding, accepted, dups,
                 arrayVars, epoch_no_sem_post, epoch, mark>>

\* send() fails, or sender_runnable is found 0: the remaining flows get no
\* message.  barrier_flush ignores the result and waits all the same.
SendFails ==
  /\ "error" \in Faults
  /\ pc = "sending"
  /\ pc' = "waiting"
  /\ UNCHANGED <<rings, nfq, queue_loop, arrived, tcpVars, arrayVars,
                 epoch_no_sem_post, epoch, next, mark>>

\* sem_timedwait takes the semaphore.
FlushSucceeds ==
  /\ pc = "waiting"
  /\ barrier_all_processed > 0
  /\ barrier_all_processed' = barrier_all_processed - 1
  /\ pc' = "flushed"
  /\ UNCHANGED <<rings, nfq, queue_loop, arrived, tcpVars, received_barrier_msg_array,
                 array_round, delivered, declared, epoch_no_sem_post, epoch, next, mark>>

\* sem_timedwait gives up ...
FlushTimesOut ==
  /\ "timeout" \in Faults
  /\ pc = "waiting"
  /\ barrier_all_processed = 0
  /\ pc' = "timedout"
  /\ UNCHANGED <<rings, nfq, queue_loop, arrived, tcpVars, arrayVars,
                 epoch_no_sem_post, epoch, next, mark>>

\* ... and only then does the caller tell the queue thread not to post.
FlushGivesUp ==
  /\ pc = "timedout"
  /\ epoch_no_sem_post' = epoch
  /\ pc' = "failed"
  /\ UNCHANGED <<rings, nfq, queue_loop, arrived, tcpVars, arrayVars, epoch, next, mark>>

-----------------------------------------------------------------------------
(* The network: heartbeats of other machines, and the TCP flows from the   *)
(* second interface, one per ring.  The sockets keep Nagle's algorithm on: *)
(* while a segment is unacknowledged, later messages wait and leave in one *)
(* segment, of which process_packet reads the first message only.          *)

HeartbeatArrives(n, i) ==
  /\ arrived < MaxHb
  /\ arrived' = arrived + 1
  /\ rings' = [rings EXCEPT ![i] =
                 Append(@, [kind |-> "udp", node |-> n, ring |-> i, id |-> arrived + 1])]
  /\ UNCHANGED <<nfq, queue_loop, tcpVars, arrayVars, callerVars>>

\* Mutant: the message names another ring than the one its flow goes through.
segmentOfOtherRing(i, epochs) ==
  [kind |-> "tcp", epoch |-> Head(epochs), index |-> (i + 1) % IRQ_NUM]

segment(i, epochs) == [kind |-> "tcp", epoch |-> Head(epochs), index |-> i]

Transmit(i) ==
  /\ outstanding[i] = <<>>
  /\ unsent[i] # <<>>
  /\ outstanding' = [outstanding EXCEPT ![i] = unsent[i]]
  /\ unsent' = [unsent EXCEPT ![i] = <<>>]
  /\ rings' = [rings EXCEPT ![i] = Append(@, segment(i, unsent[i]))]
  /\ UNCHANGED <<nfq, queue_loop, arrived, accepted, dups, arrayVars, callerVars>>

IsMsgOf(p, i) == p.kind = "tcp" /\ p.index = i

Lost(i) ==
  /\ i \notin accepted
  /\ \A k \in DOMAIN rings[i] : rings[i][k].kind # "tcp"
  /\ \A k \in DOMAIN nfq : ~IsMsgOf(nfq[k], i)

\* A segment the netfilter queue dropped is sent again, a delayed one may be.
Retransmit(i) ==
  /\ outstanding[i] # <<>>
  /\ \/ Lost(i) /\ dups' = dups
     \/ ~Lost(i) /\ dups < MaxDup /\ dups' = dups + 1
  /\ rings' = [rings EXCEPT ![i] = Append(@, segment(i, outstanding[i]))]
  /\ UNCHANGED <<nfq, queue_loop, arrived, unsent, outstanding, accepted, arrayVars, callerVars>>

AckArrives(i) ==
  /\ i \in accepted
  /\ outstanding' = [outstanding EXCEPT ![i] = <<>>]
  /\ accepted' = accepted \ {i}
  /\ UNCHANGED <<rings, nfq, queue_loop, arrived, unsent, dups, arrayVars, callerVars>>

\* The kernel takes a packet from a ring to the netfilter queue, or drops it
\* there: the queue is full (ENOBUFS) or has lost its reader.
RingToQueue(i) ==
  /\ rings[i] # <<>>
  /\ rings' = [rings EXCEPT ![i] = Tail(@)]
  /\ nfq' = IF queue_loop = "running" /\ Len(nfq) < NfqCap THEN Append(nfq, Head(rings[i])) ELSE nfq
  /\ UNCHANGED <<queue_loop, arrived, tcpVars, arrayVars, callerVars>>

-----------------------------------------------------------------------------
(* The queue thread. *)

\* A heartbeat; what receive_heartbeat does with it is in Receiver.tla.
ProcessHeartbeat ==
  /\ queue_loop = "running"
  /\ nfq # <<>>
  /\ Head(nfq).kind = "udp"
  /\ nfq' = Tail(nfq)
  /\ UNCHANGED <<rings, queue_loop, arrived, tcpVars, arrayVars, callerVars>>

\* A TCP segment with less than two longs: epoch and queue_index stay -1.
\* received_barrier_msg_array[-1][-1] and [-1][0] are padding before the array
\* in the default build, and differ from array_round: no barrier is declared.
ProcessShort ==
  /\ queue_loop = "running"
  /\ nfq # <<>>
  /\ Head(nfq).kind = "short"
  /\ nfq' = Tail(nfq)
  /\ UNCHANGED <<rings, queue_loop, arrived, tcpVars, arrayVars, callerVars>>

\* Mutant: the test for an outdated epoch is turned around.
postsOutdated(e) == epoch_no_sem_post # 0 /\ e <= epoch_no_sem_post

posts(e) == ~(epoch_no_sem_post # 0 /\ e <= epoch_no_sem_post)

\* Mutant: the loop that counts the rings of an epoch stops one short.
completesButLast(e, i) ==
  LET row == received_barrier_msg_array[e % ARRAY_SIZE]
  IN row[i] # array_round /\ \A j \in Ring \ {i, IRQ_NUM - 1} : row[j] = array_round

\* Message [e, i] is not redundant and is the last one of its epoch.
completes(e, i) ==
  LET row == received_barrier_msg_array[e % ARRAY_SIZE]
  IN row[i] # array_round /\ \A j \in Ring \ {i} : row[j] = array_round

\* Mutant: the round is not advanced when the array wraps.
roundAfterSame(e) == array_round

\* The round once epoch e is complete: the last row of the array ends it.
roundAfter(e) == IF e % ARRAY_SIZE = ARRAY_SIZE - 1 THEN array_round + 1 ELSE array_round

\* The barrier half of process_packet, for message [e, i].
RecordBarrier(e, i) ==
  /\ received_barrier_msg_array' =
       [received_barrier_msg_array EXCEPT ![e % ARRAY_SIZE][i] = array_round]
  /\ array_round' = IF completes(e, i) THEN roundAfter(e) ELSE array_round
  /\ barrier_all_processed' =
       barrier_all_processed + (IF completes(e, i) /\ posts(e) THEN 1 ELSE 0)
  /\ delivered' = [delivered EXCEPT ![i] = @ \cup {e}]
  /\ declared' = IF completes(e, i) THEN declared \cup {e} ELSE declared

\* cb: process_packet, then NF_ACCEPT lets the segment reach the TCP stack.
ProcessBarrier ==
  /\ queue_loop = "running"
  /\ nfq # <<>>
  /\ Head(nfq).kind = "tcp"
  /\ LET p == Head(nfq) IN
       /\ IF p.epoch <= 0
            THEN UNCHANGED arrayVars
            ELSE RecordBarrier(p.epoch, p.index)
       /\ accepted' = IF /\ outstanding[p.index] # <<>>
                         /\ Head(outstanding[p.index]) = p.epoch
                       THEN accepted \cup {p.index} ELSE accepted
  /\ nfq' = Tail(nfq)
  /\ UNCHANGED <<rings, queue_loop, arrived, unsent, outstanding, dups, callerVars>>

\* recv fails with an unexpected error: the loop ends, cleanup closes the queue.
QueueThreadExits ==
  /\ "error" \in Faults
  /\ queue_loop = "running"
  /\ queue_loop' = "exited"
  /\ nfq' = <<>>
  /\ UNCHANGED <<rings, arrived, tcpVars, arrayVars, callerVars>>

\* Nothing is left to do within the bounds.
Quiescent ==
  /\ pc \in {"flushed", "failed"} /\ epoch = MaxEpoch
  /\ arrived = MaxHb
  /\ nfq = <<>> /\ \A i \in Ring : rings[i] = <<>>
  /\ UNCHANGED vars

Caller == FlushStart \/ SendBarrier \/ SendFails \/ FlushSucceeds
            \/ FlushTimesOut \/ FlushGivesUp
Network == \E i \in Ring : \/ \E n \in Node : HeartbeatArrives(n, i)
                           \/ Transmit(i) \/ Retransmit(i) \/ AckArrives(i)
                           \/ RingToQueue(i)
QueueThread == ProcessHeartbeat \/ ProcessShort \/ ProcessBarrier \/ QueueThreadExits

Next == Caller \/ Network \/ QueueThread \/ Quiescent

Spec == Init /\ [][Next]_vars

\* The kernel, the TCP stack and both threads keep running; whether the
\* caller flushes again, and whether a heartbeat arrives, is left open.
FairSpec ==
  /\ Spec
  /\ WF_vars(SendBarrier) /\ WF_vars(FlushSucceeds)
  /\ \A i \in Ring : /\ WF_vars(Transmit(i)) /\ WF_vars(Retransmit(i))
                     /\ WF_vars(AckArrives(i)) /\ WF_vars(RingToQueue(i))
  /\ WF_vars(ProcessHeartbeat \/ ProcessShort \/ ProcessBarrier)

-----------------------------------------------------------------------------
(* Properties. *)

\* The values the variables of queue.c, barrier.c and the kernel may take.
TypeOK ==
  /\ rings \in [Ring -> Seq(Packet)]
  /\ nfq \in Seq(Packet)
  /\ unsent \in [Ring -> Seq(Nat)]
  /\ outstanding \in [Ring -> Seq(Nat)]
  /\ accepted \in SUBSET Ring
  /\ received_barrier_msg_array \in [Row -> [Ring -> Nat]]
  /\ array_round \in Nat
  /\ barrier_all_processed \in Nat
  /\ epoch_no_sem_post \in Nat
  /\ queue_loop \in {"running", "exited"}
  /\ epoch \in Nat
  /\ next \in 0 .. IRQ_NUM
  /\ pc = "sending" => next \in Ring
  /\ pc \in {"idle", "sending", "waiting", "timedout", "flushed", "failed"}
  /\ arrived \in Nat
  /\ dups \in Nat
  /\ mark \in Nat
  /\ delivered \in [Ring -> SUBSET Nat]
  /\ declared \in SUBSET Nat

\* A heartbeat of ring i that was on the machine when the last flush began.
IsOld(p, i) == p.kind = "udp" /\ p.ring = i /\ p.id <= mark

\* No such heartbeat waits for the queue thread.
Flushed(i) ==
  /\ \A k \in 1 .. Len(rings[i]) : ~IsOld(rings[i][k], i)
  /\ \A k \in 1 .. Len(nfq) : ~IsOld(nfq[k], i)

\* Once process_packet has seen a ring's message of the current epoch, no
\* heartbeat that was in the ring when the flush began is still unprocessed:
\* the order ring -> netfilter queue -> queue thread keeps it in front.
RingFlushed == \A i \in Ring : epoch \in delivered[i] => Flushed(i)

\* process_packet reports "all barrier messages for epoch are received"
\* (queue.c:194) only for an epoch whose message came out of every ring.
BarrierSound == \A e \in declared : \A i \in Ring : e \in delivered[i]

\* Conversely, when the message of an epoch has come out of every ring, the
\* array of rounds has let process_packet declare that epoch complete.
BarrierComplete ==
  \A e \in 1 .. epoch : (\A i \in Ring : e \in delivered[i]) => e \in declared

\* What a successful barrier_flush promises: every heartbeat that was in a
\* ring when it was called has been processed (or dropped by the kernel).
FlushSound == pc = "flushed" => \A i \in Ring : Flushed(i)

\* A flush that waits for the semaphore gets it, although the netfilter queue
\* may drop barrier messages and TCP has to send them again.
FlushCompletes == pc = "waiting" ~> pc = "flushed"

-----------------------------------------------------------------------------
(* The inductive invariants of the proofs in RxBarrierProofs. *)

\* No epoch is anywhere on its way before the caller has flushed it, and the
\* packets of a ring belong to it.
EpochsBounded ==
  /\ \A i \in Ring : delivered[i] \subseteq 0 .. epoch
  /\ \A i \in Ring : \A k \in 1 .. Len(unsent[i]) : unsent[i][k] <= epoch
  /\ \A i \in Ring : \A k \in 1 .. Len(outstanding[i]) : outstanding[i][k] <= epoch
  /\ \A i \in Ring : \A k \in 1 .. Len(rings[i]) :
       /\ rings[i][k].kind = "udp" => rings[i][k].ring = i
       /\ rings[i][k].kind = "tcp" => rings[i][k].index = i /\ rings[i][k].epoch <= epoch
  /\ \A k \in 1 .. Len(nfq) : nfq[k].kind = "tcp" => nfq[k].epoch <= epoch
  /\ mark <= arrived

IsCurrent(p, i) == p.kind = "tcp" /\ p.index = i /\ p.epoch = epoch

\* Every copy of a ring's current message is behind the old heartbeats of the
\* ring: in the ring ...
RingOrder ==
  \A i \in Ring : \A p, q \in 1 .. Len(rings[i]) :
    IsCurrent(rings[i][p], i) /\ IsOld(rings[i][q], i) => q < p

\* ... and in the netfilter queue.
QueueOrder ==
  \A i \in Ring : \A p \in 1 .. Len(nfq) : IsCurrent(nfq[p], i) =>
    /\ \A q \in 1 .. Len(rings[i]) : ~IsOld(rings[i][q], i)
    /\ \A q \in 1 .. Len(nfq) : IsOld(nfq[q], i) => q < p

FlushInv == RingOrder /\ QueueOrder /\ RingFlushed

\* The use of the barrier for which the array of rounds is right: the caller
\* waits for every flush and leaves no epoch out, and TCP repeats lost
\* segments only.
Disciplined == "timeout" \notin Faults /\ MaxDup = 0 /\ MaxSkip = 0

Complete == \A i \in Ring : epoch \in delivered[i]

\* Flow i has nothing on its way.
Settled(i) == outstanding[i] = <<>> \/ i \in accepted

\* The message of the current epoch is in one place of flow i at a time: in
\* the ring, ...
InRing(i) ==
  \A k \in 1 .. Len(rings[i]) : rings[i][k].kind = "tcp" =>
    /\ rings[i][k].epoch = epoch /\ ~Settled(i)
    /\ \A l \in 1 .. Len(rings[i]) : rings[i][l].kind = "tcp" => l = k
    /\ \A l \in 1 .. Len(nfq) : ~IsMsgOf(nfq[l], i)

\* ... in the netfilter queue, ...
InQueue(i) ==
  \A k \in 1 .. Len(nfq) : IsMsgOf(nfq[k], i) =>
    /\ nfq[k].epoch = epoch /\ ~Settled(i)
    /\ \A l \in 1 .. Len(nfq) : IsMsgOf(nfq[l], i) => l = k

\* ... with TCP (also when the queue dropped it), not sent, or delivered.
WithTcp(i) ==
  /\ ~Settled(i) => Head(outstanding[i]) = epoch /\ epoch \notin delivered[i]
  /\ unsent[i] # <<>> => unsent[i] = <<epoch>> /\ epoch \notin delivered[i] /\ Settled(i)
  /\ next <= i => unsent[i] = <<>> /\ epoch \notin delivered[i] /\ Settled(i)
  /\ i \in accepted => outstanding[i] # <<>>

TokenInv == \A i \in Ring : InRing(i) /\ InQueue(i) /\ WithTcp(i)

\* The caller flushes the next epoch only when the last one is complete.
PhaseInv ==
  /\ pc \in {"idle", "sending", "waiting", "flushed"}
  /\ pc = "idle" => epoch = 0 /\ next = 0
  /\ pc # "idle" => epoch > 0
  /\ pc = "flushed" => Complete
  /\ epoch_no_sem_post = 0
  /\ barrier_all_processed > 0 => /\ barrier_all_processed = 1
                                  /\ pc = "waiting" /\ Complete

\* Rows behind the current one hold an older round; the current row holds
\* array_round exactly for the rings that have delivered.
RoundInv ==
  LET row == epoch % ARRAY_SIZE
      cell(x, i) == received_barrier_msg_array[x][i]
  IN /\ \A x \in Row, i \in Ring : cell(x, i) <= array_round
     /\ epoch = 0 \/ Complete =>
          \A x \in Row, i \in Ring :
            row = ARRAY_SIZE - 1 \/ x > row => cell(x, i) < array_round
     /\ ~(epoch = 0 \/ Complete) =>
          /\ \A x \in Row, i \in Ring : x > row => cell(x, i) < array_round
          /\ \A i \in Ring : cell(row, i) = array_round <=> epoch \in delivered[i]

DeclaredInv ==
  /\ BarrierSound
  /\ \A e \in 1 .. epoch : e < epoch \/ Complete => e \in declared
=============================================================================
