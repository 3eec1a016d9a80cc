-------------------------- MODULE RxBarrierProofs --------------------------
(* Proofs about RxBarrier, for every number of rings and rows, every bound *)
(* and every set of nodes.                                                 *)
EXTENDS RxBarrier, TLAPS

-----------------------------------------------------------------------------
(* Arithmetic of the row index epoch % ARRAY_SIZE. *)

\* Quotient and remainder of a C division of non-negative numbers.
LEMMA DivMod ==
  ASSUME NEW a \in Nat, NEW A \in Nat \ {0}
  PROVE  a \div A \in Nat /\ a % A \in 0 .. A - 1 /\ a = A * (a \div A) + (a % A)
BY Z3

\* The remainder is the only one in range.
LEMMA ModUnique ==
  ASSUME NEW a \in Nat, NEW A \in Nat \ {0}, NEW q \in Nat, NEW r \in 0 .. A - 1,
         a = A * q + r
  PROVE  a % A = r
<1> DEFINE d == a \div A
           m == a % A
<1>1. d \in Nat /\ m \in 0 .. A - 1 /\ a = A * d + m
  BY DivMod
<1>2. A * (d - q) = r - m
  BY <1>1
<1>3. CASE d > q
  <2>1. A * (d - q) >= A
    BY <1>1, <1>3
  <2> QED
    BY <2>1, <1>1, <1>2
<1>4. CASE d < q
  <2>1. A * (q - d) >= A
    BY <1>1, <1>4
  <2>2. A * (d - q) = -(A * (q - d))
    BY <1>1
  <2> QED
    BY <2>1, <2>2, <1>1, <1>2
<1>5. CASE d = q
  BY <1>1, <1>5
<1> QED
  BY <1>1, <1>3, <1>4, <1>5

\* The row of the next epoch is the next row, or row 0 after the last one.
LEMMA NextRow ==
  ASSUME NEW a \in Nat, NEW A \in Nat \ {0}
  PROVE  (a + 1) % A = IF a % A = A - 1 THEN 0 ELSE (a % A) + 1
<1> DEFINE d == a \div A
           m == a % A
<1>1. d \in Nat /\ m \in 0 .. A - 1 /\ a = A * d + m
  BY DivMod
<1>2. CASE m = A - 1
  <2> HIDE DEF d, m
  <2>1. A * (d + 1) = A * d + A
    BY <1>1
  <2>2. a + 1 = A * (d + 1) + 0
    BY <1>1, <1>2, <2>1
  <2>3. (a + 1) % A = 0
    BY <2>2, ModUnique, <1>1
  <2> QED
    BY <2>3, <1>2 DEF m
<1>3. CASE m # A - 1
  <2>1. a + 1 = A * d + (m + 1) /\ m + 1 \in 0 .. A - 1
    BY <1>1, <1>3
  <2>2. (a + 1) % A = m + 1
    <3> HIDE DEF d, m
    <3> QED
      BY <2>1, ModUnique, <1>1
  <2> QED
    BY <2>2, <1>3
<1> QED
  BY <1>2, <1>3

\* Every epoch has a row.
LEMMA RowOfEpoch == ASSUME NEW a \in Nat PROVE a % ARRAY_SIZE \in Row
BY DivMod, ConstantsAssumption DEF Row

-----------------------------------------------------------------------------
(* Types. *)

\* The head of a sequence is one of its elements.
LEMMA HeadTyped ==
  ASSUME NEW S, NEW s \in Seq(S), s # <<>>
  PROVE  Head(s) \in S
<1>1. Len(s) \in Nat /\ Len(s) # 0
  OBVIOUS
<1>2. 1 \in 1 .. Len(s)
  BY <1>1
<1>3. s[1] \in S
  BY <1>2
<1> QED
  BY <1>3

\* The epoch a segment of flow i carries is a number.
LEMMA EpochTyped ==
  ASSUME NEW f \in [Ring -> Seq(Nat)], NEW i \in Ring, f[i] # <<>>
  PROVE  Head(f[i]) \in Nat
<1>1. f[i] \in Seq(Nat)
  OBVIOUS
<1> QED
  BY <1>1, HeadTyped

\* A ring that takes a packet is still a ring of packets.
LEMMA RingsTyped ==
  ASSUME NEW r \in [Ring -> Seq(Packet)], NEW i \in Ring, NEW m \in Packet
  PROVE  [r EXCEPT ![i] = Append(@, m)] \in [Ring -> Seq(Packet)]
<1>1. r[i] \in Seq(Packet)
  OBVIOUS
<1>2. Append(r[i], m) \in Seq(Packet)
  BY <1>1
<1> QED
  BY <1>2

\* Every variable of the receiver keeps its type.
THEOREM Typing == Spec => []TypeOK
<1>1. Init => TypeOK
  <2> SUFFICES ASSUME Init PROVE TypeOK
    OBVIOUS
  <2>1. [kind |-> "short"] \in Packet
    BY DEF Packet, ShortSegment
  <2>2. {<<>>, <<[kind |-> "short"]>>} \subseteq Seq(Packet)
    BY <2>1
  <2>3. rings \in [Ring -> Seq(Packet)]
    BY <2>2 DEF Init
  <2> QED
    BY <2>3, ConstantsAssumption DEF Init, TypeOK
<1>2. TypeOK /\ [Next]_vars => TypeOK'
  <2> SUFFICES ASSUME TypeOK, [Next]_vars PROVE TypeOK'
    OBVIOUS
  <2> USE DEF TypeOK
  <2>1. CASE FlushStart
    <3>1. epoch' \in Nat /\ next' \in 0 .. IRQ_NUM /\ (pc' = "sending" => next' \in Ring)
      BY <2>1, ConstantsAssumption DEF FlushStart, Ring
    <3> QED
      BY <2>1, <3>1 DEF FlushStart, tcpVars, arrayVars
  <2>2. CASE SendBarrier
    <3>1. next' \in 0 .. IRQ_NUM /\ (pc' = "sending" => next' \in Ring)
      BY <2>2, ConstantsAssumption DEF SendBarrier, Ring
    <3>2. unsent' \in [Ring -> Seq(Nat)]
      BY <2>2 DEF SendBarrier
    <3> QED
      BY <2>2, <3>1, <3>2 DEF SendBarrier, tcpVars, arrayVars
  <2>3. CASE SendFails
    BY <2>3 DEF SendFails, tcpVars, arrayVars
  <2>4. CASE FlushSucceeds
    BY <2>4 DEF FlushSucceeds, tcpVars, arrayVars
  <2>5. CASE FlushTimesOut
    BY <2>5 DEF FlushTimesOut, tcpVars, arrayVars
  <2>6. CASE FlushGivesUp
    BY <2>6 DEF FlushGivesUp, tcpVars, arrayVars
  <2>7. ASSUME NEW i \in Ring, NEW n \in Node, HeartbeatArrives(n, i) PROVE TypeOK'
    <3>1. [kind |-> "udp", node |-> n, ring |-> i, id |-> arrived + 1] \in Packet
      BY DEF Packet, Heartbeat
    <3>2. rings \in [Ring -> Seq(Packet)] /\ arrived' \in Nat
      BY <2>7 DEF HeartbeatArrives
    <3>3. rings' \in [Ring -> Seq(Packet)]
      <4> HIDE DEF TypeOK
      <4> QED
        BY <2>7, <3>1, <3>2, RingsTyped DEF HeartbeatArrives
    <3>4. UNCHANGED <<nfq, queue_loop, tcpVars, arrayVars, callerVars>>
      BY <2>7 DEF HeartbeatArrives
    <3> QED
      BY <3>2, <3>3, <3>4 DEF tcpVars, arrayVars, callerVars
  <2>8. ASSUME NEW i \in Ring, Transmit(i) PROVE TypeOK'
    <3>0. /\ unsent \in [Ring -> Seq(Nat)] /\ unsent[i] # <<>>
          /\ rings \in [Ring -> Seq(Packet)]
      BY <2>8 DEF Transmit
    <3>1. Head(unsent[i]) \in Nat
      <4> HIDE DEF TypeOK
      <4> QED
        BY <3>0, EpochTyped
    <3>2. segment(i, unsent[i]) \in Packet
      BY <3>1 DEF segment, Packet, BarrierMsg
    <3>3. rings' \in [Ring -> Seq(Packet)]
      <4> HIDE DEF TypeOK
      <4> QED
        BY <2>8, <3>0, <3>2, RingsTyped DEF Transmit
    <3>4. unsent' \in [Ring -> Seq(Nat)] /\ outstanding' \in [Ring -> Seq(Nat)]
      BY <2>8 DEF Transmit
    <3>5. UNCHANGED <<nfq, queue_loop, arrived, accepted, dups, arrayVars, callerVars>>
      BY <2>8 DEF Transmit
    <3> QED
      BY <3>3, <3>4, <3>5 DEF arrayVars, callerVars
  <2>9. ASSUME NEW i \in Ring, Retransmit(i) PROVE TypeOK'
    <3>0. /\ outstanding \in [Ring -> Seq(Nat)] /\ outstanding[i] # <<>>
          /\ rings \in [Ring -> Seq(Packet)]
      BY <2>9 DEF Retransmit
    <3>1. Head(outstanding[i]) \in Nat
      <4> HIDE DEF TypeOK
      <4> QED
        BY <3>0, EpochTyped
    <3>2. segment(i, outstanding[i]) \in Packet
      BY <3>1 DEF segment, Packet, BarrierMsg
    <3>3. rings' \in [Ring -> Seq(Packet)]
      <4> HIDE DEF TypeOK
      <4> QED
        BY <2>9, <3>0, <3>2, RingsTyped DEF Retransmit
    <3>4. /\ dups' \in Nat
          /\ UNCHANGED <<nfq, queue_loop, arrived, unsent, outstanding, accepted,
                         arrayVars, callerVars>>
      BY <2>9 DEF Retransmit
    <3> QED
      BY <3>3, <3>4 DEF arrayVars, callerVars
  <2>10. ASSUME NEW i \in Ring, AckArrives(i) PROVE TypeOK'
    BY <2>10 DEF AckArrives, arrayVars, callerVars
  <2>11. ASSUME NEW i \in Ring, RingToQueue(i) PROVE TypeOK'
    <3>1. rings' \in [Ring -> Seq(Packet)] /\ nfq' \in Seq(Packet)
      BY <2>11 DEF RingToQueue
    <3>2. UNCHANGED <<queue_loop, arrived, tcpVars, arrayVars, callerVars>>
      BY <2>11 DEF RingToQueue
    <3> QED
      BY <3>1, <3>2 DEF tcpVars, arrayVars, callerVars
  <2>12. CASE ProcessHeartbeat
    BY <2>12 DEF ProcessHeartbeat, tcpVars, arrayVars, callerVars
  <2>13. CASE ProcessShort
    BY <2>13 DEF ProcessShort, tcpVars, arrayVars, callerVars
  <2>14. CASE ProcessBarrier
    <3> DEFINE p == Head(nfq)
    <3>0. nfq # <<>> /\ p.kind = "tcp" /\ nfq \in Seq(Packet)
      BY <2>14 DEF ProcessBarrier
    <3>1. p \in BarrierMsg
      <4> HIDE DEF TypeOK
      <4>1. p \in Packet
        BY <3>0, HeadTyped
      <4> HIDE DEF p
      <4> QED
        BY <4>1, <3>0 DEF Packet, Heartbeat, ShortSegment, BarrierMsg
    <3>2. p.epoch \in Nat /\ p.index \in Ring /\ p.epoch % ARRAY_SIZE \in Row
      BY <3>1, RowOfEpoch DEF BarrierMsg
    <3>3. nfq' \in Seq(Packet) /\ accepted' \in SUBSET Ring
      BY <2>14, <3>2 DEF ProcessBarrier
    <3>4. CASE p.epoch <= 0
      BY <2>14, <3>3, <3>4 DEF ProcessBarrier, arrayVars, callerVars
    <3>5. CASE ~(p.epoch <= 0)
      <4>1. RecordBarrier(p.epoch, p.index)
        BY <2>14, <3>5 DEF ProcessBarrier
      <4> HIDE DEF p
      <4>2. received_barrier_msg_array' \in [Row -> [Ring -> Nat]]
        BY <4>1, <3>2 DEF RecordBarrier
      <4>3. array_round' \in Nat /\ barrier_all_processed' \in Nat
        BY <4>1, <3>2 DEF RecordBarrier, roundAfter
      <4>4. delivered' \in [Ring -> SUBSET Nat] /\ declared' \in SUBSET Nat
        BY <4>1, <3>2 DEF RecordBarrier
      <4> QED
        BY <2>14, <3>3, <4>2, <4>3, <4>4 DEF ProcessBarrier, callerVars
    <3> QED
      BY <3>4, <3>5
  <2>15. CASE QueueThreadExits
    BY <2>15 DEF QueueThreadExits, tcpVars, arrayVars, callerVars
  <2>16. CASE UNCHANGED vars
    BY <2>16 DEF vars, tcpVars, arrayVars, callerVars
  <2> QED
    BY <2>1, <2>2, <2>3, <2>4, <2>5, <2>6, <2>7, <2>8, <2>9, <2>10, <2>11,
       <2>12, <2>13, <2>14, <2>15, <2>16
    DEF Next, Caller, Network, QueueThread, Quiescent
<1> QED
  BY <1>1, <1>2, PTL DEF Spec

-----------------------------------------------------------------------------
(* The order of packets. *)

\* Positions in the tail of a sequence.
LEMMA TailPositions ==
  ASSUME NEW S, NEW s \in Seq(S), s # <<>>
  PROVE  /\ Len(s) \in Nat /\ 1 \in 1 .. Len(s) /\ Head(s) = s[1]
         /\ Tail(s) \in Seq(S) /\ Len(Tail(s)) = Len(s) - 1
         /\ \A k \in 1 .. Len(Tail(s)) : k + 1 \in 1 .. Len(s) /\ Tail(s)[k] = s[k + 1]
OBVIOUS

\* Positions in an extended sequence.
LEMMA AppendPositions ==
  ASSUME NEW S, NEW s \in Seq(S), NEW e \in S
  PROVE  /\ Append(s, e) \in Seq(S) /\ Len(Append(s, e)) = Len(s) + 1
         /\ \A k \in 1 .. Len(Append(s, e)) :
              \/ k \in 1 .. Len(s) /\ Append(s, e)[k] = s[k]
              \/ k = Len(s) + 1 /\ Append(s, e)[k] = e
OBVIOUS

\* A packet that joins ring i goes behind the packets already there.
LEMMA RingAppend ==
  ASSUME TypeOK, NEW i \in Ring, NEW m \in Packet,
         rings' = [rings EXCEPT ![i] = Append(@, m)]
  PROVE  \A j \in Ring : \A k \in 1 .. Len(rings'[j]) :
           \/ k \in 1 .. Len(rings[j]) /\ rings'[j][k] = rings[j][k]
           \/ j = i /\ k = Len(rings[i]) + 1 /\ rings'[j][k] = m
<1>1. rings[i] \in Seq(Packet) /\ rings'[i] = Append(rings[i], m)
  BY DEF TypeOK
<1>2. \A j \in Ring : j # i => rings'[j] = rings[j]
  BY DEF TypeOK
<1> QED
  BY <1>1, <1>2

\* The packets of ring i move up when the first one leaves.
LEMMA RingTail ==
  ASSUME TypeOK, NEW i \in Ring, rings[i] # <<>>,
         rings' = [rings EXCEPT ![i] = Tail(@)]
  PROVE  /\ \A j \in Ring \ {i} : rings'[j] = rings[j]
         /\ \A k \in 1 .. Len(rings'[i]) :
              k + 1 \in 1 .. Len(rings[i]) /\ rings'[i][k] = rings[i][k + 1]
         /\ 1 \in 1 .. Len(rings[i]) /\ Head(rings[i]) = rings[i][1]
<1>1. rings[i] \in Seq(Packet) /\ rings'[i] = Tail(rings[i])
  BY DEF TypeOK
<1>2. \A j \in Ring \ {i} : rings'[j] = rings[j]
  BY DEF TypeOK
<1>3. /\ \A k \in 1 .. Len(Tail(rings[i])) :
           k + 1 \in 1 .. Len(rings[i]) /\ Tail(rings[i])[k] = rings[i][k + 1]
      /\ 1 \in 1 .. Len(rings[i]) /\ Head(rings[i]) = rings[i][1]
  BY <1>1, TailPositions
<1> QED
  BY <1>1, <1>2, <1>3

\* The same for the netfilter queue.
LEMMA QueueTail ==
  ASSUME TypeOK, nfq # <<>>, nfq' = Tail(nfq)
  PROVE  /\ \A k \in 1 .. Len(nfq') : k + 1 \in 1 .. Len(nfq) /\ nfq'[k] = nfq[k + 1]
         /\ 1 \in 1 .. Len(nfq) /\ Head(nfq) = nfq[1]
BY DEF TypeOK

\* A packet that leaves a ring becomes the last of the netfilter queue or is lost.
LEMMA QueueAppend ==
  ASSUME TypeOK, NEW i \in Ring, RingToQueue(i)
  PROVE  \A k \in 1 .. Len(nfq') :
           \/ k \in 1 .. Len(nfq) /\ nfq'[k] = nfq[k]
           \/ k = Len(nfq) + 1 /\ nfq'[k] = rings[i][1]
<1>1. rings[i] \in Seq(Packet) /\ rings[i] # <<>> /\ nfq \in Seq(Packet)
  BY DEF TypeOK, RingToQueue
<1>2. Head(rings[i]) = rings[i][1] /\ Head(rings[i]) \in Packet
  BY <1>1
<1>3. CASE nfq' = nfq
  BY <1>1, <1>3
<1>4. CASE nfq' = Append(nfq, Head(rings[i]))
  BY <1>1, <1>2, <1>4
<1> QED
  BY <1>3, <1>4 DEF RingToQueue

\* The fields of a packet have their types.
LEMMA PacketFields ==
  ASSUME NEW p \in Packet
  PROVE  /\ p.kind = "tcp" => p.epoch \in Nat /\ p.index \in Ring
         /\ p.kind = "udp" => p.id \in Nat /\ p.ring \in Ring
BY DEF Packet, Heartbeat, BarrierMsg, ShortSegment

\* What the typing invariant says of the packets on the machine.
LEMMA PacketsTyped ==
  ASSUME TypeOK
  PROVE  /\ \A i \in Ring : rings[i] \in Seq(Packet)
         /\ \A i \in Ring : \A k \in 1 .. Len(rings[i]) : rings[i][k] \in Packet
         /\ nfq \in Seq(Packet)
         /\ \A k \in 1 .. Len(nfq) : nfq[k] \in Packet
<1>1. (\A i \in Ring : rings[i] \in Seq(Packet)) /\ nfq \in Seq(Packet)
  BY DEF TypeOK
<1> QED
  BY <1>1

\* No message of an epoch exists before the caller has begun to flush it.
THEOREM Bounded == Spec => []EpochsBounded
<1>1. Init => EpochsBounded
  <2> SUFFICES ASSUME Init PROVE EpochsBounded
    OBVIOUS
  <2>1. \A i \in Ring : \A k \in 1 .. Len(rings[i]) : rings[i][k].kind = "short"
    BY DEF Init
  <2> QED
    BY <2>1 DEF Init, EpochsBounded
<1>2. TypeOK /\ EpochsBounded /\ [Next]_vars => EpochsBounded'
  <2> SUFFICES ASSUME TypeOK, EpochsBounded, [Next]_vars PROVE EpochsBounded'
    OBVIOUS
  <2>a. /\ epoch \in Nat /\ arrived \in Nat /\ mark \in Nat
        /\ delivered \in [Ring -> SUBSET Nat]
        /\ unsent \in [Ring -> Seq(Nat)] /\ outstanding \in [Ring -> Seq(Nat)]
    BY DEF TypeOK
  <2>1. CASE FlushStart
    <3>1. epoch < epoch' /\ epoch' \in Nat
      BY <2>1, <2>a, ConstantsAssumption DEF FlushStart
    <3>2. UNCHANGED <<rings, nfq, unsent, outstanding, delivered, arrived>> /\ mark' = arrived
      BY <2>1 DEF FlushStart, tcpVars, arrayVars
    <3>3. \A i \in Ring : delivered[i] \subseteq 0 .. epoch'
      BY <3>1, <2>a DEF EpochsBounded
    <3>4. /\ \A i \in Ring : \A k \in 1 .. Len(unsent[i]) : unsent[i][k] <= epoch'
          /\ \A i \in Ring : \A k \in 1 .. Len(outstanding[i]) : outstanding[i][k] <= epoch'
      BY <3>1, <2>a DEF EpochsBounded
    <3>5. \A i \in Ring : \A k \in 1 .. Len(rings[i]) :
            /\ rings[i][k].kind = "udp" => rings[i][k].ring = i
            /\ rings[i][k].kind = "tcp" => rings[i][k].index = i /\ rings[i][k].epoch <= epoch'
      BY SMTT(30), <3>1, <2>a, PacketsTyped, PacketFields DEF EpochsBounded
    <3>6. \A k \in 1 .. Len(nfq) : nfq[k].kind = "tcp" => nfq[k].epoch <= epoch'
      BY <3>1, <2>a, PacketsTyped, PacketFields DEF EpochsBounded
    <3> QED
      BY SMTT(30), <3>2, <3>3, <3>4, <3>5, <3>6, <2>a DEF EpochsBounded
  <2>2. CASE SendBarrier
    <3>1. \A i \in Ring : \A k \in 1 .. Len(unsent'[i]) : unsent'[i][k] <= epoch
      <4>1. next \in Ring
        BY <2>2 DEF SendBarrier, TypeOK
      <4>2. unsent'[next] = Append(unsent[next], epoch)
        BY <2>2, <2>a, <4>1 DEF SendBarrier
      <4>3. \A i \in Ring \ {next} : unsent'[i] = unsent[i]
        BY <2>2, <2>a, <4>1 DEF SendBarrier
      <4>4. \A k \in 1 .. Len(unsent'[next]) :
              \/ k \in 1 .. Len(unsent[next]) /\ unsent'[next][k] = unsent[next][k]
              \/ unsent'[next][k] = epoch
        <5>1. unsent[next] \in Seq(Nat)
          BY <4>1, <2>a
        <5> QED
          BY <5>1, <4>2, <2>a, AppendPositions
      <4>5. \A k \in 1 .. Len(unsent'[next]) : unsent'[next][k] <= epoch
        <5>1. \A k \in 1 .. Len(unsent[next]) : unsent[next][k] <= epoch
          BY <4>1 DEF EpochsBounded
        <5>2. epoch <= epoch
          BY <2>a
        <5> QED
          BY <5>1, <5>2, <4>4
      <4> QED
        BY <4>3, <4>5 DEF EpochsBounded
    <3> QED
      BY SMTT(30), <2>2, <3>1 DEF EpochsBounded, SendBarrier, arrayVars
  <2>3. CASE SendFails
    BY <2>3 DEF EpochsBounded, SendFails, tcpVars, arrayVars
  <2>4. CASE FlushSucceeds
    BY <2>4 DEF EpochsBounded, FlushSucceeds, tcpVars
  <2>5. CASE FlushTimesOut
    BY <2>5 DEF EpochsBounded, FlushTimesOut, tcpVars, arrayVars
  <2>6. CASE FlushGivesUp
    BY <2>6 DEF EpochsBounded, FlushGivesUp, tcpVars, arrayVars
  <2>7. ASSUME NEW i \in Ring, NEW n \in Node, HeartbeatArrives(n, i) PROVE EpochsBounded'
    <3> DEFINE m == [kind |-> "udp", node |-> n, ring |-> i, id |-> arrived + 1]
    <3>1. m \in Packet /\ m.kind = "udp" /\ m.ring = i
      BY <2>a DEF Packet, Heartbeat
    <3>2. rings' = [rings EXCEPT ![i] = Append(@, m)]
      BY <2>7 DEF HeartbeatArrives
    <3>3. /\ UNCHANGED <<nfq, unsent, outstanding, delivered, epoch, mark>>
          /\ arrived' = arrived + 1
      BY <2>7 DEF HeartbeatArrives, tcpVars, arrayVars, callerVars
    <3> HIDE DEF m
    <3>4. \A j \in Ring : \A k \in 1 .. Len(rings'[j]) :
            \/ k \in 1 .. Len(rings[j]) /\ rings'[j][k] = rings[j][k]
            \/ j = i /\ rings'[j][k] = m
      BY SMTT(30), <3>1, <3>2, RingAppend
    <3>5. mark <= arrived'
      BY <2>a, <3>3 DEF EpochsBounded
    <3> QED
      BY SMTT(30), <3>1, <3>3, <3>4, <3>5 DEF EpochsBounded
  <2>8. ASSUME NEW i \in Ring, Transmit(i) PROVE EpochsBounded'
    <3> DEFINE m == segment(i, unsent[i])
    <3>1. unsent[i] \in Seq(Nat) /\ unsent[i] # <<>>
      BY <2>8, <2>a DEF Transmit
    <3>2. Head(unsent[i]) \in Nat /\ Head(unsent[i]) <= epoch
      BY <3>1 DEF EpochsBounded
    <3>3. m \in Packet /\ m.kind = "tcp" /\ m.index = i /\ m.epoch <= epoch
      BY <3>2 DEF segment, Packet, BarrierMsg
    <3>4. rings' = [rings EXCEPT ![i] = Append(@, m)]
      BY <2>8 DEF Transmit
    <3>5. UNCHANGED <<nfq, arrived, delivered, epoch, mark>>
      BY <2>8 DEF Transmit, arrayVars, callerVars
    <3> HIDE DEF m
    <3>6. \A j \in Ring : \A k \in 1 .. Len(rings'[j]) :
            \/ k \in 1 .. Len(rings[j]) /\ rings'[j][k] = rings[j][k]
            \/ j = i /\ rings'[j][k] = m
      BY SMTT(30), <3>3, <3>4, RingAppend
    <3>7. /\ \A j \in Ring : unsent'[j] = IF j = i THEN <<>> ELSE unsent[j]
          /\ \A j \in Ring : outstanding'[j] = IF j = i THEN unsent[j] ELSE outstanding[j]
      BY <2>8, <2>a DEF Transmit
    <3>8. /\ \A j \in Ring : \A k \in 1 .. Len(unsent'[j]) : unsent'[j][k] <= epoch
          /\ \A j \in Ring : \A k \in 1 .. Len(outstanding'[j]) : outstanding'[j][k] <= epoch
      BY <3>7 DEF EpochsBounded
    <3> QED
      BY SMTT(30), <3>3, <3>5, <3>6, <3>8 DEF EpochsBounded
  <2>9. ASSUME NEW i \in Ring, Retransmit(i) PROVE EpochsBounded'
    <3> DEFINE m == segment(i, outstanding[i])
    <3>1. outstanding[i] \in Seq(Nat) /\ outstanding[i] # <<>>
      BY <2>9, <2>a DEF Retransmit
    <3>2. Head(outstanding[i]) \in Nat /\ Head(outstanding[i]) <= epoch
      BY <3>1 DEF EpochsBounded
    <3>3. m \in Packet /\ m.kind = "tcp" /\ m.index = i /\ m.epoch <= epoch
      BY <3>2 DEF segment, Packet, BarrierMsg
    <3>4. rings' = [rings EXCEPT ![i] = Append(@, m)]
      BY <2>9 DEF Retransmit
    <3>5. UNCHANGED <<nfq, arrived, unsent, outstanding, delivered, epoch, mark>>
      BY <2>9 DEF Retransmit, arrayVars, callerVars
    <3> HIDE DEF m
    <3>6. \A j \in Ring : \A k \in 1 .. Len(rings'[j]) :
            \/ k \in 1 .. Len(rings[j]) /\ rings'[j][k] = rings[j][k]
            \/ j = i /\ rings'[j][k] = m
      BY SMTT(30), <3>3, <3>4, RingAppend
    <3> QED
      BY SMTT(30), <3>3, <3>5, <3>6 DEF EpochsBounded
  <2>10. ASSUME NEW i \in Ring, AckArrives(i) PROVE EpochsBounded'
    <3>1. \A j \in Ring : outstanding'[j] = IF j = i THEN <<>> ELSE outstanding[j]
      BY <2>10, <2>a DEF AckArrives
    <3> QED
      BY SMTT(30), <2>10, <3>1 DEF EpochsBounded, AckArrives, arrayVars, callerVars
  <2>11. ASSUME NEW i \in Ring, RingToQueue(i) PROVE EpochsBounded'
    <3>1. /\ rings[i] # <<>>
          /\ rings' = [rings EXCEPT ![i] = Tail(@)]
          /\ UNCHANGED <<arrived, unsent, outstanding, delivered, epoch, mark>>
      BY <2>11 DEF RingToQueue, tcpVars, arrayVars, callerVars
    <3>2. /\ \A j \in Ring \ {i} : rings'[j] = rings[j]
          /\ \A k \in 1 .. Len(rings'[i]) :
               k + 1 \in 1 .. Len(rings[i]) /\ rings'[i][k] = rings[i][k + 1]
          /\ 1 \in 1 .. Len(rings[i])
      BY <3>1, RingTail
    <3>3. \A j \in Ring : \A k \in 1 .. Len(rings'[j]) :
            /\ rings'[j][k].kind = "udp" => rings'[j][k].ring = j
            /\ rings'[j][k].kind = "tcp" => rings'[j][k].index = j /\ rings'[j][k].epoch <= epoch
      BY SMTT(30), <3>2 DEF EpochsBounded
    <3>4. \A k \in 1 .. Len(nfq') : nfq'[k].kind = "tcp" => nfq'[k].epoch <= epoch
      BY <3>2, QueueAppend, <2>11 DEF EpochsBounded
    <3> QED
      BY SMTT(30), <3>1, <3>3, <3>4 DEF EpochsBounded
  <2>12. CASE ProcessHeartbeat
    <3>1. \A k \in 1 .. Len(nfq') : nfq'[k].kind = "tcp" => nfq'[k].epoch <= epoch
      BY SMTT(30), <2>12, QueueTail DEF EpochsBounded, ProcessHeartbeat
    <3> QED
      BY <2>12, <3>1 DEF EpochsBounded, ProcessHeartbeat, tcpVars, arrayVars, callerVars
  <2>13. CASE ProcessShort
    <3>1. \A k \in 1 .. Len(nfq') : nfq'[k].kind = "tcp" => nfq'[k].epoch <= epoch
      BY SMTT(30), <2>13, QueueTail DEF EpochsBounded, ProcessShort
    <3> QED
      BY <2>13, <3>1 DEF EpochsBounded, ProcessShort, tcpVars, arrayVars, callerVars
  <2>14. CASE ProcessBarrier
    <3> DEFINE p == Head(nfq)
    <3>1. /\ nfq # <<>> /\ nfq' = Tail(nfq) /\ p.kind = "tcp"
          /\ UNCHANGED <<rings, arrived, unsent, outstanding, epoch, mark>>
      BY <2>14 DEF ProcessBarrier, callerVars
    <3>2. /\ \A k \in 1 .. Len(nfq') : k + 1 \in 1 .. Len(nfq) /\ nfq'[k] = nfq[k + 1]
          /\ 1 \in 1 .. Len(nfq) /\ p = nfq[1]
      BY <3>1, QueueTail
    <3>3. p \in Packet /\ p.epoch <= epoch
      BY <3>1, <3>2, PacketsTyped DEF EpochsBounded
    <3>4. p.epoch \in Nat /\ p.index \in Ring
      BY <3>1, <3>3, PacketFields
    <3>5. delivered' = delivered \/ delivered' = [delivered EXCEPT ![p.index] = @ \cup {p.epoch}]
      BY <2>14 DEF ProcessBarrier, RecordBarrier, arrayVars
    <3> HIDE DEF p
    <3>6. \A i \in Ring : delivered'[i] \subseteq 0 .. epoch
      <4>1. p.epoch \in 0 .. epoch
        BY <2>a, <3>3, <3>4
      <4>2. \A i \in Ring : delivered'[i] \subseteq delivered[i] \cup {p.epoch}
        BY <2>a, <3>4, <3>5
      <4> QED
        BY <4>1, <4>2 DEF EpochsBounded
    <3>7. \A k \in 1 .. Len(nfq') : nfq'[k].kind = "tcp" => nfq'[k].epoch <= epoch
      BY <3>2 DEF EpochsBounded
    <3> QED
      BY <3>1, <3>6, <3>7 DEF EpochsBounded
  <2>15. CASE QueueThreadExits
    BY SMTT(30), <2>15 DEF EpochsBounded, QueueThreadExits, tcpVars, arrayVars, callerVars
  <2>16. CASE UNCHANGED vars
    BY <2>16 DEF EpochsBounded, vars, tcpVars, arrayVars, callerVars
  <2> QED
    BY <2>1, <2>2, <2>3, <2>4, <2>5, <2>6, <2>7, <2>8, <2>9, <2>10, <2>11,
       <2>12, <2>13, <2>14, <2>15, <2>16
    DEF Next, Caller, Network, QueueThread, Quiescent
<1> QED
  BY <1>1, <1>2, Typing, PTL DEF Spec

\* A step that changes neither the packets nor what is current or old.
LEMMA FlushInvStable ==
  ASSUME FlushInv, UNCHANGED <<rings, nfq, epoch, mark, delivered>>
  PROVE  FlushInv'
BY SMTT(30) DEF FlushInv, RingOrder, QueueOrder, RingFlushed, Flushed, IsCurrent, IsOld

\* A packet that joins a ring keeps the order unless it is an old heartbeat.
LEMMA FlushInvAppend ==
  ASSUME TypeOK, FlushInv, NEW i \in Ring, NEW m \in Packet,
         rings' = [rings EXCEPT ![i] = Append(@, m)],
         \A j \in Ring : ~IsOld(m, j),
         UNCHANGED <<nfq, epoch, mark, delivered>>
  PROVE  FlushInv'
<1>1. \A j \in Ring : \A k \in 1 .. Len(rings'[j]) :
        \/ k \in 1 .. Len(rings[j]) /\ rings'[j][k] = rings[j][k]
        \/ j = i /\ k = Len(rings[i]) + 1 /\ rings'[j][k] = m
  BY RingAppend
<1>2. \A j \in Ring : \A k \in 1 .. Len(rings'[j]) :
        IsOld(rings'[j][k], j) => k \in 1 .. Len(rings[j]) /\ IsOld(rings[j][k], j)
  BY <1>1
<1>4. RingOrder'
  <2> SUFFICES ASSUME NEW j \in Ring,
                      NEW p \in 1 .. Len(rings'[j]), NEW q \in 1 .. Len(rings'[j]),
                      IsCurrent(rings'[j][p], j), IsOld(rings'[j][q], j)
               PROVE  q < p
    BY SMTT(30) DEF RingOrder, IsCurrent, IsOld
  <2>1. q \in 1 .. Len(rings[j]) /\ IsOld(rings[j][q], j)
    BY <1>2
  <2>2. CASE p \in 1 .. Len(rings[j]) /\ rings'[j][p] = rings[j][p]
    BY <2>1, <2>2 DEF FlushInv, RingOrder
  <2>3. CASE j = i /\ p = Len(rings[i]) + 1
    BY SMTT(30), <2>1, <2>3, PacketsTyped
  <2> QED
    BY <1>1, <2>2, <2>3
<1>5. QueueOrder'
  BY SMTT(30), <1>2 DEF FlushInv, QueueOrder, IsCurrent, IsOld
<1>6. RingFlushed'
  BY SMTT(30), <1>2 DEF FlushInv, RingFlushed, Flushed, IsOld
<1> QED
  BY <1>4, <1>5, <1>6 DEF FlushInv

\* The queue thread takes the first packet and records nothing new.
LEMMA FlushInvTail ==
  ASSUME TypeOK, FlushInv, nfq # <<>>, nfq' = Tail(nfq),
         UNCHANGED <<rings, epoch, mark, delivered>>
  PROVE  FlushInv'
<1>1. \A k \in 1 .. Len(nfq') : k + 1 \in 1 .. Len(nfq) /\ nfq'[k] = nfq[k + 1]
  BY QueueTail
<1>2. RingOrder'
  BY SMTT(30) DEF FlushInv, RingOrder, IsCurrent, IsOld
<1>3. QueueOrder'
  <2> SUFFICES ASSUME NEW j \in Ring, NEW p \in 1 .. Len(nfq'), IsCurrent(nfq'[p], j)
               PROVE  /\ \A q \in 1 .. Len(rings[j]) : ~IsOld(rings[j][q], j)
                      /\ \A q \in 1 .. Len(nfq') : IsOld(nfq'[q], j) => q < p
    BY DEF QueueOrder, IsCurrent, IsOld
  <2>1. p + 1 \in 1 .. Len(nfq) /\ IsCurrent(nfq[p + 1], j)
    BY <1>1
  <2>2. /\ \A q \in 1 .. Len(rings[j]) : ~IsOld(rings[j][q], j)
        /\ \A q \in 1 .. Len(nfq) : IsOld(nfq[q], j) => q < p + 1
    BY <2>1 DEF FlushInv, QueueOrder
  <2>3. ASSUME NEW q \in 1 .. Len(nfq'), IsOld(nfq'[q], j) PROVE q < p
    <3>1. q + 1 \in 1 .. Len(nfq) /\ IsOld(nfq[q + 1], j)
      BY <1>1, <2>3
    <3>2. q + 1 < p + 1
      BY <3>1, <2>2
    <3> QED
      BY <3>2
  <2> QED
    BY <2>2, <2>3
<1>4. RingFlushed'
  BY <1>1 DEF FlushInv, RingFlushed, Flushed, IsOld
<1> QED
  BY <1>2, <1>3, <1>4 DEF FlushInv

\* A packet moves from its ring to the netfilter queue, or is dropped there.
LEMMA FlushInvMove ==
  ASSUME TypeOK, EpochsBounded, FlushInv, NEW i \in Ring, RingToQueue(i)
  PROVE  FlushInv'
<1>1. /\ rings[i] # <<>>
      /\ rings' = [rings EXCEPT ![i] = Tail(@)]
      /\ UNCHANGED <<epoch, mark, delivered>>
  BY DEF RingToQueue, tcpVars, arrayVars, callerVars
<1>2. /\ \A j \in Ring \ {i} : rings'[j] = rings[j]
      /\ \A k \in 1 .. Len(rings'[i]) :
           k + 1 \in 1 .. Len(rings[i]) /\ rings'[i][k] = rings[i][k + 1]
      /\ 1 \in 1 .. Len(rings[i])
  BY <1>1, RingTail
<1>3. \A k \in 1 .. Len(nfq') :
        \/ k \in 1 .. Len(nfq) /\ nfq'[k] = nfq[k]
        \/ k = Len(nfq) + 1 /\ nfq'[k] = rings[i][1]
  BY QueueAppend
<1>4. \A j \in Ring : IsOld(rings[i][1], j) \/ IsCurrent(rings[i][1], j) => j = i
  BY SMTT(30), <1>2 DEF EpochsBounded, IsOld, IsCurrent
<1>5. \A j \in Ring : \A k \in 1 .. Len(rings'[j]) : IsOld(rings'[j][k], j) =>
        \E l \in 1 .. Len(rings[j]) : IsOld(rings[j][l], j) /\ (j = i => l = k + 1)
  BY <1>2
<1>6. RingOrder'
  <2> SUFFICES ASSUME NEW j \in Ring,
                      NEW p \in 1 .. Len(rings'[j]), NEW q \in 1 .. Len(rings'[j]),
                      IsCurrent(rings'[j][p], j), IsOld(rings'[j][q], j)
               PROVE  q < p
    BY ZenonT(60), <1>1 DEF RingOrder, IsCurrent, IsOld
  <2>1. CASE j = i
    <3>1. p + 1 \in 1 .. Len(rings[i]) /\ q + 1 \in 1 .. Len(rings[i])
      BY <1>2, <2>1
    <3>2. IsCurrent(rings[i][p + 1], i) /\ IsOld(rings[i][q + 1], i)
      BY <1>2, <2>1
    <3>3. q + 1 < p + 1
      BY <3>1, <3>2 DEF FlushInv, RingOrder
    <3> QED
      BY SMTT(30), <3>3
  <2>2. CASE j # i
    BY <1>2, <2>2 DEF FlushInv, RingOrder
  <2> QED
    BY <2>1, <2>2
<1>7. QueueOrder'
  <2> SUFFICES ASSUME NEW j \in Ring, NEW p \in 1 .. Len(nfq'), IsCurrent(nfq'[p], j)
               PROVE  /\ \A q \in 1 .. Len(rings'[j]) : ~IsOld(rings'[j][q], j)
                      /\ \A q \in 1 .. Len(nfq') : IsOld(nfq'[q], j) => q < p
    BY <1>1 DEF QueueOrder, IsCurrent, IsOld
  <2>1. CASE p \in 1 .. Len(nfq) /\ nfq'[p] = nfq[p]
    <3>1. /\ \A q \in 1 .. Len(rings[j]) : ~IsOld(rings[j][q], j)
          /\ \A q \in 1 .. Len(nfq) : IsOld(nfq[q], j) => q < p
      BY <2>1 DEF FlushInv, QueueOrder
    <3>2. ~IsOld(rings[i][1], j)
      BY <3>1, <1>2, <1>4
    <3> QED
      BY <3>1, <3>2, <1>3, <1>5
  <2>2. CASE p = Len(nfq) + 1 /\ nfq'[p] = rings[i][1]
    <3>1. j = i /\ IsCurrent(rings[i][1], i)
      BY <2>2, <1>4
    <3>2. \A q \in 1 .. Len(rings[i]) : IsOld(rings[i][q], i) => q < 1
      BY <3>1, <1>2 DEF FlushInv, RingOrder
    <3>3. \A q \in 1 .. Len(rings[i]) : ~IsOld(rings[i][q], i)
      BY <3>2
    <3>4. \A q \in 1 .. Len(rings'[j]) : ~IsOld(rings'[j][q], j)
      BY <3>1, <3>3, <1>5
    <3>5. \A q \in 1 .. Len(nfq') : IsOld(nfq'[q], j) => q \in 1 .. Len(nfq)
      BY <3>1, <3>3, <1>2, <1>3
    <3>6. Len(nfq) \in Nat
      BY PacketsTyped
    <3> QED
      BY <3>4, <3>5, <3>6, <2>2
  <2> QED
    BY <1>3, <2>1, <2>2
<1>8. RingFlushed'
  <2> SUFFICES ASSUME NEW j \in Ring, epoch \in delivered[j]
               PROVE  /\ \A k \in 1 .. Len(rings'[j]) : ~IsOld(rings'[j][k], j)
                      /\ \A k \in 1 .. Len(nfq') : ~IsOld(nfq'[k], j)
    BY <1>1 DEF RingFlushed, Flushed, IsOld
  <2>1. /\ \A k \in 1 .. Len(rings[j]) : ~IsOld(rings[j][k], j)
        /\ \A k \in 1 .. Len(nfq) : ~IsOld(nfq[k], j)
    BY DEF FlushInv, RingFlushed, Flushed
  <2>2. ~IsOld(rings[i][1], j)
    BY <2>1, <1>2, <1>4
  <2> QED
    BY <2>1, <2>2, <1>3, <1>5
<1> QED
  BY <1>6, <1>7, <1>8 DEF FlushInv

\* The queue thread records a message: the heartbeats before it are gone.
LEMMA FlushInvRecord ==
  ASSUME TypeOK, EpochsBounded, FlushInv, ProcessBarrier
  PROVE  FlushInv'
<1> DEFINE p == Head(nfq)
<1>1. /\ nfq # <<>> /\ nfq' = Tail(nfq) /\ p.kind = "tcp"
      /\ UNCHANGED <<rings, epoch, mark>>
  BY DEF ProcessBarrier, callerVars
<1>2. /\ \A k \in 1 .. Len(nfq') : k + 1 \in 1 .. Len(nfq) /\ nfq'[k] = nfq[k + 1]
      /\ 1 \in 1 .. Len(nfq) /\ p = nfq[1]
  BY <1>1, QueueTail
<1>3. p.epoch \in Nat /\ p.index \in Ring
  BY <1>1, <1>2, PacketsTyped, PacketFields
<1>4. delivered' = delivered \/ delivered' = [delivered EXCEPT ![p.index] = @ \cup {p.epoch}]
  BY DEF ProcessBarrier, RecordBarrier, arrayVars
<1> HIDE DEF p
<1>5. CASE delivered' = delivered
  BY <1>1, <1>5, FlushInvTail
<1>6. CASE delivered' = [delivered EXCEPT ![p.index] = @ \cup {p.epoch}]
  <2>1. \A j \in Ring : epoch \in delivered'[j] =>
          epoch \in delivered[j] \/ (j = p.index /\ p.epoch = epoch)
    BY <1>3, <1>6 DEF TypeOK
  <2>2. ASSUME NEW j \in Ring, epoch \in delivered'[j] PROVE Flushed(j)
    <3>1. CASE epoch \in delivered[j]
      BY <3>1 DEF FlushInv, RingFlushed
    <3>2. CASE j = p.index /\ p.epoch = epoch
      <4>1. IsCurrent(nfq[1], j)
        BY <1>1, <1>2, <3>2 DEF IsCurrent
      <4>2. \A q \in 1 .. Len(nfq) : IsOld(nfq[q], j) => q < 1
        BY <4>1, <1>2 DEF FlushInv, QueueOrder
      <4>3. \A q \in 1 .. Len(nfq) : ~IsOld(nfq[q], j)
        BY <4>2
      <4>4. \A q \in 1 .. Len(rings[j]) : ~IsOld(rings[j][q], j)
        BY <4>1, <1>2 DEF FlushInv, QueueOrder
      <4> QED
        BY <4>3, <4>4 DEF Flushed
    <3> QED
      BY <2>1, <2>2, <3>1, <3>2
  <2>3. RingFlushed'
    BY <1>1, <1>2, <2>2 DEF RingFlushed, Flushed, IsOld
  <2>4. RingOrder'
    BY SMTT(30), <1>1 DEF FlushInv, RingOrder, IsCurrent, IsOld
  <2>5. QueueOrder'
    <3> SUFFICES ASSUME NEW j \in Ring, NEW k \in 1 .. Len(nfq'), IsCurrent(nfq'[k], j)
                 PROVE  /\ \A q \in 1 .. Len(rings[j]) : ~IsOld(rings[j][q], j)
                        /\ \A q \in 1 .. Len(nfq') : IsOld(nfq'[q], j) => q < k
      BY <1>1 DEF QueueOrder, IsCurrent, IsOld
    <3>1. k + 1 \in 1 .. Len(nfq) /\ IsCurrent(nfq[k + 1], j)
      BY <1>2
    <3>2. /\ \A q \in 1 .. Len(rings[j]) : ~IsOld(rings[j][q], j)
          /\ \A q \in 1 .. Len(nfq) : IsOld(nfq[q], j) => q < k + 1
      BY <3>1 DEF FlushInv, QueueOrder
    <3>3. ASSUME NEW q \in 1 .. Len(nfq'), IsOld(nfq'[q], j) PROVE q < k
      <4>1. q + 1 \in 1 .. Len(nfq) /\ IsOld(nfq[q + 1], j)
        BY <1>2, <3>3
      <4>2. q + 1 < k + 1
        BY <4>1, <3>2
      <4> QED
        BY <4>2
    <3> QED
      BY <3>2, <3>3
  <2> QED
    BY <2>3, <2>4, <2>5 DEF FlushInv
<1> QED
  BY <1>4, <1>5, <1>6

\* The messages of a ring push its old heartbeats out, whatever the caller
\* does, however often TCP repeats a message and whatever the queue drops.
THEOREM MessagesFlush == Spec => []RingFlushed
<1>1. Init => FlushInv
  <2> SUFFICES ASSUME Init PROVE FlushInv
    OBVIOUS
  <2>1. \A i \in Ring : \A k \in 1 .. Len(rings[i]) : rings[i][k].kind = "short"
    BY DEF Init
  <2> QED
    BY SMTT(30), <2>1 DEF Init, FlushInv, RingOrder, QueueOrder, RingFlushed, Flushed, IsCurrent, IsOld
<1>2. TypeOK /\ EpochsBounded /\ FlushInv /\ [Next]_vars => FlushInv'
  <2> SUFFICES ASSUME TypeOK, EpochsBounded, FlushInv, [Next]_vars PROVE FlushInv'
    OBVIOUS
  <2>a. epoch \in Nat /\ arrived \in Nat /\ mark \in Nat
    BY DEF TypeOK
  <2>1. CASE FlushStart
    <3>1. epoch < epoch' /\ UNCHANGED <<rings, nfq, delivered>>
      BY <2>1, <2>a, ConstantsAssumption DEF FlushStart, tcpVars, arrayVars
    <3>2. epoch' \in Nat
      BY <2>1, <2>a, ConstantsAssumption DEF FlushStart
    <3>3. \A i \in Ring : epoch' \notin delivered[i]
      BY SMTT(30), <2>a, <3>1, <3>2 DEF EpochsBounded
    <3>4. \A i, j \in Ring : \A k \in 1 .. Len(rings[i]) : ~IsCurrent(rings[i][k], j)'
      BY SMTT(30), <2>a, <3>1, <3>2, PacketsTyped, PacketFields DEF EpochsBounded, IsCurrent
    <3>5. \A j \in Ring : \A k \in 1 .. Len(nfq) : ~IsCurrent(nfq[k], j)'
      BY SMTT(30), <2>a, <3>1, <3>2, PacketsTyped, PacketFields DEF EpochsBounded, IsCurrent
    <3> QED
      BY <3>1, <3>3, <3>4, <3>5
      DEF FlushInv, RingOrder, QueueOrder, RingFlushed, IsCurrent
  <2>2. CASE SendBarrier \/ SendFails \/ FlushSucceeds \/ FlushTimesOut \/ FlushGivesUp
    <3>1. UNCHANGED <<rings, nfq, epoch, mark, delivered>>
      BY <2>2 DEF SendBarrier, SendFails, FlushSucceeds, FlushTimesOut, FlushGivesUp,
                  tcpVars, arrayVars
    <3> QED
      BY <3>1, FlushInvStable
  <2>3. ASSUME NEW i \in Ring, NEW n \in Node, HeartbeatArrives(n, i) PROVE FlushInv'
    <3> DEFINE m == [kind |-> "udp", node |-> n, ring |-> i, id |-> arrived + 1]
    <3>1. m \in Packet /\ m.id = arrived + 1
      BY <2>a DEF Packet, Heartbeat
    <3>2. /\ rings' = [rings EXCEPT ![i] = Append(@, m)]
          /\ UNCHANGED <<nfq, epoch, mark, delivered>>
      BY <2>3 DEF HeartbeatArrives, arrayVars, callerVars
    <3> HIDE DEF m
    <3>3. \A j \in Ring : ~IsOld(m, j)
      BY SMTT(30), <2>a, <3>1 DEF IsOld, EpochsBounded
    <3> QED
      BY <3>1, <3>2, <3>3, FlushInvAppend
  <2>4. ASSUME NEW i \in Ring, Transmit(i) PROVE FlushInv'
    <3> DEFINE m == segment(i, unsent[i])
    <3>0. unsent \in [Ring -> Seq(Nat)] /\ unsent[i] # <<>>
      BY <2>4 DEF Transmit, TypeOK
    <3>1. Head(unsent[i]) \in Nat
      BY <3>0, EpochTyped
    <3>2. m \in Packet /\ m.kind = "tcp"
      BY <3>1 DEF segment, Packet, BarrierMsg
    <3>3. /\ rings' = [rings EXCEPT ![i] = Append(@, m)]
          /\ UNCHANGED <<nfq, epoch, mark, delivered>>
      BY <2>4 DEF Transmit, arrayVars, callerVars
    <3> HIDE DEF m
    <3>4. \A j \in Ring : ~IsOld(m, j)
      BY <3>2 DEF IsOld
    <3> QED
      BY <3>2, <3>3, <3>4, FlushInvAppend
  <2>5. ASSUME NEW i \in Ring, Retransmit(i) PROVE FlushInv'
    <3> DEFINE m == segment(i, outstanding[i])
    <3>0. outstanding \in [Ring -> Seq(Nat)] /\ outstanding[i] # <<>>
      BY <2>5 DEF Retransmit, TypeOK
    <3>1. Head(outstanding[i]) \in Nat
      BY <3>0, EpochTyped
    <3>2. m \in Packet /\ m.kind = "tcp"
      BY <3>1 DEF segment, Packet, BarrierMsg
    <3>3. /\ rings' = [rings EXCEPT ![i] = Append(@, m)]
          /\ UNCHANGED <<nfq, epoch, mark, delivered>>
      BY <2>5 DEF Retransmit, arrayVars, callerVars
    <3> HIDE DEF m
    <3>4. \A j \in Ring : ~IsOld(m, j)
      BY <3>2 DEF IsOld
    <3> QED
      BY <3>2, <3>3, <3>4, FlushInvAppend
  <2>6. ASSUME NEW i \in Ring, AckArrives(i) PROVE FlushInv'
    <3>1. UNCHANGED <<rings, nfq, epoch, mark, delivered>>
      BY <2>6 DEF AckArrives, arrayVars, callerVars
    <3> QED
      BY <3>1, FlushInvStable
  <2>7. ASSUME NEW i \in Ring, RingToQueue(i) PROVE FlushInv'
    BY <2>7, FlushInvMove
  <2>8. CASE ProcessHeartbeat \/ ProcessShort
    <3>1. /\ nfq # <<>> /\ nfq' = Tail(nfq)
          /\ UNCHANGED <<rings, epoch, mark, delivered>>
      BY <2>8 DEF ProcessHeartbeat, ProcessShort, arrayVars, callerVars
    <3> QED
      BY <3>1, FlushInvTail
  <2>9. CASE ProcessBarrier
    BY <2>9, FlushInvRecord
  <2>10. CASE QueueThreadExits
    <3>1. nfq' = <<>> /\ UNCHANGED <<rings, epoch, mark, delivered>>
      BY <2>10 DEF QueueThreadExits, arrayVars, callerVars
    <3>2. Len(nfq') = 0
      BY <3>1
    <3>3. RingOrder'
      BY SMTT(30), <3>1 DEF FlushInv, RingOrder, IsCurrent, IsOld
    <3>4. QueueOrder'
      BY <3>2 DEF QueueOrder
    <3>5. RingFlushed'
      BY SMTT(30), <3>1, <3>2 DEF FlushInv, RingFlushed, Flushed, IsOld
    <3> QED
      BY <3>3, <3>4, <3>5 DEF FlushInv
  <2>11. CASE UNCHANGED vars
    <3>1. UNCHANGED <<rings, nfq, epoch, mark, delivered>>
      BY <2>11 DEF vars, arrayVars, callerVars
    <3> QED
      BY <3>1, FlushInvStable
  <2> QED
    BY <2>1, <2>2, <2>3, <2>4, <2>5, <2>6, <2>7, <2>8, <2>9, <2>10, <2>11
    DEF Next, Caller, Network, QueueThread, Quiescent
<1>3. FlushInv => RingFlushed
  BY DEF FlushInv
<1> QED
  BY <1>1, <1>2, <1>3, Typing, Bounded, PTL DEF Spec
=============================================================================
