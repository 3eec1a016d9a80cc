-------------------------- MODULE RxBarrierRounds --------------------------
(* The array of rounds of queue.c is right when the caller waits for every *)
(* flush: the proof that an epoch is declared complete exactly when its    *)
(* message has come out of every ring, across the wrap of the array.       *)
EXTENDS RxBarrierProofs

\* A step that leaves the flows and the packets alone.
LEMMA TokenStable ==
  ASSUME TokenInv,
         UNCHANGED <<rings, nfq, unsent, outstanding, accepted, epoch, next, delivered>>
  PROVE  TokenInv'
BY DEF TokenInv, InRing, InQueue, WithTcp, Settled, IsMsgOf

\* A packet that is no barrier message joins a ring.
LEMMA TokenOther ==
  ASSUME TypeOK, TokenInv, NEW i \in Ring, NEW m \in Packet, m.kind # "tcp",
         rings' = [rings EXCEPT ![i] = Append(@, m)],
         UNCHANGED <<nfq, unsent, outstanding, accepted, epoch, next, delivered>>
  PROVE  TokenInv'
<1>1. \A j \in Ring : \A k \in 1 .. Len(rings'[j]) :
        \/ k \in 1 .. Len(rings[j]) /\ rings'[j][k] = rings[j][k]
        \/ j = i /\ k = Len(rings[i]) + 1 /\ rings'[j][k] = m
  BY RingAppend
<1>2. \A j \in Ring : \A k \in 1 .. Len(rings'[j]) : rings'[j][k].kind = "tcp" =>
        k \in 1 .. Len(rings[j]) /\ rings'[j][k] = rings[j][k]
  BY <1>1
<1> SUFFICES ASSUME NEW j \in Ring PROVE (InRing(j) /\ InQueue(j) /\ WithTcp(j))'
  BY DEF TokenInv
<1>3. InRing(j)'
  BY <1>2 DEF TokenInv, InRing, Settled, IsMsgOf
<1>4. InQueue(j)' /\ WithTcp(j)'
  BY DEF TokenInv, InQueue, WithTcp, Settled, IsMsgOf
<1> QED
  BY <1>3, <1>4

\* TCP puts the message of the current epoch into a ring that has none.
LEMMA TokenSent ==
  ASSUME TypeOK, TokenInv, NEW i \in Ring, NEW m \in Packet,
         m.kind = "tcp", m.epoch = epoch,
         rings' = [rings EXCEPT ![i] = Append(@, m)],
         \A k \in 1 .. Len(rings[i]) : rings[i][k].kind # "tcp",
         \A k \in 1 .. Len(nfq) : ~IsMsgOf(nfq[k], i),
         Settled(i)' = FALSE, WithTcp(i)',
         \A j \in Ring \ {i} : Settled(j)' = Settled(j) /\ (WithTcp(j) => WithTcp(j)'),
         UNCHANGED <<nfq, epoch>>
  PROVE  TokenInv'
<1>1. \A j \in Ring : \A k \in 1 .. Len(rings'[j]) :
        \/ k \in 1 .. Len(rings[j]) /\ rings'[j][k] = rings[j][k]
        \/ j = i /\ k = Len(rings[i]) + 1 /\ rings'[j][k] = m
  BY RingAppend
<1> SUFFICES ASSUME NEW j \in Ring PROVE (InRing(j) /\ InQueue(j) /\ WithTcp(j))'
  BY DEF TokenInv
<1>2. CASE j = i
  <2>1. \A k \in 1 .. Len(rings'[i]) : rings'[i][k].kind = "tcp" =>
          k = Len(rings[i]) + 1 /\ rings'[i][k] = m
    BY <1>1
  <2>2. InRing(i)'
    BY <2>1 DEF InRing, IsMsgOf
  <2>3. InQueue(i)'
    BY DEF InQueue, IsMsgOf
  <2> QED
    BY <1>2, <2>2, <2>3
<1>3. CASE j # i
  <2>1. Settled(j)' = Settled(j) /\ WithTcp(j)'
    BY <1>3 DEF TokenInv
  <2>2. InRing(j) /\ InQueue(j)
    BY DEF TokenInv
  <2>3. rings'[j] = rings[j]
    BY <1>3 DEF TypeOK
  <2>4. InRing(j)'
    BY <2>1, <2>2, <2>3 DEF InRing, IsMsgOf
  <2>5. InQueue(j)'
    BY <2>1, <2>2 DEF InQueue, IsMsgOf
  <2> QED
    BY <2>1, <2>4, <2>5
<1> QED
  BY <1>2, <1>3

\* A packet moves from its ring to the netfilter queue or is dropped.
LEMMA TokenMove ==
  ASSUME TypeOK, EpochsBounded, TokenInv, NEW i \in Ring, RingToQueue(i)
  PROVE  TokenInv'
<1>1. /\ rings[i] # <<>>
      /\ rings' = [rings EXCEPT ![i] = Tail(@)]
      /\ UNCHANGED <<unsent, outstanding, accepted, epoch, next, delivered>>
  BY DEF RingToQueue, tcpVars, arrayVars, callerVars
<1>2. /\ \A j \in Ring \ {i} : rings'[j] = rings[j]
      /\ \A k \in 1 .. Len(rings'[i]) :
           k + 1 \in 1 .. Len(rings[i]) /\ rings'[i][k] = rings[i][k + 1]
      /\ 1 \in 1 .. Len(rings[i])
  BY <1>1, RingTail
<1>3. \A k \in 1 .. Len(nfq') :
        \/ k \in 1 .. Len(nfq) /\ nfq'[k] = nfq[k]
        \/ k = Len(nfq) + 1 /\ nfq'[k] = rings[i][1]
  BY QueueAppend
<1>4. \A j \in Ring : IsMsgOf(rings[i][1], j) => j = i
  BY <1>2 DEF EpochsBounded, IsMsgOf
<1> SUFFICES ASSUME NEW j \in Ring PROVE (InRing(j) /\ InQueue(j) /\ WithTcp(j))'
  BY DEF TokenInv
<1>5. InRing(j) /\ InQueue(j) /\ WithTcp(j)
  BY DEF TokenInv
<1>6. WithTcp(j)' /\ Settled(j)' = Settled(j)
  BY <1>1, <1>5 DEF WithTcp, Settled
<1>7. CASE j # i
  <2>1. \A k \in 1 .. Len(nfq') : IsMsgOf(nfq'[k], j) =>
          k \in 1 .. Len(nfq) /\ IsMsgOf(nfq[k], j) /\ nfq'[k] = nfq[k]
    BY <1>3, <1>4, <1>7
  <2>2. rings'[j] = rings[j]
    BY <1>2, <1>7
  <2>3. InRing(j)'
    BY <1>1, <1>5, <1>6, <2>1, <2>2 DEF InRing, IsMsgOf
  <2>4. InQueue(j)'
    BY <1>1, <1>5, <1>6, <2>1 DEF InQueue, IsMsgOf
  <2> QED
    BY <1>6, <2>3, <2>4
<1>8. CASE j = i /\ rings[i][1].kind = "tcp"
  <2>1. \A l \in 1 .. Len(rings[i]) : rings[i][l].kind = "tcp" => l = 1
    BY <1>2, <1>5, <1>8 DEF InRing
  <2>2. ASSUME NEW k \in 1 .. Len(rings'[i]), rings'[i][k].kind = "tcp" PROVE FALSE
    <3>1. k + 1 = 1
      BY <1>2, <2>1, <2>2
    <3> QED
      BY <3>1
  <2>3. \A k \in 1 .. Len(nfq) : ~IsMsgOf(nfq[k], i)
    BY <1>2, <1>5, <1>8 DEF InRing
  <2>4. \A k \in 1 .. Len(nfq') : IsMsgOf(nfq'[k], i) =>
          k = Len(nfq) + 1 /\ nfq'[k] = rings[i][1]
    BY <1>3, <2>3
  <2>5. rings[i][1].epoch = epoch /\ ~Settled(i)
    BY <1>2, <1>5, <1>8 DEF InRing
  <2>6. InRing(j)'
    BY <1>8, <2>2 DEF InRing
  <2>7. InQueue(j)'
    BY <1>1, <1>6, <1>8, <2>4, <2>5 DEF InQueue, IsMsgOf
  <2> QED
    BY <1>6, <2>6, <2>7
<1>9. CASE j = i /\ rings[i][1].kind # "tcp"
  <2>1. \A k \in 1 .. Len(nfq') : IsMsgOf(nfq'[k], j) =>
          k \in 1 .. Len(nfq) /\ IsMsgOf(nfq[k], j) /\ nfq'[k] = nfq[k]
    BY <1>3, <1>9 DEF IsMsgOf
  <2>2. InQueue(j)'
    BY <1>1, <1>5, <1>6, <2>1 DEF InQueue, IsMsgOf
  <2>3. InRing(j)'
    <3> SUFFICES ASSUME NEW k \in 1 .. Len(rings'[i]), rings'[i][k].kind = "tcp"
                 PROVE  /\ rings'[i][k].epoch = epoch /\ ~Settled(i)
                        /\ \A l \in 1 .. Len(rings'[i]) : rings'[i][l].kind = "tcp" => l = k
                        /\ \A l \in 1 .. Len(nfq') : ~IsMsgOf(nfq'[l], i)
      BY <1>1, <1>6, <1>9 DEF InRing, IsMsgOf
    <3>1. k + 1 \in 1 .. Len(rings[i]) /\ rings[i][k + 1].kind = "tcp"
      BY <1>2
    <3>2. /\ rings[i][k + 1].epoch = epoch /\ ~Settled(i)
          /\ \A l \in 1 .. Len(rings[i]) : rings[i][l].kind = "tcp" => l = k + 1
          /\ \A l \in 1 .. Len(nfq) : ~IsMsgOf(nfq[l], i)
      BY <1>5, <1>9, <3>1 DEF InRing
    <3>3. ASSUME NEW l \in 1 .. Len(rings'[i]), rings'[i][l].kind = "tcp" PROVE l = k
      <4>1. l + 1 = k + 1
        BY <1>2, <3>2, <3>3
      <4> QED
        BY <4>1
    <3> QED
      BY <1>2, <1>9, <2>1, <3>2, <3>3
  <2> QED
    BY <1>6, <2>2, <2>3
<1> QED
  BY <1>7, <1>8, <1>9

\* The queue thread takes a packet that is no barrier message.
LEMMA TokenSkip ==
  ASSUME TypeOK, TokenInv, nfq # <<>>, nfq' = Tail(nfq),
         UNCHANGED <<rings, unsent, outstanding, accepted, epoch, next, delivered>>
  PROVE  TokenInv'
<1>1. \A k \in 1 .. Len(nfq') : k + 1 \in 1 .. Len(nfq) /\ nfq'[k] = nfq[k + 1]
  BY QueueTail
<1> SUFFICES ASSUME NEW j \in Ring PROVE (InRing(j) /\ InQueue(j) /\ WithTcp(j))'
  BY DEF TokenInv
<1>2. InRing(j) /\ InQueue(j) /\ WithTcp(j)
  BY DEF TokenInv
<1>3. WithTcp(j)' /\ Settled(j)' = Settled(j)
  BY <1>2 DEF WithTcp, Settled
<1>4. InRing(j)'
  BY <1>1, <1>2, <1>3 DEF InRing, IsMsgOf
<1>5. InQueue(j)'
  <2> SUFFICES ASSUME NEW k \in 1 .. Len(nfq'), IsMsgOf(nfq'[k], j)
               PROVE  /\ nfq'[k].epoch = epoch /\ ~Settled(j)
                      /\ \A l \in 1 .. Len(nfq') : IsMsgOf(nfq'[l], j) => l = k
    BY <1>3 DEF InQueue, IsMsgOf
  <2>1. k + 1 \in 1 .. Len(nfq) /\ IsMsgOf(nfq[k + 1], j)
    BY <1>1
  <2>2. /\ nfq[k + 1].epoch = epoch /\ ~Settled(j)
        /\ \A l \in 1 .. Len(nfq) : IsMsgOf(nfq[l], j) => l = k + 1
    BY <1>2, <2>1 DEF InQueue
  <2>3. ASSUME NEW l \in 1 .. Len(nfq'), IsMsgOf(nfq'[l], j) PROVE l = k
    <3>1. l + 1 = k + 1
      BY <1>1, <2>2, <2>3
    <3> QED
      BY <3>1
  <2> QED
    BY <1>1, <2>2, <2>3
<1> QED
  BY <1>3, <1>4, <1>5

\* The queue thread takes a barrier message: the only one of its flow.
LEMMA TokenTake ==
  ASSUME TypeOK, EpochsBounded, TokenInv, ProcessBarrier
  PROVE  /\ TokenInv'
         /\ \E i \in Ring :
              /\ Head(nfq).index = i /\ Head(nfq).epoch = epoch
              /\ epoch \notin delivered[i] /\ ~(next <= i)
<1>0. PICK p \in Packet : p = Head(nfq) /\ p.kind = "tcp" /\ p.index \in Ring /\ p.epoch \in Nat
  BY QueueTail, PacketsTyped, PacketFields DEF ProcessBarrier
<1> PICK i \in Ring : i = p.index
  BY <1>0
<1>1. /\ nfq # <<>> /\ nfq' = Tail(nfq) /\ p.kind = "tcp"
      /\ UNCHANGED <<rings, unsent, outstanding, epoch, next>>
      /\ delivered' = IF p.epoch <= 0 THEN delivered
                                      ELSE [delivered EXCEPT ![i] = @ \cup {p.epoch}]
      /\ accepted' = IF outstanding[i] # <<>> /\ Head(outstanding[i]) = p.epoch
                       THEN accepted \cup {i} ELSE accepted
  BY <1>0 DEF ProcessBarrier, RecordBarrier, callerVars, arrayVars
<1>2. /\ \A k \in 1 .. Len(nfq') : k + 1 \in 1 .. Len(nfq) /\ nfq'[k] = nfq[k + 1]
      /\ 1 \in 1 .. Len(nfq) /\ p = nfq[1]
  BY <1>0, <1>1, QueueTail
<1>4. IsMsgOf(nfq[1], i)
  BY <1>1, <1>2 DEF IsMsgOf
<1>5. InRing(i) /\ InQueue(i) /\ WithTcp(i)
  BY DEF TokenInv
<1>6. /\ p.epoch = epoch /\ ~Settled(i)
      /\ \A l \in 1 .. Len(nfq) : IsMsgOf(nfq[l], i) => l = 1
  BY <1>2, <1>4, <1>5 DEF InQueue
<1>7. /\ Head(outstanding[i]) = epoch /\ epoch \notin delivered[i]
      /\ outstanding[i] # <<>> /\ unsent[i] = <<>> /\ ~(next <= i)
  BY <1>5, <1>6 DEF WithTcp, Settled
<1>8. accepted' = accepted \cup {i}
  BY <1>1, <1>6, <1>7
<1>9. ASSUME NEW k \in 1 .. Len(nfq'), IsMsgOf(nfq'[k], i) PROVE FALSE
  <2>1. k + 1 = 1
    BY <1>2, <1>6, <1>9
  <2> QED
    BY <2>1
<1>10. (InRing(i) /\ InQueue(i) /\ WithTcp(i))'
  <2>1. \A k \in 1 .. Len(rings[i]) : rings[i][k].kind # "tcp"
    BY <1>2, <1>4, <1>5 DEF InRing
  <2>2. InRing(i)'
    BY <1>1, <2>1 DEF InRing
  <2>3. InQueue(i)'
    BY <1>1, <1>9 DEF InQueue, IsMsgOf
  <2>4. Settled(i)'
    BY <1>8 DEF Settled
  <2>5. WithTcp(i)'
    BY <1>1, <1>7, <2>4 DEF WithTcp
  <2> QED
    BY <2>2, <2>3, <2>5
<1>11. ASSUME NEW j \in Ring, j # i PROVE (InRing(j) /\ InQueue(j) /\ WithTcp(j))'
  <2>1. InRing(j) /\ InQueue(j) /\ WithTcp(j)
    BY DEF TokenInv
  <2>2. delivered'[j] = delivered[j]
    BY <1>1, <1>11 DEF TypeOK
  <2>3. (j \in accepted' <=> j \in accepted) /\ Settled(j)' = Settled(j)
    BY <1>1, <1>8, <1>11 DEF Settled
  <2>4. WithTcp(j)'
    BY <1>1, <2>1, <2>2, <2>3 DEF WithTcp
  <2>5. InRing(j)'
    BY <1>1, <1>2, <2>1, <2>3 DEF InRing, IsMsgOf
  <2>6. InQueue(j)'
    <3> SUFFICES ASSUME NEW k \in 1 .. Len(nfq'), IsMsgOf(nfq'[k], j)
                 PROVE  /\ nfq'[k].epoch = epoch /\ ~Settled(j)
                        /\ \A l \in 1 .. Len(nfq') : IsMsgOf(nfq'[l], j) => l = k
      BY <1>1, <2>3 DEF InQueue, IsMsgOf
    <3>1. k + 1 \in 1 .. Len(nfq) /\ IsMsgOf(nfq[k + 1], j)
      BY <1>2
    <3>2. /\ nfq[k + 1].epoch = epoch /\ ~Settled(j)
          /\ \A l \in 1 .. Len(nfq) : IsMsgOf(nfq[l], j) => l = k + 1
      BY <2>1, <3>1 DEF InQueue
    <3>3. ASSUME NEW l \in 1 .. Len(nfq'), IsMsgOf(nfq'[l], j) PROVE l = k
      <4>1. l + 1 = k + 1
        BY <1>2, <3>2, <3>3
      <4> QED
        BY <4>1
    <3> QED
      BY <1>2, <3>2, <3>3
  <2> QED
    BY <2>4, <2>5, <2>6
<1>12. TokenInv'
  BY <1>10, <1>11 DEF TokenInv
<1> QED
  BY <1>0, <1>6, <1>7, <1>12

\* The message of an epoch is in one place, whatever step is taken.
LEMMA TokenNext ==
  ASSUME Disciplined, TypeOK, EpochsBounded, PhaseInv, TokenInv, [Next]_vars
  PROVE  TokenInv'
<1>1. CASE FlushStart
  <2>1. /\ epoch' = epoch + 1 /\ next' = 0
        /\ UNCHANGED <<rings, nfq, unsent, outstanding, accepted, delivered>>
    BY <1>1 DEF FlushStart, Disciplined, TypeOK, tcpVars, arrayVars
  <2>2. (pc = "idle" /\ next = 0) \/ Complete
    BY <1>1 DEF FlushStart, PhaseInv
  <2> SUFFICES ASSUME NEW j \in Ring PROVE (InRing(j) /\ InQueue(j) /\ WithTcp(j))'
    BY DEF TokenInv
  <2>3. InRing(j) /\ InQueue(j) /\ WithTcp(j)
    BY DEF TokenInv
  <2>4. unsent[j] = <<>> /\ Settled(j)
    BY <2>2, <2>3 DEF WithTcp, Complete, Ring
  <2>5. Settled(j)'
    BY <2>1, <2>4 DEF Settled
  <2>6. InRing(j)' /\ InQueue(j)'
    BY <2>1, <2>3, <2>4 DEF InRing, InQueue, IsMsgOf
  <2>7. epoch' \notin delivered'[j]
    BY SMTT(30), <2>1 DEF EpochsBounded, TypeOK
  <2>8. WithTcp(j)'
    BY <2>1, <2>3, <2>4, <2>5, <2>7 DEF WithTcp
  <2> QED
    BY <2>6, <2>8
<1>2. CASE SendBarrier
  <2>1. /\ next \in Ring /\ next' = next + 1
        /\ unsent' = [unsent EXCEPT ![next] = Append(@, epoch)]
        /\ UNCHANGED <<rings, nfq, outstanding, accepted, epoch, delivered>>
    BY <1>2 DEF SendBarrier, arrayVars, TypeOK
  <2> SUFFICES ASSUME NEW j \in Ring PROVE (InRing(j) /\ InQueue(j) /\ WithTcp(j))'
    BY DEF TokenInv
  <2>2. InRing(j) /\ InQueue(j) /\ WithTcp(j)
    BY DEF TokenInv
  <2>3. Settled(j)' = Settled(j)
    BY <2>1 DEF Settled
  <2>4. InRing(j)' /\ InQueue(j)'
    BY <2>1, <2>2, <2>3 DEF InRing, InQueue, IsMsgOf
  <2>5. CASE j = next
    <3>1. unsent[j] = <<>> /\ epoch \notin delivered[j] /\ Settled(j)
      BY <2>2, <2>5 DEF WithTcp, Ring
    <3>2. unsent'[j] = <<epoch>>
      BY <2>1, <2>5, <3>1 DEF TypeOK
    <3>3. ~(next' <= j)
      BY <2>1, <2>5 DEF Ring
    <3>4. WithTcp(j)'
      BY <2>1, <2>2, <2>3, <3>1, <3>2, <3>3 DEF WithTcp
    <3> QED
      BY <2>4, <3>4
  <2>6. CASE j # next
    <3>1. unsent'[j] = unsent[j]
      BY <2>1, <2>6 DEF TypeOK
    <3>2. next' <= j => next <= j
      BY <2>1 DEF Ring
    <3>3. WithTcp(j)'
      BY <2>1, <2>2, <2>3, <3>1, <3>2 DEF WithTcp
    <3> QED
      BY <2>4, <3>3
  <2> QED
    BY <2>5, <2>6
<1>3. CASE \/ SendFails \/ FlushSucceeds \/ FlushTimesOut \/ FlushGivesUp
           \/ Quiescent \/ UNCHANGED vars
  BY <1>3, TokenStable DEF SendFails, FlushSucceeds, FlushTimesOut, FlushGivesUp,
       Quiescent, vars, tcpVars, arrayVars, callerVars
<1>4. ASSUME NEW n \in Node, NEW i \in Ring, HeartbeatArrives(n, i) PROVE TokenInv'
  <2> DEFINE m == [kind |-> "udp", node |-> n, ring |-> i, id |-> arrived + 1]
  <2>1. m \in Packet /\ m.kind # "tcp"
    BY DEF Packet, Heartbeat, TypeOK
  <2>2. /\ rings' = [rings EXCEPT ![i] = Append(@, m)]
        /\ UNCHANGED <<nfq, unsent, outstanding, accepted, epoch, next, delivered>>
    BY <1>4 DEF HeartbeatArrives, tcpVars, arrayVars, callerVars
  <2> HIDE DEF m
  <2> QED
    BY <2>1, <2>2, TokenOther
<1>5. ASSUME NEW i \in Ring, Transmit(i) PROVE TokenInv'
  <2> DEFINE m == segment(i, unsent[i])
  <2>1. /\ outstanding[i] = <<>> /\ unsent[i] # <<>>
        /\ outstanding' = [outstanding EXCEPT ![i] = unsent[i]]
        /\ unsent' = [unsent EXCEPT ![i] = <<>>]
        /\ rings' = [rings EXCEPT ![i] = Append(@, m)]
        /\ UNCHANGED <<nfq, accepted, epoch, next, delivered>>
    BY <1>5 DEF Transmit, arrayVars, callerVars
  <2>2. InRing(i) /\ InQueue(i) /\ WithTcp(i)
    BY DEF TokenInv
  <2>3. /\ Settled(i) /\ i \notin accepted /\ unsent[i] = <<epoch>>
        /\ epoch \notin delivered[i] /\ ~(next <= i)
    BY <2>1, <2>2 DEF Settled, WithTcp
  <2>4. m \in Packet /\ m.kind = "tcp" /\ m.epoch = epoch
    BY SMTT(30), <2>3 DEF segment, Packet, BarrierMsg, TypeOK
  <2> HIDE DEF m
  <2>5. /\ \A k \in 1 .. Len(rings[i]) : rings[i][k].kind # "tcp"
        /\ \A k \in 1 .. Len(nfq) : ~IsMsgOf(nfq[k], i)
    BY <2>2, <2>3 DEF InRing, InQueue
  <2>6. outstanding'[i] = <<epoch>> /\ unsent'[i] = <<>>
    BY <2>1, <2>3 DEF TypeOK
  <2>7. Settled(i)' = FALSE
    BY <2>1, <2>3, <2>6 DEF Settled
  <2>8. WithTcp(i)'
    BY <2>1, <2>3, <2>6, <2>7 DEF WithTcp
  <2>9. ASSUME NEW j \in Ring \ {i}
        PROVE  Settled(j)' = Settled(j) /\ (WithTcp(j) => WithTcp(j)')
    <3>1. outstanding'[j] = outstanding[j] /\ unsent'[j] = unsent[j]
      BY <2>1 DEF TypeOK
    <3>2. Settled(j)' = Settled(j)
      BY <2>1, <3>1 DEF Settled
    <3> QED
      BY <2>1, <3>1, <3>2 DEF WithTcp
  <2> QED
    BY <2>1, <2>4, <2>5, <2>7, <2>8, <2>9, TokenSent
<1>6. ASSUME NEW i \in Ring, Retransmit(i) PROVE TokenInv'
  <2> DEFINE m == segment(i, outstanding[i])
  <2>1. /\ outstanding[i] # <<>> /\ Lost(i)
        /\ rings' = [rings EXCEPT ![i] = Append(@, m)]
        /\ UNCHANGED <<nfq, unsent, outstanding, accepted, epoch, next, delivered>>
    BY <1>6 DEF Retransmit, Disciplined, TypeOK, arrayVars, callerVars
  <2>2. InRing(i) /\ InQueue(i) /\ WithTcp(i)
    BY DEF TokenInv
  <2>3. ~Settled(i) /\ Head(outstanding[i]) = epoch
    BY <2>1, <2>2 DEF Settled, WithTcp, Lost
  <2>4. m \in Packet /\ m.kind = "tcp" /\ m.epoch = epoch
    BY <2>3 DEF segment, Packet, BarrierMsg, TypeOK
  <2> HIDE DEF m
  <2>5. /\ \A k \in 1 .. Len(rings[i]) : rings[i][k].kind # "tcp"
        /\ \A k \in 1 .. Len(nfq) : ~IsMsgOf(nfq[k], i)
    <3>1. rings[i] \in Seq(Packet) /\ nfq \in Seq(Packet)
      BY PacketsTyped
    <3>2. DOMAIN rings[i] = 1 .. Len(rings[i]) /\ DOMAIN nfq = 1 .. Len(nfq)
      BY <3>1
    <3> QED
      BY <2>1, <3>2 DEF Lost
  <2>6. \A j \in Ring : Settled(j)' = Settled(j)
    BY <2>1 DEF Settled
  <2>7. \A j \in Ring : WithTcp(j) => WithTcp(j)'
    BY <2>1, <2>6 DEF WithTcp
  <2>8. Settled(i)' = FALSE
    BY <2>3, <2>6
  <2> QED
    BY <2>1, <2>2, <2>4, <2>5, <2>6, <2>7, <2>8, TokenSent
<1>7. ASSUME NEW i \in Ring, AckArrives(i) PROVE TokenInv'
  <2>1. /\ i \in accepted /\ accepted' = accepted \ {i}
        /\ outstanding' = [outstanding EXCEPT ![i] = <<>>]
        /\ UNCHANGED <<rings, nfq, unsent, epoch, next, delivered>>
    BY <1>7 DEF AckArrives, arrayVars, callerVars
  <2> SUFFICES ASSUME NEW j \in Ring PROVE (InRing(j) /\ InQueue(j) /\ WithTcp(j))'
    BY DEF TokenInv
  <2>2. InRing(j) /\ InQueue(j) /\ WithTcp(j)
    BY DEF TokenInv
  <2>3. j = i => Settled(j) /\ outstanding'[j] = <<>>
    BY <2>1 DEF Settled, TypeOK
  <2>4. j # i => outstanding'[j] = outstanding[j] /\ (j \in accepted' <=> j \in accepted)
    BY <2>1 DEF TypeOK
  <2>5. Settled(j)' = Settled(j)
    BY <2>3, <2>4 DEF Settled
  <2>6. InRing(j)' /\ InQueue(j)'
    BY <2>1, <2>2, <2>5 DEF InRing, InQueue, IsMsgOf
  <2>7. WithTcp(j)'
    BY <2>1, <2>2, <2>3, <2>4, <2>5 DEF WithTcp
  <2> QED
    BY <2>6, <2>7
<1>8. ASSUME NEW i \in Ring, RingToQueue(i) PROVE TokenInv'
  BY <1>8, TokenMove
<1>9. CASE ProcessHeartbeat \/ ProcessShort
  BY <1>9, TokenSkip DEF ProcessHeartbeat, ProcessShort, tcpVars, arrayVars, callerVars
<1>10. CASE ProcessBarrier
  BY <1>10, TokenTake
<1>11. CASE QueueThreadExits
  <2>1. /\ \A k \in 1 .. Len(nfq') : FALSE
        /\ UNCHANGED <<rings, unsent, outstanding, accepted, epoch, next, delivered>>
    BY <1>11 DEF QueueThreadExits, tcpVars, arrayVars, callerVars
  <2> SUFFICES ASSUME NEW j \in Ring PROVE (InRing(j) /\ InQueue(j) /\ WithTcp(j))'
    BY DEF TokenInv
  <2>2. InRing(j) /\ InQueue(j) /\ WithTcp(j)
    BY DEF TokenInv
  <2> QED
    BY <2>1, <2>2 DEF InRing, InQueue, WithTcp, Settled, IsMsgOf
<1> QED
  BY <1>1, <1>2, <1>3, <1>4, <1>5, <1>6, <1>7, <1>8, <1>9, <1>10, <1>11
     DEF Next, Caller, Network, QueueThread

-----------------------------------------------------------------------------
(* The array of rounds. *)

\* What process_packet does with a message: its cell is not yet marked, and it
\* declares the epoch complete exactly when the message is the last one.
LEMMA Recorded ==
  ASSUME TypeOK, EpochsBounded, TokenInv, PhaseInv, RoundInv, ProcessBarrier
  PROVE  \E i \in Ring :
           /\ epoch > 0 /\ epoch \notin delivered[i] /\ ~(next <= i)
           /\ delivered' = [delivered EXCEPT ![i] = @ \cup {epoch}]
           /\ received_barrier_msg_array' =
                [received_barrier_msg_array EXCEPT ![epoch % ARRAY_SIZE][i] = array_round]
           /\ Complete' =>
                /\ array_round' = IF epoch % ARRAY_SIZE = ARRAY_SIZE - 1
                                    THEN array_round + 1 ELSE array_round
                /\ barrier_all_processed' = barrier_all_processed + 1
                /\ declared' = declared \cup {epoch}
           /\ ~Complete' => UNCHANGED <<array_round, barrier_all_processed, declared>>
           /\ UNCHANGED callerVars
<1>1. PICK i \in Ring : /\ Head(nfq).index = i /\ Head(nfq).epoch = epoch
                        /\ epoch \notin delivered[i] /\ ~(next <= i)
  BY TokenTake
<1>2. epoch \in Nat /\ epoch > 0 /\ posts(epoch)
  BY <1>1 DEF PhaseInv, TypeOK, Ring, posts
<1>3. RecordBarrier(epoch, i) /\ UNCHANGED callerVars
  BY <1>1, <1>2 DEF ProcessBarrier
<1> DEFINE x == epoch % ARRAY_SIZE
           cells == received_barrier_msg_array
<1>4. x \in Row
  BY <1>2, RowOfEpoch
<1>5. /\ received_barrier_msg_array' = [cells EXCEPT ![x][i] = array_round]
      /\ array_round' = IF completes(epoch, i) THEN roundAfter(epoch) ELSE array_round
      /\ barrier_all_processed' =
           barrier_all_processed + (IF completes(epoch, i) THEN 1 ELSE 0)
      /\ delivered' = [delivered EXCEPT ![i] = @ \cup {epoch}]
      /\ declared' = IF completes(epoch, i) THEN declared \cup {epoch} ELSE declared
  BY <1>2, <1>3 DEF RecordBarrier
<1>6. ~(epoch = 0 \/ Complete)
  BY <1>1, <1>2 DEF Complete
<1>7. \A j \in Ring : cells[x][j] = array_round <=> epoch \in delivered[j]
  BY <1>6 DEF RoundInv
<1>8. \A j \in Ring : delivered'[j] = IF j = i THEN delivered[i] \cup {epoch} ELSE delivered[j]
  BY <1>5 DEF TypeOK
<1>9. epoch' = epoch
  BY <1>3 DEF callerVars
<1>10. completes(epoch, i) <=> Complete'
  BY <1>1, <1>7, <1>8, <1>9 DEF Complete, completes
<1>11. barrier_all_processed + 0 = barrier_all_processed
  BY DEF TypeOK
<1> QED
  BY <1>1, <1>2, <1>3, <1>5, <1>10, <1>11 DEF roundAfter

\* The semaphore is posted once per epoch, while the caller waits for it.
LEMMA PhaseNext ==
  ASSUME Disciplined, TypeOK, EpochsBounded, TokenInv, PhaseInv, RoundInv, [Next]_vars
  PROVE  PhaseInv'
<1>1. CASE FlushStart
  BY <1>1 DEF FlushStart, PhaseInv, Complete, arrayVars, TypeOK
<1>2. CASE SendBarrier
  <2>1. next \in Ring
    BY <1>2 DEF SendBarrier, TypeOK
  <2>2. epoch \notin delivered[next]
    BY <2>1 DEF TokenInv, WithTcp, Ring
  <2>3. ~Complete
    BY <2>1, <2>2 DEF Complete
  <2> QED
    BY <1>2, <2>3 DEF SendBarrier, PhaseInv, Complete, arrayVars
<1>3. CASE SendFails
  BY <1>3 DEF SendFails, PhaseInv, Complete, arrayVars
<1>4. CASE FlushSucceeds
  BY <1>4 DEF FlushSucceeds, PhaseInv, Complete, TypeOK
<1>5. CASE FlushTimesOut \/ FlushGivesUp
  BY <1>5 DEF FlushTimesOut, FlushGivesUp, PhaseInv, Disciplined
<1>6. CASE UNCHANGED <<arrayVars, callerVars>>
  BY <1>6 DEF PhaseInv, Complete, arrayVars, callerVars
<1>7. CASE ProcessBarrier
  <2>1. PICK i \in Ring :
          /\ epoch > 0 /\ epoch \notin delivered[i] /\ ~(next <= i)
          /\ delivered' = [delivered EXCEPT ![i] = @ \cup {epoch}]
          /\ Complete' => barrier_all_processed' = barrier_all_processed + 1
          /\ ~Complete' => barrier_all_processed' = barrier_all_processed
          /\ UNCHANGED callerVars
    BY <1>7, Recorded
  <2>2. ~Complete
    BY <2>1 DEF Complete
  <2>3. barrier_all_processed = 0 /\ pc \in {"sending", "waiting"} /\ epoch_no_sem_post = 0
    BY <2>1, <2>2 DEF PhaseInv, TypeOK
  <2>4. pc = "sending" => ~Complete'
    <3> SUFFICES ASSUME pc = "sending" PROVE ~Complete'
      OBVIOUS
    <3>1. next \in Ring
      BY DEF TypeOK
    <3>2. epoch \notin delivered[next]
      BY <3>1 DEF TokenInv, WithTcp, Ring
    <3>3. next # i
      BY <2>1 DEF Ring
    <3>4. delivered'[next] = delivered[next] /\ epoch' = epoch
      BY <2>1, <3>1, <3>3 DEF TypeOK, callerVars
    <3> QED
      BY <3>1, <3>2, <3>4 DEF Complete
  <2>5. UNCHANGED <<epoch, next, pc, epoch_no_sem_post>>
    BY <2>1 DEF callerVars
  <2> QED
    BY <2>1, <2>3, <2>4, <2>5 DEF PhaseInv
<1> QED
  BY <1>1, <1>2, <1>3, <1>4, <1>5, <1>6, <1>7 DEF Next, Caller, Network, QueueThread,
     HeartbeatArrives, Transmit, Retransmit, AckArrives, RingToQueue, ProcessHeartbeat,
     ProcessShort, QueueThreadExits, Quiescent, vars

\* The rows behind the current one, and the current one, across the wrap.
LEMMA RoundNext ==
  ASSUME Disciplined, TypeOK, EpochsBounded, TokenInv, PhaseInv, RoundInv, [Next]_vars
  PROVE  RoundInv'
<1> DEFINE row == epoch % ARRAY_SIZE
           cell(y, i) == received_barrier_msg_array[y][i]
           A == ARRAY_SIZE
<1>a. /\ epoch \in Nat /\ A \in Nat \ {0} /\ row \in 0 .. A - 1 /\ Row = 0 .. A - 1
      /\ array_round \in Nat /\ \A y \in Row, i \in Ring : cell(y, i) \in Nat
  BY ConstantsAssumption, RowOfEpoch DEF TypeOK, Row
<1>b. \A y \in Row, i \in Ring : cell(y, i) <= array_round
  BY DEF RoundInv
<1>1. CASE FlushStart
  <2>1. epoch' = epoch + 1 /\ UNCHANGED <<received_barrier_msg_array, array_round, delivered>>
    BY <1>1 DEF FlushStart, Disciplined, TypeOK, arrayVars
  <2>2. epoch = 0 \/ Complete
    BY <1>1 DEF FlushStart, PhaseInv
  <2>3. \A y \in Row, i \in Ring : row = A - 1 \/ y > row => cell(y, i) < array_round
    BY <2>2 DEF RoundInv
  <2>4. row' = IF row = A - 1 THEN 0 ELSE row + 1
    BY <1>a, <2>1, NextRow
  <2>5. \A i \in Ring : epoch' \notin delivered'[i]
    BY SMTT(30), <2>1, <1>a DEF EpochsBounded
  <2>6. 0 \in Ring
    BY ConstantsAssumption DEF Ring
  <2>7. ~(epoch = 0 \/ Complete)'
    BY <1>a, <2>1, <2>5, <2>6 DEF Complete
  <2>8. row' \in Row /\ (row = A - 1 \/ row' > row)
    BY <1>a, <2>4
  <2>9. \A y \in Row : y > row' => (row = A - 1 \/ y > row)
    BY <1>a, <2>4
  <2> HIDE DEF row
  <2>10. /\ \A y \in Row, i \in Ring : y > row' => cell(y, i) < array_round
         /\ \A i \in Ring : cell(row', i) < array_round
    BY <2>3, <2>8, <2>9
  <2>11. \A i \in Ring : cell(row', i) # array_round
    BY <1>a, <2>8, <2>10
  <2>12. \A i \in Ring : cell(row', i) = array_round <=> epoch' \in delivered'[i]
    BY <2>5, <2>11
  <2> QED
    BY <1>b, <2>1, <2>7, <2>10, <2>12 DEF RoundInv, row
<1>2. CASE UNCHANGED <<received_barrier_msg_array, array_round, delivered, epoch>>
  BY <1>2 DEF RoundInv, Complete
<1>3. CASE ProcessBarrier
  <2>1. PICK i \in Ring :
          /\ epoch > 0 /\ epoch \notin delivered[i]
          /\ delivered' = [delivered EXCEPT ![i] = @ \cup {epoch}]
          /\ received_barrier_msg_array' =
               [received_barrier_msg_array EXCEPT ![row][i] = array_round]
          /\ Complete' => array_round' = IF row = A - 1 THEN array_round + 1 ELSE array_round
          /\ ~Complete' => array_round' = array_round
          /\ epoch' = epoch
    BY <1>3, Recorded DEF callerVars
  <2>2. ~(epoch = 0 \/ Complete)
    BY <1>a, <2>1 DEF Complete
  <2>3. /\ \A y \in Row, j \in Ring : y > row => cell(y, j) < array_round
        /\ \A j \in Ring : cell(row, j) = array_round <=> epoch \in delivered[j]
    BY <2>2 DEF RoundInv
  <2>4. \A y \in Row, j \in Ring : received_barrier_msg_array'[y][j] =
          IF y = row /\ j = i THEN array_round ELSE cell(y, j)
    BY <1>a, <2>1 DEF TypeOK
  <2>5. \A j \in Ring : delivered'[j] = IF j = i THEN delivered[i] \cup {epoch} ELSE delivered[j]
    BY <2>1 DEF TypeOK
  <2>6. \A j \in Ring : received_barrier_msg_array'[row][j] = array_round
                          <=> epoch \in delivered'[j]
    BY <1>a, <2>3, <2>4, <2>5
  <2>7. \A y \in Row, j \in Ring : y > row => received_barrier_msg_array'[y][j] < array_round
    BY <1>a, <2>3, <2>4
  <2>8. \A y \in Row, j \in Ring : received_barrier_msg_array'[y][j] \in Nat
                          /\ received_barrier_msg_array'[y][j] <= array_round
    BY <1>a, <1>b, <2>4
  <2>9. row' = row
    BY <2>1
  <2>10. CASE Complete'
    <3>1. CASE row = A - 1
      <4>1. array_round' = array_round + 1
        BY <2>1, <2>10, <3>1
      <4>2. \A y \in Row, j \in Ring : received_barrier_msg_array'[y][j] < array_round'
        BY <1>a, <2>8, <4>1
      <4>3. \A y \in Row, j \in Ring : received_barrier_msg_array'[y][j] <= array_round'
        BY <1>a, <2>8, <4>1
      <4> HIDE DEF row
      <4> QED
        BY <2>10, <4>2, <4>3 DEF RoundInv, row
    <3>2. CASE row # A - 1
      <4>1. array_round' = array_round
        BY <2>1, <2>10, <3>2
      <4> QED
        BY <2>7, <2>8, <2>9, <2>10, <3>2, <4>1 DEF RoundInv
    <3> QED
      BY <3>1, <3>2
  <2>11. CASE ~Complete'
    <3>1. array_round' = array_round /\ epoch' = epoch
      BY <2>1, <2>11
    <3>2. ~(epoch = 0 \/ Complete)'
      BY <2>2, <2>11, <3>1
    <3> QED
      BY <2>6, <2>7, <2>8, <2>9, <3>1, <3>2 DEF RoundInv
  <2> QED
    BY <2>10, <2>11
<1> QED
  BY <1>1, <1>2, <1>3 DEF Next, Caller, Network, QueueThread, SendBarrier, SendFails,
     FlushSucceeds, FlushTimesOut, FlushGivesUp, HeartbeatArrives, Transmit, Retransmit,
     AckArrives, RingToQueue, ProcessHeartbeat, ProcessShort, QueueThreadExits, Quiescent,
     arrayVars, callerVars, vars

\* An epoch is declared when its last message is taken, and no earlier.
LEMMA DeclaredNext ==
  ASSUME Disciplined, TypeOK, EpochsBounded, TokenInv, PhaseInv, RoundInv, DeclaredInv,
         [Next]_vars
  PROVE  DeclaredInv'
<1>1. CASE FlushStart
  <2>1. epoch' = epoch + 1 /\ epoch \in Nat /\ UNCHANGED <<delivered, declared>>
    BY <1>1 DEF FlushStart, Disciplined, TypeOK, arrayVars
  <2>2. epoch = 0 \/ Complete
    BY <1>1 DEF FlushStart, PhaseInv
  <2>3. 0 \in Ring /\ epoch' \notin delivered'[0]
    BY <2>1, ConstantsAssumption DEF Ring, EpochsBounded
  <2>4. ~Complete'
    BY <2>3 DEF Complete
  <2> QED
    BY <2>1, <2>2, <2>4 DEF DeclaredInv, BarrierSound
<1>2. CASE UNCHANGED <<delivered, declared, epoch>>
  BY <1>2 DEF DeclaredInv, BarrierSound, Complete
<1>3. CASE ProcessBarrier
  <2>1. PICK i \in Ring :
          /\ delivered' = [delivered EXCEPT ![i] = @ \cup {epoch}]
          /\ Complete' => declared' = declared \cup {epoch}
          /\ ~Complete' => declared' = declared
          /\ epoch' = epoch
    BY <1>3, Recorded DEF callerVars
  <2>2. \A j \in Ring : delivered[j] \subseteq delivered'[j]
    BY <2>1 DEF TypeOK
  <2>3. BarrierSound'
    BY <2>1, <2>2 DEF DeclaredInv, BarrierSound, Complete
  <2>4. epoch \in Nat
    BY DEF TypeOK
  <2> QED
    BY <2>1, <2>3, <2>4 DEF DeclaredInv
<1> QED
  BY <1>1, <1>2, <1>3 DEF Next, Caller, Network, QueueThread, SendBarrier, SendFails,
     FlushSucceeds, FlushTimesOut, FlushGivesUp, HeartbeatArrives, Transmit, Retransmit,
     AckArrives, RingToQueue, ProcessHeartbeat, ProcessShort, QueueThreadExits, Quiescent,
     arrayVars, callerVars, vars

RoundsInv == TokenInv /\ PhaseInv /\ RoundInv /\ DeclaredInv

\* The inductive invariant of the array of rounds holds as long as the caller
\* waits for every flush of every epoch.
THEOREM Rounds == Disciplined /\ Spec => []RoundsInv
<1>1. Init => RoundsInv
  <2> SUFFICES ASSUME Init PROVE RoundsInv
    OBVIOUS
  <2>1. /\ \A i \in Ring : \A k \in 1 .. Len(rings[i]) : rings[i][k].kind = "short"
        /\ \A k \in 1 .. Len(nfq) : FALSE
    BY DEF Init
  <2>2. TokenInv
    BY <2>1 DEF Init, TokenInv, InRing, InQueue, WithTcp, Settled
  <2>3. PhaseInv
    BY DEF Init, PhaseInv
  <2>4. \A x \in Row, i \in Ring : received_barrier_msg_array[x][i] = 0 /\ array_round = 1
    BY DEF Init
  <2>5. RoundInv
    BY <2>4 DEF Init, RoundInv
  <2>6. DeclaredInv
    BY DEF Init, DeclaredInv, BarrierSound
  <2> QED
    BY <2>2, <2>3, <2>5, <2>6 DEF RoundsInv
<1>2. Disciplined /\ TypeOK /\ EpochsBounded /\ RoundsInv /\ [Next]_vars => RoundsInv'
  BY TokenNext, PhaseNext, RoundNext, DeclaredNext DEF RoundsInv
<1>3. Disciplined => (Spec => []RoundsInv)
  <2>1. SUFFICES ASSUME Disciplined PROVE Spec => []RoundsInv
    OBVIOUS
  <2>2. TypeOK /\ EpochsBounded /\ RoundsInv /\ [Next]_vars => RoundsInv'
    BY <1>2, <2>1
  <2> QED
    BY <1>1, <2>2, Typing, Bounded, PTL DEF Spec
<1> QED
  BY <1>3

\* When the caller waits for every flush, process_packet reports "all barrier
\* messages for epoch are received" only when they are.
THEOREM DeclaredSound == Disciplined /\ Spec => []BarrierSound
<1>1. RoundsInv => BarrierSound
  BY DEF RoundsInv, DeclaredInv
<1> QED
  BY <1>1, Rounds, PTL

\* And it reports every epoch whose messages have all come out of the rings,
\* however often the rows of the array have been used before.
THEOREM DeclaredComplete == Disciplined /\ Spec => []BarrierComplete
<1>1. TypeOK /\ RoundsInv => BarrierComplete
  BY DEF RoundsInv, DeclaredInv, BarrierComplete, Complete, TypeOK
<1> QED
  BY <1>1, Typing, Rounds, PTL

\* A barrier_flush that returns success leaves no heartbeat in a ring or in the
\* netfilter queue that was there when it was called.
THEOREM FlushIsSound == Disciplined /\ Spec => []FlushSound
<1>1. RingFlushed /\ RoundsInv => FlushSound
  BY DEF RoundsInv, PhaseInv, Complete, RingFlushed, FlushSound
<1> QED
  BY <1>1, MessagesFlush, Rounds, PTL
=============================================================================
