--------------------------- MODULE RxFlushProofs ---------------------------
(* Proof that the barrier implements RxFlush when the caller waits for     *)
(* every flush.                                                            *)
EXTENDS RxBarrierFlush, RxBarrierRounds

\* The heartbeats on the machine, by their places.
LEMMA PendingPlaces ==
  ASSUME NEW h
  PROVE  h \in pendingHb <=>
           \/ \E i \in Ring : \E k \in 1 .. Len(rings[i]) :
                rings[i][k].kind = "udp" /\ h = [id |-> rings[i][k].id, node |-> rings[i][k].node]
           \/ \E k \in 1 .. Len(nfq) :
                nfq[k].kind = "udp" /\ h = [id |-> nfq[k].id, node |-> nfq[k].node]
<1>1. \A p : p \in onMachine <=>
        \/ \E i \in Ring : \E k \in 1 .. Len(rings[i]) : p = rings[i][k]
        \/ \E k \in 1 .. Len(nfq) : p = nfq[k]
  <2>1. \A p : p \in onMachine <=>
          (\E i \in Ring : p \in packets(rings[i])) \/ p \in packets(nfq)
    BY Zenon DEF onMachine
  <2> QED
    BY <2>1 DEF packets
<1>2. h \in pendingHb <=>
        \E p \in onMachine : p.kind = "udp" /\ h = [id |-> p.id, node |-> p.node]
  BY DEF pendingHb
<1> QED
  BY <1>1, <1>2

\* The same after a step.
LEMMA PendingPlacesNext ==
  ASSUME NEW h
  PROVE  h \in pendingHb' <=>
           \/ \E i \in Ring : \E k \in 1 .. Len(rings'[i]) :
                /\ rings'[i][k].kind = "udp"
                /\ h = [id |-> rings'[i][k].id, node |-> rings'[i][k].node]
           \/ \E k \in 1 .. Len(nfq') :
                nfq'[k].kind = "udp" /\ h = [id |-> nfq'[k].id, node |-> nfq'[k].node]
<1>1. \A p : p \in onMachine' <=>
        \/ \E i \in Ring : \E k \in 1 .. Len(rings'[i]) : p = rings'[i][k]
        \/ \E k \in 1 .. Len(nfq') : p = nfq'[k]
  <2>1. \A p : p \in onMachine' <=>
          (\E i \in Ring : p \in packets(rings'[i])) \/ p \in packets(nfq')
    BY Zenon DEF onMachine
  <2> QED
    BY <2>1 DEF packets
<1>2. h \in pendingHb' <=>
        \E p \in onMachine' : p.kind = "udp" /\ h = [id |-> p.id, node |-> p.node]
  BY DEF pendingHb
<1> QED
  BY <1>1, <1>2

\* A step that puts no new heartbeat on the machine is one where heartbeats leave.
LEMMA PacketsLeave ==
  ASSUME \A i \in Ring : \A k \in 1 .. Len(rings'[i]) : rings'[i][k].kind = "udp" =>
           \E l \in 1 .. Len(rings[i]) : rings'[i][k] = rings[i][l],
         \A k \in 1 .. Len(nfq') : nfq'[k].kind = "udp" =>
           \/ \E l \in 1 .. Len(nfq) : nfq'[k] = nfq[l]
           \/ \E i \in Ring : \E l \in 1 .. Len(rings[i]) : nfq'[k] = rings[i][l],
         UNCHANGED <<arrived, mark, pc>>
  PROVE  Flush!Next
<1>1. ASSUME NEW h \in pendingHb' PROVE h \in pendingHb
  <2>1. CASE \E i \in Ring : \E k \in 1 .. Len(rings'[i]) :
               /\ rings'[i][k].kind = "udp"
               /\ h = [id |-> rings'[i][k].id, node |-> rings'[i][k].node]
    BY <2>1, PendingPlaces
  <2>2. CASE \E k \in 1 .. Len(nfq') :
               nfq'[k].kind = "udp" /\ h = [id |-> nfq'[k].id, node |-> nfq'[k].node]
    BY <2>2, PendingPlaces
  <2> QED
    BY <1>1, <2>1, <2>2, PendingPlacesNext
<1> DEFINE S == pendingHb \ pendingHb'
<1>2. S \in SUBSET pendingHb /\ pendingHb' = pendingHb \ S
  BY <1>1
<1>3. phaseOf' = phaseOf
  BY DEF phaseOf
<1>4. Flush!Leave(S)
  BY <1>2, <1>3 DEF Flush!Leave
<1> QED
  BY <1>2, <1>4 DEF Flush!Next

\* A heartbeat joins a ring.
LEMMA PacketArrives ==
  ASSUME TypeOK, NEW n \in Node, NEW i \in Ring, HeartbeatArrives(n, i)
  PROVE  Flush!Arrive(n)
<1> DEFINE m == [kind |-> "udp", node |-> n, ring |-> i, id |-> arrived + 1]
           new == [id |-> arrived + 1, node |-> n]
<1>1. m \in Packet
  BY DEF Packet, Heartbeat, TypeOK
<1>2. m.kind = "udp" /\ m.id = arrived + 1 /\ m.node = n
  OBVIOUS
<1>3. /\ rings' = [rings EXCEPT ![i] = Append(@, m)] /\ nfq' = nfq
      /\ arrived < MaxHb /\ arrived' = arrived + 1 /\ UNCHANGED <<mark, pc>>
  BY DEF HeartbeatArrives, callerVars
<1> HIDE DEF m
<1>4. \A j \in Ring : \A k \in 1 .. Len(rings'[j]) :
        \/ k \in 1 .. Len(rings[j]) /\ rings'[j][k] = rings[j][k]
        \/ j = i /\ k = Len(rings[i]) + 1 /\ rings'[j][k] = m
  BY <1>1, <1>3, RingAppend
<1>5. /\ \A j \in Ring : \A k \in 1 .. Len(rings[j]) :
           k \in 1 .. Len(rings'[j]) /\ rings'[j][k] = rings[j][k]
      /\ Len(rings'[i]) \in 1 .. Len(rings'[i]) /\ rings'[i][Len(rings'[i])] = m
  <2>1. rings[i] \in Seq(Packet) /\ rings'[i] = Append(rings[i], m)
    BY <1>3 DEF TypeOK
  <2>2. \A j \in Ring : j # i => rings'[j] = rings[j]
    BY <1>3 DEF TypeOK
  <2> QED
    BY <1>1, <2>1, <2>2
<1>6. \A h : h \in pendingHb' => h \in pendingHb \/ h = new
  <2> SUFFICES ASSUME NEW h, h \in pendingHb' PROVE h \in pendingHb \/ h = new
    OBVIOUS
  <2>1. CASE \E j \in Ring : \E k \in 1 .. Len(rings'[j]) :
               /\ rings'[j][k].kind = "udp"
               /\ h = [id |-> rings'[j][k].id, node |-> rings'[j][k].node]
    BY <1>2, <1>4, <2>1, PendingPlaces
  <2>2. CASE \E k \in 1 .. Len(nfq') :
               nfq'[k].kind = "udp" /\ h = [id |-> nfq'[k].id, node |-> nfq'[k].node]
    BY <1>3, <2>2, PendingPlaces
  <2> QED
    BY <2>1, <2>2, PendingPlacesNext
<1>7. new \in pendingHb'
  BY <1>2, <1>5, PendingPlacesNext
<1>8. \A h : h \in pendingHb => h \in pendingHb'
  <2> SUFFICES ASSUME NEW h, h \in pendingHb PROVE h \in pendingHb'
    OBVIOUS
  <2>1. CASE \E j \in Ring : \E k \in 1 .. Len(rings[j]) :
               rings[j][k].kind = "udp" /\ h = [id |-> rings[j][k].id, node |-> rings[j][k].node]
    BY <1>5, <2>1, PendingPlacesNext
  <2>2. CASE \E k \in 1 .. Len(nfq) :
               nfq[k].kind = "udp" /\ h = [id |-> nfq[k].id, node |-> nfq[k].node]
    BY <1>3, <2>2, PendingPlacesNext
  <2> QED
    BY <2>1, <2>2, PendingPlaces
<1>9. pendingHb' = pendingHb \cup {new}
  BY <1>6, <1>7, <1>8
<1>10. phaseOf' = phaseOf
  BY <1>3 DEF phaseOf
<1> QED
  BY <1>3, <1>9, <1>10 DEF Flush!Arrive

\* The caller takes the semaphore when no old heartbeat is left.
LEMMA FlushReturns ==
  ASSUME TypeOK, EpochsBounded, RingFlushed, PhaseInv, FlushSucceeds
  PROVE  Flush!FlushReturn
<1>1. /\ pc = "waiting" /\ pc' = "flushed" /\ barrier_all_processed > 0
      /\ UNCHANGED <<rings, nfq, arrived, mark>>
  BY DEF FlushSucceeds
<1>2. \A i \in Ring : Flushed(i)
  BY <1>1 DEF PhaseInv, Complete, RingFlushed
<1>3. ASSUME NEW h \in pendingHb PROVE h.id > mark
  <2>1. CASE \E i \in Ring : \E k \in 1 .. Len(rings[i]) :
               rings[i][k].kind = "udp" /\ h = [id |-> rings[i][k].id, node |-> rings[i][k].node]
    <3>0. PICK i \in Ring : \E k \in 1 .. Len(rings[i]) :
            rings[i][k].kind = "udp" /\ h = [id |-> rings[i][k].id, node |-> rings[i][k].node]
      BY <2>1
    <3>1. PICK k \in 1 .. Len(rings[i]) :
            rings[i][k].kind = "udp" /\ h = [id |-> rings[i][k].id, node |-> rings[i][k].node]
      BY <3>0
    <3>2. rings[i][k].id \in Nat /\ rings[i][k].ring = i
      BY <3>1, PacketsTyped, PacketFields DEF EpochsBounded
    <3>3. ~(rings[i][k].id <= mark)
      BY <1>2, <3>1, <3>2 DEF Flushed, IsOld
    <3> QED
      BY <3>1, <3>2, <3>3 DEF TypeOK
  <2>2. CASE \E k \in 1 .. Len(nfq) :
               nfq[k].kind = "udp" /\ h = [id |-> nfq[k].id, node |-> nfq[k].node]
    <3>1. PICK k \in 1 .. Len(nfq) :
            nfq[k].kind = "udp" /\ h = [id |-> nfq[k].id, node |-> nfq[k].node]
      BY <2>2
    <3>2. nfq[k].id \in Nat /\ nfq[k].ring \in Ring
      BY <3>1, PacketsTyped, PacketFields
    <3>3. ~(nfq[k].id <= mark)
      BY <1>2, <3>1, <3>2 DEF Flushed, IsOld
    <3> QED
      BY <3>1, <3>2, <3>3 DEF TypeOK
  <2> QED
    BY <1>3, <2>1, <2>2, PendingPlaces
<1>4. pendingHb' = pendingHb
  BY <1>1 DEF pendingHb, onMachine, packets
<1>5. phaseOf = "flushing" /\ phaseOf' = "flushed"
  BY <1>1 DEF phaseOf
<1> QED
  BY <1>1, <1>3, <1>4, <1>5 DEF Flush!FlushReturn

\* barrier_flush implements RxFlush for every number of rings, rows, epochs and
\* heartbeats, with netfilter drops, send errors and the death of the queue
\* thread, as long as the caller waits for every flush of every epoch.
THEOREM Refinement == Disciplined /\ Spec => ImplementsFlush
<1>1. Init => Flush!Init
  <2> SUFFICES ASSUME Init PROVE Flush!Init
    OBVIOUS
  <2>1. /\ \A i \in Ring : \A k \in 1 .. Len(rings[i]) : rings[i][k].kind = "short"
        /\ \A k \in 1 .. Len(nfq) : FALSE
    BY DEF Init
  <2>2. \A h : h \notin pendingHb
    BY <2>1, PendingPlaces
  <2>3. phaseOf = "idle"
    BY DEF Init, phaseOf
  <2> QED
    BY <2>2, <2>3 DEF Init, Flush!Init
<1>2. Disciplined /\ TypeOK /\ EpochsBounded /\ RingFlushed /\ RoundsInv /\ [Next]_vars
      => [Flush!Next]_(Flush!flushVars)
  <2> SUFFICES ASSUME Disciplined, TypeOK, EpochsBounded, RingFlushed, RoundsInv, [Next]_vars
               PROVE  Flush!Next \/ UNCHANGED Flush!flushVars
    OBVIOUS
  <2>0. PhaseInv
    BY DEF RoundsInv
  <2>1. CASE FlushStart
    <3>1. /\ pc \in {"idle", "flushed"} /\ pc' = "sending" /\ mark' = arrived
          /\ UNCHANGED <<rings, nfq, arrived>>
      BY <2>0, <2>1 DEF FlushStart, PhaseInv
    <3>2. pendingHb' = pendingHb
      BY <3>1 DEF pendingHb, onMachine, packets
    <3>3. phaseOf # "flushing" /\ phaseOf' = "flushing"
      BY <3>1 DEF phaseOf
    <3>4. Flush!FlushCall
      BY <3>1, <3>2, <3>3 DEF Flush!FlushCall
    <3> QED
      BY <3>4 DEF Flush!Next
  <2>2. CASE SendBarrier \/ SendFails \/ UNCHANGED vars
    <3>1. /\ UNCHANGED <<rings, nfq, arrived, mark>>
          /\ pc' = pc \/ (pc = "sending" /\ pc' \in {"sending", "waiting"})
      BY <2>2 DEF SendBarrier, SendFails, vars, callerVars
    <3>2. pendingHb' = pendingHb
      BY <3>1 DEF pendingHb, onMachine, packets
    <3>3. phaseOf' = phaseOf
      BY <3>1 DEF phaseOf
    <3> QED
      BY <3>1, <3>2, <3>3 DEF Flush!flushVars
  <2>3. CASE FlushSucceeds
    BY <2>0, <2>3, FlushReturns DEF Flush!Next
  <2>4. CASE FlushTimesOut \/ FlushGivesUp
    BY <2>0, <2>4 DEF FlushTimesOut, FlushGivesUp, PhaseInv, Disciplined
  <2>5. ASSUME NEW n \in Node, NEW i \in Ring, HeartbeatArrives(n, i) PROVE Flush!Next
    BY <2>5, PacketArrives DEF Flush!Next
  <2>6. ASSUME NEW i \in Ring, Transmit(i) \/ Retransmit(i) PROVE Flush!Next
    <3>1. PICK s \in Seq(Nat) : /\ s # <<>>
                                /\ rings' = [rings EXCEPT ![i] = Append(@, segment(i, s))]
                                /\ UNCHANGED <<nfq, arrived, mark, pc>>
      BY <2>6 DEF Transmit, Retransmit, callerVars, TypeOK
    <3>2. segment(i, s) \in Packet /\ segment(i, s).kind # "udp"
      BY <3>1 DEF segment, Packet, BarrierMsg
    <3>3. \A j \in Ring : \A k \in 1 .. Len(rings'[j]) :
            \/ k \in 1 .. Len(rings[j]) /\ rings'[j][k] = rings[j][k]
            \/ j = i /\ k = Len(rings[i]) + 1 /\ rings'[j][k] = segment(i, s)
      BY SMTT(30), <3>1, <3>2, RingAppend
    <3>4. \A j \in Ring : \A k \in 1 .. Len(rings'[j]) : rings'[j][k].kind = "udp" =>
            \E l \in 1 .. Len(rings[j]) : rings'[j][k] = rings[j][l]
      BY <3>2, <3>3
    <3> QED
      BY <3>1, <3>4, PacketsLeave
  <2>7. ASSUME NEW i \in Ring, RingToQueue(i) PROVE Flush!Next
    <3>1. /\ rings[i] # <<>> /\ rings' = [rings EXCEPT ![i] = Tail(@)]
          /\ UNCHANGED <<arrived, mark, pc>>
      BY <2>7 DEF RingToQueue, callerVars
    <3>2. /\ \A j \in Ring \ {i} : rings'[j] = rings[j]
          /\ \A k \in 1 .. Len(rings'[i]) :
               k + 1 \in 1 .. Len(rings[i]) /\ rings'[i][k] = rings[i][k + 1]
          /\ 1 \in 1 .. Len(rings[i])
      BY <3>1, RingTail
    <3>3. \A j \in Ring : \A k \in 1 .. Len(rings'[j]) :
            \E l \in 1 .. Len(rings[j]) : rings'[j][k] = rings[j][l]
      BY <3>2
    <3>4. \A k \in 1 .. Len(nfq') :
            \/ \E l \in 1 .. Len(nfq) : nfq'[k] = nfq[l]
            \/ nfq'[k] = rings[i][1]
      BY <2>7, QueueAppend
    <3> QED
      BY <3>1, <3>2, <3>3, <3>4, PacketsLeave
  <2>8. CASE ProcessHeartbeat \/ ProcessShort \/ ProcessBarrier
    <3>1. nfq # <<>> /\ nfq' = Tail(nfq) /\ UNCHANGED <<rings, arrived, mark, pc>>
      BY <2>8 DEF ProcessHeartbeat, ProcessShort, ProcessBarrier, callerVars
    <3>2. \A k \in 1 .. Len(nfq') : \E l \in 1 .. Len(nfq) : nfq'[k] = nfq[l]
      BY <3>1, QueueTail
    <3> QED
      BY <3>1, <3>2, PacketsLeave DEF Flush!Next
  <2>9. CASE QueueThreadExits
    <3>1. (\A k \in 1 .. Len(nfq') : FALSE) /\ UNCHANGED <<rings, arrived, mark, pc>>
      BY <2>9 DEF QueueThreadExits, callerVars
    <3> QED
      BY <3>1, PacketsLeave
  <2>10. ASSUME NEW i \in Ring, AckArrives(i) PROVE Flush!Next
    <3>1. UNCHANGED <<rings, nfq, arrived, mark, pc>>
      BY <2>10 DEF AckArrives, callerVars
    <3> QED
      BY <3>1, PacketsLeave
  <2> QED
    BY <2>1, <2>2, <2>3, <2>4, <2>5, <2>6, <2>7, <2>8, <2>9, <2>10
       DEF Next, Caller, Network, QueueThread, Quiescent
<1>3. Disciplined => (Spec => ImplementsFlush)
  <2>1. SUFFICES ASSUME Disciplined PROVE Spec => ImplementsFlush
    OBVIOUS
  <2>2. TypeOK /\ EpochsBounded /\ RingFlushed /\ RoundsInv /\ [Next]_vars
        => [Flush!Next]_(Flush!flushVars)
    BY <1>2, <2>1
  <2>3. Spec => []RoundsInv
    BY <2>1, Rounds
  <2> QED
    BY <1>1, <2>2, <2>3, Typing, Bounded, MessagesFlush, PTL
       DEF Spec, ImplementsFlush, Flush!Spec
<1> QED
  BY <1>3
=============================================================================
