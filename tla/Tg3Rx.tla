------------------------------- MODULE Tg3Rx -------------------------------
(***************************************************************************)
(* The receive path of the NIC driver (kmodule/tg3.c) with RSS, as on the  *)
(* receiver of SafeTimer: every vector has a return ring and a poll, which *)
(* may run on different CPUs.  All take their buffers from one producer    *)
(* ring (that of napi[0]); a poll puts the buffers of the packets it has   *)
(* handled into a ring of its own, from which the poll of napi[1] moves    *)
(* them back to the producer ring.  A packet that stays in a return ring   *)
(* is one that a barrier message behind it cannot flush.                   *)
(*                                                                         *)
(* A buffer is present or not: what is in it, and whether a packet is      *)
(* copied out of it or it is replaced, is left out.  Of a vector's own     *)
(* ring only the number of its buffers is kept; where it wraps, and with   *)
(* that how a move is cut in two, is a choice.  The transmit half of  *)
(* the poll is Tg3Tx; here it has no work.  rx_std_max_post, for chips     *)
(* without RSS, is the size of the ring and never reached.                 *)
(***************************************************************************)
EXTENDS Integers, Sequences, FiniteSets, FiniteSetsExt

CONSTANTS
  rxq_cnt,    \* vectors 1 .. rxq_cnt receive
  Key,        \* the rings: RXD_OPAQUE_RING_STD, RXD_OPAQUE_RING_JUMBO
  Size,       \* of a key: rx_std_ring_mask + 1, rx_jmb_ring_mask + 1
  Pending,    \* of a key: rx_pending, rx_jumbo_pending
  RetSize,    \* rx_ret_ring_mask + 1
  Budget      \* packets of one poll

Vec == 1 .. rxq_cnt
Slot(k) == 0 .. Size[k] - 1

\* tg3_set_ringparam: no more buffers than the mask of the ring.
ASSUME RxAssumption ==
  /\ rxq_cnt \in Nat \ {0} /\ Budget \in Nat \ {0} /\ RetSize \in Nat \ {0}
  /\ \A k \in Key : Size[k] \in Nat /\ Pending[k] \in 1 .. Size[k] - 1

VARIABLES
  data,        \* producer ring of a key: the slots that have a buffer
  prod_idx,    \* its rx_std_prod_idx / rx_jmb_prod_idx, ...
  mbox,        \* ... as last told to the chip
  taken,       \* the next slot that the chip fills
  ret,         \* of a vector: packets in its return ring, not acknowledged
  sw,          \* of a vector: how many of them tg3_rx has handled
  spr,         \* of a vector and key: published buffers in the vector's ring
  rx_refill,
  pc, done,    \* of a vector: its poll, and work_done
  xi, err,     \* napi[1]: ring that is moved (<<vector, key>>), and ENOSPC
  tail,        \* of a vector: what follows napi_complete
  armed,       \* of a vector: the chip may interrupt
  fresh,       \* of a vector: status_tag differs from last_tag
  irq          \* of a vector: an MSI is on its way

chip == <<mbox, taken>>
poll == <<pc, done, xi, err, tail>>
bufs == <<data, prod_idx, sw, spr>>
intr == <<armed, fresh, irq>>
vars == <<chip, ret, bufs, rx_refill, poll, intr>>

keys == CHOOSE s \in [1 .. Cardinality(Key) -> Key] : \A i, j \in DOMAIN s : s[i] = s[j] => i = j

\* tg3_init_rings has filled the producer ring; the vectors wait for interrupts.
Init ==
  /\ data = [k \in Key |-> 0 .. Pending[k] - 1] /\ prod_idx = Pending /\ mbox = Pending
  /\ taken = [k \in Key |-> 0] /\ ret = [n \in Vec |-> <<>>] /\ sw = [n \in Vec |-> 0]
  /\ spr = [n \in Vec |-> [k \in Key |-> 0]]
  /\ rx_refill = FALSE
  /\ pc = [n \in Vec |-> "idle"] /\ done = [n \in Vec |-> 0] /\ xi = 1 /\ err = FALSE
  /\ tail = [n \in Vec |-> "none"]
  /\ armed = [n \in Vec |-> TRUE] /\ fresh = [n \in Vec |-> FALSE] /\ irq = [n \in Vec |-> FALSE]

-----------------------------------------------------------------------------
(* The chip *)

\* New status blocks for the vectors of N: a vector that is armed interrupts,
\* once.
StatusUpdate(N) ==
  /\ fresh' = [n \in Vec |-> fresh[n] \/ n \in N]
  /\ irq' = [n \in Vec |-> irq[n] \/ (n \in N /\ armed[n])]
  /\ armed' = [n \in Vec |-> armed[n] /\ n \notin N]

\* A packet fills the next buffer of a ring and is reported to the vector of
\* its hash.
ChipReceives ==
  \E n \in Vec, k \in Key :
    /\ taken[k] # mbox[k] /\ Len(ret[n]) < RetSize
    /\ ret' = [ret EXCEPT ![n] = Append(@, <<k, taken[k]>>)]
    /\ taken' = [taken EXCEPT ![k] = (@ + 1) % Size[k]]
    /\ StatusUpdate({n})
    /\ UNCHANGED <<mbox, bufs, rx_refill, poll>>

-----------------------------------------------------------------------------
(* The poll of a vector *)

napi_schedule(p, n) == IF p[n] = "idle" THEN [p EXCEPT ![n] = "work"] ELSE p

tg3_msi_1shot(n) ==
  /\ irq[n] /\ irq' = [irq EXCEPT ![n] = FALSE]
  /\ pc' = napi_schedule(pc, n)
  /\ UNCHANGED <<chip, ret, bufs, rx_refill, done, xi, err, tail, armed, fresh>>

\* After tg3_rx: napi[1] refills; a poll whose budget is used up is called
\* again later.
AfterRx(n, d) == IF n = 1 THEN "refill off" ELSE IF d >= Budget THEN "work" ELSE "tag"
WorkDone(n, d) == IF n # 1 /\ d >= Budget THEN 0 ELSE d

\* The return ring is empty.
tg3_poll_work(n) ==
  /\ pc[n] = "work" /\ ret[n] = <<>>
  /\ pc' = [pc EXCEPT ![n] = AfterRx(n, done[n])]
  /\ done' = [done EXCEPT ![n] = WorkDone(n, @)]
  /\ UNCHANGED <<chip, ret, bufs, rx_refill, xi, err, tail, intr>>

\* The buffer leaves its slot: a new one, of tg3_alloc_rx_data, or itself, with
\* tg3_recycle_rx, goes to the vector's own ring.
Taken(k, desc_idx) == data' = [data EXCEPT ![k] = @ \ {desc_idx}]

\* A packet that is dropped costs no budget.
RxPacket(n) ==
  /\ pc[n] \in {"work", "rx"} /\ sw[n] < Len(ret[n]) /\ done[n] < Budget
  /\ pc' = [pc EXCEPT ![n] = "rx"]
  /\ Taken(ret[n][sw[n] + 1][1], ret[n][sw[n] + 1][2])
  /\ sw' = [sw EXCEPT ![n] = @ + 1]
  /\ \E received \in 0 .. 1 : done' = [done EXCEPT ![n] = @ + received]
  /\ UNCHANGED <<chip, ret, prod_idx, spr, rx_refill, xi, err, tail, intr>>

\* Packets of tg3_rx's loop so far that came from ring k: the distance of its
\* own producer index from the published one.
Handled(n, k) == Cardinality({i \in 1 .. sw[n] : ret[n][i][1] = k})

\* The end of tg3_rx: acknowledge the return ring, publish the vector's ring.
RxEnds(n) ==
  /\ pc[n] = "rx" /\ (sw[n] = Len(ret[n]) \/ done[n] >= Budget)
  /\ ret' = [ret EXCEPT ![n] = SubSeq(@, sw[n] + 1, Len(@))] /\ sw' = [sw EXCEPT ![n] = 0]
  /\ spr' = [spr EXCEPT ![n] = [k \in Key |-> @[k] + Handled(n, k)]]
  /\ IF n # 1 THEN pc' = [pc EXCEPT ![n] = "refill on"] /\ UNCHANGED done
     ELSE /\ pc' = [pc EXCEPT ![n] = AfterRx(n, done[n])]
          /\ done' = [done EXCEPT ![n] = WorkDone(n, @)]
  /\ UNCHANGED <<chip, data, prod_idx, rx_refill, xi, err, tail, intr>>

RefillOn(n) ==
  /\ pc[n] = "refill on" /\ pc' = [pc EXCEPT ![n] = "schedule"]
  /\ rx_refill' = TRUE
  /\ UNCHANGED <<chip, ret, bufs, done, xi, err, tail, intr>>

RefillSchedule(n) ==
  /\ pc[n] = "schedule"
  /\ pc' = napi_schedule([pc EXCEPT ![n] = AfterRx(n, done[n])], 1)
  /\ done' = [done EXCEPT ![n] = WorkDone(n, @)]
  /\ UNCHANGED <<chip, ret, bufs, rx_refill, xi, err, tail, intr>>

-----------------------------------------------------------------------------
(* napi[1] refills the producer ring *)

RefillOff ==
  /\ pc[1] = "refill off" /\ pc' = [pc EXCEPT ![1] = "xfer"]
  /\ rx_refill' = FALSE /\ xi' = 1 /\ err' = FALSE
  /\ UNCHANGED <<chip, ret, bufs, done, tail, intr>>

\* Ring xi: vector and key.
XferVec == ((xi - 1) \div Cardinality(Key)) + 1
XferKey == keys[((xi - 1) % Cardinality(Key)) + 1]

\* The next ring, or the end of the loops.
XferNext ==
  /\ xi' = xi + 1
  /\ pc' = [pc EXCEPT ![1] = IF xi = rxq_cnt * Cardinality(Key) THEN "mail" ELSE "xfer"]

\* cpycnt buffers of vector i's ring k.
Move(i, k, cpycnt) ==
  /\ data' = [data EXCEPT ![k] = @ \cup (prod_idx[k] .. prod_idx[k] + cpycnt - 1)]
  /\ spr' = [spr EXCEPT ![i][k] = @ - cpycnt]
  /\ prod_idx' = [prod_idx EXCEPT ![k] = (@ + cpycnt) % Size[k]]

\* Mutant: a slot that still has its buffer is overwritten.
xferOverwrites ==
  /\ pc[1] = "xfer"
  /\ IF spr[XferVec][XferKey] = 0 THEN XferNext /\ UNCHANGED <<data, spr, prod_idx>>
     ELSE Move(XferVec, XferKey, 1) /\ UNCHANGED <<xi, pc>>
  /\ UNCHANGED <<chip, ret, sw, rx_refill, done, err, tail, intr>>

\* One turn of a loop of tg3_rx_prodring_xfer: a run of buffers, up to the
\* end of either ring and to the first slot that another vector has not
\* emptied yet.
tg3_rx_prodring_xfer ==
  LET i == XferVec
      k == XferKey
  IN  /\ pc[1] = "xfer"
      /\ \/ spr[i][k] = 0 /\ XferNext /\ UNCHANGED <<data, spr, prod_idx, err>>
         \/ \E run \in 1 .. Min({spr[i][k], Size[k] - prod_idx[k]}) :
              LET busy == {j \in 0 .. run - 1 : prod_idx[k] + j \in data[k]}
                  cpycnt == Min(busy \cup {run})
              IN  /\ err' = (err \/ busy # {})
                  /\ IF cpycnt = 0 THEN XferNext /\ UNCHANGED <<data, spr, prod_idx>>
                     ELSE Move(i, k, cpycnt) /\ UNCHANGED <<xi, pc>>
      /\ UNCHANGED <<chip, ret, sw, rx_refill, done, tail, intr>>

\* The chip is told; after ENOSPC the other vectors are made to interrupt.
RefillMailbox ==
  /\ pc[1] = "mail"
  /\ mbox' = prod_idx
  /\ IF err THEN StatusUpdate(Vec \ {1}) ELSE UNCHANGED intr
  /\ pc' = [pc EXCEPT ![1] = IF done[1] >= Budget THEN "work" ELSE "tag"]
  /\ done' = [done EXCEPT ![1] = IF @ >= Budget THEN 0 ELSE @]
  /\ err' = FALSE /\ xi' = 1
  /\ UNCHANGED <<taken, ret, bufs, rx_refill, tail>>

-----------------------------------------------------------------------------
(* The end of a poll, tg3_poll_msix *)

PollReadsTag(n) ==
  /\ pc[n] = "tag" /\ pc' = [pc EXCEPT ![n] = "check"]
  /\ fresh' = [fresh EXCEPT ![n] = FALSE]
  /\ UNCHANGED <<chip, ret, bufs, rx_refill, done, xi, err, tail, armed, irq>>

\* No work and nothing to refill, ...
PollChecks(n) ==
  /\ pc[n] = "check"
  /\ pc' = [pc EXCEPT ![n] = IF ret[n] # <<>> \/ (n = 1 /\ rx_refill) THEN "work" ELSE "complete"]
  /\ UNCHANGED <<chip, ret, bufs, rx_refill, done, xi, err, tail, intr>>

\* ... so napi_complete.  A poll that another CPU starts at once runs beside
\* what is left of this one.
PollCompletes(n) ==
  /\ pc[n] = "complete" /\ pc' = [pc EXCEPT ![n] = "idle"] /\ done' = [done EXCEPT ![n] = 0]
  /\ tail[n] = "none" /\ tail' = [tail EXCEPT ![n] = "mbox"]
  /\ UNCHANGED <<chip, ret, bufs, rx_refill, xi, err, intr>>

\* Mutant: interrupts are enabled without the tag.
PollRearmsBlind(n) ==
  /\ tail[n] = "mbox" /\ tail' = [tail EXCEPT ![n] = IF n = 1 THEN "refill" ELSE "none"]
  /\ armed' = [armed EXCEPT ![n] = TRUE]
  /\ UNCHANGED <<chip, ret, bufs, rx_refill, pc, done, xi, err, fresh, irq>>

\* Interrupts are enabled again; the chip interrupts at once when last_tag is
\* not its latest.
PollRearms(n) ==
  /\ tail[n] = "mbox" /\ tail' = [tail EXCEPT ![n] = IF n = 1 THEN "refill" ELSE "none"]
  /\ IF fresh[n] THEN irq' = [irq EXCEPT ![n] = TRUE] /\ armed' = [armed EXCEPT ![n] = FALSE]
     ELSE armed' = [armed EXCEPT ![n] = TRUE] /\ UNCHANGED irq
  /\ UNCHANGED <<chip, ret, bufs, rx_refill, pc, done, xi, err, fresh>>

\* Mutant: the flag is not looked at after napi_complete.
PollForgets ==
  /\ tail[1] = "refill" /\ tail' = [tail EXCEPT ![1] = "none"]
  /\ UNCHANGED <<chip, ret, bufs, rx_refill, pc, done, xi, err, intr>>

\* napi[1] looks at rx_refill again, after napi_complete.
PollRefills ==
  /\ tail[1] = "refill" /\ tail' = [tail EXCEPT ![1] = "none"]
  /\ IF rx_refill THEN StatusUpdate({1}) ELSE UNCHANGED intr
  /\ UNCHANGED <<chip, ret, bufs, rx_refill, pc, done, xi, err>>

-----------------------------------------------------------------------------

PollStep(n) ==
  \/ tg3_poll_work(n) \/ RxPacket(n) \/ RxEnds(n) \/ RefillOn(n) \/ RefillSchedule(n)
  \/ PollReadsTag(n) \/ PollChecks(n) \/ PollCompletes(n) \/ PollRearms(n)
  \/ tg3_msi_1shot(n)
Refill == RefillOff \/ tg3_rx_prodring_xfer \/ RefillMailbox \/ PollRefills
\* Every vector waits for an interrupt.
Quiescent == (\A n \in Vec : pc[n] = "idle" /\ tail[n] = "none" /\ ~irq[n]) /\ UNCHANGED vars

Next == ChipReceives \/ (\E n \in Vec : PollStep(n)) \/ Refill \/ Quiescent

\* A CPU runs the polls and the handlers it has; packets need not come.
Fairness == (\A n \in Vec : WF_vars(PollStep(n))) /\ WF_vars(Refill)
Spec == Init /\ [][Next]_vars /\ Fairness

-----------------------------------------------------------------------------
(* Properties. *)

TypeOK ==
  /\ \A k \in Key : data[k] \subseteq Slot(k) /\ {prod_idx[k], mbox[k], taken[k]} \subseteq Slot(k)
  /\ \A n \in Vec : /\ sw[n] \in 0 .. Len(ret[n]) /\ Len(ret[n]) <= RetSize
                    /\ done[n] \in 0 .. Budget
                    /\ \A k \in Key : spr[n][k] \in Nat
  /\ xi \in 1 .. rxq_cnt * Cardinality(Key) + 1

\* Slots the chip may fill, and slots of packets that no poll has handled.
Posted(k) == {s \in Slot(k) : (s - taken[k]) % Size[k] < (prod_idx[k] - taken[k]) % Size[k]}
Unhandled(n, k) == {ret[n][i][2] : i \in {i \in sw[n] + 1 .. Len(ret[n]) : ret[n][i][1] = k}}

\* The chip and the polls only meet slots that have a buffer, and every other
\* slot is empty: tg3_rx never reads a ri->data that is NULL, and the chip
\* never writes through the address of a buffer that has gone to the stack.
SlotsBacked ==
  \A k \in Key :
    data[k] = Posted(k) \cup UNION {Unhandled(n, k) : n \in Vec}

\* No buffer is lost or doubled on its way around the rings, although only
\* napi[1] may move it the last part of the way; so a vector's ring is never
\* so full that its indices, being equal, would call it empty.
BuffersConserved ==
  \A k \in Key :
    Cardinality(data[k]) + MapThenSumSet(LAMBDA n : spr[n][k] + Handled(n, k), Vec) = Pending[k]

\* A packet in a return ring is handled: no interrupt is lost between the last
\* look at the ring, napi_complete and the mailbox.
PacketHandled == \A n \in Vec : (ret[n] # <<>>) ~> (ret[n] = <<>> \/ sw[n] > 0)

\* The chip does not run dry for ever: tg3_rx of another vector, which asks for a
\* refill, and the end of napi[1]'s poll do not miss each other ("This test here
\* is synchronized by napi_schedule() and napi_complete() to close the race
\* condition").
BuffersReturn == \A k \in Key : (taken[k] = mbox[k]) ~> (taken[k] # mbox[k])

\* The rings hold together over tg3_rx and tg3_rx_prodring_xfer: no buffer is
\* lost or doubled, and no slot without one is used.
BuffersKept == TypeOK /\ SlotsBacked /\ BuffersConserved
=============================================================================
