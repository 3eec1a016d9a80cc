------------------------------- MODULE Tg3Tx -------------------------------
(***************************************************************************)
(* A transmit ring of the NIC driver (kmodule/tg3.c).  tg3_start_xmit runs *)
(* under the lock of the tx queue and posts packets; tg3_tx runs in the    *)
(* NAPI poll on another CPU, without that lock, and reclaims them.  The    *)
(* two stop and wake the queue.  A completion of tg3_tx is what the        *)
(* sender's kprobe takes for "the heartbeat has left".                     *)
(*                                                                         *)
(* A packet is a head and fragments, each of one or more descriptors (more *)
(* than one where dma_limit splits them).  Buffers' addresses and flags    *)
(* are left out; whether a descriptor would hit a hardware bug, and whether*)
(* a mapping or a copy fails, is a choice.                                 *)
(***************************************************************************)
EXTENDS Integers, Sequences, FiniteSets, FiniteSetsExt, Functions

CONSTANTS
  TG3_TX_RING_SIZE,
  tx_pending,      \* descriptors the driver may have in use
  MAX_SKB_FRAGS,
  dma_limit,       \* whether long buffers are split
  MaxDescs,        \* descriptors that a buffer needs, at most
  MaxSegs,         \* segments of a packet that takes the way of tg3_tso_bug
  Skb              \* socket buffers in use at one time

Slot == 0 .. TG3_TX_RING_SIZE - 1
NULL == "NULL"
TG3_TX_WAKEUP_THRESH == tx_pending \div 4
Descs == IF dma_limit THEN 1 .. MaxDescs ELSE {1}

\* tg3_set_ringparam keeps tx_pending above MAX_SKB_FRAGS + 1 and below the
\* size of the ring; a packet for tg3_tso_bug fits by its estimate.
ASSUME TxAssumption ==
  /\ TG3_TX_RING_SIZE \in Nat /\ tx_pending < TG3_TX_RING_SIZE
  /\ tx_pending > MAX_SKB_FRAGS + 1 /\ 3 * MaxSegs < tx_pending

VARIABLES
  tx_prod, tx_cons,
  tx_consumer,   \* index that the chip reports in the status block
  sent,          \* descriptors of the packets the chip has, in order
  tx_skb,        \* tx_buffers[].skb
  fragmented,    \* tx_buffers[].fragmented
  nr_frags,      \* per skb
  live,          \* skbs the driver has and has not freed
  stopped,       \* the queue is stopped
  xmit,          \* tg3_start_xmit: "idle", "busy", "posted", "stop", "stopped",
                 \* "tso stop" or "tso stopped"
  segs,          \* segments that tg3_tso_bug still has to send
  poll, sw_idx,  \* tg3_tx: "idle", "cons", "check" or "lock"; its index
  recovery,      \* TX_RECOVERY_PENDING
  full           \* the queue was last stopped with "BUG! Tx Ring full when queue awake!"

ringVars == <<tx_skb, fragmented, nr_frags, live>>
vars == <<tx_prod, tx_cons, tx_consumer, sent, ringVars, stopped, xmit, segs, poll, sw_idx, recovery, full>>

Init ==
  /\ tx_prod = 0 /\ tx_cons = 0 /\ tx_consumer = 0 /\ sent = <<>>
  /\ tx_skb = [s \in Slot |-> NULL] /\ fragmented = [s \in Slot |-> FALSE]
  /\ nr_frags = [b \in Skb |-> 0] /\ live = {}
  /\ stopped = FALSE /\ xmit = "idle" /\ segs = 0
  /\ poll = "idle" /\ sw_idx = 0 /\ recovery = FALSE /\ full = FALSE

Plus(i, k) == (i + k) % TG3_TX_RING_SIZE
NEXT_TX(i) == Plus(i, 1)
Used(prod, cons) == (prod - cons) % TG3_TX_RING_SIZE
tg3_tx_avail == tx_pending - Used(tx_prod, tx_cons)

-----------------------------------------------------------------------------
(* Filling the ring.  A filling is a record of the index of the next       *)
(* descriptor, the budget that is left, the flags and whether it failed.   *)

\* The descriptors of one buffer.
tg3_tx_frag_set(st, descs, hwbug) ==
  LET k == Min({descs - 1, st.budget})
      marked == [s \in Slot |-> st.fragmented[s] \/ \E j \in 0 .. k - 1 : s = Plus(st.entry, j)]
      prvidx == Plus(st.entry, IF k > 0 THEN k - 1 ELSE 0)
  IN  IF ~dma_limit THEN [st EXCEPT !.entry = NEXT_TX(@), !.bug = hwbug]
      ELSE IF k < st.budget
        THEN [st EXCEPT !.entry = Plus(@, k + 1), !.budget = @ - k - 1,
                        !.fragmented = marked, !.bug = hwbug]
        ELSE [st EXCEPT !.entry = Plus(@, k), !.budget = 0, !.bug = TRUE,
                        !.fragmented = [marked EXCEPT ![prvidx] = FALSE]]

\* The first descriptor from i on that no other follows.
ChainEnd(f, i) ==
  Plus(i, Min({k \in Slot : ~f[Plus(i, k)]} \cup {TG3_TX_RING_SIZE - 1}))
ClearChain(f, i) ==
  [s \in Slot |-> f[s] /\ ~(Used(s, i) < Used(ChainEnd(f, i), i))]

\* Index and flags after n buffers from i on have been unmapped; "bug" when a
\* fragment's descriptor has an skb or lies beyond limit.
UnmapBuffers(f, i, n, limit) ==
  LET w[k \in 0 .. n] ==
        IF k = 0 THEN [entry |-> i, fragmented |-> f, bug |-> FALSE]
        ELSE [entry |-> NEXT_TX(ChainEnd(w[k-1].fragmented, w[k-1].entry)),
              fragmented |-> ClearChain(w[k-1].fragmented, w[k-1].entry),
              bug |-> \/ w[k-1].bug
                      \/ k > 1 /\ (tx_skb[w[k-1].entry] # NULL \/ w[k-1].entry = limit)]
  IN  w[n]

\* Head and fragments of a packet.  shape[1] is the head; a buffer is
\* [descs, hwbug, err], err for a failed mapping.  "last" is the number of
\* buffers that are mapped when the loop ends.
FillBuffers(shape) ==
  LET start == [entry |-> tx_prod, budget |-> tg3_tx_avail, fragmented |-> fragmented,
                bug |-> FALSE, err |-> FALSE, last |-> 0]
      f[i \in 0 .. Len(shape)] ==
        IF i = 0 THEN start
        ELSE LET st == f[i-1] IN
             IF st.bug \/ st.err THEN st
             ELSE IF shape[i].err THEN [st EXCEPT !.err = TRUE]
             ELSE IF i > 1 /\ dma_limit /\ st.budget = 0 THEN [st EXCEPT !.bug = TRUE, !.last = i]
             ELSE [tg3_tx_frag_set(st, shape[i].descs, shape[i].hwbug) EXCEPT !.last = i]
  IN  f[Len(shape)]

-----------------------------------------------------------------------------
(* tg3_start_xmit *)

\* The packet is in the ring: the mailbox and tx_prod are written.
Post(b, frags, st) ==
  /\ tx_skb' = [tx_skb EXCEPT ![tx_prod] = b]
  /\ fragmented' = st.fragmented
  /\ nr_frags' = [nr_frags EXCEPT ![b] = frags]
  /\ live' = live \cup {b}
  /\ sent' = Append(sent, Used(st.entry, tx_prod))
  /\ tx_prod' = st.entry /\ xmit' = "posted"

\* The packet is freed, its flags are taken back.
Drop(f) == fragmented' = f /\ UNCHANGED <<tx_prod, tx_skb, nr_frags, live, sent, xmit>>

\* A buffer, and what happens to it.
Buffer == [descs : Descs, hwbug : BOOLEAN, err : {FALSE}] \cup [descs : {1}, hwbug : {FALSE}, err : {TRUE}]

\* Mutant: the packet that hit the bug stays mapped, with its flags.
hwbugKeepsFlags(b, st) ==
  \E copy \in Buffer :
  LET again == tg3_tx_frag_set([st EXCEPT !.entry = tx_prod, !.budget = tg3_tx_avail, !.bug = FALSE],
                               copy.descs, copy.hwbug)
  IN  IF copy.err \/ again.bug THEN Drop(st.fragmented) ELSE Post(b, 0, again)

\* Mutant: the copy is posted with the fragments of the packet.
hwbugOldFrags(b, st) ==
  LET unmapped == UnmapBuffers(st.fragmented, tx_prod, st.last, tx_prod).fragmented
  IN  Post(b, st.last - 1, [st EXCEPT !.entry = NEXT_TX(tx_prod), !.fragmented = unmapped])

\* The packet is unmapped and its linear copy b is posted in its place, or
\* dropped when the copy, its mapping or its descriptors fail.
tigon3_dma_hwbug_workaround(b, st) ==
  \E copy \in Buffer :
  LET unmapped == UnmapBuffers(st.fragmented, tx_prod, st.last, tx_prod).fragmented
      again == tg3_tx_frag_set([st EXCEPT !.entry = tx_prod, !.budget = tg3_tx_avail, !.bug = FALSE,
                                          !.fragmented = unmapped],
                               copy.descs, copy.hwbug)
  IN  IF copy.err THEN Drop(unmapped)
      ELSE IF again.bug THEN Drop(UnmapBuffers(again.fragmented, tx_prod, 1, tx_prod).fragmented)
      ELSE Post(b, 0, again)

\* From the test for space to the write of tx_prod, or to the way out when there
\* is no space.  The slots from tx_prod on belong to this thread, and tx_cons
\* only moves away from them.
xmitFill(b, shape) ==
  LET st == FillBuffers(shape)
  IN  IF tg3_tx_avail <= Len(shape)
        THEN xmit' = "busy" /\ UNCHANGED <<tx_prod, ringVars, sent>>
        ELSE IF st.err THEN Drop(UnmapBuffers(st.fragmented, tx_prod, st.last, tx_prod).fragmented)
        ELSE IF st.bug THEN tigon3_dma_hwbug_workaround(b, st)
        ELSE Post(b, Len(shape) - 1, st)

\* The stack calls the driver while the queue is awake; tg3_tso_bug calls it
\* for every segment, awake or not, and ignores the result.
tg3_start_xmit ==
  /\ xmit = "idle" /\ (~stopped \/ segs > 0)
  /\ segs' = IF segs > 0 THEN segs - 1 ELSE 0
  /\ live # Skb
  /\ \E frags \in 0 .. MAX_SKB_FRAGS : \E shape \in [1 .. frags + 1 -> Buffer] :
       xmitFill(CHOOSE b \in Skb \ live : TRUE, shape)
  /\ UNCHANGED <<tx_cons, tx_consumer, stopped, poll, sw_idx, recovery, full>>

\* NETDEV_TX_BUSY: a queue that is awake is stopped, and the space is not looked
\* at again, though tg3_tx may have reclaimed and found the queue awake meanwhile.
XmitBusy ==
  /\ xmit = "busy" /\ xmit' = "idle"
  /\ stopped' = TRUE /\ full' = IF stopped THEN full ELSE TRUE
  /\ UNCHANGED <<tx_prod, tx_cons, tx_consumer, sent, ringVars, segs, poll, sw_idx, recovery>>

\* netif_tx_wake_queue, when there is space.
WakeIf(space) == stopped' = (stopped /\ ~space) /\ full' = (full /\ ~space)

\* After the post: if a largest packet might not fit, ...
XmitChecks ==
  /\ xmit = "posted"
  /\ xmit' = IF tg3_tx_avail <= MAX_SKB_FRAGS + 1 THEN "stop" ELSE "idle"
  /\ UNCHANGED <<tx_prod, tx_cons, tx_consumer, sent, ringVars, stopped, segs, poll, sw_idx,
                 recovery, full>>

\* ... stop the queue (so does tg3_tso_bug), ...
XmitStops ==
  /\ xmit \in {"stop", "tso stop"}
  /\ stopped' = TRUE /\ xmit' = IF xmit = "stop" THEN "stopped" ELSE "tso stopped"
  /\ UNCHANGED <<tx_prod, tx_cons, tx_consumer, sent, ringVars, segs, poll, sw_idx, recovery, full>>

\* Mutant: the space is not looked at again.
XmitLeaves ==
  /\ xmit = "stopped" /\ xmit' = "idle"
  /\ UNCHANGED <<tx_prod, tx_cons, tx_consumer, sent, ringVars, stopped, segs, poll, sw_idx,
                 recovery, full>>

\* ... and look again, as tg3_tx may have reclaimed meanwhile.
XmitRechecks ==
  /\ xmit = "stopped" /\ xmit' = "idle"
  /\ WakeIf(tg3_tx_avail > TG3_TX_WAKEUP_THRESH)
  /\ UNCHANGED <<tx_prod, tx_cons, tx_consumer, sent, ringVars, segs, poll, sw_idx, recovery>>

\* A packet that the chip cannot segment: wait for space for its segments.
tg3_tso_bug ==
  /\ xmit = "idle" /\ segs = 0 /\ ~stopped
  /\ \E n \in 1 .. MaxSegs :
       segs' = n /\ xmit' = IF tg3_tx_avail <= 3 * n THEN "tso stop" ELSE "idle"
  /\ UNCHANGED <<tx_prod, tx_cons, tx_consumer, sent, ringVars, stopped, poll, sw_idx, recovery, full>>

\* Its second look: NETDEV_TX_BUSY, and the stack keeps the packet, or go on.
TsoRechecks ==
  /\ xmit = "tso stopped" /\ xmit' = "idle"
  /\ segs' = IF tg3_tx_avail <= 3 * segs THEN 0 ELSE segs
  /\ WakeIf(tg3_tx_avail > 3 * segs)
  /\ UNCHANGED <<tx_prod, tx_cons, tx_consumer, sent, ringVars, poll, sw_idx, recovery>>

-----------------------------------------------------------------------------
(* The chip, and tg3_tx *)

\* The chip has sent a packet: it never reports part of one.
ChipSends ==
  /\ sent # <<>>
  /\ tx_consumer' = Plus(tx_consumer, Head(sent)) /\ sent' = Tail(sent)
  /\ UNCHANGED <<tx_prod, tx_cons, ringVars, stopped, xmit, segs, poll, sw_idx, recovery, full>>

\* One turn of tg3_tx's loop: the packet at sw_idx is unmapped and freed; a
\* slot that is not as tg3_start_xmit leaves it means that the chip has lost
\* its way (tg3_tx_recover).  Its second disjunct is the end of the loop.
tg3_tx ==
  /\ poll = "idle" /\ ~recovery
  /\ \/ /\ sw_idx # tx_consumer
        /\ LET b == tx_skb[sw_idx]
               w == UnmapBuffers(fragmented, sw_idx, IF b = NULL THEN 1 ELSE nr_frags[b] + 1, tx_consumer)
           IN  IF b = NULL THEN recovery' = TRUE /\ UNCHANGED <<ringVars, sw_idx>>
               ELSE /\ tx_skb' = [tx_skb EXCEPT ![sw_idx] = NULL]
                    /\ fragmented' = w.fragmented
                    /\ live' = live \ {b}
                    /\ nr_frags' = [nr_frags EXCEPT ![b] = 0]
                    /\ sw_idx' = w.entry /\ recovery' = w.bug
        /\ UNCHANGED poll
     \/ /\ sw_idx = tx_consumer /\ sw_idx # tx_cons
        /\ poll' = "cons" /\ UNCHANGED <<ringVars, sw_idx, recovery>>
  /\ UNCHANGED <<tx_prod, tx_cons, tx_consumer, sent, stopped, xmit, segs, full>>

TxConsWrite ==
  /\ poll = "cons" /\ poll' = "check"
  /\ tx_cons' = sw_idx
  /\ UNCHANGED <<tx_prod, tx_consumer, sent, ringVars, stopped, xmit, segs, sw_idx, recovery, full>>

TxCheck ==
  /\ poll = "check"
  /\ poll' = IF stopped /\ tg3_tx_avail > TG3_TX_WAKEUP_THRESH THEN "lock" ELSE "idle"
  /\ UNCHANGED <<tx_prod, tx_cons, tx_consumer, sent, ringVars, stopped, xmit, segs, sw_idx,
                 recovery, full>>

\* The lock of the queue is the one tg3_start_xmit runs under.
TxWake ==
  /\ poll = "lock" /\ xmit = "idle" /\ segs = 0 /\ poll' = "idle"
  /\ WakeIf(tg3_tx_avail > TG3_TX_WAKEUP_THRESH)
  /\ UNCHANGED <<tx_prod, tx_cons, tx_consumer, sent, ringVars, xmit, segs, sw_idx, recovery>>

-----------------------------------------------------------------------------

Xmit == tg3_start_xmit \/ tg3_tso_bug
Lock == XmitBusy \/ XmitChecks \/ XmitStops \/ XmitRechecks \/ TsoRechecks \/ (segs > 0 /\ tg3_start_xmit)
Poll == tg3_tx \/ TxConsWrite \/ TxCheck \/ TxWake
\* Nothing is left for the chip and the poll to do.
Quiescent == sent = <<>> /\ sw_idx = tx_consumer /\ poll = "idle" /\ UNCHANGED vars

Next == Xmit \/ XmitBusy \/ XmitChecks \/ XmitStops \/ XmitRechecks \/ TsoRechecks \/ ChipSends \/ Poll \/ Quiescent

\* A transmit that has begun ends, the chip sends, and a poll follows.
Fairness == WF_vars(Lock) /\ WF_vars(ChipSends) /\ WF_vars(Poll)
Spec == Init /\ [][Next]_vars /\ Fairness

-----------------------------------------------------------------------------
(* Properties. *)

TypeOK ==
  /\ {tx_prod, tx_cons, tx_consumer, sw_idx} \subseteq Slot
  /\ tx_skb \in [Slot -> Skb \cup {NULL}] /\ fragmented \in [Slot -> BOOLEAN]
  /\ nr_frags \in [Skb -> 0 .. MAX_SKB_FRAGS] /\ live \subseteq Skb
  /\ xmit \in {"idle", "busy", "posted", "stop", "stopped", "tso stop", "tso stopped"}
  /\ poll \in {"idle", "cons", "check", "lock"}
  /\ segs \in 0 .. MaxSegs /\ {stopped, recovery, full} \subseteq BOOLEAN

\* The indices keep their order around the ring, and never more than
\* tx_pending descriptors are in use: sw_idx between tx_cons and the chip's
\* index, that before tx_prod, whatever mix of splits, failures and
\* workarounds has filled the ring.
RingBounded ==
  /\ Used(tx_prod, tx_cons) <= tx_pending
  /\ Used(sw_idx, tx_cons) <= Used(tx_consumer, tx_cons)
  /\ Used(tx_consumer, tx_cons) <= Used(tx_prod, tx_cons)

\* tg3_tx never meets a slot it does not expect: the driver does not reset the
\* chip for completions it has confused itself.
NoRecovery == ~recovery

\* A slot that is free is clean, as tg3_tx_frag_set relies on: it clears
\* neither skb nor fragmented in the descriptors it adds.
FreeSlotsClean ==
  \A s \in Slot : Used(s, sw_idx) >= Used(tx_prod, sw_idx) => tx_skb[s] = NULL /\ ~fragmented[s]

\* Every skb that the driver has not freed is in exactly one slot.
SkbOnce ==
  /\ {tx_skb[s] : s \in Slot} \ {NULL} = live
  /\ \A s, t \in Slot : tx_skb[s] = tx_skb[t] /\ tx_skb[s] # NULL => s = t

\* "BUG! Tx Ring full when queue awake!", "a hard error" (tg3.c:7914): the queue
\* is stopped early enough for any packet.  So it is with tx_pending \div 4 above
\* MAX_SKB_FRAGS; tg3_set_ringparam allows less, and then tg3_tx wakes the queue
\* with too little space.
NeverFull == ~full

\* The queue is not stopped for ever: tg3_tx and tg3_start_xmit do not both miss
\* each other's update ("will miss it and cause the queue to be stopped forever"),
\* unless the ring was found full with the queue awake, where the code stops it
\* without a second look.
QueueWakes == stopped /\ ~full ~> ~stopped \/ full

\* The same without an exception.
QueueAlwaysWakes == stopped ~> ~stopped

\* The ring holds what tg3_start_xmit and tg3_tx expect of it, whatever splits,
\* failing mappings and workarounds have been in between: bounded indices, clean
\* free slots, and every skb once.
RingClean == TypeOK /\ RingBounded /\ FreeSlotsClean /\ SkbOnce
=============================================================================
