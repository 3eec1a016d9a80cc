--------------------------- MODULE RxBarrierFlush ---------------------------
(* The barrier of RxBarrier as an implementation of RxFlush. *)
EXTENDS RxBarrier

packets(s) == {s[k] : k \in 1 .. Len(s)}

onMachine == (UNION {packets(rings[i]) : i \in Ring}) \cup packets(nfq)

pendingHb == {[id |-> p.id, node |-> p.node] : p \in {q \in onMachine : q.kind = "udp"}}

phaseOf ==
  CASE pc \in {"sending", "waiting", "timedout"} -> "flushing"
    [] pc = "flushed" -> "flushed"
    [] OTHER -> "idle"

Flush == INSTANCE RxFlush WITH pending <- pendingHb, phase <- phaseOf

\* The barrier keeps the promise of RxFlush: barrier_flush (queue.c:256-279)
\* returns success only when every heartbeat that was in a ring or in the
\* netfilter queue at the call has been processed or dropped.
ImplementsFlush == Flush!Spec
=============================================================================
