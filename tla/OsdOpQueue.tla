---------------------------- MODULE OsdOpQueue ----------------------------
(***************************************************************************)
(* How the OSD hands operations to placement groups, as operators on a     *)
(* record x of                                                             *)
(*   ses  the sessions: open (the connection still delivers), con (it      *)
(*        still has the session, get_priv), epoch (session->osdmap, 0 for  *)
(*        none), onmap (waiting_on_map) and forpg                          *)
(*        (waiting_for_pg; a list there is never empty, so the empty one   *)
(*        stands for none);                                                *)
(*   reg  session_waiting_for_map and session_waiting_for_pg;              *)
(*   obj  the PG objects ever made: pgid, epoch (of its map), deleting,    *)
(*        evq (peering_queue's length), active, backfill, mwait            *)
(*        (waiting_for_map) and pwait (waiting_for_peered);                *)
(*   q    a shard of the op queue: pq, the pqueue, in which the items of   *)
(*        one owner keep their order, and proc, pg_for_processing;         *)
(*   ok   no assert has failed.                                            *)
(* An operation is its place in ops, a sequence of records of its session  *)
(* s, its raw placement group, the epoch of its sender's map and whether   *)
(* it is a client's or a replica's operation.  maps is the history of the  *)
(* OSD map: pg_num, the role of this OSD for each group ("me": primary,    *)
(* "rep": replica, "out": none), and whether the peer OSD is still up      *)
(* under the address of its session.                                       *)
(***************************************************************************)
EXTENDS OsdSplits

CONSTANTS Session, MaxObj

Object == 1..MaxObj
NoSession ==
  [open |-> TRUE, con |-> TRUE, epoch |-> 0, onmap |-> <<>>, forpg |-> [p \in Pg |-> <<>>]]

\* ---------------------------------------------------------------- op_shardedwq
_enqueue(q, o, i) == [q EXCEPT !.pq = Append(@, [o |-> o, op |-> i])]

\* The mutant: the item goes to the front of the queue even when workers hold
\* items of the same group.
_enqueue_front_queue(q, o, i) == [q EXCEPT !.pq = <<[o |-> o, op |-> i]>> \o @]

_enqueue_front(q, o, i) ==
  LET proc == <<i>> \o q.proc[o]
  IN  IF q.proc[o] = <<>> THEN [q EXCEPT !.pq = <<[o |-> o, op |-> i]>> \o @]
      ELSE [pq |-> <<[o |-> o, op |-> Last(proc)]>> \o q.pq,
            proc |-> [q.proc EXCEPT ![o] = Front(proc)]]

\* PG::requeue_ops of an active group.
requeue_ops(q, o, list) == InTurn(LAMBDA acc, i : _enqueue_front(acc, o, i), q, Reverse(list))

\* dequeue_and_get_ops: what the workers hold comes before what is queued.
Dequeued(q, o) ==
  q.proc[o] \o [n \in DOMAIN SelectSeq(q.pq, LAMBDA m : m.o = o) |->
                 SelectSeq(q.pq, LAMBDA m : m.o = o)[n].op]

dequeue_pg(q, o) ==
  [pq |-> SelectSeq(q.pq, LAMBDA m : m.o # o), proc |-> [q.proc EXCEPT ![o] = <<>>]]

\* PG::queue_op
queue_op(x, ops, o, i) ==
  IF x.obj[o].mwait # <<>> \/ ops[i].epoch > x.obj[o].epoch
  THEN [x EXCEPT !.obj[o].mwait = Append(@, i)]
  ELSE [x EXCEPT !.q = _enqueue(@, o, i)]

\* -------------------------------------------------------------------- sessions
get_pg_or_queue_for_pg(x, ops, pg_map, p, i) ==
  LET s == ops[i].s
  IN  IF pg_map[p] = 0 \/ x.ses[s].forpg[p] # <<>>
      THEN [x EXCEPT !.ses[s].forpg[p] = Append(@, i), !.reg.pg[p] = @ \cup {s}]
      ELSE queue_op(x, ops, pg_map[p], i)

\* An operation is dropped when the client is not connected (op_is_discardable; none
\* is a replayed one), and when the pool is gone.
handle_op(x, ops, maps, pg_map, E, i) ==
  IF maps[E].num = 0 \/ ~x.ses[ops[i].s].open THEN x
  ELSE get_pg_or_queue_for_pg(x, ops, pg_map, Ancestor(ops[i].raw, maps[E].num), i)

\* The peer is not the one in the map: require_same_peer_instance marks its connection
\* down and takes the session from it.  What waits for groups stays registered.
MarkDown(x, s) ==
  IF ~x.ses[s].con THEN [x EXCEPT !.ses[s].open = FALSE]
  ELSE [x EXCEPT !.ses[s].open = FALSE, !.ses[s].con = FALSE, !.reg.map = @ \ {s}]

handle_replica_op(x, ops, maps, pg_map, E, i) ==
  LET s == ops[i].s
  IN  IF ~maps[E].peer THEN MarkDown(x, s)
      ELSE IF ~x.ses[s].con THEN x
      ELSE get_pg_or_queue_for_pg(x, ops, pg_map, ops[i].raw, i)

dispatch_op_fast(x, ops, maps, pg_map, E, i) ==
  IF ops[i].client THEN handle_op(x, ops, maps, pg_map, E, i)
  ELSE handle_replica_op(x, ops, maps, pg_map, E, i)

maybe_reset_osdmap(x, s) ==
  IF x.ses[s].onmap = <<>> /\ \A p \in Pg : x.ses[s].forpg[p] = <<>>
  THEN [x EXCEPT !.ses[s].epoch = 0] ELSE x

\* The operations that need a newer map, and all behind them, stay.
dispatch_session_waiting(x, ops, maps, pg_map, s, E) ==
  LET list == x.ses[s].onmap
      n == SelectInSeq(list, LAMBDA i : ops[i].epoch > E)
      now == IF n = 0 THEN list ELSE SubSeq(list, 1, n - 1)
      later == IF n = 0 THEN <<>> ELSE SubSeq(list, n, Len(list))
      y == InTurn(LAMBDA acc, i : dispatch_op_fast(acc, ops, maps, pg_map, E, i), x, now)
  IN  maybe_reset_osdmap(
        [y EXCEPT !.ses[s].onmap = later, !.ok = @ /\ x.ses[s].epoch = E,
                  !.reg.map = IF later = <<>> THEN @ \ {s} ELSE @ \cup {s}], s)

\* A list of a child that is there already would replace what comes from the parent.
update_waiting_for_pg(x, ops, maps, s, E) ==
  LET old == x.ses[s].epoch
      num == maps[E].num
      from == x.ses[s].forpg
      Goes(i, c) == ops[i].client /\ Ancestor(ops[i].raw, num) = c
      Kids(p) == is_split(p, maps[old].num, num)
      parent(c) == Ancestor(c, maps[old].num)
      New(p) == IF num = 0 THEN <<>>
                ELSE IF p >= maps[old].num /\ p < num /\ from[p] = <<>>
                THEN SelectSeq(from[parent(p)], LAMBDA i : Goes(i, p))
                ELSE SelectSeq(from[p], LAMBDA i : \A c \in Kids(p) : ~Goes(i, c))
  IN  IF old \in {0, E} THEN [x EXCEPT !.ses[s].epoch = E]
      ELSE [x EXCEPT !.ok = @ /\ E > old,
                     !.ses[s].epoch = E,
                     !.ses[s].forpg = [p \in Pg |-> New(p)],
                     !.reg.pg = [p \in Pg |-> IF New(p) = <<>> THEN @[p] \ {s}
                                             ELSE @[p] \cup {s}]]

session_notify_pg_create(x, ops, maps, s, E, p) ==
  LET y == update_waiting_for_pg(x, ops, maps, s, E)
  IN  [y EXCEPT !.ses[s].onmap = y.ses[s].forpg[p] \o @, !.ses[s].forpg[p] = <<>>,
                !.reg.pg[p] = @ \ {s}]

session_notify_pg_cleared(x, ops, maps, s, E, p) ==
  LET y == update_waiting_for_pg(x, ops, maps, s, E)
  IN  [maybe_reset_osdmap([y EXCEPT !.ses[s].forpg[p] = <<>>], s)
         EXCEPT !.reg.pg[p] = @ \ {s}]

\* The connection keeps the session, for what it has delivered and is still dispatched.
session_handle_reset(x, s) ==
  [x EXCEPT !.ses[s] = [NoSession EXCEPT !.open = FALSE], !.reg.map = @ \ {s},
            !.reg.pg = [p \in Pg |-> @[p] \ {s}]]

wake_pg_waiters(x, ops, maps, pg_map, E, p) ==
  ForAll(LAMBDA y, s : dispatch_session_waiting(session_notify_pg_create(y, ops, maps, s, E, p),
                                               ops, maps, pg_map, s, E),
         x, x.reg.pg[p])

dispatch_sessions_waiting_on_map(x, ops, maps, pg_map, E) ==
  ForAll(LAMBDA y, s : dispatch_session_waiting(update_waiting_for_pg(y, ops, maps, s, E),
                                               ops, maps, pg_map, s, E),
         x, x.reg.map)

\* The end of consume_map's work on sessions: the groups this OSD does not host.
ClearUnhosted(x, ops, maps, E) ==
  LET gone == {p \in Pg : x.reg.pg[p] # {} /\ (p >= maps[E].num \/ maps[E].role[p] = "out")}
  IN  ForAll(LAMBDA acc, p : ForAll(LAMBDA y, s : session_notify_pg_cleared(y, ops, maps, s, E, p),
                                    acc, acc.reg.pg[p]), x, gone)
=============================================================================
