------------------------------- MODULE OsdPgs -------------------------------
(***************************************************************************)
(* The placement groups of the Ceph OSD (src/ceph/OSD.cc): operations that *)
(* reach it through sessions, new maps (consume_map), groups being made,   *)
(* split, removed and resurrected, and a restart.  The threads are the     *)
(* fast dispatcher of each session, the holder of osd_lock (job), the      *)
(* workers of one shard of the op queue, the peering threads, the          *)
(* finisher that completes splits and the thread that deletes collections. *)
(* What PG.cc and the object store do is modelled from how OSD.cc uses     *)
(* them.                                                                   *)
(***************************************************************************)
EXTENDS OsdOpQueue

CONSTANTS
  Worker, Peerer,
  MaxAdvance,       \* osd_map_max_advance
  Scenarios         \* what happens in a behaviour: maps, missing (epochs not kept),
                    \* ops, msgs, start (the groups stored at the start), crash, reset

VARIABLES
  world,     \* the scenario
  cur,       \* epochs of OSD::osdmap, of the pre-published and of the published map
  job,       \* what the holder of osd_lock is doing
  pg_map,    \* the object of each group, 0 for none
  x,         \* sessions, objects and op queue (see OsdOpQueue)
  fast,      \* the map a fast dispatcher has reserved, and its operation
  sent,      \* operations sent
  worker,    \* the group each worker has an item of, 0 for none
  ran,       \* operations executed, in order
  sp,        \* splits (see OsdSplits)
  wait_split,\* peering_wait_for_split: the number of events of each group
  peering,   \* the peering_wq: wq, and the group each peering thread has
  fin,       \* C_CompleteSplits not run yet
  msgs,      \* peering messages: to come, waiting_for_osdmap, finished
  notified,  \* what the peer was last told of a group that is not ours, an epoch
  coll,      \* the stored collection of each group
  deleting,  \* deleting_pgs: the DeletingState of each group; all of them
  rm,        \* the remove_wq and its thread
  left       \* crashes and resets still to come

fastVars == <<fast, sent>>
shardVars == <<worker, ran>>
groupVars == <<pg_map, sp, wait_split, peering, fin>>
storeVars == <<coll, deleting, rm>>
netVars == <<msgs, notified, left>>
vars == <<world, cur, job, x, fastVars, shardVars, groupVars, storeVars, netVars>>

maps == world.maps
ops == world.ops
Kept == DOMAIN maps \ world.missing
Num == [e \in Kept |-> maps[e].num]

\* Our role in epoch e for group p, or for the group p is a part of in that epoch.
Role(e, p) == IF maps[e].num = 0 THEN "out" ELSE maps[e].role[Ancestor(p, maps[e].num)]
Created(p) == Min({e \in Kept : maps[e].num > p})

None == [at |-> "free", pg |-> 0, from |-> 0, epoch |-> 0, rest |-> {}]
NoColl == [there |-> FALSE, epoch |-> 0, backfill |-> FALSE, cleared |-> FALSE]
NoItem == [o |-> 0, key |-> 0, more |-> FALSE]
NewPg(p, e, b) == [pgid |-> p, epoch |-> e, deleting |-> FALSE, evq |-> 0, active |-> FALSE,
                   backfill |-> b, mwait |-> <<>>, pwait |-> <<>>]

\* The epoch kept before e.
Prev(e) == Max({f \in Kept : f < e})

\* same_interval_since and same_primary_since of group p in epoch e.
Changed(p, e) ==
  \/ p >= maps[Prev(e)].num
  \/ Role(Prev(e), p) # Role(e, p)
  \/ is_split(p, maps[Prev(e)].num, maps[e].num) # {}
Since(p, e) == Max({Min(Kept)} \cup {f \in Kept \ {Min(Kept)} : f <= e /\ Changed(p, f)})
PrimarySince(p, e) ==
  Max({Min(Kept)} \cup {f \in Kept \ {Min(Kept)} : f <= e /\
        (Role(Prev(f), p) = "me") # (Role(f, p) = "me")})

\* Walks back from the current map and compares each map with it; up and acting
\* sets are the same here.  The floor at the creation epoch is left out: it only
\* replaces zeros.
project_pg_history(p, h, from) ==
  LET to == cur.osdmap
      At(a, e) ==
        LET moved == Role(e - 1, p) # Role(to, p)
            first == (Role(e - 1, p) = "me") # (Role(to, p) = "me")
            split == is_split(p, maps[e - 1].num, maps[to].num) # {}
            interval == IF split \/ (moved /\ e > a.interval) THEN e ELSE a.interval
            up == IF moved /\ e > a.up THEN e ELSE a.up
            primary == IF first /\ e > a.primary THEN e ELSE a.primary
        IN  IF a.done THEN a
            ELSE IF e - 1 \notin Kept THEN [a EXCEPT !.valid = FALSE, !.done = TRUE]
            ELSE [valid |-> TRUE, interval |-> interval, up |-> up, primary |-> primary,
                  done |-> interval >= e /\ up >= e /\ primary >= e]
  IN  InTurn(At, [valid |-> TRUE, interval |-> h, up |-> h, primary |-> h, done |-> FALSE],
               [n \in 1..(to - from) |-> to + 1 - n])

Init ==
  /\ world \in Scenarios
  /\ LET e == Min(Kept) IN cur = [osdmap |-> e, next |-> e, pub |-> e]
  /\ job = None
  /\ pg_map = [p \in Pg |-> IF p \in world.start THEN p + 1 ELSE 0]
  /\ LET e == Min(Kept)
     IN x = [ses |-> [s \in Session |-> NoSession],
             reg |-> [map |-> {}, pg |-> [p \in Pg |-> {}]],
             obj |-> [n \in 1..Cardinality(world.start) |->
                       [NewPg(n - 1, e, FALSE) EXCEPT !.active = Role(e, n - 1) # "out"]],
             q |-> [pq |-> <<>>, proc |-> [o \in Object |-> <<>>]], ok |-> TRUE]
  /\ fast = [s \in Session |-> [epoch |-> 0, op |-> 0]]
  /\ sent = {} /\ worker = [w \in Worker |-> 0] /\ ran = <<>>
  /\ sp = NoSplits /\ wait_split = [p \in Pg |-> 0]
  /\ peering = [wq |-> <<>>, on |-> [t \in Peerer |-> 0]]
  /\ fin = <<>>
  /\ msgs = [come |-> world.msgs, wait |-> <<>>, done |-> <<>>]
  /\ notified = [p \in Pg |-> IF p \in world.start /\ Role(Min(Kept), p) = "out"
                              THEN Min(Kept) ELSE 0]
  /\ coll = [p \in Pg |-> IF p \in world.start
                          THEN [NoColl EXCEPT !.there = TRUE, !.epoch = Min(Kept)]
                          ELSE NoColl]
  /\ deleting = [reg |-> [p \in Pg |-> 0],
                 st |-> [o \in Object |-> [at |-> "none", stop |-> FALSE]]]
  /\ rm = [wq |-> <<>>, at |-> "idle", item |-> NoItem]
  /\ left = [crash |-> world.crash, reset |-> world.reset]

Free == job.at = "free"

\* --------------------------------------------------------------- fast dispatch
\* The connection takes an operation and reserves the pre-published map.
FastBegins(s) ==
  /\ fast[s].epoch = 0 /\ x.ses[s].open
  /\ \E i \in DOMAIN ops \ sent :
       /\ ops[i].s = s /\ \A k \in DOMAIN ops \ sent : ops[k].s = s => i <= k
       /\ sent' = sent \cup {i}
       /\ fast' = [fast EXCEPT ![s] = [epoch |-> cur.next, op |-> i]]
  /\ UNCHANGED <<world, cur, job, x, shardVars, groupVars, storeVars, netVars>>

\* The session was taken from the connection, before it was marked down or after.
ms_fast_dispatch(s) ==
  LET E == fast[s].epoch
      y == update_waiting_for_pg(x, ops, maps, s, E)
  IN  /\ E # 0
      /\ \/ x' = dispatch_session_waiting(
                   [y EXCEPT !.ses[s].onmap = Append(@, fast[s].op)], ops, maps, pg_map, s, E)
         \/ ~x.ses[s].con /\ UNCHANGED x
      /\ fast' = [fast EXCEPT ![s] = [epoch |-> 0, op |-> 0]]
      /\ UNCHANGED <<world, cur, job, sent, shardVars, groupVars, storeVars, netVars>>

ms_handle_reset(s) ==
  /\ left.reset > 0 /\ left' = [left EXCEPT !.reset = @ - 1]
  /\ x.ses[s].open
  /\ x' = session_handle_reset(x, s)
  /\ UNCHANGED <<world, cur, job, fastVars, shardVars, groupVars, storeVars, msgs, notified>>

\* ----------------------------------------------------------- workers of a shard
\* The first item of an owner: the pqueue serves owners in an order of its own.
ShardDequeues(w) ==
  /\ worker[w] = 0
  /\ \E n \in DOMAIN x.q.pq :
       LET item == x.q.pq[n]
       IN  /\ \A k \in 1..(n - 1) : ops[x.q.pq[k].op].s # ops[item.op].s
           /\ worker' = [worker EXCEPT ![w] = item.o]
           /\ x' = [x EXCEPT !.q.pq = RemoveAt(@, n),
                             !.q.proc[item.o] = Append(@, item.op)]
  /\ UNCHANGED <<world, cur, job, fastVars, ran, groupVars, storeVars, netVars>>

\* PG::do_request: the group drops what it is not, or not any more, to serve, and
\* keeps what comes while it is not active.
Discards(o, i) ==
  LET g == x.obj[o]
  IN  \/ Role(g.epoch, g.pgid) # IF ops[i].client THEN "me" ELSE "rep"
      \/ ops[i].epoch < PrimarySince(g.pgid, g.epoch)

\* The rest of ShardedOpWQ::_process under the group's lock, with dequeue_op.
ShardProcesses(w) ==
  LET o == worker[w]
      i == Head(x.q.proc[o])
      y == [x EXCEPT !.q.proc[o] = Tail(@)]
  IN  /\ o # 0 /\ worker' = [worker EXCEPT ![w] = 0]
      /\ IF x.q.proc[o] = <<>> THEN UNCHANGED <<x, ran>>
         ELSE IF x.obj[o].deleting \/ Discards(o, i) THEN x' = y /\ UNCHANGED ran
         ELSE IF ~x.obj[o].active
         THEN x' = [y EXCEPT !.obj[o].pwait = Append(@, i)] /\ UNCHANGED ran
         ELSE /\ ran' = Append(ran, i)
              /\ x' = [y EXCEPT !.ok = @ /\ ops[i].epoch <= x.obj[o].epoch]
      /\ UNCHANGED <<world, cur, job, fastVars, groupVars, storeVars, netVars>>

\* ------------------------------------------------------- removing and making groups
\* PG::on_removal empties the group's queues and marks its collection incomplete.
on_removal(y, G) ==
  [y EXCEPT !.obj = [o \in DOMAIN y.obj |->
                      IF o \in G THEN [y.obj[o] EXCEPT !.deleting = TRUE, !.evq = 0,
                                                      !.mwait = <<>>, !.pwait = <<>>]
                      ELSE y.obj[o]],
            !.q = ForAll(LAMBDA q, o : dequeue_pg(q, o), @, G)]

\* _remove_pg for every group object in G, from the states of x, sp, pg_map and
\* the peering queue that the caller has reached.
_remove_pg(G, y, s, pm, wq) ==
  LET gone == {y.obj[o].pgid : o \in G}
      old(p) == deleting.reg[p]
      key(o) == LET p == y.obj[o].pgid IN IF old(p) # 0 THEN old(p) ELSE o
  IN  /\ x' = on_removal(y, G)
      /\ sp' = ForAll(LAMBDA acc, p : cancel_pending_splits_for_parent(acc, p), s, gone)
      /\ pg_map' = [p \in Pg |-> IF p \in gone THEN 0 ELSE pm[p]]
      /\ peering' = [peering EXCEPT !.wq = SelectSeq(wq, LAMBDA o : o \notin G)]
      /\ coll' = [p \in Pg |-> IF p \in gone THEN [coll[p] EXCEPT !.backfill = TRUE] ELSE coll[p]]
      /\ deleting' =
           [reg |-> [p \in Pg |-> IF p \in gone THEN CHOOSE k \in {key(o) : o \in G} :
                                      \E o \in G : k = key(o) /\ y.obj[o].pgid = p
                                  ELSE deleting.reg[p]],
            st |-> [o \in Object |-> IF o \in G /\ key(o) = o
                                     THEN [at |-> "queued", stop |-> FALSE] ELSE deleting.st[o]]]
      /\ rm' = [rm EXCEPT !.wq = @ \o SetToSeq({[o |-> o, key |-> key(o), more |-> TRUE] : o \in G})]

\* _create_lock_pg of an object for group p with the map of epoch e, with one event
\* queued; good is what the caller asserts.  The waiting operations are woken next.
_create_lock_pg(p, e, backfill, good) ==
  LET o == Len(x.obj) + 1
  IN  /\ x' = [x EXCEPT !.obj = Append(@, [NewPg(p, e, backfill) EXCEPT !.evq = 1]),
                        !.ok = @ /\ good /\ pg_map[p] = 0]
      /\ pg_map' = [pg_map EXCEPT ![p] = o]
      /\ sp' = init_splits_between(sp, p, Num, e, cur.pub)
      /\ peering' = [peering EXCEPT !.wq = Append(@, o)]
      /\ job' = [None EXCEPT !.at = "wake", !.pg = p]

\* RES_NONE: a collection of its own, that must not exist.
CreateNew(p, e) ==
  /\ _create_lock_pg(p, e, FALSE, ~coll[p].there)
  /\ coll' = [coll EXCEPT ![p] = [NoColl EXCEPT !.there = TRUE, !.epoch = e]]
  /\ UNCHANGED wait_split

\* The nearest of p and its ancestors that is being deleted.
Deleting(p) ==
  LET up[q \in Pg] == IF deleting.reg[q] # 0 \/ q = 0 THEN q ELSE up[get_parent(q)] IN up[p]

\* _try_resurrect_pg, up to the wait of try_stop_deletion.
_try_resurrect_pg(p, e) ==
  LET c == Deleting(p)
      k == deleting.reg[c]
  IN  IF k = 0 \/ (c # p /\ p \notin is_split(c, maps[x.obj[k].epoch].num, maps[cur.pub].num))
      THEN CreateNew(p, e) /\ UNCHANGED deleting
      ELSE /\ deleting' = [deleting EXCEPT !.st[k].stop = TRUE]
           /\ job' = [at |-> "stop", pg |-> p, from |-> c, epoch |-> e, rest |-> {k}]
           /\ UNCHANGED <<x, pg_map, sp, wait_split, peering, coll>>

\* The mutant: a resurrected group is taken for complete.
DeletionStopsWhole ==
  LET p == job.pg
      c == job.from
      k == CHOOSE k \in job.rest : TRUE
  IN  /\ job.at = "stop" /\ deleting.st[k].at \in {"queued", "waiting", "canceled"}
      /\ deleting' = [deleting EXCEPT !.reg[c] = 0]
      /\ _create_lock_pg(c, x.obj[k].epoch, FALSE, TRUE)
      /\ wait_split' = IF c = p THEN wait_split ELSE [wait_split EXCEPT ![p] = @ + 1]
      /\ UNCHANGED <<world, cur, fastVars, shardVars, fin, coll, rm, netVars>>

\* The deletion has stopped: RES_SELF or RES_PARENT, with the old object's map.
DeletionStops ==
  LET p == job.pg
      c == job.from
      k == CHOOSE k \in job.rest : TRUE
      e == x.obj[k].epoch
  IN  /\ job.at = "stop" /\ deleting.st[k].at \in {"queued", "waiting", "canceled"}
      /\ deleting' = [deleting EXCEPT !.reg[c] = 0]
      /\ _create_lock_pg(c, e, TRUE,
                         c = p \/ splitting(init_splits_between(sp, c, Num, e, cur.pub), p))
      /\ wait_split' = IF c = p THEN wait_split ELSE [wait_split EXCEPT ![p] = @ + 1]
      /\ UNCHANGED <<world, cur, fastVars, shardVars, fin, coll, rm, netVars>>

\* The deletion was over: RES_NONE.
DeletionIsOver ==
  LET k == CHOOSE k \in job.rest : TRUE
  IN  /\ job.at = "stop" /\ deleting.st[k].at = "deleted"
      /\ deleting' = [deleting EXCEPT !.reg[job.from] = 0]
      /\ CreateNew(job.pg, job.epoch)
      /\ UNCHANGED <<world, cur, fastVars, shardVars, fin, rm, netVars>>

\* What is left unchanged by all that makes, feeds or removes a group.
ByMessage == UNCHANGED <<world, cur, fastVars, shardVars, fin, notified, left>>

WaitForSplit(p) ==
  /\ wait_split' = [wait_split EXCEPT ![p] = @ + 1]
  /\ UNCHANGED <<job, x, pg_map, sp, peering, storeVars>>

QueueEvent(o) ==
  /\ x' = [x EXCEPT !.obj[o].evq = @ + 1]
  /\ peering' = [peering EXCEPT !.wq = Append(@, o)]
  /\ UNCHANGED <<job, pg_map, sp, wait_split, storeVars>>

Ignored == UNCHANGED <<job, x, pg_map, sp, wait_split, peering, storeVars>>

handle_pg_peering_evt(p, e, h) ==
  LET hist == project_pg_history(p, h, e)
      o == pg_map[p]
  IN  IF splitting(sp, p) THEN WaitForSplit(p)
      ELSE IF o = 0
      THEN IF maps[cur.osdmap].num = 0 THEN Ignored
           ELSE IF ~hist.valid \/ e < hist.interval THEN Ignored
           ELSE _try_resurrect_pg(p, e) /\ UNCHANGED rm
      ELSE IF e < Since(p, x.obj[o].epoch) THEN Ignored
      ELSE QueueEvent(o)

\* ------------------------------------------------------------- peering messages
\* The primary asks a stray to go only after the stray has told it of the group.
Sendable(m) == m.kind = "remove" => notified[m.pg] >= Since(m.pg, m.epoch)

\* The next message of do_waiters or, when none is left, of the network; with it
\* what msgs becomes.
Arrivals ==
  IF ~Free THEN {}
  ELSE IF msgs.done # <<>>
  THEN {[m |-> Head(msgs.done), then |-> [msgs EXCEPT !.done = Tail(@)]]}
  ELSE {[m |-> msgs.come[n], then |-> [msgs EXCEPT !.come = RemoveAt(@, n)]] :
          n \in {n \in DOMAIN msgs.come : Sendable(msgs.come[n])}}

wait_for_new_map ==
  \E a \in Arrivals :
    /\ a.m.epoch > cur.osdmap
    /\ msgs' = [a.then EXCEPT !.wait = Append(@, a.m)]
    /\ Ignored /\ ByMessage

\* require_same_or_newer_map: what the handlers below have in common.
Admits(a, kind) ==
  /\ a.m.kind = kind /\ a.m.epoch <= cur.osdmap /\ msgs' = a.then
  /\ kind = "create" \/ maps[cur.osdmap].peer

\* The peer's messages come through the connection of its operations.
require_same_peer_instance ==
  \E a \in Arrivals :
    /\ a.m.kind # "create" /\ a.m.epoch <= cur.osdmap /\ ~maps[cur.osdmap].peer
    /\ x' = ForAll(LAMBDA y, s : MarkDown(y, s), x, {ops[i].s : i \in {i \in DOMAIN ops : ~ops[i].client}})
    /\ msgs' = a.then
    /\ UNCHANGED <<job, pg_map, sp, wait_split, peering, storeVars>> /\ ByMessage

\* From a monitor; the maps since the group's creation are kept.
handle_pg_create ==
  \E a \in Arrivals :
    LET hist == project_pg_history(a.m.pg, 0, Created(a.m.pg))
    IN  /\ Admits(a, "create")
        /\ IF \/ maps[cur.osdmap].num = 0
              \/ Role(cur.osdmap, a.m.pg) # "me"
              \/ hist.primary > a.m.epoch
           THEN Ignored
           ELSE handle_pg_peering_evt(a.m.pg, cur.osdmap, hist.interval)
        /\ ByMessage

\* Notifies, logs and infos of the peer.
handle_pg_notify ==
  \E a \in Arrivals :
    /\ Admits(a, "notify")
    /\ handle_pg_peering_evt(a.m.pg, a.m.epoch, Since(a.m.pg, a.m.epoch))
    /\ ByMessage

\* handle_pg_backfill_reserve and handle_pg_recovery_reserve: an event for a group
\* that is here, or that splits off; otherwise it is dropped.
handle_pg_reserve(p) ==
  IF splitting(sp, p) THEN WaitForSplit(p)
  ELSE IF pg_map[p] # 0 THEN QueueEvent(pg_map[p])
  ELSE Ignored

\* A query is like a reservation, but answered when the group is not here.
handle_pg_query ==
  \E a \in Arrivals : Admits(a, "query") /\ handle_pg_reserve(a.m.pg) /\ ByMessage

handle_pg_remove ==
  \E a \in Arrivals :
    LET p == a.m.pg
        o == pg_map[p]
        g == x.obj[o]
        hist == project_pg_history(p, Since(p, g.epoch), g.epoch)
    IN  /\ Admits(a, "remove")
        /\ IF o # 0 /\ hist.valid /\ hist.interval <= a.m.epoch
           THEN /\ _remove_pg({o}, [x EXCEPT !.ok = @ /\ Role(g.epoch, p) # "me"],
                              sp, pg_map, peering.wq)
                /\ UNCHANGED <<job, wait_split>>
           ELSE Ignored
        /\ ByMessage

\* ------------------------------------------------------------------- consume_map
\* The holder of osd_lock goes on to a, leaving the rest of what it holds.
Locked(a, b) == job.at = a /\ job' = [job EXCEPT !.at = b]

\* One map of a committed batch: it is pre-published and becomes OSD::osdmap.
AdvanceMap ==
  /\ job.at \in {"free", "advance"}
  /\ \E e \in Kept : /\ e > cur.osdmap /\ \A f \in Kept : f > cur.osdmap => e <= f
                    /\ cur' = [cur EXCEPT !.osdmap = e, !.next = e]
  /\ job' = [job EXCEPT !.at = "advance"]
  /\ UNCHANGED <<world, x, fastVars, shardVars, groupVars, storeVars, netVars>>

ConsumeScans ==
  LET G == {pg_map[p] : p \in Pg} \ {0}
      Between(acc, p) == init_splits_between(acc, p, Num, cur.pub, cur.osdmap)
  IN  /\ Locked("advance", "expand")
      /\ IF maps[cur.osdmap].num = 0
         THEN _remove_pg(G, x, sp, pg_map, peering.wq)
         ELSE /\ sp' = ForAll(LAMBDA acc, p : Between(acc, p), sp, {p \in Pg : pg_map[p] # 0})
              /\ UNCHANGED <<x, pg_map, peering, storeVars>>
      /\ UNCHANGED <<world, cur, fastVars, shardVars, wait_split, fin, netVars>>

ConsumeExpands ==
  /\ Locked("expand", "publish")
  /\ sp' = expand_pg_num(sp, maps[cur.pub].num, maps[cur.osdmap].num)
  /\ UNCHANGED <<world, cur, x, fastVars, shardVars, pg_map, wait_split, peering, fin,
                 storeVars, netVars>>

\* await_reserved_maps, publish_map
publish_map ==
  /\ Locked("publish", "sessions")
  /\ \A s \in Session : fast[s].epoch \in {0} \cup {e \in Kept : e >= cur.next}
  /\ cur' = [cur EXCEPT !.pub = cur.osdmap]
  /\ UNCHANGED <<world, x, fastVars, shardVars, groupVars, storeVars, netVars>>

ConsumeSessions ==
  /\ Locked("sessions", "queue")
  /\ x' = ClearUnhosted(
            dispatch_sessions_waiting_on_map(x, ops, maps, pg_map, cur.osdmap),
            ops, maps, cur.osdmap)
  /\ UNCHANGED <<world, cur, fastVars, shardVars, groupVars, storeVars, netVars>>

\* Each group gets a null event; then activate_map takes the waiting messages.
ConsumeQueues ==
  LET G == {pg_map[p] : p \in Pg} \ {0}
  IN  /\ Locked("queue", "free")
      /\ x' = [x EXCEPT !.obj = [o \in DOMAIN @ |-> IF o \in G THEN [@[o] EXCEPT !.evq = @ + 1]
                                                   ELSE @[o]]]
      /\ peering' = [peering EXCEPT !.wq = @ \o SetToSeq(G)]
      /\ msgs' = [msgs EXCEPT !.done = @ \o msgs.wait, !.wait = <<>>]
      /\ UNCHANGED <<world, cur, fastVars, shardVars, pg_map, sp, wait_split, fin, storeVars,
                     notified, left>>

\* The end of making a group: wake_pg_waiters.
Wakes ==
  /\ job.at = "wake"
  /\ x' = wake_pg_waiters(x, ops, maps, pg_map, cur.osdmap, job.pg)
  /\ job' = IF job.rest = {} THEN None ELSE [None EXCEPT !.at = "complete", !.rest = job.rest]
  /\ UNCHANGED <<world, cur, fastVars, shardVars, groupVars, storeVars, netVars>>

\* C_CompleteSplits gets osd_lock.
CompleteBegins ==
  /\ Free /\ fin # <<>>
  /\ job' = [None EXCEPT !.at = "complete", !.rest = Head(fin)] /\ fin' = Tail(fin)
  /\ UNCHANGED <<world, cur, x, fastVars, shardVars, pg_map, sp, wait_split, peering,
                 storeVars, netVars>>

\* The mutant: what waits for the new group is not woken.
CompleteSplitSilent ==
  /\ job.at = "complete"
  /\ \E o \in job.rest :
       LET p == x.obj[o].pgid
           n == 1 + wait_split[p]
           y == [x EXCEPT !.obj[o].evq = n, !.ok = @ /\ pg_map[p] = 0]
           wq == peering.wq \o [k \in 1..n |-> o]
           pm == [pg_map EXCEPT ![p] = o]
       IN  /\ job' = IF job.rest = {o} THEN None ELSE [job EXCEPT !.rest = @ \ {o}]
           /\ wait_split' = [wait_split EXCEPT ![p] = 0]
           /\ IF maps[cur.pub].num = 0 THEN _remove_pg({o}, y, sp, pm, wq)
              ELSE /\ x' = y /\ pg_map' = pm /\ sp' = complete_split(sp, p)
                   /\ peering' = [peering EXCEPT !.wq = wq]
                   /\ UNCHANGED storeVars
  /\ UNCHANGED <<world, cur, fastVars, shardVars, fin, netVars>>

\* add_newly_split_pg and complete_split for one child.
CompleteSplit ==
  /\ job.at = "complete"
  /\ \E o \in job.rest :
       LET p == x.obj[o].pgid
           n == 1 + wait_split[p]
           y == [x EXCEPT !.obj[o].evq = n, !.ok = @ /\ pg_map[p] = 0]
           wq == peering.wq \o [k \in 1..n |-> o]
           pm == [pg_map EXCEPT ![p] = o]
       IN  /\ job' = [None EXCEPT !.at = "wake", !.pg = p, !.rest = job.rest \ {o}]
           /\ wait_split' = [wait_split EXCEPT ![p] = 0]
           /\ IF maps[cur.pub].num = 0 THEN _remove_pg({o}, y, sp, pm, wq)
              ELSE /\ x' = y /\ pg_map' = pm /\ sp' = complete_split(sp, p)
                   /\ peering' = [peering EXCEPT !.wq = wq]
                   /\ UNCHANGED storeVars
  /\ UNCHANGED <<world, cur, fastVars, shardVars, fin, netVars>>

\* ------------------------------------------------------------- peering threads
PeeringDequeues(t) ==
  /\ peering.on[t] = 0
  /\ \E n \in DOMAIN peering.wq :
       /\ \A k \in 1..n : (k < n) = \E u \in Peerer : peering.on[u] = peering.wq[k]
       /\ peering' = [wq |-> RemoveAt(peering.wq, n),
                      on |-> [peering.on EXCEPT ![t] = peering.wq[n]]]
  /\ UNCHANGED <<world, cur, job, x, fastVars, shardVars, pg_map, sp, wait_split, fin,
                 storeVars, netVars>>

\* PG::split_ops: what waits for the group and belongs to child c moves to it.
Splits(y, o, c, e) ==
  LET g == y.obj[o]
      Goes(i) == ops[i].client /\ Ancestor(ops[i].raw, maps[e].num) = c
      Stays(i) == ~Goes(i)
      all == g.pwait \o Dequeued(y.q, o)
  IN  [y EXCEPT !.obj = Append([@ EXCEPT ![o].pwait = SelectSeq(all, Stays),
                                        ![o].mwait = SelectSeq(g.mwait, Stays)],
                               [NewPg(c, e, g.backfill) EXCEPT !.pwait = SelectSeq(all, Goes),
                                                              !.mwait = SelectSeq(g.mwait, Goes)]),
                !.q = dequeue_pg(@, o)]

\* handle_advance_map of object o to the next map kept, and split_pgs.
AdvanceTo(st, o, e) ==
  LET g == st.x.obj[o]
      p == g.pgid
      kids == is_split(p, maps[g.epoch].num, maps[e].num)
      moved == [st.x EXCEPT !.obj[o].epoch = e,
                            !.obj[o].active = @ /\ ~Changed(p, e),
                            !.obj[o].pwait = IF Role(e, p) = "out" THEN <<>> ELSE @]
  IN  [st EXCEPT
        !.x = InTurn(LAMBDA y, c : Splits(y, o, c, e), moved, SetToSeq(kids)),
        !.sp = IF kids = {} THEN @ ELSE mark_split_in_progress(@, p, kids),
        !.new = @ \cup ((Len(st.x.obj) + 1)..(Len(st.x.obj) + Cardinality(kids))),
        !.coll = [q \in Pg |-> IF q \in kids \cup {p}
                              THEN [there |-> TRUE, epoch |-> e, backfill |-> g.backfill,
                                    cleared |-> st.coll[p].cleared]
                              ELSE @[q]],
        !.next = e + 1]

\* The mutant: an epoch not kept does not move the limit.
advance_pg_stuck(o) ==
  LET min == Min({x.obj[pg_map[p]].epoch : p \in {p \in Pg : pg_map[p] # 0}})
      Step(st, e) ==
        IF e > st.max THEN st
        ELSE IF e \notin Kept THEN [st EXCEPT !.next = e + 1] ELSE AdvanceTo(st, o, e)
      from == x.obj[o].epoch
  IN  InTurn(Step, [x |-> x, sp |-> sp, coll |-> coll, new |-> {}, max |-> min + MaxAdvance,
                    next |-> from + 1],
             [n \in 1..(cur.pub - from) |-> from + n])

\* From the object's map to the published one, but not further than MaxAdvance
\* past the oldest map of a group; epochs not kept are skipped.
advance_pg(o) ==
  LET min == Min({x.obj[pg_map[p]].epoch : p \in {p \in Pg : pg_map[p] # 0}})
      Step(st, e) ==
        IF e > st.max THEN st
        ELSE IF e \notin Kept
        THEN [st EXCEPT !.max = Max({@, e + MaxAdvance}), !.next = e + 1]
        ELSE AdvanceTo(st, o, e)
      from == x.obj[o].epoch
  IN  InTurn(Step, [x |-> x, sp |-> sp, coll |-> coll, new |-> {}, max |-> min + MaxAdvance,
                      next |-> from + 1],
               [n \in 1..(cur.pub - from) |-> from + n])

\* handle_activate_map queues the operations that waited for the map.
Activated(y, o) ==
  LET list == y.obj[o].mwait
      n == SelectInSeq(list, LAMBDA i : ops[i].epoch > y.obj[o].epoch)
      now == IF n = 0 THEN list ELSE SubSeq(list, 1, n - 1)
  IN  [y EXCEPT !.obj[o].mwait = IF n = 0 THEN <<>> ELSE SubSeq(list, n, Len(list)),
                !.q = InTurn(LAMBDA q, i : _enqueue(q, o, i), @, now)]

\* handle_peering_event: a group with a role becomes active and takes back what
\* waited; a stray tells the primary of itself.
Peered(y, o) ==
  LET g == y.obj[o]
      z == [y EXCEPT !.obj[o].evq = @ - 1, !.ok = @ /\ g.evq > 0]
  IN  IF Role(g.epoch, g.pgid) = "out" \/ g.active THEN z
      ELSE [z EXCEPT !.obj[o].active = TRUE, !.obj[o].pwait = <<>>,
                     !.q = requeue_ops(@, o, g.pwait)]

process_peering_events(t) ==
  \E o \in {peering.on[t]} \ {0} :
    /\ IF x.obj[o].deleting
       THEN /\ peering' = [peering EXCEPT !.on[t] = 0]
            /\ UNCHANGED <<x, sp, fin, coll, notified>>
       ELSE \E st \in {advance_pg(o)} :
            \E y \in {IF x.obj[o].epoch = cur.pub THEN x ELSE Activated(st.x, o)} :
              LET all == st.next > cur.pub
                  g == y.obj[o]
              IN  /\ x' = IF all THEN Peered([y EXCEPT !.ok = @ /\ x.obj[o].epoch <= cur.pub], o)
                          ELSE y
                  /\ sp' = st.sp /\ coll' = st.coll
                  /\ fin' = IF st.new = {} THEN fin ELSE Append(fin, st.new)
                  /\ peering' = [wq |-> IF all THEN peering.wq ELSE Append(peering.wq, o),
                                 on |-> [peering.on EXCEPT ![t] = 0]]
                  /\ notified' = IF all /\ Role(g.epoch, g.pgid) = "out"
                                 THEN [notified EXCEPT ![g.pgid] = g.epoch] ELSE notified
    /\ UNCHANGED <<world, cur, job, fastVars, shardVars, pg_map, wait_split, deleting, rm,
                   msgs, left>>

\* ------------------------------------------------------- deleting a collection
\* One step of RemoveWQ::_process on its item; the DeletingState goes to a and the
\* thread to b unless the deletion is to stop.
RemoverSteps(item, a, b) ==
  LET k == item.key
      stopped == deleting.st[k].stop
  IN  /\ deleting' = [deleting EXCEPT !.st[k].at = IF stopped THEN "canceled" ELSE a]
      /\ rm' = [rm EXCEPT !.at = IF stopped THEN "idle" ELSE b,
                          !.item = IF stopped THEN NoItem ELSE item]
      /\ UNCHANGED <<world, cur, job, x, fastVars, shardVars, groupVars, netVars>>

\* start_or_resume_clearing
RemoverBegins ==
  /\ rm.at = "idle" /\ rm.wq # <<>>
  /\ LET item == Head(rm.wq)
         stopped == deleting.st[item.key].stop
     IN  /\ deleting' = [deleting EXCEPT !.st[item.key].at = IF stopped THEN "canceled" ELSE "clearing"]
         /\ rm' = [wq |-> Tail(rm.wq), at |-> IF stopped THEN "idle" ELSE "clear",
                   item |-> IF stopped THEN NoItem ELSE item]
  /\ UNCHANGED <<world, cur, job, x, fastVars, shardVars, groupVars, coll, netVars>>

\* remove_dir removes a batch of objects and waits for the store.
remove_dir ==
  /\ rm.at = "clear"
  /\ coll' = [coll EXCEPT ![x.obj[rm.item.o].pgid].cleared = TRUE]
  /\ RemoverSteps(rm.item, "waiting", "paused")

\* resume_clearing; that was all of the collection.
RemoverCleared ==
  /\ rm.at = "paused" /\ UNCHANGED coll
  /\ RemoverSteps(rm.item, "clearing", "cleared")

\* resume_clearing; there is more to remove: the item goes to the front again.
RemoverRequeues ==
  /\ rm.at = "paused" /\ rm.item.more
  /\ ~deleting.st[rm.item.key].stop
  /\ rm' = [wq |-> <<[rm.item EXCEPT !.more = FALSE]>> \o rm.wq, at |-> "idle", item |-> NoItem]
  /\ UNCHANGED <<world, cur, job, x, fastVars, shardVars, groupVars, coll, deleting, netVars>>

start_deleting ==
  /\ rm.at = "cleared" /\ UNCHANGED coll
  /\ RemoverSteps(rm.item, "deleting", "delete")

\* The collection goes; finish_deleting; the DeletingState is dropped, unless
\* _try_resurrect_pg still holds it.
finish_deleting ==
  LET k == rm.item.key
      p == x.obj[rm.item.o].pgid
  IN  /\ rm.at = "delete"
      /\ coll' = [coll EXCEPT ![p] = NoColl]
      /\ deleting' = [st |-> [deleting.st EXCEPT ![k].at = "deleted"],
                      reg |-> [deleting.reg EXCEPT ![p] = IF @ = k /\ job.at # "stop" THEN 0 ELSE @]]
      /\ rm' = [rm EXCEPT !.at = "idle", !.item = NoItem]
      /\ UNCHANGED <<world, cur, job, x, fastVars, shardVars, groupVars, netVars>>

\* ---------------------------------------------------------------------- restart
\* A crash, and load_pgs: what is stored comes back, at the map it was stored with;
\* init goes on to consume_map.  No collection has the removal flag: only a tool
\* outside the OSD sets it.
load_pgs ==
  LET P == {p \in Pg : coll[p].there /\ coll[p].epoch \in Kept}
      list == SetToSortSeq(P, <)
      Object_(p) == NewPg(p, coll[p].epoch, coll[p].backfill)
      e == cur.osdmap
  IN  /\ left.crash > 0 /\ left' = [left EXCEPT !.crash = @ - 1]
      /\ x' = [ses |-> [s \in Session |-> NoSession],
               reg |-> [map |-> {}, pg |-> [p \in Pg |-> {}]],
               obj |-> [n \in 1..Len(list) |-> Object_(list[n])],
               q |-> [pq |-> <<>>, proc |-> [o \in Object |-> <<>>]],
               ok |-> x.ok /\ \A p \in Pg \ P : coll[p].there => maps[e].num = 0]
      /\ pg_map' = [p \in Pg |-> SelectInSeq(list, LAMBDA q : q = p)]
      /\ sp' = ForAll(LAMBDA acc, p : init_splits_between(acc, p, Num, coll[p].epoch, e),
                       [NoSplits EXCEPT !.ok = sp.ok], P)
      /\ cur' = [osdmap |-> e, next |-> e, pub |-> e]
      /\ job' = [None EXCEPT !.at = "advance"]
      /\ fast' = [s \in Session |-> [epoch |-> 0, op |-> 0]]
      /\ worker' = [w \in Worker |-> 0]
      /\ wait_split' = [p \in Pg |-> 0]
      /\ peering' = [wq |-> <<>>, on |-> [t \in Peerer |-> 0]]
      /\ fin' = <<>>
      /\ msgs' = [msgs EXCEPT !.wait = <<>>, !.done = <<>>]
      /\ deleting' = [reg |-> [p \in Pg |-> 0],
                      st |-> [o \in Object |-> [at |-> "none", stop |-> FALSE]]]
      /\ rm' = [wq |-> <<>>, at |-> "idle", item |-> NoItem]
      /\ UNCHANGED <<world, sent, ran, notified, coll>>

\* -------------------------------------------------------------------------- Next
Quiet ==
  /\ Free /\ fin = <<>> /\ peering.wq = <<>> /\ x.q.pq = <<>>
  /\ rm.at = "idle" /\ rm.wq = <<>> /\ Arrivals = {}
  /\ cur.osdmap = Max(Kept)
  /\ \A t \in Peerer : peering.on[t] = 0
  /\ \A w \in Worker : worker[w] = 0
  /\ \A s \in Session : fast[s].epoch = 0 /\ (x.ses[s].open => \A i \in DOMAIN ops \ sent : ops[i].s # s)

Quiescent == Quiet /\ UNCHANGED vars

Dispatcher == \E s \in Session : FastBegins(s) \/ ms_fast_dispatch(s)
Shard == \E w \in Worker : ShardDequeues(w) \/ ShardProcesses(w)
Peering == \E t \in Peerer : PeeringDequeues(t) \/ process_peering_events(t)
Messages ==
  \/ wait_for_new_map \/ require_same_peer_instance
  \/ handle_pg_create \/ handle_pg_notify \/ handle_pg_query \/ handle_pg_remove
OsdLock ==
  \/ AdvanceMap \/ ConsumeScans \/ ConsumeExpands \/ publish_map \/ ConsumeSessions
  \/ ConsumeQueues \/ Wakes \/ CompleteBegins \/ CompleteSplit
  \/ DeletionStops \/ DeletionIsOver
Remover ==
  \/ RemoverBegins \/ remove_dir \/ RemoverCleared \/ RemoverRequeues
  \/ start_deleting \/ finish_deleting

Next ==
  \/ Dispatcher \/ Shard \/ Peering \/ Messages \/ OsdLock \/ Remover \/ Quiescent
  \/ load_pgs
  \/ \E s \in Session : ms_handle_reset(s)

Spec == Init /\ [][Next]_vars /\ WF_vars(Dispatcher) /\ WF_vars(Shard) /\ WF_vars(Peering)
             /\ WF_vars(Messages \/ OsdLock) /\ WF_vars(Remover)

\* -------------------------------------------------------------------- properties
Held(s) == x.ses[s].onmap \o FlattenSeq([k \in 1..Cardinality(Pg) |-> x.ses[s].forpg[k - 1]])
Places ==
  FlattenSeq(<<[n \in DOMAIN x.q.pq |-> x.q.pq[n].op], ran>>
             \o [n \in 1..MaxObj |-> x.q.proc[n]]
             \o [n \in DOMAIN x.obj |-> x.obj[n].pwait \o x.obj[n].mwait]
             \o SetToSeq({Held(s) : s \in Session} \ {<<>>}))

\* The published map is not ahead of OSD::osdmap nor that one of the pre-published
\* one, all are maps kept, and groups, workers and deletions name objects that exist.
TypeOK ==
  /\ cur.pub <= cur.osdmap /\ cur.osdmap <= cur.next /\ {cur.pub, cur.osdmap, cur.next} \subseteq Kept
  /\ pg_map \in [Pg -> 0..Len(x.obj)] /\ Len(x.obj) <= MaxObj
  /\ worker \in [Worker -> 0..Len(x.obj)]
  /\ \A o \in DOMAIN x.obj : x.obj[o].epoch \in Kept /\ x.obj[o].pgid \in Pg /\ x.obj[o].evq \in Nat
  /\ coll \in [Pg -> [there : BOOLEAN, epoch : Kept \cup {0}, backfill : BOOLEAN, cleared : BOOLEAN]]
  /\ deleting.reg \in [Pg -> 0..Len(x.obj)]
  /\ sp.inprog \subseteq Pg

\* No assertion of OSD.cc fails: a child is split once, from the parent it waits for
\* (_start_split, mark_split_in_progress, complete_split); a group is made once; the
\* map of a session never goes back (update_waiting_for_pg); an operation runs with a
\* map at least as new as its own; what is asked to go is not primary; every event
\* that a peering thread takes is queued.
NoAssert == x.ok /\ sp.ok

\* Two operations of one session on one object run in the order they were sent,
\* whatever they waited for: a map, the group, a split, the group's peering, or the
\* shard's queue with two workers (_enqueue_front keeps what workers hold first).
OpsInOrder ==
  \A m, n \in DOMAIN ran :
    m < n /\ ops[ran[m]].s = ops[ran[n]].s /\ ops[ran[m]].raw = ops[ran[n]].raw => ran[m] < ran[n]

\* An operation is in one place: executed, or in one of the queues and waiting lists.
\* update_waiting_for_pg, the splits and the requeues move it and never copy it.
OpOnce == Cardinality(ToSet(Places)) = Len(Places)

\* A session that holds operations is in the registry that will wake it: waiting_on_map
\* sessions in session_waiting_for_map, unless the connection was marked down, and
\* session_waiting_for_pg names exactly the sessions with operations waiting for the
\* group.
WaitersRegistered ==
  \A s \in Session : /\ x.ses[s].con /\ x.ses[s].onmap # <<>> => s \in x.reg.map
                     /\ \A p \in Pg : x.ses[s].forpg[p] # <<>> <=> s \in x.reg.pg[p]

\* Objects of p that are not in pg_map yet.
Coming(p) == {o \in UNION ToSet(fin) \cup job.rest : job.at # "stop" /\ x.obj[o].pgid = p}

\* A group in pg_map has its collection, and one that a deletion has begun to empty
\* is known to be incomplete (its group must be backfilled), also after a restart;
\* no collection is left without a group, a deletion or a split on its way.
CollectionKept ==
  \A p \in Pg :
    /\ pg_map[p] # 0 => /\ coll[p].there
                        /\ coll[p].cleared => x.obj[pg_map[p]].backfill
    /\ coll[p].there => pg_map[p] # 0 \/ deleting.reg[p] # 0 \/ Coming(p) # {}

\* When all threads are at rest, no operation waits for a group that is here or for a
\* map that has come, every group has reached the published map with no event or
\* operation left over, no split is half done, and no collection has lost its group.
\* Events for the children of a deleted pool are the exception: they stay.
NoneStranded ==
  Quiet =>
    /\ \A s \in Session : /\ \A p \in Pg : x.ses[s].forpg[p] # <<>> => pg_map[p] = 0
                           /\ \A i \in ToSet(x.ses[s].onmap) : x.ses[s].con => ops[i].epoch > cur.osdmap
    /\ \A p \in Pg : LET g == x.obj[pg_map[p]]
                     IN pg_map[p] # 0 => /\ g.epoch = cur.pub /\ g.pwait = <<>> /\ g.evq = 0
                                         /\ \A i \in ToSet(g.mwait) : ops[i].epoch > g.epoch
    /\ sp.inprog = {} /\ DOMAIN sp.pending = {}
    /\ maps[cur.pub].num > 0 => \A p \in Pg : wait_split[p] = 0
    /\ \A p \in Pg : pg_map[p] = 0 => ~coll[p].there

\* When all threads are at rest, a client's operation that this OSD is primary for
\* since an epoch the client knew is executed or still waiting: no map change, split
\* or creation in between drops it.  A crash or a lost connection may.
OpsKept ==
  \A i \in sent :
    LET num == maps[cur.pub].num
        p == Ancestor(ops[i].raw, num)
    IN  Quiet /\ left.crash = world.crash /\ ops[i].client /\ x.ses[ops[i].s].open
          /\ num > 0 /\ Role(cur.pub, p) = "me" /\ ops[i].epoch >= PrimarySince(p, cur.pub)
        => i \in ToSet(Places)

\* The OSD comes to rest again and again: publish_map does not wait for ever for a
\* reserved map, advance_pg gets past missing maps, and stopping a deletion ends.
Settles == []<>Quiet

\* Every state is well formed, no assertion of OSD.cc has failed, and whoever holds
\* operations is registered to be woken.
Consistent == TypeOK /\ NoAssert /\ WaitersRegistered

\* An operation runs once, and those of one session on one object in order
\* (enqueue_op, dequeue_op and everything that requeues).
OpsServed == OpOnce /\ OpsInOrder

\* At rest nothing waits for what has happened, and no operation was lost
\* (consume_map, wake_pg_waiters, handle_pg_create).
RestComplete == NoneStranded /\ OpsKept
=============================================================================
