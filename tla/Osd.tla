-------------------------------- MODULE Osd --------------------------------
(***************************************************************************)
(* The Ceph client of SafeTimer (ceph/OSD.cc): one OSD, its heartbeats and *)
(* failure reports, the OSD maps it receives and stores, its boot, restart *)
(* and shutdown.  The monitor, the other OSDs, the network between them    *)
(* and the two local SafeTimer services are the environment.               *)
(*                                                                         *)
(* A map is [inst, noup]: inst[o] is the address (a number) with which OSD *)
(* o is up, 0 if it is down and -1 if it does not exist; the epoch of a    *)
(* map is its place in mon.maps.  An address stands for those of all the   *)
(* messengers of a process; of those that one process takes one after the  *)
(* other, me.client..me.addr, the client messenger's is the same.  A time  *)
(* stamp is "none", "fresh" (younger than osd_heartbeat_grace) or "stale". *)
(*                                                                         *)
(* The threads that hold osd_lock (dispatch, tick, the commit of maps) are *)
(* one at a time, in job.  The heartbeat thread runs beside them and holds *)
(* heartbeat_lock while it waits for SafeTimer.                            *)
(***************************************************************************)
EXTENDS OsdPeers, Sequences

CONSTANTS
  None,         \* no record
  MessageMax,   \* osd_map_message_max
  Scenarios,    \* the maps there are at the start, of which the OSD has the
                \* first, the oldest that the monitor has, and how often the
                \* environment may do what; one is chosen
  Chan          \* the heartbeat connections of a peer: back and front

VARIABLES
  mon,      \* the monitor, and the messages to it
  net,      \* the map messages to this OSD
  proc,     \* the address with which an OSD process runs, 0 if it is dead
  me,       \* the OSD: its state, its epochs, its address, its subscription
  hb,       \* heartbeat_peers
  fail,     \* failure_queue and failure_pending
  job,      \* what the holder of osd_lock is doing
  beat,     \* the heartbeat thread: "update", "send", "check", "sleep", "gone"
  stray,    \* peers whose removal left a reply in the dispatch queue
  txq,      \* transactions queued in the object store
  disk,     \* the superblock and the maps on disk
  stop,     \* the shutdown
  safetimer,  \* the local SafeTimer services answer
  left      \* what is left of the budget

vars == <<mon, net, proc, me, hb, fail, job, beat, stray, txq, disk, stop, safetimer, left>>

NoJob == [pc |-> "free"]
NoBoot == [addr |-> 0, epoch |-> 0]
Stamp == {"none", "fresh", "stale"}

-----------------------------------------------------------------------------
(* Maps, subscriptions and messages. *)

newestMap == Len(mon.maps)
Inst(e, o) == IF e = 0 THEN 0 ELSE mon.maps[e].inst[o]
isUp(e, o) == Inst(e, o) > 0
Up(e) == {p \in Peer : isUp(e, p)}
noup(e) == e > 0 /\ mon.maps[e].noup
\* up_from: the first of the epochs with the same address.
UpFrom(e, o) == Min({k \in 1..e : \A i \in k..e : Inst(i, o) = Inst(e, o)})

\* osdmap_subscribe: the monitor client keeps the greatest epoch asked for, sub,
\* until a map of that epoch came; the monitor, asked, until it has sent one.
osdmap_subscribe(m, e) ==
  IF m.pub >= e \/ m.sub >= e THEN m ELSE [m EXCEPT !.sub = e, !.asked = e]

\* A message with maps from epoch first on, of which all or the first is full.
MapMsg(first, top, full, fromMon) ==
  [first |-> first, last |-> Min({top, first + MessageMax - 1}), newest |-> top,
   oldest |-> mon.oldest, full |-> full, mon |-> fromMon]

\* The objecter of the OSD asks for the newest map when the process starts.
ObjecterMap(stored) ==
  IF newestMap > stored THEN {MapMsg(newestMap, newestMap, TRUE, TRUE)} ELSE {}

\* What init sets up from the superblock.
Started(oldest, newest, addr) ==
  [state |-> "PREBOOT", osdmap |-> newest, next |-> newest, pub |-> newest, newest |-> newest,
   oldest |-> oldest, bind |-> newest, up |-> 0, client |-> addr, addr |-> addr, sub |-> 0, asked |-> 0,
   need |-> TRUE, resample |-> "none", first |-> 0, last |-> 0]

Init ==
  /\ \E s \in Scenarios :
       /\ left = s.left
       /\ mon = [maps |-> s.maps, oldest |-> s.oldest, boot |-> NoBoot, version |-> TRUE,
                 markdown |-> FALSE, reports |-> [p \in Peer |-> 0], full |-> {}]
  /\ net = ObjecterMap(1) /\ proc = [p \in Peer |-> Inst(newestMap, p)]
  /\ me = Started(1, 1, 1)
  /\ hb = [p \in Peer |-> None]
  /\ fail = [queue |-> {}, pending |-> [p \in Peer |-> 0]]
  /\ job = NoJob /\ beat = "update" /\ stray = {}
  /\ txq = <<>> /\ disk = [oldest |-> 1, newest |-> 1, maps |-> {1}]
  /\ stop = "no" /\ safetimer = TRUE

-----------------------------------------------------------------------------
(* The peers. *)

is_unhealthy(h) ==
  \E c \in Chan : h.rx[c] = "stale" \/ (h.rx[c] = "none" /\ h.first = "stale")
is_healthy(h) == \A c \in Chan : h.rx[c] = "fresh"

Peers(h) == {p \in Peer : h[p] # None}
hbFree == beat \notin {"update", "send", "check"} /\ job.pc # "tick"

\* Connections of removed peers are marked down; a reply that was already
\* dispatched may still come.
Removed(h) == stray \cup {p \in Peers(hb) \ Peers(h) : hb[p].first # "none"}

\* get_con_osd_hb, which looks into the map that is about to be published.
get_con_osd_hb(p, e) == IF isUp(me.next, p) /\ UpFrom(me.next, p) <= e THEN Inst(me.next, p) ELSE 0

_add_heartbeat_peer(p, e) ==
  [con |-> Inst(e, p), epoch |-> e, first |-> "none",
   pinged |-> [c \in Chan |-> {}], rx |-> [c \in Chan |-> "none"]]

reset_heartbeat_peers == [p \in Peer |-> None]

\* maybe_update_heartbeat_peers: while it waits to become healthy, the OSD asks
\* for new peers once per grace period.
Resampled(m) ==
  IF m.state # "WAITING" THEN m
  ELSE IF m.resample = "none" \/ (~m.need /\ m.resample = "stale")
  THEN [m EXCEPT !.resample = "fresh", !.need = TRUE] ELSE m
Resets(m) == m.state = "WAITING" /\ ~m.need /\ m.resample = "stale"

\* The peers are chosen among the OSDs of the map in use.
UpNow(m) == Up(m.osdmap)

maybe_update_heartbeat_peers(m, h, pg) ==
  LET cur == IF Resets(m) THEN {} ELSE Peers(h)
      asked == IF m.state = "ACTIVE" THEN pg ELSE {}
      new == Chosen(UpNow(m), cur, {p \in cur : h[p].epoch = m.osdmap}, asked)
  IN  [p \in Peer |->
        IF ~Resampled(m).need THEN (IF p \in cur THEN h[p] ELSE None)
        ELSE IF p \notin new THEN None
        ELSE IF p \notin cur THEN _add_heartbeat_peer(p, m.osdmap)
        ELSE IF p \in Refreshed(UpNow(m), asked) THEN [h[p] EXCEPT !.epoch = m.osdmap]
        ELSE h[p]]

-----------------------------------------------------------------------------
(* Booting. *)

\* Less than a third of the peers healthy is unhealthy.
_is_healthy(m, h) ==
  m.state = "WAITING" =>
    100 * Cardinality({p \in Peers(h) : is_healthy(h[p])}) >= 33 * Cardinality(Peers(h))

start_waiting_for_healthy(m) == [m EXCEPT !.state = "WAITING", !.resample = "none"]

start_boot(m, h) ==
  IF _is_healthy(m, h) THEN [m EXCEPT !.state = "PREBOOT"]
  ELSE IF m.state = "WAITING" THEN m ELSE start_waiting_for_healthy(m)

_send_boot(m) == [m EXCEPT !.state = "BOOTING"]

_preboot(m, oldest, newest) ==
  IF ~noup(m.osdmap) /\ m.osdmap + 1 >= oldest /\ m.osdmap + MessageMax > newest
  THEN _send_boot(m)
  ELSE IF m.osdmap + 1 >= oldest THEN osdmap_subscribe(m, m.osdmap + 1)
  ELSE [osdmap_subscribe(m, oldest - 1) EXCEPT !.asked = oldest - 1]

\* What the OSD sends to the monitor: start_boot asks for its epochs, and
\* _send_boot tells it the address.
BootMsg(n) == [addr |-> n.addr, epoch |-> n.osdmap]
AfterStart_silent(n) == mon
AfterStart(n) == [mon EXCEPT !.version = @ \/ n.state = "PREBOOT"]
AfterPreboot(n) == [mon EXCEPT !.boot = IF n.state = "BOOTING" THEN BootMsg(n) ELSE @]

\* The answer to get_version.
_got_mon_epochs ==
  /\ mon.version /\ job = NoJob
  /\ me' = IF me.state = "PREBOOT" THEN _preboot(me, mon.oldest, newestMap) ELSE me
  /\ mon' = [IF me.state = "PREBOOT" THEN AfterPreboot(me') ELSE mon EXCEPT !.version = FALSE]
  /\ UNCHANGED <<net, proc, hb, fail, job, beat, stray, txq, disk, stop, safetimer, left>>

-----------------------------------------------------------------------------
(* Heartbeats. *)

heartbeat_entry_stays ==
  /\ beat = "sleep" /\ hbFree /\ beat' = "send"
  /\ UNCHANGED <<mon, net, proc, me, hb, fail, job, stray, txq, disk, stop, safetimer, left>>
\* heartbeat_entry: the thread wakes and takes heartbeat_lock.
heartbeat_entry ==
  /\ beat = "sleep" /\ hbFree
  /\ beat' = IF me.state = "STOPPING" THEN "gone" ELSE "send"
  /\ UNCHANGED <<mon, net, proc, me, hb, fail, job, stray, txq, disk, stop, safetimer, left>>

\* When it starts it calls st_update, with the lock, which waits for an answer.
st_update ==
  /\ beat = "update" /\ safetimer /\ beat' = "send"
  /\ UNCHANGED <<mon, net, proc, me, hb, fail, job, stray, txq, disk, stop, safetimer, left>>

\* heartbeat, up to the check: st_send_hb, and st_update if its reply is 0,
\* return for every peer; then the peer is pinged on all its connections.
Pinged(h) == [h EXCEPT !.pinged = [c \in Chan |-> @[c] \cup {"fresh"}],
                       !.first = IF @ = "none" THEN "fresh" ELSE @]

heartbeat ==
  /\ beat = "send" /\ (safetimer \/ Peers(hb) = {})
  /\ hb' = [p \in Peer |-> IF hb[p] = None THEN None ELSE Pinged(hb[p])]
  /\ beat' = "check"
  /\ UNCHANGED <<mon, net, proc, me, fail, job, stray, txq, disk, stop, safetimer, left>>

\* The dispatch queue of the heartbeat messenger is backed up.
BackedUp ==
  \E p \in Peers(hb), c \in Chan : "stale" \in hb[p].pinged[c] /\ proc[p] = hb[p].con

\* What st_get_valid(p) may be, against the cutoff: true if SafeTimer holds p
\* for valid.  It does not so for a process that is dead.
st_get_valid(p) == IF proc[p] = hb[p].con THEN BOOLEAN ELSE {FALSE}

heartbeat_check_replied(found) ==
  LET late == {p \in Peers(hb) : \E c \in Chan : hb[p].rx[c] = "stale"}
  IN  /\ safetimer
      /\ \E valid \in [late -> BOOLEAN] :
           /\ \A p \in late : valid[p] \in st_get_valid(p)
           /\ found = {p \in late : ~valid[p]}
\* heartbeat_check: the peers that are found to have failed.  SafeTimer is asked
\* about every peer that has been pinged, and must answer.
heartbeat_check(found) ==
  LET pinged == {p \in Peers(hb) : hb[p].first # "none"}
      late == {p \in pinged : is_unhealthy(hb[p])}
  IN  \/ BackedUp /\ found = {}
      \/ /\ safetimer \/ pinged = {}
         /\ \E valid \in [late -> BOOLEAN] :
              /\ \A p \in late : valid[p] \in st_get_valid(p)
              /\ found = {p \in late : ~valid[p]}

HeartbeatEnds ==
  /\ beat = "check"
  /\ \E found \in SUBSET Peer :
       heartbeat_check(found) /\ fail' = [fail EXCEPT !.queue = @ \cup found]
  /\ me' = IF Peers(hb) = {} /\ me.state = "ACTIVE" THEN osdmap_subscribe(me, me.osdmap + 1)
           ELSE me
  /\ beat' = "sleep"
  /\ UNCHANGED <<mon, net, proc, hb, job, stray, txq, disk, stop, safetimer, left>>

\* send_still_alive: the monitor drops the report of the same instance.
send_still_alive(reported, inst) == IF reported = inst THEN 0 ELSE reported

\* handle_osd_ping, PING_REPLY: a healthy peer cancels the reports about it.
\* A connection delivers the replies in the order of the pings; pings of the
\* same age are one.
Cancelled_silent(p) ==
  /\ fail' = [queue |-> fail.queue \ {p}, pending |-> [fail.pending EXCEPT ![p] = 0]]
  /\ mon' = mon
Cancelled(p) ==
  /\ fail' = [queue |-> fail.queue \ {p}, pending |-> [fail.pending EXCEPT ![p] = 0]]
  /\ mon' = [mon EXCEPT !.reports[p] = send_still_alive(@, fail.pending[p])]

handle_ping_reply(p, c, age) ==
  LET h == [hb[p] EXCEPT !.rx[c] = age,
                         !.pinged[c] = IF age = "fresh" THEN {} ELSE @ \ {"stale"}]
  IN  /\ hb' = [hb EXCEPT ![p] = h]
      /\ IF is_healthy(h) THEN Cancelled(p) ELSE UNCHANGED <<fail, mon>>

PingReply(p) ==
  /\ hb[p] # None /\ hb[p].con = proc[p] /\ hbFree /\ me.state # "STOPPING"
  /\ \E c \in Chan : \E age \in hb[p].pinged[c] : handle_ping_reply(p, c, age)
  /\ UNCHANGED <<net, proc, me, job, beat, stray, txq, disk, stop, safetimer, left>>

\* A reply of a peer that is gone from heartbeat_peers: the code looks at the
\* stamps behind the end of the map, which are anything.
StrayReply(p) ==
  /\ p \in stray /\ hbFree
  /\ stray' = stray \ {p}
  /\ \/ hb[p] = None /\ me.state # "STOPPING" /\ Cancelled(p)
     \/ UNCHANGED <<fail, mon>>
  /\ UNCHANGED <<net, proc, me, hb, job, beat, txq, disk, stop, safetimer, left>>

\* YOU_DIED: a peer has a map in which this OSD is down.
you_died ==
  /\ hbFree /\ me.state # "STOPPING" /\ Inst(newestMap, whoami) # me.addr /\ me.pub < newestMap
  /\ \E p \in Peer : proc[p] # 0
  /\ me' = osdmap_subscribe(me, me.pub + 1) /\ me' # me
  /\ UNCHANGED <<mon, net, proc, hb, fail, job, beat, stray, txq, disk, stop, safetimer, left>>

\* heartbeat_reset: a heartbeat connection failed and is opened anew, unless the
\* next map tells of a newer process.
heartbeat_reset(p) ==
  /\ left.con > 0 /\ left' = [left EXCEPT !.con = @ - 1]
  /\ hb[p] # None /\ hbFree /\ me.state # "STOPPING"
  /\ LET con == get_con_osd_hb(p, hb[p].epoch)
     IN  hb' = [hb EXCEPT ![p] = IF con = 0 THEN None ELSE [@ EXCEPT !.con = con, !.pinged = [c \in Chan |-> {}]]]
  /\ stray' = Removed(hb')
  /\ UNCHANGED <<mon, net, proc, me, fail, job, beat, txq, disk, stop, safetimer>>

\* A PG has other peers than before.
need_heartbeat_peer_update ==
  /\ left.need > 0 /\ left' = [left EXCEPT !.need = @ - 1]
  /\ me.state # "STOPPING"
  /\ me' = [me EXCEPT !.need = TRUE]
  /\ UNCHANGED <<mon, net, proc, hb, fail, job, beat, stray, txq, disk, stop, safetimer>>

-----------------------------------------------------------------------------
(* The ticks, the reports to the monitor, and its connection. *)

\* tick, under osd_lock, and heartbeat_lock from the check on.
TickBegins ==
  /\ job = NoJob /\ hbFree /\ me.state \in {"ACTIVE", "WAITING"}
  /\ \E pg \in SUBSET Peer :
       /\ (me.state = "ACTIVE" /\ me.need) \/ pg = {}
       /\ hb' = maybe_update_heartbeat_peers(me, hb, pg)
  /\ fail' = IF Resets(me) THEN [fail EXCEPT !.queue = {}] ELSE fail
  /\ stray' = Removed(hb')
  /\ me' = [Resampled(me) EXCEPT !.need = FALSE]
  /\ job' = [pc |-> "tick"]
  /\ UNCHANGED <<mon, net, proc, beat, txq, disk, stop, safetimer, left>>

TickEnds ==
  /\ job.pc = "tick"
  /\ \E found \in SUBSET Peer :
       heartbeat_check(found) /\ fail' = [fail EXCEPT !.queue = @ \cup found]
  /\ IF me.state = "WAITING"
     THEN me' = start_boot(me, hb) /\ mon' = AfterStart(me')
     ELSE UNCHANGED <<me, mon>>
  /\ job' = NoJob
  /\ UNCHANGED <<net, proc, hb, beat, stray, txq, disk, stop, safetimer, left>>

\* send_failures, for the OSDs in f.queue: the monitor is told of those it has
\* not been told of, with the address in the map.
send_failures(f) ==
  [queue |-> {}, pending |-> [p \in Peer |-> IF p \in f.queue /\ f.pending[p] = 0
                                             THEN Inst(me.osdmap, p) ELSE f.pending[p]]]

requeue_failures ==
  [queue |-> fail.queue \cup {p \in Peer : fail.pending[p] # 0}, pending |-> [p \in Peer |-> 0]]

Told(f) == [p \in Peer |-> IF f.pending[p] # 0 THEN f.pending[p] ELSE mon.reports[p]]

\* The map is not about to change.
mapLockFree == job.pc # "commit"

\* tick_without_osd_lock when it reports; a missing acknowledgement of the
\* statistics makes it open a new session instead, see ms_handle_connect.
tick_without_osd_lock ==
  /\ me.state \in {"ACTIVE", "WAITING"} /\ mapLockFree /\ hbFree /\ fail.queue # {}
  /\ fail' = send_failures(fail)
  /\ mon' = [mon EXCEPT !.reports = Told(fail')]
  /\ UNCHANGED <<net, proc, me, hb, job, beat, stray, txq, disk, stop, safetimer, left>>

\* The session with the monitor was lost, and with it what was on its way or
\* what a monitor had not shared with the others, and is open again.
ms_handle_connect ==
  /\ left.reset > 0 /\ left' = [left EXCEPT !.reset = @ - 1]
  /\ job = NoJob /\ me.state # "STOPPING" /\ hbFree
  /\ \E kept \in SUBSET {p \in Peer : mon.reports[p] # 0} :
     LET renewed == [me EXCEPT !.asked = me.sub]
         lost == [mon EXCEPT !.boot = NoBoot, !.version = FALSE, !.markdown = FALSE,
                             !.reports = [p \in Peer |-> IF p \in kept THEN @[p] ELSE 0]]
         again == IF me.first # 0 THEN {<<me.first, me.last>>} ELSE {}
     IN  \/ /\ me.state = "PREBOOT"
            /\ me' = start_boot(renewed, hb) /\ fail' = fail
            /\ mon' = [lost EXCEPT !.version = me'.state = "PREBOOT", !.full = again]
         \/ /\ me.state = "BOOTING"
            /\ me' = renewed /\ fail' = fail
            /\ mon' = [lost EXCEPT !.boot = BootMsg(me), !.full = again]
         \/ /\ me.state \in {"ACTIVE", "WAITING"}
            /\ me' = renewed /\ fail' = send_failures(requeue_failures)
            /\ mon' = [lost EXCEPT !.full = again,
                         !.reports = [p \in Peer |-> IF fail'.pending[p] # 0
                                                     THEN fail'.pending[p] ELSE @[p]]]
  /\ net' = {m \in net : ~m.mon}
  /\ UNCHANGED <<proc, hb, job, beat, stray, txq, disk, stop, safetimer>>

-----------------------------------------------------------------------------
(* Maps arrive and are stored. *)

\* got_full_map for the epochs a..b: what is still missing of the full maps.
got_full_map(m, a, b) ==
  IF m.first = 0 \/ b < a \/ b < m.first THEN m
  ELSE IF a > m.first \/ b >= m.last THEN [m EXCEPT !.first = 0, !.last = 0]
  ELSE [m EXCEPT !.first = b + 1]

\* request_full_map asserts first >= requested_full_first.
request_full_map(m, first, last) ==
  IF m.first = 0 THEN [m EXCEPT !.first = first, !.last = last]
  ELSE [m EXCEPT !.last = Max({@, last})]
Requested(m, first, last) ==
  IF m.first = 0 THEN {<<first, last>>}
  ELSE IF last <= m.last THEN {} ELSE {<<m.last + 1, last>>}

\* sub_got: the subscription is satisfied.
sub_got(m, last) == [m EXCEPT !.sub = IF @ <= last THEN 0 ELSE @]

\* trim_maps: the first epoch that stays; lower is a lower bound of the epochs
\* in the map cache, to which the current map belongs, or where a transaction is
\* large enough.  A transaction for each epoch is the finest there can be.
trim_maps(oldest, lower) == Max({me.oldest, Min({oldest, lower})})
Trims(kept) ==
  [i \in 1..(kept - me.oldest) |->
    [oldest |-> me.oldest + i, newest |-> me.newest, add |-> {}, del |-> {me.oldest + i - 1}, msg |-> None]]

OldestKept_trimmed(msg, kept, skip) == kept
\* The maps before a gap are not counted among those the OSD has.
OldestKept(msg, kept, skip) == IF skip THEN msg.first ELSE kept

\* handle_osd_map stores the maps start..last of msg.  A map that does not have
\* the expected checksum is bad: it and the maps after it are asked for in full.
Store(msg, start, last, skip) ==
  LET bad == last < msg.last
      got == sub_got(got_full_map(me, start, last), last)
      asked == IF bad THEN request_full_map(got, last + 1, msg.last) ELSE got
      again == msg.full /\ asked.first # 0
  IN  \E lower \in 1..me.osdmap :
      LET kept == trim_maps(msg.oldest, lower)
          oldest == OldestKept(msg, kept, skip)
      IN  /\ mon' = [mon EXCEPT !.full = @ \cup (IF bad THEN Requested(got, last + 1, msg.last) ELSE {})
                                           \cup (IF again THEN {<<asked.first, asked.last>>} ELSE {})]
          /\ IF last <= me.newest THEN me' = asked /\ txq' = txq
             ELSE /\ me' = [asked EXCEPT !.newest = last, !.oldest = oldest]
                  /\ txq' = txq \o Trims(kept)
                       \o <<[oldest |-> oldest, newest |-> last, add |-> start..last, del |-> {},
                             msg |-> [msg EXCEPT !.first = start, !.last = last]]>>

handle_osd_map(msg) ==
  LET next == me.newest + 1
      skip == msg.first > next
      start == Max({next, msg.first})
  IN
  /\ job = NoJob /\ net' = net \ {msg} /\ me.state # "STOPPING"
  /\ \/ /\ msg.last < next
        /\ UNCHANGED <<me, mon, txq, left>>
     \/ /\ msg.last >= next /\ skip /\ msg.oldest <= next
        /\ me' = osdmap_subscribe(me, next) /\ UNCHANGED <<mon, txq, left>>
     \/ /\ msg.last >= next /\ skip /\ msg.oldest > next /\ msg.oldest < msg.first
        /\ me' = [osdmap_subscribe(me, msg.oldest - 1) EXCEPT !.asked = msg.oldest - 1]
        /\ UNCHANGED <<mon, txq, left>>
     \/ /\ msg.last >= next /\ (skip => msg.oldest >= msg.first)
        /\ Store(msg, start, msg.last, skip) /\ UNCHANGED left
     \/ /\ msg.last >= next /\ ~skip /\ ~msg.full /\ left.crc > 0
        /\ left' = [left EXCEPT !.crc = @ - 1]
        /\ \E bad \in start..msg.last : Store(msg, start, bad - 1, skip)
  /\ UNCHANGED <<proc, hb, fail, job, beat, stray, disk, stop, safetimer>>

\* The object store commits its oldest transaction.
StoreCommits ==
  /\ txq # <<>>
  /\ LET t == Head(txq)
     IN  /\ disk' = [oldest |-> t.oldest, newest |-> t.newest,
                     maps |-> (disk.maps \ t.del) \cup t.add]
         /\ IF t.msg = None \/ me.state = "STOPPING" THEN job' = job
            ELSE /\ job = NoJob
                 /\ job' = [pc |-> "commit", cur |-> t.msg.first, msg |-> t.msg, restart |-> FALSE]
  /\ txq' = Tail(txq)
  /\ UNCHANGED <<mon, net, proc, me, hb, fail, beat, stray, stop, safetimer, left>>

-----------------------------------------------------------------------------
(* _committed_osd_maps takes the maps into use, one epoch after the other. *)

\* pre_publish_map: from here on no connection to an OSD is opened that the
\* next map does not have.
pre_publish_map ==
  /\ job.pc = "commit" /\ job.cur <= job.msg.last /\ me.next < job.cur
  /\ me' = [me EXCEPT !.next = job.cur]
  /\ UNCHANGED <<mon, net, proc, hb, fail, job, beat, stray, txq, disk, stop, safetimer, left>>

\* note_down_osd, for each OSD that was up and is not any more.
note_down_osd(downs) ==
  /\ hb' = [p \in Peer |-> IF p \in downs THEN None ELSE hb[p]]
  /\ fail' = [queue |-> fail.queue \ downs,
              pending |-> [p \in Peer |-> IF p \in downs THEN 0 ELSE fail.pending[p]]]
  /\ stray' = Removed(hb')

\* The map has this OSD up with the address of its client messenger.
SameClient(e) == Inst(e, whoami) \in me.client..me.addr

AdvanceMap ==
  /\ job.pc = "commit" /\ job.cur <= job.msg.last /\ me.next = job.cur /\ hbFree
  /\ note_down_osd(Up(me.osdmap) \ Up(job.cur))
  /\ me' = [me EXCEPT !.osdmap = job.cur,
                      !.up = IF @ = 0 /\ SameClient(job.cur) THEN job.cur ELSE @]
  /\ job' = [job EXCEPT !.cur = @ + 1,
                        !.restart = @ \/ (me.state = "BOOTING" /\ noup(me.osdmap) # noup(job.cur))]
  /\ UNCHANGED <<mon, net, proc, beat, txq, disk, stop, safetimer, left>>

\* What the last map says about the OSD: it has booted; it is not in the map;
\* it stops, as it asked for; it was wrongly marked down, and takes another
\* address, but for its client messenger.
Booted(m) ==
  IF m.state = "BOOTING" /\ SameClient(m.osdmap) /\ m.bind < UpFrom(m.osdmap, whoami)
  THEN [m EXCEPT !.state = "ACTIVE"] ELSE m
Gone(m) == m.state = "ACTIVE" /\ Inst(m.osdmap, whoami) = -1
StopAcked(m) == m.state = "ACTIVE" /\ Inst(m.osdmap, whoami) = 0 /\ stop \in {"preparing", "stopping"}
WronglyDown_address(m) ==
  /\ m.state = "ACTIVE" /\ Inst(m.osdmap, whoami) \notin {-1, 0, m.addr} /\ stop # "stopping"
WronglyDown(m) ==
  /\ m.state = "ACTIVE" /\ Inst(m.osdmap, whoami) \notin {-1, m.addr}
  /\ ~StopAcked(m) /\ stop # "stopping"
Rebound(m) ==
  [start_waiting_for_healthy(m) EXCEPT !.up = 0, !.bind = m.osdmap, !.addr = @ + 1]

\* rebind may fail; the OSD then shuts down, as it does when the map does not
\* have it, and takes back its reports.  It shuts down, too, when it was marked
\* down more than osd_max_markdown_count times in a while.
CommitEnds ==
  LET b == Booted(me)
      wrongly == WronglyDown(b)
      acted == IF wrongly THEN Rebound(b) ELSE b
      cleared == IF wrongly THEN reset_heartbeat_peers ELSE hb
      live == acted.state \in {"ACTIVE", "WAITING"}
      published == [Resampled(acted) EXCEPT !.pub = acted.osdmap, !.need = IF live THEN FALSE ELSE @]
  IN
  /\ job.pc = "commit" /\ job.cur > job.msg.last /\ hbFree
  /\ \E pg \in SUBSET Peer, unbound, often \in BOOLEAN :
       /\ (acted.state = "ACTIVE" /\ acted.need) \/ pg = {}
       /\ unbound \/ often => (wrongly /\ left.rebind > 0)
       /\ left' = IF unbound \/ often THEN [left EXCEPT !.rebind = @ - 1] ELSE left
       /\ hb' = IF live THEN maybe_update_heartbeat_peers(acted, cleared, pg) ELSE cleared
       /\ stray' = Removed(hb')
       /\ LET f == IF wrongly \/ (live /\ Resets(acted)) THEN [fail EXCEPT !.queue = {}] ELSE fail
              down == Gone(b) \/ unbound \/ often
          IN
          \/ /\ job.msg.newest > job.msg.last
             /\ me' = osdmap_subscribe(published, published.osdmap + 1)
             /\ UNCHANGED mon /\ fail' = f /\ stop' = IF StopAcked(b) THEN "stopping" ELSE stop
          \/ /\ job.msg.newest = job.msg.last /\ down
             /\ me' = published
             /\ fail' = IF unbound THEN [f EXCEPT !.pending = [p \in Peer |-> 0]] ELSE f
             /\ mon' = IF unbound
                       THEN [mon EXCEPT !.reports = [p \in Peer |-> send_still_alive(@[p], f.pending[p])]]
                       ELSE mon
             /\ stop' = IF stop = "no" THEN "signalled" ELSE stop
          \/ /\ job.msg.newest = job.msg.last /\ ~down
             /\ me' = IF published.state = "PREBOOT" /\ job.msg.mon
                      THEN _preboot(published, job.msg.oldest, job.msg.newest)
                      ELSE IF published.state = "PREBOOT" \/ wrongly \/ job.restart
                      THEN start_boot(published, hb') ELSE published
             /\ mon' = IF published.state = "PREBOOT" /\ job.msg.mon THEN AfterPreboot(me')
                       ELSE IF published.state = "PREBOOT" \/ wrongly \/ job.restart
                       THEN AfterStart(me') ELSE mon
             /\ fail' = f /\ stop' = IF StopAcked(b) THEN "stopping" ELSE stop
  /\ job' = NoJob
  /\ UNCHANGED <<net, proc, beat, txq, disk, safetimer>>

-----------------------------------------------------------------------------
(* Shutdown and crash of the OSD. *)

SignalArrives ==
  /\ stop = "no" /\ left.stop > 0
  /\ stop' = "signalled" /\ left' = [left EXCEPT !.stop = @ - 1]
  /\ UNCHANGED <<mon, net, proc, me, hb, fail, job, beat, stray, txq, disk, safetimer>>

\* prepare_to_stop, without osd_lock: an OSD that is up asks to be marked down
\* and waits for that, or for osd_mon_shutdown_timeout.
prepare_to_stop ==
  /\ stop = "signalled"
  /\ IF isUp(me.pub, whoami)
     THEN stop' = "preparing" /\ mon' = [mon EXCEPT !.markdown = TRUE]
     ELSE stop' = "stopping" /\ mon' = mon
  /\ UNCHANGED <<net, proc, me, hb, fail, job, beat, stray, txq, disk, safetimer, left>>

ShutdownTimesOut ==
  /\ stop = "preparing" /\ stop' = "stopping"
  /\ UNCHANGED <<mon, net, proc, me, hb, fail, job, beat, stray, txq, disk, safetimer, left>>

\* shutdown, to the join of the heartbeat thread, and to its end.
shutdown ==
  /\ \/ /\ stop = "stopping" /\ job = NoJob
        /\ stop' = "join" /\ me' = [me EXCEPT !.state = "STOPPING"] /\ UNCHANGED <<hb, fail, disk>>
     \/ /\ stop = "join" /\ beat = "gone" /\ job = NoJob /\ txq = <<>>
        /\ stop' = "done" /\ me' = me
        /\ hb' = reset_heartbeat_peers /\ fail' = [fail EXCEPT !.queue = {}]
        /\ disk' = [disk EXCEPT !.oldest = me.oldest, !.newest = me.newest]
  /\ UNCHANGED <<mon, net, proc, job, beat, stray, txq, safetimer, left>>

\* The process crashes and starts again: init takes up the map of the superblock
\* on disk, and boots with another address.  The reports of the process
\* that died are not followed.
init ==
  /\ left.crash > 0 /\ left' = [left EXCEPT !.crash = @ - 1]
  /\ stop = "no"
  /\ me' = Started(disk.oldest, disk.newest, me.addr + 1)
  /\ hb' = reset_heartbeat_peers
  /\ fail' = [queue |-> {}, pending |-> [p \in Peer |-> 0]]
  /\ mon' = [mon EXCEPT !.boot = NoBoot, !.version = TRUE, !.full = {}, !.reports = [p \in Peer |-> 0]]
  /\ net' = ObjecterMap(disk.newest) /\ txq' = <<>> /\ job' = NoJob /\ beat' = "update" /\ stray' = {}
  /\ UNCHANGED <<proc, disk, stop, safetimer>>

-----------------------------------------------------------------------------
(* The environment: the monitor, the other OSDs, time and SafeTimer. *)

NewMap(inst, flag) == Append(mon.maps, [inst |-> inst, noup |-> flag])
top == mon.maps[newestMap]

\* The monitor serves the subscription, and the requests for full maps.
MonSends ==
  /\ me.asked # 0 /\ me.asked <= newestMap /\ me' = [me EXCEPT !.asked = 0]
  /\ net' = net \cup {MapMsg(Max({me.asked, mon.oldest}), newestMap, me.asked < mon.oldest, TRUE)}
  /\ UNCHANGED <<mon, proc, hb, fail, job, beat, stray, txq, disk, stop, safetimer, left>>

MonSendsFull ==
  \E r \in mon.full :
    /\ mon' = [mon EXCEPT !.full = @ \ {r}]
    /\ net' = IF r[1] < mon.oldest THEN net
              ELSE net \cup {[MapMsg(r[1], newestMap, TRUE, TRUE) EXCEPT !.last = r[2]]}
    /\ UNCHANGED <<proc, me, hb, fail, job, beat, stray, txq, disk, stop, safetimer, left>>

\* A boot message is ignored while the flag is set, and when it is older than the
\* last start of the same process; otherwise a new map has the OSD up, or, if
\* it is so already, the OSD gets the maps that it does not have.
MonBoots ==
  LET addr == mon.boot.addr
      old == \E k \in (mon.boot.epoch + 1)..newestMap :
               Inst(k, whoami) = addr /\ UpFrom(k, whoami) = k
      maps == IF top.noup \/ old THEN mon.maps
              ELSE NewMap([top.inst EXCEPT ![whoami] = addr], FALSE)
  IN
  /\ addr # 0
  /\ mon' = [mon EXCEPT !.boot = NoBoot, !.maps = maps]
  /\ net' = IF maps[Len(maps)].inst[whoami] = addr /\ me.newest < Len(maps)
            THEN net \cup {MapMsg(Max({me.newest + 1, mon.oldest}), Len(maps),
                                  me.newest + 1 < mon.oldest, TRUE)}
            ELSE net
  /\ UNCHANGED <<proc, me, hb, fail, job, beat, stray, txq, disk, stop, safetimer, left>>

\* The OSD asked to be marked down; MOSDMarkMeDown comes back.
MonMarksMeDown ==
  /\ mon.markdown
  /\ mon' = [mon EXCEPT !.markdown = FALSE,
               !.maps = IF top.inst[whoami] > 0 THEN NewMap([top.inst EXCEPT ![whoami] = 0], top.noup) ELSE @]
  /\ stop' = IF stop = "preparing" THEN "stopping" ELSE stop
  /\ UNCHANGED <<net, proc, me, hb, fail, job, beat, stray, txq, disk, safetimer, left>>

\* Enough reports about an OSD: it is marked down.
MonFails(p) ==
  /\ mon.reports[p] # 0
  /\ mon' = [mon EXCEPT !.reports[p] = 0,
               !.maps = IF top.inst[p] = mon.reports[p]
                        THEN NewMap([top.inst EXCEPT ![p] = 0], top.noup) ELSE @]
  /\ UNCHANGED <<net, proc, me, hb, fail, job, beat, stray, txq, disk, stop, safetimer, left>>

\* This OSD is marked down or removed, whatever it is doing.
MonMarksDown ==
  /\ top.inst[whoami] > 0
  /\ \E i \in {0, -1} :
       /\ IF i = 0 THEN left.mark > 0 /\ left' = [left EXCEPT !.mark = @ - 1]
          ELSE left.remove > 0 /\ left' = [left EXCEPT !.remove = @ - 1]
       /\ mon' = [mon EXCEPT !.maps = NewMap([top.inst EXCEPT ![whoami] = i], top.noup)]
  /\ UNCHANGED <<net, proc, me, hb, fail, job, beat, stray, txq, disk, stop, safetimer>>

\* Another OSD is marked down for other reasons, or boots with another address.
MonChanges ==
  /\ left.churn > 0 /\ left' = [left EXCEPT !.churn = @ - 1]
  /\ \E p \in Peer :
       \/ /\ top.inst[p] > 0 /\ proc' = proc
          /\ mon' = [mon EXCEPT !.maps = NewMap([top.inst EXCEPT ![p] = 0], top.noup)]
       \/ /\ top.inst[p] = 0 /\ ~top.noup
          /\ \E i \in 1..4 :
               /\ \A e \in 1..newestMap : Inst(e, p) < i
               /\ \A j \in 1..(i - 1) : \E e \in 1..newestMap : Inst(e, p) = j
               /\ proc' = [proc EXCEPT ![p] = i]
               /\ mon' = [mon EXCEPT !.maps = NewMap([top.inst EXCEPT ![p] = i], top.noup)]
  /\ UNCHANGED <<net, me, hb, fail, job, beat, stray, txq, disk, stop, safetimer>>

\* The flag noup is set or cleared.
MonFlags ==
  /\ left.noup > 0 /\ left' = [left EXCEPT !.noup = @ - 1]
  /\ mon' = [mon EXCEPT !.maps = NewMap(top.inst, ~top.noup)]
  /\ UNCHANGED <<net, proc, me, hb, fail, job, beat, stray, txq, disk, stop, safetimer>>

\* The monitor forgets its older maps.
MonTrims ==
  /\ left.trim > 0 /\ left' = [left EXCEPT !.trim = @ - 1]
  /\ mon.oldest < newestMap /\ mon' = [mon EXCEPT !.oldest = newestMap]
  /\ UNCHANGED <<net, proc, me, hb, fail, job, beat, stray, txq, disk, stop, safetimer>>

\* Another OSD shares the maps that this one does not have, or its newest only.
PeerShares ==
  /\ me.newest < newestMap /\ net = {} /\ \E p \in Peer : proc[p] # 0
  /\ \E first \in {Max({me.newest + 1, mon.oldest}), newestMap} :
       net' = {MapMsg(first, newestMap, first # me.newest + 1, FALSE)}
  /\ UNCHANGED <<mon, proc, me, hb, fail, job, beat, stray, txq, disk, stop, safetimer, left>>

PeerDies(p) ==
  /\ left.die > 0 /\ left' = [left EXCEPT !.die = @ - 1]
  /\ proc[p] # 0 /\ proc' = [proc EXCEPT ![p] = 0]
  /\ UNCHANGED <<mon, net, me, hb, fail, job, beat, stray, txq, disk, stop, safetimer>>

\* The grace period passes for all stamps there are.
Aged(x) == IF x = "fresh" THEN "stale" ELSE x
GracePasses ==
  /\ left.age > 0 /\ left' = [left EXCEPT !.age = @ - 1]
  /\ hb' = [p \in Peer |-> IF hb[p] = None THEN None
             ELSE [hb[p] EXCEPT !.first = Aged(@), !.pinged = [c \in Chan |-> {Aged(x) : x \in @[c]}],
                                !.rx = [c \in Chan |-> Aged(@[c])]]]
  /\ me' = [me EXCEPT !.resample = Aged(@)]
  /\ UNCHANGED <<mon, net, proc, fail, job, beat, stray, txq, disk, stop, safetimer>>

SafeTimerStops ==
  /\ left.safetimer > 0 /\ left' = [left EXCEPT !.safetimer = @ - 1]
  /\ safetimer /\ safetimer' = FALSE
  /\ UNCHANGED <<mon, net, proc, me, hb, fail, job, beat, stray, txq, disk, stop>>

\* Nothing more happens but the sleep of the heartbeat thread and the ticks.
Quiet == UNCHANGED vars

Dispatch == _got_mon_epochs \/ \E m \in net : handle_osd_map(m)
Osd ==
  \/ Dispatch \/ you_died \/ need_heartbeat_peer_update \/ ms_handle_connect
  \/ \E p \in Peer : PingReply(p) \/ StrayReply(p) \/ heartbeat_reset(p)
  \/ tick_without_osd_lock
  \/ SignalArrives \/ init
HeartbeatThread == heartbeat_entry \/ st_update \/ heartbeat \/ HeartbeatEnds
Tick == TickBegins \/ TickEnds
Commit == StoreCommits \/ pre_publish_map \/ AdvanceMap \/ CommitEnds
Shutdown == prepare_to_stop \/ ShutdownTimesOut \/ shutdown
Monitor == MonSends \/ MonSendsFull \/ MonBoots \/ MonMarksMeDown
Environment ==
  \/ MonMarksDown \/ MonChanges \/ MonFlags \/ MonTrims \/ PeerShares \/ GracePasses \/ SafeTimerStops
  \/ \E p \in Peer : PeerDies(p) \/ MonFails(p)

Next ==
  \/ stop # "done" /\ (Osd \/ HeartbeatThread \/ Tick \/ Commit \/ Shutdown \/ Monitor \/ Environment)
  \/ Quiet

(* Fairness: the threads run, and who waits for osd_lock or heartbeat_lock *)
(* gets it, since ticks and heartbeats come half a second apart at least;  *)
(* the monitor and the peers that live answer.                             *)
Fairness ==
  /\ SF_vars(HeartbeatThread) /\ SF_vars(Tick) /\ SF_vars(tick_without_osd_lock)
  /\ SF_vars(Commit) /\ SF_vars(Dispatch) /\ SF_vars(Shutdown)
  /\ SF_vars(\E p \in Peer : PingReply(p))
  /\ WF_vars(Monitor) /\ WF_vars(PeerShares)

Spec == Init /\ [][Next]_vars /\ Fairness

-----------------------------------------------------------------------------
(* The variables have their types; epochs are in the order in which a map  *)
(* passes through the OSD (the next map of pre_publish_map, the map in use *)
(* and the published one, the superblock), and a peer of heartbeat_peers   *)
(* has a connection.                                                       *)
TypeOK ==
  /\ me.state \in {"PREBOOT", "BOOTING", "ACTIVE", "WAITING", "STOPPING"}
  /\ me.pub <= me.osdmap /\ me.osdmap <= me.next /\ me.next <= me.newest
  /\ me.newest <= newestMap /\ me.oldest <= me.newest /\ disk.newest <= newestMap
  /\ \A p \in Peer : hb[p] # None =>
       /\ hb[p].first \in Stamp /\ hb[p].con > 0 /\ hb[p].epoch \in 1..newestMap
       /\ \A c \in Chan : hb[p].rx[c] \in Stamp /\ hb[p].pinged[c] \subseteq {"fresh", "stale"}
  /\ fail.queue \subseteq Peer /\ DOMAIN fail.pending = Peer
  /\ beat \in {"update", "sleep", "send", "check", "gone"} /\ stray \subseteq Peer
  /\ job.pc \in {"free", "tick", "commit"}
  /\ stop \in {"no", "signalled", "preparing", "stopping", "join", "done"}

(* An OSD in failure_queue or failure_pending is up in the map in use:     *)
(* send_failures and send_still_alive take its address from the map, and   *)
(* OSDMap::get_inst asserts that it is up.  The maps change, the peers     *)
(* are sampled anew and reports are requeued in between.                   *)
FailuresUp == \A p \in Peer : p \in fail.queue \/ fail.pending[p] # 0 => isUp(me.osdmap, p)

(* No failure of a peer that answers is reported or about to be: the reply *)
(* that makes a peer healthy takes it out of failure_queue and            *)
(* failure_pending under heartbeat_lock.                                   *)
QueuedUnhealthy ==
  \A p \in Peers(hb) : p \in fail.queue \/ fail.pending[p] # 0 => ~is_healthy(hb[p])

(* What the monitor has been told of the present process of a peer is      *)
(* remembered in failure_pending, so that it can be taken back when the    *)
(* peer answers; this over reconnects, new maps and rebinds.               *)
ReportsRemembered ==
  \A p \in Peer : mon.reports[p] # 0 /\ mon.reports[p] = Inst(me.osdmap, p) =>
    fail.pending[p] = mon.reports[p]

(* An active OSD is up in its map under its own address, and since after   *)
(* the epoch at which it bound that address (_committed_osd_maps).         *)
ActiveIsUp ==
  me.state = "ACTIVE" /\ job.pc # "commit" /\ stop = "no" =>
    Inst(me.osdmap, whoami) = me.addr /\ me.bind < UpFrom(me.osdmap, whoami)

(* The up_epoch that the PGs of an active OSD use, to drop messages "from  *)
(* pre-up epoch", is an epoch in which it is up under its present address, *)
(* also after it was wrongly marked down and has bound another one, and    *)
(* not later than the one from which its map has it up, unless the OSD     *)
(* never got the map of that one.                                          *)
UpEpochCurrent ==
  me.state = "ACTIVE" /\ job.pc # "commit" /\ Inst(me.osdmap, whoami) = me.addr =>
    /\ me.up \in (me.bind + 1)..me.osdmap /\ Inst(me.up, whoami) = me.addr
    /\ me.up <= UpFrom(me.osdmap, whoami) \/ UpFrom(me.osdmap, whoami) < me.oldest

(* It is the epoch from which the map has it up.  Not so if the monitor    *)
(* marks it down while it boots: _committed_osd_maps clears up_epoch only  *)
(* for an OSD that is active.                                              *)
UpEpochIsUpFrom ==
  me.state = "ACTIVE" /\ job.pc # "commit" /\ Inst(me.osdmap, whoami) = me.addr =>
    me.up = UpFrom(me.osdmap, whoami)

(* Every map between oldest_map and newest_map of the superblock on disk   *)
(* is on disk, whenever the process crashes: init and the PGs read them.   *)
DiskWhole == disk.oldest..disk.newest \subseteq disk.maps

(* While full maps are asked for, they are those after the last stored     *)
(* one, so the assertion of request_full_map holds and no gap is left.     *)
FullWanted == me.first # 0 => me.first = me.newest + 1

Calm == safetimer /\ ~top.noup /\ \A p \in Peer : proc[p] = top.inst[p]
(* When SafeTimer answers, the flag noup is not set and the map tells the  *)
(* truth about the peers from some time on, the OSD becomes active for     *)
(* good, or stops, or it has sent its boot message, the monitor has had it *)
(* up, and it only waits for a map.                                        *)
Boots ==
  <>[]Calm => <>[](\/ me.state \in {"ACTIVE", "STOPPING"}
                   \/ me.state = "BOOTING" /\ \E e \in 1..newestMap : Inst(e, whoami) = me.addr)

(* It waits for a map in which it is up.  Not so if the monitor marks it   *)
(* down while it boots: it sends its boot message again only when it       *)
(* connects again or the flag noup changes.                                *)
BootsAgain ==
  <>[]Calm => <>[](\/ me.state \in {"ACTIVE", "STOPPING"}
                   \/ me.state = "BOOTING" /\ top.inst[whoami] = me.addr)

(* A heartbeat peer that died and is late is reported to the monitor,      *)
(* unless a new map settles the matter, the peer is dropped, the OSD is    *)
(* no longer active or SafeTimer does not answer any more.                 *)
FailureReported ==
  \A p \in Peer :
    (me.state = "ACTIVE" /\ hb[p] # None /\ proc[p] # Inst(me.osdmap, p) /\ is_unhealthy(hb[p])) ~>
      \/ fail.pending[p] # 0 \/ top.inst[p] # Inst(me.osdmap, p) \/ hb[p] = None
      \/ me.state # "ACTIVE" \/ ~safetimer

(* A shutdown that was begun ends, the join of the heartbeat thread        *)
(* included, unless a SafeTimer service does not answer: the receives of   *)
(* st_send_hb, st_update and st_get_valid have no timeout.                 *)
ShutdownEnds == stop # "no" ~> stop = "done" \/ ~safetimer

(* What the OSD has told the monitor, or is about to tell it, about a peer *)
(* (failure_queue, failure_pending) is about a peer that is up, that has   *)
(* not answered since, and can be taken back.                              *)
ReportsRight == FailuresUp /\ QueuedUnhealthy /\ ReportsRemembered

(* The OSD is well formed and agrees with its map about itself             *)
(* (_committed_osd_maps): up, under its address, since its up_epoch.       *)
SelfRight == TypeOK /\ ActiveIsUp /\ UpEpochCurrent

(* The maps have no gap (handle_osd_map): neither the stored ones, after a *)
(* crash at any point, nor those that are still wanted.                    *)
MapsWhole == DiskWhole /\ FullWanted
=============================================================================
