------------------------------ MODULE SampleHb ------------------------------
(***************************************************************************)
(* The sample heartbeat application (sample_hb): senders that send one     *)
(* heartbeat in every epoch, and a receiver with two threads.  hb_server   *)
(* handles heartbeats: it moves the node from the list of the heartbeat's  *)
(* epoch to the list of the next one.  expire_checker looks, at the end of *)
(* every epoch, at the nodes that are still in its list: it asks SafeTimer *)
(* about each and moves it to the next list.  Both work under one lock.    *)
(* The senders' machines may run the first kernel tracker (HbTracker).     *)
(*                                                                         *)
(* The machines' clocks agree.  UDP loses messages; those of one sender    *)
(* arrive in order.                                                        *)
(***************************************************************************)
EXTENDS HbTracker, FiniteSets

CONSTANTS
  Delay,         \* longest time from stamping a heartbeat to its arrival
  MaxEpoch,      \* last epoch of the behaviours considered
  CheckerStalls, \* whether the clock may move between the checker's two readings
  Tracked        \* nodes that run the kernel tracker

Epoch == 1 .. MaxEpoch
MaxTime == BaseTime + MaxEpoch * Interval

ASSUME SampleAssumption ==
  /\ Delay \in Nat \ {0} /\ MaxEpoch \in Nat \ {0}
  /\ CheckerStalls \in BOOLEAN /\ Tracked \subseteq Node

VARIABLES
  sender,    \* per node: "off", "request", "epoch", "sleep", "send"
  wake,      \* per node: end of its sleep, in "send" the time at which it has ended
  net,       \* per node: messages on their way to the receiver
  replied,   \* nodes whose reply with the base time is on its way
  counted,   \* history, per node: last epoch that the tracker has counted
  completing,\* per node: messages the NIC has sent but not completed
  list,      \* epoch_list_ht: partial function from epochs to sets of nodes
  checker,   \* "read", "sleep", "check" or "loop"
  epoch_to_check,
  handled,   \* history: <<node, epoch>> of the heartbeats handled
  missed,    \* history: <<node, epoch>>, no heartbeat for epoch when it was checked
  asked      \* history: <<node, epoch>> of the requests to SafeTimer

senderVars == <<sender, wake, net, replied, completing, counted>>
receiverVars == <<list, checker, epoch_to_check, handled, missed, asked>>
vars == <<now, trackerVars, senderVars, receiverVars>>

Request == 0  \* a message is Request or the epoch of a heartbeat

Init ==
  /\ TrackerInit /\ now = BaseTime
  /\ sender = [n \in Node |-> "off"] /\ wake = [n \in Node |-> 0]
  /\ net = [n \in Node |-> <<>>] /\ replied = {}
  /\ completing = [n \in Node |-> <<>>] /\ counted = [n \in Node |-> 0]
  /\ list = <<>> /\ checker = "read" /\ epoch_to_check = 0
  /\ handled = {} /\ missed = {} /\ asked = {}

-----------------------------------------------------------------------------
(* sender.c *)

\* init_sender sends its request and waits for the base time; if either message
\* is lost it waits for ever.
init_sender(n) ==
  /\ sender[n] = "off"
  /\ sender' = [sender EXCEPT ![n] = "request"]
  /\ net' = [net EXCEPT ![n] = Append(@, [epoch |-> Request, sent |-> now])]
  /\ UNCHANGED <<now, trackerVars, wake, replied, completing, counted, receiverVars>>

ReplyReceived(n) ==
  /\ sender[n] = "request" /\ n \in replied
  /\ sender' = [sender EXCEPT ![n] = "epoch"]
  /\ replied' = replied \ {n}
  /\ UNCHANGED <<now, trackerVars, wake, net, completing, counted, receiverVars>>

\* run_hb_loop: the end of the current epoch is computed, and awaited.
LoopBegins(n) ==
  /\ sender[n] = "epoch"
  /\ sender' = [sender EXCEPT ![n] = "sleep"]
  /\ wake' = [wake EXCEPT ![n] = epoch_to_time(time_to_epoch(now))]
  /\ UNCHANGED <<now, trackerVars, net, replied, completing, counted, receiverVars>>

LoopWakes(n) ==
  /\ sender[n] = "sleep" /\ now >= wake[n]
  /\ sender' = [sender EXCEPT ![n] = "send"]
  /\ wake' = [wake EXCEPT ![n] = now]
  /\ UNCHANGED <<now, trackerVars, net, replied, completing, counted, receiverVars>>

\* sendto: the tracker's hook drops the heartbeat, or it goes out.
SendHeartbeat(n) ==
  /\ sender[n] = "send"
  /\ sender' = [sender EXCEPT ![n] = "epoch"]
  /\ LET sending_epoch == time_to_epoch(wake[n])
     IN  IF block_send(n) THEN UNCHANGED <<net, completing>>
         ELSE /\ net' = [net EXCEPT ![n] = Append(@, [epoch |-> sending_epoch, sent |-> wake[n]])]
              /\ completing' = IF n \in Tracked
                                 THEN [completing EXCEPT ![n] = Append(@, sending_epoch)]
                                 ELSE completing
  /\ UNCHANGED <<now, trackerVars, wake, replied, counted, receiverVars>>

\* destroy_sender, or the machine goes down.
destroy_sender(n) ==
  /\ sender[n] \in {"request", "epoch", "sleep", "send"}
  /\ sender' = [sender EXCEPT ![n] = "stopped"]
  /\ UNCHANGED <<now, trackerVars, wake, net, replied, completing, counted, receiverVars>>

\* The probe of the tracker sees the completion of a heartbeat.
entry_handler(n) ==
  /\ completing[n] # <<>>
  /\ completing' = [completing EXCEPT ![n] = Tail(@)]
  /\ sent_epoch' = [sent_epoch EXCEPT ![n] = sentEpochAfter(n, Head(completing[n]))]
  /\ counted' = [counted EXCEPT ![n] = IF prepared(n) /\ is_send_hb_timeout(n) <= 0
                                          THEN Head(completing[n]) ELSE @]
  /\ UNCHANGED <<now, base_time, timeout_interval, prev_sent_epoch, clearing,
                 sender, wake, net, replied, receiverVars>>

\* The tracker is told of the application before its first heartbeat, the
\* epoch last, and cleared when the application has stopped.
Prepare(n) ==
  /\ n \in Tracked
  /\ \/ /\ sender[n] = "epoch" /\ wake[n] = 0
        /\ \/ base_time[n] = 0 /\ base_time_write(n)
           \/ base_time[n] > 0 /\ timeout_interval[n] = 0 /\ timeout_interval_write(n)
           \/ prepared(n) /\ sent_epoch[n] = 0 /\ sent_epoch_write(n, time_to_epoch(now))
     \/ sender[n] = "stopped" /\ prepared(n) /\ (ClearReads(n) \/ set_to_zero(n))
  /\ UNCHANGED <<now, senderVars, receiverVars>>

-----------------------------------------------------------------------------
(* receiver.c *)

\* The lists after a heartbeat of n for epoch e.
touch(l, n, e) ==
  [x \in DOMAIN l \cup {e + 1} |->
     ((IF x \in DOMAIN l THEN l[x] ELSE {}) \ (IF x = e THEN {n} ELSE {}))
       \cup (IF x = e + 1 THEN {n} ELSE {})]

\* Mutant: the nodes of the list are dropped with it.
expireDropping(l, e) == [x \in DOMAIN l \ {e} |-> l[x]]

\* The lists after the check of epoch e: its nodes move on, as
\* st_check_timeout sends the request but never reports a timeout.
expire(l, e) ==
  IF e \notin DOMAIN l THEN l
  ELSE LET next == IF l[e] = {} THEN {} ELSE {e + 1}
       IN  [x \in (DOMAIN l \ {e}) \cup next |->
              (IF x \in DOMAIN l THEN l[x] ELSE {}) \cup (IF x = e + 1 THEN l[e] ELSE {})]

\* hb_server receives a message: a request is answered, a heartbeat handled
\* under the lock.
hb_server(n) ==
  /\ net[n] # <<>>
  /\ net' = [net EXCEPT ![n] = Tail(@)]
  /\ LET e == Head(net[n]).epoch
     IN  IF e = Request
           THEN replied' = replied \cup {n} /\ UNCHANGED <<list, handled>>
           ELSE list' = touch(list, n, e) /\ handled' = handled \cup {<<n, e>>} /\ UNCHANGED replied
  /\ UNCHANGED <<now, trackerVars, sender, wake, completing, counted, checker, epoch_to_check, missed, asked>>

Lose(n) ==
  /\ net[n] # <<>>
  /\ net' = [net EXCEPT ![n] = Tail(@)]
  /\ UNCHANGED <<now, trackerVars, sender, wake, replied, completing, counted, receiverVars>>

\* expire_checker takes the epoch of the current time, and sleeps until its end.
CheckerReads ==
  /\ checker = "read" /\ checker' = "sleep"
  /\ epoch_to_check' = time_to_epoch(now)
  /\ UNCHANGED <<now, trackerVars, senderVars, list, handled, missed, asked>>

CheckerWakes ==
  /\ checker = "sleep" /\ now >= epoch_to_time(epoch_to_check)
  /\ checker' = "check"
  /\ UNCHANGED <<now, trackerVars, senderVars, list, epoch_to_check, handled, missed, asked>>

\* The whole check is made under the lock.
expiration_check_for_epoch ==
  /\ checker = "check" /\ checker' = "loop"
  /\ list' = expire(list, epoch_to_check)
  /\ asked' = asked \cup ((IF epoch_to_check \in DOMAIN list THEN list[epoch_to_check] ELSE {})
                           \X {epoch_to_check})
  /\ missed' = missed \cup {<<n, epoch_to_check>> : n \in
                  {m \in Node : /\ <<m, epoch_to_check>> \notin handled
                                /\ \E h \in handled : h[1] = m /\ h[2] < epoch_to_check}}
  /\ UNCHANGED <<now, trackerVars, senderVars, epoch_to_check, handled>>

\* The do-while loop catches up with the epochs that have ended meanwhile.
CheckerLoops ==
  /\ checker = "loop"
  /\ epoch_to_check' = epoch_to_check + 1
  /\ checker' = IF epoch_to_check + 1 < time_to_epoch(now) THEN "check" ELSE "read"
  /\ UNCHANGED <<now, trackerVars, senderVars, list, handled, missed, asked>>

-----------------------------------------------------------------------------

\* Time passes; no heartbeat is under way for longer than Delay.
Tick ==
  /\ now < MaxTime /\ now' = now + 1
  /\ \A n \in Node : /\ \A k \in DOMAIN net[n] : now < net[n][k].sent + Delay
                     /\ sender[n] = "send" => now < wake[n] + Delay
  /\ checker = "read" => CheckerStalls
  /\ UNCHANGED <<trackerVars, senderVars, receiverVars>>

Quiescent == now = MaxTime /\ UNCHANGED vars

Next ==
  \/ Tick \/ CheckerReads \/ CheckerWakes \/ expiration_check_for_epoch \/ CheckerLoops
  \/ \E n \in Node :
       \/ init_sender(n) \/ ReplyReceived(n) \/ LoopBegins(n) \/ LoopWakes(n) \/ SendHeartbeat(n)
       \/ destroy_sender(n) \/ entry_handler(n) \/ Prepare(n) \/ hb_server(n) \/ Lose(n)
  \/ Quiescent

Spec == Init /\ [][Next]_vars

-----------------------------------------------------------------------------
(* Properties. *)

TypeOK ==
  /\ now \in BaseTime .. MaxTime
  /\ \A n \in Node : sender[n] \in {"off", "request", "epoch", "sleep", "send", "stopped"}
  /\ DOMAIN list \subseteq 1 .. MaxEpoch + 2 /\ \A e \in DOMAIN list : list[e] \subseteq Node
  /\ checker \in {"read", "sleep", "check", "loop"}
  /\ epoch_to_check \in 0 .. MaxEpoch + 1

\* No node falls out of the lists: a node that has been heard before, and from
\* which no heartbeat for an epoch was handled when expire_checker came to it,
\* is asked about in that epoch, however the heartbeats, the losses and a checker
\* that is late in its inner loop interleave.  One that is late between the loops
\* (CheckerStalls) skips epochs.
SilentAsked == missed \subseteq asked

\* expire_checker asks SafeTimer only about a node that has missed an epoch: if
\* every heartbeat is handled in time there is no request.
AskedOnlyIfMissed ==
  \A a \in asked : \E m \in missed : m[1] = a[1] /\ m[2] <= a[2]

\* Lists do not pile up: every list of an epoch that has been checked is gone,
\* so that ht_remove keeps the table at the size of the epochs ahead.
ListsConsumed ==
  checker \in {"read", "sleep"} => \A e \in DOMAIN list : e >= epoch_to_check

\* No sender that is in time is silenced: the hook lets a heartbeat pass until
\* the epoch after the last one whose completion the probe has counted is
\* nearly over, although sent_epoch is only ever incremented, and against an
\* epoch that was written once.  That is one half of what the tracker is for.
\* The other, that a sender which is late is blocked, it does not reach: see
\* SentEpochSet.
FreshPasses ==
  \A n \in Tracked :
    /\ sender[n] = "send" /\ counted[n] > 0
    /\ now < epoch_to_time(counted[n] + 1) - max_clock_deviation
    => ~block_send(n)

\* "heartbeat sending completes and set sent_epoch as %ld" (kretprobe.c:109, with
\* the epoch of the heartbeat): sent_epoch is the epoch last counted.
SentEpochSet == \A n \in Tracked : sender[n] # "stopped" /\ counted[n] > 0 => sent_epoch[n] = counted[n]

\* "If sent_epoch = 0, return -1 to indicate not prepared" (kretprobe.c): the
\* hook lets heartbeats pass until the first epoch is known.
UnpreparedPasses == \A n \in Tracked : sent_epoch[n] = 0 => ~block_send(n)

\* The lists of epoch_list_ht do their work: they are well formed and do not
\* pile up, and expire_checker asks about the nodes that were silent and no others.
AskedIffMissed == TypeOK /\ ListsConsumed /\ SilentAsked /\ AskedOnlyIfMissed
=============================================================================
