---------------------------- MODULE SenderBlock ----------------------------
(***************************************************************************)
(* The sender side of SafeTimer: the thread of st_sender.c that serves     *)
(* requests, the kernel modules that drop heartbeats once st_valid_time    *)
(* has passed (st_netfilter), signal the end of a transmission (st_kprobe) *)
(* and hold st_valid_time (st_debugfs), and a client that asks for a       *)
(* heartbeat and then extends the valid time, in the order of HDFS's       *)
(* BPServiceActor and StSenderWrapper.                                     *)
(*                                                                         *)
(* The client speaks the format st_sender.c expects (three longs, port     *)
(* 5004); the wrapper in the repository still speaks an older one.  One    *)
(* peer is modelled: node_id only selects the socket.                      *)
(***************************************************************************)
EXTENDS Integers, Sequences, SequencesExt

CONSTANTS
  StartTime,    \* time when the client starts
  MaxTime,      \* bound: last time
  ValidSpan,    \* 30000 ms in BPServiceActor
  SendTimeout,  \* send_timeout there
  MaxTries,     \* bound: requests in one call of the wrapper
  RealOffset,   \* CLOCK_REALTIME minus CLOCK_MONOTONIC
  Namenode,     \* "answers" or "silent"
  Machine       \* "timely": requests and transmissions end before their timeout; "slow"

ASSUME TimesAssumption ==
  /\ StartTime \in Nat /\ MaxTime \in Nat /\ RealOffset \in Nat
  /\ ValidSpan \in Nat \ {0} /\ SendTimeout \in Nat \ {0}

VARIABLES
  now,                \* now_time(), also ktime_get_boottime()
  st_valid_time_str,  \* digits in the buffer of the debugfs file
  st_valid_time,
  tx,                 \* heartbeats in the transmit queue: the timeout of each
  sent_wait,          \* value of the semaphore
  server,             \* server_routine: "recv", "send", "wait" or "write"
  msg,                \* msg_buffer
  requests,           \* datagrams in the server's socket
  replies,            \* datagrams in the socket of the client's current call
  pc,                 \* the client
  call, tries,        \* its current call of the wrapper, and requests sent in it
  asked,              \* the request of the current call
  startTime, now_t,   \* its local variables
  written,            \* history: last argument of safetimer_update_valid_time
  alive               \* history: last time a heartbeat was transmitted or answered

kernelVars == <<st_valid_time_str, st_valid_time, tx>>
serverVars == <<server, msg, sent_wait, written>>
callVars == <<call, tries, asked>>
clientVars == <<pc, callVars, startTime, now_t>>
vars == <<now, kernelVars, serverVars, requests, replies, clientVars, alive>>

Request == [type : {0, 1}, time : Nat, call : Nat]
NoRequest == [type |-> 0, time |-> 0, call |-> 0]

Init ==
  /\ now = StartTime
  /\ st_valid_time_str = <<>> /\ st_valid_time = 0 /\ tx = <<>>
  /\ sent_wait = 0 /\ server = "recv" /\ msg = NoRequest
  /\ requests = <<>> /\ replies = <<>>
  /\ pc = "start" /\ call = 0 /\ tries = 0 /\ asked = NoRequest
  /\ startTime = 0 /\ now_t = 0
  /\ written = 0 /\ alive = 0

-----------------------------------------------------------------------------
(* Time. *)

toSend == {q \in ToSet(requests) : q.type = 0} \cup (IF server = "send" THEN {msg} ELSE {})
timeouts == {q.time : q \in toSend} \cup ToSet(tx)

\* On a timely machine a heartbeat that is asked for is handed to the kernel,
\* and one in the transmit queue is transmitted, before its timeout.
Tick ==
  /\ now < MaxTime
  /\ Machine = "timely" => \A t \in timeouts : now + 1 < t
  /\ now' = now + 1
  /\ UNCHANGED <<kernelVars, serverVars, requests, replies, clientVars, alive>>

-----------------------------------------------------------------------------
(* The kernel. *)

\* Digits of a number, as sprintf "%ld" writes them.
digits[n \in Nat] == IF n < 10 THEN <<n>> ELSE Append(digits[n \div 10], n % 10)

\* kstrtol of a buffer of digits.
kstrtol(s) == FoldLeft(LAMBDA a, d : 10 * a + d, 0, s)

\* simple_write_to_buffer at position 0: what the new text does not cover
\* keeps its old digits.
overlay(old, new) == new \o SubSeq(old, Len(new) + 1, Len(old))

\* Mutant: only an expired time that is also old enough blocks.
acceptsLate == st_valid_time = 0 \/ now <= st_valid_time + 1

\* hook_func of st_netfilter, for a heartbeat.
accepts == st_valid_time = 0 \/ now <= st_valid_time

\* A heartbeat has been transmitted: handler_pre signals the process, whose
\* handler posts the semaphore.
handler_pre ==
  /\ tx # <<>>
  /\ tx' = Tail(tx)
  /\ sent_wait' = sent_wait + 1
  /\ alive' = now
  /\ UNCHANGED <<now, st_valid_time_str, st_valid_time, server, msg, written, requests, replies,
                 clientVars>>

-----------------------------------------------------------------------------
(* The server thread. *)

ServerReceives ==
  /\ server = "recv" /\ requests # <<>>
  /\ msg' = Head(requests) /\ requests' = Tail(requests)
  /\ server' = IF msg'.type = 0 THEN "send" ELSE "write"
  /\ UNCHANGED <<now, kernelVars, sent_wait, written, replies, clientVars, alive>>

\* The client is inside a call of the wrapper: its socket is open.
inCall == pc \in {"init", "send", "extend", "confirm"}

\* The reply goes to the socket of the call that asked, if it is still open.
Reply(v) ==
  /\ server' = "recv" /\ msg' = NoRequest
  /\ replies' = IF inCall /\ msg.call = call THEN Append(replies, v) ELSE replies

\* sendto: the hook lets the heartbeat into the transmit queue or drops it.
SendHeartbeat ==
  /\ server = "send" /\ server' = "wait"
  /\ tx' = IF accepts THEN Append(tx, msg.time) ELSE tx
  /\ UNCHANGED <<now, st_valid_time_str, st_valid_time, sent_wait, msg, written, requests, replies,
                 clientVars, alive>>

\* sem_timedwait takes the semaphore.
SignalReceived ==
  /\ server = "wait" /\ sent_wait > 0
  /\ sent_wait' = sent_wait - 1
  /\ Reply(0)
  /\ UNCHANGED <<now, kernelVars, written, requests, clientVars, alive>>

\* Mutant: the wait for a dropped heartbeat has no timeout.
SemTimesOutIfSent ==
  /\ server = "wait" /\ sent_wait = 0 /\ tx # <<>>
  /\ now + RealOffset >= msg.time
  /\ Reply(-1)
  /\ UNCHANGED <<now, kernelVars, sent_wait, written, requests, clientVars, alive>>

\* sem_timedwait compares its timeout with CLOCK_REALTIME.
SemTimesOut ==
  /\ server = "wait" /\ sent_wait = 0
  /\ now + RealOffset >= msg.time
  /\ Reply(-1)
  /\ UNCHANGED <<now, kernelVars, sent_wait, written, requests, clientVars, alive>>

safetimer_update_valid_time ==
  /\ server = "write"
  /\ st_valid_time_str' = overlay(st_valid_time_str, digits[msg.time])
  /\ st_valid_time' = kstrtol(st_valid_time_str')
  /\ written' = msg.time
  /\ Reply(0)
  /\ UNCHANGED <<now, tx, sent_wait, requests, clientVars, alive>>

-----------------------------------------------------------------------------
(* The client. *)

\* A call of the wrapper: a new socket, and the first request.
Calls(type, time) ==
  /\ call' = call + 1 /\ tries' = 1
  /\ asked' = [type |-> type, time |-> time, call |-> call + 1]
  /\ requests' = Append(requests, asked')
  /\ replies' = <<>>

\* No reply in 100 ms: the wrapper sends the request again.  A timely machine
\* answers a request for a heartbeat earlier, at its timeout of 50 ms.
Retry ==
  /\ inCall /\ replies = <<>> /\ tries < MaxTries
  /\ Machine = "timely" => asked.type = 1
  /\ tries' = tries + 1
  /\ requests' = Append(requests, asked)
  /\ UNCHANGED <<now, kernelVars, serverVars, replies, pc, call, asked, startTime, now_t, alive>>

\* Before the loop of offerService.
OfferServiceBegins ==
  /\ pc = "start" /\ pc' = "init"
  /\ Calls(1, now + ValidSpan)
  /\ alive' = now
  /\ UNCHANGED <<now, kernelVars, serverVars, startTime, now_t>>

\* A heartbeat is due: the heartbeat interval is at least one tick.  (The
\* bound leaves time for it to time out.)
HeartbeatDue ==
  /\ pc = "idle" /\ now > startTime /\ now + SendTimeout < MaxTime
  /\ pc' = "due" /\ startTime' = now
  /\ UNCHANGED <<now, kernelVars, serverVars, requests, replies, callVars, now_t, alive>>

stSendHeartbeat ==
  /\ pc = "due" /\ now + SendTimeout <= MaxTime
  /\ pc' = "send" /\ now_t' = now
  /\ Calls(0, now + SendTimeout)
  /\ UNCHANGED <<now, kernelVars, serverVars, startTime, alive>>

\* Mutant: the valid time counts from the reply, not from before the request.
HeartbeatSentNow ==
  /\ pc = "send" /\ replies # <<>>
  /\ IF Head(replies) = 0
       THEN pc' = "extend" /\ Calls(1, now + ValidSpan)
       ELSE pc' = "sent" /\ replies' = <<>> /\ UNCHANGED <<callVars, requests>>
  /\ UNCHANGED <<now, kernelVars, serverVars, startTime, now_t, alive>>

\* The heartbeat was transmitted, and the valid time is extended; or not.
HeartbeatSent ==
  /\ pc = "send" /\ replies # <<>>
  /\ IF Head(replies) = 0
       THEN pc' = "extend" /\ Calls(1, now_t + ValidSpan)
       ELSE pc' = "sent" /\ replies' = <<>> /\ UNCHANGED <<callVars, requests>>
  /\ UNCHANGED <<now, kernelVars, serverVars, startTime, now_t, alive>>

\* stUpdateValidTime returns.
Updated ==
  /\ pc \in {"init", "extend", "confirm"} /\ replies # <<>>
  /\ pc' = IF pc = "extend" THEN "sent" ELSE "idle"
  /\ replies' = <<>>
  /\ UNCHANGED <<now, kernelVars, serverVars, requests, callVars, startTime, now_t, alive>>

\* HDFS's own heartbeat: the namenode answers, which it does after startTime,
\* or the call fails.
NamenodeAnswers ==
  /\ Namenode = "answers"
  /\ pc = "sent" /\ pc' = "confirm"
  /\ Calls(1, startTime + ValidSpan)
  /\ alive' = now
  /\ UNCHANGED <<now, kernelVars, serverVars, startTime, now_t>>

NamenodeFails ==
  /\ pc = "sent" /\ pc' = "idle"
  /\ UNCHANGED <<now, kernelVars, serverVars, requests, replies, callVars, startTime, now_t, alive>>

-----------------------------------------------------------------------------
Kernel == handler_pre
Server == ServerReceives \/ SendHeartbeat \/ SignalReceived \/ SemTimesOut
            \/ safetimer_update_valid_time
Client == OfferServiceBegins \/ HeartbeatDue \/ stSendHeartbeat \/ HeartbeatSent \/ Updated
            \/ NamenodeAnswers \/ NamenodeFails \/ Retry

\* The clock is at its bound and everything asked for is done.
Quiescent ==
  /\ now = MaxTime /\ server = "recv" /\ requests = <<>> /\ tx = <<>> /\ replies = <<>>
  /\ pc \in {"idle", "due"}
  /\ UNCHANGED vars

Next == Tick \/ Kernel \/ Server \/ Client \/ Quiescent

Spec == Init /\ [][Next]_vars

\* The clock runs, the server thread is scheduled and the client reads.
FairSpec == Spec /\ WF_vars(Tick) /\ WF_vars(Kernel) /\ WF_vars(Server) /\ WF_vars(HeartbeatSent)

-----------------------------------------------------------------------------
(* Properties. *)

\* The values the variables may take.
TypeOK ==
  /\ now \in StartTime .. MaxTime
  /\ st_valid_time_str \in Seq(0 .. 9) /\ st_valid_time \in Nat
  /\ tx \in Seq(Nat) /\ sent_wait \in Nat
  /\ server \in {"recv", "send", "wait", "write"}
  /\ msg \in Request /\ requests \in Seq(Request) /\ replies \in Seq({0, -1})
  /\ pc \in {"start", "init", "idle", "due", "send", "extend", "sent", "confirm"}
  /\ call \in Nat /\ tries \in 0 .. MaxTries /\ asked \in Request
  /\ startTime \in Nat /\ now_t \in Nat /\ written \in Nat /\ alive \in Nat

\* The valid time never runs ahead of what is known of the node: whatever
\* st_valid_time is set to, a heartbeat was transmitted, or the namenode
\* answered, at most ValidSpan before it (BPServiceActor.java:506-518 with
\* st_sender_api.c:26-78).
ValidBacked == st_valid_time <= alive + ValidSpan

\* A heartbeat leaves the machine only within ValidSpan of the time the node
\* was last known to be heard: a sender that was silent for longer stays silent
\* (hook_func, st_netfilter.c:22-56).
HeartbeatBacked ==
  [][Len(tx') > Len(tx) /\ st_valid_time > 0 => now <= alive + ValidSpan]_vars

\* safetimer_send_heartbeat returns, also for a heartbeat the kernel drops
\* (sem_timedwait, st_sender_api.c:50), and the client goes on.
HeartbeatReturns == pc = "send" ~> pc # "send"

\* st_sender_api.c:77: "st_valid_time has been updated to %ld".
ValidAsWritten == st_valid_time = written

\* The wait for the completion signal (st_sender_api.c:46, "now wait for
\* completion signal") ends without one only when timeout_time has come.
WaitsForSignal == [][SemTimesOut => now >= msg.time]_vars
=============================================================================
