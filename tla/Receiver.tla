------------------------------ MODULE Receiver ------------------------------
(***************************************************************************)
(* The SafeTimer receiver: the table of heartbeat times that the queue     *)
(* thread fills (receive_heartbeat), the server thread that answers "has   *)
(* this node been silent since start?" (st_receiver.c, safetimer_check)    *)
(* and an application that asks (StReceiverWrapper.java).  How heartbeats  *)
(* wait on the machine, and what a flush of them promises, is RxFlush.     *)
(*                                                                         *)
(* A member of Node stands for a pair of app_id and node_ip; the entry of  *)
(* the outer table (per app) is created with the app's first node entry,   *)
(* and a lookup that misses either of the two answers 0.                   *)
(***************************************************************************)
EXTENDS Integers, Sequences

CONSTANTS
  Node,
  MaxHb,       \* bound: heartbeats that arrive
  MaxTime,     \* bound: clock ticks
  MaxCalls,    \* bound: checks the application makes
  MaxTries,    \* bound: requests it sends in one check
  Modes,       \* of {"flush", "noflush"}: does the application flush before it asks?
  RequestParts \* longs in a request of the application

\* ST_RECEIVER_REQUEST_MSGSIZE, in longs.
REQUEST_PARTS == 3

NoEntry == -1

VARIABLES
  pending, arrived, phase, mark,   \* of RxFlush
  now,             \* now_time()
  node_state,      \* app_nodes_ht: time of the last heartbeat, 0, or NoEntry
  server,          \* server_routine: "recv", "check", "reply" or "exited"
  request, reply,  \* its msg_buffer and reply
  client,          \* the application: "idle", "flushing", "asking", "waiting", "done"
  call,            \* number of the current check; each has a socket of its own
  mode,            \* whether it flushes, a member of Modes
  target, start,   \* what it asks
  tries,
  requests,        \* datagrams in the server's socket
  replies,         \* datagrams in the application's socket
  verdict,         \* result of the last check
  arrivals,        \* history: sender and arrival time of every heartbeat
  dropped,         \* history: heartbeats the kernel dropped
  inserted,        \* history: heartbeats that created an entry
  seen             \* history: arrived when the current check began

Barrier == INSTANCE RxFlush

barrierVars == <<pending, arrived, phase, mark>>
serverVars == <<server, request, reply>>
clientVars == <<client, call, mode, target, start, tries, verdict, seen>>
historyVars == <<arrivals, dropped, inserted>>
vars == <<barrierVars, now, node_state, serverVars, clientVars, requests, replies, historyVars>>

NoRequest == [call |-> 0]

Init ==
  /\ Barrier!Init
  /\ now = 1
  /\ node_state = [n \in Node |-> NoEntry]
  /\ server = "recv" /\ request = NoRequest /\ reply = 0
  /\ client = "idle" /\ call = 0 /\ mode \in Modes /\ target \in Node /\ start = 0 /\ tries = 0
  /\ requests = <<>> /\ replies = <<>> /\ verdict = 0
  /\ arrivals = <<>> /\ dropped = {} /\ inserted = {} /\ seen = 0

Tick ==
  /\ now < MaxTime
  /\ now' = now + 1
  /\ UNCHANGED <<barrierVars, node_state, serverVars, clientVars, requests, replies, historyVars>>

-----------------------------------------------------------------------------
(* The queue thread. *)

HeartbeatArrives(n) ==
  /\ Barrier!Arrive(n)
  /\ arrivals' = Append(arrivals, [node |-> n, at |-> now])
  /\ UNCHANGED <<now, node_state, serverVars, clientVars, requests, replies, dropped, inserted>>

\* The value receive_heartbeat leaves in the table: a node's first heartbeat
\* inserts 0, not the time.
stamp(n) == IF node_state[n] = NoEntry THEN 0 ELSE now

receive_heartbeat(h) ==
  /\ Barrier!Leave({h})
  /\ node_state' = [node_state EXCEPT ![h.node] = stamp(h.node)]
  /\ inserted' = IF node_state[h.node] = NoEntry THEN inserted \cup {h.id} ELSE inserted
  /\ UNCHANGED <<now, serverVars, clientVars, requests, replies, arrivals, dropped>>

DropHeartbeat(h) ==
  /\ Barrier!Leave({h})
  /\ dropped' = dropped \cup {h.id}
  /\ UNCHANGED <<now, node_state, serverVars, clientVars, requests, replies, arrivals, inserted>>

-----------------------------------------------------------------------------
(* The application. *)

CheckBegins(n, s) ==
  /\ client = "idle" /\ call < MaxCalls
  /\ call' = call + 1 /\ target' = n /\ start' = s /\ tries' = 0
  /\ seen' = arrived
  /\ mode' \in Modes
  /\ \/ mode' = "flush" /\ Barrier!FlushCall /\ client' = "flushing"
     \/ mode' = "noflush" /\ UNCHANGED barrierVars /\ client' = "asking"
  /\ UNCHANGED <<now, node_state, serverVars, requests, replies, verdict, historyVars>>

FlushReturns ==
  /\ client = "flushing" /\ client' = "asking"
  /\ Barrier!FlushReturn
  /\ UNCHANGED <<now, node_state, serverVars, call, mode, target, start, tries, verdict, seen,
                 requests, replies, historyVars>>

\* Without a complete flush the application does not ask.
FlushFails ==
  /\ client = "flushing" /\ client' = "idle"
  /\ Barrier!FlushFails
  /\ UNCHANGED <<now, node_state, serverVars, call, mode, target, start, tries, verdict, seen,
                 requests, replies, historyVars>>

\* The request, the first time or after the socket's timeout.
Ask ==
  /\ client \in {"asking", "waiting"} /\ tries < MaxTries
  /\ client' = "waiting" /\ tries' = tries + 1
  /\ requests' = Append(requests, [call |-> call, node |-> target, start |-> start,
                                   parts |-> RequestParts])
  /\ UNCHANGED <<barrierVars, now, node_state, serverVars, call, mode, target, start, verdict, seen,
                 replies, historyVars>>

\* The application has its answer; closing the socket discards later ones.
Answered ==
  /\ client = "waiting" /\ replies # <<>>
  /\ verdict' = Head(replies) /\ client' = "done"
  /\ replies' = <<>>
  /\ UNCHANGED <<barrierVars, now, node_state, serverVars, call, mode, target, start, tries, seen,
                 requests, historyVars>>

CheckEnds ==
  /\ client = "done" /\ client' = "idle"
  /\ UNCHANGED <<barrierVars, now, node_state, serverVars, call, mode, target, start, tries, verdict,
                 seen, requests, replies, historyVars>>

-----------------------------------------------------------------------------
(* The server thread. *)

\* Mutant: the size of a request is that of the comment at st_receiver.c:45.
ServerReceivesTwoParts ==
  /\ server = "recv" /\ requests # <<>>
  /\ requests' = Tail(requests)
  /\ IF Head(requests).parts = REQUEST_PARTS - 1
       THEN server' = "check" /\ request' = Head(requests)
       ELSE server' = "exited" /\ UNCHANGED request
  /\ UNCHANGED <<barrierVars, now, node_state, reply, clientVars, replies, historyVars>>

\* recvfrom: a datagram of another size ends the thread.
ServerReceives ==
  /\ server = "recv" /\ requests # <<>>
  /\ requests' = Tail(requests)
  /\ IF Head(requests).parts = REQUEST_PARTS
       THEN server' = "check" /\ request' = Head(requests)
       ELSE server' = "exited" /\ UNCHANGED request
  /\ UNCHANGED <<barrierVars, now, node_state, reply, clientVars, replies, historyVars>>

silent(n, s) == node_state[n] # NoEntry /\ node_state[n] < s

safetimer_check ==
  /\ server = "check" /\ server' = "reply"
  /\ reply' = IF silent(request.node, request.start) THEN 1 ELSE 0
  /\ UNCHANGED <<barrierVars, now, node_state, request, clientVars, requests, replies, historyVars>>

\* sendto the socket the request came from, which may be closed by now.
ServerReplies ==
  /\ server = "reply" /\ server' = "recv"
  /\ replies' = IF client = "waiting" /\ request.call = call THEN Append(replies, reply) ELSE replies
  /\ request' = NoRequest /\ reply' = 0
  /\ UNCHANGED <<barrierVars, now, node_state, clientVars, requests, historyVars>>

-----------------------------------------------------------------------------
QueueThread == \E h \in pending : receive_heartbeat(h) \/ DropHeartbeat(h)
Application == \/ \E n \in Node, s \in 1 .. now : CheckBegins(n, s)
               \/ FlushReturns \/ FlushFails \/ Ask \/ Answered \/ CheckEnds
Server == ServerReceives \/ safetimer_check \/ ServerReplies

\* Every bound is reached and nobody has anything left to do.
Quiescent ==
  /\ now = MaxTime /\ arrived = MaxHb /\ pending = {}
  /\ client = "idle" /\ call = MaxCalls /\ requests = <<>> /\ server = "recv"
  /\ UNCHANGED vars

Next == Quiescent \/ Tick \/ (\E n \in Node : HeartbeatArrives(n)) \/ QueueThread \/ Application \/ Server

Spec == Init /\ [][Next]_vars

\* The server thread keeps running and the application asks and reads.
FairSpec == Spec /\ WF_vars(Server) /\ WF_vars(Answered) /\ WF_vars(Ask /\ client = "asking")

-----------------------------------------------------------------------------
(* Properties. *)

\* The values the variables of the receiver and of the application may take.
TypeOK ==
  /\ pending \subseteq [id : 1 .. arrived, node : Node]
  /\ arrived \in 0 .. MaxHb /\ mark \in 0 .. arrived /\ seen \in 0 .. arrived
  /\ phase \in {"idle", "flushing", "flushed"}
  /\ now \in Nat /\ node_state \in [Node -> Nat \cup {NoEntry}]
  /\ server \in {"recv", "check", "reply", "exited"} /\ reply \in {0, 1}
  /\ client \in {"idle", "flushing", "asking", "waiting", "done"}
  /\ call \in Nat /\ mode \in Modes /\ target \in Node /\ start \in Nat /\ tries \in Nat /\ verdict \in {0, 1}
  /\ replies \in Seq({0, 1})
  /\ Len(arrivals) = arrived
  /\ dropped \subseteq 1 .. arrived /\ inserted \subseteq 1 .. arrived

\* Heartbeat k shows that the target of the current check was alive after
\* start, and it was on the machine when the check began.
Witness(k) == k <= seen /\ arrivals[k].node = target /\ arrivals[k].at >= start

\* When the application has flushed, an answer 1 ("it is sure that failure
\* occurs", st_receiver_api.c:20) is right: every heartbeat of the node since
\* start that had reached the machine was dropped by the kernel, or was the
\* node's first one, for which receive_heartbeat stores 0.
AlarmSound ==
  client = "done" /\ verdict = 1 /\ mode = "flush" =>
    \A k \in 1 .. arrived : Witness(k) => k \in dropped \cup inserted

\* The same of every answer 1: safetimer_check is "sure" by itself
\* (st_receiver_api.c:20), whether or not its caller has flushed.
AlarmSure ==
  client = "done" /\ verdict = 1 =>
    \A k \in 1 .. arrived : Witness(k) => k \in dropped \cup inserted

\* An answer 1 is "sure" also of heartbeats that were processed in time: none
\* of the node's heartbeats since start has gone through receive_heartbeat.
AlarmMeansSilence ==
  client = "done" /\ verdict = 1 =>
    \A k \in 1 .. arrived : Witness(k) => k \in dropped \/ \E h \in pending : h.id = k

\* Every check whose request was sent ends with an answer.
CheckAnswered == client = "waiting" ~> client = "done"
=============================================================================
