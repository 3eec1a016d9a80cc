----------------------------- MODULE FlowSetup -----------------------------
(***************************************************************************)
(* How the barrier gets one TCP flow per rx ring (barrier.c): the client   *)
(* connects until every ring has a flow, the barrier server tells it which *)
(* ring a connection uses, and learns that from the kernel module          *)
(* barrier_ring_checker_mapping, whose hook notes the source port of a     *)
(* packet that it sees on CPU 1.  The script bruteforce_2cpus.sh sends the *)
(* interrupts of one ring after the other to CPU 1.                        *)
(*                                                                         *)
(* A connection is named by its source port; the NIC chooses its ring by a *)
(* hash of the addresses and ports, so a port always has the same ring.    *)
(* The script is started first: it has mapped ring 0 when the receiver     *)
(* starts.  An affinity holds from the moment it is written.               *)
(***************************************************************************)
EXTENDS Integers, Sequences, FiniteSets, Functions

CONSTANTS
  IRQ_NUM,   \* number of rx rings
  BASE_IRQ,  \* interrupt of ring 0
  Port,      \* source ports of the client, positive numbers
  ringOf     \* the NIC's hash: port -> ring

Ring == 0 .. IRQ_NUM - 1
NoFd == 0       \* the value of an entry of client_fds or conn_fds never set
NoReply == 0
Redundant == -1

ASSUME SetupAssumption ==
  /\ IRQ_NUM \in Nat \ {0} /\ BASE_IRQ \in Nat \ {0}
  /\ Port \subseteq Nat \ {0}
  /\ ringOf \in [Port -> Ring] /\ \A i \in Ring : \E p \in Port : ringOf[p] = i

VARIABLES
  sports,       \* kernel module: port recorded for each ring, 0 for none
  queue_index,  \* kernel module: ring the script looks for
  cpu1,         \* rings whose interrupts go to CPU 1
  script,       \* where the script is: "unmap", "map", "index", "poll" or "done"
  rx_queue,     \* its loop variable
  wire,         \* per port: packets from the client that the hook has not seen
  nfq,          \* packets that wait for the verdict of the queue thread
  queue,        \* the queue thread: "off", "running", "cancelled" or "joined"
  backlog,      \* connections the server can accept
  client,       \* setup_rx_queue_flows: "off", "clear", "socket", "connecting",
                \* "reply", "done" or "error"
  cur,          \* its current connection
  count,
  client_fds,
  server,       \* barrier_server: "off", "select", "validate", "cancelled" or "joined"
  fd, idx,      \* connection it validates, and loop variable of validate_connection
  answer,       \* per port: what the server has sent
  conn_fds

kernelVars == <<sports, queue_index>>
scriptVars == <<cpu1, script, rx_queue>>
clientVars == <<client, cur, count, client_fds>>
serverVars == <<server, fd, idx, conn_fds>>
netVars == <<wire, nfq, queue, backlog, answer>>
setupVars == <<kernelVars, scriptVars, clientVars, serverVars, netVars>>

SetupInit ==
  /\ sports = [i \in Ring |-> 0]
  /\ queue_index = 0 /\ cpu1 = {0} /\ script = "poll" /\ rx_queue = 0
  /\ wire = [p \in Port |-> <<>>] /\ nfq = <<>> /\ queue = "off" /\ backlog = <<>>
  /\ answer = [p \in Port |-> NoReply]
  /\ client = "off" /\ cur = NoFd /\ count = 0
  /\ client_fds = [i \in Ring |-> NoFd]
  /\ server = "off" /\ fd = NoFd /\ idx = 0
  /\ conn_fds = [i \in Ring |-> NoFd]

-----------------------------------------------------------------------------
(* The script.  Affinities are written ring by ring: those of the other    *)
(* rings first, then that of rx_queue, then the kernel module is told.     *)

Unmap ==
  /\ script = "unmap" /\ script' = "map"
  /\ cpu1' = {}
  /\ UNCHANGED <<kernelVars, rx_queue, clientVars, serverVars, netVars>>

Map ==
  /\ script = "map" /\ script' = "index"
  /\ cpu1' = cpu1 \cup {rx_queue}
  /\ UNCHANGED <<kernelVars, rx_queue, clientVars, serverVars, netVars>>

WriteIndex ==
  /\ script = "index" /\ script' = "poll"
  /\ queue_index' = rx_queue
  /\ UNCHANGED <<sports, cpu1, rx_queue, clientVars, serverVars, netVars>>

\* Mutant: the script does not wait for a port.
PollEndsAtOnce ==
  /\ script = "poll"
  /\ IF rx_queue + 1 = IRQ_NUM
       THEN script' = "done" /\ cpu1' = Ring /\ UNCHANGED rx_queue
       ELSE script' = "unmap" /\ rx_queue' = rx_queue + 1 /\ UNCHANGED cpu1
  /\ UNCHANGED <<kernelVars, clientVars, serverVars, netVars>>

\* The loop that waits for a source port of rx_queue.  After the last ring
\* every interrupt may go to every CPU again.
PollEnds ==
  /\ script = "poll" /\ sports[rx_queue] > 0
  /\ IF rx_queue + 1 = IRQ_NUM
       THEN script' = "done" /\ cpu1' = Ring /\ UNCHANGED rx_queue
       ELSE script' = "unmap" /\ rx_queue' = rx_queue + 1 /\ UNCHANGED cpu1
  /\ UNCHANGED <<kernelVars, clientVars, serverVars, netVars>>

Script == Unmap \/ Map \/ WriteIndex \/ PollEnds

-----------------------------------------------------------------------------
(* The kernel module. *)

\* Mutant: the hook does not ask on which CPU it runs.
recordAnywhere(p, onCpu1) ==
  IF sports[queue_index] = 0 THEN [sports EXCEPT ![queue_index] = p] ELSE sports

\* What the hook leaves in sports when it sees a packet of port p.
record(p, onCpu1) ==
  IF onCpu1 /\ sports[queue_index] = 0 THEN [sports EXCEPT ![queue_index] = p] ELSE sports

\* hook_func sees the next packet of p and accepts it.  The filter rule for
\* the barrier's port then hands it to the queue thread.
hook_func(p) ==
  /\ wire[p] # <<>>
  /\ wire' = [wire EXCEPT ![p] = Tail(@)]
  /\ \E onCpu1 \in {ringOf[p] \in cpu1} \cup (IF script = "done" THEN {FALSE} ELSE {}) :
       sports' = record(p, onCpu1)
  /\ nfq' = Append(nfq, <<p, Head(wire[p])>>)
  /\ UNCHANGED <<queue_index, scriptVars, clientVars, serverVars, queue, backlog, answer>>

\* process_packet: the queue thread accepts the packet, as it carries no barrier
\* message.  The third packet of a handshake makes its connection ready for accept.
AcceptPacket ==
  /\ queue = "running" /\ nfq # <<>>
  /\ nfq' = Tail(nfq)
  /\ backlog' = IF Head(nfq)[2] = "ack" THEN Append(backlog, Head(nfq)[1]) ELSE backlog
  /\ UNCHANGED <<kernelVars, scriptVars, clientVars, serverVars, wire, queue, answer>>

-----------------------------------------------------------------------------
(* setup_rx_queue_flows, on the main thread. *)

\* Packets of p that have not reached the server's TCP.
InFlight(p) == Range(wire[p]) \cup {m[2] : m \in {n \in Range(nfq) : n[1] = p}}

\* When the file of the module is there; ReceiverMain has the other case.
clear_sport_on_rx_queues ==
  /\ client = "clear" /\ client' = "socket"
  /\ sports' = [i \in Ring |-> 0]
  /\ UNCHANGED <<queue_index, scriptVars, cur, count, client_fds, serverVars, netVars>>

\* socket and connect; a port is used again once its last connection is gone.
Connect(p) ==
  /\ client = "socket"
  /\ InFlight(p) = {} /\ \A i \in Ring : client_fds[i] # p
  /\ client' = "connecting" /\ cur' = p
  /\ wire' = [wire EXCEPT ![p] = <<"syn">>]
  /\ UNCHANGED <<kernelVars, scriptVars, count, client_fds, serverVars, nfq, queue, backlog, answer>>

\* The server's kernel has answered the first packet.
ConnectReturns ==
  /\ client = "connecting" /\ InFlight(cur) = {}
  /\ client' = "reply"
  /\ wire' = [wire EXCEPT ![cur] = <<"ack">>]
  /\ UNCHANGED <<kernelVars, scriptVars, cur, count, client_fds, serverVars, nfq, queue, backlog, answer>>

\* Without a queue thread no packet gets past the filter rule, and connect
\* gives up after its retransmissions.
ConnectTimesOut ==
  /\ client = "connecting" /\ queue = "off"
  /\ client' = "error"
  /\ UNCHANGED <<kernelVars, scriptVars, cur, count, client_fds, serverVars, netVars>>

\* socket, setsockopt, connect or recv fails: setup ends with an error, which
\* init_barrier reports and forgets.
SetupFails ==
  /\ client \in {"socket", "connecting", "reply"}
  /\ client' = "error"
  /\ UNCHANGED <<kernelVars, scriptVars, cur, count, client_fds, serverVars, netVars>>

\* recv returns the server's answer.
FlowReply ==
  /\ client = "reply" /\ answer[cur] # NoReply
  /\ IF answer[cur] > 0
       THEN /\ client_fds' = [client_fds EXCEPT ![answer[cur] - BASE_IRQ] = cur]
            /\ count' = count + 1
            /\ client' = IF count + 1 = IRQ_NUM THEN "done" ELSE "socket"
            /\ UNCHANGED wire
       ELSE /\ wire' = [wire EXCEPT ![cur] = Append(@, "fin")]
            /\ client' = "socket"
            /\ UNCHANGED <<client_fds, count>>
  /\ answer' = [answer EXCEPT ![cur] = NoReply] /\ cur' = NoFd
  /\ UNCHANGED <<kernelVars, scriptVars, serverVars, nfq, queue, backlog>>

-----------------------------------------------------------------------------
(* barrier_server. *)

\* select and accept; connections of other hosts are only added to the set
\* that select watches.
Accept ==
  /\ server = "select" /\ backlog # <<>>
  /\ server' = "validate" /\ fd' = Head(backlog) /\ idx' = 0
  /\ backlog' = Tail(backlog)
  /\ UNCHANGED <<kernelVars, scriptVars, clientVars, conn_fds, wire, nfq, queue, answer>>

\* One turn of the loop of validate_connection, get_sport_by_rx_queue(idx)
\* included, and what barrier_server does with the result.  The connection of
\* a redundant flow is left open: "Sender will kill itself".  ReceiverMain has
\* the case in which the file of the ring is not there.
validate_connection ==
  /\ server = "validate"
  /\ IF sports[idx] # fd /\ idx + 1 < IRQ_NUM
       THEN idx' = idx + 1 /\ UNCHANGED <<server, fd, conn_fds, answer>>
       ELSE /\ IF sports[idx] = fd
                 THEN /\ answer' = [answer EXCEPT ![fd] = BASE_IRQ + idx]
                      /\ conn_fds' = [conn_fds EXCEPT ![idx] = fd]
                 ELSE answer' = [answer EXCEPT ![fd] = Redundant] /\ UNCHANGED conn_fds
            /\ server' = "select" /\ fd' = NoFd /\ idx' = 0
  /\ UNCHANGED <<kernelVars, scriptVars, clientVars, wire, nfq, queue, backlog>>

Client ==
  \/ clear_sport_on_rx_queues \/ (\E p \in Port : Connect(p))
  \/ ConnectReturns \/ ConnectTimesOut \/ FlowReply
BarrierServer == Accept \/ validate_connection

-----------------------------------------------------------------------------
(* Properties. *)

\* The barrier rests on it: a message sent on client_fds[i] goes through ring
\* i of the NIC, and no connection serves two rings.  It must survive the
\* script's move from ring to ring while packets of older connections arrive.
FlowThroughRing ==
  \A i \in Ring : client_fds[i] # NoFd =>
    ringOf[client_fds[i]] = i /\ \A j \in Ring \ {i} : client_fds[j] # client_fds[i]

\* When the loop of setup_rx_queue_flows ends, every ring has its flow, the
\* server knows the same connection for it, and all of them are open.
FlowsComplete ==
  client = "done" /\ server # "joined" =>
    \A i \in Ring : /\ client_fds[i] # NoFd
                    /\ client_fds[i] = conn_fds[i]
                    /\ InFlight(client_fds[i]) = {}

\* The script's last message, "We have established tcp connections for all
\* the rx queues": a port it has found belongs to a connection that the
\* client uses, or is about to.
Established ==
  script = "done" => \A i \in Ring : sports[i] = cur \/ client_fds[i] = sports[i]
=============================================================================
