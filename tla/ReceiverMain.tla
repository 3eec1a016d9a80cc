---------------------------- MODULE ReceiverMain ----------------------------
(***************************************************************************)
(* The life of the receiver process (st_receiver.c, st_receiver_api.c and  *)
(* the init, cancel, join and cleanup functions of queue.c, barrier.c and  *)
(* hb_server.c): main starts four threads one after the other, sets up the *)
(* flows of the barrier (FlowSetup), then sleeps; the signal handler, on   *)
(* the main thread, takes everything down again.  A signal may arrive at   *)
(* any point, a second one inside the handler of the first, and heartbeats *)
(* and checks of applications too.                                         *)
(***************************************************************************)
EXTENDS FlowSetup

CONSTANT Scenarios  \* sets of faults, one of which a behaviour may meet

\* What may fail (a thread may "break"), whether a signal or a check may come
\* before main sleeps, and whether a second signal may come.
Fault == {"nfq", "barrier", "setup", "file", "break", "early", "again"}

ASSUME ScenariosAssumption == Scenarios \subseteq SUBSET Fault

VARIABLES
  faults,   \* the scenario of this behaviour
  main,     \* next step of main: "server", "table", "queue", "barrier", "flows", "hb",
            \* "sleep"
  handler,  \* next step of the signal handler, or "none", or "exit"
  outer,    \* step in which a second signal has interrupted the first handler,
            \* or "none"
  table,    \* app_nodes_ht: "zero", "ready" or "destroyed"
  check,    \* the thread of server_routine
  hb,       \* the thread of hb_server
  crash     \* "no", or why the process has died

lifeVars == <<faults, main, handler, outer, table, check, hb, crash>>
vars == <<setupVars, lifeVars>>

Thread == {"off", "running", "cancelled", "exited", "joined"}

Init ==
  /\ SetupInit
  /\ faults \in Scenarios
  /\ main = "server" /\ handler = "none" /\ outer = "none" /\ table = "zero"
  /\ check = "off" /\ hb = "off" /\ crash = "no"

\* The process has not died, and main is not inside the signal handler.
Alive == crash = "no" /\ handler # "exit"
MainRuns == Alive /\ handler = "none"

-----------------------------------------------------------------------------
(* main, init_st_receiver_api and the init functions. *)

init_server ==
  /\ MainRuns /\ main = "server" /\ main' = "table"
  /\ check' = "running"
  /\ UNCHANGED <<setupVars, handler, outer, table, hb, crash, faults>>

\* Mutant: the table is left to its first use.
ht_init_missing ==
  /\ MainRuns /\ main = "table" /\ main' = "queue"
  /\ UNCHANGED <<setupVars, handler, outer, table, check, hb, crash, faults>>

ht_init ==
  /\ MainRuns /\ main = "table" /\ main' = "queue"
  /\ table' = "ready"
  /\ UNCHANGED <<setupVars, handler, outer, check, hb, crash, faults>>

\* On an error init_queue returns 0, and no thread is started.
init_queue ==
  /\ MainRuns /\ main = "queue" /\ main' = "barrier"
  /\ \/ queue' = "running"
     \/ "nfq" \in faults /\ UNCHANGED queue
  /\ UNCHANGED <<kernelVars, scriptVars, clientVars, serverVars, wire, nfq, backlog, answer,
                 handler, outer, table, check, hb, crash, faults>>

\* When setsockopt fails init_st_receiver_api ends, and main sleeps all the same.
init_barrier ==
  /\ MainRuns /\ main = "barrier"
  /\ \/ /\ main' = "flows" /\ server' = "select" /\ client' = "clear"
     \/ "barrier" \in faults /\ main' = "sleep" /\ UNCHANGED <<server, client>>
  /\ UNCHANGED <<kernelVars, scriptVars, cur, count, client_fds, fd, idx, conn_fds, netVars,
                 handler, outer, table, check, hb, crash, faults>>

\* setup_rx_queue_flows has returned; init_barrier succeeds whatever it returned.
FlowsReturn ==
  /\ MainRuns /\ main = "flows" /\ client \in {"done", "error"}
  /\ main' = "hb"
  /\ UNCHANGED <<setupVars, handler, outer, table, check, hb, crash, faults>>

init_hb ==
  /\ MainRuns /\ main = "hb" /\ main' = "sleep"
  /\ hb' = "running"
  /\ UNCHANGED <<setupVars, handler, outer, table, check, crash, faults>>

Startup == init_server \/ ht_init \/ init_queue \/ init_barrier \/ FlowsReturn \/ init_hb

-----------------------------------------------------------------------------
(* The signal handler. *)

\* The kernel gives the signal to the main thread.
Signal ==
  /\ MainRuns /\ (main = "sleep" \/ "early" \in faults)
  /\ handler' = "table"
  /\ UNCHANGED <<setupVars, main, outer, table, check, hb, crash, faults>>

\* While sig_handler runs its own signal is blocked, the other one is not
\* (SIGINT and SIGTERM): it starts sig_handler from the beginning inside the
\* first, which never goes on, because the second ends in exit.
SecondSignal ==
  /\ Alive /\ handler # "none" /\ outer = "none" /\ "again" \in faults
  /\ outer' = handler /\ handler' = "table"
  /\ UNCHANGED <<setupVars, main, table, check, hb, crash, faults>>

Dies(why) ==
  /\ crash' = why
  /\ UNCHANGED <<setupVars, main, handler, outer, table, check, hb, faults>>

\* A second handler may find the table half destroyed.
cleanup_ht ==
  /\ Alive /\ handler = "table"
  /\ \/ handler' = "cancel barrier" /\ table' = "destroyed"
        /\ UNCHANGED <<setupVars, main, outer, check, hb, crash, faults>>
     \/ outer # "none" /\ Dies("table twice")

\* pthread_cancel of a thread that was never created: the identifier is 0, and
\* the library reads through it.  With that of a thread that the first handler
\* has joined it may find memory that is gone, or an error.
CancelDies(thread, name) ==
  \/ thread = "off" /\ Dies(name)
  \/ thread = "joined" /\ Dies("joined thread")

\* A thread after pthread_cancel; it ends at its next cancellation point.
Cancelled(thread) == IF thread \in {"exited", "joined"} THEN thread ELSE "cancelled"

\* pthread_join returns when the thread has ended, and at once with an error
\* when the first handler has joined it or waits in the same join.
Joins(thread, step) == thread \in {"cancelled", "exited", "joined"} \/ outer = step

cancel_barrier ==
  /\ Alive /\ handler = "cancel barrier"
  /\ \/ CancelDies(server, "barrier thread")
     \/ /\ server # "off" /\ handler' = "join barrier"
        /\ server' = Cancelled(server)
        /\ UNCHANGED <<kernelVars, scriptVars, clientVars, fd, idx, conn_fds, netVars,
                       main, outer, table, check, hb, crash, faults>>

\* The cleanup of the barrier server closes both ends of every flow.
join_barrier ==
  /\ Alive /\ handler = "join barrier" /\ handler' = "cancel hb"
  /\ Joins(server, "join barrier")
  /\ server' = "joined"
  /\ wire' = [p \in Port |-> IF server # "joined" /\ p \in Range(client_fds)
                               THEN Append(wire[p], "fin") ELSE wire[p]]
  /\ UNCHANGED <<kernelVars, scriptVars, clientVars, fd, idx, conn_fds, nfq, queue, backlog,
                 answer, main, outer, table, check, hb, crash, faults>>

\* Mutant: the heartbeat thread is joined without being cancelled.
cancel_hb_missing ==
  /\ Alive /\ handler = "cancel hb" /\ handler' = "join hb"
  /\ UNCHANGED <<setupVars, main, outer, table, check, hb, crash, faults>>

cancel_hb ==
  /\ Alive /\ handler = "cancel hb"
  /\ \/ CancelDies(hb, "hb thread")
     \/ /\ hb # "off" /\ handler' = "join hb"
        /\ hb' = Cancelled(hb)
        /\ UNCHANGED <<setupVars, main, outer, table, check, crash, faults>>

join_hb ==
  /\ Alive /\ handler = "join hb" /\ handler' = "cancel queue"
  /\ Joins(hb, "join hb")
  /\ hb' = "joined"
  /\ UNCHANGED <<setupVars, main, outer, table, check, crash, faults>>

cancel_queue ==
  /\ Alive /\ handler = "cancel queue"
  /\ \/ CancelDies(queue, "queue thread")
     \/ /\ queue # "off" /\ handler' = "join queue"
        /\ queue' = Cancelled(queue)
        /\ UNCHANGED <<kernelVars, scriptVars, clientVars, serverVars, wire, nfq, backlog,
                       answer, main, outer, table, check, hb, crash, faults>>

join_queue ==
  /\ Alive /\ handler = "join queue" /\ handler' = "cancel server"
  /\ Joins(queue, "join queue")
  /\ queue' = "joined"
  /\ UNCHANGED <<kernelVars, scriptVars, clientVars, serverVars, wire, nfq, backlog, answer,
                 main, outer, table, check, hb, crash, faults>>

cancel_server ==
  /\ Alive /\ handler = "cancel server"
  /\ \/ CancelDies(check, "check thread")
     \/ /\ check # "off" /\ handler' = "join server"
        /\ check' = Cancelled(check)
        /\ UNCHANGED <<setupVars, main, outer, table, hb, crash, faults>>

join_server ==
  /\ Alive /\ handler = "join server" /\ handler' = "exit"
  /\ Joins(check, "join server")
  /\ check' = "joined"
  /\ UNCHANGED <<setupVars, main, outer, table, hb, crash, faults>>

Shutdown ==
  \/ cleanup_ht \/ cancel_barrier \/ join_barrier \/ cancel_hb \/ join_hb
  \/ cancel_queue \/ join_queue \/ cancel_server \/ join_server

-----------------------------------------------------------------------------
(* What the process can die of outside the handler. *)

\* The file "clear" of the kernel module cannot be opened: the error path of
\* clear_sport_on_rx_queues calls fclose with NULL, which the library reads
\* through.
clear_fopen_fails ==
  /\ MainRuns /\ client = "clear" /\ "file" \in faults
  /\ Dies("clear")

\* The same in get_sport_by_rx_queue, on the thread of the barrier server (the
\* module was removed, or the connections of redundant flows, which stay open,
\* have used up the descriptors).  So the -1 of validate_connection, which
\* barrier_server would take for success and use as an index, is never returned.
get_sport_fopen_fails ==
  /\ Alive /\ server = "validate" /\ "file" \in faults
  /\ Dies("sport")

\* A table that is not ready is used without a check: what that does is
\* undefined, and the process may die of it.
receive_heartbeat ==
  /\ Alive /\ queue = "running" /\ table # "ready"
  /\ Dies("heartbeat")

safetimer_check ==
  /\ Alive /\ check = "running" /\ table # "ready"
  /\ main = "sleep" \/ "early" \in faults
  /\ Dies("check")

\* A datagram of a wrong size, or an error of the socket, ends the thread of
\* server_routine, and in the same way that of hb_server.
ServerRoutineBreaks ==
  /\ Alive /\ check = "running" /\ "break" \in faults /\ check' = "exited"
  /\ UNCHANGED <<setupVars, main, handler, outer, table, hb, crash, faults>>

HbServerBreaks ==
  /\ Alive /\ hb = "running" /\ "break" \in faults /\ hb' = "exited"
  /\ UNCHANGED <<setupVars, main, handler, outer, table, check, crash, faults>>

-----------------------------------------------------------------------------

SetupStep ==
  /\ Alive
  /\ \/ Script
     \/ \E p \in Port : hook_func(p)
     \/ AcceptPacket
     \/ handler = "none" /\ (Client \/ ("setup" \in faults /\ SetupFails))
     \/ BarrierServer
  /\ UNCHANGED lifeVars

Environment ==
  \/ Signal \/ SecondSignal \/ clear_fopen_fails \/ get_sport_fopen_fails
  \/ receive_heartbeat \/ safetimer_check \/ ServerRoutineBreaks \/ HbServerBreaks

\* The process has ended, or sleeps.
Quiescent ==
  /\ ~Alive \/ (main = "sleep" /\ handler = "none")
  /\ UNCHANGED vars

Next == Startup \/ Shutdown \/ SetupStep \/ Environment \/ Quiescent

\* Every thread is scheduled, the script runs on, and the client comes back to
\* every port it may use.
Fairness ==
  /\ WF_vars(Startup \/ Shutdown \/ (MainRuns /\ Client /\ UNCHANGED lifeVars))
  /\ WF_vars(Alive /\ Script /\ UNCHANGED lifeVars)
  /\ WF_vars(Alive /\ (\E p \in Port : hook_func(p)) /\ UNCHANGED lifeVars)
  /\ WF_vars(Alive /\ (AcceptPacket \/ BarrierServer) /\ UNCHANGED lifeVars)
  /\ \A p \in Port : SF_vars(MainRuns /\ Connect(p) /\ UNCHANGED lifeVars)

Spec == Init /\ [][Next]_vars /\ Fairness

-----------------------------------------------------------------------------
(* Properties. *)

TypeOK ==
  /\ sports \in [Ring -> Port \cup {0}]
  /\ queue_index \in Ring /\ rx_queue \in Ring /\ cpu1 \subseteq Ring
  /\ script \in {"unmap", "map", "index", "poll", "done"}
  /\ \A p \in Port : Len(wire[p]) <= 2 /\ answer[p] \in {NoReply, Redundant} \cup {BASE_IRQ + i : i \in Ring}
  /\ client \in {"off", "clear", "socket", "connecting", "reply", "done", "error"}
  /\ server \in {"off", "select", "validate", "cancelled", "joined"}
  /\ count \in 0 .. IRQ_NUM /\ idx \in Ring
  /\ {queue, check, hb} \subseteq Thread
  /\ main \in {"server", "table", "queue", "barrier", "flows", "hb", "sleep"}

\* When the process may die, of the causes modelled.  Before a signal: while a
\* file of the kernel module is missing, or by a check that comes before
\* ht_init; a heartbeat never finds the table too early.  In the shutdown: it
\* cancels the barrier or heartbeat thread before startup has come to it, or
\* one that startup failed to start, never the thread that answers checks; the
\* table is used after cleanup_ht; or a second signal repeats what the first
\* has done.
CrashCauses ==
  /\ crash # "no" /\ handler = "none" =>
       crash \in {"clear", "sport"} \/ (crash = "check" /\ main = "table")
  /\ crash \in {"heartbeat", "check"} /\ handler # "none" =>
       table = "destroyed" \/ (crash = "check" /\ main = "table")
  /\ crash = "barrier thread" =>
       main \in {"server", "table", "queue", "barrier"} \/ "barrier" \in faults
  /\ crash = "hb thread" => main \in {"flows", "hb"}
  /\ crash = "queue thread" => main = "sleep" /\ "nfq" \in faults
  /\ crash # "check thread"
  /\ crash = "joined thread" => outer # "none" /\ table = "destroyed"

\* The end of the process is exit in sig_handler: a receiver that has started
\* completely, and whose files and sockets are all there, never dies of its own
\* threads when one signal ends it.
Survives == crash = "no"

\* The loop of setup_rx_queue_flows ends: a source port recorded too late, for
\* a connection that the client has given up, blocks a ring only until the
\* client gets that port again.
SetupCompletes == client = "socket" ~> (client \in {"done", "error"} \/ handler # "none" \/ crash # "no")

\* A signal ends the process: no join waits for ever.
ShutdownEnds == handler # "none" ~> ~Alive

\* Every state of the setup is well formed, and the flows are right, whatever
\* packets of connections given up are late: each comes through its ring
\* (validate_connection), and at the end both sides have the same ones.
FlowsRight == TypeOK /\ FlowThroughRing /\ FlowsComplete
=============================================================================
