# SafeTimer: TLA+ specification, model checking and proofs

SafeTimer makes timeouts trustworthy when heartbeats are delayed inside a
machine. On the receiver it pushes *barrier messages* through every receive ring
of the NIC, so that every heartbeat that arrived earlier is processed before a
timeout is declared. On the sender it lets the kernel drop heartbeats once a
*valid time* has passed, and extends that time only after a heartbeat has really
been transmitted.

This directory models both sides from the C, Java, C++ and kernel code, checks
the models with TLC on small instances, and proves the central properties of the
barrier with TLAPS for every number of rings, rows, nodes and packets. The
repository also carries the two programs SafeTimer was put into, Ceph's OSD and
the tg3 driver; the parts of them that keep state between threads are modelled
too.

## 1. Inventory

| Part | Source | State | Operations | Module |
|---|---|---|---|---|
| Queue thread | `src/queue.c` | `received_barrier_msg_array`, `array_round`, semaphore `barrier_all_processed`, `epoch_no_sem_post` | `process_packet`, `cb`, `queue_recv_loop` | `RxBarrier` |
| Flush | `src/queue.c:254-281` (commented out in this version) | local | `barrier_flush` | `RxBarrier`, abstractly `RxFlush` |
| Barrier client | `src/barrier.c` | `client_fds`, `sender_runnable` | `send_barrier_message` | `RxBarrier` |
| Flow setup | `src/barrier.c`, `barrier_ring_checker_mapping.c`, `bruteforce_2cpus.sh` | sockets, port of each ring, interrupt affinity | `barrier_server`, `validate_connection`, `setup_rx_queue_flows`, the kernel hook, the script | `FlowSetup` |
| Receiver service | `src/st_receiver_api.c`, `src/st_receiver.c` | `app_nodes_ht` | `receive_heartbeat`, `safetimer_check`, `server_routine` | `Receiver` |
| Receiver start and stop | the same, `queue.c`, `barrier.c`, `hb_server.c` | four threads, the table | `main`, `init_*`, `cancel_*`, `join_*`, `destroy_*`, `sig_handler` | `ReceiverMain` |
| Sender service | `src/st_sender_api.c`, `src/st_sender.c` | semaphore `sent_wait` | `safetimer_send_heartbeat`, `safetimer_update_valid_time`, `server_routine` | `SenderBlock` |
| Kernel send tracker | `kmodule/send/hb_sender_tracker_opt` | `st_valid_time` and its text buffer | `hook_func`, `handler_pre`, `st_valid_time_write` | `SenderBlock` |
| First send tracker | `kmodule/send/hb_sender_tracker` | counters per epoch | probe, hook, writes to debugfs | `HbTracker` |
| Sample application | `sample_hb/` | lists per epoch | sender, `hb_server`, `expire_checker` | `SampleHb` |
| HDFS clients | `hdfs/*.java` | none kept | wrappers, `offerService` | `Receiver`, `SenderBlock` |
| Ceph OSD: heartbeats, maps, life | `ceph/OSD.cc` | peers, failure reports, maps, superblock | heartbeat thread, tick, `handle_osd_map`, boot, shutdown | `Osd`, `OsdPeers` |
| Ceph OSD: placement groups | `ceph/OSD.cc` | `pg_map`, sessions, op queue, splits, deletions | dispatch, `consume_map`, peering, splits, `RemoveWQ` | `OsdPgs`, `OsdOpQueue`, `OsdSplits` |
| NIC driver: transmit | `kmodule/tg3.c` | transmit ring, queue state | `tg3_start_xmit`, `tg3_tx` | `Tg3Tx` |
| NIC driver: receive | `kmodule/tg3.c` | producer and return rings, `rx_refill` | `tg3_rx`, the two polls, `tg3_rx_prodring_xfer` | `Tg3Rx` |
| NIC driver: life | `kmodule/tg3.c` | what is allocated, enabled and pending | probe, open, close, reset task, ethtool, suspend, PCI errors, removal | `Tg3Life` |
| Drop statistics, other scripts and probes | `src/drop.c`, `sbin/`, ... | | | not modelled, see 6 |

How they interact: heartbeats (UDP port 5001) and barrier messages (TCP port
5002) come through the rings of the NIC into one netfilter queue, which the
queue thread empties. It stamps the table for a heartbeat and fills the array of
rounds for a barrier message. The server thread reads the table for an
application. On the sender an application asks the server thread for a
heartbeat; the kernel sends or drops it, signals its transmission, and the
application then writes a later valid time.

What is hard to test here: messages of two epochs that overlap the wrap of the
array; TCP sending a segment twice; a post that races a timeout; heartbeats that
wait in a ring while the table is read; completion signals that come late; a
client that reads its reply late; two clocks compared with each other; a signal in
the middle of start-up; a reset task that meets a closing device; a map that
arrives while a placement group is split, deleted or brought back. The main ones
are listed, with their lines and the properties about them, under "hazards" in
`PROJECT.json`; section 5 has smaller ones.

## 2. Modules

```
RxFlush                  what a flush promises
RxBarrier                rings, TCP flows, netfilter queue, process_packet, caller
RxBarrierFlush           RxBarrier as an implementation of RxFlush (INSTANCE ... WITH)
RxBarrierProofs          typing, order in the rings and the queue
RxBarrierRounds          the array of rounds over any number of wraps
RxFlushProofs            the refinement
Receiver                 table, server thread and application, on top of RxFlush
SenderBlock              sender service, kernel modules and client
FlowSetup                one TCP flow per ring: client, server, kernel module, script
ReceiverMain             the receiver process: threads, signals, shutdown (EXTENDS FlowSetup)
HbTracker                the first kernel tracker
SampleHb                 the sample application, on machines with HbTracker
Tg3Tx, Tg3Rx, Tg3Life    the NIC driver
OsdPeers, Osd            the OSD's heartbeats, failure reports, maps and life
OsdSplits, OsdOpQueue    bookkeeping of splits and of operations, as operators
OsdPgs                   the placement groups of the OSD, with all its threads
MC...                    the modules TLC is run on, with the .cfg files
```

**RxBarrier.** `rings` (one FIFO per ring) and `nfq` (the netfilter queue, which
drops when it holds `NfqCap` packets) carry heartbeats, barrier messages and TCP
segments without payload. `unsent`, `outstanding` and `accepted` are what the
TCP flow of a ring has to remember: with Nagle's algorithm on (`barrier.c` never
sets `TCP_NODELAY`) one segment is in flight and later messages are put
together, and `process_packet` reads the first one only. A segment the queue
dropped is sent again; with `MaxDup` one that was only delayed may be too.
`received_barrier_msg_array`, `array_round`, `barrier_all_processed` and
`epoch_no_sem_post` are the variables of `queue.c`, `RecordBarrier` is the
barrier half of `process_packet`. The steps of the caller are those of
`barrier_flush`; giving up (`FlushTimesOut`) and telling the queue thread
(`FlushGivesUp`) are two steps, as in the code. `Faults` switches timeouts and
errors on. `mark`, `delivered` and `declared` are history variables.
The two UDP and TCP paths keep their order inside a ring: that RPS does not
spread them again is the job of `hb_rps_kretprobe` and is assumed.
A TCP segment that is too short leaves `epoch` and `queue_index` at -1, and the
code indexes the array with them. In the default build that is padding in front
of the array, so `ProcessShort` changes nothing; no other layout is modelled.

**RxFlush.** Heartbeats wait in any order and leave when they are processed or
dropped. `FlushReturn` is possible only when none of those that waited at the
call is left.

**Receiver.** `node_state` is the two-level table, `receive_heartbeat` stores 0
for a node's first heartbeat and the time for the others, `safetimer_check`
answers 1 when the entry exists and is below `start`. The server thread receives,
checks and replies in three steps. The application's socket belongs to one call:
a reply to an earlier call is lost. A request with a negative `app_id` gets no
reply; the application never sends one. `Modes` says whether the application
flushes first. No caller in the repository does, because `barrier_flush` is
commented out; the flush is what the design calls for.

**SenderBlock.** `accepts` is `hook_func`, `handler_pre` the end of a
transmission with the signal handler that posts `sent_wait`. The valid time is
kept as the digits in the debugfs buffer, and `overlay` is what a write at
position 0 leaves there. `RealOffset` is the difference between the clock that
`sem_timedwait` uses and the one the timeout was taken from. The client follows
`offerService`: `startTime` is read first, `now_t` before the request,
the valid time is extended by `now_t + ValidSpan` when the heartbeat was
transmitted and by `startTime + ValidSpan` when the namenode answers. The client
uses the request format of `st_sender.c`; the wrapper in `hdfs/` sends two longs
to port 5003 and does not fit this server.

**FlowSetup.** A connection is its source port, and `ringOf` the hash of the NIC.
The client connects until `client_fds` has an entry for each ring; the server asks
the kernel module for the ring (`validate_connection`), whose hook notes the port
of a packet it sees on CPU 1 (`record`); the script sends the interrupts of one
ring after the other to CPU 1 and waits until a port is found. All four run
interleaved.

**ReceiverMain.** `main` is a program counter through `main()` of `st_receiver.c`;
`handler` one through `sig_handler`, which runs on the main thread. The four
threads are off, running, cancelled, exited or joined. A second, different signal
runs `sig_handler` again inside the first (`SecondSignal`; `outer` is where the first
was) and never returns to it. A use of a destroyed or not yet initialised table, a
thread identifier given to `pthread_cancel` that was never set or is joined, and
`fclose(NULL)` where a file of the kernel module cannot be opened end the process:
`crash` says why. Because of the last, `validate_connection` never returns its -1.
`Scenarios` says which faults a behaviour may meet.

**HbTracker, SampleHb.** Epochs are computed with `time_to_epoch` and
`epoch_to_time`. `lists[e]` are the nodes expected in epoch `e`; the receiving
thread moves a node on (`touch`), the checker asks about those that are left and
moves them too (`expire`). UDP loses messages and delays them up to `Delay`.
`set_to_zero` is two steps, as its read and its subtraction are. `sentEpochAfter`
adds the distance from `prev_sent_epoch`, which nothing updates, as the probe does.

**Tg3Tx.** A packet is a head and fragments, each of one or more descriptors. The
chip, `tg3_start_xmit` (up to where it stops the queue, then its recheck) and
`tg3_tx` interleave; mapping errors, the copy of `tigon3_dma_hwbug_workaround`
and the segments of `tg3_tso_bug` are choices. Where a packet does not fit, the test
of the space and the stop of the queue are two steps (`XmitBusy`), and there is no
second look; `full` marks a queue stopped so.

**Tg3Rx.** With RSS, as SafeTimer uses the NIC. Every vector handles packets and
puts their buffers into a ring of its own; vector 1 moves them back to the
producer ring. `rx_refill`, the interrupt and the end of a poll are separate
steps, in the order of the code.

**Tg3Life.** An operation is the list of steps of its function, taken one by one
under `rtnl`; a failing step replaces the rest by the way back that the code's
labels give. A step under `tp->lock` is atomic. Beside it run the reset task,
interrupts, polls, timer and watchdog. `tg3_test_msi` is two steps: the handler of
the pin is requested before the lock is taken for the reset, and a poll may come in
between. `tg3_resume` wakes the queues (`netif_device_attach`) one step before it
restarts the chip. Rare events are recorded in `seen`, at most `MaxRare` kinds in one
behaviour, and the properties name those that break them: a reset scheduled while an
operation stops or starts the device after its last `tg3_reset_task_cancel`
(`Stopping`, `Starting`) or in a bus error, a reset or a start that fails, a poll in the
MSI test, an interrupt that the self test does not get back, a user's operation in the
middle of the recovery from a bus error, a removal after that recovery has disabled the
PCI device.

**Osd, OsdPeers.** One OSD with its dispatch, tick, commit, heartbeat and shutdown
threads; `job` is the holder of `osd_lock`. Monitor, peers, network, object store
and SafeTimer are the environment. A map is the address under which each OSD is
up; a time stamp is absent, fresh or stale. `MCScenarios` gives each behaviour a
few faults: marks, removals and churn of maps, silence, resets of connections,
corrupt maps, trims, crashes, a shutdown, a SafeTimer service that stops answering.
The monitor may mark the OSD down whatever it is doing, also while it boots. When it
rebinds, only its client messenger keeps its address (`SameClient`).

**OsdPgs, OsdOpQueue, OsdSplits.** Sessions, dispatchers, the workers of a shard,
peering threads, the finisher of splits and the deleting thread work on `pg_map`,
the queues and the stored collections. The collection of a group has only the
facts the code relies on: it exists, it was partly emptied, it must be backfilled.
A session whose connection was reset stays with the connection for what is still
being dispatched (`open`); one whose peer the map no longer has is taken from it
(`con`, `MarkDown`).
`x.ok` and `sp.ok` become false where an assertion of `OSD.cc` would fail. What
`PG.cc` does is modelled from how `OSD.cc` uses it, and marked external.

## 3. Runs

Passing runs. Deadlock is checked in all of them; a `Quiescent` step (or a
stuttering step of the environment) allows a system to rest that has used up its
bounds or has nothing to do.

| Run | Properties | Bounds and why |
|---|---|---|
| `rx_rounds` | `BarrierSound`, `BarrierComplete`, `FlushSound`, `FlushCompletes`, `ImplementsFlush` | 2 rings, 2 rows, 4 epochs: the array wraps twice. A queue of 2 packets drops messages. 2 heartbeats, one before and one behind a message |
| `rx_faults` | `RingFlushed`, `BarrierSound` | 3 rows and 2 epochs (no wrap), with timeouts, failing sends, an exiting queue thread, one skipped epoch and one duplicated segment |
| `rcv_checks` | `AlarmSound`, `CheckAnswered` | 2 nodes, 2 heartbeats (a first one and a stamped one), 2 checks of 2 requests, with and without flush |
| `rcv_life` | `FlowsRight`, `CrashCauses`, `SetupCompletes`, `ShutdownEnds` | 2 rings and 3 ports, two of which share a ring, so that a connection is redundant; a scenario for each fault and for the pairs that interact |
| `snd_timely` | `ValidBacked`, `HeartbeatBacked`, `HeartbeatReturns` | 8 ticks, a span of 2: the valid time expires, heartbeats are blocked, and the namenode's answer opens the way again |
| `sample_epochs` | `AskedIffMissed`, `FreshPasses` | 5 epochs of 2 ticks, one node with the tracker, a delay of one epoch: heartbeats arrive in time, late or not at all |
| `tg3_tx` | `NoRecovery`, `RingClean`, `QueueWakes` | a ring of 8 slots of which 4 are used, 4 packets of up to 4 descriptors: the ring wraps, fills, and the queue stops and wakes; the wake threshold is below a largest packet, so that a packet may also find no space |
| `tg3_rx` | `BuffersKept`, `PacketHandled`, `BuffersReturn` | 2 vectors, a producer ring of 3 slots with 2 buffers: it runs dry and wraps |
| `tg3_life` | `NoBug`, `Backed`, `Released`, `Working`, `Progress` | all operations in any order, without a bound on their number; 2 kinds of rare events in one behaviour, so that two exceptions cannot hide behind each other. 3 kinds give five times the states |
| `osd_maps` | `ReportsRight`, `SelfRight`, `MapsWhole`, `Boots`, `FailureReported`, `ShutdownEnds` | 1 peer, messages of 2 maps, 13 scenarios of one to three faults. An assumption of `MCOsd` lets TLC evaluate `PeersConnected`, about the choice of peers, for all sets of 4 OSDs |
| `osd_pgs` | `Consistent`, `OpsServed`, `CollectionKept`, `RestComplete`, `Settles` | 4 groups (two splits in a row), 2 sessions, 2 workers, 2 peering threads, 11 scenarios of up to 4 maps, 3 operations and 3 messages |

* `RingFlushed`: a ring's current message comes out only behind the heartbeats
  that were in the ring when the flush began.
* `BarrierSound` / `BarrierComplete`: an epoch is declared complete only if, and
  always when, its message has come out of every ring.
* `FlushSound`: a successful flush leaves no old heartbeat behind.
* `AlarmSound`: after a flush an answer 1 overlooks only heartbeats the kernel
  dropped, and the first one of a node.
* `FlowsRight`: the flow of a ring comes through that ring,
  whatever packets of older connections are late; at the end all are there and
  both ends agree.
* `CrashCauses`: of the causes of death in the model, each can happen only at the
  steps of start-up or shutdown it is tied to. A heartbeat never finds the table too
  early, and no signal misses the thread that answers checks. It bounds the causes
  and does not exclude them: they are real (the table is destroyed under its users,
  the server answers before the table exists), see `ReceiverMain_crash.cfg`.
* `ValidBacked`: the valid time is never more than a span after the last
  transmission or answer. `HeartbeatBacked`: a heartbeat leaves only then.
* `AskedIffMissed`: a node that sent nothing in an epoch is
  asked about, one whose heartbeat was handled in time is not. `FreshPasses`:
  the first tracker blocks no sender whose last heartbeat is recent enough. The
  converse does not hold, see `SampleHb_overshoot.cfg`.
* `QueueWakes`: a transmit queue stopped behind a second look at the space wakes.
  `RingClean`: indices keep their
  order, free slots are clean, every packet is in one slot. `NoRecovery`:
  `tg3_tx` never finds the inconsistent ring it would reset the chip for.
  `BuffersKept`: no receive buffer is lost, doubled or used without being there. `BuffersReturn`: a producer
  ring that ran dry gets buffers again. `PacketHandled`: no interrupt is lost.
* `NoBug`, `Backed`, `Released`, `Working`, `Progress`: nothing is used
  after it was freed, nothing leaks, a device that is up works, and nobody waits
  for ever, each with the exceptions it names.
* `ReportsRight`, `FailureReported`: a peer that answers is
  not reported, a report can be taken back, and a dead peer is reported.
* `SelfRight`, `MapsWhole`, `Boots`: an active OSD is up in its map with its own
  addresses, its `up_epoch` is an epoch in which it was up, its stored maps have no
  hole after any crash, and once the monitor has it up it gets to work.
* `Consistent`: no assertion of `OSD.cc` fails. `OpsServed`: operations of a session
  on an object are executed in order and once. `CollectionKept`: a group that comes
  back never works on a collection that was half deleted without knowing it.
  `RestComplete`, `Settles`: the threads come to rest, and then no operation is lost
  and nothing waits for what has already happened.

Several of these are conjunctions; their parts, with the type invariant of the
module among them, have names and comments of their own in the modules.

One run ends in a violation: `snd_slow` (`ValidBacked`), where a late completion
signal is taken for the next heartbeat's. The finding in `PROJECT.json` quotes
what the code's documentation says.

### Other disagreements

These configurations also end in a violation. They belong to no listed run; call
TLC on the module with the configuration to see the behaviour.

| Configuration (module) | Property | Shows |
|---|---|---|
| `RxBarrier_retransmit.cfg` (`MCRxBarrier`) | `BarrierSound` | a duplicate processed after the round has advanced counts for the next round |
| `RxBarrier_latepost.cfg` (`MCRxBarrier`) | `FlushSound` | a post between timeout and `epoch_no_sem_post` releases the next flush |
| `Receiver_first.cfg` (`MCReceiver`) | `AlarmMeansSilence` | a node heard once is reported as failed |
| `Receiver_noflush.cfg` (`MCReceiver`) | `AlarmSure` | without a flush a waiting heartbeat is overlooked |
| `Receiver_parts.cfg` (`MCReceiver`) | `CheckAnswered` | a request as the wrapper sends it ends the server thread |
| `SenderBlock_digits.cfg` (`MCSenderBlock`) | `ValidAsWritten` | a shorter number keeps the old last digit |
| `SenderBlock_clock.cfg` (`MCSenderBlock`) | `WaitsForSignal` | a monotonic timeout is long past on the realtime clock |
| `ReceiverMain_stale.cfg` (`MCReceiverMain`) | `Established` | the script reports all connections as established while a port it found belongs to none |
| `ReceiverMain_crash.cfg` (`MCReceiverMain`) | `Survives` | one signal after a complete start-up may kill the process: the table is destroyed while the threads that use it run |
| `SampleHb_overshoot.cfg` (`SampleHb`) | `SentEpochSet` | `sent_epoch` is not set to the epoch sent but runs ahead of it (1, 2, 4, 7 for successive epochs), so that a late sender is hardly ever blocked |
| `SampleHb_stalls.cfg` (`SampleHb`) | `SilentAsked` | a checker delayed over the end of an epoch between its two readings of the clock never checks that epoch |
| `SampleHb_unprepared.cfg` (`SampleHb`) | `UnpreparedPasses` | heartbeats are blocked before the files of the tracker are written |
| `Tg3Tx_full.cfg` (`Tg3Tx`) | `NeverFull` | with a wake threshold below a largest packet, an awake queue meets a full ring ("BUG! Tx Ring full when queue awake!", `tg3.c:7916`) |
| `Tg3Tx_stuck.cfg` (`Tg3Tx`) | `QueueAlwaysWakes` | that stop has no second look: `tg3_tx` may have freed all slots before it, and nobody wakes the queue |
| `Tg3Life_io.cfg` (`Tg3Life`) | `IoErrorEnds` | `tg3_io_error_detected` disables NAPI and then waits for a reset task that waits for NAPI |
| `Tg3Life_msi.cfg` (`Tg3Life`) | `MsiTestQuiet` | `tg3_test_msi` rebuilds the rings under a poll that the handler of the pin has started |
| `Tg3Life_resume.cfg` (`Tg3Life`) | `XmitBacked` | `tg3_resume` wakes the transmit queues before the chip and the rings are there |
| `Osd_upepoch.cfg` (`MCOsd`) | `UpEpochIsUpFrom` | one batch of maps has the booting OSD up and then down; `up_epoch` stays, and after the next boot it is not the epoch since which the OSD is up |
| `Osd_downboot.cfg` (`MCOsd`) | `BootsAgain` | marked down while it boots, the OSD does not send its boot message again; it waits for a new connection to the monitor or a change of `noup` |

With `MAX_SKB_FRAGS = 0` in `Tg3Tx_full.cfg` and `Tg3Tx_stuck.cfg` the threshold is
not below a largest packet, as with the driver's default sizes, and both properties hold.

**Fairness.** `RxBarrier`: weak fairness of the kernel (rings, TCP), of the queue
thread and of the caller inside `barrier_flush`. Weak is enough because no
modelled step is disabled and enabled again for ever: loss is repaired by
retransmission, and only finitely many heartbeats compete for the queue.
`Receiver`: the server thread, and an application that sends its request and
reads its reply; nothing is assumed of retries. `SenderBlock`: the clock, the
end of transmissions, the server thread and the client's reading of a reply.
`ReceiverMain`: main, handler, script, hook and server are weakly fair; every
source port is tried again and again (strong fairness of `Connect(p)`), which is
the random choice of ports by the kernel: without it a ring might never be found.
`Tg3Tx`, `Tg3Rx`: the lock holder, the chip's sending and the polls. `Tg3Life`:
steps of an operation that has begun, the work queue and polls; `napi_disable`
polls for its turn, so it is strongly fair. `Osd`: each thread that waits for
`osd_lock` or `heartbeat_lock` gets it in the end (strong fairness: the locks are
released again and again); monitor and peers are weakly fair. `OsdPgs`: every
kind of thread is weakly fair. Whether anyone starts a flush, a check, a heartbeat
or an operation is left open everywhere.

## 4. Proofs

All are for arbitrary constants that satisfy `ConstantsAssumption` (at least
one ring, row and place in the queue).

* `Typing` (`TypeOK`) and `Bounded`: typing; no epoch is on its way before it is
  flushed, and packets belong to their ring.
* `MessagesFlush` (`RingFlushed`), with every fault switched on. `RingFlushed`
  alone is not inductive: it says nothing of messages still on their way. The
  strengthening `FlushInv` adds that a current message is behind the old
  heartbeats inside the ring (`RingOrder`) and inside the queue, at which point
  the ring has none left (`QueueOrder`).
* `Rounds`, for `Disciplined` use: the caller waits for every flush, leaves no
  epoch out, and TCP repeats lost segments only. `RoundsInv` consists of
  `TokenInv` (the current message of a flow is in one place: unsent, in its ring,
  in the queue, or delivered), `PhaseInv` (what the semaphore and the caller's
  position mean), `RoundInv` (which rows carry `array_round`, and that the round
  advances with the division of the epoch by `ARRAY_SIZE`) and `DeclaredInv`.
  From it follow `DeclaredSound`, `DeclaredComplete` and `FlushIsSound`.
  `RxBarrier_latepost.cfg` and `RxBarrier_retransmit.cfg` show that the conditions
  on timeouts and on TCP are needed.
  So is the one on epochs: without an epoch of the last row the round never
  advances, and the messages of an epoch `ARRAY_SIZE` later look redundant.
* `Refinement`: `Disciplined /\ Spec => ImplementsFlush`. The heartbeats that are
  pending are those in the rings and the queue; every step of `RxBarrier` is a
  step of `RxFlush` or changes nothing of it.

Only model-checked: liveness (`FlushCompletes`, `CheckAnswered`,
`HeartbeatReturns`), which needs fairness, and so far everything about
`Receiver` and `SenderBlock`.

## 5. Assumptions

* Heartbeats and messages of one ring keep their order; all go to one queue and
  one thread.
* `Receiver` treats a table access as atomic. The hash table library is a binary
  without a lock; `ReceiverMain` has the accesses that meet a destroyed table.
* `rx_rounds` and `snd_timely` rest on assumptions the code does not enforce
  (`Disciplined`; a timely machine whose two clocks agree, `RealOffset = 0`). The
  configurations above show what happens without them; with the offset a real
  machine has, `SenderBlock_clock.cfg` is the normal case.
* `sample_epochs`: the checker is not delayed over the end of an epoch between its
  two readings of the clock (`CheckerStalls = FALSE`).
* `tg3_tx`: `TxAssumption` keeps `tg3_tso_bug`'s estimate of three descriptors per
  segment within the ring. With a smaller ring it waits for ever.
* `tg3_rx`: the standard ring only; where a vector's own ring wraps is a choice.
  `tg3_life`: a chip with APE, PTP clock and firmware, one vector.
* `osd_maps`: SafeTimer holds a process that is dead for invalid, and may hold one
  that lives for either (`st_get_valid`). While a SafeTimer service does not answer,
  its callers wait for ever, so progress is promised for services that answer. That
  the OSD is marked down too often (`osd_max_markdown_count`) is a choice, not a count.
* `osd_pgs`: an OSD within one pool; sessions send a few operations each, chosen
  by the scenario. Interleavings are free, the combination of events is not. No
  collection has the removal flag (`OSD.cc:3175`), which the OSD itself never sets.
  No client operation is a replayed one. In `update_waiting_for_pg` the lists of a
  child that is there already are replaced, as by the code's `swap`; no behaviour of
  the model has one.
* One peer stands for the two of `st_sender_api.c`; the monotonic and the boot
  clock are one (no suspend).
* Smaller hazards that no property is about: the server would take -1 from
  `validate_connection` for success (`barrier.c:223`), if the `fclose(NULL)` before it
  did not end the process; `StSenderWrapper` repeats a
  request after 100 ms, and the signal of a repetition is left over (`:40`); the
  valid time comes from the monotonic clock and is compared with
  `ktime_get_boottime`, which also counts suspended time (`st_netfilter.c:24`); the
  probe is registered before the task it signals is looked up (`st_kprobe.c:76`);
  the sample sender waits for ever for a lost answer (`sender.c:63`), the sample
  checker never reads the answer to its question (`receiver.c:230`), and a thread
  may be cancelled under the lock (`receiver.c:303`); the OSD compares the number a
  service on port 5678 returns with a time of the wall clock (`OSD.cc:4112`). That
  service is not in the repository, so the unit of its answer is unknown; the other
  calls of the OSD into SafeTimer use milliseconds of the monotonic clock.
* Counters do not overflow: `array_round` is an `int` that grows once per 100
  epochs.

## 6. Not modelled

The definitions listed in `PROJECT.json` stand for about 9,900 of the 31,900 lines
of the implementation. 27,700 of those are the two vendored files; of SafeTimer's
own 4,200 lines about 1,800 are modelled. What is left out:

* `kmodule/tg3.c`: registers, PHY and link, NVRAM, firmware upload, APE messages,
  self tests beyond what they do to the life of the device, statistics, ethtool
  queries, PCI ids. They are sequences of register accesses whose effect is the
  hardware's; there is no state of the driver to relate them to.
* `ceph/OSD.cc`: admin socket and tell commands, statistics, heartbeat map,
  scrubbing and backfill reservations, snapshot trimming, classes, mkfs,
  capabilities, and the sharing of maps with pings. Peering, the
  execution of operations and the object store are in files the repository does not have.
* `hdfs/*.java`: everything but the calls into SafeTimer is HDFS.
* `src/drop.c` and the drop readers: compiled only with `CONFIG_DROP`, which is
  commented out, and called by nothing in this version.
* `barrier_ring_checker`: replaced by `barrier_ring_checker_mapping`.
* `hb_rps_kretprobe`: stateless; its effect is an assumption of `RxBarrier`.
* Loading and unloading of the kernel modules, the sender's start-up and its
  signal handler, and the end of the sample application.
* The hash table library, a binary; measurement probes and scripts other than
  `bruteforce_2cpus.sh`.
