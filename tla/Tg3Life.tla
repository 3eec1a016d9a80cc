------------------------------ MODULE Tg3Life ------------------------------
(***************************************************************************)
(* The life of the NIC driver (kmodule/tg3.c): the probe, open, close,     *)
(* changes of the configuration, suspend and resume, the recovery from PCI *)
(* errors and the removal run one at a time (the probe before there is a   *)
(* device, the others under the rtnl lock); beside them run the reset task *)
(* on a work queue, interrupts and polls, the timer and the watchdog of    *)
(* the stack.  tp->lock protects the chip, and a disabled NAPI the rings.  *)
(*                                                                         *)
(* An operation is a list of steps, in the order of its code, to which     *)
(* failures append their way back.  A step that holds tp->lock is atomic:  *)
(* everyone who looks at what it changes takes the lock.  All vectors are  *)
(* one NAPI and one interrupt; a handler's own mask is not kept.  The chip *)
(* is one with an APE, a PTP clock and a firmware to load.                 *)
(***************************************************************************)
EXTENDS Naturals, Sequences, FiniteSets

CONSTANTS
  MaxRare   \* bound: so many kinds of rare events in one behaviour (Note)

VARIABLES
  op, steps,    \* the operation under rtnl, and what it still has to do
  state,        \* "absent", "up", "suspended", "error", "reset" or "gone"
  running,      \* netif_running
  napi,         \* "off" (disabled or deleted), "idle" or "poll"
  irq_sync, ints, irq,   \* irq_sync; interrupts are enabled; requested
  mode,         \* "off", "intx", "msi" or "msix": USING_MSI, USING_MSIX
  mem, rings,   \* what tg3_alloc_consistent has got; the rings have their buffers
  res,          \* what tg3_init_one and tg3_open have acquired for good
  chip,         \* the chip runs, and may write to the rings
  tx,           \* the tx queues are awake
  timer,
  pending,      \* RESET_TASK_PENDING
  work,         \* tg3_reset_task: "none", "queued", "napi", "lock" or "end"
  bug,          \* what went wrong, or "none"
  seen          \* history: the rare events that have happened (Note)

own == <<mode, res>>
dev == <<own, state, running, irq, mem, timer>>
hw == <<irq_sync, ints, rings, chip, tx>>
reset == <<pending, work, seen>>
vars == <<op, steps, dev, napi, hw, reset, bug>>

Init ==
  /\ op = "none" /\ steps = <<>> /\ state = "absent" /\ running = FALSE
  /\ napi = "off" /\ irq_sync = FALSE /\ ints = FALSE /\ irq = FALSE
  /\ mode = "off" /\ res = {} /\ mem = {} /\ rings = FALSE /\ chip = FALSE /\ tx = FALSE /\ timer = FALSE
  /\ pending = FALSE /\ work = "none" /\ bug = "none" /\ seen = {}

-----------------------------------------------------------------------------
(* Pieces of steps.  Failed(b, what) notes the first thing that goes wrong. *)

Failed(b, what) == bug' = IF bug = "none" /\ b THEN what ELSE bug

\* Notes a rare event, one that the driver is not made for.
Note(b, event) ==
  /\ seen' = IF b THEN seen \cup {event} ELSE seen
  /\ Cardinality(seen') <= MaxRare

tg3_full_lock_quiesce == irq_sync' = TRUE

\* napi_enable: BUG_ON unless it is disabled.
napi_enable == napi' = "idle"
EnableBug == napi # "off"

tg3_disable_ints == ints' = FALSE
tg3_enable_ints == irq_sync' = FALSE /\ ints' = TRUE

\* tg3_halt stops the blocks of the chip and resets it; tg3_init_hw, which has
\* interrupts disabled, too, fills the rings anew and lets the chip run, or fails.
tg3_abort_hw == tg3_disable_ints /\ chip' = FALSE
tg3_chip_reset == chip' = FALSE
tg3_halt == tg3_abort_hw /\ tg3_chip_reset
tg3_free_rings == rings' = FALSE
tg3_init_rings == rings' = TRUE
tg3_reset_hw == tg3_init_rings /\ chip' = TRUE
\* A failure of the chip's reset, of tg3_init_rings, which frees what it has got,
\* or later, of a firmware or the PHY, when the chip runs.  tg3_restart_hw halts
\* the chip then; tg3_reset_task and the loopback test leave it.
tg3_init_hw_fails == tg3_disable_ints /\ \E r, c \in BOOLEAN : (c => r) /\ rings' = r /\ chip' = c
RestartHwFails == tg3_halt /\ rings' \in BOOLEAN
\* A poll uses the rings.
RingsInUse == napi = "poll"

\* The pieces of tg3_alloc_consistent.
Mem == {"stats", "status", "tx", "rx"}

\* tg3_netif_start, after tg3_init_hw under the lock.
tg3_netif_start == tx' = TRUE /\ napi_enable /\ tg3_enable_ints

\* Steps of operations that several of them share.
tg3_stop == <<"cancel", "netif stop", "timer stop", "stop hw", "free">>
dev_close == <<"close">> \o tg3_stop
tg3_start(test) == <<"ints init", "alloc", "mem tx", "mem rx", "napi", "irqs", "init hw">> \o test \o <<"go">>

\* Mutant: NAPI is not enabled for dev_close.
restartFailsQuiet == <<"timer stop">> \o dev_close

restart_fails == <<"timer stop", "give up">> \o dev_close

Continue == steps' = Tail(steps) /\ op' = IF Len(steps) = 1 THEN "none" ELSE op
Instead(way) == steps' = way /\ op' = IF way = <<>> THEN "none" ELSE op
At(step) == steps # <<>> /\ Head(steps) = step
Ahead(step) == \E i \in DOMAIN steps : steps[i] = step

-----------------------------------------------------------------------------
(* Operations begin *)

Begin(name, way) ==
  /\ op = "none" /\ op' = name /\ steps' = way
  /\ IF name = "io error" THEN Note(work # "none", "reset in io error")
     ELSE IF name \in {"open", "close"} \/ (name = "remove" /\ running /\ state # "gone")
     THEN Note(state \in {"error", "reset"}, "user in recovery")
     ELSE Note(name = "remove" /\ "pci" \notin res, "removed without pci")
  /\ UNCHANGED <<napi, hw, pending, work, bug, mode, irq, mem, timer>>

\* pci_enable_device to register_netdev; only then there is someone else.
tg3_init_one ==
  /\ state = "absent" /\ UNCHANGED <<state, running, res>>
  /\ Begin("probe", <<"pci", "netdev", "regs", "ape", "chip", "register">>)

\* rtnl is free between the steps of the recovery from a PCI error, too.
User == state \in {"up", "error", "reset", "gone"}

\* __dev_open sets the bit that netif_running reads, before tg3_open; a device
\* that is detached cannot be opened.
tg3_open ==
  /\ User /\ ~running /\ "present" \in res /\ running' = TRUE /\ UNCHANGED <<state, res>>
  /\ Begin("open", <<"firmware", "power up">> \o tg3_start(<<"test msi">>) \o <<"ptp">>)
tg3_close ==
  /\ User /\ running /\ UNCHANGED <<running, state, res>>
  /\ Begin("close", dev_close)

\* Changes that restart the hardware.
Reconfigure ==
  /\ state = "up" /\ running /\ UNCHANGED <<running, state, res>>
  /\ Begin("restart", <<"netif stop", "restart locked">>)
tg3_set_ringparam == Reconfigure
tg3_set_pauseparam == Reconfigure
tg3_change_mtu == Reconfigure

\* tg3_self_test, offline.
tg3_self_test ==
  /\ state = "up" /\ running /\ UNCHANGED <<running, state, res>>
  /\ Begin("self test", <<"netif stop", "test", "test interrupt", "restart unlocked">>)

\* Neither __dev_close nor __dev_open is called: netif_running stays TRUE.
tg3_set_channels ==
  /\ state = "up" /\ running /\ UNCHANGED <<running, state, res>>
  /\ Begin("channels", tg3_stop \o tg3_start(<<>>))

tg3_suspend ==
  /\ state = "up" /\ running /\ state' = "suspended" /\ UNCHANGED <<running, res>>
  /\ Begin("suspend", <<"cancel", "netif stop", "timer stop", "quiesce", "halt", "power down">>)
\* tg3_suspend has done nothing, and state is still "up", if the device is down.
tg3_resume ==
  /\ state = "suspended" /\ state' = "up" /\ UNCHANGED <<running, res>>
  /\ Begin("resume", IF running THEN <<"attach", "restart">> ELSE <<"unlock">>)

\* The way on after a permanent failure does not depend on netif_running;
\* dev_close does.
tg3_io_error_detected ==
  /\ state = "up" /\ UNCHANGED <<running, res>>
  /\ \E perm \in BOOLEAN :
       LET quiet == IF running THEN <<"netif stop", "timer stop", "cancel", "halt">> ELSE <<>>
           done == IF ~perm THEN <<"disable">>
                   ELSE <<"napi enable">> \o IF running THEN dev_close ELSE <<>>
       IN  /\ state' = IF perm THEN "gone" ELSE "error"
           /\ Begin("io error", quiet \o done)

\* pci_enable_device, and tg3_power_up of a device that runs.
tg3_io_slot_reset ==
  /\ state = "error" /\ UNCHANGED running
  /\ \E enabled, up \in BOOLEAN :
       LET ok == enabled /\ (running => up)
           way == IF ok \/ ~running THEN <<"unlock">> ELSE <<"napi enable">> \o dev_close
       IN  /\ res' = IF enabled THEN res \cup {"pci"} ELSE res
           /\ state' = (IF ok THEN "reset" ELSE "gone") /\ Begin("slot reset", way)

\* Mutant: the timer is not started.
ioResumeNoTimer ==
  /\ state = "reset" /\ state' = "up" /\ UNCHANGED <<running, res>>
  /\ Begin("io resume", IF running THEN <<"restart unlocked">> ELSE <<"unlock">>)

tg3_io_resume ==
  /\ state = "reset" /\ state' = "up" /\ UNCHANGED <<running, res>>
  /\ Begin("io resume", IF running THEN <<"restart">> ELSE <<"unlock">>)

\* unregister_netdev closes the device; then tp is freed.  Nobody uses the device
\* any more when its driver is removed, but for the recovery.
tg3_remove_one ==
  /\ state \in {"up", "error", "reset", "gone"} /\ "registered" \in res
  /\ state' = "gone" /\ res' = res \ {"fw"} /\ UNCHANGED running
  /\ Begin("remove", <<"cancel">> \o (IF running THEN dev_close ELSE <<>>) \o <<"free netdev">>)

tg3_shutdown ==
  /\ state = "up" /\ state' = "gone" /\ res' = res \ {"present"} /\ UNCHANGED running
  /\ Begin("shutdown", (IF running THEN dev_close ELSE <<>>) \o <<"unlock">>)

OpBegins ==
  \/ tg3_init_one \/ tg3_open \/ tg3_close \/ tg3_set_ringparam
  \/ tg3_set_pauseparam \/ tg3_change_mtu \/ tg3_self_test \/ tg3_set_channels
  \/ tg3_suspend \/ tg3_resume \/ tg3_io_error_detected \/ tg3_io_slot_reset
  \/ tg3_io_resume \/ tg3_remove_one \/ tg3_shutdown

-----------------------------------------------------------------------------
(* tg3_init_one.  A failure goes to one of the labels at its end. *)

ErrOut(label) == res \ CASE label = "disable_pdev" -> {"pci"}
                         [] label = "free_res" -> {"pci", "regions"}
                         [] label = "free_dev" -> {"pci", "regions", "netdev"}
                         [] label = "iounmap" -> {"pci", "regions", "netdev", "regs"}
                         [] label = "apeunmap" -> {"pci", "regions", "netdev", "regs", "ape"}
Acquires(r) == Continue /\ res' = res \cup r
Aborts(label) == Instead(<<>>) /\ res' = ErrOut(label)
Probe(step) == At(step) /\ UNCHANGED <<state, running, irq, mem, mode, timer, napi, ints, rings, chip, tx, reset, bug>>

ProbePci ==
  /\ Probe("pci") /\ UNCHANGED irq_sync
  /\ \/ Acquires({"pci", "regions"})
     \/ Instead(<<>>) /\ UNCHANGED res
     \/ Aborts("disable_pdev")
ProbeNetdev ==
  /\ Probe("netdev")
  /\ \/ Acquires({"netdev"}) /\ irq_sync' = TRUE
     \/ Aborts("free_res") /\ UNCHANGED irq_sync
ProbeRegs ==
  /\ Probe("regs") /\ UNCHANGED irq_sync
  /\ Acquires({"regs"}) \/ Aborts("free_dev")
ProbeApe ==
  /\ Probe("ape") /\ UNCHANGED irq_sync
  /\ Acquires({"ape"}) \/ Aborts("iounmap")
\* tg3_get_invariants, the DMA masks, tg3_get_device_address and tg3_test_dma.
ProbeChip ==
  /\ Probe("chip") /\ UNCHANGED irq_sync
  /\ Acquires({}) \/ Aborts("apeunmap")
register_netdev ==
  /\ At("register")
  /\ \/ Acquires({"registered", "present"}) /\ state' = "up"
     \/ Aborts("apeunmap") /\ UNCHANGED state
  /\ UNCHANGED <<running, irq, mem, mode, timer, napi, hw, reset, bug>>

-----------------------------------------------------------------------------
(* tg3_open and tg3_start *)

\* Failure: __dev_open clears the bit; tg3_set_channels ignores the result.
StartFails == running' = (running /\ op # "open")
\* ptp_clock_register comes after a failed tg3_start, too.
FailedWay == IF op = "open" THEN <<"ptp">> ELSE <<>>
StartFailed == Note(TRUE, IF op = "open" THEN "open fails" ELSE "channels fail")

\* Once; the chip cannot do without it.
tg3_request_firmware ==
  /\ At("firmware")
  /\ \/ Acquires({"fw"}) /\ UNCHANGED running
     \/ Instead(<<>>) /\ "fw" \notin res /\ StartFails /\ UNCHANGED res
  /\ UNCHANGED <<mode, state, irq, mem, timer, napi, hw, reset, bug>>

tg3_power_up ==
  /\ At("power up")
  /\ \/ Continue /\ tg3_disable_ints /\ UNCHANGED running
     \/ Instead(<<>>) /\ StartFails /\ UNCHANGED ints
  /\ UNCHANGED <<own, state, irq, mem, timer, napi, irq_sync, rings, chip, tx, reset, bug>>

\* MSI-X if the chip has it and tg3_enable_msix gets its vectors; else MSI if
\* pci_enable_msi succeeds; else the pin.
tg3_ints_init ==
  /\ At("ints init") /\ Continue
  /\ \E m \in {"msix", "msi", "intx"} : mode' = m
  /\ UNCHANGED <<res, state, running, irq, mem, timer, napi, hw, reset, bug>>

\* Each piece, or the way back from where it is missing.
Piece(step, pieces) ==
  /\ At(step)
  /\ \/ Continue /\ mem' = mem \cup pieces /\ UNCHANGED seen
     \/ /\ Instead(<<"free consistent">> \o FailedWay) /\ StartFailed
        /\ mem' = IF step = "alloc" THEN mem \cup {"stats"} ELSE mem
  /\ UNCHANGED <<own, state, running, irq, timer, napi, hw, pending, work, bug>>
tg3_alloc_consistent == Piece("alloc", {"stats", "status"})
tg3_mem_tx_acquire == Piece("mem tx", {"tx"})
tg3_mem_rx_acquire == Piece("mem rx", {"rx"})

\* The end of the ways back: tg3_free_consistent and tg3_ints_fini.
tg3_free_consistent ==
  /\ At("free consistent") /\ Continue
  /\ mem' = {} /\ mode' = "off"
  /\ UNCHANGED <<res, state, running, irq, timer, napi, hw, reset, bug>>

tg3_napi_init ==
  /\ At("napi") /\ Continue /\ napi_enable
  /\ UNCHANGED <<dev, hw, reset, bug>>

tg3_request_irq ==
  /\ At("irqs")
  /\ \/ Continue /\ irq' = TRUE /\ UNCHANGED seen
     \/ Instead(<<"napi fini", "free consistent">> \o FailedWay) /\ StartFailed /\ UNCHANGED irq
  /\ UNCHANGED <<own, state, running, mem, timer, napi, hw, pending, work, bug>>

\* Mutant: the buffers of the rings are not freed.
startInitHwKeeps ==
  /\ At("init hw")
  /\ \/ Continue /\ tg3_reset_hw /\ UNCHANGED seen
     \/ /\ Instead(<<"free irqs", "napi fini", "free consistent">> \o FailedWay)
        /\ chip' = FALSE /\ rings' \in BOOLEAN /\ StartFailed
  /\ tg3_disable_ints
  /\ Failed(RingsInUse, "rings in use")
  /\ UNCHANGED <<dev, napi, irq_sync, tx, pending, work>>

StartInitHw ==
  /\ At("init hw")
  /\ \/ Continue /\ tg3_reset_hw /\ tg3_disable_ints /\ UNCHANGED seen
     \/ /\ Instead(<<"free irqs", "napi fini", "free consistent">> \o FailedWay)
        /\ tg3_halt /\ tg3_free_rings /\ StartFailed
  /\ Failed(RingsInUse, "rings in use")
  /\ UNCHANGED <<dev, napi, irq_sync, tx, pending, work>>

\* The way back of tg3_start after tg3_test_msi, which has freed the interrupt.
TestMsiFails == Instead(<<"start halts", "napi fini", "free consistent">> \o FailedWay) /\ StartFailed

\* For MSI only: tg3_test_interrupt enables the interrupts for its own handler, and
\* the first or the second request_irq may fail.  Without an answer the driver
\* requests the handler of the pin.
tg3_test_msi ==
  /\ At("test msi")
  /\ \/ mode # "msi" /\ Continue /\ UNCHANGED <<mode, irq_sync, ints, irq, seen>>
     \/ mode = "msi" /\ Continue /\ irq_sync' = FALSE /\ tg3_disable_ints /\ UNCHANGED <<mode, irq, seen>>
     \/ /\ mode = "msi" /\ mode' = "intx" /\ irq_sync' = FALSE /\ tg3_disable_ints
        /\ steps' = <<"reset for pin">> \o Tail(steps) /\ UNCHANGED <<op, irq, seen>>
     \/ /\ mode = "msi" /\ mode' \in {"msi", "intx"} /\ irq_sync' \in {irq_sync, FALSE}
        /\ mode' = "intx" => ~irq_sync'
        /\ TestMsiFails /\ tg3_disable_ints /\ irq' = FALSE
  /\ UNCHANGED <<res, state, running, mem, timer, napi, rings, chip, tx, pending, work, bug>>

\* The chip is reset for the pin, under the lock, with NAPI enabled.
TestMsiResets ==
  /\ At("reset for pin") /\ tg3_full_lock_quiesce
  /\ \/ Continue /\ tg3_disable_ints /\ tg3_reset_hw /\ UNCHANGED <<irq, seen>>
     \/ TestMsiFails /\ tg3_init_hw_fails /\ irq' = FALSE
  /\ Failed(irq_sync \/ RingsInUse, IF irq_sync THEN "BUG_ON irq_sync" ELSE "rings in use")
  /\ UNCHANGED <<own, state, running, mem, timer, napi, tx, pending, work>>

StartHalts ==
  /\ At("start halts") /\ Continue /\ tg3_halt /\ tg3_free_rings
  /\ Failed(RingsInUse, "rings in use")
  /\ UNCHANGED <<dev, napi, irq_sync, tx, reset>>

StartGoes ==
  /\ At("go") /\ Continue
  /\ timer' = TRUE /\ tg3_enable_ints /\ tx' = TRUE
  /\ UNCHANGED <<own, state, running, irq, mem, napi, rings, chip, reset, bug>>

FreeIrqs ==
  /\ At("free irqs") /\ Continue /\ irq' = FALSE
  /\ UNCHANGED <<own, state, running, mem, timer, napi, hw, reset, bug>>

\* napi_disable waits for the poll, and for whoever else has disabled it.
tg3_napi_fini ==
  /\ At("napi fini") /\ napi = "idle" /\ Continue /\ napi' = "off"
  /\ UNCHANGED <<dev, hw, reset, bug>>

\* The end of tg3_open.  A clock that is registered already is forgotten, not
\* unregistered.
ptp_clock_register ==
  /\ At("ptp") /\ Continue
  /\ running' = (mode # "off") /\ res' = res \cup {"ptp"}
  /\ UNCHANGED <<mode, state, irq, mem, timer, napi, hw, reset, bug>>

-----------------------------------------------------------------------------
(* Steps of the others *)

\* __dev_close clears the bit; tg3_close begins with tg3_ptp_fini.
CloseBegins ==
  /\ At("close") /\ Continue /\ running' = FALSE /\ res' = res \ {"ptp"}
  /\ UNCHANGED <<mode, state, irq, mem, timer, napi, hw, reset, bug>>

\* cancel_work_sync takes the task off the queue, or waits for its end.
tg3_reset_task_cancel ==
  /\ At("cancel") /\ work \in {"none", "queued"} /\ Continue
  /\ pending' = FALSE /\ work' = "none"
  /\ UNCHANGED <<dev, napi, hw, seen, bug>>

tg3_netif_stop ==
  /\ At("netif stop") /\ napi = "idle" /\ Continue
  /\ napi' = "off" /\ tx' = FALSE
  /\ UNCHANGED <<dev, irq_sync, ints, rings, chip, reset, bug>>

tg3_timer_stop ==
  /\ At("timer stop") /\ Continue /\ timer' = FALSE
  /\ UNCHANGED <<own, state, running, irq, mem, napi, hw, reset, bug>>

\* Mutant: the rings are freed before the interrupt handlers are gone.
StopHwKeepsChip ==
  /\ At("stop hw") /\ Continue
  /\ tg3_full_lock_quiesce /\ tg3_disable_ints /\ tg3_free_rings
  /\ Failed(irq_sync, "BUG_ON irq_sync")
  /\ UNCHANGED <<dev, napi, chip, tx, reset>>

StopHw ==
  /\ At("stop hw") /\ Continue
  /\ tg3_full_lock_quiesce /\ tg3_disable_ints /\ tg3_halt /\ tg3_free_rings
  /\ Failed(irq_sync, "BUG_ON irq_sync")
  /\ UNCHANGED <<dev, napi, tx, reset>>

StopFrees ==
  /\ At("free") /\ Continue /\ irq' = FALSE /\ mode' = "off" /\ mem' = {}
  /\ Failed(~irq, "free_irq twice")
  /\ UNCHANGED <<res, state, running, timer, napi, hw, reset>>

\* tg3_suspend: full lock with irq_sync, interrupts off.
SuspendQuiesces ==
  /\ At("quiesce") /\ Continue
  /\ tg3_full_lock_quiesce /\ tg3_disable_ints
  /\ Failed(irq_sync, "BUG_ON irq_sync")
  /\ UNCHANGED <<dev, napi, rings, chip, tx, reset>>
\* netif_device_detach, tg3_halt.
HaltLocked ==
  /\ At("halt") /\ Continue /\ tg3_halt /\ res' = res \ {"present"}
  /\ UNCHANGED <<mode, state, running, irq, mem, timer, napi, irq_sync, rings, tx, reset, bug>>

\* When it fails, the device goes on.
tg3_power_down_prepare ==
  /\ At("power down")
  /\ \/ Continue /\ UNCHANGED state
     \/ Instead(<<"restart">>) /\ state' = "up"
  /\ UNCHANGED <<own, running, irq, mem, timer, napi, hw, reset, bug>>

\* tg3_resume begins with this, and wakes the queues of a device that runs.
netif_device_attach ==
  /\ At("attach") /\ Continue /\ res' = res \cup {"present"} /\ tx' = TRUE
  /\ UNCHANGED <<mode, state, running, irq, mem, timer, napi, irq_sync, ints, rings, chip, reset, bug>>

\* tg3_suspend, tg3_resume and tg3_io_resume: the hardware, netif_device_attach
\* (but for tg3_resume), the timer and the queues under one lock.
tg3_restart_hw ==
  /\ At("restart")
  /\ \/ Continue /\ tg3_reset_hw /\ timer' = TRUE /\ tg3_netif_start /\ res' = res \cup {"present"}
     \/ Instead(restart_fails) /\ RestartHwFails /\ UNCHANGED <<irq_sync, napi, tx, timer, res>>
  /\ Failed(EnableBug, "BUG_ON napi_enable")
  /\ UNCHANGED <<mode, state, running, irq, mem, reset>>

\* tg3_halt, tg3_restart_hw and tg3_netif_start under one lock, with irq_sync.
RestartLocked ==
  /\ At("restart locked")
  /\ \/ Continue /\ tg3_reset_hw /\ tg3_netif_start
     \/ Instead(restart_fails) /\ RestartHwFails /\ tg3_full_lock_quiesce /\ UNCHANGED <<napi, tx>>
  /\ Failed(irq_sync \/ EnableBug, IF irq_sync THEN "BUG_ON irq_sync" ELSE "BUG_ON napi_enable")
  /\ UNCHANGED <<dev, reset>>

\* tg3_self_test: tests under the lock, after which the chip runs as
\* tg3_test_loopback has left it; then the interrupt, then as above with the lock
\* taken again.
TestLocked ==
  /\ At("test") /\ Continue /\ tg3_full_lock_quiesce /\ tg3_disable_ints
  /\ tg3_reset_hw \/ tg3_init_hw_fails
  /\ Failed(irq_sync, "BUG_ON irq_sync")
  /\ UNCHANGED <<dev, napi, tx, reset>>
\* The handler is replaced twice; when request_irq fails, there is none.
tg3_test_interrupt ==
  /\ At("test interrupt") /\ Continue /\ tg3_disable_ints
  /\ \/ irq_sync' = FALSE /\ UNCHANGED <<irq, seen>>
     \/ irq_sync' \in {irq_sync, FALSE} /\ irq' = FALSE /\ Note(TRUE, "irq lost in test")
  /\ Failed(~irq, "free_irq twice")
  /\ UNCHANGED <<own, state, running, mem, timer, napi, rings, chip, tx, pending, work>>
TestRestarts ==
  /\ At("restart unlocked")
  /\ \/ Continue /\ tg3_reset_hw /\ tg3_netif_start
     \/ Instead(restart_fails) /\ RestartHwFails /\ UNCHANGED <<irq_sync, napi, tx>>
  /\ Failed(EnableBug, "BUG_ON napi_enable")
  /\ UNCHANGED <<dev, reset>>

\* Mutant: irq_sync is left set.
GiveUpSync ==
  /\ At("give up") /\ Continue /\ napi_enable
  /\ Failed(EnableBug, "BUG_ON napi_enable")
  /\ UNCHANGED <<dev, hw, reset>>

\* The end of tg3_restart_hw's failure, before dev_close.
GiveUp ==
  /\ At("give up") /\ Continue
  /\ irq_sync' = FALSE /\ napi_enable
  /\ Failed(EnableBug, "BUG_ON napi_enable")
  /\ UNCHANGED <<dev, ints, rings, chip, tx, reset>>

\* Before dev_close of the PCI error handlers.
NapiEnable ==
  /\ At("napi enable") /\ Continue /\ napi_enable
  /\ Failed(EnableBug, "BUG_ON napi_enable")
  /\ UNCHANGED <<dev, hw, reset>>

pci_disable_device ==
  /\ At("disable") /\ Continue /\ res' = res \ {"pci"}
  /\ UNCHANGED <<mode, state, running, irq, mem, timer, napi, hw, reset, bug>>
rtnl_unlock == At("unlock") /\ Continue /\ UNCHANGED <<dev, napi, hw, reset, bug>>

\* tp is gone, and with it the work item; then the PCI device is given back.
FreeNetdev ==
  /\ At("free netdev") /\ Continue /\ state' = "absent" /\ res' = res \cap {"ptp"} /\ napi' = "off" /\ irq_sync' = FALSE
  /\ Failed(work # "none" \/ timer \/ "pci" \notin res,
            IF work # "none" \/ timer THEN "used without tp" ELSE "PCI device disabled twice")
  /\ UNCHANGED <<mode, running, irq, mem, timer, ints, rings, chip, tx, reset>>

OpStep ==
  \/ ProbePci \/ ProbeNetdev \/ ProbeRegs \/ ProbeApe \/ ProbeChip \/ register_netdev
  \/ tg3_request_firmware \/ tg3_power_up \/ tg3_ints_init \/ tg3_alloc_consistent
  \/ tg3_mem_tx_acquire \/ tg3_mem_rx_acquire \/ tg3_napi_init \/ tg3_request_irq
  \/ StartInitHw \/ tg3_test_msi \/ TestMsiResets \/ StartHalts \/ StartGoes \/ FreeIrqs \/ tg3_napi_fini
  \/ tg3_free_consistent \/ ptp_clock_register
  \/ CloseBegins \/ tg3_reset_task_cancel \/ tg3_netif_stop \/ tg3_timer_stop
  \/ StopHw \/ StopFrees \/ SuspendQuiesces \/ HaltLocked \/ tg3_power_down_prepare
  \/ netif_device_attach \/ tg3_restart_hw \/ RestartLocked \/ TestLocked \/ tg3_test_interrupt \/ TestRestarts
  \/ GiveUp \/ NapiEnable \/ pci_disable_device \/ rtnl_unlock \/ FreeNetdev

-----------------------------------------------------------------------------
(* The reset task *)

\* The operation has made its last tg3_reset_task_cancel and goes on to stop the
\* device: to halt the chip, to free the interrupt or to free tp.
Stopping == ~Ahead("cancel") /\ (Ahead("halt") \/ Ahead("free") \/ Ahead("free netdev"))

\* tg3_start has not yet enabled the interrupts, or is on its way back.
Starting == ~Ahead("cancel") /\ (Ahead("go") \/ Ahead("free consistent"))

\* tg3_io_error_detected disables NAPI before it cancels.  schedule_work does not
\* queue a task that cancel_work_sync waits for.
tg3_reset_task_schedule ==
  /\ IF op = "io error" THEN Note(~pending /\ Ahead("cancel"), "reset in io error")
     ELSE Note(~pending /\ (Stopping \/ Starting), IF Stopping THEN "reset while stopping" ELSE "reset while starting")
  /\ pending' = TRUE
  /\ work' = IF pending \/ At("cancel") THEN work ELSE "queued"

ResetChecks ==
  /\ work = "queued"
  /\ IF running THEN work' = "napi" /\ UNCHANGED pending ELSE work' = "none" /\ pending' = FALSE
  /\ UNCHANGED <<op, steps, dev, napi, hw, seen, bug>>

\* tg3_netif_stop: napi_disable waits.
ResetStops ==
  /\ work = "napi" /\ napi = "idle" /\ work' = "lock"
  /\ napi' = "off" /\ tx' = FALSE
  /\ UNCHANGED <<op, steps, dev, irq_sync, ints, rings, chip, pending, seen, bug>>

ResetRestarts ==
  /\ work = "lock" /\ work' = "end"
  /\ \/ tg3_reset_hw /\ tg3_netif_start /\ UNCHANGED seen
     \/ /\ tg3_full_lock_quiesce /\ tg3_init_hw_fails /\ Note(TRUE, "reset fails")
        /\ UNCHANGED <<napi, tx>>
  /\ Failed(irq_sync \/ mem # Mem \/ EnableBug,
            IF irq_sync THEN "BUG_ON irq_sync" ELSE IF mem # Mem THEN "rings in use" ELSE "BUG_ON napi_enable")
  /\ UNCHANGED <<op, steps, dev, pending>>

ResetEnds ==
  /\ work = "end" /\ work' = "none" /\ pending' = FALSE
  /\ UNCHANGED <<op, steps, dev, napi, hw, seen, bug>>

tg3_reset_task == ResetChecks \/ ResetStops \/ ResetRestarts \/ ResetEnds

-----------------------------------------------------------------------------
(* Interrupts, polls, the timer and the watchdog *)

\* napi_schedule has no effect while someone waits to disable NAPI.
napi_schedule ==
  /\ napi = "idle" /\ ~At("netif stop") /\ ~At("napi fini") /\ work # "napi"
  /\ napi' = "poll"

\* tg3_msi and tg3_msi_1shot.
tg3_msi ==
  /\ mode \in {"msi", "msix"} /\ irq /\ ints /\ ~irq_sync /\ napi_schedule
  /\ UNCHANGED <<op, steps, dev, hw, reset, bug>>

\* tg3_test_msi has requested the handler of the pin and not yet the lock.
InTestMsi == At("reset for pin")

\* The pin may be shared: the handler is called for others' interrupts, too, and
\* takes one for its own if the chip has updated the status block, even if its
\* interrupts are disabled.  Without work it enables them.
tg3_interrupt ==
  /\ mode = "intx" /\ irq /\ chip /\ ~irq_sync
  /\ \/ napi_schedule /\ UNCHANGED ints
     \/ ints' = TRUE /\ UNCHANGED napi
  /\ Note(napi' = "poll" /\ InTestMsi, "poll in msi test")
  /\ UNCHANGED <<op, steps, dev, irq_sync, rings, chip, tx, pending, work, bug>>
tg3_interrupt_tagged ==
  /\ mode = "intx" /\ irq /\ chip /\ ~irq_sync /\ napi_schedule
  /\ Note(InTestMsi, "poll in msi test")
  /\ UNCHANGED <<op, steps, dev, hw, pending, work, bug>>

\* The poll ends, perhaps with a chip that has to be reset.
tg3_poll ==
  /\ napi = "poll" /\ napi' = "idle"
  /\ \/ UNCHANGED reset
     \/ tg3_reset_task_schedule
  /\ UNCHANGED <<op, steps, dev, hw, bug>>

\* The timer calls tg3_msi for an interrupt that has been lost.
tg3_chk_missed_msi == napi_schedule /\ UNCHANGED reset
tg3_timer ==
  /\ timer /\ ~irq_sync /\ ~pending
  /\ tg3_chk_missed_msi \/ (tg3_reset_task_schedule /\ UNCHANGED napi)
  /\ UNCHANGED <<op, steps, dev, hw, bug>>

tg3_tx_timeout ==
  /\ tx /\ tg3_reset_task_schedule
  /\ UNCHANGED <<op, steps, dev, napi, hw, bug>>

-----------------------------------------------------------------------------

Next ==
  \/ OpBegins \/ OpStep \/ tg3_reset_task \/ tg3_msi \/ tg3_interrupt
  \/ tg3_interrupt_tagged \/ tg3_poll \/ tg3_timer \/ tg3_tx_timeout \/ UNCHANGED vars

\* Operations, the work queue and polls that have begun go on.  napi_disable
\* looks every millisecond: of two who want it again and again, both get it.
Fairness ==
  /\ WF_vars(OpStep) /\ WF_vars(tg3_reset_task) /\ WF_vars(tg3_poll)
  /\ SF_vars(tg3_netif_stop) /\ SF_vars(ResetStops)
Spec == Init /\ [][Next]_vars /\ Fairness

-----------------------------------------------------------------------------
(* Properties. *)

TypeOK ==
  /\ state \in {"absent", "up", "suspended", "error", "reset", "gone"}
  /\ mode \in {"off", "intx", "msi", "msix"} /\ mem \subseteq Mem
  /\ res \subseteq {"pci", "regions", "netdev", "regs", "ape", "registered", "present", "fw", "ptp"}
  /\ napi \in {"off", "idle", "poll"} /\ work \in {"none", "queued", "napi", "lock", "end"}
  /\ {running, irq_sync, ints, irq, rings, chip, tx, timer, pending} \subseteq BOOLEAN
  /\ op = "none" <=> steps = <<>>

\* None of these rare events has happened.
Not(events) == seen \cap events = {}

\* A reset is scheduled between the last tg3_reset_task_cancel of an operation and
\* the end of its stop (Stopping), or from a poll before the end of tg3_start
\* (Starting): the pin is shared, and tg3_test_msi, or an open that it has made
\* fail, has cleared irq_sync.
Resets == {"reset while stopping", "reset while starting"}

\* Orders of steps that the driver does not exclude: Resets, and the user opens,
\* closes or removes a running device between tg3_io_error_detected and
\* tg3_io_resume.
Races == Resets \cup {"user in recovery"}

\* No BUG_ON, no ring that is rebuilt under a poll, no work item that outlives
\* tp, however the reset task interleaves with the operations and wherever they
\* fail: but for a reset while stopping, a user in a recovery, a poll between
\* request_irq and tg3_full_lock in tg3_test_msi, the removal of a device that
\* tg3_io_error_detected has disabled and nobody has enabled again, which disables
\* it twice, and a self test that could not request the interrupt again, which is
\* freed twice later.
NoBug ==
  Not({"reset while stopping", "user in recovery", "poll in msi test", "removed without pci", "irq lost in test"})
    => bug = "none"

\* "Fully shutdown all tg3 driver activity elsewhere in the system" (tg3_full_lock):
\* NoBug without the exception for tg3_test_msi, which has the chip halted and the
\* rings rebuilt under this lock while NAPI is enabled and may poll.
MsiTestQuiet == Not(Races) => bug # "rings in use"

\* The chip, the polls and tg3_start_xmit only reach memory that is there, but
\* for Races, and for the queues in tg3_resume (XmitBacked).
Backed ==
  /\ TypeOK
  /\ Not(Races) =>
       /\ chip => mem = Mem /\ rings
       /\ napi = "poll" \/ irq => mem = Mem
       /\ tx /\ op # "resume" => mem = Mem /\ rings /\ chip

\* Queues may only be woken "after tg3_init_hw" (tg3_netif_start).  In tg3_resume
\* netif_device_attach wakes them before tg3_restart_hw, which rebuilds the rings.
XmitBacked == Not(Races) /\ tx => rings /\ chip

\* A device that is down holds nothing: no way back of a failed open, of a
\* failed restart, of a PCI error or of a failed probe forgets a resource, but
\* for the PTP clock, which tg3_open registers even after tg3_start has failed.
\* Only one of Resets brings a closed device back to life.
Released ==
  op = "none" /\ ~running /\ Not(Resets) =>
    /\ ~irq /\ mode = "off" /\ mem = {} /\ ~rings /\ ~chip /\ ~timer /\ ~tx /\ ~ints
    /\ "ptp" \in res => "open fails" \in seen
    /\ state = "absent" => res \subseteq {"ptp"}

\* A device that is up works, unless tg3_init_hw failed in tg3_reset_task,
\* tg3_start in tg3_set_channels or request_irq in tg3_self_test: all of them
\* leave netif_running as it is.
Working ==
  op = "none" /\ state = "up" /\ running /\ ~pending /\ Not({"reset fails", "channels fail", "irq lost in test"}) =>
    chip /\ tx /\ timer /\ ints /\ irq /\ napi # "off" /\ ~irq_sync

\* Every operation ends, so rtnl is given back: nobody waits for a NAPI that
\* nobody will enable, or for a reset task that waits itself.  Each of these rare
\* events can break it.
OpEnds == (op # "none") ~> (op = "none" \/ ~Not(Races \cup {"reset in io error", "reset fails", "channels fail"}))

\* A reset that has been asked for is done or dropped.
ResetDone == pending ~> (~pending \/ ~Not(Resets \cup {"reset in io error"}))

\* Nobody waits for ever, neither for rtnl nor for a reset (tg3_reset_task).
Progress == OpEnds /\ ResetDone

\* "Want to make sure that the reset task doesn't run" (tg3_io_error_detected):
\* the handler gets past tg3_reset_task_cancel.  It has disabled NAPI before, and
\* a reset task that has begun waits for NAPI.
IoErrorEnds == (op = "io error") ~> (op # "io error" \/ seen \ {"reset in io error"} # {})
=============================================================================
