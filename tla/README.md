# A TLA+ verification of the wl12xx driver

This directory holds a specification of the Linux driver for TI's WiLink 6
chips (wl127x, wl128x) that this repository ships, model-checked with TLC and
in its most important parts proved with TLAPS. The code is
`src/mac80211/compat_wl12xx/drivers/net/wireless/wl12xx`; file names below are
relative to it, except those under `net/`, which are relative to
`src/mac80211/compat_wl12xx`. `PROJECT.json` maps every definition to the lines
it models.

## 1. The system

The driver sits between mac80211 and the firmware of a chip on SDIO or SPI. Its
single functions are simple. What makes it hard is who runs them at the same
time:

* **mac80211's callbacks.** `op_tx` runs in any context, on several CPUs, and
  takes only the spinlock `wl_lock`. The others run under the rtnl lock or
  `local->mtx` and take `wl->mutex`.
* **The interrupt.** A hard handler (`wl12xx_hardirq`) and a thread
  (`wl12xx_irq`), which holds `wl->mutex` while it reads the status, completes
  frames, handles events and sends frames itself.
* **Work items**: `tx_work`, `netstack_work`, `elp_work`, `tx_watchdog_work`,
  `scan_complete_work`, `recovery_work`, `delayed_recovery`, the two of Rx
  streaming, and mac80211's own (`sched_scan_stopped_work`, `restart_work`), most
  of them on mac80211's ordered workqueue. `cancel_delayed_work` does not stop a
  work that has started, and `queue_delayed_work` does nothing for one that is pending.
* **Functions that drop the mutex half way**: `op_stop_locked`, `tx_flush`,
  `init_fw`, `plt_stop`, `op_suspend`, `op_cancel_hw_scan`.
* **The firmware**, which owns memory blocks, descriptors and links, may be slow
  or silent, fails commands, crashes, and is restarted from scratch by
  `recovery_work` and mac80211's `restart_work`.

### Inventory

| part | state | operations | what is hard | module |
|---|---|---|---|---|
| Tx path (`tx.c`, `main.c`) | descriptor ids, block counters, `FW_TX_BUSY`, `TX_PENDING`, watchdog, deferred queue | `op_tx`, `tx_work`, the irq thread, `netstack_work`, `tx_watchdog_work`, recovery | lost wakeups, stale busy flag, wrapping counters, memory lent to Rx | `TxPath` |
| Tx queues (`tx.c`, `ps.c`, `cmd.c`) | queues per link and category, `tx_queue_count`, `queue_stop_reasons` | `op_tx`, dequeue and requeue, flush, `free_link`, filter, reset | counters corrected later than the queues, overlapping stop reasons | `TxQueues` |
| Life cycle (`main.c`, `boot.c`, `net/mac80211`) | `wl->state`, power, interrupt depth, interfaces, `recovery_work`, suspend | `op_start/stop`, `add/remove_interface`, boot, recovery, restart, `op_suspend/resume`, PLT | windows without the mutex, unpaired `disable_irq`, works that wait for themselves | `Lifecycle` |
| ELP (`ps.c`, `main.c`) | `IN_ELP`, `ELP_REQUESTED`, `IRQ_RUNNING`, `elp_compl`, `elp_work` | `ps_elp_wakeup/sleep`, `elp_work`, hardirq | a stack completion signalled from the hard handler, an interrupt masked while it is waited for | `ChipUse`, `Elp` |
| Scan (`scan.c`, `net/mac80211/scan.c`) | `scan.state`, `scanned_ch`, `scan_vif`, the timeout; `local->scanning`, `hw_scan_req` | `op_hw_scan`, `scan_stm`, `scan_complete_work`, cancel, event, removal, recovery | timeout against completion against cancel; who frees the request | `Scan` |
| Scheduled scan (`scan.c`, `net/mac80211/scan.c`, `net/wireless/scan.c`) | `sched_scanning` of driver and mac80211, cfg80211's `sched_scan_req` | start, stop, completion event, results, leaving idle, recovery | four layers that each remember the request and forget it at different times | `SchedScan` |
| Roles, links, stations, remain-on-channel, BA sessions, firmware change (`cmd.c`, `main.c`, `init.c`) | `roles_map`, `links_map`, `roc_map`, the interfaces' ids, `ba_rx_bitmap`, `ba_rx_session_count`, `fw_type` | `add/remove_interface`, role enable to disable, join, `start_dev`, `sta_add/remove`, `ampdu_action`, `need_fw_change`, `ieee80211_reconfig` | ids leaked or shared after a failing command or a restart | `Links` |
| Rx path (`rx.c`, `main.c`) | descriptor ring, `rx_counter`, aggregation buffer, `deferred_rx_queue` | `wl12xx_rx`, `handle_data`, `flush_deferred_work`, `netstack_work`, stop, restart | three threads empty one queue; stale descriptors | `Rx` |
| Rx streaming (`main.c`) | `RX_STREAMING_STARTED`, a timer, two works | `rearm`, enable and disable work, removal | a timer that rearms itself against its removal | `RxStreaming` |
| AP power save (`main.c`, `ps.c`) | `ap_fw_ps_map`, `ap_ps_map`, `allocated_pkts` | `irq_ps_regulate_link`, `ps_link_start/end` | decision from counters that lag | filter in `TxQueues` |
| Station power modes, connection events, keys, filters, templates, NVS, bus glue, debugfs, sysfs | — | encodings and single commands | — | not modelled |

The components of `PROJECT.json` also list the other directories of the
repository (`compat_wl18xx`, wl1251, the vendored wireless and Bluetooth
stacks, `ti-utils`, `wpa_supplicant_lib`, firmware, ini files) with the reason
why they are left out.

## 2. Modules

A section of code under `wl->mutex` is one step unless `op_tx`, the hard
interrupt handler or the firmware can see its middle. A command to the firmware
is a step that succeeds or fails; what a failure does to the driver (a recovery,
an error path) is kept. Message contents are left out.

**`TxPath`**, the way of a frame. Links and categories are merged into one FIFO.
A frame starts with mac80211 (`mac`), is put on `queue` by `OpTx`, is taken,
given an id and blocks and copied to the aggregation buffer by the steps of
`wl1271_tx_work_locked` (`TxDequeue`, `TxPrepare`, ..., run by `tx_work` or by
the interrupt thread), is sent, reported by the firmware on `results`, completed
by the interrupt thread to `deferred` and returned by `NetstackWork`.
`FreedBlocks` keeps the modular arithmetic of `total_released_blks` with the
width `BlkMod`; `total` and `debt` model a firmware that lends Tx memory to Rx
under frames in flight.

**`TxQueues`**, the queues in front of it. Frames are counted per link and
category; a thread is the list of steps it still has to do (`code[t]`), so that
functions that call each other (`tx_flush` → `tx_reset_link_queues` →
`handle_tx_low_watermark`) are composed as the code composes them, with `op_tx`
between any two. `op_stop_locked` is reached from the recovery and from
mac80211's stop of the device (`MacStop`).

**`Lifecycle`**. Two threads, the holder of the rtnl lock and `recovery_work`, with
`pc` naming the next step, the interrupt thread as third contender for the
mutex, and mac80211's order of calls: open, close, restart, suspend, resume, and
PLT mode entered through testmode. `restart` counts a `restart_work` that is
queued again while the first one waits for the rtnl lock. A recovery may be
requested, and a resume or an `op_stop` may meet it, at any moment; the history
variable `odd` notes the moments after which the code does not keep its balance.

**`Elp`** and **`ChipUse`**. `ChipUse` is the contract, in a few lines: one
user of the chip at a time, who finds it awake and keeps it awake. `Elp` is the
handshake: flags, the on-stack completion, `elp_work` with its timer, the hard
handler, and a chip that dozes, wakes and interrupts on its own.
`ImplementsChipUse` states that `Elp` implements `ChipUse`, with the user being
the holder of the mutex whose wakeup has returned.

**`Scan`**. The driver's scan state machine and `scan_complete_work`, composed with
mac80211's side (`RequestScan`, `ScanWork`, cancel, interface down, restart),
because the contract between the two is what can break. The ordered workqueue is
a sequence; a flush is a marker in it. `odd` notes three error paths.

**`Links`**. Interfaces of station and AP type, their roles, links and
reservations of the radio (ROC). Every handler holds `wl->mutex` from start to
end, so it is one step; what makes it hard is its length and the places where it
can fail. A driver function is an operator from the driver's state `w` to the
set of states it may leave behind (`RoleStartDev(w, v)`, `Join(w, v)`, ...), and
functions are sequenced as the code sequences them, error paths included. The
other variables are mac80211's view: what it holds associated, beaconing, handed
over, and the steps of `ieee80211_reconfig` after a restart (`phase`, `pending`).
A recovery may overtake a restart: `restart = "late"` when the end of the first
restart has cleared `in_reconfig` although a second one is queued.

**`SchedScan`**. One request in cfg80211 (`req`), mac80211 (`local`), the driver
(`sched_scanning`) and the firmware (`fwScan`), with the works and events that
carry its end from the firmware up, and the three locks that `StartSchedScan`
takes on its way down. The interface (`netdev`) goes down in the steps of
`dev_close`: cfg80211 stops the scan, mac80211 stops the device, cfg80211's
`cleanup_work` looks for what is left. `stale`, `unsent` and `untold` are
histories of requests.

**`RxStreaming`** and **`Rx`**. `Rx` extends `RxStreaming`: the interrupt thread reads
the ring of descriptors into the aggregation buffer, splits it and puts frames
on the deferred queue; `netstack_work`, the interrupt thread and
`op_stop_locked` take them off, each with one frame in hand between the dequeue
and mac80211. Received data rearms the streaming timer; removing the interface
and restarting the chip stop it in the order of `__wl1271_op_remove_interface`.

`MCTxPath`, `MCTxQueues`, `MCLifecycle`, `MCElp`, `MCScan` and `MCLinks` give
constants their values where a definition is needed; `SchedScan.cfg` and `Rx.cfg`
run their modules directly. The `*Proofs` modules, `RoleLemmas` and `RoleSteps`
hold the theorems and lemmas. An operator whose comment begins with "fault:" is a deliberately wrong variant of the
definition that follows it, kept to show that a property notices.

Constants switch on parts of the environment. Those that break a property are
off in the runs of that property, so that everything else can be checked without
them.

| constant | value | what it allows | in the runs |
|---|---|---|---|
| `TxQueues!LateFrames` | `TRUE` | frames without an interface while the device is OFF | off: `CountExact` fails |
| `Lifecycle!Faults` | `"boot"`, `"late"` | a boot fails, before or after its interrupt is enabled | on in `lifecycle` |
| | `"plt"` | a user enters PLT mode | on in `lifecycle` |
| `Links!Faults` | `"cmd"` | a command fails and queues a recovery | on in `links` and `links_ap` |
| | `"soft"` | an error that is only returned: missing memory, an AP without SSID (`cmd.c:748-760`) | off: `RolesOwned` fails |
| `TxPath!AsksDummy` | `TRUE` | the firmware asks for dummy packets | on in `tx_path` |

Where the code itself breaks a property after some event, nothing is switched
off. A history variable, which actions write and only properties read, records
the event, and the property excepts what follows from it, and nothing else. Where
a doc or a comment makes the statement without the exception, the module has it
as a definition of its own.

| history | what it records | excepted by | without the exception |
|---|---|---|---|
| `Lifecycle!odd` | `"plt"`: PLT mode meets a recovery or an interface | `DepthExact`, `PoweredWhenOn` | |
| | `"stop"`: a recovery requested when mac80211 is about to call `op_stop` and waits for no work before | `PoweredWhenOn`, `RecoveryCompletes`, `InterfacesRestored` | `AddAfterReset` |
| | `"doze"`: one requested around a suspend: after `op_suspend`, before mac80211 refuses works, or before `op_resume` begins | `DepthExact` | `StopBalances` |
| | `"again"`: `op_resume` queues a recovery that already runs | `PoweredWhenOn`, `RecoveryCompletes`, `InterfacesRestored` | |
| `Scan!odd` | `"lost"`: `scan_complete_work` forgot a scan, then could not wake the chip | `EveryScanAnswered`, `DriverKnowsScan` | `HwScanContract` |
| | `"unstopped"`: a cancel without memory for `CMD_STOP_SCAN`, which stops the timeout | `EveryScanAnswered` | |
| | `"timer"`: `remove_interface` ended a scan and left its timeout | `FreshTimeout` | |
| `SchedScan!stale` | requests that started while the end of an older one was being reported | `ScanOwned` | `StoppedIsOver` |
| `SchedScan!unsent` | requests whose stop found no memory | `ScanOwned`, `StopAnswered` | `StoppedIsOverUnsent` |
| `SchedScan!untold` | requests that `op_stop` ended with the interface | `RequestHasEnd`, `StopAnswered` | `DownIsTold` |
| `Links!odd` | `"redone"`: a restart of interfaces that are already added, after a recovery overtook an earlier restart | `NoLinkLost`, `RocOwned`, `ClientsTracked`, `BaOnLiveLinks` | |
| | `"stray"`: a client handed over for an interface that was not restored | `LinksOwned`, `NoLinkLost`, `ClientsTracked`, `BaOnLiveLinks` | |

## 3. Runs

| run | question | result |
|---|---|---|
| `tx_path` | Are the books of blocks exact and never overdrawn, is every frame in one place, is a wakeup lost; does every frame come back, and is a silent firmware restarted? | holds |
| `tx_queues` | Are counters exact between any two steps, does a freed link leave frames, are stops and wakes balanced? | holds, without `LateFrames` |
| `tx_queues_live` | Is every stop reason lifted again? | holds, without `LateFrames` |
| `lifecycle` | Is every `disable_irq` balanced? | holds, except after `"plt"`, `"doze"` |
| | Has the chip power when it is used? | holds, except after `"stop"`, `"again"`, `"plt"` |
| `lifecycle_live` | Do recoveries end, and are interfaces restored after the last one? | holds, except after `"stop"`, `"again"`; without failing boots and PLT mode |
| `elp` | Is a sleeping chip used, a dead completion signalled, an impossible interrupt waited for; is `ChipUse` implemented? | holds |
| | Is a chip that may sleep put to sleep? | holds; if the interface that kept it awake was removed, after the next section only |
| `scan` | Does a successful scan cover its channels? | holds |
| | Does a timeout hit the wrong scan? | holds, except after `"timer"` |
| | Does every scan end? | holds, except after `"lost"`, `"unstopped"`; if user space does not bring up interfaces for ever |
| `links` | Are links, roles and ROCs of a station and an AP lost or shared, does the station use one role at a time, is the single-role firmware overloaded? | holds, without `"soft"`; links, ROCs and BA sessions before `odd` |
| `links_ap` | Do driver and mac80211 agree on the clients of two APs and their BA sessions, also after restarts? | holds, without `"soft"`; links, clients and BA sessions before `odd` |
| `links_ba_count` | Is `ba_rx_session_count` the "number of currently active RX BA sessions" (`wl12xx.h:566`)? | violated |
| `sched_scan` | Do four layers agree on a scheduled scan? | holds, except for `stale` and `unsent` requests |
| | Has a request always someone who ends it? | holds, except for `untold` requests |
| | Does one that is stopped end? | holds, except for `unsent` and `untold` requests |
| `rx` | Is a packet lost, delivered twice or left behind? | holds |
| | Is one overtaken? | only one that a thread has in hand. mac80211 wants even these calls "synchronized against each other" (`include/net/mac80211.h:2513-2514`), which the driver does not do |
| | Do streaming and its timer end? | holds; small allocations succeed |

The violated run is a disagreement between the code and a comment; `findings` in
`PROJECT.json` quotes the line. The statements of the following definitions are
disagreements too, each with a line that the repository says of itself. They are
not runs of their own: put in place of the properties of the cfg, TLC finds every
one violated within seconds. The hazards of `PROJECT.json` describe them.

| definition | statement | cfg |
|---|---|---|
| `AddAfterReset` | `op_add_interface` is kept out until `op_stop_locked` has reset everything (`main.c:2831-2835`) | `MCLifecycle.cfg` |
| `StopBalances` | the end of a recovery "balance[s] the disable depth" (`main.c:2801-2804`) | `MCLifecycle.cfg` |
| `NoSyncUnderMutex` | interrupts are disabled under the mutex without a wait (`main.c:2773-2776`); `boot.c:947` waits | `MCLifecycle.cfg` |
| `HwScanContract` | `ieee80211_scan_completed` is called "when the scan cannot finish due to any error" (`include/net/mac80211.h:1941-1943`) | `MCScan.cfg` |
| `StoppedIsOver`, `StoppedIsOverUnsent` | a scheduled scan that is reported to have stopped has (`include/linux/nl80211.h:283-284`); not if the report meets the next scan, or the stop found no memory | `SchedScan.cfg` |
| `DownIsTold` (temporal) | its end is told "when the interface is brought down" (`include/linux/nl80211.h:287-289`) | `SchedScan.cfg` |

### Bounds, and why they are enough

* `TxPath`: one frame and the dummy packet, which compete for one descriptor, and
  two blocks of which one may be lent to Rx; the counter is one wider than the
  memory, so that it wraps within few steps. Both ways of a full firmware (no
  descriptor, no block) occur, and a frame of mac80211 meets the completion of
  another packet at every step. The safety properties of this run are proved for
  any number of frames, descriptors and blocks, so the instance is chosen for the
  liveness properties. One round of the interrupt loop (`MaxLoops = 1`, the
  edge-IRQ quirk) is the hardest case: a level interrupt looks again.
* `TxQueues`: one link beside the system link, two queues (one with liveness),
  watermarks 0 and 1, or 1 and 3 so that the band between them has an inside,
  one frame in the firmware. `MaxQueued` and `MaxPassed` bound waiting frames and
  concurrent calls of `op_tx`; two calls in flight for one queue are the smallest
  number that overtake each other. `StopReasonsLifted` is checked with one queue:
  `wl1271_select_queue` prefers the higher category, so with two of them steady
  traffic on one may starve the other, whose stop by the watermark then lasts.
* `Lifecycle`: two interfaces (the first and the last one to go up or down take
  different paths), two boot attempts. `MaxDepth = 3` bounds the interrupt depth
  in the odd behaviours, where it can grow for ever; where the depth is balanced
  it is below 3 whenever an action looks at the bound, so none waits for it.
* `Elp`: two threads beside the interrupt thread, one in the handshake and one
  waiting.
* `Scan`: two interfaces; three channels, active and passive in one band and one
  in the other, so that a request takes two bands and a band two phases; one
  channel per command, so that a phase takes several; requests with and without
  SSIDs.
* `Links`: a station and an AP, or two APs and a client; three role ids (a station
  needs two) and six links, just enough, so that a lost one is missed at once;
  one BA session allowed, so that the limit is met.
  A station, an AP and a client in one instance are beyond reach (more than
  seven million states), which is why there are two runs. `LinksOwned` is proved
  for any number of each.
* `SchedScan`: three requests (`MaxRequests`) in a behaviour, so that the end of one, the next and
  one after it are under way together.
* `Rx`: three packets, a ring of three descriptors (at most two in use, because a
  full ring looks empty; the firmware is taken to keep one free), the counter
  wraps once round the ring, a deferred queue that is emptied at two frames.

The theorems remove these bounds for the properties they cover.

The runs of `Lifecycle` do not check for deadlock, because the code can really
stop for ever: in a boot that fails late (`boot.c:947`), and in `recovery_work`,
which after `"stop"` or `"again"` may wait for itself (`main.c:2786`) while
mac80211 waits for it.

### Fairness

* A thread that holds the mutex goes on, timers expire, and the kernel runs
  queued works (WF).
* A mutex is handed on in the order of arrival, so who waits for it gets it even
  if it is taken again and again: SF on the steps that take it
  (`TxQueues!Relock`, `Elp!IrqStart`, `Elp!ElpWork`, `Scan!ScanWork`,
  `TxWatchdogWork`, `RestartFlush`, `Restart`).
* SF on `Elp!IrqEnd`: `wl12xx_irq_locked` is a loop of at most
  `WL1271_IRQ_MAX_LOOPS` rounds, so it ends although new interrupts keep coming.
* `TxPath!FwFairness` (a live firmware reports frames and releases blocks) is a
  hypothesis of `EveryFrameReturned` only; `StuckTxRecovered` is about a firmware
  without it. `TxQueues!SystemFairness` assumes a live firmware or a recovery.
  `Elp` assumes that a chip told to wake up does (`FwReady`) or that the wakeup
  times out.
* `SF_vars(TxWatchdogWork(FALSE))`: the excuses for a silent firmware (a scan,
  remain-on-channel, an AP's sleeping stations) do not last for ever.
* `Scan` assumes nothing of firmware and user space except `UserSettles`:
  `recovery_work` removes interfaces until there are none, and could go on for
  ever if they were brought up as fast.
* `SchedScan` and `Rx` assume that works run, that raised events are handled and
  that what has begun (a start, a removal, a recovery) goes on; nothing of user
  space, of traffic or of the streaming timer. In `SchedScan` the firmware
  answers a stop that it has accepted with its event or is restarted.

## 4. Proofs

Every theorem holds for all values of the constants that satisfy the named
assumptions; TLC evaluates those on every run. Each proof is an inductive
invariant with one lemma per group of actions.

* **`TxPathProofs`**: `TypeCorrect`, `BlockAccounting`, `NeverOvercommitted`,
  `NoWakeupLost`, `DescriptorIds`, `FramesConserved`, `NoStall`. `BlocksExact`
  alone is not inductive: the modular difference is the true one only if fewer
  than `BlkMod` blocks can be released between two statuses, which is
  `BlocksBounded`, which rests on `NoOvercommit`. `NoLostWakeup` needs that
  `TX_PENDING` is set exactly while the interrupt thread is busy, and what a
  `tx_work_locked` that is about to end has seen (`WakeInv`). `FrameInOnePlace`
  rests on `IdsConsistent`: a frame under a descriptor leaves it only by the
  result that names it. Assumptions: a frame fits into the memory the firmware
  never lends, and the counter is wider than the memory.
* **`LifecycleProofs`**, for any interfaces, boot retries and failing boots.
  `InterfacesOnRunningChip` holds in every behaviour; its invariant `VifInv` needs
  no more than who holds the mutex. `InterruptsBalanced`, `ChipPowered` and
  `RecoveryNotForgotten` (which also says that `recovery_work` does not wait for
  itself) hold as long as `odd = {}`, and say so. (TLC shows more: which part of
  `odd` each of them needs.) The strengthening says why the windows without
  the mutex are harmless: a chip is booted only in the OFF state with no recovery
  in progress (`BootAlone`), nobody boots what `op_stop_locked` switches off
  (`StopIsOff`), one `recovery_work` serves one recovery (`OneRecovery`), nothing
  is recovered without an interface (`QuietWhenDown`), and an interrupt is kept
  for resume only while nothing can stop the chip (`SleepsAlone`).
* **`ScanElpProofs`** holds the proofs of three modules that share no state.
  - `Scan`, for any interfaces, channels, requests and batch size: `ReqAlive` and
    `Covered` in every behaviour, `ScanKnown` with the one exception `"lost"`: the
    violation of `HwScanContract` has no other cause. The invariant does
    not look at the workqueue: whatever the order in which works run, the tests
    each makes under its lock are enough. It adds the possible values of
    `local->scanning` and that every phase that was left has nothing left to scan.
  - `SchedScan`, for any number of requests, with the exceptions that the
    properties name: `ScansOwned`, `RequestsEnd`. The two need each other, and what
    the thread in `nl80211_start_sched_scan` can rely on while it holds its locks
    (`StartOK`).
  - `Elp`, for any set of threads: `NoWarning`, `SleepRequested`,
    `NoDanglingCompletion`, `WakeupNotBlocked`, and `Refinement`, that every step
    of `Elp` is a step of `ChipUse` or a stutter. The heart is `SpinStaysTrue`:
    what a wakeup learns under `wl_lock`, that an interrupt is under way or that
    none is, stays true until it is done.
* **`LinksProofs`**, for any interfaces, clients, roles, links and both kinds of
  failure: `LinksStayOwned`. Every driver function is shown to take an owned
  state to owned states, function by function along the call graph; the
  handlers follow by composition. The strengthening (`Owned`, `Sound`) also
  covers the states between two functions of a handler.
* **`RoleLemmas`**, **`RoleSteps`** and **`RoleProofs`**, for any interfaces,
  clients, roles and links: `RolesKept`, `RocsKept`, `LinksKept`,
  `SingleRoleServed`. They assume `Hard`: every failed command queues a recovery,
  as `wl1271_cmd_send` does and as in the runs (`"soft" \notin Faults`). With an
  error that is only returned `RolesOwned` fails, see the table of constants. The
  proofs follow the call graph with one lemma per driver function, which has two
  halves. Whatever fails, the function touches only the fields of its interface
  (`Tidy`, `Stays`, `Elsewhere`). And if the firmware is still ON when it returns,
  then nothing failed, and what it did is known exactly: a role or link that it
  says it took was free, and what it gave back was its own. The invariant `Inv`
  adds what a handler relies on: the device role has a link exactly while it is
  enabled and a station is joined only while associated (`Ready`), mac80211 has
  associated and beaconing only interfaces that are up and in use, so that the
  count in `wl12xx_need_fw_change` covers them (`Sound`), its restart finds no
  station associated (`Settled`), and an interface that is not initialised has no
  links (`Kept`). `RocsKept` and `LinksKept` speak, like their properties, of the
  time before `odd`.
* **`RxProofs`**, for any number of packets and size of the ring:
  `StreamingStops`, `NoTimerLeft`, `StopIsFinal`, `PacketsPlaced`, `OrderKept`.
  For the first three the strengthening follows the removal: what it has deleted
  and cancelled stays so (`CancelledOK`), and once the state is OFF the interrupt
  thread is out and the queue is flushed before `netstack_work` is cancelled
  (`StoppedOK`). For the other two it names the true numbers of packets behind
  the wrapping counters and the copy of the last status (`RingInv`): each counter
  is such a number modulo its width, each slot of the ring holds the packet whose
  number leads to it, and the deferred queue has the newest of the packets that
  were read, in order.

Proved and not listed by a run: `IdsConsistent`, `BusyHasCause`, `WatchdogArmed`,
`VifsNeedChip`, `RecoveryOwned`, `NoSelfCancel`, `ScanReqAlive`,
`DriverKnowsScan`, `LinksOwned`, `NoneAfterStop`, and the type invariants of
`TxPath`, `Lifecycle`, `Elp` (`ElpTypeOK`) and `SchedScan` (`SchedTypeOK`).

Only model-checked: everything about liveness (fairness and ENABLED are beyond
the prover), all of `TxQueues` (its counters are sums over links, which need
induction over data), `FreshTimeout`, and of `Links` `OneRoleInUse`,
`BaOnLiveLinks` and `ClientsTracked`, which hold only where the firmware has
enough roles and links for the interfaces and clients, as in the runs; with
fewer, TLC finds each of them violated.

## 5. What the checks do not show

* Everything in the inventory marked "not modelled".
* The cases of the two tables of section 2 that runs leave out or properties
  except, and: `wl` is taken off `wl_list` twice when the last interface goes down
  between `recovery_work` and `restart_work` (`main.c:2762`); a link id may have a
  new owner when `op_tx` uses it.
* A completion event carries no identification. One that arrives late advances
  the next scan; `Scan` has this, and the properties hold with it, but the new
  scan's first channels are then reported as scanned early.
* `Links` follows the driver after a recovery that overtakes the restart of an
  earlier one, and after a client that is handed over for an interface that was
  not restored, but states its properties only before that (`odd`). APs are
  assumed to have no more clients than `AP_MAX_STATIONS` per device
  (`main.c:5388`).
* `Rx` leaves out packet sizes: every non-empty run of unread packets is taken to
  fit one read, which holds because the buffer is larger than the largest size
  a descriptor can name; data is then never "empty" (`rx.c:220-223`). Received
  frames that are dropped for their content are `lost`; why is not modelled. The
  rounds of the interrupt loop are not counted (`WL1271_IRQ_MAX_LOOPS`, 256, or one
  where interrupts are edge triggered).
* `RxStreaming` takes `conf.rx_streaming` as compiled in (`always` off, fixed
  intervals); the debugfs files that change it are left out, as is that
  `ieee80211_queue_work` refuses a work while the system is suspended. If
  `wl1271_acx_ps_rx_streaming` ran out of memory when the Bluetooth disturbance
  ends, the timer would be deleted and the streaming go on (`main.c:663-665`).
* Small allocations succeed except where one of the two tables says otherwise.
* Memory ordering below the level of locks and atomic bit operations.

### Not modelled, and why

* **The deferral of a scan** by `__ieee80211_start_scan` while mac80211's work list
  is not empty (`net/mac80211/scan.c:374-379`) and its cancel (`824-826`): the
  driver hears nothing of a request that is deferred, and the work list belongs to
  mac80211's association code.
* **The decision of AP power save** (`irq_ps_regulate_link`,
  `wl12xx_irq_update_links_status`): it follows per-link packet counters of the
  firmware; what it does to the queues, emptying those of a
  station that sleeps, is in `TxQueues`.
* **Tx security sequence numbers** (`main.c:1781`, `tx.c:902`): one number, copied
  to the station's data and raised by a fixed amount at a recovery.
* **Association details, keys, filters, rates, templates, power modes**: each is
  a command with encoded parameters, without state that two threads share.
* **P2P, ad-hoc mode and channel switch** in `Links`: they take the same functions
  through other branches.
* **Firmware and NVS upload, bus glue, debugfs, sysfs**: I/O.
* **`compat_wl18xx`, wl1251, the wireless and Bluetooth stacks, `ti-utils`,
  `wpa_supplicant_lib`**: other drivers, vendored code that is modelled only
  where it drives this one, and sequential tools. They are most of the
  repository's lines, so the map covers a small share of the whole.

## 6. Plan

Done: the Tx path and its proofs, queues and stop reasons, life cycle, ELP with
its abstract specification and refinement proof, one-shot scans, links with
roles, stations and block-ack sessions, scheduled scans, the receive path with
its streaming.

What would come next:

1. Proofs of `CountExact` and `StopsBalanced` in `TxQueues`, with its counters
   restated so that they need no sums.
2. **AP power save**: the decision in `irq_ps_regulate_link` composed with
   `TxQueues`.
3. An abstract specification of the Tx path (a bag of frames between mac80211 and
   the air) that `TxPath` refines.
