------------------------------- MODULE TxPath -------------------------------
(***************************************************************************)
(* The transmit path of the wl12xx driver between mac80211 and the         *)
(* firmware: wl1271_op_tx, the tx_work item, the threaded interrupt        *)
(* handler, the descriptor ids, the memory-block accounting, the Tx        *)
(* watchdog, and the restart of the firmware.                              *)
(*                                                                         *)
(* Links and access categories are merged into one FIFO; TxQueues models   *)
(* them, with the queue counters and the stop reasons.  wl->mutex is held  *)
(* by whoever is past its lock step (see MutexFree); op_tx only needs the  *)
(* spinlock, so it interleaves with every step below.                      *)
(***************************************************************************)
EXTENDS Integers, Sequences, FiniteSets

CONSTANTS
    Frames,      \* the skbs mac80211 may hand to the driver
    Dummy,       \* wl->dummy_packet
    NoFrame,     \* a NULL skb
    Blocks,      \* firmware memory blocks a frame needs, spare ones included
    Descriptors, \* ACX_TX_DESCRIPTORS
    AggFrames,   \* frames that fit the aggregation buffer
    TotalBlocks, \* num_tx_mem_blocks of the firmware's memory map
    BlkMod,      \* width of total_released_blks (2^32 in the code)
    MinTotal,    \* the firmware never lends more than TotalBlocks - MinTotal
    DeferLimit,  \* WL1271_DEFERRED_QUEUE_LIMIT
    MaxLoops,    \* WL1271_IRQ_MAX_LOOPS, 1 with the edge-IRQ quirk
    AsksDummy    \* whether the firmware may ask for dummy packets

Packets == Frames \cup {Dummy}
Ids == 0 .. Descriptors - 1

ASSUME FramesAssumption ==
    IsFiniteSet(Frames) /\ Dummy \notin Frames /\ NoFrame \notin Packets
ASSUME DescriptorsAssumption == Descriptors \in Nat \ {0}
ASSUME BlocksAssumption ==
    /\ TotalBlocks \in Nat /\ MinTotal \in 1 .. TotalBlocks
    /\ Blocks \in [Packets -> 1 .. MinTotal]
ASSUME BlkModAssumption == BlkMod \in Nat /\ BlkMod > TotalBlocks
ASSUME LimitsAssumption ==
    /\ AggFrames \in Nat \ {0} /\ MaxLoops \in Nat \ {0} /\ DeferLimit \in Nat
    /\ AsksDummy \in BOOLEAN

VARIABLES
    state,               \* wl->state
    flags,               \* the bits of wl->flags that concern Tx
    queue,               \* the skbs on the links' tx_queues, oldest first
    tx_frames,           \* descriptor id -> skb, or NoFrame
    tx_frames_cnt,
    tx_blocks_available, tx_allocated_blocks, tx_blocks_freed,
    watchdog,            \* tx_watchdog_work: timer "armed", work "due", or both
    deferred,            \* wl->deferred_tx_queue
    mac,                 \* frames that mac80211 owns
    work,                \* tx_work on the workqueue: "none" or "pending"
    worker,              \* the tx_work function: "idle", "lock", "hold"
    irq,                 \* the interrupt thread's next step
    loops, intrs,        \* its loopcount, and what the last status showed
    tx,                  \* step of wl1271_tx_work_locked, run by either holder
    cur,                 \* its skb
    agg, aggBlks,        \* ids in wl->aggr_buf, and the blocks they need
    fwIds,               \* firmware: ids it has not reported yet
    results,             \* firmware: ids on the result queue, not read yet
    fwBlks,              \* firmware: blocks that host frames occupy
    total,               \* firmware: status->tx_total
    debt,                \* firmware: of fwBlks, those already lent to Rx
    released,            \* firmware: status->total_released_blks
    fwIntr               \* firmware: interrupt causes not read yet

ids == <<tx_frames, tx_frames_cnt>>
blks == <<tx_blocks_available, tx_allocated_blocks, tx_blocks_freed, watchdog>>
stack == <<deferred, mac>>
threads == <<work, worker, irq, loops, intrs>>
loop == <<tx, cur, agg, aggBlks>>
fw == <<fwIds, results, fwBlks, total, debt, released, fwIntr>>
vars == <<state, flags, queue, ids, blks, stack, threads, loop, fw>>

\* the interrupt thread is inside wl12xx_irq_locked
IrqHolds == irq \in {"status", "data", "results", "event", "exit"}

MutexFree == worker # "hold" /\ ~IrqHolds

FreeIds == {id \in Ids : tx_frames[id] = NoFrame}

\* wl1271_tx_total_queue_count(wl) > 0
QueueNonEmpty == queue # <<>> \/ "DUMMY_PACKET_PENDING" \in flags

Init ==
    /\ state = "ON"
    /\ flags = {}
    /\ queue = <<>>
    /\ tx_frames = [id \in Ids |-> NoFrame] /\ tx_frames_cnt = 0
    /\ tx_blocks_available = TotalBlocks
    /\ tx_allocated_blocks = 0 /\ tx_blocks_freed = 0
    /\ watchdog = {}
    /\ deferred = {} /\ mac = Frames
    /\ work = "none" /\ worker = "idle" /\ irq = "idle"
    /\ loops = 0 /\ intrs = {}
    /\ tx = "off" /\ cur = NoFrame /\ agg = {} /\ aggBlks = 0
    /\ fwIds = {} /\ results = {} /\ fwBlks = 0
    /\ total = TotalBlocks /\ debt = 0 /\ released = 0 /\ fwIntr = {}

-----------------------------------------------------------------------------
(* mac80211 hands over a frame.  While the state is OFF no link of an       *)
(* interface is allocated and the frame is dropped, which leaves it with    *)
(* mac80211.                                                                *)
OpTx(f) ==
    /\ f \in mac
    /\ state # "OFF"
    /\ queue' = Append(queue, f)
    /\ mac' = mac \ {f}
    /\ work' = IF flags \cap {"FW_TX_BUSY", "TX_PENDING"} = {}
                 THEN "pending" ELSE work
    /\ UNCHANGED <<state, flags, ids, blks, deferred, worker, irq, loops,
                   intrs, loop, fw>>

-----------------------------------------------------------------------------
(* wl1271_tx_work_locked, one step per point where op_tx may see a change   *)

\* tx_work_locked does nothing unless the state is ON
EnterTx == IF state = "ON" THEN "dequeue" ELSE "off"

\* wl1271_skb_dequeue: the dummy packet goes last
TxDequeue ==
    /\ tx = "dequeue"
    /\ IF queue # <<>>
         THEN /\ cur' = Head(queue) /\ queue' = Tail(queue)
              /\ tx' = "prepare"
              /\ UNCHANGED flags
         ELSE IF "DUMMY_PACKET_PENDING" \in flags
           THEN /\ cur' = Dummy /\ flags' = flags \ {"DUMMY_PACKET_PENDING"}
                /\ tx' = "prepare"
                /\ UNCHANGED queue
           ELSE /\ tx' = "ack" /\ UNCHANGED <<cur, flags, queue>>
    /\ UNCHANGED <<state, ids, blks, stack, threads, agg, aggBlks, fw>>

\* fault: a frame of mac80211 is not put back
RequeueDummyOnly(fl) ==
    /\ flags' = IF cur = Dummy THEN fl \cup {"DUMMY_PACKET_PENDING"} ELSE fl
    /\ cur' = NoFrame
    /\ UNCHANGED queue

\* wl1271_skb_queue_head, with the other flags as given
Requeue(fl) ==
    /\ IF cur = Dummy
         THEN flags' = fl \cup {"DUMMY_PACKET_PENDING"} /\ UNCHANGED queue
         ELSE flags' = fl /\ queue' = <<cur>> \o queue
    /\ cur' = NoFrame

\* wl1271_tx_allocate: -EAGAIN, the aggregation buffer is full
TxAggregationFull ==
    /\ tx = "prepare"
    /\ Cardinality(agg) >= AggFrames
    /\ Requeue(flags)
    /\ tx' = "flush"
    /\ UNCHANGED <<state, ids, blks, stack, threads, agg, aggBlks, fw>>

\* wl1271_tx_allocate: -EBUSY, no descriptor id is free
TxNoId ==
    /\ tx = "prepare"
    /\ Cardinality(agg) < AggFrames
    /\ FreeIds = {}
    /\ Requeue(flags)
    /\ tx' = "busy"
    /\ UNCHANGED <<state, ids, blks, stack, threads, agg, aggBlks, fw>>

\* the flags after FW_TX_BUSY is cleared, if ids or blocks were freed
Unbusy(freed) == IF freed THEN flags \ {"FW_TX_BUSY"} ELSE flags

\* wl1271_tx_allocate: -EBUSY, too few blocks.  The id is taken and given
\* back; wl1271_free_tx_id clears the busy flag when it was the last one.
TxNoBlocks ==
    /\ tx = "prepare"
    /\ Cardinality(agg) < AggFrames
    /\ FreeIds # {}
    /\ Blocks[cur] > tx_blocks_available
    /\ Requeue(Unbusy(tx_frames_cnt + 1 = Descriptors))
    /\ tx' = "busy"
    /\ UNCHANGED <<state, ids, blks, stack, threads, agg, aggBlks, fw>>

\* fault: the delayed work is cancelled and not queued again
CancelledTxWatchdog(allocated) == watchdog \ {"armed"}

\* wl12xx_rearm_tx_watchdog_locked, for a given number of allocated blocks
RearmedTxWatchdog(allocated) ==
    IF allocated = 0 THEN watchdog ELSE watchdog \cup {"armed"}

\* wl1271_prepare_tx_frame succeeds: the frame joins the aggregation buffer
TxAllocate ==
    /\ tx = "prepare"
    /\ Cardinality(agg) < AggFrames
    /\ Blocks[cur] <= tx_blocks_available
    /\ \E id \in FreeIds :
          /\ \A j \in FreeIds : id <= j
          /\ tx_frames' = [tx_frames EXCEPT ![id] = cur]
          /\ agg' = agg \cup {id}
    /\ tx_frames_cnt' = tx_frames_cnt + 1
    /\ aggBlks' = aggBlks + Blocks[cur]
    /\ tx_blocks_available' = tx_blocks_available - Blocks[cur]
    /\ tx_allocated_blocks' = tx_allocated_blocks + Blocks[cur]
    /\ watchdog' = IF tx_allocated_blocks' = Blocks[cur]
                     THEN RearmedTxWatchdog(tx_allocated_blocks')
                     ELSE watchdog
    /\ cur' = NoFrame
    /\ tx' = "dequeue"
    /\ UNCHANGED <<state, flags, queue, tx_blocks_freed, stack, threads, fw>>

\* the -EBUSY branch sets the flag after the frame is back on its queue
TxSetBusy ==
    /\ tx = "busy"
    /\ flags' = flags \cup {"FW_TX_BUSY"}
    /\ tx' = "ack"
    /\ UNCHANGED <<state, queue, ids, blks, stack, threads, cur, agg, aggBlks,
                   fw>>

\* another error of wl1271_prepare_tx_frame, when setting the default WEP key:
\* the frame is dropped, and the failed command queues the recovery
TxPrepareFails ==
    /\ tx = "prepare" /\ cur \in Frames
    /\ mac' = mac \cup {cur}
    /\ cur' = NoFrame
    /\ state' = "RESTARTING"
    /\ tx' = "ack"
    /\ UNCHANGED <<flags, queue, ids, blks, deferred, threads, agg, aggBlks, fw>>

\* the aggregation buffer is written to the chip; after -EAGAIN the loop goes
\* on, at out_ack it ends
TxWrite ==
    /\ tx \in {"flush", "ack"}
    /\ fwIds' = fwIds \cup agg
    /\ fwBlks' = fwBlks + aggBlks
    /\ agg' = {} /\ aggBlks' = 0
    /\ tx' = IF tx = "flush" THEN "dequeue" ELSE "off"
    /\ UNCHANGED <<state, flags, queue, ids, blks, stack, threads, cur,
                   results, total, debt, released, fwIntr>>

\* the bus write fails: wl12xx_queue_recovery_work, by the caller
TxWriteFails ==
    /\ tx \in {"flush", "ack"} /\ agg # {}
    /\ state' = "RESTARTING"
    /\ tx' = "off"
    /\ irq' = IF IrqHolds THEN "exit" ELSE irq
    /\ UNCHANGED <<flags, queue, ids, blks, stack, work, worker, loops, intrs,
                   cur, agg, aggBlks, fw>>

-----------------------------------------------------------------------------
(* The tx_work item                                                         *)

WorkStart ==
    /\ work = "pending" /\ worker = "idle"
    /\ work' = "none" /\ worker' = "lock"
    /\ UNCHANGED <<state, flags, queue, ids, blks, stack, irq, loops, intrs,
                   loop, fw>>

WorkLock ==
    /\ worker = "lock" /\ MutexFree
    /\ worker' = "hold"
    /\ tx' = EnterTx
    /\ UNCHANGED <<state, flags, queue, ids, blks, stack, work, irq, loops,
                   intrs, cur, agg, aggBlks, fw>>

WorkUnlock ==
    /\ worker = "hold" /\ tx = "off"
    /\ worker' = "idle"
    /\ UNCHANGED <<state, flags, queue, ids, blks, stack, work, irq, loops,
                   intrs, loop, fw>>

-----------------------------------------------------------------------------
(* The interrupt thread wl12xx_irq                                          *)

\* TX_PENDING is set, then cancel_work_sync waits for a running tx_work
IrqEnter ==
    /\ irq = "idle" /\ fwIntr # {} /\ state = "ON"
    /\ flags' = flags \cup {"TX_PENDING"}
    /\ irq' = "cancel"
    /\ UNCHANGED <<state, queue, ids, blks, stack, work, worker, loops, intrs,
                   loop, fw>>

IrqCancelWork ==
    /\ irq = "cancel" /\ worker = "idle"
    /\ work' = "none"
    /\ irq' = "lock"
    /\ UNCHANGED <<state, flags, queue, ids, blks, stack, worker, loops, intrs,
                   loop, fw>>

IrqLock ==
    /\ irq = "lock" /\ MutexFree
    /\ irq' = IF state = "ON" THEN "status" ELSE "exit"
    /\ loops' = MaxLoops
    /\ UNCHANGED <<state, flags, queue, ids, blks, stack, work, worker, intrs,
                   loop, fw>>

\* fault: the wrap of the firmware's counter is overlooked
FreedBlocksNoWrap == released - tx_blocks_freed

\* blocks released since the last status, across a wrap of the counter
FreedBlocks ==
    IF tx_blocks_freed <= released
      THEN released - tx_blocks_freed
      ELSE BlkMod - tx_blocks_freed + released

\* fault: the firmware's memory is taken to be what it was at boot
NominalFreeBlocks(allocated) == TotalBlocks - allocated

\* blocks the firmware has left for Tx
FwFreeBlocks(allocated) == total - allocated

\* wl12xx_fw_status: reading the status also acknowledges the interrupt
FwStatus ==
    /\ tx_blocks_freed' = released
    /\ tx_allocated_blocks' = tx_allocated_blocks - FreedBlocks
    /\ watchdog' = IF FreedBlocks = 0 THEN watchdog
                   ELSE IF tx_allocated_blocks' # 0
                     THEN RearmedTxWatchdog(tx_allocated_blocks')
                   ELSE watchdog \ {"armed"}
    /\ tx_blocks_available' =
         LET avail == FwFreeBlocks(tx_allocated_blocks')
         IN  IF avail > tx_blocks_available THEN avail ELSE tx_blocks_available
    /\ flags' = Unbusy(tx_blocks_available' > tx_blocks_available)

IrqStatus ==
    /\ irq = "status" /\ tx = "off" /\ loops > 0
    /\ loops' = loops - 1
    /\ FwStatus
    /\ intrs' = fwIntr \cup (IF results # {} THEN {"results"} ELSE {})
    /\ fwIntr' = {}
    /\ irq' = IF fwIntr = {} THEN "exit" ELSE "data"
    /\ UNCHANGED <<state, queue, ids, stack, work, worker, loop, fwIds,
                   results, fwBlks, total, debt, released>>

IrqLoopEnds ==
    /\ irq = "status" /\ tx = "off" /\ loops = 0
    /\ irq' = "exit"
    /\ UNCHANGED <<state, flags, queue, ids, blks, stack, work, worker, loops,
                   intrs, loop, fw>>

\* a status or result read fails on the bus, or the firmware's own watchdog
\* interrupt is found: wl12xx_irq queues the recovery
IrqFails ==
    /\ irq \in {"status", "results"} /\ tx = "off"
    /\ state' = "RESTARTING"
    /\ irq' = "exit"
    /\ UNCHANGED <<flags, queue, ids, blks, stack, work, worker, loops, intrs,
                   loop, fw>>

\* WL1271_ACX_INTR_DATA: transmit here if the firmware has room
IrqData ==
    /\ irq = "data" /\ tx = "off"
    /\ irq' = IF "data" \in intrs THEN "results" ELSE "event"
    /\ tx' = IF "data" \in intrs /\ "FW_TX_BUSY" \notin flags /\ QueueNonEmpty
               THEN EnterTx ELSE "off"
    /\ UNCHANGED <<state, flags, queue, ids, blks, stack, work, worker, loops,
                   intrs, cur, agg, aggBlks, fw>>

\* ids that wl1271_tx_complete_packet gives back
IdsDone == {id \in results : tx_frames[id] # NoFrame}

\* wl1271_tx_complete and the trim of the deferred queues: every queued result
\* frees its id, and freeing one of a full table clears the busy flag
TxComplete ==
    LET sent == {tx_frames[id] : id \in results} \ {Dummy, NoFrame}
        back == deferred \cup sent
    IN  /\ tx_frames' = [id \in Ids |-> IF id \in results THEN NoFrame
                                                          ELSE tx_frames[id]]
        /\ tx_frames_cnt' = tx_frames_cnt - Cardinality(IdsDone)
        /\ flags' = Unbusy(tx_frames_cnt = Descriptors /\ IdsDone # {})
        /\ results' = {}
        /\ IF Cardinality(back) > DeferLimit
             THEN deferred' = {} /\ mac' = mac \cup back
             ELSE deferred' = back /\ UNCHANGED mac

IrqResults ==
    /\ irq = "results" /\ tx = "off"
    /\ irq' = "event"
    /\ IF "results" \in intrs
         THEN TxComplete
         ELSE UNCHANGED <<flags, ids, stack, results>>
    /\ UNCHANGED <<state, queue, blks, work, worker, loops, intrs, loop,
                   fwIds, fwBlks, total, debt, released, fwIntr>>

\* DUMMY_PACKET_EVENT_ID: wl1271_tx_dummy_packet
IrqEvent ==
    /\ irq = "event" /\ tx = "off"
    /\ irq' = "status"
    /\ IF "event" \in intrs /\ "DUMMY_PACKET_PENDING" \notin flags
         THEN /\ flags' = flags \cup {"DUMMY_PACKET_PENDING"}
              /\ tx' = IF "FW_TX_BUSY" \in flags THEN "off" ELSE EnterTx
         ELSE UNCHANGED <<flags, tx>>
    /\ UNCHANGED <<state, queue, ids, blks, stack, work, worker, loops, intrs,
                   cur, agg, aggBlks, fw>>

\* fault: TX_PENDING is given up without a look at the queues
IrqExitQuietly ==
    /\ irq = "exit" /\ tx = "off"
    /\ flags' = flags \ {"TX_PENDING"}
    /\ irq' = "idle" /\ loops' = 0 /\ intrs' = {}
    /\ UNCHANGED <<state, queue, ids, blks, stack, work, worker, loop, fw>>

\* under the spinlock: give up TX_PENDING and hand what is left to tx_work
IrqExit ==
    /\ irq = "exit" /\ tx = "off"
    /\ flags' = flags \ {"TX_PENDING"}
    /\ work' = IF "FW_TX_BUSY" \notin flags /\ QueueNonEmpty
                 THEN "pending" ELSE work
    /\ irq' = "idle" /\ loops' = 0 /\ intrs' = {}
    /\ UNCHANGED <<state, queue, ids, blks, stack, worker, loop, fw>>

-----------------------------------------------------------------------------
(* wl1271_netstack_work returns completed frames                            *)

\* fault: the work is queued only when the deferred queue is over its limit
NetstackWorkWhenFull ==
    /\ Cardinality(deferred) > DeferLimit
    /\ mac' = mac \cup deferred
    /\ deferred' = {}
    /\ UNCHANGED <<state, flags, queue, ids, blks, threads, loop, fw>>

NetstackWork ==
    /\ deferred # {}
    /\ mac' = mac \cup deferred
    /\ deferred' = {}
    /\ UNCHANGED <<state, flags, queue, ids, blks, threads, loop, fw>>

(* The Tx watchdog: its timer runs out, then the work waits for the mutex.  *)
(* A rearm meanwhile restarts the timer but does not stop the work.         *)
WatchdogExpires ==
    /\ watchdog = {"armed"}
    /\ watchdog' = {"due"}
    /\ UNCHANGED <<state, flags, queue, ids, tx_blocks_available,
                   tx_allocated_blocks, tx_blocks_freed, stack, threads, loop,
                   fw>>

\* excused: a remain-on-channel, a scan, or an AP with stations
TxWatchdogWork(excused) ==
    /\ "due" \in watchdog /\ MutexFree
    /\ IF state = "ON" /\ tx_allocated_blocks # 0 /\ excused
         THEN watchdog' = (watchdog \ {"due"}) \cup {"armed"}
         ELSE watchdog' = watchdog \ {"due"}
    /\ state' = IF state = "ON" /\ tx_allocated_blocks # 0 /\ ~excused
                  THEN "RESTARTING" ELSE state
    /\ UNCHANGED <<flags, queue, ids, tx_blocks_available, tx_allocated_blocks,
                   tx_blocks_freed, stack, threads, loop, fw>>

-----------------------------------------------------------------------------
(* Recovery: any operation under the mutex whose command fails asks for it  *)
QueueRecovery ==
    /\ state = "ON" /\ MutexFree
    /\ state' = "RESTARTING"
    /\ UNCHANGED <<flags, queue, ids, blks, stack, threads, loop, fw>>

\* recovery_work removes the interfaces, which frees their links and purges
\* the links' queues, switches the state off and drops the mutex ...
RecoveryWork ==
    /\ state = "RESTARTING" /\ MutexFree
    /\ state' = "OFF"
    /\ queue' = <<>> /\ mac' = mac \cup {queue[i] : i \in DOMAIN queue}
    /\ UNCHANGED <<flags, ids, blks, deferred, threads, loop, fw>>

\* ... waits until the interrupt thread and the works are out and returns the
\* other frames to mac80211 (wl12xx_tx_reset); mac80211 then restarts the
\* hardware and the firmware boots with all its blocks free
RecoveryReset ==
    /\ state = "OFF"
    /\ irq = "idle" /\ worker = "idle"
    /\ state' = "ON"
    /\ flags' = {}
    /\ tx_frames' = [id \in Ids |-> NoFrame] /\ tx_frames_cnt' = 0
    /\ tx_blocks_available' = TotalBlocks
    /\ tx_allocated_blocks' = 0 /\ tx_blocks_freed' = 0
    /\ watchdog' = {}
    /\ deferred' = {}
    /\ mac' = mac \cup deferred
                \cup ({tx_frames[id] : id \in Ids} \ {Dummy, NoFrame})
    /\ work' = "none"
    /\ agg' = {} /\ aggBlks' = 0
    /\ fwIds' = {} /\ results' = {} /\ fwBlks' = 0
    /\ total' = TotalBlocks /\ debt' = 0 /\ released' = 0 /\ fwIntr' = {}
    /\ UNCHANGED <<queue, worker, irq, loops, intrs, tx, cur>>

-----------------------------------------------------------------------------
(* The firmware, as the driver uses it                                      *)

driver == <<state, flags, queue, ids, blks, stack, threads, loop>>

\* a frame is sent (or given up) and its result queued
FwResult(id) ==
    /\ id \in fwIds
    /\ fwIds' = fwIds \ {id}
    /\ results' = results \cup {id}
    /\ fwIntr' = fwIntr \cup {"data"}
    /\ UNCHANGED <<driver, fwBlks, total, debt, released>>

\* n blocks leave the frames that held them; d of them had been lent to Rx
FwRelease(n, d) ==
    /\ n \in 1 .. fwBlks /\ d \in 0 .. n /\ d <= debt /\ debt - d <= fwBlks - n
    /\ fwBlks' = fwBlks - n /\ debt' = debt - d
    /\ released' = IF released + n >= BlkMod THEN released + n - BlkMod
                                             ELSE released + n
    /\ fwIntr' = fwIntr \cup {"data"}
    /\ UNCHANGED <<driver, fwIds, results, total>>

\* blocks in use by frames are promised to Rx before they are released
FwLend(n) ==
    /\ n \in 1 .. (fwBlks - debt) /\ total - n >= MinTotal
    /\ total' = total - n /\ debt' = debt + n
    /\ UNCHANGED <<driver, fwIds, results, fwBlks, released, fwIntr>>

FwTakeBack(n) ==
    /\ n \in 1 .. (TotalBlocks - total - debt)
    /\ total' = total + n
    /\ fwIntr' = fwIntr \cup {"data"}
    /\ UNCHANGED <<driver, fwIds, results, fwBlks, debt, released>>

\* the firmware asks for a dummy packet to replenish the Rx blocks, one at a
\* time
FwAskDummy ==
    /\ AsksDummy
    /\ "event" \notin fwIntr \cup intrs /\ "DUMMY_PACKET_PENDING" \notin flags
    /\ cur # Dummy /\ \A id \in Ids : tx_frames[id] # Dummy
    /\ fwIntr' = fwIntr \cup {"event"}
    /\ UNCHANGED <<driver, fwIds, results, fwBlks, total, debt, released>>

-----------------------------------------------------------------------------
TxLoop ==
    \/ TxDequeue \/ TxAggregationFull \/ TxNoId \/ TxNoBlocks \/ TxAllocate
    \/ TxSetBusy \/ TxPrepareFails \/ TxWrite \/ TxWriteFails

Worker == WorkStart \/ WorkLock \/ WorkUnlock

IrqThread ==
    \/ IrqEnter \/ IrqCancelWork \/ IrqLock \/ IrqStatus \/ IrqLoopEnds
    \/ IrqFails \/ IrqData \/ IrqResults \/ IrqEvent \/ IrqExit

Recovery == QueueRecovery \/ RecoveryWork \/ RecoveryReset

Watchdog == WatchdogExpires \/ \E excused \in BOOLEAN : TxWatchdogWork(excused)

FwSends ==
    \/ \E id \in Ids : FwResult(id)
    \/ \E n \in 1 .. TotalBlocks, d \in 0 .. TotalBlocks : FwRelease(n, d)

FwMoves ==
    \/ \E n \in 1 .. TotalBlocks : FwLend(n) \/ FwTakeBack(n)
    \/ FwAskDummy

Next ==
    \/ \E f \in Frames : OpTx(f)
    \/ TxLoop \/ Worker \/ IrqThread \/ NetstackWork \/ Watchdog \/ Recovery
    \/ FwSends \/ FwMoves

Spec == Init /\ [][Next]_vars

\* the workqueue, the interrupt thread and the mutex are fair, a requested
\* recovery runs, and whoever waits for a bus transfer gets an answer
HostFairness ==
    /\ WF_vars(TxLoop) /\ WF_vars(Worker) /\ WF_vars(IrqThread)
    /\ WF_vars(NetstackWork) /\ WF_vars(RecoveryWork) /\ WF_vars(RecoveryReset)

\* a live firmware reports every frame and releases every block
FwFairness ==
    /\ \A id \in Ids : WF_vars(FwResult(id))
    /\ WF_vars(\E n \in 1 .. TotalBlocks, d \in 0 .. TotalBlocks :
                  FwRelease(n, d))

\* the watchdog timer runs, and no scan, remain-on-channel or AP station
\* excuses a silent firmware for ever
WatchdogFairness ==
    /\ WF_vars(WatchdogExpires) /\ SF_vars(TxWatchdogWork(FALSE))

FairSpec == Spec /\ HostFairness /\ WatchdogFairness

-----------------------------------------------------------------------------
(* Type correctness, with who holds wl->mutex, in four parts.  The counters *)
(* that C keeps unsigned never go below zero, and a frame is in hand only   *)
(* while it is prepared.                                                    *)
ControlOK ==
    /\ state \in {"ON", "RESTARTING", "OFF"}
    /\ flags \subseteq {"FW_TX_BUSY", "TX_PENDING", "DUMMY_PACKET_PENDING"}
    /\ watchdog \subseteq {"armed", "due"}
    /\ work \in {"none", "pending"} /\ worker \in {"idle", "lock", "hold"}
    /\ irq \in {"idle", "cancel", "lock", "status", "data", "results",
                "event", "exit"}
    /\ intrs \subseteq {"data", "event", "results"}
    /\ tx \in {"off", "dequeue", "prepare", "busy", "flush", "ack"}
    /\ fwIntr \subseteq {"data", "event"}

LockOK ==
    /\ ~(worker = "hold" /\ IrqHolds)
    /\ tx # "off" => ~MutexFree

PlacesOK ==
    /\ queue \in Seq(Frames)
    /\ tx_frames \in [Ids -> Packets \cup {NoFrame}]
    /\ deferred \subseteq Frames /\ mac \subseteq Frames
    /\ cur \in Packets \cup {NoFrame} /\ (tx = "prepare" <=> cur # NoFrame)
    /\ agg \subseteq Ids /\ fwIds \subseteq Ids /\ results \subseteq Ids

CountersOK ==
    /\ loops \in 0 .. MaxLoops
    /\ tx_blocks_available \in Nat /\ tx_allocated_blocks \in Nat
    /\ tx_blocks_freed \in 0 .. BlkMod - 1 /\ released \in 0 .. BlkMod - 1
    /\ aggBlks \in Nat /\ fwBlks \in Nat /\ debt \in 0 .. fwBlks
    /\ total \in MinTotal .. TotalBlocks

TypeOK == ControlOK /\ LockOK /\ PlacesOK /\ CountersOK

\* The driver's block accounting is exact: what wl1271_tx_allocate added and
\* wl12xx_fw_status has not yet subtracted is what the aggregation buffer and
\* the firmware hold plus what was released since the last status, whatever
\* the wraps of total_released_blks.
BlocksExact == tx_allocated_blocks = aggBlks + fwBlks + FreedBlocks

\* The driver never promises memory the firmware does not have: although
\* tx_blocks_available is never lowered by a status, it stays within the
\* blocks the firmware really has free for Tx.
NoOvercommit == tx_blocks_available + aggBlks <= total - (fwBlks - debt)

\* What is available and what is allocated never exceed the firmware's memory,
\* so a release can not wrap total_released_blks past the last status.
BlocksBounded == tx_blocks_available + tx_allocated_blocks <= TotalBlocks

\* A used descriptor id is in exactly one of the aggregation buffer, the
\* firmware and the result queue, so no result ever names a free id ("TX
\* result illegal id") and tx_frames_cnt counts the used ones.
IdsConsistent ==
    /\ Ids \ FreeIds = agg \cup fwIds \cup results
    /\ agg \cap fwIds = {} /\ (agg \cup fwIds) \cap results = {}
    /\ tx_frames_cnt = Cardinality(Ids \ FreeIds)

\* the frames on the queues, in the hands of tx_work_locked, and under an id
Members(s) == {s[k] : k \in DOMAIN s}
Queued == Members(queue)
InHand == {cur} \cap Frames
Sent == {tx_frames[id] : id \in Ids} \cap Frames

NoRepeat(s) == \A j, k \in DOMAIN s : s[j] = s[k] => j = k

\* Every frame is in exactly one place: with mac80211, on a queue, in the
\* hands of tx_work_locked, under a descriptor id, or completed and waiting
\* for netstack_work.  None is lost, freed twice or sent twice.
FrameInOnePlace ==
    /\ mac \cup Queued \cup InHand \cup Sent \cup deferred = Frames
    /\ mac \cap (Queued \cup InHand \cup Sent \cup deferred) = {}
    /\ Queued \cap (InHand \cup Sent \cup deferred) = {}
    /\ InHand \cap (Sent \cup deferred) = {} /\ Sent \cap deferred = {}
    /\ NoRepeat(queue)
    /\ \A j, k \in Ids : tx_frames[j] = tx_frames[k] /\ tx_frames[j] \in Frames
                           => j = k

\* No lost wakeup: while frames wait and the firmware is not known to be full,
\* tx_work is pending or started, or the interrupt thread will look at the
\* queues again before it gives up TX_PENDING.
NoLostWakeup ==
    state = "ON" /\ QueueNonEmpty /\ "FW_TX_BUSY" \notin flags =>
        work = "pending" \/ worker # "idle" \/ "TX_PENDING" \in flags

\* The busy flag always has a cause that will clear it: either blocks are out,
\* or every descriptor id is, so that a later interrupt reports them.
BusyHasCause ==
    state = "ON" /\ "FW_TX_BUSY" \in flags =>
        tx_allocated_blocks > 0 \/ FreeIds = {}

\* While blocks are allocated in the firmware the Tx watchdog is armed or about
\* to run, and it is not left armed when they are all released.
WatchdogArmed ==
    state = "ON" => /\ tx_allocated_blocks > 0 => watchdog # {}
                    /\ "armed" \in watchdog => tx_allocated_blocks > 0

\* With a live firmware every frame given to op_tx is handed back to mac80211,
\* whichever of op_tx, tx_work, the interrupt thread and the recovery meet.
EveryFrameReturned ==
    FwFairness => \A f \in Frames : f \notin mac ~> f \in mac

\* If the firmware falls silent, releasing no block any more, blocks still do
\* not stay allocated for ever: the Tx watchdog restarts the firmware.
StuckTxRecovered ==
    <>[][FALSE]_released => (tx_allocated_blocks > 0 ~> tx_allocated_blocks = 0)
=============================================================================
