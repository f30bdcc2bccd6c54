---------------------------- MODULE TxPathProofs ----------------------------
(***************************************************************************)
(* The inductive invariant of TxPath, and the theorems it gives, for every *)
(* set of frames, number of descriptors and amount of firmware memory.     *)
(***************************************************************************)
EXTENDS TxPath, SequenceTheorems, FiniteSetTheorems, TLAPS

-----------------------------------------------------------------------------
(* The control state, who is inside tx_work_locked, where frames and ids may *)
(* be, and the books of the firmware's memory blocks.                        *)

\* The control state stays in its range whatever step is taken.
LEMMA ControlInit == Init => ControlOK
  BY DEF Init, ControlOK

\* No step of op_tx, the work items, the interrupt thread or the firmware takes
\* the control state out of its range.
LEMMA ControlStep == ControlOK /\ [Next]_vars => ControlOK'
<1> SUFFICES ASSUME ControlOK, [Next]_vars PROVE ControlOK'
  OBVIOUS
<1> USE DEF ControlOK, blks, threads, loop, fw
<1>1. ASSUME NEW f \in Frames, OpTx(f) PROVE ControlOK'
  BY <1>1 DEF OpTx
<1>2. CASE TxLoop
  <2>1. CASE TxDequeue
    BY <2>1, Zenon DEF TxDequeue
  <2>2. CASE TxAggregationFull
    BY <2>2, Zenon DEF TxAggregationFull, Requeue
  <2>3. CASE TxNoId
    BY <2>3, Zenon DEF TxNoId, Requeue
  <2>4. CASE TxNoBlocks
    BY <2>4, Zenon DEF TxNoBlocks, Requeue, Unbusy
  <2>5. CASE TxAllocate
    BY <2>5 DEF TxAllocate, RearmedTxWatchdog
  <2>6. CASE TxSetBusy
    BY <2>6 DEF TxSetBusy
  <2>7. CASE TxPrepareFails
    BY <2>7 DEF TxPrepareFails
  <2>8. CASE TxWrite
    BY <2>8 DEF TxWrite
  <2>9. CASE TxWriteFails
    BY <2>9 DEF TxWriteFails
  <2> QED
    BY <1>2, <2>1, <2>2, <2>3, <2>4, <2>5, <2>6, <2>7, <2>8, <2>9 DEF TxLoop
<1>3. CASE Worker
  <2>1. CASE WorkStart
    BY <2>1 DEF WorkStart
  <2>2. CASE WorkLock
    BY <2>2 DEF WorkLock, EnterTx
  <2>3. CASE WorkUnlock
    BY <2>3 DEF WorkUnlock
  <2> QED
    BY <1>3, <2>1, <2>2, <2>3 DEF Worker
<1>4. CASE IrqThread
  <2>1. CASE IrqEnter
    BY <2>1 DEF IrqEnter
  <2>2. CASE IrqCancelWork
    BY <2>2 DEF IrqCancelWork
  <2>3. CASE IrqLock
    BY <2>3 DEF IrqLock
  <2>4. CASE IrqStatus
    BY <2>4 DEF IrqStatus, FwStatus, Unbusy, RearmedTxWatchdog
  <2>5. CASE IrqLoopEnds
    BY <2>5 DEF IrqLoopEnds
  <2>6. CASE IrqFails
    BY <2>6 DEF IrqFails
  <2>7. CASE IrqData
    BY <2>7 DEF IrqData, EnterTx
  <2>8. CASE IrqResults
    BY <2>8, Zenon DEF IrqResults, TxComplete, IdsDone, Unbusy
  <2>9. CASE IrqEvent
    BY <2>9, Zenon DEF IrqEvent, EnterTx
  <2>10. CASE IrqExit
    BY <2>10 DEF IrqExit
  <2> QED
    BY <1>4, <2>1, <2>2, <2>3, <2>4, <2>5, <2>6, <2>7, <2>8, <2>9, <2>10 DEF IrqThread
<1>5. CASE Recovery
  <2>1. CASE QueueRecovery
    BY <2>1 DEF QueueRecovery
  <2>2. CASE RecoveryWork
    BY <2>2 DEF RecoveryWork
  <2>3. CASE RecoveryReset
    BY <2>3 DEF RecoveryReset
  <2> QED
    BY <1>5, <2>1, <2>2, <2>3 DEF Recovery
<1>6. CASE NetstackWork
  BY <1>6 DEF NetstackWork
<1>7. CASE Watchdog
  <2>1. ASSUME NEW e \in BOOLEAN, TxWatchdogWork(e) PROVE ControlOK'
    BY <2>1, Zenon DEF TxWatchdogWork
  <2> QED
    BY <1>7, <2>1, ZenonT(30) DEF Watchdog, WatchdogExpires
<1>8. CASE FwSends
  <2>1. ASSUME NEW id \in Ids, FwResult(id) PROVE ControlOK'
    BY <2>1 DEF FwResult, driver
  <2>2. ASSUME NEW n \in 1 .. TotalBlocks, NEW d \in 0 .. TotalBlocks,
               FwRelease(n, d)
        PROVE  ControlOK'
    BY <2>2 DEF FwRelease, driver
  <2> QED
    BY <1>8, <2>1, <2>2 DEF FwSends
<1>9. CASE FwMoves
  <2>1. ASSUME NEW n \in 1 .. TotalBlocks, FwLend(n) PROVE ControlOK'
    BY <2>1 DEF FwLend, driver
  <2>2. ASSUME NEW n \in 1 .. TotalBlocks, FwTakeBack(n) PROVE ControlOK'
    BY <2>2 DEF FwTakeBack, driver
  <2>3. CASE FwAskDummy
    BY <2>3 DEF FwAskDummy, driver
  <2> QED
    BY <1>9, <2>1, <2>2, <2>3 DEF FwMoves
<1>10. CASE UNCHANGED vars
  BY <1>10 DEF vars
<1> QED
  BY <1>1, <1>2, <1>3, <1>4, <1>5, <1>6, <1>7, <1>8, <1>9, <1>10 DEF Next

\* Initially nobody holds wl->mutex.
LEMMA LockInit == Init => LockOK
  BY DEF Init, LockOK, IrqHolds

\* tx_work and wl12xx_irq_locked exclude each other, and tx_work_locked runs only
\* in one that holds wl->mutex.
LEMMA LockStep == ControlOK /\ LockOK /\ [Next]_vars => LockOK'
<1> SUFFICES ASSUME ControlOK, LockOK, [Next]_vars PROVE LockOK'
  OBVIOUS
<1> USE DEF ControlOK, LockOK, MutexFree, IrqHolds
<1>1. CASE UNCHANGED <<worker, irq, tx>>
  BY <1>1
<1>2. CASE TxLoop
  BY <1>2 DEF TxLoop, TxDequeue, TxAggregationFull, TxNoId, TxNoBlocks,
    TxAllocate, TxSetBusy, TxPrepareFails, TxWrite, TxWriteFails, threads
<1>3. CASE Worker
  BY <1>3 DEF Worker, WorkStart, WorkLock, WorkUnlock, loop
<1>4. CASE IrqThread
  BY <1>4 DEF IrqThread, IrqEnter, IrqCancelWork, IrqLock, IrqStatus,
    IrqLoopEnds, IrqFails, IrqData, IrqResults, IrqEvent, IrqExit, loop
<1>5. CASE RecoveryReset
  BY <1>5 DEF RecoveryReset
<1> QED
  <2>1. ASSUME NEW f \in Frames, OpTx(f) PROVE UNCHANGED <<worker, irq, tx>>
    BY <2>1 DEF OpTx, loop
  <2>2. CASE NetstackWork \/ QueueRecovery \/ RecoveryWork \/ Watchdog
    BY <1>1, <2>2 DEF NetstackWork, QueueRecovery, RecoveryWork, Watchdog,
      WatchdogExpires, TxWatchdogWork, threads, loop
  <2>3. CASE FwSends \/ FwMoves
    BY <1>1, <2>3 DEF FwSends, FwMoves, FwResult, FwRelease, FwLend,
      FwTakeBack, FwAskDummy, driver, threads, loop
  <2>4. CASE UNCHANGED vars
    BY <1>1, <2>4 DEF vars, threads, loop
  <2> QED
    BY <1>1, <1>2, <1>3, <1>4, <1>5, <2>1, <2>2, <2>3, <2>4
    DEF Next, Recovery

\* wl1271_skb_queue_head puts a frame in front of a queue of frames.
LEMMA PushFront ==
  ASSUME NEW S, NEW s \in Seq(S), NEW e \in S
  PROVE  <<e>> \o s \in Seq(S)
<1>1. <<e>> \in Seq(S)
  OBVIOUS
<1> QED
  BY <1>1, ConcatProperties

\* What moves frames and ids keeps them in the sets they belong to.
LEMMA PlacesInit == Init => PlacesOK
  BY FramesAssumption DEF FramesAssumption, Init, PlacesOK, Packets

\* tx_work_locked, wl1271_tx_complete and the recovery keep frames and ids in the
\* sets they belong to.
LEMMA PlacesStep == LockOK /\ PlacesOK /\ [Next]_vars => PlacesOK'
<1> SUFFICES ASSUME LockOK, PlacesOK, [Next]_vars PROVE PlacesOK'
  OBVIOUS
<1> USE FramesAssumption DEF FramesAssumption, Packets, PlacesOK
<1> DEFINE places == <<queue, tx_frames, deferred, mac, cur, agg, fwIds, results>>
<1>1. CASE UNCHANGED <<places, tx>>
  BY <1>1
<1>2. ASSUME NEW f \in Frames, OpTx(f) PROVE PlacesOK'
  <2>1. queue' \in Seq(Frames)
    BY <1>2, AppendProperties DEF OpTx
  <2> QED
    BY <1>2, <2>1 DEF OpTx, ids, loop, fw
<1>3. CASE TxLoop
  <2>1. ASSUME NEW fl, Requeue(fl), tx = "prepare", tx' # "prepare",
               UNCHANGED <<ids, stack, agg, fw>>
        PROVE  PlacesOK'
    <3>1. queue' \in Seq(Frames)
      <4>1. CASE cur = Dummy
        BY <2>1, <4>1 DEF Requeue
      <4>2. CASE cur # Dummy
        <5>1. cur \in Frames
          BY <2>1, <4>2
        <5>2. queue' = <<cur>> \o queue
          BY <2>1, <4>2 DEF Requeue
        <5> QED
          BY <5>1, <5>2, PushFront
      <4> QED
        BY <4>1, <4>2
    <3>2. cur' = NoFrame
      BY <2>1 DEF Requeue
    <3> QED
      BY <2>1, <3>1, <3>2 DEF ids, stack, fw
  <2>2. CASE TxDequeue
    <3>1. queue' \in Seq(Frames)
      BY <2>2, HeadTailProperties DEF TxDequeue
    <3>2. CASE queue # <<>>
      <4>1. cur' \in Frames /\ tx' = "prepare"
        BY <2>2, <3>2, HeadTailProperties DEF TxDequeue
      <4> QED
        BY <2>2, <3>1, <4>1 DEF TxDequeue, ids, stack, fw
    <3>3. CASE queue = <<>>
      BY <2>2, <3>1, <3>3 DEF TxDequeue, ids, stack, fw
    <3> QED
      BY <3>2, <3>3
  <2>3. CASE TxAggregationFull \/ TxNoId \/ TxNoBlocks
    BY <2>1, <2>3 DEF TxAggregationFull, TxNoId, TxNoBlocks
  <2>4. CASE TxAllocate
    <3>1. PICK id \in FreeIds : /\ tx_frames' = [tx_frames EXCEPT ![id] = cur]
                                /\ agg' = agg \cup {id}
      BY <2>4, Zenon DEF TxAllocate
    <3>2. id \in Ids
      BY DEF FreeIds
    <3> QED
      BY <2>4, <3>1, <3>2 DEF TxAllocate, stack, fw
  <2>5. CASE TxSetBusy
    BY <2>5 DEF TxSetBusy, ids, stack, fw
  <2>6. CASE TxPrepareFails
    BY <2>6 DEF TxPrepareFails, ids, fw
  <2>7. CASE TxWrite
    BY <2>7 DEF TxWrite, ids, stack
  <2>8. CASE TxWriteFails
    BY <2>8 DEF TxWriteFails, ids, stack, fw
  <2> QED
    BY <1>3, <2>2, <2>3, <2>4, <2>5, <2>6, <2>7, <2>8 DEF TxLoop
<1>4. CASE Worker
  <2>1. \/ UNCHANGED places /\ tx' # "prepare" /\ tx # "prepare"
        \/ UNCHANGED <<places, tx>>
    BY <1>4 DEF Worker, WorkStart, WorkLock, WorkUnlock, LockOK, MutexFree,
      EnterTx, ids, stack, loop, fw
  <2> QED
    BY <1>1, <2>1
<1>5. CASE IrqThread
  <2>1. CASE IrqStatus \/ IrqData \/ IrqEvent
    <3>1. UNCHANGED places /\ tx' # "prepare" /\ tx # "prepare"
      BY <2>1 DEF IrqStatus, IrqData, IrqEvent, EnterTx, ids, stack, loop, fw
    <3> QED
      BY <3>1
  <2>2. CASE IrqResults /\ "results" \in intrs
    <3> DEFINE back == deferred \cup
                 ({tx_frames[id] : id \in results} \ {Dummy, NoFrame})
    <3>1. back \subseteq Frames
      OBVIOUS
    <3>2. deferred' \subseteq Frames /\ mac' \subseteq Frames
      BY <2>2, <3>1 DEF IrqResults, TxComplete, IdsDone, Unbusy
    <3>3. tx_frames' \in [Ids -> Packets \cup {NoFrame}] /\ results' = {}
      BY <2>2 DEF IrqResults, TxComplete, IdsDone, Unbusy
    <3> QED
      BY <2>2, <3>2, <3>3 DEF IrqResults, loop
  <2>3. CASE IrqResults /\ "results" \notin intrs
    BY <1>1, <2>3 DEF IrqResults, ids, stack, loop
  <2>4. CASE \/ IrqEnter \/ IrqCancelWork \/ IrqLock \/ IrqLoopEnds
             \/ IrqFails \/ IrqExit
    BY <1>1, <2>4 DEF IrqEnter, IrqCancelWork, IrqLock, IrqLoopEnds, IrqFails,
      IrqExit, ids, stack, loop, fw
  <2> QED
    BY <1>5, <2>1, <2>2, <2>3, <2>4 DEF IrqThread
<1>6. CASE NetstackWork \/ Watchdog \/ QueueRecovery
  BY <1>6 DEF NetstackWork, Watchdog, WatchdogExpires, TxWatchdogWork,
    QueueRecovery, ids, stack, loop, fw
<1>7. CASE RecoveryWork
  <2>1. \A i \in DOMAIN queue : queue[i] \in Frames
    <3>1. queue \in Seq(Frames)
      BY DEF PlacesOK
    <3>2. ASSUME NEW q \in Seq(Frames) PROVE \A i \in DOMAIN q : q[i] \in Frames
      OBVIOUS
    <3> QED
      BY <3>1, <3>2, Zenon
  <2>2. mac' \subseteq Frames
    BY <1>7, <2>1, Zenon DEF RecoveryWork
  <2>3. queue' \in Seq(Frames)
    <3>1. queue' = <<>>
      BY <1>7, Zenon DEF RecoveryWork
    <3>2. <<>> \in Seq(Frames)
      OBVIOUS
    <3> QED
      BY <3>1, <3>2, Zenon
  <2>4. UNCHANGED <<tx_frames, deferred, cur, agg, fwIds, results, tx>>
    BY <1>7 DEF RecoveryWork, ids, loop, fw
  <2> QED
    BY <2>2, <2>3, <2>4
<1>8. CASE RecoveryReset
  BY <1>8 DEF RecoveryReset
<1>9. ASSUME NEW id \in Ids, FwResult(id) PROVE PlacesOK'
  BY <1>9 DEF FwResult, driver, ids, stack, loop
<1>10. ASSUME NEW n \in 1 .. TotalBlocks, NEW d \in 0 .. TotalBlocks,
              FwRelease(n, d)
       PROVE  PlacesOK'
  BY <1>1, <1>10 DEF FwRelease, driver, ids, stack, loop
<1>11. CASE FwMoves \/ UNCHANGED vars
  BY <1>1, <1>11 DEF FwMoves, FwLend, FwTakeBack, FwAskDummy, driver, vars, ids,
    stack, loop, fw
<1> QED
  BY <1>2, <1>3, <1>4, <1>5, <1>6, <1>7, <1>8, <1>9, <1>10, <1>11
  DEF Next, Recovery, FwSends

\* The block accounting: the three facts are inductive only together with the
\* ranges of the counters.  BlocksBounded keeps the distance between two
\* statuses below BlkMod, so that a wrap of the counter is never ambiguous.
BlocksInv == CountersOK /\ BlocksExact /\ NoOvercommit /\ BlocksBounded

\* After the boot all blocks are available and none is allocated.
LEMMA BlocksInit == Init => BlocksInv
  BY BlocksAssumption, BlkModAssumption, LimitsAssumption
  DEF BlocksAssumption, BlkModAssumption, LimitsAssumption, Init, BlocksInv,
      CountersOK, BlocksExact, NoOvercommit, BlocksBounded, FreedBlocks

\* wl1271_tx_allocate, the bus write, wl12xx_fw_status and the firmware keep the
\* block accounting exact and within the firmware's memory.
LEMMA BlocksStep == PlacesOK /\ BlocksInv /\ [Next]_vars => BlocksInv'
<1> SUFFICES ASSUME PlacesOK, BlocksInv, [Next]_vars PROVE BlocksInv'
  OBVIOUS
<1> USE BlocksAssumption, BlkModAssumption, LimitsAssumption
    DEF BlocksAssumption, BlkModAssumption, LimitsAssumption, BlocksInv,
        CountersOK, BlocksExact, NoOvercommit, BlocksBounded, FreedBlocks
<1>1. CASE UNCHANGED <<tx_blocks_available, tx_allocated_blocks,
                       tx_blocks_freed, loops, aggBlks, fwBlks, debt, total,
                       released>>
  BY <1>1
<1>2. CASE TxAllocate
  <2>1. Blocks[cur] \in 1 .. MinTotal
    BY <1>2 DEF TxAllocate, PlacesOK
  <2> QED
    BY <1>2, <2>1 DEF TxAllocate, fw, threads
<1>3. CASE TxWrite
  BY <1>3 DEF TxWrite, blks, threads
<1>4. CASE IrqLock
  BY <1>4 DEF IrqLock, blks, loop, fw
<1>5. CASE IrqStatus
  BY <1>5 DEF IrqStatus, FwStatus, FwFreeBlocks, Unbusy, loop
<1>6. CASE IrqExit
  BY <1>6 DEF IrqExit, blks, loop, fw
<1>7. CASE RecoveryReset
  BY <1>7 DEF RecoveryReset
<1>8. ASSUME NEW n \in 1 .. TotalBlocks, NEW d \in 0 .. TotalBlocks,
             FwRelease(n, d)
      PROVE  BlocksInv'
  BY <1>8 DEF FwRelease, driver, blks, threads, loop
<1>9. ASSUME NEW n \in 1 .. TotalBlocks, FwLend(n) PROVE BlocksInv'
  BY <1>9 DEF FwLend, driver, blks, threads, loop
<1>10. ASSUME NEW n \in 1 .. TotalBlocks, FwTakeBack(n) PROVE BlocksInv'
  BY <1>10 DEF FwTakeBack, driver, blks, threads, loop
<1> QED
  <2> USE DEF blks, threads, loop, fw
  <2>1. ASSUME NEW f \in Frames, OpTx(f) PROVE BlocksInv'
    BY <1>1, <2>1 DEF OpTx
  <2>2. CASE \/ TxDequeue \/ TxAggregationFull \/ TxNoId \/ TxNoBlocks
             \/ TxSetBusy \/ TxPrepareFails \/ TxWriteFails
    BY <1>1, <2>2 DEF TxDequeue, TxAggregationFull, TxNoId, TxNoBlocks,
      TxSetBusy, TxPrepareFails, TxWriteFails
  <2>3. CASE Worker
    BY <1>1, <2>3 DEF Worker, WorkStart, WorkLock, WorkUnlock
  <2>4. CASE \/ IrqEnter \/ IrqCancelWork \/ IrqLoopEnds \/ IrqFails
             \/ IrqData \/ IrqResults \/ IrqEvent
    BY <1>1, <2>4 DEF IrqEnter, IrqCancelWork, IrqLoopEnds, IrqFails, IrqData,
      IrqResults, IrqEvent
  <2>5. CASE NetstackWork \/ Watchdog \/ QueueRecovery \/ RecoveryWork
    BY <1>1, <2>5 DEF NetstackWork, Watchdog, WatchdogExpires, TxWatchdogWork,
      QueueRecovery, RecoveryWork
  <2>6. ASSUME NEW id \in Ids, FwResult(id) PROVE BlocksInv'
    BY <1>1, <2>6 DEF FwResult, driver
  <2>7. CASE FwAskDummy \/ UNCHANGED vars
    BY <1>1, <2>7, Zenon DEF FwAskDummy, driver, vars
  <2> QED
    BY <1>2, <1>3, <1>4, <1>5, <1>6, <1>7, <1>8, <1>9, <1>10, <2>1, <2>2,
       <2>3, <2>4, <2>5, <2>6, <2>7
    DEF Next, TxLoop, IrqThread, Recovery, FwSends, FwMoves

-----------------------------------------------------------------------------
(* Wakeups, descriptor ids, and the place of every frame.                    *)

\* Why no wakeup is lost.  TX_PENDING is set exactly while the interrupt thread
\* is busy, a tx_work_locked that is about to end has seen empty queues, a full
\* firmware or an op_tx that queued tx_work again, and nothing is queued or
\* transmitted while the state is OFF.
WakeInv ==
    /\ NoLostWakeup
    /\ "TX_PENDING" \in flags <=> irq # "idle"
    /\ worker = "hold" /\ tx \in {"ack", "off"} /\ state = "ON" /\ QueueNonEmpty
          /\ "FW_TX_BUSY" \notin flags => work = "pending" \/ irq # "idle"
    /\ state = "OFF" => queue = <<>> /\ tx = "off"

\* Initially nothing is queued.
LEMMA WakeInit == Init => WakeInv
  BY DEF Init, WakeInv, NoLostWakeup, QueueNonEmpty

\* Every step that queues a frame or clears FW_TX_BUSY leaves someone on the way
\* to the queues: op_tx, tx_work_locked and the end of wl12xx_irq.
LEMMA WakeStep ==
    ControlOK /\ LockOK /\ PlacesOK /\ WakeInv /\ [Next]_vars => WakeInv'
<1> SUFFICES ASSUME ControlOK, LockOK, PlacesOK, WakeInv, [Next]_vars
             PROVE  WakeInv'
  OBVIOUS
<1> USE DEF ControlOK, LockOK, WakeInv, NoLostWakeup, QueueNonEmpty, IrqHolds,
            MutexFree, ids, blks, stack, threads, loop, fw
<1>1. CASE UNCHANGED <<state, flags, queue, work, worker, irq, tx>>
  BY <1>1
<1>2. ASSUME NEW f \in Frames, OpTx(f) PROVE WakeInv'
  BY <1>2 DEF OpTx
<1>3. CASE TxLoop
  <2>1. CASE TxDequeue
    BY <2>1 DEF TxDequeue
  <2>2. CASE TxAggregationFull \/ TxNoId
    BY <2>2 DEF TxAggregationFull, TxNoId, Requeue
  <2>3. CASE TxNoBlocks
    BY <2>3 DEF TxNoBlocks, Requeue, Unbusy
  <2>4. CASE TxAllocate
    BY <2>4 DEF TxAllocate
  <2>5. CASE TxSetBusy
    BY <2>5 DEF TxSetBusy
  <2>6. CASE TxPrepareFails
    BY <2>6 DEF TxPrepareFails
  <2>7. CASE TxWrite
    BY <2>7 DEF TxWrite
  <2>8. CASE TxWriteFails
    BY <2>8 DEF TxWriteFails
  <2> QED
    BY <1>3, <2>1, <2>2, <2>3, <2>4, <2>5, <2>6, <2>7, <2>8 DEF TxLoop
<1>4. CASE Worker
  <2>1. CASE WorkStart
    BY <2>1 DEF WorkStart
  <2>2. CASE WorkLock
    BY <2>2 DEF WorkLock, EnterTx
  <2>3. CASE WorkUnlock
    BY <2>3 DEF WorkUnlock
  <2> QED
    BY <1>4, <2>1, <2>2, <2>3 DEF Worker
<1>5. CASE IrqThread
  <2>1. CASE IrqEnter
    BY <2>1 DEF IrqEnter
  <2>2. CASE IrqCancelWork
    BY <2>2 DEF IrqCancelWork
  <2>3. CASE IrqLock
    BY <2>3 DEF IrqLock
  <2>4. CASE IrqStatus
    BY <2>4 DEF IrqStatus, FwStatus, FwFreeBlocks, Unbusy
  <2>5. CASE IrqLoopEnds \/ IrqFails
    BY <2>5 DEF IrqLoopEnds, IrqFails
  <2>6. CASE IrqData
    BY <2>6 DEF IrqData, EnterTx
  <2>7. CASE IrqResults
    BY <2>7 DEF IrqResults, TxComplete, IdsDone, Unbusy
  <2>8. CASE IrqEvent
    BY <2>8 DEF IrqEvent, EnterTx
  <2>9. CASE IrqExit
    BY <2>9 DEF IrqExit
  <2> QED
    BY <1>5, <2>1, <2>2, <2>3, <2>4, <2>5, <2>6, <2>7, <2>8, <2>9
    DEF IrqThread
<1>6. CASE Recovery
  <2>1. CASE QueueRecovery
    BY <2>1 DEF QueueRecovery
  <2>2. CASE RecoveryWork
    BY <2>2 DEF RecoveryWork
  <2>3. CASE RecoveryReset
    BY <2>3 DEF RecoveryReset
  <2> QED
    BY <1>6, <2>1, <2>2, <2>3 DEF Recovery
<1>7. ASSUME NEW e \in BOOLEAN, TxWatchdogWork(e) PROVE WakeInv'
  BY <1>7 DEF TxWatchdogWork
<1>8. CASE NetstackWork \/ WatchdogExpires \/ FwSends \/ FwMoves \/ UNCHANGED vars
  BY <1>1, <1>8 DEF NetstackWork, WatchdogExpires, FwSends, FwMoves, FwResult,
    FwRelease, FwLend, FwTakeBack, FwAskDummy, driver, vars
<1> QED
  BY <1>2, <1>3, <1>4, <1>5, <1>6, <1>7, <1>8 DEF Next, Watchdog

\* Sets of descriptor ids are finite and can be counted.
LEMMA IdsFinite == \A S \in SUBSET Ids : IsFiniteSet(S) /\ Cardinality(S) \in Nat
<1>1. IsFiniteSet(Ids)
  BY DescriptorsAssumption, FS_Interval, 0 \in Int, Descriptors - 1 \in Int
  DEF DescriptorsAssumption, Ids
<1> QED
  BY <1>1, FS_Subset, FS_CardinalityType

\* Initially every descriptor id is free.
LEMMA IdsInit == Init => IdsConsistent
  BY FS_EmptySet DEF Init, IdsConsistent, FreeIds

\* wl1271_alloc_tx_id, the bus write, the firmware's results and
\* wl1271_tx_complete move an id from one place to exactly one other.
LEMMA IdsStep == PlacesOK /\ IdsConsistent /\ [Next]_vars => IdsConsistent'
<1> SUFFICES ASSUME PlacesOK, IdsConsistent, [Next]_vars PROVE IdsConsistent'
  OBVIOUS
<1> USE DEF PlacesOK, IdsConsistent, FreeIds
<1>1. CASE UNCHANGED <<tx_frames, tx_frames_cnt, agg, fwIds, results>>
  BY <1>1
<1>2. CASE TxAllocate
  <2> DEFINE used == Ids \ FreeIds
  <2>1. PICK id \in FreeIds : /\ tx_frames' = [tx_frames EXCEPT ![id] = cur]
                              /\ agg' = agg \cup {id}
    BY <1>2, Zenon DEF TxAllocate
  <2>2. cur # NoFrame
    BY <1>2 DEF TxAllocate
  <2>3. used' = used \cup {id} /\ id \notin used /\ id \in Ids
    BY <2>1, <2>2
  <2>4. Cardinality(used') = tx_frames_cnt'
    BY <1>2, <2>3, IdsFinite, FS_AddElement, Zenon DEF TxAllocate
  <2> QED
    BY <1>2, <2>1, <2>3, <2>4 DEF TxAllocate, fw
<1>3. CASE TxWrite
  BY <1>3 DEF TxWrite, ids
<1>4. CASE IrqResults
  <2>1. CASE "results" \in intrs
    <3> DEFINE used == Ids \ FreeIds
               freed == {id \in results : tx_frames[id] # NoFrame}
    <3>1. freed = results /\ results \subseteq used
      OBVIOUS
    <3>2. used' = used \ results
      BY <1>4, <2>1 DEF IrqResults, TxComplete, IdsDone, Unbusy
    <3>3. /\ IsFiniteSet(used) /\ used \cap results = results
          /\ Cardinality(used) \in Nat /\ Cardinality(results) \in Nat
      BY <3>1, IdsFinite
    <3>4. Cardinality(used') = Cardinality(used) - Cardinality(results)
      BY <3>2, <3>3, FS_Difference, Zenon
    <3>5. tx_frames_cnt' = Cardinality(used')
      BY <1>4, <2>1, <3>1, <3>4, Zenon DEF IrqResults, TxComplete, IdsDone, Unbusy
    <3> QED
      BY <1>4, <2>1, <3>2, <3>5 DEF IrqResults, TxComplete, IdsDone, Unbusy, loop
  <2>2. CASE "results" \notin intrs
    BY <1>1, <1>4, <2>2 DEF IrqResults, ids, loop
  <2> QED
    BY <2>1, <2>2
<1>5. CASE RecoveryReset
  BY <1>5, FS_EmptySet, Zenon DEF RecoveryReset
<1>6. ASSUME NEW id \in Ids, FwResult(id) PROVE IdsConsistent'
  BY <1>6 DEF FwResult, driver, ids, loop
<1> QED
  <2> USE DEF ids, loop, fw
  <2>1. ASSUME NEW f \in Frames, OpTx(f) PROVE IdsConsistent'
    BY <1>1, <2>1 DEF OpTx
  <2>2. CASE \/ TxDequeue \/ TxAggregationFull \/ TxNoId \/ TxNoBlocks
             \/ TxSetBusy \/ TxPrepareFails \/ TxWriteFails
    BY <1>1, <2>2 DEF TxDequeue, TxAggregationFull, TxNoId, TxNoBlocks,
      TxSetBusy, TxPrepareFails, TxWriteFails
  <2>3. CASE Worker
    BY <1>1, <2>3 DEF Worker, WorkStart, WorkLock, WorkUnlock
  <2>4. CASE \/ IrqEnter \/ IrqCancelWork \/ IrqLock \/ IrqStatus
             \/ IrqLoopEnds \/ IrqFails \/ IrqData \/ IrqEvent \/ IrqExit
    BY <1>1, <2>4 DEF IrqEnter, IrqCancelWork, IrqLock, IrqStatus, IrqLoopEnds,
      IrqFails, IrqData, IrqEvent, IrqExit
  <2>5. CASE NetstackWork \/ Watchdog \/ QueueRecovery \/ RecoveryWork
    BY <1>1, <2>5 DEF NetstackWork, Watchdog, WatchdogExpires, TxWatchdogWork,
      QueueRecovery, RecoveryWork
  <2>6. ASSUME NEW n \in 1 .. TotalBlocks, NEW d \in 0 .. TotalBlocks,
               FwRelease(n, d)
        PROVE  IdsConsistent'
    BY <1>1, <2>6 DEF FwRelease, driver
  <2>7. CASE FwMoves \/ UNCHANGED vars
    BY <1>1, <2>7 DEF FwMoves, FwLend, FwTakeBack, FwAskDummy, driver, vars
  <2> QED
    BY <1>2, <1>3, <1>4, <1>5, <1>6, <2>1, <2>2, <2>3, <2>4, <2>5, <2>6, <2>7, Zenon
    DEF Next, TxLoop, IrqThread, Recovery, FwSends

\* Why the busy flag always has a cause, and the watchdog always its timer.
\* tx_work_locked sets the flag only when the blocks left are fewer than the
\* largest frame needs or the ids are used up; a status that raises the blocks
\* clears it, and so does the first id given back.
BusyInv ==
    /\ tx_blocks_available + tx_allocated_blocks >= MinTotal
    /\ state = "ON" /\ (tx = "busy" \/ "FW_TX_BUSY" \in flags) =>
          tx_blocks_available < MinTotal \/ FreeIds = {}
    /\ WatchdogArmed

\* Initially nothing is allocated and the watchdog is off.
LEMMA BusyInit == Init => BusyInv
  BY BlocksAssumption, DescriptorsAssumption
  DEF BlocksAssumption, DescriptorsAssumption, Init, BusyInv, WatchdogArmed

\* FW_TX_BUSY is only set while something is outstanding, and is cleared no later
\* than the last of it; the watchdog is armed and cancelled with the blocks.
LEMMA BusyStep ==
    /\ ControlOK /\ LockOK /\ PlacesOK /\ BlocksInv /\ IdsConsistent
    /\ BusyInv /\ [Next]_vars
    => BusyInv'
<1> SUFFICES ASSUME ControlOK, LockOK, PlacesOK, BlocksInv, IdsConsistent,
                    BusyInv, [Next]_vars
             PROVE  BusyInv'
  OBVIOUS
<1> USE BlocksAssumption
    DEF BlocksAssumption, BlocksInv, CountersOK, BusyInv, WatchdogArmed
<1>1. CASE UNCHANGED <<state, flags, tx, tx_frames, tx_blocks_available,
                       tx_allocated_blocks, watchdog>>
  BY <1>1 DEF FreeIds
<1>2. CASE TxLoop
  <2>1. CASE TxDequeue
    BY <2>1 DEF TxDequeue, FreeIds, ids, blks
  <2>2. CASE TxAggregationFull
    BY <2>2 DEF TxAggregationFull, Requeue, FreeIds, ids, blks
  <2>3. CASE TxNoId
    BY <2>3 DEF TxNoId, Requeue, FreeIds, ids, blks
  <2>4. CASE TxNoBlocks
    <3>1. Blocks[cur] \in 1 .. MinTotal
      BY <2>4 DEF TxNoBlocks, PlacesOK
    <3> QED
      BY <2>4, <3>1 DEF TxNoBlocks, FreeIds, ids, blks
  <2>5. CASE TxAllocate
    <3>1. Blocks[cur] \in 1 .. MinTotal /\ cur # NoFrame
      BY <2>5 DEF TxAllocate, PlacesOK
    <3>2. FreeIds # {}
      BY <2>5 DEF TxAllocate
    <3> QED
      BY <2>5, <3>1, <3>2 DEF TxAllocate, RearmedTxWatchdog
  <2>6. CASE TxSetBusy
    BY <2>6 DEF TxSetBusy, FreeIds, ids, blks
  <2>7. CASE TxPrepareFails \/ TxWriteFails
    BY <2>7 DEF TxPrepareFails, TxWriteFails, ids, blks
  <2>8. CASE TxWrite
    BY <2>8 DEF TxWrite, FreeIds, ids, blks
  <2> QED
    BY <1>2, <2>1, <2>2, <2>3, <2>4, <2>5, <2>6, <2>7, <2>8 DEF TxLoop
<1>3. CASE IrqStatus
  <2>1. FreedBlocks \in Nat /\ tx_allocated_blocks' \in Nat
    BY <1>3, BlkModAssumption, SMTT(30)
    DEF IrqStatus, FwStatus, FreedBlocks, BlocksExact, BlkModAssumption
  <2> QED
    BY <1>3, <2>1 DEF IrqStatus, FwStatus, FwFreeBlocks, Unbusy,
      RearmedTxWatchdog, FreeIds, ids, loop
<1>4. CASE IrqResults
  <2>1. CASE "results" \in intrs
    <3>1. CASE FreeIds = {}
      <4>1. tx_frames_cnt = Descriptors
        BY <3>1, DescriptorsAssumption, FS_Interval, 0 \in Int,
           Descriptors - 1 \in Int
        DEF IdsConsistent, DescriptorsAssumption, Ids
      <4>2. CASE results = {}
        BY <1>4, <2>1, <3>1, <4>2
        DEF IrqResults, TxComplete, IdsDone, Unbusy, FreeIds, blks, loop
      <4>3. CASE results # {}
        <5>1. {id \in results : tx_frames[id] # NoFrame} # {}
          BY <3>1, <4>3 DEF FreeIds, PlacesOK
        <5> QED
          BY <1>4, <2>1, <4>1, <5>1 DEF IrqResults, TxComplete, IdsDone, Unbusy, blks, loop
      <4> QED
        BY <4>2, <4>3
    <3>2. CASE FreeIds # {}
      BY <1>4, <2>1, <3>2, Zenon DEF IrqResults, TxComplete, IdsDone, Unbusy, blks, loop
    <3> QED
      BY <3>1, <3>2
  <2>2. CASE "results" \notin intrs
    BY <1>1, <1>4, <2>2 DEF IrqResults, ids, blks, loop
  <2> QED
    BY <2>1, <2>2
<1>5. CASE IrqData
  BY <1>5 DEF IrqData, EnterTx, FreeIds, ids, blks
<1>6. CASE IrqEvent
  BY <1>6 DEF IrqEvent, EnterTx, FreeIds, ids, blks
<1>7. CASE IrqEnter \/ IrqExit \/ IrqFails
  BY <1>7 DEF IrqEnter, IrqExit, IrqFails, FreeIds, ids, blks, loop
<1>8. CASE Worker
  BY <1>8 DEF Worker, WorkStart, WorkLock, WorkUnlock, EnterTx, FreeIds, ids,
    blks, loop
<1>9. CASE WatchdogExpires
  BY <1>9 DEF WatchdogExpires, FreeIds, ids, loop
<1>10. ASSUME NEW e \in BOOLEAN, TxWatchdogWork(e) PROVE BusyInv'
  BY <1>10, SMTT(30) DEF TxWatchdogWork, FreeIds, ids, loop, ControlOK
<1>11. CASE Recovery
  <2>1. CASE QueueRecovery
    BY <2>1 DEF QueueRecovery, blks
  <2>2. CASE RecoveryWork
    BY <2>2 DEF RecoveryWork, blks
  <2>3. CASE RecoveryReset
    BY <2>3, SMTT(30) DEF RecoveryReset, LockOK, MutexFree, IrqHolds
  <2> QED
    BY <1>11, <2>1, <2>2, <2>3 DEF Recovery
<1> QED
  <2> USE DEF ids, blks, threads, loop, fw
  <2>1. ASSUME NEW f \in Frames, OpTx(f) PROVE BusyInv'
    BY <1>1, <2>1 DEF OpTx
  <2>2. CASE NetstackWork \/ IrqCancelWork \/ IrqLock \/ IrqLoopEnds
    BY <1>1, <2>2 DEF NetstackWork, IrqCancelWork, IrqLock, IrqLoopEnds
  <2>3. CASE FwSends
    BY <1>1, <2>3 DEF FwSends, FwResult, FwRelease, driver
  <2>4. CASE FwMoves \/ UNCHANGED vars
    BY <1>1, <2>4, Zenon DEF FwMoves, FwLend, FwTakeBack, FwAskDummy, driver, vars
  <2> QED
    BY <1>2, <1>3, <1>4, <1>5, <1>6, <1>7, <1>8, <1>9, <1>10, <1>11, <2>1,
       <2>2, <2>3, <2>4 DEF Next, IrqThread, Watchdog

\* What dequeueing, requeueing and queueing do to the frames on a queue that
\* holds each frame once.
LEMMA HeadGone ==
  ASSUME NEW S, NEW s \in Seq(S), s # <<>>,
         NoRepeat(s)
  PROVE  /\ Members(Tail(s)) = Members(s) \ {Head(s)}
         /\ Head(s) \in Members(s)
         /\ NoRepeat(Tail(s))
<1> USE DEF Members, NoRepeat
<1>1. /\ Len(s) \in Nat /\ Len(s) > 0 /\ DOMAIN s = 1 .. Len(s)
      /\ Head(s) = s[1] /\ Len(Tail(s)) = Len(s) - 1
      /\ DOMAIN Tail(s) = 1 .. Len(s) - 1
      /\ \A k \in 1 .. Len(s) - 1 : Tail(s)[k] = s[k + 1]
  OBVIOUS
<1>2. \A k \in 2 .. Len(s) : k - 1 \in 1 .. Len(s) - 1 /\ s[k] = Tail(s)[k - 1]
  BY <1>1
<1>3. \A j, k \in 1 .. Len(s) - 1 :
         j + 1 \in DOMAIN s /\ k + 1 \in DOMAIN s /\ (j + 1 = k + 1 => j = k)
  BY <1>1
<1>4. \A j, k \in DOMAIN Tail(s) : Tail(s)[j] = Tail(s)[k] => j = k
  BY <1>1, <1>3
<1>5. \A k \in DOMAIN Tail(s) : /\ Tail(s)[k] \in {s[j] : j \in DOMAIN s}
                                /\ Tail(s)[k] # Head(s)
  BY <1>1, <1>3
<1>6. \A k \in DOMAIN s : s[k] = Head(s) \/ s[k] \in {Tail(s)[j] : j \in DOMAIN Tail(s)}
  <2> TAKE k \in DOMAIN s
  <2>1. CASE k = 1
    BY <1>1, <2>1
  <2>2. CASE k # 1
    <3>1. k \in 2 .. Len(s)
      BY <1>1, <2>2
    <3>2. s[k] = Tail(s)[k - 1] /\ k - 1 \in DOMAIN Tail(s)
      BY <1>1, <1>2, <3>1
    <3> QED
      BY <3>2
  <2> QED
    BY <2>1, <2>2
<1>7. Head(s) \in {s[k] : k \in DOMAIN s}
  BY <1>1
<1> QED
  BY <1>4, <1>5, <1>6, <1>7

\* wl1271_skb_queue_head: the frame joins the others at the front.
LEMMA HeadBack ==
  ASSUME NEW S, NEW s \in Seq(S), NEW e \in S, e \notin Members(s),
         NoRepeat(s),
         NEW t, t = <<e>> \o s
  PROVE  /\ Members(t) = Members(s) \cup {e}
         /\ NoRepeat(t)
<1> USE DEF Members, NoRepeat
<1>1. /\ Len(s) \in Nat /\ DOMAIN s = 1 .. Len(s) /\ DOMAIN t = 1 .. Len(s) + 1
      /\ t[1] = e /\ \A k \in 2 .. Len(s) + 1 : t[k] = s[k - 1]
  OBVIOUS
<1>2. \A k \in DOMAIN s : k + 1 \in DOMAIN t /\ s[k] = t[k + 1]
  BY <1>1
<1>3. \A k \in DOMAIN t : k = 1 \/ (k \in 2 .. Len(s) + 1 /\ k - 1 \in DOMAIN s)
  BY <1>1
<1>4. \A k \in DOMAIN t : t[k] = e \/ t[k] \in {s[j] : j \in DOMAIN s}
  BY <1>1, <1>3
<1>5. \A k \in DOMAIN s : s[k] \in {t[j] : j \in DOMAIN t}
  BY <1>2, Zenon
<1>6. 1 \in DOMAIN t
  BY <1>1
<1>7. {t[k] : k \in DOMAIN t} = {s[k] : k \in DOMAIN s} \cup {e}
  BY <1>1, <1>4, <1>5, <1>6, SMTT(30)
<1>8. \A j, k \in DOMAIN t : t[j] = t[k] => j = k
  <2> TAKE j, k \in DOMAIN t
  <2>1. CASE j = 1 /\ k = 1
    BY <2>1
  <2>2. CASE j = 1 /\ k # 1
    BY <1>1, <1>3, <2>2
  <2>3. CASE j # 1 /\ k = 1
    BY <1>1, <1>3, <2>3
  <2>4. CASE j # 1 /\ k # 1
    <3>1. /\ t[j] = s[j - 1] /\ j - 1 \in DOMAIN s
          /\ t[k] = s[k - 1] /\ k - 1 \in DOMAIN s
      BY <1>1, <1>3, <2>4
    <3>2. t[j] = t[k] => j - 1 = k - 1
      BY <3>1, Zenon
    <3> QED
      BY <1>1, <3>2
  <2> QED
    BY <2>1, <2>2, <2>3, <2>4
<1> QED
  BY <1>7, <1>8, Zenon

\* wl1271_op_tx: the frame joins the others at the back.
LEMMA TailGrows ==
  ASSUME NEW S, NEW s \in Seq(S), NEW e \in S, e \notin Members(s),
         NoRepeat(s),
         NEW t, t = Append(s, e)
  PROVE  /\ Members(t) = Members(s) \cup {e}
         /\ NoRepeat(t)
<1> USE DEF Members, NoRepeat
<1>1. /\ Len(s) \in Nat /\ DOMAIN s = 1 .. Len(s)
      /\ DOMAIN t = 1 .. Len(s) + 1
      /\ t[Len(s) + 1] = e /\ \A k \in 1 .. Len(s) : t[k] = s[k]
  OBVIOUS
<1>2. {t[k] : k \in DOMAIN t} = {s[k] : k \in DOMAIN s} \cup {e}
  BY <1>1
<1>3. \A j, k \in DOMAIN t : t[j] = t[k] => j = k
  BY <1>1
<1> QED
  BY <1>2, <1>3

\* Initially mac80211 has every frame.
LEMMA PlaceInit == Init => FrameInOnePlace
  BY FramesAssumption
  DEF FramesAssumption, Packets, Init, FrameInOnePlace, Queued, InHand, Sent,
      Members, NoRepeat

\* op_tx, tx_work_locked, wl1271_tx_complete, the deferred queue and the recovery
\* each move a frame from one place to one other.
LEMMA PlaceStep ==
    LockOK /\ PlacesOK /\ IdsConsistent /\ WakeInv /\ FrameInOnePlace /\ [Next]_vars
      => FrameInOnePlace'
<1> SUFFICES ASSUME LockOK, PlacesOK, IdsConsistent, WakeInv, FrameInOnePlace,
                    [Next]_vars
             PROVE  FrameInOnePlace'
  OBVIOUS
<1> USE FramesAssumption DEF FramesAssumption, Packets
<1> DEFINE places == <<queue, tx_frames, deferred, mac, cur>>
           OneId == \A j, k \in Ids :
                      tx_frames[j] = tx_frames[k] /\ tx_frames[j] \in Frames => j = k
<1>1. CASE UNCHANGED places
  <2>1. Queued' = Queued /\ InHand' = InHand /\ Sent' = Sent
    BY <1>1 DEF Queued, InHand, Sent
  <2>2. NoRepeat(queue') /\ OneId' /\ mac' = mac /\ deferred' = deferred
    BY <1>1 DEF FrameInOnePlace
  <2> QED
    BY <2>1, <2>2, Zenon DEF FrameInOnePlace
<1>2. ASSUME NEW f \in Frames, OpTx(f) PROVE FrameInOnePlace'
  <2>1. f \in mac /\ mac' = mac \ {f} /\ queue' = Append(queue, f)
    BY <1>2 DEF OpTx
  <2>2. UNCHANGED <<tx_frames, deferred, cur>>
    BY <1>2 DEF OpTx, ids, loop
  <2>3. f \in Frames /\ f \notin Queued /\ NoRepeat(queue) /\ queue \in Seq(Frames)
    BY <2>1 DEF FrameInOnePlace, PlacesOK
  <2>4. Queued' = Queued \cup {f} /\ NoRepeat(queue')
    <3>1. f \notin Members(queue) /\ queue' = Append(queue, f)
      BY <2>1, <2>3 DEF Queued
    <3>2. Members(queue') = Members(queue) \cup {f} /\ NoRepeat(queue')
      BY ONLY <2>3, <3>1, TailGrows, Zenon
    <3> QED
      BY <3>2 DEF Queued
  <2>5. InHand' = InHand /\ Sent' = Sent
    BY <2>2 DEF InHand, Sent
  <2> QED
    BY <2>1, <2>2, <2>4, <2>5 DEF FrameInOnePlace
<1>3. ASSUME NEW fl, Requeue(fl), tx = "prepare", UNCHANGED <<ids, stack>>
      PROVE  FrameInOnePlace'
  <2>1. cur' = NoFrame /\ UNCHANGED <<tx_frames, deferred, mac>>
    BY <1>3 DEF Requeue, ids, stack
  <2>2. InHand' = {} /\ Sent' = Sent /\ OneId'
    BY <2>1 DEF InHand, Sent, FrameInOnePlace
  <2>3. CASE cur = Dummy
    <3>1. queue' = queue /\ InHand = {}
      BY <1>3, <2>3 DEF Requeue, InHand
    <3> QED
      BY <2>1, <2>2, <3>1 DEF FrameInOnePlace, Queued
  <2>4. CASE cur # Dummy
    <3>1. cur \in Frames /\ InHand = {cur} /\ queue \in Seq(Frames)
      BY <1>3, <2>4 DEF PlacesOK, InHand
    <3>2. queue' = <<cur>> \o queue
      BY <1>3, <2>4 DEF Requeue
    <3>3. cur \notin Queued /\ NoRepeat(queue)
      BY <3>1 DEF FrameInOnePlace
    <3>4. Queued' = Queued \cup {cur} /\ NoRepeat(queue')
      BY <3>1, <3>2, <3>3, HeadBack, Zenon DEF Queued
    <3> QED
      BY <2>1, <2>2, <3>1, <3>4 DEF FrameInOnePlace
  <2> QED
    BY <2>3, <2>4
<1>4. CASE TxDequeue
  <2>1. cur = NoFrame /\ InHand = {} /\ UNCHANGED <<tx_frames, deferred, mac>>
    BY <1>4 DEF TxDequeue, PlacesOK, InHand, ids, stack
  <2>2. Sent' = Sent /\ OneId'
    BY <2>1 DEF Sent, FrameInOnePlace
  <2>3. CASE queue = <<>>
    <3>1. queue' = queue /\ InHand' = {}
      BY <1>4, <2>1, <2>3 DEF TxDequeue, InHand
    <3> QED
      BY <2>1, <2>2, <3>1 DEF FrameInOnePlace, Queued
  <2>4. CASE queue # <<>>
    <3>1. cur' = Head(queue) /\ queue' = Tail(queue) /\ queue \in Seq(Frames)
      BY <1>4, <2>4 DEF TxDequeue, PlacesOK
    <3>2. /\ Queued' = Queued \ {cur'} /\ NoRepeat(queue') /\ cur' \in Queued
      BY <2>4, <3>1, HeadGone DEF Queued, FrameInOnePlace
    <3>3. InHand' = {cur'}
      BY <3>2 DEF InHand, FrameInOnePlace
    <3> QED
      BY <2>1, <2>2, <3>2, <3>3, SMTT(30) DEF FrameInOnePlace
  <2> QED
    BY <2>3, <2>4
<1>5. CASE TxAllocate
  <2>1. PICK id \in FreeIds : tx_frames' = [tx_frames EXCEPT ![id] = cur]
    BY <1>5, Zenon DEF TxAllocate
  <2>2. /\ id \in Ids /\ tx_frames[id] = NoFrame /\ cur # NoFrame /\ cur' = NoFrame
        /\ UNCHANGED <<queue, deferred, mac>>
    BY <1>5, <2>1 DEF TxAllocate, FreeIds, PlacesOK, stack
  <2>3. InHand' = {} /\ Queued' = Queued /\ NoRepeat(queue')
    BY <2>2 DEF InHand, Queued, FrameInOnePlace
  <2>4. \A k \in Ids : tx_frames'[k] = IF k = id THEN cur ELSE tx_frames[k]
    BY <2>1, <2>2 DEF PlacesOK
  <2>5. Sent' = Sent \cup InHand
    BY <2>2, <2>4 DEF Sent, InHand
  <2>6. cur \in Frames => cur \in InHand
    BY DEF InHand
  <2>7. \A k \in Ids : tx_frames[k] \in Frames => tx_frames[k] \in Sent
    BY DEF Sent
  <2>8. OneId'
    BY <2>4, <2>6, <2>7 DEF FrameInOnePlace
  <2> QED
    BY <2>2, <2>3, <2>5, <2>8 DEF FrameInOnePlace
<1>6. CASE TxPrepareFails
  <2>1. /\ cur \in Frames /\ mac' = mac \cup {cur} /\ cur' = NoFrame
        /\ UNCHANGED <<queue, tx_frames, deferred>>
    BY <1>6 DEF TxPrepareFails, ids
  <2>2. /\ InHand = {cur} /\ InHand' = {} /\ Queued' = Queued /\ Sent' = Sent
        /\ NoRepeat(queue') /\ OneId'
    BY <2>1, ZenonT(30) DEF InHand, Queued, Sent, FrameInOnePlace
  <2> QED
    BY <2>1, <2>2 DEF FrameInOnePlace
<1>7. CASE IrqResults /\ "results" \in intrs
  <2> DEFINE sent == {tx_frames[id] : id \in results} \ {Dummy, NoFrame}
  <2>1. /\ tx_frames' = [id \in Ids |-> IF id \in results THEN NoFrame ELSE tx_frames[id]]
        /\ \/ deferred' = {} /\ mac' = mac \cup (deferred \cup sent)
           \/ deferred' = deferred \cup sent /\ mac' = mac
    BY <1>7, Zenon DEF IrqResults, TxComplete
  <2>2. UNCHANGED <<queue, cur>>
    BY <1>7 DEF IrqResults, loop
  <2>3. results \subseteq Ids /\ \A id \in Ids : tx_frames[id] \in Packets \cup {NoFrame}
    BY DEF PlacesOK
  <2>4. sent \subseteq Sent
    BY <2>3 DEF Sent
  <2>5. Sent' = Sent \ sent
    <3>1. ASSUME NEW f \in Sent' PROVE f \in Sent \ sent
      <4>1. PICK id \in Ids : f = tx_frames'[id] /\ f \in Frames
        BY <3>1 DEF Sent
      <4>2. id \notin results /\ f = tx_frames[id]
        BY <4>1, <2>1, FramesAssumption DEF Packets
      <4>3. OneId
        BY DEF FrameInOnePlace
      <4>4. f \notin {tx_frames[k] : k \in results}
        BY <4>1, <4>2, <4>3, <2>3
      <4> QED
        BY <4>1, <4>2, <4>4 DEF Sent
    <3>2. ASSUME NEW f \in Sent \ sent PROVE f \in Sent'
      <4>1. PICK id \in Ids : f = tx_frames[id] /\ f \in Frames
        BY <3>2 DEF Sent
      <4>2. id \notin results
        BY <3>2, <4>1, FramesAssumption DEF Packets
      <4>3. tx_frames'[id] = f
        BY <2>1, <4>1, <4>2
      <4> QED
        BY <4>1, <4>3 DEF Sent
    <3> QED
      BY <3>1, <3>2
  <2>6. InHand' = InHand /\ Queued' = Queued /\ NoRepeat(queue')
    BY <2>2 DEF InHand, Queued, FrameInOnePlace
  <2>7. OneId'
    BY <2>1 DEF FrameInOnePlace
  <2> HIDE DEF sent
  <2>8. /\ mac' \cup Queued' \cup InHand' \cup Sent' \cup deferred' = Frames
        /\ mac' \cap (Queued' \cup InHand' \cup Sent' \cup deferred') = {}
        /\ Queued' \cap (InHand' \cup Sent' \cup deferred') = {}
        /\ InHand' \cap (Sent' \cup deferred') = {} /\ Sent' \cap deferred' = {}
    <3>1. /\ mac \cup Queued \cup InHand \cup Sent \cup deferred = Frames
          /\ mac \cap (Queued \cup InHand \cup Sent \cup deferred) = {}
          /\ Queued \cap (InHand \cup Sent \cup deferred) = {}
          /\ InHand \cap (Sent \cup deferred) = {} /\ Sent \cap deferred = {}
      BY DEF FrameInOnePlace
    <3>2. CASE deferred' = {} /\ mac' = mac \cup (deferred \cup sent)
      BY <2>4, <2>5, <2>6, <3>1, <3>2
    <3>3. CASE deferred' = deferred \cup sent /\ mac' = mac
      BY <2>4, <2>5, <2>6, <3>1, <3>3
    <3> QED
      BY <2>1, <3>2, <3>3
  <2> QED
    BY <2>6, <2>7, <2>8 DEF FrameInOnePlace
<1>8. CASE NetstackWork
  <2>1. mac' = mac \cup deferred /\ deferred' = {} /\ UNCHANGED <<queue, tx_frames, cur>>
    BY <1>8 DEF NetstackWork, ids, loop
  <2>2. Queued' = Queued /\ InHand' = InHand /\ Sent' = Sent
    BY <2>1 DEF Queued, InHand, Sent
  <2>3. NoRepeat(queue') /\ OneId'
    BY <2>1 DEF FrameInOnePlace
  <2> QED
    BY <2>1, <2>2, <2>3 DEF FrameInOnePlace
<1>9. CASE RecoveryWork
  <2>1. /\ mac' = mac \cup Queued /\ queue' = <<>>
        /\ UNCHANGED <<tx_frames, deferred, cur>>
    BY <1>9 DEF RecoveryWork, Queued, Members, ids, loop
  <2>2. Queued' = {} /\ InHand' = InHand /\ Sent' = Sent /\ NoRepeat(queue') /\ OneId'
    <3>1. Queued' = {} /\ NoRepeat(queue')
      BY <2>1 DEF Queued, Members, NoRepeat
    <3>2. InHand' = InHand /\ Sent' = Sent
      BY <2>1 DEF InHand, Sent
    <3> QED
      BY <2>1, <3>1, <3>2 DEF FrameInOnePlace
  <2> QED
    BY <2>1, <2>2 DEF FrameInOnePlace
<1>10. CASE RecoveryReset
  <2>1. queue = <<>> /\ cur = NoFrame /\ UNCHANGED <<queue, cur>>
    BY <1>10 DEF RecoveryReset, WakeInv, PlacesOK
  <2>2. Sent = {tx_frames[id] : id \in Ids} \ {Dummy, NoFrame}
    BY DEF Sent, PlacesOK
  <2>3. mac' = mac \cup deferred \cup Sent /\ deferred' = {}
    BY <1>10, <2>2, Zenon DEF RecoveryReset
  <2>4. tx_frames' = [id \in Ids |-> NoFrame]
    BY <1>10 DEF RecoveryReset
  <2>5. /\ Queued = {} /\ Queued' = {} /\ InHand = {} /\ InHand' = {}
        /\ NoRepeat(queue') /\ Sent' = {} /\ OneId'
    <3>1. Queued = {} /\ Queued' = {} /\ NoRepeat(queue')
      BY <2>1 DEF Queued, Members, NoRepeat
    <3>2. InHand = {} /\ InHand' = {}
      BY <2>1, FramesAssumption DEF InHand, Packets
    <3>3. Sent' = {} /\ OneId'
      BY <2>4, FramesAssumption DEF Sent, Packets
    <3> QED
      BY <3>1, <3>2, <3>3
  <2> QED
    BY <2>3, <2>5, Zenon DEF FrameInOnePlace
<1> QED
  <2> USE DEF ids, stack, loop, fw
  <2>1. CASE TxAggregationFull \/ TxNoId \/ TxNoBlocks
    BY <1>3, <2>1 DEF TxAggregationFull, TxNoId, TxNoBlocks
  <2>2. CASE TxSetBusy \/ TxWrite \/ TxWriteFails \/ Worker
    BY <1>1, <2>2 DEF TxSetBusy, TxWrite, TxWriteFails, Worker, WorkStart,
      WorkLock, WorkUnlock
  <2>3. CASE \/ IrqEnter \/ IrqCancelWork \/ IrqLock \/ IrqStatus \/ IrqLoopEnds
             \/ IrqFails \/ IrqData \/ IrqEvent \/ IrqExit
    BY <1>1, <2>3, Zenon DEF IrqEnter, IrqCancelWork, IrqLock, IrqStatus, IrqLoopEnds,
      IrqFails, IrqData, IrqEvent, IrqExit
  <2>4. CASE IrqResults /\ "results" \notin intrs
    BY <1>1, <2>4 DEF IrqResults
  <2>5. CASE Watchdog \/ QueueRecovery
    BY <1>1, <2>5 DEF Watchdog, WatchdogExpires, TxWatchdogWork, QueueRecovery
  <2>6. CASE FwSends
    BY <1>1, <2>6 DEF FwSends, FwResult, FwRelease, driver
  <2>7. CASE FwMoves \/ UNCHANGED vars
    BY <1>1, <2>7 DEF FwMoves, FwLend, FwTakeBack, FwAskDummy, driver, vars
  <2> QED
    BY <1>2, <1>4, <1>5, <1>6, <1>7, <1>8, <1>9, <1>10, <2>1, <2>2, <2>3, <2>4,
       <2>5, <2>6, <2>7 DEF Next, TxLoop, IrqThread, Recovery

-----------------------------------------------------------------------------
(* The inductive invariant: each part is kept by a step from that part and   *)
(* the ones to its left.                                                     *)
IInv ==
    /\ ControlOK /\ LockOK /\ PlacesOK /\ BlocksInv /\ WakeInv
    /\ IdsConsistent /\ BusyInv /\ FrameInOnePlace

\* The parts together are an inductive invariant of the transmit path.
LEMMA Invariance == Spec => []IInv
<1>1. Init => IInv
  BY ControlInit, LockInit, PlacesInit, BlocksInit, WakeInit, IdsInit, BusyInit,
     PlaceInit
  DEF IInv
<1>2. IInv /\ [Next]_vars => IInv'
  BY ControlStep, LockStep, PlacesStep, BlocksStep, WakeStep, IdsStep, BusyStep,
     PlaceStep
  DEF IInv
<1> QED
  BY <1>1, <1>2, PTL DEF Spec

\* Type correctness of the transmit path, for any number of frames,
\* descriptors and blocks: at most one thread is inside tx_work_locked, and
\* the counters the C code keeps unsigned never go below zero.
THEOREM TypeCorrect == Spec => []TypeOK
<1>1. IInv => TypeOK
  BY DEF IInv, TypeOK, BlocksInv
<1> QED
  BY <1>1, Invariance, PTL

\* wl1271_tx_allocate and wl12xx_fw_status keep exact books of the firmware's
\* memory blocks, whatever the interleaving and however often
\* total_released_blks wraps.
THEOREM BlockAccounting == Spec => [](BlocksExact /\ BlocksBounded)
<1>1. IInv => BlocksExact /\ BlocksBounded
  BY DEF IInv, BlocksInv
<1> QED
  BY <1>1, Invariance, PTL

\* wl1271_tx_allocate never promises the firmware more blocks than it has: what
\* the driver believes free and what is allocated are covered by the memory,
\* although tx_blocks_available is computed from a status read earlier.
THEOREM NeverOvercommitted == Spec => []NoOvercommit
<1>1. IInv => NoOvercommit
  BY DEF IInv, BlocksInv
<1> QED
  BY <1>1, Invariance, PTL

\* No lost wakeup: a frame that op_tx queues while the firmware has room is
\* always picked up by a tx_work that is pending or running, or by the
\* interrupt thread before it gives up TX_PENDING.
THEOREM NoWakeupLost == Spec => []NoLostWakeup
<1>1. IInv => NoLostWakeup
  BY DEF IInv, WakeInv
<1> QED
  BY <1>1, Invariance, PTL

\* wl1271_alloc_tx_id, the bus write, the firmware and wl1271_tx_complete pass
\* every descriptor id around without losing or doubling it.
THEOREM DescriptorIds == Spec => []IdsConsistent
<1>1. IInv => IdsConsistent
  BY DEF IInv
<1> QED
  BY <1>1, Invariance, PTL

\* op_tx, tx_work_locked, wl1271_tx_complete, netstack_work and the recovery pass
\* every frame on: none is lost, freed twice or sent twice.
THEOREM FramesConserved == Spec => []FrameInOnePlace
<1>1. IInv => FrameInOnePlace
  BY DEF IInv
<1> QED
  BY <1>1, Invariance, PTL

\* WL1271_FLAG_FW_TX_BUSY is never left set with nothing outstanding that would
\* clear it, and the Tx watchdog runs exactly while blocks are out.
THEOREM NoStall == Spec => [](BusyHasCause /\ WatchdogArmed)
<1>1. IInv => BusyHasCause /\ WatchdogArmed
  BY BlocksAssumption
  DEF BlocksAssumption, IInv, BlocksInv, CountersOK, BusyInv, BusyHasCause
<1> QED
  BY <1>1, Invariance, PTL
=============================================================================
