----------------------------- MODULE ScanElpProofs -----------------------------
(***************************************************************************)
(* Three components that share no state: scans, scheduled scans and ELP.   *)
(*                                                                         *)
(* Scan's invariants hold for any interfaces, channels and requests.  The  *)
(* argument does not look at the workqueue: whatever the order in which    *)
(* works run, the tests each of them makes under its lock are enough.      *)
(* SchedScan's come next.  Last, Elp's invariants, and that it implements  *)
(* ChipUse, for any set of threads.                                        *)
(***************************************************************************)
EXTENDS Scan, SchedScan, Elp, TLAPS

-----------------------------------------------------------------------------
(* The ELP handshake.                                                      *)

\* the initial states, with the chip just booted
LEMMA ElpInitInv == ElpInit => ElpInv
BY ThreadsAssumption
   DEF ThreadsAssumption, ElpInv, ElpTypeOK, NotInElp, SleepIsRequested,
        ComplOnStack, ComplOfHolder, WakeupDeliverable, FlagsTrue,
        IrqWhereNeeded, WakeupTookOver, SpinStaysTrue, IrqNeverWaits,
        InSection, Threads, Goto, ElpInit

\* Where wl1271_ps_elp_wakeup gets to before it takes wl_lock: straight to its
\* caller exactly if the chip was not asleep.
LEMMA WakeupResult ==
    ASSUME ElpInv, NEW t \in Threads, Wakeup(t)
    PROVE  /\ elp_work' \subseteq {"timer", "queued", "running"}
           /\ flags' = flags \ {"ELP_REQUESTED"}
           /\ \E place \in {"section", "failed", "wake"} :
                 /\ pc' = [pc EXCEPT ![t] = place]
                 /\ place = "failed" => "IO_FAILED" \in flags
                 /\ place = "section" <=>
                       ~("ELP_REQUESTED" \in flags /\ "IN_ELP" \in flags)
<1>1. elp_work' \subseteq {"timer", "queued", "running"}
  BY Zenon DEF ElpInv, ElpTypeOK, Wakeup, CancelDelayedWork
<1>2. QED
  BY <1>1, Zenon DEF Wakeup, Goto

\* wl1271_ps_elp_wakeup keeps ElpInv, whichever thread calls it.
LEMMA WakeupSteps ==
    ASSUME ElpInv, NEW t \in Threads
    PROVE  (WakeupStep(t)) => ElpInv'
<1> USE ThreadsAssumption
    DEF ThreadsAssumption, ElpInv, ElpTypeOK, NotInElp, SleepIsRequested,
        ComplOnStack, ComplOfHolder, WakeupDeliverable, FlagsTrue,
        IrqWhereNeeded, WakeupTookOver, SpinStaysTrue, IrqNeverWaits,
        InSection, Threads, Goto
<1>1. ASSUME WakeupSpin(t) PROVE ElpInv'
  BY <1>1 DEF WakeupSpin
<1>2. ASSUME WakeupWrite(t) PROVE ElpInv'
  <2>1. CASE "pending" \in wakeup
    <3>1. /\ flags' = flags \ {"IN_ELP"} /\ pc' = [pc EXCEPT ![t] = "section"]
          /\ pc[t] = "write" /\ chip_elp' = (chip_elp \ {"SLEEP"}) \cup {"waking"}
          /\ UNCHANGED <<drv_state, vifs, mutex, elp_compl, wakeup, elp_work, irq>>
      BY <1>2, <2>1, Zenon DEF WakeupWrite, ToldToWake
    <3>2. QED
      BY <1>2, <2>1, <3>1
  <2>2. CASE ~("pending" \in wakeup)
    <3>1. /\ flags' = flags /\ pc' = [pc EXCEPT ![t] = "wait"]
          /\ pc[t] = "write" /\ chip_elp' = (chip_elp \ {"SLEEP"}) \cup {"waking"}
          /\ UNCHANGED <<drv_state, vifs, mutex, elp_compl, wakeup, elp_work, irq>>
      BY <1>2, <2>2, Zenon DEF WakeupWrite, ToldToWake
    <3>2. QED
      BY <1>2, <2>2, <3>1
  <2>3. QED
    BY <2>1, <2>2, Zenon
<1>3. ASSUME WakeupDone(t) PROVE ElpInv'
  BY <1>3 DEF WakeupDone
<1>4. ASSUME WakeupWriteFails(t) PROVE ElpInv'
  BY <1>4 DEF WakeupWriteFails, QueueRecoveryWork
<1>5. ASSUME WakeupTimeout(t) PROVE ElpInv'
  BY <1>5 DEF WakeupTimeout, QueueRecoveryWork
<1>6. ASSUME WakeupFailed(t) PROVE ElpInv'
  <2>1. CASE "nested" \in wakeup
    <3>1. /\ irq' = "disabled" /\ drv_state' = drv_state
          /\ pc[t] = "failed" /\ elp_compl' = NoThread /\ mutex' = NoThread
          /\ pc' = [pc EXCEPT ![t] = "idle"] /\ wakeup' = wakeup \ {"nested"}
          /\ UNCHANGED <<flags, vifs, elp_work, chip_elp>>
      BY <1>6, <2>1 DEF WakeupFailed, ForgetCompl, Leave, QueueRecoveryWork
    <3>2. QED
      BY <1>6, <2>1, <3>1
  <2>2. CASE ~("nested" \in wakeup)
    <3>1. /\ irq' \in {irq, "disabled"} /\ drv_state' \in {drv_state, "RESTARTING"}
          /\ drv_state' = "ON" => irq' = irq
          /\ pc[t] = "failed" /\ elp_compl' = NoThread /\ mutex' = NoThread
          /\ pc' = [pc EXCEPT ![t] = "idle"] /\ wakeup' = wakeup \ {"nested"}
          /\ UNCHANGED <<flags, vifs, elp_work, chip_elp>>
      BY <1>6, <2>2 DEF WakeupFailed, ForgetCompl, Leave, QueueRecoveryWork
    <3>2. QED
      BY <1>6, <2>2, <3>1
  <2>3. QED
    BY <2>1, <2>2, Zenon
<1> HIDE DEF ElpInv
<1>7. QED
  BY <1>1, <1>2, <1>3, <1>4, <1>5, <1>6
     DEF WakeupStep

\* The operations that use the chip, and wl12xx_queue_recovery_work, keep ElpInv.
LEMMA OpSteps ==
    ASSUME ElpInv, NEW t \in Ops
    PROVE  (Op(t) \/ Recovery(t)) => ElpInv'
<1> USE ThreadsAssumption
    DEF ThreadsAssumption, ElpInv, ElpTypeOK, NotInElp, SleepIsRequested,
        ComplOnStack, ComplOfHolder, WakeupDeliverable, FlagsTrue,
        IrqWhereNeeded, WakeupTookOver, SpinStaysTrue, IrqNeverWaits,
        InSection, Threads, Goto
<1>1. ASSUME OpStart(t) PROVE ElpInv'
  <2>1. PICK place \in {"section", "failed", "wake"} :
           /\ pc' = [pc EXCEPT ![t] = place]
           /\ place = "failed" => "IO_FAILED" \in flags
           /\ place = "section" <=>
                 ~("ELP_REQUESTED" \in flags /\ "IN_ELP" \in flags)
    BY <1>1, WakeupResult, Zenon DEF OpStart
  <2>2. /\ flags' = flags \ {"ELP_REQUESTED"}
        /\ elp_work' \subseteq {"timer", "queued", "running"}
        /\ mutex = NoThread /\ pc[t] = "idle" /\ drv_state = "ON" /\ mutex' = t
        /\ UNCHANGED <<drv_state, vifs, elp_compl, wakeup, irq, chip_elp>>
    BY <1>1, WakeupResult DEF OpStart
  <2>3. QED
    BY <2>1, <2>2
<1>2. ASSUME OpSetPs(t) PROVE ElpInv'
  BY <1>2 DEF OpSetPs
<1>3. ASSUME OpFails(t) PROVE ElpInv'
  BY <1>3 DEF OpFails, QueueRecoveryWork
<1>4. ASSUME OpIoFails(t) PROVE ElpInv'
  BY <1>4 DEF OpIoFails
<1>5. ASSUME OpEnd(t) PROVE ElpInv'
  BY <1>5 DEF OpEnd, ElpSleep, QueueElpWork, Leave
<1>10. ASSUME OpRemove(t) PROVE ElpInv'
  BY <1>10 DEF OpRemove, Leave
<1>6. ASSUME OpReturn(t) PROVE ElpInv'
  BY <1>6 DEF OpReturn, Leave
<1>7. ASSUME RecoveryStart(t) PROVE ElpInv'
  <2>1. PICK place \in {"section", "failed", "wake"} :
           /\ pc' = [pc EXCEPT ![t] = place]
           /\ place = "failed" => "IO_FAILED" \in flags
           /\ place = "section" <=>
                 ~("ELP_REQUESTED" \in flags /\ "IN_ELP" \in flags)
    BY <1>7, WakeupResult, Zenon DEF RecoveryStart
  <2>2. /\ flags' = flags \ {"ELP_REQUESTED"}
        /\ elp_work' \subseteq {"timer", "queued", "running"}
        /\ mutex = NoThread /\ pc[t] = "idle" /\ drv_state = "ON" /\ mutex' = t
        /\ drv_state' = "RESTARTING" /\ wakeup' = {"nested"}
        /\ UNCHANGED <<vifs, elp_compl, irq, chip_elp>>
    BY <1>7, WakeupResult, Zenon DEF RecoveryStart
  <2>3. QED
    BY <2>1, <2>2, ZenonT(30)
<1>8. ASSUME RecoveryQueued(t) PROVE ElpInv'
  BY <1>8 DEF RecoveryQueued, Leave
<1> HIDE DEF ElpInv
<1>9. QED
  BY <1>1, <1>2, <1>3, <1>4, <1>5, <1>6, <1>7, <1>8, <1>10, Zenon
     DEF Op, Recovery

\* wl12xx_hardirq and wl12xx_irq keep ElpInv.
LEMMA IrqSteps ==
    ASSUME ElpInv
    PROVE  (Irq) => ElpInv'
<1> USE ThreadsAssumption
    DEF ThreadsAssumption, ElpInv, ElpTypeOK, NotInElp, SleepIsRequested,
        ComplOnStack, ComplOfHolder, WakeupDeliverable, FlagsTrue,
        IrqWhereNeeded, WakeupTookOver, SpinStaysTrue, IrqNeverWaits,
        InSection, Threads, Goto
<1>1. ASSUME HardIrq PROVE ElpInv'
  BY <1>1 DEF HardIrq
<1>2. ASSUME IrqStart /\ drv_state = "ON" PROVE ElpInv'
  <2>1. PICK place \in {"section", "failed", "wake"} :
           /\ pc' = [pc EXCEPT !["irq"] = place]
           /\ place = "failed" => "IO_FAILED" \in flags
           /\ place = "section" <=>
                 ~("ELP_REQUESTED" \in flags /\ "IN_ELP" \in flags)
    BY <1>2, WakeupResult, Zenon DEF IrqStart
  <2>2. /\ flags' = flags \ {"ELP_REQUESTED"}
        /\ elp_work' \subseteq {"timer", "queued", "running"}
        /\ mutex = NoThread /\ pc["irq"] = "thread" /\ drv_state = "ON" /\ mutex' = "irq"
        /\ UNCHANGED <<drv_state, vifs, elp_compl, wakeup, irq, chip_elp>>
    BY <1>2, WakeupResult, Zenon DEF IrqStart
  <2>3. QED
    BY <2>1, <2>2, Zenon
<1>3. ASSUME IrqStart /\ drv_state # "ON" PROVE ElpInv'
  <2>1. /\ pc["irq"] = "thread" /\ pc' = [pc EXCEPT !["irq"] = "idle"]
        /\ UNCHANGED <<drv_state, flags, vifs, mutex, elp_compl, wakeup, elp_work,
                       irq, chip_elp>>
    BY <1>3, Zenon DEF IrqStart
  <2>2. QED
    BY <1>3, <2>1
<1>4. ASSUME IrqStatus PROVE ElpInv'
  BY <1>4 DEF IrqStatus
<1>5. ASSUME IrqEnd PROVE ElpInv'
  BY <1>5 DEF IrqEnd, ElpSleep, QueueElpWork, Leave
<1>6. ASSUME NEW io \in BOOLEAN, IrqFails(io) PROVE ElpInv'
  BY <1>6 DEF IrqFails, QueueRecoveryWork, Leave
<1> HIDE DEF ElpInv
<1>7. QED
  BY <1>1, <1>2, <1>3, <1>4, <1>5, <1>6, Zenon
     DEF Irq

\* wl1271_elp_work, the restart and the chip keep ElpInv.
LEMMA WorkSteps ==
    ASSUME ElpInv
    PROVE  (Work \/ Restarted \/ Fw) => ElpInv'
<1> USE ThreadsAssumption
    DEF ThreadsAssumption, ElpInv, ElpTypeOK, NotInElp, SleepIsRequested,
        ComplOnStack, ComplOfHolder, WakeupDeliverable, FlagsTrue,
        IrqWhereNeeded, WakeupTookOver, SpinStaysTrue, IrqNeverWaits,
        InSection, Threads, Goto
<1>1. ASSUME ElpTimer PROVE ElpInv'
  BY <1>1 DEF ElpTimer
<1>2. ASSUME ElpWorkStart PROVE ElpInv'
  BY <1>2 DEF ElpWorkStart
<1>3. ASSUME ElpWork PROVE ElpInv'
  <2>1. CASE MaySleep
    <3>1. /\ chip_elp' = chip_elp \cup {"SLEEP"} /\ flags' = flags \cup {"IN_ELP"}
          /\ "ELP_REQUESTED" \in flags /\ "IO_FAILED" \notin flags
          /\ mutex = NoThread /\ elp_work' = elp_work \ {"running"}
          /\ UNCHANGED <<drv_state, vifs, mutex, pc, elp_compl, wakeup, irq>>
      BY <1>3, <2>1, Zenon DEF ElpWork, MaySleep
    <3>2. QED
      BY <1>3, <2>1, <3>1, Zenon
  <2>2. CASE ~(MaySleep)
    <3>1. /\ UNCHANGED <<chip_elp, flags>>
          /\ mutex = NoThread /\ elp_work' = elp_work \ {"running"}
          /\ UNCHANGED <<drv_state, vifs, mutex, pc, elp_compl, wakeup, irq>>
      BY <1>3, <2>2, Zenon DEF ElpWork, MaySleep
    <3>2. QED
      BY <1>3, <2>2, <3>1, Zenon
  <2>3. QED
    BY <2>1, <2>2, Zenon
<1>4. ASSUME ElpWorkFails PROVE ElpInv'
  BY <1>4, Zenon DEF ElpWorkFails, MaySleep, QueueRecoveryWork
<1>5. ASSUME Restarted PROVE ElpInv'
  BY <1>5, Zenon DEF Restarted
<1>6. ASSUME FwReady PROVE ElpInv'
  BY <1>6 DEF FwReady
<1>7. ASSUME FwEvent PROVE ElpInv'
  BY <1>7 DEF FwEvent
<1>8. ASSUME FwDoze PROVE ElpInv'
  BY <1>8 DEF FwDoze
<1> HIDE DEF ElpInv
<1>9. QED
  BY <1>1, <1>2, <1>3, <1>4, <1>5, <1>6, <1>7, <1>8, Zenon
     DEF Work, Fw

\* The inductive invariant holds in every behaviour.
THEOREM ElpInvHolds == ElpSpec => []ElpInv
<1>1. ElpInv /\ UNCHANGED elp_vars => ElpInv'
  BY DEF ElpInv, ElpTypeOK, NotInElp, SleepIsRequested,
        ComplOnStack, ComplOfHolder, WakeupDeliverable, FlagsTrue,
        IrqWhereNeeded, WakeupTookOver, SpinStaysTrue, IrqNeverWaits,
        InSection, Threads, Goto, elp_vars
<1>2. ElpInv /\ [ElpNext]_elp_vars => ElpInv'
  BY <1>1, WakeupSteps, OpSteps, IrqSteps, WorkSteps DEF ElpNext
<1>3. QED
  BY ElpInitInv, <1>2, PTL DEF ElpSpec

\* No thread uses a chip that is marked as asleep, or asks twice for its sleep.
THEOREM NoWarning == ElpSpec => []NotInElp
BY ElpInvHolds, PTL DEF ElpInv

\* IN_ELP never outlives ELP_REQUESTED where the next wl1271_ps_elp_wakeup would
\* overlook it.
THEOREM SleepRequested == ElpSpec => []SleepIsRequested
BY ElpInvHolds, PTL DEF ElpInv

\* wl12xx_hardirq completes only threads that are in wl1271_ps_elp_wakeup.
THEOREM NoDanglingCompletion == ElpSpec => []ComplOnStack
BY ElpInvHolds, PTL DEF ElpInv

\* A wakeup that waits is not cut off from its interrupt.
THEOREM WakeupNotBlocked == ElpSpec => []WakeupDeliverable
BY ElpInvHolds, PTL DEF ElpInv

\* Elp implements ChipUse: each step is one of ChipUse's or leaves the user and
\* the chip as they are.
THEOREM Refinement == ElpSpec => ImplementsChipUse
<1> DEFINE using == IF mutex # NoThread /\ InSection(mutex) THEN mutex
                                                       ELSE NoThread
           Step == [CU!Next]_<<using, "awake" \in chip_elp>>
<1>1. ElpInit => CU!Init
  BY ThreadsAssumption, ZenonT(30) DEF ElpInit, CU!Init, InSection, Threads
<1>2. ElpInv /\ ElpInv' /\ [ElpNext]_elp_vars => Step
  <2> SUFFICES ASSUME ElpInv, ElpInv', [ElpNext]_elp_vars
               PROVE  Step
    BY Zenon
  <2> USE ThreadsAssumption
      DEF ThreadsAssumption, ElpInv, ElpTypeOK, NotInElp, FlagsTrue, InSection,
          Threads, Goto, Leave,
          CU!Next, CU!Acquire, CU!Release, CU!Doze, CU!Rouse
  <2>1. ASSUME NEW t \in Threads, WakeupSpin(t)
        PROVE  Step
    BY <2>1, Zenon DEF WakeupSpin
  <2>2. ASSUME NEW t \in Threads, WakeupWrite(t)
        PROVE  Step
    BY <2>2 DEF WakeupWrite, ToldToWake
  <2>3. ASSUME NEW t \in Threads, WakeupDone(t)
        PROVE  Step
    BY <2>3, Zenon DEF WakeupDone
  <2>4. ASSUME NEW t \in Threads, WakeupWriteFails(t)
        PROVE  Step
    BY <2>4, Zenon DEF WakeupWriteFails, QueueRecoveryWork
  <2>5. ASSUME NEW t \in Threads, WakeupTimeout(t)
        PROVE  Step
    BY <2>5, Zenon DEF WakeupTimeout, QueueRecoveryWork
  <2>6. ASSUME NEW t \in Threads, WakeupFailed(t)
        PROVE  Step
    BY <2>6, Zenon DEF WakeupFailed, ForgetCompl, QueueRecoveryWork
  <2>7. ASSUME NEW t \in Ops, OpStart(t)
        PROVE  Step
    BY <2>7, WakeupResult, Zenon DEF OpStart
  <2>8. ASSUME NEW t \in Ops, OpSetPs(t)
        PROVE  Step
    BY <2>8, Zenon DEF OpSetPs
  <2>9. ASSUME NEW t \in Ops, OpFails(t)
        PROVE  Step
    BY <2>9, Zenon DEF OpFails, QueueRecoveryWork
  <2>10. ASSUME NEW t \in Ops, OpIoFails(t)
        PROVE  Step
    BY <2>10, Zenon DEF OpIoFails
  <2>11. ASSUME NEW t \in Ops, OpEnd(t)
        PROVE  Step
    BY <2>11, Zenon DEF OpEnd, ElpSleep, QueueElpWork
  <2>30. ASSUME NEW t \in Ops, OpRemove(t)
        PROVE  Step
    BY <2>30, Zenon DEF OpRemove
  <2>12. ASSUME NEW t \in Ops, OpReturn(t)
        PROVE  Step
    BY <2>12, Zenon DEF OpReturn
  <2>13. ASSUME NEW t \in Ops, RecoveryStart(t)
        PROVE  Step
    BY <2>13, WakeupResult, Zenon DEF RecoveryStart
  <2>14. ASSUME NEW t \in Ops, RecoveryQueued(t)
        PROVE  Step
    BY <2>14, Zenon DEF RecoveryQueued
  <2>15. ASSUME HardIrq
        PROVE  Step
    BY <2>15, Zenon DEF HardIrq
  <2>16. ASSUME IrqStart /\ drv_state = "ON"
        PROVE  Step
    BY <2>16, WakeupResult, Zenon DEF IrqStart
  <2>17. ASSUME IrqStart /\ drv_state # "ON"
        PROVE  Step
    BY <2>17, Zenon DEF IrqStart
  <2>18. ASSUME IrqStatus
        PROVE  Step
    BY <2>18, Zenon DEF IrqStatus
  <2>19. ASSUME IrqEnd
        PROVE  Step
    BY <2>19, Zenon DEF IrqEnd, ElpSleep, QueueElpWork
  <2>20. ASSUME NEW io \in BOOLEAN, IrqFails(io)
        PROVE  Step
    BY <2>20, Zenon DEF IrqFails, QueueRecoveryWork
  <2>21. ASSUME ElpTimer
        PROVE  Step
    BY <2>21, Zenon DEF ElpTimer
  <2>22. ASSUME ElpWorkStart
        PROVE  Step
    BY <2>22, Zenon DEF ElpWorkStart
  <2>23. ASSUME ElpWork
        PROVE  Step
    BY <2>23 DEF ElpWork, MaySleep
  <2>24. ASSUME ElpWorkFails
        PROVE  Step
    BY <2>24, Zenon DEF ElpWorkFails, MaySleep, QueueRecoveryWork
  <2>25. ASSUME Restarted
        PROVE  Step
    BY <2>25, Zenon DEF Restarted
  <2>26. ASSUME FwReady
        PROVE  Step
    BY <2>26, Zenon DEF FwReady
  <2>27. ASSUME FwEvent
        PROVE  Step
    BY <2>27, Zenon DEF FwEvent
  <2>28. ASSUME FwDoze
        PROVE  Step
    BY <2>28 DEF FwDoze
  <2> HIDE DEF ElpInv
  <2>29. QED
    BY <2>1, <2>2, <2>3, <2>4, <2>5, <2>6, <2>7, <2>8, <2>9,
       <2>10, <2>11, <2>12, <2>13, <2>14, <2>15, <2>16, <2>17, <2>18,
       <2>19, <2>20, <2>21, <2>22, <2>23, <2>24, <2>25, <2>26, <2>27,
       <2>28, <2>30, Zenon
       DEF ElpNext, WakeupStep, Op, Recovery, Irq, Work, Fw, elp_vars
<1>3. QED
  BY <1>1, <1>2, ElpInvHolds, PTL DEF ElpSpec, ImplementsChipUse, CU!Spec

-----------------------------------------------------------------------------
(* Scans.                                                                  *)

\* What local->scanning can be: nothing, a scan in the driver, one that has
\* ended, one that was aborted.
Waiting  == {"HW_SCANNING"}
Answered == {"HW_SCANNING", "COMPLETED"}
Aborted  == {"HW_SCANNING", "COMPLETED", "ABORTED"}

\* The phases that come before phase p have nothing left to scan.
DoneBefore(p, asks, names, scanned) ==
    \A r \in ScanPhases :
        Rank(r) < Rank(p) => LeftInPhase(r, asks, names, scanned) = {}

(***************************************************************************)
(* The inductive invariant.  ScanReqAlive alone is not inductive: that a   *)
(* request finds no completion under way needs the possible values of      *)
(* local->scanning; that DONE means everything is scanned needs the same   *)
(* of every phase that has been left.                                      *)
(***************************************************************************)
IInv ==
    /\ scan_state \in ScanStates
    /\ scan_failed \in {"yes", "no"}
    /\ scanned_ch \subseteq Channels
    /\ hw_req \subseteq Channels
    /\ todo \subseteq Channels
    /\ ssids \in {"none", "some"}
    /\ scan_sdata \in Vifs \cup {NoVif}
    /\ scanning \in {{}, Waiting, Answered, Aborted}
    /\ scan_sdata = NoVif <=> scanning = {}
    /\ scan_state # "IDLE" =>
          /\ scanning = Waiting
          /\ scan_sdata = scan_vif
          /\ scan_vif \in inited
          /\ DoneBefore(scan_state, hw_req, ssids, scanned_ch)
          /\ scan_failed = "no" => scan_state = "DONE"
    /\ scanning = Waiting => scan_state # "IDLE" \/ "lost" \in odd

\* that a scan was lost is not forgotten
KeepsLost == "lost" \in odd => "lost" \in odd'

-----------------------------------------------------------------------------
\* the order of the phases
LEMMA RankOf ==
    /\ Rank("2GHZ_ACTIVE") = 1 /\ Rank("2GHZ_PASSIVE") = 2
    /\ Rank("5GHZ_ACTIVE") = 3 /\ Rank("5GHZ_PASSIVE") = 4
    /\ Rank("DONE") = 5
BY DEF Rank

\* what is left of a phase does not grow while channels are marked
LEMMA LeftShrinks ==
    ASSUME NEW p, NEW asks, NEW names, NEW scanned, NEW b,
           LeftInPhase(p, asks, names, scanned) = {}
    PROVE  LeftInPhase(p, asks, names, scanned \cup b) = {}
BY Zenon DEF LeftInPhase

\* wl1271_scan_stm from phase p ends in a phase behind which nothing is left,
\* and clears wl->scan.failed only in DONE.
LEMMA StmResult ==
    ASSUME NEW p \in ScanPhases, NEW asks \in SUBSET Channels, NEW names,
           NEW scanned \in SUBSET Channels, NEW failed \in {"yes", "no"},
           NEW q, NEW t,
           DoneBefore(p, asks, names, scanned),
           failed = "no" => p = "DONE",
           ScanStm(p, asks, names, scanned, failed, q, t)
    PROVE  /\ scan_state' \in ScanPhases
           /\ scan_failed' \in {"yes", "no"}
           /\ scanned_ch' \subseteq Channels
           /\ DoneBefore(scan_state', asks, names, scanned_ch')
           /\ scan_failed' = "no" => scan_state' = "DONE"
<1>1. ASSUME NEW next \in ScanPhases, Reaches(p, next, asks, names, scanned)
      PROVE  DoneBefore(next, asks, names, scanned)
  <2> SUFFICES ASSUME NEW r \in ScanPhases, Rank(r) < Rank(next)
               PROVE  LeftInPhase(r, asks, names, scanned) = {}
    BY DEF DoneBefore
  <2>1. Rank(r) \in Nat /\ Rank(p) \in Nat
    BY RankOf DEF ScanPhases, ScanStates
  <2>2. CASE Rank(r) < Rank(p)
    BY <2>2 DEF DoneBefore
  <2>3. CASE Rank(p) <= Rank(r)
    BY <1>1, <2>3 DEF Reaches
  <2>4. QED
    BY <2>1, <2>2, <2>3
<1>2. ASSUME NEW next \in ScanPhases, DoneBefore(next, asks, names, scanned),
             NEW b
      PROVE  DoneBefore(next, asks, names, scanned \cup b)
  BY <1>2, LeftShrinks, Zenon DEF DoneBefore
<1>3. ASSUME NEW next \in ScanPhases \ {"DONE"},
             Reaches(p, next, asks, names, scanned)
      PROVE  failed = "yes"
  BY <1>3, RankOf DEF Reaches, ScanPhases, ScanStates
<1>4. ASSUME NEW next \in ScanPhases,
             NEW b \in Batches(LeftInPhase(next, asks, names, scanned))
      PROVE  b \subseteq Channels
  BY <1>4 DEF Batches, LeftInPhase
<1>5. CASE StmSend(p, asks, names, scanned, q, t) /\ scan_failed' = failed
  <2>1. PICK next \in ScanPhases \ {"DONE"} :
           /\ Reaches(p, next, asks, names, scanned)
           /\ scan_state' = next
           /\ \E b \in Batches(LeftInPhase(next, asks, names, scanned)) :
                 scanned_ch' = scanned \cup b
    BY <1>5, Zenon DEF StmSend
  <2>2. PICK b \in Batches(LeftInPhase(next, asks, names, scanned)) :
           scanned_ch' = scanned \cup b
    BY <2>1, Zenon
  <2>3. DoneBefore(next, asks, names, scanned \cup b)
    BY <1>1, <1>2, <2>1
  <2>4. QED
    BY <1>3, <1>4, <1>5, <2>1, <2>2, <2>3, Zenon
<1>6. CASE StmNoMemory(p, asks, names, scanned, q) /\ scan_failed' = failed
  <2>1. PICK next \in ScanPhases \ {"DONE"} :
           /\ Reaches(p, next, asks, names, scanned)
           /\ scan_state' = next
           /\ \E b \in Batches(LeftInPhase(next, asks, names, scanned)) :
                 scanned_ch' \in {scanned, scanned \cup b}
    BY <1>6, Zenon DEF StmNoMemory
  <2>2. PICK b \in Batches(LeftInPhase(next, asks, names, scanned)) :
           scanned_ch' \in {scanned, scanned \cup b}
    BY <2>1, Zenon
  <2>3. DoneBefore(next, asks, names, scanned)
    BY <1>1, <2>1, Zenon
  <2>4. DoneBefore(next, asks, names, scanned \cup b)
    BY <1>2, <2>3, Zenon
  <2>5. QED
    BY <1>3, <1>4, <1>6, <2>1, <2>2, <2>3, <2>4, Zenon
<1>7. CASE StmDone(p, asks, names, scanned, q) /\ scan_failed' = "no"
  <2>1. "DONE" \in ScanPhases
    BY Zenon DEF ScanPhases, ScanStates
  <2>2. QED
    BY <1>1, <1>7, <2>1, Zenon DEF StmDone
<1>8. QED
  BY <1>5, <1>6, <1>7, Zenon DEF ScanStm

-----------------------------------------------------------------------------
LEMMA LostStays ==
    ASSUME [Next]_vars
    PROVE  KeepsLost
<1> USE DEF KeepsLost
<1>1. CASE ScanWork \/ CompleteWork \/ RecoveryEnd
  BY <1>1, Zenon DEF ScanWork, CompleteWork, RecoveryEnd
<1>2. CASE CancelSync \/ OpStopSync \/ OpRemoveInterface
  BY <1>2, Zenon DEF CancelSync, OpStopSync, OpRemoveInterface
<1>3. ASSUME CancelHwScan PROVE KeepsLost
  BY <1>3, Zenon DEF CancelHwScan
<1>4. CASE \/ RestartCancel \/ ScanCancelReq
           \/ \E v \in Vifs : InterfaceUp(v) \/ InterfaceDown(v)
  BY <1>3, <1>4, Zenon
  DEF RestartCancel, ScanCancelReq, InterfaceUp, InterfaceDown
<1>5. CASE \/ TakeWork \/ RecoverySkip \/ RecoveryStop
           \/ \E v \in Vifs : RecoveryRemove(v)
           \/ FlushBeforeStop \/ OpStop \/ Reconfig
  BY <1>5, Zenon DEF TakeWork, RecoverySkip, RecoveryStop, RecoveryRemove,
                     FlushBeforeStop, OpStop, Reconfig
<1>6. CASE \/ TimerExpires \/ ScanCompleteEvent \/ FwScanDone \/ FwCrash
           \/ RestartWork \/ \E v \in Vifs, x \in Requests : RequestScan(v, x)
  BY <1>6, Zenon DEF TimerExpires, ScanCompleteEvent, FwScanDone, FwCrash,
                     RestartWork, RequestScan
<1>7. CASE UNCHANGED vars
  BY <1>7, Zenon DEF vars
<1> HIDE DEF KeepsLost
<1>8. QED
  BY <1>1, <1>2, <1>4, <1>5, <1>6, <1>7, Zenon DEF Next, Worker, RtnlHolder

\* A step that changes neither the scan nor the request, and removes no
\* interface.
LEMMA Frame ==
    ASSUME IInv, KeepsLost, UNCHANGED <<scanVars, scanning, reqVars>>, inited \subseteq inited'
    PROVE  IInv'
BY Zenon DEF IInv, KeepsLost, scanVars, reqVars, DoneBefore, LeftInPhase, Waiting, Answered,
       Aborted

\* The driver ends its scan and tells mac80211.
LEMMA Ended ==
    ASSUME IInv, scan_state # "IDLE", IdleScan, UNCHANGED reqVars,
           NEW a \in {{}, {"ABORTED"}}, scanning' = CompletedFlags(a)
    PROVE  IInv'
<1>1. scanning' \in {Answered, Aborted}
  BY DEF IInv, CompletedFlags, Waiting, Answered, Aborted
<1>2. scanning' # {} /\ scanning' # Waiting
  BY <1>1 DEF Waiting, Answered, Aborted
<1>3. scanning # {}
  BY Zenon DEF IInv, Waiting
<1>4. QED
  BY <1>1, <1>2, <1>3, Zenon DEF IInv, IdleScan, reqVars, ScanStates

\* op_hw_scan accepts a request that mac80211 records.
LEMMA Accepted ==
    ASSUME IInv, NEW v \in Vifs, NEW asks \in SUBSET Channels,
           NEW names \in {"none", "some"},
           HwScanAccepted(v, asks, names),
           scanning' = Waiting, scan_sdata' = v, hw_req' = asks,
           ssids' = names, todo' \subseteq Channels
    PROVE  IInv'
<1>1. DoneBefore("2GHZ_ACTIVE", asks, names, {})
  BY RankOf DEF DoneBefore, ScanPhases, ScanStates
<1>2. "2GHZ_ACTIVE" \in ScanPhases
  BY Zenon DEF ScanPhases, ScanStates
<1>3. /\ scan_state' \in ScanPhases
      /\ scan_failed' \in {"yes", "no"}
      /\ scanned_ch' \subseteq Channels
      /\ DoneBefore(scan_state', asks, names, scanned_ch')
      /\ scan_failed' = "no" => scan_state' = "DONE"
  BY <1>1, <1>2, StmResult DEF HwScanAccepted
<1>4. scan_vif' = v /\ v \in inited /\ inited' = inited
  BY DEF HwScanAccepted
<1>5. scan_state' \in ScanStates /\ scan_state' # "IDLE"
  BY <1>3 DEF ScanPhases
<1>6. v # NoVif /\ Waiting # {}
  BY ScanAssumption, Zenon DEF ScanAssumption, Waiting
<1>7. DoneBefore(scan_state, hw_req, ssids, scanned_ch)'
  BY <1>3 DEF DoneBefore, LeftInPhase
<1>8. QED
  BY <1>3, <1>4, <1>5, <1>6, <1>7, Zenon DEF IInv

\* op_hw_scan refuses.
LEMMA Refused ==
    ASSUME IInv, KeepsLost, HwScanRefused, UNCHANGED <<scanning, reqVars>>
    PROVE  IInv'
BY Frame, Zenon DEF HwScanRefused

\* the request is over
LEMMA Over ==
    ASSUME IInv, scanning # Waiting, ScanOver, UNCHANGED scanVars
    PROVE  IInv'
<1>1. scan_state = "IDLE"
  BY DEF IInv
<1>2. {} # Waiting
  BY DEF Waiting
<1>3. QED
  BY <1>1, <1>2, Zenon DEF IInv, ScanOver, scanVars

LEMMA InitIInv == Init => IInv
BY DEF Init, IInv, ScanStates, Waiting

-----------------------------------------------------------------------------
\* op_cancel_hw_scan and the removal of an interface keep IInv.
LEMMA CancelKeeps ==
    ASSUME IInv, KeepsLost, CancelHwScan, UNCHANGED <<inited, reqVars>>
    PROVE  IInv'
<1>1. CASE UNCHANGED <<scanVars, scanning>>
  BY <1>1, Frame
<1>2. CASE /\ scan_state # "IDLE" /\ IdleScan
           /\ scanning' = CompletedFlags({"ABORTED"})
  BY <1>2, Ended
<1>3. QED
  BY <1>1, <1>2 DEF CancelHwScan

LEMMA RemoveKeeps ==
    ASSUME IInv, KeepsLost, NEW v \in Vifs, RemoveInterface(v), UNCHANGED reqVars
    PROVE  IInv'
<1>1. CASE scan_state # "IDLE" /\ scan_vif = v
  BY <1>1, Ended, Zenon DEF RemoveInterface
<1>2. CASE ~(scan_state # "IDLE" /\ scan_vif = v)
  <2>1. UNCHANGED <<scanVars, scanning>> /\ inited' = inited \ {v}
    BY <1>2, Zenon DEF RemoveInterface
  <2>2. QED
    BY <1>2, <2>1 DEF IInv, KeepsLost, scanVars, reqVars, DoneBefore,
                     LeftInPhase, Waiting, Answered, Aborted
<1>3. QED
  BY <1>1, <1>2

LEMMA RequestKeeps ==
    ASSUME IInv, KeepsLost, NEW v \in Vifs, NEW r \in Requests, RequestScan(v, r)
    PROVE  IInv'
<1>1. /\ r.chans \in SUBSET Channels
      /\ r.ssids \in {"none", "some"}
  BY ScanAssumption, Zenon DEF ScanAssumption
<1>2. /\ FirstBand(r.chans) \in SUBSET Channels
      /\ r.chans \ FirstBand(r.chans) \subseteq Channels
  BY <1>1, Zenon DEF FirstBand
<1>3. scanning = {}
  BY Zenon DEF RequestScan, IInv
<1>4. CASE /\ HwScanAccepted(v, FirstBand(r.chans), r.ssids)
           /\ scanning' = scanning \cup {"HW_SCANNING"}
           /\ scan_sdata' = v
           /\ hw_req' = FirstBand(r.chans)
           /\ todo' = r.chans \ FirstBand(r.chans)
           /\ ssids' = r.ssids
  <2>1. scanning' = Waiting
    BY <1>3, <1>4 DEF Waiting
  <2>2. QED
    BY <1>1, <1>2, <1>4, <2>1, Accepted, Zenon
<1>5. CASE HwScanRefused /\ UNCHANGED <<scanning, reqVars>>
  BY <1>5, Refused, Zenon
<1>6. QED
  BY <1>4, <1>5, Zenon DEF RequestScan

LEMMA ScanWorkKeeps ==
    ASSUME IInv, ScanWork
    PROVE  IInv'
<1>1. scanning \in {Answered, Aborted} /\ scanning # Waiting
  BY DEF ScanWork, IInv, Waiting, Answered, Aborted
<1>2. scan_sdata \in Vifs
  BY <1>1, Zenon DEF IInv, Answered, Aborted
<1>3. CASE /\ "ABORTED" \notin scanning
           /\ HwScanAccepted(scan_sdata, todo, ssids)
           /\ scanning' = scanning \ {"COMPLETED"}
           /\ hw_req' = todo /\ todo' = {}
           /\ UNCHANGED <<scan_sdata, ssids>>
  <2>1. scanning' = Waiting
    BY <1>1, <1>3, Zenon DEF Waiting, Answered, Aborted
  <2>2. todo \in SUBSET Channels /\ ssids \in {"none", "some"}
    BY DEF IInv
  <2>3. QED
    BY <1>2, <1>3, <2>1, <2>2, Accepted, Zenon
<1>4. CASE HwScanRefused /\ ScanOver
  BY <1>1, <1>4, Over DEF HwScanRefused
<1>5. CASE ScanOver /\ UNCHANGED scanVars
  BY <1>1, <1>5, Over, Zenon
<1>6. QED
  BY <1>3, <1>4, <1>5, Zenon DEF ScanWork

LEMMA CompleteKeeps ==
    ASSUME IInv, KeepsLost, CompleteWork
    PROVE  IInv'
<1>0. UNCHANGED <<inited, reqVars>>
  BY DEF CompleteWork
<1>1. CASE UNCHANGED <<scanVars, scanning>>
  BY <1>0, <1>1, Frame
<1>2. CASE /\ scan_state # "IDLE" /\ IdleScan
           /\ scanning' = CompletedFlags({})
  BY <1>0, <1>2, Ended, Zenon
<1>3. CASE /\ scan_state # "IDLE" /\ IdleScan
           /\ "lost" \in odd' /\ UNCHANGED scanning
  BY <1>0, <1>3, Zenon DEF IInv, IdleScan, reqVars, Waiting, Answered, Aborted,
                    ScanStates
<1>4. QED
  BY <1>1, <1>2, <1>3, Zenon DEF CompleteWork

LEMMA EventKeeps ==
    ASSUME IInv, KeepsLost, ScanCompleteEvent
    PROVE  IInv'
<1>0. UNCHANGED <<inited, scanning, reqVars>>
  BY DEF ScanCompleteEvent
<1>1. CASE UNCHANGED scanVars
  BY <1>0, <1>1, Frame, Zenon
<1>2. CASE /\ scan_state # "IDLE"
           /\ ScanStm(scan_state, hw_req, ssids, scanned_ch, scan_failed,
                      wq, timer)
           /\ UNCHANGED scan_vif
  <2>1. /\ scan_state \in ScanPhases
        /\ hw_req \in SUBSET Channels /\ scanned_ch \in SUBSET Channels
        /\ scan_failed \in {"yes", "no"}
        /\ DoneBefore(scan_state, hw_req, ssids, scanned_ch)
        /\ scan_failed = "no" => scan_state = "DONE"
    BY <1>2, Zenon DEF IInv, ScanPhases
  <2>2. /\ scan_state' \in ScanPhases
        /\ scan_failed' \in {"yes", "no"}
        /\ scanned_ch' \subseteq Channels
        /\ DoneBefore(scan_state', hw_req, ssids, scanned_ch')
        /\ scan_failed' = "no" => scan_state' = "DONE"
    BY <1>2, <2>1, StmResult, Zenon
  <2>3. DoneBefore(scan_state, hw_req, ssids, scanned_ch)'
    BY <1>0, <2>2, Zenon DEF DoneBefore, LeftInPhase, reqVars
  <2>4. QED
    BY <1>0, <1>2, <2>2, <2>3, Zenon DEF IInv, ScanPhases, reqVars
<1>3. QED
  BY <1>1, <1>2, Zenon DEF ScanCompleteEvent

\* What the holder of the rtnl lock does beside asking for scans keeps IInv.
LEMMA RtnlKeeps ==
    ASSUME IInv, KeepsLost
    PROVE  /\ RtnlHolder \/ RestartCancel \/ ScanCancelReq => IInv'
           /\ \A v \in Vifs : InterfaceUp(v) \/ InterfaceDown(v) => IInv'
<1>1. CancelSync \/ FlushBeforeStop \/ OpStop \/ OpStopSync \/ Reconfig => IInv'
  BY Frame DEF CancelSync, FlushBeforeStop, OpStop, OpStopSync, Reconfig
<1>2. ASSUME OpRemoveInterface PROVE IInv'
  <2>1. CASE state = "OFF" \/ rvif \notin inited
    BY <1>2, <2>1, Frame DEF OpRemoveInterface
  <2>2. CASE ~(state = "OFF" \/ rvif \notin inited)
    <3>1. RemoveInterface(rvif) /\ UNCHANGED reqVars
      BY <1>2, <2>2, Zenon DEF OpRemoveInterface
    <3>2. CASE scan_state # "IDLE" /\ scan_vif = rvif
      BY <3>1, <3>2, Ended, Zenon DEF RemoveInterface
    <3>3. CASE ~(scan_state # "IDLE" /\ scan_vif = rvif)
      <4>1. UNCHANGED <<scanVars, scanning>> /\ inited' = inited \ {rvif}
        BY <3>1, <3>3, Zenon DEF RemoveInterface
      <4>2. QED
        BY <3>1, <3>3, <4>1, Zenon DEF IInv, KeepsLost, scanVars, reqVars,
                                DoneBefore, LeftInPhase, Waiting, Answered,
                                Aborted
    <3>4. QED
      BY <3>2, <3>3, Zenon
  <2>3. QED
    BY <2>1, <2>2, Zenon
<1>3. RestartCancel \/ ScanCancelReq => IInv'
  BY CancelKeeps, Frame, Zenon DEF RestartCancel, ScanCancelReq
<1>4. ASSUME NEW v \in Vifs, InterfaceUp(v) \/ InterfaceDown(v) PROVE IInv'
  BY <1>4, CancelKeeps, Frame, Zenon DEF InterfaceUp, InterfaceDown
<1>5. QED
  BY <1>1, <1>2, <1>3, <1>4, Zenon DEF RtnlHolder

-----------------------------------------------------------------------------
\* Every step of the driver, of mac80211 and of the firmware keeps IInv.
LEMMA NextIInv == IInv /\ [Next]_vars => IInv'
<1> SUFFICES ASSUME IInv, [Next]_vars
             PROVE  IInv'
  BY Zenon
<1>0. KeepsLost
  BY LostStays, Zenon
<1>1. CASE TakeWork \/ RecoverySkip \/ RecoveryStop \/ RecoveryEnd
  BY <1>0, <1>1, Frame DEF TakeWork, RecoverySkip, RecoveryStop, RecoveryEnd
<1>2. CASE CompleteWork
  BY <1>0, <1>2, CompleteKeeps
<1>3. CASE ScanWork
  BY <1>3, ScanWorkKeeps, Zenon
<1>4. ASSUME NEW v \in Vifs, RecoveryRemove(v) PROVE IInv'
  BY <1>0, <1>4, RemoveKeeps, Zenon DEF RecoveryRemove
<1>5. CASE TimerExpires \/ FwScanDone \/ FwCrash \/ RestartWork
  BY <1>0, <1>5, Frame, Zenon DEF TimerExpires, FwScanDone, FwCrash, RestartWork
<1>6. CASE ScanCompleteEvent
  BY <1>0, <1>6, EventKeeps
<1>7. ASSUME NEW v \in Vifs, NEW r \in Requests, RequestScan(v, r) PROVE IInv'
  BY <1>0, <1>7, RequestKeeps, Zenon
<1>8. CASE UNCHANGED vars
  BY <1>0, <1>8, Frame DEF vars
<1>9. QED
  BY <1>0, <1>1, <1>2, <1>3, <1>4, <1>5, <1>6, <1>7, <1>8, RtnlKeeps, Zenon
     DEF Next, Worker

(***************************************************************************)
(* The inductive invariant holds in every behaviour.                       *)
(***************************************************************************)
THEOREM IInvHolds == Spec => []IInv
BY InitIInv, NextIInv, PTL DEF Spec

(***************************************************************************)
(* While wl1271_scan_stm can run, mac80211 is waiting for this very scan,  *)
(* has not freed its request, and the interface has its role: with any     *)
(* interfaces, requests and failures.                                      *)
(***************************************************************************)
THEOREM ReqAlive == Spec => []ScanReqAlive
<1>1. IInv => ScanReqAlive
  BY Zenon DEF IInv, ScanReqAlive, Waiting
<1>2. QED
  BY <1>1, IInvHolds, PTL

(***************************************************************************)
(* wl->scan.failed is false at the end of a scan only if every channel of  *)
(* the request was handed out.                                             *)
(***************************************************************************)
THEOREM Covered == Spec => []SuccessCovers
<1>1. IInv => SuccessCovers
  <2> SUFFICES ASSUME IInv, scan_state # "IDLE", scan_failed = "no",
                      NEW c \in hw_req \ Disabled
               PROVE  c \in scanned_ch
    BY Zenon DEF SuccessCovers
  <2>1. c \in Channels /\ Band[c] \in {"2GHZ", "5GHZ"}
    BY ScanAssumption, Zenon DEF ScanAssumption, IInv
  <2>2. /\ LeftInPhase("2GHZ_PASSIVE", hw_req, ssids, scanned_ch) = {}
        /\ LeftInPhase("5GHZ_PASSIVE", hw_req, ssids, scanned_ch) = {}
    BY RankOf DEF IInv, DoneBefore, ScanPhases, ScanStates
  <2>3. QED
    BY <2>1, <2>2 DEF LeftInPhase, BandOf, IsPassive
<1>2. QED
  BY <1>1, IInvHolds, PTL

(***************************************************************************)
(* The driver knows of every scan mac80211 is waiting for, the contract of *)
(* hw_scan, except for one that scan_complete_work forgot before it failed *)
(* to wake the chip.                                                       *)
(***************************************************************************)
THEOREM ScanKnown == Spec => []DriverKnowsScan
<1>1. IInv => DriverKnowsScan
  BY Zenon DEF IInv, DriverKnowsScan, Waiting, Answered, Aborted
<1>2. QED
  BY <1>1, IInvHolds, PTL
-----------------------------------------------------------------------------
(***************************************************************************)
(* The scheduled scan of the same file, scan.c: what the four layers of    *)
(* SchedScan agree on, for any number of requests.  All it has in common   *)
(* with the one-shot scan is wl->state, of which each of the two modules   *)
(* has its own view.                                                       *)
(*                                                                         *)
(* The inductive invariant.  That a stop is never lost (RequestHasEnd)     *)
(* needs that sched_scan_stopped_work, once it runs, finds mac80211's flag *)
(* set for every request that cfg80211 has or is about to have; the lock   *)
(* the start holds until the flag is set is what makes that true.          *)
(***************************************************************************)

\* the thread that starts a scan found no request before it, and mac80211's
\* state is as it found it while it holds local->mtx
StartOK ==
    /\ starter # "idle" => req = 0 /\ requests > 0 /\ netdev = "up"
    /\ HoldsLocalMtx => local = "off" /\ stopping = "idle"

\* mac80211 knows of every request that cfg80211 has, or is forgetting it
KnownOK ==
    /\ local = "on" \/ stopping = "cfg80211" => Wanted # 0
    /\ stopping = "cfg80211" => local = "off"
    /\ Wanted # 0 /\ starter # "started" =>
          local = "on" \/ stopping = "cfg80211"

\* the driver knows of every request, or has reported its end, unless op_stop
\* has made it forget
DriverOK ==
    Wanted # 0 /\ Wanted \notin untold =>
        \/ sched_scanning = "on"
        \/ stopped_work = "pending" \/ stopping = "cfg80211"

\* the driver's flag and the firmware's event follow the firmware
ChipOK ==
    /\ fwScan # 0 /\ fwScan \notin stale =>
          sched_scanning = "on" /\ complete = "none"
    /\ wl_state = "OFF" => fwScan = 0 /\ complete = "none"
    /\ netdev = "down" => wl_state = "OFF"

\* what the steps preserve, given the types
SchedAgree ==
    /\ StartOK /\ KnownOK /\ DriverOK /\ ChipOK
    /\ ScanOwned /\ RequestHasEnd

SchedInv == SchedTypeOK /\ SchedAgree

-----------------------------------------------------------------------------
LEMMA SchedTypes ==
    ASSUME SchedTypeOK, SchedNext
    PROVE  SchedTypeOK'
<1> USE DEF SchedTypeOK, chip, mac, device, user, past
<1>1. CASE StartSchedScan
  BY <1>1, MaxAssumption DEF StartSchedScan
<1>2. CASE Starter
  BY <1>2 DEF Starter, StartRefused, StartFails, StartAccepted, StartNoted,
              StartAnswered
<1>3. CASE StopSchedScan \/ GoingDown \/ CleanupWork
  BY <1>3 DEF StopSchedScan, GoingDown, CleanupWork, StopRequest, SchedScanStop,
              FwStopsScan
<1>4. CASE LeaveIdle \/ EnterIdle
  BY <1>4 DEF LeaveIdle, EnterIdle, SchedScanStop, FwStopsScan
<1>5. CASE CompleteEvent \/ StoppedWork \/ SchedScanStopped
  BY <1>5 DEF CompleteEvent, StoppedWork, SchedScanStopped
<1>6. CASE FwReport \/ ReportEvent \/ ResultsWork
  BY <1>6 DEF FwReport, ReportEvent, ResultsWork
<1>7. CASE QueueRecovery \/ RecoveryWork \/ ReconfigWork
  BY <1>7 DEF QueueRecovery, RecoveryWork, ReconfigWork, OpStopLocked
<1>8. CASE StopDevice \/ Open
  BY <1>8 DEF StopDevice, Open, OpStopLocked
<1>9. QED
  BY <1>1, <1>2, <1>3, <1>4, <1>5, <1>6, <1>7, <1>8, Zenon DEF SchedNext

\* a start, from nl80211 down to the firmware and back
LEMMA StartStep ==
    ASSUME SchedTypeOK, SchedAgree, StartSchedScan \/ Starter
    PROVE  SchedAgree'
<1> USE DEF SchedAgree, StartOK, KnownOK, DriverOK, ChipOK,
            ScanOwned, RequestHasEnd, Wanted, HoldsLocalMtx,
            chip, mac, device, user, past
<1>1. CASE StartSchedScan
  BY <1>1 DEF StartSchedScan, SchedTypeOK
<1>2. CASE StartRefused \/ StartFails
  BY <1>2, Zenon DEF StartRefused, StartFails
<1>3. CASE StartAccepted
  BY <1>3 DEF StartAccepted, SchedTypeOK
<1>4. CASE StartNoted \/ StartAnswered
  BY <1>4 DEF StartNoted, StartAnswered
<1>5. QED
  BY <1>1, <1>2, <1>3, <1>4, Zenon DEF Starter

\* a stop, and what makes the driver stop by itself
LEMMA StopStep ==
    ASSUME SchedAgree,
           \/ StopSchedScan \/ GoingDown \/ CleanupWork
           \/ LeaveIdle \/ EnterIdle
    PROVE  SchedAgree'
<1> USE DEF SchedAgree, StartOK, KnownOK, DriverOK, ChipOK,
            ScanOwned, RequestHasEnd, Wanted, HoldsLocalMtx,
            chip, mac, device, user, past, StopRequest, SchedScanStop,
            FwStopsScan
<1>1. CASE StopSchedScan
  BY <1>1 DEF StopSchedScan
<1>2. CASE GoingDown
  BY <1>2 DEF GoingDown
<1>3. CASE CleanupWork
  BY <1>3 DEF CleanupWork
<1>4. CASE LeaveIdle
  BY <1>4 DEF LeaveIdle
<1>5. CASE EnterIdle
  BY <1>5 DEF EnterIdle
<1>6. QED
  BY <1>1, <1>2, <1>3, <1>4, <1>5, Zenon

\* the end of a scan on its way up
LEMMA EndStep ==
    ASSUME SchedTypeOK, SchedAgree,
           CompleteEvent \/ StoppedWork \/ SchedScanStopped
    PROVE  SchedAgree'
<1> USE DEF SchedTypeOK, SchedAgree, StartOK, KnownOK, DriverOK, ChipOK,
            ScanOwned, RequestHasEnd, Wanted, HoldsLocalMtx,
            chip, mac, device, user, past
<1>1. CASE CompleteEvent
  BY <1>1 DEF CompleteEvent
<1>2. CASE StoppedWork
  BY <1>2 DEF StoppedWork
<1>3. CASE SchedScanStopped
  BY <1>3 DEF SchedScanStopped
<1>4. QED
  BY <1>1, <1>2, <1>3, Zenon

\* the chip goes away and comes back; results change nothing
LEMMA ChipStep ==
    ASSUME SchedTypeOK, SchedAgree,
           \/ QueueRecovery \/ RecoveryWork \/ ReconfigWork
           \/ StopDevice \/ Open
           \/ FwReport \/ ReportEvent \/ ResultsWork
    PROVE  SchedAgree'
<1> USE DEF SchedAgree, StartOK, KnownOK, DriverOK, ChipOK,
            ScanOwned, RequestHasEnd, Wanted, HoldsLocalMtx,
            chip, mac, device, user, past, OpStopLocked
<1>1. CASE QueueRecovery \/ ReconfigWork \/ Open
  BY <1>1 DEF QueueRecovery, ReconfigWork, Open
<1>2. CASE RecoveryWork
  BY <1>2 DEF RecoveryWork
<1>3. CASE StopDevice
  BY <1>3, SMTT(30) DEF StopDevice, SchedTypeOK
<1>4. CASE FwReport \/ ReportEvent \/ ResultsWork
  BY <1>4 DEF FwReport, ReportEvent, ResultsWork
<1>5. QED
  BY <1>1, <1>2, <1>3, <1>4, Zenon

LEMMA SchedInductive ==
    /\ SchedInit => SchedInv
    /\ SchedInv /\ [SchedNext]_sched_vars => SchedInv'
<1>1. SchedInit => SchedInv
  BY MaxAssumption
  DEF SchedInit, SchedInv, SchedAgree, SchedTypeOK, StartOK, KnownOK, DriverOK, ChipOK,
      ScanOwned, RequestHasEnd, Wanted, HoldsLocalMtx
<1>2. ASSUME SchedInv, UNCHANGED sched_vars PROVE SchedInv'
  BY <1>2 DEF sched_vars, chip, mac, device, user, past, SchedInv, SchedAgree,
              SchedTypeOK, StartOK, KnownOK, DriverOK, ChipOK, ScanOwned, RequestHasEnd,
              Wanted, HoldsLocalMtx
<1>3. ASSUME SchedInv, SchedNext PROVE SchedInv'
  BY <1>3, SchedTypes, StartStep, StopStep, EndStep, ChipStep, Zenon
  DEF SchedInv, SchedNext
<1>4. QED
  BY <1>1, <1>2, <1>3, Zenon

-----------------------------------------------------------------------------
\* What the firmware scans for is what user space wants and the driver knows
\* of (ScanOwned), whatever starts, stops, events, recoveries and interfaces
\* going down meet, unless it started while an older end was under way or its
\* stop command found no memory: the layers that forget a scan from below
\* forget no other.
THEOREM ScansOwned == SchedSpec => []ScanOwned
<1>1. SchedInv => ScanOwned
  BY DEF SchedInv, SchedAgree
<1>2. QED
  BY <1>1, SchedInductive, PTL DEF SchedSpec

\* A request that is not scanned for (any more) has someone who will end it
\* (RequestHasEnd), unless op_stop ended its scan: sched_scan_stopped_work
\* cannot slip in between the driver's start of a scan and mac80211's note of
\* it and be lost.
THEOREM RequestsEnd == SchedSpec => []RequestHasEnd
<1>1. SchedInv => RequestHasEnd
  BY DEF SchedInv, SchedAgree
<1>2. QED
  BY <1>1, SchedInductive, PTL DEF SchedSpec
=============================================================================
