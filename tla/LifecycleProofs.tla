--------------------------- MODULE LifecycleProofs ---------------------------
(***************************************************************************)
(* The invariants of Lifecycle hold for any interfaces, any number of boot *)
(* retries and any faults of the chip, until one of the races happens that *)
(* the history variable odd records.  IInv is inductive up to there; every *)
(* action keeps it for a reason given beside it.  The reasons fall into    *)
(* three kinds:                                                            *)
(*                                                                         *)
(*   - the chip is booted only by who holds the RTNL, in the OFF state and *)
(*     with no recovery in progress (BootAlone), so that nothing is        *)
(*     switched off under a boot and no boot undoes a stop (StopIsOff);    *)
(*   - the recovery flag is set only in the ON state and cleared only by   *)
(*     the one recovery_work or when none can run (OneRecovery,            *)
(*     QuietWhenDown), so each enable_irq finds its disable_irq;           *)
(*   - an interrupt is kept only while nothing can stop the chip           *)
(*     (SleepsAlone), so that op_stop_locked's "wl->flags = 0" never       *)
(*     forgets one.                                                        *)
(***************************************************************************)
EXTENDS Lifecycle, TLAPS

\* A request for a recovery that runs into none of the races.
LEMMA QuietRequest ==
    ASSUME NEW d, QueueRecovery(d), odd' = {}
    PROVE  ~StopAhead /\ ~Dozing /\ mode # "plt"
BY Zenon DEF QueueRecovery, OddRequest

\* probe leaves the device off with its interrupt disabled once, which is IInv.
LEMMA InitEstablishesIInv ==
    Init => IInv
  BY LifecycleAssumption, SMTT(30)
     DEF LifecycleAssumption, Init, IInv, TypeOK, Holders, MacHolds, RecHolds, Steps, One, IrqWanted,
         Balanced, Powered, VifsNeedChip, RecoveryOwned, NoSelfCancel,
         BootSteps, StopSteps, ResumeSteps, MacSteps, RecSteps, Busy, BootAlone,
         StopIsOff, OneRecovery, QuietWhenDown, JobsApart, SleepsAlone,
         VifsAreUp, chip, ifaces, rtnl, asked, macside, Threads, Goto, OddKinds, DepthBound,
          EnableIrq

\* Asking for a recovery (wl12xx_queue_recovery_work) and the interrupt
\* (wl12xx_hardirq, wl12xx_irq) keep IInv.
LEMMA RequestsKeepIInv ==
    ASSUME odd' = {}, IInv
    PROVE  (RequestRecovery \/ HardIrq \/ \E fails \in BOOLEAN : IrqThread(fails)) => IInv'
<1> USE LifecycleAssumption
    DEF LifecycleAssumption, IInv, TypeOK, Holders, MacHolds, RecHolds, Steps, One, IrqWanted,
          Balanced, Powered, VifsNeedChip, RecoveryOwned, NoSelfCancel,
          BootSteps, StopSteps, ResumeSteps, MacSteps, RecSteps, Busy, BootAlone,
          StopIsOff, OneRecovery, QuietWhenDown, JobsApart, SleepsAlone,
          VifsAreUp, chip, ifaces, rtnl, asked, macside, Threads, Goto, OddKinds, DepthBound,
          EnableIrq,
          MayFail, StopAhead, Dozing, WorksTaken, QueueRecovery
\* the state is ON, so no recovery is in progress
<1>1. ASSUME RequestRecovery PROVE IInv'
  <2>1. MayFail /\ QueueRecovery(0)
    BY <1>1, Zenon DEF RequestRecovery
  <2>2. ~StopAhead /\ ~Dozing /\ mode # "plt"
    BY <2>1, QuietRequest, Zenon
  <2>3. QED
    BY <1>1, <2>1, <2>2 DEF RequestRecovery
\* the depth is 0, so no interrupt is kept already and nothing runs
<1>2. ASSUME HardIrq /\ "SUSPENDED" \in flags PROVE IInv'
  <2>1. flags' = flags \cup {"PENDING"} /\ depth' = depth + 1 /\ irq' = irq
    BY <1>2 DEF HardIrq
  <2>2. QED
    BY <1>2, <2>1 DEF HardIrq
<1>3. ASSUME HardIrq /\ "SUSPENDED" \notin flags PROVE IInv'
  <2>1. flags' = flags /\ depth' = depth /\ irq' = "lock"
    BY <1>3, SMTT(30) DEF HardIrq
  <2>2. QED
    BY <1>3, <2>1 DEF HardIrq
\* if the thread fails, as for RequestRecovery
<1>4. ASSUME NEW fails \in BOOLEAN, IrqThread(fails) PROVE IInv'
  <2>1. CASE fails
    <3>1. MayFail /\ QueueRecovery(0)
      BY <1>4, <2>1 DEF IrqThread
    <3>2. ~StopAhead /\ ~Dozing /\ mode # "plt"
      BY <3>1, QuietRequest, Zenon
    <3>3. QED
      BY <3>2, <1>4, <3>1 DEF IrqThread
  <2>2. CASE ~fails
    <3>1. state' = state /\ flags' = flags /\ depth' = depth /\ work' = work
      BY <1>4, <2>2 DEF IrqThread
    <3>2. QED
      BY <1>4, <3>1 DEF IrqThread
  <2>3. QED
    BY <2>1, <2>2
<1>5. QED
  BY <1>1, <1>2, <1>3, <1>4

\* Adding and removing an interface (wl1271_op_add_interface,
\* wl1271_op_remove_interface) keep IInv.
LEMMA OpenCloseKeepIInv ==
    ASSUME odd' = {}, IInv
    PROVE  OpenClose => IInv'
<1> USE LifecycleAssumption
    DEF LifecycleAssumption, IInv, TypeOK, Holders, MacHolds, RecHolds, Steps, One, IrqWanted,
          Balanced, Powered, VifsNeedChip, RecoveryOwned, NoSelfCancel,
          BootSteps, StopSteps, ResumeSteps, MacSteps, RecSteps, Busy, BootAlone,
          StopIsOff, OneRecovery, QuietWhenDown, JobsApart, SleepsAlone,
          VifsAreUp, chip, ifaces, rtnl, asked, macside, Threads, Goto, OddKinds, DepthBound,
          EnableIrq,
          MayFail, StopAhead, Dozing, WorksTaken, QueueRecovery, AddFailed
<1>1. ASSUME NEW v \in Vifs, Open(v) PROVE IInv'
  BY <1>1 DEF Open
\* a boot begins in the OFF state with no recovery in progress
<1>2. ASSUME NEW v \in Vifs, AddInterface(v) PROVE IInv'
  BY <1>2 DEF AddInterface
\* the state is ON with the mutex held
<1>3. ASSUME NEW v \in Vifs, AddCommands(v) PROVE IInv'
  BY <1>3, SMTT(30) DEF AddCommands
\* no recovery for the first interface: mac80211 would call op_stop next
<1>4. ASSUME NEW v \in Vifs, NEW b \in BOOLEAN, AddCommandsFail(v, b) PROVE IInv'
  <2>1. CASE b
    <3>1. MayFail /\ QueueRecovery(0)
      BY <1>4, <2>1 DEF AddCommandsFail
    <3>2. ~StopAhead /\ ~Dozing /\ mode # "plt"
      BY <3>1, QuietRequest, Zenon
    <3>3. QED
      BY <3>2, <1>4, <3>1 DEF AddCommandsFail
  <2>2. CASE ~b
    <3>1. state' = state /\ flags' = flags /\ depth' = depth /\ work' = work
      BY <1>4, <2>2 DEF AddCommandsFail
    <3>2. QED
      BY <1>4, <3>1 DEF AddCommandsFail
  <2>3. QED
    BY <2>1, <2>2
<1>5. ASSUME NEW v \in Vifs, Close(v) PROVE IInv'
  BY <1>5 DEF Close
\* an interface the driver does not know is not on its list
<1>6. ASSUME NEW v \in Vifs, NEW b \in BOOLEAN, RemoveInterface(v, b) PROVE IInv'
  <2>1. inited' = inited \ {v} /\ wlvif_list' = wlvif_list \ {v}
    BY <1>6, SMTT(30) DEF RemoveInterface
  <2>2. CASE b
    <3>1. MayFail /\ QueueRecovery(0)
      BY <1>6, <2>2, SMTT(30) DEF RemoveInterface
    <3>2. ~StopAhead /\ ~Dozing /\ mode # "plt"
      BY <3>1, QuietRequest, Zenon
    <3>3. QED
      BY <3>2, <1>6, <2>1, <3>1 DEF RemoveInterface
  <2>3. CASE ~b
    <3>1. state' = state /\ flags' = flags /\ depth' = depth /\ work' = work
      BY <1>6, <2>3 DEF RemoveInterface
    <3>2. QED
      BY <1>6, <2>1, <3>1, SMTT(30) DEF RemoveInterface
  <2>4. QED
    BY <2>2, <2>3, SMTT(30)
<1> HIDE DEF IInv
<1>7. QED
  <2>1. SUFFICES ASSUME NEW v \in Vifs, NEW b \in BOOLEAN,
                        \/ Open(v) \/ AddInterface(v) \/ AddCommands(v) \/ Close(v)
                        \/ AddCommandsFail(v, b) \/ RemoveInterface(v, b)
                 PROVE  IInv'
    BY Zenon DEF OpenClose
  <2>2. QED
    BY <1>1, <1>2, <1>3, <1>4, <1>5, <1>6, <2>1

\* Booting with retries (wl12xx_init_fw, wl1271_plt_start) keeps IInv.
LEMMA BootLoopKeepIInv ==
    ASSUME odd' = {}, IInv
    PROVE  BootLoop => IInv'
<1> USE LifecycleAssumption
    DEF LifecycleAssumption, IInv, TypeOK, Holders, MacHolds, RecHolds, Steps, One, IrqWanted,
          Balanced, Powered, VifsNeedChip, RecoveryOwned, NoSelfCancel,
          BootSteps, StopSteps, ResumeSteps, MacSteps, RecSteps, Busy, BootAlone,
          StopIsOff, OneRecovery, QuietWhenDown, JobsApart, SleepsAlone,
          VifsAreUp, chip, ifaces, rtnl, asked, macside, Threads, Goto, OddKinds, DepthBound,
          EnableIrq,
          AddFailed
<1>1. ASSUME NEW ok \in BOOLEAN, PowerOn(ok) PROVE IInv'
  BY <1>1 DEF PowerOn
\* enable_irq, for the chip that is on its way
<1>2. ASSUME NEW ok \in BOOLEAN, Boot(ok) PROVE IInv'
  BY <1>2, SMTT(30) DEF Boot
<1>3. ASSUME NEW ok \in BOOLEAN, BootEnabled(ok) PROVE IInv'
  BY <1>3, SMTT(30) DEF BootEnabled
<1>4. ASSUME BootSync PROVE IInv'
  BY <1>4, SMTT(30) DEF BootSync
\* the state becomes ON with no recovery in progress
<1>5. ASSUME HwInit PROVE IInv'
  BY <1>5, SMTT(30) DEF HwInit
<1>6. ASSUME HwInitFails PROVE IInv'
  BY <1>6, SMTT(30) DEF HwInitFails
\* nobody left the OFF state while the mutex was free
<1>7. ASSUME HwSync PROVE IInv'
  BY <1>7, SMTT(30) DEF HwSync
<1>8. ASSUME BootGivenUp PROVE IInv'
  BY <1>8, SMTT(30) DEF BootGivenUp
<1> HIDE DEF IInv
<1>9. QED
  BY <1>1, <1>2, <1>3, <1>4, <1>5, <1>6, <1>7, <1>8, Zenon
     DEF BootLoop

\* op_stop (wl1271_op_stop_locked called by mac80211), and its wait for the
\* workqueue, keep IInv.
LEMMA StopDeviceKeepIInv ==
    ASSUME odd' = {}, IInv
    PROVE  (FlushWorkqueue \/ StopLocked("mac")) => IInv'
<1> USE LifecycleAssumption
    DEF LifecycleAssumption, IInv, TypeOK, Holders, MacHolds, RecHolds, Steps, One, IrqWanted,
          Balanced, Powered, VifsNeedChip, RecoveryOwned, NoSelfCancel,
          BootSteps, StopSteps, ResumeSteps, MacSteps, RecSteps, Busy, BootAlone,
          StopIsOff, OneRecovery, QuietWhenDown, JobsApart, SleepsAlone,
          VifsAreUp, chip, ifaces, rtnl, asked, macside, Threads, Goto, OddKinds, DepthBound,
          EnableIrq,
          StopEntry, StopReturn, EndRecovery
\* no work and no sleep: no recovery in progress
<1>1. ASSUME FlushWorkqueue PROVE IInv'
  BY <1>1, SMTT(30) DEF FlushWorkqueue
<1>2. ASSUME StopOff("mac") PROVE IInv'
  BY <1>2, SMTT(30) DEF StopOff
\* the last interface is down, so the list is empty
<1>3. ASSUME StopOn("mac") PROVE IInv'
  BY <1>3, SMTT(30) DEF StopOn
<1>4. ASSUME StopDel("mac") PROVE IInv'
  BY <1>4, SMTT(30) DEF StopDel
<1>5. ASSUME StopSync("mac") PROVE IInv'
  BY <1>5, SMTT(30) DEF StopSync
\* there is nothing to cancel
<1>6. ASSUME StopCancel("mac") PROVE IInv'
  BY <1>6, SMTT(30) DEF StopCancel
\* no interrupt is kept, so clearing the flags loses none
<1>7. ASSUME StopLock("mac") PROVE IInv'
  BY <1>7, SMTT(30) DEF StopLock
<1> HIDE DEF IInv
<1>8. QED
  BY <1>1, <1>2, <1>3, <1>4, <1>5, <1>6, <1>7, Zenon
     DEF StopLocked

\* recovery_work (wl1271_recovery_work, with its wl1271_op_stop_locked) keeps
\* IInv.
LEMMA RecoveryKeepIInv ==
    ASSUME odd' = {}, IInv
    PROVE  (Recovery \/ StopLocked("rec")) => IInv'
<1> USE LifecycleAssumption
    DEF LifecycleAssumption, IInv, TypeOK, Holders, MacHolds, RecHolds, Steps, One, IrqWanted,
          Balanced, Powered, VifsNeedChip, RecoveryOwned, NoSelfCancel,
          BootSteps, StopSteps, ResumeSteps, MacSteps, RecSteps, Busy, BootAlone,
          StopIsOff, OneRecovery, QuietWhenDown, JobsApart, SleepsAlone,
          VifsAreUp, chip, ifaces, rtnl, asked, macside, Threads, Goto, OddKinds, DepthBound,
          EnableIrq,
          StopEntry, StopReturn, EndRecovery
<1>1. ASSUME RecStart PROVE IInv'
  BY <1>1, SMTT(30) DEF RecStart
<1>2. ASSUME RecLock, pc["rec"] = "lock" /\ (state = "OFF" \/ mode = "plt")
      PROVE  IInv'
  <2>1. /\ mutex = "none" /\ RecSkip
        /\ UNCHANGED <<listed, ifaces, rtnl, work, irq, macside>>
    BY <1>2, SMTT(30) DEF RecLock
  <2>2. QED
    BY <1>2, <2>1, SMTT(30) DEF RecSkip
<1>3. ASSUME RecLock, ~(pc["rec"] = "lock" /\ (state = "OFF" \/ mode = "plt"))
      PROVE  IInv'
  <2>1. /\ pc["rec"] \in {"lock", "relock"} /\ mutex = "none"
        /\ mutex' = "rec" /\ pc' = [pc EXCEPT !["rec"] = "remove"]
        /\ UNCHANGED <<chip, flags, listed, ifaces, rtnl, work, irq, macside>>
    BY <1>3, SMTT(30) DEF RecLock
  <2>2. QED
    BY <2>1, SMTT(30)
<1>4. ASSUME NEW v \in Vifs, RecRemove(v) PROVE IInv'
  BY <1>4, SMTT(30) DEF RecRemove
<1>5. ASSUME RecDone PROVE IInv'
  BY <1>5, SMTT(30) DEF RecDone
<1>6. ASSUME StopOff("rec") PROVE IInv'
  BY <1>6, SMTT(30) DEF StopOff
\* from here on add_interface meets the recovery flag
<1>7. ASSUME StopOn("rec") PROVE IInv'
  BY <1>7, SMTT(30) DEF StopOn
<1>8. ASSUME StopDel("rec") PROVE IInv'
  BY <1>8, SMTT(30) DEF StopDel
\* the flag is still set: recovery_work does not cancel itself
<1>9. ASSUME StopSync("rec") PROVE IInv'
  BY <1>9, SMTT(30) DEF StopSync
<1>10. ASSUME StopCancel("rec") PROVE IInv'
  BY <1>10, SMTT(30) DEF StopCancel
\* no boot is under way, and no interrupt is kept
<1>11. ASSUME StopLock("rec") PROVE IInv'
  BY <1>11, SMTT(30) DEF StopLock
<1> HIDE DEF IInv
<1>12. QED
  BY <1>1, <1>2, <1>3, <1>4, <1>5, <1>6, <1>7, <1>8, <1>9, <1>10, <1>11, Zenon
     DEF Recovery, StopLocked

\* mac80211's restart_work, suspend and resume (wl1271_op_suspend,
\* wl1271_op_resume) keep IInv.
LEMMA RestartKeepIInv ==
    ASSUME odd' = {}, IInv
    PROVE  (RestartFlush \/ Restart \/ SuspendResume) => IInv'
<1> USE LifecycleAssumption
    DEF LifecycleAssumption, IInv, TypeOK, Holders, MacHolds, RecHolds, Steps, One, IrqWanted,
          Balanced, Powered, VifsNeedChip, RecoveryOwned, NoSelfCancel,
          BootSteps, StopSteps, ResumeSteps, MacSteps, RecSteps, Busy, BootAlone,
          StopIsOff, OneRecovery, QuietWhenDown, JobsApart, SleepsAlone,
          VifsAreUp, chip, ifaces, rtnl, asked, macside, Threads, Goto, OddKinds, DepthBound,
          EnableIrq,
          MayFail, StopAhead, Dozing, WorksTaken, QueueRecovery, Reconfig,
          ResumeDone
<1>1. ASSUME RestartFlush PROVE IInv'
  BY <1>1, SMTT(30) DEF RestartFlush
<1>2. ASSUME Restart /\ "wowlan" \in local PROVE IInv'
  <2>1. local' = local \ {"wowlan"} /\ Goto("mac", "resume") /\ todo' = todo
    BY <1>2, SMTT(30) DEF Restart
  <2>2. QED
    BY <1>2, <2>1, SMTT(30) DEF Restart
<1>3. ASSUME Restart /\ "wowlan" \notin local /\ up = {} PROVE IInv'
  BY <1>3, SMTT(30) DEF Restart
<1>4. ASSUME Restart /\ "wowlan" \notin local /\ up # {} PROVE IInv'
  <2>1. local' = local /\ Goto("mac", "add") /\ todo' = up
    BY <1>4, SMTT(30) DEF Restart
  <2>2. QED
    BY <1>4, <2>1, SMTT(30) DEF Restart
<1>5. ASSUME Wake /\ "wowlan" \in local PROVE IInv'
  <2>1. local' = local \ {"asleep", "wowlan"} /\ Goto("mac", "resume") /\ todo' = todo
    BY <1>5, SMTT(30) DEF Wake
  <2>2. QED
    BY <1>5, <2>1, SMTT(30) DEF Wake
\* a sleeping system has an interface that is up
<1>6. ASSUME Wake /\ "wowlan" \notin local PROVE IInv'
  <2>1. local' = local \ {"asleep", "suspended"} /\ Goto("mac", "add") /\ todo' = up
    BY <1>6, SMTT(30) DEF Wake
  <2>2. QED
    BY <1>6, <2>1, SMTT(30) DEF Wake
<1>7. ASSUME Suspend PROVE IInv'
  BY <1>7, SMTT(30) DEF Suspend
<1>8. ASSUME SuspendConfigure PROVE IInv'
  BY <1>8, SMTT(30) DEF SuspendConfigure
<1>9. ASSUME NEW b \in BOOLEAN, SuspendFails(b) PROVE IInv'
  <2>1. CASE b
    <3>1. MayFail /\ QueueRecovery(0)
      BY <1>9, <2>1, SMTT(30) DEF SuspendFails
    <3>2. ~StopAhead /\ ~Dozing /\ mode # "plt"
      BY <3>1, QuietRequest, Zenon
    <3>3. QED
      BY <3>2, <1>9, <3>1, SMTT(30) DEF SuspendFails
  <2>2. CASE ~b
    <3>1. state' = state /\ flags' = flags /\ depth' = depth /\ work' = work
      BY <1>9, <2>2, SMTT(30) DEF SuspendFails
    <3>2. QED
      BY <1>9, <3>1, SMTT(30) DEF SuspendFails
  <2>3. QED
    BY <2>1, <2>2, SMTT(30)
<1>10. ASSUME SuspendSync PROVE IInv'
  BY <1>10, SMTT(30) DEF SuspendSync
\* a recovery that was queued before is still queued
<1>11. ASSUME Suspended PROVE IInv'
  BY <1>11, SMTT(30) DEF Suspended
\* the kept interrupt is now op_resume's to enable again
<1>12. ASSUME Resume PROVE IInv'
  BY <1>12, SMTT(30) DEF Resume
\* a refused recovery is queued, a running one is let finish
<1>13. ASSUME ResumeLock PROVE IInv'
  BY <1>13, SMTT(30) DEF ResumeLock
<1>14. ASSUME ResumeIrqFails PROVE IInv'
  <2>1. ~StopAhead /\ ~Dozing /\ mode # "plt"
    BY <1>14, QuietRequest DEF ResumeIrqFails
  <2>2. QED
    BY <1>14, <2>1, SMTT(30) DEF ResumeIrqFails
<1> HIDE DEF IInv
<1>15. QED
  BY <1>1, <1>2, <1>3, <1>4, <1>5, <1>6, <1>7, <1>8, <1>9, <1>10, <1>11,
     <1>12, <1>13, <1>14, ZenonT(30)
     DEF SuspendResume

\* Production test mode (wl1271_plt_start, wl1271_plt_stop) keeps IInv.
LEMMA PltKeepIInv ==
    ASSUME odd' = {}, IInv
    PROVE  Plt => IInv'
<1> USE LifecycleAssumption
    DEF LifecycleAssumption, IInv, TypeOK, Holders, MacHolds, RecHolds, Steps, One, IrqWanted,
          Balanced, Powered, VifsNeedChip, RecoveryOwned, NoSelfCancel,
          BootSteps, StopSteps, ResumeSteps, MacSteps, RecSteps, Busy, BootAlone,
          StopIsOff, OneRecovery, QuietWhenDown, JobsApart, SleepsAlone,
          VifsAreUp, chip, ifaces, rtnl, asked, macside, Threads, Goto, OddKinds, DepthBound,
          EnableIrq
<1>1. ASSUME PltStart PROVE IInv'
  BY <1>1, SMTT(30) DEF PltStart
<1>2. ASSUME PltStop PROVE IInv'
  BY <1>2, SMTT(30) DEF PltStop
<1>3. ASSUME PltNotOn PROVE IInv'
  BY <1>3, SMTT(30) DEF PltNotOn
<1>4. ASSUME PltCancel PROVE IInv'
  BY <1>4, SMTT(30) DEF PltCancel
\* PLT mode has no recovery: the depth that is left is the chip's
<1>5. ASSUME PltOff PROVE IInv'
  BY <1>5, SMTT(30) DEF PltOff
<1> HIDE DEF IInv
<1>6. QED
  BY <1>1, <1>2, <1>3, <1>4, <1>5, Zenon
     DEF Plt

\* Every step of the driver, of mac80211 and of the chip keeps IInv.
LEMMA NextKeepsIInv ==
    ASSUME odd' = {}, IInv, [Next]_vars
    PROVE  IInv'
<1>1. CASE UNCHANGED vars
  BY <1>1, SMTT(30) DEF vars, chip, ifaces, rtnl, asked, macside, OddKinds, IInv, TypeOK, Holders, MacHolds, RecHolds, Steps, One, IrqWanted,
     Balanced, Powered, VifsNeedChip, RecoveryOwned, NoSelfCancel,
     BootSteps, StopSteps, ResumeSteps, MacSteps, RecSteps, Busy, BootAlone,
     StopIsOff, OneRecovery, QuietWhenDown, JobsApart, SleepsAlone,
     VifsAreUp
<1>2. CASE RequestRecovery \/ HardIrq \/ \E fails \in BOOLEAN : IrqThread(fails)
  BY <1>2, RequestsKeepIInv
<1>3. CASE OpenClose
  BY <1>3, OpenCloseKeepIInv
<1>4. CASE BootLoop
  BY <1>4, BootLoopKeepIInv
<1>5. CASE FlushWorkqueue \/ StopLocked("mac")
  BY <1>5, StopDeviceKeepIInv
<1>6. CASE Recovery \/ StopLocked("rec")
  BY <1>6, RecoveryKeepIInv
<1>7. CASE RestartFlush \/ Restart \/ SuspendResume
  BY <1>7, RestartKeepIInv
<1>8. CASE Plt
  BY <1>8, PltKeepIInv, SMTT(30)
<1>9. QED
  BY <1>1, <1>2, <1>3, <1>4, <1>5, <1>6, <1>7, <1>8, SMTT(30) DEF Next, Threads

\* The history variable forgets no race.
LEMMA OddStays ==
    ASSUME [Next]_vars, odd' = {}
    PROVE  odd = {}
<1>1. ASSUME NEW d, QueueRecovery(d) PROVE odd = {}
  BY <1>1, Zenon DEF QueueRecovery
<1>2. CASE RequestRecovery \/ HardIrq \/ \E fails \in BOOLEAN : IrqThread(fails)
  BY <1>1, <1>2, Zenon DEF RequestRecovery, HardIrq, IrqThread, asked
<1>3. CASE OpenClose
  <2>1. ASSUME NEW v \in Vifs, NEW b \in BOOLEAN,
               AddCommandsFail(v, b) \/ RemoveInterface(v, b)
        PROVE  odd = {}
    BY <1>1, <2>1, Zenon DEF AddCommandsFail, RemoveInterface, asked
  <2>2. ASSUME NEW v \in Vifs,
               Open(v) \/ AddInterface(v) \/ AddCommands(v) \/ Close(v)
        PROVE  odd = {}
    BY <2>2, Zenon DEF Open, AddInterface, AddCommands, Close, asked
  <2>3. QED
    BY <1>3, <2>1, <2>2, Zenon DEF OpenClose
<1>4. CASE BootLoop \/ FlushWorkqueue
  BY <1>4, Zenon DEF BootLoop, FlushWorkqueue, PowerOn, Boot, BootEnabled,
                     BootSync, HwInit, HwInitFails, HwSync, BootGivenUp, asked
<1>5. CASE \E t \in Threads : StopLocked(t)
  BY <1>5, Zenon DEF StopLocked, StopOff, StopOn, StopDel, StopSync, StopCancel,
                     StopLock, asked
<1>6. CASE Recovery \/ RestartFlush \/ Restart
  BY <1>6, Zenon DEF Recovery, RecStart, RecLock, RecRemove, RecDone,
                     RestartFlush, Restart, asked
<1>7. CASE SuspendResume
  <2>1. ASSUME ResumeIrqFails \/ \E b \in BOOLEAN : SuspendFails(b)
        PROVE  odd = {}
    BY <1>1, <2>1, Zenon DEF ResumeIrqFails, SuspendFails, asked
  <2>2. QED
    BY <1>7, <2>1, Zenon
    DEF SuspendResume, Suspend, SuspendConfigure, SuspendSync, Suspended, Wake,
        Resume, ResumeLock, asked
<1>8. CASE Plt
  BY <1>8, Zenon DEF Plt, PltStart, PltStop, PltNotOn, PltCancel, PltOff, asked
<1>9. CASE UNCHANGED vars
  BY <1>9, Zenon DEF vars, asked
<1>10. QED
  BY <1>2, <1>3, <1>4, <1>5, <1>6, <1>7, <1>8, <1>9, Zenon DEF Next

\* IInv holds of every reachable state that no race came before.
THEOREM IInvHolds == Spec => [](odd = {} => IInv)
<1>1. (odd = {} => IInv) /\ [Next]_vars => (odd = {} => IInv)'
  BY NextKeepsIInv, OddStays
<1>2. QED
  BY <1>1, InitEstablishesIInv, PTL DEF Spec

\* Until one of the races happens, every disable_irq of stop, suspend, recovery
\* and boot is undone exactly once, in whatever order they meet: the driver never
\* runs a firmware it cannot hear.
THEOREM InterruptsBalanced == Spec => [](odd = {} => DepthExact /\ Balanced)
<1>1. (odd = {} => IInv) => (odd = {} => DepthExact /\ Balanced)
  BY DEF IInv, DepthExact
<1>2. QED
  BY <1>1, IInvHolds, PTL

\* Until one of the races happens, no interleaving of op_stop_locked, init_fw and
\* recovery_work, which all drop the mutex half way, switches off a chip that the
\* driver believes to run.
THEOREM ChipPowered == Spec => [](odd = {} => PoweredWhenOn /\ Powered)
<1>1. (odd = {} => IInv) => (odd = {} => PoweredWhenOn /\ Powered)
  BY DEF IInv, PoweredWhenOn
<1>2. QED
  BY <1>1, IInvHolds, PTL

\* Until one of the races happens, a recovery that was requested is queued,
\* running or waiting for the resume, and recovery_work does not meet its own
\* cancel_work_sync: nobody else has cleared the recovery flag.
THEOREM RecoveryNotForgotten ==
    Spec => [](odd = {} => RecoveryOwned /\ NoSelfCancel)
<1>1. (odd = {} => IInv) => (odd = {} => RecoveryOwned /\ NoSelfCancel)
  BY DEF IInv
<1>2. QED
  BY <1>1, IInvHolds, PTL

\* Every step keeps who holds the mutex, races or not.
LEMMA HoldersKept ==
    ASSUME Holders, [Next]_vars
    PROVE  Holders'
<1> USE DEF Holders, Steps, MacHolds, RecHolds, Threads, Goto,
            chip, ifaces, rtnl, asked, macside
<1>1. CASE RequestRecovery
  BY <1>1 DEF RequestRecovery, QueueRecovery
<1>2. CASE HardIrq
  BY <1>2 DEF HardIrq
<1>3. CASE \E fails \in BOOLEAN : IrqThread(fails)
  BY <1>3 DEF IrqThread, QueueRecovery
<1>4. CASE \E v \in Vifs : Open(v) \/ Close(v)
  BY <1>4 DEF Open, Close
<1>5. CASE \E v \in Vifs : AddInterface(v)
  BY <1>5 DEF AddInterface, AddFailed
<1>6. CASE \E v \in Vifs : AddCommands(v)
  BY <1>6 DEF AddCommands
<1>7. CASE \E v \in Vifs, b \in BOOLEAN : AddCommandsFail(v, b)
  BY <1>7 DEF AddCommandsFail, AddFailed, QueueRecovery
<1>8. CASE \E v \in Vifs, b \in BOOLEAN : RemoveInterface(v, b)
  BY <1>8 DEF RemoveInterface, QueueRecovery
<1>9. CASE \E ok \in BOOLEAN : PowerOn(ok) \/ Boot(ok) \/ BootEnabled(ok)
  BY <1>9 DEF PowerOn, Boot, BootEnabled, EnableIrq
<1>10. CASE BootSync \/ HwInit \/ HwInitFails \/ HwSync
  BY <1>10 DEF BootSync, HwInit, HwInitFails, HwSync
<1>11. CASE BootGivenUp \/ FlushWorkqueue
  BY <1>11 DEF BootGivenUp, FlushWorkqueue, AddFailed
<1>12. CASE \E t \in Threads : StopOff(t) \/ StopOn(t)
  BY <1>12 DEF StopOff, StopOn, StopEntry, StopReturn, EndRecovery,
         EnableIrq
<1>13. CASE \E t \in Threads : StopDel(t) \/ StopSync(t) \/ StopCancel(t)
  BY <1>13 DEF StopDel, StopSync, StopCancel
<1>14. CASE \E t \in Threads : StopLock(t)
  BY <1>14 DEF StopLock, StopReturn, EndRecovery, EnableIrq
<1>15. CASE RecStart \/ RecLock \/ RecDone
  BY <1>15 DEF RecStart, RecLock, RecSkip, RecDone, EndRecovery, EnableIrq
<1>16. CASE \E v \in Vifs : RecRemove(v)
  BY <1>16 DEF RecRemove
<1>17. CASE RestartFlush \/ Restart \/ Wake
  BY <1>17 DEF RestartFlush, Restart, Wake, Reconfig
<1>18. CASE Suspend \/ SuspendConfigure \/ SuspendSync \/ Suspended
  BY <1>18 DEF Suspend, SuspendConfigure, SuspendSync, Suspended, EnableIrq
<1>19. CASE ResumeIrqFails \/ \E b \in BOOLEAN : SuspendFails(b)
  BY <1>19 DEF SuspendFails, ResumeIrqFails, ResumeDone, QueueRecovery
<1>20. CASE Resume \/ ResumeLock
  BY <1>20 DEF Resume, ResumeLock, ResumeDone, EnableIrq
<1>21. CASE PltStart \/ PltStop \/ PltNotOn
  BY <1>21 DEF PltStart, PltStop, PltNotOn, EnableIrq
<1>22. CASE PltCancel \/ PltOff
  BY <1>22 DEF PltCancel, PltOff
<1>23. CASE UNCHANGED vars
  BY <1>23 DEF vars
<1> HIDE DEF Holders
<1>24. QED
  BY <1>1, <1>2, <1>3, <1>4, <1>5, <1>6, <1>7, <1>8, <1>9, <1>10, <1>11,
     <1>12, <1>13, <1>14, <1>15, <1>16, <1>17, <1>18, <1>19, <1>20, <1>21,
     <1>22, <1>23, ZenonT(30)
  DEF Next, OpenClose, BootLoop, StopLocked, Recovery, SuspendResume, Plt

\* Every step keeps what VifsNeedChip rests on, races or not.
LEMMA VifsKept ==
    ASSUME Holders, VifInv, [Next]_vars
    PROVE  VifInv'
<1> USE DEF Holders, Steps, MacHolds, RecHolds, VifInv, VifsNeedChip, VifsAreUp,
            BootSteps, StopSteps, MayFail, Threads, Goto, chip, ifaces, rtnl, asked,
            macside
<1>1. CASE RequestRecovery
  BY <1>1 DEF RequestRecovery, QueueRecovery
<1>2. CASE HardIrq
  BY <1>2 DEF HardIrq
<1>3. CASE \E fails \in BOOLEAN : IrqThread(fails)
  BY <1>3 DEF IrqThread, QueueRecovery
<1>4. CASE \E v \in Vifs : Open(v) \/ Close(v)
  BY <1>4 DEF Open, Close
<1>5. CASE \E v \in Vifs : AddInterface(v)
  BY <1>5 DEF AddInterface, AddFailed
<1>6. CASE \E v \in Vifs : AddCommands(v)
  BY <1>6 DEF AddCommands
<1>7. CASE \E v \in Vifs, b \in BOOLEAN : AddCommandsFail(v, b)
  BY <1>7 DEF AddCommandsFail, AddFailed, QueueRecovery
<1>8. CASE \E v \in Vifs, b \in BOOLEAN : RemoveInterface(v, b)
  BY <1>8 DEF RemoveInterface, QueueRecovery
<1>9. CASE \E ok \in BOOLEAN : PowerOn(ok) \/ Boot(ok) \/ BootEnabled(ok)
  BY <1>9 DEF PowerOn, Boot, BootEnabled, EnableIrq
<1>10. CASE BootSync \/ HwInit \/ HwInitFails \/ HwSync
  BY <1>10 DEF BootSync, HwInit, HwInitFails, HwSync
<1>11. CASE BootGivenUp \/ FlushWorkqueue
  BY <1>11 DEF BootGivenUp, FlushWorkqueue, AddFailed
<1>12. CASE \E t \in Threads : StopOff(t) \/ StopOn(t)
  BY <1>12 DEF StopOff, StopOn, StopEntry, StopReturn, EndRecovery,
         EnableIrq
<1>13. CASE \E t \in Threads : StopDel(t) \/ StopSync(t) \/ StopCancel(t)
  BY <1>13 DEF StopDel, StopSync, StopCancel
<1>14. CASE \E t \in Threads : StopLock(t)
  BY <1>14 DEF StopLock, StopReturn, EndRecovery, EnableIrq
<1>15. CASE RecStart \/ RecLock \/ RecDone
  BY <1>15 DEF RecStart, RecLock, RecSkip, RecDone, EndRecovery, EnableIrq
<1>16. CASE \E v \in Vifs : RecRemove(v)
  BY <1>16 DEF RecRemove
<1>17. CASE RestartFlush \/ Restart \/ Wake
  BY <1>17 DEF RestartFlush, Restart, Wake, Reconfig
<1>18. CASE Suspend \/ SuspendConfigure \/ SuspendSync \/ Suspended
  BY <1>18 DEF Suspend, SuspendConfigure, SuspendSync, Suspended, EnableIrq
<1>19. CASE ResumeIrqFails \/ \E b \in BOOLEAN : SuspendFails(b)
  BY <1>19 DEF SuspendFails, ResumeIrqFails, ResumeDone, QueueRecovery
<1>20. CASE Resume \/ ResumeLock
  BY <1>20 DEF Resume, ResumeLock, ResumeDone, EnableIrq
<1>21. CASE PltStart \/ PltStop \/ PltNotOn
  BY <1>21 DEF PltStart, PltStop, PltNotOn, EnableIrq
<1>22. CASE PltCancel \/ PltOff
  BY <1>22 DEF PltCancel, PltOff
<1>23. CASE UNCHANGED vars
  BY <1>23 DEF vars
<1> HIDE DEF VifInv
<1>24. QED
  BY <1>1, <1>2, <1>3, <1>4, <1>5, <1>6, <1>7, <1>8, <1>9, <1>10, <1>11,
     <1>12, <1>13, <1>14, <1>15, <1>16, <1>17, <1>18, <1>19, <1>20, <1>21,
     <1>22, <1>23, ZenonT(30)
  DEF Next, OpenClose, BootLoop, StopLocked, Recovery, SuspendResume, Plt

\* recovery_work's loop over wlvif_list ends, whatever races there are: every
\* interface on it is initialised and the chip runs.
THEOREM InterfacesOnRunningChip == Spec => []VifsNeedChip
<1>1. Init => Holders /\ VifInv
  BY DEF Init, Holders, VifInv, VifsNeedChip, VifsAreUp, Steps, MacHolds, RecHolds,
      BootSteps, StopSteps, Threads
<1>2. Holders /\ VifInv /\ [Next]_vars => (Holders /\ VifInv)'
  BY HoldersKept, VifsKept
<1>3. Holders /\ VifInv => VifsNeedChip
  BY DEF VifInv
<1>4. QED
  BY <1>1, <1>2, <1>3, PTL DEF Spec
=============================================================================
