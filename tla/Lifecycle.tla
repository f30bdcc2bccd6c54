------------------------------ MODULE Lifecycle ------------------------------
(***************************************************************************)
(* The life of the chip under the driver: op_start, op_stop, adding and    *)
(* removing interfaces, booting with retries, the PLT (production test)    *)
(* mode, suspend and resume, the interrupt and the recovery_work that      *)
(* reboots a failed firmware.                                              *)
(*                                                                         *)
(* Two threads run these functions: "mac", whoever holds the RTNL          *)
(* (mac80211's callbacks, its restart_work, the testmode commands, suspend *)
(* and resume), and "rec", recovery_work on mac80211's ordered workqueue.  *)
(* The interrupt thread is the third contender for wl->mutex.  pc[t] names *)
(* the next step of t; a step is what t does between two points at which   *)
(* it waits or lets go of the mutex.                                       *)
(***************************************************************************)
EXTENDS Integers

CONSTANTS
    Vifs,         \* virtual interfaces
    BootRetries,  \* WL1271_BOOT_RETRIES
    MaxDepth,     \* bound on the interrupt's disable depth
    Faults        \* what may happen to the chip: "boot", it does not come up or
                  \* refuses a command; "late", its boot fails past enable_irq;
                  \* "plt", a user puts it in PLT mode

ASSUME LifecycleAssumption ==
    /\ Vifs # {} /\ BootRetries \in Nat \ {0}
    /\ MaxDepth \in Nat /\ MaxDepth >= 3
    /\ Faults \subseteq {"boot", "late", "plt"}

VARIABLES
    state,       \* wl->state
    mode,        \* wl->plt: "plt" or "normal"
    flags,       \* RECOVERY_IN_PROGRESS, SUSPENDED, PENDING_WORK of wl->flags
    depth,       \* how often wl->irq is disabled
    power,       \* of the chip
    listed,      \* is wl on the global wl_list
    wlvif_list,  \* the driver's interfaces
    inited,      \* those with WLVIF_FLAG_INITIALIZED
    mutex,       \* holder of wl->mutex
    pc,          \* the threads' next steps
    job,         \* what the RTNL is held for: "open", "restart", "plt", "other"
    todo,        \* interfaces the job is about
    retries,     \* boot attempts left
    work,        \* recovery_work on the workqueue: "none" or "pending"
    odd,         \* history: which of the races below there were
    irq,         \* interrupt thread: "idle", or "lock" when it waits
    up,          \* mac80211: interfaces that are up
    restart,     \* mac80211: restart_work "none", "pending", "flushed" (past its
                 \* wait for the workqueue), or "both" (and queued again)
    local        \* mac80211: local->suspended, local->wowlan, and "asleep"

\* odd only records, for the properties, what no one waits for:
\*   plt:   PLT mode meets a recovery or an interface
\*   stop:  a recovery is requested when mac80211 is past its last wait for the
\*          workqueue and about to call op_stop
\*   doze:  a recovery is requested when op_suspend is done and mac80211 has not
\*          yet noted it, or when mac80211 resumes and op_resume has not begun
\*   again: op_resume comes to its mutex while a recovery runs, and queues it
\*          once more
OddKinds == {"plt", "stop", "doze", "again"}

chip == <<state, mode, depth, power>>
ifaces == <<wlvif_list, inited, up>>
rtnl == <<job, todo, retries>>
asked == <<work, odd>>
macside == <<restart, local>>
vars == <<chip, flags, listed, ifaces, mutex, pc, rtnl, asked, irq, macside>>

Threads == {"mac", "rec"}

\* probe leaves the interrupt disabled once
Init ==
    /\ state = "OFF" /\ mode = "normal" /\ flags = {} /\ depth = 1
    /\ power = "off" /\ listed = "no"
    /\ wlvif_list = {} /\ inited = {} /\ up = {}
    /\ mutex = "none" /\ pc = [t \in Threads |-> "idle"]
    /\ job = "open" /\ todo = {} /\ retries = 0
    /\ work = "none" /\ odd = {} /\ irq = "idle" /\ restart = "none"
    /\ local = {}

Goto(t, step) == pc' = [pc EXCEPT ![t] = step]

\* enable_irq on a depth of d: the kernel warns of an unbalanced call and
\* ignores it
EnableIrq(d) == IF d > 0 THEN d - 1 ELSE d

\* the bound: users and the chip start nothing new past it
DepthBound == depth < MaxDepth

\* test_and_clear_bit(RECOVERY_IN_PROGRESS) and, if it was set, enable_irq
EndRecovery(d) == IF "RECOVERY" \in flags THEN EnableIrq(d) ELSE d

-----------------------------------------------------------------------------
(* Asking for a recovery                                                    *)

\* mac80211 is about to call op_stop and does not wait for the workqueue first
StopAhead ==
    \/ pc["mac"] = "stop"
    \/ pc["mac"] = "addcmd" /\ job = "open" /\ up = {}

\* ieee80211_queue_work: nothing is queued while suspended and not resuming
WorksTaken ==
    "suspended" \notin local \/ pc["mac"] \in {"resume", "resumeirq", "resumelock"}

\* hardirq keeps interrupts for the resume, but mac80211 takes works
Dozing == "SUSPENDED" \in flags /\ WorksTaken

\* the races a request for a recovery runs into
OddRequest ==
    (IF mode = "plt" THEN {"plt"} ELSE {})
    \cup (IF StopAhead THEN {"stop"} ELSE {})
    \cup (IF Dozing THEN {"doze"} ELSE {})

\* the firmware, the bus or a test command may ask for a recovery of a chip
\* that runs
MayFail == state = "ON" /\ DepthBound

\* wl12xx_queue_recovery_work, together with d further changes of the depth
QueueRecovery(d) ==
    /\ state' = "RESTARTING"
    /\ flags' = flags \cup {"RECOVERY"}
    /\ depth' = depth + 1 + d
    /\ work' = IF WorksTaken THEN "pending" ELSE work
    /\ odd' = odd \cup OddRequest

\* any function under the mutex: the Tx and ELP watchdogs, a failed command, a
\* firmware change, debugfs, testmode
RequestRecovery ==
    /\ mutex = "none" /\ MayFail
    /\ QueueRecovery(0)
    /\ UNCHANGED <<mode, power, listed, ifaces, mutex, pc, rtnl, irq, macside>>

-----------------------------------------------------------------------------
(* The interrupt                                                            *)

\* wl12xx_hardirq wakes the thread, or keeps the interrupt for the resume
HardIrq ==
    /\ depth = 0 /\ power = "on" /\ irq = "idle"
    /\ IF "SUSPENDED" \in flags
         THEN /\ flags' = flags \cup {"PENDING"} /\ depth' = depth + 1
              /\ UNCHANGED irq
         ELSE irq' = "lock" /\ UNCHANGED <<flags, depth>>
    /\ UNCHANGED <<state, mode, power, listed, ifaces, mutex, pc, rtnl, asked,
                   macside>>

\* wl12xx_irq does nothing unless the state is ON; an error or a firmware
\* watchdog asks for a recovery
IrqThread(fails) ==
    /\ irq = "lock" /\ mutex = "none"
    /\ irq' = "idle"
    /\ IF fails
         THEN MayFail /\ QueueRecovery(0)
         ELSE UNCHANGED <<state, flags, depth, asked>>
    /\ UNCHANGED <<mode, power, listed, ifaces, mutex, pc, rtnl, macside>>

-----------------------------------------------------------------------------
(* mac80211 brings an interface up, or all of them again after a recovery   *)

\* ieee80211_do_open; the first interface calls op_start
Open(v) ==
    /\ pc["mac"] = "idle" /\ local = {} /\ v \notin up /\ DepthBound
    /\ odd' = odd \cup IF mode = "plt" THEN {"plt"} ELSE {}
    /\ listed' = IF up = {} THEN "yes" ELSE listed
    /\ job' = "open" /\ todo' = {v}
    /\ Goto("mac", "add")
    /\ UNCHANGED <<chip, flags, ifaces, mutex, retries, work, irq, macside>>

\* mac80211's next call after an interface v could not be added
AddFailed(v) ==
    /\ mutex' = "none"
    /\ todo' = todo \ {v}
    /\ Goto("mac", IF job = "open" THEN IF up = {} THEN "stop" ELSE "idle"
                   ELSE IF todo' = {} THEN "idle" ELSE "add")

\* wl1271_op_add_interface up to the point where it needs the chip
AddInterface(v) ==
    /\ pc["mac"] = "add" /\ mutex = "none" /\ v \in todo
    /\ IF mode = "plt" \/ "RECOVERY" \in flags \/ v \in inited
         THEN AddFailed(v) /\ UNCHANGED retries
         ELSE /\ mutex' = "mac"
              /\ retries' = BootRetries
              /\ Goto("mac", IF state = "OFF" THEN "power" ELSE "addcmd")
              /\ UNCHANGED todo
    /\ UNCHANGED <<chip, flags, listed, ifaces, job, asked, irq, macside>>

\* the role commands: success puts the interface on the list
AddCommands(v) ==
    /\ pc["mac"] = "addcmd" /\ v \in todo \ inited
    /\ wlvif_list' = wlvif_list \cup {v} /\ inited' = inited \cup {v}
    /\ up' = up \cup {v}
    /\ mutex' = "none"
    /\ todo' = todo \ {v}
    /\ Goto("mac", IF todo' = {} THEN "idle" ELSE "add")
    /\ UNCHANGED <<chip, flags, listed, job, retries, asked, irq, macside>>

\* a command fails on the bus, which asks for a recovery, or is refused
AddCommandsFail(v, recover) ==
    /\ pc["mac"] = "addcmd" /\ v \in todo \ inited
    /\ IF recover
         THEN MayFail /\ QueueRecovery(0)
         ELSE "boot" \in Faults /\ UNCHANGED <<state, flags, depth, asked>>
    /\ AddFailed(v)
    /\ UNCHANGED <<mode, power, listed, ifaces, job, retries, irq, macside>>

-----------------------------------------------------------------------------
(* wl12xx_init_fw and the loop of wl1271_plt_start, under the mutex         *)

\* fault: the error of wl12xx_chip_wakeup is ignored
PowerOnUnchecked(ok) ==
    /\ pc["mac"] = "power" /\ retries > 0
    /\ retries' = retries - 1
    /\ power' = IF ok THEN "on" ELSE power
    /\ Goto("mac", "boot")
    /\ UNCHANGED <<state, mode, depth, flags, listed, ifaces, mutex, job, todo,
                   asked, irq, macside>>

\* wl12xx_chip_wakeup
PowerOn(ok) ==
    /\ pc["mac"] = "power" /\ retries > 0
    /\ retries' = retries - 1
    /\ IF ok THEN power' = "on" /\ Goto("mac", "boot")
       ELSE "boot" \in Faults /\ UNCHANGED <<power, pc>>
    /\ UNCHANGED <<state, mode, depth, flags, listed, ifaces, mutex, job, todo,
                   asked, irq, macside>>

\* wl1271_boot, up to and including enable_irq
Boot(ok) ==
    /\ pc["mac"] = "boot"
    /\ IF ok THEN /\ depth' = EnableIrq(depth) /\ Goto("mac", "enabled")
                  /\ UNCHANGED power
       ELSE /\ "boot" \in Faults
            /\ power' = "off" /\ Goto("mac", "power") /\ UNCHANGED depth
    /\ UNCHANGED <<state, mode, flags, listed, ifaces, mutex, rtnl, asked, irq,
                   macside>>

\* the rest of wl1271_boot; on an error disable_irq, which then waits for the
\* interrupt thread with the mutex held
BootEnabled(ok) ==
    /\ pc["mac"] = "enabled"
    /\ IF ok THEN Goto("mac", "hwinit") /\ UNCHANGED depth
       ELSE "late" \in Faults /\ depth' = depth + 1 /\ Goto("mac", "bootsync")
    /\ UNCHANGED <<state, mode, power, flags, listed, ifaces, mutex, rtnl, asked,
                   irq, macside>>

BootSync ==
    /\ pc["mac"] = "bootsync" /\ irq = "idle"
    /\ power' = "off"
    /\ Goto("mac", "power")
    /\ UNCHANGED <<state, mode, depth, flags, listed, ifaces, mutex, rtnl, asked,
                   irq, macside>>

\* wl1271_hw_init or wl1271_plt_init; on an error the mutex is dropped while
\* disable_irq waits
HwInit ==
    /\ pc["mac"] = "hwinit"
    /\ state' = "ON"
    /\ IF job = "plt"
         THEN mode' = "plt" /\ mutex' = "none" /\ Goto("mac", "idle")
         ELSE Goto("mac", "addcmd") /\ UNCHANGED <<mode, mutex>>
    /\ UNCHANGED <<depth, power, flags, listed, ifaces, rtnl, asked, irq, macside>>

HwInitFails ==
    /\ pc["mac"] = "hwinit" /\ "boot" \in Faults
    /\ mutex' = "none"
    /\ depth' = depth + 1
    /\ Goto("mac", "hwsync")
    /\ UNCHANGED <<state, mode, power, flags, listed, ifaces, rtnl, asked, irq,
                   macside>>

HwSync ==
    /\ pc["mac"] = "hwsync" /\ irq = "idle" /\ mutex = "none"
    /\ mutex' = "mac"
    /\ power' = "off"
    /\ Goto("mac", "power")
    /\ UNCHANGED <<state, mode, depth, flags, listed, ifaces, rtnl, asked, irq,
                   macside>>

\* "firmware boot failed despite %d retries"
BootGivenUp ==
    /\ pc["mac"] = "power" /\ retries = 0
    /\ IF job = "plt"
         THEN mutex' = "none" /\ Goto("mac", "idle") /\ UNCHANGED todo
         ELSE \E v \in todo \ inited : AddFailed(v)
    /\ UNCHANGED <<chip, flags, listed, ifaces, job, retries, asked, irq, macside>>

-----------------------------------------------------------------------------
(* mac80211 takes an interface down; with the last one it stops the device  *)

Close(v) ==
    /\ pc["mac"] = "idle" /\ local = {} /\ v \in up
    /\ up' = up \ {v} /\ todo' = {v} /\ job' = "other"
    /\ Goto("mac", "remove")
    /\ UNCHANGED <<chip, flags, listed, wlvif_list, inited, mutex, retries, asked,
                   irq, macside>>

\* wl1271_op_remove_interface.  Its commands may fail, but are sent only when
\* no recovery is in progress.
RemoveInterface(v, fails) ==
    /\ pc["mac"] = "remove" /\ mutex = "none" /\ v \in todo
    /\ IF state # "OFF" /\ v \in inited
         THEN inited' = inited \ {v} /\ wlvif_list' = wlvif_list \ {v}
         ELSE UNCHANGED <<inited, wlvif_list>>
    /\ IF fails
         THEN MayFail /\ v \in inited /\ "RECOVERY" \notin flags /\ QueueRecovery(0)
         ELSE UNCHANGED <<state, flags, depth, asked>>
    /\ todo' = {}
    /\ Goto("mac", IF up = {} THEN "flush" ELSE "idle")
    /\ UNCHANGED <<mode, power, listed, up, mutex, job, retries, irq, macside>>

\* ieee80211_stop_device waits for the workqueue before it calls op_stop
FlushWorkqueue ==
    /\ pc["mac"] = "flush" /\ work = "none" /\ pc["rec"] = "idle"
    /\ Goto("mac", "stop")
    /\ UNCHANGED <<chip, flags, listed, ifaces, mutex, rtnl, asked, irq, macside>>

-----------------------------------------------------------------------------
(* wl1271_op_stop_locked, called by op_stop and by recovery_work            *)

StopEntry(t) ==
    \/ t = "mac" /\ pc[t] = "stop" /\ mutex = "none"
    \/ t = "rec" /\ pc[t] = "remove" /\ wlvif_list = {}

\* recovery_work goes on with the mutex held, op_stop is done
StopReturn(t) ==
    /\ mutex' = IF t = "rec" THEN "rec" ELSE "none"
    /\ Goto(t, IF t = "rec" THEN "restart" ELSE "idle")

\* the state is OFF already
StopOff(t) ==
    /\ StopEntry(t) /\ state = "OFF"
    /\ flags' = flags \ {"RECOVERY"} /\ depth' = EndRecovery(depth)
    /\ listed' = "no"
    /\ StopReturn(t)
    /\ UNCHANGED <<state, mode, power, ifaces, rtnl, asked, irq, macside>>

StopOn(t) ==
    /\ StopEntry(t) /\ state # "OFF"
    /\ state' = "OFF"
    /\ depth' = depth + 1
    /\ mutex' = "none"
    /\ Goto(t, "stopdel")
    /\ UNCHANGED <<mode, power, flags, listed, ifaces, rtnl, asked, irq, macside>>

\* list_del(&wl->list)
StopDel(t) ==
    /\ pc[t] = "stopdel"
    /\ listed' = "no"
    /\ Goto(t, "stopsync")
    /\ UNCHANGED <<chip, flags, ifaces, mutex, rtnl, asked, irq, macside>>

\* synchronize_irq, then the test whether recovery_work may be cancelled
StopSync(t) ==
    /\ pc[t] = "stopsync" /\ irq = "idle"
    /\ Goto(t, IF "RECOVERY" \in flags THEN "stoplock" ELSE "stopcancel")
    /\ UNCHANGED <<chip, flags, listed, ifaces, mutex, rtnl, asked, irq, macside>>

\* cancel_work_sync(&wl->recovery_work) waits for a running one to end
StopCancel(t) ==
    /\ pc[t] = "stopcancel" /\ pc["rec"] = "idle"
    /\ work' = "none"
    /\ Goto(t, "stoplock")
    /\ UNCHANGED <<chip, flags, listed, ifaces, mutex, rtnl, odd, irq, macside>>

\* fault: the recovery's own disable_irq is not undone
StopLockUnbalanced(t) ==
    /\ pc[t] = "stoplock" /\ mutex = "none"
    /\ power' = "off"
    /\ flags' = {}
    /\ StopReturn(t)
    /\ UNCHANGED <<state, mode, depth, listed, ifaces, rtnl, asked, irq, macside>>

\* power off, balance the disable depth and clear wl->flags
StopLock(t) ==
    /\ pc[t] = "stoplock" /\ mutex = "none"
    /\ power' = "off"
    /\ depth' = EndRecovery(depth)
    /\ flags' = {}
    /\ StopReturn(t)
    /\ UNCHANGED <<state, mode, listed, ifaces, rtnl, asked, irq, macside>>

-----------------------------------------------------------------------------
(* wl1271_recovery_work                                                     *)

RecStart ==
    /\ work = "pending" /\ pc["rec"] = "idle"
    /\ work' = "none"
    /\ Goto("rec", "lock")
    /\ UNCHANGED <<chip, flags, listed, ifaces, mutex, rtnl, odd, irq, macside>>

\* nothing to recover in the OFF state, and PLT mode is left alone
RecSkip ==
    /\ depth' = EndRecovery(depth) /\ flags' = flags \ {"RECOVERY"}
    /\ Goto("rec", "idle")
    /\ UNCHANGED <<state, mode, power, mutex>>

RecLock ==
    /\ pc["rec"] \in {"lock", "relock"} /\ mutex = "none"
    /\ IF pc["rec"] = "lock" /\ (state = "OFF" \/ mode = "plt")
         THEN RecSkip
         ELSE mutex' = "rec" /\ Goto("rec", "remove") /\ UNCHANGED <<chip, flags>>
    /\ UNCHANGED <<listed, ifaces, rtnl, asked, irq, macside>>

\* __wl1271_op_remove_interface drops the mutex at its end; in the OFF state it
\* does nothing, and the loop over the list goes on
RecRemove(v) ==
    /\ pc["rec"] = "remove" /\ v \in wlvif_list
    /\ inited' = inited \ {v}
    /\ IF state # "OFF" /\ v \in inited
         THEN /\ wlvif_list' = wlvif_list \ {v}
              /\ mutex' = "none"
              /\ Goto("rec", "relock")
         ELSE UNCHANGED <<wlvif_list, mutex, pc>>
    /\ UNCHANGED <<chip, flags, listed, up, rtnl, asked, irq, macside>>

\* fault: mac80211 is not told
RecDoneSilent ==
    /\ pc["rec"] = "restart"
    /\ depth' = EndRecovery(depth) /\ flags' = flags \ {"RECOVERY"}
    /\ mutex' = "none"
    /\ Goto("rec", "idle")
    /\ UNCHANGED <<state, mode, power, listed, ifaces, rtnl, asked, irq, macside>>

\* ieee80211_restart_hw and the end
RecDone ==
    /\ pc["rec"] = "restart"
    /\ restart' = IF restart \in {"flushed", "both"} THEN "both" ELSE "pending"
    /\ depth' = EndRecovery(depth) /\ flags' = flags \ {"RECOVERY"}
    /\ mutex' = "none"
    /\ Goto("rec", "idle")
    /\ UNCHANGED <<state, mode, power, listed, ifaces, rtnl, asked, irq, local>>

-----------------------------------------------------------------------------
(* ieee80211_restart_work and __ieee80211_resume, both by reconfig          *)

\* the part of ieee80211_reconfig before the first call that may wait, from
\* mac80211's state l
Reconfig(l) ==
    IF "wowlan" \in l
      THEN /\ local' = l \ {"wowlan"}
           /\ Goto("mac", "resume")
           /\ UNCHANGED <<listed, todo>>
      ELSE /\ local' = l \ {"suspended"}
           /\ IF up = {} THEN UNCHANGED <<listed, todo, pc>>
              ELSE /\ listed' = "yes"
                   /\ todo' = up
                   /\ Goto("mac", "add")

RestartFlush ==
    /\ restart = "pending" /\ work = "none" /\ pc["rec"] = "idle"
    /\ job # "restart" \/ pc["mac"] = "idle"
    /\ restart' = "flushed"
    /\ UNCHANGED <<chip, flags, listed, ifaces, mutex, pc, rtnl, asked, irq, local>>

Restart ==
    /\ restart \in {"flushed", "both"} /\ pc["mac"] = "idle"
    /\ restart' = IF restart = "both" THEN "pending" ELSE "none"
    /\ job' = "restart"
    /\ Reconfig(local)
    /\ UNCHANGED <<chip, flags, ifaces, mutex, retries, asked, irq>>

\* the system wakes up
Wake ==
    /\ "asleep" \in local /\ pc["mac"] = "idle"
    /\ job' = "other"
    /\ Reconfig(local \ {"asleep"})
    /\ UNCHANGED <<chip, flags, ifaces, mutex, retries, asked, irq, restart>>

-----------------------------------------------------------------------------
(* wl1271_op_suspend and wl1271_op_resume                                   *)

\* __ieee80211_suspend waits for the workqueue; a recovery puts the suspend off
Suspend ==
    /\ pc["mac"] = "idle" /\ local = {} /\ up # {}
    /\ work = "none" /\ pc["rec"] = "idle"
    /\ "RECOVERY" \notin flags
    /\ job' = "other"
    /\ Goto("mac", "suspend")
    /\ UNCHANGED <<chip, flags, listed, ifaces, mutex, todo, retries, asked, irq,
                   macside>>

\* wl1271_configure_suspend for every interface, then disable_irq
SuspendConfigure ==
    /\ pc["mac"] = "suspend" /\ mutex = "none"
    /\ depth' = depth + 1
    /\ Goto("mac", "suspendsync")
    /\ UNCHANGED <<state, mode, power, flags, listed, ifaces, mutex, rtnl, asked,
                   irq, macside>>

SuspendFails(recover) ==
    /\ pc["mac"] = "suspend" /\ mutex = "none"
    /\ IF recover
         THEN MayFail /\ QueueRecovery(0)
         ELSE "boot" \in Faults /\ UNCHANGED <<state, flags, depth, asked>>
    /\ Goto("mac", "idle")
    /\ UNCHANGED <<mode, power, listed, ifaces, mutex, rtnl, irq, macside>>

\* the interrupt thread is out: set SUSPENDED and enable_irq again
SuspendSync ==
    /\ pc["mac"] = "suspendsync" /\ irq = "idle"
    /\ flags' = flags \cup {"SUSPENDED"}
    /\ depth' = EnableIrq(depth)
    /\ Goto("mac", "suspended")
    /\ UNCHANGED <<state, mode, power, listed, ifaces, mutex, rtnl, asked, irq,
                   macside>>

\* mac80211 notes that it is suspended, and the system falls asleep
Suspended ==
    /\ pc["mac"] = "suspended"
    /\ local' = {"suspended", "wowlan", "asleep"}
    /\ Goto("mac", "idle")
    /\ UNCHANGED <<chip, flags, listed, ifaces, mutex, rtnl, asked, irq, restart>>

\* op_resume: under the spinlock, take over an interrupt that was kept
Resume ==
    /\ pc["mac"] = "resume"
    /\ flags' = flags \ {"SUSPENDED", "PENDING"}
    /\ Goto("mac", IF "PENDING" \in flags THEN "resumeirq" ELSE "resumelock")
    /\ UNCHANGED <<chip, listed, ifaces, mutex, rtnl, asked, irq, macside>>

ResumeDone ==
    /\ local' = local \ {"suspended"}
    /\ Goto("mac", "idle")
    /\ UNCHANGED <<mode, power, listed, ifaces, mutex, rtnl, irq, restart>>

\* fault: the recovery that was refused while suspended is not queued
ResumeForgetful ==
    /\ pc["mac"] \in {"resumeirq", "resumelock"} /\ mutex = "none"
    /\ depth' = IF pc["mac"] = "resumeirq" THEN EnableIrq(depth) ELSE depth
    /\ ResumeDone
    /\ UNCHANGED <<state, flags, asked>>

\* handle it, enable_irq, and queue a recovery that was refused meanwhile
ResumeLock ==
    /\ pc["mac"] \in {"resumeirq", "resumelock"} /\ mutex = "none"
    /\ depth' = IF pc["mac"] = "resumeirq" THEN EnableIrq(depth) ELSE depth
    /\ work' = IF "RECOVERY" \in flags THEN "pending" ELSE work
    /\ odd' = odd \cup IF "RECOVERY" \in flags /\ pc["rec"] # "idle"
                       THEN {"again"} ELSE {}
    /\ ResumeDone
    /\ UNCHANGED <<state, flags>>

\* wl12xx_irq_locked, called by op_resume itself, fails
ResumeIrqFails ==
    /\ pc["mac"] = "resumeirq" /\ mutex = "none"
    /\ MayFail /\ "RECOVERY" \notin flags
    /\ QueueRecovery(-1)
    /\ ResumeDone

-----------------------------------------------------------------------------
(* wl1271_plt_start and wl1271_plt_stop                                     *)

\* PLT mode is meant for a device no interface uses, but asks for no more than
\* the OFF state
PltStart ==
    /\ pc["mac"] = "idle" /\ local = {} /\ mutex = "none" /\ "plt" \in Faults
    /\ state = "OFF" /\ DepthBound
    /\ odd' = odd \cup IF up # {} \/ "RECOVERY" \in flags THEN {"plt"} ELSE {}
    /\ job' = "plt" /\ retries' = BootRetries
    /\ mutex' = "mac"
    /\ Goto("mac", "power")
    /\ UNCHANGED <<chip, flags, listed, ifaces, todo, work, irq, macside>>

\* disable_irq comes before the mutex is taken
PltStop ==
    /\ pc["mac"] = "idle" /\ local = {} /\ DepthBound
    /\ depth' = depth + 1 /\ job' = "other"
    /\ Goto("mac", "pltsync")
    /\ UNCHANGED <<state, mode, power, flags, listed, ifaces, mutex, todo,
                   retries, asked, irq, macside>>

PltNotOn ==
    /\ pc["mac"] = "pltsync" /\ irq = "idle" /\ mutex = "none" /\ mode # "plt"
    /\ depth' = EnableIrq(depth)
    /\ Goto("mac", "idle")
    /\ UNCHANGED <<state, mode, power, flags, listed, ifaces, mutex, rtnl, asked,
                   irq, macside>>

\* the recovery_work is cancelled, which waits for a running one
PltCancel ==
    /\ pc["mac"] = "pltsync" /\ irq = "idle" /\ mutex = "none" /\ mode = "plt"
    /\ pc["rec"] = "idle"
    /\ work' = "none"
    /\ Goto("mac", "pltoff")
    /\ UNCHANGED <<chip, flags, listed, ifaces, mutex, rtnl, odd, irq, macside>>

PltOff ==
    /\ pc["mac"] = "pltoff" /\ mutex = "none"
    /\ power' = "off" /\ state' = "OFF" /\ mode' = "normal" /\ flags' = {}
    /\ Goto("mac", "idle")
    /\ UNCHANGED <<depth, listed, ifaces, mutex, rtnl, asked, irq, macside>>

-----------------------------------------------------------------------------
OpenClose ==
    \E v \in Vifs :
        \/ Open(v) \/ AddInterface(v) \/ AddCommands(v) \/ Close(v)
        \/ \E b \in BOOLEAN : AddCommandsFail(v, b) \/ RemoveInterface(v, b)

BootLoop ==
    \/ \E ok \in BOOLEAN : PowerOn(ok) \/ Boot(ok) \/ BootEnabled(ok)
    \/ BootSync \/ HwInit \/ HwInitFails \/ HwSync \/ BootGivenUp

StopLocked(t) ==
    \/ StopOff(t) \/ StopOn(t) \/ StopDel(t) \/ StopSync(t) \/ StopCancel(t)
    \/ StopLock(t)

Recovery ==
    RecStart \/ RecLock \/ (\E v \in Vifs : RecRemove(v)) \/ RecDone

SuspendResume ==
    \/ Suspend \/ SuspendConfigure \/ SuspendSync \/ Suspended
    \/ \E b \in BOOLEAN : SuspendFails(b)
    \/ Wake \/ Resume \/ ResumeLock \/ ResumeIrqFails

Plt == PltStart \/ PltStop \/ PltNotOn \/ PltCancel \/ PltOff

Next ==
    \/ RequestRecovery \/ HardIrq \/ \E fails \in BOOLEAN : IrqThread(fails)
    \/ OpenClose \/ BootLoop \/ FlushWorkqueue
    \/ \E t \in Threads : StopLocked(t)
    \/ Recovery \/ RestartFlush \/ Restart \/ SuspendResume \/ Plt

Spec == Init /\ [][Next]_vars

\* what a thread that has begun something does next
MacStep ==
    pc["mac"] # "idle" /\ (OpenClose \/ BootLoop \/ FlushWorkqueue
                          \/ StopLocked("mac") \/ SuspendResume \/ Plt)

RecStep == StopLocked("rec") \/ Recovery

\* Threads and works run, and whoever waits for the RTNL gets it.  Nothing is
\* assumed of users, of the firmware, or of how long the system sleeps.
HostFairness ==
    /\ WF_vars(MacStep) /\ WF_vars(RecStep)
    /\ WF_vars(\E fails \in BOOLEAN : IrqThread(fails))
    /\ SF_vars(RestartFlush) /\ SF_vars(Restart)

FairSpec == Spec /\ HostFairness

-----------------------------------------------------------------------------
Steps == {"idle", "add", "power", "boot", "enabled", "bootsync", "hwinit",
          "hwsync", "addcmd", "remove", "flush", "stop", "stopdel", "stopsync",
          "stopcancel", "stoplock", "suspend", "suspendsync", "suspended",
          "resume", "resumeirq", "resumelock", "pltsync", "pltoff", "lock",
          "relock", "restart"}

MacHolds == {"power", "boot", "enabled", "bootsync", "hwinit", "addcmd"}
RecHolds == {"remove", "restart"}

\* who holds wl->mutex: the thread that is in a step that the code makes with
\* the mutex held
Holders ==
    /\ pc \in [Threads -> Steps]
    /\ mutex = "mac" <=> pc["mac"] \in MacHolds
    /\ mutex = "rec" <=> pc["rec"] \in RecHolds

(* Types, and who holds the mutex.                                           *)
TypeOK ==
    /\ state \in {"OFF", "RESTARTING", "ON"} /\ mode \in {"normal", "plt"}
    /\ flags \subseteq {"RECOVERY", "SUSPENDED", "PENDING"} /\ depth \in Nat
    /\ power \in {"on", "off"} /\ listed \in {"yes", "no"}
    /\ wlvif_list \subseteq Vifs /\ inited \subseteq Vifs /\ up \subseteq Vifs
    /\ Holders /\ todo \subseteq Vifs
    /\ job \in {"open", "restart", "plt", "other"} /\ retries \in 0 .. BootRetries
    /\ work \in {"none", "pending"} /\ odd \subseteq OddKinds
    /\ irq \in {"idle", "lock"} /\ restart \in {"none", "pending", "flushed", "both"}
    /\ local \subseteq {"suspended", "wowlan", "asleep"}
    /\ mutex \in {"none", "mac", "rec"}

One(b) == IF b THEN 1 ELSE 0

\* is the interrupt enabled but for passing reasons: the chip runs, or is being
\* booted past enable_irq
IrqWanted == state # "OFF" \/ pc["mac"] \in {"enabled", "hwinit"}

\* is every disable_irq balanced?
Balanced ==
    depth = One(~IrqWanted) + One("RECOVERY" \in flags)
            + One("PENDING" \in flags \/ pc["mac"] = "resumeirq")
            + One(pc["mac"] \in {"suspendsync", "pltsync", "pltoff"})

\* Every disable_irq is balanced: the depth is one for a chip that is off, one
\* for a recovery in progress, one for an interrupt kept for the resume and one
\* while suspend or plt_stop wait for the interrupt thread.  An extra one would
\* leave the next firmware deaf.  Two races spoil it and are excepted: PLT mode
\* that meets a recovery, and a recovery requested around a suspend.
DepthExact == odd \cap {"plt", "doze"} = {} => Balanced

\* "... it is safe to re-enable interrupts to balance the disable depth"
\* (main.c:2801-2804): op_stop_locked leaves the depth balanced also when the
\* recovery was requested around a suspend.  The code does not: wl->flags = 0
\* forgets an interrupt that was kept for the resume.
StopBalances == "plt" \notin odd => Balanced

\* does the chip have power whenever the driver thinks it runs, and whenever it
\* may interrupt?
Powered == (state # "OFF" \/ depth = 0) => power = "on"

\* The chip has power whenever the driver thinks it runs, and is never left
\* enabled to interrupt without power, in the windows that op_stop_locked and
\* init_fw open by dropping the mutex.  Excepted are the races that let op_stop
\* or a second recovery_work into the window of a recovery: a recovery requested
\* when op_stop comes next, one that op_resume queues a second time, and PLT
\* mode that meets a recovery.
PoweredWhenOn == odd \subseteq {"doze"} => Powered

\* "... so that wl1271_op_add_interface does not accidentally get executed before
\* all these vars have been reset" (main.c:2831-2835): add_interface does not go
\* on while recovery_work is in op_stop_locked.  The code does not keep this once
\* an op_stop that follows a failed add_interface has cleared the recovery flag.
AddAfterReset ==
    pc["rec"] \in {"stopdel", "stopsync", "stopcancel", "stoplock"} =>
        pc["mac"] \notin MacHolds \cup {"hwsync"}

\* The driver has interfaces only on a running chip, and exactly those that are
\* initialised; recovery_work's loop over them (main.c:1801) can then not meet
\* one it will not remove.
VifsNeedChip == inited = wlvif_list /\ (state = "OFF" => wlvif_list = {})

\* No recovery is forgotten: while one is in progress its work is queued or
\* runs, or mac80211 refused it and the resume will queue it.  (PLT mode that
\* meets a recovery is excepted: plt_stop cancels the work.)
RecoveryOwned ==
    "RECOVERY" \in flags \/ state = "RESTARTING" =>
        work = "pending" \/ pc["rec"] # "idle" \/ "suspended" \in local

\* recovery_work does not wait for itself in cancel_work_sync (main.c:2786),
\* which it would if somebody else cleared the recovery flag.
NoSelfCancel == pc["rec"] # "stopcancel"

\* "Use the nosync variant to disable interrupts, so the mutex could be held
\* while doing so without deadlocking" (main.c:2773-2776): nobody waits for the
\* interrupt thread with the mutex that the thread waits for.  The error path of
\* wl1271_boot does (boot.c:947).
NoSyncUnderMutex == ~(mutex # "none" /\ pc[mutex] = "bootsync" /\ irq = "lock")

\* A recovery ends: nothing it waits for (the mutex, the interrupt thread, the
\* interfaces' removal) waits for it.  Only a system that sleeps puts it off.
\* Excepted are the races after which recovery_work waits for itself: a recovery
\* requested when op_stop comes next, or queued a second time by op_resume.
RecoveryCompletes ==
    "RECOVERY" \in flags ~> \/ "RECOVERY" \notin flags \/ "asleep" \in local
                           \/ odd \cap {"stop", "again"} # {}

\* After the last recovery every interface that mac80211 counts as up is back on
\* the chip, whichever of restart_work, resume and close came first, with the
\* exceptions of RecoveryCompletes.
InterfacesRestored ==
    <>[]("RECOVERY" \notin flags /\ local = {} /\ odd \cap {"stop", "again"} = {}) =>
        \A v \in Vifs : v \in up ~> v \in wlvif_list \/ v \notin up

-----------------------------------------------------------------------------
(* Why the invariants hold: the parts of an inductive invariant, as long as  *)
(* none of the races has happened.                                           *)

BootSteps == {"power", "boot", "enabled", "bootsync", "hwinit", "hwsync"}
StopSteps == {"stopdel", "stopsync", "stopcancel", "stoplock"}
ResumeSteps == {"resume", "resumeirq", "resumelock"}
MacSteps == BootSteps \cup StopSteps \cup ResumeSteps
            \cup {"idle", "add", "addcmd", "remove", "flush", "stop", "suspend",
                  "suspendsync", "suspended", "pltsync", "pltoff"}
RecSteps == StopSteps \cup {"idle", "lock", "relock", "remove", "restart"}

Busy == work = "pending" \/ pc["rec"] # "idle"

\* a boot begins and goes on in the OFF state, away from any recovery
BootAlone ==
    pc["mac"] \in BootSteps =>
        /\ state = "OFF" /\ "RECOVERY" \notin flags
        /\ pc["mac"] # "power" => power = "on"

\* nobody boots the chip that op_stop_locked is switching off
StopIsOff ==
    pc["mac"] \in StopSteps \/ pc["rec"] \in StopSteps \cup {"restart"} =>
        state = "OFF"

\* recovery_work runs for one recovery at a time, and only for one
OneRecovery ==
    /\ work = "pending" => pc["rec"] = "idle" /\ "RECOVERY" \in flags
    /\ pc["rec"] \notin {"idle", "restart"} => "RECOVERY" \in flags
    /\ state = "ON" => "RECOVERY" \notin flags
    /\ state = "RESTARTING" => "RECOVERY" \in flags

\* without an interface there is nothing to recover
QuietWhenDown ==
    /\ up = {} /\ pc["mac"] \notin {"remove", "flush"} =>
           ~Busy /\ "RECOVERY" \notin flags
    /\ up = {} /\ pc["mac"] \notin {"remove", "flush", "stop", "addcmd"} =>
           state = "OFF" \/ mode = "plt"
    /\ pc["mac"] \in {"flush", "stop"} \cup StopSteps => up = {}

\* what the RTNL is held for
JobsApart ==
    /\ pc["mac"] \in {"add", "addcmd"} => job # "plt"
    /\ pc["mac"] \in {"add", "addcmd"} \cup BootSteps =>
           /\ job = "plt" => up = {}
           /\ job \notin {"open", "plt"} => up # {}
    /\ pc["mac"] = "addcmd" => state = "ON"
    /\ pc["mac"] = "remove" => \A v, w \in todo : v = w
    /\ mode = "plt" => /\ up = {} /\ state = "ON"
                       /\ pc["mac"] \in {"idle", "pltsync", "pltoff"}
    /\ pc["mac"] = "pltoff" => mode = "plt"

\* an interrupt is kept only for a sleeping device with nothing to recover
SleepsAlone ==
    /\ "suspended" \in local =>
           pc["mac"] \in ResumeSteps \/ (pc["mac"] = "idle" /\ "wowlan" \in local)
    /\ "wowlan" \in local => pc["mac"] = "idle" /\ "suspended" \in local
    /\ local # {} \/ pc["mac"] \in ResumeSteps
                     \cup {"suspend", "suspendsync", "suspended"} => up # {}
    /\ "SUSPENDED" \in flags =>
           pc["mac"] \in {"suspended", "resume"} \/ "wowlan" \in local
    /\ "PENDING" \in flags => "SUSPENDED" \in flags /\ ~Busy

\* the driver has no interface that mac80211 does not know to be up, or is
\* taking down
VifsAreUp ==
    wlvif_list \subseteq up \cup (IF pc["mac"] = "remove" THEN todo ELSE {})

(* The inductive invariant: the invariants above and what they rest on.      *)
IInv ==
    /\ TypeOK /\ pc["mac"] \in MacSteps /\ pc["rec"] \in RecSteps
    /\ Balanced /\ Powered /\ VifsNeedChip /\ RecoveryOwned
    /\ NoSelfCancel
    /\ BootAlone /\ StopIsOff /\ OneRecovery /\ QuietWhenDown /\ JobsApart
    /\ SleepsAlone /\ VifsAreUp

(* Why VifsNeedChip holds whatever races there are: the chip is off while it *)
(* boots and runs while the role commands are sent, and the RTNL holder, who *)
(* alone boots it, stops it only when mac80211 has no interface left.        *)
VifInv ==
    /\ VifsNeedChip /\ VifsAreUp
    /\ pc["mac"] \in BootSteps => state = "OFF"
    /\ pc["mac"] = "addcmd" => state # "OFF"
    /\ pc["mac"] \in {"flush", "stop"} \cup StopSteps => up = {}
    /\ pc["mac"] = "remove" => \A v, w \in todo : v = w
    /\ mode = "plt" => wlvif_list = {}
    /\ pc["mac"] = "pltoff" => mode = "plt"
    /\ pc["mac"] \in {"add", "addcmd"} => job # "plt"
    /\ pc["mac"] = "addcmd" \/ (pc["mac"] \in BootSteps /\ job # "plt") =>
           mode # "plt"
=============================================================================
