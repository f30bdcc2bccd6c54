-------------------------------- MODULE Scan --------------------------------
(***************************************************************************)
(* One-shot scans: the driver's scan state machine (scan.c), the timeout   *)
(* and completion work scan_complete_work, op_hw_scan and                  *)
(* op_cancel_hw_scan (main.c), and the side of mac80211 that asks for a    *)
(* scan band by band and waits for ieee80211_scan_completed().             *)
(*                                                                         *)
(* Three threads matter: mac80211's ordered workqueue, which runs the      *)
(* driver's scan_complete_work and recovery_work and mac80211's scan_work  *)
(* one at a time and in order; the holder of the rtnl lock, which asks for *)
(* scans, brings interfaces up and down and restarts the hardware; and the *)
(* interrupt thread.  A section under wl->mutex is one step.  A section    *)
(* under local->mtx is one step too, except that op_cancel_hw_scan waits   *)
(* for scan_complete_work while it is held (MtxHeld).                      *)
(*                                                                         *)
(* wl->scan.req is set and cleared with wl->scan_vif; it points to         *)
(* mac80211's hw_scan_req, whose channels are hw_req here.                 *)
(***************************************************************************)
EXTENDS Naturals, Sequences, FiniteSets

CONSTANTS
    Vifs,            \* the interfaces
    NoVif,           \* NULL
    Channels,        \* the channels registered with cfg80211
    Band,            \* Channels -> {"2GHZ", "5GHZ"}
    PassiveOnly,     \* channels with IEEE80211_CHAN_PASSIVE_SCAN
    Disabled,        \* channels with IEEE80211_CHAN_DISABLED
    Requests,        \* what user space asks for: [chans, ssids]
    MaxChannels      \* WL1271_SCAN_MAX_CHANNELS

ASSUME ScanAssumption ==
    /\ NoVif \notin Vifs
    /\ Band \in [Channels -> {"2GHZ", "5GHZ"}]
    /\ PassiveOnly \subseteq Channels
    /\ Disabled \subseteq Channels
    /\ Requests \subseteq [chans : (SUBSET Channels) \ {{}},
                           ssids : {"none", "some"}]
    /\ MaxChannels \in Nat \ {0}

VARIABLES
    state,           \* wl->state
    inited,          \* interfaces with WLVIF_FLAG_INITIALIZED
    scan_state,      \* wl->scan.state
    scan_vif,        \* wl->scan_vif
    scan_failed,     \* wl->scan.failed: "yes" or "no"
    scanned_ch,      \* wl->scan.scanned_ch
    timer,           \* the timer of scan_complete_work: "off" or "armed"
    wq,              \* the ordered workqueue
    cur,             \* the work its worker is executing
    fw,              \* the firmware: "idle" or "scanning"
    event,           \* SCAN_COMPLETE_EVENT_ID in the mailbox: "none", "posted"
    scanning,        \* local->scanning
    scan_sdata,      \* local->scan_sdata, set and cleared with scan_req
    hw_req,          \* channels of local->hw_scan_req
    todo,            \* channels of the bands from local->hw_scan_band on
    ssids,           \* whether the request names networks
    up,              \* interfaces that are running
    rtnl,            \* where the holder of the rtnl lock is
    rvif,            \* the interface it is taking down
    restart          \* local->restart_work: pending, and how far it is

\* history, which only the properties read
VARIABLE odd         \* "lost": scan_complete_work forgot a scan and then failed
                     \* to wake the chip;
                     \* "unstopped": the scan lost its timeout to a cancel
                     \* that had no memory for the stop command;
                     \* "timer": remove_interface ended a scan, whose
                     \* scan_complete_work is still there

scanVars == <<scan_state, scan_vif, scan_failed, scanned_ch>>
workVars == <<timer, wq, cur>>
fwVars   == <<fw, event>>
reqVars  == <<scan_sdata, hw_req, todo, ssids>>
rtnlVars == <<up, rtnl, rvif, restart>>
vars == <<state, inited, scanVars, workVars, fwVars, scanning, reqVars,
          rtnlVars, odd>>

ScanStates == {"IDLE", "2GHZ_ACTIVE", "2GHZ_PASSIVE", "5GHZ_ACTIVE",
               "5GHZ_PASSIVE", "DONE"}
Works == {"complete", "scan", "recovery", "r_flush", "s_flush"}

(***************************************************************************)
(* The type invariant; wl->scan_vif and wl->scan.req are NULL exactly when *)
(* no scan is going on.                                                    *)
(***************************************************************************)
TypeOK ==
    /\ state \in {"ON", "RESTARTING", "OFF"}
    /\ inited \subseteq Vifs
    /\ scan_state \in ScanStates
    /\ scan_vif \in IF scan_state = "IDLE" THEN {NoVif} ELSE Vifs
    /\ scan_failed \in {"yes", "no"}
    /\ scanned_ch \subseteq Channels
    /\ timer \in {"off", "armed"}
    /\ wq \in Seq(Works)
    /\ cur \in {"none", "complete", "scan", "recovery", "recovery_stop"}
    /\ fw \in {"idle", "scanning"}
    /\ event \in {"none", "posted"}
    /\ scanning \subseteq {"HW_SCANNING", "COMPLETED", "ABORTED"}
    /\ scan_sdata \in Vifs \cup {NoVif}
    /\ hw_req \subseteq Channels
    /\ todo \subseteq Channels
    /\ ssids \in {"none", "some"}
    /\ up \subseteq Vifs
    /\ rtnl \in {"idle", "sync", "remove", "flush", "stop", "stop_sync",
                 "c_sync", "r_sync", "reconfig"}
    /\ rvif \in Vifs \cup {NoVif}
    /\ restart \subseteq {"pending", "flush", "flushed"}
    /\ odd \subseteq {"lost", "unstopped", "timer"}

Init ==
    /\ state = "OFF" /\ inited = {}
    /\ scan_state = "IDLE" /\ scan_vif = NoVif
    /\ scan_failed = "no" /\ scanned_ch = {}
    /\ timer = "off" /\ wq = <<>> /\ cur = "none"
    /\ fw = "idle" /\ event = "none"
    /\ scanning = {} /\ scan_sdata = NoVif
    /\ hw_req = {} /\ todo = {} /\ ssids = "none"
    /\ up = {} /\ rtnl = "idle" /\ rvif = NoVif /\ restart = {}
    /\ odd = {}

-----------------------------------------------------------------------------
(***************************************************************************)
(* Works.  queue_work of a work that is already queued does nothing.       *)
(***************************************************************************)
Holds(q, w) == \E i \in DOMAIN q : q[i] = w
Queued(w) == Holds(wq, w)
Enqueue(q, w) == IF Holds(q, w) THEN q ELSE Append(q, w)
Dequeue(q, w) == SelectSeq(q, LAMBDA x : x # w)

(***************************************************************************)
(* cancel_delayed_work followed by queueing without delay.  Whether a work *)
(* that is already on the queue is taken off it depends on the kernel      *)
(* release.                                                                *)
(***************************************************************************)
RequeueNow(q) == {Enqueue(q, "complete"),
                  Append(Dequeue(q, "complete"), "complete")}

CompletePending == timer = "armed" \/ Queued("complete")

\* fault: the state changes but the work is not queued.
WithoutRecovery(q) == q

\* wl12xx_queue_recovery_work: the queue after it.
WithRecovery(q) == IF state = "ON" THEN Enqueue(q, "recovery") ELSE q
RestartingState == IF state = "ON" THEN "RESTARTING" ELSE state

\* ieee80211_scan_completed
CompletedFlags(aborted) == scanning \cup {"COMPLETED"} \cup aborted

\* The driver forgets the scan.
IdleScan ==
    /\ scan_state' = "IDLE"
    /\ scan_vif' = NoVif
    /\ scanned_ch' = {}
    /\ UNCHANGED scan_failed

-----------------------------------------------------------------------------
(***************************************************************************)
(* The scan state machine, wl1271_scan_stm.  Without 11a no 5 GHz channel  *)
(* is registered, and the 5 GHz phases have nothing to scan.               *)
(***************************************************************************)
ScanPhases == ScanStates \ {"IDLE"}

Rank(p) == CASE p = "2GHZ_ACTIVE"  -> 1
             [] p = "2GHZ_PASSIVE" -> 2
             [] p = "5GHZ_ACTIVE"  -> 3
             [] p = "5GHZ_PASSIVE" -> 4
             [] p = "DONE"         -> 5

BandOf(p)    == IF p \in {"2GHZ_ACTIVE", "2GHZ_PASSIVE"} THEN "2GHZ" ELSE "5GHZ"
IsPassive(p) == p \in {"2GHZ_PASSIVE", "5GHZ_PASSIVE"}

\* fault: a passive phase leaves out the channels that allow probing.
LeftInPhaseStrict(p, req, names, scanned) ==
    {c \in req \ (scanned \cup Disabled) :
        /\ p # "DONE"
        /\ Band[c] = BandOf(p)
        /\ IF IsPassive(p) THEN c \in PassiveOnly
                           ELSE names = "some" /\ c \notin PassiveOnly}

(***************************************************************************)
(* The channels a phase still has to scan: wl1271_get_scan_channels, and   *)
(* wl1271_scan_send's test for SSIDs.  A passive phase takes every channel *)
(* that is left.                                                           *)
(***************************************************************************)
LeftInPhase(p, req, names, scanned) ==
    {c \in req \ (scanned \cup Disabled) :
        /\ p # "DONE"
        /\ Band[c] = BandOf(p)
        /\ IsPassive(p) \/ (names = "some" /\ c \notin PassiveOnly)}

(***************************************************************************)
(* The recursion of wl1271_scan_stm from phase p comes to phase next: the  *)
(* phases before it have nothing left (WL1271_NOTHING_TO_SCAN).            *)
(***************************************************************************)
Reaches(p, next, req, names, scanned) ==
    /\ Rank(p) <= Rank(next)
    /\ \A q \in ScanPhases : Rank(p) <= Rank(q) /\ Rank(q) < Rank(next)
            => LeftInPhase(q, req, names, scanned) = {}

\* What fits into one CMD_SCAN.
Batches(S) == {b \in SUBSET S :
                  Cardinality(b) = IF Cardinality(S) <= MaxChannels
                                   THEN Cardinality(S) ELSE MaxChannels}

\* A batch is marked in scanned_ch and handed to the firmware.
StmSend(p, req, names, scanned, q, t) ==
    /\ \E next \in ScanPhases \ {"DONE"} :
          /\ Reaches(p, next, req, names, scanned)
          /\ LeftInPhase(next, req, names, scanned) # {}
          /\ scan_state' = next
          /\ \E b \in Batches(LeftInPhase(next, req, names, scanned)) :
                scanned_ch' = scanned \cup b
    /\ \/ /\ state = "ON"
          /\ fw' = "scanning"
          /\ timer' = t /\ wq' = q
          /\ UNCHANGED state
       \/ \* the command fails, always so in state RESTARTING
          /\ state' = RestartingState
          /\ timer' = "off"
          /\ wq' \in RequeueNow(WithRecovery(q))
          /\ UNCHANGED fw

\* No memory for the command or for the probe request.
StmNoMemory(p, req, names, scanned, q) ==
    /\ \E next \in ScanPhases \ {"DONE"} :
          /\ Reaches(p, next, req, names, scanned)
          /\ scan_state' = next
          /\ \E b \in Batches(LeftInPhase(next, req, names, scanned)) :
                scanned_ch' \in {scanned, scanned \cup b}
    /\ timer' = "off"
    /\ wq' \in RequeueNow(q)
    /\ UNCHANGED <<state, fw>>

StmDone(p, req, names, scanned, q) ==
    /\ Reaches(p, "DONE", req, names, scanned)
    /\ scan_state' = "DONE"
    /\ scanned_ch' = scanned
    /\ timer' = "off"
    /\ wq' \in RequeueNow(q)
    /\ UNCHANGED <<state, fw>>

\* wl1271_scan_stm, called with wl->scan.failed = failed.
ScanStm(p, req, names, scanned, failed, q, t) ==
    \/ /\ \/ StmSend(p, req, names, scanned, q, t)
          \/ StmNoMemory(p, req, names, scanned, q)
       /\ scan_failed' = failed
    \/ /\ StmDone(p, req, names, scanned, q)
       /\ scan_failed' = "no"

-----------------------------------------------------------------------------

(***************************************************************************)
(* op_hw_scan and wl1271_scan, called by mac80211 under local->mtx.        *)
(***************************************************************************)
HwScanAccepted(v, req, names) ==
    /\ v \in inited
    /\ scan_state = "IDLE"
    /\ scan_vif' = v
    /\ ScanStm("2GHZ_ACTIVE", req, names, {}, "yes", wq,
               IF CompletePending THEN timer ELSE "armed")
    /\ UNCHANGED <<inited, event>>

(***************************************************************************)
(* The interface is not initialised, or the chip does not wake up, or a    *)
(* role is in ROC (roc_map is not modelled: it may be so at any time), or  *)
(* a scan is going on.                                                     *)
(***************************************************************************)
HwScanRefused ==
    /\ \/ UNCHANGED <<state, wq>>
       \/ state' = RestartingState /\ wq' = WithRecovery(wq)
    /\ UNCHANGED <<inited, scanVars, timer, fwVars>>

(***************************************************************************)
(* mac80211's side.  A request is handed to the driver one band at a time: *)
(* ieee80211_prep_hw_scan.                                                 *)
(***************************************************************************)
FirstBand(chans) ==
    LET low == {c \in chans : Band[c] = "2GHZ"}
    IN  IF low # {} THEN low ELSE chans

\* ieee80211_request_scan and __ieee80211_start_scan, with no authentication or
\* association under way that the scan would have to wait for (work_list).
RequestScan(v, r) ==
    /\ rtnl = "idle"
    /\ v \in up
    /\ scan_sdata = NoVif
    /\ \/ /\ HwScanAccepted(v, FirstBand(r.chans), r.ssids)
          /\ scanning' = scanning \cup {"HW_SCANNING"}
          /\ scan_sdata' = v
          /\ hw_req' = FirstBand(r.chans)
          /\ todo' = r.chans \ FirstBand(r.chans)
          /\ ssids' = r.ssids
       \/ HwScanRefused /\ UNCHANGED <<scanning, reqVars>>
    /\ UNCHANGED <<cur, rtnlVars, odd>>

\* op_cancel_hw_scan waits; what the holder of the rtnl lock does next.
MtxHeld == rtnl \in {"sync", "c_sync", "r_sync"}
AfterSync == [sync |-> "remove", c_sync |-> "idle", r_sync |-> "reconfig"]

\* The request is over: the last part of __ieee80211_scan_completed.
ScanOver ==
    /\ scanning' = {}
    /\ scan_sdata' = NoVif
    /\ hw_req' = {} /\ todo' = {}
    /\ UNCHANGED ssids

(***************************************************************************)
(* ieee80211_scan_work, which runs for a hardware scan only after          *)
(* ieee80211_scan_completed (otherwise the worker would stay here, against *)
(* EveryScanAnswered): the next band is handed to the driver, or the       *)
(* request is over.                                                        *)
(***************************************************************************)
ScanWork ==
    /\ cur = "scan"
    /\ ~MtxHeld
    /\ "COMPLETED" \in scanning
    /\ cur' = "none"
    /\ odd' = odd \ {"unstopped"}
    /\ \/ /\ "ABORTED" \notin scanning /\ todo # {}
          /\ HwScanAccepted(scan_sdata, todo, ssids)
          /\ scanning' = scanning \ {"COMPLETED"}
          /\ hw_req' = todo /\ todo' = {}
          /\ UNCHANGED <<scan_sdata, ssids>>
       \/ /\ "ABORTED" \notin scanning /\ todo # {}
          /\ HwScanRefused
          /\ ScanOver
       \/ /\ "ABORTED" \in scanning \/ todo = {}
          /\ ScanOver
          /\ UNCHANGED <<state, inited, scanVars, timer, wq, fwVars>>
    /\ UNCHANGED rtnlVars

-----------------------------------------------------------------------------
(***************************************************************************)
(* scan_complete_work, which ends a scan, whether its timer expired or     *)
(* the state machine queued it.  The probe request template it restores    *)
(* for an associated station may fail and start a recovery.                *)
(***************************************************************************)
CompleteWork ==
    /\ cur = "complete"
    /\ cur' = "none"
    /\ \/ /\ state # "ON" \/ scan_state = "IDLE"
          /\ odd' = odd \ {"timer"}
          /\ UNCHANGED <<state, scanVars, wq, scanning>>
       \/ /\ state = "ON" /\ scan_state # "IDLE"
          /\ IdleScan
          /\ \/ \* the chip does not wake up
                /\ state' = RestartingState
                /\ wq' = WithRecovery(wq)
                /\ odd' = (odd \ {"timer"}) \cup {"lost"}
                /\ UNCHANGED scanning
             \/ /\ \/ /\ scan_failed = "no"
                      /\ wq' = Enqueue(wq, "scan")
                      /\ UNCHANGED state
                   \/ /\ state' = RestartingState
                      /\ wq' = Enqueue(WithRecovery(wq), "scan")
                /\ scanning' = CompletedFlags({})
                /\ odd' = odd \ {"timer"}
    /\ UNCHANGED <<inited, timer, fwVars, reqVars, rtnlVars>>

TimerExpires ==
    /\ timer = "armed"
    /\ timer' = "off"
    /\ wq' = Enqueue(wq, "complete")
    /\ UNCHANGED <<state, inited, scanVars, cur, fwVars, scanning, reqVars,
                   rtnlVars, odd>>

(***************************************************************************)
(* The interrupt thread: SCAN_COMPLETE_EVENT_ID in wl1271_event_process.   *)
(* A scan that cannot be found is ignored.                                 *)
(***************************************************************************)
ScanCompleteEvent ==
    /\ event = "posted"
    /\ state = "ON"
    /\ event' = "none"
    /\ \/ /\ scan_state = "IDLE"
          /\ UNCHANGED <<state, scanVars, timer, wq, fw>>
       \/ /\ scan_state # "IDLE"
          /\ ScanStm(scan_state, hw_req, ssids, scanned_ch, scan_failed,
                     wq, timer)
          /\ UNCHANGED scan_vif
    /\ UNCHANGED <<inited, cur, scanning, reqVars, rtnlVars, odd>>

\* The firmware ends a scan, or is slow, or never does.
FwScanDone ==
    /\ fw = "scanning"
    /\ fw' = "idle"
    /\ event' = "posted"
    /\ UNCHANGED <<state, inited, scanVars, workVars, scanning, reqVars,
                   rtnlVars, odd>>

\* Whatever else makes the driver queue a recovery.
FwCrash ==
    /\ state = "ON"
    /\ state' = RestartingState
    /\ wq' = WithRecovery(wq)
    /\ UNCHANGED <<inited, scanVars, timer, cur, fwVars, scanning, reqVars,
                   rtnlVars, odd>>

-----------------------------------------------------------------------------

(***************************************************************************)
(* op_cancel_hw_scan up to the unlock.  The firmware may answer            *)
(* CMD_STOP_SCAN with the completion event.                                *)
(***************************************************************************)
CancelHwScan ==
    \/ /\ state # "ON" \/ scan_state = "IDLE"
       /\ UNCHANGED <<state, scanVars, wq, fwVars, scanning, odd>>
    \/ /\ state = "ON" /\ scan_state # "IDLE"
       /\ \/ /\ IdleScan
             /\ scanning' = CompletedFlags({"ABORTED"})
             /\ wq' = Enqueue(wq, "scan")
             /\ IF scan_state = "DONE" THEN UNCHANGED fwVars
                ELSE fw' = "idle" /\ event' \in {event, "posted"}
             /\ UNCHANGED <<state, odd>>
          \/ /\ state' = RestartingState
             /\ wq' = WithRecovery(wq)
             /\ UNCHANGED <<scanVars, fwVars, scanning, odd>>
          \/ \* no memory for CMD_STOP_SCAN
             /\ scan_state # "DONE"
             /\ odd' = odd \cup {"unstopped"}
             /\ UNCHANGED <<state, scanVars, wq, fwVars, scanning>>

(***************************************************************************)
(* __wl1271_op_remove_interface in a state other than OFF, as far as it    *)
(* concerns scans.                                                         *)
(***************************************************************************)
RemoveInterface(v) ==
    /\ inited' = inited \ {v}
    /\ IF scan_state # "IDLE" /\ scan_vif = v
       THEN /\ IdleScan
            /\ scanning' = CompletedFlags({"ABORTED"})
            /\ wq' = Enqueue(wq, "scan")
       ELSE UNCHANGED <<scanVars, scanning, wq>>

(***************************************************************************)
(* ieee80211_do_stop: the scan of the interface is cancelled, then         *)
(* op_cancel_hw_scan waits for scan_complete_work, then the interface is   *)
(* removed; after the last one the workqueue is flushed and the device is  *)
(* stopped.                                                                *)
(***************************************************************************)
InterfaceDown(v) ==
    /\ rtnl = "idle"
    /\ v \in up
    /\ up' = up \ {v}
    /\ rvif' = v
    /\ \/ /\ scan_sdata = v
          /\ CancelHwScan
          /\ rtnl' = "sync"
       \/ /\ scan_sdata # v
          /\ rtnl' = "remove"
          /\ UNCHANGED <<state, scanVars, wq, fwVars, scanning, odd>>
    /\ UNCHANGED <<inited, timer, cur, reqVars, restart>>

\* ieee80211_scan_cancel_req: user space gives the scan up.
ScanCancelReq ==
    /\ rtnl = "idle"
    /\ scan_sdata # NoVif
    /\ CancelHwScan
    /\ rtnl' = "c_sync"
    /\ UNCHANGED <<inited, timer, cur, reqVars, up, rvif, restart>>

\* fault: op_cancel_hw_scan leaves scan_complete_work alone.
CancelSyncNone ==
    /\ MtxHeld
    /\ rtnl' = AfterSync[rtnl]
    /\ UNCHANGED <<state, inited, scanVars, workVars, fwVars, scanning, reqVars,
                   up, rvif, restart, odd>>

\* cancel_delayed_work_sync at the end of op_cancel_hw_scan.
CancelSync ==
    /\ MtxHeld
    /\ cur # "complete"
    /\ timer' = "off"
    /\ wq' = Dequeue(wq, "complete")
    /\ rtnl' = AfterSync[rtnl]
    /\ odd' = odd \ {"timer"}
    /\ UNCHANGED <<state, inited, scanVars, cur, fwVars, scanning, reqVars,
                   up, rvif, restart>>

OpRemoveInterface ==
    /\ rtnl = "remove"
    /\ IF state = "OFF" \/ rvif \notin inited
       THEN UNCHANGED <<inited, scanVars, scanning, wq>>
       ELSE RemoveInterface(rvif)
    /\ odd' = IF scan_vif = rvif /\ scan_vif' = NoVif
                /\ (CompletePending \/ cur = "complete")
              THEN odd \cup {"timer"} ELSE odd
    /\ rtnl' = IF up = {} THEN "flush" ELSE "idle"
    /\ rvif' = NoVif
    /\ UNCHANGED <<state, timer, cur, fwVars, reqVars, up, restart>>

FlushBeforeStop ==
    /\ rtnl = "flush"
    /\ ~Queued("s_flush")
    /\ wq' = Append(wq, "s_flush")
    /\ UNCHANGED <<state, inited, scanVars, timer, cur, fwVars, scanning,
                   reqVars, rtnlVars, odd>>

\* op_stop, up to where it gives up the mutex.
OpStop ==
    /\ rtnl = "stop"
    /\ rtnl' = IF state = "OFF" THEN "idle" ELSE "stop_sync"
    /\ state' = "OFF"
    /\ UNCHANGED <<inited, scanVars, workVars, fwVars, scanning, reqVars, up,
                   rvif, restart, odd>>

\* The rest of op_stop: works are cancelled and the chip is switched off.
OpStopSync ==
    /\ rtnl = "stop_sync"
    /\ cur # "complete"
    /\ timer' = "off"
    /\ wq' = Dequeue(wq, "complete")
    /\ fw' = "idle" /\ event' = "none"
    /\ rtnl' = "idle"
    /\ odd' = odd \ {"timer"}
    /\ UNCHANGED <<state, inited, scanVars, cur, scanning, reqVars, up, rvif,
                   restart>>

(***************************************************************************)
(* op_add_interface boots the chip when it is off; it refuses during a     *)
(* recovery, and the interface then does not come up.                      *)
(***************************************************************************)
CanAddInterface == state # "RESTARTING" /\ cur # "recovery_stop"

InterfaceUp(v) ==
    /\ rtnl = "idle"
    /\ v \notin up
    /\ CanAddInterface
    /\ up' = up \cup {v}
    /\ inited' = inited \cup {v}
    /\ state' = "ON"
    /\ UNCHANGED <<scanVars, workVars, fwVars, scanning, reqVars, rtnl, rvif,
                   restart, odd>>

-----------------------------------------------------------------------------
(***************************************************************************)
(* recovery_work: the interfaces are removed one at a time, then the       *)
(* device is stopped and mac80211 is asked to restart it.                  *)
(***************************************************************************)
RecoverySkip ==
    /\ cur = "recovery"
    /\ state = "OFF"
    /\ cur' = "none"
    /\ UNCHANGED <<state, inited, scanVars, timer, wq, fwVars, scanning,
                   reqVars, rtnlVars, odd>>

RecoveryRemove(v) ==
    /\ cur = "recovery"
    /\ state # "OFF"
    /\ v \in inited
    /\ RemoveInterface(v)
    /\ UNCHANGED <<state, timer, cur, fwVars, reqVars, rtnlVars, odd>>

RecoveryStop ==
    /\ cur = "recovery"
    /\ state # "OFF"
    /\ inited = {}
    /\ state' = "OFF"
    /\ cur' = "recovery_stop"
    /\ UNCHANGED <<inited, scanVars, timer, wq, fwVars, scanning, reqVars,
                   rtnlVars, odd>>

RecoveryEnd ==
    /\ cur = "recovery_stop"
    /\ timer' = "off"
    /\ wq' = Dequeue(wq, "complete")
    /\ fw' = "idle" /\ event' = "none"
    /\ restart' = restart \cup {"pending"}
    /\ cur' = "none"
    /\ odd' = odd \ {"timer"}
    /\ UNCHANGED <<state, inited, scanVars, scanning, reqVars, up, rtnl, rvif>>

(***************************************************************************)
(* ieee80211_restart_work: it flushes the workqueue, then cancels scans    *)
(* and configures the device again under the rtnl lock.                    *)
(***************************************************************************)
RestartWork ==
    /\ restart = {"pending"}
    /\ rtnl \notin {"r_sync", "reconfig"}
    /\ restart' = {"flush"}
    /\ wq' = Append(wq, "r_flush")
    /\ UNCHANGED <<state, inited, scanVars, timer, cur, fwVars, scanning,
                   reqVars, up, rtnl, rvif, odd>>

RestartCancel ==
    /\ "flushed" \in restart
    /\ rtnl = "idle"
    /\ restart' = restart \ {"flushed"}
    /\ \/ /\ scan_sdata # NoVif
          /\ CancelHwScan
          /\ rtnl' = "r_sync"
       \/ /\ scan_sdata = NoVif
          /\ rtnl' = "reconfig"
          /\ UNCHANGED <<state, scanVars, wq, fwVars, scanning, odd>>
    /\ UNCHANGED <<inited, timer, cur, reqVars, up, rvif>>

Reconfig ==
    /\ rtnl = "reconfig"
    /\ rtnl' = "idle"
    /\ \/ /\ CanAddInterface /\ up # {}
          /\ state' = "ON"
          /\ inited' = inited \cup up
       \/ UNCHANGED <<state, inited>>
    /\ UNCHANGED <<scanVars, workVars, fwVars, scanning, reqVars, up, rvif,
                   restart, odd>>

(***************************************************************************)
(* The worker takes the next work; a flush is over when its marker is.     *)
(***************************************************************************)
TakeWork ==
    /\ cur = "none"
    /\ wq # <<>>
    /\ wq' = Tail(wq)
    /\ \/ /\ Head(wq) \in {"complete", "scan", "recovery"}
          /\ cur' = Head(wq)
          /\ UNCHANGED <<rtnl, restart>>
       \/ /\ Head(wq) = "s_flush"
          /\ rtnl' = "stop"
          /\ UNCHANGED <<cur, restart>>
       \/ /\ Head(wq) = "r_flush"
          /\ restart' = (restart \ {"flush"}) \cup {"flushed"}
          /\ UNCHANGED <<cur, rtnl>>
    /\ UNCHANGED <<state, inited, scanVars, timer, fwVars, scanning, reqVars,
                   up, rvif, odd>>

-----------------------------------------------------------------------------
Worker ==
    \/ TakeWork \/ CompleteWork \/ ScanWork
    \/ RecoverySkip \/ RecoveryStop \/ RecoveryEnd
    \/ \E v \in Vifs : RecoveryRemove(v)

\* What the holder of the rtnl lock does once it has begun something.
RtnlHolder ==
    \/ CancelSync \/ OpRemoveInterface \/ FlushBeforeStop
    \/ OpStop \/ OpStopSync \/ Reconfig

Next ==
    \/ Worker
    \/ RtnlHolder
    \/ TimerExpires \/ ScanCompleteEvent \/ FwScanDone \/ FwCrash
    \/ RestartWork \/ RestartCancel \/ ScanCancelReq
    \/ \E v \in Vifs : InterfaceUp(v) \/ InterfaceDown(v)
    \/ \E v \in Vifs, r \in Requests : RequestScan(v, r)

Spec == Init /\ [][Next]_vars

(***************************************************************************)
(* The kernel runs the workqueue, the timer and whoever holds the rtnl     *)
(* lock, and a waiter for local->mtx gets it in its turn, however often    *)
(* others take it; nothing is assumed of the firmware or of user space.    *)
(***************************************************************************)
FairSpec ==
    /\ Spec
    /\ WF_vars(Worker)
    /\ SF_vars(ScanWork)
    /\ WF_vars(RtnlHolder)
    /\ WF_vars(TimerExpires)

-----------------------------------------------------------------------------
(***************************************************************************)
(* mac80211 never waits for a scan the driver knows nothing of, unless     *)
(* scan_complete_work forgot it and then could not wake the chip.          *)
(***************************************************************************)
DriverKnowsScan ==
    "HW_SCANNING" \in scanning /\ "COMPLETED" \notin scanning
        => scan_state # "IDLE" \/ "lost" \in odd

(***************************************************************************)
(* The contract of hw_scan: ieee80211_scan_completed() "also must be       *)
(* called when the scan cannot finish due to any error unless this         *)
(* callback returned a negative error code" (include/net/mac80211.h:1942). *)
(* The driver does not keep it: see DriverKnowsScan for the one exception. *)
(***************************************************************************)
HwScanContract ==
    "HW_SCANNING" \in scanning /\ "COMPLETED" \notin scanning
        => scan_state # "IDLE"

(***************************************************************************)
(* While the driver scans, the request it reads belongs to a scan          *)
(* mac80211 is waiting for and has not freed, and the interface it scans   *)
(* for has a role in the firmware.                                         *)
(***************************************************************************)
ScanReqAlive ==
    scan_state # "IDLE" =>
        /\ "HW_SCANNING" \in scanning /\ "COMPLETED" \notin scanning
        /\ scan_sdata = scan_vif
        /\ scan_vif \in inited

(***************************************************************************)
(* A scan that ends without failure has marked every channel of its        *)
(* request, passive or not, in batches.                                    *)
(***************************************************************************)
SuccessCovers ==
    scan_state # "IDLE" /\ scan_failed = "no" =>
        hw_req \ Disabled \subseteq scanned_ch

(***************************************************************************)
(* When a scan begins nothing is left of the scan_complete_work of an      *)
(* earlier one: it would cut the new scan short, and its timeout would not *)
(* be started.  Excepted is what remove_interface leaves of a scan whose   *)
(* next band began while its interface went down (main.c:3313).            *)
(***************************************************************************)
FreshTimeout ==
    [][scan_state = "IDLE" /\ scan_state' # "IDLE"
          => (~CompletePending /\ cur # "complete") \/ "timer" \in odd]_vars

(***************************************************************************)
(* User space does not bring interfaces up for ever: recovery_work removes *)
(* interfaces until the list is empty and would never finish.              *)
(***************************************************************************)
UserSettles == <>[][\A v \in Vifs : ~InterfaceUp(v)]_vars

(***************************************************************************)
(* Every scan mac80211 asks for ends, also when the firmware never reports *)
(* its end, commands fail, interfaces go away or the device is restarted.  *)
(* Excepted are a scan that scan_complete_work forgot before it failed to  *)
(* wake the chip (scan.c:69), and one that op_cancel_hw_scan had no memory *)
(* to stop and whose timeout it cancelled nevertheless (main.c:4331).      *)
(***************************************************************************)
EveryScanAnswered ==
    UserSettles =>
        (scan_sdata # NoVif ~>
            scan_sdata = NoVif \/ {"lost", "unstopped"} \cap odd # {})
=============================================================================
