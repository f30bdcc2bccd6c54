----------------------------- MODULE SchedScan -----------------------------
(***************************************************************************)
(* The scheduled (periodic) scan: a request of user space that cfg80211,   *)
(* mac80211, the driver and the firmware each remember for themselves.     *)
(* Starting one goes down through all four under sched_scan_mtx, local->mtx *)
(* and wl->mutex; stopping one only sends a command, and the layers forget *)
(* it from below: the firmware's PERIODIC_SCAN_COMPLETE event, or the      *)
(* recovery, or the interface leaving idle, makes the driver queue         *)
(* mac80211's sched_scan_stopped_work, which clears mac80211's and then    *)
(* cfg80211's state.                                                       *)
(***************************************************************************)
EXTENDS Integers

CONSTANT MaxRequests \* bound on the requests of a behaviour

ASSUME MaxAssumption == MaxRequests \in Nat

VARIABLES
    wl_state,       \* wl->state
    link,           \* the station interface: "idle", or "in_use"
    sched_scanning, \* wl->sched_scanning: "on" or "off"
    fwScan,         \* firmware: the request it scans for, or 0
    complete,       \* firmware: PERIODIC_SCAN_COMPLETE "raised", or "none"
    report,         \* results: "none", the "event", or cfg80211's "work"
    local,          \* local->sched_scanning: "on" or "off"
    stopped_work,   \* sched_scan_stopped_work: "none" or "pending"
    stopping,       \* that work between its two locks: "idle" or "cfg80211"
    netdev,         \* the interface: "up", "closing" (dev_close), "down"
    cleanup,        \* cfg80211's cleanup_work: "none" or "pending"
    starter,        \* the thread in nl80211_start_sched_scan
    req,            \* cfg80211: rdev->sched_scan_req, or 0
    requests,       \* the number of requests so far
    asked           \* the last request that cfg80211 was asked to stop

\* history, which only the properties read
VARIABLES
    stale,   \* requests that started while an older end was under way
    unsent,  \* requests the firmware was not told to stop, without memory
    untold   \* requests that op_stop ended without telling mac80211

chip == <<wl_state, link, sched_scanning, fwScan, complete>>
mac == <<local, stopped_work, stopping>>
device == <<netdev, cleanup>>
user == <<starter, req, requests, asked>>
past == <<stale, unsent, untold>>
sched_vars == <<chip, report, mac, device, user, past>>

SchedInit ==
    /\ wl_state = "ON" /\ link = "idle" /\ sched_scanning = "off"
    /\ fwScan = 0 /\ complete = "none" /\ report = "none"
    /\ local = "off" /\ stopped_work = "none" /\ stopping = "idle"
    /\ netdev = "up" /\ cleanup = "none"
    /\ starter = "idle" /\ req = 0 /\ requests = 0 /\ asked = 0
    /\ stale = {} /\ unsent = {} /\ untold = {}

\* starter is in ieee80211_request_sched_scan_start
HoldsLocalMtx == starter \in {"driver", "started"}

-----------------------------------------------------------------------------
(* User space starts a scan: the RTNL and sched_scan_mtx are held until the *)
(* answer                                                                   *)

\* nl80211_start_sched_scan and ieee80211_request_sched_scan_start find no
\* other request
StartSchedScan ==
    /\ netdev = "up" /\ starter = "idle" /\ req = 0 /\ local = "off"
    /\ requests < MaxRequests
    /\ starter' = "driver" /\ requests' = requests + 1
    /\ UNCHANGED <<chip, report, mac, device, req, asked, past>>

\* wl1271_op_sched_scan_start with wl1271_scan_sched_scan_config: the state is
\* not ON, a P2P client runs, the interface is in use, or the parameters are
\* not usable
StartRefused ==
    /\ starter = "driver"
    /\ starter' = "idle"
    /\ UNCHANGED <<chip, report, mac, device, req, requests, asked, past>>

\* the wakeup or one of the commands fails, and asks for the recovery
StartFails ==
    /\ starter = "driver" /\ wl_state = "ON"
    /\ wl_state' = "RESTARTING" /\ starter' = "idle"
    /\ UNCHANGED <<link, sched_scanning, fwScan, complete, report, mac, device,
                   req, requests, asked, past>>

\* the firmware scans for the new request, whatever it scanned for before
StartAccepted ==
    /\ starter = "driver" /\ wl_state = "ON" /\ link = "idle"
    /\ fwScan' = requests /\ sched_scanning' = "on"
    /\ starter' = "started"
    /\ stale' = IF complete = "raised" \/ stopped_work = "pending"
                  THEN stale \cup {requests} ELSE stale
    /\ UNCHANGED <<wl_state, link, complete, report, mac, device, req, requests,
                   asked, unsent, untold>>

\* mac80211 notes the scan and lets go of local->mtx ...
StartNoted ==
    /\ starter = "started"
    /\ local' = "on" /\ starter' = "noted"
    /\ UNCHANGED <<chip, report, stopped_work, stopping, device, req, requests,
                   asked, past>>

\* ... then cfg80211 does and tells user space
StartAnswered ==
    /\ starter = "noted"
    /\ req' = requests /\ starter' = "idle"
    /\ UNCHANGED <<chip, report, mac, device, requests, asked, past>>

-----------------------------------------------------------------------------
(* Stopping                                                                 *)

\* CMD_STOP_PERIODIC_SCAN: a firmware that scans ends it and says so later
FwStopsScan ==
    /\ fwScan' = 0
    /\ complete' = IF fwScan # 0 THEN "raised" ELSE complete

\* wl1271_scan_sched_scan_stop: the command may fail, and without memory none
\* is sent
SchedScanStop ==
    \/ FwStopsScan /\ UNCHANGED <<wl_state, unsent>>
    \/ wl_state' = "RESTARTING" /\ UNCHANGED <<fwScan, complete, unsent>>
    \/ /\ unsent' = IF fwScan # 0 THEN unsent \cup {fwScan} ELSE unsent
       /\ UNCHANGED <<wl_state, fwScan, complete>>

\* fault: the command is sent only if the interface is in use
StopRequestUnsent ==
    /\ asked' = req
    /\ IF local = "on" /\ wl_state = "ON" /\ link = "in_use"
         THEN SchedScanStop
         ELSE UNCHANGED <<wl_state, fwScan, complete, unsent>>

\* __cfg80211_stop_sched_scan of a request, down to wl1271_op_sched_scan_stop;
\* cfg80211 and mac80211 keep the request
StopRequest ==
    /\ asked' = req
    /\ IF local = "on" /\ wl_state = "ON"
         THEN SchedScanStop
         ELSE UNCHANGED <<wl_state, fwScan, complete, unsent>>

\* nl80211_stop_sched_scan
StopSchedScan ==
    /\ netdev = "up" /\ starter = "idle" /\ req # 0
    /\ StopRequest
    /\ UNCHANGED <<link, sched_scanning, report, mac, device, starter, req,
                   requests, stale, untold>>

\* fault: mac80211 is told, the firmware is not
LeaveIdleQuietly ==
    /\ wl_state = "ON" /\ link = "idle"
    /\ stopped_work' = IF sched_scanning = "on" THEN "pending" ELSE stopped_work
    /\ link' = "in_use"
    /\ UNCHANGED <<wl_state, sched_scanning, fwScan, complete, report, local,
                   stopping, device, user, past>>

\* wl1271_sta_handle_idle, to in use: the firmware scans periodically only in
\* idle, so the scan is stopped and reported; sched_scanning stays set until
\* the firmware's event.  A failing wl12xx_start_dev leaves the interface idle.
LeaveIdle ==
    /\ wl_state = "ON" /\ link = "idle"
    /\ IF sched_scanning = "on"
         THEN /\ \/ SchedScanStop
                 \/ FwStopsScan /\ wl_state' = "RESTARTING" /\ UNCHANGED unsent
              /\ stopped_work' = "pending"
         ELSE /\ UNCHANGED <<fwScan, complete, stopped_work, unsent>>
              /\ wl_state' \in {"ON", "RESTARTING"}
    /\ link' = IF wl_state' = "ON" THEN "in_use" ELSE "idle"
    /\ UNCHANGED <<sched_scanning, report, local, stopping, device, user, stale,
                   untold>>

\* wl1271_sta_handle_idle, to idle
EnterIdle ==
    /\ wl_state = "ON" /\ link = "in_use"
    /\ \/ link' = "idle" /\ UNCHANGED wl_state
       \/ wl_state' = "RESTARTING" /\ UNCHANGED link
    /\ UNCHANGED <<sched_scanning, fwScan, complete, report, mac, device, user,
                   past>>

\* the PERIODIC_SCAN_COMPLETE part of wl1271_event_process
CompleteEvent ==
    /\ wl_state = "ON" /\ complete = "raised"
    /\ complete' = "none" /\ sched_scanning' = "off"
    /\ stopped_work' = IF sched_scanning = "on" THEN "pending" ELSE stopped_work
    /\ UNCHANGED <<wl_state, link, fwScan, report, local, stopping, device,
                   user, past>>

\* fault: the work does not wait for local->mtx
StoppedWorkUnlocked ==
    /\ stopped_work = "pending" /\ stopping = "idle"
    /\ stopped_work' = "none"
    /\ local' = "off"
    /\ stopping' = IF local = "on" THEN "cfg80211" ELSE "idle"
    /\ UNCHANGED <<chip, report, device, user, past>>

\* ieee80211_sched_scan_stopped_work: mac80211 forgets under local->mtx ...
StoppedWork ==
    /\ stopped_work = "pending" /\ stopping = "idle" /\ ~HoldsLocalMtx
    /\ stopped_work' = "none"
    /\ local' = "off"
    /\ stopping' = IF local = "on" THEN "cfg80211" ELSE "idle"
    /\ UNCHANGED <<chip, report, device, user, past>>

\* ... and cfg80211_sched_scan_stopped under sched_scan_mtx
SchedScanStopped ==
    /\ stopping = "cfg80211" /\ starter = "idle"
    /\ stopping' = "idle" /\ req' = 0
    /\ UNCHANGED <<chip, report, local, stopped_work, device, starter, requests,
                   asked, past>>

-----------------------------------------------------------------------------
(* Results: the firmware's report event, the driver's and cfg80211's handling *)

FwReport ==
    /\ fwScan # 0 /\ report = "none"
    /\ report' = "event"
    /\ UNCHANGED <<chip, mac, device, user, past>>

\* PERIODIC_SCAN_REPORT: cfg80211_sched_scan_results drops it without request
ReportEvent ==
    /\ wl_state = "ON" /\ report = "event"
    /\ report' = IF req # 0 THEN "work" ELSE "none"
    /\ UNCHANGED <<chip, mac, device, user, past>>

\* __cfg80211_sched_scan_results, which looks again, under sched_scan_mtx
ResultsWork ==
    /\ report = "work" /\ starter = "idle"
    /\ report' = "none"
    /\ UNCHANGED <<chip, mac, device, user, past>>

-----------------------------------------------------------------------------
(* The chip goes away and comes back                                        *)

\* any operation whose command fails asks for the recovery
QueueRecovery ==
    /\ wl_state = "ON"
    /\ wl_state' = "RESTARTING"
    /\ UNCHANGED <<link, sched_scanning, fwScan, complete, report, mac, device,
                   user, past>>

\* wl1271_op_stop_locked
OpStopLocked ==
    /\ wl_state' = "OFF" /\ sched_scanning' = "off" /\ link' = "idle"
    /\ fwScan' = 0 /\ complete' = "none"
    /\ report' = IF report = "event" THEN "none" ELSE report

\* wl1271_recovery_work
RecoveryWork ==
    /\ wl_state = "RESTARTING"
    /\ stopped_work' = IF sched_scanning = "on" THEN "pending" ELSE stopped_work
    /\ OpStopLocked
    /\ UNCHANGED <<local, stopping, device, user, past>>

\* ieee80211_restart_work, which flushes mac80211's workqueue first
ReconfigWork ==
    /\ wl_state = "OFF" /\ netdev = "up"
    /\ stopped_work = "none" /\ stopping = "idle"
    /\ wl_state' = "ON"
    /\ UNCHANGED <<link, sched_scanning, fwScan, complete, report, mac, device,
                   user, past>>

\* NETDEV_GOING_DOWN, under the RTNL: cfg80211 stops the scan ...
GoingDown ==
    /\ netdev = "up" /\ starter = "idle"
    /\ netdev' = "closing"
    /\ IF req # 0 THEN StopRequest
         ELSE UNCHANGED <<asked, wl_state, fwScan, complete, unsent>>
    /\ UNCHANGED <<link, sched_scanning, report, mac, cleanup, starter, req,
                   requests, stale, untold>>

\* ... then ieee80211_do_stop of the last interface stops the device, which
\* reports no scan that it ends, and NETDEV_DOWN queues the cleanup
StopDevice ==
    /\ netdev = "closing"
    /\ netdev' = "down" /\ cleanup' = "pending"
    /\ OpStopLocked
    /\ untold' =
         IF sched_scanning = "on" /\ stopped_work = "none" /\ stopping = "idle"
           THEN untold \cup {req} ELSE untold
    /\ UNCHANGED <<mac, user, stale, unsent>>

\* wdev_cleanup_work, which warns of a request that it finds
CleanupWork ==
    /\ cleanup = "pending" /\ starter = "idle"
    /\ cleanup' = "none"
    /\ IF req # 0 THEN StopRequest
         ELSE UNCHANGED <<asked, wl_state, fwScan, complete, unsent>>
    /\ UNCHANGED <<link, sched_scanning, report, mac, netdev, starter, req,
                   requests, stale, untold>>

\* ieee80211_open, and NETDEV_UP, which cancels the cleanup
Open ==
    /\ netdev = "down"
    /\ netdev' = "up" /\ cleanup' = "none" /\ wl_state' = "ON"
    /\ UNCHANGED <<link, sched_scanning, fwScan, complete, report, mac, user,
                   past>>

-----------------------------------------------------------------------------
Starter ==
    \/ StartRefused \/ StartFails \/ StartAccepted \/ StartNoted
    \/ StartAnswered

SchedNext ==
    \/ StartSchedScan \/ Starter \/ StopSchedScan
    \/ LeaveIdle \/ EnterIdle
    \/ CompleteEvent \/ StoppedWork \/ SchedScanStopped
    \/ FwReport \/ ReportEvent \/ ResultsWork
    \/ QueueRecovery \/ RecoveryWork \/ ReconfigWork
    \/ GoingDown \/ StopDevice \/ CleanupWork \/ Open

SchedSpec == SchedInit /\ [][SchedNext]_sched_vars

\* a start or a close that has begun returns, raised events are handled, and
\* the works run; nobody has to start, stop, report, open, close or fail
SchedFairness ==
    /\ WF_sched_vars(Starter) /\ WF_sched_vars(StoppedWork)
    /\ WF_sched_vars(SchedScanStopped) /\ WF_sched_vars(CompleteEvent)
    /\ WF_sched_vars(RecoveryWork) /\ WF_sched_vars(ReconfigWork)
    /\ WF_sched_vars(StopDevice) /\ WF_sched_vars(CleanupWork)

SchedFairSpec == SchedSpec /\ SchedFairness

-----------------------------------------------------------------------------
SchedTypeOK ==
    /\ wl_state \in {"ON", "RESTARTING", "OFF"} /\ link \in {"idle", "in_use"}
    /\ sched_scanning \in {"on", "off"} /\ local \in {"on", "off"}
    /\ complete \in {"none", "raised"} /\ report \in {"none", "event", "work"}
    /\ stopped_work \in {"none", "pending"} /\ stopping \in {"idle", "cfg80211"}
    /\ netdev \in {"up", "closing", "down"} /\ cleanup \in {"none", "pending"}
    /\ starter \in {"idle", "driver", "started", "noted"}
    /\ requests \in 0 .. MaxRequests
    /\ fwScan \in 0 .. requests /\ req \in 0 .. requests
    /\ asked \in 0 .. requests
    /\ stale \cup unsent \cup untold \subseteq 0 .. requests

\* the request that cfg80211 has or is about to have
Wanted == IF starter \in {"started", "noted"} THEN requests ELSE req

\* What the firmware scans for is what user space wants and the driver knows
\* of, and no end of it is being reported: no layer forgets a scan while the
\* firmware goes on with it.  Excepted are a scan that started before the end
\* of an older one was reported (its own end is reported instead, main.c:3590),
\* and one whose stop command found no memory (scan.c:855).
ScanOwned ==
    fwScan # 0 /\ fwScan \notin stale \cup unsent /\ wl_state = "ON" =>
        /\ fwScan = Wanted /\ sched_scanning = "on"
        /\ stopped_work = "none" /\ stopping = "idle"

\* A request that the firmware does not scan for (any more) has someone who
\* will end it: the event, the recovery, or the stopped work on its way.
\* Otherwise every later start is answered -EINPROGRESS or -EBUSY.  Excepted is
\* a request whose scan ended when the interface went down (main.c:2821).
RequestHasEnd ==
    Wanted # 0 /\ Wanted \notin untold /\ fwScan # Wanted =>
        \/ sched_scanning = "on" /\ (complete = "raised" \/ wl_state = "RESTARTING")
        \/ stopped_work = "pending" \/ stopping = "cfg80211"

\* A request that cfg80211 was asked to stop ends, even if the chip restarts
\* meanwhile, unless no memory was there for the command, or the chip was
\* switched off under it before the firmware's event.
StopAnswered ==
    \A r \in 1 .. MaxRequests : asked = r ~> req # r \/ r \in unsent \cup untold

\* NL80211_CMD_SCHED_SCAN_STOPPED "is also sent when the
\* %NL80211_CMD_STOP_SCHED_SCAN command is received or when the interface is
\* brought down while a scheduled scan was running" (nl80211.h:287-289): the
\* request ends, if the stop command was sent.  It does not if op_stop comes
\* before the firmware's event.
DownIsTold ==
    \A r \in 1 .. MaxRequests : asked = r ~> req # r \/ r \in unsent

\* NL80211_CMD_SCHED_SCAN_STOPPED "indicates that the scheduled scan has
\* stopped" (nl80211.h:283): the firmware scans for no request that cfg80211
\* has ended, if the stop command was sent.  It may, for a stale request.
StoppedIsOver ==
    fwScan # 0 /\ fwScan \notin unsent /\ wl_state = "ON" => fwScan = Wanted

\* The same (nl80211.h:283), of a scan that did not start while the end of an
\* older one was under way, but whose stop command may find no memory.  It is
\* then reported as stopped and goes on.
StoppedIsOverUnsent ==
    fwScan # 0 /\ fwScan \notin stale /\ wl_state = "ON" => fwScan = Wanted
=============================================================================
