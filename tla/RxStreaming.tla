---------------------------- MODULE RxStreaming -----------------------------
(***************************************************************************)
(* Receive streaming of a station interface: while traffic flows and       *)
(* Bluetooth disturbs the power save (or always, if so configured), the    *)
(* firmware is told to stream; a timer, rearmed by every data frame, tells *)
(* it to stop.  Enabling and disabling are work items that take wl->mutex; *)
(* removing the interface, by user space or by the recovery, gives the     *)
(* mutex up, deletes the timer and cancels the works one by one.           *)
(*                                                                         *)
(* The module has the state that the receive path (Rx) shares with it, and *)
(* leaves to Rx who holds the mutex.                                       *)
(***************************************************************************)
EXTENDS Integers, Sequences

VARIABLES
    state,      \* wl->state
    vif,        \* the interface: "up", "leaving" or "down"
    associated, \* WLVIF_FLAG_STA_ASSOCIATED: "yes" or "no"
    gemini,     \* WL1271_FLAG_SOFT_GEMINI: "on" or "off"
    streaming,  \* WLVIF_FLAG_RX_STREAMING_STARTED: "on" or "off"
    timer,      \* rx_streaming_timer: "armed" or "off"
    works,      \* of rx_streaming_enable_work and _disable_work, the pending
    remover     \* the thread that removes the interface and stops the chip

stream == <<streaming, timer, works>>
svars == <<state, vif, associated, gemini, streaming, timer, works, remover>>

StreamInit ==
    /\ state = "ON" /\ vif = "up" /\ associated = "no" /\ gemini = "off"
    /\ streaming = "off" /\ timer = "off" /\ works = {} /\ remover = "idle"

\* wl12xx_rearm_rx_streaming, for traffic on the interface's link
RearmRxStreaming ==
    IF gemini = "on" /\ vif = "up"
      THEN /\ timer' = "armed"
           /\ works' = IF streaming = "off" THEN works \cup {"enable"} ELSE works
           /\ UNCHANGED streaming
      ELSE UNCHANGED stream

\* fault: a command is sent to a chip that restarts
SetRxStreamingAnyway(to) ==
    \/ streaming' = to /\ UNCHANGED state
    \/ state = "ON" /\ state' = "RESTARTING" /\ UNCHANGED streaming

\* wl1271_set_rx_streaming: the flag follows the command; wl1271_cmd_send
\* refuses a command while the chip restarts, and a failing one restarts it
\* (wl1271_acx_ps_rx_streaming's small allocation succeeds)
SetRxStreaming(to) ==
    \/ state = "ON" /\ streaming' = to /\ UNCHANGED state
    \/ state = "ON" /\ state' = "RESTARTING" /\ UNCHANGED streaming
    \/ state # "ON" /\ UNCHANGED <<state, streaming>>

\* fault: the timer is not started with the streaming
EnableWorkNoTimer ==
    /\ "enable" \in works
    /\ works' = works \ {"enable"}
    /\ IF streaming = "on" \/ associated = "no" \/ gemini = "off"
         THEN UNCHANGED <<state, streaming>>
         ELSE SetRxStreaming("on")
    /\ UNCHANGED <<vif, associated, gemini, timer, remover>>

\* wl1271_rx_streaming_enable_work
EnableWork ==
    /\ "enable" \in works
    /\ works' = works \ {"enable"}
    /\ IF streaming = "on" \/ associated = "no" \/ gemini = "off"
         THEN UNCHANGED <<state, streaming, timer>>
         ELSE /\ SetRxStreaming("on")
              /\ timer' = IF streaming' = "on" THEN "armed" ELSE timer
    /\ UNCHANGED <<vif, associated, gemini, remover>>

\* wl1271_rx_streaming_disable_work
DisableWork ==
    /\ "disable" \in works
    /\ works' = works \ {"disable"}
    /\ IF streaming = "off"
         THEN UNCHANGED <<state, streaming>>
         ELSE SetRxStreaming("off")
    /\ UNCHANGED <<vif, associated, gemini, timer, remover>>

\* wl1271_rx_streaming_timer
TimerFires ==
    /\ timer = "armed"
    /\ timer' = "off" /\ works' = works \cup {"disable"}
    /\ UNCHANGED <<state, vif, associated, gemini, streaming, remover>>

\* SOFT_GEMINI_SENSE_EVENT: wl12xx_event_soft_gemini_sense, which on the end of
\* the disturbance runs wl1271_recalc_rx_streaming
SoftGemini ==
    /\ gemini' = IF gemini = "on" THEN "off" ELSE "on"
    /\ IF gemini = "on" /\ vif = "up" /\ streaming = "on"
         THEN SetRxStreaming("off") /\ timer' = "off"
         ELSE UNCHANGED <<state, streaming, timer>>
    /\ UNCHANGED <<vif, associated, works, remover>>

\* BSS_CHANGED_ASSOC sets the flag in wl1271_join and clears it in
\* wl1271_bss_info_changed_sta; neither looks at the streaming
Associate(to) ==
    /\ state = "ON" /\ vif = "up" /\ associated # to
    /\ associated' = to
    /\ UNCHANGED <<state, vif, gemini, stream, remover>>

-----------------------------------------------------------------------------
(* __wl1271_op_remove_interface, for the last interface or in the recovery; *)
(* mac80211 disassociates before it removes an interface, the recovery does *)
(* not.                                                                     *)
Unlink ==
    /\ remover = "idle" /\ vif = "up"
    /\ state = "RESTARTING" \/ (state = "ON" /\ associated = "no")
    /\ vif' = "leaving" /\ remover' = "timer"
    /\ UNCHANGED <<state, associated, gemini, stream>>

DeleteTimer ==
    /\ remover = "timer"
    /\ timer' = "off" /\ remover' = "enable"
    /\ UNCHANGED <<state, vif, associated, gemini, streaming, works>>

\* cancel_work_sync of the enable work, then of the disable work
CancelWorks ==
    /\ remover \in {"enable", "disable"}
    /\ works' = works \ {remover}
    /\ remover' = IF remover = "enable" THEN "disable" ELSE "stop"
    /\ vif' = IF remover = "enable" THEN vif ELSE "down"
    /\ UNCHANGED <<state, associated, gemini, streaming, timer>>

\* wl1271_op_add_interface boots the chip; wl12xx_init_vif_data clears the flags
AddInterface ==
    /\ state' = "ON" /\ vif' = "up" /\ remover' = "idle"
    /\ associated' = "no" /\ gemini' = "off" /\ streaming' = "off"
    /\ UNCHANGED <<timer, works>>

-----------------------------------------------------------------------------
StreamTypeOK ==
    /\ state \in {"ON", "RESTARTING", "OFF"} /\ vif \in {"up", "leaving", "down"}
    /\ associated \in {"yes", "no"} /\ gemini \in {"on", "off"}
    /\ streaming \in {"on", "off"} /\ timer \in {"armed", "off"}
    /\ works \subseteq {"enable", "disable"}
    /\ remover \in {"idle", "timer", "enable", "disable", "stop",
                    "flush", "cancel", "boot"}

\* Streaming costs power, so it always has an end: while the firmware streams,
\* the timer runs or the work that stops it is queued, whatever the traffic, the
\* works and the Bluetooth events that meet.
StreamingEnds ==
    state = "ON" /\ vif = "up" /\ streaming = "on" =>
        timer = "armed" \/ "disable" \in works

\* Once an interface is removed neither its timer nor its works are pending:
\* none of the works that run between the deletion of the timer and their own
\* cancellation arms the timer again.  The memory they sit in is freed or set
\* up anew after that.
TimerGone == vif = "down" => timer = "off" /\ works = {}
=============================================================================
