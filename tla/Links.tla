------------------------------- MODULE Links -------------------------------
(***************************************************************************)
(* Interfaces, roles, links and remain-on-channel: how main.c and cmd.c    *)
(* hand out the firmware's role ids and host link ids (hlids), when a      *)
(* station interface uses its device role and when its own, how stations   *)
(* of an AP and their Rx block-ack sessions come and go, and when the      *)
(* driver swaps the single-role for the multi-role firmware.               *)
(*                                                                         *)
(* Every handler runs under wl->mutex from start to end, so it is one step *)
(* of the system.  A function of the driver is an operator from the        *)
(* driver's state w to the SET of states it can leave behind; the field    *)
(* ret says how it returned.  A command can fail in two ways: "cmd", the   *)
(* firmware or the bus fails and cmd_send queues a recovery, and "soft",   *)
(* an error that is only returned (no memory for the command, a bus error  *)
(* outside of cmd_send's failure path).                                    *)
(*                                                                         *)
(* Left out: P2P interfaces and ad-hoc mode, the channel switch, and the   *)
(* windows in which op_stop and remove_interface drop wl->mutex (module    *)
(* Lifecycle).  The loading of a firmware always succeeds.                 *)
(***************************************************************************)
EXTENDS Integers, FiniteSets

CONSTANTS
    Stas,          \* station interfaces
    Aps,           \* access-point interfaces
    Clients,       \* the stations of the APs
    ApOf,          \* the AP each of them connects to
    Tids,          \* traffic ids with an Rx block-ack session
    MaxRoles,      \* WL12XX_MAX_ROLES
    MaxLinks,      \* WL12XX_MAX_LINKS
    MaxStations,   \* AP_MAX_STATIONS
    MaxBa,         \* RX_BA_MAX_SESSIONS
    Faults         \* the failures that can happen

Invalid == 255              \* WL12XX_INVALID_ROLE_ID, WL12XX_INVALID_LINK_ID
SystemHlid == 0             \* WL12XX_SYSTEM_HLID
Vifs == Stas \cup Aps
Roles == 0 .. MaxRoles - 1
Hlids == 0 .. MaxLinks - 1
RoleSlots == Vifs \X {"main", "dev"}
LinkSlots == Vifs \X {"sta", "dev", "global", "bcast"}

ASSUME ConstantsAssumption ==
    /\ Stas \cap Aps = {}
    /\ ApOf \in [Clients -> Aps]
    /\ MaxRoles \in 1 .. Invalid
    /\ MaxLinks \in 1 .. Invalid
    /\ MaxStations \in Nat /\ MaxBa \in Nat
    /\ Faults \subseteq {"cmd", "soft"}

VARIABLES
    wl,        \* the driver's state
    work,      \* station interfaces with a management work of mac80211's
    assoc,     \* station interfaces that mac80211 holds associated
    oper,      \* station interfaces whose netdev is IF_OPER_UP
    beacon,    \* APs that mac80211 has beaconing
    uploaded,  \* clients that mac80211 has handed to the driver
    sessions,  \* Rx block-ack sessions of mac80211: <<peer, tid>>
    restart,   \* is mac80211's restart_work queued: "late" when the end of an
               \* earlier restart has cleared in_reconfig since
    phase,     \* the step of ieee80211_reconfig that is running
    pending,   \* the interfaces or clients the step has still to visit
    odd,       \* history: "redone" when ieee80211_reconfig has run over interfaces
               \* that were already added, "stray" when a client was handed over
               \* for an interface that was not
    holder,    \* the handler that is looping over the interfaces
    left       \* the interfaces its loop has still to visit

mac == <<work, assoc, oper, beacon, uploaded, sessions>>
recon == <<restart, phase, pending>>
lock == <<holder, left>>
vars == <<wl, mac, recon, lock, odd>>

-----------------------------------------------------------------------------
(* Outcomes and their sequencing.                                          *)

Ok(w) == [w EXCEPT !.ret = "ok"]
Err(w) == [w EXCEPT !.ret = "err"]
Good(w) == w.ret = "ok"

\* go on with F when the call succeeded, return its error otherwise
Then(R, F(_)) == UNION {IF Good(e) THEN F(e) ELSE {e} : e \in R}

\* go on with F whatever the call returned
Always(R, F(_)) == UNION {F(e) : e \in R}

\* undo with F when the call failed, and still return the error
OnError(R, F(_)) == UNION {IF Good(e) THEN {e} ELSE {Err(f) : f \in F(e)} : e \in R}

\* wl12xx_queue_recovery_work
Recover(w) == IF w.state = "ON" THEN [w EXCEPT !.state = "RESTARTING"] ELSE w

\* a failure that is only returned
Soft(w) == {Ok(w)} \cup {Err(w) : f \in Faults \cap {"soft"}}

\* wl1271_cmd_send
Send(w) ==
    IF w.state = "RESTARTING"
    THEN {Err(w)}
    ELSE Soft(w) \cup {Err(Recover(w)) : f \in Faults \cap {"cmd"}}

\* a command with its allocation.  The commands that only configure something
\* are here where a handler gives up when they fail.
Command(w) == Then(Soft(w), LAMBDA e : Send(e))

\* wl1271_ps_elp_wakeup
Wakeup(w) == Soft(w) \cup {Err(Recover(w)) : f \in Faults \cap {"cmd"}}

\* wl1271_cmd_wait_for_event_or_timeout, with the recovery its callers queue
WaitOrTimeout(w) == {Ok(w)} \cup {Err(Recover(w)) : f \in Faults \cap {"cmd"}}

\* wl1271_cmd_wait_for_event: a timeout queues a recovery and returns 0
WaitEvent(w) ==
    WaitOrTimeout(w) \cup {Ok(Recover(w)) : f \in Faults \cap {"cmd"}}

-----------------------------------------------------------------------------
(* Which firmware is wanted.                                               *)

\* wl12xx_open_count: interfaces that are up and not idle
OpenCount(w) == Cardinality(w.up \cap w.busy)

NeedFwChange(w) ==
    IF OpenCount(w) > 1 /\ w.fw_type = "NORMAL" THEN "SR_TO_MR"
    ELSE IF OpenCount(w) <= 1 /\ w.fw_type = "MULTI" THEN "MR_TO_SR"
    ELSE "NONE"

\* wl12xx_change_fw_if_needed: delayed_recovery at once or in 30 s.
\* cancel_delayed_work stops the timer, not a work that is already queued.
ChangeFw(w) ==
    [w EXCEPT !.dwork =
        IF @ = "queued" \/ NeedFwChange(w) = "SR_TO_MR" THEN "queued"
        ELSE IF NeedFwChange(w) = "MR_TO_SR" THEN "armed" ELSE "off"]

\* its return value
SwitchesToMr(w) == NeedFwChange(w) = "SR_TO_MR"

\* wl12xx_fetch_firmware and wl12xx_init_fw
Boot(w) ==
    [w EXCEPT !.state = "ON",
              !.fw_type = IF OpenCount(w) > 1 \/ w.force_mr = "yes" THEN "MULTI" ELSE "NORMAL",
              !.dwork = IF w.force_mr = "yes" /\ @ = "off" THEN "armed" ELSE @,
              !.force_mr = "no"]

-----------------------------------------------------------------------------
(* Roles and links.                                                        *)

\* find_first_zero_bit of a map whose free ids are S
First(S) == CHOOSE i \in S : \A j \in S : i <= j

\* wl12xx_cmd_role_enable
RoleEnable(w, s) ==
    LET e == ChangeFw(w)
        id == First(Roles \ e.roles)
    IN  IF e.role[s] # Invalid \/ Roles \subseteq e.roles
        THEN {Err(e)}
        ELSE Then(Command(e), LAMBDA f :
                {[f EXCEPT !.roles = @ \cup {id}, !.role[s] = id]})

\* wl12xx_cmd_role_disable
RoleDisable(w, s) ==
    LET e == ChangeFw(w)
    IN  IF e.role[s] = Invalid
        THEN {Err(e)}
        ELSE Then(Command(e), LAMBDA f :
                {[f EXCEPT !.roles = @ \ {f.role[s]}, !.role[s] = Invalid]})

\* wl12xx_allocate_link takes the first free link ...
NextLink(w) == First(Hlids \ w.links)

\* ... for interface v ...
AllocateLink(w, v) ==
    [w EXCEPT !.links = @ \cup {NextLink(w)}, !.map[v] = @ \cup {NextLink(w)}]

\* ... and writes it to the field s of that interface
GetLink(w, s) ==
    IF Hlids \subseteq w.links
    THEN {Err(w)}
    ELSE {[AllocateLink(w, s[1]) EXCEPT !.hlid[s] = NextLink(w), !.ret = "ok"]}

\* wl12xx_free_link
FreeLinks(w, v, L) ==
    [w EXCEPT !.links = @ \ L, !.map[v] = @ \ L,
              !.ba_link = {b \in @ : b[1] \notin L}]

\* ... of the link in field s
DropLink(w, s) ==
    IF w.hlid[s] = Invalid
    THEN w
    ELSE [FreeLinks(w, s[1], {w.hlid[s]}) EXCEPT !.hlid[s] = Invalid]

\* wl12xx_cmd_role_start_sta
RoleStart(w, s) ==
    Then(Soft(w), LAMBDA e :
    Then(IF e.hlid[s] = Invalid THEN GetLink(e, s) ELSE {e}, LAMBDA f :
    OnError(Send(f), LAMBDA g : {DropLink(g, s)})))

\* wl12xx_cmd_role_stop_sta
RoleStop(w, s) ==
    IF w.hlid[s] = Invalid
    THEN {Err(w)}
    ELSE Then(Command(w), LAMBDA e :
         Then(WaitEvent(e), LAMBDA f : {DropLink(f, s)}))

\* wl12xx_cmd_role_start_dev
RoleStartDev(w, v) == RoleStart(w, <<v, "dev">>)

\* wl12xx_cmd_role_stop_dev
RoleStopDev(w, v) == RoleStop(w, <<v, "dev">>)

\* wl12xx_cmd_role_start_ap: a null or missing SSID is refused, and the
\* allocation may fail, before a link is taken, neither with a recovery
RoleStartAp(w, v) ==
    Then(Soft(w), LAMBDA e :
    Then(GetLink(e, <<v, "global">>), LAMBDA f :
    OnError(
        Then(GetLink(f, <<v, "bcast">>), LAMBDA g :
        OnError(Send(g), LAMBDA h : {DropLink(h, <<v, "bcast">>)})),
        LAMBDA g : {DropLink(g, <<v, "global">>)})))

\* fault: the broadcast link is not freed
RoleStopApHalf(w, v) ==
    Then(Command(w), LAMBDA e :
        {[DropLink(e, <<v, "global">>) EXCEPT !.hlid[<<v, "bcast">>] = Invalid]})

\* wl12xx_cmd_role_stop_ap
RoleStopAp(w, v) ==
    Then(Command(w), LAMBDA e :
        {DropLink(DropLink(e, <<v, "bcast">>), <<v, "global">>)})

-----------------------------------------------------------------------------
(* Remain-on-channel and the device role.                                  *)

\* wl12xx_roc: only the first ROC waits for its completion event
Roc(w, r) ==
    IF r \in w.roc THEN {Ok(w)}
    ELSE IF r = Invalid THEN {Err(w)}
    ELSE Then(Command(w), LAMBDA e :
         Then(IF e.roc = {} THEN WaitEvent(e) ELSE {e}, LAMBDA f :
            {[f EXCEPT !.roc = @ \cup {r}]}))

\* wl12xx_croc
Croc(w, r) ==
    IF r \notin w.roc
    THEN {Ok(w)}
    ELSE Then(Command(w), LAMBDA e : {[e EXCEPT !.roc = @ \ {r}]})

\* wl12xx_dev_role_started
DevStarted(w, v) == w.hlid[<<v, "dev">>] # Invalid

\* the test_bit and wl12xx_croc of stop_dev and bss_info_changed.  The bit of an
\* invalid dev_role_id lies outside of roc_map and reads as 0.
CrocDev(w, v) ==
    IF w.role[<<v, "dev">>] \in w.roc THEN Croc(w, w.role[<<v, "dev">>]) ELSE {w}

\* wl12xx_start_dev
StartDev(w, v) ==
    Then(RoleEnable(ChangeFw(w), <<v, "dev">>), LAMBDA e :
    OnError(
        Then(RoleStartDev(e, v), LAMBDA f :
        OnError(Roc(f, f.role[<<v, "dev">>]), LAMBDA g : RoleStopDev(g, v))),
        LAMBDA f : RoleDisable(f, <<v, "dev">>)))

\* fault: no croc
StopDevNoCroc(w, v) ==
    Then(Soft(ChangeFw(w)), LAMBDA e :
    Then(RoleStopDev(e, v), LAMBDA f : RoleDisable(f, <<v, "dev">>)))

\* wl12xx_stop_dev; wl1271_tx_work_locked only returns its bus errors
StopDev(w, v) ==
    Then(Soft(ChangeFw(w)), LAMBDA e :
    Then(CrocDev(e, v), LAMBDA f :
    Then(RoleStopDev(f, v), LAMBDA g :
    RoleDisable(g, <<v, "dev">>))))

StopDevIfStarted(w, v) == IF DevStarted(w, v) THEN StopDev(w, v) ELSE {Ok(w)}

-----------------------------------------------------------------------------
(* Station interfaces.                                                     *)

\* fault: the switch of the firmware does not keep it from joining
JoinAnyway(w, v) ==
    LET e == ChangeFw([w EXCEPT !.associated = @ \cup {v}])
    IN  Then(RoleStart(e, <<v, "sta">>), LAMBDA f : Command(f))

\* wl1271_join with set_assoc: EBUSY when the firmware is to be switched
Join(w, v) ==
    LET e == ChangeFw([w EXCEPT !.associated = @ \cup {v}])
    IN  IF SwitchesToMr(w)
        THEN {Err(e)}
        ELSE Then(RoleStart(e, <<v, "sta">>), LAMBDA f : Command(f))

\* wl1271_unjoin
Unjoin(w, v) == RoleStop(ChangeFw(w), <<v, "sta">>)

\* wl1271_check_operstate
CheckOperstate(w, v, up) ==
    IF v \notin up \/ v \in w.state_sent
    THEN {Ok(w)}
    ELSE Then(Command([w EXCEPT !.state_sent = @ \cup {v}]), LAMBDA e :
         Always(Croc(e, e.role[<<v, "main">>]), LAMBDA f : {Ok(f)}))

\* wl1271_sta_handle_idle
HandleIdle(w, v) ==
    IF v \in w.in_use <=> v \in w.busy THEN {Ok(w)}
    ELSE IF v \in w.busy
         THEN Then(StartDev(w, v), LAMBDA e : {[e EXCEPT !.in_use = @ \cup {v}]})
         ELSE Then(StopDevIfStarted(w, v), LAMBDA e :
              Then(Command(e), LAMBDA f : {[f EXCEPT !.in_use = @ \ {v}]}))

\* fault: the device role stays
AssociatedTwice(w, v, up) ==
    Then(Command(w), LAMBDA e :
    Then(Join(e, v), LAMBDA f :
    Then(Roc(f, f.role[<<v, "main">>]), LAMBDA g : CheckOperstate(g, v, up))))

\* wl1271_bss_info_changed_sta, BSS_CHANGED_ASSOC | BSS_CHANGED_BSSID
Associated(w, v, up) ==
    Then(Command(w), LAMBDA e :
    Then(Join(e, v), LAMBDA f :
    Then(Roc(f, f.role[<<v, "main">>]), LAMBDA g :
    Always(CheckOperstate(g, v, up), LAMBDA h :
    StopDevIfStarted(h, v)))))

\* wl1271_bss_info_changed_sta, BSS_CHANGED_ASSOC with assoc cleared.
Disassociated(w, v) ==
    LET e == [w EXCEPT !.associated = @ \ {v}, !.state_sent = @ \ {v}]
        CrocMain(f) == IF v \in w.state_sent THEN {f} ELSE Croc(f, f.role[<<v, "main">>])
        StayBusy(f) == IF v \in f.busy THEN StartDev(f, v) ELSE {f}
    IN  Then(Command(e), LAMBDA f :
        IF v \notin w.associated
        THEN {f}
        ELSE Then(CrocMain(f), LAMBDA g :
             Then(CrocDev(g, v), LAMBDA h :
             Always(Unjoin(h, v), LAMBDA i : StayBusy(i)))))

\* wl1271_bss_info_changed_sta
BssInfoSta(w, v, changed, ass, up) ==
    Always(IF "IDLE" \in changed THEN HandleIdle(w, v) ELSE {w}, LAMBDA e :
        IF "ASSOC" \notin changed THEN {e}
        ELSE IF v \in ass THEN Associated(e, v, up)
        ELSE Disassociated(e, v))

-----------------------------------------------------------------------------
(* Access points and their stations.                                       *)

\* wl1271_bss_info_changed_ap, BSS_CHANGED_BEACON_ENABLED
BssInfoAp(w, v, beaconing) ==
    IF v \in beaconing
    THEN Then(Command(w), LAMBDA e :
            IF v \in e.ap_started THEN {e}
            ELSE IF SwitchesToMr(e) THEN {ChangeFw(e)}
            ELSE Then(RoleStartAp(ChangeFw(e), v), LAMBDA f :
                 Then(Command(f), LAMBDA g : {[g EXCEPT !.ap_started = @ \cup {v}]})))
    ELSE IF v \notin w.ap_started THEN {w}
         ELSE Then(RoleStopAp(ChangeFw(w), v), LAMBDA e :
                {[e EXCEPT !.ap_started = @ \ {v}]})

\* wl1271_op_bss_info_changed
OpBssInfo(w, v, changed, ass, up, beaconing) ==
    IF w.state # "ON" \/ v \notin w.inited
    THEN {w}
    ELSE Then(Wakeup(w), LAMBDA e :
            IF v \in Aps THEN BssInfoAp(e, v, beaconing)
            ELSE BssInfoSta(e, v, changed, ass, up))

\* wl1271_allocate_sta
AllocateSta(w, c) ==
    IF w.active_sta_count >= MaxStations \/ Hlids \subseteq w.links
    THEN {Err(w)}
    ELSE {[AllocateLink(w, ApOf[c]) EXCEPT
            !.sta_hlid[c] = NextLink(w),
            !.sta_map[ApOf[c]] = @ \cup {NextLink(w)},
            !.active_sta_count = @ + 1, !.ret = "ok"]}

\* faults: the link, the bit of sta_hlid_map or the count is forgotten
FreeStaKeepsLink(w, v, l) ==
    IF l \notin w.sta_map[v] THEN w
    ELSE [w EXCEPT !.sta_map[v] = @ \ {l}, !.active_sta_count = @ - 1]

FreeStaUncounted(w, v, l) ==
    IF l \notin w.sta_map[v] THEN w
    ELSE [FreeLinks(w, v, {l}) EXCEPT !.sta_map[v] = @ \ {l}]

\* wl1271_free_sta
FreeSta(w, v, l) ==
    IF l \notin w.sta_map[v]
    THEN w
    ELSE [FreeLinks(w, v, {l}) EXCEPT !.sta_map[v] = @ \ {l},
                                     !.active_sta_count = @ - 1]

\* wl1271_op_sta_add
OpStaAdd(w, c) ==
    IF w.state # "ON"
    THEN {Ok(w)}
    ELSE Then(AllocateSta(w, c), LAMBDA e :
         OnError(Then(Wakeup(e), LAMBDA f : Command(f)), LAMBDA f :
            {FreeSta(f, ApOf[c], f.sta_hlid[c])}))

\* wl1271_op_sta_remove; a missing completion event is tolerated
OpStaRemove(w, c) ==
    IF w.state # "ON" \/ w.sta_hlid[c] \notin w.sta_map[ApOf[c]]
    THEN {Ok(w)}
    ELSE Then(Wakeup(w), LAMBDA e :
         Then(Command(e), LAMBDA f :
         Then(WaitOrTimeout(f), LAMBDA g : {FreeSta(g, ApOf[c], g.sta_hlid[c])})))

-----------------------------------------------------------------------------
(* Adding and removing interfaces, recovery.                               *)

\* f with the entries of interface v set to x
ForVif(f, v, x) == [s \in DOMAIN f |-> IF s[1] = v THEN x ELSE f[s]]

\* wl12xx_init_vif_data
InitVifData(w, v) ==
    [w EXCEPT !.role = ForVif(@, v, Invalid), !.hlid = ForVif(@, v, Invalid),
              !.map[v] = {}, !.sta_map[v] = {},
              !.associated = @ \ {v}, !.state_sent = @ \ {v},
              !.in_use = @ \ {v}, !.ap_started = @ \ {v},
              !.ba_sta = {b \in @ : b[1] # v}]

\* wl1271_init_vif_specific, which ends with wl1271_set_ba_policies
InitVifSpecific(w) ==
    Then(Command(w), LAMBDA e : Command([e EXCEPT !.ba_count = 0]))

\* the chip is booted for the first interface
BootIfOff(w) == IF w.state = "OFF" THEN Boot(w) ELSE w

\* the role of the interface and its settings
EnableVif(w, v) ==
    Then(RoleEnable(w, <<v, "main">>), LAMBDA e :
    Then(InitVifSpecific(e), LAMBDA f : {[f EXCEPT !.inited = @ \cup {v}]}))

\* What a failure leaves in wlvif is not read before wl12xx_init_vif_data clears
\* it again, so it is cleared at once.
SetupVif(w, v) ==
    OnError(EnableVif(BootIfOff(InitVifData(w, v)), v), LAMBDA e : {InitVifData(e, v)})

\* wl1271_op_add_interface
OpAddInterface(w, v) ==
    Then(IF w.state = "OFF" THEN {Ok(w)} ELSE Wakeup(w), LAMBDA e :
        IF e.state = "RESTARTING" \/ v \in e.inited THEN {Err(e)} ELSE SetupVif(e, v))

\* wl12xx_tx_reset_wlvif: a station gives back all its links, an AP those of
\* its clients
Returned(w, v) == IF v \in Aps THEN w.map[v] \cap w.sta_map[v] ELSE w.map[v]

\* the tail of __wl1271_op_remove_interface, and again no leftovers
Deinit(w, v) ==
    [InitVifData(FreeLinks(w, v, Returned(w, v)), v) EXCEPT
        !.active_sta_count = @ - Cardinality(Returned(w, v) \cap w.sta_map[v])]

\* fault: the interface's own role stays enabled
StopVifKeepsRole(w, v) ==
    Then(Wakeup(w), LAMBDA e : IF v \in Stas THEN StopDevIfStarted(e, v) ELSE {e})

\* the Rx filters are restored when the last AP goes and a station stays, if
\* wake-on-WLAN patterns were given
RestoreFilters(w, v) ==
    {Ok(w)} \cup (IF v \in Aps /\ w.inited \cap Aps = {} /\ w.inited \cap Stas # {}
                  THEN Command(w) ELSE {})

\* the roles of the interface are disabled
StopVif(w, v) ==
    Then(Wakeup(w), LAMBDA e :
    Always(IF v \in Stas THEN StopDevIfStarted(e, v) ELSE {e}, LAMBDA f :
    Then(RestoreFilters(f, v), LAMBDA g : RoleDisable(g, <<v, "main">>))))

\* __wl1271_op_remove_interface
RemoveInterface(w, v) ==
    LET e == [w EXCEPT !.inited = @ \ {v}]
    IN  {Deinit(f, v) : f \in IF e.state = "RESTARTING" THEN {e} ELSE StopVif(e, v)}

\* wl1271_op_remove_interface
OpRemoveInterface(w, v) ==
    IF w.state = "OFF" \/ v \notin w.inited THEN {w} ELSE RemoveInterface(w, v)

\* wl1271_op_stop_locked
OpStop(w) ==
    IF w.state = "OFF"
    THEN w
    ELSE [w EXCEPT !.state = "OFF", !.fw_type = "NONE", !.dwork = "off",
                   !.roles = {}, !.roc = {}, !.links = {SystemHlid},
                   !.active_sta_count = 0]

\* wl1271_recovery_work removes every interface and stops the chip
RecoverAll(w) ==
    LET gone == UNION {Returned(w, v) : v \in w.inited}
        Reset(f) == [s \in DOMAIN f |-> IF s[1] \in w.inited THEN Invalid ELSE f[s]]
        Empty(f) == [v \in Vifs |-> IF v \in w.inited THEN {} ELSE f[v]]
    IN  OpStop([w EXCEPT
            !.role = Reset(@), !.hlid = Reset(@), !.map = Empty(@), !.sta_map = Empty(@),
            !.associated = @ \ w.inited, !.state_sent = @ \ w.inited,
            !.in_use = @ \ w.inited, !.ap_started = @ \ w.inited,
            !.ba_sta = {b \in @ : b[1] \notin w.inited},
            !.ba_link = {b \in @ : b[1] \notin gone},
            !.inited = {}])

-----------------------------------------------------------------------------
(* Rx block-ack sessions: a station interface keeps its bitmap in wlvif,   *)
(* the clients of an AP theirs in wl->links.                               *)

BaActive(w, p, t) ==
    IF p \in Stas THEN <<p, t>> \in w.ba_sta ELSE <<w.sta_hlid[p], t>> \in w.ba_link

BaSet(w, p, t) ==
    IF p \in Stas
    THEN [w EXCEPT !.ba_sta = @ \cup {<<p, t>>}, !.ba_count = @ + 1]
    ELSE [w EXCEPT !.ba_link = @ \cup {<<w.sta_hlid[p], t>>}, !.ba_count = @ + 1]

BaClear(w, p, t) ==
    IF p \in Stas
    THEN [w EXCEPT !.ba_sta = @ \ {<<p, t>>}, !.ba_count = @ - 1]
    ELSE [w EXCEPT !.ba_link = @ \ {<<w.sta_hlid[p], t>>}, !.ba_count = @ - 1]

\* wl1271_op_ampdu_action, IEEE80211_AMPDU_RX_START; ba_allowed is left open
OpAmpduStart(w, p, t) ==
    IF w.state # "ON"
    THEN {Err(w)}
    ELSE Then(Wakeup(w), LAMBDA e :
        IF e.ba_count >= MaxBa \/ BaActive(e, p, t)
        THEN {Err(e)}
        ELSE {Err(e)} \cup Then(Command(e), LAMBDA f :
            {BaSet(f, p, t)}))

\* fault: the bit stays set
OpAmpduStopKeepsBit(w, p, t) ==
    IF w.state # "ON"
    THEN {Err(w)}
    ELSE Then(Wakeup(w), LAMBDA e :
        IF ~BaActive(e, p, t)
        THEN {Err(e)}
        ELSE Then(Command(e), LAMBDA f : {[f EXCEPT !.ba_count = @ - 1]}))

\* wl1271_op_ampdu_action, IEEE80211_AMPDU_RX_STOP
OpAmpduStop(w, p, t) ==
    IF w.state # "ON"
    THEN {Err(w)}
    ELSE Then(Wakeup(w), LAMBDA e :
        IF ~BaActive(e, p, t)
        THEN {Err(e)}
        ELSE Then(Command(e), LAMBDA f :
            {BaClear(f, p, t)}))

-----------------------------------------------------------------------------
Init ==
    /\ wl = [state |-> "OFF", ret |-> "ok", fw_type |-> "NONE", force_mr |-> "no",
             dwork |-> "off", roles |-> {}, roc |-> {}, links |-> {SystemHlid},
             role |-> [s \in RoleSlots |-> Invalid],
             hlid |-> [s \in LinkSlots |-> Invalid],
             map |-> [v \in Vifs |-> {}], sta_map |-> [v \in Vifs |-> {}],
             sta_hlid |-> [c \in Clients |-> 0], active_sta_count |-> 0,
             inited |-> {}, up |-> {}, busy |-> {}, associated |-> {},
             state_sent |-> {}, in_use |-> {}, ap_started |-> {},
             ba_sta |-> {}, ba_link |-> {}, ba_count |-> 0]
    /\ work = {} /\ assoc = {} /\ oper = {} /\ beacon = {}
    /\ uploaded = {} /\ sessions = {}
    /\ restart = "no" /\ phase = "none" /\ pending = {} /\ odd = {}
    /\ holder = "none" /\ left = {}

\* no handler is in the middle of its loop under wl->mutex
MutexFree == holder = "none"

\* the rtnl lock is not held by ieee80211_restart_work
RtnlFree == MutexFree /\ phase = "none"

\* local->in_reconfig, from ieee80211_restart_hw on; ieee80211_reconfig clears it
\* before the "ba" phase, even if another restart was asked for meanwhile
InReconfig == restart = "yes" \/ phase \in {"add", "bss", "sta"}

NoSessions(p) == \A t \in Tids : <<p, t>> \notin sessions

\* ieee80211_do_open
Open(v) ==
    /\ RtnlFree /\ v \notin wl.up
    /\ \E e \in OpAddInterface(wl, v) :
         wl' = Ok(IF Good(e) THEN [e EXCEPT !.up = @ \cup {v}, !.busy = @ \cup (Aps \cap {v})]
                  ELSE IF e.up = {} THEN OpStop(e) ELSE e)
    /\ UNCHANGED <<mac, recon, lock, odd>>

\* ieee80211_do_stop, once the interface is disconnected or its AP stopped
Close(v) ==
    /\ RtnlFree /\ v \in wl.up \ (assoc \cup beacon)
    /\ \A c \in uploaded : ApOf[c] # v
    /\ \E e \in OpRemoveInterface([wl EXCEPT !.up = @ \ {v}, !.busy = @ \ {v}], v) :
         wl' = Ok(IF e.up = {} THEN OpStop(e) ELSE e)
    /\ work' = work \ {v} /\ oper' = oper \ {v}
    /\ UNCHANGED <<assoc, beacon, uploaded, sessions, recon, lock, odd>>

\* __ieee80211_recalc_idle: the driver hears of it when v changes
Recalc(w, v, needed) ==
    IF v \in w.busy <=> v \in needed
    THEN {w}
    ELSE LET busy == IF v \in needed THEN w.busy \cup {v} ELSE w.busy \ {v}
         IN  OpBssInfo([w EXCEPT !.busy = busy], v, {"IDLE"}, assoc, oper, beacon)

\* ieee80211_work_work takes up a work (authentication, remain-on-channel) ...
StartWork(v) ==
    /\ MutexFree /\ phase = "none" /\ v \in wl.up \ work
    /\ work' = work \cup {v}
    /\ \E e \in Recalc(wl, v, assoc \cup work') : wl' = Ok(e)
    /\ UNCHANGED <<assoc, oper, beacon, uploaded, sessions, recon, lock, odd>>

\* ... and ends it
EndWork(v) ==
    /\ MutexFree /\ v \in work
    /\ work' = work \ {v}
    /\ \E e \in Recalc(wl, v, assoc \cup work') : wl' = Ok(e)
    /\ UNCHANGED <<assoc, oper, beacon, uploaded, sessions, recon, lock, odd>>

\* ieee80211_recalc_idle after a disconnection
RecalcIdle(v) ==
    /\ MutexFree /\ v \in (wl.up \cap wl.busy) \ (assoc \cup work)
    /\ \E e \in Recalc(wl, v, assoc \cup work) : wl' = Ok(e)
    /\ UNCHANGED <<mac, recon, lock, odd>>

\* ieee80211_set_associated.  Rx is dropped from ieee80211_restart_hw on, so
\* until the restart only a frame received before the recovery gets here, and
\* not for an interface that was opened since.
Associate(v) ==
    /\ MutexFree /\ phase = "none" /\ v \in (work \cap wl.busy) \ assoc
    /\ restart = "yes" => v \notin wl.inited
    /\ assoc' = assoc \cup {v} /\ work' = work \ {v}
    /\ \E e \in OpBssInfo(wl, v, {"ASSOC"}, assoc', oper, beacon) : wl' = Ok(e)
    /\ UNCHANGED <<oper, beacon, uploaded, sessions, recon, lock, odd>>

\* ieee80211_set_disassoc, after the teardown of the block-ack sessions
Disassociate(v) ==
    /\ MutexFree /\ v \in assoc /\ NoSessions(v)
    /\ assoc' = assoc \ {v}
    /\ \E e \in OpBssInfo(wl, v, {"ASSOC"}, assoc', oper, beacon) : wl' = Ok(e)
    /\ UNCHANGED <<work, oper, beacon, uploaded, sessions, recon, lock, odd>>

\* the netdev of v becomes IF_OPER_UP; wl1271_dev_notify visits every station
LinkUp(v) ==
    /\ RtnlFree /\ v \in assoc \ oper
    /\ oper' = oper \cup {v}
    /\ LET todo == IF wl.state = "ON" THEN wl.inited \cap Stas ELSE {}
       IN  left' = todo /\ holder' = IF todo = {} THEN "none" ELSE "dev_notify"
    /\ UNCHANGED <<wl, work, assoc, beacon, uploaded, sessions, recon, odd>>

NotifyVif(v) ==
    /\ holder = "dev_notify" /\ v \in left
    /\ \E e \in IF v \in wl.associated THEN Wakeup(wl) ELSE {wl} :
         /\ left' = IF Good(e) THEN left \ {v} ELSE {}
         /\ holder' = IF left' = {} THEN "none" ELSE holder
         /\ \E f \in IF Good(e) /\ v \in wl.associated
                     THEN CheckOperstate(e, v, oper) ELSE {e} : wl' = Ok(f)
    /\ UNCHANGED <<mac, recon, odd>>

\* linkwatch takes the netdev down some time after the carrier was lost
LinkDown(v) ==
    /\ RtnlFree /\ v \in oper \ assoc
    /\ oper' = oper \ {v}
    /\ UNCHANGED <<wl, work, assoc, beacon, uploaded, sessions, recon, lock, odd>>

\* wl1271_op_config with a new channel visits every interface; for an AP it
\* changes nothing that is modelled
Config ==
    /\ MutexFree /\ wl.state = "ON"
    /\ \E e \in Wakeup(wl) :
         /\ wl' = Ok(e)
         /\ left' = IF Good(e) THEN wl.inited \cap Stas ELSE {}
         /\ holder' = IF left' = {} THEN "none" ELSE "op_config"
    /\ UNCHANGED <<mac, recon, odd>>

\* wl12xx_config_vif: an unassociated station moves its device role
ConfigChannel(w, v) ==
    LET Move(e) == IF v \notin e.associated /\ DevStarted(e, v) /\ e.up \cap e.busy # {}
                   THEN Then(StopDev(e, v), LAMBDA f : StartDev(f, v))
                   ELSE {Ok(e)}
    IN  Then(Soft(w), LAMBDA e : Always(Command(e), LAMBDA f : Move(f)))

ConfigVif(v) ==
    /\ holder = "op_config" /\ v \in left
    /\ \E e \in ConfigChannel(wl, v) :
         /\ wl' = Ok(e)
         /\ left' = IF Good(e) THEN left \ {v} ELSE {}
         /\ holder' = IF left' = {} THEN "none" ELSE holder
    /\ UNCHANGED <<mac, recon, odd>>

-----------------------------------------------------------------------------
\* ieee80211_config_beacon, for a new or a changed beacon
SetBeacon(v) ==
    /\ RtnlFree /\ v \in wl.up
    /\ beacon' = beacon \cup {v}
    /\ \E e \in OpBssInfo(wl, v, {}, assoc, oper, beacon') : wl' = Ok(e)
    /\ UNCHANGED <<work, assoc, oper, uploaded, sessions, recon, lock, odd>>

\* ieee80211_del_beacon, and do_stop of an AP; the clients are gone by then
DelBeacon(v) ==
    /\ RtnlFree /\ v \in beacon
    /\ \A c \in uploaded : ApOf[c] # v
    /\ beacon' = beacon \ {v}
    /\ \E e \in OpBssInfo(wl, v, {}, assoc, oper, beacon') : wl' = Ok(e)
    /\ UNCHANGED <<work, assoc, oper, uploaded, sessions, recon, lock, odd>>

\* op_sta_add does not ask whether the interface is initialised
Stray(c) == IF wl.state = "ON" /\ ApOf[c] \notin wl.inited THEN {"stray"} ELSE {}

\* sta_info_insert: drv_priv of a station is zero at first, and lives with it.
\* No client can authenticate while Rx is dropped for in_reconfig.
StaAdd(c) ==
    /\ RtnlFree /\ ~InReconfig /\ c \notin uploaded /\ ApOf[c] \in beacon
    /\ \E e \in OpStaAdd(wl, c) :
         /\ wl' = IF Good(e) THEN e ELSE [Ok(e) EXCEPT !.sta_hlid[c] = 0]
         /\ uploaded' = IF Good(e) THEN uploaded \cup {c} ELSE uploaded
    /\ odd' = odd \cup Stray(c)
    /\ UNCHANGED <<work, assoc, oper, beacon, sessions, recon, lock>>

\* __sta_info_destroy, after the teardown of the block-ack sessions
StaRemove(c) ==
    /\ RtnlFree /\ c \in uploaded /\ NoSessions(c)
    /\ uploaded' = uploaded \ {c}
    /\ \E e \in OpStaRemove(wl, c) : wl' = [Ok(e) EXCEPT !.sta_hlid[c] = 0]
    /\ UNCHANGED <<work, assoc, oper, beacon, sessions, recon, lock, odd>>

\* the firmware receives only for the interfaces it was told of, and
\* ieee80211_restart_work has flushed what was received before the recovery
Received(p) ==
    ~InReconfig /\ (restart = "late" => (IF p \in Stas THEN p ELSE ApOf[p]) \in wl.inited)

\* ieee80211_process_addba_request
AmpduStart(p, t) ==
    /\ RtnlFree /\ Received(p) /\ p \in assoc \cup uploaded /\ <<p, t>> \notin sessions
    /\ \E e \in OpAmpduStart(wl, p, t) :
         /\ wl' = Ok(e)
         /\ sessions' = IF Good(e) THEN sessions \cup {<<p, t>>} ELSE sessions
    /\ UNCHANGED <<work, assoc, oper, beacon, uploaded, recon, lock, odd>>

\* ___ieee80211_stop_rx_ba_session; drv_ampdu_action does not reach the
\* driver before ieee80211_reconfig has added everything back
AmpduStop(p, t) ==
    /\ MutexFree /\ <<p, t>> \in sessions
    /\ sessions' = sessions \ {<<p, t>>}
    /\ \E e \in IF InReconfig THEN {wl} ELSE OpAmpduStop(wl, p, t) : wl' = Ok(e)
    /\ UNCHANGED <<work, assoc, oper, beacon, uploaded, recon, lock, odd>>

-----------------------------------------------------------------------------
(* Recovery and the restart of the hardware by mac80211.                   *)

\* the firmware's watchdog, or any command not modelled, queues a recovery
FwCrash ==
    /\ MutexFree /\ wl.state = "ON" /\ "cmd" \in Faults
    /\ wl' = Recover(wl)
    /\ UNCHANGED <<mac, recon, lock, odd>>

\* the timer of delayed_recovery
DelayedRecoveryTimer ==
    /\ MutexFree /\ wl.dwork = "armed"
    /\ wl' = [wl EXCEPT !.dwork = "queued"]
    /\ UNCHANGED <<mac, recon, lock, odd>>

\* wl12xx_delayed_recovery_work
DelayedRecovery ==
    /\ MutexFree /\ wl.dwork = "queued"
    /\ LET e == [wl EXCEPT !.dwork = "off"]
           f == IF SwitchesToMr(e) THEN [e EXCEPT !.force_mr = "yes"] ELSE e
       IN  IF NeedFwChange(wl) = "NONE"
           THEN wl' = e
           ELSE \E g \in Wakeup(f) : wl' = Ok(IF Good(g) THEN Recover(g) ELSE g)
    /\ UNCHANGED <<mac, recon, lock, odd>>

\* wl1271_recovery_work, with ieee80211_restart_hw; nothing makes it wait for
\* the restart of an earlier recovery
RecoveryWork ==
    /\ MutexFree /\ wl.state = "RESTARTING"
    /\ wl' = RecoverAll(wl)
    /\ restart' = "yes" /\ odd' = odd \ {"redone"}
    /\ UNCHANGED <<mac, phase, pending, lock>>

\* ieee80211_restart_work, ieee80211_reconfig: the interfaces are added, then
\* their BSS information and the clients of the APs, then the block-ack
\* sessions are torn down
Reconfig ==
    /\ RtnlFree /\ restart # "no"
    /\ restart' = "no"
    /\ pending' = wl.up /\ phase' = IF wl.up = {} THEN "none" ELSE "add"
    /\ odd' = IF wl.inited = {} THEN odd ELSE odd \cup {"redone"}
    /\ UNCHANGED <<wl, mac, lock>>

ReconfigAdd(v) ==
    /\ MutexFree /\ phase = "add" /\ v \in pending
    /\ \E e \in OpAddInterface(wl, v) : wl' = Ok(e)
    /\ pending' = pending \ {v}
    /\ UNCHANGED <<mac, restart, phase, lock, odd>>

ReconfigBss(v) ==
    /\ MutexFree /\ phase = "bss" /\ v \in pending
    /\ \E e \in OpBssInfo(wl, v, {"IDLE", "ASSOC"}, assoc, oper, beacon) : wl' = Ok(e)
    /\ pending' = pending \ {v}
    /\ UNCHANGED <<mac, restart, phase, lock, odd>>

ReconfigSta(c) ==
    /\ MutexFree /\ phase = "sta" /\ c \in pending
    /\ \E e \in OpStaAdd(wl, c) : wl' = Ok(e)
    /\ pending' = pending \ {c}
    /\ odd' = odd \cup Stray(c)
    /\ UNCHANGED <<mac, restart, phase, lock>>

ReconfigNext ==
    /\ MutexFree /\ pending = {}
    /\ \/ phase = "add" /\ phase' = "bss" /\ pending' = wl.up
       \/ phase = "bss" /\ phase' = "sta" /\ pending' = uploaded
       \/ phase = "sta" /\ phase' = "ba" /\ UNCHANGED pending
       \/ phase = "ba" /\ sessions = {} /\ phase' = "none" /\ UNCHANGED pending
    /\ restart' = IF phase = "sta" /\ restart = "yes" THEN "late" ELSE restart
    /\ UNCHANGED <<wl, mac, lock, odd>>

-----------------------------------------------------------------------------
Next ==
    \/ \E v \in Vifs : Open(v) \/ Close(v) \/ ReconfigAdd(v) \/ ReconfigBss(v)
    \/ \E v \in Stas : \/ StartWork(v) \/ EndWork(v) \/ RecalcIdle(v) \/ Associate(v)
                       \/ Disassociate(v) \/ LinkUp(v) \/ NotifyVif(v) \/ LinkDown(v)
                       \/ ConfigVif(v)
    \/ \E v \in Aps : SetBeacon(v) \/ DelBeacon(v)
    \/ \E c \in Clients : StaAdd(c) \/ StaRemove(c) \/ ReconfigSta(c)
    \/ \E p \in Stas \cup Clients, t \in Tids : AmpduStart(p, t) \/ AmpduStop(p, t)
    \/ Config \/ FwCrash \/ DelayedRecoveryTimer \/ DelayedRecovery
    \/ RecoveryWork \/ Reconfig \/ ReconfigNext

Spec == Init /\ [][Next]_vars

-----------------------------------------------------------------------------
(* Properties.                                                             *)

On == wl.state = "ON"

\* the links held by interface v in its own fields
Held(w, v) == {w.hlid[s] : s \in {x \in LinkSlots : x[1] = v}} \ {Invalid}

\* Every link belongs to one interface and to one use of it, whatever commands
\* fail: a link that an interface counts as its own is allocated and is no
\* other interface's (nor the system link), and the fields sta.hlid, dev_hlid,
\* ap.global_hlid and ap.bcast_hlid and the clients' links are pairwise
\* different links of the interface itself.  op_tx and the completion of
\* frames look up the interface of a frame by these maps.
LinksOwned ==
    On /\ "stray" \notin odd =>
          /\ SystemHlid \in wl.links
          /\ \A v \in Vifs : wl.map[v] \subseteq wl.links \ {SystemHlid}
          /\ \A u, v \in Vifs : u # v => wl.map[u] \cap wl.map[v] = {}
          /\ \A v \in Vifs : Held(wl, v) \cup wl.sta_map[v] \subseteq wl.map[v]
          /\ \A v \in Vifs : Held(wl, v) \cap wl.sta_map[v] = {}
          /\ \A r, s \in LinkSlots : r # s /\ wl.hlid[r] = wl.hlid[s] => wl.hlid[r] = Invalid

\* No link is lost: while the firmware runs, every allocated link is the system
\* link or in use by the interface that counts it as its own.  Without it the
\* links run out and no station can connect any more.
NoLinkLost ==
    On /\ odd = {} =>
          /\ wl.links = {SystemHlid} \cup UNION {wl.map[v] : v \in Vifs}
          /\ \A v \in Vifs : wl.map[v] = Held(wl, v) \cup wl.sta_map[v]

\* Roles are not lost or shared: the roles marked in roles_map are those of the
\* interfaces, each role of one interface, and no removed interface has one.
RolesOwned ==
    On => /\ wl.roles = {wl.role[s] : s \in RoleSlots} \ {Invalid}
          /\ \A r, s \in RoleSlots : r # s /\ wl.role[r] = wl.role[s] => wl.role[r] = Invalid
          /\ \A v \in Vifs : wl.role[<<v, "main">>] # Invalid <=> v \in wl.inited

\* A ROC is never forgotten: the radio is reserved only for a device role that
\* is started, or for the role of a station that has joined and is not authorised
\* yet (STA_STATE_SENT), whatever handler stopped the role and whatever failed on
\* the way.  A leftover would keep the firmware on one channel.  (A recovery that
\* overtakes the restart of an earlier one does leave such a ROC behind.)
RocOwned ==
    On /\ "redone" \notin odd =>
        wl.roc \subseteq {wl.role[<<v, "dev">>] : v \in {u \in Stas : DevStarted(wl, u)}}
            \cup {wl.role[<<v, "main">>] : v \in
                    {u \in Stas : wl.hlid[<<u, "sta">>] # Invalid /\ u \notin wl.state_sent}}

\* A station interface that is in use works through exactly one role, its
\* device role before the association and its own role after it, and an idle
\* one through none; the two are swapped without a gap by bss_info_changed.
OneRoleInUse ==
    On => \A v \in Stas \cap wl.inited :
            LET dev == DevStarted(wl, v)
                sta == wl.hlid[<<v, "sta">>] # Invalid
            IN  /\ ~(dev /\ sta)
                /\ (dev \/ sta) <=> v \in wl.in_use
                /\ sta => v \in wl.associated
                /\ dev <=> wl.role[<<v, "dev">>] # Invalid

\* The single-role firmware never has two roles to serve: a second station or
\* AP is not started on it, the driver switches to the multi-role one first.
SingleRoleFirmware ==
    On /\ wl.fw_type = "NORMAL" =>
        Cardinality(wl.ap_started \cup {v \in Stas : wl.hlid[<<v, "sta">>] # Invalid}) <= 1

\* The driver and mac80211 agree on the clients: outside of a restart the links
\* an AP holds for clients are those of the clients mac80211 has handed over,
\* active_sta_count counts them, and an AP has its two own links exactly while
\* it is started.
ClientsTracked ==
    On /\ phase \in {"none", "ba"} /\ restart = "no" /\ odd = {} =>
        /\ \A v \in Aps :
             wl.sta_map[v] = {wl.sta_hlid[c] : c \in {d \in uploaded : ApOf[d] = v}}
        /\ wl.active_sta_count = Cardinality(uploaded)
        /\ wl.active_sta_count = Cardinality(UNION {wl.sta_map[v] : v \in Aps})
        /\ \A v \in Aps \cap wl.inited, k \in {"global", "bcast"} :
             wl.hlid[<<v, k>>] # Invalid <=> v \in wl.ap_started

\* A block-ack session of the driver is one of mac80211's: a bit of a link's
\* ba_bitmap is set only for a client that holds the link, a bit of a station's
\* ba_rx_bitmap only while mac80211 has the session.  Otherwise the next client
\* on that link, or the next association, could not open a session.
BaOnLiveLinks ==
    On /\ odd = {} =>
        /\ wl.ba_sta \subseteq sessions
        /\ \A b \in wl.ba_link : \E c \in uploaded :
             /\ wl.sta_hlid[c] = b[1] /\ b[1] \in wl.sta_map[ApOf[c]]
             /\ <<c, b[2]>> \in sessions

\* "number of currently active RX BA sessions" (wl12xx.h, ba_rx_session_count):
\* the count is that of the bits set in the bitmaps.  op_ampdu_action compares it
\* with RX_BA_MAX_SESSIONS.
BaCountExact ==
    On => wl.ba_count = Cardinality(wl.ba_sta) + Cardinality(wl.ba_link)

=============================================================================
