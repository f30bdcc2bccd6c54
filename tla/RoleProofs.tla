----------------------------- MODULE RoleProofs -----------------------------
(***************************************************************************)
(* Roles, links and remain-on-channel over the whole life of the driver: the*)
(* handlers that add and remove interfaces, the change of firmware and the *)
(* recovery, the inductive invariant Inv, and the theorems.                *)
(***************************************************************************)
EXTENDS RoleSteps, TLAPS

-----------------------------------------------------------------------------
(* Adding and removing interfaces.                                         *)

\* the fields of interface v are empty, and those of the others are as before
Emptied(e, w, v) ==
    /\ \A s \in RoleSlots : e.role[s] = IF s[1] = v THEN Invalid ELSE w.role[s]
    /\ \A s \in LinkSlots : e.hlid[s] = IF s[1] = v THEN Invalid ELSE w.hlid[s]
    /\ \A u \in Vifs : /\ e.map[u] = IF u = v THEN {} ELSE w.map[u]
                       /\ e.sta_map[u] = IF u = v THEN {} ELSE w.sta_map[u]
    /\ e.associated = w.associated \ {v} /\ e.state_sent = w.state_sent \ {v}
    /\ e.in_use = w.in_use \ {v} /\ e.ap_started = w.ap_started \ {v}

\* wl12xx_init_vif_data.
LEMMA ClearsVif ==
    ASSUME NEW J, NEW w, Tidy(w, J), NEW v \in Vifs, NEW e, e = InitVifData(w, v)
    PROVE  /\ Tidy(e, J \ {v}) /\ Stays(e, w) /\ Emptied(e, w, v)
           /\ e.roles = w.roles /\ e.roc = w.roc /\ e.links = w.links
           /\ e.state = w.state /\ e.ret = w.ret
<1> DEFINE B == {b \in w.ba_sta : b[1] # v}
           r == ForVif(w.role, v, Invalid)
           h == ForVif(w.hlid, v, Invalid)
<1>1. e = [w EXCEPT !.role = r, !.hlid = h, !.map[v] = {}, !.sta_map[v] = {},
                    !.associated = @ \ {v}, !.state_sent = @ \ {v},
                    !.in_use = @ \ {v}, !.ap_started = @ \ {v}, !.ba_sta = B]
  BY Zenon DEF InitVifData
<1>2. /\ r \in [RoleSlots -> Roles \cup {Invalid}] /\ h \in [LinkSlots -> Hlids \cup {Invalid}]
      /\ \A s \in RoleSlots : r[s] = IF s[1] = v THEN Invalid ELSE w.role[s]
      /\ \A s \in LinkSlots : h[s] = IF s[1] = v THEN Invalid ELSE w.hlid[s]
  BY Zenon DEF ForVif, Tidy
<1> HIDE DEF B, r, h
<1>3. /\ e.role = r /\ e.hlid = h
      /\ e.map = [w.map EXCEPT ![v] = {}] /\ e.sta_map = [w.sta_map EXCEPT ![v] = {}]
      /\ e.associated = w.associated \ {v} /\ e.state_sent = w.state_sent \ {v}
      /\ e.in_use = w.in_use \ {v} /\ e.ap_started = w.ap_started \ {v}
      /\ Watched \subseteq DOMAIN e /\ Stays(e, w)
      /\ e.roles = w.roles /\ e.roc = w.roc /\ e.links = w.links
      /\ e.state = w.state /\ e.ret = w.ret
  BY <1>1 DEF Tidy, Watched, Stays
<1>4. /\ e.map \in [Vifs -> SUBSET Hlids] /\ e.sta_map \in [Vifs -> SUBSET Hlids]
      /\ \A u \in Vifs : /\ e.map[u] = IF u = v THEN {} ELSE w.map[u]
                         /\ e.sta_map[u] = IF u = v THEN {} ELSE w.sta_map[u]
  BY <1>3 DEF Tidy
<1>5. QED
  BY <1>2, <1>3, <1>4 DEF Emptied, Tidy

\* the links of the interfaces that are not initialised are none
Clean(d) == \A v \in Vifs \ d.inited : d.map[v] = {} /\ d.sta_map[v] = {}

\* what holds of the driver between two handlers
Driver(d) ==
    /\ Tidy(d, d.inited) /\ d.inited \subseteq d.up /\ d.up \subseteq Vifs
    /\ d.state \in {"OFF", "ON", "RESTARTING"}
    /\ d.state = "OFF" =>
         d.inited = {} /\ d.roles = {} /\ d.roc = {} /\ d.links = {SystemHlid}
    /\ d.state # "RESTARTING" => Ready(d)

\* ... while no client is a stray
Kept(d) == Clean(d) /\ (d.state # "RESTARTING" => Whole(d))

\* The driver has nothing left when it is stopped.
LEMMA Blank ==
    ASSUME NEW d, Tidy(d, {}), d.inited = {}, d.roles = {}, d.roc = {}, d.links = {SystemHlid}
    PROVE  /\ Ready(d) /\ RocOK(d) /\ Started(d) = {}
           /\ Clean(d) => Whole(d)
<1>1. /\ \A s \in RoleSlots : d.role[s] = Invalid
      /\ \A s \in LinkSlots : d.hlid[s] = Invalid
      /\ d.associated = {} /\ d.state_sent = {} /\ d.ap_started = {}
  BY Zenon DEF Tidy
<1>2. /\ \A v \in Vifs : Dev(v) \in RoleSlots /\ Main(v) \in RoleSlots /\ Dev(v) \in LinkSlots
      /\ \A v \in Stas : Sta(v) \in LinkSlots
      /\ \A v \in Aps : Glob(v) \in LinkSlots /\ Bcast(v) \in LinkSlots
  BY Zenon DEF Dev, Main, Sta, Glob, Bcast, RoleSlots, LinkSlots, Vifs
<1>3. ASSUME Clean(d) PROVE Whole(d)
  BY <1>1, <1>3, ConstantsAssumption
  DEF Whole, Owned, Tidy, SystemHlid, Hlids, Invalid, Clean
<1>4. QED
  BY <1>1, <1>2, <1>3, Zenon DEF Ready, Fit, RolesOK, DevOK, StaOK, ApOK, Mains, RocOK, Started

\* A handler that adds and removes no interface keeps what holds of the driver.
LEMMA ServesDriver ==
    ASSUME NEW w, Driver(w), NEW e, Serves(e, w)
    PROVE  /\ Driver(e) /\ (Kept(w) => Kept(e))
           /\ e.state # "RESTARTING" => w.state # "RESTARTING"
<1>1. /\ Tidy(e, e.inited) /\ e.inited = w.inited /\ e.up = w.up /\ Elsewhere(e, w, w.inited)
      /\ e.state = w.state \/ (w.state = "ON" /\ e.state = "RESTARTING")
  BY Zenon DEF Serves, Keeps, Stays
<1> USE <1>1
<1>2. Clean(w) => Clean(e)
  BY Zenon DEF Clean, Elsewhere
<1>3. CASE w.state = "OFF"
  BY <1>2, <1>3, Blank, Zenon DEF Driver, Kept, Still, SameRoles, SameRoc, SameLinks, Serves
<1>4. CASE w.state # "OFF"
  BY <1>2, <1>4, Zenon DEF Driver, Kept, Serves
<1>5. QED
  BY <1>3, <1>4, Zenon

\* What holds of the driver does not depend on its other fields.
LEMMA Alike ==
    ASSUME NEW w, NEW e, Watched \subseteq DOMAIN e, Still(e, w), e.inited = w.inited
    PROVE  /\ Tidy(w, w.inited) => Tidy(e, e.inited)
           /\ Ready(w) => Ready(e)
           /\ RocOK(w) => RocOK(e)
           /\ Whole(w) => Whole(e)
           /\ Clean(w) => Clean(e)
           /\ Started(e) = Started(w)
<1>1. e.role = w.role /\ e.hlid = w.hlid /\ e.roles = w.roles /\ e.roc = w.roc
      /\ e.map = w.map /\ e.sta_map = w.sta_map
  BY Zenon DEF Still, SameRoles, SameLinks, SameRoc
<1>2. e.associated = w.associated /\ e.state_sent = w.state_sent /\ e.ap_started = w.ap_started
  BY Zenon DEF Still, SameBss
<1>3. QED
  BY <1>1, <1>2, WholeKept, Untouched
  DEF Ready, Fit, RolesOK, DevOK, StaOK, ApOK, Mains, RocOK, RocOf, Clean, Started, Still

\* Interface v is empty in a tidy state that has it not.
LEMMA Unused ==
    ASSUME NEW J, NEW w, Tidy(w, J), NEW v \in Vifs \ J, NEW K, NEW e, Tidy(e, K), Emptied(e, w, v)
    PROVE  e.role = w.role /\ e.hlid = w.hlid /\ SameBss(e, w)
<1>1. QED
  BY DEF Tidy, Emptied, SameBss

\* wl1271_init_vif_specific.
LEMMA Specific ==
    ASSUME Hard, NEW J, NEW w, Tidy(w, J), NEW e \in InitVifSpecific(w)
    PROVE  Plain(e, w, J)
<1>1. PICK d \in Command(w) : IF Good(d) THEN e \in Command([d EXCEPT !.ba_count = 0]) ELSE e = d
  BY Zenon DEF InitVifSpecific, Then
<1> USE <1>1
<1>2. Plain(d, w, J)
  BY Issued, Zenon
<1> USE <1>2
<1> DEFINE c == [d EXCEPT !.ba_count = 0]
<1>3. Keeps(c, d, J) /\ Still(c, d) /\ c.state = d.state
  <2>1. /\ Watched \subseteq DOMAIN c /\ Still(c, d) /\ Stays(c, d) /\ c.state = d.state
    BY Zenon DEF Plain, Keeps, Tidy, Watched, Still, SameRoles, SameLinks, SameRoc, SameBss, Stays
  <2> HIDE DEF c
  <2>2. QED
    BY <2>1, Untouched, Zenon DEF Keeps, Plain
<1> HIDE DEF c
<1>4. CASE Good(d)
  BY <1>3, <1>4, Again, Issued DEF Plain, Still, Keeps, c
<1>5. CASE ~Good(d)
  BY <1>5, Zenon
<1>6. QED
  BY <1>4, <1>5, Zenon

\* wl1271_op_add_interface while the firmware has not failed: the role of the
\* interface is enabled, or nothing is left of the attempt.
LEMMA SetsUp ==
    ASSUME Hard, NEW w, Tidy(w, w.inited), w.inited \subseteq Vifs, w.state \in {"OFF", "ON"},
           NEW v \in Vifs \ w.inited, NEW e \in SetupVif(w, v)
    PROVE  /\ e.inited = IF Good(e) THEN w.inited \cup {v} ELSE w.inited
           /\ Tidy(e, e.inited) /\ e.up = w.up /\ e.busy = w.busy
           /\ e.state \in {"ON", "RESTARTING"}
           /\ w.state = "ON" => e.fw_type = w.fw_type
           /\ e.hlid = w.hlid /\ e.links = w.links /\ e.roc = w.roc /\ SameBss(e, w)
           /\ e.state = "ON" => IF Good(e) THEN Enabled(e, w, Main(v)) ELSE SameRoles(e, w)
           /\ \A u \in Vifs : /\ e.map[u] = IF u = v THEN {} ELSE w.map[u]
                              /\ e.sta_map[u] = IF u = v THEN {} ELSE w.sta_map[u]
<1> DEFINE J == w.inited
           K == w.inited \cup {v}
           a == InitVifData(w, v)
           b == BootIfOff(a)
<1>1. /\ Tidy(a, J) /\ Stays(a, w) /\ Emptied(a, w, v) /\ a.roles = w.roles /\ a.roc = w.roc
      /\ a.links = w.links /\ a.state = w.state
  <2>1. a = InitVifData(w, v) /\ J \ {v} = J
    BY Zenon
  <2> HIDE DEF a
  <2>2. QED
    BY <2>1, ClearsVif
<1>2. a.role = w.role /\ a.hlid = w.hlid /\ SameBss(a, w)
  BY <1>1, Unused, Zenon
<1> HIDE DEF a
<1>3. /\ Watched \subseteq DOMAIN b /\ Still(b, a) /\ b.state = "ON"
      /\ b.inited = a.inited /\ b.up = a.up /\ b.busy = a.busy
      /\ w.state = "ON" => b.fw_type = a.fw_type
  <2>1. Watched \subseteq DOMAIN a
    BY <1>1, Zenon DEF Tidy
  <2>2. CASE a.state = "OFF"
    <3>1. b = [a EXCEPT !.state = "ON", !.fw_type = b.fw_type, !.dwork = b.dwork, !.force_mr = "no"]
      BY <2>1, <2>2, Zenon DEF BootIfOff, Boot, Watched
    <3> HIDE DEF b
    <3>2. QED
      BY <1>1, <2>1, <2>2, <3>1, ZenonT(30) DEF Watched, Still, SameRoles, SameLinks, SameRoc, SameBss
  <2>3. CASE a.state # "OFF"
    BY <1>1, <2>1, <2>3, Zenon DEF BootIfOff, Still, SameRoles, SameLinks, SameRoc, SameBss
  <2>4. QED
    BY <2>2, <2>3, Zenon
<1> HIDE DEF b
<1>4. /\ b.role = w.role /\ b.roles = w.roles /\ b.hlid = w.hlid /\ b.links = w.links
      /\ b.roc = w.roc /\ SameBss(b, w) /\ b.map = a.map /\ b.sta_map = a.sta_map
      /\ b.inited = J /\ b.up = w.up /\ b.busy = w.busy /\ (w.state = "ON" => b.fw_type = w.fw_type)
  BY <1>1, <1>2, <1>3, Zenon DEF Still, SameRoles, SameLinks, SameRoc, SameBss, Stays
<1>5. Tidy(b, K) /\ Tidy(b, J)
  <2>1. Tidy(b, J)
    BY <1>1, <1>3, Untouched, Zenon
  <2>2. QED
    BY <2>1, Zenon DEF Tidy
<1>6. RoleOf(Main(v), K)
  BY Zenon DEF RoleOf, Main, RoleSlots
<1>7. PICK f : /\ f \in EnableVif(b, v)
               /\ IF Good(f) THEN e = f ELSE e = Err(InitVifData(f, v))
  BY ZenonT(30) DEF SetupVif, OnError, a, b
<1>8. PICK g : /\ g \in RoleEnable(b, Main(v))
               /\ IF Good(g)
                  THEN f \in Then(InitVifSpecific(g), LAMBDA h : {[h EXCEPT !.inited = @ \cup {v}]})
                  ELSE f = g
  BY <1>7, Zenon DEF EnableVif, Then, Main
<1>9. /\ Keeps(g, b, K) /\ SameLinks(g, b) /\ SameRoc(g, b) /\ SameBss(g, b) /\ Tidy(g, K)
      /\ g.state = "ON" => IF Good(g) THEN Enabled(g, b, Main(v)) ELSE SameRoles(g, b)
  BY <1>5, <1>6, <1>8, Enables, Zenon DEF Keeps
<1>10. CASE Good(f)
  <2>1. Good(g)
    BY <1>8, <1>10, Zenon
  <2>2. PICK h \in InitVifSpecific(g) : IF Good(h) THEN f = [h EXCEPT !.inited = @ \cup {v}] ELSE f = h
    BY <1>8, <2>1, Zenon DEF Then
  <2>3. Plain(h, g, K)
    BY <1>9, <2>2, Specific, Zenon
  <2>4. Good(h) /\ f = [h EXCEPT !.inited = @ \cup {v}] /\ e = f
    BY <1>7, <1>10, <2>2, Zenon
  <2>5. /\ e.inited = K /\ e.state = h.state /\ e.fw_type = h.fw_type /\ e.up = h.up /\ e.busy = h.busy
        /\ Watched \subseteq DOMAIN e /\ Still(e, h) /\ h.inited = J
    <3>1. Watched \subseteq DOMAIN h /\ h.inited = J
      BY <1>4, <1>9, <2>3, Zenon DEF Plain, Keeps, Stays, Tidy
    <3>2. QED
      BY <2>4, <3>1, Zenon DEF Watched, Still, SameRoles, SameLinks, SameRoc, SameBss
  <2>6. Tidy(e, K)
    BY <2>3, <2>5, Untouched, Zenon DEF Plain, Keeps
  <2>7. /\ e.hlid = b.hlid /\ e.links = b.links /\ e.map = b.map /\ e.sta_map = b.sta_map
        /\ e.roc = b.roc /\ SameBss(e, b) /\ e.role = g.role /\ e.roles = g.roles
    BY <1>9, <2>3, <2>5, Zenon DEF Plain, Still, SameRoles, SameLinks, SameRoc, SameBss
  <2>8. /\ e.up = b.up /\ e.busy = b.busy /\ e.fw_type = b.fw_type
        /\ e.state \in {"ON", "RESTARTING"} /\ (e.state = "ON" => g.state = "ON")
    BY <1>3, <1>9, <2>3, <2>5, Zenon DEF Plain, Keeps, Stays
  <2>9. e.state = "ON" => Enabled(e, w, Main(v))
    BY <1>4, <1>9, <2>1, <2>7, <2>8, Zenon DEF Enabled
  <2>10. QED
    BY <1>1, <1>4, <1>10, <2>4, <2>5, <2>6, <2>7, <2>8, <2>9 DEF Emptied, SameBss
<1>11. CASE ~Good(f)
  <2>1. /\ Keeps(f, b, K) /\ SameLinks(f, b) /\ SameRoc(f, b) /\ SameBss(f, b)
        /\ f.state = "ON" => SameRoles(f, b)
    <3>1. CASE ~Good(g)
      BY <1>8, <1>9, <3>1, Zenon
    <3>2. CASE Good(g)
      <4>1. PICK h \in InitVifSpecific(g) : IF Good(h) THEN f = [h EXCEPT !.inited = @ \cup {v}] ELSE f = h
        BY <1>8, <3>2, Zenon DEF Then
      <4>2. Plain(h, g, K)
        BY <1>9, <4>1, Specific, Zenon
      <4>3. f = h
        <5>1. Good(h) => [h EXCEPT !.inited = @ \cup {v}].ret = "ok"
          BY <4>2, Zenon DEF Good, Plain, Keeps, Tidy, Watched
        <5>2. QED
          BY <1>11, <4>1, <5>1, Zenon DEF Good
      <4>4. f.state # "ON"
        BY <1>11, <4>2, <4>3, Zenon DEF Plain
      <4>5. QED
        BY <1>9, <4>2, <4>3, <4>4, Again, Zenon DEF Plain, Still
    <3>3. QED
      BY <3>1, <3>2, Zenon
  <2> DEFINE i == InitVifData(f, v)
  <2>2. /\ Tidy(i, J) /\ Stays(i, f) /\ Emptied(i, f, v) /\ i.roles = f.roles /\ i.roc = f.roc
        /\ i.links = f.links /\ i.state = f.state
    <3>1. i = InitVifData(f, v) /\ K \ {v} = J /\ Tidy(f, K)
      BY <2>1, Zenon DEF Keeps
    <3> HIDE DEF i
    <3>2. QED
      BY <3>1, ClearsVif
  <2>3. e = Err(i)
    BY <1>7, <1>11, Zenon
  <2> HIDE DEF i
  <2>4. Keeps(e, i, J) /\ Still(e, i) /\ ~Good(e) /\ e.state = i.state
    BY <2>2, <2>3, Marks, Zenon
  <2>5. /\ e.inited = J /\ e.up = w.up /\ e.busy = w.busy /\ Tidy(e, J)
        /\ e.state \in {"ON", "RESTARTING"} /\ (w.state = "ON" => e.fw_type = w.fw_type)
    BY <1>3, <1>4, <2>1, <2>2, <2>4 DEF Keeps, Stays
  <2>6. Emptied(e, f, v)
    BY <2>2, <2>4 DEF Emptied, Still, SameRoles, SameLinks, SameBss
  <2>7. e.hlid = w.hlid /\ SameBss(e, w)
    <3>1. \A s \in LinkSlots : e.hlid[s] = w.hlid[s]
      BY <1>4, <2>1, <2>6 DEF SameLinks, Emptied, Tidy
    <3>2. SameBss(e, w)
      BY <1>4, <2>1, <2>6 DEF SameBss, Emptied, Tidy
    <3>3. QED
      BY <2>5, <3>1, <3>2 DEF Tidy
  <2>8. ASSUME e.state = "ON" PROVE SameRoles(e, w)
    <3>1. f.role = w.role /\ f.roles = w.roles
      BY <1>4, <2>1, <2>2, <2>4, <2>8, Zenon DEF SameRoles
    <3>2. \A s \in RoleSlots : e.role[s] = w.role[s]
      BY <2>6, <3>1 DEF Emptied, Tidy
    <3>3. e.roles = w.roles
      BY <2>2, <2>4, <3>1, Zenon DEF Still, SameRoles
    <3>4. QED
      BY <2>5, <3>2, <3>3 DEF Tidy, SameRoles
  <2>9. e.links = w.links /\ e.roc = w.roc
    BY <1>4, <2>1, <2>2, <2>4, Zenon DEF SameLinks, SameRoc, Still
  <2>10. \A u \in Vifs : /\ e.map[u] = IF u = v THEN {} ELSE w.map[u]
                         /\ e.sta_map[u] = IF u = v THEN {} ELSE w.sta_map[u]
    BY <1>1, <1>4, <2>1, <2>6 DEF Emptied, SameLinks
  <2>11. QED
    BY <2>4, <2>5, <2>7, <2>8, <2>9, <2>10, Zenon
<1>12. QED
  BY <1>10, <1>11, Zenon

\* wl1271_op_add_interface.
LEMMA Adds ==
    ASSUME Hard, NEW w, Driver(w), NEW v \in Vifs, NEW e \in OpAddInterface(w, v)
    PROVE  /\ e.inited = IF Good(e) THEN w.inited \cup {v} ELSE w.inited
           /\ Tidy(e, e.inited) /\ e.up = w.up /\ e.busy = w.busy
           /\ e.associated = w.associated /\ e.ap_started = w.ap_started
           /\ e.state \in {"ON", "RESTARTING"}
           /\ Clean(w) => Clean(e)
           /\ e.state = "ON" =>
                /\ Ready(e) /\ (Kept(w) => Whole(e)) /\ (RocOK(w) => RocOK(e))
                /\ Started(e) = Started(w)
                /\ w.state \in {"ON", "OFF"} /\ (w.state = "ON" => e.fw_type = w.fw_type)
<1>1. PICK d : /\ d \in IF w.state = "OFF" THEN {Ok(w)} ELSE Wakeup(w)
               /\ IF ~Good(d) THEN e = d
                  ELSE IF d.state = "RESTARTING" \/ v \in d.inited THEN e = Err(d)
                  ELSE e \in SetupVif(d, v)
  BY Zenon DEF OpAddInterface, Then
<1>2. /\ Keeps(d, w, w.inited) /\ Still(d, w) /\ (d.state = "ON" => Good(d)) /\ Tidy(w, w.inited)
      /\ w.state = "OFF" => Good(d)
  <2>1. Tidy(w, w.inited)
    BY Zenon DEF Driver
  <2> USE <2>1
  <2>2. CASE w.state = "OFF"
    BY <1>1, <2>2, Marks DEF Keeps
  <2>3. CASE w.state # "OFF"
    BY <1>1, <2>3, Issued, Zenon DEF Plain
  <2>4. QED
    BY <2>2, <2>3, Zenon
<1> USE <1>2
<1>3. /\ d.inited = w.inited /\ d.up = w.up /\ d.busy = w.busy /\ d.fw_type = w.fw_type
      /\ Tidy(d, d.inited) /\ w.inited \subseteq Vifs /\ Watched \subseteq DOMAIN d
      /\ d.state \in {"OFF", "ON", "RESTARTING"}
      /\ d.state \in {"OFF", "ON"} => Ready(w) /\ d.state = w.state
      /\ w.state = "OFF" => d.state = "OFF" /\ w.inited = {}
  BY Zenon DEF Keeps, Stays, Driver, Tidy
<1> USE <1>3
<1>4. /\ Ready(w) => Ready(d)
      /\ RocOK(w) => RocOK(d)
      /\ Whole(w) => Whole(d)
      /\ Clean(w) => Clean(d)
      /\ Started(d) = Started(w)
  BY Alike, Zenon
<1>5. CASE \/ e = d /\ ~Good(d)
           \/ e = Err(d) /\ (d.state = "RESTARTING" \/ v \in d.inited)
  <2>1. Keeps(e, d, d.inited) /\ Still(e, d) /\ ~Good(e) /\ e.state = d.state /\ d.state # "OFF"
    <3>1. CASE e = d /\ ~Good(d)
      BY <3>1, Again, Zenon
    <3>2. CASE e = Err(d) /\ (d.state = "RESTARTING" \/ v \in d.inited)
      BY <3>2, Marks, Zenon
    <3>3. QED
      BY <1>5, <3>1, <3>2, Zenon
  <2>2. /\ e.inited = d.inited /\ Watched \subseteq DOMAIN e
        /\ e.up = d.up /\ e.busy = d.busy /\ e.fw_type = d.fw_type
    BY <2>1, Zenon DEF Keeps, Stays, Tidy
  <2>3. QED
    BY <1>4, <2>1, <2>2, Alike, Zenon DEF Kept, Still, SameBss
<1>6. CASE e \in SetupVif(d, v) /\ d.state # "RESTARTING" /\ v \notin d.inited
  <2> USE <1>6
  <2>1. /\ e.inited = IF Good(e) THEN d.inited \cup {v} ELSE d.inited
        /\ Tidy(e, e.inited) /\ e.up = d.up /\ e.busy = d.busy
        /\ e.state \in {"ON", "RESTARTING"}
        /\ d.state = "ON" => e.fw_type = d.fw_type
        /\ e.hlid = d.hlid /\ e.links = d.links /\ e.roc = d.roc /\ SameBss(e, d)
        /\ e.state = "ON" => IF Good(e) THEN Enabled(e, d, Main(v)) ELSE SameRoles(e, d)
        /\ \A u \in Vifs : /\ e.map[u] = IF u = v THEN {} ELSE d.map[u]
                           /\ e.sta_map[u] = IF u = v THEN {} ELSE d.sta_map[u]
    BY SetsUp
  <2> USE <2>1
  <2>2. ASSUME Clean(d), Whole(d) PROVE Whole(e)
    <3>1. \A u \in Vifs : e.map[u] = d.map[u] /\ e.sta_map[u] = d.sta_map[u]
      BY <2>2, Zenon DEF Clean
    <3>2. QED
      BY <2>2, <3>1, WholeKept DEF Tidy, SameLinks
  <2>3. /\ Main(v) \in RoleSlots
        /\ \A u \in Vifs : /\ Dev(u) \in RoleSlots \ {Main(v)} /\ Main(u) \in RoleSlots
                           /\ u # v => Main(u) # Main(v)
    BY Zenon DEF Main, Dev, RoleSlots
  <2> USE <2>3
  <2>4. ASSUME e.state = "ON", Ready(d)
        PROVE  Ready(e) /\ (RocOK(d) => RocOK(e))
    <3> USE <2>4
    <3>1. CASE ~Good(e)
      BY <3>1
      DEF Ready, Fit, RolesOK, DevOK, StaOK, ApOK, Mains, RocOK, RocOf, SameRoles, SameBss
    <3>2. CASE Good(e)
      <4>1. /\ RolesOK(e) /\ e.role[Main(v)] # Invalid
            /\ \A r \in RoleSlots \ {Main(v)} : e.role[r] = d.role[r]
        BY <3>2, RoleMoves DEF Ready, Fit
      <4>2. ASSUME RocOK(d) PROVE RocOK(e)
        <5>1. \A u \in Stas : u \in Vifs /\ (u = v => d.hlid[Sta(u)] = Invalid)
          BY DEF Tidy, Sta, LinkSlots, Vifs
        <5>2. ASSUME NEW r, NEW u \in Stas, RocOf(d, r, u) PROVE RocOf(e, r, u)
          BY <4>1, <5>1, <5>2, Zenon DEF RocOf, SameBss
        <5>3. QED
          BY <4>2, <5>2, ZenonT(30) DEF RocOK
      <4>3. QED
        BY <3>2, <4>1, <4>2 DEF Ready, Fit, DevOK, StaOK, ApOK, SameBss, Mains
    <3>3. QED
      BY <3>1, <3>2, ZenonT(30)
  <2>5. QED
    BY <1>4, <2>2, <2>4, ZenonT(30) DEF Clean, Still, SameBss, Started, Kept
<1>7. QED
  BY <1>1, <1>5, <1>6, Zenon

\* The first half of __wl1271_op_remove_interface: both roles of the interface are
\* gone, the device role with its link and its ROC, when the firmware did not fail.
LEMMA StopsVif ==
    ASSUME Hard, NEW J, NEW w, Tidy(w, J), NEW v \in Vifs \cap J, NEW e \in StopVif(w, v)
    PROVE  /\ Keeps(e, w, J) /\ SameBss(e, w)
           /\ e.state = "ON" /\ RolesOK(w) /\ DevOK(w) /\ w.role[Main(v)] # Invalid =>
                /\ RolesOK(e) /\ DevOK(e) /\ e.role[Main(v)] = Invalid /\ e.hlid[Dev(v)] = Invalid
                /\ \A u \in Vifs \ {v} : e.role[Main(u)] = w.role[Main(u)]
                /\ \A s \in LinkSlots : s[2] # "dev" => e.hlid[s] = w.hlid[s]
                /\ Whole(w) => Whole(e)
                /\ RocOK(w) /\ (v \in Stas => w.hlid[Sta(v)] = Invalid) =>
                     \A r \in e.roc : r # Invalid /\ \E u \in Stas \ {v} : RocOf(e, r, u)
<1>1. PICK d : /\ d \in Wakeup(w)
               /\ IF Good(d) THEN \E f \in IF v \in Stas THEN StopDevIfStarted(d, v) ELSE {d} :
                                    e \in Then(RestoreFilters(f, v), LAMBDA g : RoleDisable(g, Main(v)))
                  ELSE e = d
  BY DEF StopVif, Then, Always, Main
<1> USE <1>1
<1>2. Plain(d, w, J) /\ Tidy(d, J)
  BY Issued, Zenon DEF Plain, Keeps
<1> USE <1>2
<1>3. CASE ~Good(d)
  BY <1>3, Zenon DEF Plain, Still
<1>4. CASE Good(d)
  <2>1. PICK f : /\ f \in IF v \in Stas THEN StopDevIfStarted(d, v) ELSE {d}
                 /\ e \in Then(RestoreFilters(f, v), LAMBDA g : RoleDisable(g, Main(v)))
    BY <1>4, Zenon
  <2> USE <2>1
  <2>2. /\ Keeps(f, d, J) /\ SameBss(f, d)
        /\ f.state = "ON" /\ DevOK(d) =>
             /\ RolesOK(d) => RolesOK(f)
             /\ DevOK(f) /\ f.hlid[Dev(v)] = Invalid
             /\ \A u \in Vifs : f.role[Main(u)] = d.role[Main(u)]
             /\ \A s \in LinkSlots : s[2] # "dev" => f.hlid[s] = d.hlid[s]
             /\ Whole(d) => Whole(f)
             /\ RocOK(d) => RocOK(f)
    <3>1. CASE v \in Stas
      <4> USE <3>1
      <4>1. /\ Keeps(f, d, J) /\ SameBss(f, d)
            /\ f.state = "ON" /\ DevOK(d) => DevStep(f, d, v) /\ f.hlid[Dev(v)] = Invalid
        BY StopsDevIfStarted, Zenon DEF DevStep, Still
      <4> USE <4>1
      <4>2. ASSUME f.state = "ON", DevOK(d)
            PROVE  /\ RolesOK(d) => RolesOK(f)
                   /\ DevOK(f) /\ (RocOK(d) => RocOK(f))
                   /\ \A u \in Vifs : f.role[Main(u)] = d.role[Main(u)]
                   /\ \A s \in LinkSlots : s[2] # "dev" => f.hlid[s] = d.hlid[s]
        BY <4>2, DevMoves DEF SameBss
      <4>3. ASSUME f.state = "ON", DevOK(d), Whole(d) PROVE Whole(f)
        BY <4>3, WholeDevStep, Zenon
      <4>4. QED
        BY <4>2, <4>3, Zenon
    <3>2. CASE v \notin Stas
      <4>1. d.hlid[Dev(v)] = Invalid
        BY <3>2 DEF Tidy, Dev, LinkSlots
      <4>2. QED
        BY <3>2, <4>1, Again DEF Still
    <3>3. QED
      BY <3>1, <3>2, Zenon
  <2> USE <2>2
  <2>3. PICK g \in RestoreFilters(f, v) : IF Good(g) THEN e \in RoleDisable(g, Main(v)) ELSE e = g
    BY Zenon DEF Then
  <2> USE <2>3
  <2>4. Plain(g, f, J) /\ Tidy(g, J) /\ Tidy(f, J)
    BY Marks, Issued DEF Plain, Keeps, RestoreFilters
  <2> USE <2>4
  <2>5. CASE ~Good(g)
    BY <2>5, Again DEF Plain, Still
  <2>6. CASE Good(g)
    <3>1. RoleOf(Main(v), J) /\ Main(v) \in RoleSlots
      BY Zenon DEF RoleOf, Main, RoleSlots
    <3>2. /\ Keeps(e, g, J) /\ SameLinks(e, g) /\ SameRoc(e, g) /\ SameBss(e, g)
          /\ e.state = "ON" /\ g.role[Main(v)] # Invalid => Disabled(e, g, Main(v))
      BY <2>6, <3>1, Disables
    <3> USE <3>2
    <3>3. Keeps(e, w, J) /\ SameBss(e, w)
      BY Again, Zenon DEF Plain, Still
    <3>4. ASSUME e.state = "ON", RolesOK(w), DevOK(w), w.role[Main(v)] # Invalid
          PROVE  /\ RolesOK(e) /\ DevOK(e) /\ e.role[Main(v)] = Invalid /\ e.hlid[Dev(v)] = Invalid
                 /\ \A u \in Vifs \ {v} : e.role[Main(u)] = w.role[Main(u)]
                 /\ \A s \in LinkSlots : s[2] # "dev" => e.hlid[s] = w.hlid[s]
                 /\ Whole(w) => Whole(e)
                 /\ RocOK(w) /\ (v \in Stas => w.hlid[Sta(v)] = Invalid) =>
                      \A r \in e.roc : r # Invalid /\ \E u \in Stas \ {v} : RocOf(e, r, u)
      <4> USE <3>4
      <4>1. g.state = "ON" /\ f.state = "ON"
        BY StillOn, Zenon DEF Plain
      <4>2. /\ d.role = w.role /\ d.roles = w.roles /\ d.hlid = w.hlid /\ d.roc = w.roc
            /\ d.state_sent = w.state_sent
            /\ g.role = f.role /\ g.roles = f.roles /\ e.hlid = f.hlid /\ e.roc = f.roc
            /\ e.state_sent = w.state_sent
        BY <3>3, Zenon DEF Plain, Still, SameRoles, SameLinks, SameRoc, SameBss
      <4> USE <4>2
      <4>3. RolesOK(d) /\ DevOK(d) /\ (RocOK(w) => RocOK(d))
        BY DEF RolesOK, DevOK, RocOK, RocOf
      <4>4. /\ RolesOK(f) /\ DevOK(f) /\ f.hlid[Dev(v)] = Invalid
            /\ \A u \in Vifs : f.role[Main(u)] = w.role[Main(u)]
            /\ \A s \in LinkSlots : s[2] # "dev" => f.hlid[s] = w.hlid[s]
            /\ RocOK(w) => RocOK(f)
        BY <4>1, <4>3, Zenon
      <4> USE <4>4
      <4>5. /\ RolesOK(e) /\ e.role[Main(v)] = Invalid
            /\ \A s \in RoleSlots \ {Main(v)} : e.role[s] = f.role[s]
        BY <3>1, RoleMoves DEF RolesOK
      <4>6. \A u \in Vifs : /\ Dev(u) \in RoleSlots \ {Main(v)}
                            /\ u # v => Main(u) \in RoleSlots \ {Main(v)}
        BY Zenon DEF Dev, Main, RoleSlots
      <4>7. ASSUME Whole(w) PROVE Whole(e)
        BY <4>1, <4>3, <4>7, WholeKept, Zenon DEF Plain, Still
      <4>8. ASSUME RocOK(w), v \in Stas => w.hlid[Sta(v)] = Invalid, NEW r \in e.roc
             PROVE  r # Invalid /\ \E u \in Stas \ {v} : RocOf(e, r, u)
        <5>1. PICK u \in Stas : r # Invalid /\ RocOf(f, r, u)
          BY <4>8, Zenon DEF RocOK
        <5> USE <5>1
        <5>2. u \in Vifs /\ Sta(u) \in LinkSlots /\ Sta(u)[2] # "dev"
          BY Zenon DEF Vifs, Sta, LinkSlots
        <5>3. u # v
          BY <4>8, <5>2, Zenon DEF RocOf
        <5>4. RocOf(e, r, u)
          BY <4>5, <4>6, <5>2, <5>3, Zenon DEF RocOf, SameBss
        <5>5. QED
          BY <5>3, <5>4, Zenon
      <4>9. QED
        BY <4>5, <4>6, <4>7, <4>8 DEF DevOK
    <3>5. QED
      BY <3>3, <3>4, Zenon
  <2>7. QED
    BY <2>5, <2>6, Zenon
<1>5. QED
  BY <1>3, <1>4, Zenon

\* the links of interface v are given back with it
LEMMA WholeRemoved ==
    ASSUME NEW w, Whole(w), NEW v \in Vifs, NEW J, NEW e, Tidy(e, J), Emptied(e, w, v),
           e.links = w.links \ w.map[v]
    PROVE  Whole(e)
<1>1. /\ \A s \in LinkSlots : e.hlid[s] = IF s[1] = v THEN Invalid ELSE w.hlid[s]
      /\ \A u \in Vifs : /\ e.map[u] = IF u = v THEN {} ELSE w.map[u]
                         /\ e.sta_map[u] = IF u = v THEN {} ELSE w.sta_map[u]
  BY Zenon DEF Emptied
<1> USE <1>1
<1>2. Owned(w)
  BY Zenon DEF Whole
<1>3. /\ \A s \in LinkSlots : e.hlid[s] # Invalid => e.hlid[s] \in e.map[s[1]] \ e.sta_map[s[1]]
      /\ \A r, s \in LinkSlots : r # s /\ e.hlid[r] = e.hlid[s] => e.hlid[r] = Invalid
  BY <1>2 DEF Owned, LinkSlots
<1>4. Owned(e)
  BY <1>2, <1>3, ZenonT(30) DEF Owned, Tidy
<1>5. QED
  BY <1>4 DEF Whole

\* The tail of __wl1271_op_remove_interface.
LEMMA Deinits ==
    ASSUME NEW J, NEW w, Tidy(w, J), NEW v \in Vifs, NEW e, e = Deinit(w, v)
    PROVE  /\ Tidy(e, J \ {v}) /\ Stays(e, w) /\ Emptied(e, w, v) /\ e.state = w.state
           /\ e.roles = w.roles /\ e.roc = w.roc /\ e.links = w.links \ Returned(w, v)
<1> DEFINE R == Returned(w, v)
           b == FreeLinks(w, v, R)
           i == InitVifData(b, v)
           n == i.active_sta_count - Cardinality(R \cap w.sta_map[v])
<1>1. e = [i EXCEPT !.active_sta_count = n]
  BY Zenon DEF Deinit
<1>2. /\ Watched \subseteq DOMAIN b /\ Stays(b, w) /\ b.state = w.state /\ SameRoles(b, w) /\ SameBss(b, w)
      /\ b.roc = w.roc /\ b.hlid = w.hlid /\ b.sta_map = w.sta_map /\ b.links = w.links \ R
      /\ b.map = [w.map EXCEPT ![v] = @ \ R]
  <2>1. b = [w EXCEPT !.links = @ \ R, !.map[v] = @ \ R, !.ba_link = {x \in @ : x[1] \notin R}]
    BY Zenon DEF FreeLinks
  <2> HIDE DEF b, R
  <2>2. QED
    BY <2>1, Zenon DEF Tidy, Watched, Stays, SameRoles, SameBss
<1> USE <1>2
<1> HIDE DEF b, R, n
<1>3. b.map \in [Vifs -> SUBSET Hlids] /\ \A u \in Vifs \ {v} : b.map[u] = w.map[u]
  BY Zenon DEF Tidy
<1>4. Tidy(b, J)
  BY <1>3, Zenon DEF Tidy, SameRoles, SameBss
<1>5. /\ Tidy(i, J \ {v}) /\ Stays(i, b) /\ Emptied(i, b, v) /\ i.state = b.state
      /\ i.roles = b.roles /\ i.roc = b.roc /\ i.links = b.links
  <2>1. i = InitVifData(b, v)
    BY Zenon
  <2> HIDE DEF i
  <2>2. QED
    BY <1>4, <2>1, ClearsVif
<1> USE <1>5
<1> HIDE DEF i
<1>6. Watched \subseteq DOMAIN e /\ Still(e, i) /\ Stays(e, i) /\ e.state = i.state
  BY <1>1, Zenon DEF Tidy, Watched, Still, SameRoles, SameLinks, SameRoc, SameBss, Stays
<1>7. Emptied(e, w, v)
  BY <1>3, <1>6 DEF Emptied, Still, SameRoles, SameLinks, SameBss
<1>8. QED
  BY <1>6, <1>7, Untouched, Zenon DEF R, Stays, Still, SameRoles, SameLinks, SameRoc

\* __wl1271_op_remove_interface: nothing is left of the interface, and while the
\* firmware runs its roles and links are free again.
LEMMA Removes ==
    ASSUME Hard, NEW w, Tidy(w, w.inited), NEW v \in Vifs \cap w.inited, NEW e \in RemoveInterface(w, v)
    PROVE  /\ e.inited = w.inited \ {v} /\ Tidy(e, e.inited) /\ e.up = w.up /\ e.busy = w.busy
           /\ e.fw_type = w.fw_type
           /\ e.state = w.state \/ (w.state = "ON" /\ e.state = "RESTARTING")
           /\ e.associated = w.associated \ {v} /\ e.ap_started = w.ap_started \ {v}
           /\ Clean(w) => Clean(e)
           /\ e.state = "ON" /\ Ready(w) /\ v \notin w.associated \cup w.ap_started =>
                /\ Ready(e) /\ (Whole(w) => Whole(e)) /\ (RocOK(w) => RocOK(e))
                /\ Started(e) \subseteq Started(w)
<1> DEFINE J == w.inited
           a == [w EXCEPT !.inited = @ \ {v}]
<1>1. PICK f \in IF a.state = "RESTARTING" THEN {a} ELSE StopVif(a, v) : e = Deinit(f, v)
  BY Zenon DEF RemoveInterface
<1>2. /\ Watched \subseteq DOMAIN a /\ Still(a, w) /\ a.inited = J \ {v} /\ a.up = w.up
      /\ a.busy = w.busy /\ a.fw_type = w.fw_type /\ a.state = w.state
  BY Zenon DEF Tidy, Watched, Still, SameRoles, SameLinks, SameRoc, SameBss
<1> HIDE DEF a
<1>3. Tidy(a, J)
  BY <1>2, Untouched, Zenon
<1>4. /\ Keeps(f, a, J) /\ SameBss(f, a)
      /\ f.state = "ON" => f \in StopVif(a, v)
  <2>1. CASE a.state = "RESTARTING"
    <3>1. f = a
      BY <1>1, <2>1, Zenon
    <3>2. QED
      BY <1>3, <2>1, <3>1, Again, Zenon DEF Still
  <2>2. CASE a.state # "RESTARTING"
    <3>1. f \in StopVif(a, v)
      BY <1>1, <2>2, Zenon
    <3>2. QED
      BY <1>3, <3>1, StopsVif, Zenon
  <2>3. QED
    BY <2>1, <2>2, Zenon
<1>5. /\ Tidy(e, J \ {v}) /\ Stays(e, f) /\ Emptied(e, f, v) /\ e.state = f.state
      /\ e.roles = f.roles /\ e.roc = f.roc /\ e.links = f.links \ Returned(f, v)
  BY <1>1, <1>4, Deinits DEF Keeps
<1>6. /\ e.inited = J \ {v} /\ e.up = w.up /\ e.busy = w.busy /\ e.fw_type = w.fw_type
      /\ e.state = w.state \/ (w.state = "ON" /\ e.state = "RESTARTING")
      /\ e.associated = w.associated \ {v} /\ e.ap_started = w.ap_started \ {v}
      /\ e.state_sent = w.state_sent \ {v}
  <2>1. Stays(f, a) /\ SameBss(a, w)
    BY <1>2, <1>4, Zenon DEF Keeps, Still
  <2>2. /\ e.inited = J \ {v} /\ e.up = w.up /\ e.busy = w.busy /\ e.fw_type = w.fw_type
        /\ e.state = w.state \/ (w.state = "ON" /\ e.state = "RESTARTING")
    BY <1>2, <1>5, <2>1, Zenon DEF Stays
  <2>3. /\ e.associated = w.associated \ {v} /\ e.ap_started = w.ap_started \ {v}
        /\ e.state_sent = w.state_sent \ {v}
    BY <1>4, <1>5, <2>1, Zenon DEF SameBss, Emptied
  <2>4. QED
    BY <2>2, <2>3, Zenon
<1>7. ASSUME Clean(w) PROVE Clean(e)
  <2>1. \A u \in Vifs \ J : f.map[u] = {} /\ f.sta_map[u] = {}
    BY <1>2, <1>4, <1>7 DEF Keeps, Elsewhere, Still, SameLinks, Clean
  <2>2. QED
    BY <1>5, <1>6, <2>1, Zenon DEF Clean, Emptied
<1>8. ASSUME e.state = "ON", Ready(w), v \notin w.associated \cup w.ap_started
      PROVE  /\ Ready(e) /\ (Whole(w) => Whole(e)) /\ (RocOK(w) => RocOK(e))
             /\ Started(e) \subseteq Started(w)
  <2>1. /\ a.role = w.role /\ a.roles = w.roles /\ a.hlid = w.hlid /\ a.roc = w.roc
        /\ a.state_sent = w.state_sent /\ f.state_sent = w.state_sent
    BY <1>2, <1>4, Zenon DEF Still, SameRoles, SameLinks, SameRoc, SameBss
  <2>2. RolesOK(a) /\ DevOK(a) /\ a.role[Main(v)] # Invalid /\ (RocOK(w) => RocOK(a))
    <3>1. RolesOK(a)
      BY <1>8, <2>1, RolesUnchanged, Zenon DEF Ready, Fit
    <3>2. DevOK(a) /\ a.role[Main(v)] # Invalid
      BY <1>8, <2>1, Zenon DEF Ready, Fit, DevOK, Mains
    <3>3. RocOK(w) => RocOK(a)
      BY <2>1, RocUnchanged, Zenon
    <3>4. QED
      BY <3>1, <3>2, <3>3, Zenon
  <2>3. v \in Stas => w.hlid[Sta(v)] = Invalid
    BY <1>8, Zenon DEF Ready, Fit, StaOK
  <2>4. /\ RolesOK(f) /\ DevOK(f) /\ f.role[Main(v)] = Invalid /\ f.hlid[Dev(v)] = Invalid
        /\ \A u \in Vifs \ {v} : f.role[Main(u)] = w.role[Main(u)]
        /\ \A s \in LinkSlots : s[2] # "dev" => f.hlid[s] = w.hlid[s]
        /\ Whole(a) => Whole(f)
        /\ RocOK(w) => \A r \in f.roc : r # Invalid /\ \E u \in Stas \ {v} : RocOf(f, r, u)
    <3>1. f \in StopVif(a, v) /\ f.state = "ON" /\ v \in Vifs \cap J
      BY <1>4, <1>5, <1>8, Zenon
    <3>2. /\ RolesOK(f) /\ DevOK(f) /\ f.role[Main(v)] = Invalid /\ f.hlid[Dev(v)] = Invalid
          /\ \A u \in Vifs \ {v} : f.role[Main(u)] = a.role[Main(u)]
          /\ \A s \in LinkSlots : s[2] # "dev" => f.hlid[s] = a.hlid[s]
          /\ Whole(a) => Whole(f)
          /\ RocOK(a) /\ (v \in Stas => a.hlid[Sta(v)] = Invalid) =>
               \A r \in f.roc : r # Invalid /\ \E u \in Stas \ {v} : RocOf(f, r, u)
      BY <1>3, <2>2, <3>1, StopsVif, ZenonT(30)
    <3>3. QED
      BY <2>1, <2>2, <2>3, <3>2, Zenon
  <2>5. /\ \A u \in Vifs : /\ Dev(u) \in RoleSlots /\ Main(u) \in RoleSlots /\ Dev(u) \in LinkSlots
                           /\ Dev(u)[1] = u /\ Main(u)[1] = u
        /\ \A u \in Stas : u \in Vifs /\ Sta(u) \in LinkSlots /\ Sta(u)[1] = u /\ Sta(u)[2] # "dev"
        /\ \A u \in Aps : /\ u \in Vifs /\ Glob(u) \in LinkSlots /\ Bcast(u) \in LinkSlots
                          /\ Glob(u)[1] = u /\ Bcast(u)[1] = u
                          /\ Glob(u)[2] # "dev" /\ Bcast(u)[2] # "dev"
        /\ \A s \in RoleSlots : s[1] = v => s \in {Main(v), Dev(v)}
    BY DEF Dev, Main, Sta, Glob, Bcast, RoleSlots, LinkSlots, Vifs
  <2>6. e.role = f.role
    <3>1. f.role[Dev(v)] = Invalid
      BY <2>4, <2>5, Zenon DEF DevOK
    <3>2. \A s \in RoleSlots : e.role[s] = f.role[s]
      BY <1>5, <2>4, <2>5, <3>1, ZenonT(30) DEF Emptied
    <3>3. QED
      <4>1. /\ e.role \in [RoleSlots -> Roles \cup {Invalid}]
            /\ f.role \in [RoleSlots -> Roles \cup {Invalid}]
        BY <1>4, <1>5, Zenon DEF Keeps, Tidy
      <4>2. QED
        BY <3>2, <4>1
  <2>7. /\ RolesOK(e)
        /\ \A s \in LinkSlots : /\ s[1] = v => e.hlid[s] = Invalid
                                /\ s[1] # v => e.hlid[s] = f.hlid[s]
    <3>1. e.roles = f.roles /\ \A s \in LinkSlots : e.hlid[s] = IF s[1] = v THEN Invalid ELSE f.hlid[s]
      BY <1>5, Zenon DEF Emptied
    <3>2. RolesOK(e)
      <4>1. RolesOK(f) /\ e.roles = f.roles
        BY <2>4, <3>1, Zenon
      <4>2. QED
        BY <2>6, <4>1, Zenon DEF RolesOK
    <3>3. QED
      BY <3>1, <3>2, Zenon
  <2>8. DevOK(e)
    <3>1. ASSUME NEW u \in Vifs PROVE e.hlid[Dev(u)] # Invalid <=> e.role[Dev(u)] # Invalid
      <4>1. f.hlid[Dev(u)] # Invalid <=> f.role[Dev(u)] # Invalid
        BY <2>4, Zenon DEF DevOK
      <4>2. u = v => e.hlid[Dev(u)] = Invalid /\ f.hlid[Dev(u)] = Invalid
        BY <2>4, <2>5, <2>7, Zenon
      <4>3. u # v => e.hlid[Dev(u)] = f.hlid[Dev(u)]
        BY <2>5, <2>7, Zenon
      <4>4. QED
        BY <2>6, <4>1, <4>2, <4>3, Zenon
    <3>2. QED
      BY <3>1, Zenon DEF DevOK
  <2>9. StaOK(e)
    <3>1. StaOK(w)
      BY <1>8, Zenon DEF Ready, Fit
    <3>2. ASSUME NEW u \in Stas, e.hlid[Sta(u)] # Invalid PROVE u \in e.associated
      <4>1. u # v /\ e.hlid[Sta(u)] = f.hlid[Sta(u)]
        BY <2>5, <2>7, <3>2, Zenon
      <4>2. f.hlid[Sta(u)] = w.hlid[Sta(u)]
        BY <2>4, <2>5, Zenon
      <4>3. u \in w.associated
        <5>1. w.hlid[Sta(u)] # Invalid => u \in w.associated
          BY <3>1, Zenon DEF StaOK
        <5>2. QED
          BY <3>2, <4>1, <4>2, <5>1, Zenon
      <4>4. QED
        BY <1>6, <4>1, <4>3, Zenon
    <3>3. e.state_sent \subseteq e.associated
      BY <1>6, <3>1, Zenon DEF StaOK
    <3>4. QED
      BY <3>2, <3>3, Zenon DEF StaOK
  <2>10. ApOK(e)
    <3>1. ASSUME NEW u \in Aps, NEW s \in {Glob(u), Bcast(u)}
          PROVE  e.hlid[s] # Invalid <=> u \in e.ap_started
      <4>1. s \in LinkSlots /\ s[1] = u /\ s[2] # "dev"
        BY <2>5, Zenon
      <4>2. w.hlid[s] # Invalid <=> u \in w.ap_started
        BY <1>8, Zenon DEF Ready, ApOK
      <4>3. IF u = v THEN e.hlid[s] = Invalid ELSE e.hlid[s] = w.hlid[s]
        BY <2>4, <2>7, <4>1, Zenon
      <4>4. QED
        BY <1>6, <4>2, <4>3, Zenon
    <3>2. QED
      BY <3>1, Zenon DEF ApOK
  <2>11. Mains(e)
    BY <1>6, <1>8, <2>4, <2>6, ZenonT(30) DEF Mains, Ready
  <2>12. Started(e) \subseteq Started(w)
    BY <1>6, <2>4, <2>5, <2>7 DEF Started
  <2>13. ASSUME RocOK(w) PROVE RocOK(e)
    <3>1. ASSUME NEW r, NEW u \in Stas \ {v}, RocOf(f, r, u) PROVE RocOf(e, r, u)
      BY <1>6, <2>1, <2>5, <2>6, <2>7, <3>1 DEF RocOf
    <3>2. QED
      BY <1>5, <2>4, <2>13, <3>1, Zenon DEF RocOK
  <2>14. ASSUME Whole(w) PROVE Whole(e)
    <3>1. Whole(f)
      BY <1>2, <2>4, <2>14, WholeKept, Zenon DEF Still
    <3>2. Returned(f, v) = f.map[v]
      <4>1. CASE v \notin Aps
        BY <4>1, Zenon DEF Returned
      <4>2. CASE v \in Aps
        <5>1. v \notin Stas /\ Tidy(f, J)
          BY <1>4, <4>2, ConstantsAssumption, Zenon DEF Keeps
        <5>2. f.hlid[Glob(v)] = Invalid /\ f.hlid[Bcast(v)] = Invalid
          BY <1>8, <2>4, <2>5, <4>2, Zenon DEF Ready, ApOK
        <5>3. \A s \in LinkSlots : s[1] = v /\ s[2] \notin {"sta", "dev"} => s \in {Glob(v), Bcast(v)}
          BY DEF LinkSlots, Glob, Bcast
        <5>4. \A s \in LinkSlots : s[1] = v => f.hlid[s] = Invalid
          BY <5>1, <5>2, <5>3, Zenon DEF Tidy
        <5>5. \A l \in Hlids : l # Invalid
          BY Ids, Zenon
        <5>6. f.map[v] \subseteq Hlids
          BY <5>1, Zenon DEF Tidy
        <5>7. f.map[v] \subseteq f.sta_map[v]
          <6>1. ASSUME NEW l \in f.map[v], l \notin f.sta_map[v]
                PROVE  \E s \in LinkSlots : s[1] = v /\ f.hlid[s] = l
            BY <3>1, <6>1, ZenonT(30) DEF Whole
          <6>2. QED
            BY <5>4, <5>5, <5>6, <6>1, Zenon
        <5>8. QED
          BY <4>2, <5>7, Zenon DEF Returned
      <4>3. QED
        BY <4>1, <4>2, Zenon
    <3>3. QED
      BY <1>5, <3>1, <3>2, WholeRemoved, Zenon
  <2>15. QED
    BY <2>7, <2>8, <2>9, <2>10, <2>11, <2>12, <2>13, <2>14, Zenon DEF Ready, Fit
<1>9. QED
  BY <1>5, <1>6, <1>7, <1>8, Zenon

\* the driver is stopped, with nothing left
Stopped(e, w) ==
    /\ Driver(e) /\ e.state = "OFF" /\ e.inited = {} /\ e.up = w.up /\ e.busy = w.busy
    /\ e.associated = {} /\ e.ap_started = {}
    /\ RocOK(e) /\ Started(e) = {} /\ (Clean(w) => Kept(e))

\* wl1271_op_stop_locked after the last interface was removed.
LEMMA Halts ==
    ASSUME NEW w, Tidy(w, {}), w.inited = {}, w.up \subseteq Vifs,
           w.state = "OFF" => w.roles = {} /\ w.roc = {} /\ w.links = {SystemHlid},
           NEW e, e = OpStop(w)
    PROVE  Stopped(e, w)
<1>1. /\ Watched \subseteq DOMAIN e /\ SameBss(e, w) /\ e.role = w.role /\ e.hlid = w.hlid
      /\ e.map = w.map /\ e.sta_map = w.sta_map /\ e.inited = w.inited /\ e.up = w.up
      /\ e.busy = w.busy /\ e.state = "OFF"
      /\ e.roles = {} /\ e.roc = {} /\ e.links = {SystemHlid}
  <2>1. Watched \subseteq DOMAIN w
    BY Zenon DEF Tidy
  <2>2. CASE w.state = "OFF"
    BY <2>1, <2>2, Zenon DEF OpStop, SameBss
  <2>3. CASE w.state # "OFF"
    BY <2>1, <2>3, ZenonT(30) DEF OpStop, SameBss, Watched
  <2>4. QED
    BY <2>2, <2>3, Zenon
<1>2. Tidy(e, {})
  BY <1>1, Zenon DEF Tidy, SameBss
<1>3. /\ Ready(e) /\ RocOK(e) /\ Started(e) = {}
      /\ Clean(e) => Whole(e)
  BY <1>1, <1>2, Blank, Zenon
<1>4. e.associated = {} /\ e.ap_started = {} /\ (Clean(w) => Clean(e))
  BY <1>1, <1>2, Zenon DEF Tidy, Clean
<1>5. QED
  BY <1>1, <1>2, <1>3, <1>4, Zenon DEF Stopped, Driver, Kept

\* wl1271_recovery_work.
LEMMA Recovers ==
    ASSUME NEW w, Tidy(w, w.inited), w.inited \subseteq Vifs, w.up \subseteq Vifs,
           w.state = "RESTARTING", NEW e, e = RecoverAll(w)
    PROVE  Stopped(e, w)
<1> DEFINE J == w.inited
           gone == UNION {Returned(w, v) : v \in w.inited}
           Reset(f) == [s \in DOMAIN f |-> IF s[1] \in w.inited THEN Invalid ELSE f[s]]
           Empty(f) == [v \in Vifs |-> IF v \in w.inited THEN {} ELSE f[v]]
           r == Reset(w.role)
           h == Reset(w.hlid)
           m == Empty(w.map)
           n == Empty(w.sta_map)
           B == {b \in w.ba_sta : b[1] \notin w.inited}
           C == {b \in w.ba_link : b[1] \notin gone}
           d == [w EXCEPT !.role = r, !.hlid = h, !.map = m, !.sta_map = n,
                          !.associated = @ \ J, !.state_sent = @ \ J,
                          !.in_use = @ \ J, !.ap_started = @ \ J,
                          !.ba_sta = B, !.ba_link = C, !.inited = {}]
<1>1. e = OpStop(d)
  BY ZenonT(30) DEF RecoverAll
<1>2. /\ r \in [RoleSlots -> Roles \cup {Invalid}] /\ h \in [LinkSlots -> Hlids \cup {Invalid}]
      /\ \A s \in RoleSlots : r[s] = Invalid
      /\ \A s \in LinkSlots : h[s] = Invalid
  BY Zenon DEF Tidy
<1>3. /\ m \in [Vifs -> SUBSET Hlids] /\ n \in [Vifs -> SUBSET Hlids]
      /\ \A v \in Vifs : v \notin w.inited => m[v] = w.map[v] /\ n[v] = w.sta_map[v]
      /\ \A v \in Vifs : v \in w.inited => m[v] = {} /\ n[v] = {}
  BY Zenon DEF Tidy
<1> HIDE DEF r, h, m, n, B, C
<1>4. /\ Watched \subseteq DOMAIN d /\ d.role = r /\ d.hlid = h /\ d.map = m /\ d.sta_map = n
      /\ d.inited = {} /\ d.up = w.up /\ d.busy = w.busy /\ d.state = "RESTARTING"
      /\ d.associated = w.associated \ J /\ d.state_sent = w.state_sent \ J
      /\ d.in_use = w.in_use \ J /\ d.ap_started = w.ap_started \ J
  BY Zenon DEF Tidy, Watched
<1> HIDE DEF d
<1>5. Tidy(d, {})
  BY <1>2, <1>3, <1>4, Zenon DEF Tidy
<1>6. QED
  BY <1>1, <1>3, <1>4, <1>5, Halts DEF Stopped, Clean

-----------------------------------------------------------------------------
(* The single-role firmware.                                               *)

\* T is reached from {} by adding one interface at a time; S is part of such a
\* set, and of one that is counted to at most one
Counted(T) ==
    \A F \in SUBSET SUBSET Vifs :
        {} \in F /\ (\A A \in F : \A v \in Vifs : A \cup {v} \in F) => T \in F
Bounded(S) == \E T : Counted(T) /\ S \subseteq T
Few(S) == S = {} \/ \E T : Bounded(T) /\ ~(Cardinality(T) > 1) /\ S \subseteq T

\* One more interface leaves a bounded set bounded.
LEMMA BoundedMore ==
    ASSUME NEW S, NEW x \in Vifs, Bounded(S)
    PROVE  Bounded(S \cup {x})
<1>1. PICK T : Counted(T) /\ S \subseteq T
  BY Zenon DEF Bounded
<1>2. Counted(T \cup {x})
  BY <1>1, Zenon DEF Counted
<1>3. S \cup {x} \subseteq T \cup {x}
  BY <1>1, Zenon
<1>4. QED
  BY <1>2, <1>3, Zenon DEF Bounded

\* The empty set is bounded.
LEMMA BoundedNone == Bounded({})
<1>1. Counted({})
  BY Zenon DEF Counted
<1>2. QED
  BY <1>1, Zenon DEF Bounded

\* the roles the single-role firmware serves are one
OneRole(d) == d.state = "ON" /\ d.fw_type = "NORMAL" => Few(Started(d))

\* Where no change to the multi-role firmware is due, at most one role is
\* started.
LEMMA NoSwitch ==
    ASSUME NEW d, Bounded(d.up), ~SwitchesToMr(d), Started(d) \subseteq d.up \cap d.busy
    PROVE  OneRole(d)
<1>1. QED
  BY Zenon DEF Few, OneRole, Bounded, SwitchesToMr, NeedFwChange, OpenCount

-----------------------------------------------------------------------------
(* The driver and mac80211.                                                *)

\* what holds of the driver and of the interfaces that mac80211 has associated
\* and beaconing
Sound(d, ass, bea) ==
    /\ Driver(d) /\ OneRole(d) /\ Bounded(d.up)
    /\ ass \subseteq d.up \cap d.busy \cap Stas /\ bea \subseteq d.up \cap Aps
    /\ d.up \cap Aps \subseteq d.busy
    /\ d.state = "ON" => d.associated \subseteq ass /\ d.ap_started \subseteq bea

\* A handler that adds and removes no interface keeps it.
LEMMA ServesSound ==
    ASSUME NEW w, Driver(w), OneRole(w), Bounded(w.up), NEW ass, NEW bea,
           ass \subseteq w.up \cap w.busy \cap Stas, bea \subseteq w.up \cap Aps,
           w.up \cap Aps \subseteq w.busy,
           NEW e, Serves(e, w), e.state = "ON" => e.associated \subseteq ass /\ e.ap_started \subseteq bea
    PROVE  Sound(e, ass, bea)
<1>1. e.up = w.up /\ e.busy = w.busy /\ Stays(e, w)
  BY Zenon DEF Serves, Keeps, Stays
<1> USE <1>1
<1>2. ASSUME e.state = "ON" PROVE OneRole(e)
  <2>1. Ready(e) /\ w.state = "ON" /\ e.fw_type = w.fw_type
        /\ (Started(e) \subseteq Started(w) \/ ~SwitchesToMr(w))
    BY <1>2, Zenon DEF Driver, Serves, Stays
  <2> USE <2>1
  <2>2. CASE Started(e) \subseteq Started(w)
    BY <2>2, Zenon DEF OneRole, Few
  <2>3. CASE ~SwitchesToMr(w)
    BY <1>2, <2>3, NoSwitch, Wanted, Zenon DEF Started, Ready, Fit, StaOK
  <2>4. QED
    BY <2>2, <2>3, Zenon
<1>3. QED
  BY <1>2, ServesDriver, Zenon DEF Sound, OneRole

\* ... also when only its result is taken note of
LEMMA ServesOk ==
    ASSUME NEW w, NEW e, Serves(e, w), NEW n, n = Ok(e)
    PROVE  /\ Serves(n, w) /\ n.state = e.state /\ n.associated = e.associated
           /\ n.ap_started = e.ap_started /\ (RocOK(e) => RocOK(n))
<1>1. Tidy(e, e.inited)
  BY Zenon DEF Serves, Keeps, Stays
<1>2. QED
  BY <1>1, ServesAgain, ServesStill, Marks, ZenonT(30) DEF Still, SameBss

\* the ROCs are owned, and mac80211's restart finds no station associated
Settled(d, step, todo) ==
    /\ d.state # "RESTARTING" => RocOK(d)
    /\ step = "add" => d.associated = {}
    /\ step = "bss" => d.associated \cap todo = {}

\* bss_info_changed, as mac80211 calls it.
LEMMA Told ==
    ASSUME Hard, NEW w, Driver(w), OneRole(w), Bounded(w.up), NEW v \in Vifs,
           NEW changed, NEW ass, NEW up, NEW bea,
           ass \subseteq w.up \cap w.busy \cap Stas, bea \subseteq w.up \cap Aps,
           w.up \cap Aps \subseteq w.busy,
           w.state = "ON" => /\ w.associated \subseteq ass \cup (IF "ASSOC" \in changed THEN {v} ELSE {})
                             /\ w.ap_started \subseteq bea \cup {v},
           NEW e \in OpBssInfo(w, v, changed, ass, up, bea), NEW n, n = Ok(e)
    PROVE  /\ Sound(n, ass, bea) /\ (Kept(w) => Kept(n))
           /\ n.up = w.up /\ n.inited = w.inited
           /\ n.associated \subseteq w.associated \cup (IF "ASSOC" \in changed THEN {v} \cap ass ELSE {})
           /\ /\ w.state # "RESTARTING" => RocOK(w)
              /\ "ASSOC" \in changed /\ v \in ass /\ w.state = "ON" => v \notin w.associated
              => (n.state # "RESTARTING" => RocOK(n))
<1>1. /\ Serves(e, w)
      /\ e.associated \subseteq w.associated \cup (IF "ASSOC" \in changed THEN {v} \cap ass ELSE {})
      /\ e.ap_started \subseteq w.ap_started \cup ({v} \cap bea)
      /\ e.state = "ON" =>
           /\ "ASSOC" \in changed /\ v \in Stas \ ass => v \notin e.associated
           /\ v \in Aps \ bea => v \notin e.ap_started
      /\ /\ e.state = "ON" /\ Ready(w) /\ RocOK(w)
         /\ "ASSOC" \in changed /\ v \in ass => v \notin w.state_sent
         => RocOK(e)
  BY Informs DEF Driver
<1> USE <1>1
<1>2. /\ Serves(n, w) /\ n.state = e.state /\ n.associated = e.associated
      /\ n.ap_started = e.ap_started /\ (RocOK(e) => RocOK(n))
  BY ServesOk, Zenon
<1> USE <1>2
<1>3. /\ n.up = w.up /\ n.inited = w.inited
      /\ n.associated \subseteq Stas /\ n.ap_started \subseteq Aps
      /\ n.state = w.state \/ (w.state = "ON" /\ n.state = "RESTARTING")
  BY Zenon DEF Serves, Keeps, Stays, Tidy
<1> USE <1>3
<1>4. ASSUME w.state # "RESTARTING" => RocOK(w),
             "ASSOC" \in changed /\ v \in ass /\ w.state = "ON" => v \notin w.associated,
             n.state # "RESTARTING"
      PROVE  RocOK(n)
  <2> USE <1>4
  <2>1. CASE w.state = "OFF"
    <3>1. /\ RocOK(w) /\ n.roc = w.roc /\ n.role = w.role /\ n.hlid = w.hlid
          /\ n.state_sent = w.state_sent
      BY <2>1, Zenon DEF Serves, Still, SameRoles, SameLinks, SameRoc, SameBss
    <3>2. QED
      BY <3>1, RocUnchanged, Zenon
  <2>2. CASE w.state = "ON"
    BY <2>2, ZenonT(30) DEF Driver, Ready, Fit, StaOK
  <2>3. QED
    BY <2>1, <2>2, ZenonT(30) DEF Driver
<1>5. QED
  BY <1>4, ServesSound, ServesDriver, Zenon

\* A handler that changes nothing of it.
LEMMA Quiet ==
    ASSUME NEW w, NEW ass, NEW bea, Sound(w, ass, bea), NEW n, Keeps(n, w, w.inited), Still(n, w)
    PROVE  /\ Sound(n, ass, bea) /\ (Kept(w) => Kept(n)) /\ n.up = w.up /\ n.inited = w.inited
           /\ \A step, todo : Settled(w, step, todo) => Settled(n, step, todo)
<1>1. Driver(w) /\ Tidy(w, w.inited)
  BY Zenon DEF Sound, Driver
<1>2. Serves(n, w) /\ (RocOK(w) => RocOK(n))
  BY <1>1, ServesStill, Zenon
<1>3. /\ n.associated = w.associated /\ n.ap_started = w.ap_started /\ n.up = w.up
      /\ n.inited = w.inited /\ n.state \in {w.state, "RESTARTING"}
  BY Zenon DEF Keeps, Stays, Still, SameBss
<1>4. Sound(n, ass, bea)
  BY <1>2, <1>3, ServesSound, Zenon DEF Sound
<1>5. QED
  BY <1>1, <1>2, <1>3, <1>4, ServesDriver, Zenon DEF Settled

\* ieee80211_recalc_idle.
LEMMA Recalculates ==
    ASSUME Hard, NEW w, Sound(w, assoc, beacon), NEW v \in Stas, NEW needed, assoc \subseteq needed,
           NEW e \in Recalc(w, v, needed), NEW n, n = Ok(e)
    PROVE  /\ Sound(n, assoc, beacon) /\ (Kept(w) => Kept(n)) /\ n.up = w.up /\ n.inited = w.inited
           /\ \A step, todo : Settled(w, step, todo) => Settled(n, step, todo)
<1>1. CASE e = w
  <2>1. Keeps(n, w, w.inited) /\ Still(n, w)
    BY <1>1, Marks, ZenonT(30) DEF Sound, Driver
  <2>2. QED
    BY <2>1, Quiet, Zenon
<1>2. ASSUME NEW busy, busy = IF v \in needed THEN w.busy \cup {v} ELSE w.busy \ {v},
             e \in OpBssInfo([w EXCEPT !.busy = busy], v, {"IDLE"}, assoc, oper, beacon)
      PROVE  /\ Sound(n, assoc, beacon) /\ (Kept(w) => Kept(n)) /\ n.up = w.up /\ n.inited = w.inited
             /\ \A step, todo : Settled(w, step, todo) => Settled(n, step, todo)
  <2> DEFINE d == [w EXCEPT !.busy = busy]
  <2>1. /\ Watched \subseteq DOMAIN d /\ Still(d, w) /\ d.inited = w.inited /\ d.up = w.up
        /\ d.state = w.state /\ d.fw_type = w.fw_type /\ d.busy = busy
    BY Zenon DEF Sound, Driver, Tidy, Watched, Still, SameRoles, SameLinks, SameRoc, SameBss
  <2> USE <2>1
  <2> HIDE DEF d
  <2>2. /\ Tidy(w, w.inited) => Tidy(d, d.inited)
        /\ Ready(w) => Ready(d)
        /\ RocOK(w) => RocOK(d)
        /\ Whole(w) => Whole(d)
        /\ Clean(w) => Clean(d)
        /\ Started(d) = Started(w)
    BY Alike, ZenonT(30)
  <2>3. d.roles = w.roles /\ d.roc = w.roc /\ d.links = w.links /\ d.associated = w.associated
        /\ d.ap_started = w.ap_started
    BY Zenon DEF Still, SameRoles, SameLinks, SameRoc, SameBss
  <2> USE <2>3
  <2>4. Driver(d) /\ OneRole(d) /\ (Kept(w) => Kept(d))
    BY <2>2, Zenon DEF Sound, Driver, OneRole, Kept
  <2>5. /\ Bounded(d.up) /\ assoc \subseteq d.up \cap d.busy \cap Stas /\ beacon \subseteq d.up \cap Aps
        /\ d.up \cap Aps \subseteq d.busy
        /\ d.state = "ON" => d.associated \subseteq assoc /\ d.ap_started \subseteq beacon
    BY <1>2, ConstantsAssumption, Zenon DEF Sound
  <2>6. e \in OpBssInfo(d, v, {"IDLE"}, assoc, oper, beacon) /\ v \in Vifs
    BY <1>2, Zenon DEF d, Vifs
  <2>7. /\ Sound(n, assoc, beacon) /\ (Kept(d) => Kept(n))
        /\ n.up = d.up /\ n.inited = d.inited /\ n.associated \subseteq d.associated
        /\ (d.state # "RESTARTING" => RocOK(d)) => (n.state # "RESTARTING" => RocOK(n))
    <3>1. d.state = "ON" =>
            /\ d.associated \subseteq assoc \cup (IF "ASSOC" \in {"IDLE"} THEN {v} ELSE {})
            /\ d.ap_started \subseteq beacon \cup {v}
      BY <2>5, Zenon
    <3>2. /\ Sound(n, assoc, beacon) /\ (Kept(d) => Kept(n))
          /\ n.up = d.up /\ n.inited = d.inited
          /\ n.associated \subseteq d.associated \cup
               (IF "ASSOC" \in {"IDLE"} THEN {v} \cap assoc ELSE {})
          /\ /\ d.state # "RESTARTING" => RocOK(d)
             /\ "ASSOC" \in {"IDLE"} /\ v \in assoc /\ d.state = "ON" => v \notin d.associated
             => (n.state # "RESTARTING" => RocOK(n))
      BY <2>4, <2>5, <2>6, <3>1, Told
    <3>3. QED
      BY <3>2, Zenon
  <2>8. QED
    BY <2>2, <2>4, <2>7, Zenon DEF Settled
<1>3. QED
  <2>1. CASE v \in w.busy <=> v \in needed
    BY <1>1, <2>1, Zenon DEF Recalc
  <2>2. CASE ~(v \in w.busy <=> v \in needed)
    BY <1>2, <2>2, Zenon DEF Recalc
  <2>3. QED
    BY <2>1, <2>2, Zenon

\* add_interface, with what mac80211 takes note of.
LEMMA AddsSound ==
    ASSUME Hard, NEW w, NEW ass, NEW bea, Sound(w, ass, bea), NEW v \in Vifs,
           NEW e \in OpAddInterface(w, v), NEW n, Watched \subseteq DOMAIN n, Still(n, e),
           n.inited = e.inited, n.state = e.state, n.fw_type = e.fw_type,
           e.inited \subseteq n.up, n.up \subseteq Vifs, Bounded(n.up),
           w.up \subseteq n.up, w.busy \subseteq n.busy, n.up \cap Aps \subseteq n.busy
    PROVE  /\ Sound(n, ass, bea) /\ (Kept(w) => Kept(n)) /\ n.associated = w.associated
           /\ \A step, todo : Settled(w, step, todo) => Settled(n, step, todo)
<1>1. /\ Tidy(e, e.inited) /\ e.associated = w.associated /\ e.ap_started = w.ap_started
      /\ e.state \in {"ON", "RESTARTING"}
      /\ Clean(w) => Clean(e)
      /\ e.state = "ON" =>
           /\ Ready(e) /\ (Kept(w) => Whole(e)) /\ (RocOK(w) => RocOK(e))
           /\ Started(e) = Started(w)
           /\ w.state \in {"ON", "OFF"} /\ (w.state = "ON" => e.fw_type = w.fw_type)
  BY Adds, ZenonT(30) DEF Sound
<1>2. w.state = "OFF" => w.associated = {} /\ w.ap_started = {} /\ Started(w) = {}
  BY Blank, Zenon DEF Sound, Driver, Tidy
<1>3. QED
  BY <1>1, <1>2, Alike, Zenon DEF Kept, Settled, Sound, OneRole, Few, Driver, Still, SameBss

\* mac80211 stops the driver once no interface is left.
LEMMA LastOne ==
    ASSUME NEW w, NEW ass, NEW bea, Sound(w, ass, bea), NEW n, n = Ok(IF w.up = {} THEN OpStop(w) ELSE w)
    PROVE  /\ Sound(n, ass, bea) /\ (Kept(w) => Kept(n)) /\ n.up = w.up
           /\ (w.state # "RESTARTING" => RocOK(w)) => (n.state # "RESTARTING" => RocOK(n))
<1> DEFINE f == IF w.up = {} THEN OpStop(w) ELSE w
<1>1. /\ Sound(f, ass, bea) /\ (Kept(w) => Kept(f)) /\ f.up = w.up
      /\ (w.state # "RESTARTING" => RocOK(w)) => (f.state # "RESTARTING" => RocOK(f))
  <2>1. CASE w.up # {}
    BY <2>1, Zenon
  <2>2. CASE w.up = {}
    <3>1. f = OpStop(w) /\ w.inited = {} /\ Tidy(w, {})
      BY <2>2, Zenon DEF Sound, Driver
    <3> HIDE DEF f
    <3>2. Stopped(f, w)
      BY <3>1, Halts, Zenon DEF Sound, Driver
    <3>3. QED
      BY <3>2, Zenon DEF Stopped, Sound, OneRole, Kept
  <2>3. QED
    BY <2>1, <2>2, Zenon
<1> USE <1>1
<1> HIDE DEF f
<1>2. Keeps(n, f, f.inited) /\ Still(n, f) /\ n.state = f.state
  BY Marks, Zenon DEF Sound, Driver, f
<1>3. /\ Sound(n, ass, bea) /\ (Kept(f) => Kept(n)) /\ n.up = f.up
      /\ \A step, todo : Settled(f, step, todo) => Settled(n, step, todo)
  BY <1>2, Quiet, Zenon
<1>4. (f.state # "RESTARTING" => RocOK(f)) => (n.state # "RESTARTING" => RocOK(n))
  BY <1>3 DEF Settled
<1>5. QED
  BY <1>3, <1>4, Zenon

\* remove_interface for an interface that mac80211 has disconnected.
LEMMA ClosesSound ==
    ASSUME Hard, NEW w, NEW ass, NEW bea, Sound(w, ass, bea), NEW v \in Vifs, v \notin ass \cup bea,
           NEW e \in OpRemoveInterface([w EXCEPT !.up = @ \ {v}, !.busy = @ \ {v}], v)
    PROVE  /\ Sound(e, ass, bea) /\ (Kept(w) => Kept(e)) /\ e.up = w.up \ {v}
           /\ (w.state # "RESTARTING" => RocOK(w)) => (e.state # "RESTARTING" => RocOK(e))
<1> DEFINE d == [w EXCEPT !.up = @ \ {v}, !.busy = @ \ {v}]
<1>1. /\ Watched \subseteq DOMAIN d /\ Still(d, w) /\ d.inited = w.inited /\ d.up = w.up \ {v}
      /\ d.state = w.state /\ d.fw_type = w.fw_type /\ d.busy = w.busy \ {v}
  BY Zenon DEF Sound, Driver, Tidy, Watched, Still, SameRoles, SameLinks, SameRoc, SameBss
<1> USE <1>1
<1>2. e \in OpRemoveInterface(d, v)
  BY Zenon
<1> HIDE DEF d
<1>3. /\ Tidy(w, w.inited) => Tidy(d, d.inited)
      /\ Ready(w) => Ready(d)
      /\ RocOK(w) => RocOK(d)
      /\ Whole(w) => Whole(d)
      /\ Clean(w) => Clean(d)
      /\ Started(d) = Started(w)
  BY Alike, Zenon
<1> USE <1>3
<1>4. d.roles = w.roles /\ d.roc = w.roc /\ d.links = w.links /\ d.associated = w.associated
      /\ d.ap_started = w.ap_started
  BY Zenon DEF Still, SameRoles, SameLinks, SameRoc, SameBss
<1> USE <1>4
<1>5. /\ Bounded(d.up) /\ ass \subseteq d.up \cap d.busy \cap Stas /\ bea \subseteq d.up \cap Aps
      /\ d.up \cap Aps \subseteq d.busy /\ d.up \subseteq Vifs
  BY Zenon DEF Sound, Driver, Bounded
<1> USE <1>5
<1>6. CASE e = d /\ v \notin d.inited
  BY <1>6, Zenon DEF Sound, Driver, OneRole, Kept
<1>7. CASE d.state # "OFF" /\ v \in d.inited /\ e \in RemoveInterface(d, v)
  <2> USE <1>7
  <2>1. /\ e.inited = d.inited \ {v} /\ Tidy(e, e.inited) /\ e.up = d.up /\ e.busy = d.busy
        /\ e.fw_type = d.fw_type
        /\ e.state = d.state \/ (d.state = "ON" /\ e.state = "RESTARTING")
        /\ e.associated = d.associated \ {v} /\ e.ap_started = d.ap_started \ {v}
        /\ Clean(d) => Clean(e)
        /\ e.state = "ON" /\ Ready(d) /\ v \notin d.associated \cup d.ap_started =>
             /\ Ready(e) /\ (Whole(d) => Whole(e)) /\ (RocOK(d) => RocOK(e))
             /\ Started(e) \subseteq Started(d)
    BY Removes, Zenon DEF Sound, Driver
  <2> USE <2>1
  <2>2. e.state # "RESTARTING" => e.state = "ON" /\ w.state = "ON"
    BY Zenon DEF Sound, Driver
  <2> USE <2>2
  <2>3. e.state # "RESTARTING" =>
             /\ Ready(e) /\ (Whole(w) => Whole(e)) /\ (RocOK(w) => RocOK(e))
             /\ Started(e) \subseteq Started(w)
    BY Zenon DEF Sound, Driver
  <2>4. Driver(e) /\ (Kept(w) => Kept(e))
    BY <2>3, Zenon DEF Sound, Driver, Kept
  <2>5. QED
    BY <2>3, <2>4, Zenon DEF Sound, OneRole, Few
<1>8. CASE d.state = "OFF" /\ e = d
  BY <1>6, <1>8, Zenon DEF Sound, Driver
<1>9. QED
  BY <1>2, <1>6, <1>7, <1>8, Zenon DEF OpRemoveInterface

\* sta_add and sta_remove, with what mac80211 takes note of.
LEMMA ClientSound ==
    ASSUME Hard, NEW w, NEW ass, NEW bea, Sound(w, ass, bea), NEW c \in Clients,
           NEW e \in OpStaAdd(w, c) \cup OpStaRemove(w, c), NEW n, Watched \subseteq DOMAIN n,
           Still(n, e), Stays(n, e)
    PROVE  /\ Sound(n, ass, bea) /\ n.up = w.up
           /\ \A step, todo : Settled(w, step, todo) => Settled(n, step, todo)
           /\ Kept(w) /\ (w.state = "ON" /\ e \notin OpStaRemove(w, c) => ApOf[c] \in w.inited) => Kept(n)
<1>1. Driver(w) /\ Tidy(w, w.inited)
  BY Zenon DEF Sound, Driver
<1> USE <1>1
<1>2. ClientDone(e, w, c)
  BY Client, Zenon
<1> USE <1>2
<1>3. /\ Ready(w) => Ready(e) /\ Started(e) = Started(w)
      /\ RocOK(w) => RocOK(e)
      /\ ApOf[c] \in w.inited => Serves(e, w)
  BY ServesClient, Zenon
<1> USE <1>3
<1>4. Tidy(e, w.inited) /\ Stays(e, w) /\ e.inited = w.inited
  BY Zenon DEF ClientDone, Stays
<1> USE <1>4
<1>5. /\ Tidy(e, e.inited) => Tidy(n, n.inited)
      /\ Ready(e) => Ready(n)
      /\ RocOK(e) => RocOK(n)
      /\ Whole(e) => Whole(n)
      /\ Clean(e) => Clean(n)
      /\ Started(n) = Started(e)
  BY Alike, Zenon DEF Stays
<1> USE <1>5
<1>6. /\ n.inited = w.inited /\ n.up = w.up /\ n.busy = w.busy /\ n.fw_type = w.fw_type
      /\ n.state = w.state \/ (w.state = "ON" /\ n.state = "RESTARTING")
      /\ n.state = "ON" => e.state = "ON" /\ w.state = "ON"
      /\ n.associated = w.associated /\ n.ap_started = w.ap_started
  BY Zenon DEF ClientDone, Stays, Still, SameBss
<1> USE <1>6
<1>7. Driver(n)
  BY Again, Zenon DEF Driver, Still, SameRoles, SameLinks, SameRoc, ClientDone
<1>8. ASSUME Kept(w), w.state = "ON" /\ e \notin OpStaRemove(w, c) => ApOf[c] \in w.inited
       PROVE  Kept(n)
  <2> USE <1>8
  <2>1. CASE ApOf[c] \in w.inited
    BY <2>1, ServesDriver, Zenon DEF Kept, Stays
  <2>2. CASE ApOf[c] \notin w.inited
    <3>1. Still(e, w)
      BY <2>2, Marks, ConstantsAssumption, Zenon DEF OpStaAdd, OpStaRemove, Kept, Clean, Vifs
    <3>2. QED
      BY <3>1, Alike, Zenon DEF Kept, Tidy
  <2>3. QED
    BY <2>1, <2>2, Zenon
<1>9. QED
  BY <1>7, <1>8, Zenon DEF Sound, Settled, OneRole, Driver

-----------------------------------------------------------------------------
(* The inductive invariant.                                                *)

\* A loop over the interfaces visits initialised ones, and mac80211's restart
\* interfaces that are up.
Inv ==
    /\ Sound(wl, assoc, beacon) /\ work \subseteq wl.up
    /\ (holder = "none" => left = {}) /\ left \subseteq wl.inited
    /\ phase \in {"add", "bss"} => pending \subseteq wl.up
    /\ "redone" \notin odd => Settled(wl, phase, pending)
    /\ "stray" \notin odd => Kept(wl)

\* The initial states: no interface is there, and the driver is off.
LEMMA InvInit == Init => Inv
<1> SUFFICES ASSUME Init PROVE Inv
  BY Zenon
<1>1. /\ work = {} /\ assoc = {} /\ beacon = {} /\ phase = "none" /\ left = {}
  BY Zenon DEF Init
<1>2. /\ wl.inited = {} /\ wl.up = {} /\ wl.busy = {} /\ wl.roles = {} /\ wl.roc = {}
      /\ wl.links = {SystemHlid} /\ wl.state = "OFF"
  BY Zenon DEF Init
<1>3. Tidy(wl, {}) /\ Clean(wl)
  BY Zenon DEF Init, Tidy, Clean, Watched
<1>4. Driver(wl) /\ OneRole(wl) /\ Kept(wl) /\ RocOK(wl)
  BY <1>2, <1>3, Blank, Zenon DEF Driver, OneRole, Kept
<1>5. wl.associated = {}
  BY <1>3, Zenon DEF Tidy
<1>6. QED
  BY <1>1, <1>2, <1>4, <1>5, BoundedNone, Zenon DEF Inv, Sound, Settled

\* mac80211 hears of a work or of its end.
LEMMA WorkSteps ==
    ASSUME Hard, Inv, NEW v \in Stas, StartWork(v) \/ EndWork(v) \/ RecalcIdle(v)
    PROVE  Inv'
<1>1. PICK needed, e : e \in Recalc(wl, v, needed) /\ wl' = Ok(e) /\ assoc \subseteq needed
  <2>1. \/ \E e \in Recalc(wl, v, assoc \cup work') : wl' = Ok(e)
        \/ \E e \in Recalc(wl, v, assoc \cup work) : wl' = Ok(e)
    BY Zenon DEF StartWork, EndWork, RecalcIdle
  <2>2. assoc \subseteq assoc \cup work' /\ assoc \subseteq assoc \cup work
    BY Zenon
  <2>3. QED
    BY <2>1, <2>2, Zenon
<1>2. (work' = work \cup {v} /\ v \in wl.up) \/ work' = work \ {v} \/ work' = work
  BY Zenon DEF StartWork, EndWork, RecalcIdle, mac
<1>3. work' \subseteq wl.up
  BY <1>2, Zenon DEF Inv
<1>4. UNCHANGED <<assoc, beacon, recon, lock, odd>>
  BY Zenon DEF StartWork, EndWork, RecalcIdle, mac
<1>5. /\ Sound(wl', assoc, beacon) /\ (Kept(wl) => Kept(wl')) /\ wl'.up = wl.up
      /\ wl'.inited = wl.inited
      /\ \A step, todo : Settled(wl, step, todo) => Settled(wl', step, todo)
  <2>1. Sound(wl, assoc, beacon)
    BY Zenon DEF Inv
  <2>2. QED
    BY <1>1, <2>1, Recalculates, Zenon
<1>6. QED
  BY <1>3, <1>4, <1>5, Zenon DEF Inv, recon, lock

\* mac80211 associates, disassociates, starts or stops an AP, or tells the driver
\* again after a restart.
LEMMA BssSteps ==
    ASSUME Hard, Inv, NEW v \in Vifs,
           \/ v \in Stas /\ (Associate(v) \/ Disassociate(v))
           \/ v \in Aps /\ (SetBeacon(v) \/ DelBeacon(v))
           \/ ReconfigBss(v)
    PROVE  Inv'
<1>1. /\ Driver(wl) /\ OneRole(wl) /\ Bounded(wl.up) /\ wl.up \cap Aps \subseteq wl.busy
      /\ assoc \subseteq wl.up \cap wl.busy \cap Stas /\ beacon \subseteq wl.up \cap Aps
      /\ wl.state = "ON" => wl.associated \subseteq assoc /\ wl.ap_started \subseteq beacon
      /\ work \subseteq wl.up
  BY Zenon DEF Inv, Sound
<1> USE <1>1
<1>2. ASSUME NEW changed, NEW e \in OpBssInfo(wl, v, changed, assoc', oper, beacon'), wl' = Ok(e),
             assoc' \subseteq wl.up \cap wl.busy \cap Stas, beacon' \subseteq wl.up \cap Aps,
             assoc \subseteq assoc' \cup (IF "ASSOC" \in changed THEN {v} ELSE {}),
             beacon \subseteq beacon' \cup {v}, work' \subseteq work,
             UNCHANGED <<restart, phase, lock, odd>>, MutexFree, pending' \subseteq pending,
             "ASSOC" \in changed /\ v \in assoc' /\ "redone" \notin odd =>
               /\ wl.state = "ON" => v \notin wl.associated
               /\ phase = "none" \/ (phase = "bss" /\ v \notin pending')
      PROVE  Inv'
  <2>1. /\ Sound(wl', assoc', beacon') /\ (Kept(wl) => Kept(wl'))
        /\ wl'.up = wl.up /\ wl'.inited = wl.inited
        /\ wl'.associated \subseteq wl.associated \cup (IF "ASSOC" \in changed THEN {v} \cap assoc' ELSE {})
        /\ /\ wl.state # "RESTARTING" => RocOK(wl)
           /\ "ASSOC" \in changed /\ v \in assoc' /\ wl.state = "ON" => v \notin wl.associated
           => (wl'.state # "RESTARTING" => RocOK(wl'))
    <3>1. wl.state = "ON" =>
            /\ wl.associated \subseteq assoc' \cup (IF "ASSOC" \in changed THEN {v} ELSE {})
            /\ wl.ap_started \subseteq beacon' \cup {v}
      BY <1>2, Zenon
    <3>2. QED
      BY <1>2, <3>1, Told
  <2>2. QED
    BY <1>2, <2>1, ZenonT(30) DEF Inv, MutexFree, lock, Settled
<1> USE <1>2
<1>3. CASE v \in Stas /\ Associate(v)
  <2>1. PICK e \in OpBssInfo(wl, v, {"ASSOC"}, assoc', oper, beacon) : wl' = Ok(e)
    BY <1>3, Zenon DEF Associate
  <2>2. QED
    BY <1>3, <2>1, Zenon DEF Associate, recon
<1>4. CASE v \in Stas /\ Disassociate(v)
  <2>1. PICK e \in OpBssInfo(wl, v, {"ASSOC"}, assoc', oper, beacon) : wl' = Ok(e)
    BY <1>4, Zenon DEF Disassociate
  <2>2. QED
    BY <1>4, <2>1, Zenon DEF Disassociate, recon
<1>5. CASE v \in Aps /\ (SetBeacon(v) \/ DelBeacon(v))
  <2>1. PICK e \in OpBssInfo(wl, v, {}, assoc, oper, beacon') : wl' = Ok(e)
    BY <1>5, Zenon DEF SetBeacon, DelBeacon
  <2>2. QED
    BY <1>5, <2>1, Zenon DEF SetBeacon, DelBeacon, RtnlFree, recon
<1>6. CASE ReconfigBss(v)
  <2>1. PICK e \in OpBssInfo(wl, v, {"IDLE", "ASSOC"}, assoc, oper, beacon) : wl' = Ok(e)
    BY <1>6, Zenon DEF ReconfigBss
  <2>2. QED
    BY <1>6, <2>1, Zenon DEF ReconfigBss, mac, Inv, Settled
<1>7. QED
  BY <1>3, <1>4, <1>5, <1>6, Zenon

\* wl12xx_sta_check_operstate, for an associated interface.
LEMMA Notified ==
    ASSUME Hard, NEW w, Tidy(w, w.inited), w.state # "OFF", NEW v \in Stas \cap w.inited,
           v \in w.associated, NEW up, NEW e \in CheckOperstate(w, v, up)
    PROVE  /\ Serves(e, w) /\ e.associated = w.associated /\ e.ap_started = w.ap_started
           /\ e.state = "ON" /\ RocOK(w) => RocOK(e)
<1>1. /\ Keeps(e, w, w.inited) /\ SameRoles(e, w) /\ SameLinks(e, w)
      /\ e.associated = w.associated /\ e.ap_started = w.ap_started
      /\ e.state = "ON" /\ Fit(w) => Fit(e)
      /\ e.state = "ON" /\ RocOK(w) => RocOK(e)
  BY Authorises
<1>2. StaStep(e, w, v) /\ (Whole(w) => Whole(e))
  BY <1>1, StaSteps, WholeKept, Zenon DEF Keeps
<1>3. StaDone(e, w, v, w.inited)
  BY <1>1, <1>2, Zenon DEF StaDone
<1>4. QED
  BY <1>1, <1>3, ServesSta, ZenonT(30)

\* The loops over the interfaces, and the netdev's state.
LEMMA LoopSteps ==
    ASSUME Hard, Inv, NEW v \in Stas, LinkUp(v) \/ LinkDown(v) \/ NotifyVif(v) \/ ConfigVif(v)
    PROVE  Inv'
<1>1. /\ Sound(wl, assoc, beacon) /\ Driver(wl) /\ Tidy(wl, wl.inited) /\ left \subseteq wl.inited
      /\ wl.inited # {} => wl.state # "OFF"
  BY Zenon DEF Inv, Sound, Driver
<1> USE <1>1
<1>2. ASSUME NEW e, Serves(e, wl), e.associated = wl.associated, e.ap_started = wl.ap_started,
             e.state = "ON" /\ RocOK(wl) => RocOK(e), wl.state # "OFF",
             wl' = Ok(e), left' \subseteq left, left' = {} => holder' = "none",
             left' # {} => holder' # "none", UNCHANGED <<mac, recon, odd>>
      PROVE  Inv'
  <2>1. /\ Serves(wl', wl) /\ wl'.state = e.state /\ wl'.associated = wl.associated
        /\ wl'.ap_started = wl.ap_started /\ (RocOK(e) => RocOK(wl'))
    BY <1>2, ServesOk
  <2> USE <2>1
  <2>2. /\ wl'.up = wl.up /\ wl'.inited = wl.inited
        /\ wl'.state = wl.state \/ (wl.state = "ON" /\ wl'.state = "RESTARTING")
    BY Zenon DEF Serves, Keeps, Stays
  <2>3. Sound(wl', assoc, beacon)
    BY <2>2, ServesSound, Zenon DEF Sound
  <2>4. QED
    BY <1>2, <2>2, <2>3, ServesDriver, ZenonT(30) DEF Inv, mac, recon, Settled, Driver
<1> USE <1>2
<1>3. CASE LinkUp(v)
  BY <1>3, Zenon DEF Inv, recon, LinkUp
<1>4. CASE LinkDown(v)
  BY <1>4, Zenon DEF LinkDown, Inv, recon, lock
<1>5. CASE NotifyVif(v)
  <2> USE <1>5
  <2>1. v \in left /\ v \in Stas \cap wl.inited /\ wl.state # "OFF"
    BY Zenon DEF NotifyVif
  <2> USE <2>1
  <2>2. PICK e \in IF v \in wl.associated THEN Wakeup(wl) ELSE {wl} :
              /\ left' = IF Good(e) THEN left \ {v} ELSE {}
              /\ holder' = IF left' = {} THEN "none" ELSE holder
              /\ \E f \in IF Good(e) /\ v \in wl.associated
                          THEN CheckOperstate(e, v, oper) ELSE {e} : wl' = Ok(f)
    BY Zenon DEF NotifyVif
  <2> USE <2>2
  <2>3. PICK f : /\ f \in IF Good(e) /\ v \in wl.associated THEN CheckOperstate(e, v, oper) ELSE {e}
                 /\ wl' = Ok(f)
    BY Zenon
  <2> USE <2>3
  <2>4. Keeps(e, wl, wl.inited) /\ Still(e, wl)
    <3>1. CASE e = wl
      BY <3>1, Again, Zenon
    <3>2. CASE e \in Wakeup(wl)
      BY <3>2, Issued, Zenon DEF Plain
    <3>3. QED
      BY <3>1, <3>2, Zenon
  <2> USE <2>4
  <2>5. Serves(e, wl) /\ (RocOK(wl) => RocOK(e))
    BY ServesStill, Zenon
  <2> USE <2>5
  <2>6. CASE f = e
    BY <2>6, Zenon DEF NotifyVif, Still, SameBss
  <2>7. CASE v \in wl.associated /\ f \in CheckOperstate(e, v, oper)
    <3>1. Tidy(e, e.inited) /\ v \in Stas \cap e.inited /\ e.state # "OFF" /\ v \in e.associated
      BY <2>7, Zenon DEF Keeps, Stays, Still, SameBss
    <3>2. /\ Serves(f, e) /\ f.associated = e.associated /\ f.ap_started = e.ap_started
          /\ f.state = "ON" /\ RocOK(e) => RocOK(f)
      BY <2>7, <3>1, Notified, Zenon
    <3>3. Serves(f, wl)
      BY <3>2, ServesAgain, Zenon
    <3>4. QED
      BY <3>2, <3>3, Zenon DEF NotifyVif, Still, SameBss
  <2>8. QED
    BY <2>6, <2>7, Zenon
<1>6. CASE ConfigVif(v)
  <2>1. PICK e \in ConfigChannel(wl, v) :
               /\ wl' = Ok(e)
               /\ left' = IF Good(e) THEN left \ {v} ELSE {}
               /\ holder' = IF left' = {} THEN "none" ELSE holder
    BY <1>6, Zenon DEF ConfigVif
  <2>2. v \in Stas \cap wl.inited /\ wl.state # "OFF"
    BY <1>6, Zenon DEF ConfigVif
  <2>3. /\ Serves(e, wl) /\ SameBss(e, wl)
        /\ e.state = "ON" /\ Ready(wl) /\ RocOK(wl) => RocOK(e)
    BY <2>1, <2>2, Configures, Zenon
  <2>4. e.state = "ON" => Ready(wl)
    BY <2>3, Zenon DEF Serves, Keeps, Stays, Driver
  <2>5. QED
    BY <1>6, <2>1, <2>2, <2>3, <2>4, Zenon DEF ConfigVif, SameBss
<1>7. QED
  BY <1>3, <1>4, <1>5, <1>6, Zenon

\* What leaves roles, links and ROCs alone.
LEMMA QuietSteps ==
    ASSUME Hard, Inv,
           \/ \E p \in Stas \cup Clients, t \in Tids : AmpduStart(p, t) \/ AmpduStop(p, t)
           \/ Config \/ FwCrash \/ DelayedRecoveryTimer \/ DelayedRecovery
    PROVE  Inv'
<1>1. Sound(wl, assoc, beacon) /\ Tidy(wl, wl.inited) /\ left \subseteq wl.inited
  BY Zenon DEF Inv, Sound, Driver
<1> USE <1>1
<1>2. ASSUME Keeps(wl', wl, wl.inited), Still(wl', wl), UNCHANGED <<work, assoc, beacon, recon, odd>>,
             (holder' = "none" => left' = {}) /\ left' \subseteq wl.inited
      PROVE  Inv'
  BY <1>2, Quiet, Zenon DEF Inv, recon
<1> USE <1>2
<1>3. ASSUME NEW e, Keeps(e, wl, wl.inited), Still(e, wl), wl' = Ok(e)
      PROVE  Keeps(wl', wl, wl.inited) /\ Still(wl', wl)
  <2>1. Keeps(Ok(e), e, wl.inited) /\ Still(Ok(e), e)
    BY <1>3, Marks, Zenon DEF Keeps
  <2>2. QED
    BY <1>3, <2>1, Again, Zenon DEF Still
<1>4. ASSUME NEW p, NEW t, AmpduStart(p, t) \/ AmpduStop(p, t) PROVE Inv'
  <2>1. PICK e : /\ e \in OpAmpduStart(wl, p, t) \cup OpAmpduStop(wl, p, t) \/ e = wl
                 /\ wl' = Ok(e)
    BY <1>4, Zenon DEF AmpduStart, AmpduStop
  <2>2. QED
    BY <1>3, <1>4, <2>1, Ampdus, Again, Zenon
    DEF MutexFree, lock, Inv, AmpduStart, AmpduStop, RtnlFree
<1>5. CASE Config
  <2>1. PICK e \in Wakeup(wl) : /\ wl' = Ok(e)
                                /\ left' = IF Good(e) THEN wl.inited \cap Stas ELSE {}
                                /\ holder' = IF left' = {} THEN "none" ELSE "op_config"
    BY <1>5, Zenon DEF Config
  <2>2. QED
    BY <1>3, <1>5, <2>1, Issued, Zenon DEF Config, mac, Plain
<1>6. CASE FwCrash
  BY <1>6, Marks, Zenon DEF FwCrash, mac, lock, MutexFree, Inv
<1>7. ASSUME NEW x, NEW y, NEW d, d = [wl EXCEPT !.dwork = x] \/ d = [wl EXCEPT !.dwork = x, !.force_mr = y]
      PROVE  Keeps(d, wl, wl.inited) /\ Still(d, wl)
  <2>1. Watched \subseteq DOMAIN d /\ Still(d, wl) /\ Stays(d, wl)
    BY <1>7, ZenonT(30) DEF Tidy, Watched, Still, SameRoles, SameLinks, SameRoc, SameBss, Stays
  <2>2. QED
    BY <2>1, Untouched, Zenon DEF Keeps
<1>8. CASE DelayedRecoveryTimer
  BY <1>7, <1>8, Zenon DEF DelayedRecoveryTimer, mac, lock, MutexFree, Inv
<1>9. CASE DelayedRecovery
  <2> DEFINE e == [wl EXCEPT !.dwork = "off"]
             f == IF SwitchesToMr(e) THEN [e EXCEPT !.force_mr = "yes"] ELSE e
  <2>1. wl' = e \/ \E g \in Wakeup(f) : wl' = Ok(IF Good(g) THEN Recover(g) ELSE g)
    BY <1>9, Zenon DEF DelayedRecovery
  <2>2. e = [wl EXCEPT !.dwork = "off"] /\ (f = e \/ f = [wl EXCEPT !.dwork = "off", !.force_mr = "yes"])
    BY Zenon
  <2> HIDE DEF e, f
  <2>3. Keeps(e, wl, wl.inited) /\ Still(e, wl) /\ Keeps(f, wl, wl.inited) /\ Still(f, wl)
    BY <1>7, <2>2, Zenon
  <2>4. ASSUME NEW g \in Wakeup(f), wl' = Ok(IF Good(g) THEN Recover(g) ELSE g)
        PROVE  Keeps(wl', wl, wl.inited) /\ Still(wl', wl)
    <3>1. Keeps(g, wl, wl.inited) /\ Still(g, wl)
      BY <2>3, <2>4, Issued, Again, ZenonT(30) DEF Plain, Keeps, Still
    <3>2. Keeps(Recover(g), wl, wl.inited) /\ Still(Recover(g), wl)
      <4>1. Keeps(Recover(g), g, wl.inited) /\ Still(Recover(g), g)
        BY <3>1, Marks, Zenon DEF Keeps
      <4>2. QED
        BY <3>1, <4>1, Again, Zenon DEF Still
    <3>3. QED
      BY <1>3, <2>4, <3>1, <3>2, Zenon
  <2>5. QED
    BY <1>9, <2>1, <2>3, <2>4, Zenon DEF DelayedRecovery, mac, lock, MutexFree, Inv
<1>10. QED
  BY <1>4, <1>5, <1>6, <1>8, <1>9, Zenon

\* Interfaces are opened, closed and added again.
LEMMA VifSteps ==
    ASSUME Hard, Inv, NEW v \in Vifs, Open(v) \/ Close(v) \/ ReconfigAdd(v)
    PROVE  Inv'
<1>1. /\ Sound(wl, assoc, beacon) /\ Driver(wl) /\ Bounded(wl.up) /\ wl.up \cap Aps \subseteq wl.busy
      /\ wl.inited \subseteq wl.up /\ wl.up \subseteq Vifs /\ work \subseteq wl.up
  BY Zenon DEF Inv, Sound, Driver
<1> USE <1>1
<1>2. ASSUME MutexFree, UNCHANGED <<assoc, beacon, lock, odd>>, Sound(wl', assoc, beacon),
             Kept(wl) => Kept(wl'), work' \subseteq wl'.up, phase' = "add" => pending' \subseteq wl'.up,
             phase' # "bss", Settled(wl, phase, pending) => Settled(wl', phase', pending')
      PROVE  Inv'
  BY <1>2, Zenon DEF Inv, MutexFree, lock
<1> USE <1>2
<1>3. CASE Open(v)
  <2>1. MutexFree /\ phase = "none" /\ UNCHANGED <<mac, recon, lock, odd>>
    BY <1>3, Zenon DEF Open, RtnlFree
  <2> USE <2>1
  <2>2. PICK e \in OpAddInterface(wl, v) :
          wl' = Ok(IF Good(e) THEN [e EXCEPT !.up = @ \cup {v}, !.busy = @ \cup (Aps \cap {v})]
                   ELSE IF e.up = {} THEN OpStop(e) ELSE e)
    BY <1>3, Zenon DEF Open
  <2> USE <2>2
  <2>3. /\ e.inited = IF Good(e) THEN wl.inited \cup {v} ELSE wl.inited
        /\ Tidy(e, e.inited) /\ e.up = wl.up /\ e.busy = wl.busy /\ Watched \subseteq DOMAIN e
    <3>1. /\ e.inited = IF Good(e) THEN wl.inited \cup {v} ELSE wl.inited
          /\ Tidy(e, e.inited) /\ e.up = wl.up /\ e.busy = wl.busy
      BY Adds, Zenon
    <3>2. QED
      BY <3>1, Zenon DEF Tidy
  <2> USE <2>3
  <2>4. CASE Good(e)
    <3> DEFINE d == [e EXCEPT !.up = @ \cup {v}, !.busy = @ \cup (Aps \cap {v})]
    <3>1. wl' = Ok(d)
      BY <2>4, Zenon
    <3>2. /\ Watched \subseteq DOMAIN d /\ Still(d, e) /\ d.inited = e.inited /\ d.state = e.state
          /\ d.fw_type = e.fw_type /\ d.up = wl.up \cup {v} /\ d.busy = wl.busy \cup (Aps \cap {v})
      BY Zenon DEF Watched, Still, SameRoles, SameLinks, SameRoc, SameBss
    <3> USE <3>2
    <3> HIDE DEF d
    <3>3. Bounded(wl.up \cup {v})
      BY BoundedMore, Zenon
    <3>4. /\ e.inited \subseteq d.up /\ d.up \subseteq Vifs /\ wl.up \subseteq d.up
          /\ wl.busy \subseteq d.busy /\ d.up \cap Aps \subseteq d.busy
      BY Zenon
    <3>5. /\ Sound(d, assoc, beacon) /\ (Kept(wl) => Kept(d))
          /\ \A step, todo : Settled(wl, step, todo) => Settled(d, step, todo)
      BY <3>3, <3>4, AddsSound, ZenonT(30)
    <3>6. Keeps(wl', d, d.inited) /\ Still(wl', d)
      <4>1. Tidy(d, d.inited)
        BY <3>5, Zenon DEF Sound, Driver
      <4>2. Keeps(Ok(d), d, d.inited) /\ Still(Ok(d), d)
        BY <4>1, Marks, Zenon
      <4>3. QED
        BY <3>1, <4>2, Zenon
    <3>7. QED
      BY <3>5, <3>6, Quiet DEF mac, recon
  <2>5. CASE ~Good(e)
    <3>1. /\ Sound(e, assoc, beacon) /\ (Kept(wl) => Kept(e))
          /\ \A step, todo : Settled(wl, step, todo) => Settled(e, step, todo)
      BY <2>5, AddsSound DEF Still, SameRoles, SameLinks, SameRoc, SameBss
    <3> USE <3>1
    <3>2. /\ Sound(wl', assoc, beacon) /\ (Kept(e) => Kept(wl')) /\ wl'.up = e.up
          /\ (e.state # "RESTARTING" => RocOK(e)) => (wl'.state # "RESTARTING" => RocOK(wl'))
      BY <2>5, LastOne, Zenon
    <3>3. Settled(wl, phase, pending) => Settled(wl', phase, pending)
      BY <3>2, Zenon DEF Settled
    <3>4. QED
      BY <3>2, <3>3, Zenon DEF mac, recon
  <2>6. QED
    BY <2>4, <2>5, Zenon
<1>4. CASE Close(v)
  <2>1. /\ MutexFree /\ phase = "none" /\ UNCHANGED <<assoc, beacon, recon, lock, odd>>
        /\ work' = work \ {v} /\ v \notin assoc \cup beacon
    BY <1>4, Zenon DEF Close, RtnlFree
  <2>2. PICK e \in OpRemoveInterface([wl EXCEPT !.up = @ \ {v}, !.busy = @ \ {v}], v) :
          wl' = Ok(IF e.up = {} THEN OpStop(e) ELSE e)
    BY <1>4, Zenon DEF Close
  <2>3. /\ Sound(e, assoc, beacon) /\ (Kept(wl) => Kept(e)) /\ e.up = wl.up \ {v}
        /\ (wl.state # "RESTARTING" => RocOK(wl)) => (e.state # "RESTARTING" => RocOK(e))
    BY <2>1, <2>2, ClosesSound, Zenon
  <2>4. QED
    BY <2>1, <2>2, <2>3, LastOne, Zenon DEF recon, Settled
<1>5. CASE ReconfigAdd(v)
  <2>1. /\ MutexFree /\ phase = "add" /\ v \in pending /\ pending' = pending \ {v}
        /\ UNCHANGED <<mac, restart, phase, lock, odd>> /\ pending \subseteq wl.up
    BY <1>5, Zenon DEF ReconfigAdd, Inv
  <2>2. PICK e \in OpAddInterface(wl, v) : wl' = Ok(e)
    BY <1>5, Zenon DEF ReconfigAdd
  <2> USE <2>2
  <2>3. /\ e.inited \subseteq wl.inited \cup {v} /\ Tidy(e, e.inited) /\ e.up = wl.up /\ e.busy = wl.busy
    BY Adds, Zenon
  <2>4. Keeps(wl', e, e.inited) /\ Still(wl', e) /\ wl'.state = e.state
    BY <2>3, Marks, Zenon
  <2>5. /\ wl'.inited = e.inited /\ wl'.up = wl.up /\ wl'.busy = wl.busy /\ wl'.fw_type = e.fw_type
        /\ Watched \subseteq DOMAIN wl' /\ e.inited \subseteq wl.up
    BY <2>1, <2>3, <2>4, Zenon DEF Keeps, Stays, Tidy
  <2>6. /\ Sound(wl', assoc, beacon) /\ (Kept(wl) => Kept(wl')) /\ wl'.associated = wl.associated
        /\ \A step, todo : Settled(wl, step, todo) => Settled(wl', step, todo)
    <3>1. /\ e.inited \subseteq wl'.up /\ wl'.up \subseteq Vifs /\ Bounded(wl'.up)
          /\ wl.up \subseteq wl'.up /\ wl.busy \subseteq wl'.busy /\ wl'.up \cap Aps \subseteq wl'.busy
      BY <2>5, Zenon DEF Sound, Driver
    <3>2. QED
      BY <2>4, <2>5, <3>1, AddsSound, ZenonT(30)
  <2>7. QED
    BY <2>1, <2>4, <2>5, <2>6, Zenon DEF mac, Settled
<1>6. QED
  BY <1>3, <1>4, <1>5, Zenon

\* Clients of the APs come and go.
LEMMA ClientSteps ==
    ASSUME Hard, Inv, NEW c \in Clients, StaAdd(c) \/ StaRemove(c) \/ ReconfigSta(c)
    PROVE  Inv'
<1>1. Sound(wl, assoc, beacon)
  BY Zenon DEF Inv
<1>2. ASSUME NEW e \in OpStaAdd(wl, c) \cup OpStaRemove(wl, c), NEW k,
             wl' \in {e, Ok(e), [Ok(e) EXCEPT !.sta_hlid = k]},
             UNCHANGED <<work, assoc, beacon, phase, lock>>, MutexFree, odd \subseteq odd',
             odd' \subseteq odd \cup {"stray"}, phase \in {"add", "bss"} => pending' = pending,
             wl.state = "ON" /\ "stray" \notin odd' /\ e \notin OpStaRemove(wl, c) => ApOf[c] \in wl.inited
      PROVE  Inv'
  <2> USE <1>2
  <2>1. Watched \subseteq DOMAIN wl' /\ Still(wl', e) /\ Stays(wl', e)
    <3>1. Watched \subseteq DOMAIN e
      BY <1>1, Client, Zenon DEF Sound, Driver, ClientDone, Tidy
    <3>2. QED
      BY <3>1, Zenon DEF Watched, Still, SameRoles, SameLinks, SameRoc, SameBss, Stays, Ok
  <2>2. QED
    BY <1>1, <2>1, ClientSound, ZenonT(30) DEF Inv, MutexFree, lock, Settled
<1> USE <1>2
<1>3. ASSUME odd' = odd \cup Stray(c)
      PROVE  /\ odd \subseteq odd' /\ odd' \subseteq odd \cup {"stray"}
             /\ wl.state = "ON" /\ "stray" \notin odd' => ApOf[c] \in wl.inited
  BY <1>3, Zenon DEF Stray
<1>4. CASE StaAdd(c)
  <2>1. PICK e \in OpStaAdd(wl, c) : wl' = IF Good(e) THEN e ELSE [Ok(e) EXCEPT !.sta_hlid[c] = 0]
    BY <1>4, Zenon DEF StaAdd
  <2>2. QED
    BY <1>3, <1>4, <2>1 DEF StaAdd, RtnlFree, recon
<1>5. CASE StaRemove(c)
  <2>1. PICK e \in OpStaRemove(wl, c) : wl' = [Ok(e) EXCEPT !.sta_hlid[c] = 0]
    BY <1>5, Zenon DEF StaRemove
  <2>2. QED
    BY <1>5, <2>1 DEF StaRemove, RtnlFree, recon
<1>6. CASE ReconfigSta(c)
  <2>1. PICK e \in OpStaAdd(wl, c) : wl' = Ok(e)
    BY <1>6, Zenon DEF ReconfigSta
  <2>2. QED
    BY <1>3, <1>6, <2>1, Zenon DEF ReconfigSta, mac
<1>7. QED
  BY <1>4, <1>5, <1>6, Zenon

\* Recovery, and mac80211's restart.
LEMMA RestartSteps ==
    ASSUME Inv, RecoveryWork \/ Reconfig \/ ReconfigNext
    PROVE  Inv'
<1>1. /\ Sound(wl, assoc, beacon) /\ Driver(wl) /\ Tidy(wl, wl.inited)
      /\ wl.inited \subseteq Vifs /\ wl.up \subseteq Vifs
  BY Zenon DEF Inv, Sound, Driver
<1>2. CASE RecoveryWork
  BY <1>1, <1>2, Recovers, Zenon
  DEF Inv, Stopped, MutexFree, lock, Sound, OneRole, Settled, RecoveryWork, Kept, mac
<1>3. CASE Reconfig
  BY <1>1, <1>3, Zenon DEF Inv, lock, Settled, Tidy, Reconfig, RtnlFree, mac
<1>4. CASE ReconfigNext
  BY <1>4, Zenon DEF Inv, lock, ReconfigNext, mac, Settled
<1>5. QED
  BY <1>2, <1>3, <1>4, Zenon

\* Every step keeps the invariant.
LEMMA InvNext ==
    ASSUME Hard, Inv, [Next]_vars
    PROVE  Inv'
<1>1. CASE \E v \in Vifs : Open(v) \/ Close(v) \/ ReconfigAdd(v) \/ ReconfigBss(v)
  BY <1>1, VifSteps, BssSteps, Zenon
<1>2. CASE \E v \in Stas : \/ StartWork(v) \/ EndWork(v) \/ RecalcIdle(v) \/ Associate(v)
                           \/ Disassociate(v) \/ LinkUp(v) \/ NotifyVif(v) \/ LinkDown(v)
                           \/ ConfigVif(v)
  <2>1. PICK v \in Stas : \/ StartWork(v) \/ EndWork(v) \/ RecalcIdle(v) \/ Associate(v)
                          \/ Disassociate(v) \/ LinkUp(v) \/ NotifyVif(v) \/ LinkDown(v)
                          \/ ConfigVif(v)
    BY <1>2, Zenon
  <2>2. QED
    BY <2>1, WorkSteps, BssSteps, LoopSteps, Zenon DEF Vifs
<1>3. CASE \E v \in Aps : SetBeacon(v) \/ DelBeacon(v)
  <2>1. PICK v \in Aps : SetBeacon(v) \/ DelBeacon(v)
    BY <1>3, Zenon
  <2>2. QED
    BY <2>1, BssSteps, Zenon DEF Vifs
<1>4. CASE \E c \in Clients : StaAdd(c) \/ StaRemove(c) \/ ReconfigSta(c)
  BY <1>4, ClientSteps, Zenon
<1>5. CASE \/ \E p \in Stas \cup Clients, t \in Tids : AmpduStart(p, t) \/ AmpduStop(p, t)
           \/ Config \/ FwCrash \/ DelayedRecoveryTimer \/ DelayedRecovery
  BY <1>5, QuietSteps, Zenon
<1>6. CASE RecoveryWork \/ Reconfig \/ ReconfigNext
  BY <1>6, RestartSteps, Zenon
<1>7. CASE UNCHANGED vars
  BY <1>7, Zenon DEF vars, mac, recon, lock, Inv
<1>8. QED
  BY <1>1, <1>2, <1>3, <1>4, <1>5, <1>6, <1>7, ZenonT(30) DEF Next

\* The invariant holds in every reachable state.
LEMMA Invariance ==
    ASSUME Hard
    PROVE  Spec => []Inv
<1>1. Inv /\ [Next]_vars => Inv'
  BY InvNext, Zenon
<1>2. QED
  BY <1>1, InvInit, PTL DEF Spec

-----------------------------------------------------------------------------
(* The theorems.                                                           *)

\* Roles are not lost or shared: whatever commands fail and whenever the firmware
\* is restarted, roles_map holds the roles of the interfaces and no other
\* (wl12xx_cmd_role_enable, wl12xx_cmd_role_disable), each role is of one
\* interface, and an interface has its own role exactly from add_interface to
\* remove_interface.
THEOREM RolesKept ==
    ASSUME Hard
    PROVE  Spec => []RolesOwned
<1>1. Inv => RolesOwned
  BY Zenon DEF Inv, Sound, Driver, Ready, Fit, RolesOK, Mains, Main, RolesOwned, On
<1>2. QED
  BY <1>1, Invariance, PTL

\* A ROC is never forgotten: while the firmware runs, roc_map holds only the role
\* of a started device role, or of a station that has joined and is not authorised
\* yet, unless mac80211's restart ran over interfaces that were already added.
THEOREM RocsKept ==
    ASSUME Hard
    PROVE  Spec => []RocOwned
<1>1. Inv => RocOwned
  <2> SUFFICES ASSUME Inv, On, "redone" \notin odd, NEW r \in wl.roc
               PROVE  r \in {wl.role[<<v, "dev">>] : v \in {u \in Stas : DevStarted(wl, u)}}
                            \cup {wl.role[<<v, "main">>] : v \in
                                   {u \in Stas : wl.hlid[<<u, "sta">>] # Invalid /\ u \notin wl.state_sent}}
    BY Zenon DEF RocOwned
  <2>1. PICK v \in Stas : RocOf(wl, r, v)
    BY ZenonT(30) DEF Inv, Settled, On, RocOK
  <2>2. QED
    BY <2>1, Zenon DEF RocOf, DevStarted, Dev, Main, Sta
<1>2. QED
  BY <1>1, Invariance, PTL

\* No link is lost: while the firmware runs, every link of wl->links_map is the
\* system link or in use by the interface that counts it as its own, also after
\* commands that failed half-way, and when interfaces or clients were removed
\* while others stayed; like NoLinkLost, where nothing odd has happened (odd).
THEOREM LinksKept ==
    ASSUME Hard
    PROVE  Spec => []NoLinkLost
<1>1. Inv => NoLinkLost
  <2> SUFFICES ASSUME Inv, On, odd = {}
               PROVE  /\ wl.links = {SystemHlid} \cup UNION {wl.map[v] : v \in Vifs}
                      /\ \A v \in Vifs : wl.map[v] = Held(wl, v) \cup wl.sta_map[v]
    BY Zenon DEF NoLinkLost
  <2>1. Whole(wl) /\ Owned(wl)
    BY Zenon DEF Inv, Kept, On, Whole
  <2> USE <2>1
  <2>2. ASSUME NEW v \in Vifs PROVE wl.map[v] = Held(wl, v) \cup wl.sta_map[v]
    <3>1. ASSUME NEW l \in wl.map[v] \ wl.sta_map[v] PROVE l \in Held(wl, v)
      <4>1. PICK s \in LinkSlots : s[1] = v /\ wl.hlid[s] = l
        BY ZenonT(30) DEF Whole
      <4>2. l # Invalid
        <5>1. wl.map \in [Vifs -> SUBSET Hlids]
          BY Zenon DEF Owned
        <5>2. QED
          BY <5>1, Ids, Zenon
      <4>3. s \in {x \in LinkSlots : x[1] = v}
        BY <4>1, Zenon
      <4>4. QED
        BY <4>1, <4>2, <4>3, Zenon DEF Held
    <3>2. QED
      BY <3>1 DEF Owned, Held
  <2>3. wl.links = {SystemHlid} \cup UNION {wl.map[v] : v \in Vifs}
    <3>1. ASSUME NEW l \in wl.links \ {SystemHlid} PROVE \E v \in Vifs : l \in wl.map[v]
      BY Zenon DEF Whole
    <3>2. SystemHlid \in wl.links /\ \A v \in Vifs : wl.map[v] \subseteq wl.links
      BY Zenon DEF Owned
    <3>3. QED
      BY <3>1, <3>2, Zenon
  <2>4. QED
    BY <2>2, <2>3, Zenon
<1>2. QED
  BY <1>1, Invariance, PTL

-----------------------------------------------------------------------------

INSTANCE FiniteSetTheorems

\* A bounded set is finite.
LEMMA BoundedFinite ==
    ASSUME NEW S, Bounded(S)
    PROVE  IsFiniteSet(S)
<1> DEFINE F == {A \in SUBSET Vifs : IsFiniteSet(A)}
<1>1. PICK T : Counted(T) /\ S \subseteq T
  BY Zenon DEF Bounded
<1>2. {} \in F
  BY FS_EmptySet, Zenon
<1>3. ASSUME NEW A \in F, NEW v \in Vifs
      PROVE  A \cup {v} \in F
  BY FS_AddElement, Zenon
<1>4. T \in F
  <2> HIDE DEF F
  <2>1. F \in SUBSET SUBSET Vifs
    BY Zenon DEF F
  <2>2. QED
    BY <1>1, <1>2, <1>3, <2>1, ZenonT(30) DEF Counted
<1>5. QED
  BY <1>1, <1>4, FS_Subset, Zenon

\* The single-role firmware never has two roles to serve: wl1271_join and
\* bss_info_changed_ap start a role on it only when no other interface is open,
\* and switch to the multi-role firmware first otherwise.
THEOREM SingleRoleServed ==
    ASSUME Hard
    PROVE  Spec => []SingleRoleFirmware
<1>1. ASSUME NEW S, Few(S)
      PROVE  Cardinality(S) <= 1
  <2>1. CASE S = {}
    BY <2>1, FS_EmptySet
  <2>2. ASSUME NEW T, Bounded(T), ~(Cardinality(T) > 1), S \subseteq T
        PROVE  Cardinality(S) <= 1
    <3>1. IsFiniteSet(T) /\ IsFiniteSet(S) /\ Cardinality(S) <= Cardinality(T)
      BY <2>2, BoundedFinite, FS_Subset, Zenon
    <3>2. Cardinality(S) \in Nat /\ Cardinality(T) \in Nat
      BY <3>1, FS_CardinalityType, Zenon
    <3>3. QED
      BY <2>2, <3>1, <3>2
  <2>3. QED
    BY <1>1, <2>1, <2>2, Zenon DEF Few
<1>2. Inv => SingleRoleFirmware
  <2> SUFFICES ASSUME Inv, On, wl.fw_type = "NORMAL"
               PROVE  Cardinality(Started(wl)) <= 1
    BY Zenon DEF SingleRoleFirmware, Started, Sta
  <2>1. OneRole(wl)
    BY Zenon DEF Inv, Sound
  <2>2. Few(Started(wl))
    BY <2>1, Zenon DEF OneRole, On
  <2>3. QED
    BY <1>1, <2>2, Zenon
<1>3. QED
  BY <1>2, Invariance, PTL
=============================================================================
