----------------------------- MODULE RoleLemmas -----------------------------
(***************************************************************************)
(* What the driver does with roles, links and remain-on-channel while the  *)
(* firmware runs, in three modules: RoleLemmas, RoleSteps and RoleProofs,  *)
(* which proves RolesOwned, RocOwned, SingleRoleFirmware and NoLinkLost for*)
(* any number of interfaces, clients, roles and links, where no failure is *)
(* only returned ("soft" \notin Faults): every failed command queues a     *)
(* recovery.                                                               *)
(*                                                                         *)
(* One lemma per function.  Whatever fails, a function touches only the    *)
(* interface it is called for (Tidy, Stays); and when the firmware is still*)
(* ON after it, nothing failed and its effect is known exactly.  This module*)
(* has the functions of cmd.c and those that join, leave and change a      *)
(* station's role.                                                         *)
(***************************************************************************)
EXTENDS Links, TLAPS

\* every failed command queues a recovery
Hard == "soft" \notin Faults

\* the links of driver state d are owned, see LinksOwned
Owned(d) ==
    /\ d.links \in SUBSET Hlids /\ SystemHlid \in d.links
    /\ d.map \in [Vifs -> SUBSET Hlids]
    /\ d.sta_map \in [Vifs -> SUBSET Hlids]
    /\ d.hlid \in [LinkSlots -> Hlids \cup {Invalid}]
    /\ \A v \in Vifs : d.map[v] \subseteq d.links \ {SystemHlid}
    /\ \A v \in Vifs : d.sta_map[v] \subseteq d.map[v]
    /\ \A u, v \in Vifs : u # v => d.map[u] \cap d.map[v] = {}
    /\ \A s \in LinkSlots : d.hlid[s] # Invalid => d.hlid[s] \in d.map[s[1]] \ d.sta_map[s[1]]
    /\ \A r, s \in LinkSlots : r # s /\ d.hlid[r] = d.hlid[s] => d.hlid[r] = Invalid

Watched ==
    {"state", "ret", "inited", "up", "busy", "fw_type", "role", "roles", "roc", "hlid",
     "links", "map", "sta_map", "associated", "state_sent", "in_use", "ap_started"}

\* an interface has only the roles and links of its kind, and one outside of J
\* has none and is in no state
Tidy(d, J) ==
    /\ Watched \subseteq DOMAIN d
    /\ d.role \in [RoleSlots -> Roles \cup {Invalid}]
    /\ d.hlid \in [LinkSlots -> Hlids \cup {Invalid}]
    /\ d.map \in [Vifs -> SUBSET Hlids] /\ d.sta_map \in [Vifs -> SUBSET Hlids]
    /\ \A s \in RoleSlots : d.role[s] # Invalid =>
         s[1] \in J /\ (s[2] = "dev" => s[1] \in Stas)
    /\ \A s \in LinkSlots : d.hlid[s] # Invalid =>
         s[1] \in J /\ (s[2] \in {"sta", "dev"} <=> s[1] \in Stas)
    /\ d.associated \subseteq Stas \cap J /\ d.state_sent \subseteq Stas \cap J
    /\ d.in_use \subseteq Stas \cap J /\ d.ap_started \subseteq Aps \cap J

\* what no function but those that add and remove interfaces changes, and a
\* firmware that failed stays failed
Stays(e, w) ==
    /\ e.inited = w.inited /\ e.up = w.up /\ e.busy = w.busy /\ e.fw_type = w.fw_type
    /\ e.state = w.state \/ (w.state = "ON" /\ e.state = "RESTARTING")

\* the links of the interfaces outside of J are left alone
Elsewhere(e, w, J) ==
    \A v \in Vifs \ J : e.map[v] = w.map[v] /\ e.sta_map[v] = w.sta_map[v]

Keeps(e, w, J) == Tidy(e, J) /\ Stays(e, w) /\ Elsewhere(e, w, J)

\* the four groups of fields
SameRoles(e, w) == e.role = w.role /\ e.roles = w.roles
SameLinks(e, w) == e.hlid = w.hlid /\ e.links = w.links /\ e.map = w.map /\ e.sta_map = w.sta_map
SameRoc(e, w) == e.roc = w.roc
SameBss(e, w) ==
    /\ e.associated = w.associated /\ e.state_sent = w.state_sent
    /\ e.in_use = w.in_use /\ e.ap_started = w.ap_started
Still(e, w) == SameRoles(e, w) /\ SameLinks(e, w) /\ SameRoc(e, w) /\ SameBss(e, w)

\* role s is enabled or disabled, slot s is given a link or loses it
Enabled(e, w, s) ==
    /\ w.role[s] = Invalid
    /\ \E id \in Roles \ w.roles :
         e.role = [w.role EXCEPT ![s] = id] /\ e.roles = w.roles \cup {id}

Disabled(e, w, s) ==
    /\ w.role[s] # Invalid
    /\ e.role = [w.role EXCEPT ![s] = Invalid] /\ e.roles = w.roles \ {w.role[s]}

Linked(e, w, s) ==
    /\ w.hlid[s] = Invalid /\ e.sta_map = w.sta_map
    /\ \E l \in Hlids \ w.links :
         /\ e.hlid = [w.hlid EXCEPT ![s] = l] /\ e.links = w.links \cup {l}
         /\ e.map = [w.map EXCEPT ![s[1]] = @ \cup {l}]

Unlinked(e, w, s) ==
    /\ w.hlid[s] # Invalid /\ e.sta_map = w.sta_map
    /\ e.hlid = [w.hlid EXCEPT ![s] = Invalid] /\ e.links = w.links \ {w.hlid[s]}
    /\ e.map = [w.map EXCEPT ![s[1]] = @ \ {w.hlid[s]}]

\* the outcome of a command
Plain(e, w, J) == Keeps(e, w, J) /\ Still(e, w) /\ (e.state = "ON" => Good(e))

-----------------------------------------------------------------------------
(* Commands.                                                               *)

\* INVALID is no role's and no link's number (WL12XX_INVALID_ROLE_ID and
\* WL12XX_INVALID_LINK_ID lie beyond the bitmaps).
LEMMA Ids == Invalid \notin Roles /\ Invalid \notin Hlids
BY ConstantsAssumption DEF Roles, Hlids, Invalid

\* n numbers in a row: those of them in a set, if any, have a least one.  The
\* driver's bitmaps have fewer than 256 bits, so doubling n gets there.
Least(n) ==
    \A a \in Nat : \A S \in SUBSET (a .. a + n - 1) :
        S # {} => \E i \in S : \A j \in S : i <= j

\* Twice as many numbers in a row have a least one as well.
LEMMA Doubling ==
    ASSUME NEW n \in Nat, Least(n)
    PROVE  Least(n + n)
<1> SUFFICES ASSUME NEW a \in Nat, NEW S \in SUBSET (a .. a + (n + n) - 1), S # {}
             PROVE  \E i \in S : \A j \in S : i <= j
  BY Zenon DEF Least
<1> DEFINE low == S \cap (a .. a + n - 1)
<1>1. CASE low # {}
  <2>1. PICK i \in low : \A j \in low : i <= j
    BY <1>1, Zenon DEF Least
  <2>2. \A j \in S : i <= j
    BY <2>1
  <2>3. QED
    BY <2>2, Zenon
<1>2. CASE low = {}
  <2>1. S \in SUBSET ((a + n) .. (a + n) + n - 1) /\ a + n \in Nat
    BY <1>2
  <2>2. QED
    BY <2>1, Zenon DEF Least
<1>3. QED
  BY <1>1, <1>2, Zenon

\* find_first_zero_bit returns a free id when there is one.
LEMMA FirstFree ==
    ASSUME NEW S \in SUBSET (0 .. Invalid), S # {}
    PROVE  First(S) \in S
<1>1. Least(1)
  <2>1. ASSUME NEW a \in Nat, NEW T \in SUBSET (a .. a + 1 - 1), NEW i \in T, NEW j \in T
        PROVE  i <= j
    OBVIOUS
  <2>2. QED
    BY <2>1, Zenon DEF Least
<1>2. Least(2) /\ 2 \in Nat
  BY <1>1, Doubling
<1>3. Least(4) /\ 4 \in Nat
  BY <1>2, Doubling
<1>4. Least(8) /\ 8 \in Nat
  BY <1>3, Doubling
<1>5. Least(16) /\ 16 \in Nat
  BY <1>4, Doubling
<1>6. Least(32) /\ 32 \in Nat
  BY <1>5, Doubling
<1>7. Least(64) /\ 64 \in Nat
  BY <1>6, Doubling
<1>8. Least(128) /\ 128 \in Nat
  BY <1>7, Doubling
<1>9. Least(256)
  BY <1>8, Doubling
<1>10. \E i \in S : \A j \in S : i <= j
  BY <1>9 DEF Least, Invalid
<1>11. QED
  BY <1>10, Zenon DEF First

\* wl12xx_allocate_link finds a link that is not allocated.
LEMMA FreshLink ==
    ASSUME NEW w, ~(Hlids \subseteq w.links)
    PROVE  NextLink(w) \in Hlids \ w.links
<1>1. Hlids \ w.links \in SUBSET (0 .. Invalid)
  BY ConstantsAssumption DEF Hlids, Invalid
<1>2. QED
  BY <1>1, FirstFree, Zenon DEF NextLink

\* Calls in sequence.
LEMMA Again ==
    ASSUME NEW J, NEW w, NEW e, NEW f
    PROVE  /\ Keeps(e, w, J) /\ Keeps(f, e, J) => Keeps(f, w, J)
           /\ SameRoles(e, w) /\ SameRoles(f, e) => SameRoles(f, w)
           /\ SameLinks(e, w) /\ SameLinks(f, e) => SameLinks(f, w)
           /\ SameRoc(e, w) /\ SameRoc(f, e) => SameRoc(f, w)
           /\ SameBss(e, w) /\ SameBss(f, e) => SameBss(f, w)
           /\ Keeps(f, e, J) /\ f.state = "ON" => e.state = "ON"
           /\ Tidy(w, J) => Keeps(w, w, J) /\ Still(w, w)
BY Zenon DEF Keeps, Stays, Elsewhere, SameRoles, SameLinks, SameRoc, SameBss, Still

\* A state with the same roles, links, remain-on-channel and interface states
\* is as tidy.
LEMMA Untouched ==
    ASSUME NEW J, NEW w, Tidy(w, J), NEW e, Watched \subseteq DOMAIN e, Still(e, w)
    PROVE  Tidy(e, J) /\ Elsewhere(e, w, J)
BY Zenon DEF Tidy, Still, SameRoles, SameLinks, SameBss, Elsewhere

\* The ways a function can end without a command touch nothing that is watched.
LEMMA Marks ==
    ASSUME NEW J, NEW w, Tidy(w, J)
    PROVE  /\ Keeps(Ok(w), w, J) /\ Still(Ok(w), w) /\ Good(Ok(w)) /\ Ok(w).state = w.state
           /\ Keeps(Err(w), w, J) /\ Still(Err(w), w) /\ ~Good(Err(w)) /\ Err(w).state = w.state
           /\ Keeps(Recover(w), w, J) /\ Still(Recover(w), w) /\ Recover(w).state # "ON"
           /\ Keeps(ChangeFw(w), w, J) /\ Still(ChangeFw(w), w) /\ ChangeFw(w).state = w.state
           /\ ChangeFw(w).ret = w.ret
<1> USE DEF Stays, Still, SameRoles, SameLinks, SameRoc, SameBss
<1>1. Watched \subseteq DOMAIN w
  BY Zenon DEF Tidy
<1> USE <1>1
<1>2. /\ Watched \subseteq DOMAIN Ok(w) /\ Stays(Ok(w), w) /\ Still(Ok(w), w) /\ Good(Ok(w))
      /\ Ok(w).state = w.state
  BY Zenon DEF Ok, Good, Watched
<1>3. /\ Watched \subseteq DOMAIN Err(w) /\ Stays(Err(w), w) /\ Still(Err(w), w) /\ ~Good(Err(w))
      /\ Err(w).state = w.state
  BY Zenon DEF Err, Good, Watched
<1>4. /\ Watched \subseteq DOMAIN Recover(w) /\ Stays(Recover(w), w) /\ Still(Recover(w), w)
      /\ Recover(w).state # "ON"
  BY Zenon DEF Recover, Watched
<1>5. /\ Watched \subseteq DOMAIN ChangeFw(w) /\ Stays(ChangeFw(w), w) /\ Still(ChangeFw(w), w)
      /\ ChangeFw(w).state = w.state /\ ChangeFw(w).ret = w.ret
  <2> DEFINE x == IF w.dwork = "queued" \/ NeedFwChange(w) = "SR_TO_MR" THEN "queued"
                  ELSE IF NeedFwChange(w) = "MR_TO_SR" THEN "armed" ELSE "off"
  <2> HIDE DEF x
  <2>1. QED
    BY Zenon DEF Watched, ChangeFw
<1> HIDE DEF Stays, Still
<1>6. QED
  BY <1>2, <1>3, <1>4, <1>5, Untouched, Zenon DEF Keeps

\* Every outcome of a command leaves the fields alone, and one after which the
\* firmware is ON is a success.
LEMMA Issued ==
    ASSUME Hard, NEW J, NEW w, Tidy(w, J), NEW e
    PROVE  /\ e \in Soft(w) => Plain(e, w, J) /\ Good(e) /\ e.state = w.state
           /\ e \in Send(w) => Plain(e, w, J)
           /\ e \in Command(w) => Plain(e, w, J)
           /\ e \in Wakeup(w) => Plain(e, w, J)
           /\ e \in WaitOrTimeout(w) => Plain(e, w, J)
           /\ e \in WaitEvent(w) => Plain(e, w, J)
<1>1. ASSUME NEW d, Tidy(d, J), NEW f \in Soft(d)
      PROVE  Plain(f, d, J) /\ Good(f) /\ f.state = d.state
  BY <1>1, Marks, Zenon DEF Soft, Hard, Plain
<1>2. ASSUME NEW d, Tidy(d, J)
      PROVE  /\ Plain(Ok(Recover(d)), d, J) /\ Plain(Err(Recover(d)), d, J)
             /\ d.state = "RESTARTING" => Plain(Err(d), d, J)
  <2> DEFINE r == Recover(d)
  <2> HIDE DEF r
  <2>1. QED
    BY <1>2, Marks, Again DEF r, Plain, Still, Keeps
<1> USE <1>2
<1>3. ASSUME NEW d, Tidy(d, J), NEW f \in Send(d) PROVE Plain(f, d, J)
  BY <1>1, <1>3, Zenon DEF Send
<1>4. ASSUME e \in Command(w) PROVE Plain(e, w, J)
  <2>1. PICK f \in Soft(w) : e \in Send(f)
    BY <1>1, <1>4, Zenon DEF Command, Then
  <2>2. QED
    BY <1>1, <1>3, <2>1, Again, ZenonT(30) DEF Plain, Still, Keeps
<1>5. ASSUME e \in Wakeup(w) PROVE Plain(e, w, J)
  BY <1>1, <1>5, Zenon DEF Wakeup
<1>6. ASSUME NEW f \in WaitOrTimeout(w) PROVE Plain(f, w, J)
  BY <1>6, Marks DEF WaitOrTimeout, Plain
<1>7. ASSUME e \in WaitEvent(w) PROVE Plain(e, w, J)
  BY <1>6, <1>7, Zenon DEF WaitEvent
<1>8. QED
  BY <1>1, <1>3, <1>4, <1>5, <1>6, <1>7, Zenon

-----------------------------------------------------------------------------
(* Roles and links.                                                        *)

\* the roles and links an interface of J can have
RoleOf(s, J) == s \in RoleSlots /\ s[1] \in J /\ (s[2] = "dev" => s[1] \in Stas)
LinkOf(s, J) == s \in LinkSlots /\ s[1] \in J /\ (s[2] \in {"sta", "dev"} <=> s[1] \in Stas)

\* wl12xx_cmd_role_enable takes a free role id or changes nothing.
LEMMA Enables ==
    ASSUME Hard, NEW J, NEW w, Tidy(w, J), NEW s, RoleOf(s, J), NEW e \in RoleEnable(w, s)
    PROVE  /\ Keeps(e, w, J) /\ SameLinks(e, w) /\ SameRoc(e, w) /\ SameBss(e, w)
           /\ e.state = "ON" => IF Good(e) THEN Enabled(e, w, s) ELSE SameRoles(e, w)
<1> DEFINE d == ChangeFw(w)
           id == First(Roles \ d.roles)
<1>1. Keeps(d, w, J) /\ Still(d, w) /\ Tidy(d, J)
  BY Marks, Zenon DEF Keeps
<1> USE <1>1
<1>2. CASE e = Err(d)
  BY <1>2, Again, Marks, Zenon DEF Still
<1>3. CASE d.role[s] = Invalid /\ ~(Roles \subseteq d.roles) /\ e # Err(d)
  <2>1. PICK f \in Command(d) :
           IF Good(f) THEN e = [f EXCEPT !.roles = @ \cup {id}, !.role[s] = id] ELSE e = f
    BY <1>3, Zenon DEF RoleEnable, Then
  <2>2. id \in Roles \ d.roles
    <3>1. Roles \ d.roles \in SUBSET (0 .. Invalid)
      BY ConstantsAssumption DEF Roles, Invalid
    <3>2. QED
      BY <1>3, <3>1, FirstFree, Zenon
  <2> HIDE DEF id, d
  <2>3. Plain(f, d, J)
    BY Issued, Zenon
  <2> USE <2>3
  <2>4. CASE ~Good(f)
    BY <2>1, <2>4, Again DEF Plain, Still
  <2>5. CASE Good(f)
    <3>1. /\ e.role = [f.role EXCEPT ![s] = id] /\ e.roles = f.roles \cup {id}
          /\ SameLinks(e, f) /\ SameRoc(e, f) /\ SameBss(e, f) /\ Stays(e, f)
          /\ Watched \subseteq DOMAIN e /\ Good(e)
      BY <2>1, <2>5, Zenon
      DEF Plain, Keeps, Tidy, Watched, SameLinks, SameRoc, SameBss, Stays, Good
    <3> USE <3>1
    <3>2. Tidy(e, J)
      <4>1. Tidy(f, J)
        BY Zenon DEF Plain, Keeps
      <4>2. e.role \in [RoleSlots -> Roles \cup {Invalid}]
        BY <2>2, <4>1, Zenon DEF Tidy
      <4>3. QED
        BY <4>1, <4>2, Zenon DEF Tidy, SameLinks, SameBss, RoleOf
    <3>3. Keeps(e, w, J)
      BY <3>2, Again DEF Plain, Keeps, Elsewhere, SameLinks
    <3>4. QED
      BY <1>3, <2>2, <3>3, Again, Zenon DEF Enabled, SameRoles, Still, Plain
  <2>6. QED
    BY <2>4, <2>5, Zenon
<1>4. QED
  BY <1>2, <1>3, Zenon DEF RoleEnable

\* wl12xx_cmd_role_disable gives the role id back.
LEMMA Disables ==
    ASSUME Hard, NEW J, NEW w, Tidy(w, J), NEW s, RoleOf(s, J), NEW e \in RoleDisable(w, s)
    PROVE  /\ Keeps(e, w, J) /\ SameLinks(e, w) /\ SameRoc(e, w) /\ SameBss(e, w)
           /\ e.state = "ON" =>
                IF w.role[s] # Invalid THEN Good(e) /\ Disabled(e, w, s) ELSE SameRoles(e, w)
<1> DEFINE d == ChangeFw(w)
<1>1. Keeps(d, w, J) /\ Still(d, w) /\ Tidy(d, J)
  BY Marks, Zenon DEF Keeps
<1> USE <1>1
<1>2. CASE d.role[s] = Invalid
  <2>1. e = Err(d)
    BY <1>2, Zenon DEF RoleDisable
  <2> HIDE DEF d
  <2>2. QED
    BY <1>2, <2>1, Again, Marks, ZenonT(30) DEF Still, SameRoles
<1>3. CASE d.role[s] # Invalid
  <2>1. PICK f \in Command(d) :
           IF Good(f) THEN e = [f EXCEPT !.roles = @ \ {f.role[s]}, !.role[s] = Invalid]
           ELSE e = f
    BY <1>3, Zenon DEF RoleDisable, Then
  <2> HIDE DEF d
  <2>2. Plain(f, d, J)
    BY Issued, Zenon
  <2> USE <2>2
  <2>3. CASE ~Good(f)
    BY <2>1, <2>3, Again DEF Plain, Still
  <2>4. CASE Good(f)
    <3>1. /\ e.role = [f.role EXCEPT ![s] = Invalid] /\ e.roles = f.roles \ {f.role[s]}
          /\ SameLinks(e, f) /\ SameRoc(e, f) /\ SameBss(e, f) /\ Stays(e, f)
          /\ Watched \subseteq DOMAIN e /\ Good(e)
      BY <2>1, <2>4, ZenonT(30)
      DEF Plain, Keeps, Tidy, Watched, SameLinks, SameRoc, SameBss, Stays, Good
    <3> USE <3>1
    <3>2. Tidy(e, J)
      BY ZenonT(30) DEF Tidy, SameLinks, SameBss, RoleOf, Plain, Keeps
    <3>3. Keeps(e, w, J)
      BY <3>2, Again DEF Plain, Keeps, Elsewhere, SameLinks
    <3>4. QED
      BY <1>3, <3>3, Again, Zenon DEF Disabled, SameRoles, Still, Plain
  <2>5. QED
    BY <2>3, <2>4, Zenon
<1>4. QED
  BY <1>2, <1>3, Zenon

\* wl12xx_allocate_link for an empty field of an interface.
LEMMA GetsLink ==
    ASSUME NEW J, NEW w, Tidy(w, J), NEW s, LinkOf(s, J), NEW e \in GetLink(w, s)
    PROVE  /\ Keeps(e, w, J) /\ SameRoles(e, w) /\ SameRoc(e, w) /\ SameBss(e, w)
           /\ e.state = w.state
           /\ ~Good(e) => SameLinks(e, w)
           /\ Good(e) /\ w.hlid[s] = Invalid => Linked(e, w, s)
           /\ Good(e) => e.hlid[s] # Invalid
<1>1. CASE Hlids \subseteq w.links
  BY <1>1, Marks, ZenonT(30) DEF GetLink, Still
<1>2. CASE ~(Hlids \subseteq w.links)
  <2> DEFINE l == NextLink(w)
  <2>1. l \in Hlids \ w.links /\ l # Invalid
    BY <1>2, FreshLink, Ids, Zenon
  <2> USE <2>1
  <2>2. e = [[w EXCEPT !.links = @ \cup {l}, !.map[s[1]] = @ \cup {l}] EXCEPT
                !.hlid[s] = l, !.ret = "ok"]
    BY <1>2, Zenon DEF GetLink, AllocateLink
  <2> HIDE DEF l
  <2>3. /\ e.hlid = [w.hlid EXCEPT ![s] = l] /\ e.links = w.links \cup {l}
        /\ e.map = [w.map EXCEPT ![s[1]] = @ \cup {l}] /\ e.sta_map = w.sta_map
        /\ SameRoles(e, w) /\ SameRoc(e, w) /\ SameBss(e, w) /\ Stays(e, w)
        /\ e.state = w.state /\ Watched \subseteq DOMAIN e /\ Good(e)
    BY <2>2, Zenon DEF Tidy, Watched, SameRoles, SameRoc, SameBss, Stays, Good
  <2> USE <2>3
  <2>4. Tidy(e, J) /\ e.hlid[s] # Invalid
    <3>1. e.map \in [Vifs -> SUBSET Hlids] /\ e.sta_map \in [Vifs -> SUBSET Hlids]
      <4>1. w.map \in [Vifs -> SUBSET Hlids] /\ w.sta_map \in [Vifs -> SUBSET Hlids]
        BY Zenon DEF Tidy
      <4>2. ASSUME NEW X \in SUBSET Hlids, NEW u PROVE [w.map EXCEPT ![u] = X] \in [Vifs -> SUBSET Hlids]
        BY <4>1, Zenon
      <4>3. QED
        BY <4>1, <4>2 DEF LinkOf, LinkSlots
    <3>2. QED
      BY <3>1, ZenonT(30) DEF Tidy, SameRoles, SameBss, LinkOf
  <2>5. QED
    BY <2>4, Zenon DEF Keeps, Linked, Tidy, Elsewhere, LinkOf
<1>3. QED
  BY <1>1, <1>2, Zenon

\* wl12xx_free_link.
LEMMA Unlinks ==
    ASSUME NEW J, NEW w, Tidy(w, J), NEW s, LinkOf(s, J), NEW e, e = DropLink(w, s)
    PROVE  /\ Keeps(e, w, J) /\ SameRoles(e, w) /\ SameRoc(e, w) /\ SameBss(e, w)
           /\ e.state = w.state /\ e.ret = w.ret
           /\ IF w.hlid[s] = Invalid THEN e = w ELSE Unlinked(e, w, s)
<1>1. CASE w.hlid[s] = Invalid
  BY <1>1, Again, Zenon DEF DropLink, Still
<1>2. CASE w.hlid[s] # Invalid
  <2> DEFINE l == w.hlid[s]
             L == {b \in w.ba_link : b[1] \notin {l}}
  <2> HIDE DEF L
  <2>1. /\ e.hlid = [w.hlid EXCEPT ![s] = Invalid] /\ e.links = w.links \ {l}
        /\ e.map = [w.map EXCEPT ![s[1]] = @ \ {l}] /\ e.sta_map = w.sta_map
        /\ SameRoles(e, w) /\ SameRoc(e, w) /\ SameBss(e, w) /\ Stays(e, w)
        /\ e.state = w.state /\ e.ret = w.ret /\ Watched \subseteq DOMAIN e
    BY <1>2, Zenon DEF Tidy, Watched, SameRoles, SameRoc, SameBss, Stays, DropLink, FreeLinks
  <2> USE <2>1
  <2>2. Tidy(e, J)
    <3>1. e.map \in [Vifs -> SUBSET Hlids] /\ e.sta_map \in [Vifs -> SUBSET Hlids]
      <4>1. w.map \in [Vifs -> SUBSET Hlids] /\ w.sta_map \in [Vifs -> SUBSET Hlids]
        BY Zenon DEF Tidy
      <4>2. ASSUME NEW X \in SUBSET Hlids, NEW u PROVE [w.map EXCEPT ![u] = X] \in [Vifs -> SUBSET Hlids]
        BY <4>1, Zenon
      <4>3. QED
        BY <4>1, <4>2 DEF LinkOf, LinkSlots
    <3>2. QED
      BY <3>1, ZenonT(30) DEF Tidy, SameRoles, SameBss, LinkOf
  <2>3. QED
    BY <1>2, <2>2, Zenon DEF Keeps, Unlinked, Tidy, Elsewhere, LinkOf
<1>3. QED
  BY <1>1, <1>2, Zenon

\* wl12xx_cmd_role_start_sta and role_start_dev take a link, or keep the one
\* they have.
LEMMA Starts ==
    ASSUME Hard, NEW J, NEW w, Tidy(w, J), NEW s, LinkOf(s, J), NEW e \in RoleStart(w, s)
    PROVE  /\ Keeps(e, w, J) /\ SameRoles(e, w) /\ SameRoc(e, w) /\ SameBss(e, w)
           /\ e.state = "ON" =>
                IF w.hlid[s] # Invalid THEN Good(e) /\ SameLinks(e, w)
                ELSE IF Good(e) THEN Linked(e, w, s) ELSE SameLinks(e, w)
<1>1. PICK d \in Soft(w) :
         e \in Then(IF d.hlid[s] = Invalid THEN GetLink(d, s) ELSE {d}, LAMBDA f :
                    OnError(Send(f), LAMBDA g : {DropLink(g, s)}))
  BY Issued, Zenon DEF RoleStart, Then
<1>2. Plain(d, w, J) /\ Good(d) /\ Tidy(d, J)
  BY Issued, Zenon DEF Plain, Keeps
<1>3. PICK f \in IF d.hlid[s] = Invalid THEN GetLink(d, s) ELSE {d} :
         IF Good(f) THEN e \in OnError(Send(f), LAMBDA g : {DropLink(g, s)}) ELSE e = f
  BY <1>1, Zenon DEF Then
<1>4. /\ Keeps(f, d, J) /\ SameRoles(f, d) /\ SameRoc(f, d) /\ SameBss(f, d)
      /\ IF d.hlid[s] # Invalid THEN Good(f) /\ SameLinks(f, d)
         ELSE IF Good(f) THEN Linked(f, d, s) ELSE SameLinks(f, d)
  <2>1. CASE d.hlid[s] = Invalid
    BY <1>2, <1>3, <2>1, GetsLink, Zenon
  <2>2. CASE d.hlid[s] # Invalid
    <3>1. f = d
      BY <1>3, <2>2, Zenon
    <3>2. QED
      BY <1>2, <2>2, <3>1, Again, Zenon DEF Still
  <2>3. QED
    BY <2>1, <2>2, Zenon
<1>5. /\ Keeps(f, w, J) /\ SameRoles(f, w) /\ SameRoc(f, w) /\ SameBss(f, w)
      /\ IF w.hlid[s] # Invalid THEN Good(f) /\ SameLinks(f, w)
         ELSE IF Good(f) THEN Linked(f, w, s) ELSE SameLinks(f, w)
  BY <1>2, <1>4, Again, ZenonT(30) DEF SameLinks, Linked, Plain, Still
<1>6. CASE ~Good(f)
  BY <1>3, <1>5, <1>6, Zenon
<1>7. CASE Good(f)
  <2>1. PICK g \in Send(f) : IF Good(g) THEN e = g ELSE e = Err(DropLink(g, s))
    BY <1>3, <1>7, Zenon DEF OnError
  <2>2. Plain(g, f, J) /\ Tidy(g, J)
    BY <1>4, Issued, Zenon DEF Keeps, Plain
  <2> USE <2>2
  <2>3. /\ Keeps(g, w, J) /\ SameRoles(g, w) /\ SameRoc(g, w) /\ SameBss(g, w)
        /\ SameLinks(g, f)
    BY <1>5, Again, Zenon DEF Plain, Still
  <2>4. CASE Good(g)
    BY <1>5, <1>7, <2>1, <2>3, <2>4, Zenon DEF SameLinks, Linked
  <2>5. CASE ~Good(g)
    <3> DEFINE h == DropLink(g, s)
    <3>1. /\ Keeps(h, g, J) /\ SameRoles(h, g) /\ SameRoc(h, g) /\ SameBss(h, g)
          /\ h.state = g.state
      BY Unlinks
    <3>2. e = Err(h) /\ g.state # "ON"
      BY <2>1, <2>5, Zenon DEF Plain
    <3> HIDE DEF h
    <3>3. Keeps(e, h, J) /\ Still(e, h) /\ e.state = h.state
      BY <3>1, <3>2, Marks, Zenon DEF Keeps
    <3>4. QED
      BY <2>3, <3>1, <3>2, <3>3, Again, Zenon DEF Still
  <2>6. QED
    BY <2>4, <2>5, Zenon
<1>8. QED
  BY <1>6, <1>7, Zenon

\* wl12xx_cmd_role_stop_sta and role_stop_dev give the link back.
LEMMA Stops ==
    ASSUME Hard, NEW J, NEW w, Tidy(w, J), NEW s, LinkOf(s, J), NEW e \in RoleStop(w, s)
    PROVE  /\ Keeps(e, w, J) /\ SameRoles(e, w) /\ SameRoc(e, w) /\ SameBss(e, w)
           /\ e.state = "ON" =>
                IF w.hlid[s] # Invalid THEN Good(e) /\ Unlinked(e, w, s) ELSE SameLinks(e, w)
<1>1. CASE w.hlid[s] = Invalid
  BY <1>1, Marks, Zenon DEF RoleStop, Still
<1>2. CASE w.hlid[s] # Invalid
  <2>1. PICK d \in Command(w) :
           IF Good(d) THEN e \in Then(WaitEvent(d), LAMBDA f : {DropLink(f, s)}) ELSE e = d
    BY <1>2, Zenon DEF RoleStop, Then
  <2>2. Plain(d, w, J) /\ Tidy(d, J)
    BY Issued, Zenon DEF Plain, Keeps
  <2> USE <2>2
  <2>3. CASE ~Good(d)
    BY <2>1, <2>3, Zenon DEF Plain, Still
  <2>4. CASE Good(d)
    <3>1. PICK f \in WaitEvent(d) : IF Good(f) THEN e = DropLink(f, s) ELSE e = f
      BY <2>1, <2>4, Zenon DEF Then
    <3>2. Plain(f, d, J) /\ Tidy(f, J)
      BY Issued, Zenon DEF Plain, Keeps
    <3>3. Plain(f, w, J)
      BY <3>2, Again, Zenon DEF Plain, Still
    <3>4. CASE ~Good(f)
      BY <3>1, <3>3, <3>4, Zenon DEF Plain, Still
    <3>5. CASE Good(f)
      <4>1. /\ Keeps(e, f, J) /\ SameRoles(e, f) /\ SameRoc(e, f) /\ SameBss(e, f)
            /\ e.state = f.state /\ e.ret = f.ret
            /\ IF f.hlid[s] = Invalid THEN e = f ELSE Unlinked(e, f, s)
        BY <3>1, <3>2, <3>5, Unlinks, Zenon
      <4>2. QED
        BY <1>2, <3>3, <3>5, <4>1, Again, Zenon DEF Plain, Still, SameLinks, Unlinked, Good
    <3>6. QED
      BY <3>4, <3>5, Zenon
  <2>5. QED
    BY <2>3, <2>4, Zenon
<1>3. QED
  BY <1>1, <1>2, Zenon

\* wl12xx_roc and wl12xx_croc.
LEMMA Rocs ==
    ASSUME Hard, NEW J, NEW w, Tidy(w, J), NEW r, NEW e
    PROVE  /\ e \in Roc(w, r) =>
                /\ Keeps(e, w, J) /\ SameRoles(e, w) /\ SameLinks(e, w) /\ SameBss(e, w)
                /\ e.state = "ON" /\ r # Invalid => Good(e) /\ e.roc = w.roc \cup {r}
                /\ e.state = "ON" /\ r = Invalid => e.roc = w.roc
           /\ e \in Croc(w, r) =>
                /\ Keeps(e, w, J) /\ SameRoles(e, w) /\ SameLinks(e, w) /\ SameBss(e, w)
                /\ e.state = "ON" => Good(e) /\ e.roc = w.roc \ {r}
<1>1. ASSUME NEW f, Plain(f, w, J), Good(f), NEW X, NEW g, g = [f EXCEPT !.roc = X]
      PROVE  /\ Keeps(g, w, J) /\ SameRoles(g, w) /\ SameLinks(g, w) /\ SameBss(g, w)
             /\ Good(g) /\ g.roc = X
  <2> USE <1>1
  <2>1. /\ SameRoles(g, f) /\ SameLinks(g, f) /\ SameBss(g, f) /\ Stays(g, f)
        /\ Watched \subseteq DOMAIN g /\ Good(g) /\ g.roc = X
    BY Zenon DEF Plain, Keeps, Tidy, Watched, SameRoles, SameLinks, SameBss, Stays, Good
  <2>2. Keeps(g, f, J)
    BY <2>1, Zenon DEF Keeps, Elsewhere, SameLinks, Plain, Tidy, SameRoles, SameBss
  <2>3. QED
    BY <2>1, <2>2, Again, Zenon DEF Plain, Still
<1>2. ASSUME e \in Roc(w, r)
      PROVE  /\ Keeps(e, w, J) /\ SameRoles(e, w) /\ SameLinks(e, w) /\ SameBss(e, w)
             /\ e.state = "ON" /\ r # Invalid => Good(e) /\ e.roc = w.roc \cup {r}
             /\ e.state = "ON" /\ r = Invalid => e.roc = w.roc
  <2>1. CASE r \in w.roc \/ r = Invalid
    <3>1. e = Ok(w) \/ (e = Err(w) /\ r \notin w.roc)
      BY <1>2, <2>1, Zenon DEF Roc
    <3>2. QED
      BY <2>1, <3>1, Marks DEF Still, SameRoc
  <2>2. CASE r \notin w.roc /\ r # Invalid
    <3> USE <2>2
    <3>1. PICK d \in Command(w) :
             IF Good(d) THEN e \in Then(IF d.roc = {} THEN WaitEvent(d) ELSE {d}, LAMBDA f :
                                        {[f EXCEPT !.roc = @ \cup {r}]})
             ELSE e = d
      BY <1>2, Zenon DEF Roc, Then
    <3>2. Plain(d, w, J) /\ Tidy(d, J)
      BY Issued, Zenon DEF Plain, Keeps
    <3>3. CASE ~Good(d)
      BY <3>1, <3>2, <3>3, Zenon DEF Plain, Still
    <3>4. CASE Good(d)
      <4>1. PICK f \in IF d.roc = {} THEN WaitEvent(d) ELSE {d} :
               IF Good(f) THEN e = [f EXCEPT !.roc = @ \cup {r}] ELSE e = f
        BY <3>1, <3>4, Zenon DEF Then
      <4> USE <4>1
      <4>2. Plain(f, w, J) /\ f.roc = w.roc
        BY <3>2, <3>4, Again, Issued DEF Plain, Still, SameRoc
      <4> USE <4>2
      <4>3. CASE ~Good(f)
        BY <4>3, Zenon DEF Plain, Still
      <4>4. CASE Good(f)
        <5>1. e = [f EXCEPT !.roc = w.roc \cup {r}]
          BY <4>4, Zenon
        <5>2. QED
          BY <1>1, <4>4, <5>1
      <4>5. QED
        BY <4>3, <4>4, Zenon
    <3>5. QED
      BY <3>3, <3>4, Zenon
  <2>3. QED
    BY <2>1, <2>2, Zenon
<1>3. ASSUME e \in Croc(w, r)
      PROVE  /\ Keeps(e, w, J) /\ SameRoles(e, w) /\ SameLinks(e, w) /\ SameBss(e, w)
             /\ e.state = "ON" => Good(e) /\ e.roc = w.roc \ {r}
  <2>1. CASE r \notin w.roc
    <3>1. Keeps(e, w, J) /\ Still(e, w) /\ Good(e)
      BY <1>3, <2>1, Marks, ZenonT(30) DEF Croc
    <3>2. QED
      BY <2>1, <3>1, Zenon DEF Still, SameRoc
  <2>2. CASE r \in w.roc
    <3>1. PICK d \in Command(w) : IF Good(d) THEN e = [d EXCEPT !.roc = @ \ {r}] ELSE e = d
      BY <1>3, <2>2, Zenon DEF Croc, Then
    <3>2. Plain(d, w, J) /\ d.roc = w.roc
      BY Issued, Zenon DEF Plain, Still, SameRoc
    <3> USE <3>2
    <3>3. CASE ~Good(d)
      BY <3>1, <3>3, Zenon DEF Plain, Still
    <3>4. CASE Good(d)
      <4>1. e = [d EXCEPT !.roc = w.roc \ {r}]
        BY <3>1, <3>4, Zenon
      <4>2. QED
        BY <1>1, <3>4, <4>1
    <3>5. QED
      BY <3>3, <3>4, Zenon
  <2>3. QED
    BY <2>1, <2>2, Zenon
<1>4. QED
  BY <1>2, <1>3, Zenon

-----------------------------------------------------------------------------
(* The device role.                                                        *)

Dev(v) == <<v, "dev">>
Main(v) == <<v, "main">>
Sta(v) == <<v, "sta">>

\* the device role is enabled exactly while it has a link
DevOK(d) == \A v \in Vifs : d.hlid[Dev(v)] # Invalid <=> d.role[Dev(v)] # Invalid

\* the device role of v is started with a ROC, or stopped without one
DevUp(e, w, v) ==
    /\ Enabled(e, w, Dev(v)) /\ Linked(e, w, Dev(v))
    /\ e.roc = w.roc \cup {e.role[Dev(v)]}

DevDown(e, w, v) ==
    /\ Disabled(e, w, Dev(v)) /\ Unlinked(e, w, Dev(v))
    /\ e.roc = w.roc \ {w.role[Dev(v)]}

\* A station interface owns its slots for the two roles and their links.
LEMMA DevSlots ==
    ASSUME NEW J, NEW v \in Stas \cap J
    PROVE  /\ RoleOf(Dev(v), J) /\ LinkOf(Dev(v), J) /\ LinkOf(Sta(v), J)
           /\ RoleOf(Main(v), J) /\ v \in Vifs
BY Zenon DEF RoleOf, LinkOf, Dev, Sta, Main, RoleSlots, LinkSlots, Vifs

\* The firmware was ON before a call after which it is ON.
LEMMA StillOn ==
    ASSUME NEW J, NEW w, NEW e, Keeps(e, w, J), e.state = "ON"
    PROVE  w.state = "ON"
BY Zenon DEF Keeps, Stays

\* wl12xx_start_dev starts the device role, or undoes what it did.
LEMMA StartsDev ==
    ASSUME Hard, NEW J, NEW w, Tidy(w, J), NEW v \in Stas \cap J, NEW e \in StartDev(w, v)
    PROVE  /\ Keeps(e, w, J) /\ SameBss(e, w)
           /\ e.state = "ON" /\ DevOK(w) => (Good(e) /\ DevUp(e, w, v)) \/ Still(e, w)
<1> DEFINE s == Dev(v)
           c == ChangeFw(w)
<1>1. Keeps(c, w, J) /\ Still(c, w) /\ Tidy(c, J)
  BY Marks, Zenon DEF Keeps
<1>2. RoleOf(s, J) /\ LinkOf(s, J) /\ v \in Vifs
  BY DevSlots, Zenon
<1> USE <1>2
<1> HIDE DEF c
<1>3. PICK d \in RoleEnable(c, s) :
         IF Good(d)
         THEN e \in OnError(
                Then(RoleStartDev(d, v), LAMBDA f :
                OnError(Roc(f, f.role[s]), LAMBDA g : RoleStopDev(g, v))),
                LAMBDA f : RoleDisable(f, s))
         ELSE e = d
  BY Zenon DEF StartDev, Then, c, Dev
<1>4. /\ Keeps(d, w, J) /\ SameLinks(d, w) /\ SameRoc(d, w) /\ SameBss(d, w) /\ Tidy(d, J)
      /\ d.state = "ON" => IF Good(d) THEN Enabled(d, w, s) ELSE SameRoles(d, w)
  <2>1. /\ Keeps(d, c, J) /\ SameLinks(d, c) /\ SameRoc(d, c) /\ SameBss(d, c)
        /\ d.state = "ON" => IF Good(d) THEN Enabled(d, c, s) ELSE SameRoles(d, c)
    BY <1>1, Enables, Zenon
  <2>2. QED
    BY <1>1, <2>1, Again, Zenon DEF SameRoles, Enabled, Still, Keeps
<1> HIDE DEF s
<1>5. CASE ~Good(d)
  BY <1>3, <1>4, <1>5, Zenon DEF Still
<1>6. CASE Good(d)
  <2>1. PICK x \in Then(RoleStartDev(d, v), LAMBDA f :
                    OnError(Roc(f, f.role[s]), LAMBDA g : RoleStopDev(g, v))) :
           IF Good(x) THEN e = x ELSE \E y \in RoleDisable(x, s) : e = Err(y)
    BY <1>3, <1>6, Zenon DEF OnError
  <2>2. PICK f \in RoleStart(d, s) :
           IF Good(f) THEN x \in OnError(Roc(f, f.role[s]), LAMBDA g : RoleStopDev(g, v))
           ELSE x = f
    BY <2>1, Zenon DEF Then, RoleStartDev, s, Dev
  <2>3. /\ Keeps(f, d, J) /\ SameRoles(f, d) /\ SameRoc(f, d) /\ SameBss(f, d) /\ Tidy(f, J)
        /\ f.state = "ON" =>
             IF d.hlid[s] # Invalid THEN Good(f) /\ SameLinks(f, d)
             ELSE IF Good(f) THEN Linked(f, d, s) ELSE SameLinks(f, d)
    BY <1>4, Starts, Zenon DEF Keeps
  <2> USE <2>3
  <2>4. /\ Keeps(x, f, J) /\ SameRoles(x, f) /\ SameBss(x, f) /\ Tidy(x, J)
        /\ x.state = "ON" /\ f.role[s] # Invalid =>
             IF Good(f) THEN Good(x) /\ SameLinks(x, f) /\ x.roc = f.roc \cup {f.role[s]}
             ELSE x = f
    <3>1. CASE ~Good(f)
      BY <2>2, <3>1, Again DEF Still
    <3>2. CASE Good(f)
      <4>1. PICK g \in Roc(f, f.role[s]) :
               IF Good(g) THEN x = g ELSE \E h \in RoleStop(g, s) : x = Err(h)
        BY <2>2, <3>2, Zenon DEF OnError, RoleStopDev, s, Dev
      <4>2. /\ Keeps(g, f, J) /\ SameRoles(g, f) /\ SameLinks(g, f) /\ SameBss(g, f)
            /\ g.state = "ON" /\ f.role[s] # Invalid => Good(g) /\ g.roc = f.roc \cup {f.role[s]}
            /\ Tidy(g, J)
        BY Rocs DEF Keeps
      <4> USE <4>2
      <4>3. CASE Good(g)
        BY <3>2, <4>1, <4>3, Zenon
      <4>4. CASE ~Good(g)
        <5>1. PICK h \in RoleStop(g, s) : x = Err(h)
          BY <4>1, <4>4, Zenon
        <5>2. Keeps(h, g, J) /\ SameRoles(h, g) /\ SameBss(h, g) /\ Tidy(h, J)
          BY Stops, Zenon DEF Keeps
        <5>3. QED
          BY <4>4, <5>1, <5>2, Again, StillOn, Marks DEF Still, Keeps
      <4>5. QED
        BY <4>3, <4>4, Zenon
    <3>3. QED
      BY <3>1, <3>2, Zenon
  <2>5. Keeps(f, w, J) /\ SameRoc(f, w) /\ SameBss(f, w)
    BY <1>4, Again, Zenon
  <2>6. Keeps(x, w, J) /\ SameRoles(x, d) /\ SameBss(x, w)
    BY <2>4, <2>5, Again, Zenon
  <2>7. ASSUME x.state = "ON", DevOK(w)
        PROVE  IF Good(x) THEN DevUp(x, w, v)
               ELSE Enabled(x, w, s) /\ SameLinks(x, w) /\ SameRoc(x, w) /\ SameBss(x, w)
    <3> USE <2>7
    <3>1. f.state = "ON" /\ d.state = "ON"
      BY <2>4, StillOn, Zenon
    <3>2. Enabled(d, w, s)
      BY <1>4, <1>6, <3>1, Zenon
    <3> USE <3>2
    <3>3. IF Good(f) THEN Linked(f, d, s) ELSE SameLinks(f, d)
      BY <1>4, <3>1, Zenon DEF DevOK, Enabled, SameLinks, s
    <3>4. f.role[s] # Invalid /\ x.role[s] = f.role[s]
      <4>1. d.role[s] # Invalid
        BY Ids, ZenonT(30) DEF Enabled, Tidy, RoleOf
      <4>2. QED
        BY <2>4, <4>1, Zenon DEF SameRoles
    <3> USE <3>4
    <3>5. Enabled(x, w, s)
      BY <2>6, Zenon DEF Enabled, SameRoles
    <3>6. CASE Good(f)
      <4>1. Good(x) /\ SameLinks(x, f) /\ x.roc = f.roc \cup {f.role[s]}
        BY <2>4, <3>6, Zenon
      <4>2. x.roc = w.roc \cup {x.role[s]}
        BY <2>5, <4>1, Zenon DEF SameRoc
      <4>3. QED
        BY <1>4, <3>3, <3>5, <3>6, <4>1, <4>2, Zenon DEF DevUp, s, Linked, SameLinks
    <3>7. CASE ~Good(f)
      <4>1. x = f
        BY <2>4, <3>7, Zenon
      <4>2. QED
        BY <1>4, <2>5, <3>3, <3>5, <3>7, <4>1, Again, Zenon
    <3>8. QED
      BY <3>6, <3>7, Zenon
  <2>8. CASE Good(x)
    BY <2>1, <2>6, <2>7, <2>8, Zenon
  <2>9. CASE ~Good(x)
    <3>1. PICK y \in RoleDisable(x, s) : e = Err(y)
      BY <2>1, <2>9, Zenon
    <3>2. /\ Keeps(y, x, J) /\ SameLinks(y, x) /\ SameRoc(y, x) /\ SameBss(y, x) /\ Tidy(y, J)
          /\ y.state = "ON" =>
               IF x.role[s] # Invalid THEN Good(y) /\ Disabled(y, x, s) ELSE SameRoles(y, x)
      BY <2>4, <3>1, Disables, Zenon DEF Keeps
    <3> USE <3>2
    <3>3. Keeps(e, y, J) /\ Still(e, y)
      BY <3>1, Marks, Zenon
    <3> USE <3>3
    <3>4. Keeps(e, x, J) /\ SameLinks(e, x) /\ SameRoc(e, x) /\ SameBss(e, x)
      BY Again, Zenon DEF Still
    <3> USE <3>4
    <3>5. Keeps(e, w, J) /\ SameBss(e, w)
      BY <2>6, Again, Zenon
    <3>6. ASSUME e.state = "ON", DevOK(w) PROVE Still(e, w)
      <4>1. x.state = "ON" /\ y.state = "ON"
        BY <3>6, StillOn, Zenon
      <4>2. Enabled(x, w, s) /\ SameLinks(x, w) /\ SameRoc(x, w)
        BY <2>7, <2>9, <3>6, <4>1, Zenon
      <4> USE <4>2
      <4>3. PICK id \in Roles \ w.roles :
               x.role = [w.role EXCEPT ![s] = id] /\ x.roles = w.roles \cup {id}
        BY Zenon DEF Enabled
      <4>4. w.role[s] = Invalid /\ w.role \in [RoleSlots -> Roles \cup {Invalid}]
            /\ s \in RoleSlots /\ id # Invalid
        BY Ids, Zenon DEF Enabled, Tidy, RoleOf
      <4>5. SameRoles(e, w)
        BY <4>1, <4>3, <4>4, Again DEF Still, SameRoles, Disabled
      <4>6. QED
        BY <3>5, <4>5, Again, Zenon DEF Still
    <3>7. QED
      BY <3>5, <3>6, Zenon
  <2>10. QED
    BY <2>8, <2>9, Zenon
<1>7. QED
  BY <1>5, <1>6, Zenon

\* the test and the croc of stop_dev and bss_info_changed
LEMMA CrocsDev ==
    ASSUME Hard, NEW J, NEW w, Tidy(w, J), NEW v \in Vifs, NEW e \in CrocDev(w, v)
    PROVE  /\ Keeps(e, w, J) /\ SameRoles(e, w) /\ SameLinks(e, w) /\ SameBss(e, w)
           /\ e.state = "ON" => e.roc = w.roc \ {w.role[Dev(v)]} /\ (Good(w) => Good(e))
<1>1. CASE w.role[Dev(v)] \in w.roc
  BY <1>1, Rocs DEF CrocDev, Dev
<1>2. CASE w.role[Dev(v)] \notin w.roc
  BY <1>2, Again DEF Still, CrocDev, Dev
<1>3. QED
  BY <1>1, <1>2, Zenon

\* wl12xx_stop_dev of a started device role.
LEMMA StopsDev ==
    ASSUME Hard, NEW J, NEW w, Tidy(w, J), NEW v \in Stas \cap J, NEW e \in StopDev(w, v)
    PROVE  /\ Keeps(e, w, J) /\ SameBss(e, w)
           /\ e.state = "ON" /\ DevOK(w) /\ w.hlid[Dev(v)] # Invalid =>
                Good(e) /\ DevDown(e, w, v)
<1> DEFINE s == Dev(v)
           c == ChangeFw(w)
<1>1. Keeps(c, w, J) /\ Still(c, w) /\ Tidy(c, J)
  BY Marks, Zenon DEF Keeps
<1>2. RoleOf(s, J) /\ LinkOf(s, J) /\ v \in Vifs
  BY DevSlots, Zenon
<1> USE <1>2
<1> HIDE DEF c, s
<1>3. PICK d \in Soft(c) :
         e \in Then(CrocDev(d, v), LAMBDA f :
               Then(RoleStopDev(f, v), LAMBDA g : RoleDisable(g, s)))
  BY <1>1, Issued, Zenon DEF StopDev, Then, c, s, Dev
<1>4. Keeps(d, w, J) /\ Still(d, w) /\ Good(d) /\ Tidy(d, J)
  BY <1>1, Again, Issued, Zenon DEF Plain, Still, Keeps
<1>5. PICK f \in CrocDev(d, v) :
         IF Good(f) THEN e \in Then(RoleStopDev(f, v), LAMBDA g : RoleDisable(g, s))
         ELSE e = f
  BY <1>3, Zenon DEF Then
<1>6. /\ Keeps(f, w, J) /\ SameRoles(f, w) /\ SameLinks(f, w) /\ SameBss(f, w) /\ Tidy(f, J)
      /\ f.state = "ON" => Good(f) /\ f.roc = w.roc \ {w.role[s]}
  BY <1>4, Again, CrocsDev DEF Still, Keeps, s, SameRoc, SameRoles
<1> USE <1>6
<1>7. CASE ~Good(f)
  BY <1>5, <1>7, Zenon
<1>8. CASE Good(f)
  <2>1. PICK g \in RoleStop(f, s) : IF Good(g) THEN e \in RoleDisable(g, s) ELSE e = g
    BY <1>5, <1>8, Zenon DEF Then, RoleStopDev, s, Dev
  <2>2. /\ Keeps(g, f, J) /\ SameRoles(g, f) /\ SameRoc(g, f) /\ SameBss(g, f) /\ Tidy(g, J)
        /\ g.state = "ON" =>
             IF f.hlid[s] # Invalid THEN Good(g) /\ Unlinked(g, f, s) ELSE SameLinks(g, f)
    BY Stops, Zenon DEF Keeps
  <2> USE <2>2
  <2>3. Keeps(g, w, J) /\ SameRoles(g, w) /\ SameBss(g, w)
    BY Again, Zenon
  <2> USE <2>3
  <2>4. ASSUME g.state = "ON", w.hlid[s] # Invalid
        PROVE  Good(g) /\ Unlinked(g, w, s) /\ g.roc = w.roc \ {w.role[s]}
    BY <2>4, StillOn, Zenon DEF SameLinks, SameRoc, Unlinked
  <2>5. CASE ~Good(g)
    BY <2>1, <2>4, <2>5, Zenon DEF s
  <2>6. CASE Good(g)
    <3>1. /\ Keeps(e, g, J) /\ SameLinks(e, g) /\ SameRoc(e, g) /\ SameBss(e, g)
          /\ e.state = "ON" =>
               IF g.role[s] # Invalid THEN Good(e) /\ Disabled(e, g, s) ELSE SameRoles(e, g)
      BY <2>1, <2>6, Disables, Zenon
    <3>2. ASSUME e.state = "ON", DevOK(w), w.hlid[s] # Invalid
          PROVE  Good(e) /\ DevDown(e, w, v)
      BY <2>4, <3>1, <3>2, StillOn
      DEF DevDown, SameRoc, s, SameRoles, Disabled, DevOK, SameLinks, Unlinked
    <3>3. QED
      BY <3>1, <3>2, Again, Zenon DEF s
  <2>7. QED
    BY <2>5, <2>6, Zenon
<1>9. QED
  BY <1>7, <1>8, Zenon

\* wl12xx_stop_dev behind its callers' test that the device role is started.
LEMMA StopsDevIfStarted ==
    ASSUME Hard, NEW J, NEW w, Tidy(w, J), NEW v \in Stas \cap J,
           NEW e \in StopDevIfStarted(w, v)
    PROVE  /\ Keeps(e, w, J) /\ SameBss(e, w)
           /\ e.state = "ON" /\ DevOK(w) =>
                /\ Good(e) /\ (DevDown(e, w, v) \/ Still(e, w))
                /\ e.hlid[Dev(v)] = Invalid
<1>1. CASE DevStarted(w, v)
  <2>1. Dev(v) \in LinkSlots
    BY DevSlots, Zenon DEF LinkOf
  <2>2. DevDown(e, w, v) => e.hlid[Dev(v)] = Invalid
    BY <2>1, Zenon DEF DevDown, Unlinked, Tidy
  <2>3. QED
    BY <1>1, <2>2, StopsDev, Zenon DEF StopDevIfStarted, DevStarted, Dev
<1>2. CASE ~DevStarted(w, v)
  BY <1>2, Marks DEF Still, SameLinks, DevStarted, StopDevIfStarted, Dev
<1>3. QED
  BY <1>1, <1>2, Zenon

-----------------------------------------------------------------------------
(* What holds while the firmware is ON.                                    *)

\* the roles marked in roles_map are those of the interfaces, each of one
RolesOK(d) ==
    /\ d.roles = {d.role[s] : s \in RoleSlots} \ {Invalid}
    /\ \A r, s \in RoleSlots : r # s /\ d.role[r] = d.role[s] => d.role[r] = Invalid

\* only an associated station has joined or is authorised
StaOK(d) ==
    /\ d.state_sent \subseteq d.associated
    /\ \A v \in Stas : d.hlid[Sta(v)] # Invalid => v \in d.associated

\* a ROC belongs to a started device role, or to a station that has joined and
\* is not authorised
RocOf(d, r, v) ==
    \/ r = d.role[Dev(v)] /\ d.hlid[Dev(v)] # Invalid
    \/ r = d.role[Main(v)] /\ d.hlid[Sta(v)] # Invalid /\ v \notin d.state_sent

RocOK(d) == \A r \in d.roc : r # Invalid /\ \E v \in Stas : RocOf(d, r, v)

\* A role is enabled or disabled.
LEMMA RoleMoves ==
    ASSUME NEW J, NEW w, Tidy(w, J), NEW e, NEW s \in RoleSlots,
           Enabled(e, w, s) \/ Disabled(e, w, s)
    PROVE  /\ RolesOK(w) => RolesOK(e)
           /\ \A r \in RoleSlots \ {s} : e.role[r] = w.role[r]
           /\ Enabled(e, w, s) => e.role[s] # Invalid /\ e.role[s] \notin w.roles
           /\ Disabled(e, w, s) => e.role[s] = Invalid
<1>1. w.role \in [RoleSlots -> Roles \cup {Invalid}] /\ Invalid \notin Roles
  BY Ids, Zenon DEF Tidy
<1> USE <1>1
<1>2. \A r \in RoleSlots \ {s} : e.role[r] = w.role[r]
  BY Zenon DEF Enabled, Disabled
<1> USE <1>2
<1>3. CASE Enabled(e, w, s)
  <2>1. PICK id \in Roles \ w.roles : e.role = [w.role EXCEPT ![s] = id] /\ e.roles = w.roles \cup {id}
    BY <1>3, Zenon DEF Enabled
  <2> USE <2>1
  <2>2. e.role[s] = id /\ id # Invalid /\ w.role[s] = Invalid
    BY <1>3, Zenon DEF Enabled
  <2>3. ASSUME RolesOK(w) PROVE RolesOK(e)
    BY <2>2, <2>3 DEF RolesOK
  <2>4. QED
    BY <2>2, <2>3, Zenon DEF Disabled
<1>4. CASE Disabled(e, w, s)
  <2>1. e.role[s] = Invalid /\ w.role[s] # Invalid /\ e.roles = w.roles \ {w.role[s]}
    BY <1>4, Zenon DEF Disabled
  <2>2. ASSUME RolesOK(w) PROVE RolesOK(e)
    BY <2>1, <2>2 DEF RolesOK
  <2>3. QED
    BY <2>1, <2>2, Zenon DEF Enabled
<1>5. QED
  BY <1>3, <1>4, Zenon

\* A slot gets or loses a link.
LEMMA LinkMoves ==
    ASSUME NEW J, NEW w, Tidy(w, J), NEW e, NEW s \in LinkSlots,
           Linked(e, w, s) \/ Unlinked(e, w, s)
    PROVE  /\ \A r \in LinkSlots \ {s} : e.hlid[r] = w.hlid[r]
           /\ Linked(e, w, s) => e.hlid[s] # Invalid
           /\ Unlinked(e, w, s) => e.hlid[s] = Invalid
<1>1. w.hlid \in [LinkSlots -> Hlids \cup {Invalid}] /\ Invalid \notin Hlids
  BY Ids, Zenon DEF Tidy
<1>2. QED
  BY <1>1, Zenon DEF Linked, Unlinked

\* A link that was allocated is valid.
LEMMA LinkTaken ==
    ASSUME NEW J, NEW w, Tidy(w, J), NEW e, NEW s \in LinkSlots, Linked(e, w, s)
    PROVE  e.hlid[s] # Invalid
BY LinkMoves

\* what start_dev and stop_dev leave
DevStep(e, w, v) ==
    \/ DevUp(e, w, v) \/ DevDown(e, w, v)
    \/ SameRoles(e, w) /\ SameLinks(e, w) /\ SameRoc(e, w)

\* The device role is started or stopped: nothing of the rest changes, and the
\* ROCs stay owned.
LEMMA DevMoves ==
    ASSUME NEW J, NEW w, Tidy(w, J), NEW e, NEW v \in Stas, e.state_sent = w.state_sent,
           DevStep(e, w, v)
    PROVE  /\ \A u \in Vifs : e.role[Main(u)] = w.role[Main(u)]
           /\ \A s \in LinkSlots : s[2] # "dev" => e.hlid[s] = w.hlid[s]
           /\ RolesOK(w) => RolesOK(e)
           /\ DevOK(w) => DevOK(e)
           /\ RocOK(w) /\ DevOK(w) => RocOK(e)
<1>1. /\ \A u \in Vifs : /\ Dev(u) \in RoleSlots /\ Main(u) \in RoleSlots /\ Dev(u) \in LinkSlots
                         /\ Sta(u) \in LinkSlots /\ Main(u) # Dev(v) /\ Sta(u) # Dev(v)
                         /\ u # v => Dev(u) # Dev(v)
      /\ v \in Vifs /\ Dev(v)[2] = "dev" /\ \A u \in Vifs : Sta(u)[2] # "dev"
      /\ Stas \subseteq Vifs
  BY Zenon DEF Dev, Main, Sta, RoleSlots, LinkSlots, Vifs
<1> USE <1>1
<1>2. CASE SameRoles(e, w) /\ SameLinks(e, w) /\ SameRoc(e, w)
  BY <1>2 DEF SameRoles, SameLinks, SameRoc, RolesOK, DevOK, RocOK, RocOf
<1>3. CASE DevUp(e, w, v) \/ DevDown(e, w, v)
  <2> USE <1>3
  <2>1. /\ \A r \in RoleSlots \ {Dev(v)} : e.role[r] = w.role[r]
        /\ \A s \in LinkSlots \ {Dev(v)} : e.hlid[s] = w.hlid[s]
        /\ RolesOK(w) => RolesOK(e)
    BY RoleMoves, LinkMoves DEF DevUp, DevDown
  <2>2. DevUp(e, w, v) => e.hlid[Dev(v)] # Invalid /\ e.role[Dev(v)] # Invalid /\ w.hlid[Dev(v)] = Invalid
    <3>1. ASSUME DevUp(e, w, v) PROVE e.hlid[Dev(v)] # Invalid /\ e.role[Dev(v)] # Invalid
      BY <3>1, RoleMoves, LinkMoves DEF DevUp
    <3>2. QED
      BY <3>1, Zenon DEF DevUp, Linked
  <2>3. ASSUME NEW r \in e.roc, RocOK(w), DevOK(w)
        PROVE  r # Invalid /\ \E u \in Stas : RocOf(e, r, u)
    <3> USE <2>3
    <3>1. CASE r \notin w.roc
      BY <2>2, <3>1, Zenon DEF RocOf, DevUp, DevDown
    <3>2. CASE r \in w.roc
      <4>1. PICK u \in Stas : RocOf(w, r, u)
        BY <3>2, Zenon DEF RocOK
      <4>2. QED
        BY <2>1, <2>2, <3>2, <4>1 DEF RocOf, RocOK, DevDown
    <3>3. QED
      BY <3>1, <3>2, Zenon
  <2>4. QED
    BY <2>1, <2>3, RoleMoves, LinkMoves DEF RocOK, DevOK, DevUp, DevDown
<1>4. QED
  BY <1>2, <1>3, Zenon DEF DevStep

-----------------------------------------------------------------------------
(* Station interfaces.                                                     *)

\* while the firmware is ON, between two handlers
Fit(d) == RolesOK(d) /\ DevOK(d) /\ StaOK(d)

\* It depends on the roles, the links and the BSS.
LEMMA FitKept ==
    ASSUME NEW w, NEW e, e.role = w.role, e.roles = w.roles, e.hlid = w.hlid,
           e.associated = w.associated, e.state_sent = w.state_sent, Fit(w)
    PROVE  Fit(e)
<1>1. RolesOK(e)
  BY ZenonT(30) DEF Fit, RolesOK
<1>2. DevOK(e) /\ StaOK(e)
  BY Zenon DEF Fit, DevOK, StaOK
<1>3. QED
  BY <1>1, <1>2, Zenon DEF Fit

\* Which firmware is wanted depends on the interfaces only.
LEMMA Wanted ==
    ASSUME NEW w, NEW e, Stays(e, w)
    PROVE  SwitchesToMr(e) <=> SwitchesToMr(w)
BY Zenon DEF Stays, SwitchesToMr, NeedFwChange, OpenCount

\* Fields of the BSS are set.
LEMMA Sets ==
    ASSUME NEW J, NEW w, Tidy(w, J), NEW e, Watched \subseteq DOMAIN e, Stays(e, w),
           SameRoles(e, w), SameLinks(e, w),
           e.associated \subseteq Stas \cap J, e.state_sent \subseteq Stas \cap J,
           e.in_use \subseteq Stas \cap J, e.ap_started \subseteq Aps \cap J
    PROVE  Keeps(e, w, J)
BY Zenon DEF Tidy, SameRoles, SameLinks, Keeps, Elsewhere

\* wl1271_check_operstate ends the ROC of a station that it authorises.
LEMMA Authorises ==
    ASSUME Hard, NEW J, NEW w, Tidy(w, J), NEW v \in Stas \cap J, NEW up,
           NEW e \in CheckOperstate(w, v, up)
    PROVE  /\ Keeps(e, w, J) /\ SameRoles(e, w) /\ SameLinks(e, w)
           /\ e.associated = w.associated /\ e.in_use = w.in_use /\ e.ap_started = w.ap_started
           /\ w.state_sent \subseteq e.state_sent /\ e.state_sent \subseteq w.state_sent \cup {v}
           /\ e.state = "ON" /\ Fit(w) /\ v \in w.associated => Fit(e)
           /\ e.state = "ON" /\ RocOK(w) => RocOK(e)
<1>1. CASE v \notin up \/ v \in w.state_sent
  <2>1. Keeps(e, w, J) /\ Still(e, w)
    BY <1>1, Marks, Zenon DEF CheckOperstate
  <2>2. QED
    BY <2>1 DEF Still, SameRoles, SameLinks, SameRoc, SameBss, Fit, RolesOK, DevOK, StaOK,
                RocOK, RocOf
<1>2. CASE v \in up /\ v \notin w.state_sent
  <2> DEFINE d == [w EXCEPT !.state_sent = @ \cup {v}]
  <2>1. PICK f \in Command(d) :
           IF Good(f) THEN \E g \in Croc(f, f.role[Main(v)]) : e = Ok(g) ELSE e = f
    BY <1>2 DEF CheckOperstate, Then, Always, Main
  <2>2. /\ Keeps(d, w, J) /\ SameRoles(d, w) /\ SameLinks(d, w) /\ SameRoc(d, w)
        /\ d.associated = w.associated /\ d.state_sent = w.state_sent \cup {v}
        /\ d.in_use = w.in_use /\ d.ap_started = w.ap_started
    BY Sets, Zenon DEF Tidy, Watched, Stays, SameRoles, SameLinks, SameRoc
  <2> USE <2>2
  <2> HIDE DEF d
  <2>3. Plain(f, d, J) /\ Tidy(f, J)
    BY Issued, Zenon DEF Keeps, Plain
  <2> USE <2>3
  <2>4. /\ Keeps(f, w, J) /\ SameRoles(f, w) /\ SameLinks(f, w) /\ SameRoc(f, w) /\ SameBss(f, d)
    BY Again, Zenon DEF Plain, Still
  <2> USE <2>4
  <2>5. CASE ~Good(f)
    BY <2>1, <2>5, Zenon DEF Plain, SameBss
  <2>6. CASE Good(f)
    <3>1. PICK g \in Croc(f, f.role[Main(v)]) : e = Ok(g)
      BY <2>1, <2>6, Zenon
    <3>2. /\ Keeps(g, f, J) /\ SameRoles(g, f) /\ SameLinks(g, f) /\ SameBss(g, f) /\ Tidy(g, J)
          /\ g.state = "ON" => g.roc = f.roc \ {f.role[Main(v)]}
      BY <3>1, Rocs DEF Keeps
    <3> USE <3>2
    <3>3. Keeps(e, g, J) /\ Still(e, g) /\ e.state = g.state
      BY <3>1, Marks, Zenon
    <3>4. Keeps(e, w, J) /\ SameRoles(e, w) /\ SameLinks(e, w) /\ SameBss(e, d)
      BY <3>3, Again, Zenon DEF Still
    <3> USE <3>4
    <3>5. /\ e.associated = w.associated /\ e.in_use = w.in_use /\ e.ap_started = w.ap_started
          /\ e.state_sent = w.state_sent \cup {v}
      BY Zenon DEF SameBss
    <3>6. ASSUME e.state = "ON", RocOK(w) PROVE RocOK(e)
      BY <3>3, <3>5, <3>6 DEF RocOK, SameRoc, SameRoles, Still, RocOf, SameLinks
    <3>7. QED
      BY <3>5, <3>6 DEF Fit, RolesOK, DevOK, StaOK, SameRoles, SameLinks
  <2>7. QED
    BY <2>5, <2>6, Zenon
<1>3. QED
  BY <1>1, <1>2, Zenon

\* wl1271_join: the station has a link of its own only if the firmware need not
\* be switched.
LEMMA Joins ==
    ASSUME Hard, NEW J, NEW w, Tidy(w, J), NEW v \in Stas \cap J, NEW e \in Join(w, v)
    PROVE  /\ Keeps(e, w, J) /\ SameRoles(e, w) /\ SameRoc(e, w)
           /\ e.associated = w.associated \cup {v} /\ e.state_sent = w.state_sent
           /\ e.in_use = w.in_use /\ e.ap_started = w.ap_started
           /\ e.state = "ON" =>
                \/ Linked(e, w, Sta(v)) /\ ~SwitchesToMr(w)
                \/ SameLinks(e, w)
           /\ e.state = "ON" /\ Good(e) => e.hlid[Sta(v)] # Invalid
<1> DEFINE a == [w EXCEPT !.associated = @ \cup {v}]
           d == ChangeFw(a)
<1>1. /\ Keeps(a, w, J) /\ SameRoles(a, w) /\ SameLinks(a, w) /\ SameRoc(a, w) /\ Tidy(a, J)
      /\ a.associated = w.associated \cup {v} /\ a.state_sent = w.state_sent
      /\ a.in_use = w.in_use /\ a.ap_started = w.ap_started
  <2>1. /\ Stays(a, w) /\ SameRoles(a, w) /\ SameLinks(a, w) /\ SameRoc(a, w)
        /\ a.associated = w.associated \cup {v} /\ a.state_sent = w.state_sent
        /\ a.in_use = w.in_use /\ a.ap_started = w.ap_started /\ Watched \subseteq DOMAIN a
    BY Zenon DEF Tidy, Watched, Stays, SameRoles, SameLinks, SameRoc
  <2>2. /\ a.associated \subseteq Stas \cap J /\ a.state_sent \subseteq Stas \cap J
        /\ a.in_use \subseteq Stas \cap J /\ a.ap_started \subseteq Aps \cap J
    BY <2>1, Zenon DEF Tidy
  <2>3. QED
    BY <2>1, <2>2, Sets, Zenon DEF Keeps
<1> USE <1>1
<1>2. CASE SwitchesToMr(w)
  <2>1. e = Err(d)
    BY <1>2, Zenon DEF Join
  <2> HIDE DEF a
  <2>2. Keeps(d, a, J) /\ Still(d, a) /\ Tidy(d, J)
    BY Marks, Zenon DEF Keeps
  <2> HIDE DEF d
  <2>3. Keeps(e, d, J) /\ Still(e, d) /\ ~Good(e)
    BY <2>1, <2>2, Marks, Zenon
  <2>4. Keeps(e, a, J) /\ SameRoles(e, a) /\ SameLinks(e, a) /\ SameRoc(e, a) /\ SameBss(e, a)
    BY <2>2, <2>3, Again, Zenon DEF Still
  <2>5. Keeps(e, w, J) /\ SameRoles(e, w) /\ SameLinks(e, w) /\ SameRoc(e, w)
    BY <2>4, Again, Zenon
  <2>6. QED
    BY <2>3, <2>4, <2>5, Zenon DEF SameBss
<1>3. CASE ~SwitchesToMr(w)
  <2> USE <1>3
  <2>1. PICK f \in RoleStart(d, Sta(v)) : IF Good(f) THEN e \in Command(f) ELSE e = f
    BY Zenon DEF Then, Join, Sta
  <2> HIDE DEF a
  <2>2. Keeps(d, a, J) /\ Still(d, a) /\ Tidy(d, J)
    BY Marks, Zenon DEF Keeps
  <2> USE <2>2
  <2>3. /\ Keeps(d, w, J) /\ SameRoles(d, w) /\ SameLinks(d, w) /\ SameRoc(d, w) /\ SameBss(d, a)
    BY Again, Zenon DEF Still
  <2> USE <2>3
  <2> HIDE DEF d
  <2>4. LinkOf(Sta(v), J) /\ Sta(v) \in LinkSlots
    BY DevSlots, Zenon DEF LinkOf
  <2>5. /\ Keeps(f, d, J) /\ SameRoles(f, d) /\ SameRoc(f, d) /\ SameBss(f, d) /\ Tidy(f, J)
        /\ f.state = "ON" =>
             IF d.hlid[Sta(v)] # Invalid THEN Good(f) /\ SameLinks(f, d)
             ELSE IF Good(f) THEN Linked(f, d, Sta(v)) ELSE SameLinks(f, d)
    BY <2>4, Starts, Zenon DEF Keeps
  <2> USE <2>5
  <2>6. /\ Keeps(f, w, J) /\ SameRoles(f, w) /\ SameRoc(f, w) /\ SameBss(f, a)
    BY Again, Zenon
  <2>7. f.state = "ON" => /\ Linked(f, w, Sta(v)) \/ SameLinks(f, w)
                          /\ Good(f) => f.hlid[Sta(v)] # Invalid
    <3>1. ASSUME Linked(f, d, Sta(v)) PROVE Linked(f, w, Sta(v)) /\ f.hlid[Sta(v)] # Invalid
      <4>1. f.hlid[Sta(v)] # Invalid
        BY <2>4, <3>1, LinkTaken, Zenon
      <4>2. QED
        BY <3>1, <4>1, ZenonT(30) DEF Linked, SameLinks
    <3>2. QED
      BY <3>1, Zenon DEF SameLinks
  <2>8. CASE ~Good(f)
    BY <2>1, <2>6, <2>7, <2>8, Zenon DEF SameBss
  <2>9. CASE Good(f)
    <3>1. Plain(e, f, J)
      BY <2>1, <2>9, Issued, Zenon
    <3>2. Keeps(e, w, J) /\ SameRoles(e, w) /\ SameRoc(e, w) /\ SameBss(e, a) /\ SameLinks(e, f)
      BY <2>6, <3>1, Again, Zenon DEF Plain, Still
    <3>3. e.state = "ON" => f.state = "ON"
      BY <3>1, StillOn, Zenon DEF Plain
    <3>4. e.hlid = f.hlid /\ e.links = f.links /\ e.map = f.map /\ e.sta_map = f.sta_map
      BY <3>2, Zenon DEF SameLinks
    <3>5. ASSUME Linked(f, w, Sta(v)) PROVE Linked(e, w, Sta(v))
      BY <3>4, <3>5, Zenon DEF Linked
    <3>6. ASSUME SameLinks(f, w) PROVE SameLinks(e, w)
      BY <3>2, <3>6, Again, Zenon
    <3>7. QED
      BY <2>7, <2>9, <3>2, <3>3, <3>4, <3>5, <3>6, Zenon DEF SameBss
  <2>10. QED
    BY <2>8, <2>9, Zenon
<1>4. QED
  BY <1>2, <1>3, Zenon

\* What happened to the device role still holds when the roles, the links and
\* remain-on-channel stay the same.
LEMMA DevStepKept ==
    ASSUME NEW w, NEW e, NEW v, DevStep(e, w, v),
           NEW f, SameRoles(f, e), SameLinks(f, e), SameRoc(f, e)
    PROVE  DevStep(f, w, v)
BY ZenonT(30) DEF DevStep, DevUp, DevDown, Enabled, Disabled, Linked, Unlinked, SameRoles, SameLinks, SameRoc

\* wl1271_sta_handle_idle only starts or stops the device role.
LEMMA Idles ==
    ASSUME Hard, NEW J, NEW w, Tidy(w, J), NEW v \in Stas \cap J, NEW e \in HandleIdle(w, v)
    PROVE  /\ Keeps(e, w, J)
           /\ e.associated = w.associated /\ e.state_sent = w.state_sent
           /\ e.ap_started = w.ap_started
           /\ e.state = "ON" /\ DevOK(w) => DevStep(e, w, v)
<1>1. ASSUME NEW d, Keeps(d, w, J), SameBss(d, w), d.state = "ON" /\ DevOK(w) => DevStep(d, w, v),
             NEW f, Watched \subseteq DOMAIN f, Stays(f, d), f.state = d.state,
             SameRoles(f, d), SameLinks(f, d), SameRoc(f, d),
             f.associated = d.associated, f.state_sent = d.state_sent,
             f.ap_started = d.ap_started, f.in_use \subseteq d.in_use \cup {v}
      PROVE  /\ Keeps(f, w, J)
             /\ f.associated = w.associated /\ f.state_sent = w.state_sent
             /\ f.ap_started = w.ap_started
             /\ f.state = "ON" /\ DevOK(w) => DevStep(f, w, v)
  <2> USE <1>1
  <2>1. Tidy(d, J)
    BY Zenon DEF Keeps
  <2>2. Keeps(f, d, J)
    BY <2>1, Sets, Zenon DEF Tidy
  <2>3. QED
    BY <2>2, DevStepKept, Again, Zenon DEF SameBss
<1>2. ASSUME NEW d, Keeps(d, w, J), SameBss(d, w), d.state = "ON" /\ DevOK(w) => DevStep(d, w, v)
      PROVE  /\ Keeps(d, w, J)
             /\ d.associated = w.associated /\ d.state_sent = w.state_sent
             /\ d.ap_started = w.ap_started
             /\ d.state = "ON" /\ DevOK(w) => DevStep(d, w, v)
  BY <1>2, Zenon DEF SameBss
<1> USE <1>2
<1>3. CASE v \in w.in_use <=> v \in w.busy
  BY <1>3, Marks, Zenon DEF Still, DevStep, HandleIdle
<1>4. CASE v \notin w.in_use /\ v \in w.busy
  <2>1. PICK d \in StartDev(w, v) :
           IF Good(d) THEN e = [d EXCEPT !.in_use = @ \cup {v}] ELSE e = d
    BY <1>4, Zenon DEF HandleIdle, Then
  <2>2. /\ Keeps(d, w, J) /\ SameBss(d, w)
        /\ d.state = "ON" /\ DevOK(w) => DevStep(d, w, v)
    BY StartsDev, Zenon DEF DevStep, Still
  <2>3. CASE Good(d)
    BY <1>1, <2>1, <2>2, <2>3, ZenonT(30) DEF Keeps, Tidy, Watched, Stays, SameRoles, SameLinks, SameRoc
  <2>4. QED
    BY <2>1, <2>2, <2>3, Zenon
<1>5. CASE v \in w.in_use /\ v \notin w.busy
  <2>1. PICK d \in StopDevIfStarted(w, v) :
           IF Good(d) THEN e \in Then(Command(d), LAMBDA f : {[f EXCEPT !.in_use = @ \ {v}]})
           ELSE e = d
    BY <1>5, Zenon DEF HandleIdle, Then
  <2>2. /\ Keeps(d, w, J) /\ SameBss(d, w)
        /\ d.state = "ON" /\ DevOK(w) => DevStep(d, w, v)
    BY StopsDevIfStarted, Zenon DEF DevStep, Still
  <2>3. CASE ~Good(d)
    BY <2>1, <2>2, <2>3, Zenon
  <2>4. CASE Good(d)
    <3>1. PICK f \in Command(d) : IF Good(f) THEN e = [f EXCEPT !.in_use = @ \ {v}] ELSE e = f
      BY <2>1, <2>4, Zenon DEF Then
    <3>2. /\ Keeps(f, w, J) /\ SameBss(f, w)
          /\ f.state = "ON" /\ DevOK(w) => DevStep(f, w, v)
      BY <2>2, Again, DevStepKept, Issued, Zenon DEF Plain, Still, Keeps
    <3>3. CASE Good(f)
      BY <1>1, <3>1, <3>2, <3>3, ZenonT(30)
      DEF Keeps, Tidy, Watched, Stays, SameRoles, SameLinks, SameRoc
    <3>4. QED
      BY <3>1, <3>2, <3>3, Zenon
  <2>5. QED
    BY <2>3, <2>4, Zenon
<1>6. QED
  BY <1>3, <1>4, <1>5, Zenon

\* what a handler does to the fields of other interfaces and to the interface's
\* own link
StaStep(e, w, v) ==
    /\ \A u \in Vifs : e.role[Main(u)] = w.role[Main(u)]
    /\ \A s \in LinkSlots : s[2] # "dev" /\ s # Sta(v) => e.hlid[s] = w.hlid[s]
    /\ e.hlid[Sta(v)] # Invalid /\ w.hlid[Sta(v)] = Invalid => ~SwitchesToMr(w)

\* What happened to a station's link adds up, and is nothing when links are the
\* same, or when the link is new and no firmware change is due.
LEMMA StaSteps ==
    ASSUME NEW J, NEW w, NEW e, NEW f, NEW v \in Stas, Stays(e, w)
    PROVE  /\ StaStep(e, w, v) /\ StaStep(f, e, v) => StaStep(f, w, v)
           /\ SameRoles(e, w) /\ SameLinks(e, w) => StaStep(e, w, v)
           /\ Tidy(w, J) /\ SameRoles(e, w) /\ Linked(e, w, Sta(v)) /\ ~SwitchesToMr(w) =>
                StaStep(e, w, v)
           /\ Tidy(w, J) /\ SameRoles(e, w) /\ Unlinked(e, w, Sta(v)) => StaStep(e, w, v)
           /\ Tidy(w, J) /\ e.state_sent = w.state_sent /\ DevStep(e, w, v) => StaStep(e, w, v)
<1>1. Sta(v) \in LinkSlots /\ Sta(v)[2] # "dev"
  BY Zenon DEF Sta, LinkSlots, Vifs
<1>2. Tidy(w, J) /\ SameRoles(e, w) /\ Unlinked(e, w, Sta(v)) => StaStep(e, w, v)
  BY <1>1, LinkMoves DEF StaStep, SameRoles
<1>3. ASSUME StaStep(e, w, v), StaStep(f, e, v) PROVE StaStep(f, w, v)
  BY <1>3, Wanted, Zenon DEF StaStep
<1>4. ASSUME SameRoles(e, w), SameLinks(e, w) PROVE StaStep(e, w, v)
  BY <1>4, Zenon DEF StaStep, SameRoles, SameLinks
<1>5. ASSUME Tidy(w, J), SameRoles(e, w), Linked(e, w, Sta(v)), ~SwitchesToMr(w)
      PROVE  StaStep(e, w, v)
  <2>1. \A s \in LinkSlots \ {Sta(v)} : e.hlid[s] = w.hlid[s]
    BY <1>1, <1>5, LinkMoves
  <2>2. QED
    BY <1>5, <2>1, Zenon DEF StaStep, SameRoles
<1>6. ASSUME Tidy(w, J), e.state_sent = w.state_sent, DevStep(e, w, v)
      PROVE  StaStep(e, w, v)
  <2>1. /\ \A u \in Vifs : e.role[Main(u)] = w.role[Main(u)]
        /\ \A s \in LinkSlots : s[2] # "dev" => e.hlid[s] = w.hlid[s]
    BY <1>6, DevMoves
  <2>2. QED
    BY <1>1, <2>1, Zenon DEF StaStep
<1>7. QED
  BY <1>2, <1>3, <1>4, <1>5, <1>6, Zenon
=============================================================================
