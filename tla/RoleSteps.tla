----------------------------- MODULE RoleSteps ------------------------------
(***************************************************************************)
(* The functions of a station's and an access point's life, and the handlers*)
(* that add and remove no interface: what each of them keeps of the roles, *)
(* the links and remain-on-channel of all interfaces.                      *)
(***************************************************************************)
EXTENDS RoleLemmas, TLAPS

-----------------------------------------------------------------------------
(* Links are not lost.                                                     *)

\* every allocated link is the system link or an interface's, and every link of
\* an interface is in one of its fields or a client's, see NoLinkLost
Whole(d) ==
    /\ Owned(d)
    /\ \A l \in d.links \ {SystemHlid} : \E v \in Vifs : l \in d.map[v]
    /\ \A v \in Vifs : \A l \in d.map[v] \ d.sta_map[v] :
         \E s \in LinkSlots : s[1] = v /\ d.hlid[s] = l

\* No link is lost where none changes.
LEMMA WholeKept ==
    ASSUME NEW w, NEW e, SameLinks(e, w), Whole(w)
    PROVE  Whole(e)
BY DEF Whole, Owned, SameLinks

\* What holds of the roles depends on the roles, and what holds of the ROCs on
\* the ROCs, the roles, the links of the stations and who is authorised.
LEMMA RolesUnchanged ==
    ASSUME NEW w, NEW e, e.role = w.role, e.roles = w.roles, RolesOK(w)
    PROVE  RolesOK(e)
BY ZenonT(30) DEF RolesOK

LEMMA RocUnchanged ==
    ASSUME NEW w, NEW e, e.roc = w.roc, e.role = w.role, e.state_sent = w.state_sent,
           \A u \in Stas : e.hlid[Dev(u)] = w.hlid[Dev(u)] /\ e.hlid[Sta(u)] = w.hlid[Sta(u)],
           RocOK(w)
    PROVE  RocOK(e)
<1>1. ASSUME NEW r, NEW u \in Stas, RocOf(w, r, u) PROVE RocOf(e, r, u)
  BY <1>1, Zenon DEF RocOf
<1>2. QED
  BY <1>1, Zenon DEF RocOK

\* No link is lost by wl12xx_allocate_link for a slot that had none.
LEMMA WholeLinked ==
    ASSUME NEW w, Whole(w), NEW s \in LinkSlots, NEW e, Linked(e, w, s)
    PROVE  Whole(e)
<1>1. PICK l \in Hlids \ w.links :
         /\ e.hlid = [w.hlid EXCEPT ![s] = l] /\ e.links = w.links \cup {l}
         /\ e.map = [w.map EXCEPT ![s[1]] = @ \cup {l}]
  BY Zenon DEF Linked
<1> USE <1>1
<1>2. l # Invalid /\ s[1] \in Vifs /\ Owned(w) /\ e.sta_map = w.sta_map /\ w.hlid[s] = Invalid
  BY Ids, Zenon DEF LinkSlots, Linked, Whole
<1> USE <1>2
<1>3. /\ \A r \in LinkSlots : r[1] \in Vifs /\ w.hlid[r] # l
      /\ \A u \in Vifs : l \notin w.sta_map[u] /\ l \notin w.map[u]
  BY DEF Owned, LinkSlots
<1>4. /\ \A r \in LinkSlots : e.hlid[r] = IF r = s THEN l ELSE w.hlid[r]
      /\ \A u \in Vifs : e.map[u] = IF u = s[1] THEN w.map[u] \cup {l} ELSE w.map[u]
      /\ e.hlid \in [LinkSlots -> Hlids \cup {Invalid}] /\ e.map \in [Vifs -> SUBSET Hlids]
  <2>1. w.hlid \in [LinkSlots -> Hlids \cup {Invalid}] /\ w.map \in [Vifs -> SUBSET Hlids]
    BY Zenon DEF Owned
  <2>2. e.map \in [Vifs -> SUBSET Hlids]
    BY <2>1
  <2>3. QED
    BY <2>1, <2>2, ZenonT(30)
<1> USE <1>4
<1>5. Owned(e)
  <2>1. ASSUME NEW r \in LinkSlots, e.hlid[r] # Invalid
        PROVE  e.hlid[r] \in e.map[r[1]] \ e.sta_map[r[1]]
    <3>1. CASE r = s
      BY <1>3, <3>1
    <3>2. CASE r # s
      <4>1. e.hlid[r] = w.hlid[r] /\ r[1] \in Vifs
        BY <1>3, <3>2, Zenon
      <4>2. w.hlid[r] \in w.map[r[1]] \ w.sta_map[r[1]]
        BY <2>1, <4>1, Zenon DEF Owned
      <4>3. QED
        BY <4>1, <4>2, Zenon
    <3>3. QED
      BY <3>1, <3>2, Zenon
  <2>2. QED
    BY <1>3, <2>1 DEF Owned
<1>6. ASSUME NEW v \in Vifs, NEW k \in e.map[v] \ e.sta_map[v]
      PROVE  \E r \in LinkSlots : r[1] = v /\ e.hlid[r] = k
  <2> USE <1>6
  <2>1. CASE k = l
    BY <1>3, <2>1, Zenon
  <2>2. CASE k # l
    <3>1. e.map[v] \subseteq w.map[v] \cup {l}
      BY Zenon
    <3>2. PICK r \in LinkSlots : r[1] = v /\ w.hlid[r] = k
      BY <2>2, <3>1 DEF Whole
    <3>3. QED
      BY <3>2, Ids, Zenon
  <2>3. QED
    BY <2>1, <2>2, Zenon
<1>7. QED
  BY <1>5, <1>6 DEF Whole

\* No link is lost by wl12xx_free_link of a slot's link.
LEMMA WholeUnlinked ==
    ASSUME NEW w, Whole(w), NEW s \in LinkSlots, NEW e, Unlinked(e, w, s)
    PROVE  Whole(e)
<1> DEFINE l == w.hlid[s]
<1>1. /\ e.hlid = [w.hlid EXCEPT ![s] = Invalid] /\ e.links = w.links \ {l}
      /\ e.map = [w.map EXCEPT ![s[1]] = @ \ {l}] /\ e.sta_map = w.sta_map /\ l # Invalid
      /\ s[1] \in Vifs /\ Owned(w)
  BY Zenon DEF Unlinked, LinkSlots, Whole
<1> USE <1>1
<1>2. /\ l \in w.map[s[1]] /\ \A u \in Vifs : l \notin w.sta_map[u] /\ (u # s[1] => l \notin w.map[u])
      /\ \A r \in LinkSlots : r[1] \in Vifs /\ (r # s => w.hlid[r] # l)
  BY DEF Owned, LinkSlots
<1> USE <1>2
<1> HIDE DEF l
<1>3. /\ \A r \in LinkSlots : e.hlid[r] = IF r = s THEN Invalid ELSE w.hlid[r]
      /\ \A u \in Vifs : e.map[u] = w.map[u] \ {l}
      /\ e.hlid \in [LinkSlots -> Hlids \cup {Invalid}] /\ e.map \in [Vifs -> SUBSET Hlids]
  BY DEF Owned
<1> USE <1>3
<1>4. Owned(e)
  <2>1. /\ e.links \in SUBSET Hlids /\ SystemHlid \in e.links
        /\ e.sta_map \in [Vifs -> SUBSET Hlids]
        /\ \A v \in Vifs : e.map[v] \subseteq e.links \ {SystemHlid}
        /\ \A v \in Vifs : e.sta_map[v] \subseteq e.map[v]
        /\ \A u, v \in Vifs : u # v => e.map[u] \cap e.map[v] = {}
    BY DEF Owned
  <2>2. \A q, r \in LinkSlots : q # r /\ e.hlid[q] = e.hlid[r] => e.hlid[q] = Invalid
    BY DEF Owned
  <2>3. QED
    BY <2>1, <2>2 DEF Owned
<1>5. ASSUME NEW v \in Vifs, NEW k \in e.map[v] \ e.sta_map[v]
      PROVE  \E r \in LinkSlots : r[1] = v /\ e.hlid[r] = k
  <2>1. k # l /\ k \in w.map[v] \ w.sta_map[v]
    BY <1>5
  <2>2. PICK r \in LinkSlots : r[1] = v /\ w.hlid[r] = k
    BY <2>1 DEF Whole
  <2>3. QED
    BY <2>1, <2>2, Zenon DEF l
<1>6. QED
  BY <1>4, <1>5 DEF Whole

\* No link is lost by what happens to a device role.
LEMMA WholeDevStep ==
    ASSUME NEW w, Whole(w), NEW v \in Stas, NEW e, DevStep(e, w, v)
    PROVE  Whole(e)
<1>1. QED
  BY WholeKept, WholeLinked, WholeUnlinked, Zenon DEF DevStep, DevUp, DevDown, Dev, LinkSlots, Vifs

\* what the handlers of a station interface leave
StaDone(e, w, v, J) ==
    /\ Keeps(e, w, J) /\ e.ap_started = w.ap_started
    /\ e.state = "ON" /\ Fit(w) => Fit(e) /\ StaStep(e, w, v) /\ (Whole(w) => Whole(e))

\* What was done for a station interface adds up.
LEMMA Done ==
    ASSUME NEW J, NEW w, Tidy(w, J), NEW v \in Stas, NEW e, NEW f
    PROVE  /\ StaDone(e, w, v, J) /\ StaDone(f, e, v, J) => StaDone(f, w, v, J)
           /\ Plain(e, w, J) => StaDone(e, w, v, J) /\ (RocOK(w) => RocOK(e))
           /\ /\ Keeps(e, w, J) /\ SameBss(e, w)
              /\ e.state = "ON" /\ DevOK(w) => DevStep(e, w, v)
              => StaDone(e, w, v, J) /\ (e.state = "ON" /\ DevOK(w) /\ RocOK(w) => RocOK(e))
<1>1. ASSUME StaDone(e, w, v, J), StaDone(f, e, v, J) PROVE StaDone(f, w, v, J)
  BY <1>1, StaSteps, Again, Zenon DEF StaDone, Keeps
<1>2. ASSUME Plain(e, w, J) PROVE StaDone(e, w, v, J) /\ (RocOK(w) => RocOK(e))
  <2>1. Keeps(e, w, J) /\ Still(e, w) /\ Stays(e, w)
    BY <1>2, Zenon DEF Plain, Keeps
  <2>2. QED
    BY <2>1, StaSteps, WholeKept
    DEF StaDone, Still, SameRoles, SameLinks, SameBss, SameRoc, Fit, RolesOK, DevOK, StaOK,
        RocOK, RocOf
<1>3. ASSUME Keeps(e, w, J), SameBss(e, w), e.state = "ON" /\ DevOK(w) => DevStep(e, w, v)
      PROVE  StaDone(e, w, v, J) /\ (e.state = "ON" /\ DevOK(w) /\ RocOK(w) => RocOK(e))
  <2> USE <1>3
  <2>1. ASSUME e.state = "ON", Fit(w) PROVE Fit(e) /\ StaStep(e, w, v) /\ (Whole(w) => Whole(e))
    <3> USE <2>1
    <3>1. DevStep(e, w, v) /\ e.state_sent = w.state_sent /\ Stays(e, w)
      BY Zenon DEF Fit, SameBss, Keeps
    <3>2. RolesOK(e) /\ DevOK(e) /\ \A u \in Stas : e.hlid[Sta(u)] = w.hlid[Sta(u)]
      BY <3>1, DevMoves DEF Fit, Sta, LinkSlots, Vifs
    <3>3. QED
      BY <3>1, <3>2, StaSteps, WholeDevStep, Zenon DEF Fit, StaOK, SameBss
  <2>2. ASSUME e.state = "ON", DevOK(w), RocOK(w) PROVE RocOK(e)
    BY <2>2, DevMoves, Zenon DEF SameBss
  <2>3. QED
    BY <2>1, <2>2, Zenon DEF StaDone, SameBss
<1>4. QED
  BY <1>1, <1>2, <1>3, Zenon

\* wl1271_bss_info_changed_sta of a station that associates: the ROC of its own
\* role ends when it is authorised.
LEMMA AssociatesSta ==
    ASSUME Hard, NEW J, NEW w, Tidy(w, J), NEW v \in Stas \cap J, NEW up,
           NEW e \in Associated(w, v, up)
    PROVE  /\ StaDone(e, w, v, J) /\ e.associated \subseteq w.associated \cup {v}
           /\ e.state = "ON" /\ Fit(w) /\ RocOK(w) /\ v \notin w.state_sent => RocOK(e)
<1>1. PICK c \in Command(w) :
         IF Good(c)
         THEN e \in Then(Join(c, v), LAMBDA f :
                    Then(Roc(f, f.role[Main(v)]), LAMBDA g :
                    Always(CheckOperstate(g, v, up), LAMBDA h : StopDevIfStarted(h, v))))
         ELSE e = c
  BY Zenon DEF Associated, Then, Main
<1>2. Plain(c, w, J) /\ Tidy(c, J) /\ SameBss(c, w)
  BY Issued, Zenon DEF Plain, Keeps, Still
<1> USE <1>2
<1>3. StaDone(c, w, v, J) /\ (RocOK(w) => RocOK(c))
  BY Done, Zenon
<1>4. CASE ~Good(c)
  BY <1>1, <1>3, <1>4, Zenon DEF SameBss
<1>5. CASE Good(c)
  <2>1. PICK f \in Join(c, v) :
           IF Good(f)
           THEN e \in Then(Roc(f, f.role[Main(v)]), LAMBDA g :
                      Always(CheckOperstate(g, v, up), LAMBDA h : StopDevIfStarted(h, v)))
           ELSE e = f
    BY <1>1, <1>5, Zenon DEF Then
  <2>2. /\ Keeps(f, c, J) /\ SameRoles(f, c) /\ SameRoc(f, c) /\ Tidy(f, J)
        /\ f.associated = c.associated \cup {v} /\ f.state_sent = c.state_sent
        /\ f.ap_started = c.ap_started
        /\ f.state = "ON" =>
             \/ Linked(f, c, Sta(v)) /\ ~SwitchesToMr(c)
             \/ SameLinks(f, c)
        /\ f.state = "ON" /\ Good(f) => f.hlid[Sta(v)] # Invalid
    BY Joins DEF Keeps
  <2> USE <2>2
  <2>3. ASSUME f.state = "ON"
        PROVE  /\ \A s \in LinkSlots \ {Sta(v)} : f.hlid[s] = c.hlid[s]
               /\ c.hlid[Sta(v)] # Invalid => f.hlid[Sta(v)] # Invalid
               /\ StaStep(f, c, v)
    <3>1. Sta(v) \in LinkSlots /\ Stays(f, c)
      BY DevSlots, Zenon DEF LinkOf, Keeps
    <3>2. CASE Linked(f, c, Sta(v)) /\ ~SwitchesToMr(c)
      BY <3>1, <3>2, LinkMoves, StaSteps
    <3>3. CASE SameLinks(f, c)
      BY <3>1, <3>3, StaSteps, Zenon DEF SameLinks
    <3>4. QED
      BY <2>3, <3>2, <3>3, Zenon
  <2>4. \A u \in Stas : /\ Dev(u) \in LinkSlots \ {Sta(v)} /\ Sta(u) \in LinkSlots
                        /\ u # v => Sta(u) # Sta(v)
    BY Zenon DEF Dev, Sta, LinkSlots, Vifs
  <2>5. StaDone(f, c, v, J)
    <3>1. ASSUME f.state = "ON", Fit(c) PROVE Fit(f)
      BY <2>3, <2>4, <3>1
      DEF Fit, RolesOK, SameRoles, DevOK, Dev, Sta, LinkSlots, Vifs, StaOK
    <3>2. ASSUME f.state = "ON", Whole(c) PROVE Whole(f)
      BY <2>4, <3>2, WholeKept, WholeLinked, Zenon
    <3>3. QED
      BY <2>3, <3>1, <3>2, Zenon DEF StaDone
  <2>6. f.state = "ON" /\ RocOK(c) => RocOK(f)
    BY <2>3, <2>4 DEF RocOK, SameRoc, RocOf, SameRoles
  <2>7. /\ StaDone(f, w, v, J) /\ f.associated \subseteq w.associated \cup {v}
        /\ f.state = "ON" /\ Fit(w) /\ RocOK(w) => RocOK(f)
        /\ f.state_sent = w.state_sent
    BY <1>3, <2>5, <2>6, Done, Zenon DEF SameBss
  <2> USE <2>7
  <2>8. CASE ~Good(f)
    BY <2>1, <2>8, Zenon
  <2>9. CASE Good(f)
    <3>1. PICK g \in Roc(f, f.role[Main(v)]) :
             IF Good(g) THEN \E h \in CheckOperstate(g, v, up) : e \in StopDevIfStarted(h, v)
             ELSE e = g
      BY <2>1, <2>9 DEF Then, Always
    <3>2. /\ Keeps(g, f, J) /\ SameRoles(g, f) /\ SameLinks(g, f) /\ SameBss(g, f) /\ Tidy(g, J)
          /\ g.state = "ON" => \/ f.role[Main(v)] # Invalid /\ g.roc = f.roc \cup {f.role[Main(v)]}
                               \/ g.roc = f.roc
      BY <3>1, Rocs DEF Keeps
    <3> USE <3>2
    <3>3. g.state = "ON" => f.state = "ON"
      BY Zenon DEF Keeps, Stays
    <3>4. StaDone(g, f, v, J)
      <4>1. StaStep(g, f, v) /\ (Whole(f) => Whole(g))
        BY StaSteps, WholeKept, Zenon DEF Keeps
      <4>2. Fit(f) => Fit(g)
        BY FitKept, Zenon DEF SameBss, SameRoles, SameLinks
      <4>3. QED
        BY <4>1, <4>2, Zenon DEF StaDone, SameBss
    <3>5. g.state = "ON" /\ RocOK(f) /\ v \notin f.state_sent => RocOK(g)
      BY <2>9, <3>3 DEF RocOK, RocOf, SameRoles, SameLinks, SameBss
    <3>6. /\ StaDone(g, w, v, J) /\ g.associated = f.associated
          /\ g.state = "ON" /\ Fit(w) /\ RocOK(w) /\ v \notin w.state_sent => RocOK(g)
      BY <3>3, <3>4, <3>5, Done, Zenon DEF SameBss
    <3> USE <3>6
    <3>7. CASE ~Good(g)
      BY <3>1, <3>7, Zenon
    <3>8. CASE Good(g)
      <4>1. PICK h \in CheckOperstate(g, v, up) : e \in StopDevIfStarted(h, v)
        BY <3>1, <3>8, Zenon
      <4>2. /\ Keeps(h, g, J) /\ SameRoles(h, g) /\ SameLinks(h, g) /\ Tidy(h, J)
            /\ h.associated = g.associated /\ h.ap_started = g.ap_started
            /\ h.state = "ON" /\ Fit(g) /\ v \in g.associated => Fit(h)
            /\ h.state = "ON" /\ RocOK(g) => RocOK(h)
        BY Authorises DEF Keeps
      <4> USE <4>2
      <4>3. StaDone(h, g, v, J)
        BY WholeKept, StaSteps, Zenon DEF StaDone, Keeps
      <4>4. /\ Keeps(e, h, J) /\ SameBss(e, h)
            /\ e.state = "ON" /\ DevOK(h) => DevStep(e, h, v)
        BY <4>1, StopsDevIfStarted, Zenon DEF DevStep, Still
      <4>5. StaDone(e, h, v, J) /\ (e.state = "ON" /\ DevOK(h) /\ RocOK(h) => RocOK(e))
        BY <4>4, Done, Zenon
      <4>6. StaDone(h, w, v, J)
        BY <4>3, Done, Zenon
      <4>7. StaDone(e, w, v, J)
        BY <4>5, <4>6, Done, Zenon
      <4>8. QED
        BY <4>4, <4>5, <4>6, <4>7, StillOn, Zenon DEF SameBss, StaDone, Fit
    <3>9. QED
      BY <3>7, <3>8, Zenon
  <2>10. QED
    BY <2>8, <2>9, Zenon
<1>6. QED
  BY <1>4, <1>5, Zenon

\* wl1271_bss_info_changed_sta of a station that is disassociated: both of its
\* ROCs end before its role is stopped.
LEMMA DisassociatesSta ==
    ASSUME Hard, NEW J, NEW w, Tidy(w, J), NEW v \in Stas \cap J, NEW e \in Disassociated(w, v)
    PROVE  /\ StaDone(e, w, v, J) /\ e.associated = w.associated \ {v}
           /\ e.state = "ON" /\ Fit(w) /\ RocOK(w) => RocOK(e)
<1> DEFINE d == [w EXCEPT !.associated = @ \ {v}, !.state_sent = @ \ {v}]
           CrocMain(f) == IF v \in w.state_sent THEN {f} ELSE Croc(f, f.role[Main(v)])
           StayBusy(f) == IF v \in f.busy THEN StartDev(f, v) ELSE {f}
<1>1. PICK f \in Command(d) :
         IF Good(f) /\ v \in w.associated
         THEN e \in Then(CrocMain(f), LAMBDA g :
                    Then(CrocDev(g, v), LAMBDA h :
                    Always(Unjoin(h, v), LAMBDA i : StayBusy(i))))
         ELSE e = f
  BY Zenon DEF Disassociated, Then, Main
<1>2. /\ Keeps(d, w, J) /\ SameRoles(d, w) /\ SameLinks(d, w) /\ SameRoc(d, w) /\ Tidy(d, J)
      /\ d.associated = w.associated \ {v} /\ d.state_sent = w.state_sent \ {v}
      /\ d.ap_started = w.ap_started
  <2>1. /\ Stays(d, w) /\ SameRoles(d, w) /\ SameLinks(d, w) /\ SameRoc(d, w)
        /\ d.associated = w.associated \ {v} /\ d.state_sent = w.state_sent \ {v}
        /\ d.in_use = w.in_use /\ d.ap_started = w.ap_started /\ Watched \subseteq DOMAIN d
    BY Zenon DEF Tidy, Watched, Stays, SameRoles, SameLinks, SameRoc
  <2>2. /\ d.associated \subseteq Stas \cap J /\ d.state_sent \subseteq Stas \cap J
        /\ d.in_use \subseteq Stas \cap J /\ d.ap_started \subseteq Aps \cap J
    BY <2>1, Zenon DEF Tidy
  <2>3. QED
    BY <2>1, <2>2, Sets, Zenon DEF Keeps
<1> HIDE DEF d
<1>3. /\ Keeps(f, w, J) /\ SameRoles(f, w) /\ SameLinks(f, w) /\ SameRoc(f, w) /\ Tidy(f, J)
      /\ f.associated = w.associated \ {v} /\ f.state_sent = w.state_sent \ {v}
      /\ f.ap_started = w.ap_started /\ (f.state = "ON" => Good(f))
  <2>1. Plain(f, d, J)
    BY <1>2, Issued, Zenon
  <2>2. /\ Keeps(f, d, J) /\ SameRoles(f, d) /\ SameLinks(f, d) /\ SameRoc(f, d) /\ SameBss(f, d)
        /\ f.state = "ON" => Good(f)
    BY <2>1, Zenon DEF Plain, Still
  <2>3. Keeps(f, w, J) /\ SameRoles(f, w) /\ SameLinks(f, w) /\ SameRoc(f, w) /\ Tidy(f, J)
    BY <1>2, <2>2, Again, Zenon DEF Keeps
  <2>4. /\ f.associated = w.associated \ {v} /\ f.state_sent = w.state_sent \ {v}
        /\ f.ap_started = w.ap_started
    BY <1>2, <2>2, Zenon DEF SameBss
  <2>5. QED
    BY <2>2, <2>3, <2>4, Zenon
<1> USE <1>3
<1>4. \A u \in Vifs : /\ Dev(u) \in LinkSlots \ {Sta(v)} /\ Sta(u) \in LinkSlots
                      /\ u # v => Sta(u) # Sta(v)
  BY Zenon DEF Dev, Sta, LinkSlots, Vifs
<1> USE <1>4
<1>5. v \in Vifs /\ Stas \subseteq Vifs
  BY Zenon DEF Vifs
<1> USE <1>5
\* the state of the links, roles and ROCs when only the station's own link and
\* its ROCs are gone
<1>6. ASSUME NEW i, Keeps(i, w, J), SameRoles(i, w), i.associated = w.associated \ {v},
             i.state_sent = w.state_sent \ {v}, i.ap_started = w.ap_started,
             i.state = "ON", Fit(w), i.hlid[Sta(v)] = Invalid,
             \A s \in LinkSlots \ {Sta(v)} : i.hlid[s] = w.hlid[s], Whole(w) => Whole(i)
      PROVE  /\ StaDone(i, w, v, J)
             /\ /\ RocOK(w) /\ i.roc \subseteq w.roc
                /\ w.hlid[Sta(v)] # Invalid /\ v \notin w.state_sent =>
                     w.role[Main(v)] \notin i.roc
                => RocOK(i)
  <2> USE <1>6
  <2>1. ASSUME RocOK(w), i.roc \subseteq w.roc,
               w.hlid[Sta(v)] # Invalid /\ v \notin w.state_sent => w.role[Main(v)] \notin i.roc
        PROVE  RocOK(i)
    <3> USE <2>1
    <3>1. ASSUME NEW r \in i.roc PROVE r # Invalid /\ \E u \in Stas : RocOf(i, r, u)
      <4>1. PICK u \in Stas : RocOf(w, r, u)
        BY Zenon DEF RocOK
      <4>2. r # Invalid
        BY Zenon DEF RocOK
      <4>3. CASE r = w.role[Dev(u)] /\ w.hlid[Dev(u)] # Invalid
        BY <4>2, <4>3, Zenon DEF RocOf, SameRoles
      <4>4. CASE r = w.role[Main(u)] /\ w.hlid[Sta(u)] # Invalid /\ u \notin w.state_sent
        BY <3>1, <4>2, <4>4, Zenon DEF RocOf, SameRoles
      <4>5. QED
        BY <4>1, <4>3, <4>4, Zenon DEF RocOf
    <3>2. QED
      BY <3>1, Zenon DEF RocOK
  <2>2. RolesOK(i)
    BY RolesUnchanged, Zenon DEF Fit, SameRoles
  <2>3. DevOK(i)
    BY Zenon DEF Fit, DevOK, SameRoles
  <2>4. StaOK(i)
    BY Zenon DEF Fit, StaOK
  <2>5. StaStep(i, w, v)
    BY Zenon DEF StaStep, SameRoles
  <2>6. QED
    BY <2>1, <2>2, <2>3, <2>4, <2>5, Zenon DEF StaDone, Fit
<1>7. CASE ~(Good(f) /\ v \in w.associated)
  <2>1. e = f
    BY <1>1, <1>7, Zenon
  <2>2. CASE f.state = "ON" /\ Fit(w)
    BY <1>6, <1>7, <2>1, <2>2, WholeKept, Zenon DEF Fit, StaOK, SameLinks, SameRoc
  <2>3. CASE ~(f.state = "ON" /\ Fit(w))
    BY <2>1, <2>3, Zenon DEF StaDone
  <2>4. QED
    BY <2>2, <2>3, Zenon
<1>8. CASE Good(f) /\ v \in w.associated
  <2>1. PICK g \in CrocMain(f) :
           IF Good(g) THEN e \in Then(CrocDev(g, v), LAMBDA h :
                                 Always(Unjoin(h, v), LAMBDA i : StayBusy(i)))
           ELSE e = g
    BY <1>1, <1>8, Zenon DEF Then
  <2>2. /\ Keeps(g, f, J) /\ SameRoles(g, f) /\ SameLinks(g, f) /\ SameBss(g, f) /\ Tidy(g, J)
        /\ g.state = "ON" => /\ Good(g) /\ g.roc \subseteq f.roc
                             /\ v \notin w.state_sent => f.role[Main(v)] \notin g.roc
    <3>1. CASE v \in w.state_sent
      <4>1. Keeps(f, f, J) /\ Still(f, f)
        BY Again, Zenon
      <4>2. QED
        BY <1>8, <2>1, <3>1, <4>1, Zenon DEF Still
    <3>2. CASE v \notin w.state_sent
      <4>1. /\ Keeps(g, f, J) /\ SameRoles(g, f) /\ SameLinks(g, f) /\ SameBss(g, f)
            /\ g.state = "ON" => Good(g) /\ g.roc = f.roc \ {f.role[Main(v)]}
        BY <2>1, <3>2, Rocs, Zenon
      <4>2. QED
        BY <4>1, Zenon DEF Keeps
    <3>3. QED
      BY <3>1, <3>2, Zenon
  <2>3. /\ Keeps(g, w, J) /\ SameRoles(g, w) /\ SameLinks(g, w) /\ SameBss(g, f)
        /\ g.state = "ON" => /\ Good(g) /\ g.roc \subseteq w.roc
                             /\ v \notin w.state_sent => w.role[Main(v)] \notin g.roc
    BY <2>2, Again, Zenon DEF SameRoc, SameRoles
  <2>4. CASE ~Good(g)
    BY <2>1, <2>3, <2>4, Zenon DEF StaDone, SameBss
  <2>5. CASE Good(g)
    <3>1. PICK h \in CrocDev(g, v) :
             IF Good(h) THEN \E i \in Unjoin(h, v) : e \in StayBusy(i) ELSE e = h
      BY <2>1, <2>5 DEF Then, Always
    <3>2. /\ Keeps(h, g, J) /\ SameRoles(h, g) /\ SameLinks(h, g) /\ SameBss(h, g) /\ Tidy(h, J)
          /\ h.state = "ON" => Good(h) /\ h.roc \subseteq g.roc
      BY <2>2, <2>5, CrocsDev DEF Keeps
    <3>3. /\ Keeps(h, w, J) /\ SameRoles(h, w) /\ SameLinks(h, w) /\ SameBss(h, f)
          /\ h.state = "ON" => /\ Good(h) /\ h.roc \subseteq w.roc
                               /\ v \notin w.state_sent => w.role[Main(v)] \notin h.roc
      BY <2>3, <3>2, Again, StillOn, Zenon
    <3> USE <3>3
    <3>4. CASE ~Good(h)
      BY <3>1, <3>4, Zenon DEF StaDone, SameBss
    <3>5. CASE Good(h)
      <4>1. PICK i \in Unjoin(h, v) : e \in StayBusy(i)
        BY <3>1, <3>5, Zenon
      <4> USE <4>1
      <4> DEFINE c == ChangeFw(h)
      <4>2. Keeps(c, h, J) /\ Still(c, h) /\ Tidy(c, J)
        BY <3>2, Marks, Zenon DEF Keeps
      <4> USE <4>2
      <4>3. i \in RoleStop(c, Sta(v))
        BY Zenon DEF Unjoin, Sta
      <4> HIDE DEF c
      <4>4. /\ Keeps(i, c, J) /\ SameRoles(i, c) /\ SameRoc(i, c) /\ SameBss(i, c) /\ Tidy(i, J)
            /\ i.state = "ON" => IF c.hlid[Sta(v)] # Invalid THEN Unlinked(i, c, Sta(v))
                                 ELSE SameLinks(i, c)
        <5>1. LinkOf(Sta(v), J)
          BY DevSlots, Zenon
        <5>2. QED
          BY <4>3, <5>1, Stops, Zenon DEF Keeps
      <4> USE <4>4
      <4>5. Keeps(c, w, J) /\ SameRoles(c, w) /\ SameLinks(c, w) /\ SameBss(c, f) /\ SameRoc(c, h)
        BY Again, Zenon DEF Still
      <4> USE <4>5
      <4>6. /\ Keeps(i, w, J) /\ SameRoles(i, w) /\ SameBss(i, f) /\ SameRoc(i, h)
            /\ i.state = "ON" => h.state = "ON"
        BY StillOn, Again, Zenon
      <4> USE <4>6
      <4>7. i.state = "ON" => /\ i.hlid[Sta(v)] = Invalid
                              /\ \A s \in LinkSlots \ {Sta(v)} : i.hlid[s] = w.hlid[s]
                              /\ Whole(w) => Whole(i)
        <5>1. CASE i.state = "ON" /\ c.hlid[Sta(v)] # Invalid
          <6>1. Unlinked(i, c, Sta(v))
            BY <5>1, Zenon
          <6>2. /\ i.hlid[Sta(v)] = Invalid
                /\ \A s \in LinkSlots \ {Sta(v)} : i.hlid[s] = c.hlid[s]
            BY <6>1, LinkMoves, Zenon
          <6>3. Whole(c) => Whole(i)
            BY <6>1, WholeUnlinked, Zenon
          <6>4. QED
            BY <6>2, <6>3, WholeKept, Zenon DEF SameLinks
        <5>2. CASE i.state = "ON" /\ c.hlid[Sta(v)] = Invalid
          BY <5>2, WholeKept, Again, Zenon DEF SameLinks
        <5>3. QED
          BY <5>1, <5>2, ZenonT(30)
      <4>8. /\ i.associated = w.associated \ {v} /\ i.state_sent = w.state_sent \ {v}
            /\ i.ap_started = w.ap_started
        BY Zenon DEF SameBss
      <4> USE <4>8
      <4>9. /\ StaDone(i, w, v, J)
            /\ i.state = "ON" /\ Fit(w) /\ RocOK(w) => RocOK(i)
        <5>1. CASE i.state = "ON" /\ Fit(w)
          BY <1>6, <4>7, <5>1, Zenon DEF SameRoc
        <5>2. CASE ~(i.state = "ON" /\ Fit(w))
          BY <5>2, Zenon DEF StaDone
        <5>3. QED
          BY <5>1, <5>2, Zenon
      <4> USE <4>9
      <4>10. CASE v \notin i.busy
        BY <4>10, Zenon
      <4>11. CASE v \in i.busy
        <5>1. /\ Keeps(e, i, J) /\ SameBss(e, i)
              /\ e.state = "ON" /\ DevOK(i) => DevStep(e, i, v)
          BY <4>11, StartsDev, Zenon DEF DevStep, Still
        <5>2. i.state = "ON" /\ Fit(w) => DevOK(i)
          BY Zenon DEF StaDone, Fit
        <5>3. QED
          BY <5>1, <5>2, Done, StillOn, Zenon DEF SameBss
      <4>12. QED
        BY <4>10, <4>11, Zenon
    <3>6. QED
      BY <3>4, <3>5, Zenon
  <2>6. QED
    BY <2>4, <2>5, Zenon
<1>9. QED
  BY <1>7, <1>8, Zenon

\* wl1271_bss_info_changed_sta.
LEMMA InformsSta ==
    ASSUME Hard, NEW J, NEW w, Tidy(w, J), NEW v \in Stas \cap J,
           NEW changed, NEW ass, NEW up, NEW e \in BssInfoSta(w, v, changed, ass, up)
    PROVE  /\ StaDone(e, w, v, J)
           /\ e.associated \subseteq w.associated \cup (IF "ASSOC" \in changed THEN {v} \cap ass ELSE {})
           /\ "ASSOC" \in changed /\ v \notin ass => v \notin e.associated
           /\ /\ e.state = "ON" /\ Fit(w) /\ RocOK(w)
              /\ "ASSOC" \in changed /\ v \in ass => v \notin w.state_sent
              => RocOK(e)
<1>1. PICK d \in IF "IDLE" \in changed THEN HandleIdle(w, v) ELSE {w} :
         e \in IF "ASSOC" \notin changed THEN {d}
               ELSE IF v \in ass THEN Associated(d, v, up) ELSE Disassociated(d, v)
  BY Zenon DEF BssInfoSta, Always
<1> USE <1>1
<1>2. /\ StaDone(d, w, v, J) /\ d.associated = w.associated /\ d.state_sent = w.state_sent
      /\ d.state = "ON" /\ Fit(w) /\ RocOK(w) => RocOK(d)
  <2>1. CASE "IDLE" \in changed
    <3>1. /\ Keeps(d, w, J)
          /\ d.associated = w.associated /\ d.state_sent = w.state_sent
          /\ d.ap_started = w.ap_started
          /\ d.state = "ON" /\ DevOK(w) => DevStep(d, w, v)
      BY <2>1, Idles, Zenon
    <3> USE <3>1
    <3>2. ASSUME d.state = "ON", Fit(w)
          PROVE  Fit(d) /\ StaStep(d, w, v) /\ (Whole(w) => Whole(d)) /\ (RocOK(w) => RocOK(d))
      <4> USE <3>2
      <4>1. DevStep(d, w, v) /\ Stays(d, w)
        BY Zenon DEF Fit, Keeps
      <4>2. /\ RolesOK(d) /\ DevOK(d) /\ \A u \in Stas : d.hlid[Sta(u)] = w.hlid[Sta(u)]
            /\ RocOK(w) => RocOK(d)
        BY <4>1, DevMoves DEF Fit, Sta, LinkSlots, Vifs
      <4>3. QED
        BY <4>1, <4>2, StaSteps, WholeDevStep, Zenon DEF Fit, StaOK
    <3>3. QED
      BY <3>2, Zenon DEF StaDone
  <2>2. CASE "IDLE" \notin changed
    BY <2>2, StaSteps, Again, Zenon DEF StaDone, Still, Keeps
  <2>3. QED
    BY <2>1, <2>2, Zenon
<1>3. CASE "ASSOC" \notin changed
  BY <1>2, <1>3, ZenonT(30)
<1>4. CASE "ASSOC" \in changed
  <2>1. Tidy(d, J)
    BY <1>2, Zenon DEF StaDone, Keeps
  <2>2. ASSUME StaDone(e, d, v, J)
        PROVE  StaDone(e, w, v, J) /\ (e.state = "ON" => d.state = "ON")
               /\ (d.state = "ON" /\ Fit(w) => Fit(d))
    <3>1. StaDone(e, w, v, J)
      BY <1>2, <2>2, Done, Zenon
    <3>2. QED
      BY <1>2, <2>2, <3>1, StillOn, Zenon DEF StaDone
  <2>3. CASE v \in ass
    <3>1. e \in Associated(d, v, up)
      BY <1>4, <2>3, Zenon
    <3>2. /\ StaDone(e, d, v, J) /\ e.associated \subseteq d.associated \cup {v}
          /\ e.state = "ON" /\ Fit(d) /\ RocOK(d) /\ v \notin d.state_sent => RocOK(e)
      BY <2>1, <3>1, AssociatesSta, Zenon
    <3>3. QED
      BY <1>2, <1>4, <2>2, <2>3, <3>2, Zenon
  <2>4. CASE v \notin ass
    <3>1. e \in Disassociated(d, v)
      BY <1>4, <2>4, Zenon
    <3>2. /\ StaDone(e, d, v, J) /\ e.associated = d.associated \ {v}
          /\ e.state = "ON" /\ Fit(d) /\ RocOK(d) => RocOK(e)
      BY <2>1, <3>1, DisassociatesSta, Zenon
    <3>3. QED
      BY <1>2, <1>4, <2>2, <2>4, <3>2, Zenon
  <2>5. QED
    BY <2>3, <2>4, Zenon
<1>5. QED
  BY <1>3, <1>4, Zenon

-----------------------------------------------------------------------------
(* Access points.                                                          *)

Glob(v) == <<v, "global">>
Bcast(v) == <<v, "bcast">>

\* an AP has its two links exactly while it is started
ApOK(d) == \A v \in Aps : /\ d.hlid[Glob(v)] # Invalid <=> v \in d.ap_started
                          /\ d.hlid[Bcast(v)] # Invalid <=> v \in d.ap_started

\* An access point owns its slots for its role and its two links.
LEMMA ApSlots ==
    ASSUME NEW J, NEW v \in Aps \cap J
    PROVE  /\ LinkOf(Glob(v), J) /\ LinkOf(Bcast(v), J) /\ RoleOf(Main(v), J)
           /\ Glob(v) # Bcast(v) /\ v \in Vifs /\ v \notin Stas
BY ConstantsAssumption, Zenon DEF LinkOf, RoleOf, Glob, Bcast, Main, LinkSlots, RoleSlots, Vifs

\* only the two links of AP v change
ApLinks(e, w, v) == \A s \in LinkSlots \ {Glob(v), Bcast(v)} : e.hlid[s] = w.hlid[s]

\* A link of a slot is taken or given back, or the slot was empty: the rest stays.
LEMMA OneLink ==
    ASSUME NEW J, NEW w, Tidy(w, J), NEW s, LinkOf(s, J), NEW e,
           Linked(e, w, s) \/ Unlinked(e, w, s) \/ SameLinks(e, w)
    PROVE  /\ \A r \in LinkSlots \ {s} : e.hlid[r] = w.hlid[r]
           /\ Whole(w) => Whole(e)
           /\ Linked(e, w, s) => e.hlid[s] # Invalid
           /\ Unlinked(e, w, s) => e.hlid[s] = Invalid
           /\ SameLinks(e, w) => e.hlid[s] = w.hlid[s]
<1>1. s \in LinkSlots
  BY Zenon DEF LinkOf
<1> USE <1>1
<1>2. CASE Linked(e, w, s)
  BY <1>2, LinkMoves, WholeLinked DEF SameLinks
<1>3. CASE Unlinked(e, w, s)
  BY <1>3, LinkMoves, WholeUnlinked, Zenon DEF SameLinks
<1>4. CASE SameLinks(e, w) /\ ~Linked(e, w, s) /\ ~Unlinked(e, w, s)
  BY <1>4, WholeKept, Zenon DEF SameLinks
<1>5. QED
  BY <1>2, <1>3, <1>4, Zenon

\* wl12xx_cmd_role_start_ap takes both links or none.
LEMMA StartsAp ==
    ASSUME Hard, NEW J, NEW w, Tidy(w, J), NEW v \in Aps \cap J, NEW e \in RoleStartAp(w, v)
    PROVE  /\ Keeps(e, w, J) /\ SameRoles(e, w) /\ SameRoc(e, w) /\ SameBss(e, w)
           /\ e.state = "ON" /\ w.hlid[Glob(v)] = Invalid /\ w.hlid[Bcast(v)] = Invalid =>
                /\ ApLinks(e, w, v) /\ (Whole(w) => Whole(e))
                /\ e.hlid[Glob(v)] # Invalid <=> Good(e)
                /\ e.hlid[Bcast(v)] # Invalid <=> Good(e)
<1>1. PICK d \in Soft(w) :
         e \in Then(GetLink(d, Glob(v)), LAMBDA f :
               OnError(
                   Then(GetLink(f, Bcast(v)), LAMBDA g :
                   OnError(Send(g), LAMBDA h : {DropLink(h, Bcast(v))})),
                   LAMBDA g : {DropLink(g, Glob(v))}))
  BY Issued, Zenon DEF RoleStartAp, Then, Glob, Bcast
<1>2. Plain(d, w, J) /\ Tidy(d, J) /\ LinkOf(Glob(v), J) /\ LinkOf(Bcast(v), J) /\ Glob(v) # Bcast(v)
  BY ApSlots, Issued, Zenon DEF Plain, Keeps
<1> USE <1>2
<1>3. LinkOf(Glob(v), J) /\ LinkOf(Bcast(v), J)
  BY Zenon
<1> USE <1>3
<1>4. PICK f \in GetLink(d, Glob(v)) :
         IF Good(f)
         THEN e \in OnError(
                   Then(GetLink(f, Bcast(v)), LAMBDA g :
                   OnError(Send(g), LAMBDA h : {DropLink(h, Bcast(v))})),
                   LAMBDA g : {DropLink(g, Glob(v))})
         ELSE e = f
  BY <1>1, Zenon DEF Then
<1>5. /\ Keeps(f, d, J) /\ SameRoles(f, d) /\ SameRoc(f, d) /\ SameBss(f, d) /\ Tidy(f, J)
      /\ ~Good(f) => SameLinks(f, d)
      /\ Good(f) /\ d.hlid[Glob(v)] = Invalid => Linked(f, d, Glob(v))
  BY <1>4, GetsLink, Zenon DEF Keeps
<1> USE <1>5
<1>6. /\ Keeps(f, w, J) /\ SameRoles(f, w) /\ SameRoc(f, w) /\ SameBss(f, w)
      /\ d.hlid = w.hlid /\ (Whole(w) => Whole(d))
  BY Again, WholeKept, Zenon DEF Plain, Still, SameLinks
<1> USE <1>6
<1>7. CASE ~Good(f)
  BY <1>4, <1>7, WholeKept, Zenon DEF ApLinks, SameLinks
<1>8. CASE Good(f)
  <2>1. PICK g :
           /\ g \in Then(GetLink(f, Bcast(v)), LAMBDA h :
                         OnError(Send(h), LAMBDA i : {DropLink(i, Bcast(v))}))
           /\ IF Good(g) THEN e = g ELSE e = Err(DropLink(g, Glob(v)))
    BY <1>4, <1>8, Zenon DEF OnError
  <2>2. PICK h \in GetLink(f, Bcast(v)) :
           IF Good(h) THEN g \in OnError(Send(h), LAMBDA i : {DropLink(i, Bcast(v))}) ELSE g = h
    BY <2>1, Zenon DEF Then
  <2>3. /\ Keeps(h, f, J) /\ SameRoles(h, f) /\ SameRoc(h, f) /\ SameBss(h, f) /\ Tidy(h, J)
        /\ ~Good(h) => SameLinks(h, f)
        /\ Good(h) /\ f.hlid[Bcast(v)] = Invalid => Linked(h, f, Bcast(v))
    BY <2>2, GetsLink, Zenon DEF Keeps
  <2> USE <2>3
  <2>4. /\ Keeps(g, f, J) /\ SameRoles(g, f) /\ SameRoc(g, f) /\ SameBss(g, f) /\ Tidy(g, J)
        /\ g.state = "ON" => IF Good(h) THEN SameLinks(g, h) /\ Good(g) ELSE g = h
    <3>1. CASE ~Good(h)
      BY <2>2, <3>1, Zenon
    <3>2. CASE Good(h)
      <4>1. PICK i \in Send(h) : IF Good(i) THEN g = i ELSE g = Err(DropLink(i, Bcast(v)))
        BY <2>2, <3>2, Zenon DEF OnError
      <4> USE <4>1
      <4>2. Plain(i, h, J) /\ Tidy(i, J) /\ Still(i, h)
        BY Issued, Zenon DEF Plain, Keeps
      <4> USE <4>2
      <4>3. CASE Good(i)
        BY <3>2, <4>3, Again, Zenon DEF Plain, Still, Keeps
      <4>4. CASE ~Good(i)
        <5> DEFINE j == DropLink(i, Bcast(v))
        <5>1. j = DropLink(i, Bcast(v))
          BY Zenon
        <5> HIDE DEF j
        <5>2. /\ Keeps(j, i, J) /\ SameRoles(j, i) /\ SameRoc(j, i) /\ SameBss(j, i)
              /\ j.state = i.state /\ Tidy(j, J)
          BY <5>1, Unlinks DEF Keeps
        <5>3. /\ Keeps(g, j, J) /\ SameRoles(g, j) /\ SameRoc(g, j) /\ SameBss(g, j)
              /\ g.state = j.state
          BY <4>4, <5>2, Marks, Zenon DEF j, Still
        <5>4. QED
          BY <4>4, <5>2, <5>3, Again, Zenon DEF Keeps, Plain, Still
      <4>5. QED
        BY <4>3, <4>4, Zenon
    <3>3. QED
      BY <3>1, <3>2, Zenon
  <2> USE <2>4
  <2>5. Keeps(g, w, J) /\ SameRoles(g, w) /\ SameRoc(g, w) /\ SameBss(g, w)
    BY Again, Zenon
  \* the links when both are free before
  <2>6. ASSUME g.state = "ON", w.hlid[Glob(v)] = Invalid, w.hlid[Bcast(v)] = Invalid
        PROVE  /\ ApLinks(g, w, v) /\ (Whole(w) => Whole(g))
               /\ g.hlid[Glob(v)] # Invalid
               /\ g.hlid[Bcast(v)] # Invalid <=> Good(g)
    <3> USE <2>6
    <3>1. /\ \A r \in LinkSlots \ {Glob(v)} : f.hlid[r] = d.hlid[r]
          /\ Whole(d) => Whole(f)
          /\ f.hlid[Glob(v)] # Invalid
      BY <1>8, OneLink
    <3> USE <3>1
    <3>2. Glob(v) \in LinkSlots /\ Bcast(v) \in LinkSlots
      BY Zenon DEF LinkOf
    <3>3. f.hlid[Bcast(v)] = Invalid
      BY <3>2, Zenon
    <3>4. CASE Good(h)
      <4>1. /\ \A r \in LinkSlots \ {Bcast(v)} : h.hlid[r] = f.hlid[r]
            /\ Whole(f) => Whole(h)
            /\ h.hlid[Bcast(v)] # Invalid
        BY <3>3, <3>4, OneLink
      <4>2. SameLinks(g, h) /\ Good(g)
        BY <3>4, Zenon
      <4>3. QED
        BY <3>2, <4>1, <4>2, WholeKept, Zenon DEF ApLinks, SameLinks
    <3>5. CASE ~Good(h)
      BY <3>3, <3>5, WholeKept, Zenon DEF ApLinks, SameLinks
    <3>6. QED
      BY <3>4, <3>5, Zenon
  <2>7. IF Good(g) THEN e = g ELSE e = Err(DropLink(g, Glob(v)))
    BY <2>1, Zenon
  <2>8. CASE Good(g)
    BY <2>5, <2>6, <2>8, <2>7, Zenon
  <2>9. CASE ~Good(g)
    <3> DEFINE j == DropLink(g, Glob(v))
    <3>1. j = DropLink(g, Glob(v)) /\ Tidy(g, J) /\ (IF Good(g) THEN e = g ELSE e = Err(j))
      BY <2>7, Zenon
    <3> USE <3>1
    <3> HIDE DEF j
    <3>2. /\ Keeps(j, g, J) /\ SameRoles(j, g) /\ SameRoc(j, g) /\ SameBss(j, g)
          /\ j.state = g.state /\ Tidy(j, J)
          /\ IF g.hlid[Glob(v)] = Invalid THEN j = g ELSE Unlinked(j, g, Glob(v))
      BY Unlinks DEF Keeps
    <3> USE <3>2
    <3>3. /\ Keeps(e, j, J) /\ SameRoles(e, j) /\ SameRoc(e, j) /\ SameBss(e, j) /\ SameLinks(e, j)
          /\ e.state = j.state /\ ~Good(e)
      <4>1. e = Err(j)
        BY <2>9, Zenon
      <4>2. QED
        BY <4>1, Marks, Zenon DEF Still
    <3> USE <3>3
    <3>4. ASSUME e.state = "ON", w.hlid[Glob(v)] = Invalid, w.hlid[Bcast(v)] = Invalid
          PROVE  /\ ApLinks(e, w, v) /\ (Whole(w) => Whole(e))
                 /\ e.hlid[Glob(v)] = Invalid /\ e.hlid[Bcast(v)] = Invalid
      <4>1. /\ ApLinks(g, w, v) /\ (Whole(w) => Whole(g)) /\ g.hlid[Glob(v)] # Invalid
            /\ g.hlid[Bcast(v)] = Invalid
        BY <2>6, <2>9, <3>4, Zenon
      <4>2. e.hlid = j.hlid /\ (Whole(j) => Whole(e))
        BY WholeKept, Zenon DEF SameLinks
      <4>3. Unlinked(j, g, Glob(v))
        BY <4>1, Zenon
      <4>4. /\ \A r \in LinkSlots \ {Glob(v)} : j.hlid[r] = g.hlid[r]
            /\ j.hlid[Glob(v)] = Invalid /\ (Whole(g) => Whole(j))
        BY <4>3, OneLink
      <4>5. Bcast(v) \in LinkSlots \ {Glob(v)}
        BY Zenon DEF LinkOf
      <4>6. QED
        BY <4>1, <4>2, <4>4, <4>5, Zenon DEF ApLinks
    <3>5. QED
      BY <2>5, <3>4, Again
  <2>10. QED
    BY <2>8, <2>9, Zenon
<1>9. QED
  BY <1>7, <1>8, Zenon

\* wl12xx_cmd_role_stop_ap gives both links back.
LEMMA StopsAp ==
    ASSUME Hard, NEW J, NEW w, Tidy(w, J), NEW v \in Aps \cap J, NEW e \in RoleStopAp(w, v)
    PROVE  /\ Keeps(e, w, J) /\ SameRoles(e, w) /\ SameRoc(e, w) /\ SameBss(e, w)
           /\ e.state = "ON" =>
                /\ Good(e) /\ ApLinks(e, w, v) /\ (Whole(w) => Whole(e))
                /\ e.hlid[Glob(v)] = Invalid /\ e.hlid[Bcast(v)] = Invalid
<1>1. PICK d \in Command(w) :
         e = IF Good(d) THEN DropLink(DropLink(d, Bcast(v)), Glob(v)) ELSE d
  BY Zenon DEF RoleStopAp, Then, Glob, Bcast
<1>2. Plain(d, w, J) /\ Tidy(d, J) /\ LinkOf(Glob(v), J) /\ LinkOf(Bcast(v), J) /\ Glob(v) # Bcast(v)
  BY ApSlots, Issued, Zenon DEF Plain, Keeps
<1> USE <1>2
<1>3. CASE ~Good(d)
  BY <1>1, <1>3, ZenonT(30) DEF Plain, Still
<1>4. CASE Good(d)
  <2> DEFINE f == DropLink(d, Bcast(v))
  <2>1. /\ Keeps(f, d, J) /\ SameRoles(f, d) /\ SameRoc(f, d) /\ SameBss(f, d)
        /\ f.ret = d.ret /\ Tidy(f, J)
        /\ IF d.hlid[Bcast(v)] = Invalid THEN f = d ELSE Unlinked(f, d, Bcast(v))
    BY Unlinks DEF Keeps
  <2> USE <2>1
  <2>2. e = DropLink(f, Glob(v))
    BY <1>1, <1>4, Zenon
  <2> HIDE DEF f
  <2>3. /\ Keeps(e, f, J) /\ SameRoles(e, f) /\ SameRoc(e, f) /\ SameBss(e, f)
        /\ e.ret = f.ret
        /\ IF f.hlid[Glob(v)] = Invalid THEN e = f ELSE Unlinked(e, f, Glob(v))
    BY <2>2, Unlinks
  <2>4. Keeps(e, w, J) /\ SameRoles(e, w) /\ SameRoc(e, w) /\ SameBss(e, w) /\ Good(e)
    BY <1>4, <2>3, Again, Zenon DEF Good, Plain, Still
  <2>5. d.hlid = w.hlid /\ (Whole(w) => Whole(d)) /\ Glob(v) \in LinkSlots /\ Bcast(v) \in LinkSlots
    BY WholeKept, Zenon DEF Plain, Still, SameLinks, LinkOf
  <2>6. /\ \A s \in LinkSlots \ {Bcast(v)} : f.hlid[s] = d.hlid[s]
        /\ Whole(d) => Whole(f)
        /\ f.hlid[Bcast(v)] = Invalid
    <3>1. Unlinked(f, d, Bcast(v)) \/ (SameLinks(f, d) /\ d.hlid[Bcast(v)] = Invalid)
      BY Zenon DEF SameLinks
    <3>2. QED
      BY <3>1, OneLink
  <2>7. /\ \A s \in LinkSlots \ {Glob(v)} : e.hlid[s] = f.hlid[s]
        /\ Whole(f) => Whole(e)
        /\ e.hlid[Glob(v)] = Invalid
    <3>1. Unlinked(e, f, Glob(v)) \/ (SameLinks(e, f) /\ f.hlid[Glob(v)] = Invalid)
      BY <2>3, Zenon DEF SameLinks
    <3>2. QED
      BY <3>1, OneLink
  <2>8. ApLinks(e, w, v) /\ (Whole(w) => Whole(e)) /\ e.hlid[Bcast(v)] = Invalid
    BY <2>5, <2>6, <2>7, Zenon DEF ApLinks
  <2>9. QED
    BY <2>4, <2>7, <2>8, Zenon
<1>5. QED
  BY <1>3, <1>4, Zenon

\* what the handlers of an AP leave
ApDone(e, w, v, J) ==
    /\ Keeps(e, w, J) /\ SameRoles(e, w) /\ SameRoc(e, w)
    /\ e.associated = w.associated /\ e.state_sent = w.state_sent
    /\ e.state = "ON" /\ ApOK(w) =>
         /\ ApOK(e) /\ ApLinks(e, w, v) /\ (Whole(w) => Whole(e))
         /\ v \in e.ap_started \ w.ap_started => ~SwitchesToMr(w)

\* wl1271_bss_info_changed_ap.
LEMMA InformsAp ==
    ASSUME Hard, NEW J, NEW w, Tidy(w, J), NEW v \in Aps \cap J, NEW beaconing,
           NEW e \in BssInfoAp(w, v, beaconing)
    PROVE  /\ ApDone(e, w, v, J)
           /\ e.ap_started \subseteq w.ap_started \cup ({v} \cap beaconing)
           /\ e.state = "ON" /\ v \notin beaconing => v \notin e.ap_started
\* the flag says whether both links are taken
<1>1. ASSUME NEW d, Keeps(d, w, J), SameRoles(d, w), SameRoc(d, w), SameBss(d, w),
             NEW f, Watched \subseteq DOMAIN f, Stays(f, d), SameRoles(f, d), SameLinks(f, d),
             SameRoc(f, d), f.associated = d.associated, f.state_sent = d.state_sent,
             f.in_use = d.in_use, f.state = d.state,
             f.ap_started \subseteq w.ap_started \cup {v}, w.ap_started \subseteq f.ap_started \cup {v},
             f.state = "ON" /\ ApOK(w) =>
               /\ ApLinks(d, w, v) /\ (Whole(w) => Whole(d))
               /\ d.hlid[Glob(v)] # Invalid <=> v \in f.ap_started
               /\ d.hlid[Bcast(v)] # Invalid <=> v \in f.ap_started
               /\ v \in f.ap_started => ~SwitchesToMr(w)
      PROVE  ApDone(f, w, v, J)
  <2> USE <1>1
  <2>1. /\ f.associated \subseteq Stas \cap J /\ f.state_sent \subseteq Stas \cap J
        /\ f.in_use \subseteq Stas \cap J /\ f.ap_started \subseteq Aps \cap J
    BY Zenon DEF Keeps, Tidy
  <2>2. f.hlid = d.hlid /\ (Whole(d) => Whole(f))
    BY WholeKept, Zenon DEF SameLinks
  <2> USE <2>2
  <2>3. ASSUME f.state = "ON", ApOK(w) PROVE ApOK(f)
    <3> SUFFICES ASSUME NEW u \in Aps
                 PROVE  /\ f.hlid[Glob(u)] # Invalid <=> u \in f.ap_started
                        /\ f.hlid[Bcast(u)] # Invalid <=> u \in f.ap_started
      BY Zenon DEF ApOK
    <3>1. CASE u = v
      BY <2>3, <3>1, Zenon
    <3>2. CASE u # v
      BY <2>3, <3>2, Zenon DEF ApOK, ApLinks, Glob, Bcast, LinkSlots, Vifs
    <3>3. QED
      BY <3>1, <3>2, Zenon
  <2>4. QED
    BY <2>1, <2>3, Again, Sets, Zenon DEF ApDone, ApLinks, SameBss, Keeps
\* nothing changes
<1>2. ASSUME NEW d, Keeps(d, w, J), Still(d, w) PROVE ApDone(d, w, v, J) /\ d.ap_started = w.ap_started
  BY <1>2, WholeKept, Zenon DEF ApDone, Still, ApOK, ApLinks, SameLinks, SameBss
<1>3. CASE v \in beaconing
  <2> USE <1>3
  <2>1. PICK c \in Command(w) :
           IF ~Good(c) \/ v \in c.ap_started THEN e = c
           ELSE IF SwitchesToMr(c) THEN e = ChangeFw(c)
           ELSE e \in Then(RoleStartAp(ChangeFw(c), v), LAMBDA f :
                      Then(Command(f), LAMBDA g : {[g EXCEPT !.ap_started = @ \cup {v}]}))
    BY Zenon DEF BssInfoAp, Then
  <2>2. Keeps(c, w, J) /\ Still(c, w) /\ Tidy(c, J) /\ Stays(c, w)
    BY Issued, Zenon DEF Plain, Keeps
  <2> USE <2>2
  <2> DEFINE h == ChangeFw(c)
  <2>3. Keeps(h, w, J) /\ Still(h, w) /\ Tidy(h, J)
    <3>1. Keeps(h, c, J) /\ Still(h, c)
      BY Marks, Zenon
    <3> HIDE DEF h
    <3>2. QED
      BY <3>1, Again, Zenon DEF Still, Keeps
  <2> USE <2>3
  <2>4. CASE ~Good(c) \/ v \in c.ap_started
    BY <1>2, <2>1, <2>4, Zenon
  <2>5. CASE Good(c) /\ v \notin c.ap_started /\ SwitchesToMr(c)
    BY <1>2, <2>1, <2>5, Zenon
  <2>6. CASE Good(c) /\ v \notin c.ap_started /\ ~SwitchesToMr(c)
    <3>1. e \in Then(RoleStartAp(h, v), LAMBDA f :
                Then(Command(f), LAMBDA g : {[g EXCEPT !.ap_started = @ \cup {v}]}))
      BY <2>1, <2>6, Zenon
    <3> HIDE DEF h
    <3>2. PICK f \in RoleStartAp(h, v) :
             IF Good(f) THEN e \in Then(Command(f), LAMBDA g : {[g EXCEPT !.ap_started = @ \cup {v}]})
             ELSE e = f
      BY <3>1, Zenon DEF Then
    <3> USE <3>2
    <3>3. /\ ~SwitchesToMr(w) /\ v \notin w.ap_started
          /\ h.hlid = w.hlid /\ h.ap_started = w.ap_started /\ (Whole(w) => Whole(h))
      BY <2>6, Wanted, WholeKept, Zenon DEF Still, SameBss, SameLinks
    <3>4. /\ Keeps(f, h, J) /\ SameRoles(f, h) /\ SameRoc(f, h) /\ SameBss(f, h) /\ Tidy(f, J)
          /\ f.state = "ON" /\ h.hlid[Glob(v)] = Invalid /\ h.hlid[Bcast(v)] = Invalid =>
                /\ ApLinks(f, h, v) /\ (Whole(h) => Whole(f))
                /\ f.hlid[Glob(v)] # Invalid <=> Good(f)
                /\ f.hlid[Bcast(v)] # Invalid <=> Good(f)
      BY StartsAp, ZenonT(30) DEF Keeps
    <3>5. /\ Keeps(f, w, J) /\ SameRoles(f, w) /\ SameRoc(f, w) /\ SameBss(f, w)
          /\ f.state = "ON" /\ ApOK(w) =>
                /\ ApLinks(f, w, v) /\ (Whole(w) => Whole(f))
                /\ f.hlid[Glob(v)] # Invalid <=> Good(f)
                /\ f.hlid[Bcast(v)] # Invalid <=> Good(f)
      BY <3>3, <3>4, Again, Zenon DEF ApLinks, Still, ApOK
    <3>6. PICK g : /\ Keeps(g, w, J) /\ SameRoles(g, w) /\ SameRoc(g, w) /\ SameBss(g, w)
                   /\ g.state = "ON" /\ ApOK(w) =>
                        /\ ApLinks(g, w, v) /\ (Whole(w) => Whole(g))
                        /\ g.hlid[Glob(v)] # Invalid <=> Good(g)
                        /\ g.hlid[Bcast(v)] # Invalid <=> Good(g)
                   /\ e = IF Good(g) THEN [g EXCEPT !.ap_started = @ \cup {v}] ELSE g
      <4>1. CASE ~Good(f)
        BY <3>5, <4>1, Zenon
      <4>2. CASE Good(f)
        <5>1. PICK g \in Command(f) : e = IF Good(g) THEN [g EXCEPT !.ap_started = @ \cup {v}] ELSE g
          BY <4>2, Zenon DEF Then
        <5>2. Keeps(g, f, J) /\ Still(g, f) /\ (g.state = "ON" => Good(g))
          BY <3>4, Issued, Zenon DEF Plain
        <5>3. g.hlid = f.hlid /\ (Whole(f) => Whole(g))
          BY <5>2, WholeKept, Zenon DEF Still, SameLinks
        <5>4. QED
          BY <3>5, <4>2, <5>1, <5>2, <5>3, Again, Zenon DEF ApLinks, Still
      <4>3. QED
        BY <4>1, <4>2, Zenon
    <3> USE <3>6
    <3>7. g.ap_started = w.ap_started
      BY Zenon DEF SameBss
    <3>8. CASE Good(g)
      BY <1>1, <3>3, <3>7, <3>8, Zenon
      DEF Keeps, Tidy, Watched, Stays, SameRoles, SameLinks, SameRoc
    <3>9. CASE ~Good(g)
      BY <1>1, <3>3, <3>7, <3>9, Zenon DEF Keeps, Tidy, Stays, SameRoles, SameLinks, SameRoc
    <3>10. QED
      BY <3>8, <3>9, Zenon
  <2>7. QED
    BY <2>4, <2>5, <2>6, Zenon
<1>4. CASE v \notin beaconing /\ v \notin w.ap_started
  BY <1>2, <1>4, Again, Zenon DEF BssInfoAp
<1>5. CASE v \notin beaconing /\ v \in w.ap_started
  <2> USE <1>5
  <2> DEFINE h == ChangeFw(w)
  <2>1. Keeps(h, w, J) /\ Still(h, w) /\ Tidy(h, J)
    BY Marks, Zenon DEF Keeps
  <2>2. PICK d \in RoleStopAp(h, v) : e = IF Good(d) THEN [d EXCEPT !.ap_started = @ \ {v}] ELSE d
    BY Zenon DEF BssInfoAp, Then
  <2> USE <2>2
  <2> HIDE DEF h
  <2>3. /\ Keeps(d, h, J) /\ SameRoles(d, h) /\ SameRoc(d, h) /\ SameBss(d, h)
        /\ d.state = "ON" =>
                /\ Good(d) /\ ApLinks(d, h, v) /\ (Whole(h) => Whole(d))
                /\ d.hlid[Glob(v)] = Invalid /\ d.hlid[Bcast(v)] = Invalid
    BY <2>1, StopsAp, Zenon
  <2> USE <2>3
  <2>4. /\ Keeps(d, w, J) /\ SameRoles(d, w) /\ SameRoc(d, w) /\ SameBss(d, w)
        /\ h.hlid = w.hlid /\ (Whole(w) => Whole(h))
    BY <2>1, Again, WholeKept, Zenon DEF Still, SameLinks
  <2>5. CASE ~Good(d)
    BY <2>4, <2>5, Zenon DEF ApDone, SameBss
  <2>6. CASE Good(d)
    BY <1>1, <2>4, <2>6
    DEF ApLinks, Keeps, Tidy, Watched, Stays, SameRoles, SameLinks, SameRoc, SameBss
  <2>7. QED
    BY <2>5, <2>6, Zenon
<1>6. QED
  BY <1>3, <1>4, <1>5, Zenon

-----------------------------------------------------------------------------
(* Handlers that add and remove no interface.                              *)

\* an interface has its own role exactly while it is initialised
Mains(d) == \A v \in Vifs : d.role[Main(v)] # Invalid <=> v \in d.inited

\* what holds of the driver while the firmware runs
Ready(d) == Fit(d) /\ ApOK(d) /\ Mains(d)

\* the roles the firmware serves
Started(d) == d.ap_started \cup {v \in Stas : d.hlid[Sta(v)] # Invalid}

\* what a handler that was called in state w leaves: the driver is ready when the
\* firmware is still ON, no link is lost, and another role was started only if
\* the firmware is not to be switched
Serves(e, w) ==
    /\ Keeps(e, w, w.inited)
    /\ w.state = "OFF" => Still(e, w)
    /\ e.state = "ON" /\ Ready(w) =>
         /\ Ready(e) /\ (Whole(w) => Whole(e))
         /\ Started(e) \subseteq Started(w) \/ ~SwitchesToMr(w)

\* Who leaves roles, links and states alone serves the interfaces as before.
LEMMA ServesStill ==
    ASSUME NEW w, Tidy(w, w.inited), NEW e, Keeps(e, w, w.inited), Still(e, w)
    PROVE  Serves(e, w) /\ (RocOK(w) => RocOK(e))
<1>1. e.role = w.role /\ e.hlid = w.hlid /\ e.roles = w.roles /\ e.roc = w.roc /\ e.inited = w.inited
  BY Zenon DEF Still, SameRoles, SameLinks, SameRoc, Keeps, Stays
<1>2. e.associated = w.associated /\ e.state_sent = w.state_sent /\ e.ap_started = w.ap_started
  BY Zenon DEF Still, SameBss
<1>3. RocOK(w) => RocOK(e)
  BY <1>1, <1>2 DEF RocOK, RocOf
<1>4. Ready(w) => Ready(e)
  BY <1>1, <1>2, FitKept, Zenon DEF Ready, ApOK, Mains
<1>5. (Whole(w) => Whole(e)) /\ Started(e) = Started(w)
  BY <1>1, <1>2, WholeKept, Zenon DEF Still, Started
<1>6. QED
  BY <1>3, <1>4, <1>5, Zenon DEF Serves

\* Serving the interfaces adds up.
LEMMA ServesAgain ==
    ASSUME NEW w, NEW e, NEW f, Serves(e, w), Serves(f, e)
    PROVE  Serves(f, w)
<1>1. e.inited = w.inited /\ Stays(e, w)
  BY Zenon DEF Serves, Keeps, Stays
<1>2. w.state = "OFF" => Still(f, w)
  BY <1>1, Again, Zenon DEF Serves, Still, Stays
<1>3. QED
  BY <1>1, <1>2, Again, Wanted, Zenon DEF Serves

\* The handlers of a station interface.
LEMMA ServesSta ==
    ASSUME NEW w, w.state # "OFF", NEW v \in Stas, NEW e, StaDone(e, w, v, w.inited)
    PROVE  Serves(e, w)
<1>1. Keeps(e, w, w.inited) /\ e.inited = w.inited /\ e.ap_started = w.ap_started
  BY Zenon DEF StaDone, Keeps, Stays
<1>2. ASSUME e.state = "ON", Ready(w)
      PROVE  /\ Ready(e) /\ (Whole(w) => Whole(e))
             /\ Started(e) \subseteq Started(w) \/ ~SwitchesToMr(w)
  BY <1>1, <1>2, Zenon
  DEF Ready, ApOK, StaStep, Mains, Started, StaDone, Glob, Bcast, Sta, LinkSlots, Vifs
<1>3. QED
  BY <1>1, <1>2, Zenon DEF Serves

\* The handlers of an AP.
LEMMA ServesAp ==
    ASSUME NEW w, w.state # "OFF", NEW v \in Aps, NEW e, ApDone(e, w, v, w.inited)
    PROVE  Serves(e, w) /\ (e.state = "ON" /\ Ready(w) /\ RocOK(w) => RocOK(e))
<1>1. /\ Keeps(e, w, w.inited) /\ e.inited = w.inited
      /\ e.role = w.role /\ e.roles = w.roles /\ e.roc = w.roc
      /\ e.associated = w.associated /\ e.state_sent = w.state_sent
  BY ZenonT(30) DEF ApDone, Keeps, Stays, SameRoles, SameRoc
<1> USE <1>1
<1>2. ASSUME e.state = "ON", Ready(w)
      PROVE  /\ Ready(e) /\ (Whole(w) => Whole(e)) /\ (RocOK(w) => RocOK(e))
             /\ Started(e) \subseteq Started(w) \/ ~SwitchesToMr(w)
  <2> USE <1>2
  <2>1. /\ ApOK(e) /\ ApLinks(e, w, v) /\ (Whole(w) => Whole(e))
        /\ v \in e.ap_started \ w.ap_started => ~SwitchesToMr(w)
    BY Zenon DEF ApDone, Ready
  <2> USE <2>1
  <2>2. /\ \A u \in Vifs : /\ Dev(u) \in LinkSlots \ {Glob(v), Bcast(v)}
                           /\ Sta(u) \in LinkSlots \ {Glob(v), Bcast(v)}
        /\ \A u \in Aps : u # v => Glob(u) \in LinkSlots \ {Glob(v), Bcast(v)}
        /\ Stas \subseteq Vifs
    BY Zenon DEF Glob, Bcast, Dev, Sta, LinkSlots, Vifs
  <2> USE <2>2
  <2>3. \A u \in Vifs : e.hlid[Dev(u)] = w.hlid[Dev(u)] /\ e.hlid[Sta(u)] = w.hlid[Sta(u)]
    BY ZenonT(30) DEF ApLinks
  <2>4. Started(e) \subseteq Started(w) \/ ~SwitchesToMr(w)
    BY <2>3 DEF Started, Ready, ApOK, ApLinks, Keeps, Tidy
  <2>5. RolesOK(e) /\ Mains(e)
    BY RolesUnchanged, Zenon DEF Ready, Fit, Mains
  <2>6. DevOK(e)
    BY <2>3, Zenon DEF Ready, Fit, DevOK
  <2>7. StaOK(e)
    BY <2>3, Zenon DEF Ready, Fit, StaOK
  <2>8. RocOK(w) => RocOK(e)
    BY <2>3, RocUnchanged, Zenon
  <2>9. QED
    BY <2>4, <2>5, <2>6, <2>7, <2>8, Zenon DEF Ready, Fit
<1>3. QED
  BY <1>2, Zenon DEF Serves

\* wl1271_op_bss_info_changed.
LEMMA Informs ==
    ASSUME Hard, NEW w, Tidy(w, w.inited), w.inited \subseteq Vifs, NEW v \in Vifs, NEW changed,
           NEW ass, NEW up, NEW beaconing, NEW e \in OpBssInfo(w, v, changed, ass, up, beaconing)
    PROVE  /\ Serves(e, w)
           /\ e.associated \subseteq w.associated \cup (IF "ASSOC" \in changed THEN {v} \cap ass ELSE {})
           /\ e.ap_started \subseteq w.ap_started \cup ({v} \cap beaconing)
           /\ e.state = "ON" =>
                /\ "ASSOC" \in changed /\ v \in Stas \ ass => v \notin e.associated
                /\ v \in Aps \ beaconing => v \notin e.ap_started
           /\ /\ e.state = "ON" /\ Ready(w) /\ RocOK(w)
              /\ "ASSOC" \in changed /\ v \in ass => v \notin w.state_sent
              => RocOK(e)
<1>1. Stas \cap Aps = {} /\ Vifs = Stas \cup Aps
  BY ConstantsAssumption, Zenon DEF Vifs
<1> USE <1>1
<1>2. CASE w.state # "ON" \/ v \notin w.inited
  <2>1. v \notin w.inited => v \notin w.associated /\ v \notin w.ap_started
    BY Zenon DEF Tidy
  <2>2. QED
    BY <1>2, <2>1, ServesStill, Again, Zenon DEF OpBssInfo
<1>3. CASE w.state = "ON" /\ v \in w.inited
  <2> USE <1>3
  <2>1. PICK d \in Wakeup(w) :
           IF Good(d)
           THEN e \in IF v \in Aps THEN BssInfoAp(d, v, beaconing)
                      ELSE BssInfoSta(d, v, changed, ass, up)
           ELSE e = d
    BY Zenon DEF OpBssInfo, Then
  <2> USE <2>1
  <2>2. Plain(d, w, w.inited) /\ Keeps(d, w, w.inited) /\ Still(d, w)
    BY Issued, Zenon DEF Plain
  <2>3. /\ Serves(d, w) /\ (RocOK(w) => RocOK(d)) /\ Tidy(d, d.inited) /\ d.inited = w.inited
        /\ d.associated = w.associated /\ d.state_sent = w.state_sent /\ d.ap_started = w.ap_started
        /\ d.state # "OFF"
    BY <2>2, ServesStill, Zenon DEF Keeps, Stays, Still, SameBss
  <2> USE <2>3
  <2>4. CASE ~Good(d)
    BY <2>2, <2>4, Zenon DEF Plain
  <2>5. CASE Good(d) /\ v \in Aps
    <3>1. /\ ApDone(e, d, v, d.inited)
          /\ e.ap_started \subseteq d.ap_started \cup ({v} \cap beaconing)
          /\ e.state = "ON" /\ v \notin beaconing => v \notin e.ap_started
      BY <2>5, InformsAp
    <3>2. QED
      BY <2>5, <3>1, ServesAgain, ServesAp, StillOn, Zenon DEF ApDone, Serves
  <2>6. CASE Good(d) /\ v \notin Aps
    <3>1. /\ StaDone(e, d, v, d.inited)
          /\ e.associated \subseteq d.associated \cup (IF "ASSOC" \in changed THEN {v} \cap ass ELSE {})
          /\ "ASSOC" \in changed /\ v \notin ass => v \notin e.associated
          /\ /\ e.state = "ON" /\ Fit(d) /\ RocOK(d)
             /\ "ASSOC" \in changed /\ v \in ass => v \notin d.state_sent
             => RocOK(e)
      BY <2>6, InformsSta
    <3>2. QED
      BY <2>6, <3>1, ServesAgain, ServesSta, StillOn, ZenonT(30) DEF StaDone, Serves, Ready
  <2>7. QED
    BY <2>4, <2>5, <2>6, Zenon
<1>4. QED
  BY <1>2, <1>3, Zenon

\* A client gets the free link l of its AP a.
LEMMA WholeTaken ==
    ASSUME NEW w, Whole(w), NEW a \in Vifs, NEW l \in Hlids \ w.links, NEW e,
           e.links = w.links \cup {l}, e.hlid = w.hlid,
           e.map = [w.map EXCEPT ![a] = @ \cup {l}], e.sta_map = [w.sta_map EXCEPT ![a] = @ \cup {l}]
    PROVE  Whole(e)
<1>1. Owned(w) /\ l # Invalid
  BY Ids, Zenon DEF Whole
<1> USE <1>1
<1>2. /\ \A v \in Vifs : /\ e.map[v] = IF v = a THEN w.map[a] \cup {l} ELSE w.map[v]
                         /\ e.sta_map[v] = IF v = a THEN w.sta_map[a] \cup {l} ELSE w.sta_map[v]
      /\ e.map \in [Vifs -> SUBSET Hlids] /\ e.sta_map \in [Vifs -> SUBSET Hlids]
  BY DEF Owned
<1> USE <1>2
<1>3. \A v \in Vifs : l \notin w.map[v] /\ l \notin w.sta_map[v] /\ l # SystemHlid
  BY Zenon DEF Owned
<1>4. Owned(e)
  <2>1. \A v \in Vifs : e.map[v] \subseteq e.links \ {SystemHlid} /\ e.sta_map[v] \subseteq e.map[v]
    BY <1>3 DEF Owned
  <2>2. QED
    BY <1>3, <2>1 DEF Owned, LinkSlots
<1>5. QED
  BY <1>4 DEF Whole

\* ... and gives it back.
LEMMA WholeGiven ==
    ASSUME NEW w, Whole(w), NEW a \in Vifs, NEW l \in w.sta_map[a], NEW e,
           e.links = w.links \ {l}, e.hlid = w.hlid,
           e.map = [w.map EXCEPT ![a] = @ \ {l}], e.sta_map = [w.sta_map EXCEPT ![a] = @ \ {l}]
    PROVE  Whole(e)
<1>1. Owned(w) /\ l \in w.map[a]
  BY Zenon DEF Whole, Owned
<1> USE <1>1
<1>2. /\ \A v \in Vifs : /\ e.map[v] = IF v = a THEN w.map[a] \ {l} ELSE w.map[v]
                         /\ e.sta_map[v] = IF v = a THEN w.sta_map[a] \ {l} ELSE w.sta_map[v]
      /\ e.map \in [Vifs -> SUBSET Hlids] /\ e.sta_map \in [Vifs -> SUBSET Hlids]
  BY DEF Owned
<1> USE <1>2
<1>3. Owned(e)
  <2>1. \A u, v \in Vifs : u # v => e.map[u] \cap e.map[v] = {}
    BY Zenon DEF Owned
  <2>2. QED
    BY <2>1 DEF Owned, LinkSlots
<1>4. QED
  BY <1>3 DEF Whole

\* what the handlers of a client leave; one that is a stray changes the links of
\* an interface that is not initialised
ClientDone(e, w, c) ==
    /\ Tidy(e, w.inited) /\ Stays(e, w) /\ SameRoles(e, w) /\ SameRoc(e, w) /\ SameBss(e, w)
    /\ e.hlid = w.hlid
    /\ ApOf[c] \in w.inited => Elsewhere(e, w, w.inited)
    /\ w.state = "OFF" => Still(e, w)
    /\ e.state = "ON" /\ Whole(w) => Whole(e)

\* What was done for a client adds up.
LEMMA ClientAgain ==
    ASSUME NEW c, NEW w, NEW e, NEW f, ClientDone(e, w, c), ClientDone(f, e, c)
    PROVE  ClientDone(f, w, c)
<1>1. QED
  BY Again, Zenon DEF ClientDone, Still, Elsewhere, Stays

\* A command.
LEMMA ClientPlain ==
    ASSUME NEW c, NEW w, Tidy(w, w.inited), NEW e, Keeps(e, w, w.inited), Still(e, w)
    PROVE  ClientDone(e, w, c)
BY WholeKept, Zenon DEF ClientDone, Keeps, Still, SameLinks

\* wl1271_allocate_sta.
LEMMA TakesLink ==
    ASSUME NEW c \in Clients, NEW w, Tidy(w, w.inited), w.state = "ON", NEW e \in AllocateSta(w, c)
    PROVE  ClientDone(e, w, c)
<1>1. CASE e = Err(w)
  BY <1>1, Marks, ClientPlain, Zenon
<1>2. CASE ~(Hlids \subseteq w.links) /\ e # Err(w)
  <2> DEFINE l == NextLink(w)
             a == ApOf[c]
             h == [w.sta_hlid EXCEPT ![c] = l]
             n == w.active_sta_count + 1
  <2>1. l \in Hlids \ w.links /\ a \in Vifs
    BY <1>2, FreshLink, ConstantsAssumption, Zenon DEF Vifs
  <2> USE <2>1
  <2>2. e = [[w EXCEPT !.links = @ \cup {l}, !.map[a] = @ \cup {l}] EXCEPT
               !.sta_hlid = h, !.sta_map[a] = @ \cup {l}, !.active_sta_count = n, !.ret = "ok"]
    BY <1>2 DEF AllocateSta, AllocateLink
  <2> HIDE DEF l, a, h, n
  <2>3. /\ e.links = w.links \cup {l} /\ e.map = [w.map EXCEPT ![a] = @ \cup {l}]
        /\ e.sta_map = [w.sta_map EXCEPT ![a] = @ \cup {l}] /\ e.hlid = w.hlid
        /\ SameRoles(e, w) /\ SameRoc(e, w) /\ SameBss(e, w) /\ Stays(e, w)
        /\ Watched \subseteq DOMAIN e
    BY <2>2, Zenon DEF Tidy, Watched, SameRoles, SameRoc, SameBss, Stays
  <2> USE <2>3
  <2>4. e.map \in [Vifs -> SUBSET Hlids] /\ e.sta_map \in [Vifs -> SUBSET Hlids]
    BY DEF Tidy
  <2>5. Tidy(e, w.inited)
    BY <2>4, Zenon DEF Tidy, SameRoles, SameBss
  <2>6. a \in w.inited => Elsewhere(e, w, w.inited)
    BY Zenon DEF Tidy, Elsewhere
  <2>7. QED
    BY <2>5, <2>6, WholeTaken, Zenon DEF ClientDone, a
<1>3. QED
  BY <1>1, <1>2, Zenon DEF AllocateSta

\* wl1271_free_sta.
LEMMA GivesLink ==
    ASSUME NEW c \in Clients, NEW w, Tidy(w, w.inited), w.state # "OFF", NEW k,
           NEW e, e = FreeSta(w, ApOf[c], k)
    PROVE  ClientDone(e, w, c)
<1>1. CASE k \notin w.sta_map[ApOf[c]]
  BY <1>1, Again, ClientPlain, ZenonT(30) DEF FreeSta
<1>2. CASE k \in w.sta_map[ApOf[c]]
  <2> DEFINE a == ApOf[c]
             L == {b \in w.ba_link : b[1] \notin {k}}
             n == w.active_sta_count - 1
  <2>1. a \in Vifs
    BY ConstantsAssumption, Zenon DEF Vifs
  <2> USE <2>1
  <2>2. e = [[w EXCEPT !.links = @ \ {k}, !.map[a] = @ \ {k}, !.ba_link = L] EXCEPT
               !.sta_map[a] = @ \ {k}, !.active_sta_count = n]
    BY <1>2, Zenon DEF FreeSta, FreeLinks
  <2>3. k \in w.sta_map[a]
    BY <1>2, Zenon
  <2> HIDE DEF L, a, n
  <2>4. /\ e.links = w.links \ {k} /\ e.map = [w.map EXCEPT ![a] = @ \ {k}]
        /\ e.sta_map = [w.sta_map EXCEPT ![a] = @ \ {k}] /\ e.hlid = w.hlid
        /\ SameRoles(e, w) /\ SameRoc(e, w) /\ SameBss(e, w) /\ Stays(e, w)
        /\ Watched \subseteq DOMAIN e
    BY <2>2, Zenon DEF Tidy, Watched, SameRoles, SameRoc, SameBss, Stays
  <2> USE <2>4
  <2>5. e.map \in [Vifs -> SUBSET Hlids] /\ e.sta_map \in [Vifs -> SUBSET Hlids]
    BY DEF Tidy
  <2>6. Tidy(e, w.inited)
    BY <2>5, Zenon DEF Tidy, SameRoles, SameBss
  <2>7. a \in w.inited => Elsewhere(e, w, w.inited)
    BY Zenon DEF Tidy, Elsewhere
  <2>8. Whole(w) => Whole(e)
    BY <2>3, WholeGiven
  <2>9. QED
    BY <2>6, <2>7, <2>8, Zenon DEF ClientDone, a
<1>3. QED
  BY <1>1, <1>2, Zenon

\* wl1271_op_sta_add and wl1271_op_sta_remove.
LEMMA Client ==
    ASSUME Hard, NEW c \in Clients, NEW w, Tidy(w, w.inited),
           NEW e \in OpStaAdd(w, c) \cup OpStaRemove(w, c)
    PROVE  ClientDone(e, w, c)
<1>1. ASSUME NEW d, ClientDone(d, w, c)
      PROVE  /\ Tidy(d, d.inited) /\ d.inited = w.inited
             /\ w.state # "OFF" => d.state # "OFF"
  BY <1>1, Zenon DEF ClientDone, Stays
<1> USE <1>1
<1>2. ASSUME NEW d, Tidy(d, d.inited), NEW f \in Wakeup(d) \cup Command(d) \cup WaitOrTimeout(d)
      PROVE  ClientDone(f, d, c)
  BY <1>2, Issued, ClientPlain, Zenon DEF Plain
<1> USE <1>2
<1>3. ASSUME NEW d, Tidy(d, d.inited) PROVE ClientDone(Ok(d), d, c) /\ ClientDone(Err(d), d, c)
  BY <1>3, Marks, ClientPlain, Zenon
<1>4. CASE e = Ok(w)
  BY <1>3, <1>4, Zenon
<1>5. CASE w.state = "ON" /\ e \in OpStaAdd(w, c)
  <2> USE <1>5
  <2>1. PICK d \in AllocateSta(w, c) :
           IF Good(d)
           THEN e \in OnError(Then(Wakeup(d), LAMBDA f : Command(f)), LAMBDA f :
                        {FreeSta(f, ApOf[c], f.sta_hlid[c])})
           ELSE e = d
    BY Zenon DEF OpStaAdd, Then
  <2>2. ClientDone(d, w, c) /\ Tidy(d, d.inited)
    BY TakesLink, Zenon
  <2>3. CASE ~Good(d)
    BY <2>1, <2>2, <2>3, Zenon
  <2>4. CASE Good(d)
    <3>1. PICK g : /\ g \in Then(Wakeup(d), LAMBDA f : Command(f))
                   /\ IF Good(g) THEN e = g ELSE e = Err(FreeSta(g, ApOf[c], g.sta_hlid[c]))
      BY <2>1, <2>4, Zenon DEF OnError
    <3>2. PICK f \in Wakeup(d) : IF Good(f) THEN g \in Command(f) ELSE g = f
      BY <3>1, Zenon DEF Then
    <3>3. ClientDone(g, w, c) /\ Tidy(g, g.inited) /\ g.state # "OFF"
      BY <2>2, <3>2, ClientAgain, Zenon
    <3> DEFINE h == FreeSta(g, ApOf[c], g.sta_hlid[c])
    <3>4. ClientDone(h, g, c)
      BY <3>3, GivesLink, Zenon
    <3>5. IF Good(g) THEN e = g ELSE e = Err(h)
      BY <3>1, Zenon
    <3> HIDE DEF h
    <3>6. QED
      BY <1>3, <3>3, <3>4, <3>5, ClientAgain, Zenon
  <2>5. QED
    BY <2>3, <2>4, Zenon
<1>6. CASE w.state = "ON" /\ w.sta_hlid[c] \in w.sta_map[ApOf[c]] /\ e \in OpStaRemove(w, c)
  <2>1. PICK d \in Wakeup(w) :
           IF Good(d) THEN e \in Then(Command(d), LAMBDA f :
                Then(WaitOrTimeout(f), LAMBDA g : {FreeSta(g, ApOf[c], g.sta_hlid[c])}))
           ELSE e = d
    BY <1>6, Zenon DEF OpStaRemove, Then
  <2>2. ClientDone(d, w, c) /\ Tidy(d, d.inited)
    BY Zenon
  <2>3. CASE ~Good(d)
    BY <2>1, <2>2, <2>3, Zenon
  <2>4. CASE Good(d)
    <3>1. PICK f \in Command(d) :
             IF Good(f) THEN e \in Then(WaitOrTimeout(f), LAMBDA g :
                                {FreeSta(g, ApOf[c], g.sta_hlid[c])})
             ELSE e = f
      BY <2>1, <2>4, Zenon DEF Then
    <3>2. ClientDone(f, w, c) /\ Tidy(f, f.inited)
      BY <2>2, ClientAgain, Zenon
    <3>3. CASE ~Good(f)
      BY <3>1, <3>2, <3>3, Zenon
    <3>4. CASE Good(f)
      <4>1. PICK g \in WaitOrTimeout(f) :
               e = IF Good(g) THEN FreeSta(g, ApOf[c], g.sta_hlid[c]) ELSE g
        BY <3>1, <3>4, Zenon DEF Then
      <4>2. ClientDone(g, w, c) /\ Tidy(g, g.inited) /\ g.state # "OFF"
        BY <1>6, <3>2, ClientAgain, Zenon
      <4>3. CASE ~Good(g)
        BY <4>1, <4>2, <4>3, Zenon
      <4>4. CASE Good(g)
        <5>1. ClientDone(e, g, c)
          BY <4>1, <4>2, <4>4, GivesLink, Zenon
        <5>2. QED
          BY <4>2, <5>1, ClientAgain, Zenon
      <4>5. QED
        BY <4>3, <4>4, Zenon
    <3>5. QED
      BY <3>3, <3>4, Zenon
  <2>5. QED
    BY <2>3, <2>4, Zenon
<1>7. QED
  BY <1>4, <1>5, <1>6, Zenon DEF OpStaAdd, OpStaRemove

\* The handlers of the clients leave the driver ready.
LEMMA ServesClient ==
    ASSUME NEW c, NEW w, NEW e, ClientDone(e, w, c)
    PROVE  /\ Ready(w) => Ready(e) /\ Started(e) = Started(w)
           /\ RocOK(w) => RocOK(e)
           /\ ApOf[c] \in w.inited => Serves(e, w)
<1>1. /\ e.role = w.role /\ e.hlid = w.hlid /\ e.roles = w.roles /\ e.roc = w.roc /\ e.inited = w.inited
      /\ e.associated = w.associated /\ e.state_sent = w.state_sent /\ e.ap_started = w.ap_started
  BY Zenon DEF ClientDone, SameRoles, SameRoc, SameBss, Stays
<1>2. RocOK(w) => RocOK(e)
  BY <1>1 DEF RocOK, RocOf
<1>3. Started(e) = Started(w)
  BY <1>1, Zenon DEF Started
<1>4. ASSUME Ready(w) PROVE Ready(e)
  <2>1. Fit(e)
    BY <1>1, <1>4, FitKept, Zenon DEF Ready
  <2>2. ApOK(e) /\ Mains(e)
    BY <1>1, <1>4, Zenon DEF Ready, ApOK, Mains
  <2>3. QED
    BY <2>1, <2>2, Zenon DEF Ready
<1>5. ASSUME ApOf[c] \in w.inited PROVE Serves(e, w)
  <2>1. /\ Keeps(e, w, w.inited) /\ (e.state = "ON" /\ Whole(w) => Whole(e))
        /\ w.state = "OFF" => Still(e, w)
    BY <1>5, Zenon DEF ClientDone, Keeps
  <2>2. QED
    BY <1>3, <1>4, <2>1, Zenon DEF Serves
<1>6. QED
  BY <1>2, <1>3, <1>4, <1>5, Zenon

\* wl1271_op_ampdu_action touches none of this.
LEMMA Ampdus ==
    ASSUME Hard, NEW w, Tidy(w, w.inited), NEW p, NEW t,
           NEW e \in OpAmpduStart(w, p, t) \cup OpAmpduStop(w, p, t)
    PROVE  Keeps(e, w, w.inited) /\ Still(e, w)
<1>1. ASSUME NEW d, Tidy(d, d.inited), Keeps(d, w, w.inited), Still(d, w),
             NEW X, NEW Y, NEW n, NEW f, f = [d EXCEPT !.ba_sta = X, !.ba_count = n]
                                   \/ f = [d EXCEPT !.ba_link = Y, !.ba_count = n]
      PROVE  Keeps(f, w, w.inited) /\ Still(f, w)
  <2>1. /\ Watched \subseteq DOMAIN f /\ Still(f, d) /\ Stays(f, d)
    BY <1>1, ZenonT(30) DEF Tidy, Watched, Still, SameRoles, SameLinks, SameRoc, SameBss, Stays
  <2>2. QED
    BY <1>1, <2>1, Again, Untouched DEF Still, Keeps, Stays
<1>2. ASSUME NEW d, Keeps(d, w, w.inited), Still(d, w), NEW f \in Wakeup(d) \cup Command(d) \cup {Err(d)}
      PROVE  Keeps(f, w, w.inited) /\ Still(f, w)
  <2>1. Keeps(f, d, w.inited) /\ Still(f, d)
    BY <1>2, Issued, Marks DEF Plain, Keeps
  <2>2. QED
    BY <1>2, <2>1, Again, Zenon DEF Still
<1> USE <1>2
<1>3. Keeps(w, w, w.inited) /\ Still(w, w)
  BY Again, Zenon
<1> USE <1>3
<1>4. CASE w.state # "ON"
  BY <1>4, Zenon DEF OpAmpduStart, OpAmpduStop
<1>5. CASE w.state = "ON" /\ e \in OpAmpduStart(w, p, t)
  <2>1. PICK d \in Wakeup(w) :
           IF Good(d) THEN e = Err(d) \/ e \in Then(Command(d), LAMBDA f : {BaSet(f, p, t)})
           ELSE e = d
    BY <1>5, Zenon DEF OpAmpduStart, Then
  <2>2. Keeps(d, w, w.inited) /\ Still(d, w)
    BY Zenon
  <2>3. CASE e = d \/ e = Err(d)
    BY <2>2, <2>3, Zenon
  <2>4. CASE e \in Then(Command(d), LAMBDA f : {BaSet(f, p, t)})
    <3>1. PICK f \in Command(d) : e = IF Good(f) THEN BaSet(f, p, t) ELSE f
      BY <2>4, Zenon DEF Then
    <3>2. Keeps(f, w, w.inited) /\ Still(f, w) /\ Tidy(f, f.inited)
      BY <2>2, Zenon DEF Keeps, Stays
    <3>3. CASE e = f
      BY <3>2, <3>3, Zenon
    <3>4. CASE e = BaSet(f, p, t)
      BY <1>1, <3>2, <3>4, Zenon DEF BaSet
    <3>5. QED
      BY <3>1, <3>3, <3>4, Zenon
  <2>5. QED
    BY <2>1, <2>3, <2>4, Zenon
<1>6. CASE w.state = "ON" /\ e \in OpAmpduStop(w, p, t)
  <2>1. PICK d \in Wakeup(w) :
           IF Good(d) THEN e = Err(d) \/ e \in Then(Command(d), LAMBDA f : {BaClear(f, p, t)})
           ELSE e = d
    BY <1>6, Zenon DEF OpAmpduStop, Then
  <2>2. Keeps(d, w, w.inited) /\ Still(d, w)
    BY Zenon
  <2>3. CASE e = d \/ e = Err(d)
    BY <2>2, <2>3, Zenon
  <2>4. CASE e \in Then(Command(d), LAMBDA f : {BaClear(f, p, t)})
    <3>1. PICK f \in Command(d) : e = IF Good(f) THEN BaClear(f, p, t) ELSE f
      BY <2>4, Zenon DEF Then
    <3>2. Keeps(f, w, w.inited) /\ Still(f, w) /\ Tidy(f, f.inited)
      BY <2>2, Zenon DEF Keeps, Stays
    <3>3. CASE e = f
      BY <3>2, <3>3, Zenon
    <3>4. CASE e = BaClear(f, p, t)
      BY <1>1, <3>2, <3>4, Zenon DEF BaClear
    <3>5. QED
      BY <3>1, <3>3, <3>4, Zenon
  <2>5. QED
    BY <2>1, <2>3, <2>4, Zenon
<1>7. QED
  BY <1>4, <1>5, <1>6, Zenon

\* wl12xx_config_vif.
LEMMA Configures ==
    ASSUME Hard, NEW w, Tidy(w, w.inited), w.state # "OFF", NEW v \in Stas \cap w.inited,
           NEW e \in ConfigChannel(w, v)
    PROVE  /\ Serves(e, w) /\ SameBss(e, w)
           /\ e.state = "ON" /\ Ready(w) /\ RocOK(w) => RocOK(e)
<1> DEFINE J == w.inited
           Goal(f) == /\ StaDone(f, w, v, J) /\ SameBss(f, w)
                      /\ f.state = "ON" /\ Fit(w) /\ RocOK(w) => RocOK(f)
<1>1. Tidy(w, J) /\ v \in Stas \cap J
  BY Zenon
<1> USE <1>1
<1> HIDE DEF J
<1>2. PICK d \in Soft(w) : e \in Always(Command(d), LAMBDA f :
         IF v \notin f.associated /\ DevStarted(f, v) /\ f.up \cap f.busy # {}
         THEN Then(StopDev(f, v), LAMBDA g : StartDev(g, v))
         ELSE {Ok(f)})
  BY Issued, Zenon DEF ConfigChannel, Then
<1>3. PICK f \in Command(d) : e \in IF v \notin f.associated /\ DevStarted(f, v) /\ f.up \cap f.busy # {}
                                    THEN Then(StopDev(f, v), LAMBDA g : StartDev(g, v))
                                    ELSE {Ok(f)}
  BY <1>2, Zenon DEF Always
<1>4. Keeps(f, w, J) /\ Still(f, w) /\ Tidy(f, J)
  <2>1. Plain(d, w, J) /\ Tidy(d, J)
    BY Issued, Zenon DEF Plain, Keeps
  <2>2. Plain(f, d, J)
    BY <2>1, Issued, Zenon
  <2>3. QED
    BY <2>1, <2>2, Again, Zenon DEF Plain, Still, Keeps
<1> USE <1>4
<1>5. ASSUME NEW h, Tidy(h, J), Goal(h), NEW g, Keeps(g, h, J), SameBss(g, h),
             g.state = "ON" /\ DevOK(h) => DevStep(g, h, v)
      PROVE  Goal(g)
  <2>1. (g.state = "ON" => h.state = "ON") /\ (h.state = "ON" /\ Fit(w) => DevOK(h))
    BY <1>5, StillOn, Zenon DEF StaDone, Fit
  <2>2. QED
    BY <1>5, <2>1, Done, Again, Zenon
<1> USE <1>5
<1>6. Goal(w)
  BY StaSteps, Again, Zenon DEF StaDone, Still, Keeps
<1>7. Goal(f)
  BY <1>6, Zenon DEF Still, DevStep
<1>8. Goal(e)
  <2> HIDE DEF Goal
  <2>1. CASE e = Ok(f)
    BY <1>7, <2>1, Marks, Zenon DEF Still, DevStep
  <2>2. CASE DevStarted(f, v) /\ e \in Then(StopDev(f, v), LAMBDA g : StartDev(g, v))
    <3>1. PICK g \in StopDev(f, v) : IF Good(g) THEN e \in StartDev(g, v) ELSE e = g
      BY <2>2, Zenon DEF Then
    <3>2. /\ Keeps(g, f, J) /\ SameBss(g, f) /\ Tidy(g, J)
          /\ g.state = "ON" /\ DevOK(f) => DevStep(g, f, v)
      BY <2>2, StopsDev, Zenon DEF DevStarted, DevStep, Dev, Keeps
    <3>3. Goal(g)
      BY <1>7, <3>2, Zenon
    <3>4. CASE ~Good(g)
      BY <3>1, <3>3, <3>4, Zenon
    <3>5. CASE Good(g)
      BY <3>1, <3>2, <3>3, <3>5, StartsDev, Zenon DEF DevStep, Still
    <3>6. QED
      BY <3>4, <3>5, Zenon
  <2>3. QED
    BY <1>3, <2>1, <2>2, Zenon
<1>9. QED
  BY <1>8, ServesSta, Zenon DEF J, Ready
=============================================================================
