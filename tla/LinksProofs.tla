---------------------------- MODULE LinksProofs ----------------------------
(***************************************************************************)
(* Links belong to one interface and one use of it: a proof of LinksOwned  *)
(* for any number of interfaces, clients, roles and links, and whatever    *)
(* fails.                                                                  *)
(*                                                                         *)
(* A function of the driver is a set of outcomes, so the proof has one     *)
(* lemma per function, "every outcome is sound", and follows the driver's  *)
(* call graph from the bottom to the handlers.                             *)
(***************************************************************************)
EXTENDS Links, WellFoundedInduction, TLAPS

\* the fields the argument is about
Fields == {"state", "ret", "inited", "up", "links", "map", "sta_map", "hlid"}

\* the links of driver state d are owned, see LinksOwned
Owned(d) ==
    /\ d.links \in SUBSET Hlids /\ SystemHlid \in d.links
    /\ d.map \in [Vifs -> SUBSET Hlids]
    /\ d.sta_map \in [Vifs -> SUBSET Hlids]
    /\ d.hlid \in [LinkSlots -> Hlids \cup {Invalid}]
    /\ \A v \in Vifs : d.map[v] \subseteq d.links \ {SystemHlid}
    /\ \A v \in Vifs : d.sta_map[v] \subseteq d.map[v]
    /\ \A u, v \in Vifs : u # v => d.map[u] \cap d.map[v] = {}
    /\ \A s \in LinkSlots : d.hlid[s] # Invalid => d.hlid[s] \in d.map[s[1]] \ d.sta_map[s[1]]
    /\ \A r, s \in LinkSlots : r # s /\ d.hlid[r] = d.hlid[s] => d.hlid[r] = Invalid

\* d is an outcome of a function called in state b that adds and removes no
\* interface, and interfaces outside of J have no links
Sound(d, b, J) ==
    /\ Fields \subseteq DOMAIN d
    /\ d.inited = b.inited /\ d.up = b.up
    /\ d.state = "OFF" <=> b.state = "OFF"
    /\ Owned(d)
    /\ \A v \in Vifs \ J : d.map[v] = {}

\* between two handlers, only interfaces that are initialised have links
Core(d) ==
    /\ Sound(d, d, d.inited)
    /\ d.state = "OFF" => d.inited = {}
    /\ d.inited \subseteq d.up

\* the interfaces that are visited by a loop exist
Steady ==
    /\ Core(wl)
    /\ phase = "add" => pending \subseteq wl.up
    /\ holder # "none" => left \subseteq wl.inited

\* the inductive invariant
IInv == "stray" \notin odd => Steady

-----------------------------------------------------------------------------
(* The first free link.                                                    *)

\* find_first_zero_bit returns a free id when there is one.
LEMMA FirstFree ==
    ASSUME NEW S \in SUBSET Nat, S # {}
    PROVE  First(S) \in S
<1> DEFINE R == {ss \in Nat \X Nat : ss[1] < ss[2]}
<1>1. IsWellFoundedOn(R, Nat)
  BY NatLessThanWellFounded DEF OpToRel
<1>2. PICK i \in S : \A j \in S : <<j, i>> \notin R
  <2> HIDE DEF R
  <2> QED
    BY <1>1, WFMin, Zenon
<1>3. ASSUME NEW j \in S PROVE i <= j
  <2>1. <<j, i>> \in R <=> j < i
    OBVIOUS
  <2>2. ~(j < i)
    BY <1>2, <2>1
  <2>3. QED
    BY <2>2
<1>4. QED
  BY <1>3, Zenon DEF First

\* wl12xx_allocate_link finds a link that is not allocated.
LEMMA FreshLink ==
    ASSUME NEW w, ~(Hlids \subseteq w.links)
    PROVE  NextLink(w) \in Hlids \ w.links
<1>1. Hlids \ w.links \in SUBSET Nat
  BY ConstantsAssumption DEF Hlids, Invalid
<1>2. QED
  BY <1>1, FirstFree DEF NextLink

-----------------------------------------------------------------------------
(* Commands: nothing the invariant is about changes.                       *)

\* Ownership is about these four fields.
LEMMA Copied ==
    ASSUME NEW w, Owned(w), NEW e, e.links = w.links, e.map = w.map,
           e.sta_map = w.sta_map, e.hlid = w.hlid
    PROVE  Owned(e)
BY DEF Owned

\* A step that leaves the fields alone, but for an ON that turns RESTARTING,
\* is sound.
LEMMA Frame ==
    ASSUME NEW b, NEW J, NEW w, Sound(w, b, J), NEW e,
           Fields \subseteq DOMAIN e,
           e.inited = w.inited, e.up = w.up, e.links = w.links, e.map = w.map,
           e.sta_map = w.sta_map, e.hlid = w.hlid,
           e.state = "OFF" <=> w.state = "OFF"
    PROVE  Sound(e, b, J)
BY DEF Sound, Owned

LEMMA Returns ==
    ASSUME NEW b, NEW J, NEW w, Sound(w, b, J)
    PROVE  /\ Sound(Ok(w), b, J) /\ Good(Ok(w))
           /\ Sound(Err(w), b, J) /\ ~Good(Err(w))
           /\ Sound(Recover(w), b, J)
           /\ Sound(ChangeFw(w), b, J)
<1>1. Sound(Ok(w), b, J) /\ Good(Ok(w))
  BY Frame DEF Ok, Good, Sound, Fields
<1>2. Sound(Err(w), b, J) /\ ~Good(Err(w))
  BY Frame DEF Err, Good, Sound, Fields
<1>3. Sound(Recover(w), b, J)
  BY Frame DEF Recover, Sound, Fields
<1>4. Sound(ChangeFw(w), b, J)
  <2> DEFINE x == IF w.dwork = "queued" \/ NeedFwChange(w) = "SR_TO_MR" THEN "queued"
                  ELSE IF NeedFwChange(w) = "MR_TO_SR" THEN "armed" ELSE "off"
  <2>1. ChangeFw(w) = [w EXCEPT !.dwork = x]
    BY DEF ChangeFw
  <2> HIDE DEF x
  <2>2. QED
    BY <2>1, Frame DEF Sound, Fields
<1>5. QED
  BY <1>1, <1>2, <1>3, <1>4

LEMMA Commands ==
    ASSUME NEW b, NEW J, NEW w, Sound(w, b, J), NEW e
    PROVE  /\ e \in Soft(w) => Sound(e, b, J)
           /\ e \in Send(w) => Sound(e, b, J)
           /\ e \in Command(w) => Sound(e, b, J)
           /\ e \in Wakeup(w) => Sound(e, b, J)
           /\ e \in WaitOrTimeout(w) => Sound(e, b, J)
           /\ e \in WaitEvent(w) => Sound(e, b, J)
<1>1. ASSUME NEW d, Sound(d, b, J), NEW f \in Soft(d) PROVE Sound(f, b, J)
  BY <1>1, Returns DEF Soft
<1>2. ASSUME NEW d, Sound(d, b, J), NEW f \in Send(d) PROVE Sound(f, b, J)
  BY <1>2, <1>1, Returns DEF Send
<1>3. ASSUME e \in Command(w) PROVE Sound(e, b, J)
  BY <1>3, <1>1, <1>2 DEF Command, Then
<1>4. ASSUME e \in Wakeup(w) PROVE Sound(e, b, J)
  BY <1>4, <1>1, Returns DEF Wakeup
<1>5. ASSUME NEW f \in WaitOrTimeout(w) PROVE Sound(f, b, J)
  BY <1>5, Returns DEF WaitOrTimeout
<1>6. ASSUME e \in WaitEvent(w) PROVE Sound(e, b, J)
  BY <1>6, <1>5, Returns DEF WaitEvent
<1>7. QED
  BY <1>1, <1>2, <1>3, <1>4, <1>5, <1>6

-----------------------------------------------------------------------------
(* Taking and giving back links.                                           *)

\* an interface that owns link l after taking it, and its other fields
LEMMA Take ==
    ASSUME NEW b, NEW J, NEW w, Sound(w, b, J), NEW v \in Vifs \cap J,
           ~(Hlids \subseteq w.links)
    PROVE  /\ Sound(AllocateLink(w, v), b, J)
           /\ AllocateLink(w, v).hlid = w.hlid
           /\ AllocateLink(w, v).sta_map = w.sta_map
           /\ NextLink(w) \in AllocateLink(w, v).map[v]
           /\ NextLink(w) \in Hlids \ {Invalid}
           /\ \A s \in LinkSlots : w.hlid[s] # NextLink(w)
           /\ \A u \in Vifs : NextLink(w) \notin w.sta_map[u]
<1> DEFINE l == NextLink(w)
           e == AllocateLink(w, v)
<1>1. l \in Hlids \ w.links
  BY FreshLink
<1> HIDE DEF l
<1>2. /\ e.links = w.links \cup {l}
      /\ e.map = [w.map EXCEPT ![v] = @ \cup {l}]
      /\ e.hlid = w.hlid /\ e.sta_map = w.sta_map
      /\ e.inited = w.inited /\ e.up = w.up /\ e.state = w.state
      /\ Fields \subseteq DOMAIN e
  BY DEF AllocateLink, Sound, Fields, l
<1> HIDE DEF e
<1>3. l # Invalid
  BY <1>1, ConstantsAssumption DEF Hlids, Invalid
<1>4. /\ \A s \in LinkSlots : w.hlid[s] # l
      /\ \A u \in Vifs : l \notin w.sta_map[u] /\ l \notin w.map[u]
  BY <1>1, <1>3 DEF Sound, Owned, LinkSlots
<1>5. Owned(e)
  BY <1>1, <1>2, <1>4 DEF Sound, Owned, LinkSlots
<1>6. w.map \in [Vifs -> SUBSET Hlids] /\ \A u \in Vifs \ J : w.map[u] = {}
  BY DEF Sound, Owned
<1>7. l \in e.map[v] /\ \A u \in Vifs \ J : e.map[u] = {}
  BY <1>2, <1>6
<1>8. Sound(e, b, J)
  BY <1>2, <1>5, <1>7 DEF Sound
<1>9. QED
  BY <1>1, <1>2, <1>3, <1>4, <1>7, <1>8 DEF l, e

LEMMA Taken ==
    ASSUME NEW b, NEW J, NEW w, Sound(w, b, J),
           NEW s \in LinkSlots, s[1] \in J, NEW e \in GetLink(w, s)
    PROVE  Sound(e, b, J)
<1>1. CASE Hlids \subseteq w.links
  BY <1>1, Returns DEF GetLink
<1>2. CASE ~(Hlids \subseteq w.links)
  <2> DEFINE d == AllocateLink(w, s[1])
             l == NextLink(w)
  <2>1. e = [d EXCEPT !.hlid[s] = l, !.ret = "ok"]
    BY <1>2 DEF GetLink
  <2>2. s[1] \in Vifs
    BY DEF LinkSlots
  <2>3. /\ Sound(d, b, J) /\ l \in d.map[s[1]] /\ l \in Hlids \ {Invalid}
        /\ d.hlid = w.hlid /\ d.sta_map = w.sta_map
        /\ \A r \in LinkSlots : w.hlid[r] # l
        /\ \A u \in Vifs : l \notin w.sta_map[u]
    BY <1>2, <2>2, Take
  <2> HIDE DEF d, l
  <2>4. /\ e.hlid = [d.hlid EXCEPT ![s] = l]
        /\ e.links = d.links /\ e.map = d.map /\ e.sta_map = d.sta_map
        /\ e.inited = d.inited /\ e.up = d.up /\ e.state = d.state
        /\ Fields \subseteq DOMAIN e
    BY <2>1, <2>3 DEF Sound, Fields
  <2>5. Owned(e)
    BY <2>2, <2>3, <2>4 DEF Sound, Owned
  <2>6. QED
    BY <2>3, <2>4, <2>5 DEF Sound
<1>3. QED
  BY <1>1, <1>2

LEMMA Dropped ==
    ASSUME NEW b, NEW J, NEW w, Sound(w, b, J), NEW s \in LinkSlots
    PROVE  Sound(DropLink(w, s), b, J)
<1>1. CASE w.hlid[s] = Invalid
  BY <1>1 DEF DropLink
<1>2. CASE w.hlid[s] # Invalid
  <2> DEFINE e == DropLink(w, s)
             l == w.hlid[s]
  <2>1. /\ e.hlid = [w.hlid EXCEPT ![s] = Invalid]
        /\ e.links = w.links \ {l} /\ e.map = [w.map EXCEPT ![s[1]] = @ \ {l}]
        /\ e.sta_map = w.sta_map
        /\ e.inited = w.inited /\ e.up = w.up /\ e.state = w.state
        /\ Fields \subseteq DOMAIN e
    BY <1>2 DEF DropLink, FreeLinks, Sound, Fields
  <2> HIDE DEF e
  <2>2. s[1] \in Vifs
    BY DEF LinkSlots
  <2>3. l \in w.map[s[1]] /\ \A u \in Vifs : l \notin w.sta_map[u]
    BY <1>2, <2>2 DEF Sound, Owned
  <2>4. Owned(e)
    <3> USE DEF Sound, Owned
    <3>1. /\ e.links \in SUBSET Hlids /\ SystemHlid \in e.links
          /\ e.map \in [Vifs -> SUBSET Hlids]
          /\ e.hlid \in [LinkSlots -> Hlids \cup {Invalid}]
      BY <2>1, <2>2, <2>3
    <3>2. /\ \A v \in Vifs : e.map[v] \subseteq e.links \ {SystemHlid}
          /\ \A v \in Vifs : e.sta_map[v] \subseteq e.map[v]
          /\ \A u, v \in Vifs : u # v => e.map[u] \cap e.map[v] = {}
      BY <2>1, <2>2, <2>3
    <3>3. ASSUME NEW r \in LinkSlots, e.hlid[r] # Invalid
          PROVE  r # s /\ e.hlid[r] = w.hlid[r] /\ e.hlid[r] \in e.map[r[1]] \ e.sta_map[r[1]]
      <4>1. r # s /\ e.hlid[r] = w.hlid[r]
        BY <2>1, <3>3
      <4>2. r[1] \in Vifs /\ w.hlid[r] # l /\ w.hlid[r] \in w.map[r[1]] \ w.sta_map[r[1]]
        BY <1>2, <3>3, <4>1 DEF LinkSlots
      <4>3. QED
        BY <2>1, <2>2, <4>1, <4>2
    <3>4. \A q, r \in LinkSlots : q # r /\ e.hlid[q] = e.hlid[r] => e.hlid[q] = Invalid
      BY <3>3
    <3>5. QED
      BY <2>1, <3>1, <3>2, <3>3, <3>4
  <2>5. w.map \in [Vifs -> SUBSET Hlids] /\ \A u \in Vifs \ J : w.map[u] = {}
    BY DEF Sound, Owned
  <2>6. \A u \in Vifs \ J : e.map[u] = {}
    BY <2>1, <2>2, <2>5
  <2>7. QED
    BY <2>1, <2>4, <2>6 DEF Sound, e
<1>3. QED
  BY <1>1, <1>2

LEMMA StaTaken ==
    ASSUME NEW b, NEW J, NEW w, Sound(w, b, J),
           NEW c \in Clients, ApOf[c] \in J, NEW e \in AllocateSta(w, c)
    PROVE  Sound(e, b, J)
<1>1. CASE w.active_sta_count >= MaxStations \/ Hlids \subseteq w.links
  BY <1>1, Returns DEF AllocateSta
<1>2. CASE ~(w.active_sta_count >= MaxStations \/ Hlids \subseteq w.links)
  <2> DEFINE v == ApOf[c]
             d == AllocateLink(w, v)
             l == NextLink(w)
  <2>1. e = [d EXCEPT !.sta_hlid[c] = l, !.sta_map[v] = @ \cup {l},
                      !.active_sta_count = @ + 1, !.ret = "ok"]
    BY <1>2 DEF AllocateSta
  <2>2. v \in Vifs
    BY ConstantsAssumption DEF Vifs
  <2>3. /\ Sound(d, b, J) /\ l \in d.map[v] /\ l \in Hlids \ {Invalid}
        /\ d.hlid = w.hlid /\ \A r \in LinkSlots : w.hlid[r] # l
    BY <1>2, <2>2, Take
  <2> HIDE DEF d, l, v
  <2>4. /\ e.hlid = d.hlid
        /\ e.links = d.links /\ e.map = d.map
        /\ e.sta_map = [d.sta_map EXCEPT ![v] = @ \cup {l}]
        /\ e.inited = d.inited /\ e.up = d.up /\ e.state = d.state
        /\ Fields \subseteq DOMAIN e
    BY <2>1, <2>3 DEF Sound, Fields
  <2>5. /\ Owned(d) /\ d.sta_map \in [Vifs -> SUBSET Hlids]
        /\ \A r \in LinkSlots : r[1] \in Vifs /\ d.hlid[r] # l
    BY <2>3 DEF Sound, Owned, LinkSlots
  <2>6. /\ e.sta_map \in [Vifs -> SUBSET Hlids]
        /\ \A u \in Vifs : e.sta_map[u] \subseteq d.sta_map[u] \cup {l}
        /\ \A u \in Vifs : e.sta_map[u] \subseteq d.map[u]
    BY <2>2, <2>3, <2>4, <2>5 DEF Owned
  <2>7. Owned(e)
    BY <2>4, <2>5, <2>6 DEF Owned
  <2>8. QED
    BY <2>3, <2>4, <2>7 DEF Sound
<1>3. QED
  BY <1>1, <1>2

LEMMA StaFreed ==
    ASSUME NEW b, NEW J, NEW w, Sound(w, b, J), NEW v \in Vifs, NEW l
    PROVE  Sound(FreeSta(w, v, l), b, J)
<1>1. CASE l \notin w.sta_map[v]
  BY <1>1 DEF FreeSta
<1>2. CASE l \in w.sta_map[v]
  <2> DEFINE e == FreeSta(w, v, l)
  <2>1. /\ e.hlid = w.hlid
        /\ e.links = w.links \ {l} /\ e.map = [w.map EXCEPT ![v] = @ \ {l}]
        /\ e.sta_map = [w.sta_map EXCEPT ![v] = @ \ {l}]
        /\ e.inited = w.inited /\ e.up = w.up /\ e.state = w.state
        /\ Fields \subseteq DOMAIN e
    BY <1>2 DEF FreeSta, FreeLinks, Sound, Fields
  <2> HIDE DEF e
  <2>2. /\ l \in w.map[v]
        /\ \A s \in LinkSlots : w.hlid[s] # Invalid => w.hlid[s] # l
    BY <1>2 DEF Sound, Owned, LinkSlots
  <2>3. Owned(e)
    BY <1>2, <2>1, <2>2 DEF Sound, Owned, LinkSlots
  <2>4. w.map \in [Vifs -> SUBSET Hlids] /\ \A u \in Vifs \ J : w.map[u] = {}
    BY DEF Sound, Owned
  <2>5. \A u \in Vifs \ J : e.map[u] = {}
    BY <2>1, <2>4
  <2>6. QED
    BY <2>1, <2>3, <2>5 DEF Sound, e
<1>3. QED
  BY <1>1, <1>2

-----------------------------------------------------------------------------
(* Roles and remain-on-channel.                                            *)

LEMMA RoleEnabled ==
    ASSUME NEW b, NEW J, NEW w, Sound(w, b, J), NEW s, NEW e
    PROVE  /\ e \in RoleEnable(w, s) => Sound(e, b, J)
           /\ e \in RoleDisable(w, s) => Sound(e, b, J)
<1>1. Sound(ChangeFw(w), b, J)
  BY Returns
<1>2. ASSUME NEW d, Sound(d, b, J), NEW R, NEW id
      PROVE  Sound([d EXCEPT !.roles = R, !.role[s] = id], b, J)
  <2> DEFINE f == [d EXCEPT !.roles = R, !.role[s] = id]
  <2>1. /\ f.inited = d.inited /\ f.up = d.up /\ f.links = d.links /\ f.map = d.map
        /\ f.sta_map = d.sta_map /\ f.hlid = d.hlid /\ f.state = d.state
    BY <1>2 DEF Sound, Fields
  <2>2. Fields \subseteq DOMAIN f
    BY <1>2 DEF Sound, Fields
  <2> HIDE DEF f
  <2>3. QED
    BY <1>2, <2>1, <2>2, Frame, Zenon DEF f
<1>3. ASSUME e \in RoleEnable(w, s) PROVE Sound(e, b, J)
  <2> DEFINE x == ChangeFw(w)
             id == First(Roles \ x.roles)
  <2>1. \/ e = Err(x)
        \/ \E f \in Command(x) :
              e = f \/ e = [f EXCEPT !.roles = @ \cup {id}, !.role[s] = id]
    BY <1>3, Zenon DEF RoleEnable, Then
  <2> HIDE DEF id, x
  <2>2. Sound(x, b, J)
    BY <1>1 DEF x
  <2>3. ASSUME NEW f \in Command(x)
        PROVE  /\ Sound(f, b, J)
               /\ Sound([f EXCEPT !.roles = @ \cup {id}, !.role[s] = id], b, J)
    BY <1>2, <2>2, Commands, Zenon
  <2>4. QED
    BY <2>1, <2>2, <2>3, Returns, Zenon
<1>4. ASSUME e \in RoleDisable(w, s) PROVE Sound(e, b, J)
  <2> DEFINE x == ChangeFw(w)
  <2>1. \/ e = Err(x)
        \/ \E f \in Command(x) :
              e = f \/ e = [f EXCEPT !.roles = @ \ {f.role[s]}, !.role[s] = Invalid]
    BY <1>4, Zenon DEF RoleDisable, Then
  <2> HIDE DEF x
  <2>2. Sound(x, b, J)
    BY <1>1 DEF x
  <2>3. ASSUME NEW f \in Command(x)
        PROVE  /\ Sound(f, b, J)
               /\ Sound([f EXCEPT !.roles = @ \ {f.role[s]}, !.role[s] = Invalid], b, J)
    BY <1>2, <2>2, Commands, Zenon
  <2>4. QED
    BY <2>1, <2>2, <2>3, Returns, Zenon
<1>5. QED
  BY <1>3, <1>4

LEMMA RoleStarted ==
    ASSUME NEW b, NEW J, NEW w, Sound(w, b, J), NEW s \in LinkSlots, NEW e
    PROVE  /\ s[1] \in J /\ e \in RoleStart(w, s) => Sound(e, b, J)
           /\ e \in RoleStop(w, s) => Sound(e, b, J)
<1>1. ASSUME s[1] \in J, e \in RoleStart(w, s) PROVE Sound(e, b, J)
  BY <1>1, Returns, Commands, Taken, Dropped DEF RoleStart, Then, OnError
<1>2. ASSUME e \in RoleStop(w, s) PROVE Sound(e, b, J)
  BY <1>2, Returns, Commands, Dropped DEF RoleStop, Then
<1>3. QED
  BY <1>1, <1>2

LEMMA RoleApStarted ==
    ASSUME NEW b, NEW J, NEW w, Sound(w, b, J), NEW v \in Vifs, NEW e
    PROVE  /\ v \in J /\ e \in RoleStartAp(w, v) => Sound(e, b, J)
           /\ e \in RoleStopAp(w, v) => Sound(e, b, J)
<1>1. /\ <<v, "global">> \in LinkSlots /\ <<v, "global">>[1] = v
      /\ <<v, "bcast">> \in LinkSlots /\ <<v, "bcast">>[1] = v
  BY DEF LinkSlots
<1>2. ASSUME v \in J, e \in RoleStartAp(w, v) PROVE Sound(e, b, J)
  <2> DEFINE G == <<v, "global">>
             B == <<v, "bcast">>
             Second(f) == Then(GetLink(f, B), LAMBDA g :
                          OnError(Send(g), LAMBDA h : {DropLink(h, B)}))
  <2>1. ASSUME NEW d, Sound(d, b, J), NEW f \in Second(d) PROVE Sound(f, b, J)
    BY <1>1, <1>2, <2>1, Returns, Commands, Taken, Dropped DEF Then, OnError
  <2>2. \E d \in Soft(w) :
           \/ e = d
           \/ \E f \in GetLink(d, G) :
                 \/ e = f
                 \/ \E g \in Second(f) : e \in {g, Err(DropLink(g, G))}
    BY <1>2 DEF RoleStartAp, Then, OnError
  <2> HIDE DEF Second
  <2>3. QED
    BY <1>1, <1>2, <2>1, <2>2, Returns, Commands, Taken, Dropped
<1>3. ASSUME e \in RoleStopAp(w, v) PROVE Sound(e, b, J)
  BY <1>1, <1>3, Commands, Dropped DEF RoleStopAp, Then
<1>4. QED
  BY <1>2, <1>3

LEMMA RocTaken ==
    ASSUME NEW b, NEW J, NEW w, Sound(w, b, J), NEW r, NEW e
    PROVE  /\ e \in Roc(w, r) => Sound(e, b, J)
           /\ e \in Croc(w, r) => Sound(e, b, J)
<1>1. ASSUME NEW d, Sound(d, b, J), NEW x
      PROVE  Sound([d EXCEPT !.roc = x], b, J)
  BY <1>1, Frame DEF Sound, Fields
<1>2. ASSUME e \in Roc(w, r) PROVE Sound(e, b, J)
  BY <1>1, <1>2, Returns, Commands DEF Roc, Then
<1>3. ASSUME e \in Croc(w, r) PROVE Sound(e, b, J)
  BY <1>1, <1>3, Returns, Commands DEF Croc, Then
<1>4. QED
  BY <1>2, <1>3

LEMMA RocOfDevGone ==
    ASSUME NEW b, NEW J, NEW w, Sound(w, b, J), NEW v, NEW e \in CrocDev(w, v)
    PROVE  Sound(e, b, J)
BY RocTaken DEF CrocDev

LEMMA DevStarts ==
    ASSUME NEW b, NEW J, NEW w, Sound(w, b, J), NEW v \in Vifs, NEW e
    PROVE  /\ v \in J /\ e \in StartDev(w, v) => Sound(e, b, J)
           /\ e \in StopDev(w, v) => Sound(e, b, J)
           /\ e \in StopDevIfStarted(w, v) => Sound(e, b, J)
<1>1. <<v, "dev">> \in LinkSlots /\ <<v, "dev">>[1] = v
  BY DEF LinkSlots
<1>2. ASSUME NEW d, Sound(d, b, J), NEW f
      PROVE  /\ v \in J /\ f \in RoleStartDev(d, v) => Sound(f, b, J)
             /\ f \in RoleStopDev(d, v) => Sound(f, b, J)
  BY <1>1, <1>2, RoleStarted DEF RoleStartDev, RoleStopDev
<1>3. ASSUME v \in J, e \in StartDev(w, v) PROVE Sound(e, b, J)
  BY <1>2, <1>3, Returns, RoleEnabled, RocTaken DEF StartDev, Then, OnError
<1>4. ASSUME e \in StopDev(w, v) PROVE Sound(e, b, J)
  BY <1>2, <1>4, Returns, Commands, RoleEnabled, RocOfDevGone DEF StopDev, Then
<1>5. ASSUME e \in StopDevIfStarted(w, v) PROVE Sound(e, b, J)
  BY <1>4, <1>5, Returns DEF StopDevIfStarted
<1>6. QED
  BY <1>3, <1>4, <1>5

-----------------------------------------------------------------------------
(* Station interfaces.                                                     *)

\* fields of a station interface the invariant is not about
LEMMA StaFields ==
    ASSUME NEW b, NEW J, NEW w, Sound(w, b, J), NEW x, NEW y
    PROVE  /\ Sound([w EXCEPT !.associated = x], b, J)
           /\ Sound([w EXCEPT !.state_sent = x], b, J)
           /\ Sound([w EXCEPT !.in_use = x], b, J)
           /\ Sound([w EXCEPT !.associated = x, !.state_sent = y], b, J)
<1>1. Sound([w EXCEPT !.associated = x], b, J)
  BY Frame DEF Sound, Fields
<1>2. Sound([w EXCEPT !.state_sent = x], b, J)
  BY Frame DEF Sound, Fields
<1>3. Sound([w EXCEPT !.in_use = x], b, J)
  BY Frame DEF Sound, Fields
<1>4. Sound([w EXCEPT !.associated = x, !.state_sent = y], b, J)
  <2> DEFINE e == [w EXCEPT !.associated = x, !.state_sent = y]
  <2>1. /\ Fields \subseteq DOMAIN e /\ e.inited = w.inited /\ e.up = w.up
        /\ e.links = w.links /\ e.map = w.map /\ e.sta_map = w.sta_map
        /\ e.hlid = w.hlid /\ e.state = w.state
    BY DEF Sound, Fields
  <2> HIDE DEF e
  <2>2. Sound(e, b, J)
    BY <2>1, Frame
  <2>3. QED
    BY <2>2 DEF e
<1>5. QED
  BY <1>1, <1>2, <1>3, <1>4

LEMMA Joined ==
    ASSUME NEW b, NEW J, NEW w, Sound(w, b, J), NEW v \in Vifs, NEW e
    PROVE  /\ v \in J /\ e \in Join(w, v) => Sound(e, b, J)
           /\ e \in Unjoin(w, v) => Sound(e, b, J)
<1>1. <<v, "sta">> \in LinkSlots /\ <<v, "sta">>[1] = v
  BY DEF LinkSlots
<1>2. ASSUME v \in J, e \in Join(w, v) PROVE Sound(e, b, J)
  <2> DEFINE d == ChangeFw([w EXCEPT !.associated = @ \cup {v}])
  <2>1. Sound(d, b, J)
    BY StaFields, Returns, Zenon
  <2> HIDE DEF d
  <2>2. e = Err(d) \/ e \in Then(RoleStart(d, <<v, "sta">>), LAMBDA f : Command(f))
    BY <1>2 DEF Join, d
  <2>3. QED
    BY <1>1, <1>2, <2>1, <2>2, Returns, RoleStarted, Commands DEF Then
<1>3. ASSUME e \in Unjoin(w, v) PROVE Sound(e, b, J)
  BY <1>1, <1>3, Returns, RoleStarted DEF Unjoin
<1>4. QED
  BY <1>2, <1>3

LEMMA Authorised ==
    ASSUME NEW b, NEW J, NEW w, Sound(w, b, J), NEW v, NEW up,
           NEW e \in CheckOperstate(w, v, up)
    PROVE  Sound(e, b, J)
<1> DEFINE d == [w EXCEPT !.state_sent = @ \cup {v}]
<1>1. Sound(d, b, J)
  BY StaFields, Zenon
<1>2. \/ e = Ok(w)
      \/ \E f \in Command(d) :
            \/ e = f
            \/ \E g \in Croc(f, f.role[<<v, "main">>]) : e = Ok(g)
  BY DEF CheckOperstate, Then, Always
<1> HIDE DEF d
<1>3. QED
  BY <1>1, <1>2, Returns, Commands, RocTaken

LEMMA IdleHandled ==
    ASSUME NEW b, NEW J, NEW w, Sound(w, b, J), NEW v \in Vifs \cap J,
           NEW e \in HandleIdle(w, v)
    PROVE  Sound(e, b, J)
<1>1. ASSUME NEW d, Sound(d, b, J)
      PROVE  /\ Sound([d EXCEPT !.in_use = @ \cup {v}], b, J)
             /\ Sound([d EXCEPT !.in_use = @ \ {v}], b, J)
  BY <1>1, StaFields, Zenon
<1>2. \/ e = Ok(w)
      \/ \E f \in StartDev(w, v) : e = f \/ e = [f EXCEPT !.in_use = @ \cup {v}]
      \/ \E f \in StopDevIfStarted(w, v) :
            \/ e = f
            \/ \E g \in Command(f) : e = g \/ e = [g EXCEPT !.in_use = @ \ {v}]
  BY DEF HandleIdle, Then
<1>3. ASSUME NEW f \in StartDev(w, v), e = f \/ e = [f EXCEPT !.in_use = @ \cup {v}]
      PROVE  Sound(e, b, J)
  BY <1>1, <1>3, DevStarts, Zenon
<1>4. ASSUME NEW f \in StopDevIfStarted(w, v), NEW g \in Command(f),
             e = g \/ e = [g EXCEPT !.in_use = @ \ {v}]
      PROVE  Sound(e, b, J)
  BY <1>1, <1>4, Commands, DevStarts, Zenon
<1>5. QED
  BY <1>2, <1>3, <1>4, Returns, DevStarts

LEMMA Associates ==
    ASSUME NEW b, NEW J, NEW w, Sound(w, b, J), NEW v \in Vifs \cap J, NEW up,
           NEW e \in Associated(w, v, up)
    PROVE  Sound(e, b, J)
BY Commands, Joined, RocTaken, Authorised, DevStarts DEF Associated, Then, Always

LEMMA Disassociates ==
    ASSUME NEW b, NEW J, NEW w, Sound(w, b, J), NEW v \in Vifs \cap J,
           NEW e \in Disassociated(w, v)
    PROVE  Sound(e, b, J)
<1> DEFINE d == [w EXCEPT !.associated = @ \ {v}, !.state_sent = @ \ {v}]
           CrocMain(f) == IF v \in w.state_sent THEN {f} ELSE Croc(f, f.role[<<v, "main">>])
           StayBusy(f) == IF v \in f.busy THEN StartDev(f, v) ELSE {f}
<1>1. Sound(d, b, J)
  BY StaFields, Zenon
<1>2. ASSUME NEW x, Sound(x, b, J), NEW y
      PROVE  /\ y \in CrocMain(x) => Sound(y, b, J)
             /\ y \in StayBusy(x) => Sound(y, b, J)
  BY <1>2, RocTaken, DevStarts
<1>3. \E f \in Command(d) :
         \/ e = f
         \/ \E g \in CrocMain(f) :
               \/ e = g
               \/ \E h \in CrocDev(g, v) :
                     e = h \/ \E i \in Unjoin(h, v) : e \in StayBusy(i)
  BY DEF Disassociated, Then, Always
<1> HIDE DEF d, CrocMain, StayBusy
<1>4. QED
  BY <1>1, <1>2, <1>3, Commands, Joined, RocOfDevGone

LEMMA StaInformed ==
    ASSUME NEW b, NEW J, NEW w, Sound(w, b, J), NEW v \in Vifs \cap J,
           NEW changed, NEW ass, NEW up, NEW e \in BssInfoSta(w, v, changed, ass, up)
    PROVE  Sound(e, b, J)
BY IdleHandled, Associates, Disassociates DEF BssInfoSta, Always

-----------------------------------------------------------------------------
(* Access points and their clients.                                        *)

LEMMA ApInformed ==
    ASSUME NEW b, NEW J, NEW w, Sound(w, b, J), NEW v \in Vifs \cap J,
           NEW beaconing, NEW e \in BssInfoAp(w, v, beaconing)
    PROVE  Sound(e, b, J)
<1>1. ASSUME NEW d, Sound(d, b, J), NEW x PROVE Sound([d EXCEPT !.ap_started = x], b, J)
  BY <1>1, Frame DEF Sound, Fields
<1>2. ASSUME NEW d, Sound(d, b, J)
      PROVE  /\ Sound([d EXCEPT !.ap_started = @ \cup {v}], b, J)
             /\ Sound([d EXCEPT !.ap_started = @ \ {v}], b, J)
  BY <1>1, <1>2
<1>3. \/ e = w
      \/ \E f \in Command(w) :
            \/ e \in {f, ChangeFw(f)}
            \/ \E g \in RoleStartAp(ChangeFw(f), v) :
                  \/ e = g
                  \/ \E h \in Command(g) : e = h \/ e = [h EXCEPT !.ap_started = @ \cup {v}]
      \/ \E f \in RoleStopAp(ChangeFw(w), v) : e = f \/ e = [f EXCEPT !.ap_started = @ \ {v}]
  BY DEF BssInfoAp, Then
<1>4. ASSUME NEW f, Sound(f, b, J), NEW g \in RoleStartAp(f, v), NEW h \in Command(g),
             e = h \/ e = [h EXCEPT !.ap_started = @ \cup {v}]
      PROVE  Sound(e, b, J)
  BY <1>2, <1>4, Commands, RoleApStarted, Zenon
<1>5. ASSUME NEW f \in RoleStopAp(ChangeFw(w), v),
             e = f \/ e = [f EXCEPT !.ap_started = @ \ {v}]
      PROVE  Sound(e, b, J)
  BY <1>2, <1>5, Returns, RoleApStarted, Zenon
<1>6. ASSUME NEW f \in Command(w), NEW g \in RoleStartAp(ChangeFw(f), v), e = g
      PROVE  Sound(e, b, J)
  BY <1>6, Returns, Commands, RoleApStarted
<1>7. ASSUME NEW f \in Command(w) PROVE Sound(f, b, J) /\ Sound(ChangeFw(f), b, J)
  BY Returns, Commands
<1>8. QED
  BY <1>3, <1>4, <1>5, <1>6, <1>7

LEMMA Informed ==
    ASSUME NEW b, NEW J, NEW w, Sound(w, b, J), NEW v \in Vifs, w.inited \subseteq J,
           NEW changed, NEW ass, NEW up, NEW beaconing,
           NEW e \in OpBssInfo(w, v, changed, ass, up, beaconing)
    PROVE  Sound(e, b, J)
BY Commands, StaInformed, ApInformed DEF OpBssInfo, Then

LEMMA ClientAdded ==
    ASSUME NEW b, NEW J, NEW w, Sound(w, b, J), NEW c \in Clients,
           w.state = "ON" => ApOf[c] \in J, NEW e \in OpStaAdd(w, c)
    PROVE  Sound(e, b, J)
<1>1. ApOf[c] \in Vifs
  BY ConstantsAssumption DEF Vifs
<1>2. QED
  BY <1>1, Returns, Commands, StaTaken, StaFreed DEF OpStaAdd, Then, OnError

LEMMA ClientRemoved ==
    ASSUME NEW b, NEW J, NEW w, Sound(w, b, J), NEW c \in Clients,
           NEW e \in OpStaRemove(w, c)
    PROVE  Sound(e, b, J)
<1>1. ApOf[c] \in Vifs
  BY ConstantsAssumption DEF Vifs
<1>2. QED
  BY <1>1, Returns, Commands, StaFreed DEF OpStaRemove, Then

LEMMA Sessions ==
    ASSUME NEW b, NEW J, NEW w, Sound(w, b, J), NEW p, NEW t, NEW e
    PROVE  /\ e \in OpAmpduStart(w, p, t) => Sound(e, b, J)
           /\ e \in OpAmpduStop(w, p, t) => Sound(e, b, J)
<1>1. ASSUME NEW d, Sound(d, b, J), NEW x, NEW y
      PROVE  /\ Sound([d EXCEPT !.ba_sta = x, !.ba_count = y], b, J)
             /\ Sound([d EXCEPT !.ba_link = x, !.ba_count = y], b, J)
  <2> DEFINE f == [d EXCEPT !.ba_sta = x, !.ba_count = y]
             g == [d EXCEPT !.ba_link = x, !.ba_count = y]
  <2>1. /\ f.inited = d.inited /\ f.up = d.up /\ f.links = d.links /\ f.map = d.map
        /\ f.sta_map = d.sta_map /\ f.hlid = d.hlid /\ f.state = d.state
        /\ Fields \subseteq DOMAIN f
    BY <1>1 DEF Sound, Fields
  <2>2. /\ g.inited = d.inited /\ g.up = d.up /\ g.links = d.links /\ g.map = d.map
        /\ g.sta_map = d.sta_map /\ g.hlid = d.hlid /\ g.state = d.state
        /\ Fields \subseteq DOMAIN g
    BY <1>1 DEF Sound, Fields
  <2> HIDE DEF f, g
  <2>3. Sound(f, b, J) /\ Sound(g, b, J)
    BY <1>1, <2>1, <2>2, Frame
  <2>4. QED
    BY <2>3 DEF f, g
<1>2. ASSUME NEW d, Sound(d, b, J) PROVE Sound(BaSet(d, p, t), b, J)
  BY <1>1, <1>2, Zenon DEF BaSet
<1>3. ASSUME NEW d, Sound(d, b, J) PROVE Sound(BaClear(d, p, t), b, J)
  BY <1>1, <1>3, Zenon DEF BaClear
<1>4. ASSUME e \in OpAmpduStart(w, p, t) PROVE Sound(e, b, J)
  BY <1>2, <1>4, Returns, Commands DEF OpAmpduStart, Then
<1>5. ASSUME e \in OpAmpduStop(w, p, t) PROVE Sound(e, b, J)
  BY <1>3, <1>5, Returns, Commands DEF OpAmpduStop, Then
<1>6. QED
  BY <1>4, <1>5

-----------------------------------------------------------------------------
(* Adding and removing interfaces, recovery.                               *)

\* e is w with the fields of interface v emptied; links may have been freed
Emptied(e, w, v) ==
    /\ e.hlid = ForVif(w.hlid, v, Invalid)
    /\ e.map = [w.map EXCEPT ![v] = {}] /\ e.sta_map = [w.sta_map EXCEPT ![v] = {}]
    /\ e.inited = w.inited /\ e.up = w.up /\ e.state = w.state
    /\ Fields \subseteq DOMAIN e

LEMMA VifData ==
    ASSUME NEW w, Fields \subseteq DOMAIN w, NEW v \in Vifs
    PROVE  /\ Emptied(InitVifData(w, v), w, v)
           /\ InitVifData(w, v).links = w.links
           /\ InitVifData(w, v).ret = w.ret
<1> DEFINE e == InitVifData(w, v)
           r == ForVif(w.role, v, Invalid)
           h == ForVif(w.hlid, v, Invalid)
           B == {x \in w.ba_sta : x[1] # v}
<1>1. e = [w EXCEPT !.role = r, !.hlid = h, !.map[v] = {}, !.sta_map[v] = {},
                    !.associated = @ \ {v}, !.state_sent = @ \ {v},
                    !.in_use = @ \ {v}, !.ap_started = @ \ {v}, !.ba_sta = B]
  BY DEF InitVifData
<1> HIDE DEF e, r, h, B
<1>2. e.hlid = h
  BY <1>1 DEF Fields
<1>3. e.map = [w.map EXCEPT ![v] = {}]
  BY <1>1 DEF Fields
<1>4. e.sta_map = [w.sta_map EXCEPT ![v] = {}]
  BY <1>1 DEF Fields
<1>5. e.links = w.links /\ e.inited = w.inited /\ e.up = w.up
  BY <1>1 DEF Fields
<1>6. e.state = w.state /\ e.ret = w.ret /\ Fields \subseteq DOMAIN e
  BY <1>1 DEF Fields
<1>7. QED
  BY <1>2, <1>3, <1>4, <1>5, <1>6 DEF h, e, Emptied

\* Clearing an interface, and freeing links of it, leaves the others alone.
LEMMA Cleared ==
    ASSUME NEW b, NEW J, NEW w, Sound(w, b, J), NEW v \in Vifs,
           NEW L \in SUBSET w.map[v], NEW e, Emptied(e, w, v), e.links = w.links \ L
    PROVE  Sound(e, b, J \ {v})
<1> USE DEF Emptied
<1>1. e.hlid = [s \in LinkSlots |-> IF s[1] = v THEN Invalid ELSE w.hlid[s]]
  BY DEF ForVif, Sound, Owned
<1>2. /\ e.links \in SUBSET Hlids /\ SystemHlid \in e.links
      /\ e.map \in [Vifs -> SUBSET Hlids]
      /\ e.sta_map \in [Vifs -> SUBSET Hlids]
  BY DEF Sound, Owned
<1>3. e.hlid \in [LinkSlots -> Hlids \cup {Invalid}]
  BY <1>1 DEF Sound, Owned
<1>4. \A u \in Vifs : e.map[u] \subseteq e.links \ {SystemHlid}
  BY DEF Sound, Owned
<1>5. /\ \A u \in Vifs : e.sta_map[u] \subseteq e.map[u]
      /\ \A t, u \in Vifs : t # u => e.map[t] \cap e.map[u] = {}
  BY DEF Sound, Owned
<1>6. /\ \A s \in LinkSlots : e.hlid[s] # Invalid => e.hlid[s] \in e.map[s[1]] \ e.sta_map[s[1]]
      /\ \A r, s \in LinkSlots : r # s /\ e.hlid[r] = e.hlid[s] => e.hlid[r] = Invalid
  BY <1>1 DEF Sound, Owned
<1>7. \A u \in Vifs \ (J \ {v}) : e.map[u] = {}
  BY DEF Sound, Owned
<1>8. QED
  BY <1>2, <1>3, <1>4, <1>5, <1>6, <1>7 DEF Sound, Owned

LEMMA Initialised ==
    ASSUME NEW b, NEW J, NEW w, Sound(w, b, J), NEW v \in Vifs
    PROVE  Sound(InitVifData(w, v), b, J \ {v})
<1> DEFINE e == InitVifData(w, v)
<1>1. Emptied(e, w, v) /\ e.links = w.links \ {} /\ {} \in SUBSET w.map[v]
  BY VifData DEF Sound
<1> HIDE DEF e
<1>2. Sound(e, b, J \ {v})
  BY <1>1, Cleared, Zenon
<1>3. QED
  BY <1>2 DEF e

LEMMA Deinitialised ==
    ASSUME NEW b, NEW J, NEW w, Sound(w, b, J), NEW v \in Vifs
    PROVE  Sound(Deinit(w, v), b, J \ {v})
<1> DEFINE L == Returned(w, v)
           d == FreeLinks(w, v, L)
           f == InitVifData(d, v)
           e == Deinit(w, v)
<1>1. L \in SUBSET w.map[v]
  BY DEF Returned
<1> HIDE DEF L
<1>2. /\ d.links = w.links \ L /\ d.map = [w.map EXCEPT ![v] = @ \ L]
      /\ d.hlid = w.hlid /\ d.sta_map = w.sta_map
      /\ d.inited = w.inited /\ d.up = w.up /\ d.state = w.state
      /\ Fields \subseteq DOMAIN d
  BY DEF FreeLinks, Sound, Fields
<1> HIDE DEF d
<1>3. Emptied(f, d, v) /\ f.links = d.links
  BY <1>2, VifData
<1> HIDE DEF f
<1>4. Emptied(f, w, v) /\ f.links = w.links \ L
  <2>1. w.map \in [Vifs -> SUBSET Hlids] /\ d.map \in [Vifs -> SUBSET Hlids]
    BY <1>2 DEF Sound, Owned
  <2>2. f.map = [d.map EXCEPT ![v] = {}]
    BY <1>3 DEF Emptied
  <2>3. f.map = [w.map EXCEPT ![v] = {}]
    BY <1>2, <2>1, <2>2, Zenon
  <2>4. QED
    BY <1>2, <1>3, <2>3 DEF Emptied
<1>5. Sound(f, b, J \ {v})
  BY <1>1, <1>4, Cleared
<1>6. e = [f EXCEPT !.active_sta_count = @ - Cardinality(L \cap w.sta_map[v])]
  BY DEF Deinit, f, d, L
<1> DEFINE n == Cardinality(L \cap w.sta_map[v])
<1> HIDE DEF n
<1>7. e = [f EXCEPT !.active_sta_count = @ - n]
  BY <1>6 DEF n
<1> HIDE DEF e
<1>8. Sound(e, b, J \ {v})
  BY <1>5, <1>7, Frame DEF Sound, Fields
<1>9. QED
  BY <1>8 DEF e

LEMMA SpecificInit ==
    ASSUME NEW b, NEW J, NEW w, Sound(w, b, J), NEW e \in InitVifSpecific(w)
    PROVE  Sound(e, b, J)
<1>1. ASSUME NEW d, Sound(d, b, J) PROVE Sound([d EXCEPT !.ba_count = 0], b, J)
  BY <1>1, Frame DEF Sound, Fields
<1>2. QED
  BY <1>1, Commands, Zenon DEF InitVifSpecific, Then

LEMMA Rebased ==
    ASSUME NEW b, NEW J, NEW w, Sound(w, b, J), NEW K, J \subseteq K
    PROVE  Sound(w, w, K)
BY DEF Sound

\* wl12xx_init_fw turns an OFF chip on.
LEMMA Booted ==
    ASSUME NEW b, NEW J, NEW w, Sound(w, b, J)
    PROVE  /\ Sound(Boot(w), Boot(w), J)
           /\ Boot(w).inited = w.inited /\ Boot(w).up = w.up /\ Boot(w).state = "ON"
<1> DEFINE t == IF OpenCount(w) > 1 \/ w.force_mr = "yes" THEN "MULTI" ELSE "NORMAL"
           x == IF w.force_mr = "yes" /\ w.dwork = "off" THEN "armed" ELSE w.dwork
           e == Boot(w)
<1>1. e = [w EXCEPT !.state = "ON", !.fw_type = t, !.dwork = x, !.force_mr = "no"]
  BY DEF Boot
<1> HIDE DEF t, x, e
<1>2. /\ e.hlid = w.hlid /\ e.links = w.links /\ e.map = w.map /\ e.sta_map = w.sta_map
      /\ e.inited = w.inited /\ e.up = w.up /\ e.state = "ON"
      /\ Fields \subseteq DOMAIN e
  BY <1>1 DEF Sound, Fields
<1>3. Sound(e, e, J)
  <2>1. Owned(w) /\ \A v \in Vifs \ J : w.map[v] = {}
    BY DEF Sound
  <2>2. Owned(e)
    BY <1>2, <2>1, Copied
  <2>3. QED
    BY <1>2, <2>1, <2>2 DEF Sound
<1>4. QED
  BY <1>2, <1>3 DEF e

LEMMA Added ==
    ASSUME NEW w, Core(w), NEW v \in Vifs, NEW e \in OpAddInterface(w, v)
    PROVE  /\ Sound(e, e, e.inited) /\ e.up = w.up
           /\ e.state = "OFF" => e.inited = {}
           /\ e.inited = w.inited \/ (Good(e) /\ e.inited = w.inited \cup {v})
<1> DEFINE J == w.inited
           F(d) == InitVifData(d, v)
           I(i) == [i EXCEPT !.inited = @ \cup {v}]
<1>1. PICK d \in IF w.state = "OFF" THEN {Ok(w)} ELSE Wakeup(w) :
         \/ e \in {d, Err(d)}
         \/ e \in SetupVif(d, v)
  BY DEF OpAddInterface, Then
<1>2. Sound(w, w, J)
  BY DEF Core
<1>3. Sound(d, w, J)
  BY <1>1, <1>2, Returns, Commands
<1>4. CASE e \in {d, Err(d)}
  <2>1. Sound(e, w, J)
    BY <1>3, <1>4, Returns
  <2>2. QED
    BY <2>1, Rebased DEF Core, Sound
<1>5. CASE e \in SetupVif(d, v)
  <2> DEFINE g == BootIfOff(F(d))
  <2>1. Sound(F(d), F(d), J) /\ F(d).inited = J /\ F(d).up = w.up
    <3>1. Sound(F(d), w, J \ {v})
      BY <1>3, Initialised
    <3> HIDE DEF F
    <3>2. QED
      BY <3>1, Rebased DEF Sound
  <2>2. Sound(g, g, J) /\ g.inited = J /\ g.up = w.up /\ g.state # "OFF"
    <3>0. g = IF F(d).state = "OFF" THEN Boot(F(d)) ELSE F(d)
      BY DEF BootIfOff
    <3> HIDE DEF F, g
    <3>1. CASE F(d).state = "OFF"
      <4>1. /\ Sound(Boot(F(d)), Boot(F(d)), J) /\ Boot(F(d)).inited = J
            /\ Boot(F(d)).up = w.up /\ Boot(F(d)).state = "ON"
        BY <2>1, Booted
      <4>2. QED
        BY <3>0, <3>1, <4>1
    <3>2. CASE F(d).state # "OFF"
      BY <2>1, <3>0, <3>2
    <3>3. QED
      BY <3>1, <3>2
  <2> HIDE DEF g, F
  <2>3. PICK y \in EnableVif(g, v) :
           (e = y /\ Good(y)) \/ (e = Err(F(y)) /\ ~Good(y))
    BY <1>5 DEF SetupVif, OnError, g, F
  <2>4. PICK h \in RoleEnable(g, <<v, "main">>) :
           \/ y = h /\ ~Good(h)
           \/ \E i \in InitVifSpecific(h) : (y = i /\ ~Good(i)) \/ (y = I(i) /\ Good(i))
    BY DEF EnableVif, Then
  <2>5. Sound(h, g, J)
    BY <2>2, RoleEnabled
  <2>6. ASSUME NEW i, Sound(i, g, J)
        PROVE  /\ Sound(I(i), I(i), J \cup {v}) /\ I(i).up = w.up
               /\ I(i).inited = J \cup {v} /\ I(i).state # "OFF" /\ Good(I(i)) = Good(i)
    <3> DEFINE x == I(i)
    <3>1. /\ x.inited = i.inited \cup {v} /\ x.up = i.up /\ x.links = i.links
          /\ x.map = i.map /\ x.sta_map = i.sta_map /\ x.hlid = i.hlid
          /\ x.state = i.state /\ x.ret = i.ret /\ Fields \subseteq DOMAIN x
      BY <2>6 DEF Sound, Fields
    <3> HIDE DEF x
    <3>2. Sound(x, x, J \cup {v}) /\ x.up = w.up /\ x.inited = J \cup {v} /\ x.state # "OFF"
      <4>1. /\ Owned(i) /\ i.inited = J /\ i.up = w.up /\ i.state # "OFF"
            /\ \A u \in Vifs \ J : i.map[u] = {}
        BY <2>2, <2>6 DEF Sound
      <4>2. Owned(x)
        BY <3>1, <4>1, Copied
      <4>3. QED
        BY <3>1, <4>1, <4>2 DEF Sound
    <3>3. QED
      BY <3>1, <3>2 DEF x, Good
  <2>7. ASSUME NEW i, Sound(i, g, J)
        PROVE  /\ Sound(Err(F(i)), Err(F(i)), J) /\ Err(F(i)).up = w.up
               /\ Err(F(i)).inited = J /\ Err(F(i)).state # "OFF"
    <3>1. Sound(Err(F(i)), g, J \ {v})
      BY <2>7, Initialised, Returns DEF F
    <3>2. QED
      BY <2>2, <3>1, Rebased, Zenon DEF Sound
  <2> HIDE DEF I
  <2>8. \/ Sound(y, g, J) /\ ~Good(y)
        \/ \E i : Sound(i, g, J) /\ y = I(i) /\ Good(i)
    BY <2>4, <2>5, SpecificInit
  <2>9. CASE Sound(y, g, J) /\ ~Good(y)
    BY <2>3, <2>7, <2>9
  <2>10. ASSUME NEW i, Sound(i, g, J), y = I(i), Good(i)
         PROVE  /\ Sound(e, e, e.inited) /\ e.up = w.up /\ e.state # "OFF"
                /\ Good(e) /\ e.inited = J \cup {v}
    BY <2>3, <2>6, <2>10
  <2>11. QED
    BY <2>8, <2>9, <2>10
<1>6. QED
  BY <1>1, <1>4, <1>5

LEMMA Removed ==
    ASSUME NEW w, Sound(w, w, w.inited), w.state = "OFF" => w.inited = {},
           NEW v \in Vifs, NEW e \in OpRemoveInterface(w, v)
    PROVE  /\ Sound(e, e, e.inited) /\ e.up = w.up
           /\ e.state = "OFF" => e.inited = {}
           /\ e.inited = w.inited \ {v}
<1>1. CASE w.state = "OFF" \/ v \notin w.inited
  BY <1>1 DEF OpRemoveInterface
<1>2. CASE ~(w.state = "OFF" \/ v \notin w.inited)
  <2> DEFINE d == [w EXCEPT !.inited = @ \ {v}]
             J == w.inited
  <2>1. /\ d.inited = J \ {v} /\ d.up = w.up /\ d.links = w.links
        /\ d.map = w.map /\ d.sta_map = w.sta_map /\ d.hlid = w.hlid
        /\ d.state = w.state /\ Fields \subseteq DOMAIN d
    BY DEF Sound, Fields
  <2> HIDE DEF d
  <2>2. Sound(d, d, J)
    <3>1. Owned(w) /\ \A u \in Vifs \ J : w.map[u] = {}
      BY DEF Sound
    <3>2. Owned(d)
      BY <2>1, <3>1, Copied
    <3>3. QED
      BY <2>1, <3>1, <3>2 DEF Sound
  <2>3. e = Deinit(d, v) \/ \E f \in StopVif(d, v) : e = Deinit(f, v)
    BY <1>2 DEF OpRemoveInterface, RemoveInterface, d
  <2>4. ASSUME NEW f, Sound(f, d, J), NEW g \in RestoreFilters(f, v) PROVE Sound(g, d, J)
    BY <2>4, Returns, Commands DEF RestoreFilters
  <2>5. ASSUME NEW f \in StopVif(d, v) PROVE Sound(f, d, J)
    BY <2>2, <2>4, Commands, DevStarts, RoleEnabled DEF StopVif, Then, Always
  <2>6. \E f : Sound(f, d, J) /\ e = Deinit(f, v)
    BY <2>2, <2>3, <2>5
  <2>7. Sound(e, d, J \ {v})
    BY <2>6, Deinitialised
  <2>8. Sound(e, e, J \ {v})
    BY <2>7, Rebased
  <2>9. QED
    BY <1>2, <2>1, <2>7, <2>8 DEF Sound
<1>3. QED
  BY <1>1, <1>2

\* wl1271_op_stop_locked clears links_map when no interface is left.
LEMMA Stopped ==
    ASSUME NEW w, Sound(w, w, {}), w.inited = {}
    PROVE  Core(OpStop(w)) /\ OpStop(w).up = w.up /\ OpStop(w).inited = {}
<1>1. CASE w.state = "OFF"
  BY <1>1 DEF OpStop, Core
<1>2. CASE w.state # "OFF"
  <2> DEFINE e == OpStop(w)
  <2>1. e = [w EXCEPT !.state = "OFF", !.fw_type = "NONE", !.dwork = "off",
                      !.roles = {}, !.roc = {}, !.links = {SystemHlid},
                      !.active_sta_count = 0]
    BY <1>2 DEF OpStop
  <2> HIDE DEF e
  <2>2. /\ e.hlid = w.hlid /\ e.links = {SystemHlid} /\ e.map = w.map
        /\ e.sta_map = w.sta_map /\ e.inited = w.inited /\ e.up = w.up
        /\ e.state = "OFF" /\ Fields \subseteq DOMAIN e
    BY <2>1 DEF Sound, Fields
  <2>3. \A v \in Vifs : w.map[v] = {}
    BY DEF Sound
  <2>4. Owned(e)
    <3>1. Owned(w) /\ SystemHlid \in Hlids
      BY DEF Sound, Owned
    <3>2. /\ \A v \in Vifs : e.map[v] = {} /\ e.sta_map[v] = {}
          /\ \A s \in LinkSlots : e.hlid[s] = Invalid
      BY <2>2, <2>3, <3>1 DEF Owned, LinkSlots
    <3>3. QED
      BY <2>2, <3>1, <3>2 DEF Owned
  <2>5. Sound(e, e, {})
    BY <2>2, <2>3, <2>4 DEF Sound
  <2>6. QED
    BY <2>2, <2>5 DEF Core, e
<1>3. QED
  BY <1>1, <1>2

\* wl1271_recovery_work removes all interfaces and then stops.
LEMMA Recovered ==
    ASSUME NEW w, Core(w)
    PROVE  Core(RecoverAll(w)) /\ RecoverAll(w).up = w.up /\ RecoverAll(w).inited = {}
<1> DEFINE gone == UNION {Returned(w, v) : v \in w.inited}
           Reset(f) == [s \in DOMAIN f |-> IF s[1] \in w.inited THEN Invalid ELSE f[s]]
           Empty(f) == [v \in Vifs |-> IF v \in w.inited THEN {} ELSE f[v]]
           h == Reset(w.hlid)
           r == Reset(w.role)
           m == Empty(w.map)
           t == Empty(w.sta_map)
           B == {b \in w.ba_sta : b[1] \notin w.inited}
           L == {b \in w.ba_link : b[1] \notin gone}
           d == [w EXCEPT !.role = r, !.hlid = h, !.map = m, !.sta_map = t,
                    !.associated = @ \ w.inited, !.state_sent = @ \ w.inited,
                    !.in_use = @ \ w.inited, !.ap_started = @ \ w.inited,
                    !.ba_sta = B, !.ba_link = L, !.inited = {}]
<1>1. RecoverAll(w) = OpStop(d)
  BY DEF RecoverAll
<1> HIDE DEF h, r, m, t, B, L
<1>3. d = [w EXCEPT !.role = r, !.hlid = h, !.map = m, !.sta_map = t,
              !.associated = @ \ w.inited, !.state_sent = @ \ w.inited,
              !.in_use = @ \ w.inited, !.ap_started = @ \ w.inited,
              !.ba_sta = B, !.ba_link = L, !.inited = {}]
  OBVIOUS
<1> HIDE DEF d
<1>4. Fields \subseteq DOMAIN w
  BY DEF Core, Sound
<1>5. /\ d.hlid = h /\ d.links = w.links /\ d.map = m /\ d.sta_map = t
      /\ d.inited = {} /\ d.up = w.up /\ d.state = w.state /\ Fields \subseteq DOMAIN d
  <2>1. d.hlid = h
    BY <1>3, <1>4 DEF Fields
  <2>2. d.map = m
    BY <1>3, <1>4 DEF Fields
  <2>3. d.sta_map = t
    BY <1>3, <1>4 DEF Fields
  <2>4. d.inited = {}
    BY <1>3, <1>4 DEF Fields
  <2>5. d.links = w.links /\ d.up = w.up
    BY <1>3, <1>4 DEF Fields
  <2>6. d.state = w.state
    BY <1>3, <1>4 DEF Fields
  <2>7. DOMAIN d = DOMAIN w
    BY <1>3, Zenon
  <2>8. QED
    BY <1>4, <2>1, <2>2, <2>3, <2>4, <2>5, <2>6, <2>7
<1>6. /\ w.hlid \in [LinkSlots -> Hlids \cup {Invalid}]
      /\ \A v \in Vifs \ w.inited : w.map[v] = {}
      /\ \A s \in LinkSlots : w.hlid[s] # Invalid => w.hlid[s] \in w.map[s[1]]
      /\ \A v \in Vifs : w.sta_map[v] \subseteq w.map[v]
      /\ w.links \in SUBSET Hlids /\ SystemHlid \in w.links
  BY DEF Core, Sound, Owned
<1>7. h = [s \in LinkSlots |-> Invalid]
  <2>1. \A s \in LinkSlots : s[1] \in Vifs
    BY DEF LinkSlots
  <2>2. \A s \in LinkSlots : s[1] \notin w.inited => w.hlid[s] = Invalid
    BY <1>6, <2>1
  <2>3. QED
    BY <1>6, <2>2 DEF h
<1>8. m = [v \in Vifs |-> {}] /\ t = [v \in Vifs |-> {}]
  BY <1>6 DEF m, t
<1>9. Sound(d, d, {})
  <2>1. /\ \A v \in Vifs : d.map[v] = {} /\ d.sta_map[v] = {}
        /\ \A s \in LinkSlots : d.hlid[s] = Invalid
    BY <1>5, <1>7, <1>8
  <2>2. /\ d.map \in [Vifs -> SUBSET Hlids] /\ d.sta_map \in [Vifs -> SUBSET Hlids]
        /\ d.hlid \in [LinkSlots -> Hlids \cup {Invalid}]
    BY <1>5, <1>7, <1>8
  <2>3. Owned(d)
    BY <1>5, <1>6, <2>1, <2>2 DEF Owned
  <2>4. QED
    BY <1>5, <2>1, <2>3 DEF Sound
<1>10. QED
  BY <1>1, <1>5, <1>9, Stopped

LEMMA ChannelConfigured ==
    ASSUME NEW b, NEW J, NEW w, Sound(w, b, J), NEW v \in Vifs \cap J,
           NEW e \in ConfigChannel(w, v)
    PROVE  Sound(e, b, J)
BY Returns, Commands, DevStarts DEF ConfigChannel, Then, Always

-----------------------------------------------------------------------------
(* The actions.                                                            *)

\* A handler that adds and removes no interface.
LEMMA Quiet ==
    ASSUME NEW w, Core(w), NEW e, Sound(e, w, w.inited)
    PROVE  Core(Ok(e)) /\ Ok(e).up = w.up /\ Ok(e).inited = w.inited
<1>1. Sound(Ok(e), w, w.inited)
  BY Returns
<1>2. QED
  BY <1>1 DEF Core, Sound

\* A handler that ends in a state fit for the next one.
LEMMA Settled ==
    ASSUME NEW w, Core(w)
    PROVE  Core(Ok(w)) /\ Ok(w).up = w.up /\ Ok(w).inited = w.inited
<1>1. Sound(w, w, w.inited)
  BY DEF Core
<1>2. QED
  BY <1>1, Quiet

LEMMA OpenSteady == ASSUME Steady, NEW v \in Vifs, Open(v) PROVE Steady'
<1>1. PICK e \in OpAddInterface(wl, v) :
         wl' = Ok(IF Good(e) THEN [e EXCEPT !.up = @ \cup {v}, !.busy = @ \cup (Aps \cap {v})]
                  ELSE IF e.up = {} THEN OpStop(e) ELSE e)
  BY Zenon DEF Open
<1>2. /\ Sound(e, e, e.inited) /\ e.up = wl.up /\ (e.state = "OFF" => e.inited = {})
      /\ e.inited = wl.inited \/ (Good(e) /\ e.inited = wl.inited \cup {v})
      /\ wl.inited \subseteq wl.up
  BY Added DEF Steady, Core
<1>3. CASE Good(e)
  <2> DEFINE B == e.busy \cup (Aps \cap {v})
             d == [e EXCEPT !.up = @ \cup {v}, !.busy = B]
  <2> HIDE DEF B
  <2>1. /\ d.inited = e.inited /\ d.up = e.up \cup {v} /\ d.links = e.links
        /\ d.map = e.map /\ d.sta_map = e.sta_map /\ d.hlid = e.hlid
        /\ d.state = e.state /\ Fields \subseteq DOMAIN d
    BY <1>2 DEF Sound, Fields
  <2>2. wl' = Ok(d)
    BY <1>1, <1>3 DEF B
  <2> HIDE DEF d
  <2>3. Core(d)
    <3>1. Owned(e) /\ \A u \in Vifs \ e.inited : e.map[u] = {}
      BY <1>2 DEF Sound
    <3>2. Owned(d)
      BY <2>1, <3>1, Copied
    <3>3. QED
      BY <1>2, <2>1, <3>1, <3>2 DEF Core, Sound
  <2>4. QED
    BY <2>2, <2>3, Settled DEF Steady, Open, RtnlFree, MutexFree, recon, lock
<1>4. CASE ~Good(e) /\ e.up = {}
  <2>1. e.inited = {}
    BY <1>2, <1>4
  <2>2. wl' = Ok(OpStop(e)) /\ Core(OpStop(e))
    BY <1>1, <1>2, <1>4, <2>1, Stopped
  <2>3. QED
    BY <2>2, Settled DEF Steady, Open, RtnlFree, MutexFree, recon, lock
<1>5. CASE ~Good(e) /\ e.up # {}
  <2>1. wl' = Ok(e) /\ Core(e)
    BY <1>1, <1>2, <1>5 DEF Core
  <2>2. QED
    BY <2>1, Settled DEF Steady, Open, RtnlFree, MutexFree, recon, lock
<1>6. QED
  BY <1>3, <1>4, <1>5

LEMMA CloseSteady == ASSUME Steady, NEW v \in Vifs, Close(v) PROVE Steady'
<1> DEFINE d == [wl EXCEPT !.up = @ \ {v}, !.busy = @ \ {v}]
<1>1. PICK e \in OpRemoveInterface(d, v) : wl' = Ok(IF e.up = {} THEN OpStop(e) ELSE e)
  BY DEF Close
<1>2. /\ d.inited = wl.inited /\ d.up = wl.up \ {v} /\ d.links = wl.links
      /\ d.map = wl.map /\ d.sta_map = wl.sta_map /\ d.hlid = wl.hlid
      /\ d.state = wl.state /\ Fields \subseteq DOMAIN d
  BY DEF Steady, Core, Sound, Fields
<1> HIDE DEF d
<1>3. Sound(d, d, d.inited) /\ (d.state = "OFF" => d.inited = {})
  <2>1. Core(wl) /\ Sound(wl, wl, wl.inited) /\ Owned(wl)
    BY DEF Steady, Core, Sound
  <2>2. Owned(d)
    BY <1>2, <2>1, Copied
  <2>3. QED
    BY <1>2, <2>1, <2>2 DEF Core, Sound
<1>4. /\ Sound(e, e, e.inited) /\ e.up = wl.up \ {v} /\ (e.state = "OFF" => e.inited = {})
      /\ e.inited = wl.inited \ {v} /\ wl.inited \subseteq wl.up
  <2>1. /\ Sound(e, e, e.inited) /\ e.up = d.up /\ (e.state = "OFF" => e.inited = {})
        /\ e.inited = d.inited \ {v}
    BY <1>3, Removed
  <2>2. wl.inited \subseteq wl.up
    BY DEF Steady, Core
  <2>3. QED
    BY <1>2, <2>1, <2>2
<1>5. CASE e.up = {}
  <2>1. e.inited = {}
    BY <1>4, <1>5
  <2>2. wl' = Ok(OpStop(e)) /\ Core(OpStop(e))
    BY <1>1, <1>4, <1>5, <2>1, Stopped
  <2>3. QED
    BY <2>2, Settled DEF Steady, Close, RtnlFree, MutexFree, recon, lock
<1>6. CASE e.up # {}
  <2>1. wl' = Ok(e) /\ Core(e)
    BY <1>1, <1>4, <1>6 DEF Core
  <2>2. QED
    BY <2>1, Settled DEF Steady, Close, RtnlFree, MutexFree, recon, lock
<1>7. QED
  BY <1>5, <1>6

\* The handlers that inform the driver of a change of an interface.
LEMMA InformSteady ==
    ASSUME Steady, NEW v \in Vifs
    PROVE  /\ StartWork(v) => Steady'
           /\ EndWork(v) => Steady'
           /\ RecalcIdle(v) => Steady'
           /\ Associate(v) => Steady'
           /\ Disassociate(v) => Steady'
           /\ SetBeacon(v) => Steady'
           /\ DelBeacon(v) => Steady'
           /\ ReconfigBss(v) => Steady'
<1>1. Sound(wl, wl, wl.inited)
  BY DEF Steady, Core
<1>2. ASSUME NEW changed, NEW ass, NEW up, NEW bea,
             NEW e \in OpBssInfo(wl, v, changed, ass, up, bea)
      PROVE  Sound(e, wl, wl.inited)
  BY <1>1, Informed
<1>3. ASSUME NEW needed, NEW e \in Recalc(wl, v, needed)
      PROVE  Sound(e, wl, wl.inited)
  <2> DEFINE B == IF v \in needed THEN wl.busy \cup {v} ELSE wl.busy \ {v}
             d == [wl EXCEPT !.busy = B]
  <2> HIDE DEF B
  <2>1. Sound(d, wl, wl.inited) /\ d.inited = wl.inited
    BY <1>1, Frame DEF Sound, Fields
  <2>2. e = wl \/ e \in OpBssInfo(d, v, {"IDLE"}, assoc, oper, beacon)
    BY <1>3 DEF Recalc, B
  <2> HIDE DEF d
  <2>3. QED
    BY <1>1, <2>1, <2>2, Informed
<1>4. ASSUME NEW e, Sound(e, wl, wl.inited), wl' = Ok(e),
             phase' = phase, pending' \subseteq pending, UNCHANGED lock
      PROVE  Steady'
  BY <1>4, Quiet DEF Steady, lock
<1>5. StartWork(v) => Steady'
  BY <1>3, <1>4 DEF StartWork, recon
<1>6. EndWork(v) => Steady'
  BY <1>3, <1>4 DEF EndWork, recon
<1>7. RecalcIdle(v) => Steady'
  BY <1>3, <1>4 DEF RecalcIdle, recon
<1>8. Associate(v) => Steady'
  BY <1>2, <1>4 DEF Associate, recon
<1>9. Disassociate(v) => Steady'
  BY <1>2, <1>4 DEF Disassociate, recon
<1>10. SetBeacon(v) => Steady'
  BY <1>2, <1>4 DEF SetBeacon, recon
<1>11. DelBeacon(v) => Steady'
  BY <1>2, <1>4 DEF DelBeacon, recon
<1>12. ReconfigBss(v) => Steady'
  BY <1>2, <1>4 DEF ReconfigBss
<1>13. QED
  BY <1>5, <1>6, <1>7, <1>8, <1>9, <1>10, <1>11, <1>12

\* wl1271_op_config before its loop.
LEMMA ConfigSteady == ASSUME Steady, Config PROVE Steady'
<1>1. PICK e \in Wakeup(wl) :
         wl' = Ok(e) /\ left' = IF Good(e) THEN wl.inited \cap Stas ELSE {}
  BY DEF Config
<1>2. Sound(e, wl, wl.inited)
  BY Commands DEF Steady, Core
<1>3. QED
  BY <1>1, <1>2, Quiet DEF Config, Steady, recon

\* The loops of dev_notify and op_config, and the state of the netdev.
LEMMA LoopSteady ==
    ASSUME Steady, NEW v \in Vifs
    PROVE  /\ LinkUp(v) => Steady'
           /\ LinkDown(v) => Steady'
           /\ NotifyVif(v) => Steady'
           /\ ConfigVif(v) => Steady'
<1>1. Sound(wl, wl, wl.inited)
  BY DEF Steady, Core
<1>2. ASSUME NEW e, Sound(e, wl, wl.inited), wl' = Ok(e),
             UNCHANGED recon, left' \subseteq wl.inited
      PROVE  Steady'
  BY <1>2, Quiet DEF Steady, recon
<1>3. LinkUp(v) => Steady'
  BY DEF LinkUp, Steady, recon
<1>4. LinkDown(v) => Steady'
  BY DEF LinkDown, Steady, recon, lock
<1>5. ASSUME NotifyVif(v) PROVE Steady'
  <2>1. PICK e \in IF v \in wl.associated THEN Wakeup(wl) ELSE {wl} :
           /\ left' = IF Good(e) THEN left \ {v} ELSE {}
           /\ \E f \in IF Good(e) /\ v \in wl.associated
                       THEN CheckOperstate(e, v, oper) ELSE {e} : wl' = Ok(f)
    BY <1>5 DEF NotifyVif
  <2>2. Sound(e, wl, wl.inited)
    BY <1>1, <2>1, Commands
  <2>3. PICK f : Sound(f, wl, wl.inited) /\ wl' = Ok(f)
    BY <2>1, <2>2, Authorised
  <2>4. left' \subseteq wl.inited /\ UNCHANGED recon
    BY <1>5, <2>1, Zenon DEF NotifyVif, Steady
  <2>5. QED
    BY <1>2, <2>3, <2>4
<1>6. ASSUME ConfigVif(v) PROVE Steady'
  <2>1. PICK e \in ConfigChannel(wl, v) :
           wl' = Ok(e) /\ left' = IF Good(e) THEN left \ {v} ELSE {}
    BY <1>6 DEF ConfigVif
  <2>2. v \in wl.inited /\ left \subseteq wl.inited
    BY <1>6 DEF ConfigVif, Steady
  <2>3. Sound(e, wl, wl.inited)
    BY <1>1, <2>2, ChannelConfigured
  <2>4. QED
    BY <1>2, <1>6, <2>1, <2>2, <2>3 DEF ConfigVif
<1>7. QED
  BY <1>3, <1>4, <1>5, <1>6

\* Clients and their block-ack sessions.  A client that is handed over for an
\* interface that is not initialised is marked "stray".
LEMMA ClientSteady ==
    ASSUME Steady, NEW c \in Clients
    PROVE  /\ StaAdd(c) /\ "stray" \notin odd' => Steady'
           /\ StaRemove(c) => Steady'
           /\ ReconfigSta(c) /\ "stray" \notin odd' => Steady'
<1>1. Sound(wl, wl, wl.inited)
  BY DEF Steady, Core
<1>2. ASSUME NEW e, Sound(e, wl, wl.inited), wl' = e,
             phase' = phase, pending' \subseteq pending, UNCHANGED lock
      PROVE  Steady'
  BY <1>2 DEF Steady, lock, Core, Sound
<1>3. ASSUME NEW e, Sound(e, wl, wl.inited)
      PROVE  /\ Sound(Ok(e), wl, wl.inited)
             /\ Sound([Ok(e) EXCEPT !.sta_hlid[c] = 0], wl, wl.inited)
  <2> DEFINE d == Ok(e)
             x == [d.sta_hlid EXCEPT ![c] = 0]
  <2>1. Sound(d, wl, wl.inited)
    BY <1>3, Returns
  <2> HIDE DEF d, x
  <2>2. Sound([d EXCEPT !.sta_hlid = x], wl, wl.inited)
    BY <2>1, Frame DEF Sound, Fields
  <2>3. [d EXCEPT !.sta_hlid[c] = 0] = [d EXCEPT !.sta_hlid = x]
    BY DEF x
  <2>4. QED
    BY <2>1, <2>2, <2>3 DEF d
<1>4. ASSUME "stray" \notin odd', odd' = odd \cup Stray(c), NEW e \in OpStaAdd(wl, c)
      PROVE  Sound(e, wl, wl.inited)
  BY <1>1, <1>4, ClientAdded DEF Stray
<1>5. ASSUME StaAdd(c), "stray" \notin odd' PROVE Steady'
  <2>1. PICK e \in OpStaAdd(wl, c) : wl' = IF Good(e) THEN e ELSE [Ok(e) EXCEPT !.sta_hlid[c] = 0]
    BY <1>5, Zenon DEF StaAdd
  <2>2. Sound(e, wl, wl.inited)
    BY <1>4, <1>5 DEF StaAdd
  <2>3. Sound(wl', wl, wl.inited)
    BY <1>3, <2>1, <2>2
  <2>4. QED
    BY <1>2, <1>5, <2>3 DEF StaAdd, recon
<1>6. ASSUME StaRemove(c) PROVE Steady'
  <2>1. PICK e \in OpStaRemove(wl, c) : wl' = [Ok(e) EXCEPT !.sta_hlid[c] = 0]
    BY <1>6, Zenon DEF StaRemove
  <2>2. Sound(wl', wl, wl.inited)
    BY <1>1, <1>3, <2>1, ClientRemoved
  <2>3. QED
    BY <1>2, <1>6, <2>2 DEF StaRemove, recon
<1>7. ASSUME ReconfigSta(c), "stray" \notin odd' PROVE Steady'
  <2>1. PICK e \in OpStaAdd(wl, c) : wl' = Ok(e)
    BY <1>7 DEF ReconfigSta
  <2>2. Sound(e, wl, wl.inited)
    BY <1>4, <1>7 DEF ReconfigSta
  <2>3. Sound(wl', wl, wl.inited)
    BY <2>1, <2>2, Returns
  <2>4. QED
    BY <1>2, <1>7, <2>3 DEF ReconfigSta
<1>8. QED
  BY <1>5, <1>6, <1>7

LEMMA SessionSteady ==
    ASSUME Steady, NEW p, NEW t
    PROVE  (AmpduStart(p, t) \/ AmpduStop(p, t)) => Steady'
<1>1. Sound(wl, wl, wl.inited)
  BY DEF Steady, Core
<1>2. ASSUME NEW e, Sound(e, wl, wl.inited), wl' = Ok(e), UNCHANGED <<recon, lock>>
      PROVE  Steady'
  BY <1>2, Quiet DEF Steady, lock, recon
<1>3. ASSUME AmpduStart(p, t) PROVE Steady'
  BY <1>1, <1>2, <1>3, Sessions DEF AmpduStart
<1>4. ASSUME AmpduStop(p, t) PROVE Steady'
  BY <1>1, <1>2, <1>4, Sessions DEF AmpduStop
<1>5. QED
  BY <1>3, <1>4

\* Recovery and the restart of the hardware.
LEMMA RecoverySteady ==
    ASSUME Steady
    PROVE  /\ FwCrash => Steady'
           /\ DelayedRecoveryTimer => Steady'
           /\ DelayedRecovery => Steady'
           /\ RecoveryWork => Steady'
           /\ Reconfig => Steady'
           /\ ReconfigNext => Steady'
           /\ \A v \in Vifs : ReconfigAdd(v) => Steady'
<1>1. Sound(wl, wl, wl.inited)
  BY DEF Steady, Core
<1>2. ASSUME NEW e, Sound(e, wl, wl.inited), wl' = e, UNCHANGED <<recon, lock>>
      PROVE  Steady'
  BY <1>2 DEF Steady, lock, recon, Core, Sound
<1>3. FwCrash => Steady'
  BY <1>1, <1>2, Returns DEF FwCrash
<1>4. ASSUME NEW x PROVE Sound([wl EXCEPT !.dwork = x], wl, wl.inited)
  BY <1>1, Frame DEF Sound, Fields
<1>5. ASSUME DelayedRecoveryTimer PROVE Steady'
  <2> DEFINE e == [wl EXCEPT !.dwork = "queued"]
  <2>1. Sound(e, wl, wl.inited)
    BY <1>4
  <2>2. wl' = e /\ UNCHANGED <<recon, lock>>
    BY <1>5 DEF DelayedRecoveryTimer
  <2> HIDE DEF e
  <2>3. QED
    BY <1>2, <2>1, <2>2
<1>6. ASSUME DelayedRecovery PROVE Steady'
  <2> DEFINE e == [wl EXCEPT !.dwork = "off"]
             f == IF SwitchesToMr(e) THEN [e EXCEPT !.force_mr = "yes"] ELSE e
  <2>1. wl' = e \/ \E g \in Wakeup(f) : wl' = Ok(IF Good(g) THEN Recover(g) ELSE g)
    BY <1>6, Zenon DEF DelayedRecovery
  <2>2. Sound(e, wl, wl.inited)
    BY <1>4
  <2> HIDE DEF e
  <2>3. Sound(f, wl, wl.inited)
    BY <2>2, Frame DEF Sound, Fields
  <2> HIDE DEF f
  <2>4. Sound(wl', wl, wl.inited)
    BY <2>1, <2>2, <2>3, Returns, Commands
  <2>5. QED
    BY <1>2, <1>6, <2>4 DEF DelayedRecovery
<1>7. ASSUME RecoveryWork PROVE Steady'
  BY <1>7, Recovered DEF RecoveryWork, MutexFree, Steady, lock
<1>8. Reconfig => Steady'
  BY DEF Reconfig, Steady, lock
<1>9. ReconfigNext => Steady'
  BY DEF ReconfigNext, Steady, lock
<1>10. ASSUME NEW v \in Vifs, ReconfigAdd(v) PROVE Steady'
  <2>1. PICK e \in OpAddInterface(wl, v) : wl' = Ok(e)
    BY <1>10 DEF ReconfigAdd
  <2>2. /\ Sound(e, e, e.inited) /\ e.up = wl.up /\ (e.state = "OFF" => e.inited = {})
        /\ e.inited \subseteq wl.inited \cup {v}
    <3>1. Core(wl)
      BY DEF Steady
    <3>2. QED
      BY <3>1, Added
  <2>3. v \in wl.up /\ wl.inited \subseteq wl.up
    BY <1>10 DEF ReconfigAdd, Steady, Core
  <2>4. Core(e)
    BY <2>2, <2>3 DEF Core
  <2>5. QED
    BY <1>10, <2>1, <2>2, <2>4, Settled DEF ReconfigAdd, MutexFree, Steady, lock
<1>11. QED
  BY <1>3, <1>5, <1>6, <1>7, <1>8, <1>9, <1>10

-----------------------------------------------------------------------------
(* The theorem.                                                            *)

LEMMA StrayKept == "stray" \in odd /\ [Next]_vars => "stray" \in odd'
<1>1. ASSUME "stray" \in odd, NEW v
      PROVE  /\ Open(v) => "stray" \in odd'
             /\ Close(v) => "stray" \in odd'
             /\ ReconfigAdd(v) \/ ReconfigBss(v) => "stray" \in odd'
             /\ SetBeacon(v) \/ DelBeacon(v) => "stray" \in odd'
             /\ NotifyVif(v) \/ ConfigVif(v) => "stray" \in odd'
  <2>1. Open(v) => UNCHANGED odd
    BY Zenon DEF Open
  <2>2. Close(v) => UNCHANGED odd
    BY Zenon DEF Close
  <2>3. (ReconfigAdd(v) \/ ReconfigBss(v)) => UNCHANGED odd
    BY DEF ReconfigAdd, ReconfigBss
  <2>4. (SetBeacon(v) \/ DelBeacon(v)) => UNCHANGED odd
    BY DEF SetBeacon, DelBeacon
  <2>5. (NotifyVif(v) \/ ConfigVif(v)) => UNCHANGED odd
    BY DEF NotifyVif, ConfigVif
  <2>6. QED
    BY <1>1, <2>1, <2>2, <2>3, <2>4, <2>5
<1>2. ASSUME "stray" \in odd, NEW v
      PROVE  /\ StartWork(v) \/ EndWork(v) => "stray" \in odd'
             /\ RecalcIdle(v) \/ Associate(v) => "stray" \in odd'
             /\ Disassociate(v) \/ LinkUp(v) \/ LinkDown(v) => "stray" \in odd'
  BY <1>2, Zenon DEF StartWork, EndWork, RecalcIdle, Associate, Disassociate, LinkUp, LinkDown
<1>3. ASSUME "stray" \in odd, NEW c, NEW t
      PROVE  /\ StaAdd(c) \/ StaRemove(c) \/ ReconfigSta(c) => "stray" \in odd'
             /\ AmpduStart(c, t) \/ AmpduStop(c, t) => "stray" \in odd'
  BY <1>3 DEF StaAdd, StaRemove, ReconfigSta, AmpduStart, AmpduStop
<1>4. ASSUME "stray" \in odd
      PROVE  /\ Config \/ FwCrash \/ DelayedRecoveryTimer => "stray" \in odd'
             /\ DelayedRecovery \/ RecoveryWork \/ Reconfig => "stray" \in odd'
             /\ ReconfigNext \/ UNCHANGED vars => "stray" \in odd'
  BY <1>4 DEF Config, FwCrash, DelayedRecoveryTimer, DelayedRecovery, RecoveryWork,
              Reconfig, ReconfigNext, vars
<1>5. QED
  BY <1>1, <1>2, <1>3, <1>4 DEF Next

\* IInv holds at the start and every step keeps it.
LEMMA Inductive ==
    /\ Init => IInv
    /\ IInv /\ [Next]_vars => IInv'
<1>1. ASSUME Init PROVE IInv
  <2>1. 0 \in Hlids
    BY ConstantsAssumption DEF Hlids
  <2>2. Owned(wl)
    BY <1>1, <2>1, Zenon DEF Init, Owned, SystemHlid, LinkSlots
  <2>3. Core(wl)
    BY <1>1, <2>2, Zenon DEF Init, Core, Sound, Fields
  <2>4. QED
    BY <1>1, <2>3 DEF Init, IInv, Steady
<1>2. ASSUME Steady, [Next]_vars, "stray" \notin odd' PROVE Steady'
  <2>1. CASE UNCHANGED vars
    BY <1>2, <2>1 DEF vars, recon, lock, Steady
  <2>2. Stas \subseteq Vifs /\ Aps \subseteq Vifs
    BY DEF Vifs
  <2>3. ASSUME NEW v \in Vifs, Open(v) \/ Close(v) \/ ReconfigAdd(v) \/ ReconfigBss(v)
        PROVE  Steady'
    BY <1>2, <2>3, OpenSteady, CloseSteady, RecoverySteady, InformSteady
  <2>4. ASSUME NEW v \in Stas,
               \/ StartWork(v) \/ EndWork(v) \/ RecalcIdle(v) \/ Associate(v)
               \/ Disassociate(v) \/ LinkUp(v) \/ NotifyVif(v) \/ LinkDown(v)
               \/ ConfigVif(v)
        PROVE  Steady'
    BY <1>2, <2>2, <2>4, InformSteady, LoopSteady
  <2>5. ASSUME NEW v \in Aps, SetBeacon(v) \/ DelBeacon(v) PROVE Steady'
    BY <1>2, <2>2, <2>5, InformSteady
  <2>6. ASSUME NEW c \in Clients, StaAdd(c) \/ StaRemove(c) \/ ReconfigSta(c) PROVE Steady'
    BY <1>2, <2>6, ClientSteady
  <2>7. ASSUME NEW p, NEW t, AmpduStart(p, t) \/ AmpduStop(p, t) PROVE Steady'
    BY <1>2, <2>7, SessionSteady
  <2>8. ASSUME Config \/ FwCrash \/ DelayedRecoveryTimer \/ DelayedRecovery
               \/ RecoveryWork \/ Reconfig \/ ReconfigNext
        PROVE  Steady'
    BY <1>2, <2>8, ConfigSteady, RecoverySteady
  <2>9. QED
    BY <1>2, <2>1, <2>3, <2>4, <2>5, <2>6, <2>7, <2>8 DEF Next
<1>3. QED
  BY <1>1, <1>2, StrayKept DEF IInv

\* Every link belongs to one interface and one use of it (LinksOwned), for any
\* number of interfaces, clients, roles and links and whatever commands fail.
THEOREM LinksStayOwned == Spec => []LinksOwned
<1>1. IInv => LinksOwned
  <2>1. ASSUME Owned(wl), NEW v \in Vifs
        PROVE  Held(wl, v) \subseteq wl.map[v] \ wl.sta_map[v]
    <3>1. \A x \in LinkSlots : wl.hlid[x] # Invalid =>
                                 wl.hlid[x] \in wl.map[x[1]] \ wl.sta_map[x[1]]
      BY <2>1, Zenon DEF Owned
    <3>2. QED
      BY <3>1, Zenon DEF Held
  <2>2. QED
    BY <2>1, Zenon DEF IInv, Steady, Core, Sound, Owned, LinksOwned
<1>2. QED
  BY <1>1, Inductive, PTL DEF Spec

=============================================================================
