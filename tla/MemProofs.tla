------------------------------ MODULE MemProofs ------------------------------
(***************************************************************************)
(* The contract is kept by every operation of the in-memory datapath, for  *)
(* every set of ports, LAG names and VLANs, every set of capabilities and  *)
(* every request, well formed or not.                                      *)
(***************************************************************************)
EXTENDS Server, TLAPS

Good(s) == Shape(s) /\ Contract(s)

(* What of a switch the contract looks at. *)
Looked == {"vlans", "svis", "memb", "tunnel", "lags", "lagOf", "mlagId", "gws", "mlag"}

(* An operation that leaves those alone keeps the contract. *)
LEMMA Untouched ==
    ASSUME NEW s, NEW t, Good(s), DOMAIN t = Fields, \A f \in Looked : t[f] = s[f]
    PROVE  Good(t)
<1>1. /\ t.vlans = s.vlans /\ t.svis = s.svis /\ t.memb = s.memb /\ t.tunnel = s.tunnel
      /\ t.lags = s.lags /\ t.lagOf = s.lagOf /\ t.mlagId = s.mlagId /\ t.gws = s.gws
      /\ t.mlag = s.mlag
  BY DEF Looked
<1>2. Shape(t)
  BY <1>1 DEF Good, Shape
<1>3. Contract(t)
  BY <1>1 DEF Good, Contract, NothingDangles, OneNative, MembersAreRouted, MLAGApart, Switched, lookup
<1> QED
  BY <1>2, <1>3 DEF Good

(* A new switch has nothing that could dangle. *)
LEMMA NewIsGood == ASSUME NEW caps PROVE Good(New(caps))
<1>1. Shape(New(caps))
  BY NamesAssumption, SMTT(60) DEF Shape, New, Fields, Names, Memberships, Outside
<1>2. NothingDangles(New(caps)) /\ OneNative(New(caps))
  BY DEF NothingDangles, OneNative, New, Outside
<1>3. MembersAreRouted(New(caps)) /\ MLAGApart(New(caps))
  BY Zenon DEF MembersAreRouted, MLAGApart, New
<1> QED
  BY Zenon, <1>1, <1>2, <1>3 DEF Good, Contract

(* A call that is refused leaves the switch, and one that is not makes the
   change only when it is valid. *)
LEMMA ResultGood ==
    ASSUME NEW s, NEW capable, NEW valid, NEW after, Good(s), capable /\ valid => Good(after)
    PROVE  Good(Result(s, capable, valid, after).st)
BY DEF Result, Ok, Refused, Unsupported
-----------------------------------------------------------------------------
(* VLANs and the ports in them *)

LEMMA AddVLANGood == ASSUME NEW s, Good(s), NEW vid PROVE Good(AddVLAN(s, vid).st)
<1> DEFINE t == [s EXCEPT !.vlans = @ \cup {vid}]
<1>1. Good(t)
  BY DEF Good, Shape, Contract, NothingDangles, OneNative, MembersAreRouted, MLAGApart, Switched,
         Fields, lookup
<1> QED
  BY <1>1, ResultGood DEF AddVLAN

(* A change of memberships alone, in which none appears that was not there, is
   a change to fewer. *)
LEMMA Fewer ==
    ASSUME NEW s, Good(s), NEW memb \in [Names -> [VIDs -> Memberships]],
           \A n \in Names : \A v \in VIDs : memb[n][v] \in {"none", s.memb[n][v]},
           NEW t, DOMAIN t = Fields, t.memb = memb,
           \A f \in Looked \ {"vlans", "memb"} : t[f] = s[f],
           \A n \in Names : \A v \in VIDs : memb[n][v] # "none" => v \in t.vlans,
           t.svis \subseteq t.vlans
    PROVE  Good(t)
<1>1. /\ t.svis = s.svis /\ t.tunnel = s.tunnel /\ t.lags = s.lags /\ t.lagOf = s.lagOf
      /\ t.mlagId = s.mlagId /\ t.gws = s.gws /\ t.mlag = s.mlag
  BY DEF Looked
<1>2. Shape(t)
  BY <1>1 DEF Good, Shape
<1>3. NothingDangles(t)
  BY <1>1 DEF Good, Contract, NothingDangles, lookup
<1>4. OneNative(t)
  BY <1>1 DEF Good, Contract, OneNative
<1>5. MembersAreRouted(t)
  BY <1>1 DEF Good, Contract, MembersAreRouted, Switched, Names
<1>6. MLAGApart(t)
  BY <1>1 DEF Good, Contract, MLAGApart
<1> QED
  BY <1>2, <1>3, <1>4, <1>5, <1>6 DEF Good, Contract

LEMMA DelVLANGood == ASSUME NEW s, Good(s), NEW vid PROVE Good(DelVLAN(s, vid).st)
<1> DEFINE memb == [n \in Names |-> IF n \in switchable(s)
                                    THEN [s.memb[n] EXCEPT ![vid] = "none"]
                                    ELSE s.memb[n]]
           t == [s EXCEPT !.vlans = @ \ {vid}, !.memb = memb]
<1>0. DOMAIN s = Fields /\ s.memb \in [Names -> [VIDs -> Memberships]]
  BY DEF Good, Shape
<1>1. memb \in [Names -> [VIDs -> Memberships]]
  BY Zenon, <1>0 DEF Memberships
<1>2. DOMAIN t = Fields /\ t.memb = memb /\ t.vlans = s.vlans \ {vid} /\ t.svis = s.svis
      /\ \A f \in Looked \ {"vlans", "memb"} : t[f] = s[f]
  BY Zenon, <1>0 DEF Fields, Looked
<1>3. \A n \in Names : \A v \in VIDs : memb[n][v] \in {"none", s.memb[n][v]}
  BY <1>0
<1>4. ASSUME NEW n \in Names, NEW v \in VIDs, memb[n][v] # "none" PROVE v \in t.vlans
  <2>1. s.memb[n][v] # "none"
    BY <1>3, <1>4
  <2>2. n \in switchable(s) /\ v \in s.vlans
    BY <2>1 DEF Good, Contract, NothingDangles, switchable, lookup
  <2>3. v # vid
    BY <1>0, <1>4, <2>2
  <2> QED
    BY Zenon, <1>2, <2>2, <2>3
<1>5. ASSUME vid \notin s.svis PROVE Good(t)
  <2>1. t.svis \subseteq t.vlans
    BY Zenon, <1>2, <1>5 DEF Good, Contract, NothingDangles
  <2> HIDE DEF t, memb
  <2> QED
    BY <1>1, <1>2, <1>3, <1>4, <2>1, Fewer
<1> QED
  BY Zenon, <1>5, ResultGood DEF DelVLAN

LEMMA SetPortVLANGood ==
    ASSUME NEW s, Good(s), NEW n, NEW vid, NEW tagged
    PROVE  Good(SetPortVLAN(s, n, vid, tagged).st)
<1> DEFINE j == Joined(s.memb[n], vid, tagged)
           t == [s EXCEPT !.memb[n] = Joined(@, vid, tagged)]
<1>1. ASSUME OwnInterface(s, n), vid \in s.vlans, s.tunnel[n] = 0 PROVE Good(t)
  <2>0. DOMAIN s = Fields /\ s.memb \in [Names -> [VIDs -> Memberships]] /\ s.lags \subseteq LagNames
    BY DEF Good, Shape
  <2>1. n \in Names /\ lookup(s, n) /\ (n \in Ports => s.lagOf[n] = NoLag)
    BY <1>1, <2>0 DEF OwnInterface, lookup, Names
  <2>2. j \in [VIDs -> Memberships]
    BY <2>0, <2>1 DEF Joined, Memberships
  <2>3. /\ DOMAIN t = Fields /\ t.memb = [s.memb EXCEPT ![n] = j]
        /\ t.vlans = s.vlans /\ t.svis = s.svis /\ t.tunnel = s.tunnel /\ t.lags = s.lags
        /\ t.lagOf = s.lagOf /\ t.mlagId = s.mlagId /\ t.gws = s.gws /\ t.mlag = s.mlag
    BY <2>0 DEF Fields
  <2>4. \A v \in VIDs : j[v] # "none" => v = vid \/ s.memb[n][v] # "none"
    BY DEF Joined
  <2>5. \A v, w \in VIDs : j[v] = "untagged" /\ j[w] = "untagged" => v = w
    BY <2>0, <2>1 DEF Joined, Good, Contract, OneNative
  <2> HIDE DEF t, j
  <2>6. Shape(t)
    BY <2>0, <2>1, <2>2, <2>3 DEF Good, Shape
  <2>7. NothingDangles(t)
    BY <1>1, <2>0, <2>1, <2>2, <2>3, <2>4 DEF Good, Contract, NothingDangles, lookup
  <2>8. OneNative(t)
    BY <1>1, <2>0, <2>1, <2>2, <2>3, <2>5 DEF Good, Contract, OneNative
  <2>9. MembersAreRouted(t)
    BY <2>0, <2>1, <2>3 DEF Good, Contract, MembersAreRouted, Switched, Names
  <2>10. MLAGApart(t)
    BY <2>3 DEF Good, Contract, MLAGApart
  <2> QED
    BY <2>6, <2>7, <2>8, <2>9, <2>10 DEF Good, Contract
<1> QED
  BY Zenon, <1>1, ResultGood DEF SetPortVLAN

LEMMA DelPortVLANGood ==
    ASSUME NEW s, Good(s), NEW n, NEW vid PROVE Good(DelPortVLAN(s, n, vid).st)
<1> DEFINE after == [s EXCEPT !.memb[n][vid] = "none",
                              !.tunnel[n] = IF @ = vid THEN 0 ELSE @]
           t == [after EXCEPT !.tpid[n] = 0]
<1>1. ASSUME lookup(s, n) PROVE Good(after)
  <2>0. /\ DOMAIN s = Fields /\ s.memb \in [Names -> [VIDs -> Memberships]]
        /\ DOMAIN s.tunnel = Names /\ s.lags \subseteq LagNames
    BY DEF Good, Shape
  <2>1. n \in Names
    BY <1>1, <2>0 DEF lookup, Names
  <2> DEFINE m == [s.memb[n] EXCEPT ![vid] = "none"]
             u == IF s.tunnel[n] = vid THEN 0 ELSE s.tunnel[n]
  <2>2. m \in [VIDs -> Memberships] /\ \A v \in VIDs : m[v] = IF v = vid THEN "none" ELSE s.memb[n][v]
    BY Zenon, <2>0, <2>1 DEF Memberships
  <2>3. /\ DOMAIN after = Fields /\ after.memb = [s.memb EXCEPT ![n] = m]
        /\ after.tunnel = [s.tunnel EXCEPT ![n] = u]
        /\ after.vlans = s.vlans /\ after.svis = s.svis /\ after.lags = s.lags
        /\ after.lagOf = s.lagOf /\ after.mlagId = s.mlagId /\ after.gws = s.gws
        /\ after.mlag = s.mlag
    BY <2>0, <2>1 DEF Fields
  <2>4. u # 0 => u = s.tunnel[n]
    OBVIOUS
  <2> HIDE DEF after, m, u
  <2>5. Shape(after)
    BY <2>0, <2>1, <2>2, <2>3 DEF Good, Shape
  <2>6. NothingDangles(after)
    BY <2>0, <2>1, <2>2, <2>3 DEF Good, Contract, NothingDangles, lookup
  <2>7. OneNative(after)
    BY <2>0, <2>1, <2>2, <2>3, <2>4 DEF Good, Contract, OneNative
  <2>8. MembersAreRouted(after)
    BY <2>0, <2>1, <2>2, <2>3 DEF Good, Contract, MembersAreRouted, Switched, Names
  <2>9. MLAGApart(after)
    BY <2>3 DEF Good, Contract, MLAGApart
  <2> QED
    BY <2>5, <2>6, <2>7, <2>8, <2>9 DEF Good, Contract
<1>2. ASSUME Good(after) PROVE Good(t)
  <2>1. DOMAIN t = Fields /\ \A f \in Looked : t[f] = after[f]
    BY <1>2 DEF Good, Shape, Fields, Looked
  <2> HIDE DEF t, after
  <2> QED
    BY <1>2, <2>1, Untouched
<1> HIDE DEF t
<1>3. lookup(s, n) => Good(IF Switched(after, n) THEN after ELSE t)
  BY <1>1, <1>2
<1> QED
  BY <1>3, ResultGood DEF DelPortVLAN, t

LEMMA SetPortTunnelGood ==
    ASSUME NEW s, Good(s), NEW n, NEW vid PROVE Good(SetPortTunnel(s, n, vid).st)
<1> DEFINE m == [Outside EXCEPT ![vid] = "untagged"]
           t == [s EXCEPT !.memb[n] = m, !.tunnel[n] = vid]
<1>1. ASSUME OwnInterface(s, n), vid \in s.vlans PROVE Good(t)
  <2>0. /\ DOMAIN s = Fields /\ s.memb \in [Names -> [VIDs -> Memberships]]
        /\ DOMAIN s.tunnel = Names /\ s.lags \subseteq LagNames
    BY DEF Good, Shape
  <2>1. n \in Names /\ lookup(s, n) /\ (n \in Ports => s.lagOf[n] = NoLag)
    BY <1>1, <2>0 DEF OwnInterface, lookup, Names
  <2>2. m \in [VIDs -> Memberships] /\ \A v \in VIDs : m[v] = IF v = vid THEN "untagged" ELSE "none"
    BY Zenon DEF Outside, Memberships
  <2>3. /\ DOMAIN t = Fields /\ t.memb = [s.memb EXCEPT ![n] = m]
        /\ t.tunnel = [s.tunnel EXCEPT ![n] = vid]
        /\ t.vlans = s.vlans /\ t.svis = s.svis /\ t.lags = s.lags /\ t.lagOf = s.lagOf
        /\ t.mlagId = s.mlagId /\ t.gws = s.gws /\ t.mlag = s.mlag
    BY <2>0 DEF Fields
  <2> HIDE DEF t, m
  <2>4. Shape(t)
    BY <2>0, <2>1, <2>2, <2>3 DEF Good, Shape
  <2>5. NothingDangles(t)
    BY <1>1, <2>0, <2>1, <2>2, <2>3 DEF Good, Contract, NothingDangles, lookup
  <2>6. OneNative(t)
    BY <2>0, <2>1, <2>2, <2>3 DEF Good, Contract, OneNative
  <2>7. MembersAreRouted(t)
    BY <2>0, <2>1, <2>2, <2>3 DEF Good, Contract, MembersAreRouted, Switched, Names
  <2>8. MLAGApart(t)
    BY <2>3 DEF Good, Contract, MLAGApart
  <2> QED
    BY <2>4, <2>5, <2>6, <2>7, <2>8 DEF Good, Contract
<1> QED
  BY Zenon, <1>1, ResultGood DEF SetPortTunnel

(* Routed interfaces and their gateways *)

LEMMA AddSVIGood == ASSUME NEW s, Good(s), NEW vid PROVE Good(AddSVI(s, vid).st)
<1> DEFINE t == [s EXCEPT !.svis = @ \cup {vid}]
<1>1. vid \in s.vlans => Good(t)
  BY DEF Good, Shape, Contract, NothingDangles, OneNative, MembersAreRouted, MLAGApart, Switched,
         Fields, lookup
<1> QED
  BY Zenon, <1>1, ResultGood DEF AddSVI

LEMMA DelSVIGood == ASSUME NEW s, Good(s), NEW vid PROVE Good(DelSVI(s, vid).st)
<1> DEFINE t == [s EXCEPT !.svis = @ \ {vid},
                          !.addrs = {a \in @ : vid \in s.svis => a[1] # SVIName[vid]},
                          !.gws = {g \in @ : g.SVI # vid}]
<1>1. /\ DOMAIN t = Fields /\ t.svis = s.svis \ {vid} /\ t.gws = {g \in s.gws : g.SVI # vid}
      /\ t.vlans = s.vlans /\ t.memb = s.memb /\ t.tunnel = s.tunnel /\ t.lags = s.lags
      /\ t.lagOf = s.lagOf /\ t.mlagId = s.mlagId /\ t.mlag = s.mlag
  BY DEF Good, Shape, Fields
<1>2. Good(t)
  BY <1>1 DEF Good, Shape, Contract, NothingDangles, OneNative, MembersAreRouted, MLAGApart,
              Switched, lookup
<1> QED
  BY Zenon, <1>2, ResultGood DEF DelSVI

LEMMA AddVirtualGatewayGood ==
    ASSUME NEW s, Good(s), NEW vid, NEW addr PROVE Good(AddVirtualGateway(s, vid, addr).st)
<1> DEFINE t == [s EXCEPT !.gws = @ \cup {[SVI |-> vid, Address |-> addr]}]
<1>1. vid \in s.svis => Good(t)
  BY DEF Good, Shape, Contract, NothingDangles, OneNative, MembersAreRouted, MLAGApart, Switched,
         Fields, lookup
<1> QED
  BY Zenon, <1>1, ResultGood DEF AddVirtualGateway, Unsupported

LEMMA DelVirtualGatewayGood ==
    ASSUME NEW s, Good(s), NEW vid, NEW addr PROVE Good(DelVirtualGateway(s, vid, addr).st)
<1> DEFINE t == [s EXCEPT !.gws = @ \ {[SVI |-> vid, Address |-> addr]}]
<1>1. Good(t)
  BY DEF Good, Shape, Contract, NothingDangles, OneNative, MembersAreRouted, MLAGApart, Switched,
         Fields, lookup
<1> QED
  BY Zenon, <1>1, ResultGood DEF DelVirtualGateway
-----------------------------------------------------------------------------
(* LAGs and MLAG *)

LEMMA AddLAGGood == ASSUME NEW s, Good(s), NEW l, NEW lacp PROVE Good(AddLAG(s, l, lacp).st)
<1> DEFINE t == [s EXCEPT !.lags = @ \cup {l}, !.lacp[l] = lacp]
<1>1. ASSUME l \in LagNames PROVE Good(t)
  <2>1. /\ DOMAIN t = Fields /\ t.lags = s.lags \cup {l}
        /\ t.vlans = s.vlans /\ t.svis = s.svis /\ t.memb = s.memb /\ t.tunnel = s.tunnel
        /\ t.lagOf = s.lagOf /\ t.mlagId = s.mlagId /\ t.gws = s.gws /\ t.mlag = s.mlag
    BY DEF Good, Shape, Fields
  <2> QED
    BY <1>1, <2>1 DEF Good, Shape, Contract, NothingDangles, OneNative, MembersAreRouted,
                      MLAGApart, Switched, lookup
<1> HIDE DEF t
<1> QED
  BY Zenon, <1>1, ResultGood DEF AddLAG, t

LEMMA SetLAGMembersGood ==
    ASSUME NEW s, Good(s), NEW l, NEW ports PROVE Good(SetLAGMembers(s, l, ports).st)
<1> DEFINE lagOf == [p \in Ports |-> IF p \in ports THEN l
                                     ELSE IF s.lagOf[p] = l THEN NoLag
                                     ELSE s.lagOf[p]]
           t == [s EXCEPT !.lagOf = lagOf]
<1>1. ASSUME l \in s.lags, \A p \in ports : p \in Ports /\ ~Switched(s, p) PROVE Good(t)
  <2>1. /\ DOMAIN t = Fields /\ t.lagOf = lagOf
        /\ t.vlans = s.vlans /\ t.svis = s.svis /\ t.memb = s.memb /\ t.tunnel = s.tunnel
        /\ t.lags = s.lags /\ t.mlagId = s.mlagId /\ t.gws = s.gws /\ t.mlag = s.mlag
    BY DEF Good, Shape, Fields
  <2>2. lagOf \in [Ports -> LagNames \cup {NoLag}]
    BY <1>1 DEF Good, Shape
  <2>3. \A p \in Ports : lagOf[p] \in {l, NoLag, s.lagOf[p]} /\ (lagOf[p] = l => p \in ports \/ l = NoLag)
    OBVIOUS
  <2>4. l # NoLag
    BY <1>1, NamesAssumption DEF Good, Shape
  <2>5. \A p \in Ports : Switched(t, p) <=> Switched(s, p)
    BY <2>1 DEF Switched
  <2> HIDE DEF t, lagOf
  <2>6. MembersAreRouted(t)
    BY <1>1, <2>1, <2>2, <2>3, <2>4, <2>5 DEF Good, Contract, MembersAreRouted
  <2>7. Shape(t)
    BY <2>1, <2>2 DEF Good, Shape
  <2> QED
    BY <2>1, <2>6, <2>7 DEF Good, Contract, NothingDangles, OneNative, MLAGApart, lookup
<1> HIDE DEF t
<1> QED
  BY Zenon, <1>1, ResultGood DEF SetLAGMembers, t

LEMMA DelLAGGood == ASSUME NEW s, Good(s), NEW l PROVE Good(DelLAG(s, l).st)
<1> DEFINE lagOf == [p \in Ports |-> IF s.lagOf[p] = l THEN NoLag ELSE s.lagOf[p]]
           t == [s EXCEPT !.lags = @ \ {l},
                          !.lagOf = lagOf,
                          !.memb[l] = Outside, !.tunnel[l] = 0, !.tpid[l] = 0,
                          !.lacp[l] = FALSE, !.mlagId[l] = 0, !.opts[l] = PlainLAG,
                          !.adminUp[l] = TRUE, !.mtu[l] = 1500,
                          !.addrs = {a \in @ : a[1] # l}]
<1>1. ASSUME l \in s.lags PROVE Good(t)
  <2>0. /\ DOMAIN s = Fields /\ s.memb \in [Names -> [VIDs -> Memberships]]
        /\ DOMAIN s.tunnel = Names /\ s.lags \subseteq LagNames
        /\ s.lagOf \in [Ports -> LagNames \cup {NoLag}] /\ s.mlagId \in [LagNames -> Nat]
    BY DEF Good, Shape
  <2>1. l \in Names /\ l \in LagNames /\ l \notin Ports
    BY <1>1, <2>0, NamesAssumption DEF Names
  <2>2. /\ DOMAIN t = Fields /\ t.lags = s.lags \ {l} /\ t.lagOf = lagOf
        /\ t.memb = [s.memb EXCEPT ![l] = Outside] /\ t.tunnel = [s.tunnel EXCEPT ![l] = 0]
        /\ t.mlagId = [s.mlagId EXCEPT ![l] = 0]
        /\ t.vlans = s.vlans /\ t.svis = s.svis /\ t.gws = s.gws /\ t.mlag = s.mlag
    <3> HIDE DEF lagOf
    <3>1. DOMAIN t = Fields
      BY Zenon, <2>0
    <3>2. t.lags = s.lags \ {l} /\ t.lagOf = lagOf
      BY <2>0 DEF Fields
    <3>3. t.memb = [s.memb EXCEPT ![l] = Outside]
      BY <2>0 DEF Fields
    <3>4. t.tunnel = [s.tunnel EXCEPT ![l] = 0]
      BY <2>0 DEF Fields
    <3>5. t.mlagId = [s.mlagId EXCEPT ![l] = 0]
      BY Zenon, <2>0 DEF Fields
    <3>6. t.vlans = s.vlans /\ t.svis = s.svis
      BY <2>0 DEF Fields
    <3>7. t.gws = s.gws /\ t.mlag = s.mlag
      BY <2>0 DEF Fields
    <3> HIDE DEF t
    <3> QED
      BY <3>1, <3>2, <3>3, <3>4, <3>5, <3>6, <3>7
  <2>3. Outside \in [VIDs -> Memberships] /\ \A v \in VIDs : Outside[v] = "none"
    BY DEF Outside, Memberships
  <2>4. lagOf \in [Ports -> LagNames \cup {NoLag}]
    BY <2>0
  <2>5. \A p \in Ports : lagOf[p] # NoLag => lagOf[p] = s.lagOf[p] /\ lagOf[p] # l
    OBVIOUS
  <2> HIDE DEF t, lagOf
  <2>6. \A p \in Ports : t.memb[p] = s.memb[p]
    BY <2>0, <2>1, <2>2 DEF Names
  <2>7. Shape(t)
    BY <2>0, <2>1, <2>2, <2>3, <2>4 DEF Shape
  <2>8. NothingDangles(t)
    <3>1. ASSUME NEW n \in Names, NEW v \in VIDs, t.memb[n][v] # "none"
          PROVE  v \in t.vlans /\ lookup(t, n)
      BY <2>0, <2>1, <2>2, <2>3, <3>1 DEF Good, Contract, NothingDangles, lookup
    <3> QED
      BY <2>2, <3>1 DEF Good, Contract, NothingDangles
  <2>9. OneNative(t)
    BY <2>0, <2>1, <2>2, <2>3 DEF Good, Contract, OneNative
  <2>10. MembersAreRouted(t)
    BY <2>2, <2>5, <2>6 DEF Good, Contract, MembersAreRouted, Switched
  <2>11. MLAGApart(t)
    BY <2>0, <2>1, <2>2 DEF Good, Contract, MLAGApart
  <2> QED
    BY <2>7, <2>8, <2>9, <2>10, <2>11 DEF Good, Contract
<1> HIDE DEF t
<1> QED
  BY Zenon, <1>1, ResultGood DEF DelLAG, t

LEMMA SetMLAGGood == ASSUME NEW s, Good(s), NEW c PROVE Good(SetMLAG(s, c).st)
<1> DEFINE d == IF c.Enabled THEN c ELSE NoMLAG
           t == [s EXCEPT !.mlag = d]
<1>1. ASSUME c.Enabled => (c.PeerLink \in s.lags => s.mlagId[c.PeerLink] = 0) PROVE Good(t)
  <2>1. /\ DOMAIN t = Fields /\ t.mlag = d
        /\ t.vlans = s.vlans /\ t.svis = s.svis /\ t.memb = s.memb /\ t.tunnel = s.tunnel
        /\ t.lags = s.lags /\ t.lagOf = s.lagOf /\ t.mlagId = s.mlagId /\ t.gws = s.gws
    BY DEF Good, Shape, Fields
  <2>2. d.Enabled => c.Enabled /\ d = c
    BY Zenon DEF NoMLAG
  <2> HIDE DEF t, d
  <2>3. MLAGApart(t)
    BY <1>1, <2>1, <2>2 DEF Good, Contract, MLAGApart
  <2> QED
    BY <2>1, <2>3 DEF Good, Shape, Contract, NothingDangles, OneNative, MembersAreRouted,
                      Switched, lookup
<1> HIDE DEF t
<1> QED
  BY Zenon, <1>1, ResultGood DEF SetMLAG, t

LEMMA SetLAGMLAGGood == ASSUME NEW s, Good(s), NEW l, NEW id PROVE Good(SetLAGMLAG(s, l, id).st)
<1> DEFINE t == [s EXCEPT !.mlagId[l] = id]
<1>1. ASSUME id \in Nat, l \in s.lags,
             id # 0 => /\ ~(s.mlag.Enabled /\ s.mlag.PeerLink = l)
                       /\ \A o \in s.lags \ {l} : s.mlagId[o] # id
      PROVE  Good(t)
  <2>1. /\ DOMAIN t = Fields /\ t.mlagId = [s.mlagId EXCEPT ![l] = id]
        /\ t.vlans = s.vlans /\ t.svis = s.svis /\ t.memb = s.memb /\ t.tunnel = s.tunnel
        /\ t.lags = s.lags /\ t.lagOf = s.lagOf /\ t.gws = s.gws /\ t.mlag = s.mlag
    BY Zenon DEF Good, Shape, Fields
  <2> HIDE DEF t
  <2>2. MLAGApart(t)
    BY <1>1, <2>1 DEF Good, Shape, Contract, MLAGApart
  <2> QED
    BY <1>1, <2>1, <2>2 DEF Good, Shape, Contract, NothingDangles, OneNative, MembersAreRouted,
                            Switched, lookup
<1> HIDE DEF t
<1>2. id \in 0 .. MLAGMaxID => id \in Nat
  BY DEF MLAGMaxID
<1> DEFINE valid == /\ id \in 0 .. MLAGMaxID
                    /\ l \in s.lags
                    /\ id # 0 => /\ ~(s.mlag.Enabled /\ s.mlag.PeerLink = l)
                                 /\ \A o \in s.lags \ {l} : s.mlagId[o] # id
<1>3. valid => Good(t)
  BY <1>1, <1>2
<1> HIDE DEF valid
<1>4. Good(Result(s, s.caps.MLAG, valid, t).st)
  BY <1>3, ResultGood
<1> QED
  BY Zenon, <1>4 DEF SetLAGMLAG, t, valid
-----------------------------------------------------------------------------
(* The operations on what the contract does not look at *)

LEMMA Beside ==
    ASSUME NEW s, Good(s), NEW f \in Fields \ Looked, NEW x PROVE Good([s EXCEPT ![f] = x])
<1> DEFINE t == [s EXCEPT ![f] = x]
<1>1. DOMAIN t = Fields /\ \A g \in Looked : t[g] = s[g]
  BY DEF Good, Shape, Looked, Fields
<1> HIDE DEF t
<1> QED
  BY Zenon, <1>1, Untouched DEF t

LEMMA PortSettingsGood ==
    ASSUME NEW s, Good(s), NEW n, NEW x
    PROVE  /\ Good(SetPortAdmin(s, n, x).st) /\ Good(SetPortMTU(s, n, x).st)
           /\ Good(SetPortTPID(s, n, x).st) /\ Good(PortCounters(s, n).st)
           /\ Good(SetSTPPort(s, n, x).st) /\ Good(SetLAGOptions(s, n, x).st)
<1>1. "adminUp" \in Fields \ Looked /\ "mtu" \in Fields \ Looked /\ "tpid" \in Fields \ Looked
      /\ "stpPort" \in Fields \ Looked /\ "opts" \in Fields \ Looked
  BY DEF Fields, Looked
<1>2. /\ Good([s EXCEPT !.adminUp = [@ EXCEPT ![n] = x]])
      /\ Good([s EXCEPT !.mtu = [@ EXCEPT ![n] = x]])
      /\ Good([s EXCEPT !.tpid = [@ EXCEPT ![n] = x]])
      /\ Good([s EXCEPT !.stpPort = [@ EXCEPT ![n] = x]])
      /\ Good([s EXCEPT !.opts = [@ EXCEPT ![n] = x]])
  BY Zenon, <1>1, Beside
<1>3. Good(SetPortAdmin(s, n, x).st) /\ Good(PortCounters(s, n).st)
  BY Zenon, <1>2, ResultGood DEF SetPortAdmin, PortCounters
<1>4. Good(SetPortMTU(s, n, x).st)
  BY Zenon, <1>2, ResultGood DEF SetPortMTU
<1>5. Good(SetPortTPID(s, n, x).st)
  BY <1>2, ResultGood DEF SetPortTPID
<1>6. Good(SetSTPPort(s, n, x).st)
  BY <1>2, ResultGood DEF SetSTPPort
<1>7. Good(SetLAGOptions(s, n, x).st)
  BY <1>2, ResultGood DEF SetLAGOptions
<1> QED
  BY <1>3, <1>4, <1>5, <1>6, <1>7

LEMMA SwitchSettingsGood ==
    ASSUME NEW s, Good(s), NEW x
    PROVE  /\ Good(SetSTP(s, x).st) /\ Good(SetMACAging(s, x).st) /\ Good(SetVirtualMAC(s, x).st)
           /\ Good(SetLACPSystemPriority(s, x).st)
<1>1. "stp" \in Fields \ Looked /\ "aging" \in Fields \ Looked /\ "vmac" \in Fields \ Looked
      /\ "lacpPri" \in Fields \ Looked
  BY DEF Fields, Looked
<1>2. /\ Good([s EXCEPT !.stp = x]) /\ Good([s EXCEPT !.aging = x])
      /\ Good([s EXCEPT !.vmac = x]) /\ Good([s EXCEPT !.lacpPri = x])
  BY <1>1, Beside
<1> QED
  BY <1>2, ResultGood DEF SetSTP, SetMACAging, SetVirtualMAC, SetLACPSystemPriority

LEMMA RoutingGood ==
    ASSUME NEW s, Good(s), NEW n, NEW x
    PROVE  /\ Good(AddAddress(s, n, x).st) /\ Good(DelAddress(s, n, x).st)
           /\ Good(AddRoute(s, x).st) /\ Good(DelRoute(s, x).st)
           /\ Good(SetACL(s, x).st) /\ Good(DelACL(s, x).st)
<1>1. "addrs" \in Fields \ Looked /\ "routes" \in Fields \ Looked /\ "acls" \in Fields \ Looked
  BY DEF Fields, Looked
<1>2. \A y : Good([s EXCEPT !.addrs = y])
  BY <1>1, Beside
<1>3. \A y : Good([s EXCEPT !.routes = y])
  BY <1>1, Beside
<1>4. \A y : Good([s EXCEPT !.acls = y])
  BY <1>1, Beside
<1>5. Good(AddAddress(s, n, x).st) /\ Good(DelAddress(s, n, x).st)
  BY <1>2, ResultGood DEF AddAddress, DelAddress
<1>6. Good(AddRoute(s, x).st) /\ Good(DelRoute(s, x).st)
  BY Zenon, <1>3, ResultGood DEF AddRoute, DelRoute, Unsupported
<1>7. Good(SetACL(s, x).st) /\ Good(DelACL(s, x).st)
  BY Zenon, <1>4, ResultGood DEF SetACL, DelACL
<1> QED
  BY <1>5, <1>6, <1>7
-----------------------------------------------------------------------------
(* A request *)

LEMMA Layer2Good ==
    ASSUME NEW s, Good(s), NEW op \in Layer2Ops, NEW a PROVE Good(Layer2(s, op, a).st)
BY Zenon, PortSettingsGood, AddVLANGood, DelVLANGood, SetPortVLANGood, DelPortVLANGood
   DEF Layer2, Layer2Ops

LEMMA LinksGood ==
    ASSUME NEW s, Good(s), NEW op \in LinkOps, NEW a PROVE Good(Links(s, op, a).st)
BY AddLAGGood, SetLAGMembersGood, DelLAGGood, PortSettingsGood, SwitchSettingsGood, SetMLAGGood,
   SetLAGMLAGGood, SetPortTunnelGood
   DEF Links, LinkOps

LEMMA Layer3Good ==
    ASSUME NEW s, Good(s), NEW op \in Layer3Ops, NEW a PROVE Good(Layer3(s, op, a).st)
BY Zenon, SwitchSettingsGood, AddVirtualGatewayGood, DelVirtualGatewayGood, AddSVIGood, DelSVIGood,
   RoutingGood
   DEF Layer3, Layer3Ops

LEMMA AccessListsGood ==
    ASSUME NEW s, Good(s), NEW op \in {"acl.set", "acl.del"}, NEW a
    PROVE  Good(AccessLists(s, op, a).st)
BY Zenon, RoutingGood DEF AccessLists, Refused

(* Whatever a request asks of the datapath, and whatever its arguments are,
   the switch that dispatch leaves keeps the contract. *)
THEOREM DispatchGood == ASSUME NEW s, Good(s), NEW req PROVE Good(dispatch(s, req).st)
BY Layer2Good, LinksGood, Layer3Good, AccessListsGood DEF dispatch, Refused
=============================================================================
