--------------------------------- MODULE Mem ---------------------------------
(***************************************************************************)
(* The in-memory datapath, internal/nosd/mem: the reference the contract   *)
(* is developed against.  Every operation is a function of the switch and  *)
(* its arguments, giving the switch after it and how the call came out;    *)
(* the mutex makes each one a single step.                                 *)
(***************************************************************************)
EXTENDS Acl, FiniteSets

CONSTANTS Ports,      \* the front-panel ports
          LagNames,   \* the names a LAG may have
          VIDs,       \* the VLAN ids in play
          SVIName,    \* the name of a VLAN's routed interface
          NoLag       \* of a port that is a member of no LAG

Names == Ports \cup LagNames
Memberships == {"none", "untagged", "tagged"}
Outside == [v \in VIDs |-> "none"]         \* a routed port's memberships

ASSUME NamesAssumption ==
    /\ VIDs \subseteq 1 .. 4094
    /\ Ports \cap LagNames = {}
    /\ NoLag \notin LagNames
    /\ SVIName \in [VIDs -> STRING]
    /\ \A v, w \in VIDs : SVIName[v] = SVIName[w] => v = w

NoMLAG == [Enabled |-> FALSE, PeerLink |-> NoPort, PeerAddress |-> "", Priority |-> 0,
           HelloMs |-> 0, DeadMs |-> 0, SettleMs |-> 0, HeartbeatPort |-> 0, ReloadDelay |-> 0]
DefaultSTP == [Enabled |-> FALSE, Priority |-> STPDefaultPriority,
               HelloTime |-> 0, ForwardDelay |-> 0, MaxAge |-> 0]
PlainPort == [Edge |-> FALSE, Cost |-> 0, Priority |-> 0, BPDUGuard |-> FALSE, RootGuard |-> FALSE]
PlainLAG == [Rate |-> "", Passive |-> FALSE, PortPriority |-> 0]

(* A switch just made.  A name that is no interface yet has the values a new
   one starts with, and gets them back when the LAG is deleted. *)
New(caps) ==
    [caps    |-> caps,
     vlans   |-> {},
     svis    |-> {},
     memb    |-> [n \in Names |-> Outside],
     tunnel  |-> [n \in Names |-> 0],
     tpid    |-> [n \in Names |-> 0],
     lags    |-> {},
     lagOf   |-> [p \in Ports |-> NoLag],
     lacp    |-> [l \in LagNames |-> FALSE],
     mlagId  |-> [l \in LagNames |-> 0],
     opts    |-> [l \in LagNames |-> PlainLAG],
     gws     |-> {},
     mlag    |-> NoMLAG,
     stp     |-> DefaultSTP,
     stpPort |-> [n \in Names |-> PlainPort],
     lacpPri |-> 0,
     vmac    |-> "",
     aging   |-> DefaultMACAging,
     adminUp |-> [n \in Names |-> n \in LagNames],
     mtu     |-> [n \in Names |-> 1500],
     addrs   |-> {},
     routes  |-> {},
     acls    |-> {}]
-----------------------------------------------------------------------------
(* How a call comes out *)

Ok(s) == [st |-> s, err |-> "ok"]
Refused(s) == [st |-> s, err |-> "refused"]
Unsupported(s) == [st |-> s, err |-> "unsupported"]

(* The shape of nearly every operation: the capability, then the conditions
   that refuse the call, then the change. *)
Result(s, capable, valid, after) ==
    IF ~capable THEN Unsupported(s) ELSE IF ~valid THEN Refused(s) ELSE Ok(after)

lookup(s, n) == n \in Ports \cup s.lags
l3lookup(s, n) == lookup(s, n) \/ \E v \in s.svis : SVIName[v] = n

(* The interface itself, not a member of a LAG that stands for it. *)
OwnInterface(s, n) == lookup(s, n) /\ (n \in Ports => s.lagOf[n] = NoLag)

Members(s, l) == {p \in Ports : s.lagOf[p] = l}
Switched(s, n) == \E v \in VIDs : s.memb[n][v] # "none"
switchable(s) == Ports \cup s.lags
-----------------------------------------------------------------------------
(* Ports *)

SetPortAdmin(s, n, up) ==
    Result(s, TRUE, lookup(s, n), [s EXCEPT !.adminUp[n] = up])

ValidMTU(mtu) == mtu \in 68 .. 9216

SetPortMTU(s, n, mtu) ==
    Result(s, TRUE, lookup(s, n) /\ ValidMTU(mtu), [s EXCEPT !.mtu[n] = mtu])

PortCounters(s, n) == Result(s, s.caps.Counters, lookup(s, n), s)

(* VLANs and the ports in them *)

AddVLAN(s, vid) ==
    Result(s, s.caps.VLANs, ValidVID(vid), [s EXCEPT !.vlans = @ \cup {vid}])

DelVLAN(s, vid) ==
    Result(s, s.caps.VLANs, vid \notin s.svis,
           [s EXCEPT !.vlans = @ \ {vid},
                     !.memb = [n \in Names |-> IF n \in switchable(s)
                                               THEN [s.memb[n] EXCEPT ![vid] = "none"]
                                               ELSE s.memb[n]]])

(* One native VLAN per port: an untagged membership replaces the last. *)
Joined(memb, vid, tagged) ==
    [v \in VIDs |-> IF v = vid THEN IF tagged THEN "tagged" ELSE "untagged"
                    ELSE IF ~tagged /\ memb[v] = "untagged" THEN "none"
                    ELSE memb[v]]

SetPortVLAN(s, n, vid, tagged) ==
    Result(s, s.caps.VLANs,
           OwnInterface(s, n) /\ vid \in s.vlans /\ s.tunnel[n] = 0,
           [s EXCEPT !.memb[n] = Joined(@, vid, tagged)])

DelPortVLAN(s, n, vid) ==
    LET after == [s EXCEPT !.memb[n][vid] = "none",
                           !.tunnel[n] = IF @ = vid THEN 0 ELSE @]
    IN  Result(s, s.caps.VLANs, lookup(s, n),
               IF Switched(after, n) THEN after ELSE [after EXCEPT !.tpid[n] = 0])

SetPortTunnel(s, n, vid) ==
    Result(s, s.caps.QinQ, OwnInterface(s, n) /\ vid \in s.vlans,
           [s EXCEPT !.memb[n] = [Outside EXCEPT ![vid] = "untagged"],
                     !.tunnel[n] = vid])

SetPortTPID(s, n, tpid) ==
    Result(s, s.caps.QinQ, ValidTPID(tpid) /\ lookup(s, n), [s EXCEPT !.tpid[n] = tpid])

AddSVI(s, vid) ==
    Result(s, s.caps.SVIs, vid \in s.vlans, [s EXCEPT !.svis = @ \cup {vid}])

(* A plausible mistake: the interface goes and its gateways stay. *)
DelSVIAlone(s, vid) ==
    Result(s, s.caps.SVIs, TRUE, [s EXCEPT !.svis = @ \ {vid}])

DelSVI(s, vid) ==
    Result(s, s.caps.SVIs, TRUE,
           [s EXCEPT !.svis = @ \ {vid},
                     !.addrs = {a \in @ : vid \in s.svis => a[1] # SVIName[vid]},
                     !.gws = {g \in @ : g.SVI # vid}])
-----------------------------------------------------------------------------
(* LAGs and MLAG *)

AddLAG(s, l, lacp) ==
    Result(s, s.caps.LAGs /\ (lacp => s.caps.LACP),
           /\ l \in LagNames
           /\ \/ l \in s.lags
              \/ s.caps.MaxLAGs = 0
              \/ Cardinality(s.lags) < s.caps.MaxLAGs,
           [s EXCEPT !.lags = @ \cup {l}, !.lacp[l] = lacp])

(* A plausible mistake: only the LAG is looked at, not what else the port is in. *)
SetLAGMembersSwitched(s, l, ports) ==
    Result(s, s.caps.LAGs,
           l \in s.lags /\ \A p \in ports : p \in Ports /\ s.lagOf[p] \in {NoLag, l},
           [s EXCEPT !.lagOf = [p \in Ports |-> IF p \in ports THEN l
                                                ELSE IF s.lagOf[p] = l THEN NoLag
                                                ELSE s.lagOf[p]]])

(* The whole membership at once: a port must be a port, in no other LAG and in
   no VLAN. *)
SetLAGMembers(s, l, ports) ==
    Result(s, s.caps.LAGs,
           /\ l \in s.lags
           /\ s.caps.MaxLAGMembers > 0 => Cardinality(ports) <= s.caps.MaxLAGMembers
           /\ \A p \in ports : /\ p \in Ports
                               /\ s.lagOf[p] \in {NoLag, l}
                               /\ ~Switched(s, p),
           [s EXCEPT !.lagOf = [p \in Ports |-> IF p \in ports THEN l
                                                ELSE IF s.lagOf[p] = l THEN NoLag
                                                ELSE s.lagOf[p]]])

DelLAG(s, l) ==
    Result(s, s.caps.LAGs, TRUE,
           IF l \notin s.lags THEN s
           ELSE [s EXCEPT !.lags = @ \ {l},
                          !.lagOf = [p \in Ports |-> IF s.lagOf[p] = l THEN NoLag ELSE s.lagOf[p]],
                          !.memb[l] = Outside, !.tunnel[l] = 0, !.tpid[l] = 0,
                          !.lacp[l] = FALSE, !.mlagId[l] = 0, !.opts[l] = PlainLAG,
                          !.adminUp[l] = TRUE, !.mtu[l] = 1500,
                          !.addrs = {a \in @ : a[1] # l}])

SetLAGOptions(s, l, o) ==
    Result(s, s.caps.LAGs, ValidLAGOptions(o) /\ l \in s.lags, [s EXCEPT !.opts[l] = o])

SetLACPSystemPriority(s, p) ==
    Result(s, s.caps.LACP, ValidLACPPriority(p), [s EXCEPT !.lacpPri = p])

SetMLAG(s, c) ==
    Result(s, s.caps.MLAG,
           c.Enabled => /\ ValidMLAG(c) /\ ValidMLAGTimes(c)
                        /\ OwnInterface(s, c.PeerLink)
                        /\ c.PeerLink \in s.lags => s.mlagId[c.PeerLink] = 0,
           [s EXCEPT !.mlag = IF c.Enabled THEN c ELSE NoMLAG])

SetLAGMLAG(s, l, id) ==
    Result(s, s.caps.MLAG,
           /\ id \in 0 .. MLAGMaxID
           /\ l \in s.lags
           /\ id # 0 => /\ ~(s.mlag.Enabled /\ s.mlag.PeerLink = l)
                        /\ \A o \in s.lags \ {l} : s.mlagId[o] # id,
           [s EXCEPT !.mlagId[l] = id])
-----------------------------------------------------------------------------
(* Spanning tree, aging, gateways *)

SetSTP(s, c) ==
    Result(s, s.caps.STP, ValidSTPPriority(c.Priority) /\ ValidSTPTimes(c), [s EXCEPT !.stp = c])

SetSTPPort(s, n, c) ==
    Result(s, s.caps.STP,
           ValidSTPCost(c.Cost) /\ ValidSTPPortPriority(c.Priority) /\ OwnInterface(s, n),
           [s EXCEPT !.stpPort[n] = c])

SetMACAging(s, sec) ==
    Result(s, s.caps.MACAging, ValidMACAging(sec), [s EXCEPT !.aging = sec])

SetVirtualMAC(s, mac) ==
    Result(s, s.caps.VirtualGateway, ValidVirtualMAC(mac), [s EXCEPT !.vmac = mac])

(* The address is looked at before the IPv6 capability is. *)
AddVirtualGateway(s, vid, addr) ==
    IF s.caps.VirtualGateway /\ ValidVirtualGateway(addr) /\ addr.family = 6
       /\ ~s.caps.VirtualGateway6
    THEN Unsupported(s)
    ELSE Result(s, s.caps.VirtualGateway, ValidVirtualGateway(addr) /\ vid \in s.svis,
                [s EXCEPT !.gws = @ \cup {[SVI |-> vid, Address |-> addr]}])

DelVirtualGateway(s, vid, addr) ==
    Result(s, s.caps.VirtualGateway, TRUE,
           [s EXCEPT !.gws = @ \ {[SVI |-> vid, Address |-> addr]}])
-----------------------------------------------------------------------------
(* Addresses, routes and access lists; a route is its prefix and the number of
   its next hops. *)

AddAddress(s, n, addr) ==
    Result(s, s.caps.L3, l3lookup(s, n), [s EXCEPT !.addrs = @ \cup {<<n, addr>>}])

DelAddress(s, n, addr) ==
    Result(s, s.caps.L3, l3lookup(s, n), [s EXCEPT !.addrs = @ \ {<<n, addr>>}])

WithoutRoute(s, prefix) == {r \in s.routes : r.Prefix # prefix}

(* Refused rather than silently installing one path. *)
AddRoute(s, r) ==
    IF r.paths > 0 /\ ~SupportsECMP(s.caps, r.paths) THEN Unsupported(s)
    ELSE Result(s, s.caps.L3, r.paths > 0, [s EXCEPT !.routes = WithoutRoute(s, r.Prefix) \cup {r}])

DelRoute(s, prefix) ==
    Result(s, s.caps.L3, TRUE, [s EXCEPT !.routes = WithoutRoute(s, prefix)])

WithoutRule(s, seq) == {r \in s.acls : r.Seq # seq}

SetACL(s, r) ==
    Result(s, IF r.Family = 6 THEN s.caps.ACL6 ELSE s.caps.ACL,
           Validate(r, Ports \cup s.lags),
           [s EXCEPT !.acls = WithoutRule(s, r.Seq) \cup {r}])

DelACL(s, seq) ==
    Result(s, s.caps.ACL \/ s.caps.ACL6, \E r \in s.acls : r.Seq = seq,
           [s EXCEPT !.acls = WithoutRule(s, seq)])
-----------------------------------------------------------------------------
(* What the switch reports *)

VLANs(s) ==
    {[VID |-> v, SVI |-> v \in s.svis,
      Members |-> {[Port |-> n, Tagged |-> s.memb[n][v] = "tagged", Tunnel |-> s.tunnel[n] = v,
                    TPID |-> OrDefault(s.tpid[n], DefaultTPID)] :
                   n \in {m \in switchable(s) : s.memb[m][v] # "none"}}] :
     v \in s.vlans \cap VIDs}

LAGs(s) ==
    {[Name |-> l, LACP |-> s.lacp[l], MLAG |-> s.mlagId[l],
      Members |-> {[Port |-> p, Active |-> s.adminUp[p]] : p \in Members(s, l)},
      Rate |-> IF s.opts[l].Rate = "" THEN "fast" ELSE s.opts[l].Rate,
      Passive |-> s.opts[l].Passive,
      PortPriority |-> OrDefault(s.opts[l].PortPriority, LACPDefaultPriority),
      SystemPriority |-> OrDefault(s.lacpPri, LACPDefaultPriority)] : l \in s.lags}

(* One bridge alone: the root, and every switched interface designated. *)
STP(s) ==
    [Enabled |-> s.stp.Enabled, Priority |-> s.stp.Priority, Times |-> STPTimes(s.stp),
     Ports |-> {[Port |-> n, Edge |-> s.stpPort[n].Edge, BPDUGuard |-> s.stpPort[n].BPDUGuard,
                 RootGuard |-> s.stpPort[n].RootGuard,
                 Cost |-> OrDefault(s.stpPort[n].Cost, STPDefaultCost(10000)),
                 Priority |-> OrDefault(s.stpPort[n].Priority, 128)] :
                n \in {m \in switchable(s) : Switched(s, m) /\ OwnInterface(s, m)}}]

MLAG(s) ==
    [Enabled |-> s.mlag.Enabled, PeerLink |-> s.mlag.PeerLink, Priority |-> s.mlag.Priority,
     Times |-> MLAGTimes(s.mlag), ReloadDelay |-> s.mlag.ReloadDelay,
     PeerLinkUp |-> lookup(s, s.mlag.PeerLink) /\ s.adminUp[s.mlag.PeerLink],
     Interfaces |-> {[LAG |-> l, ID |-> s.mlagId[l],
                      Local |-> \E p \in Members(s, l) : s.adminUp[p]] :
                     l \in {k \in s.lags : s.mlagId[k] # 0}}]

VirtualGateways(s) ==
    {[SVI |-> g.SVI, Address |-> g.Address,
      MAC |-> IF s.vmac = "" THEN DefaultVirtualMAC ELSE s.vmac] : g \in s.gws}

ACLs(s) == {[Seq |-> r.Seq, Rule |-> r, Parsed |-> TRUE, Installed |-> TRUE] : r \in s.acls}
-----------------------------------------------------------------------------
(* What must hold of a switch whatever was asked of it *)

Fields == {"caps", "vlans", "svis", "memb", "tunnel", "tpid", "lags", "lagOf", "lacp", "mlagId",
           "opts", "gws", "mlag", "stp", "stpPort", "lacpPri", "vmac", "aging", "adminUp", "mtu",
           "addrs", "routes", "acls"}

(* The types of what the contract looks at. *)
Shape(s) ==
    /\ DOMAIN s = Fields
    /\ s.memb \in [Names -> [VIDs -> Memberships]]
    /\ DOMAIN s.tunnel = Names
    /\ s.lags \subseteq LagNames
    /\ s.lagOf \in [Ports -> LagNames \cup {NoLag}]
    /\ s.mlagId \in [LagNames -> Nat]

(* An interface the switch has is in a VLAN the switch has, a routed interface
   is on one, and a virtual gateway is on a routed interface.  DelVLAN, DelLAG
   and DelSVI take what hangs off them along, or refuse. *)
NothingDangles(s) ==
    /\ \A n \in Names : \A v \in VIDs : s.memb[n][v] # "none" => v \in s.vlans /\ lookup(s, n)
    /\ s.svis \subseteq s.vlans
    /\ \A g \in s.gws : g.SVI \in s.svis

(* "One native VLAN per port", and a tunnel port's service VLAN is its only
   membership, untagged: SetPortVLAN, SetPortTunnel and DelPortVLAN. *)
OneNative(s) ==
    \A n \in Names :
        /\ \A v, w \in VIDs :
               s.memb[n][v] = "untagged" /\ s.memb[n][w] = "untagged" => v = w
        /\ s.tunnel[n] # 0 =>
               \A v \in VIDs : s.memb[n][v] # "none" => /\ v = s.tunnel[n]
                                                        /\ s.memb[n][v] = "untagged"

(* A member of a LAG is that LAG's and nothing else: the LAG exists, and the
   port is in no VLAN of its own, whichever of the two was asked for first. *)
MembersAreRouted(s) ==
    \A p \in Ports : s.lagOf[p] # NoLag => s.lagOf[p] \in s.lags /\ ~Switched(s, p)

(* An MLAG id names one LAG, and never the peer-link, whatever order the two
   are configured in. *)
MLAGApart(s) ==
    /\ \A l, m \in LagNames : s.mlagId[l] # 0 /\ s.mlagId[l] = s.mlagId[m] => l = m
    /\ \A l \in LagNames : s.mlagId[l] # 0 =>
           l \in s.lags /\ ~(s.mlag.Enabled /\ s.mlag.PeerLink = l)

Contract(s) == NothingDangles(s) /\ OneNative(s) /\ MembersAreRouted(s) /\ MLAGApart(s)
=============================================================================
