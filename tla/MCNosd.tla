-------------------------------- MODULE MCNosd --------------------------------
(***************************************************************************)
(* Instances of Nosd: three ports, three LAG names, and scenarios that put *)
(* the daemon, the script, the operator and the suite through their paces. *)
(***************************************************************************)
EXTENDS Nosd

MCPorts == {"swp1", "swp2", "swp3"}
MCLagNames == {"po1", "po2", "po3"}
MCVIDs == {10, 20, 100, 200, 300, 301, 302, 303}
MCSVIName == [v \in MCVIDs |->
    CASE v = 10 -> "vlan10" [] v = 20 -> "vlan20" [] v = 100 -> "vlan100" [] v = 200 -> "vlan200"
      [] v = 300 -> "vlan300" [] v = 301 -> "vlan301" [] v = 302 -> "vlan302" [] v = 303 -> "vlan303"]
MCAtoi == [w \in {"22"} |-> 22]
MCText == [n \in {22} |-> "22"]
MCPrefix == [w \in {"192.0.2.0/24", "2001:db8::/32"} |->
                [family |-> IF w = "192.0.2.0/24" THEN 4 ELSE 6, name |-> w]]
-----------------------------------------------------------------------------
(* Capabilities: everything, nothing, all but one, one alone; each with what
   it rests on. *)
CapNames == {"VLANs", "SVIs", "LAGs", "LACP", "STP", "MLAG", "VirtualGateway", "VirtualGateway6",
             "MACAging", "QinQ", "L3", "ECMP", "ACL", "ACL6", "Counters"}
Needs == [c \in CapNames |->
    CASE c \in {"SVIs", "QinQ"} -> {"VLANs"}
      [] c \in {"LACP", "MLAG"} -> {"LAGs"}
      [] c = "VirtualGateway"   -> {"VLANs", "SVIs"}
      [] c = "VirtualGateway6"  -> {"VLANs", "SVIs", "VirtualGateway"}
      [] c = "ECMP"             -> {"L3"}
      [] OTHER                  -> {}]
Caps(on, limit) == [c \in CapNames \cup {"MaxLAGs", "MaxLAGMembers", "MaxECMP"} |->
                       IF c \in CapNames THEN c \in on ELSE limit]
CapSets == {CapNames, {}} \cup {{c} \cup Needs[c] : c \in CapNames}
           \cup {{d \in CapNames \ {c} : c \notin Needs[d]} : c \in CapNames}
Full == Caps(CapNames, 0)
-----------------------------------------------------------------------------
(* Lines of a file *)
access(p, v) == [kind |-> "switchport", port |-> p, mode |-> "access", want |-> [x \in {v} |-> FALSE], tpid |-> 0]
trunk(p, native, tagged, tpid) == [kind |-> "switchport", port |-> p, mode |-> "trunk",
                                   want |-> [v \in {native} \cup tagged |-> v # native], tpid |-> tpid]
none(p) == [kind |-> "switchport", port |-> p, mode |-> "none", want |-> [v \in {} |-> FALSE], tpid |-> 0]
tunnel(p, v) == [kind |-> "switchport", port |-> p, mode |-> "tunnel", vid |-> v]
lag(l, ports, id) == [kind |-> "lag", name |-> l, mode |-> "lacp", ports |-> ports,
                      opts |-> [PlainLAG EXCEPT !.Rate = "slow"], mlag |-> id]
nolag(l) == [kind |-> "lag", name |-> l, mode |-> "none"]
mlag(p) == [kind |-> "mlag", cfg |-> PeerLinkOn(p)]
vlan(do, v) == [kind |-> "vlan", do |-> do, vid |-> v]
stp == [kind |-> "stp", mode |-> "on", cfg |-> STPOn(4096)]
edge(p) == [kind |-> "stp", mode |-> "port", port |-> p, cfg |-> [PlainPort EXCEPT !.Edge = TRUE]]
iface(n, v, mac, vrf) == [kind |-> "iface", name |-> n, vid |-> v, mac |-> mac, vrf |-> vrf]
route(n) == [kind |-> "route", dev |-> n]
gateway(v) == [kind |-> "gateway", do |-> "add", vid |-> v, addr |-> Gw4]
ungateway(v) == [kind |-> "gateway", do |-> "del", vid |-> v, addr |-> Gw4]
gatewaymac == [kind |-> "gateway", do |-> "mac", mac |-> DefaultVirtualMAC]
aging(sec) == [kind |-> "mac", sec |-> sec]
lacppri(p) == [kind |-> "lacp", prio |-> p]
interface(p, on) == [kind |-> "interface", port |-> p, up |-> on]
mtu(p, n) == [kind |-> "interface", port |-> p, mtu |-> n]
routed(do, n) == [kind |-> "route", do |-> do, route |-> [Prefix |-> "10.1.0.0/24", paths |-> n]]
acl(seq, words) == [kind |-> "acl", do |-> "set", rule |-> Rule(seq, words)]
noacl(seq) == [kind |-> "acl", do |-> "del", seq |-> seq]
nosvi(v) == [kind |-> "svi", do |-> "del", vid |-> v]

(* The switch after the commands of some lines, none interrupted. *)
RECURSIVE Ran(_, _)
Ran(s, todo) ==
    IF todo = <<>> THEN s
    ELSE LET r == dispatch(s, Head(todo).req) IN Ran(r.st, Rest(todo, r.err))
RECURSIVE Typed(_, _)
Typed(s, lines) == IF lines = <<>> THEN s ELSE Typed(Ran(s, switchCmd(s, Head(lines))), Tail(lines))
-----------------------------------------------------------------------------
(* A file with a line of every kind, in an order the passes must put right. *)
BootFile ==
    <<iface("eth0", 0, "auto", TRUE), route("eth0"),
      gateway(10), gatewaymac,
      vlan("add", 10), access("swp1", 10), iface("vlan10", 10, "none", FALSE), route("vlan10"),
      iface("swp3", 0, "given", FALSE), interface("swp1", TRUE),
      stp, edge("swp1"), mlag("po1"), lag("po1", {"swp2"}, 0), lacppri(200), aging(120)>>

(* Ports, a native VLAN, an MLAG id and the peer-link change places. *)
OldFile == <<lag("po1", {"swp1", "swp2"}, 1), lag("po2", {}, 0), mlag("po2"),
             vlan("add", 10), vlan("add", 20), access("swp3", 10), trunk("po1", 10, {20}, 34984)>>
NewFile == <<lag("po2", {"swp1", "swp3"}, 1), lag("po1", {"swp2"}, 0), mlag("po1"),
             stp, vlan("add", 10), vlan("add", 20),
             none("swp3"), trunk("po1", 20, {10}, 0), access("po2", 20)>>

(* Two LAGs exchange their members. *)
SwapOld == <<lag("po1", {"swp1"}, 0), lag("po2", {"swp2"}, 0)>>
SwapNew == <<lag("po1", {"swp2"}, 0), lag("po2", {"swp1"}, 0)>>

Plain == [file |-> <<>>, up |-> TRUE, caps |-> Full, found |-> New(Full), operator |-> <<>>,
          restarts |-> 0, suite |-> FALSE]

ShortFile == <<iface("eth0", 0, "none", FALSE), vlan("add", 10), vlan("add", 20),
               lag("po1", {"swp2"}, 0), access("swp1", 10), tunnel("po1", 20),
               iface("vlan10", 10, "none", FALSE), gateway(10)>>

(* Commands that contradict the file, and undo what the file does not state. *)
Operators == {
    <<vlan("add", 300), trunk("swp1", 300, {10, 20}, 0), acl(10, <<"deny", "in", "swp1">>)>>,
    <<tunnel("swp1", 20), noacl(10), mtu("swp1", 9000), routed("add", 2), routed("add", 0), routed("del", 1)>>,
    <<nolag("po1"), access("swp2", 20), none("swp2")>>,
    <<nosvi(10), none("swp1"), vlan("del", 10)>>,
    <<none("swp1"), lag("po2", {"swp1"}, 7), lag("po1", {"swp2", "swp3"}, 7), nolag("po2"), ungateway(10)>>}

MCScenarios ==
    {[Plain EXCEPT !.file = BootFile, !.up = FALSE, !.restarts = 1]}
    \cup {[Plain EXCEPT !.file = BootFile]}
    \cup {[Plain EXCEPT !.file = NewFile, !.found = Typed(New(Full), OldFile), !.restarts = r] : r \in {0, 1}}
    \cup {[Plain EXCEPT !.file = ShortFile, !.operator = o] : o \in Operators}
    \cup {[Plain EXCEPT !.suite = TRUE, !.caps = Caps(on, l),
                        !.found = Typed(New(Caps(on, l)), <<vlan("add", 10), access("swp3", 10)>>)] :
            on \in CapSets, l \in {0, 4}}
SwapScenarios == {[Plain EXCEPT !.file = SwapNew, !.found = Typed(New(Full), SwapOld)]}
=============================================================================
