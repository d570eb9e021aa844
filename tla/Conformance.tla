----------------------------- MODULE Conformance -----------------------------
(***************************************************************************)
(* The contract's conformance suite, internal/switchapi/conformance.go, as *)
(* the sequence of calls it makes of a switch with the given capabilities  *)
(* and what it wants of each.  A wish that is not met is a problem found,  *)
(* so the sequence is the one the suite follows while all is well: the     *)
(* early returns left in it are those on a capability.                     *)
(***************************************************************************)
EXTENDS Server

CONSTANTS P0, P1      \* ports[0] and ports[1]

C == INSTANCE Client

Unknown == "swp-nonexistent"

(* What is wanted of a call: to succeed, to fail, to fail for a reason other
   than a missing capability, to agree with a capability, or nothing. *)
Must(req) == <<[want |-> {"ok"}, req |-> req]>>
Fails(req) == <<[want |-> {"refused", "unsupported"}, req |-> req]>>
Refuses(req) == <<[want |-> {"refused"}, req |-> req]>>
Try(req) == <<[want |-> {"ok", "refused", "unsupported"}, req |-> req]>>
wantSupport(declared, req) == <<[want |-> {IF declared THEN "ok" ELSE "unsupported"}, req |-> req]>>

(* A report of the switch, and what it must say. *)
See(what, arg, says) == <<[what |-> what, arg |-> arg, says |-> says]>>

When(declared, steps) == IF declared THEN steps ELSE <<>>
-----------------------------------------------------------------------------
(* The reports the suite reads back *)

memberOf(s, port, vid) ==
    {[Tagged |-> m.Tagged, Tunnel |-> m.Tunnel] :
        m \in {k \in UNION {v.Members : v \in {w \in VLANs(s) : w.VID = vid}} : k.Port = port}}

lagNamed(s, l) == {g \in LAGs(s) : g.Name = l}

Report(s, what, a) ==
    CASE what = "admin"    -> s.adminUp[a]
      [] what = "known"    -> lookup(s, a)
      [] what = "member"   -> memberOf(s, a[1], a[2])
      [] what = "tpid"     -> {m.TPID : m \in {k \in UNION {v.Members : v \in VLANs(s)} : k.Port = a}}
      [] what = "svi"      -> \E v \in VLANs(s) : v.VID = a /\ v.SVI
      [] what = "lag"      -> {{m.Port : m \in g.Members} : g \in lagNamed(s, a)}
      [] what = "lacp"     -> {g.LACP : g \in lagNamed(s, a)}
      [] what = "mlag id"  -> {g.MLAG : g \in lagNamed(s, a)}
      [] what = "options"  -> {<<g.Rate, g.PortPriority, g.SystemPriority>> : g \in lagNamed(s, a)}
      [] what = "stp"      -> <<STP(s).Enabled, STP(s).Priority>>
      [] what = "times"    -> STP(s).Times
      [] what = "stp port" -> {<<p.Cost, p.Priority, p.BPDUGuard, p.RootGuard>> :
                                   p \in {q \in STP(s).Ports : q.Port = a}}
      [] what = "mlag"     -> <<MLAG(s).Enabled, MLAG(s).PeerLink>>
      [] what = "mlag cfg" -> <<MLAG(s).Times, MLAG(s).Priority, MLAG(s).ReloadDelay>>
      [] what = "mlag ifs" -> {i.ID : i \in {j \in MLAG(s).Interfaces : j.LAG = a}}
      [] what = "gateway"  -> {g.MAC : g \in {h \in VirtualGateways(s) : h.SVI = a[1] /\ h.Address = a[2]}}
      [] what = "aging"    -> s.aging
      [] what = "route"    -> \E r \in s.routes : r.Prefix = a
      [] what = "acl"      -> {e.Rule.Action : e \in {f \in ACLs(s) : f.Seq = a /\ f.Installed}}

Untagged == {[Tagged |-> FALSE, Tunnel |-> FALSE]}
Tagged == {[Tagged |-> TRUE, Tunnel |-> FALSE]}
Tunnel == {[Tagged |-> FALSE, Tunnel |-> TRUE]}
-----------------------------------------------------------------------------
checkSVIs(caps) ==
    wantSupport(caps.SVIs, C!AddSVI(200))
    \o When(caps.SVIs,
              See("svi", 200, TRUE)
           \o When(caps.L3, Must(C!AddAddress(SVIName[200], "10.99.200.1/24"))
                         \o Must(C!DelAddress(SVIName[200], "10.99.200.1/24")))
           \o Fails(C!DelVLAN(200))
           \o Must(C!DelSVI(200))
           \o Fails(C!AddSVI(4000)))

checkVLANs(caps) ==
    wantSupport(caps.VLANs, C!AddVLAN(100))
    \o When(caps.VLANs,
              Must(C!AddVLAN(200))
           \o Must(C!SetPortVLAN(P0, 100, FALSE))
           \o Must(C!SetPortVLAN(P0, 200, FALSE))
           \o See("member", <<P0, 200>>, Untagged)
           \o See("member", <<P0, 100>>, {})
           \o Must(C!SetPortVLAN(P0, 100, TRUE))
           \o See("member", <<P0, 100>>, Tagged)
           \o See("member", <<P0, 200>>, Untagged)
           \o Must(C!DelPortVLAN(P0, 100))
           \o See("member", <<P0, 100>>, {})
           \o Must(C!DelPortVLAN(P0, 200))
           \o checkSVIs(caps)
           \o Try(C!DelVLAN(200))
           \o Try(C!DelVLAN(100)))

SlowPassive == [Rate |-> "slow", Passive |-> TRUE, PortPriority |-> 100]

checkLAGs(caps) ==
    wantSupport(caps.LAGs, C!AddLAG("po1", FALSE))
    \o When(caps.LAGs,
              Fails(C!AddLAG("bogus", FALSE))
           \o When(caps.LACP,
                     Fails(C!SetLAGOptions("po1", [PlainLAG EXCEPT !.Rate = "medium"]))
                  \o Fails(C!SetLACPSystemPriority(70000))
                  \o Try(C!AddLAG("po1", TRUE))
                  \o Must(C!SetLAGOptions("po1", SlowPassive))
                  \o Must(C!SetLACPSystemPriority(200))
                  \o See("options", "po1", {<<"slow", 100, 200>>})
                  \o Try(C!SetLAGOptions("po1", PlainLAG))
                  \o Try(C!SetLACPSystemPriority(0))
                  \o See("options", "po1", {<<"fast", LACPDefaultPriority, LACPDefaultPriority>>})
                  \o Try(C!AddLAG("po1", FALSE)))
           \o Must(C!SetLAGMembers("po1", {P0, P1}))
           \o See("lag", "po1", {{P0, P1}})
           \o When(caps.VLANs,
                     Must(C!AddVLAN(300))
                  \o Fails(C!SetPortVLAN(P0, 300, FALSE))
                  \o Must(C!SetPortVLAN("po1", 300, FALSE))
                  \o See("member", <<"po1", 300>>, Untagged)
                  \o Try(C!DelPortVLAN("po1", 300))
                  \o Try(C!DelVLAN(300)))
           \o When(caps.L3, Must(C!AddAddress("po1", "10.99.1.1/24"))
                         \o Try(C!DelAddress("po1", "10.99.1.1/24")))
           \o Must(C!SetLAGMembers("po1", {P1}))
           \o See("lag", "po1", {{P1}})
           \o When(caps.LACP, Must(C!AddLAG("po1", TRUE))
                           \o See("lacp", "po1", {TRUE})
                           \o See("lag", "po1", {{P1}}))
           \o Must(C!DelLAG("po1"))
           \o See("lag", "po1", {})
           \o Try(C!DelLAG("po1")))

PeerLinkOn(p) == [NoMLAG EXCEPT !.Enabled = TRUE, !.PeerLink = p]
Stated == [Enabled |-> TRUE, PeerLink |-> P0, PeerAddress |-> "192.0.2.2", Priority |-> 100,
           HelloMs |-> 500, DeadMs |-> 2000, SettleMs |-> 3000, HeartbeatPort |-> 47200,
           ReloadDelay |-> 30]

checkMLAG(caps) ==
    wantSupport(caps.MLAG, C!SetMLAG(NoMLAG))
    \o When(caps.MLAG,
              Fails(C!SetMLAG(PeerLinkOn(Unknown)))
           \o Fails(C!SetMLAG([PeerLinkOn(P0) EXCEPT !.PeerAddress = "bogus"]))
           \o Fails(C!SetMLAG([PeerLinkOn(P0) EXCEPT !.HelloMs = 1000, !.DeadMs = 1500]))
           \o Fails(C!SetMLAG([PeerLinkOn(P0) EXCEPT !.ReloadDelay = 3601]))
           \o Must(C!SetMLAG(Stated))
           \o See("mlag", "", <<TRUE, P0>>)
           \o See("mlag cfg", "", <<MLAGTimes(Stated), 100, 30>>)
           \o Must(C!AddLAG("po2", FALSE))
           \o Must(C!SetLAGMembers("po2", {P1}))
           \o Fails(C!SetLAGMLAG("po2", MLAGMaxID + 1))
           \o Must(C!SetLAGMLAG("po2", 5))
           \o Try(C!AddLAG("po3", FALSE))
           \o Fails(C!SetLAGMLAG("po3", 5))
           \o Fails(C!SetMLAG(PeerLinkOn("po2")))
           \o See("mlag id", "po2", {5})
           \o See("mlag ifs", "po2", {5})
           \o Must(C!SetLAGMLAG("po2", 0))
           \o See("mlag ifs", "po2", {})
           \o Try(C!SetMLAG(NoMLAG)) \o Try(C!DelLAG("po2")) \o Try(C!DelLAG("po3")))

STPOn(prio) == [DefaultSTP EXCEPT !.Enabled = TRUE, !.Priority = prio]
Guarded == [PlainPort EXCEPT !.Cost = 1234, !.Priority = 64, !.BPDUGuard = TRUE, !.RootGuard = TRUE]

checkSTP(caps) ==
    wantSupport(caps.STP, C!SetSTP(DefaultSTP))
    \o When(caps.STP,
              Fails(C!SetSTP(STPOn(1000)))
           \o Fails(C!SetSTP([STPOn(4096) EXCEPT !.HelloTime = 10, !.MaxAge = 6]))
           \o Fails(C!SetSTPPort(P0, [PlainPort EXCEPT !.Priority = 100]))
           \o Must(C!SetSTP([DefaultSTP EXCEPT !.Priority = 4096, !.HelloTime = 1,
                                               !.ForwardDelay = 4, !.MaxAge = 6]))
           \o See("times", "", [HelloTime |-> 1, ForwardDelay |-> 4, MaxAge |-> 6])
           \o Fails(C!SetSTPPort(Unknown, PlainPort))
           \o Fails(C!SetSTPPort(P0, [PlainPort EXCEPT !.Cost = -1]))
           \o Must(C!SetSTPPort(P0, Guarded))
           \o Must(C!SetSTP(STPOn(4096)))
           \o When(caps.VLANs, Must(C!AddVLAN(301)) \o Must(C!SetPortVLAN(P0, 301, TRUE)))
           \o See("stp", "", <<TRUE, 4096>>)
           \o When(caps.VLANs, See("stp port", P0, {<<1234, 64, TRUE, TRUE>>}))
           \o Must(C!SetSTP(DefaultSTP))
           \o See("stp", "", <<FALSE, STPDefaultPriority>>)
           \o When(caps.VLANs, Try(C!DelPortVLAN(P0, 301)) \o Try(C!DelVLAN(301)))
           \o Try(C!SetSTP(DefaultSTP)) \o Try(C!SetSTPPort(P0, PlainPort)))

checkMACAging(caps) ==
    wantSupport(caps.MACAging, C!SetMACAging(DefaultMACAging))
    \o When(caps.MACAging,
              Must(C!SetMACAging(120)) \o See("aging", "", 120)
           \o Must(C!SetMACAging(0)) \o See("aging", "", 0)
           \o Fails(C!SetMACAging(5))
           \o Try(C!SetMACAging(DefaultMACAging)))

checkQinQ(caps) ==
    When(caps.VLANs,
            Must(C!AddVLAN(303))
         \o wantSupport(caps.QinQ, C!SetPortTunnel(P0, 303))
         \o When(caps.QinQ,
                   Must(C!SetPortVLAN(P1, 303, TRUE))
                \o Must(C!SetPortTPID(P1, 34984))
                \o Fails(C!SetPortTPID(P1, 4660))
                \o See("member", <<P0, 303>>, Tunnel)
                \o See("tpid", P1, {34984})
                \o Must(C!DelPortVLAN(P0, 303))
                \o See("member", <<P0, 303>>, {})
                \o Try(C!SetPortTPID(P1, 0))
                \o Try(C!DelPortVLAN(P1, 303))
                \o Try(C!DelPortVLAN(P0, 303)))
         \o Try(C!DelVLAN(303)))

Gw4 == [family |-> 4, scope |-> "global", bits |-> 24]
Gw6 == [family |-> 6, scope |-> "global", bits |-> 64]
LinkLocal == [family |-> 6, scope |-> "link", bits |-> 64]

checkGateway(caps) ==
    wantSupport(caps.VirtualGateway, C!SetVirtualMAC(DefaultVirtualMAC))
    \o When(caps.VirtualGateway, Fails(C!SetVirtualMAC("01:00:5e:00:00:01")))
    \o When(caps.VirtualGateway /\ caps.VLANs /\ caps.SVIs,
              Fails(C!AddVirtualGateway(302, Gw4))
           \o Must(C!AddVLAN(302))
           \o Must(C!AddSVI(302))
           \o (IF caps.VirtualGateway6
               THEN Must(C!AddVirtualGateway(302, Gw6))
                    \o See("gateway", <<302, Gw6>>, {DefaultVirtualMAC})
                    \o Must(C!DelVirtualGateway(302, Gw6))
               ELSE Fails(C!AddVirtualGateway(302, Gw6)))
           \o Fails(C!AddVirtualGateway(302, LinkLocal))
           \o Must(C!AddVirtualGateway(302, Gw4))
           \o See("gateway", <<302, Gw4>>, {DefaultVirtualMAC})
           \o Must(C!DelVirtualGateway(302, Gw4))
           \o See("gateway", <<302, Gw4>>, {})
           \o Must(C!AddVirtualGateway(302, Gw4))
           \o Must(C!DelSVI(302))
           \o See("gateway", <<302, Gw4>>, {})
           \o Try(C!DelSVI(302)) \o Try(C!DelVLAN(302)))

(* The heart of the contract: a multipath route is installed or refused. *)
checkL3(caps) ==
    wantSupport(caps.L3, C!AddAddress(P0, "10.99.0.1/24"))
    \o When(caps.L3,
              Must(C!AddRoute([Prefix |-> "10.100.0.0/24", paths |-> 1]))
           \o See("route", "10.100.0.0/24", TRUE)
           \o Must(C!DelRoute("10.100.0.0/24"))
           \o wantSupport(SupportsECMP(caps, 2), C!AddRoute([Prefix |-> "10.101.0.0/24", paths |-> 2]))
           \o When(SupportsECMP(caps, 2), Try(C!DelRoute("10.101.0.0/24")))
           \o Try(C!DelAddress(P0, "10.99.0.1/24")))

Rule(seq, words) == ParseACLRule(seq, words).rule

checkACLs(caps) ==
    wantSupport(caps.ACL, C!SetACL(Rule(10, <<"deny", "in", P0, "proto", "icmp", "src", "192.0.2.0/24">>)))
    \o When(caps.ACL,
              See("acl", 10, {"deny"})
           \o Must(C!SetACL(Rule(10, <<"permit", "in", P0, "proto", "icmp", "src", "192.0.2.0/24">>)))
           \o See("acl", 10, {"permit"})
           \o Refuses(C!SetACL(Rule(11, <<"deny", "in", Unknown, "proto", "icmp">>)))
           \o Fails(C!SetACL([Rule(12, <<"deny">>) EXCEPT !.DstPort = 22]))
           \o Must(C!DelACL(10))
           \o See("acl", 10, {})
           \o Fails(C!DelACL(10))
           \o wantSupport(caps.ACL6, C!SetACL(Rule(13, <<"deny", "in", P0, "ipv6", "proto", "icmpv6",
                                                         "src", "2001:db8::/32">>)))
           \o When(caps.ACL6, See("acl", 13, {"deny"}) \o Try(C!DelACL(13)))
           \o Try(C!DelACL(10)))

Check(caps) ==
    Must(C!SetPortAdmin(P0, TRUE)) \o See("admin", P0, TRUE)
    \o Try(C!SetPortAdmin(P0, FALSE)) \o See("admin", P0, FALSE)
    \o Try(C!SetPortAdmin(P0, TRUE)) \o See("known", Unknown, FALSE)
    \o checkVLANs(caps) \o checkLAGs(caps) \o checkMLAG(caps) \o checkSTP(caps)
    \o checkMACAging(caps) \o checkQinQ(caps) \o checkGateway(caps) \o checkL3(caps)
    \o checkACLs(caps)
    \o wantSupport(caps.Counters, C!PortCounters(P0))
-----------------------------------------------------------------------------
(* Whether a step of the suite is met by the switch: the answer is the one that
   comes back over the socket. *)
Met(s, step) ==
    IF "req" \in DOMAIN step
    THEN C!Err(C!ErrorResponse(dispatch(s, step.req).err)) \in step.want
    ELSE Report(s, step.what, step.arg) = step.says

After(s, step) == IF "req" \in DOMAIN step THEN dispatch(s, step.req).st ELSE s
=============================================================================
