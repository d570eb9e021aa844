-------------------------------- MODULE MCVirt --------------------------------
(***************************************************************************)
(* Two ports, one LAG and two VLANs of the virtual board, and every        *)
(* request that tells states of them apart.                                *)
(***************************************************************************)
EXTENDS Virt

C == INSTANCE Client

MCSVIName == [v \in VIDs |-> IF v = 10 THEN "vlan10" ELSE "vlan20"]
MCPrefix == [w \in {"192.0.2.0/24"} |-> [family |-> 4, name |-> w]]
MCAtoi == [w \in {} |-> 0]
MCText == [n \in {} |-> ""]
MCCaps ==
    [c \in {"VLANs", "SVIs", "LAGs", "LACP", "STP", "MACAging", "L3", "ECMP", "ACL", "ACL6", "Counters",
            "MLAG", "VirtualGateway", "VirtualGateway6", "QinQ", "MaxLAGs", "MaxLAGMembers", "MaxECMP"} |->
        CASE c \in {"MLAG", "VirtualGateway", "VirtualGateway6", "QinQ"} -> FALSE
          [] c = "MaxLAGs" -> 64 [] c = "MaxLAGMembers" -> 16 [] c = "MaxECMP" -> 32
          [] OTHER -> TRUE]

VLANRequests(names) ==
    {C!AddVLAN(v) : v \in VIDs} \cup {C!DelVLAN(v) : v \in VIDs}
    \cup {C!AddSVI(10), C!DelSVI(10)}
    \cup {C!SetPortVLAN(n, v, t) : n \in names, v \in VIDs, t \in BOOLEAN}
    \cup {C!DelPortVLAN(n, v) : n \in names, v \in VIDs}
LAGRequests ==
    {C!AddLAG("po1", b) : b \in BOOLEAN} \cup {C!DelLAG("po1")}
    \cup {C!SetLAGMembers("po1", s) : s \in SUBSET Ports}
    \cup {C!SetLAGOptions("po1", PlainLAG), C!SetLACPSystemPriority(100)}
BridgeRequests ==
    {C!AddVLAN(10), C!SetPortVLAN("swp1", 10, FALSE), C!DelVLAN(10),
     C!SetSTP([DefaultSTP EXCEPT !.Enabled = TRUE]), C!SetSTPPort("swp1", [PlainPort EXCEPT !.Cost = 100]),
     C!SetSTPPort("swp1", [PlainPort EXCEPT !.Cost = -1]), C!SetMACAging(600), C!SetMACAging(5)}
R(seq, act) == [Seq |-> seq, Family |-> 4, Action |-> act, InPort |-> "swp1", Proto |-> 1,
                Src |-> "192.0.2.0/24", Dst |-> NoPrefix, SrcPort |-> ACLAny, DstPort |-> ACLAny]
ACLRequests == {C!SetACL(R(10, "deny")), C!SetACL(R(10, "permit")), C!SetACL(R(20, "deny")),
                C!SetACL([R(30, "deny") EXCEPT !.InPort = "swp9"]), C!DelACL(10), C!DelACL(20)}

(* One client and commands that work; one whose commands fail and whose daemon
   dies; two at once. *)
Scene(requests, clients, faults) == [requests |-> requests, clients |-> clients, faults |-> faults]
MCScenes ==
    {Scene(VLANRequests({"swp1", "po1"}) \cup LAGRequests, 1, FALSE),
     Scene(BridgeRequests, 1, TRUE),
     Scene(ACLRequests, 1, TRUE),
     Scene(VLANRequests({"swp1"}), 1, TRUE),
     Scene({C!AddVLAN(10), C!SetPortVLAN("swp1", 10, FALSE), C!DelVLAN(10), C!DelPortVLAN("swp1", 10),
            C!AddLAG("po1", TRUE), C!DelLAG("po1"), C!SetLAGMembers("po1", {"swp1"})}, 2, TRUE)}
=============================================================================
