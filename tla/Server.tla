------------------------------- MODULE Server -------------------------------
(***************************************************************************)
(* The server side of the nosd socket, internal/nosd/server: a request is  *)
(* decoded and becomes one operation of the datapath.                      *)
(***************************************************************************)
EXTENDS Mem

Layer2(s, op, a) ==
    CASE op = "port.admin"    -> SetPortAdmin(s, a.Name, a.Up)
      [] op = "port.mtu"      -> SetPortMTU(s, a.Name, a.MTU)
      [] op = "port.counters" -> PortCounters(s, a.Name)
      [] op = "vlan.add"      -> AddVLAN(s, a.VID)
      [] op = "vlan.del"      -> DelVLAN(s, a.VID)
      [] op = "vlan.port"     -> SetPortVLAN(s, a.Port, a.VID, a.Tagged)
      [] op = "vlan.port.del" -> DelPortVLAN(s, a.Port, a.VID)

Links(s, op, a) ==
    CASE op = "lag.add"       -> AddLAG(s, a.Name, a.LACP)
      [] op = "lag.members"   -> SetLAGMembers(s, a.Name, a.Ports)
      [] op = "lag.del"       -> DelLAG(s, a.Name)
      [] op = "lag.options"   -> SetLAGOptions(s, a.Name, a.Options)
      [] op = "lacp.priority" -> SetLACPSystemPriority(s, a.Priority)
      [] op = "stp.set"       -> SetSTP(s, a)
      [] op = "stp.port"      -> SetSTPPort(s, a.Name, a.Config)
      [] op = "mlag.set"      -> SetMLAG(s, a)
      [] op = "lag.mlag"      -> SetLAGMLAG(s, a.Name, a.ID)
      [] op = "mac.aging.set" -> SetMACAging(s, a.Seconds)
      [] op = "vlan.tunnel"   -> SetPortTunnel(s, a.Name, a.SVID)
      [] op = "port.tpid"     -> SetPortTPID(s, a.Name, a.TPID)

Layer3(s, op, a) ==
    CASE op = "gateway.mac"   -> SetVirtualMAC(s, a.MAC)
      [] op = "gateway.add"   -> AddVirtualGateway(s, a.SVI, a.Prefix)
      [] op = "gateway.del"   -> DelVirtualGateway(s, a.SVI, a.Prefix)
      [] op = "svi.add"       -> AddSVI(s, a.VID)
      [] op = "svi.del"       -> DelSVI(s, a.VID)
      [] op = "l3.addr.add"   -> AddAddress(s, a.Port, a.Prefix)
      [] op = "l3.addr.del"   -> DelAddress(s, a.Port, a.Prefix)
      [] op = "l3.route.add"  -> AddRoute(s, a)
      [] op = "l3.route.del"  -> DelRoute(s, a.Prefix)

AccessLists(s, op, a) ==
    CASE op = "acl.set" -> LET p == ParseACLRule(a.Seq, a.Rule)
                           IN  IF p.ok THEN SetACL(s, p.rule) ELSE Refused(s)
      [] op = "acl.del" -> DelACL(s, a.Seq)

Layer2Ops == {"port.admin", "port.mtu", "port.counters", "vlan.add", "vlan.del",
              "vlan.port", "vlan.port.del"}
LinkOps == {"lag.add", "lag.members", "lag.del", "lag.options", "lacp.priority", "stp.set",
            "stp.port", "mlag.set", "lag.mlag", "mac.aging.set", "vlan.tunnel", "port.tpid"}
Layer3Ops == {"gateway.mac", "gateway.add", "gateway.del", "svi.add", "svi.del",
              "l3.addr.add", "l3.addr.del", "l3.route.add", "l3.route.del"}

dispatch(s, req) ==
    IF req.op \in Layer2Ops THEN Layer2(s, req.op, req.args)
    ELSE IF req.op \in LinkOps THEN Links(s, req.op, req.args)
    ELSE IF req.op \in Layer3Ops THEN Layer3(s, req.op, req.args)
    ELSE IF req.op \in {"acl.set", "acl.del"} THEN AccessLists(s, req.op, req.args)
    ELSE Refused(s)
=============================================================================
