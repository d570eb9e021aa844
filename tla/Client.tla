------------------------------- MODULE Client -------------------------------
(***************************************************************************)
(* The client side of the nosd socket, internal/nosd/client: each method   *)
(* is one request, and a request carries the operation's name and its      *)
(* arguments as internal/nosd/proto shapes them.                           *)
(***************************************************************************)
EXTENDS Acl

call(op, args) == [op |-> op, args |-> args]

SetPortAdmin(n, up) == call("port.admin", [Name |-> n, Up |-> up])
SetPortMTU(n, mtu) == call("port.mtu", [Name |-> n, MTU |-> mtu])
PortCounters(n) == call("port.counters", [Name |-> n])

AddVLAN(v) == call("vlan.add", [VID |-> v])
DelVLAN(v) == call("vlan.del", [VID |-> v])
SetPortVLAN(n, v, tagged) == call("vlan.port", [Port |-> n, VID |-> v, Tagged |-> tagged])
DelPortVLAN(n, v) == call("vlan.port.del", [Port |-> n, VID |-> v])
SetPortTunnel(n, v) == call("vlan.tunnel", [Name |-> n, SVID |-> v])
SetPortTPID(n, t) == call("port.tpid", [Name |-> n, TPID |-> t])
AddSVI(v) == call("svi.add", [VID |-> v])
DelSVI(v) == call("svi.del", [VID |-> v])

AddLAG(l, lacp) == call("lag.add", [Name |-> l, LACP |-> lacp])
SetLAGMembers(l, ports) == call("lag.members", [Name |-> l, Ports |-> ports])
DelLAG(l) == call("lag.del", [Name |-> l])
SetLAGOptions(l, o) == call("lag.options", [Name |-> l, Options |-> o])
SetLACPSystemPriority(p) == call("lacp.priority", [Priority |-> p])
SetMLAG(c) == call("mlag.set", c)
SetLAGMLAG(l, id) == call("lag.mlag", [Name |-> l, ID |-> id])

SetSTP(c) == call("stp.set", c)
SetSTPPort(n, c) == call("stp.port", [Name |-> n, Config |-> c])
SetMACAging(sec) == call("mac.aging.set", [Seconds |-> sec])

SetVirtualMAC(mac) == call("gateway.mac", [MAC |-> mac])
AddVirtualGateway(v, a) == call("gateway.add", [SVI |-> v, Prefix |-> a])
DelVirtualGateway(v, a) == call("gateway.del", [SVI |-> v, Prefix |-> a])

AddAddress(n, a) == call("l3.addr.add", [Port |-> n, Prefix |-> a])
DelAddress(n, a) == call("l3.addr.del", [Port |-> n, Prefix |-> a])
AddRoute(r) == call("l3.route.add", r)
DelRoute(p) == call("l3.route.del", [Prefix |-> p])

(* The rule travels as its text. *)
SetACL(r) == call("acl.set", [Seq |-> r.Seq, Rule |-> String(r)])
DelACL(seq) == call("acl.del", [Seq |-> seq])
-----------------------------------------------------------------------------
(* The answer, internal/nosd/proto: what a caller sees of an error that
   crossed the socket. *)

ErrorResponse(err) == [OK |-> err = "ok", Unsupported |-> err = "unsupported"]

Err(resp) == IF resp.OK THEN "ok" ELSE IF resp.Unsupported THEN "unsupported" ELSE "refused"
=============================================================================
