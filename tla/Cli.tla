--------------------------------- MODULE Cli ---------------------------------
(***************************************************************************)
(* The commands of cmd/nosaic that configure the datapath.  A line is a    *)
(* command as a configuration file states it, its words already read into  *)
(* values; a command is the sequence of calls it makes.  A step of it may  *)
(* be excused: its refusal as unsupported does not end the command.        *)
(***************************************************************************)
EXTENDS Conformance
LOCAL INSTANCE SequencesExt

Always(req) == [req |-> req, excused |-> FALSE]
Excused(req, ifDefault) == [req |-> req, excused |-> ifDefault]

Ascending(S) == SetToSortSeq(S, <)
Each(vids, Req(_)) == [i \in DOMAIN vids |-> Always(Req(vids[i]))]

(* A plausible mistake: the port leaves every VLAN, and joins those of the line. *)
switchportCmdAfresh(s, line) ==
    LET has == {v.VID : v \in {w \in VLANs(s) : \E m \in w.Members : m.Port = line.port}}
        drop(v) == C!DelPortVLAN(line.port, v)
        join(v) == C!SetPortVLAN(line.port, v, line.want[v])
    IN  IF line.mode = "tunnel" THEN <<Always(C!SetPortTunnel(line.port, line.vid))>>
        ELSE Each(Ascending(has), drop) \o Each(Ascending(DOMAIN line.want), join)

(* The whole membership of a port: what the line does not name is removed,
   first, so that a native VLAN that moves is not briefly two; and a trunk
   line states the outer tag too. *)
switchportCmd(s, line) ==
    LET has == {v.VID : v \in {w \in VLANs(s) : \E m \in w.Members : m.Port = line.port}}
        drop(v) == C!DelPortVLAN(line.port, v)
        join(v) == C!SetPortVLAN(line.port, v, line.want[v])
    IN  IF line.mode = "tunnel" THEN <<Always(C!SetPortTunnel(line.port, line.vid))>>
        ELSE Each(Ascending(has \ DOMAIN line.want), drop)
             \o Each(Ascending(DOMAIN line.want), join)
             \o IF line.tpid # 0 \/ (line.mode = "trunk" /\ s.caps.QinQ)
                THEN <<Always(C!SetPortTPID(line.port, line.tpid))>>
                ELSE <<>>

(* The whole of a LAG: no mlag keyword is MLAG id 0, and a datapath without
   MLAG or without options has nothing to take back. *)
lagCmd(line) ==
    IF line.mode = "none" THEN <<Always(C!DelLAG(line.name))>>
    ELSE <<Always(C!AddLAG(line.name, line.mode = "lacp")),
           Always(C!SetLAGMembers(line.name, line.ports)),
           Excused(C!SetLAGOptions(line.name, line.opts), line.opts = PlainLAG),
           Excused(C!SetLAGMLAG(line.name, line.mlag), line.mlag = 0)>>

vlanCmd(line) ==
    <<Always(IF line.do = "add" THEN C!AddVLAN(line.vid) ELSE C!DelVLAN(line.vid))>>

sviCmd(line) ==
    <<Always(IF line.do = "add" THEN C!AddSVI(line.vid) ELSE C!DelSVI(line.vid))>>

stpCmd(line) ==
    <<Always(IF line.mode = "port" THEN C!SetSTPPort(line.port, line.cfg) ELSE C!SetSTP(line.cfg))>>

mlagCmd(line) == <<Always(C!SetMLAG(line.cfg))>>

gatewayCmd(line) ==
    <<Always(CASE line.do = "mac" -> C!SetVirtualMAC(line.mac)
               [] line.do = "add" -> C!AddVirtualGateway(line.vid, line.addr)
               [] line.do = "del" -> C!DelVirtualGateway(line.vid, line.addr))>>

macCmd(line) == <<Always(C!SetMACAging(line.sec))>>
lacpCmd(line) == <<Always(C!SetLACPSystemPriority(line.prio))>>
interfaceCmd(line) ==
    <<Always(IF "mtu" \in DOMAIN line THEN C!SetPortMTU(line.port, line.mtu)
             ELSE C!SetPortAdmin(line.port, line.up))>>

(* A route without a next hop is refused before the daemon hears of it. *)
routeCmd(line) ==
    IF line.do = "del" THEN <<Always(C!DelRoute(line.route.Prefix))>>
    ELSE IF line.route.paths = 0 THEN <<>>
    ELSE <<Always(C!AddRoute(line.route))>>

aclCmd(line) ==
    <<Always(IF line.do = "set" THEN C!SetACL(line.rule) ELSE C!DelACL(line.seq))>>

(* The calls of a command, as it finds the switch when it starts. *)
switchCmd(s, line) ==
    CASE line.kind = "switchport" -> switchportCmd(s, line)
      [] line.kind = "lag"        -> lagCmd(line)
      [] line.kind = "vlan"       -> vlanCmd(line)
      [] line.kind = "svi"        -> sviCmd(line)
      [] line.kind = "stp"        -> stpCmd(line)
      [] line.kind = "mlag"       -> mlagCmd(line)
      [] line.kind = "gateway"    -> gatewayCmd(line)
      [] line.kind = "mac"        -> macCmd(line)
      [] line.kind = "lacp"       -> lacpCmd(line)
      [] line.kind = "interface"  -> interfaceCmd(line)
      [] line.kind = "route"      -> routeCmd(line)
      [] line.kind = "acl"        -> aclCmd(line)

(* What is left to do after a call's answer. *)
Rest(steps, err) ==
    IF err = "ok" \/ (err = "unsupported" /\ Head(steps).excused) THEN Tail(steps) ELSE <<>>
-----------------------------------------------------------------------------
(* What a line says of the switch, for the commands that state an end state. *)
Holds(s, line) ==
    CASE line.kind = "switchport" ->
             IF line.mode = "tunnel"
             THEN s.tunnel[line.port] = line.vid /\ s.memb[line.port][line.vid] = "untagged"
             ELSE /\ s.memb[line.port] =
                        [v \in VIDs |-> IF v \notin DOMAIN line.want THEN "none"
                                        ELSE IF line.want[v] THEN "tagged" ELSE "untagged"]
                  /\ line.mode = "trunk" => s.tpid[line.port] = line.tpid
      [] line.kind = "lag"  -> IF line.mode = "none" THEN line.name \notin s.lags
                               ELSE /\ line.name \in s.lags
                                    /\ s.lacp[line.name] = (line.mode = "lacp")
                                    /\ Members(s, line.name) = line.ports
                                    /\ s.opts[line.name] = line.opts
                                    /\ s.mlagId[line.name] = line.mlag
      [] line.kind = "vlan" -> (line.vid \in s.vlans) = (line.do = "add")
      [] line.kind = "svi"  -> (line.vid \in s.svis) = (line.do = "add")
      [] line.kind = "stp"  -> IF line.mode = "port" THEN s.stpPort[line.port] = line.cfg
                               ELSE s.stp = line.cfg
      [] line.kind = "mlag" -> s.mlag = line.cfg
      [] line.kind = "gateway" ->
             IF line.do = "mac" THEN s.vmac = line.mac
             ELSE ([SVI |-> line.vid, Address |-> line.addr] \in s.gws) = (line.do = "add")
      [] line.kind = "mac"  -> s.aging = line.sec
      [] line.kind = "lacp" -> s.lacpPri = line.prio
      [] line.kind = "interface" -> s.adminUp[line.port] = line.up
      [] line.kind = "acl"  -> IF line.do = "set" THEN line.rule \in s.acls
                               ELSE \A r \in s.acls : r.Seq # line.seq
=============================================================================
