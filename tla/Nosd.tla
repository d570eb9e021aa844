--------------------------------- MODULE Nosd ---------------------------------
(***************************************************************************)
(* The datapath daemon and everything that configures it: the generated    *)
(* apply-network script (internal/imgbuild/network.go), which states the   *)
(* configuration file over and over through the CLI, an operator typing    *)
(* commands meanwhile, and the conformance suite.  The daemon starts       *)
(* minutes after the script does and is restarted when it dies, forgetting *)
(* everything; its interfaces go with it.  Each call is one step, so two   *)
(* commands interleave between their calls.                                *)
(***************************************************************************)
EXTENDS Cli

CONSTANTS Scenarios    \* what a behaviour is about, chosen once

(* The switch a behaviour starts from is one its operations can lead to. *)
ASSUME ScenariosAssumption == \A c \in Scenarios : Shape(c.found) /\ Contract(c.found)

VARIABLES scn,         \* the scenario: file, start, operator's commands, faults
          sw,          \* the datapath
          up,          \* the daemon is running and listening
          net,         \* the script: its phase, the item it is at, whether an interface was missing
          steps,       \* the calls left of the command the script runs
          op,          \* the operator: commands left, calls left of this one
          suite,       \* the conformance suite: steps left, whether all were met
          ip,          \* the kernel's interfaces
          routes,      \* the kernel's routes
          cycled,      \* the interfaces the last step took down
          macKnown,    \* the board's identity can be read
          expired,     \* the script's deadline has passed
          restarts     \* restarts of the daemon still to come

vars == <<scn, sw, up, net, steps, op, suite, ip, routes, cycled, macKnown, expired, restarts>>
-----------------------------------------------------------------------------
(* The script's program *)

(* apply_vlans: a pass over the file for each kind of line that others rest
   on, in this order.  The iface line of a VLAN is the one that routes it. *)
LinesOf(kinds) == SelectSeq(scn.file, LAMBDA l : l.kind \in kinds)

VLANLines ==
    LET lines == SelectSeq(scn.file, LAMBDA l : \/ l.kind \in {"vlan", "switchport"}
                                                \/ l.kind = "iface" /\ l.vid # 0)
    IN  [i \in DOMAIN lines |-> IF lines[i].kind = "iface"
                                THEN [kind |-> "svi", do |-> "add", vid |-> lines[i].vid]
                                ELSE lines[i]]

(* A plausible mistake: one pass fewer, spanning tree's lines left to the end. *)
apply_vlansSTPLast ==
    LinesOf({"lacp", "mac"}) \o LinesOf({"lag"}) \o LinesOf({"mlag"}) \o VLANLines
    \o LinesOf({"stp"}) \o LinesOf({"gateway"}) \o LinesOf({"interface"})

apply_vlans ==
       LinesOf({"lacp", "mac"})
    \o LinesOf({"lag"})
    \o LinesOf({"mlag"})
    \o LinesOf({"stp"})
    \o VLANLines
    \o SelectSeq(scn.file, LAMBDA l : l.kind = "gateway" /\ l.do = "mac")
    \o SelectSeq(scn.file, LAMBDA l : l.kind = "gateway" /\ l.do # "mac")
    \o LinesOf({"interface"})

Commands == {"lacp", "mac", "lag", "mlag", "stp", "vlan", "switchport", "svi", "gateway", "interface"}

RoutesItem == [kind |-> "routes"]
DecideItem == [kind |-> "decide"]

(* A plausible mistake: the timer looks after the kernel's interfaces only. *)
ProgramKernelOnly(phase) ==
    LET pass == apply_vlans \o LinesOf({"iface"})
    IN  CASE phase = "wait"      -> pass \o <<DecideItem>>
          [] phase = "once more" -> <<RoutesItem>> \o pass \o <<RoutesItem>>
          [] phase = "reconcile" -> LinesOf({"iface"}) \o <<RoutesItem>>

(* The wait for the datapath's interfaces, one last pass out loud, and then
   the reconcile timer. *)
Program(phase) ==
    LET pass == apply_vlans \o LinesOf({"iface"})
    IN  CASE phase = "wait"      -> pass \o <<DecideItem>>
          [] phase = "once more" -> <<RoutesItem>> \o pass \o <<RoutesItem>>
          [] phase = "reconcile" -> pass \o <<RoutesItem>>

Item == Program(net.phase)[net.at]

Advanced ==
    IF net.at < Len(Program(net.phase)) THEN [net EXCEPT !.at = @ + 1]
    ELSE [net EXCEPT !.phase = "reconcile", !.at = 1]
-----------------------------------------------------------------------------
(* The kernel's view *)

Bare == [up |-> FALSE, addr |-> FALSE, mac |-> FALSE, vrf |-> FALSE]
Ifaces == {l.name : l \in {scn.file[i] : i \in {j \in DOMAIN scn.file : scn.file[j].kind = "iface"}}}

(* A port's tap is there while the daemon runs, a VLAN's while the VLAN is
   routed, and the management port always. *)
There(name, s, running) ==
    \/ name \notin Ports \cup {SVIName[v] : v \in VIDs}
    \/ running /\ (name \in Ports \/ \E v \in s.svis : SVIName[v] = name)

(* What is left of the kernel's state when interfaces have gone. *)
Surviving(s, running) ==
    /\ ip' = [n \in DOMAIN ip |-> IF There(n, s, running) THEN ip[n] ELSE Bare]
    /\ routes' = {r \in routes : There(r.dev, s, running)}

(* One iface line. *)
macWanted(line) == line.mac = "given" \/ (line.mac = "auto" /\ macKnown)

Correct(line) ==
    /\ ip[line.name].addr
    /\ ip[line.name].up
    /\ macWanted(line) => ip[line.name].mac
    /\ line.vrf => ip[line.name].vrf

(* Joining a VRF and setting a MAC take the interface down, and its routes
   with it. *)
Cycles(line) ==
    \/ line.vrf /\ ~ip[line.name].vrf
    \/ macWanted(line) /\ ~ip[line.name].mac

apply_ifaces(line) ==
    IF ~There(line.name, sw, up)
    THEN /\ net' = [Advanced EXCEPT !.missing = TRUE]
         /\ UNCHANGED <<ip, routes>> /\ cycled' = {}
    ELSE IF Correct(line)
    THEN net' = Advanced /\ UNCHANGED <<ip, routes>> /\ cycled' = {}
    ELSE /\ net' = Advanced
         /\ ip' = [ip EXCEPT ![line.name] =
                     [up |-> TRUE, addr |-> TRUE, mac |-> @.mac \/ macWanted(line),
                      vrf |-> @.vrf \/ line.vrf]]
         /\ cycled' = IF Cycles(line) THEN {line.name} ELSE {}
         /\ routes' = {r \in routes : r.dev \notin cycled'}

(* A route is added when its gateway is on a configured interface. *)
Reachable(r) == r.dev \in DOMAIN ip => ip[r.dev].up /\ ip[r.dev].addr
FileRoutes == {scn.file[i] : i \in {j \in DOMAIN scn.file : scn.file[j].kind = "route"}}
apply_routes == routes' = routes \cup {r \in FileRoutes : Reachable(r)}
-----------------------------------------------------------------------------
(* The script's steps *)

Running == scn.file # <<>>
others == <<scn, suite, macKnown, expired, restarts>>

(* A command dials the daemon.  One that cannot says so and is skipped. *)
StartLine ==
    /\ Running /\ steps = <<>> /\ Item.kind \in Commands
    /\ LET calls == IF up THEN switchCmd(sw, Item) ELSE <<>>
       IN  /\ steps' = calls
           /\ net' = IF calls = <<>> THEN Advanced ELSE net
    /\ cycled' = {}
    /\ UNCHANGED <<sw, up, op, ip, routes, others>>

(* A call over the socket: the daemon does it whole, and the command goes on
   if the answer lets it. *)
Call ==
    /\ steps # <<>>
    /\ LET r == dispatch(sw, Head(steps).req)
           err == C!Err(C!ErrorResponse(r.err))
       IN  /\ sw' = r.st
           /\ steps' = Rest(steps, err)
           /\ net' = IF steps' = <<>> THEN Advanced ELSE net
           /\ Surviving(r.st, up)
    /\ cycled' = {}
    /\ UNCHANGED <<up, op, others>>

ApplyIface ==
    /\ Running /\ steps = <<>> /\ Item.kind = "iface"
    /\ apply_ifaces(Item)
    /\ UNCHANGED <<sw, up, steps, op, others>>

ApplyRoutes ==
    /\ Running /\ steps = <<>> /\ Item.kind = "routes"
    /\ apply_routes
    /\ net' = Advanced /\ cycled' = {}
    /\ UNCHANGED <<sw, up, steps, op, ip, others>>

(* The end of a pass of the wait: its routes go in after the first, and the
   wait is over when nothing was missing or the deadline has passed. *)
Decide ==
    /\ Running /\ steps = <<>> /\ Item.kind = "decide"
    /\ IF net.routed THEN UNCHANGED routes ELSE apply_routes
    /\ net' = [phase |-> IF ~net.missing \/ expired THEN "once more" ELSE "wait",
               at |-> 1, missing |-> FALSE, routed |-> TRUE]
    /\ cycled' = {}
    /\ UNCHANGED <<sw, up, steps, op, ip, others>>

Script == StartLine \/ Call \/ ApplyIface \/ ApplyRoutes \/ Decide
-----------------------------------------------------------------------------
(* The operator, at the same socket *)

OperatorTypes ==
    /\ op.steps = <<>> /\ op.todo # <<>> /\ up
    /\ LET calls == switchCmd(sw, Head(op.todo))
       IN  op' = [todo |-> IF calls = <<>> THEN Tail(op.todo) ELSE op.todo, steps |-> calls]
    /\ cycled' = {}
    /\ UNCHANGED <<sw, up, net, steps, ip, routes, others>>

OperatorCall ==
    /\ op.steps # <<>>
    /\ LET r == dispatch(sw, Head(op.steps).req)
           left == Rest(op.steps, C!Err(C!ErrorResponse(r.err)))
       IN  /\ sw' = r.st
           /\ op' = [todo |-> IF left = <<>> THEN Tail(op.todo) ELSE op.todo, steps |-> left]
           /\ Surviving(r.st, up)
    /\ cycled' = {}
    /\ UNCHANGED <<up, net, steps, others>>
-----------------------------------------------------------------------------
(* The conformance suite, alone with a switch *)

SuiteStep ==
    /\ suite.todo # <<>>
    /\ LET step == Head(suite.todo)
       IN  /\ suite' = [todo |-> Tail(suite.todo), met |-> suite.met /\ Met(sw, step)]
           /\ sw' = After(sw, step)
    /\ cycled' = {}
    /\ UNCHANGED <<scn, up, net, steps, op, ip, routes, macKnown, expired, restarts>>
-----------------------------------------------------------------------------
(* The daemon and the rest of the world *)

Listen ==
    /\ ~up
    /\ up' = TRUE /\ sw' = New(scn.caps)
    /\ cycled' = {}
    /\ UNCHANGED <<net, steps, op, ip, routes, others>>

(* The daemon dies: its connections break, so a command under way ends where
   it was, and everything it held is gone. *)
Restart ==
    /\ up /\ restarts > 0
    /\ up' = FALSE /\ restarts' = restarts - 1
    /\ sw' = New(scn.caps)
    /\ net' = IF steps = <<>> THEN net ELSE Advanced
    /\ steps' = <<>>
    /\ op' = [todo |-> IF op.steps = <<>> THEN op.todo ELSE Tail(op.todo), steps |-> <<>>]
    /\ Surviving(New(scn.caps), FALSE)
    /\ cycled' = {}
    /\ UNCHANGED <<scn, suite, macKnown, expired>>

Identified ==
    /\ Running /\ ~macKnown
    /\ macKnown' = TRUE /\ cycled' = {}
    /\ UNCHANGED <<scn, sw, up, net, steps, op, suite, ip, routes, expired, restarts>>

Deadline ==
    /\ Running /\ net.phase = "wait" /\ ~expired
    /\ expired' = TRUE /\ cycled' = {}
    /\ UNCHANGED <<scn, sw, up, net, steps, op, suite, ip, routes, macKnown, restarts>>

Init ==
    /\ scn \in Scenarios
    /\ up = scn.up
    /\ sw = scn.found
    /\ net = [phase |-> "wait", at |-> 1, missing |-> FALSE, routed |-> FALSE]
    /\ steps = <<>>
    /\ op = [todo |-> scn.operator, steps |-> <<>>]
    /\ suite = [todo |-> IF scn.suite THEN Check(scn.caps) ELSE <<>>, met |-> TRUE]
    /\ ip = [n \in Ifaces |-> Bare]
    /\ routes = {} /\ cycled = {}
    /\ macKnown = FALSE /\ expired = FALSE
    /\ restarts = scn.restarts

Next ==
    \/ StartLine \/ Call \/ ApplyIface \/ ApplyRoutes \/ Decide
    \/ OperatorTypes \/ OperatorCall
    \/ SuiteStep
    \/ Listen \/ Restart \/ Identified \/ Deadline

(* The script is a process of its own and sleeps seconds at a time, the daemon
   is supervised and the deadline is a clock's; an operator need not finish. *)
Spec == Init /\ [][Next]_vars
FairSpec == Spec /\ WF_vars(Script) /\ WF_vars(Listen) /\ WF_vars(Deadline)
-----------------------------------------------------------------------------
(* Everything the file states, the switch and the kernel have. *)
Configured ==
    /\ \A i \in DOMAIN scn.file : scn.file[i].kind \in Commands => Holds(sw, scn.file[i])
    /\ \A i \in DOMAIN scn.file : scn.file[i].kind = "iface" => Correct(scn.file[i])
    /\ FileRoutes \subseteq routes

(* The contract holds of the datapath whatever the script, the operator and
   the suite ask of it and in whatever order their calls arrive. *)
Contracted == Contract(sw)

(* "a datapath restart forgets every VLAN, and the next pass puts them back the
   way it puts back addresses": once restarts and the operator's commands are
   over, the switch and the kernel come to what the file says and stay there,
   whatever was configured before. *)
Converges == (Running /\ <>(op.todo = <<>>)) => <>[]Configured

(* "Re-running is free by construction": when everything is as the file says, a
   pass changes nothing, not even between two calls of a command. *)
Reapplied == [][Configured /\ Script => UNCHANGED <<sw, ip, routes>> /\ cycled' = {}]_vars

(* "Re-running this script must be free for anything already in the state the
   file asks for": an interface that is right is not taken down again while
   the rest of the file is still being waited for. *)
RightIsLeftAlone ==
    [][\A i \in DOMAIN scn.file :
           scn.file[i].kind = "iface" /\ Correct(scn.file[i]) => scn.file[i].name \notin cycled']_vars

(* "Re-running is free": of the whole of a file, and of each interface of it. *)
RerunIsFree == Reapplied /\ RightIsLeftAlone

(* "Spanning tree next, before any port joins a VLAN": with a daemon that runs
   when the script starts, no port becomes switched by a file that has spanning
   tree on while it is off, whatever the order of the file's lines. *)
SpanningTreeFirst ==
    [][(/\ scn.up /\ scn.restarts = 0 /\ scn.operator = <<>>
        /\ \E i \in DOMAIN scn.file : scn.file[i].kind = "stp" /\ scn.file[i].mode = "on")
       => \A n \in Names : ~Switched(sw, n) /\ Switched(sw', n) => sw'.stp.Enabled]_vars

(* The suite, run through the socket, has nothing to say of a datapath that
   does what its capabilities declare, whichever those are, and leaves it with
   the VLANs, LAGs, interfaces, routes and rules it found: verifyContract. *)
Conforms ==
    scn.suite =>
        /\ suite.met
        /\ suite.todo = <<>> =>
               \A f \in {"vlans", "svis", "memb", "tunnel", "tpid", "lags", "lagOf", "mlagId",
                         "gws", "mlag", "stp", "stpPort", "addrs", "routes", "acls", "aging"} :
                   sw[f] = scn.found[f]
=============================================================================
