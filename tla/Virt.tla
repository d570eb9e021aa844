--------------------------------- MODULE Virt ---------------------------------
(***************************************************************************)
(* The virtual board's datapath, internal/nosd/virt: the kernel's own      *)
(* bridge, bonds and nftables, driven one command at a time by ip, bridge  *)
(* and nft.  Nearly all state is the kernel's and survives the daemon.     *)
(* Beside it runs the reference datapath, given the same requests.         *)
(***************************************************************************)
EXTENDS Server
LOCAL INSTANCE SequencesExt

CONSTANTS VirtCaps,   \* Capabilities(): bridge, bonding and nft all work
          Scenes      \* what clients may ask, how many there are, whether commands fail

VARIABLES scene,      \* one of Scenes, chosen once
          kern,       \* the kernel
          proc,       \* what only the daemon holds
          asked,      \* requests past the checks made before the lock
          job,        \* the request that holds the lock: its commands still to run
          ref,        \* the reference datapath
          clean       \* no command has failed and the daemon has not died

virtVars == <<scene, kern, proc, asked, job, ref, clean>>

Bridge == "br0"
Nobody == "none"

NewKernel ==
    [bridge |-> FALSE, vlans |-> {}, svis |-> {}, memb |-> [n \in Names |-> Outside],
     bonds |-> {}, lacp |-> [l \in LagNames |-> FALSE],
     master |-> [n \in Names |-> Nobody], up |-> [n \in Names |-> FALSE],
     aging |-> DefaultMACAging, stp |-> FALSE, chain |-> {}]

NewProcess == [acls |-> {}, stpPorts |-> [n \in Names |-> PlainPort], aging |-> DefaultMACAging,
               lagPrio |-> [l \in LagNames |-> 0], lacpPrio |-> 0]
-----------------------------------------------------------------------------
(* The kernel's side of a command: when it accepts one and what it does *)

Slaves(k, l) == {n \in Names : k.master[n] = l}

Accepts(k, c) ==
    CASE c.do = "vlan add"  -> k.master[c.dev] = Bridge
      [] c.do = "vlan del"  -> k.master[c.dev] = Bridge
      [] c.do = "self add"  -> k.bridge
      [] c.do = "svi add"   -> k.bridge /\ c.vid \notin k.svis
      [] c.do = "enslave"   -> c.to = Bridge \/ (c.to \in k.bonds /\ ~k.up[c.dev])
      [] c.do = "bond add"  -> c.dev \notin k.bonds
      [] c.do = "bond mode" -> c.dev \in k.bonds /\ ~k.up[c.dev] /\ Slaves(k, c.dev) = {}
      [] c.do = "bond set"  -> c.dev \in k.bonds /\ ~k.up[c.dev]
      [] c.do = "slave set" -> k.master[c.dev] = Bridge
      [] OTHER              -> TRUE

(* An interface that leaves its master forgets its memberships, and one that
   leaves a bond is left down. *)
Freed(k, n) ==
    [k EXCEPT !.master[n] = Nobody, !.memb[n] = Outside,
              !.up[n] = @ /\ k.master[n] \notin LagNames]

Does(k, c) ==
    CASE c.do = "bridge add" -> [k EXCEPT !.bridge = TRUE]
      [] c.do = "self add"   -> [k EXCEPT !.vlans = @ \cup {c.vid}]
      [] c.do = "self del"   -> [k EXCEPT !.vlans = @ \ {c.vid}]
      [] c.do = "vlan add"   -> [k EXCEPT !.memb[c.dev][c.vid] = IF c.tagged THEN "tagged" ELSE "untagged"]
      [] c.do = "vlan del"   -> [k EXCEPT !.memb[c.dev][c.vid] = "none"]
      [] c.do = "svi add"    -> [k EXCEPT !.svis = @ \cup {c.vid}]
      [] c.do = "svi del"    -> [k EXCEPT !.svis = @ \ {c.vid}]
      [] c.do = "enslave"    -> IF k.master[c.dev] = c.to THEN k
                                ELSE [Freed(k, c.dev) EXCEPT !.master[c.dev] = c.to]
      [] c.do = "nomaster"   -> Freed(k, c.dev)
      [] c.do = "up"         -> [k EXCEPT !.up[c.dev] = TRUE]
      [] c.do = "down"       -> [k EXCEPT !.up[c.dev] = FALSE]
      [] c.do = "bond add"   -> [k EXCEPT !.bonds = @ \cup {c.dev}, !.lacp[c.dev] = c.lacp]
      [] c.do = "bond mode"  -> [k EXCEPT !.lacp[c.dev] = c.lacp]
      [] c.do = "bond del"   -> [Freed(k, c.dev) EXCEPT !.bonds = @ \ {c.dev}, !.lacp[c.dev] = FALSE,
                                                        !.up[c.dev] = FALSE]
      [] c.do = "aging"      -> [k EXCEPT !.aging = c.sec]
      [] c.do = "stp"        -> [k EXCEPT !.stp = c.on]
      [] c.do = "nft"        -> [k EXCEPT !.chain = c.rules]
      [] OTHER               -> k
-----------------------------------------------------------------------------
(* The commands of each operation *)

On(do, n) == [do |-> do, dev |-> n]
OnVLAN(do, n, vid) == [do |-> do, dev |-> n, vid |-> vid]
ForEach(S, cmds(_)) == FoldLeft(LAMBDA acc, n : acc \o cmds(n), <<>>, SetToSeq(S))

applyAging(k, p) ==
    IF p.aging # DefaultMACAging THEN <<[do |-> "aging", sec |-> OrDefault(p.aging, 1000000)]>> ELSE <<>>

ensureBridge(k, p) ==
    IF k.bridge THEN <<>> ELSE <<[do |-> "bridge add"], [do |-> "address"]>> \o applyAging(k, p) \o <<[do |-> "bridge up"]>>

enslave(n, l) == <<On("down", n), [do |-> "enslave", dev |-> n, to |-> l], On("up", n)>>
release(n) == <<On("nomaster", n), On("up", n)>>
bondSet(l) == <<On("down", l), On("bond set", l), On("up", l)>>

(* A plausible mistake: the membership goes and the port stays in the bridge. *)
leaveBridged(k, n, vid) == <<OnVLAN("vlan del", n, vid)>>

(* The last membership gone, the port is released and routes again. *)
leave(k, n, vid) ==
    <<OnVLAN("vlan del", n, vid)>>
    \o IF \E v \in VIDs \ {vid} : k.memb[n][v] # "none" THEN <<>> ELSE <<On("nomaster", n)>>

applySTPPort(k, n) == IF k.master[n] = Bridge THEN <<On("slave set", n)>> ELSE <<>>

known(k, n) == n \in Ports \cup k.bonds
InVLAN(k, vid) == {n \in Names : k.memb[n][vid] # "none"}

AddVLANCmds(k, p, vid) == ensureBridge(k, p) \o <<[do |-> "self add", vid |-> vid]>>

(* A plausible mistake: the VLAN first, then the ports in it. *)
DelVLANCmdsFirst(k, vid) ==
    LET leaves(n) == leave(k, n, vid)
    IN  (IF vid \in k.vlans THEN <<[do |-> "self del", vid |-> vid]>> ELSE <<>>)
        \o ForEach(InVLAN(k, vid), leaves)

DelVLANCmds(k, vid) ==
    LET leaves(n) == leave(k, n, vid)
    IN  ForEach(InVLAN(k, vid), leaves)
        \o IF vid \in k.vlans THEN <<[do |-> "self del", vid |-> vid]>> ELSE <<>>

(* The old native VLAN goes before the new one comes, and a native VLAN turned
   tagged is removed first: adding it again would not clear its flags. *)
SetPortVLANCmds(k, n, vid, tagged) ==
    LET held == IF k.master[n] = Bridge THEN k.memb[n] ELSE Outside
        goes == {v \in VIDs : held[v] = "untagged" /\ (v = vid) = tagged}
        drop(v) == <<OnVLAN("vlan del", n, v)>>
    IN  <<[do |-> "enslave", dev |-> n, to |-> Bridge], On("slave set", n)>>
        \o ForEach(goes, drop)
        \o <<[do |-> "vlan add", dev |-> n, vid |-> vid, tagged |-> tagged]>>

(* A bond changes mode only with no members and down: they are released and
   taken back, whether or not the mode is another. *)
AddLAGCmds(k, l, lacp) ==
    LET free(n) == <<On("nomaster", n)>>
        take(n) == enslave(n, l)
    IN  IF l \notin k.bonds THEN <<[do |-> "bond add", dev |-> l, lacp |-> lacp], On("up", l)>>
        ELSE ForEach(Slaves(k, l), free)
             \o <<On("down", l), [do |-> "bond mode", dev |-> l, lacp |-> lacp], On("up", l)>>
             \o ForEach(Slaves(k, l), take)

SetLAGMembersCmds(k, l, ports) ==
    LET take(n) == enslave(n, l)
    IN  ForEach(Slaves(k, l) \ ports, release) \o ForEach(ports \ Slaves(k, l), take)

DelLAGCmds(k, l) ==
    IF l \notin k.bonds THEN <<>> ELSE ForEach(Slaves(k, l), release) \o <<On("bond del", l)>>

AddSVICmds(k, vid) ==
    (IF vid \in k.svis THEN <<>> ELSE <<[do |-> "svi add", vid |-> vid]>>) \o <<[do |-> "svi up"]>>

(* Every rule, lowest sequence number first, in one script: the kernel takes
   all of it or none. *)
apply(acls) == <<[do |-> "nft", rules |-> acls]>>
-----------------------------------------------------------------------------
(* What is looked at before the lock is taken, and what after *)

Before(k, req) ==
    LET a == req.args
    IN  CASE req.op = "vlan.add"      -> ValidVID(a.VID)
          [] req.op = "vlan.port"     -> known(k, a.Port) /\ k.master[a.Port] \notin LagNames
          [] req.op = "vlan.port.del" -> known(k, a.Port)
          [] req.op = "lag.add"       -> a.Name \in LagNames
          [] req.op = "lag.options"   -> ValidLAGOptions(a.Options) /\ a.Name \in k.bonds
          [] req.op = "lacp.priority" -> ValidLACPPriority(a.Priority)
          [] req.op = "stp.set"       -> ValidSTPPriority(a.Priority) /\ ValidSTPTimes(a)
          [] req.op = "stp.port"      -> /\ ValidSTPCost(a.Config.Cost)
                                         /\ ValidSTPPortPriority(a.Config.Priority)
                                         /\ known(k, a.Name) /\ k.master[a.Name] \notin LagNames
          [] req.op = "mac.aging.set" -> ValidMACAging(a.Seconds)
          [] OTHER                    -> TRUE

Locked(k, p, req) ==
    LET a == req.args
    IN  CASE req.op = "vlan.del"    -> a.VID \notin k.svis
          [] req.op \in {"vlan.port", "svi.add"} -> a.VID \in k.vlans
          [] req.op = "lag.members" ->
                 /\ a.Name \in k.bonds
                 /\ \A n \in a.Ports : known(k, n) /\ k.master[n] \in {Nobody, a.Name}
          [] req.op = "acl.set"     -> ParseACLRule(a.Seq, a.Rule).ok
                                       /\ Validate(ParseACLRule(a.Seq, a.Rule).rule, Ports)
          [] req.op = "acl.del"     -> \E r \in p.acls : r.Seq = a.Seq
          [] OTHER                  -> TRUE

(* The rules held once the request is taken in. *)
Rules(p, req) ==
    LET others == {r \in p.acls : r.Seq # req.args.Seq}
    IN  IF req.op = "acl.set" THEN others \cup {ParseACLRule(req.args.Seq, req.args.Rule).rule} ELSE others

Held(p, req) ==
    LET a == req.args
    IN  CASE req.op \in {"acl.set", "acl.del"} -> [p EXCEPT !.acls = Rules(p, req)]
          [] req.op = "stp.port"      -> [p EXCEPT !.stpPorts[a.Name] = a.Config]
          [] req.op = "mac.aging.set" -> [p EXCEPT !.aging = a.Seconds]
          [] req.op = "lag.options"   -> [p EXCEPT !.lagPrio[a.Name] = a.Options.PortPriority]
          [] req.op = "lacp.priority" -> [p EXCEPT !.lacpPrio = OrDefault(a.Priority, LACPDefaultPriority)]
          [] OTHER                    -> p

Commands(k, p, req) ==
    LET a == req.args
        lacp == {l \in k.bonds : k.lacp[l]}
    IN  CASE req.op = "vlan.add"      -> AddVLANCmds(k, p, a.VID)
          [] req.op = "vlan.del"      -> DelVLANCmds(k, a.VID)
          [] req.op = "vlan.port"     -> SetPortVLANCmds(k, a.Port, a.VID, a.Tagged)
          [] req.op = "vlan.port.del" -> IF k.memb[a.Port][a.VID] = "none" THEN <<>> ELSE leave(k, a.Port, a.VID)
          [] req.op = "svi.add"       -> AddSVICmds(k, a.VID)
          [] req.op = "svi.del"       -> IF a.VID \in k.svis THEN <<[do |-> "svi del", vid |-> a.VID]>> ELSE <<>>
          [] req.op = "lag.add"       -> AddLAGCmds(k, a.Name, a.LACP)
          [] req.op = "lag.members"   -> SetLAGMembersCmds(k, a.Name, a.Ports)
          [] req.op = "lag.del"       -> DelLAGCmds(k, a.Name)
          [] req.op = "lag.options"   -> IF a.Name \in lacp THEN bondSet(a.Name) ELSE <<>>
          [] req.op = "lacp.priority" -> ForEach(lacp, bondSet)
          [] req.op = "stp.set"       -> ensureBridge(k, p) \o <<[do |-> "stp", on |-> a.Enabled]>>
          [] req.op = "stp.port"      -> applySTPPort(k, a.Name)
          [] req.op = "mac.aging.set" -> IF k.bridge THEN applyAging(k, [p EXCEPT !.aging = a.Seconds]) ELSE <<>>
          [] req.op \in {"acl.set", "acl.del"} -> apply(Rules(p, req))
-----------------------------------------------------------------------------
(* A request's life *)

Idle == [todo |-> <<>>, back |-> {}, busy |-> FALSE, err |-> "ok", want |-> "ok"]

Init ==
    /\ scene \in Scenes
    /\ kern = NewKernel /\ proc = NewProcess
    /\ asked = {} /\ job = Idle
    /\ ref = New(VirtCaps)
    /\ clean = TRUE

(* The reference is asked the same while the two can be compared. *)
Compared == clean /\ scene.clients = 1
Asked(req) == IF Compared THEN dispatch(ref, req) ELSE Ok(ref)

(* Refused before the lock, a request changes nothing; the reference must have
   refused it too. *)
Ask(req) ==
    /\ Cardinality(asked) < scene.clients
    /\ ~job.busy \/ scene.clients > 1
    /\ IF Before(kern, req)
       THEN asked' = asked \cup {req} /\ UNCHANGED <<job, ref>>
       ELSE /\ job' = IF job.busy THEN job ELSE [Idle EXCEPT !.err = "refused", !.want = Asked(req).err]
            /\ ref' = Asked(req).st
            /\ UNCHANGED asked
    /\ UNCHANGED <<scene, kern, proc, clean>>

Take(req) ==
    /\ req \in asked /\ ~job.busy
    /\ asked' = asked \ {req}
    /\ LET r == Asked(req)
           ok == Locked(kern, proc, req)
       IN  /\ ref' = r.st
           /\ proc' = IF ok THEN Held(proc, req) ELSE proc
           /\ job' = [todo |-> IF ok THEN Commands(kern, proc, req) ELSE <<>>,
                      back |-> IF req.op = "acl.set" THEN <<proc.acls>> ELSE <<>>,
                      busy |-> ok, err |-> IF ok THEN "ok" ELSE "refused", want |-> r.err]
    /\ UNCHANGED <<scene, kern, clean>>

Run ==
    /\ job.busy /\ job.todo # <<>>
    /\ Accepts(kern, Head(job.todo))
    /\ kern' = Does(kern, Head(job.todo))
    /\ job' = [job EXCEPT !.todo = Tail(@)]
    /\ UNCHANGED <<scene, proc, asked, ref, clean>>

(* A plausible mistake: the rule that could not be installed stays listed. *)
FailListed ==
    /\ job.busy /\ job.todo # <<>>
    /\ scene.faults \/ ~Accepts(kern, Head(job.todo))
    /\ job' = [job EXCEPT !.err = "refused", !.back = <<>>, !.todo = <<>>]
    /\ clean' = FALSE /\ ref' = New(VirtCaps)
    /\ UNCHANGED <<scene, kern, proc, asked>>

(* The command is refused by the kernel, or dies.  A rule that could not be
   installed is not held either, and the chain is written once more; a bond
   taken down is brought up again. *)
Fail ==
    /\ job.busy /\ job.todo # <<>>
    /\ scene.faults \/ ~Accepts(kern, Head(job.todo))
    /\ LET c == Head(job.todo)
       IN  /\ proc' = IF job.back = <<>> THEN proc ELSE [proc EXCEPT !.acls = job.back[1]]
           /\ job' = [job EXCEPT !.err = "refused", !.back = <<>>,
                                 !.todo = CASE job.back # <<>>   -> apply(job.back[1])
                                            [] c.do = "bond set" -> <<On("up", c.dev)>>
                                            [] OTHER             -> <<>>]
    /\ clean' = FALSE /\ ref' = New(VirtCaps)
    /\ UNCHANGED <<scene, kern, asked>>

Finish ==
    /\ job.busy /\ job.todo = <<>>
    /\ job' = [job EXCEPT !.busy = FALSE, !.back = <<>>]
    /\ UNCHANGED <<scene, kern, proc, asked, ref, clean>>

(* The daemon dies between two commands and is started again: the kernel keeps
   everything. *)
Die ==
    /\ scene.faults
    /\ proc' = NewProcess /\ asked' = {} /\ job' = Idle
    /\ clean' = FALSE /\ ref' = New(VirtCaps)
    /\ UNCHANGED <<scene, kern>>

Next ==
    \/ \E req \in scene.requests : Ask(req) \/ Take(req)
    \/ Run \/ Fail \/ Finish \/ Die

Spec == Init /\ [][Next]_virtVars
-----------------------------------------------------------------------------
(* What a client reads back *)
View(vlans, svis, memb, lags, lacp, members) ==
    [vlans |-> {<<v, v \in svis>> : v \in vlans},
     memb  |-> [n \in Names |-> memb[n]],
     lags  |-> {<<l, lacp[l], members[l]>> : l \in lags}]

(* "the same file does the same thing on a chip and on the virtual board":
   after any sequence of requests, each allowed to finish, the virtual board
   answers as the reference does and shows the same VLANs, members and LAGs,
   and a port is in the bridge exactly while it is in a VLAN. *)
Agrees ==
    Compared /\ ~job.busy =>
        /\ job.err = job.want
        /\ View(kern.vlans, kern.svis, kern.memb, kern.bonds, kern.lacp,
                [l \in LagNames |-> Slaves(kern, l)])
           = View(ref.vlans, ref.svis, ref.memb, ref.lags, ref.lacp,
                  [l \in LagNames |-> Members(ref, l)])
        /\ \A n \in Names : (kern.master[n] = Bridge) = (\E v \in VIDs : kern.memb[n][v] # "none")

(* After every single command, whichever fails, whenever the daemon dies and
   whatever another client asked between a check and the lock: nothing the
   kernel holds dangles, and no port has two native VLANs. *)
KernelContract ==
    /\ \A n \in Names, v \in VIDs : kern.memb[n][v] # "none" => v \in kern.vlans /\ kern.master[n] = Bridge
    /\ kern.svis \subseteq kern.vlans
    /\ \A n \in Names : kern.master[n] \in kern.bonds \cup {Bridge, Nobody}
    /\ \A n \in Names : Cardinality({v \in VIDs : kern.memb[n][v] = "untagged"}) <= 1

(* "Leave the kernel and the list agreeing": a rule that ACLs lists is one the
   kernel enforces, though nft failed and the daemon was restarted. *)
ListedIsEnforced == ~job.busy => proc.acls \subseteq kern.chain
=============================================================================
