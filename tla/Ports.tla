------------------------------- MODULE Ports -------------------------------
(***************************************************************************)
(* What a front-panel port is: routed in a service VLAN of its own,        *)
(* switched in user VLANs, or a member of a LAG that is one or the other.  *)
(* datapath/common/vlan.c, and the part of lag.c that moves members.       *)
(*                                                                         *)
(* Requests come from the query server one at a time, so each is a step.   *)
(* The chip's view and the driver's are kept apart where the code keeps    *)
(* two copies; members[] and untagged[], which every operation writes      *)
(* together with the chip's VLAN table, are that table.                    *)
(***************************************************************************)
EXTENDS Integers, FiniteSetsExt

CONSTANTS
    Port, Lag,  \* front-panel ports, LAG names
    Vid,        \* VLANs a user may ask for; an interface's own name is its service VLAN
    Requests,   \* the sets of what may be asked for, besides VLANs, memberships and LAGs:
                \* "tunnel", "tpid", "svi", "member", and for a call of the SDK to "fail"
    None

Iface == Port \cup Lag
Vlan == Vid \cup Iface

ASSUME NamesAssumption ==
    /\ Port \cap Lag = {} /\ Vid \cap Iface = {} /\ None \notin Vlan
    /\ IsFiniteSet(Vlan)

VARIABLES
    chip,       \* the chip: VLAN members, and each port's settings
    drv,        \* the driver: user VLANs, LAGs, and what it remembers of each interface
    asks        \* what may be asked for, of Requests

vars == <<chip, drv, asks>>

(* bcm_port_learn, bcm_port_vlan_member, bcm_port_dtag_mode and bcm_port_tpid,
   as tapbridge.c leaves a routed port. *)
Routed == [learn |-> "on", filter |-> FALSE, dtag |-> FALSE, tpid |-> FALSE]

Init ==
    /\ chip = [in    |-> [v \in Vlan |-> IF v \in Port THEN {v} ELSE {}],
               untag |-> [v \in Vlan |-> IF v \in Port THEN {v} ELSE {}],
               pvid  |-> [p \in Port |-> p],
               set   |-> [p \in Port |-> Routed],
               block |-> {}]
    /\ drv = [user    |-> {}, svi |-> {},
              lags    |-> {}, of |-> [p \in Port |-> None],
              learn   |-> [p \in Port |-> "on"],
              lagvl   |-> [k \in Lag |-> [v \in Vid |-> "out"]],
              n       |-> [f \in Iface |-> 0],
              saved   |-> [p \in Port |-> FALSE],
              tunnel  |-> [f \in Iface |-> None],
              tpid    |-> [f \in Iface |-> FALSE]]
    /\ asks \in Requests
-----------------------------------------------------------------------------
(* An operation takes the whole state, a record of both, to the next one. *)
State == [c |-> chip, d |-> drv]

(* iface_by_name: a port, or a LAG with its members. *)
Pbm(s, f) == IF f \in Lag THEN {p \in Port : s.d.of[p] = f} ELSE {f}
Exists(f) == f \in Port \/ f \in drv.lags

(* in_vlan and untagged_in. *)
InVlan(s, f, v) == IF f \in Lag THEN s.d.lagvl[f][v] # "out" ELSE f \in s.c.in[v]
UntaggedIn(s, f, v) == IF f \in Lag THEN s.d.lagvl[f][v] = "untagged" ELSE f \in s.c.untag[v]

(* bcm_vlan_port_add, bcm_vlan_port_remove, and a setting of every port. *)
Add(s, v, ps, un) ==
    [s EXCEPT !.c.in[v] = @ \cup ps, !.c.untag[v] = @ \cup un]
Remove(s, v, ps) ==
    [s EXCEPT !.c.in[v] = @ \ ps, !.c.untag[v] = @ \ ps]
Pvid(s, v, ps) ==
    [s EXCEPT !.c.pvid = [p \in Port |-> IF p \in ps THEN v ELSE @[p]]]
Set(s, field, x, ps) ==
    [s EXCEPT !.c.set = [p \in Port |-> IF p \in ps THEN [@[p] EXCEPT ![field] = x] ELSE @[p]]]

(* Into the service VLAN v, untagged, as the ports' PVID. *)
Serve(s, v, ps) == Pvid(Add(s, v, ps, ps), v, ps)

port_switching(s, ps) == Set(Set(s, "filter", TRUE, ps), "learn", "on", ps)
-----------------------------------------------------------------------------
(* leave: out of one VLAN ... *)
LeaveVlan(s, f, v) ==
    LET ps  == Pbm(s, f)
        out == Remove(s, v, ps)
        lag == IF f \in Lag THEN [out EXCEPT !.d.lagvl[f][v] = "out"] ELSE out
        tun == IF s.d.tunnel[f] = v
               THEN [Set(lag, "dtag", FALSE, ps) EXCEPT !.d.tunnel[f] = None] ELSE lag
    IN [tun EXCEPT !.d.n[f] = IF @ > 0 THEN @ - 1 ELSE 0]

(* ... and back to routed if that was the last. *)
BackToRouted(s, f) ==
    LET ps  == Pbm(s, f)
        tag == IF s.d.tpid[f] THEN [Set(s, "tpid", FALSE, ps) EXCEPT !.d.tpid[f] = FALSE] ELSE s
        svc == Serve(tag, f, ps)
    IN IF f \in Lag THEN Set(svc, "learn", "fwd", ps)
       ELSE Set(svc, "filter", s.d.saved[f], ps)

leave(s, f, v) ==
    LET out == LeaveVlan(s, f, v)
    IN IF out.d.n[f] > 0 THEN out ELSE BackToRouted(out, f)

LeaveAll(s, f, vs) == FoldSet(LAMBDA v, t : leave(t, f, v), s, vs)

(* nosaic_vlan_port_set, becoming switched: filtering remembered, out of the
   service VLAN. *)
BecomeSwitched(s, f) ==
    LET ps   == Pbm(s, f)
        kept == IF f \in Port THEN [s EXCEPT !.d.saved[f] = s.c.set[f].filter] ELSE s
    IN port_switching(Remove(kept, f, ps), ps)

Join(s, f, v, tagged) ==
    LET ps  == Pbm(s, f)
        add == Add(s, v, ps, IF tagged THEN {} ELSE ps)
        pv  == IF tagged THEN add ELSE Pvid(add, v, ps)
        lag == IF f \in Lag
               THEN [pv EXCEPT !.d.lagvl[f][v] = IF tagged THEN "tagged" ELSE "untagged"]
               ELSE pv
    IN [lag EXCEPT !.d.n[f] = @ + 1]

(* The rest of nosaic_vlan_port_set, past its checks: one native VLAN, then out
   and in again if the tagging changes. *)
Natives(s, f, v) == {w \in s.d.user \ {v} : InVlan(s, f, w) /\ UntaggedIn(s, f, w)}

Ready(s, f, v, tagged) ==
    LET one == IF tagged THEN s ELSE LeaveAll(s, f, Natives(s, f, v))
        out == IF InVlan(s, f, v) THEN leave(one, f, v) ELSE one
    IN IF out.d.n[f] = 0 THEN BecomeSwitched(out, f) ELSE out

port_set(s, f, v, tagged) ==
    IF InVlan(s, f, v) /\ UntaggedIn(s, f, v) = ~tagged
    THEN IF tagged THEN s ELSE LeaveAll(s, f, Natives(s, f, v))
    ELSE Join(Ready(s, f, v, tagged), f, v, tagged)
-----------------------------------------------------------------------------
Becomes(s) == chip' = s.c /\ drv' = s.d /\ UNCHANGED asks

nosaic_vlan_add(v) ==
    /\ v \notin drv.user
    /\ drv' = [drv EXCEPT !.user = @ \cup {v}]
    /\ UNCHANGED <<chip, asks>>

(* Its LAGs leave, then the ports that are left. *)
nosaic_vlan_del(v) ==
    LET lags == FoldSet(LAMBDA k, t : leave(t, k, v), State, {k \in drv.lags : InVlan(State, k, v)})
        all  == FoldSet(LAMBDA p, t : leave(t, p, v), lags, lags.c.in[v])
    IN /\ v \in drv.user /\ v \notin drv.svi
       /\ Becomes([all EXCEPT !.d.user = @ \ {v}])

(* A port may be named that is a LAG's member. *)
Named(f) == Exists(f) /\ (f \in Port /\ drv.of[f] # None => "member" \in asks)
Free(f) == f \in Port => drv.of[f] = None

nosaic_vlan_port_set(f, v, tagged) ==
    /\ Exists(f) /\ Free(f) /\ v \in drv.user
    /\ drv.tunnel[f] \in {None, v}
    /\ Becomes(port_set(State, f, v, tagged))

(* bcm_vlan_port_add fails: what was done so far stays. *)
PortSetFails(f, v, tagged) ==
    /\ "fail" \in asks
    /\ Exists(f) /\ Free(f) /\ v \in drv.user
    /\ drv.tunnel[f] \in {None, v}
    /\ ~(InVlan(State, f, v) /\ UntaggedIn(State, f, v) = ~tagged)
    /\ Becomes(Ready(State, f, v, tagged))

nosaic_vlan_port_del(f, v) ==
    /\ Named(f) /\ v \in drv.user /\ InVlan(State, f, v)
    /\ Becomes(leave(State, f, v))

(* Out of everything else, then nosaic_vlan_port_set, which may refuse. *)
nosaic_vlan_tunnel(f, v) ==
    LET only == LeaveAll(State, f, {w \in drv.user \ {v} : InVlan(State, f, w)})
        none == [only EXCEPT !.d.tunnel[f] = None]
        in   == port_set(none, f, v, FALSE)
    IN /\ "tunnel" \in asks
       /\ Named(f) /\ v \in drv.user
       /\ Becomes(IF Free(f) THEN [Set(in, "dtag", TRUE, Pbm(in, f)) EXCEPT !.d.tunnel[f] = v]
                  ELSE none)

(* Asked of a trunk, as `switchport` does once its memberships stand. *)
nosaic_vlan_tpid(f, t) ==
    /\ "tpid" \in asks
    /\ Exists(f) /\ Free(f) /\ drv.n[f] > 0 /\ drv.tpid[f] # t
    /\ Becomes([Set(State, "tpid", t, Pbm(State, f)) EXCEPT !.d.tpid[f] = t])

nosaic_svi_add(v) ==
    /\ "svi" \in asks
    /\ v \in drv.user \ drv.svi
    /\ drv' = [drv EXCEPT !.svi = @ \cup {v}]
    /\ UNCHANGED <<chip, asks>>

nosaic_svi_del(v) ==
    /\ v \in drv.svi
    /\ drv' = [drv EXCEPT !.svi = @ \ {v}]
    /\ UNCHANGED <<chip, asks>>
-----------------------------------------------------------------------------
(* flood_block: with every other member, both ways. *)
Pairs(p, ps) == {<<p, q>> : q \in ps \ {p}} \cup {<<q, p>> : q \in ps \ {p}}

(* nosaic_vlan_lag_join: every VLAN the LAG is in. *)
nosaic_vlan_lag_join(s, k, p) ==
    LET sw  == port_switching(s, {p})
        tun == IF s.d.tunnel[k] # None THEN Set(sw, "dtag", TRUE, {p}) ELSE sw
        tag == IF s.d.tpid[k] THEN Set(tun, "tpid", TRUE, {p}) ELSE tun
        In(v, t) == IF s.d.lagvl[k][v] = "untagged" THEN Serve(t, v, {p}) ELSE Add(t, v, {p}, {})
    IN FoldSet(In, tag, {v \in Vid : s.d.lagvl[k][v] # "out"})

nosaic_vlan_lag_leave(s, k, p) ==
    LET Out(v, t) == Remove(t, v, {p})
        out == FoldSet(Out, s, {v \in Vid : s.d.lagvl[k][v] # "out"})
        tun == IF s.d.tunnel[k] # None THEN Set(out, "dtag", FALSE, {p}) ELSE out
    IN IF s.d.tpid[k] THEN Set(tun, "tpid", FALSE, {p}) ELSE tun

member_join(s, k, p) ==
    LET own == [Remove(s, p, {p}) EXCEPT !.c.block = @ \cup Pairs(p, Pbm(s, k)),
                                         !.d.learn[p] = s.c.set[p].learn]
        in  == IF s.d.n[k] > 0 THEN nosaic_vlan_lag_join(own, k, p)
               ELSE Serve(Set(own, "learn", "fwd", {p}), k, {p})
    IN [in EXCEPT !.d.of[p] = k]

(* Mutant: a member leaves as it was in the LAG, not learning. *)
MemberLeaveDeaf(s, k, p) ==
    LET out == IF s.d.n[k] > 0 THEN nosaic_vlan_lag_leave(s, k, p) ELSE Remove(s, k, {p})
    IN [Serve(out, p, {p}) EXCEPT !.c.block = @ \ Pairs(p, Pbm(s, k)), !.d.of[p] = None]

(* p is out of the LAG's list when its pairs are unblocked. *)
member_leave(s, k, p) ==
    LET out == IF s.d.n[k] > 0 THEN nosaic_vlan_lag_leave(s, k, p) ELSE Remove(s, k, {p})
        own == Serve(Set(out, "learn", s.d.learn[p], {p}), p, {p})
    IN [own EXCEPT !.c.block = @ \ Pairs(p, Pbm(s, k)), !.d.of[p] = None]

nosaic_lag_add(k) ==
    /\ k \notin drv.lags
    /\ drv' = [drv EXCEPT !.lags = @ \cup {k}]
    /\ UNCHANGED <<chip, asks>>

(* Mutant: a port another LAG has is taken. *)
LagMembersTaken(k, want) ==
    LET have == Pbm(State, k)
        left == FoldSet(LAMBDA p, t : member_leave(t, k, p), State, have \ want)
    IN /\ k \in drv.lags /\ want # have
       /\ \A p \in want : drv.n[p] = 0
       /\ Becomes(FoldSet(LAMBDA p, t : member_join(t, k, p), left, want \ have))

(* Every port checked first; leavers, then joiners. *)
nosaic_lag_members(k, want) ==
    LET have == Pbm(State, k)
        left == FoldSet(LAMBDA p, t : member_leave(t, k, p), State, have \ want)
    IN /\ k \in drv.lags /\ want # have
       /\ \A p \in want : drv.of[p] = k \/ (drv.of[p] = None /\ drv.n[p] = 0)
       /\ Becomes(FoldSet(LAMBDA p, t : member_join(t, k, p), left, want \ have))

(* nosaic_vlan_lag_forget, then the members one by one. *)
nosaic_lag_del(k) ==
    LET gone == LeaveAll(State, k, {v \in Vid : InVlan(State, k, v)})
        left == FoldSet(LAMBDA p, t : member_leave(t, k, p), gone, Pbm(State, k))
    IN /\ k \in drv.lags
       /\ Becomes([left EXCEPT !.d.n[k] = 0, !.d.lags = @ \ {k}])

Next ==
    \/ \E v \in Vid :
        \/ nosaic_vlan_add(v) \/ nosaic_vlan_del(v) \/ nosaic_svi_add(v) \/ nosaic_svi_del(v)
        \/ \E f \in Iface :
            \/ nosaic_vlan_port_del(f, v) \/ nosaic_vlan_tunnel(f, v)
            \/ \E tagged \in BOOLEAN :
                nosaic_vlan_port_set(f, v, tagged) \/ PortSetFails(f, v, tagged)
    \/ \E f \in Iface, t \in BOOLEAN : nosaic_vlan_tpid(f, t)
    \/ \E k \in Lag :
        nosaic_lag_add(k) \/ nosaic_lag_del(k) \/ \E want \in SUBSET Port : nosaic_lag_members(k, want)

Spec == Init /\ [][Next]_vars
-----------------------------------------------------------------------------
(* The VLANs port p should be in, from what the driver knows of its interface. *)
Owner(p) == IF drv.of[p] = None THEN p ELSE drv.of[p]
Joined(f) == {v \in Vid : InVlan(State, f, v)}

(* docs/vlan.md: "no port is half of each".  The count of memberships that decides
   whether an interface is routed is the number of VLANs it is in; a port is in its
   interface's service VLAN and nowhere else while that is routed, and in its user
   VLANs and no service VLAN while it is switched; a LAG's members are in its VLANs
   "as one".  A port that a failed bcm_vlan_port_add left half way, or one asked for
   by its own name while it is a LAG's member, is the exception. *)
RoutedOrSwitched ==
    /\ \A f \in Iface : Free(f) => drv.n[f] = Cardinality(Joined(f))
    /\ {"fail", "member"} \cap asks = {} => \A p \in Port :
        LET f == Owner(p)
        IN {v \in Vlan : p \in chip.in[v]} = IF drv.n[f] = 0 THEN {f} ELSE Joined(f)

(* "One native VLAN per port", and untagged frames go into it: the VLAN a port is
   untagged in is its PVID, unless it was asked for by name while a LAG's member. *)
OneNative ==
    "member" \notin asks => \A p \in Port, v \in Vlan :
        p \in chip.untag[v] => chip.pvid[p] = v /\ p \in chip.in[v]

(* A QinQ customer port: "that is its only membership", untagged, with its ports and
   no others in the double-tag mode. *)
TunnelOnly ==
    /\ \A f \in Iface : Free(f) /\ drv.tunnel[f] # None =>
        Joined(f) = {drv.tunnel[f]} /\ UntaggedIn(State, f, drv.tunnel[f])
    /\ \A p \in Port : chip.set[p].dtag = (drv.tunnel[Owner(p)] # None)

(* A port in no LAG and no VLAN is as tapbridge made it: it learns, has 802.1Q's
   tag, and is nobody's customer.  Not its ingress filtering: a member of a switched
   LAG leaves with what port_switching gave it. *)
AsMade ==
    \A p \in Port :
        drv.of[p] = None /\ drv.n[p] = 0 => [chip.set[p] EXCEPT !.filter = FALSE] = Routed

(* "Nothing flooded in on one member may leave by another": exactly the members of
   a LAG block floods to each other, whatever joined and left before. *)
FloodsBlocked ==
    chip.block = {pq \in Port \X Port :
        pq[1] # pq[2] /\ drv.of[pq[1]] = drv.of[pq[2]] /\ drv.of[pq[1]] # None}

(* docs/vlan.md: an interface is routed, switched or a customer's, and its ports
   with it, whatever order the calls came in. *)
NoHalfPort == RoutedOrSwitched /\ OneNative /\ TunnelOnly

(* What a LAG did to a port is undone when the port leaves. *)
LeavesNoTrace == AsMade /\ FloodsBlocked
=============================================================================
