-------------------------------- MODULE Rstp --------------------------------
(***************************************************************************)
(* Rapid spanning tree (datapath/common/rstp.c) on bridges joined by       *)
(* point-to-point links.                                                   *)
(*                                                                         *)
(* A bridge's thread calls run() on every BPDU and every 100 ms; here a    *)
(* step of a bridge is one run(), with the BPDUs that have arrived since   *)
(* the last: rstp_rx has one slot per interface, so of several the last.   *)
(* Time is counted in hello times, and passes when no BPDU is under way    *)
(* and no run() would change anything.  Deadlines are counted down.        *)
(*                                                                         *)
(* Every bridge runs this code, so BPDUs are RST BPDUs, with this code's   *)
(* times; the transmit hold count is never reached.                        *)
(***************************************************************************)
EXTENDS Integers, FiniteSets

CONSTANTS Scenarios, None

(* In units of hello_ms = 1000. *)
Held    == 3        \* 3 * hello
Migrate == 3        \* MIGRATE_MS
TcWhile == 2        \* hello_ms + 1000

EventKinds == {"link", "loss", "oneway", "priority", "join", "config"}

ASSUME ScenarioAssumption ==
    \A c \in Scenarios :
        /\ \A p \in DOMAIN c.peer : c.peer[p] \in DOMAIN c.peer /\ c.peer[c.peer[p]] = p /\ c.peer[p] # p
        /\ \A p \in DOMAIN c.peer : p[1] \in DOMAIN c.id /\ p[2] \in 1 .. c.ports[p[1]]
        /\ \A a, b \in DOMAIN c.id : a # b => c.id[a] # c.id[b]
        /\ c.fwd \in 4 .. 30 /\ c.age \in 6 .. 40 /\ c.age <= 2 * (c.fwd - 1)
        /\ c.events \subseteq EventKinds
        /\ c.max \in Nat        \* bound on the events

VARIABLES
    scn,        \* the scenario, which never changes
    up,         \* the ports whose link is up
    dark,       \* ports whose BPDUs and frames the far end does not receive
    br,         \* br[b]: the bridge's variables
    wire,       \* wire[p]: BPDUs on their way to port p
    events

vars == <<scn, up, dark, br, wire, events>>

Peer == scn.peer
Port == DOMAIN Peer
Bridge == DOMAIN scn.id
Key(b) == 1 .. scn.ports[b]
Fwd == scn.fwd
MaxAge == scn.age
Cost(b, k) == scn.cost[<<b, k>>]

Unset == -1

(* struct sport, as nosaic_rstp_set leaves it: run() starts it afresh. *)
Fresh == [used |-> TRUE, enabled |-> FALSE, role |-> "disabled", state |-> "discarding",
          info |-> "disabled", pv |-> <<0, 0, 0, 0>>, age |-> 0,
          proposing |-> FALSE, proposed |-> FALSE, agreed |-> FALSE, agree |-> FALSE,
          newinfo |-> FALSE, edge |-> FALSE, heard |-> FALSE,
          rcvd |-> 0, fd |-> Unset, tc |-> 0, quiet |-> Unset, due |-> TRUE,
          admin_edge |-> FALSE, bpdu_guard |-> FALSE, root_guard |-> FALSE, tripped |-> FALSE]

Started(id, ports) ==
    [id |-> id, root |-> <<0, 0, 0, 0>>, via |-> 0, age |-> 0, reselect |-> TRUE, p |-> ports]

Init ==
    /\ scn \in Scenarios
    /\ up = DOMAIN scn.peer
    /\ dark = {}
    /\ br = [b \in DOMAIN scn.id |->
                Started(scn.id[b], [k \in 1 .. scn.ports[b] |-> Fresh])]
    /\ wire = [p \in DOMAIN scn.peer |-> None]
    /\ events = 0
-----------------------------------------------------------------------------
(* Priority vectors: root, root path cost, designated bridge, designated port. *)
Less(v, w) == \E i \in 1 .. 4 : v[i] < w[i] /\ \A j \in 1 .. (i - 1) : v[j] = w[j]

Designated(r, k) == <<r.root[1], r.root[2], r.id, k>>

Syncs(sp) == sp.enabled /\ sp.role = "designated" /\ ~sp.edge /\ ~sp.agreed

Unsynced(ports) == ports        \* mutant: designated ports go on forwarding

sync_all(ports) ==
    [k \in DOMAIN ports |->
        IF Syncs(ports[k]) THEN [ports[k] EXCEPT !.state = "discarding", !.fd = Unset] ELSE ports[k]]

all_synced(ports, except) ==
    \A k \in DOMAIN ports \ {except} : Syncs(ports[k]) => ports[k].state = "discarding"

(* topology_change: the TC flag goes out of the root and designated ports.  (What
   it flushes is not state of this module.) *)
topology_change(r, from, rcvd) ==
    [r EXCEPT !.p = [k \in DOMAIN r.p |->
        LET sp == r.p[k]
        IN IF /\ sp.enabled /\ ~sp.edge /\ ~(rcvd /\ k = from)
              /\ sp.role \in {"root", "designated"} /\ sp.tc = 0
           THEN [sp EXCEPT !.tc = TcWhile, !.newinfo = TRUE] ELSE sp]]
-----------------------------------------------------------------------------
(* select_roles *)

(* The ways to the root: not by an own BPDU, nor by a guarded port. *)
Candidates(r) ==
    {k \in DOMAIN r.p : /\ r.p[k].enabled /\ r.p[k].info = "received"
                        /\ r.p[k].pv[3] # r.id /\ ~r.p[k].root_guard}
Path(b, r, k) == [r.p[k].pv EXCEPT ![2] = @ + Cost(b, k)]

(* The best, the lowest port of equals, if better than being the root itself. *)
Best(b, r) ==
    LET better == {k \in Candidates(r) : Less(Path(b, r, k), <<r.id, 0, r.id, 0>>)}
    IN IF better = {} THEN 0
       ELSE CHOOSE k \in better : \A j \in better \ {k} :
                \/ Less(Path(b, r, k), Path(b, r, j))
                \/ Path(b, r, k) = Path(b, r, j) /\ k < j

Role(r, k) ==
    LET sp == r.p[k]
    IN IF ~sp.enabled THEN "disabled"
       ELSE IF k = r.via THEN "root"
       ELSE IF sp.info = "received" /\ Less(sp.pv, Designated(r, k))
       THEN IF sp.pv[3] = r.id THEN "backup" ELSE "alternate"
       ELSE "designated"

(* updtInfo: ours to send now, and agreed no more. *)
Informed(r, k, role) ==
    IF role = "designated" /\ (r.p[k].info # "mine" \/ r.p[k].pv # Designated(r, k))
    THEN [r.p[k] EXCEPT !.pv = Designated(r, k), !.age = r.age, !.info = "mine",
                        !.agreed = FALSE, !.newinfo = TRUE]
    ELSE r.p[k]

Assigned(r, k) ==
    LET role == Role(r, k)
        sp == Informed(r, k, role)
    IN IF role = sp.role THEN sp
       ELSE [sp EXCEPT !.role = role, !.proposing = FALSE, !.fd = Unset, !.newinfo = TRUE,
                       !.agree = @ /\ role = "root"]

select_roles(b, old) ==
    LET via == Best(b, old)
        r == [old EXCEPT !.via = via, !.reselect = FALSE,
                         !.root = IF via = 0 THEN <<old.id, 0, old.id, 0>> ELSE Path(b, old, via),
                         !.age = IF via = 0 THEN 0 ELSE old.p[via].age + 1]
        ports == [k \in DOMAIN r.p |-> Assigned(r, k)]
    IN [r EXCEPT !.p =
            IF via = old.via /\ r.root = old.root THEN ports
            ELSE sync_all([k \in DOMAIN ports |->
                    IF k = via THEN [ports[k] EXCEPT !.agree = FALSE] ELSE ports[k]])]
-----------------------------------------------------------------------------
(* receive *)

(* A designated BPDU: better, or new from the same port; or repeated. *)
News(sp, m) ==
    \/ Less(m.pv, sp.pv)
    \/ sp.info = "received" /\ m.pv # sp.pv /\ m.pv[3] = sp.pv[3] /\ m.pv[4] = sp.pv[4]
Repeated(sp, m) == sp.info = "received" /\ m.pv = sp.pv

Recorded(sp, m) ==
    [sp EXCEPT !.pv = m.pv, !.age = m.age, !.info = "received", !.agreed = @ /\ ~News(sp, m),
               !.rcvd = Held, !.proposed = m.proposal]

(* Inferior: a dispute, if its sender is designated too and learning. *)
Told(sp, m) ==
    LET disputed == sp.role = "designated" /\ m.learning
    IN [sp EXCEPT !.state = IF disputed THEN "discarding" ELSE @,
                  !.agreed = @ /\ ~disputed, !.newinfo = TRUE]

Accepts(r, sp, m) == sp.role = "designated" /\ m.agreement /\ m.pv[1] = r.root[1]

Heard(r, k, m) ==
    LET sp == r.p[k]
    IN IF m.role = "designated"
       THEN IF News(sp, m) \/ Repeated(sp, m)
            THEN [r EXCEPT !.p[k] = Recorded(sp, m), !.reselect = @ \/ News(sp, m) \/ sp.age # m.age]
            ELSE [r EXCEPT !.p[k] = Told(sp, m)]
       ELSE IF Accepts(r, sp, m)
       THEN [r EXCEPT !.p[k].agreed = TRUE, !.p[k].proposing = FALSE]
       ELSE r

LoopedBack(r, k, m) == m.pv[3] = r.id /\ m.pv[4] = k

receive(r0, k, m) ==
    LET r == [r0 EXCEPT !.p[k].heard = TRUE, !.p[k].edge = FALSE, !.p[k].quiet = Unset,
                        !.reselect = @ \/ r0.p[k].edge]
    IN IF r0.p[k].bpdu_guard THEN [r0 EXCEPT !.p[k].tripped = TRUE, !.reselect = TRUE]
       ELSE IF m.age >= MaxAge THEN r
       ELSE IF LoopedBack(r, k, m)
       THEN [r EXCEPT !.p[k].pv = m.pv, !.p[k].info = "received", !.p[k].rcvd = Held,
                      !.reselect = TRUE]
       ELSE IF m.tc THEN topology_change(Heard(r, k, m), k, TRUE) ELSE Heard(r, k, m)
-----------------------------------------------------------------------------
(* transition *)

(* A root port forwards at once, and agrees when its bridge has synced. *)
RootTransition(r, k) ==
    LET asked == IF r.p[k].proposed THEN sync_all(r.p) ELSE r.p
        agrees == ~asked[k].agree /\ all_synced(asked, k)
    IN [r EXCEPT !.p = [asked EXCEPT ![k] =
            [@ EXCEPT !.proposed = FALSE, !.agree = @ \/ agrees, !.newinfo = @ \/ agrees,
                      !.state = "forwarding"]]]

(* An edge, or agreed to, forwards; else it proposes, and counts forward delays. *)
Waiting(sp) ==
    LET fd == IF sp.fd = Unset THEN Fwd ELSE sp.fd
        asking == [sp EXCEPT !.proposing = TRUE, !.newinfo = @ \/ ~sp.proposing, !.fd = fd]
    IN IF fd > 0 THEN asking
       ELSE [asking EXCEPT !.fd = Fwd,
                           !.state = IF @ = "discarding" THEN "learning" ELSE "forwarding"]

DesignatedTransition(sp0) ==
    LET sp == [sp0 EXCEPT !.edge = @ \/ (~sp0.heard /\ sp0.quiet = 0)]
    IN IF sp.state = "forwarding" THEN sp
       ELSE IF sp.edge \/ sp.agreed THEN [sp EXCEPT !.state = "forwarding", !.proposing = FALSE]
       ELSE Waiting(sp)

(* An alternate or a backup discards, and agrees at once. *)
Blocked(sp) ==
    [sp EXCEPT !.state = "discarding", !.agree = @ \/ sp.proposed, !.newinfo = @ \/ sp.proposed,
               !.proposed = FALSE]

Opens(sp) == sp.enabled /\ sp.role \in {"root", "designated"}

Down(r, k) ==
    LET sp == r.p[k]
    IN IF sp.enabled /\ sp.role \in {"alternate", "backup"} THEN [r EXCEPT !.p[k] = Blocked(sp)]
       ELSE IF (sp.enabled /\ sp.role = "disabled") \/ (~sp.enabled /\ sp.used)
       THEN [r EXCEPT !.p[k].state = "discarding"]
       ELSE r

Up(r, k) ==
    LET sp == r.p[k]
        done == IF sp.role = "root" THEN RootTransition(r, k)
                ELSE [r EXCEPT !.p[k] = DesignatedTransition(sp)]
    IN IF ~Opens(sp) THEN r
       ELSE IF sp.state # "forwarding" /\ done.p[k].state = "forwarding" /\ ~done.p[k].edge
       THEN topology_change(done, k, FALSE)
       ELSE done
-----------------------------------------------------------------------------
(* run *)

(* The link; then what has been received, if the port was enabled to receive it;
   then what has been held too long. *)
Polled(b, r, k, got) ==
    LET sp == r.p[k]
        link == sp.used /\ <<b, k>> \in up
        now == link /\ ~sp.tripped
        turned == IF now = sp.enabled THEN sp
                  ELSE IF now
                  THEN [sp EXCEPT !.enabled = TRUE, !.info = "aged", !.edge = sp.admin_edge,
                                  !.heard = FALSE, !.quiet = Migrate, !.agreed = FALSE,
                                  !.agree = FALSE, !.proposed = FALSE, !.proposing = FALSE,
                                  !.due = TRUE]
                  ELSE [sp EXCEPT !.enabled = FALSE, !.info = "disabled"]
        r1 == [r EXCEPT !.p[k] = [turned EXCEPT !.tripped = @ /\ link],
                        !.reselect = @ \/ now # sp.enabled]
        r2 == IF now /\ sp.enabled /\ got # None THEN receive(r1, k, got) ELSE r1
    IN IF now /\ r2.p[k].info = "received" /\ r2.p[k].rcvd = 0
       THEN [r2 EXCEPT !.p[k].info = "aged", !.reselect = TRUE]
       ELSE r2

(* The interfaces in the order of the tables. *)
Over(b, r, Op(_, _)) ==
    LET after[k \in 0 .. scn.ports[b]] == IF k = 0 THEN r ELSE Op(after[k - 1], k)
    IN after[scn.ports[b]]

Transitions(b, got) ==
    LET polled == Over(b, br[b], LAMBDA r, k : Polled(b, r, k, got[k]))
        chosen == IF polled.reselect THEN select_roles(b, polled) ELSE polled
        down == Over(b, chosen, Down)
    IN Over(b, down, Up)

Sends(sp) ==
    /\ sp.enabled
    /\ \/ sp.role = "designated" /\ (sp.newinfo \/ sp.due)
       \/ sp.role = "root" /\ sp.newinfo
       \/ sp.role \in {"alternate", "backup"} /\ sp.newinfo /\ sp.agree

Sent(sp) ==
    IF ~sp.enabled THEN sp
    ELSE [sp EXCEPT !.newinfo = FALSE, !.due = @ /\ sp.role # "designated"]

Bpdu(r, k) ==
    LET sp == r.p[k]
    IN [role |-> sp.role, proposal |-> sp.proposing /\ sp.role = "designated",
        learning |-> sp.state # "discarding", agreement |-> sp.agree /\ sp.role # "designated",
        pv |-> Designated(r, k), age |-> r.age, tc |-> sp.tc > 0]

Finished(r) == [r EXCEPT !.p = [k \in DOMAIN r.p |-> Sent(r.p[k])]]

(* One run() of b, after the BPDUs to its ports of A have arrived. *)
run(b, A) ==
    LET got == [k \in Key(b) |-> IF k \in A THEN wire[<<b, k>>] ELSE None]
        r == Transitions(b, got)
        out == {k \in Key(b) : <<b, k>> \in Port /\ Sends(r.p[k])}
    IN /\ br' = [br EXCEPT ![b] = Finished(r)]
       /\ wire' = [p \in Port |->
            LET from == Peer[p]
            IN IF from[1] = b /\ from[2] \in out /\ p \in up /\ from \notin dark
               THEN Bpdu(r, from[2])
               ELSE IF p[1] = b /\ p[2] \in A THEN None ELSE wire[p]]

Waits(b) == {k \in Key(b) : <<b, k>> \in Port /\ wire[<<b, k>>] # None}

Run(b) ==
    /\ \E A \in SUBSET Waits(b) : run(b, A)
    /\ <<br, wire>>' # <<br, wire>>
    /\ UNCHANGED <<scn, up, dark, events>>

(* No run() would change anything. *)
Steady(b) ==
    LET r == Transitions(b, [k \in Key(b) |-> None])
    IN Finished(r) = br[b] /\ \A k \in Key(b) : ~Sends(r.p[k])

Less1(t) == IF t > 0 THEN t - 1 ELSE t

(* Mutant: a change is announced for ever. *)
AgedAnnouncing(sp) ==
    [sp EXCEPT !.rcvd = Less1(@), !.fd = Less1(@), !.quiet = Less1(@), !.due = TRUE]

Aged(sp) ==
    [sp EXCEPT !.rcvd = Less1(@), !.fd = Less1(@), !.tc = Less1(@), !.quiet = Less1(@), !.due = TRUE]

Tick ==
    /\ \A p \in Port : wire[p] = None
    /\ \A b \in Bridge : Steady(b)
    /\ br' = [b \in Bridge |-> [br[b] EXCEPT !.p = [k \in Key(b) |-> Aged(br[b].p[k])]]]
    /\ UNCHANGED <<scn, up, dark, wire, events>>
-----------------------------------------------------------------------------
(* What happens to the bridges *)

Event(kind) == kind \in scn.events /\ events < scn.max /\ events' = events + 1

(* A cable is pulled or plugged in: each end finds out in its own run(). *)
Link(p) ==
    /\ Event("link")
    /\ LET both == {p, Peer[p]}
       IN /\ up' = IF p \in up THEN up \ both ELSE up \cup both
          /\ wire' = [q \in Port |-> IF q \in both THEN None ELSE wire[q]]
    /\ UNCHANGED <<scn, dark, br>>

Lose(p) ==
    /\ Event("loss")
    /\ wire[p] # None
    /\ wire' = [wire EXCEPT ![p] = None]
    /\ UNCHANGED <<scn, up, dark, br>>

(* One fibre of a link breaks, and the link stays up. *)
OneWay(p) ==
    /\ Event("oneway")
    /\ dark' = dark \cup {p}
    /\ wire' = [wire EXCEPT ![Peer[p]] = None]
    /\ UNCHANGED <<scn, up, br>>

(* The priority of b changes, and so its id; what has arrived and not been looked at
   is dropped. *)
nosaic_rstp_set(b) ==
    /\ Event("priority")
    /\ br[b].id # scn.newid[b]
    /\ br' = [br EXCEPT ![b] = Started(scn.newid[b], [k \in Key(b) |->
                [@.p[k] EXCEPT !.enabled = FALSE, !.info = "disabled", !.role = "disabled",
                               !.state = IF br[b].p[k].used THEN "discarding" ELSE @]])]
    /\ \E pending \in SUBSET Waits(b) :
        wire' = [p \in Port |-> IF p[1] = b /\ p[2] \in pending THEN None ELSE wire[p]]
    /\ UNCHANGED <<scn, up, dark>>

(* vlan.c: an interface joins its first VLAN, or leaves its last. *)
nosaic_rstp_iface(b, k) ==
    /\ Event("join")
    /\ br' = [br EXCEPT ![b].reselect = TRUE,
                ![b].p[k] = IF @.used THEN [@ EXCEPT !.used = FALSE, !.state = "forwarding"]
                            ELSE [@ EXCEPT !.used = TRUE, !.state = "discarding",
                                           !.enabled = FALSE, !.role = "disabled"]]
    /\ UNCHANGED <<scn, up, dark, wire>>

(* An operator configures an interface. *)
nosaic_rstp_port(b, k, edge, bpdu, root) ==
    /\ Event("config")
    /\ br' = [br EXCEPT ![b].reselect = TRUE,
                ![b].p[k] = [@ EXCEPT !.admin_edge = edge, !.bpdu_guard = bpdu, !.root_guard = root,
                                      !.tripped = FALSE, !.edge = edge /\ (@ \/ ~br[b].p[k].heard)]]
    /\ UNCHANGED <<scn, up, dark, wire>>

Environment ==
    \/ \E p \in Port : Link(p) \/ Lose(p) \/ OneWay(p)
    \/ \E b \in Bridge : nosaic_rstp_set(b)
    \/ \E b \in Bridge : \E k \in Key(b) :
        \/ nosaic_rstp_iface(b, k)
        \/ \E c \in scn.configs : nosaic_rstp_port(b, k, c.edge, c.bpdu, c.root)

Next == (\E b \in Bridge : Run(b)) \/ Tick \/ Environment

Spec == Init /\ [][Next]_vars
-----------------------------------------------------------------------------
(* The threads run and time passes: one or the other is always possible, and is no
   event. *)
FairSpec == Spec /\ []<><<UNCHANGED events>>_vars
-----------------------------------------------------------------------------
Sp(p) == br[p[1]].p[p[2]]
Open(p) == Sp(p).used /\ Sp(p).state = "forwarding"

(* A frame that arrived at port p is flooded on to port q of the next bridge. *)
Hop(p, q) ==
    LET out == Peer[q]
    IN out[1] = p[1] /\ out # p /\ q \in up /\ out \notin dark /\ Open(p) /\ Open(out) /\ Open(q)

(* docs/stp.md: "a loop in the file is never a loop on the wire, not even for the
   seconds a pass takes".  At no moment, while links fail and return, BPDUs are lost,
   interfaces join and a better root appears, is a frame flooded round a loop. *)
NoLoop ==
    LET next == [p \in Port |-> {q \in Port : Hop(p, q)}]
    IN ~\E S \in SUBSET {p \in Port : next[p] # {}} : S # {} /\ \A p \in S : next[p] \cap S # {}

(* A link between bridges that both ends have in the tree. *)
Joins(p) == p \in up /\ \A q \in {p, Peer[p]} : Sp(q).used /\ ~Sp(q).tripped

Crosses(S, p) == Joins(p) /\ p[1] \in S /\ Peer[p][1] \notin S
Spanning ==
    \A S \in SUBSET Bridge :
        (\E p \in Port : Crosses(S, p)) => \E p \in Port : Crosses(S, p) /\ Open(p) /\ Open(Peer[p])

(* The tree ends up spanning: every bridge that can be reached is reached over links
   that forward at both ends, unless a link works one way only or a guard has taken
   it out. *)
Converges == <>[](dark = {} /\ scn.configs = {} => Spanning)

(* topology_change, "Without both rules two bridges hand the same change back and
   forth for ever": with no link disputed, announcing ends. *)
ChangesEnd == <>[](dark = {} => \A p \in Port : Sp(p).tc = 0)

(* "a point-to-point link forwards in one round trip, not two forward delays", and
   a link to a bridge is never taken for a host's, as long as every BPDU arrives at
   an interface that is in the tree. *)
Rapid ==
    {"loss", "oneway", "join", "config"} \cap scn.events = {} =>
        \A p \in Port : Sp(p).state # "learning" /\ ~(Sp(p).edge /\ Joins(p))

(* The tree forms fast where every BPDU arrives, in the end spans, and then is
   quiet. *)
TreeForms == []Rapid /\ Converges /\ ChangesEnd
=============================================================================
