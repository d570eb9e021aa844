-------------------------------- MODULE Lag --------------------------------
(***************************************************************************)
(* Which members of a LAG the chip sends by, and which the packet paths    *)
(* pick: datapath/common/lag.c, one LAG.  The LACP thread, a request of    *)
(* the query server, the SDK's linkscan and a frame being sent from the    *)
(* CPU all run at once; lag_lock orders the first two and nothing else.    *)
(*                                                                         *)
(* Whether a partner agrees to a member is the environment's here; Lacp    *)
(* says how it comes to.                                                   *)
(***************************************************************************)
EXTENDS Integers, Sequences, Functions, FiniteSets

CONSTANTS
    Port,           \* front-panel ports
    NoPort,         \* what dports holds before it is first written
    Scenarios       \* the machines, with what happens on them

ASSUME LagAssumption == IsFiniteSet(Port) /\ NoPort \notin Port

ASSUME ScenarioAssumption ==
    \A c \in Scenarios :
        /\ c.removes \in BOOLEAN   \* the chip's linkscan takes a member out by itself
        /\ c.ordered \in BOOLEAN   \* a reader sees publish's stores in program order
        /\ c.events \subseteq {"link", "agree", "mode", "members", "del", "send"}
        /\ c.max \in Nat           \* bound on the events

VARIABLES
    scn,        \* the scenario, which never changes
    up,         \* up[p]: the port has link
    agreed,     \* agreed[p]: the partner agrees to it
    scan,       \* scan[p]: linkscan has yet to "remove" it, or to "call" us
    trunk,      \* the chip's trunk table
    used, lacp, \* the LAG exists; it is negotiated
    m,          \* its members, in order
    mem,        \* mem[p]: what the LAG holds of member p
    claimed,    \* claimed[p]: its interface is the LAG
    dports, ndist,  \* the published members
    relink,
    pass,       \* the thread: "idle", or between the links and the rest
    changed,
    pub,        \* publish: "no", "count" to do, or "ports" to do
    job,        \* the request being served
    frame,      \* a frame being sent: its count read, its port picked
    seen,       \* the ports claimed at some time since its count was read
    events

env == <<scn, up, agreed, scan>>
cfg == <<used, lacp, m, mem, claimed>>
vars == <<scn, up, agreed, scan, trunk, used, lacp, m, mem, claimed, dports, ndist, relink,
          pass, changed, pub, job, frame, seen, events>>

Size == Cardinality(Port)
Joined == [link |-> FALSE, dist |-> FALSE]
Idle == [op |-> "none", want |-> <<>>, gone |-> NoPort]
NoFrame == [n |-> 0, port |-> NoPort]

Init ==
    /\ scn \in Scenarios
    /\ up \in [Port -> BOOLEAN]
    /\ agreed = [p \in Port |-> FALSE]
    /\ scan = [p \in Port |-> "no"]
    /\ trunk = {}
    /\ used = FALSE /\ lacp = FALSE
    /\ m = <<>>
    /\ mem = [p \in Port |-> Joined]
    /\ claimed = [p \in Port |-> FALSE]
    /\ dports = [i \in 0 .. (Size - 1) |-> NoPort] /\ ndist = 0
    /\ relink = FALSE
    /\ pass = "idle" /\ changed = FALSE /\ pub = "no"
    /\ job = Idle
    /\ frame = NoFrame /\ seen = {}
    /\ events = 0

(* lag_lock is free. *)
Free == pass = "idle" /\ pub = "no"

Happens(what) ==
    /\ what \in scn.events
    /\ events < scn.max
    /\ events' = events + 1
-----------------------------------------------------------------------------
(* publish, with lag_lock held: the distributing members in order ... *)
Distributing(ms, r) ==
    LET Loop[i \in 0 .. Len(ms)] ==
            IF i = 0 THEN <<>>
            ELSE IF r[ms[i]].dist THEN Append(Loop[i - 1], ms[i]) ELSE Loop[i - 1]
    IN  Loop[Len(ms)]
Written(d) == [i \in DOMAIN dports |-> IF i < Len(d) THEN d[i + 1] ELSE dports[i]]

(* ... are written to dports, and then counted; a machine that reorders stores
   may show the count first. *)
Publish(ms, r) ==
    LET d == Distributing(ms, r)
    IN \/ dports' = Written(d) /\ pub' = "count" /\ UNCHANGED ndist
       \/ ~scn.ordered /\ ndist' = Len(d) /\ pub' = "ports" /\ UNCHANGED dports

PublishRest ==
    LET d == Distributing(m, mem)
    IN /\ pub # "no"
       /\ IF pub = "count" THEN ndist' = Len(d) /\ UNCHANGED dports
          ELSE dports' = Written(d) /\ UNCHANGED ndist
       /\ trunk' = Range(d)
       /\ pub' = "no"
       /\ UNCHANGED <<env, cfg, relink, pass, changed, job, frame, seen, events>>
-----------------------------------------------------------------------------
(* Mutant: only a static LAG's links are looked at. *)
PassLinksStatic ==
    LET now == [p \in Port |->
                  IF lacp \/ p \notin Range(m) THEN mem[p] ELSE [link |-> up[p], dist |-> up[p]]]
    IN /\ Free /\ used
       /\ mem' = now
       /\ changed' = (Distributing(m, now) # Distributing(m, mem))
       /\ pass' = "rest"
       /\ UNCHANGED <<env, trunk, used, lacp, m, claimed, dports, ndist, relink, pub, job,
                      frame, seen, events>>

(* lag_thread, up to the links: a static member distributes while it has one. *)
PassLinks ==
    LET now == [p \in Port |->
                  IF p \notin Range(m) THEN mem[p]
                  ELSE [link |-> up[p], dist |-> IF lacp THEN mem[p].dist ELSE up[p]]]
    IN /\ Free /\ used
       /\ mem' = now
       /\ changed' = (Distributing(m, now) # Distributing(m, mem))
       /\ pass' = "rest"
       /\ UNCHANGED <<env, trunk, used, lacp, m, claimed, dports, ndist, relink, pub, job,
                      frame, seen, events>>

(* ... and from there: linkscan's word, lacp_eval, and the table if it changed. *)
PassRest ==
    LET now == [p \in Port |->
                  IF lacp /\ p \in Range(m) THEN [mem[p] EXCEPT !.dist = mem[p].link /\ agreed[p]]
                  ELSE mem[p]]
    IN /\ pass = "rest"
       /\ relink' = FALSE
       /\ mem' = now
       /\ IF changed \/ relink \/ Distributing(m, now) # Distributing(m, mem)
          THEN Publish(m, now) ELSE UNCHANGED <<dports, ndist, pub>>
       /\ pass' = "idle"
       /\ UNCHANGED <<env, trunk, used, lacp, m, claimed, changed, job, frame, seen, events>>
-----------------------------------------------------------------------------
(* A link moves, and linkscan will say so: a drop first takes the member out of
   the trunk table, on a chip that does. *)
LinkMoves(p) ==
    /\ Happens("link")
    /\ up' = [up EXCEPT ![p] = ~@]
    /\ scan' = [scan EXCEPT ![p] = IF up[p] /\ scn.removes THEN "remove" ELSE IF @ = "no" THEN "call" ELSE @]
    /\ UNCHANGED <<scn, agreed, trunk, cfg, dports, ndist, relink, pass, changed, pub, job, frame, seen>>

ChipRemoves(p) ==
    /\ scan[p] = "remove"
    /\ trunk' = trunk \ {p}
    /\ scan' = [scan EXCEPT ![p] = "call"]
    /\ UNCHANGED <<scn, up, agreed, cfg, dports, ndist, relink, pass, changed, pub, job, frame, seen, events>>

lag_linkscan(p) ==
    /\ scan[p] = "call"
    /\ scan' = [scan EXCEPT ![p] = "no"]
    /\ relink' = (relink \/ claimed[p])
    /\ UNCHANGED <<scn, up, agreed, trunk, cfg, dports, ndist, pass, changed, pub, job, frame, seen, events>>

Agrees(p) ==
    /\ Happens("agree")
    /\ agreed' = [agreed EXCEPT ![p] = ~@]
    /\ UNCHANGED <<scn, up, scan, trunk, cfg, dports, ndist, relink, pass, changed, pub, job, frame, seen>>
-----------------------------------------------------------------------------
(* nosaic_lag_add, of a LAG that does not exist ... *)
AddLag(l) ==
    /\ job = Idle /\ ~used /\ Free
    /\ used' = TRUE /\ lacp' = l
    /\ trunk' = {} /\ ndist' = 0
    /\ UNCHANGED <<env, m, mem, claimed, dports, relink, pass, changed, pub, job, frame, seen, events>>

(* ... and of one that does, static or LACP now: no member distributes. *)
SetMode ==
    LET none == [p \in Port |-> [mem[p] EXCEPT !.dist = FALSE]]
    IN /\ Happens("mode")
       /\ job = Idle /\ used /\ Free
       /\ lacp' = ~lacp
       /\ mem' = none
       /\ Publish(m, none)
       /\ UNCHANGED <<env, trunk, used, m, claimed, relink, pass, changed, job, frame, seen>>

(* nosaic_lag_members: leavers, then joiners. *)
SetMembers(want) ==
    /\ Happens("members")
    /\ job = Idle /\ used /\ Range(want) # Range(m)
    /\ job' = [op |-> "members", want |-> want, gone |-> NoPort]
    /\ UNCHANGED <<env, trunk, cfg, dports, ndist, relink, pass, changed, pub, frame, seen>>

Leavers == {i \in DOMAIN m : m[i] \notin Range(job.want)}
First(S) == CHOOSE i \in S : \A j \in S : i <= j

(* g->m[i] = g->m[--g->n] *)
WithLast(i) == [j \in 1 .. (Len(m) - 1) |-> IF j = i THEN m[Len(m)] ELSE m[j]]

(* Mutant: a leaver is not published. *)
MemberOutQuiet ==
    LET i == First(Leavers)
    IN /\ job.op = "members" /\ job.gone = NoPort /\ Leavers # {} /\ Free
       /\ m' = WithLast(i)
       /\ job' = [job EXCEPT !.gone = m[i]]
       /\ UNCHANGED <<env, trunk, used, lacp, mem, claimed, dports, ndist, relink, pass, changed,
                      pub, frame, seen, events>>

MemberOut ==
    LET i == First(Leavers)
    IN /\ job.op = "members" /\ job.gone = NoPort /\ Leavers # {} /\ Free
       /\ m' = WithLast(i)
       /\ job' = [job EXCEPT !.gone = m[i]]
       /\ Publish(WithLast(i), mem)
       /\ UNCHANGED <<env, trunk, used, lacp, mem, claimed, relink, pass, changed, frame, seen, events>>

(* member_leave: the port is an interface of its own again. *)
member_leave ==
    /\ job.gone # NoPort /\ pub = "no"
    /\ claimed' = [claimed EXCEPT ![job.gone] = FALSE]
    /\ job' = [job EXCEPT !.gone = NoPort]
    /\ UNCHANGED <<env, trunk, used, lacp, m, mem, dports, ndist, relink, pass, changed, pub,
                   frame, seen, events>>

Joiner(p) ==
    /\ job.op = "members" /\ job.gone = NoPort /\ Leavers = {}
    /\ p \in Range(job.want) \ Range(m)

(* member_join ... *)
member_join(p) ==
    /\ Joiner(p) /\ ~claimed[p] /\ \A q \in Port : claimed[q] => q \in Range(m)
    /\ claimed' = [claimed EXCEPT ![p] = TRUE]
    /\ seen' = seen \cup {p}
    /\ UNCHANGED <<env, trunk, used, lacp, m, mem, dports, ndist, relink, pass, changed, pub, job,
                   frame, events>>

(* ... and into the list, under the lock. *)
MemberIn(p) ==
    /\ Joiner(p) /\ claimed[p] /\ Free
    /\ m' = Append(m, p)
    /\ mem' = [mem EXCEPT ![p] = Joined]
    /\ UNCHANGED <<env, trunk, used, lacp, claimed, dports, ndist, relink, pass, changed, pub, job,
                   frame, seen, events>>

MembersDone ==
    /\ job.op = "members" /\ job.gone = NoPort /\ Range(job.want) = Range(m)
    /\ job' = Idle
    /\ UNCHANGED <<env, trunk, cfg, dports, ndist, relink, pass, changed, pub, frame, seen, events>>

(* nosaic_lag_del: the members leave one by one, last first ... *)
DelLag ==
    /\ Happens("del")
    /\ job = Idle /\ used
    /\ job' = [Idle EXCEPT !.op = "del"]
    /\ UNCHANGED <<env, trunk, cfg, dports, ndist, relink, pass, changed, pub, frame, seen>>

DelMember ==
    /\ job.op = "del" /\ job.gone = NoPort /\ m # <<>> /\ Free
    /\ job' = [job EXCEPT !.gone = m[Len(m)]]
    /\ m' = SubSeq(m, 1, Len(m) - 1)
    /\ UNCHANGED <<env, trunk, used, lacp, mem, claimed, dports, ndist, relink, pass, changed, pub,
                   frame, seen, events>>

(* ... then nothing is published, and the trunk is destroyed. *)
DelDone ==
    /\ job.op = "del" /\ job.gone = NoPort /\ m = <<>> /\ Free
    /\ IF used THEN used' = FALSE /\ ndist' = 0 /\ UNCHANGED <<trunk, job>>
       ELSE trunk' = {} /\ job' = Idle /\ UNCHANGED <<used, ndist>>
    /\ UNCHANGED <<env, lacp, m, mem, claimed, dports, relink, pass, changed, pub, frame, seen, events>>
-----------------------------------------------------------------------------
(* nosaic_lag_pick, without a lock: the count, then one of that many ports. *)
PickCount ==
    /\ Happens("send")
    /\ frame = NoFrame /\ ndist > 0
    /\ frame' = [n |-> ndist, port |-> NoPort]
    /\ seen' = {p \in Port : claimed[p]}
    /\ UNCHANGED <<env, trunk, cfg, dports, ndist, relink, pass, changed, pub, job>>

PickPort ==
    /\ frame.n > 0
    /\ \E i \in 0 .. (frame.n - 1) : frame' = [n |-> 0, port |-> dports[i]]
    /\ UNCHANGED <<env, trunk, cfg, dports, ndist, relink, pass, changed, pub, job, seen, events>>

Sent ==
    /\ frame.n = 0 /\ frame # NoFrame
    /\ frame' = NoFrame /\ seen' = {}
    /\ UNCHANGED <<env, trunk, cfg, dports, ndist, relink, pass, changed, pub, job, events>>

Thread == PassLinks \/ PassRest
Server ==
    \/ MemberOut \/ member_leave \/ MembersDone \/ DelMember \/ DelDone
    \/ \E p \in Port : member_join(p) \/ MemberIn(p)
Scan(p) == ChipRemoves(p) \/ lag_linkscan(p)

Next ==
    \/ Thread \/ PublishRest \/ Server \/ SetMode \/ DelLag
    \/ PickCount \/ PickPort \/ Sent
    \/ \E l \in BOOLEAN : AddLag(l)
    \/ \E want \in UNION {[1 .. n -> Port] : n \in 0 .. Size} : IsInjective(want) /\ SetMembers(want)
    \/ \E p \in Port : LinkMoves(p) \/ Scan(p) \/ Agrees(p)

Spec == Init /\ [][Next]_vars

(* The threads run: the LACP thread's pass, what it publishes, a request once it is
   being served, and linkscan.  The lock passes to a request that waits for it: the
   thread holds it for part of a tick only. *)
Fairness ==
    /\ WF_vars(PassLinks) /\ WF_vars(PassRest) /\ WF_vars(PublishRest) /\ SF_vars(Server)
    /\ \A p \in Port : WF_vars(Scan(p))

LiveSpec == Spec /\ Fairness
-----------------------------------------------------------------------------
Ports(S) == {p \in Port : S[p]}

(* "The chip's linkscan may have taken a member out behind our back, and a flap
   shorter than a tick leaves nothing else to show for it: state the table again."
   With nothing still to be said or done, the table is the distributing members. *)
TableStated ==
    used /\ job = Idle /\ Free /\ ~relink /\ (\A p \in Port : scan[p] = "no") =>
        trunk = Range(Distributing(m, mem)) /\ ndist = Cardinality(trunk)

(* A member is listed once, and claimed while it is, so that what it receives is the
   LAG's; a port that is not, and is not on its way, is an interface of its own; and
   a port that leaves is out of the trunk table first, unless the LAG is removed. *)
Claims ==
    /\ IsInjective(m) /\ Range(m) \subseteq Ports(claimed)
    /\ job = Idle => Range(m) = Ports(claimed)
    /\ job.op # "del" => trunk \subseteq Ports(claimed)

(* "A reader that races a change sends one frame by a member that has just stopped
   distributing": never by a port that was no member when it began, nor since. *)
PickedMember == frame.port # NoPort \/ (frame.n = 0 /\ frame # NoFrame) => frame.port \in seen

(* A member with link, agreed to, ends in the trunk table, and one without ends out
   of it, however its link has flapped. *)
Settles ==
    \A p \in Port :
        /\ <>[](used /\ claimed[p] /\ job = Idle /\ up[p] /\ (agreed[p] \/ ~lacp)) => <>[](p \in trunk)
        /\ <>[](used /\ job = Idle /\ ~up[p]) => <>[](p \notin trunk)

(* The table and the transmit path know members only, in every interleaving of a
   change, the link scan and a frame, and whenever nobody is at work on it the
   hardware's trunk is the distributing members. *)
TrunkRight == Claims /\ TableStated /\ PickedMember
=============================================================================
