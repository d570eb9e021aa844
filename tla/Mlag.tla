-------------------------------- MODULE Mlag --------------------------------
(***************************************************************************)
(* Two switches joined by a peer-link present one MLAG interface to a      *)
(* device cabled to both: datapath/common/mlag.c, one MLAG id.             *)
(*                                                                         *)
(* Time is counted in passes of mlag_thread, 200 ms apart: in each tick    *)
(* both threads make one pass, in either order, and a control frame sent   *)
(* in a tick arrives in it or is lost.  A timestamp of the code is its age *)
(* here, counted up to the bound it is compared with.  What lag.c says of  *)
(* each half, the peer-link's carrier and the management network are the   *)
(* environment's.                                                          *)
(***************************************************************************)
EXTENDS Integers, FiniteSets

CONSTANTS
    Switches,   \* the two switches
    Mac,        \* their addresses, as numbers
    Scenarios   \* the configurations of the pair, with what happens to it

ASSUME SwitchAssumption ==
    /\ IsFiniteSet(Switches) /\ Cardinality(Switches) = 2
    /\ \A s \in Switches : Mac[s] \in Nat
    /\ \A s, t \in Switches : s # t => Mac[s] # Mac[t]

(* Times are in ticks; nosaic_mlag_set: "hello 100-10000, dead at least twice the
   hello". *)
ASSUME ScenarioAssumption ==
    \A c \in Scenarios :
        /\ c.hello \in Nat \ {0} /\ c.dead \in Nat /\ c.dead >= 2 * c.hello
        /\ c.settle \in Nat /\ c.reload \in Nat
        /\ c.heartbeat \in BOOLEAN     \* the peer's management address is configured
        /\ c.prios \subseteq Nat /\ c.prios # {}
        /\ c.events \subseteq {"half", "link", "mgmt", "loss", "off", "priority"}
        /\ c.loss \in Nat              \* control frames lost in a row, each way
        /\ c.changes \in Nat           \* bound on what happens

Peer(s) == CHOOSE t \in Switches : t # s

Unset == -1     \* sys_id not set; peer_down_since zero

VARIABLES
    scn,        \* the scenario, which never changes
    half,       \* half[s]: its LAG is "down", "ready" or "active"
    link,       \* the peer-link has link
    mgmt,       \* the management network carries heartbeats
    sw,         \* sw[s]: what mlag.c holds
    frames,     \* frames[s]: control frames on their way to s, at most one
    beats,      \* beats[s]: a heartbeat waits in s's socket
    lost,       \* frames to s lost in a row
    ran,        \* the switches whose thread has made its pass in this tick
    alone,      \* ticks for which exactly one half has carried
    changes

vars == <<scn, half, link, mgmt, sw, frames, beats, lost, ran, alone, changes>>

Hello == scn.hello
Dead == scn.dead
Settle == scn.settle
Reload == scn.reload
Heartbeat == scn.heartbeat
Events == scn.events
MaxLoss == scn.loss
MaxChanges == scn.changes

Grown(age, bound) == IF age < bound THEN age + 1 ELSE age

Fresh(p) ==
    [on |-> TRUE, prio |-> p, role |-> "none", sys |-> Unset,
     heard |-> FALSE, last_link |-> Dead, last_hb |-> Dead,
     peer_prio |-> 0, up |-> 0, known |-> FALSE, ack |-> FALSE, peer_down |-> Unset,
     alive |-> FALSE, hb_alive |-> FALSE, shut |-> FALSE,
     local_up |-> FALSE, local_up_since |-> 0, local_ready |-> FALSE,
     block |-> "none", held |-> "none", trigger |-> FALSE, next_hello |-> 0, on_for |-> 0]

Init ==
    /\ scn \in Scenarios
    /\ half \in [Switches -> {"down", "active"}]
    /\ link = TRUE
    /\ mgmt = TRUE
    /\ sw \in [Switches -> {Fresh(p) : p \in scn.prios}]
    /\ frames = [s \in Switches |-> {}]
    /\ beats = [s \in Switches |-> FALSE]
    /\ lost = [s \in Switches |-> 0]
    /\ ran = {}
    /\ alone = 0
    /\ changes = 0
-----------------------------------------------------------------------------

(* send_frames: 2 carrying, 1 ready but held, 0 neither; and whether this side
   has seen the peer's half and will not hand the device a second copy. *)
Frame(s) ==
    LET r == sw[s]
    IN [prio |-> r.prio,
        up |-> IF r.shut \/ half[s] = "down" THEN 0 ELSE IF half[s] = "active" THEN 2 ELSE 1,
        ack |-> r.up >= 1 /\ (~r.local_up \/ r.block # "none")]

(* mlag_rx: the peer is heard, and what it reports replaces what was known. *)
Received(r, f) ==
    [r EXCEPT !.heard = TRUE, !.last_link = 0, !.peer_prio = f.prio,
              !.up = f.up, !.known = TRUE, !.ack = f.ack,
              !.peer_down = IF f.up # 0 THEN Unset ELSE IF @ = Unset THEN 0 ELSE @]

(* hb_tick reads what has arrived; the reply it sends is Pass's. *)
Beaten(s) == IF Heartbeat /\ beats[s] THEN [sw[s] EXCEPT !.last_hb = 0] ELSE sw[s]

(* Mutant: a tie elects neither. *)
NeitherFirst(s, r) == r.prio < r.peer_prio

MineFirst(s, r) == r.prio < r.peer_prio \/ (r.prio = r.peer_prio /\ Mac[s] < Mac[Peer(s)])

ShutsSilent(alive, hb, role) == ~alive /\ ~hb /\ role = "secondary"

(* evaluate: the peer-link is gone and the peer is not. *)
Shuts(alive, hb, role) == ~alive /\ hb /\ role = "secondary"

(* The primary's address, kept when the peer is lost. *)
System(s, r, alive) ==
    IF alive THEN IF MineFirst(s, r) THEN Mac[s] ELSE Mac[Peer(s)]
    ELSE IF r.sys = Unset THEN Mac[s] ELSE r.sys

(* evaluate: is the peer there, and who is first? *)
Elect(s, r) ==
    LET alive == r.heard /\ r.last_link < Dead /\ link
        hb    == Heartbeat /\ r.last_hb < Dead
        role  == IF alive THEN IF MineFirst(s, r) THEN "primary" ELSE "secondary"
                 ELSE IF hb THEN r.role ELSE "none"
    IN [r EXCEPT !.alive = alive, !.hb_alive = hb, !.role = role,
                 !.shut = Shuts(alive, hb, role), !.sys = System(s, r, alive)]

(* evaluate: what has become of this half. *)
Notice(s, r) ==
    LET up == half[s] = "active"
        ready == half[s] # "down"
    IN [r EXCEPT !.local_up = up,
                 !.local_up_since = IF up # r.local_up THEN 0 ELSE @,
                 !.local_ready = ready,
                 !.trigger = @ \/ up # r.local_up \/ ready # r.local_ready]

(* The peer's half has been down, and this one up, for settle_ms. *)
Single(r) ==
    /\ r.peer_down # Unset /\ r.peer_down >= Settle
    /\ r.local_up /\ r.local_up_since >= Settle

(* Mutant: any word of the peer confirms. *)
UnconfirmedUnheard(r) == r.alive /\ r.local_up /\ ~r.shut /\ ~r.known

(* evaluate: this half carries, and the peer has not said that it blocks. *)
Unconfirmed(r) == r.alive /\ r.local_up /\ ~r.shut /\ ~r.ack

(* evaluate: floods kept off this half: "all", those from the peer-link, or
   none; set_block has the peer told of a change. *)
Block(r) ==
    LET kept == IF Unconfirmed(r) THEN "all"
                ELSE IF r.alive /\ ~r.shut /\ ~Single(r) THEN "link" ELSE "none"
    IN [r EXCEPT !.block = kept, !.trigger = @ \/ kept # r.block]

Hold(r) ==
    [r EXCEPT !.held = IF r.on_for < Reload THEN "reload"
                       ELSE IF Unconfirmed(r) THEN "peer" ELSE "none"]

evaluate(s, r) == Hold(Block(Notice(s, Elect(s, r))))

(* mlag_thread: a hello if one is due, then evaluate. *)
Pass(s) ==
    LET due == sw[s].next_hello = 0 \/ sw[s].trigger
        said == IF due THEN [Beaten(s) EXCEPT !.trigger = FALSE, !.next_hello = Hello] ELSE sw[s]
    IN /\ s \notin ran
       /\ ran' = ran \cup {s}
       /\ IF sw[s].on
          THEN /\ sw' = [sw EXCEPT ![s] = evaluate(s, said)]
               /\ frames' = IF due /\ link THEN [frames EXCEPT ![Peer(s)] = {Frame(s)}] ELSE frames
               /\ beats' = IF due /\ Heartbeat
                           THEN [beats EXCEPT ![s] = FALSE, ![Peer(s)] = @ \/ mgmt] ELSE beats
          ELSE UNCHANGED <<sw, frames, beats>>
       /\ UNCHANGED <<scn, half, link, mgmt, lost, alone, changes>>

(* mlag_rx, if MLAG is on here. *)
Receive(s) ==
    /\ \E f \in frames[s] :
        sw' = IF sw[s].on THEN [sw EXCEPT ![s] = Received(@, f)] ELSE sw
    /\ frames' = [frames EXCEPT ![s] = {}]
    /\ lost' = [lost EXCEPT ![s] = 0]
    /\ UNCHANGED <<scn, half, link, mgmt, beats, ran, alone, changes>>
-----------------------------------------------------------------------------
(* nosaic_mlag_set, off: everything in the chip undone, the peer forgotten but
   for what it last reported. *)
Off(s) ==
    /\ "off" \in Events /\ changes < MaxChanges
    /\ sw[s].on
    /\ sw' = [sw EXCEPT ![s] = [sw[s] EXCEPT !.on = FALSE, !.shut = FALSE, !.block = "none",
                                         !.trigger = sw[s].trigger \/ sw[s].block # "none",
                                         !.held = "none", !.heard = FALSE,
                                         !.role = "none", !.sys = Unset]]
    /\ alone' = 0
    /\ changes' = changes + 1
    /\ UNCHANGED <<scn, half, link, mgmt, frames, beats, lost, ran>>

(* ... and on, with the priority it is given; the reload delay runs from the
   first. *)
On(s, p) ==
    /\ changes < MaxChanges
    /\ IF sw[s].on THEN "priority" \in Events /\ p # sw[s].prio ELSE "off" \in Events
    /\ sw' = [sw EXCEPT ![s] = [sw[s] EXCEPT !.on = TRUE, !.prio = p,
                                         !.on_for = IF sw[s].on THEN sw[s].on_for ELSE 0]]
    /\ alone' = 0
    /\ changes' = changes + 1
    /\ UNCHANGED <<scn, half, link, mgmt, frames, beats, lost, ran>>
-----------------------------------------------------------------------------
(* lag.c moves a half; one that is shut has no link, and one that is held does
   not claim sync. *)
HalfMoves(s, h) ==
    /\ h # half[s]
    /\ h # "down" => ~sw[s].shut
    /\ h = "active" => ~(sw[s].on /\ sw[s].held = "reload")
    /\ \/ sw[s].shut /\ UNCHANGED changes
       \/ "half" \in Events /\ changes < MaxChanges /\ changes' = changes + 1
    /\ half' = [half EXCEPT ![s] = h]
    /\ alone' = 0
    /\ UNCHANGED <<scn, link, mgmt, sw, frames, beats, lost, ran>>

LinkMoves ==
    /\ "link" \in Events /\ changes < MaxChanges
    /\ link' = ~link
    /\ frames' = [s \in Switches |-> {}]
    /\ alone' = 0
    /\ changes' = changes + 1
    /\ UNCHANGED <<scn, half, mgmt, sw, beats, lost, ran>>

MgmtMoves ==
    /\ "mgmt" \in Events /\ changes < MaxChanges
    /\ mgmt' = ~mgmt
    /\ changes' = changes + 1
    /\ UNCHANGED <<scn, half, link, sw, frames, beats, lost, ran, alone>>

Lose(s) ==
    /\ "loss" \in Events /\ frames[s] # {} /\ lost[s] < MaxLoss
    /\ frames' = [frames EXCEPT ![s] = {}]
    /\ lost' = [lost EXCEPT ![s] = @ + 1]
    /\ UNCHANGED <<scn, half, link, mgmt, sw, beats, ran, alone, changes>>

Carries(s) == half[s] = "active" /\ ~sw[s].shut

(* How long a half that is alone may take to deliver for both: the change is
   noticed and sent, up to MaxLoss hellos are lost, and the halves settle. *)
Response == Settle + Hello * MaxLoss + 3

BothOn == \A s \in Switches : sw[s].on

Alone(s) == BothOn /\ link /\ Carries(s) /\ ~Carries(Peer(s))

Older(r) ==
    [r EXCEPT !.last_link = Grown(@, Dead), !.last_hb = Grown(@, Dead),
              !.peer_down = IF @ = Unset THEN Unset ELSE Grown(@, Settle),
              !.local_up_since = IF r.local_up THEN Grown(@, Settle) ELSE 0, !.on_for = Grown(@, Reload),
              !.next_hello = IF @ = 0 THEN 0 ELSE @ - 1]

Tick ==
    /\ ran = Switches
    /\ \A s \in Switches : frames[s] = {}
    /\ ran' = {}
    /\ sw' = [s \in Switches |-> Older(sw[s])]
    /\ alone' = IF \E s \in Switches : Alone(s) THEN Grown(alone, Response) ELSE 0
    /\ UNCHANGED <<scn, half, link, mgmt, frames, beats, lost, changes>>

Next ==
    \/ \E s \in Switches :
        \/ Pass(s) \/ Receive(s) \/ Lose(s) \/ Off(s)
        \/ \E p \in scn.prios : On(s, p)
        \/ \E h \in {"down", "ready", "active"} : HalfMoves(s, h)
    \/ LinkMoves \/ MgmtMoves \/ Tick

Spec == Init /\ [][Next]_vars

(* The threads run and frames that are not lost arrive: time passes, and a tick
   only ends once both have made their pass and read what was sent.  Clock is
   never disabled, so this is its weak fairness. *)
Clock == Tick \/ \E s \in Switches : Pass(s) \/ Receive(s)
Fairness == []<><<Clock>>_vars

LiveSpec == Spec /\ Fairness
-----------------------------------------------------------------------------
(* Both have seen the peer since MLAG was turned on. *)
Paired == link /\ \A s \in Switches : sw[s].on /\ sw[s].alive /\ sw[s].role # "none"
Noticed == \A s \in Switches : sw[s].local_up = (half[s] = "active")

(* A flood leaves s by its half, coming from an orphan port or the peer-link. *)
Leaves(s, from) ==
    /\ Carries(s)
    /\ sw[s].block = "none" \/ (sw[s].block = "link" /\ from = "port")

Twice == \E s \in Switches : link /\ Leaves(s, "port") /\ Leaves(Peer(s), "peer")

(* "No copies": a pair that hears each other, and whose threads have seen their
   halves, never hands the device two copies of a flood from a port of either. *)
NoDuplicate == Paired /\ Noticed => ~Twice

Lone(s) == Alone(s) /\ Paired /\ half[Peer(s)] = "down" /\ alone >= Response

(* "When the peer's half is down, the block comes off, and this side delivers for
   both": within the settling time and the hellos it takes to hear of it. *)
DeliversForBoth == \A s \in Switches : Lone(s) => Leaves(s, "peer")

(* A split pair keeps one side: the two halves are never both disabled, so the
   device always has a half the pair has not taken away. *)
NotBothShut == ~\A s \in Switches : sw[s].shut

(* One LACP partner: two switches that know each other's roles present the same
   system id, also when the peer-link is lost, and number their ports apart (only a
   secondary offsets them). *)
OneSystem ==
    (\A s \in Switches : sw[s].role # "none") =>
        \A s, t \in Switches :
            sw[s].sys = sw[t].sys /\ (s # t => sw[s].role # sw[t].role)

(* Both halves up and undisturbed are released: the pair ends with floods kept off
   the peer-link's side only, and neither half held. *)
Released ==
    <>[](BothOn /\ link /\ \A s \in Switches : half[s] = "active") =>
        <>[](\A s \in Switches : sw[s].block = "link" /\ sw[s].held = "none")

(* Split brain ends: with the peer-link gone and heartbeats heard, a secondary
   that knew its role disables its half for good. *)
SplitResolves ==
    \A s \in Switches :
        <>[](BothOn /\ ~link /\ mgmt /\ sw[s].role = "secondary") => <>[](sw[s].shut)

(* ... and with the peer-link back the pair is one again, and nothing is shut. *)
Reunites == <>[](BothOn /\ link) => <>[](Paired /\ \A s \in Switches : ~sw[s].shut)

(* The peer-link's block: a flood reaches the device once, by either half, and is
   not lost when only one half is left. *)
FloodsOnce == NoDuplicate /\ DeliversForBoth

(* To the device the pair is one switch, together or split. *)
OneDevice == NotBothShut /\ OneSystem

(* When links and switches stay as they are, the pair settles: released, split
   with one side shut, or one again. *)
PairSettles == Released /\ SplitResolves /\ Reunites
=============================================================================
