-------------------------------- MODULE Lacp --------------------------------
(***************************************************************************)
(* LACP between switches: the thread and the receive callback of           *)
(* datapath/common/lag.c, one LAG each, joined by links.                   *)
(*                                                                         *)
(* Time is counted in periods of the thread.  In each, every switch makes  *)
(* one pass, in any order, and an LACPDU arrives or is lost.  Deadlines    *)
(* are counted down.  Every actor here is aggregatable, so that bit is     *)
(* left out; a partner's key and port are its system's.  What becomes of   *)
(* dist is the module Lag; a half that MLAG holds is in the module Mlag.   *)
(***************************************************************************)
EXTENDS Integers, FiniteSets, FiniteSetsExt

CONSTANTS
    Nobody,     \* no partner
    Scenarios   \* the cabling and the timers, with what happens

ASSUME ScenarioAssumption ==
    \A c \in Scenarios :
        /\ DOMAIN c.end \subseteq Nat /\ IsFiniteSet(DOMAIN c.end)
        /\ \A l \in DOMAIN c.end :
               \E s, t \in c.end[l] : s # t /\ c.end[l] = {s, t} /\ Nobody \notin {s, t}
        /\ {c.fast, c.slow, c.short, c.long} \subseteq Nat \ {0}
        /\ c.fast < c.short /\ c.slow < c.long /\ c.short <= c.long
        /\ c.passives \subseteq UNION {c.end[l] : l \in DOMAIN c.end}
        /\ c.events \subseteq {"link", "loss", "fibre", "passive", "slow", "mode"}
        /\ c.loss \in Nat      \* LACPDUs lost in a row, each way
        /\ c.max \in Nat       \* bound on the events

VARIABLES
    scn,        \* the scenario, which never changes
    up,         \* up[l]: the link is up
    dark,       \* the members whose transmit fibre is broken
    opt,        \* opt[s]: the LAG's options
    mb,         \* mb[s, l]: struct member
    wire,       \* wire[s, l]: LACPDUs on their way to s by l, at most one
    lost,       \* LACPDUs to s by l lost in a row
    ran,        \* the switches that have made their pass in this period
    alone,      \* alone[s, l]: periods for which this end alone has distributed, with
                \* neither end's LAG made anew
    quiet,      \* quiet[s, l]: periods since an LACPDU came
    events

vars == <<scn, up, dark, opt, mb, wire, lost, ran, alone, quiet, events>>

End == scn.end                          \* End[l]: the two switches link l joins
Link == DOMAIN End                      \* the links, numbered as in a LAG's list
Fast == scn.fast                        \* FAST_PERIOD_MS and SLOW_PERIOD_MS
Slow == scn.slow
Short == scn.short                      \* SHORT_TIMEOUT_MS and LONG_TIMEOUT_MS
Long == scn.long
Passives == scn.passives                \* the switches configured passive at first

Switch == UNION {End[l] : l \in Link}
Far(s, l) == CHOOSE t \in End[l] : t # s
Mine(s) == {l \in Link : s \in End[l]}
Member == {sl \in Switch \X Link : sl[2] \in Mine(sl[1])}

Unknown == [sys |-> Nobody, state |-> {}]
Fresh == [link |-> FALSE, dist |-> FALSE, actor |-> {}, partner |-> Unknown, view |-> Unknown,
          expires |-> 0, next_tx |-> 0, ntt |-> TRUE]
Valid(m) == m.partner # Unknown

Init ==
    /\ scn \in Scenarios
    /\ up \in [Link -> BOOLEAN]
    /\ dark = {}
    /\ opt = [s \in Switch |-> [lacp |-> TRUE, passive |-> s \in Passives, slow |-> FALSE]]
    /\ mb = [sl \in Member |-> Fresh]
    /\ wire = [sl \in Member |-> {}]
    /\ lost = [sl \in Member |-> 0]
    /\ ran = {}
    /\ alone = [sl \in Member |-> 0]
    /\ quiet = [sl \in Member |-> 0]
    /\ events = 0
-----------------------------------------------------------------------------
(* lag_thread: the link, as the chip has it. *)
Linked(m, l) == [m EXCEPT !.link = up[l], !.ntt = @ \/ m.link # up[l]]

(* Mutant: a partner is given up only when the link goes. *)
ExpiredNever(m) ==
    IF Valid(m) /\ ~m.link THEN [m EXCEPT !.partner = Unknown, !.view = Unknown, !.ntt = TRUE] ELSE m

(* lacp_eval, first: a partner not heard of in time, or without link, is none. *)
Expired(m) ==
    IF Valid(m) /\ (m.expires = 0 \/ ~m.link)
    THEN [m EXCEPT !.partner = Unknown, !.view = Unknown, !.ntt = TRUE] ELSE m

Candidates(s, ms) == {l \in Mine(s) : ms[l].link /\ Valid(ms[l])}

(* ... the first such member's partner is the LAG's, and the others' must be too. *)
Selected(s, ms, l) ==
    l \in Candidates(s, ms) /\ ms[l].partner.sys = ms[Min(Candidates(s, ms))].partner.sys

(* Mutant: collect once the partner collects. *)
ActorStateWaiting(s, m, sel) ==
    LET col == sel /\ {"sync", "collecting"} \subseteq m.partner.state
    IN (IF opt[s].passive THEN {} ELSE {"activity"}) \cup (IF opt[s].slow THEN {} ELSE {"timeout"})
       \cup (IF Valid(m) THEN {} ELSE {"defaulted"}) \cup (IF ~Valid(m) /\ m.link THEN {"expired"} ELSE {})
       \cup (IF sel THEN {"sync"} ELSE {}) \cup (IF col THEN {"collecting", "distributing"} ELSE {})

(* ... in sync if selected, collecting if the partner is in sync too, distributing
   if it collects. *)
ActorState(s, m, sel) ==
    LET col == sel /\ "sync" \in m.partner.state
    IN {b \in {"activity", "timeout", "defaulted", "expired", "sync", "collecting", "distributing"} :
          \/ b = "activity" /\ ~opt[s].passive
          \/ b = "timeout" /\ ~opt[s].slow
          \/ b = "defaulted" /\ ~Valid(m)
          \/ b = "expired" /\ ~Valid(m) /\ m.link
          \/ b = "sync" /\ sel
          \/ b = "collecting" /\ col
          \/ b = "distributing" /\ col /\ "collecting" \in m.partner.state}

Evaluated(s, ms, l) ==
    LET st == ActorState(s, ms[l], Selected(s, ms, l))
    IN [ms[l] EXCEPT !.actor = st, !.ntt = @ \/ st # ms[l].actor, !.dist = "distributing" \in st]

(* A static member distributes while it has link. *)
Static(m) == [m EXCEPT !.dist = m.link]

(* Passive: speak only to a partner that is active, or, once, to one that still
   believes this end is. *)
Speaks(s, m) ==
    \/ ~opt[s].passive
    \/ "activity" \in m.partner.state
    \/ m.ntt /\ Valid(m) /\ "activity" \in m.view.state

Due(s, m) == opt[s].lacp /\ m.link /\ Speaks(s, m) /\ (m.ntt \/ m.next_tx = 0)

(* send_pdu *)
Pdu(s, m) == [sys |-> s, state |-> m.actor, view |-> m.partner]
Sent(m) ==
    [m EXCEPT !.ntt = FALSE,
              !.next_tx = IF Valid(m) /\ "timeout" \notin m.partner.state THEN Slow ELSE Fast]

Pass(s) ==
    LET seen == [l \in Mine(s) |-> Linked(mb[<<s, l>>], l)]
        heard == [l \in Mine(s) |-> Expired(seen[l])]
        now  == [l \in Mine(s) |-> IF opt[s].lacp THEN Evaluated(s, heard, l) ELSE Static(seen[l])]
        due  == {l \in Mine(s) : Due(s, now[l])}
    IN /\ s \notin ran
       /\ ran' = ran \cup {s}
       /\ mb' = [sl \in Member |->
                   IF sl[1] # s THEN mb[sl]
                   ELSE IF sl[2] \in due THEN Sent(now[sl[2]]) ELSE now[sl[2]]]
       /\ wire' = [sl \in Member |->
                     IF sl[2] \in due /\ s = Far(sl[1], sl[2]) /\ <<s, sl[2]>> \notin dark
                     THEN {Pdu(s, now[sl[2]])} ELSE wire[sl]]
       /\ UNCHANGED <<scn, up, dark, opt, lost, alone, quiet, events>>

(* lag_rx: what the partner says of itself and of this end; wrong about this end,
   or new, it is answered at once.  A static LAG ignores it. *)
Taken(s, m, d) ==
    LET partner == [sys |-> d.sys, state |-> d.state]
    IN [m EXCEPT !.partner = partner, !.view = d.view,
                 !.expires = IF "timeout" \in m.actor THEN Short ELSE Long,
                 !.ntt = @ \/ partner # m.partner \/ d.view # [sys |-> s, state |-> m.actor]]

Receive(s, l) ==
    /\ \E d \in wire[<<s, l>>] : mb' = IF opt[s].lacp THEN [mb EXCEPT ![<<s, l>>] = Taken(s, @, d)] ELSE mb
    /\ wire' = [wire EXCEPT ![<<s, l>>] = {}]
    /\ lost' = [lost EXCEPT ![<<s, l>>] = 0]
    /\ quiet' = [quiet EXCEPT ![<<s, l>>] = 0]
    /\ UNCHANGED <<scn, up, dark, opt, ran, alone, events>>
-----------------------------------------------------------------------------
Happens(what) ==
    /\ what \in scn.events
    /\ events < scn.max
    /\ events' = events + 1

Told(s) == [sl \in Member |-> IF sl[1] = s THEN [mb[sl] EXCEPT !.ntt = TRUE] ELSE mb[sl]]

(* nosaic_lag_options: said to every partner at once. *)
SetPassive(s) ==
    /\ Happens("passive")
    /\ opt' = [opt EXCEPT ![s].passive = ~@]
    /\ mb' = Told(s)
    /\ UNCHANGED <<scn, up, dark, wire, lost, ran, alone, quiet>>

SetRate(s) ==
    /\ Happens("slow")
    /\ opt' = [opt EXCEPT ![s].slow = ~@]
    /\ mb' = Told(s)
    /\ UNCHANGED <<scn, up, dark, wire, lost, ran, alone, quiet>>

(* nosaic_lag_add, of a LAG that exists: static or LACP now. *)
SetMode(s) ==
    /\ Happens("mode")
    /\ opt' = [opt EXCEPT ![s].lacp = ~@]
    /\ mb' = [sl \in Member |->
                IF sl[1] = s THEN [mb[sl] EXCEPT !.partner = Unknown, !.view = Unknown, !.dist = FALSE,
                                                 !.actor = {}, !.ntt = TRUE]
                ELSE mb[sl]]
    /\ alone' = [sl \in Member |-> IF s \in End[sl[2]] THEN 0 ELSE alone[sl]]
    /\ UNCHANGED <<scn, up, dark, wire, lost, ran, quiet>>

LinkMoves(l) ==
    /\ Happens("link")
    /\ up' = [up EXCEPT ![l] = ~@]
    /\ wire' = [sl \in Member |-> IF sl[2] = l THEN {} ELSE wire[sl]]
    /\ UNCHANGED <<scn, dark, opt, mb, lost, ran, alone, quiet>>

(* One direction stops carrying and the link stays up, or comes back. *)
FibreMoves(sl) ==
    /\ Happens("fibre")
    /\ dark' = IF sl \in dark THEN dark \ {sl} ELSE dark \cup {sl}
    /\ UNCHANGED <<scn, up, opt, mb, wire, lost, ran, alone, quiet>>

Lose(sl) ==
    /\ "loss" \in scn.events /\ wire[sl] # {} /\ lost[sl] < scn.loss
    /\ wire' = [wire EXCEPT ![sl] = {}]
    /\ lost' = [lost EXCEPT ![sl] = @ + 1]
    /\ UNCHANGED <<scn, up, dark, opt, mb, ran, alone, quiet, events>>

(* How long one end may distribute alone: the other, deaf by a one-way fibre, gives
   it up after a timeout; passive, it then says nothing, and is given up in turn.
   The timeout is the short one if the LAG has always been fast. *)
AlwaysFast == {"slow", "mode"} \cap scn.events = {}
Apart == 2 * (IF AlwaysFast THEN Short ELSE Long)

Lacp == \A s \in Switch : opt[s].lacp
Alone(sl) == Lacp /\ mb[sl].dist /\ ~mb[<<Far(sl[1], sl[2]), sl[2]>>].dist

Less(n) == IF n = 0 THEN 0 ELSE n - 1

Tick ==
    /\ ran = Switch
    /\ \A sl \in Member : wire[sl] = {}
    /\ ran' = {}
    /\ mb' = [sl \in Member |-> [mb[sl] EXCEPT !.expires = Less(@), !.next_tx = Less(@)]]
    /\ alone' = [sl \in Member |-> IF Alone(sl) THEN Min({alone[sl] + 1, Apart + 1}) ELSE 0]
    /\ quiet' = [sl \in Member |-> IF Valid(mb[sl]) THEN Min({quiet[sl] + 1, Short + 1}) ELSE 0]
    /\ UNCHANGED <<scn, up, dark, opt, wire, lost, events>>

Next ==
    \/ Tick
    \/ \E s \in Switch : Pass(s) \/ SetPassive(s) \/ SetRate(s) \/ SetMode(s)
    \/ \E sl \in Member : Receive(sl[1], sl[2]) \/ Lose(sl) \/ FibreMoves(sl)
    \/ \E l \in Link : LinkMoves(l)

Spec == Init /\ [][Next]_vars

(* The threads run and LACPDUs that are not lost arrive.  Clock is never disabled,
   so this is its weak fairness. *)
Clock == Tick \/ (\E s \in Switch : Pass(s)) \/ (\E sl \in Member : Receive(sl[1], sl[2]))
LiveSpec == Spec /\ []<><<Clock>>_vars
-----------------------------------------------------------------------------
(* No lasting black hole: with LACP at both ends, one end of a link distributes
   alone only until it is told or gives the other up, one-way fibre included. *)
NotAlone == \A sl \in Member : alone[sl] <= Apart

(* docs/lag.md on rate fast: the partner is asked for an LACPDU "every second and
   given up after 3 s".  A fast end does not go on distributing to one it has not
   heard for longer, if it has always been fast: the first LACPDU after a change to
   LACP, taken before lacp_eval has run, is given the long timeout. *)
GivenUp ==
    AlwaysFast => \A sl \in Member :
        mb[sl].dist => quiet[sl] <= Short

(* "a member is SELECTED if ... its partner ... is the same system and key as the
   LAG's other selected members": miscabled to two systems, a LAG never distributes
   to both. *)
OnePartner ==
    \A s \in Switch : opt[s].lacp =>
        \A l, k \in Mine(s) :
            mb[<<s, l>>].dist /\ mb[<<s, k>>].dist => mb[<<s, l>>].partner.sys = mb[<<s, k>>].partner.sys

(* A change of rate is hitless: nosaic_lag_options tells every partner at once, so
   that neither end's timeout ever undercuts the other's period, if nothing else
   happens and no LACPDU is lost. *)
RateHitless ==
    [][scn.events = {"slow"} => \A sl \in Member : mb[sl].dist => mb'[sl].dist]_vars

AnySwitch == UNION {UNION {c.end[l] : l \in DOMAIN c.end} : c \in Scenarios}

(* Two switches that may speak agree on every link, and both distribute. *)
Forms ==
    <>[](/\ Cardinality(Switch) = 2 /\ dark = {} /\ \A l \in Link : up[l]
         /\ Lacp /\ \E s \in Switch : ~opt[s].passive) =>
        <>[](\A sl \in Member : mb[sl].dist)

(* "A LAG turned passive at both ends goes quiet and times out." *)
GoesQuiet ==
    <>[](Lacp /\ \A s \in Switch : opt[s].passive) => <>[](\A sl \in Member : ~mb[sl].dist)

(* Against static ends, which ignore LACP, an LACP end stops distributing. *)
GivesUpStatic ==
    \A s \in AnySwitch :
        <>[](s \in Switch /\ \A t \in Switch : opt[t].lacp = (t = s)) =>
            <>[](\A sl \in Member : sl[1] = s => ~mb[sl].dist)

(* What an end distributes to is a live partner, and one only. *)
NoBlackHole == NotAlone /\ GivenUp /\ OnePartner

(* What the two ends come to: agreement and its loss, by the options they have. *)
Negotiates == RateHitless /\ Forms /\ GoesQuiet /\ GivesUpStatic
=============================================================================
