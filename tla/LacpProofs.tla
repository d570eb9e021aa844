----------------------------- MODULE LacpProofs ------------------------------
(***************************************************************************)
(* Proofs about Lacp, for any cabling of any number of switches, any       *)
(* timers with the short timeout no longer than the long one, and any      *)
(* number of losses and events.                                            *)
(***************************************************************************)
EXTENDS Lacp, TLAPS

Bits == {"activity", "timeout", "defaulted", "expired", "sync", "collecting", "distributing"}
Says == [sys : Switch \cup {Nobody}, state : SUBSET Bits]
MemberRec ==
    [link : BOOLEAN, dist : BOOLEAN, actor : SUBSET Bits, partner : Says, view : Says,
     expires : Nat, next_tx : Nat, ntt : BOOLEAN]
PduRec == [sys : Switch, state : SUBSET Bits, view : Says]

LacpTypeOK ==
    /\ scn \in Scenarios
    /\ up \in [Link -> BOOLEAN]
    /\ opt \in [Switch -> [lacp : BOOLEAN, passive : BOOLEAN, slow : BOOLEAN]]
    /\ mb \in [Member -> MemberRec]
    /\ wire \in [Member -> SUBSET PduRec]
    /\ alone \in [Member -> Nat]
    /\ quiet \in [Member -> Nat]

Other(sl) == <<Far(sl[1], sl[2]), sl[2]>>
Speaking(sl) == opt[sl[1]].lacp
Timeout == IF AlwaysFast THEN Short ELSE Long

(* The partner has said that it collects. *)
Collects(m) == {"sync", "collecting"} \subseteq m.partner.state

(* An LACPDU comes from the other end, which has made its pass; a partner is the other
   end, and has not expired when the pass is made; who distributes has a partner and
   says that it collects. *)
Wired(sl) ==
    /\ \A d \in wire[sl] : d.sys = Other(sl)[1] /\ Other(sl)[1] \in ran
    /\ Valid(mb[sl]) => mb[sl].partner.sys = Other(sl)[1] /\ Speaking(sl)
    /\ Valid(mb[sl]) /\ sl[1] \in ran => mb[sl].expires > 0
    /\ Speaking(sl) /\ mb[sl].dist => Valid(mb[sl]) /\ {"sync", "collecting"} \subseteq mb[sl].actor

(* Two members of a LAG that distribute have the same far end. *)
OneFar ==
    \A sl, kl \in Member :
        sl[1] = kl[1] /\ Speaking(sl) /\ mb[sl].dist /\ mb[kl].dist => Other(sl)[1] = Other(kl)[1]

(* A LAG that has always been fast, before its first pass: it has said nothing, so the
   other end is not in sync with it. *)
Unheard(sl) ==
    "timeout" \notin mb[sl].actor =>
        /\ sl[1] \notin ran /\ mb[sl].actor = {} /\ "sync" \notin mb[sl].partner.state
        /\ \A d \in wire[sl] : "sync" \notin d.state
        /\ ~Valid(mb[Other(sl)]) /\ wire[Other(sl)] = {} /\ "sync" \notin mb[Other(sl)].actor

(* The partner it took then, with the long timeout: neither end distributes to it. *)
Premature(sl) ==
    /\ ~mb[sl].dist /\ "collecting" \notin mb[sl].actor /\ "sync" \notin mb[sl].partner.state
    /\ ~mb[Other(sl)].dist /\ "collecting" \notin mb[Other(sl)].partner.state
    /\ \A d \in wire[Other(sl)] : "collecting" \notin d.state

(* What is left of a timeout, and what has passed of it. *)
InTime(sl) ==
    Valid(mb[sl]) =>
        IF AlwaysFast THEN mb[sl].expires + quiet[sl] <= Short \/ Premature(sl)
        ELSE mb[sl].expires <= Long

(* In this period this end may still come to distribute alone. *)
Going(sl) ==
    /\ sl[1] \in ran => mb[sl].dist
    /\ Other(sl)[1] \in ran => ~mb[Other(sl)].dist

(* The two timeouts.  While this end distributes alone, all it says is that it
   collects, so the other end's partner is from before; past that, the other end no
   longer collects, so this end's is. *)
Bounded(sl) ==
    alone[sl] > 0 =>
        /\ Speaking(sl) /\ Speaking(Other(sl))
        /\ \A d \in wire[sl] : d.state = mb[Other(sl)].actor
        /\ \A d \in wire[Other(sl)] : d.state = mb[sl].actor
        /\ Going(sl) =>
             /\ Valid(mb[Other(sl)]) /\ ~Collects(mb[Other(sl)])
                    => mb[Other(sl)].expires + alone[sl] <= Timeout
             /\ Other(sl)[1] \in ran /\ "collecting" \in mb[Other(sl)].actor => alone[sl] < Timeout
             /\ alone[sl] > Timeout /\ Valid(mb[sl]) /\ Collects(mb[sl])
                    => mb[sl].expires + alone[sl] <= Apart
             /\ alone[sl] > Timeout /\ sl[1] \in ran => alone[sl] < Apart

LacpInv ==
    /\ LacpTypeOK
    /\ AlwaysFast => \A s \in Switch : opt[s].lacp /\ ~opt[s].slow
    /\ \A sl \in Member : Wired(sl) /\ (AlwaysFast => Unheard(sl)) /\ InTime(sl) /\ Bounded(sl)
    /\ OneFar
    /\ NotAlone
-----------------------------------------------------------------------------
(* A link has two ends. *)
LEMMA Ends ==
    ASSUME scn \in Scenarios, NEW sl \in Member
    PROVE  /\ sl = <<sl[1], sl[2]>> /\ sl[1] \in Switch /\ sl[2] \in Link /\ sl[2] \in Mine(sl[1])
           /\ Other(sl) \in Member /\ Other(sl)[1] \in Switch /\ Other(sl)[2] = sl[2]
           /\ Other(Other(sl)) = sl /\ Other(sl) # sl /\ Other(sl)[1] # sl[1]
           /\ Other(sl)[1] = Far(sl[1], sl[2]) /\ sl[1] = Far(Other(sl)[1], sl[2])
           /\ Other(sl)[1] # Nobody /\ End[sl[2]] = {sl[1], Other(sl)[1]}
<1> DEFINE s == sl[1]
           l == sl[2]
           t == Far(s, l)
<1>1. sl = <<s, l>> /\ s \in Switch /\ l \in Link /\ s \in End[l] /\ l \in Mine(s)
  BY DEF Member, Mine
<1>2. PICK x, y \in End[l] : x # y /\ End[l] = {x, y} /\ Nobody \notin {x, y}
  BY <1>1, ScenarioAssumption DEF End, Link
<1>3. \E u \in End[l] : u # s
  BY <1>2
<1>4. t \in End[l] /\ t # s
  BY <1>3 DEF Far
<1>5. End[l] = {s, t} /\ t # Nobody
  BY <1>1, <1>2, <1>4
<1>6. t \in Switch /\ l \in Mine(t)
  BY <1>1, <1>4 DEF Switch, Mine
<1>7. Far(t, l) = s
  <2>1. \E u \in End[l] : u # t
    BY <1>1, <1>4
  <2>2. Far(t, l) \in End[l] /\ Far(t, l) # t
    BY <2>1 DEF Far
  <2> QED
    BY <1>5, <2>2
<1> HIDE DEF s, l, t
<1>8. Other(sl) = <<t, l>>
  BY DEF Other, s, l, t
<1>9. <<t, l>> \in Member /\ Other(<<t, l>>) = <<s, l>>
  <2>1. <<t, l>> \in Switch \X Link
    BY <1>1, <1>6
  <2> QED
    BY <1>6, <1>7, <2>1 DEF Member, Other
<1> QED
  BY <1>1, <1>4, <1>5, <1>6, <1>7, <1>8, <1>9 DEF s, l, t

(* The scenario, and what is computed from it, never changes. *)
LEMMA Fixed ==
    ASSUME scn' = scn
    PROVE  /\ Link' = Link /\ Switch' = Switch /\ Member' = Member
           /\ AlwaysFast' = AlwaysFast /\ Short' = Short /\ Long' = Long
           /\ Timeout' = Timeout /\ Apart' = Apart
           /\ \A sl : Other(sl)' = Other(sl)
           /\ MemberRec' = MemberRec /\ PduRec' = PduRec
<1>1. End' = End
  BY DEF End
<1>2. Link' = Link /\ Switch' = Switch
  BY <1>1 DEF Link, Switch
<1>3. \A s : Mine(s)' = Mine(s)
  BY <1>1, <1>2 DEF Mine
<1>4. Member' = Member
  BY <1>2, <1>3 DEF Member
<1>5. AlwaysFast' = AlwaysFast /\ Short' = Short /\ Long' = Long
  BY DEF AlwaysFast, Short, Long
<1>6. Timeout' = Timeout /\ Apart' = Apart
  BY <1>5 DEF Timeout, Apart
<1>7. \A sl : Other(sl)' = Other(sl)
  BY <1>1 DEF Other, Far
<1>8. MemberRec' = MemberRec /\ PduRec' = PduRec
  BY <1>2 DEF MemberRec, PduRec, Says
<1> QED
  BY <1>2, <1>4, <1>5, <1>6, <1>7, <1>8

(* The timers count periods: the short timeout is no longer than the long one, and one end
   is alone for two timeouts at most. *)
LEMMA Timers ==
    ASSUME scn \in Scenarios
    PROVE  /\ Short \in Nat \ {0} /\ Long \in Nat \ {0} /\ Short <= Long
           /\ Timeout \in Nat \ {0} /\ Apart = 2 * Timeout
           /\ Fast \in Nat /\ Slow \in Nat
<1>1. Short \in Nat \ {0} /\ Long \in Nat \ {0} /\ Short <= Long /\ Fast \in Nat /\ Slow \in Nat
  BY ScenarioAssumption DEF Short, Long, Fast, Slow
<1> QED
  BY <1>1 DEF Timeout, Apart

(* A member before and after a step that is no pass of its thread and takes no
   LACPDU: what the invariant looks at is the same. *)
Same(m, n) ==
    n.dist = m.dist /\ n.actor = m.actor /\ n.partner = m.partner /\ n.expires = m.expires

(* A step that only loses LACPDUs, or only has LACPDUs be sent. *)
LEMMA Kept ==
    ASSUME LacpInv, LacpTypeOK', scn' = scn, ran' = ran, alone' = alone, quiet' = quiet,
           AlwaysFast => \A s \in Switch : opt'[s].slow = opt[s].slow,
           \A s \in Switch : opt'[s].lacp = opt[s].lacp,
           \A sl \in Member : Same(mb[sl], mb'[sl]) /\ wire'[sl] \subseteq wire[sl]
    PROVE  LacpInv'
<1>1. /\ Link' = Link /\ Switch' = Switch /\ Member' = Member /\ AlwaysFast' = AlwaysFast
      /\ Short' = Short /\ Long' = Long /\ Timeout' = Timeout /\ Apart' = Apart
      /\ \A x : Other(x)' = Other(x)
  BY Fixed
<1>2. LacpTypeOK /\ scn \in Scenarios
  BY DEF LacpInv, LacpTypeOK
<1>3. ASSUME NEW x \in Member
      PROVE  /\ mb'[x].dist = mb[x].dist /\ mb'[x].actor = mb[x].actor /\ mb'[x].partner = mb[x].partner
             /\ mb'[x].expires = mb[x].expires /\ wire'[x] \subseteq wire[x]
             /\ Speaking(x)' <=> Speaking(x)
             /\ (Valid(mb'[x]) <=> Valid(mb[x])) /\ (Collects(mb'[x]) <=> Collects(mb[x]))
  <2>1. x[1] \in Switch
    BY <1>2, Ends
  <2> QED
    BY <1>3, <2>1 DEF Same, Speaking, Valid, Collects
<1>4. ASSUME NEW sl \in Member
      PROVE  Wired(sl)' /\ (AlwaysFast => Unheard(sl))' /\ InTime(sl)' /\ Bounded(sl)'
  <2>1. Other(sl) \in Member /\ Other(sl)' = Other(sl)
    BY <1>1, <1>2, Ends
  <2>2. Wired(sl) /\ (AlwaysFast => Unheard(sl)) /\ InTime(sl) /\ Bounded(sl)
    BY DEF LacpInv
  <2>3. Wired(sl)'
    BY <1>3, <2>1, <2>2 DEF Wired
  <2>4. (AlwaysFast => Unheard(sl))'
    BY <1>1, <1>3, <2>1, <2>2 DEF Unheard
  <2>5. Premature(sl) => Premature(sl)'
    BY <1>3, <2>1 DEF Premature
  <2>6. InTime(sl)'
    BY <1>1, <1>3, <2>2, <2>5 DEF InTime
  <2>7. Going(sl)' <=> Going(sl)
    BY Zenon, <1>3, <2>1 DEF Going
  <2>8. Bounded(sl)'
    BY Zenon, <1>1, <1>3, <2>1, <2>2, <2>7 DEF Bounded
  <2> QED
    BY <2>3, <2>4, <2>6, <2>8
<1>5. OneFar'
  BY <1>1, <1>3 DEF LacpInv, OneFar
<1>6. NotAlone'
  BY <1>1 DEF LacpInv, NotAlone
<1>7. (AlwaysFast => \A s \in Switch : opt[s].lacp /\ ~opt[s].slow)'
  BY <1>1 DEF LacpInv
<1> QED
  BY <1>1, <1>4, <1>5, <1>6, <1>7 DEF LacpInv
-----------------------------------------------------------------------------
(* The members of a LAG as lacp_eval has them, old partners given up. *)
Heard(s) == [l \in Mine(s) |-> Expired(Linked(mb[<<s, l>>], l))]

(* lag_thread and lacp_eval, until they select: the partner is kept or given up, and one
   that is kept has not expired. *)
LEMMA HeardMember ==
    ASSUME LacpTypeOK, NEW s \in Switch, NEW l \in Mine(s), <<s, l>> \in Member
    PROVE  /\ Heard(s)[l] \in MemberRec /\ Heard(s)[l].expires = mb[<<s, l>>].expires
           /\ Heard(s)[l].partner = mb[<<s, l>>].partner \/ Heard(s)[l].partner = Unknown
           /\ Valid(Heard(s)[l]) => mb[<<s, l>>].expires > 0
           /\ Linked(mb[<<s, l>>], l) \in MemberRec
           /\ Linked(mb[<<s, l>>], l).partner = mb[<<s, l>>].partner /\ Linked(mb[<<s, l>>], l).expires = mb[<<s, l>>].expires
<1> DEFINE m == mb[<<s, l>>]
           n == Linked(m, l)
<1>1. m \in MemberRec /\ up[l] \in BOOLEAN
  BY DEF LacpTypeOK, Mine
<1>2. n \in MemberRec /\ n.partner = m.partner /\ n.expires = m.expires
  BY Zenon, <1>1 DEF Linked, MemberRec
<1>3. Heard(s)[l] = Expired(n)
  BY DEF Heard
<1>4. Unknown \in Says
  BY DEF Unknown, Says
<1> HIDE DEF n, m
<1>5. CASE Valid(n) /\ (n.expires = 0 \/ ~n.link)
  <2>1. Heard(s)[l] = [n EXCEPT !.partner = Unknown, !.view = Unknown, !.ntt = TRUE]
    BY <1>3, <1>5 DEF Expired
  <2>2. Heard(s)[l] \in MemberRec /\ Heard(s)[l].partner = Unknown /\ Heard(s)[l].expires = n.expires
    BY Zenon, <1>2, <1>4, <2>1 DEF MemberRec
  <2> QED
    BY <1>2, <2>2 DEF Valid, m, n
<1>6. CASE ~(Valid(n) /\ (n.expires = 0 \/ ~n.link))
  <2>1. Heard(s)[l] = n
    BY <1>3, <1>6 DEF Expired
  <2>2. n.expires \in Nat
    BY <1>2 DEF MemberRec
  <2>3. Valid(n) => n.expires > 0
    BY <1>6, <2>2
  <2> QED
    BY <1>2, <2>1, <2>3 DEF m, n
<1> QED
  BY <1>5, <1>6

(* lag_thread, for one member of its LAG. *)
LEMMA PassSide ==
    ASSUME LacpTypeOK, NEW sl \in Member, Pass(sl[1])
    PROVE  /\ mb'[sl] \in MemberRec
           /\ mb'[sl].expires = mb[sl].expires
           /\ mb'[sl].partner = mb[sl].partner \/ mb'[sl].partner = Unknown
           /\ Speaking(sl) =>
                /\ Valid(mb'[sl]) => mb[sl].expires > 0
                /\ "timeout" \in mb'[sl].actor <=> ~opt[sl[1]].slow
                /\ "sync" \in mb'[sl].actor => Valid(mb'[sl])
                /\ "collecting" \in mb'[sl].actor
                       => "sync" \in mb'[sl].actor /\ "sync" \in mb'[sl].partner.state
                /\ mb'[sl].dist <=> "collecting" \in mb'[sl].actor /\ "collecting" \in mb'[sl].partner.state
                /\ "sync" \in mb'[sl].actor => Selected(sl[1], Heard(sl[1]), sl[2])
                /\ mb'[sl].partner = Heard(sl[1])[sl[2]].partner
           /\ wire'[Other(sl)] = wire[Other(sl)]
              \/ \E d \in PduRec : wire'[Other(sl)] = {d} /\ d.sys = sl[1] /\ d.state = mb'[sl].actor
<1> DEFINE s == sl[1]
           l == sl[2]
           seen == [k \in Mine(s) |-> Linked(mb[<<s, k>>], k)]
           heard == [k \in Mine(s) |-> Expired(seen[k])]
           now == [k \in Mine(s) |-> IF opt[s].lacp THEN Evaluated(s, heard, k) ELSE Static(seen[k])]
           due == {k \in Mine(s) : Due(s, now[k])}
<1>1. /\ sl = <<s, l>> /\ s \in Switch /\ l \in Link /\ l \in Mine(s) /\ Other(sl) \in Member
      /\ Other(sl)[2] = l /\ s = Far(Other(sl)[1], l) /\ scn \in Scenarios
  BY Ends DEF LacpTypeOK
<1>2. heard = Heard(s)
  BY DEF Heard
<1>3. seen[l] = Linked(mb[sl], l)
      /\ now[l] = IF opt[s].lacp THEN Evaluated(s, heard, l) ELSE Static(seen[l])
  BY Zenon, <1>1
<1>4. mb'[sl] = Sent(now[l]) \/ mb'[sl] = now[l]
  BY Zenon, <1>1 DEF Pass
<1>5. wire'[Other(sl)] = wire[Other(sl)] \/ wire'[Other(sl)] = {Pdu(s, now[l])}
  BY Zenon, <1>1 DEF Pass
<1> HIDE DEF s, l, seen, heard, now, due
<1>6. /\ heard[l] \in MemberRec /\ heard[l].expires = mb[sl].expires
      /\ heard[l].partner = mb[sl].partner \/ heard[l].partner = Unknown
      /\ Valid(heard[l]) => mb[sl].expires > 0
      /\ seen[l] \in MemberRec /\ seen[l].partner = mb[sl].partner /\ seen[l].expires = mb[sl].expires
  BY Zenon, <1>1, <1>2, <1>3, HeardMember
<1>7. ASSUME now[l] \in MemberRec
      PROVE  /\ mb'[sl] \in MemberRec /\ mb'[sl].partner = now[l].partner /\ mb'[sl].expires = now[l].expires
             /\ mb'[sl].actor = now[l].actor /\ mb'[sl].dist = now[l].dist
             /\ wire'[Other(sl)] = wire[Other(sl)]
                \/ \E d \in PduRec : wire'[Other(sl)] = {d} /\ d.sys = sl[1] /\ d.state = mb'[sl].actor
  <2> DEFINE nx == IF Valid(now[l]) /\ "timeout" \notin now[l].partner.state THEN Slow ELSE Fast
  <2>1. nx \in Nat
    BY <1>1, Timers
  <2>2. Sent(now[l]) = [now[l] EXCEPT !.ntt = FALSE, !.next_tx = nx]
    BY DEF Sent
  <2> HIDE DEF nx
  <2>3. /\ mb'[sl] \in MemberRec /\ mb'[sl].partner = now[l].partner /\ mb'[sl].expires = now[l].expires
        /\ mb'[sl].actor = now[l].actor /\ mb'[sl].dist = now[l].dist
    <3>1. CASE mb'[sl] = now[l]
      BY <1>7, <3>1
    <3>2. CASE mb'[sl] = Sent(now[l])
      BY Zenon, <1>7, <2>1, <2>2, <3>2 DEF MemberRec
    <3> QED
      BY <1>4, <3>1, <3>2
  <2>4. Pdu(s, now[l]) \in PduRec /\ Pdu(s, now[l]).sys = s /\ Pdu(s, now[l]).state = now[l].actor
    BY <1>1, <1>7 DEF Pdu, PduRec, MemberRec
  <2> QED
    BY <1>5, <2>3, <2>4 DEF s
<1>8. CASE opt[s].lacp
  <2> DEFINE sel == Selected(s, heard, l)
             st == ActorState(s, heard[l], sel)
  <2>1. now[l] = [heard[l] EXCEPT !.actor = st, !.ntt = @ \/ st # heard[l].actor, !.dist = "distributing" \in st]
    BY <1>3, <1>8 DEF Evaluated
  <2>2. sel => Valid(heard[l])
    BY DEF Selected, Candidates
  <2>3. /\ "timeout" \in st <=> ~opt[s].slow
        /\ "sync" \in st <=> sel
        /\ "collecting" \in st <=> sel /\ "sync" \in heard[l].partner.state
        /\ "distributing" \in st <=> "collecting" \in st /\ "collecting" \in heard[l].partner.state
    BY DEF ActorState
  <2>4. st \in SUBSET Bits
    BY DEF ActorState, Bits
  <2> HIDE DEF sel, st
  <2>5. /\ now[l] \in MemberRec /\ now[l].expires = heard[l].expires /\ now[l].partner = heard[l].partner
        /\ now[l].actor = st /\ now[l].dist = ("distributing" \in st)
    <3> DEFINE told == heard[l].ntt \/ st # heard[l].actor
               out == "distributing" \in st
    <3>1. told \in BOOLEAN /\ out \in BOOLEAN
      OBVIOUS
    <3>2. now[l] = [heard[l] EXCEPT !.actor = st, !.ntt = told, !.dist = out]
      BY <1>6, <2>1 DEF MemberRec
    <3> HIDE DEF told, out
    <3>3. /\ now[l] \in MemberRec /\ now[l].expires = heard[l].expires /\ now[l].partner = heard[l].partner
          /\ now[l].actor = st /\ now[l].dist = out
      BY Zenon, <1>6, <2>4, <3>1, <3>2 DEF MemberRec
    <3> QED
      BY <3>3 DEF out
  <2>6. Valid(mb'[sl]) <=> Valid(heard[l])
    BY <1>7, <2>5 DEF Valid
  <2>7. mb'[sl].dist <=> "distributing" \in st
    BY Zenon, <1>7, <2>5
  <2>8. sel = Selected(sl[1], Heard(sl[1]), sl[2]) /\ heard[l] = Heard(sl[1])[sl[2]]
    BY <1>2 DEF sel, s, l
  <2>9. mb'[sl].actor = st /\ mb'[sl].partner = heard[l].partner /\ mb'[sl].expires = mb[sl].expires
    BY <1>6, <1>7, <2>5
  <2> QED
    BY <1>6, <1>7, <2>2, <2>3, <2>5, <2>6, <2>7, <2>8, <2>9 DEF s
<1>9. CASE ~opt[s].lacp
  <2>1. now[l] = [seen[l] EXCEPT !.dist = seen[l].link]
    BY <1>3, <1>9 DEF Static
  <2>2. now[l] \in MemberRec /\ now[l].expires = seen[l].expires /\ now[l].partner = seen[l].partner
    BY <1>6, <2>1 DEF MemberRec
  <2>3. ~Speaking(sl)
    BY Zenon, <1>9 DEF Speaking, s
  <2> QED
    BY <1>6, <1>7, <2>2, <2>3
<1> QED
  BY <1>8, <1>9

(* A pass says nothing to, and changes nothing of, members that are neither its own
   nor at the other end of its own. *)
LEMMA PassElsewhere ==
    ASSUME LacpTypeOK, NEW s \in Switch, Pass(s), NEW sl \in Member
    PROVE  /\ sl[1] # s => mb'[sl] = mb[sl]
           /\ Other(sl)[1] # s => wire'[sl] = wire[sl]
           /\ ran' = ran \cup {s} /\ s \notin ran
           /\ scn' = scn /\ opt' = opt /\ alone' = alone /\ quiet' = quiet
<1>1. Other(sl)[1] = Far(sl[1], sl[2])
  BY DEF Other
<1> QED
  BY Zenon, <1>1 DEF Pass

(* Two members selected together have the same partner. *)
LEMMA PassSelects ==
    ASSUME LacpTypeOK, NEW sl \in Member, NEW kl \in Member, sl[1] = kl[1], Pass(sl[1]), Speaking(sl),
           mb'[sl].dist, mb'[kl].dist
    PROVE  mb'[sl].partner.sys = mb'[kl].partner.sys
<1> DEFINE s == sl[1]
           far == Heard(s)[Min(Candidates(s, Heard(s)))].partner.sys
<1>1. Speaking(kl)
  BY Zenon DEF Speaking
<1>2. /\ Selected(s, Heard(s), sl[2]) /\ mb'[sl].partner = Heard(s)[sl[2]].partner
  BY PassSide
<1>3. /\ Selected(s, Heard(s), kl[2]) /\ mb'[kl].partner = Heard(s)[kl[2]].partner
  BY <1>1, PassSide
<1>4. Heard(s)[sl[2]].partner.sys = far /\ Heard(s)[kl[2]].partner.sys = far
  BY <1>2, <1>3 DEF Selected
<1> QED
  BY <1>2, <1>3, <1>4

(* lag_thread keeps what the invariant says of every member: its own, the ones at the other
   end of its links, and the rest. *)
LEMMA PassKeeps ==
    ASSUME LacpInv, NEW s \in Switch, Pass(s), NEW sl \in Member
    PROVE  Wired(sl)' /\ (AlwaysFast => Unheard(sl))' /\ InTime(sl)' /\ Bounded(sl)'
<1> DEFINE o == Other(sl)
<1>1. /\ Link' = Link /\ Switch' = Switch /\ Member' = Member /\ AlwaysFast' = AlwaysFast
      /\ Short' = Short /\ Long' = Long /\ Timeout' = Timeout /\ Apart' = Apart
      /\ \A x : Other(x)' = Other(x)
  BY Zenon, Fixed DEF Pass
<1>2. LacpTypeOK /\ scn \in Scenarios
  BY DEF LacpInv, LacpTypeOK
<1>3. /\ sl[1] \in Switch /\ o \in Member /\ o[1] \in Switch /\ Other(o) = sl /\ o # sl /\ o[1] # sl[1]
  BY <1>2, Ends
<1>4. Wired(sl) /\ (AlwaysFast => Unheard(sl)) /\ InTime(sl) /\ Bounded(sl) /\ Wired(o)
  BY <1>3 DEF LacpInv
<1>5. /\ ran' = ran \cup {s} /\ s \notin ran /\ opt' = opt /\ alone' = alone /\ quiet' = quiet
      /\ sl[1] # s => mb'[sl] = mb[sl] /\ wire'[o] = wire[o]
      /\ o[1] # s => mb'[o] = mb[o] /\ wire'[sl] = wire[sl]
  BY <1>2, <1>3, PassElsewhere
<1>6. AlwaysFast => Speaking(sl) /\ Speaking(o) /\ ~opt[sl[1]].slow
  BY <1>3 DEF LacpInv, Speaking
<1>7. (Speaking(sl)' <=> Speaking(sl)) /\ (Speaking(Other(sl))' <=> Speaking(o))
  BY <1>1, <1>5 DEF Speaking
<1>8. Other(sl)' = o
  BY <1>1
<1>9. alone[sl] \in Nat /\ Timeout \in Nat \ {0} /\ Apart = 2 * Timeout /\ mb[sl].expires \in Nat /\ mb[o].expires \in Nat
  BY <1>2, <1>3, Timers DEF LacpTypeOK, MemberRec
<1> HIDE DEF o
<1>10. CASE sl[1] # s /\ o[1] # s
  <2>1. mb'[sl] = mb[sl] /\ mb'[o] = mb[o] /\ wire'[sl] = wire[sl] /\ wire'[o] = wire[o]
        /\ (sl[1] \in ran' <=> sl[1] \in ran) /\ (o[1] \in ran' <=> o[1] \in ran)
    BY Zenon, <1>5, <1>10
  <2>2. Wired(sl)'
    BY <1>4, <1>7, <1>8, <2>1 DEF Wired, o
  <2>3. (AlwaysFast => Unheard(sl))'
    BY Zenon, <1>1, <1>4, <1>8, <2>1 DEF Unheard, o
  <2>4. InTime(sl)'
    BY Zenon, <1>1, <1>4, <1>5, <1>8, <2>1 DEF InTime, Premature, o
  <2>5. Bounded(sl)'
    BY Zenon, <1>1, <1>4, <1>5, <1>7, <1>8, <2>1 DEF Bounded, Going, o
  <2> QED
    BY <2>2, <2>3, <2>4, <2>5
<1>11. CASE sl[1] = s
  <2>1. /\ mb'[sl].expires = mb[sl].expires
        /\ mb'[sl].partner = mb[sl].partner \/ mb'[sl].partner = Unknown
        /\ wire'[o] = wire[o]
           \/ \E d \in PduRec : wire'[o] = {d} /\ d.sys = sl[1] /\ d.state = mb'[sl].actor
    BY Zenon, <1>2, <1>11, PassSide DEF o
  <2>2. Speaking(sl) =>
            /\ Valid(mb'[sl]) => mb[sl].expires > 0
            /\ "timeout" \in mb'[sl].actor <=> ~opt[sl[1]].slow
            /\ "sync" \in mb'[sl].actor => Valid(mb'[sl])
            /\ "collecting" \in mb'[sl].actor => "sync" \in mb'[sl].actor /\ "sync" \in mb'[sl].partner.state
            /\ mb'[sl].dist <=> "collecting" \in mb'[sl].actor /\ "collecting" \in mb'[sl].partner.state
    BY <1>2, <1>11, PassSide
  <2>3. mb'[o] = mb[o] /\ wire'[sl] = wire[sl] /\ sl[1] \in ran' /\ (o[1] \in ran' <=> o[1] \in ran)
    BY Zenon, <1>3, <1>5, <1>11
  <2>4. wire[o] = {}
    BY <1>3, <1>4, <1>5, <1>11 DEF Wired
  <2>5. \A d \in wire'[o] : d.state = mb'[sl].actor
    BY <2>1, <2>4
  <2>6. Valid(mb'[sl]) => Valid(mb[sl]) /\ mb'[sl].partner = mb[sl].partner
    BY Zenon, <2>1 DEF Valid
  <2>7. Wired(sl)'
    BY <1>4, <1>5, <1>7, <1>8, <2>1, <2>2, <2>3, <2>6 DEF Wired, o
  <2>8. (AlwaysFast => Unheard(sl))'
    BY Zenon, <1>1, <1>6, <2>2 DEF Unheard
  <2>9. AlwaysFast /\ Valid(mb'[sl]) /\ Premature(sl) => Premature(sl)'
    BY Zenon, <1>6, <1>8, <2>2, <2>3, <2>5, <2>6 DEF Premature, o
  <2>10. InTime(sl)'
    BY Zenon, <1>1, <1>4, <1>5, <2>1, <2>6, <2>9 DEF InTime
  <2>11. Bounded(sl)'
    <3> SUFFICES ASSUME alone[sl] > 0 PROVE Bounded(sl)'
      BY Zenon, <1>5 DEF Bounded
    <3>1. /\ Speaking(sl) /\ Speaking(o)
          /\ \A d \in wire[sl] : d.state = mb[o].actor
      BY <1>4 DEF Bounded, o
    <3>2. Going(sl)' => Going(sl) /\ mb'[sl].dist
      BY Zenon, <1>5, <1>8, <1>11, <2>3 DEF Going, o
    <3>3. Going(sl) =>
             /\ Valid(mb[o]) /\ ~Collects(mb[o]) => mb[o].expires + alone[sl] <= Timeout
             /\ o[1] \in ran /\ "collecting" \in mb[o].actor => alone[sl] < Timeout
             /\ alone[sl] > Timeout /\ Valid(mb[sl]) /\ Collects(mb[sl])
                    => mb[sl].expires + alone[sl] <= Apart
      BY <1>4 DEF Bounded, o
    <3>4. Valid(mb'[sl]) /\ Collects(mb'[sl]) => Valid(mb[sl]) /\ Collects(mb[sl])
      BY Zenon, <2>6 DEF Collects
    <3>5. mb'[sl].dist => Valid(mb'[sl]) /\ Collects(mb'[sl]) /\ mb[sl].expires > 0
      BY <2>2, <3>1 DEF Collects
    <3>6. Going(sl)' /\ alone[sl] > Timeout => alone[sl] < Apart
      BY <1>9, <3>2, <3>3, <3>4, <3>5
    <3>7. (\A d \in wire'[sl] : d.state = mb'[o].actor) /\ (\A d \in wire'[o] : d.state = mb'[sl].actor)
      BY <2>3, <2>5, <3>1
    <3>8. Going(sl)' =>
             /\ Valid(mb'[o]) /\ ~Collects(mb'[o]) => mb'[o].expires + alone'[sl] <= Timeout
             /\ o[1] \in ran' /\ "collecting" \in mb'[o].actor => alone'[sl] < Timeout
             /\ alone'[sl] > Timeout /\ Valid(mb'[sl]) /\ Collects(mb'[sl])
                    => mb'[sl].expires + alone'[sl] <= Apart
             /\ alone'[sl] > Timeout /\ sl[1] \in ran' => alone'[sl] < Apart
      BY Zenon, <1>5, <2>1, <2>3, <3>2, <3>3, <3>4, <3>6
    <3> QED
      BY Zenon, <1>1, <1>7, <1>8, <3>1, <3>7, <3>8 DEF Bounded
  <2> QED
    BY <2>7, <2>8, <2>10, <2>11
<1>12. CASE o[1] = s
  <2>1. /\ mb'[o].expires = mb[o].expires
        /\ mb'[o].partner = mb[o].partner \/ mb'[o].partner = Unknown
        /\ wire'[sl] = wire[sl]
           \/ \E d \in PduRec : wire'[sl] = {d} /\ d.sys = o[1] /\ d.state = mb'[o].actor
    BY Zenon, <1>2, <1>3, <1>12, PassSide
  <2>2. Speaking(o) =>
            /\ Valid(mb'[o]) => mb[o].expires > 0
            /\ "sync" \in mb'[o].actor => Valid(mb'[o])
            /\ "collecting" \in mb'[o].actor => "sync" \in mb'[o].actor /\ "sync" \in mb'[o].partner.state
            /\ mb'[o].dist <=> "collecting" \in mb'[o].actor /\ "collecting" \in mb'[o].partner.state
    BY Zenon, <1>2, <1>3, <1>12, PassSide
  <2>3. mb'[sl] = mb[sl] /\ wire'[o] = wire[o] /\ o[1] \in ran' /\ (sl[1] \in ran' <=> sl[1] \in ran)
    BY Zenon, <1>3, <1>5, <1>12
  <2>4. wire[sl] = {}
    BY <1>4, <1>5, <1>12 DEF Wired, o
  <2>5. \A d \in wire'[sl] : d.sys = o[1] /\ d.state = mb'[o].actor
    BY <2>1, <2>4
  <2>6. Valid(mb'[o]) => Valid(mb[o]) /\ mb'[o].partner = mb[o].partner
    BY Zenon, <2>1 DEF Valid
  <2>7. Wired(sl)'
    BY Zenon, <1>4, <1>7, <1>8, <2>3, <2>5 DEF Wired, o
  <2>8. (AlwaysFast => Unheard(sl))'
    BY Zenon, <1>1, <1>4, <1>6, <1>8, <2>2, <2>3, <2>5, <2>6 DEF Unheard, o
  <2>9. "collecting" \in mb'[o].partner.state => "collecting" \in mb[o].partner.state
    BY <2>1 DEF Unknown
  <2>10. AlwaysFast /\ Premature(sl) => Premature(sl)'
    BY Zenon, <1>6, <1>8, <2>2, <2>3, <2>9 DEF Premature, o
  <2>11. InTime(sl)'
    BY Zenon, <1>1, <1>4, <1>5, <2>3, <2>10 DEF InTime
  <2>12. Bounded(sl)'
    <3> SUFFICES ASSUME alone[sl] > 0 PROVE Bounded(sl)'
      BY <1>5 DEF Bounded
    <3>1. /\ Speaking(sl) /\ Speaking(o)
          /\ \A d \in wire[o] : d.state = mb[sl].actor
      BY <1>4 DEF Bounded, o
    <3>2. Going(sl)' => Going(sl) /\ ~mb'[o].dist
      BY Zenon, <1>5, <1>8, <1>12, <2>3 DEF Going, o
    <3>3. Going(sl) =>
             /\ Valid(mb[o]) /\ ~Collects(mb[o]) => mb[o].expires + alone[sl] <= Timeout
             /\ alone[sl] > Timeout /\ Valid(mb[sl]) /\ Collects(mb[sl])
                    => mb[sl].expires + alone[sl] <= Apart
             /\ alone[sl] > Timeout /\ sl[1] \in ran => alone[sl] < Apart
      BY <1>4 DEF Bounded, o
    <3>4. Valid(mb'[o]) /\ ~Collects(mb'[o]) => Valid(mb[o]) /\ ~Collects(mb[o])
      BY Zenon, <2>6 DEF Collects
    <3>5. "collecting" \in mb'[o].actor /\ ~mb'[o].dist
              => Valid(mb'[o]) /\ ~Collects(mb'[o]) /\ mb[o].expires > 0
      BY Zenon, <2>2, <3>1 DEF Collects
    <3>6. Going(sl)' /\ "collecting" \in mb'[o].actor => alone[sl] < Timeout
      BY <1>9, <3>2, <3>3, <3>4, <3>5
    <3>7. (\A d \in wire'[sl] : d.state = mb'[o].actor) /\ (\A d \in wire'[o] : d.state = mb'[sl].actor)
      BY <2>3, <2>5, <3>1
    <3>8. Going(sl)' =>
             /\ Valid(mb'[o]) /\ ~Collects(mb'[o]) => mb'[o].expires + alone'[sl] <= Timeout
             /\ o[1] \in ran' /\ "collecting" \in mb'[o].actor => alone'[sl] < Timeout
             /\ alone'[sl] > Timeout /\ Valid(mb'[sl]) /\ Collects(mb'[sl])
                    => mb'[sl].expires + alone'[sl] <= Apart
             /\ alone'[sl] > Timeout /\ sl[1] \in ran' => alone'[sl] < Apart
      BY Zenon, <1>5, <2>1, <2>3, <3>2, <3>3, <3>4, <3>6
    <3> QED
      BY Zenon, <1>1, <1>7, <1>8, <3>1, <3>7, <3>8 DEF Bounded
  <2> QED
    BY <2>7, <2>8, <2>11, <2>12
<1> QED
  BY Zenon, <1>10, <1>11, <1>12
-----------------------------------------------------------------------------
(* lag_rx, of one member: the invariant of it, of the other end and of the rest is kept. *)
LEMMA ReceiveKeeps ==
    ASSUME LacpInv, NEW rl \in Member, Receive(rl[1], rl[2]), NEW sl \in Member
    PROVE  Wired(sl)' /\ (AlwaysFast => Unheard(sl))' /\ InTime(sl)' /\ Bounded(sl)'
<1> DEFINE o == Other(sl)
<1>1. /\ Member' = Member /\ AlwaysFast' = AlwaysFast
      /\ Short' = Short /\ Long' = Long /\ Timeout' = Timeout /\ Apart' = Apart
      /\ Other(sl)' = o /\ ran' = ran /\ opt' = opt /\ alone' = alone
  BY Fixed DEF Receive
<1>2. LacpTypeOK /\ scn \in Scenarios
  BY DEF LacpInv, LacpTypeOK
<1>3. /\ sl[1] \in Switch /\ o \in Member /\ o[1] \in Switch /\ Other(o) = sl /\ o # sl /\ o[1] # sl[1]
      /\ o[1] # Nobody /\ rl = <<rl[1], rl[2]>>
  BY <1>2, Ends
<1>4. Wired(sl) /\ (AlwaysFast => Unheard(sl)) /\ InTime(sl) /\ Bounded(sl) /\ Wired(o)
  BY <1>3 DEF LacpInv
<1>5. AlwaysFast => Speaking(sl) /\ Speaking(o)
  BY <1>3 DEF LacpInv, Speaking
<1>6. (Speaking(sl)' <=> Speaking(sl)) /\ (Speaking(Other(sl))' <=> Speaking(o))
  BY <1>1 DEF Speaking
<1>7. PICK d \in wire[rl] : mb' = IF Speaking(rl) THEN [mb EXCEPT ![rl] = Taken(rl[1], @, d)] ELSE mb
  BY <1>3 DEF Receive, Speaking
<1>8. wire' = [wire EXCEPT ![rl] = {}] /\ quiet' = [quiet EXCEPT ![rl] = 0]
  BY Zenon, <1>3 DEF Receive
<1>9. /\ mb \in [Member -> MemberRec] /\ wire \in [Member -> SUBSET PduRec] /\ quiet \in [Member -> Nat]
      /\ alone[sl] \in Nat
  BY <1>2 DEF LacpTypeOK
<1>10. /\ \A x \in Member \ {rl} : mb'[x] = mb[x] /\ wire'[x] = wire[x] /\ quiet'[x] = quiet[x]
       /\ wire'[rl] = {} /\ quiet'[rl] = 0
  BY <1>7, <1>8, <1>9
<1>11. Speaking(rl) =>
           /\ mb'[rl].dist = mb[rl].dist /\ mb'[rl].actor = mb[rl].actor
           /\ mb'[rl].partner.sys = d.sys /\ mb'[rl].partner.state = d.state
           /\ mb'[rl].expires = IF "timeout" \in mb[rl].actor THEN Short ELSE Long
  <2> SUFFICES ASSUME Speaking(rl)
               PROVE  /\ mb'[rl].dist = mb[rl].dist /\ mb'[rl].actor = mb[rl].actor
                      /\ mb'[rl].partner.sys = d.sys /\ mb'[rl].partner.state = d.state
                      /\ mb'[rl].expires = IF "timeout" \in mb[rl].actor THEN Short ELSE Long
    OBVIOUS
  <2>1. mb'[rl] = Taken(rl[1], mb[rl], d) /\ mb[rl] \in MemberRec
    BY <1>7, <1>9
  <2> QED
    BY <2>1 DEF Taken, MemberRec
<1>12. ~Speaking(rl) => mb' = mb
  BY <1>7
<1>13. /\ Short \in Nat \ {0} /\ Long \in Nat \ {0} /\ Short <= Long
       /\ Timeout \in Nat \ {0} /\ Apart = 2 * Timeout
  BY <1>2, Timers
<1> HIDE DEF o
<1>14. CASE rl # sl /\ rl # o
  <2>1. mb'[sl] = mb[sl] /\ mb'[o] = mb[o] /\ wire'[sl] = wire[sl] /\ wire'[o] = wire[o] /\ quiet'[sl] = quiet[sl]
    BY <1>3, <1>10, <1>14
  <2>2. Wired(sl)'
    BY <1>1, <1>4, <1>6, <2>1 DEF Wired, o
  <2>3. (AlwaysFast => Unheard(sl))'
    BY Zenon, <1>1, <1>4, <2>1 DEF Unheard, o
  <2>4. InTime(sl)'
    BY Zenon, <1>1, <1>4, <2>1 DEF InTime, Premature, o
  <2>5. Bounded(sl)'
    BY <1>1, <1>4, <1>6, <2>1 DEF Bounded, Going, o
  <2> QED
    BY <2>2, <2>3, <2>4, <2>5
<1>15. CASE rl = sl
  <2>1. mb'[o] = mb[o] /\ wire'[o] = wire[o] /\ wire'[sl] = {} /\ quiet'[sl] = 0
    BY Zenon, <1>3, <1>10, <1>15
  <2>2. mb'[sl].dist = mb[sl].dist /\ mb'[sl].actor = mb[sl].actor
    BY Zenon, <1>11, <1>12, <1>15
  <2>3. d.sys = o[1] /\ o[1] \in ran
    BY <1>4, <1>15 DEF Wired, o
  <2>4. Speaking(sl) => Valid(mb'[sl])
    BY <1>3, <1>11, <1>15, <2>3 DEF Valid, Unknown
  <2>5. Wired(sl)'
    <3>1. CASE Speaking(sl)
      BY <1>1, <1>4, <1>6, <1>11, <1>13, <1>15, <2>1, <2>2, <2>3, <2>4, <3>1 DEF Wired
    <3>2. CASE ~Speaking(sl)
      BY Zenon, <1>1, <1>4, <1>6, <1>12, <1>15, <2>1, <3>2 DEF Wired, o
    <3> QED
      BY Zenon, <3>1, <3>2
  <2>6. (AlwaysFast => Unheard(sl))'
    <3> SUFFICES ASSUME AlwaysFast PROVE Unheard(sl)'
      BY Zenon, <1>1
    <3>1. "timeout" \notin mb[sl].actor => "sync" \notin mb'[sl].partner.state
      BY <1>4, <1>5, <1>11, <1>15 DEF Unheard
    <3> QED
      BY Zenon, <1>1, <1>4, <2>1, <2>2, <3>1 DEF Unheard, o
  <2>7. InTime(sl)'
    <3>1. CASE ~Speaking(sl)
      <4>1. ~Valid(mb'[sl])
        BY Zenon, <1>4, <1>12, <1>15, <3>1 DEF Wired
      <4> QED
        BY Zenon, <4>1 DEF InTime
    <3>2. CASE Speaking(sl) /\ ~AlwaysFast
      BY <1>1, <1>11, <1>13, <1>15, <3>2 DEF InTime
    <3>3. CASE Speaking(sl) /\ AlwaysFast /\ "timeout" \in mb[sl].actor
      <4>1. mb'[sl].expires = Short
        BY Zenon, <1>11, <1>15, <3>3
      <4> QED
        BY <1>1, <1>13, <2>1, <3>3, <4>1 DEF InTime
    <3>4. CASE Speaking(sl) /\ AlwaysFast /\ "timeout" \notin mb[sl].actor
      <4>1. /\ mb[sl].actor = {} /\ "sync" \notin d.state /\ ~Valid(mb[o]) /\ wire[o] = {}
        BY Zenon, <1>4, <1>15, <3>4 DEF Unheard, o
      <4>2. ~mb[sl].dist /\ ~mb[o].dist
        BY <1>4, <1>5, <3>4, <4>1 DEF Wired
      <4>3. mb[o].partner.state = {}
        BY <4>1 DEF Valid, Unknown
      <4>4. Premature(sl)'
        BY Zenon, <1>1, <1>11, <1>15, <2>1, <2>2, <3>4, <4>1, <4>2, <4>3 DEF Premature
      <4> QED
        BY Zenon, <1>1, <3>4, <4>4 DEF InTime
    <3> QED
      BY <3>1, <3>2, <3>3, <3>4
  <2>8. Bounded(sl)'
    <3> SUFFICES ASSUME alone[sl] > 0 PROVE Bounded(sl)'
      BY Zenon, <1>1 DEF Bounded
    <3>1. /\ Speaking(sl) /\ Speaking(o)
          /\ \A e \in wire[sl] : e.state = mb[o].actor
          /\ \A e \in wire[o] : e.state = mb[sl].actor
      BY Zenon, <1>4 DEF Bounded, o
    <3>2. Going(sl)' <=> Going(sl)
      BY Zenon, <1>1, <2>1, <2>2 DEF Going, o
    <3>3. Going(sl) =>
             /\ Valid(mb[o]) /\ ~Collects(mb[o]) => mb[o].expires + alone[sl] <= Timeout
             /\ o[1] \in ran /\ "collecting" \in mb[o].actor => alone[sl] < Timeout
             /\ alone[sl] > Timeout /\ sl[1] \in ran => alone[sl] < Apart
      BY Zenon, <1>4 DEF Bounded, o
    <3>4. mb'[sl].partner.state = mb[o].actor
      BY Zenon, <1>11, <1>15, <3>1
    <3>5. Going(sl) /\ alone[sl] > Timeout => ~Collects(mb'[sl])
      BY <1>9, <1>13, <2>3, <3>3, <3>4 DEF Collects
    <3>6. (\A e \in wire'[sl] : e.state = mb'[o].actor) /\ (\A e \in wire'[o] : e.state = mb'[sl].actor)
      BY Zenon, <2>1, <2>2, <3>1
    <3>7. Going(sl)' =>
             /\ Valid(mb'[o]) /\ ~Collects(mb'[o]) => mb'[o].expires + alone'[sl] <= Timeout
             /\ o[1] \in ran' /\ "collecting" \in mb'[o].actor => alone'[sl] < Timeout
             /\ alone'[sl] > Timeout /\ Valid(mb'[sl]) /\ Collects(mb'[sl])
                    => mb'[sl].expires + alone'[sl] <= Apart
             /\ alone'[sl] > Timeout /\ sl[1] \in ran' => alone'[sl] < Apart
      BY Zenon, <1>1, <2>1, <2>2, <3>2, <3>3, <3>5
    <3> QED
      BY Zenon, <1>1, <1>6, <3>1, <3>6, <3>7 DEF Bounded
  <2> QED
    BY <2>5, <2>6, <2>7, <2>8
<1>16. CASE rl = o
  <2>1. mb'[sl] = mb[sl] /\ wire'[sl] = wire[sl] /\ wire'[o] = {} /\ quiet'[sl] = quiet[sl]
    BY Zenon, <1>3, <1>10, <1>16
  <2>2. mb'[o].dist = mb[o].dist /\ mb'[o].actor = mb[o].actor
    BY Zenon, <1>11, <1>12, <1>16
  <2>3. sl[1] \in ran
    BY Zenon, <1>3, <1>4, <1>16 DEF Wired
  <2>4. Wired(sl)'
    BY Zenon, <1>1, <1>4, <1>6, <2>1 DEF Wired, o
  <2>5. (AlwaysFast => Unheard(sl))'
    BY Zenon, <1>1, <1>4, <2>1, <2>3 DEF Unheard
  <2>6. Premature(sl) => Premature(sl)'
    <3>1. Premature(sl) => "collecting" \notin mb'[o].partner.state
      BY Zenon, <1>11, <1>12, <1>16 DEF Premature, o
    <3> QED
      BY Zenon, <1>1, <2>1, <2>2, <3>1 DEF Premature, o
  <2>7. InTime(sl)'
    BY Zenon, <1>1, <1>4, <2>1, <2>6 DEF InTime
  <2>8. Bounded(sl)'
    <3> SUFFICES ASSUME alone[sl] > 0 PROVE Bounded(sl)'
      BY <1>1 DEF Bounded
    <3>1. /\ Speaking(sl) /\ Speaking(o)
          /\ \A e \in wire[sl] : e.state = mb[o].actor
          /\ \A e \in wire[o] : e.state = mb[sl].actor
      BY Zenon, <1>4 DEF Bounded, o
    <3>2. Going(sl)' <=> Going(sl)
      BY Zenon, <1>1, <2>1, <2>2 DEF Going, o
    <3>3. Going(sl) =>
             /\ o[1] \in ran /\ "collecting" \in mb[o].actor => alone[sl] < Timeout
             /\ alone[sl] > Timeout /\ Valid(mb[sl]) /\ Collects(mb[sl])
                    => mb[sl].expires + alone[sl] <= Apart
             /\ alone[sl] > Timeout /\ sl[1] \in ran => alone[sl] < Apart
      BY Zenon, <1>4 DEF Bounded, o
    <3>4. mb'[o].partner.state = mb[sl].actor
      BY Zenon, <1>11, <1>16, <3>1
    <3>5. Going(sl) => Collects(mb'[o])
      BY Zenon, <1>4, <2>3, <3>1, <3>4 DEF Going, Wired, Collects
    <3>6. (\A e \in wire'[sl] : e.state = mb'[o].actor) /\ (\A e \in wire'[o] : e.state = mb'[sl].actor)
      BY Zenon, <2>1, <2>2, <3>1
    <3>7. Going(sl)' =>
             /\ Valid(mb'[o]) /\ ~Collects(mb'[o]) => mb'[o].expires + alone'[sl] <= Timeout
             /\ o[1] \in ran' /\ "collecting" \in mb'[o].actor => alone'[sl] < Timeout
             /\ alone'[sl] > Timeout /\ Valid(mb'[sl]) /\ Collects(mb'[sl])
                    => mb'[sl].expires + alone'[sl] <= Apart
             /\ alone'[sl] > Timeout /\ sl[1] \in ran' => alone'[sl] < Apart
      BY <1>1, <2>1, <2>2, <3>2, <3>3, <3>5
    <3> QED
      BY <1>1, <1>6, <3>1, <3>6, <3>7 DEF Bounded
  <2> QED
    BY <2>4, <2>5, <2>7, <2>8
<1> QED
  BY Zenon, <1>14, <1>15, <1>16
-----------------------------------------------------------------------------
(* The clocks alone and quiet stop at a cap: the lesser of two numbers. *)
LEMMA Capped ==
    ASSUME NEW a \in Nat, NEW b \in Nat
    PROVE  Min({a, b}) = IF a <= b THEN a ELSE b
<1>1. \E x \in {a, b} : \A y \in {a, b} : x <= y
  OBVIOUS
<1>2. Min({a, b}) \in {a, b} /\ \A y \in {a, b} : Min({a, b}) <= y
  BY <1>1 DEF Min
<1> QED
  BY <1>2

(* A period ends: what is left of the timeouts shrinks as the time alone and unheard grows,
   and the time alone stays within two timeouts. *)
LEMMA TickKeeps ==
    ASSUME LacpInv, Tick, NEW sl \in Member
    PROVE  Wired(sl)' /\ (AlwaysFast => Unheard(sl))' /\ InTime(sl)' /\ Bounded(sl)' /\ alone'[sl] <= Apart
<1> DEFINE o == Other(sl)
<1>1. /\ Member' = Member /\ AlwaysFast' = AlwaysFast
      /\ Short' = Short /\ Long' = Long /\ Timeout' = Timeout /\ Apart' = Apart
      /\ Other(sl)' = o /\ ran' = {} /\ opt' = opt /\ wire' = wire
  BY Zenon, Fixed DEF Tick
<1>2. LacpTypeOK /\ scn \in Scenarios
  BY Zenon DEF LacpInv, LacpTypeOK
<1>3. /\ sl[1] \in Switch /\ o \in Member /\ o[1] \in Switch /\ Other(o) = sl
      /\ o = <<Far(sl[1], sl[2]), sl[2]>>
  BY Zenon, <1>2, Ends DEF Other
<1>4. /\ Wired(sl) /\ (AlwaysFast => Unheard(sl)) /\ InTime(sl) /\ Bounded(sl) /\ Wired(o) /\ InTime(o)
      /\ alone[sl] <= Apart
  BY Zenon, <1>3 DEF LacpInv, NotAlone
<1>5. sl[1] \in ran /\ o[1] \in ran /\ wire[sl] = {} /\ wire[o] = {}
  BY Zenon, <1>3 DEF Tick
<1>6. (Speaking(sl)' <=> Speaking(sl)) /\ (Speaking(Other(sl))' <=> Speaking(o))
  BY <1>1 DEF Speaking
<1>7. /\ mb[sl] \in MemberRec /\ mb[o] \in MemberRec /\ quiet[sl] \in Nat /\ quiet[o] \in Nat /\ alone[sl] \in Nat
      /\ mb[sl].expires \in Nat /\ mb[o].expires \in Nat
  BY Zenon, <1>2, <1>3 DEF LacpTypeOK, MemberRec
<1>8. ASSUME NEW x \in Member, mb[x] \in MemberRec
      PROVE  /\ mb'[x].dist = mb[x].dist /\ mb'[x].actor = mb[x].actor /\ mb'[x].partner = mb[x].partner
             /\ mb'[x].expires = Less(mb[x].expires)
  <2>1. mb'[x] = [mb[x] EXCEPT !.expires = Less(@), !.next_tx = Less(@)]
    BY Zenon DEF Tick
  <2> QED
    BY <1>8, <2>1 DEF MemberRec
<1>9. /\ mb'[sl].dist = mb[sl].dist /\ mb'[sl].actor = mb[sl].actor /\ mb'[sl].partner = mb[sl].partner
      /\ mb'[o].dist = mb[o].dist /\ mb'[o].actor = mb[o].actor /\ mb'[o].partner = mb[o].partner
      /\ mb'[sl].expires = Less(mb[sl].expires) /\ mb'[o].expires = Less(mb[o].expires)
  BY Zenon, <1>3, <1>7, <1>8
<1>10. /\ (Valid(mb'[sl]) <=> Valid(mb[sl])) /\ (Valid(mb'[o]) <=> Valid(mb[o]))
       /\ (Collects(mb'[sl]) <=> Collects(mb[sl])) /\ (Collects(mb'[o]) <=> Collects(mb[o]))
  BY Zenon, <1>9 DEF Valid, Collects
<1>11. Valid(mb[sl]) => mb[sl].expires > 0 /\ mb'[sl].expires = mb[sl].expires - 1
  BY <1>4, <1>5, <1>7, <1>9 DEF Wired, Less
<1>12. Valid(mb[o]) => mb[o].expires > 0 /\ mb'[o].expires = mb[o].expires - 1
  BY <1>4, <1>5, <1>7, <1>9 DEF Wired, Less
<1>13. /\ Short \in Nat \ {0} /\ Long \in Nat \ {0} /\ Timeout \in Nat \ {0} /\ Apart = 2 * Timeout
       /\ AlwaysFast => Timeout = Short
       /\ ~AlwaysFast => Timeout = Long
  BY Zenon, <1>2, Timers DEF Timeout
<1> HIDE DEF o
<1>14. Wired(sl)'
  <2>1. sl[1] \notin ran' /\ wire'[sl] = {}
    BY Zenon, <1>1, <1>5
  <2> QED
    BY Zenon, <1>1, <1>4, <1>6, <1>9, <1>10, <2>1 DEF Wired, o
<1>15. (AlwaysFast => Unheard(sl))'
  BY <1>1, <1>4, <1>5, <1>9 DEF Unheard
<1>16. InTime(sl)'
  <2>1. Premature(sl) => Premature(sl)'
    BY Zenon, <1>1, <1>9 DEF Premature, o
  <2>2. CASE ~AlwaysFast
    BY <1>1, <1>4, <1>7, <1>10, <1>11, <1>13, <2>2 DEF InTime
  <2>3. CASE AlwaysFast
    <3>1. Valid(mb[sl]) => quiet'[sl] = Min({quiet[sl] + 1, Short + 1})
      BY Zenon DEF Tick
    <3>2. Min({quiet[sl] + 1, Short + 1}) = IF quiet[sl] + 1 <= Short + 1 THEN quiet[sl] + 1 ELSE Short + 1
      BY <1>7, <1>13, Capped
    <3>3. Valid(mb[sl]) => quiet'[sl] \in Nat /\ quiet'[sl] <= quiet[sl] + 1
      BY <1>7, <1>13, <3>1, <3>2
    <3>4. Valid(mb[sl]) /\ mb[sl].expires + quiet[sl] <= Short => mb'[sl].expires + quiet'[sl] <= Short
      BY <1>7, <1>11, <1>13, <3>3
    <3> QED
      BY Zenon, <1>1, <1>4, <1>10, <2>1, <2>3, <3>4 DEF InTime
  <2> QED
    BY Zenon, <2>2, <2>3
<1>17. CASE ~Alone(sl)
  <2>1. alone'[sl] = 0
    BY Zenon, <1>17 DEF Tick
  <2> QED
    BY <1>13, <1>14, <1>15, <1>16, <2>1 DEF Bounded
<1>18. CASE Alone(sl)
  <2>1. Speaking(sl) /\ Speaking(o) /\ mb[sl].dist /\ ~mb[o].dist
    BY Zenon, <1>3, <1>18 DEF Alone, Lacp, Speaking, o
  <2>2. Valid(mb[sl])
    BY Zenon, <1>4, <2>1 DEF Wired
  <2>3. mb[sl].expires <= Timeout
    BY <1>4, <1>7, <1>13, <2>1, <2>2 DEF InTime, Premature
  <2>4. Valid(mb[o]) => mb[o].expires <= Timeout
    <3>1. ~Premature(o)
      BY Zenon, <1>3, <2>1 DEF Premature
    <3> QED
      BY <1>4, <1>7, <1>13, <3>1 DEF InTime
  <2>5. Going(sl)
    BY Zenon, <2>1 DEF Going, o
  <2>6. alone[sl] > 0 =>
           /\ Valid(mb[o]) /\ ~Collects(mb[o]) => mb[o].expires + alone[sl] <= Timeout
           /\ alone[sl] > Timeout /\ Valid(mb[sl]) /\ Collects(mb[sl])
                  => mb[sl].expires + alone[sl] <= Apart
           /\ alone[sl] > Timeout => alone[sl] < Apart
    BY Zenon, <1>4, <1>5, <2>5 DEF Bounded, o
  <2>7. alone[sl] + 1 <= Apart
    BY <1>7, <1>13, <2>6
  <2>8. alone'[sl] = alone[sl] + 1
    <3>1. alone'[sl] = Min({alone[sl] + 1, Apart + 1})
      BY Zenon, <1>18 DEF Tick
    <3>2. Min({alone[sl] + 1, Apart + 1}) = IF alone[sl] + 1 <= Apart + 1 THEN alone[sl] + 1 ELSE Apart + 1
      BY <1>7, <1>13, Capped
    <3> QED
      BY <1>7, <1>13, <2>7, <3>1, <3>2
  <2>9. Valid(mb[o]) /\ ~Collects(mb[o]) => mb'[o].expires + alone'[sl] <= Timeout
    BY <1>7, <1>12, <1>13, <2>4, <2>6, <2>8
  <2>10. alone'[sl] > Timeout /\ Collects(mb[sl]) => mb'[sl].expires + alone'[sl] <= Apart
    BY <1>7, <1>11, <1>13, <2>2, <2>3, <2>6, <2>8
  <2>11. Bounded(sl)'
    <3>1. wire'[sl] = {} /\ wire'[o] = {} /\ sl[1] \notin ran' /\ o[1] \notin ran'
      BY Zenon, <1>1, <1>5
    <3>2. /\ Valid(mb'[o]) /\ ~Collects(mb'[o]) => mb'[o].expires + alone'[sl] <= Timeout
          /\ alone'[sl] > Timeout /\ Valid(mb'[sl]) /\ Collects(mb'[sl])
                 => mb'[sl].expires + alone'[sl] <= Apart
      BY <1>10, <2>9, <2>10
    <3> QED
      BY Zenon, <1>1, <1>6, <2>1, <3>1, <3>2 DEF Bounded
  <2> QED
    BY Zenon, <1>14, <1>15, <1>16, <2>7, <2>8, <2>11
<1> QED
  BY Zenon, <1>17, <1>18

(* nosaic_lag_add, of a LAG that exists: its members start anew, and so does the time alone. *)
LEMMA ModeKeeps ==
    ASSUME LacpInv, NEW s \in Switch, SetMode(s), NEW sl \in Member
    PROVE  Wired(sl)' /\ (AlwaysFast => Unheard(sl))' /\ InTime(sl)' /\ Bounded(sl)'
<1> DEFINE o == Other(sl)
<1>1. /\ Member' = Member /\ AlwaysFast' = AlwaysFast
      /\ Short' = Short /\ Long' = Long /\ Timeout' = Timeout /\ Apart' = Apart
      /\ Other(sl)' = o /\ ran' = ran /\ wire' = wire /\ quiet' = quiet /\ ~AlwaysFast
  BY Zenon, Fixed DEF SetMode, Happens, AlwaysFast
<1>2. LacpTypeOK /\ scn \in Scenarios
  BY DEF LacpInv, LacpTypeOK
<1>3. /\ sl[1] \in Switch /\ o \in Member /\ o[1] \in Switch /\ End[sl[2]] = {sl[1], o[1]}
  BY <1>2, Ends
<1>4. Wired(sl) /\ InTime(sl) /\ Bounded(sl)
  BY Zenon DEF LacpInv
<1>5. \A x \in Switch : x # s => opt'[x] = opt[x]
  BY Zenon, <1>2 DEF SetMode, LacpTypeOK
<1>6. CASE sl[1] = s
  <2>1. mb[sl] \in MemberRec
    BY Zenon, <1>2 DEF LacpTypeOK
  <2>2. mb'[sl].partner = Unknown /\ mb'[sl].dist = FALSE
    BY Zenon, <1>6, <2>1 DEF SetMode, MemberRec
  <2>3. alone'[sl] = 0
    BY Zenon, <1>3, <1>6 DEF SetMode
  <2>4. ~Valid(mb'[sl])
    BY Zenon, <2>2 DEF Valid
  <2>5. Wired(sl)'
    BY <1>1, <1>4, <2>2, <2>4 DEF Wired
  <2> QED
    BY <1>1, <2>3, <2>4, <2>5 DEF InTime, Bounded
<1>7. CASE sl[1] # s
  <2>1. mb'[sl] = mb[sl] /\ (Speaking(sl)' <=> Speaking(sl))
    BY Zenon, <1>3, <1>5, <1>7 DEF SetMode, Speaking
  <2>2. Wired(sl)'
    BY Zenon, <1>1, <1>4, <2>1 DEF Wired
  <2>3. InTime(sl)'
    BY Zenon, <1>1, <1>4, <2>1 DEF InTime
  <2>4. CASE o[1] = s
    <3>1. alone'[sl] = 0
      BY Zenon, <1>3, <2>4 DEF SetMode
    <3> QED
      BY <1>1, <2>2, <2>3, <3>1 DEF Bounded
  <2>5. CASE o[1] # s
    <3>1. alone'[sl] = alone[sl] /\ mb'[o] = mb[o]
      BY Zenon, <1>3, <1>7, <2>5 DEF SetMode
    <3>2. Speaking(Other(sl))' <=> Speaking(o)
      BY Zenon, <1>1, <1>3, <1>5, <2>5 DEF Speaking
    <3>3. Bounded(sl)'
      BY Zenon, <1>1, <1>4, <2>1, <3>1, <3>2 DEF Bounded, Going
    <3> QED
      BY Zenon, <1>1, <2>2, <2>3, <3>3
  <2> QED
    BY Zenon, <2>4, <2>5
<1> QED
  BY Zenon, <1>6, <1>7
-----------------------------------------------------------------------------
(* What the type of the variables needs of each step. *)
LEMMA TypeNext ==
    ASSUME LacpTypeOK, [Next]_vars
    PROVE  LacpTypeOK' /\ scn' = scn
<1>1. scn' = scn
  BY Zenon DEF Next, vars, Tick, Pass, SetPassive, SetRate, SetMode, Receive, Lose, FibreMoves, LinkMoves
<1>2. /\ Link' = Link /\ Switch' = Switch /\ Member' = Member
      /\ MemberRec' = MemberRec /\ PduRec' = PduRec /\ scn \in Scenarios
  BY <1>1, Fixed DEF LacpTypeOK
<1>3. SUFFICES /\ up' \in [Link -> BOOLEAN]
               /\ opt' \in [Switch -> [lacp : BOOLEAN, passive : BOOLEAN, slow : BOOLEAN]]
               /\ mb' \in [Member -> MemberRec]
               /\ wire' \in [Member -> SUBSET PduRec]
               /\ alone' \in [Member -> Nat]
               /\ quiet' \in [Member -> Nat]
  BY <1>1, <1>2 DEF LacpTypeOK
<1>4. /\ up \in [Link -> BOOLEAN]
      /\ opt \in [Switch -> [lacp : BOOLEAN, passive : BOOLEAN, slow : BOOLEAN]]
      /\ mb \in [Member -> MemberRec]
      /\ wire \in [Member -> SUBSET PduRec]
      /\ alone \in [Member -> Nat]
      /\ quiet \in [Member -> Nat]
  BY DEF LacpTypeOK
<1>5. Unknown \in Says
  BY Zenon DEF Unknown, Says
<1>6. CASE Tick
  <2>1. \A n \in Nat : Less(n) \in Nat
    BY DEF Less
  <2>2. ASSUME NEW sl \in Member
        PROVE  /\ mb'[sl] \in MemberRec /\ alone'[sl] \in Nat /\ quiet'[sl] \in Nat
    <3>1. mb'[sl] = [mb[sl] EXCEPT !.expires = Less(mb[sl].expires), !.next_tx = Less(mb[sl].next_tx)]
      BY Zenon, <1>6 DEF Tick
    <3>2. mb[sl] \in MemberRec /\ Less(mb[sl].expires) \in Nat /\ Less(mb[sl].next_tx) \in Nat
      BY <1>4, <2>1 DEF MemberRec
    <3>3. mb'[sl] \in MemberRec
      BY Zenon, <3>1, <3>2 DEF MemberRec
    <3>4. Short + 1 \in Nat /\ Apart + 1 \in Nat
      BY <1>2, Timers
    <3>5. alone[sl] + 1 \in Nat /\ quiet[sl] + 1 \in Nat
      BY <1>4
    <3>6. Min({alone[sl] + 1, Apart + 1}) \in Nat /\ Min({quiet[sl] + 1, Short + 1}) \in Nat
      BY <3>4, <3>5, Capped
    <3>7. alone'[sl] \in {0, Min({alone[sl] + 1, Apart + 1})} /\ quiet'[sl] \in {0, Min({quiet[sl] + 1, Short + 1})}
      BY Zenon, <1>6 DEF Tick
    <3> QED
      BY <3>3, <3>6, <3>7
  <2>3. mb' \in [Member -> MemberRec] /\ alone' \in [Member -> Nat] /\ quiet' \in [Member -> Nat]
    <3>1. /\ mb' = [sl \in Member |-> mb'[sl]] /\ alone' = [sl \in Member |-> alone'[sl]]
          /\ quiet' = [sl \in Member |-> quiet'[sl]]
      BY Zenon, <1>6 DEF Tick
    <3> QED
      BY <2>2, <3>1
  <2> QED
    BY Zenon, <1>4, <1>6, <2>3 DEF Tick
<1>7. ASSUME NEW s \in Switch, Pass(s)
      PROVE  mb' \in [Member -> MemberRec] /\ wire' \in [Member -> SUBSET PduRec]
  <2>1. ASSUME NEW sl \in Member
        PROVE  mb'[sl] \in MemberRec /\ wire'[sl] \in SUBSET PduRec
    <3>1. mb[sl] \in MemberRec /\ wire[sl] \in SUBSET PduRec
      BY <1>4
    <3>2. mb'[sl] \in MemberRec
      <4>1. CASE sl[1] = s
        BY Zenon, <1>7, <4>1, PassSide
      <4>2. CASE sl[1] # s
        BY <1>7, <3>1, <4>2, PassElsewhere
      <4> QED
        BY Zenon, <4>1, <4>2
    <3>3. wire'[sl] \in SUBSET PduRec
      <4>1. Other(sl) \in Member /\ Other(Other(sl)) = sl
        BY Zenon, <1>2, Ends
      <4>2. CASE Other(sl)[1] = s
        <5>1. wire'[sl] = wire[sl] \/ \E d \in PduRec : wire'[sl] = {d}
          BY Zenon, <1>7, <4>1, <4>2, PassSide
        <5> QED
          BY Zenon, <3>1, <5>1
      <4>3. CASE Other(sl)[1] # s
        BY Zenon, <1>7, <3>1, <4>3, PassElsewhere
      <4> QED
        BY <4>2, <4>3
    <3> QED
      BY <3>2, <3>3
  <2>2. mb' = [sl \in Member |-> mb'[sl]] /\ wire' = [sl \in Member |-> wire'[sl]]
    <3> DEFINE seen == [l \in Mine(s) |-> Linked(mb[<<s, l>>], l)]
               heard == [l \in Mine(s) |-> Expired(seen[l])]
               now == [l \in Mine(s) |-> IF opt[s].lacp THEN Evaluated(s, heard, l) ELSE Static(seen[l])]
               due == {l \in Mine(s) : Due(s, now[l])}
               side(sl) == IF sl[1] # s THEN mb[sl] ELSE IF sl[2] \in due THEN Sent(now[sl[2]]) ELSE now[sl[2]]
               sent(sl) == IF sl[2] \in due /\ s = Far(sl[1], sl[2]) /\ <<s, sl[2]>> \notin dark
                           THEN {Pdu(s, now[sl[2]])} ELSE wire[sl]
    <3>1. mb' = [sl \in Member |-> side(sl)] /\ wire' = [sl \in Member |-> sent(sl)]
      BY Zenon, <1>7 DEF Pass
    <3> HIDE DEF side, sent
    <3> QED
      BY Zenon, <3>1
  <2> QED
    BY <2>1, <2>2
<1>8. ASSUME NEW s \in Switch, Pass(s)
      PROVE  up' = up /\ opt' = opt /\ alone' = alone /\ quiet' = quiet
  BY Zenon, <1>8 DEF Pass
<1>9. ASSUME NEW s \in Switch, SetPassive(s) \/ SetRate(s)
      PROVE  /\ opt' \in [Switch -> [lacp : BOOLEAN, passive : BOOLEAN, slow : BOOLEAN]]
             /\ mb' \in [Member -> MemberRec]
             /\ up' = up /\ wire' = wire /\ alone' = alone /\ quiet' = quiet
  <2>1. Told(s) \in [Member -> MemberRec]
    <3>1. ASSUME NEW sl \in Member PROVE [mb[sl] EXCEPT !.ntt = TRUE] \in MemberRec
      BY Zenon, <1>4 DEF MemberRec
    <3> QED
      BY <1>4, <3>1 DEF Told
  <2>2. opt' \in [Switch -> [lacp : BOOLEAN, passive : BOOLEAN, slow : BOOLEAN]]
    <3>1. CASE SetPassive(s)
      BY Zenon, <1>4, <3>1 DEF SetPassive
    <3>2. CASE SetRate(s)
      BY Zenon, <1>4, <3>2 DEF SetRate
    <3> QED
      BY <1>9, <3>1, <3>2
  <2> QED
    BY <1>9, <2>1, <2>2 DEF SetPassive, SetRate
<1>10. ASSUME NEW s \in Switch, SetMode(s)
       PROVE  /\ opt' \in [Switch -> [lacp : BOOLEAN, passive : BOOLEAN, slow : BOOLEAN]]
              /\ mb' \in [Member -> MemberRec] /\ alone' \in [Member -> Nat]
              /\ up' = up /\ wire' = wire /\ quiet' = quiet
  <2>1. ASSUME NEW sl \in Member
        PROVE  [mb[sl] EXCEPT !.partner = Unknown, !.view = Unknown, !.dist = FALSE, !.actor = {}, !.ntt = TRUE]
                   \in MemberRec
    BY Zenon, <1>4, <1>5 DEF MemberRec
  <2>2. mb' \in [Member -> MemberRec]
    BY Zenon, <1>4, <1>10, <2>1 DEF SetMode
  <2>3. opt' \in [Switch -> [lacp : BOOLEAN, passive : BOOLEAN, slow : BOOLEAN]]
    BY Zenon, <1>4, <1>10 DEF SetMode
  <2>4. alone' \in [Member -> Nat]
    BY Zenon, <1>4, <1>10 DEF SetMode
  <2> QED
    BY Zenon, <1>10, <2>2, <2>3, <2>4 DEF SetMode
<1>11. ASSUME NEW rl \in Member, Receive(rl[1], rl[2])
       PROVE  /\ mb' \in [Member -> MemberRec] /\ wire' \in [Member -> SUBSET PduRec] /\ quiet' \in [Member -> Nat]
              /\ up' = up /\ opt' = opt /\ alone' = alone
  <2>1. rl = <<rl[1], rl[2]>>
    BY <1>2, Ends
  <2>2. PICK d \in wire[rl] : mb' = IF opt[rl[1]].lacp THEN [mb EXCEPT ![rl] = Taken(rl[1], @, d)] ELSE mb
    BY <1>11, <2>1 DEF Receive
  <2>3. d \in PduRec /\ mb[rl] \in MemberRec
    BY <1>4
  <2>4. Taken(rl[1], mb[rl], d) \in MemberRec
    <3> DEFINE partner == [sys |-> d.sys, state |-> d.state]
               left == IF "timeout" \in mb[rl].actor THEN Short ELSE Long
               told == mb[rl].ntt \/ partner # mb[rl].partner \/ d.view # [sys |-> rl[1], state |-> mb[rl].actor]
    <3>1. partner \in Says /\ d.view \in Says
      BY <2>3 DEF PduRec, Says
    <3>2. left \in Nat
      BY <1>2, Timers
    <3>3. told \in BOOLEAN
      OBVIOUS
    <3>4. Taken(rl[1], mb[rl], d) = [mb[rl] EXCEPT !.partner = partner, !.view = d.view, !.expires = left, !.ntt = told]
      BY <2>3 DEF Taken, MemberRec
    <3> HIDE DEF partner, left, told
    <3> QED
      BY Zenon, <2>3, <3>1, <3>2, <3>3, <3>4 DEF MemberRec
  <2>5. mb' \in [Member -> MemberRec]
    BY <1>4, <2>2, <2>4
  <2>6. wire' = [wire EXCEPT ![rl] = {}] /\ quiet' = [quiet EXCEPT ![rl] = 0]
    BY Zenon, <1>11, <2>1 DEF Receive
  <2>7. wire' \in [Member -> SUBSET PduRec] /\ quiet' \in [Member -> Nat]
    BY <1>4, <2>6
  <2> QED
    BY <1>11, <2>5, <2>7 DEF Receive
<1>12. ASSUME NEW sl \in Member, Lose(sl) \/ FibreMoves(sl)
       PROVE  /\ wire' \in [Member -> SUBSET PduRec]
              /\ up' = up /\ opt' = opt /\ mb' = mb /\ alone' = alone /\ quiet' = quiet
  BY <1>4, <1>12 DEF Lose, FibreMoves
<1>13. ASSUME NEW l \in Link, LinkMoves(l)
       PROVE  /\ up' \in [Link -> BOOLEAN] /\ wire' \in [Member -> SUBSET PduRec]
              /\ opt' = opt /\ mb' = mb /\ alone' = alone /\ quiet' = quiet
  BY <1>4, <1>13 DEF LinkMoves
<1>14. CASE UNCHANGED vars
  BY <1>4, <1>14 DEF vars
<1>15. CASE \E s \in Switch : Pass(s) \/ SetPassive(s) \/ SetRate(s) \/ SetMode(s)
  BY <1>4, <1>7, <1>8, <1>9, <1>10, <1>15
<1>16. CASE \E sl \in Member : Receive(sl[1], sl[2]) \/ Lose(sl) \/ FibreMoves(sl)
  BY <1>4, <1>11, <1>12, <1>16
<1>17. CASE \E l \in Link : LinkMoves(l)
  BY <1>4, <1>13, <1>17
<1> QED
  BY Zenon, <1>6, <1>14, <1>15, <1>16, <1>17 DEF Next

(* Two members of a LAG come to distribute in a pass, and to the same far end. *)
LEMMA OneFarNext ==
    ASSUME LacpInv, NEW s \in Switch, Pass(s), \A sl \in Member : Wired(sl)'
    PROVE  OneFar'
<1>1. /\ LacpTypeOK /\ scn' = scn /\ scn \in Scenarios
  BY Zenon DEF LacpInv, LacpTypeOK, Pass
<1>2. /\ Member' = Member /\ \A x : Other(x)' = Other(x)
  BY Zenon, <1>1, Fixed
<1>3. opt' = opt
  BY Zenon DEF Pass
<1>4. SUFFICES ASSUME NEW sl \in Member, NEW kl \in Member, sl[1] = kl[1], Speaking(sl), mb'[sl].dist, mb'[kl].dist
               PROVE  Other(sl)[1] = Other(kl)[1]
  BY Zenon, <1>2, <1>3 DEF OneFar, Speaking
<1>5. CASE sl[1] = s
  <2>1. mb'[sl].partner.sys = mb'[kl].partner.sys
    BY Zenon, <1>1, <1>4, <1>5, PassSelects
  <2>2. opt'[sl[1]].lacp /\ opt'[kl[1]].lacp
    BY <1>3, <1>4 DEF Speaking
  <2>3. mb'[sl].partner.sys = Other(sl)[1] /\ mb'[kl].partner.sys = Other(kl)[1]
    BY <1>2, <1>4, <2>2 DEF Wired, Speaking
  <2> QED
    BY Zenon, <2>1, <2>3
<1>6. CASE sl[1] # s
  <2>1. mb'[sl] = mb[sl] /\ mb'[kl] = mb[kl]
    BY <1>1, <1>4, <1>6, PassElsewhere
  <2> QED
    BY <1>4, <2>1 DEF LacpInv, OneFar
<1> QED
  BY Zenon, <1>5, <1>6

(* Every step of the threads, the callback, the operator and the links keeps the invariant. *)
LEMMA LacpInvNext ==
    ASSUME LacpInv, [Next]_vars
    PROVE  LacpInv'
<1>1. LacpTypeOK /\ LacpTypeOK' /\ scn' = scn
  BY TypeNext DEF LacpInv
<1>2. /\ Link' = Link /\ Switch' = Switch /\ Member' = Member /\ AlwaysFast' = AlwaysFast
      /\ Timeout' = Timeout /\ Apart' = Apart /\ \A x : Other(x)' = Other(x)
  BY <1>1, Fixed
<1>3. scn \in Scenarios
  BY Zenon, <1>1 DEF LacpTypeOK
<1>4. CASE Tick
  <2>1. \A sl \in Member :
            Wired(sl)' /\ (AlwaysFast => Unheard(sl))' /\ InTime(sl)' /\ Bounded(sl)' /\ alone'[sl] <= Apart
    BY <1>4, TickKeeps
  <2>2. NotAlone'
    BY Zenon, <1>2, <2>1 DEF NotAlone
  <2>3. opt' = opt
    BY Zenon, <1>4 DEF Tick
  <2>4. \A sl \in Member : mb'[sl].dist = mb[sl].dist
    <3>1. ASSUME NEW sl \in Member PROVE mb'[sl].dist = mb[sl].dist
      <4>1. mb[sl] \in MemberRec /\ mb'[sl] = [mb[sl] EXCEPT !.expires = Less(@), !.next_tx = Less(@)]
        BY Zenon, <1>1, <1>4 DEF Tick, LacpTypeOK
      <4> QED
        BY Zenon, <4>1 DEF MemberRec
    <3> QED
      BY <3>1
  <2>5. OneFar'
    BY <1>2, <2>3, <2>4 DEF LacpInv, OneFar, Speaking
  <2>6. (AlwaysFast => \A s \in Switch : opt[s].lacp /\ ~opt[s].slow)'
    BY Zenon, <1>2, <2>3 DEF LacpInv
  <2> QED
    BY <1>1, <1>2, <2>1, <2>2, <2>5, <2>6 DEF LacpInv
<1>5. ASSUME NEW s \in Switch, Pass(s) PROVE LacpInv'
  <2>1. \A sl \in Member : Wired(sl)' /\ (AlwaysFast => Unheard(sl))' /\ InTime(sl)' /\ Bounded(sl)'
    BY <1>5, PassKeeps
  <2>2. OneFar'
    BY Zenon, <1>5, <2>1, OneFarNext
  <2>3. opt' = opt /\ alone' = alone
    BY Zenon, <1>5 DEF Pass
  <2>4. NotAlone'
    BY <1>2, <2>3 DEF LacpInv, NotAlone
  <2>5. (AlwaysFast => \A x \in Switch : opt[x].lacp /\ ~opt[x].slow)'
    BY Zenon, <1>2, <2>3 DEF LacpInv
  <2> QED
    BY <1>1, <1>2, <2>1, <2>2, <2>4, <2>5 DEF LacpInv
<1>6. ASSUME NEW rl \in Member, Receive(rl[1], rl[2]) PROVE LacpInv'
  <2>1. \A sl \in Member : Wired(sl)' /\ (AlwaysFast => Unheard(sl))' /\ InTime(sl)' /\ Bounded(sl)'
    BY Zenon, <1>6, ReceiveKeeps
  <2>2. opt' = opt /\ alone' = alone
    BY <1>6 DEF Receive
  <2>3. NotAlone'
    BY <1>2, <2>2 DEF LacpInv, NotAlone
  <2>4. (AlwaysFast => \A x \in Switch : opt[x].lacp /\ ~opt[x].slow)'
    BY <1>2, <2>2 DEF LacpInv
  <2>5. \A sl \in Member : mb'[sl].dist = mb[sl].dist
    <3>1. rl = <<rl[1], rl[2]>>
      BY <1>3, Ends
    <3>2. PICK d : mb' = mb \/ mb' = [mb EXCEPT ![rl] = Taken(rl[1], @, d)]
      BY <1>6, <3>1 DEF Receive
    <3>3. mb \in [Member -> MemberRec]
      BY <1>1 DEF LacpTypeOK
    <3>4. mb[rl] \in MemberRec
      BY <3>3
    <3>5. Taken(rl[1], mb[rl], d).dist = mb[rl].dist
      BY Zenon, <3>4 DEF Taken, MemberRec
    <3> QED
      BY <3>2, <3>3, <3>5
  <2>6. OneFar'
    BY Zenon, <1>2, <2>2, <2>5 DEF LacpInv, OneFar, Speaking
  <2> QED
    BY <1>1, <1>2, <2>1, <2>3, <2>4, <2>6 DEF LacpInv
<1>7. ASSUME NEW s \in Switch, SetMode(s) PROVE LacpInv'
  <2>1. \A sl \in Member : Wired(sl)' /\ (AlwaysFast => Unheard(sl))' /\ InTime(sl)' /\ Bounded(sl)'
    BY <1>7, ModeKeeps
  <2>2. ~AlwaysFast'
    BY Zenon, <1>2, <1>7 DEF SetMode, Happens, AlwaysFast
  <2>3. alone \in [Member -> Nat] /\ Apart \in Nat
    BY <1>1, <1>3, Timers DEF LacpTypeOK
  <2>4. \A sl \in Member : alone'[sl] \in {0, alone[sl]}
    BY Zenon, <1>7 DEF SetMode
  <2>5. NotAlone'
    BY <1>2, <2>3, <2>4 DEF LacpInv, NotAlone
  <2>6. ASSUME NEW sl \in Member, NEW kl \in Member, sl[1] = kl[1], opt'[sl[1]].lacp, mb'[sl].dist, mb'[kl].dist
        PROVE  Other(sl)[1] = Other(kl)[1]
    <3>1. mb \in [Member -> MemberRec] /\ mb[sl] \in MemberRec
      BY <1>1 DEF LacpTypeOK
    <3>2. CASE sl[1] = s
      <4>1. mb'[sl] = [mb[sl] EXCEPT !.partner = Unknown, !.view = Unknown, !.dist = FALSE, !.actor = {}, !.ntt = TRUE]
        BY Zenon, <1>7, <3>2 DEF SetMode
      <4>2. mb'[sl].dist = FALSE
        BY Zenon, <3>1, <4>1 DEF MemberRec
      <4> QED
        BY Zenon, <2>6, <4>2
    <3>3. CASE sl[1] # s
      <4>1. mb'[sl] = mb[sl] /\ mb'[kl] = mb[kl]
        BY Zenon, <1>7, <2>6, <3>3 DEF SetMode
      <4>2. sl[1] \in Switch
        BY Zenon, <1>3, Ends
      <4>3. opt'[sl[1]] = opt[sl[1]]
        BY Zenon, <1>1, <1>7, <3>3, <4>2 DEF SetMode, LacpTypeOK
      <4> QED
        BY Zenon, <2>6, <4>1, <4>3 DEF LacpInv, OneFar, Speaking
    <3> QED
      BY <3>2, <3>3
  <2>7. OneFar'
    BY <1>2, <2>6 DEF OneFar, Speaking
  <2> QED
    BY Zenon, <1>1, <1>2, <2>1, <2>2, <2>5, <2>7 DEF LacpInv
<1>8. ASSUME NEW s \in Switch, SetPassive(s) \/ SetRate(s) PROVE LacpInv'
  <2>1. scn' = scn /\ ran' = ran /\ alone' = alone /\ quiet' = quiet /\ wire' = wire /\ mb' = Told(s)
    BY <1>8 DEF SetPassive, SetRate
  <2>2. opt \in [Switch -> [lacp : BOOLEAN, passive : BOOLEAN, slow : BOOLEAN]] /\ mb \in [Member -> MemberRec]
    BY <1>1 DEF LacpTypeOK
  <2>3. \A x \in Switch : opt'[x].lacp = opt[x].lacp
    BY <1>8, <2>2 DEF SetPassive, SetRate
  <2>4. AlwaysFast => \A x \in Switch : opt'[x].slow = opt[x].slow
    BY <1>8, <2>2 DEF SetPassive, SetRate, Happens, AlwaysFast
  <2>5. ASSUME NEW sl \in Member PROVE Same(mb[sl], mb'[sl]) /\ wire'[sl] \subseteq wire[sl]
    <3>1. mb[sl] \in MemberRec
      BY <2>2
    <3>2. mb'[sl] = mb[sl] \/ mb'[sl] = [mb[sl] EXCEPT !.ntt = TRUE]
      BY <2>1 DEF Told
    <3>3. Same(mb[sl], mb'[sl])
      BY Zenon, <3>1, <3>2 DEF Same, MemberRec
    <3> QED
      BY <2>1, <3>3
  <2> QED
    BY <1>1, <2>1, <2>3, <2>4, <2>5, Kept
<1>9. ASSUME NEW sl \in Member, Lose(sl) \/ FibreMoves(sl) PROVE LacpInv'
  <2>1. scn' = scn /\ ran' = ran /\ alone' = alone /\ quiet' = quiet /\ opt' = opt /\ mb' = mb
    BY Zenon, <1>9 DEF Lose, FibreMoves
  <2>2. \A x \in Member : wire'[x] \subseteq wire[x]
    BY Zenon, <1>1, <1>9 DEF Lose, FibreMoves, LacpTypeOK
  <2> QED
    BY Zenon, <1>1, <2>1, <2>2, Kept DEF Same
<1>10. ASSUME NEW l \in Link, LinkMoves(l) PROVE LacpInv'
  <2>1. scn' = scn /\ ran' = ran /\ alone' = alone /\ quiet' = quiet /\ opt' = opt /\ mb' = mb
    BY <1>10 DEF LinkMoves
  <2>2. \A x \in Member : wire'[x] \subseteq wire[x]
    BY Zenon, <1>10 DEF LinkMoves
  <2> QED
    BY Zenon, <1>1, <2>1, <2>2, Kept DEF Same
<1>11. CASE UNCHANGED vars
  <2>1. scn' = scn /\ ran' = ran /\ alone' = alone /\ quiet' = quiet /\ opt' = opt /\ mb' = mb /\ wire' = wire
    BY <1>11 DEF vars
  <2> QED
    BY <1>1, <2>1, Kept DEF Same
<1> QED
  BY <1>4, <1>5, <1>6, <1>7, <1>8, <1>9, <1>10, <1>11 DEF Next

(* LAGs just made, with every link in any state, satisfy it. *)
LEMMA LacpInvInit ==
    ASSUME Init
    PROVE  LacpInv
<1>1. scn \in Scenarios
  BY DEF Init
<1>2. Short \in Nat /\ Apart \in Nat
  BY <1>1, Timers
<1>3. Fresh \in MemberRec
  BY DEF Fresh, MemberRec, Unknown, Says
<1>4. \A sl \in Member : mb[sl] = Fresh /\ wire[sl] = {} /\ alone[sl] = 0 /\ quiet[sl] = 0
  BY Zenon DEF Init
<1>5. opt \in [Switch -> [lacp : BOOLEAN, passive : BOOLEAN, slow : BOOLEAN]]
      /\ \A s \in Switch : opt[s].lacp /\ ~opt[s].slow
  BY DEF Init
<1>6. LacpTypeOK
  BY Zenon, <1>1, <1>3, <1>5 DEF Init, LacpTypeOK
<1>7. ~Valid(Fresh) /\ Fresh.dist = FALSE /\ Fresh.actor = {} /\ Fresh.partner.state = {}
  BY Zenon DEF Fresh, Valid, Unknown
<1>8. ran = {}
  BY DEF Init
<1>9. ASSUME NEW sl \in Member
      PROVE  Wired(sl) /\ (AlwaysFast => Unheard(sl)) /\ InTime(sl) /\ Bounded(sl)
  <2>1. Other(sl) \in Member
    BY <1>1, Ends
  <2>2. mb[sl] = Fresh /\ wire[sl] = {} /\ alone[sl] = 0 /\ mb[Other(sl)] = Fresh /\ wire[Other(sl)] = {}
    BY Zenon, <1>4, <2>1
  <2>3. Wired(sl)
    BY Zenon, <1>7, <1>8, <2>2 DEF Wired
  <2>4. Unheard(sl)
    BY Zenon, <1>7, <1>8, <2>2 DEF Unheard
  <2>5. InTime(sl)
    BY Zenon, <1>7, <2>2 DEF InTime
  <2>6. Bounded(sl)
    BY <2>2 DEF Bounded
  <2> QED
    BY Zenon, <2>3, <2>4, <2>5, <2>6
<1>10. OneFar
  BY <1>4, <1>7 DEF OneFar
<1>11. NotAlone
  BY <1>2, <1>4 DEF NotAlone
<1> QED
  BY Zenon, <1>5, <1>6, <1>9, <1>10, <1>11 DEF LacpInv

(* lacp_eval, lag_rx, lag_thread and nosaic_lag_options, for any cabling and timers: one end
   of a link never distributes alone for longer than two timeouts, a LAG that has always
   been fast never distributes to a partner unheard for longer than the short timeout, and
   none distributes to two systems; whatever LACPDUs are lost, fibres broken one way, links
   moved and options changed. *)
THEOREM NoBlackHoleAlways == Spec => []NoBlackHole
<1>1. LacpInv => NoBlackHole
  <2> SUFFICES ASSUME LacpInv PROVE NoBlackHole
    OBVIOUS
  <2>1. LacpTypeOK /\ scn \in Scenarios
    BY DEF LacpInv, LacpTypeOK
  <2>2. ASSUME AlwaysFast, NEW sl \in Member, mb[sl].dist PROVE quiet[sl] <= Short
    <3>1. sl[1] \in Switch
      BY Zenon, <2>1, Ends
    <3>2. Speaking(sl) /\ Wired(sl) /\ InTime(sl)
      BY Zenon, <2>2, <3>1 DEF LacpInv, Speaking
    <3>3. Valid(mb[sl]) /\ ~Premature(sl)
      BY Zenon, <2>2, <3>2 DEF Wired, Premature
    <3>4. mb[sl].expires + quiet[sl] <= Short
      BY Zenon, <2>2, <3>2, <3>3 DEF InTime
    <3>5. mb[sl].expires \in Nat /\ quiet[sl] \in Nat /\ Short \in Nat
      BY <2>1, Timers DEF LacpTypeOK, MemberRec
    <3> QED
      BY <3>4, <3>5
  <2>3. GivenUp
    BY Zenon, <2>2 DEF GivenUp
  <2>4. ASSUME NEW s \in Switch, opt[s].lacp, NEW l \in Mine(s), NEW k \in Mine(s),
               mb[<<s, l>>].dist, mb[<<s, k>>].dist
        PROVE  mb[<<s, l>>].partner.sys = mb[<<s, k>>].partner.sys
    <3>1. <<s, l>> \in Member /\ <<s, k>> \in Member
      BY DEF Member, Mine
    <3>2. Speaking(<<s, l>>) /\ Speaking(<<s, k>>)
      BY <2>4 DEF Speaking
    <3>3. Wired(<<s, l>>) /\ Wired(<<s, k>>)
      BY Zenon, <3>1 DEF LacpInv
    <3>4. mb[<<s, l>>].partner.sys = Other(<<s, l>>)[1] /\ mb[<<s, k>>].partner.sys = Other(<<s, k>>)[1]
      BY Zenon, <2>4, <3>2, <3>3 DEF Wired
    <3>5. Other(<<s, l>>)[1] = Other(<<s, k>>)[1]
      BY Zenon, <2>4, <3>1, <3>2 DEF LacpInv, OneFar
    <3> QED
      BY <3>4, <3>5
  <2>5. OnePartner
    BY <2>4 DEF OnePartner
  <2> QED
    BY <2>3, <2>5 DEF LacpInv, NoBlackHole
<1>2. Init => LacpInv
  BY LacpInvInit
<1>3. LacpInv /\ [Next]_vars => LacpInv'
  BY LacpInvNext
<1> QED
  BY <1>1, <1>2, <1>3, PTL DEF Spec
=============================================================================
