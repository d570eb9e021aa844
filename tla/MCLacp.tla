------------------------------- MODULE MCLacp -------------------------------
(***************************************************************************)
(* Lacp between two switches, or three miscabled.                          *)
(***************************************************************************)
EXTENDS Lacp
CONSTANTS a, b, c

Cable == [l \in {1} |-> {a, b}]
Miscable == [l \in {1, 2} |-> IF l = 1 THEN {a, b} ELSE {a, c}]

Base == [end |-> Cable, fast |-> 1, slow |-> 2, short |-> 3, long |-> 6,
         passives |-> {}, loss |-> 0, max |-> 2, events |-> {}]

(* Links and fibres come and go, LACPDUs are lost. *)
Pair == [Base EXCEPT !.fast = 2, !.slow = 4, !.short = 6, !.long = 12, !.loss = 1,
                     !.events = {"link", "loss", "fibre"}]

(* Ends turn passive, slow and static, with the slow period as much longer than
   the short timeout as it is. *)
Modes == [Base EXCEPT !.slow = 4, !.long = 12, !.loss = 1,
                      !.events = {"loss", "passive", "slow", "mode"}]

(* One LAG cabled to two switches. *)
Miscabled == [Base EXCEPT !.end = Miscable, !.max = 1, !.events = {"link"}]

(* Both ends passive from the start. *)
Silent == [Base EXCEPT !.passives = {a, b}, !.loss = 1, !.max = 3,
                       !.events = {"link", "loss", "slow"}]

(* Nothing but changes of rate. *)
Rate == [Base EXCEPT !.slow = 4, !.long = 12, !.max = 4, !.events = {"slow"}]

MCScenarios == {Pair, Modes, Miscabled, Silent, Rate}
=============================================================================
