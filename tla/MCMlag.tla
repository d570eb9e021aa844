------------------------------- MODULE MCMlag -------------------------------
(***************************************************************************)
(* Mlag on two switches of equal priority, so that the address decides.    *)
(***************************************************************************)
EXTENDS Mlag

CONSTANTS a, b

MCMac == [s \in {a, b} |-> IF s = a THEN 1 ELSE 2]

(* A hello each tick.  The defaults' settle_ms outlasts two hellos and the passes
   that send and read them, which takes 2 * hello + 3 ticks. *)
Base == [hello |-> 1, dead |-> 6, settle |-> 5, reload |-> 0, heartbeat |-> FALSE,
         prios |-> {100}, events |-> {}, loss |-> 0, changes |-> 3]

(* The halves come and go, and hellos are lost. *)
Halves == [Base EXCEPT !.events = {"half", "loss"}, !.loss = 1, !.reload = 2]

(* The peer-link and the management network come and go. *)
Split == [Base EXCEPT !.dead = 4, !.settle = 3, !.heartbeat = TRUE,
                      !.events = {"link", "mgmt"}]

(* MLAG is turned off and on again, and the peer-link may go. *)
Restart == [Split EXCEPT !.events = {"link", "off"}, !.changes = 2]

(* Priorities are changed too. *)
Priorities == {[Split EXCEPT !.prios = {100, 200}, !.events = {"link", "priority"}]}

MCScenarios == {Halves, Split, Restart}
=============================================================================
