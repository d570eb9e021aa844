------------------------------- MODULE MCLag -------------------------------
(***************************************************************************)
(* Lag on two ports.                                                       *)
(***************************************************************************)
EXTENDS Lag
CONSTANTS p1, p2

(* Everything that moves the table, on a machine that reorders stores ... *)
Table == [removes |-> TRUE, ordered |-> FALSE, max |-> 4,
          events |-> {"link", "agree", "mode", "members", "del"}]

(* ... and frames sent from the CPU meanwhile, on one that does not. *)
Pick == [removes |-> TRUE, ordered |-> TRUE, max |-> 4,
         events |-> {"mode", "members", "send"}]

(* A machine that does, where a port is picked. *)
Weak == {[removes |-> TRUE, ordered |-> FALSE, max |-> 4, events |-> {"members", "send"}]}

MCScenarios == {Table, Pick}
=============================================================================
