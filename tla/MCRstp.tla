------------------------------- MODULE MCRstp -------------------------------
(***************************************************************************)
(* Rstp on a ring of three bridges, and on two bridges with two links.     *)
(***************************************************************************)
EXTENDS Rstp

Peers(links) ==
    [p \in UNION links |-> CHOOSE q \in UNION links : p # q /\ {p, q} \in links]

Cables == Peers({{<<1, 1>>, <<2, 1>>}, {<<2, 2>>, <<3, 1>>}, {<<3, 2>>, <<1, 2>>}})
Double == Peers({{<<1, 1>>, <<2, 1>>}, {<<1, 2>>, <<2, 2>>}})

Ring == [peer |-> Cables, id |-> <<1, 2, 3>>, newid |-> <<1, 2, 3>>, ports |-> <<2, 2, 2>>,
         cost |-> [p \in DOMAIN Cables |-> 1], fwd |-> 4, age |-> 6, configs |-> {},
         events |-> {}, max |-> 1]
Two == [Ring EXCEPT !.peer = Double, !.id = <<1, 2>>, !.newid = <<1, 0>>, !.ports = <<2, 2>>,
                    !.cost = [p \in DOMAIN Double |-> 1], !.max = 2]

Guard(bpdu, root) == [edge |-> FALSE, bpdu |-> bpdu, root |-> root]

MCScenarios ==
    {[Ring EXCEPT !.events = {"link"}],
     [Two EXCEPT !.events = {"link", "loss"}],
     [Two EXCEPT !.events = {"oneway", "priority"}],
     [Two EXCEPT !.events = {"join"}],
     [Two EXCEPT !.events = {"config"}, !.max = 1,
                 !.configs = {Guard(TRUE, FALSE), Guard(FALSE, TRUE)}]}

(* The root's priority gets worse: an agreement to what it said before, still under
   way, opens a port of the new tree (rstp.c:691 compares the root alone). *)
Worsened == {[Two EXCEPT !.events = {"priority"}, !.newid = <<3, 2>>]}

(* One BPDU is lost. *)
Lossy == {[Ring EXCEPT !.events = {"loss"}]}
=============================================================================
