----------------------------- MODULE MCUpgrade -----------------------------
(***************************************************************************)
(* Upgrade on a small instance: an image that works, one whose datapath    *)
(* never links, one that passes the squashfs magic and does not mount, and *)
(* for a copy cut short one leftover that mounts and one that does not.    *)
(***************************************************************************)
EXTENDS Upgrade

CONSTANTS good, sick, corrupt, damaged, torn

MCImages    == {good, sick, corrupt}
MCPartials  == {damaged, torn}
MCMountable == {good, sick, damaged}

Port(ok, admin, oper) == [ok |-> ok, admin |-> admin, oper |-> oper]
Answered(ports) == [up |-> TRUE, ports |-> ports]
Silent == [up |-> FALSE, ports |-> <<>>]

(* A working datapath with a link up or with nothing configured; one that has
   no link where one is asked for, no port, or no socket. *)
Working == {Answered(<<Port(TRUE, TRUE, TRUE), Port(TRUE, TRUE, FALSE)>>),
            Answered(<<Port(TRUE, FALSE, FALSE)>>)}
Broken  == {Answered(<<Port(TRUE, TRUE, FALSE), Port(TRUE, FALSE, FALSE)>>),
            Answered(<<>>), Silent}

MCReports == [i \in MCMountable |-> IF i = good THEN Working ELSE Broken]
=============================================================================
