------------------------------- MODULE Health -------------------------------
(***************************************************************************)
(* The question a trial boot asks of its own datapath, as the Go CLI       *)
(* (internal/health) and the C CLI (cli/upgrade.c) each answer it.         *)
(*                                                                         *)
(* A report is what one round of queries to nosd returns.  `up` says       *)
(* whether the socket was reached and "ports" was answered; `ports` holds  *)
(* the answer to "port.status" for each port it named, in order.  An       *)
(* answer with ok = FALSE is a query that failed.                          *)
(***************************************************************************)
EXTENDS Naturals, Sequences, FiniteSets

Answers == [ok : BOOLEAN, admin : BOOLEAN, oper : BOOLEAN]
IsReport(r) == r.up \in BOOLEAN /\ r.ports \in Seq(Answers)

AdminUp(r) == Cardinality({p \in DOMAIN r.ports : r.ports[p].ok /\ r.ports[p].admin})
OperUp(r)  == Cardinality({p \in DOMAIN r.ports : r.ports[p].ok /\ r.ports[p].oper})

(* Configured up somewhere, and up nowhere: the image is not forwarding. *)
NotForwarding(r) == AdminUp(r) > 0 /\ OperUp(r) = 0

(* health.Check: one port that cannot be reported on fails the image. *)
Check(r) ==
    /\ r.up
    /\ Len(r.ports) # 0
    /\ \A p \in DOMAIN r.ports : r.ports[p].ok
    /\ ~NotForwarding(r)

(* healthy(): a port whose status cannot be had is skipped. *)
healthy(r) ==
    /\ r.up
    /\ Len(r.ports) # 0
    /\ ~NotForwarding(r)
=============================================================================
