------------------------------ MODULE SwitchApi ------------------------------
(***************************************************************************)
(* The switch contract, internal/switchapi: what every datapath refuses,   *)
(* whatever chip is under it, and what a capability promises.  A value of  *)
(* zero in a configuration is a default left out.                          *)
(***************************************************************************)
EXTENDS Integers

NoPort == ""           \* no port named

ValidVID(v) == v \in 1 .. 4094

SupportsECMP(caps, paths) ==
    \/ paths <= 1
    \/ caps.ECMP /\ (caps.MaxECMP = 0 \/ paths <= caps.MaxECMP)

OrDefault(v, default) == IF v = 0 THEN default ELSE v
-----------------------------------------------------------------------------
(* Spanning tree *)

STPDefaultPriority == 32768

ValidSTPPriority(p) == p \in 0 .. 61440 /\ p % 4096 = 0
ValidSTPCost(c) == c \in 0 .. 200000000
ValidSTPPortPriority(p) == p = 0 \/ (p \in 16 .. 240 /\ p % 16 = 0)

STPDefaultCost(mbps) ==
    IF mbps <= 0 THEN 200000000
    ELSE LET c == 20000000 \div mbps IN IF c < 1 THEN 1 ELSE c

STPTimes(c) ==
    [HelloTime    |-> OrDefault(c.HelloTime, 2),
     ForwardDelay |-> OrDefault(c.ForwardDelay, 15),
     MaxAge       |-> OrDefault(c.MaxAge, 20)]

(* 802.1D-2004 17.14, on the times with their defaults filled in. *)
ValidSTPTimes(c) ==
    LET t == STPTimes(c)
    IN  /\ t.HelloTime \in 1 .. 10
        /\ t.ForwardDelay \in 4 .. 30
        /\ t.MaxAge \in 6 .. 40
        /\ 2 * (t.HelloTime + 1) <= t.MaxAge
        /\ t.MaxAge <= 2 * (t.ForwardDelay - 1)
-----------------------------------------------------------------------------
(* LACP and MLAG *)

LACPDefaultPriority == 32768
MLAGMaxID == 1000

ValidLACPPriority(p) == p \in 0 .. 65535
ValidLAGOptions(o) == o.Rate \in {"", "fast", "slow"} /\ ValidLACPPriority(o.PortPriority)

(* A peer address is an address or is left out; "bogus" stands for the rest. *)
ValidMLAG(c) ==
    /\ c.PeerLink # NoPort
    /\ c.PeerAddress # "bogus"
    /\ c.Priority \in 0 .. 65535

MLAGTimes(c) ==
    [HelloMs       |-> OrDefault(c.HelloMs, 1000),
     DeadMs        |-> OrDefault(c.DeadMs, 3500),
     SettleMs      |-> OrDefault(c.SettleMs, 2500),
     HeartbeatPort |-> OrDefault(c.HeartbeatPort, 47101)]

(* One hello lost must not lose the peer. *)
ValidMLAGTimes(c) ==
    LET t == MLAGTimes(c)
    IN  /\ t.HelloMs \in 100 .. 10000
        /\ 2 * t.HelloMs <= t.DeadMs /\ t.DeadMs <= 60000
        /\ t.SettleMs \in 0 .. 60000
        /\ t.HeartbeatPort \in 1 .. 65535
        /\ c.ReloadDelay \in 0 .. 3600
-----------------------------------------------------------------------------
(* Gateways, aging, tags *)

DefaultVirtualMAC == "00:00:5e:00:01:01"
DefaultMACAging == 300
DefaultTPID == 33024                                     \* 0x8100

(* Six octets and unicast; the set names the ones a caller may try. *)
ValidVirtualMAC(mac) == mac \notin {"01:00:5e:00:00:01", "nonsense"}

(* An address is [family, scope, bits]; an IPv6 one must be global or
   unique-local unicast. *)
ValidVirtualGateway(a) ==
    /\ a.family = 6 => a.scope = "global"
    /\ a.bits \in 1 .. (IF a.family = 6 THEN 128 ELSE 32)

ValidMACAging(s) == s = 0 \/ s \in 10 .. 1000000
ValidTPID(t) == t \in {0, 33024, 34984, 37120, 37376}    \* 0x8100 0x88a8 0x9100 0x9200
=============================================================================
