------------------------------ MODULE Services ------------------------------
(***************************************************************************)
(* The services of an image: which ones internal/imgbuild declares for a   *)
(* board, and what internal/svcgen makes of a declaration for s6-rc and    *)
(* for systemd.  A board is the record of the facts the gates ask for:     *)
(*                                                                         *)
(*   goCLI, cCLI   the Go and the C command line are in the image          *)
(*   hal           the driver platform_hal names, "none" for none          *)
(*   cages, asicpci, i2c, panel, rearm                                     *)
(*                 board.yml states a cage table, the chip's PCI address,  *)
(*                 i2c parts, front_panel_init, boot_rearm                 *)
(*   datapath      the datapath package is installed                       *)
(*   pkg           what the installed packages declare                     *)
(*   wait          net_wait_secs                                           *)
(***************************************************************************)
EXTENDS Integers, FiniteSets

Svc(name, exec, after, restart) ==
    [name |-> name, exec |-> exec, after |-> after, wants |-> {}, restart |-> restart]

(* An exec line is its program and what Validate asks of the text. *)
Exec(prog) == [prog |-> prog, lines |-> 1, absolute |-> TRUE, quotes |-> "none"]

HasHAL(b)  == b.hal # "none"
Drives(b)  == b.goCLI /\ HasHAL(b)
haveCLI(b) == b.goCLI \/ b.cCLI

networkServices(b) ==
    {Svc("network-config", [Exec("apply-network") EXCEPT !.quotes =
                                IF b.wait > 0 THEN "double" ELSE "none"],
         IF b.datapath THEN {"nosd"} ELSE {}, "never"),
     Svc("network-reconcile", [Exec("reconcile") EXCEPT !.quotes = "double"],
         {"network-config"}, "always")}

trialConfirm(b) == {Svc("trial-confirm", Exec("trial-confirm"), {}, "never")}

thermal(b) ==
    IF haveCLI(b) /\ HasHAL(b)
    THEN {Svc("thermal", Exec("thermal"), {"network"}, "always")} ELSE {}

i2cDevices(b) ==
    IF b.i2c THEN {Svc("i2c-devices", Exec("i2c-devices"), {}, "never")} ELSE {}

asicReleaseCaged(b) ==     \* mutant: gated on the cage table like the front panel
    IF Drives(b) /\ b.datapath /\ b.cages
    THEN {Svc("asic-release", Exec("release-asic"), {}, "never")} ELSE {}

asicRelease(b) ==
    IF Drives(b) /\ b.datapath
    THEN {Svc("asic-release", Exec("release-asic"), {}, "never")} ELSE {}

asicIRQ(b) ==
    IF b.asicpci /\ b.datapath
    THEN {Svc("asic-irq", Exec("bind-asic-irq"),
              IF Drives(b) THEN {"asic-release"} ELSE {}, "never")}
    ELSE {}

frontPanel(b) ==
    IF Drives(b) /\ b.cages
    THEN {Svc("retimer", Exec("retimer"), {}, "never"),
          Svc("transceivers", Exec("tx-all-on"), {}, "never")}
    ELSE {}

frontPanelInit(b) ==
    IF ~Drives(b) /\ b.panel
    THEN {Svc("transceivers", Exec("front-panel-init"), {}, "never")} ELSE {}

bootRearm(b) ==
    IF b.rearm THEN {Svc("boot-rearm", Exec("boot-rearm"), {}, "never")} ELSE {}

switchMAC(b) ==
    Svc("switch-mac", Exec("switch-mac"),
        {"network"} \cup IF b.i2c THEN {"i2c-devices"} ELSE {}, "never")

nosdAfterChip(b) ==        \* mutant: nosd is ordered after the chip alone
    {"network", "switch-mac"}
        \cup (IF Drives(b) THEN {"asic-release"} ELSE {})
        \cup (IF b.asicpci THEN {"asic-irq"} ELSE {})
        \cup (IF b.i2c THEN {"i2c-devices"} ELSE {})

nosdAfter(b) ==
    {"network", "switch-mac"}
        \cup (IF Drives(b) THEN {"asic-release"} ELSE {})
        \cup (IF b.asicpci THEN {"asic-irq"} ELSE {})
        \cup (IF b.i2c THEN {"i2c-devices"} ELSE {})
        \cup (IF Drives(b) /\ b.cages THEN {"retimer", "transceivers"}
              ELSE IF b.panel THEN {"transceivers"} ELSE {})

datapath(b) ==
    IF b.datapath
    THEN {switchMAC(b), Svc("nosd", Exec("nosd"), nosdAfter(b), "always")} ELSE {}

consoleGetty == {Svc("getty-console", Exec("getty"), {"network"}, "")}

(* stamp: everything the image itself asks to start; the packages' own services
   are declared before these. *)
stamp(b) ==
    UNION {networkServices(b), trialConfirm(b), thermal(b), i2cDevices(b),
           asicRelease(b), asicIRQ(b), frontPanel(b), frontPanelInit(b), bootRearm(b),
           datapath(b), consoleGetty}
-----------------------------------------------------------------------------
Validate(s) ==
    /\ s.name # ""
    /\ s.exec.lines = 1
    /\ s.exec.absolute
    /\ s.exec.quotes # "single"
    /\ s.restart \in {"", "on-failure", "always", "never"}

(* A dependency name without the suffix a systemd author would write. *)
bareName(n) ==
    CASE n \in {"network.target", "network.service"} -> "network"
      [] n = "nosd.service" -> "nosd"
      [] OTHER -> n

(* systemd's name for it; a name with a suffix is left alone. *)
unitNames(n) ==
    CASE n \in {"network", "basic", "sysinit", "multi-user"} -> <<n, "target">>
      [] n = "network.target" -> <<"network", "target">>
      [] OTHER -> <<bareName(n), "service">>

(* systemd: a unit is active as soon as its process is started, and After only
   orders the starts. *)
GenerateSystemd(s) ==
    [name |-> s.name, type |-> "simple",
     after |-> {unitNames(d) : d \in s.after}, wants |-> {unitNames(d) : d \in s.wants},
     restart |-> CASE s.restart = "never" -> "no"
                   [] s.restart = "always" -> "always"
                   [] OTHER -> "on-failure"]

(* s6-rc: After and Wants are one notion of dependency, and a service that must
   not restart is a oneshot. *)
GenerateS6(s) ==
    [name |-> s.name, prog |-> s.exec.prog,
     type |-> IF s.restart = "never" THEN "oneshot" ELSE "longrun",
     deps |-> {bareName(d) : d \in s.after \cup s.wants}]

(* writeS6: of two declarations of a name the later one's files stay, and the
   dependency files of both; a name the services refer to and none defines becomes
   an empty oneshot, so that the database compiles. *)
Stub(name) == [name |-> name, prog |-> "true", type |-> "oneshot", deps |-> {}]

writeS6(earlier, later) ==
    LET services == earlier \cup later
        defined == {s.name : s \in services}
        referenced == UNION {{bareName(d) : d \in s.after \cup s.wants} : s \in services}
        last(n) == CHOOSE s \in IF \E t \in later : t.name = n THEN later ELSE earlier :
                        s.name = n
        written(n) == UNION {GenerateS6(s).deps : s \in {t \in services : t.name = n}}
    IN  {[GenerateS6(last(n)) EXCEPT !.deps = written(n)] : n \in defined}
            \cup {Stub(n) : n \in referenced \ defined}

Buildable(b) == \A s \in b.pkg \cup stamp(b) : Validate(s)

Database(b) == writeS6(b.pkg, stamp(b))
-----------------------------------------------------------------------------
(* s6-rc-compile, outside this repository: every dependency has to be a service
   of the database, and none may depend on itself through others. *)
Names(db) == {u.name : u \in db}
Unit(db, n) == CHOOSE u \in db : u.name = n

(* The services that can come up in k rounds. *)
Bootable(db) ==
    LET Rounds[k \in 0 .. Cardinality(db)] ==
            IF k = 0 THEN {}
            ELSE LET before == Rounds[k - 1]
                 IN  {u.name : u \in {w \in db : w.deps \subseteq before}}
    IN  Rounds[Cardinality(db)]

s6_rc_compile(db) ==
    /\ \A u \in db : u.deps \subseteq Names(db)
    /\ Bootable(db) = Names(db)
=============================================================================
