-------------------------------- MODULE Boot --------------------------------
(***************************************************************************)
(* From init to forwarding on a board whose profile is s6: the compiled    *)
(* service database is brought up, the switch chip is released from the    *)
(* board controller's reset by a oneshot, and nosd, the network            *)
(* configuration and its reconciler run on top.  Oneshots fail, nosd       *)
(* crashes, an operator releases the chip or brings the bundle up again    *)
(* from the rescue shell, and the switch is shut down and boots warm.      *)
(***************************************************************************)
EXTENDS Services

CONSTANTS Scenarios,     \* [board, fault]: what is broken when the switch powers on
          MaxCrashes,    \* how often nosd dies
          MaxRetries,    \* how often the operator brings the bundle up again
          MaxBoots       \* boots, the warm ones included

Procs == {"service", "operator"}
SwitchResets == {"core", "pcie"}
Faults == {"none", "dead", "absent", "slow", "cage", "part", "repeater", "init"}

(* What the boards of platform/ keep to: the scd boards are built with the Go command
   line, which is not there for PowerPC alone; a board with optics has what turns them
   on, a cage table where a driver is asked to and a script where none is; and a package
   names nosd only in an image with the datapath. *)
ASSUME BoardsAssumption ==
    \A sc \in Scenarios :
        LET b == sc.board IN
        /\ sc.fault \in Faults
        /\ b.hal = "scd" => b.goCLI
        /\ b.resets \cap SwitchResets = {}
        /\ b.cages \/ b.panel => IF Drives(b) THEN b.cages ELSE b.panel
        /\ ~b.datapath => \A s \in b.pkg :
               s.name # "nosd" /\ \A d \in s.after \cup s.wants : bareName(d) # "nosd"

VARIABLES board, fault,
          db,        \* the service database of the image
          compiled,  \* what s6-rc-compile says of it
          phase,     \* of /sbin/init's child
          up, running, failed,   \* s6-rc's services; running are oneshots' scripts
          held,      \* lines of the reset register that are asserted
          bus,       \* the chip: "absent", "present", "decoding"
          rel,       \* a release-asic command of each process
          lit,       \* the transmitters are on
          tuned,     \* the repeater is programmed
          nosd,      \* the daemon's process: "off", "init", "serving"
          conf,      \* nosd's interfaces carry the configuration
          shell,     \* the rescue shell is on the console
          crashes, retries, boots

vars == <<board, fault, db, compiled, phase, up, running, failed, held, bus, rel, lit, tuned, nosd, conf, shell,
          crashes, retries, boots>>
hardware == <<held, bus, lit, tuned>>
image == <<board, db, compiled>>
services == <<up, running, failed>>
counters == <<crashes, retries, boots>>

All == Names(db)
Idle == [pc |-> "idle", before |-> {}]
Lines == SwitchResets \cup board.resets
-----------------------------------------------------------------------------
(* s6-rc (outside this repository) starts a service when everything it depends on
   is up: a longrun is up once it is spawned, a oneshot once its script succeeded. *)
Ready == {w \in db : w.name \notin up \cup running \cup failed /\ w.deps \subseteq up}
Of(type) == {w.name : w \in {v \in Ready : v.type = type}}

PowerOn(b, f) ==
    /\ board = b
    /\ fault = f
    /\ phase = "compile"
    /\ db = Database(b)
    /\ compiled = s6_rc_compile(db)
    /\ up = {} /\ running = {} /\ failed = {}
    /\ held = IF b.hal = "scd" THEN SwitchResets \cup b.resets ELSE {}
    /\ bus = IF b.hal = "scd" THEN "absent" ELSE "decoding"
    /\ rel = [p \in Procs |-> Idle]
    /\ lit = FALSE /\ tuned = FALSE
    /\ nosd = "off" /\ conf = FALSE /\ shell = FALSE
    /\ crashes = 0 /\ retries = 0 /\ boots = 1

Init == \E sc \in Scenarios : PowerOn(sc.board, sc.fault)
-----------------------------------------------------------------------------
(* /sbin/init compiles the database, waits for the scan directory, initialises it
   and brings the bundle up.  A database that does not compile fails s6-rc-init. *)
s6Init ==
    /\ phase = "compile"
    /\ \/ /\ fault # "init"
          /\ compiled
          /\ phase' = "change"
          /\ UNCHANGED shell
       \/ /\ fault = "init" \/ ~compiled
          /\ phase' = "failed"
          /\ shell' = TRUE
    /\ UNCHANGED <<image, fault, services, hardware, rel, nosd, conf, counters>>

Starts ==
    /\ phase = "change" /\ Ready # {}
    /\ up' = up \cup Of("longrun")
    /\ running' = running \cup Of("oneshot")
    /\ nosd' = IF "nosd" \in up' /\ nosd = "off" THEN "init" ELSE nosd
    /\ UNCHANGED <<image, fault, phase, failed, hardware, rel, conf, shell, counters>>

(* `s6-rc -u change default` returns when nothing is left to start or wait for, and
   is zero when everything is up; the rescue shell follows a failure. *)
ChangeEnds ==
    /\ phase = "change" /\ Ready = {} /\ running = {}
    /\ phase' = IF up = All THEN "done" ELSE "failed"
    /\ shell' = (shell \/ phase' = "failed")
    /\ UNCHANGED <<image, fault, services, hardware, rel, nosd, conf, counters>>

(* Oneshots' scripts end: whether they exited zero. *)
Ends(ns, ok) ==
    /\ phase = "change" /\ Ready = {}
    /\ ns # {} /\ ns \subseteq running
    /\ running' = running \ ns
    /\ up' = IF ok THEN up \cup ns ELSE up
    /\ failed' = IF ok THEN failed ELSE failed \cup ns
    /\ UNCHANGED <<image, fault, phase, nosd, shell, counters>>

(* switch-mac, bind-asic-irq, trial-confirm, boot-rearm and the stubs exit zero
   whatever they find, and touch nothing another service waits for. *)
Plain == {"true", "switch-mac", "bind-asic-irq", "trial-confirm", "boot-rearm"}

PlainEnds ==
    /\ Ends({n \in running : Unit(db, n).prog \in Plain}, TRUE)
    /\ UNCHANGED <<hardware, rel, conf>>

(* i2c-devices exits one when a part does not answer. *)
i2cDevicesScript ==
    /\ Ends({"i2c-devices"}, fault # "part")
    /\ UNCHANGED <<hardware, rel, conf>>

ProgramRetimerStrict ==     \* mutant: the script's exit status is the command's
    LET answers == fault # "repeater" /\ held \cap board.resets = {} IN
    /\ Ends({"retimer"}, board.repeater => answers)
    /\ tuned' = (tuned \/ (board.repeater /\ answers))
    /\ UNCHANGED <<held, bus, lit, rel, conf>>

(* retimer-init.sh programs the repeater, which answers once its reset line is
   released, and exits zero either way. *)
ProgramRetimer ==
    /\ Ends({"retimer"}, TRUE)
    /\ tuned' = (tuned \/ (board.repeater /\ fault # "repeater" /\ held \cap board.resets = {}))
    /\ UNCHANGED <<held, bus, lit, rel, conf>>

(* `platform tx all on` tries every cage and fails when one would not change; a
   board without a driver runs the script it ships. *)
setCageTX ==
    /\ Ends({"transceivers"}, fault # "cage")
    /\ lit' = (lit \/ fault # "cage")
    /\ UNCHANGED <<held, bus, tuned, rel, conf>>

(* apply-network.sh ends when the ports it names are configured, or when it has
   waited long enough for them, and exits zero. *)
applyNetwork ==
    /\ Ends({"network-config"}, TRUE)
    /\ conf' = (nosd = "serving")
    /\ UNCHANGED <<hardware, rel>>
-----------------------------------------------------------------------------
(* `platform release-asic`: openFor, then the driver's ReleaseSwitchChip.  The
   process is at pc; what it read of the reset register first is before. *)
Opens == board.hal # "as4610-cpld"      \* openFor passes that driver no i2c map
Needs == board.hal = "scd"              \* the others answer ErrUnsupported or nothing

At(p, pc) == rel[p].pc = pc
Goto(p, pc) == rel' = [rel EXCEPT ![p].pc = pc]
Lands == fault # "dead"                 \* the writes reach the register
Stay == UNCHANGED <<image, fault, phase, services, lit, tuned, nosd, conf, shell, counters>>

Begins(p) ==
    /\ At(p, "idle")
    /\ \/ p = "service" /\ "asic-release" \in running
       \/ p = "operator" /\ Needs /\ retries < MaxRetries /\ phase \in {"change", "failed"}

openFor(p) ==
    /\ Begins(p)
    /\ Goto(p, IF ~Opens THEN "error" ELSE IF Needs THEN "open" ELSE "ok")
    /\ UNCHANGED <<image, fault, phase, services, hardware, nosd, conf, shell, crashes, boots>>
    /\ retries' = retries + (IF p = "operator" THEN 1 ELSE 0)

releaseBoardResetsAgain(p) ==    \* mutant: no early return for a released chip
    /\ At(p, "open")
    /\ rel' = [rel EXCEPT ![p] = [before |-> held, pc |-> "core"]]
    /\ held' = IF Lands THEN held \ board.resets ELSE held
    /\ UNCHANGED bus /\ Stay

(* The board's other lines go first; a chip already released is only enabled. *)
releaseBoardResets(p) ==
    /\ At(p, "open")
    /\ rel' = [rel EXCEPT ![p] = [before |-> held,
                                  pc |-> IF held \cap SwitchResets = {} THEN "stat" ELSE "core"]]
    /\ held' = IF Lands THEN held \ board.resets ELSE held
    /\ UNCHANGED bus /\ Stay

ClearCore(p) ==
    /\ At(p, "core")
    /\ Goto(p, "settle")
    /\ held' = IF Lands THEN held \ {"core"} ELSE held
    /\ UNCHANGED bus /\ Stay

ClearPCIe(p) ==
    /\ At(p, "settle")
    /\ held' = IF Lands THEN held \ {"pcie"} ELSE held
    /\ Goto(p, IF held' = rel[p].before THEN "mapping" ELSE "stat")
    /\ UNCHANGED bus /\ Stay

(* One rescan, when the node is not there; a slow chip may not answer it. *)
Answers == IF held \cap SwitchResets # {} \/ fault = "absent" THEN {FALSE}
           ELSE IF fault = "slow" THEN BOOLEAN ELSE {TRUE}

Rescan(p) ==
    /\ At(p, "stat")
    /\ Goto(p, "wait")
    /\ \E there \in Answers :
           bus' = IF bus = "absent" /\ there THEN "present" ELSE bus
    /\ UNCHANGED held /\ Stay

(* The node is there and the chip has had its time: memory decoding is enabled. *)
enableMemorySpace(p) ==
    /\ At(p, "wait") /\ bus # "absent"
    /\ bus' = "decoding"
    /\ Goto(p, "ok")
    /\ UNCHANGED held /\ Stay

(* The command gives up after thirty seconds, in the wait for the chip or in the
   two seconds after one that another process made appear. *)
CtxDone(p) ==
    /\ At(p, "wait")
    /\ bus = "absent" \/ fault = "slow"
    /\ Goto(p, "error")
    /\ UNCHANGED <<held, bus>> /\ Stay

releaseASIC ==
    /\ rel["service"].pc \in {"ok", "error", "mapping"}
    /\ Ends({"asic-release"}, At("service", "ok"))
    /\ rel' = [rel EXCEPT !["service"] = Idle]
    /\ UNCHANGED <<hardware, conf>>

OperatorReads ==
    /\ rel["operator"].pc \in {"ok", "error", "mapping"}
    /\ rel' = [rel EXCEPT !["operator"] = Idle]
    /\ UNCHANGED <<held, bus>> /\ Stay

ReleaseSwitchChip(p) ==
    \/ openFor(p) \/ releaseBoardResets(p) \/ ClearCore(p) \/ ClearPCIe(p) \/ Rescan(p)
    \/ enableMemorySpace(p) \/ CtxDone(p)
-----------------------------------------------------------------------------
(* The supervised daemon: it serves once it has attached to the chip, and is
   started again when it dies; its interfaces die with it. *)
Serves ==
    /\ nosd = "init" /\ bus = "decoding"
    /\ nosd' = "serving"
    /\ UNCHANGED <<image, fault, phase, services, hardware, rel, conf, shell, counters>>

Crashes ==
    /\ nosd # "off" /\ crashes < MaxCrashes
    /\ nosd' = "init" /\ conf' = FALSE
    /\ crashes' = crashes + 1
    /\ UNCHANGED <<image, fault, phase, services, hardware, rel, shell, retries, boots>>

(* A pass of the reconciler. *)
Reconciles ==
    /\ "network-reconcile" \in up /\ nosd = "serving" /\ ~conf
    /\ conf' = TRUE
    /\ UNCHANGED <<image, fault, phase, services, hardware, rel, nosd, shell, counters>>
-----------------------------------------------------------------------------
(* The operator repairs what was broken, and brings the bundle up again. *)
Repairs ==
    /\ phase = "failed" /\ fault \notin {"none", "init"}
    /\ \A p \in Procs : rel[p] = Idle
    /\ fault' = "none"
    /\ UNCHANGED <<image, phase, services, hardware, rel, nosd, conf, shell, counters>>

BringsUp ==
    /\ phase = "failed" /\ fault # "init" /\ retries < MaxRetries
    /\ rel["service"] = Idle
    /\ phase' = "change"
    /\ retries' = retries + 1
    /\ failed' = {}
    /\ UNCHANGED <<image, fault, up, running, hardware, rel, nosd, conf, shell, crashes, boots>>

(* shutdown.sh: every service is stopped, or fifteen seconds pass, and the kernel
   reboots.  The board controller may or may not assert its lines again; the kernel
   finds the chip by itself when it is released. *)
Shuts ==
    /\ phase \in {"done", "failed"}
    /\ boots < MaxBoots
    /\ phase' = "stopping"
    /\ \/ up' = {} /\ nosd' = "off" /\ conf' = FALSE
       \/ UNCHANGED <<up, nosd, conf>>
    /\ UNCHANGED <<image, fault, running, failed, hardware, rel, shell, counters>>

Reboots ==
    /\ phase = "stopping"
    /\ phase' = "compile"
    /\ boots' = boots + 1
    /\ up' = {} /\ running' = {} /\ failed' = {}
    /\ nosd' = "off" /\ conf' = FALSE /\ shell' = FALSE
    /\ rel' = [p \in Procs |-> Idle]
    /\ held' \in {held, IF Needs THEN Lines ELSE {}}
    /\ bus' = IF ~Needs THEN bus
              ELSE IF held' \cap SwitchResets = {} /\ fault # "absent" THEN "present" ELSE "absent"
    /\ lit' \in {FALSE, lit} /\ tuned' \in {FALSE, tuned}
    /\ UNCHANGED <<image, fault, crashes, retries>>

(* A switch that is up, or has failed and is left alone. *)
Rests ==
    /\ phase \in {"done", "failed"}
    /\ UNCHANGED vars

Scripts ==
    \/ PlainEnds \/ i2cDevicesScript \/ ProgramRetimer \/ setCageTX \/ applyNetwork \/ releaseASIC

Next ==
    \/ s6Init \/ Starts \/ ChangeEnds \/ Scripts
    \/ \E p \in Procs : ReleaseSwitchChip(p)
    \/ OperatorReads \/ Serves \/ Crashes \/ Reconciles
    \/ Repairs \/ BringsUp \/ Shuts \/ Reboots \/ Rests

(* init's child, the scripts it waits for, the supervisor and the reconciler go on
   while any of them has something to do; nothing is assumed of the operator or of
   crashes. *)
System ==
    \/ s6Init \/ Starts \/ ChangeEnds \/ Scripts \/ ReleaseSwitchChip("service")
    \/ Serves \/ Reconciles \/ Reboots

Fairness == WF_vars(System)

Spec == Init /\ [][Next]_vars /\ Fairness
-----------------------------------------------------------------------------
(* The declarations of the board can be built, the database they make compiles, and
   the one name it had to invent is the network's: what nosd is ordered after is a
   service that does the work.  systemd's units name the same services as s6's. *)
Compiles ==
    phase = "compile" =>
        /\ Buildable(board)
        /\ compiled
        /\ \A u \in db : u.prog = "true" => u.name = "network"
        /\ \A s \in board.pkg \cup stamp(board) :
               {n[1] : n \in GenerateSystemd(s).after \cup GenerateSystemd(s).wants}
                   = GenerateS6(s).deps

(* nosd is not started, at boot or on a second attempt or after a warm reboot,
   before every reset line is released, the chip decodes memory and the
   transmitters are on. *)
ForwardsReady ==
    nosd # "off" =>
        /\ held = {} /\ bus = "decoding"
        /\ (board.cages \/ board.panel) => lit

(* "The writes are not reaching the device" is said only when they are not: not of a
   chip an earlier attempt released in part, nor of one that another release-asic, or
   the boot before, released. *)
BlamesRightly ==
    \A p \in Procs : At(p, "mapping") => fault = "dead"

(* A console that answers: a login prompt or the rescue shell, whatever failed. *)
Console == shell \/ "getty-console" \in up

(* A board's faults that must not cost it its forwarding. *)
Tolerated == {"none", "repeater"}

(* Whatever fails the console answers in the end, and a change started when nothing
   but the repeater is broken ends with the configuration on nosd's ports, crashes of
   nosd notwithstanding. *)
BootsThrough ==
    /\ []<>(Console \/ phase = "stopping")
    /\ (phase = "change" /\ fault \in Tolerated /\ "nosd" \in All /\ Opens)
           ~> (conf \/ phase = "stopping")
=============================================================================
