------------------------------- MODULE MCBoot -------------------------------
(***************************************************************************)
(* Small instances of a board around its switch chip: how it boots (Boot), *)
(* how it is cooled (Cooling) and the board controller's SMBus accelerator *)
(* (Smbus).  They share no state: the scene, chosen at the start, says     *)
(* which one runs, and the others rest.                                    *)
(***************************************************************************)
EXTENDS Boot, Cooling, Smbus

VARIABLE scene
allVars == <<scene, vars, coolVars, smbVars>>
-----------------------------------------------------------------------------
(* Boards.                                                                 *)
Base == [goCLI |-> TRUE, cCLI |-> FALSE, hal |-> "none", cages |-> FALSE, asicpci |-> FALSE,
         i2c |-> FALSE, panel |-> FALSE, rearm |-> FALSE, datapath |-> TRUE, wait |-> 0,
         resets |-> {}, repeater |-> FALSE,
         pkg |-> {Svc("dropbear", Exec("dropbear"), {"network"}, "always")}]
SX2 == [Base EXCEPT !.hal = "scd", !.cages = TRUE, !.asicpci = TRUE]
TX64 == [SX2 EXCEPT !.resets = {"retimer"}, !.repeater = TRUE]
N3172TQ == [Base EXCEPT !.hal = "n3172tq", !.i2c = TRUE, !.rearm = TRUE]
AS4610 == [Base EXCEPT !.hal = "as4610-cpld", !.wait = 60,
                       !.pkg = @ \cup {Svc("nosd", Exec("nosd-helix4"), {"network"}, "always")}]
AS5610 == [Base EXCEPT !.goCLI = FALSE, !.cCLI = TRUE, !.hal = "as5610-cpld", !.panel = TRUE,
                       !.wait = 60]

MCScenarios ==
    {[board |-> s[1], fault |-> s[2]] :
        s \in ({TX64} \X {"none", "dead", "absent", "slow", "repeater"})
              \cup ({SX2} \X {"cage", "init"}) \cup ({N3172TQ} \X {"none", "part"})
              \cup ({AS5610} \X {"none", "cage"}) \cup ({AS4610, Base} \X {"none"})}

SX2C == [driver |-> "scd", count |-> 2, max |-> 255, floor |-> 30,
         lamps |-> "green, red", minC |-> 0, maxC |-> 0, slew |-> 25]
AS4610C == [SX2C EXCEPT !.driver = "as4610-cpld", !.count = 1, !.max = 8, !.floor = 50,
                           !.lamps = "none", !.minC = 40, !.maxC = 60]
N3172C == [SX2C EXCEPT !.driver = "n3172tq", !.floor = 25, !.lamps = "none"]

MCCoolBoards == {SX2C, AS4610C, N3172C}
-----------------------------------------------------------------------------
(* A part that the scene is not about.                                     *)
BootRests ==
    /\ board = {} /\ fault = "none" /\ db = {} /\ compiled = TRUE /\ phase = "off"
    /\ up = {} /\ running = {} /\ failed = {} /\ held = {} /\ bus = "absent"
    /\ rel = [p \in Procs |-> Idle] /\ lit = FALSE /\ tuned = FALSE /\ nosd = "off"
    /\ conf = FALSE /\ shell = TRUE /\ crashes = 0 /\ retries = 0 /\ boots = 0

CoolingRests ==
    /\ cb = [driver |-> "none", count |-> 0, minC |-> 0, maxC |-> 0] /\ temp = [s \in Sensors |-> Unreadable]
    /\ fan = <<>> /\ bound = TRUE /\ reg = <<>> /\ took = {} /\ status = "off"
    /\ run = [p \in Runs |-> [pc |-> "none"]] /\ stale = {} /\ events = 0 /\ signals = 0

SmbusRests ==
    /\ dev = <<>> /\ latched = 0 /\ nak = FALSE /\ csRst = FALSE /\ req = <<>> /\ resp = <<>>
    /\ hung = FALSE /\ user = NoUser /\ transfers = 0 /\ faults = 0

MCInit ==
    \/ scene = "boot" /\ Init /\ CoolingRests /\ SmbusRests
    \/ scene = "cooling" /\ BootRests /\ CoolInit /\ SmbusRests
    \/ scene = "smbus" /\ BootRests /\ CoolingRests /\ SmbInit

MCNext ==
    /\ UNCHANGED scene
    /\ \/ scene = "boot" /\ Next /\ UNCHANGED <<coolVars, smbVars>>
       \/ scene = "cooling" /\ CoolNext /\ UNCHANGED <<vars, smbVars>>
       \/ scene = "smbus" /\ SmbNext /\ UNCHANGED <<vars, coolVars>>

(* The fair actions of Boot and Cooling are disabled where the scene is another. *)
MCSpec == MCInit /\ [][MCNext]_allVars /\ Fairness /\ CoolFairness
=============================================================================
