------------------------------ MODULE Cooling -------------------------------
(***************************************************************************)
(* The cooling loop, internal/thermal, on the boards that have one: the    *)
(* supervised service, a `platform thermal --once` an operator runs beside *)
(* it, and the fan controllers, sensors and chassis lamps behind the       *)
(* board's driver.  Sensors become unreadable, fans refuse commands, are   *)
(* pulled or stop, and a loop is asked to stop or is killed.               *)
(*                                                                         *)
(* A board is [driver, count, max, floor, lamps, minC, maxC, slew]; max is *)
(* the register value that means full speed, lamps the colours of its lamp *)
(* map, "none" without one, and the curve's zeros are what it leaves open. *)
(***************************************************************************)
EXTENDS Integers, FiniteSets, FiniteSetsExt

CONSTANTS CoolBoards,    \* the boards with fans
          Degrees,       \* what a sensor may read
          MaxEvents,     \* changes of temperatures and fans
          MaxSignals     \* terminations and kills

Runs == {"loop", "once"}
Sensors == 1 .. 2
Unreadable == -200

VARIABLES cb,        \* the board
          temp,      \* what each sensor would read
          fan,       \* a fan: "ok", "refuses", "pulled", "stopped"
          bound,     \* the fan controller has a driver
          reg,       \* each fan's duty register
          took,      \* the fans that took the last command
          status,    \* the chassis status lamp
          run,       \* each run of the loop: [pc, cur, hot]
          stale,     \* what a killed run left behind: "lamp", "duty"
          events, signals

coolVars == <<cb, temp, fan, bound, reg, took, status, run, stale, events, signals>>
Fans == 1 .. cb.count
-----------------------------------------------------------------------------
(* What the board data is refused without: bays, a full speed that fits the register
   and a floor that is a duty.  The AS4610's eight steps and hwmon's scale are not
   board data. *)
ValidFans(b) ==
    /\ b \in [driver : {"scd", "as4610-cpld", "n3172tq"}, count : Nat \ {0}, max : 1 .. 255,
              floor : 1 .. 100, lamps : STRING, minC : Int, maxC : Int, slew : Int]
    /\ b.driver = "as4610-cpld" => b.max = 8
    /\ b.driver = "n3172tq" => b.max = 255

ASSUME CoolAssumption ==
    /\ \A b \in CoolBoards : ValidFans(b)
    /\ Degrees \subseteq Int /\ Degrees \cap Nat # {}

WithDefaults(b) ==
    LET open == b.minC = 0 /\ b.maxC = 0 IN
    [b EXCEPT !.minC = IF open THEN 35 ELSE @, !.maxC = IF open THEN 65 ELSE @,
              !.slew = IF @ <= 0 THEN 5 ELSE @]

TargetBlind(b, hot) ==     \* mutant: no reading is taken for a cold one
    IF hot <= b.minC THEN b.floor
    ELSE IF hot >= b.maxC THEN 100
    ELSE b.floor + ((hot - b.minC) * (100 - b.floor)) \div (b.maxC - b.minC)

(* Curve.Target: the duty for the hottest reading. *)
Target(b, hot) ==
    IF hot < 0 THEN 100
    ELSE IF hot <= b.minC THEN b.floor
    ELSE IF hot >= b.maxC THEN 100
    ELSE b.floor + ((hot - b.minC) * (100 - b.floor)) \div (b.maxC - b.minC)

(* A driver's Temperatures leave out what cannot be read.  On the n3172tq the second
   sensor is the switch die, which nosd is asked for and which reads zero before it
   has been measured; the first needs its kernel driver. *)
Readable == {s \in Sensors : temp[s] # Unreadable}
scdTemperatures == {temp[s] : s \in Readable}
as4610Temperatures == {temp[s] : s \in Readable}
asicTempMilliC == {temp[s] : s \in {2} \cap {t \in Readable : temp[t] > 0}}
n3172tqTemperatures == {temp[s] : s \in IF bound THEN Readable \ {2} ELSE {}} \cup asicTempMilliC

Temperatures ==
    CASE cb.driver = "scd"         -> scdTemperatures
      [] cb.driver = "as4610-cpld" -> as4610Temperatures
      [] cb.driver = "n3172tq"     -> n3172tqTemperatures
      [] OTHER                     -> {}

(* -1 when nothing can be read, or when all is below zero. *)
Hottest == Max(Temperatures \cup {-1})

(* A duty below the board's floor is clamped. *)
clampPercent(b, pct) == Max({b.floor, Min({pct, 100})})

(* The three drivers' conversions to a register: the SCD's truncates, the AS4610's
   eight steps round to the nearest, and hwmon's rounds up. *)
setOneFanPercent(b, pct) == (clampPercent(b, pct) * b.max) \div 100
fanDutyToReg(pct) == (pct * 8 + 50) \div 100
percentToPWM(pct) == (pct * 255 + 99) \div 100

Duty(b, pct) ==
    CASE b.driver = "scd"         -> setOneFanPercent(b, pct)
      [] b.driver = "as4610-cpld" -> fanDutyToReg(clampPercent(b, pct))
      [] b.driver = "n3172tq"     -> percentToPWM(clampPercent(b, pct))

(* SetFanPercent: the registers afterwards, and whether the driver says so.  The
   SCD tries every fan and reports the first refusal; the AS4610 has one register;
   hwmon's refusals are counted and are an error only when no fan took it. *)
Refusing == {f \in Fans : fan[f] = "refuses"}

Commanded(taking, pct, err) ==
    [reg |-> [f \in Fans |-> IF f \in taking THEN Duty(cb, pct) ELSE reg[f]],
     took |-> taking, err |-> err]

scdSetFans(pct) == Commanded(Fans \ Refusing, pct, Refusing # {})

as4610SetFans(pct) == Commanded(IF Refusing = {} THEN Fans ELSE {}, pct, Refusing # {})

n3172tqSetFans(pct) ==
    IF bound THEN Commanded(Fans \ Refusing, pct, Refusing = Fans)
             ELSE Commanded({}, pct, TRUE)

SetFanPercent(pct) ==
    CASE cb.driver = "scd"         -> scdSetFans(pct)
      [] cb.driver = "as4610-cpld" -> as4610SetFans(pct)
      [] cb.driver = "n3172tq"     -> n3172tqSetFans(pct)

(* What the SCD reports of its bays: a tachometer without pulses reads zero rpm. *)
scdFans == [f \in Fans |-> [Present |-> fan[f] # "pulled", RPM |-> fan[f] \notin {"stopped", "pulled"}]]

(* The status lamp's colour, from the fans and the hottest reading. *)
HealthLamps(hot) ==
    LET fans == IF \E f \in Fans : scdFans[f].Present /\ ~scdFans[f].RPM THEN "red"
                ELSE IF \E f \in Fans : ~scdFans[f].Present THEN "amber" ELSE "green"
    IN  IF hot >= cb.maxC THEN "red"
        ELSE IF hot < 0 /\ fans = "green" THEN "amber" ELSE fans

(* Only the SCD's loop has lamps, on a board that ships their map; a map without an
   amber shows red for it. *)
loadLamps == cb.driver = "scd" /\ cb.lamps # "none"

SetLamp(c) ==
    status' = IF ~loadLamps THEN status
              ELSE IF c = "amber" /\ cb.lamps = "green, red" THEN "red" ELSE c
-----------------------------------------------------------------------------
Off == [pc |-> "off", cur |-> 0, hot |-> 0]

CoolInit ==
    /\ \E b \in CoolBoards : cb = WithDefaults(b)
    /\ temp = [s \in Sensors |-> Min(Degrees \cap Nat)]
    /\ fan = [f \in Fans |-> "ok"]
    /\ bound = (cb.driver # "n3172tq")
    /\ reg = [f \in Fans |-> cb.max] /\ took = {}
    /\ status = "off"
    /\ run = [p \in Runs |-> Off]
    /\ stale = {} /\ events = 0 /\ signals = 0

Env == UNCHANGED <<cb, temp, fan, bound, events, signals>>

(* The supervisor starts the loop whenever it is not running, and an operator runs
   one sweep by hand.  Run commands full speed first; a refusal ends it before
   anything it would have to undo. *)
StartLoop(p) ==
    /\ run[p].pc = "off"
    /\ p = "once" => signals < MaxSignals
    /\ LET r == SetFanPercent(100) IN
       /\ reg' = r.reg /\ took' = r.took
       /\ run' = [run EXCEPT ![p] = IF r.err THEN Off ELSE [pc |-> "sweep", cur |-> 100, hot |-> 0]]
    /\ signals' = signals + (IF p = "once" THEN 1 ELSE 0)
    /\ stale' = stale \ {"duty"}
    /\ UNCHANGED <<cb, temp, fan, bound, status, events>>

SlewedBothWays(cur, want) ==     \* mutant: the slew limits a rise as well
    IF cur - want > cb.slew THEN cur - cb.slew ELSE Min({want, cur + cb.slew})

(* A sweep: up at once, down by no more than the slew, commanded every time.  A
   refusal is only noted. *)
Slewed(cur, want) == IF cur - want > cb.slew THEN cur - cb.slew ELSE want

Sweep(p) ==
    /\ run[p].pc = "sweep"
    /\ \E hot \in {Hottest} :
           \E cur \in {Slewed(run[p].cur, Target(cb, hot))} :
               /\ reg' = SetFanPercent(cur).reg /\ took' = SetFanPercent(cur).took
               /\ run' = [run EXCEPT ![p] = [pc |-> "lamps", cur |-> cur, hot |-> hot]]
    /\ stale' = stale \ {"duty"}
    /\ Env /\ UNCHANGED status

(* The lamps are rendered from the fans as they are now and the reading the sweep
   acted on. *)
Render(p) ==
    /\ run[p].pc = "lamps"
    /\ SetLamp(HealthLamps(run[p].hot))
    /\ stale' = stale \ {"lamp"}
    /\ run' = [run EXCEPT ![p].pc = IF p = "once" THEN "unlamp" ELSE "sleep"]
    /\ Env /\ UNCHANGED <<reg, took>>

Wake(p) ==
    /\ run[p].pc = "sleep"
    /\ run' = [run EXCEPT ![p].pc = "sweep"]
    /\ Env /\ UNCHANGED <<reg, took, status, stale>>

(* SIGTERM ends the sleep; the deferred part marks the panel unmanaged and then
   commands full speed. *)
Terminate(p) ==
    /\ run[p].pc = "sleep" /\ signals < MaxSignals
    /\ run' = [run EXCEPT ![p].pc = "unlamp"]
    /\ signals' = signals + 1
    /\ UNCHANGED <<cb, temp, fan, bound, reg, took, status, stale, events>>

LampsUnmanagedNot(p) ==     \* mutant: the lamp is left as the last sweep set it
    /\ run[p].pc = "unlamp"
    /\ run' = [run EXCEPT ![p].pc = "full"]
    /\ Env /\ UNCHANGED <<reg, took, status, stale>>

LampsUnmanaged(p) ==
    /\ run[p].pc = "unlamp"
    /\ SetLamp("amber")
    /\ run' = [run EXCEPT ![p].pc = "full"]
    /\ Env /\ UNCHANGED <<reg, took, stale>>

RestoreFull(p) ==
    /\ run[p].pc = "full"
    /\ reg' = SetFanPercent(100).reg /\ took' = SetFanPercent(100).took
    /\ run' = [run EXCEPT ![p] = Off]
    /\ stale' = stale \ {"duty"}
    /\ Env /\ UNCHANGED status

Kill(p) ==
    /\ run[p].pc # "off" /\ signals < MaxSignals
    /\ run' = [run EXCEPT ![p] = Off]
    /\ stale' = {"lamp", "duty"}
    /\ signals' = signals + 1
    /\ UNCHANGED <<cb, temp, fan, bound, reg, took, status, events>>
-----------------------------------------------------------------------------
Quiet == UNCHANGED <<cb, reg, took, status, run, stale, signals>>

Warms ==
    /\ events < MaxEvents
    /\ \E s \in Sensors, d \in Degrees \cup {Unreadable} :
           temp[s] # d /\ temp' = [temp EXCEPT ![s] = d]
    /\ events' = events + 1
    /\ Quiet /\ UNCHANGED <<fan, bound>>

FanChanges ==
    /\ events < MaxEvents
    /\ \E f \in Fans, c \in {"ok", "refuses", "pulled", "stopped"} :
           fan[f] # c /\ fan' = [fan EXCEPT ![f] = c]
    /\ events' = events + 1
    /\ Quiet /\ UNCHANGED <<temp, bound>>

(* i2c-devices runs beside the loop, which is not ordered after it. *)
Binds ==
    /\ ~bound
    /\ bound' = TRUE
    /\ Quiet /\ UNCHANGED <<temp, fan, events>>

Works(p) == Sweep(p) \/ Render(p) \/ Wake(p) \/ LampsUnmanaged(p) \/ RestoreFull(p)

CoolNext ==
    \/ \E p \in Runs : StartLoop(p) \/ Works(p) \/ Terminate(p) \/ Kill(p)
    \/ Warms \/ FanChanges \/ Binds

(* The supervisor and the loop, and what runs beside them. *)
CoolFairness ==
    /\ WF_coolVars(StartLoop("loop") \/ Works("loop"))
    /\ WF_coolVars(Binds \/ Works("once"))

CoolSpec == CoolInit /\ [][CoolNext]_coolVars /\ CoolFairness
-----------------------------------------------------------------------------
Takes(f) == fan[f] # "refuses"
Full == Duty(cb, 100)
NoneRuns == \A p \in Runs : run[p].pc = "off"

(* No register is ever below the board's floor.  While the loop sleeps with no other
   run about, a fan that took the last command is at no less than what the loop's last
   reading asks for; and when every run has stopped, none of them killed, it is at
   full speed. *)
Cooled ==
    \A f \in Fans :
        /\ reg[f] >= Duty(cb, cb.floor)
        /\ f \in took /\ "duty" \notin stale =>
               /\ run["loop"].pc = "sleep" /\ run["once"].pc = "off"
                      => reg[f] >= Duty(cb, Target(cb, run["loop"].hot))
               /\ NoneRuns => reg[f] = Full

(* A green status lamp is the reading of a run that is still watching: it is gone
   when the last run has stopped, unless that was killed. *)
LampsHonest ==
    status = "green" => "lamp" \in stale \/ \E p \in Runs : run[p].pc \notin {"off", "full"}

Hot == Hottest >= cb.maxC \/ Hottest < 0
Calm == Hottest \in 0 .. cb.minC /\ \A f \in Fans : Takes(f)

(* Heat that stays, or readings that stay away, end with every fan that takes
   commands at full speed, whatever refuses, stops or is killed on the way; and once
   it stays cool and every fan takes commands, the fans come down to the floor. *)
Responds ==
    /\ <>[]Hot => <>[](\A f \in Fans :
                          (Takes(f) /\ (cb.driver = "as4610-cpld" => Refusing = {})) => reg[f] = Full)
    /\ <>[]Calm => <>[](\A f \in Fans : reg[f] = Duty(cb, cb.floor))
=============================================================================
