------------------------------- MODULE Config -------------------------------
(***************************************************************************)
(* A switch's own settings: internal/config, and the part of the initramfs *)
(* that brings them back on a board that boots into RAM.  A setting may be *)
(* written, the power may be cut at any step, the box may be rebooted, and *)
(* an upgrade may replace the image and with it the image's defaults.      *)
(*                                                                         *)
(* A file of settings is a partial function from names to values.  A board *)
(* either has a data partition, where a renamed file is on the disk once   *)
(* the filesystem commits, or boots into RAM and keeps its settings in a   *)
(* directory of a partition of the bootloader's.  The partitions are the   *)
(* candidates in the order both sides probe them: "vfat", or "other" when  *)
(* absent or not mountable.  Renaming a file over another is atomic on     *)
(* both filesystems.                                                       *)
(***************************************************************************)
EXTENDS Integers, Sequences, FiniteSetsExt, Functions

CONSTANTS ConfBoards, Keys, Texts, MaxSets, MaxCuts

NoConf == <<>>
Removed == "removed"

VARIABLES cbd,      (* the board: ram, parts, and the partitions' files    *)
          shippedConf, (* the image's files, in name order                 *)
          site,     (* local.conf in /mnt/data/config as it is seen        *)
          onDisk,   (* local.conf as a power cut would leave it            *)
          flash,    (* per partition: is the directory there, local.conf   *)
          pc, job, kept,   (* the running `config set`                     *)
          told,     (* what the operator last knew each setting to be      *)
          maybe,    (* what each setting may legitimately come back as     *)
          sets, cuts

(* A file of settings: no setting has the value that stands for none. *)
IsConf(f) == f = [n \in DOMAIN f |-> f[n]] /\ \A n \in DOMAIN f : f[n] # Removed

(* Only `config set` makes the directory, on the partition it mounts.      *)
ASSUME ConfAssumption ==
    /\ Removed \notin Texts
    /\ \A b \in ConfBoards :
        /\ b.ram \in BOOLEAN /\ IsConf(b.conf)
        /\ b.parts \in Seq({"vfat", "other"})
        /\ b.flash = [i \in DOMAIN b.parts |-> [dir |-> b.flash[i].dir, conf |-> b.flash[i].conf]]
        /\ \A i \in DOMAIN b.parts :
            /\ b.flash[i].dir \in BOOLEAN /\ IsConf(b.flash[i].conf)
            /\ IF b.flash[i].dir
               THEN b.parts[i] = "vfat" /\ \A j \in 1..(i - 1) : b.parts[j] # "vfat"
               ELSE b.flash[i].conf = NoConf

confVars == <<cbd, shippedConf, site, onDisk, flash, pc, job, kept, told, maybe, sets, cuts>>

(* The definitions of a directory's files in name order, the last winning. *)
loadDir(c, files) ==
    LET Over(f, g) == [n \in DOMAIN f \cup DOMAIN g |-> IF n \in DOMAIN g THEN g[n] ELSE f[n]]
        upto[i \in 0..Len(files)] == IF i = 0 THEN c ELSE Over(upto[i - 1], files[i])
    IN  upto[Len(files)]

LoadFrom(image, own) == loadDir(loadDir(<<>>, image), own)

Get(c, n) == IF n \in DOMAIN c THEN c[n] ELSE Removed

(* The line replaced or removed, every other line kept.                    *)
Rewritten(f, n, v) ==
    [m \in (DOMAIN f \ {n}) \cup (IF v = Removed THEN {} ELSE {n}) |-> IF m = n THEN v ELSE f[m]]

(* The partition `config set` mounts: the first that mounts at all.        *)
mountFlashConfig ==
    {i \in DOMAIN cbd.parts : /\ cbd.parts[i] = "vfat"
                              /\ \A j \in 1..(i - 1) : cbd.parts[j] # "vfat"}

(* The partition the initramfs copies from: the first with the directory.  *)
FlashConfig ==
    {i \in DOMAIN cbd.parts : /\ cbd.parts[i] = "vfat" /\ flash[i].dir
                              /\ \A j \in 1..(i - 1) : ~(cbd.parts[j] = "vfat" /\ flash[j].dir)}

Effective(own) == LoadFrom(shippedConf, <<own>>)

BeginSet(n, v) ==
    /\ pc = "idle" /\ sets < MaxSets
    /\ sets' = sets + 1
    /\ IF cbd.ram /\ mountFlashConfig = {}
       THEN UNCHANGED <<pc, job, kept, flash, maybe>>
       ELSE /\ pc' = "read" /\ job' = [name |-> n, value |-> v] /\ UNCHANGED kept
            /\ flash' = [i \in DOMAIN flash |->
                            [flash[i] EXCEPT !.dir = @ \/ (cbd.ram /\ i \in mountFlashConfig)]]
            /\ maybe' = [maybe EXCEPT ![n] = @ \cup {v}]
    /\ UNCHANGED <<cbd, shippedConf, site, onDisk, told, cuts>>

SetInRead ==
    /\ pc = "read"
    /\ kept' = IF cbd.ram THEN flash[Min(mountFlashConfig)].conf ELSE site
    /\ pc' = "write"
    /\ UNCHANGED <<cbd, shippedConf, site, onDisk, flash, job, told, maybe, sets, cuts>>

(* The mutant of SetInWrite opens the file itself instead of a temporary   *)
(* beside it.                                                              *)
SetInWriteInPlace ==
    /\ pc = "write"
    /\ pc' = "rename"
    /\ IF cbd.ram THEN /\ flash' = [flash EXCEPT ![Min(mountFlashConfig)].conf = NoConf]
                       /\ UNCHANGED <<site, onDisk>>
       ELSE site' = NoConf /\ onDisk' = NoConf /\ UNCHANGED flash
    /\ UNCHANGED <<cbd, shippedConf, job, kept, told, maybe, sets, cuts>>

(* The temporary is written and synced; nothing reads it.                  *)
SetInWrite ==
    /\ pc = "write"
    /\ pc' = "rename"
    /\ UNCHANGED <<cbd, shippedConf, site, onDisk, flash, job, kept, told, maybe, sets, cuts>>

SetInRename ==
    /\ pc = "rename"
    /\ LET f == Rewritten(kept, job.name, job.value)
       IN  IF cbd.ram
           THEN /\ flash' = [flash EXCEPT ![Min(mountFlashConfig)].conf = f]
                /\ pc' = "mirror" /\ UNCHANGED <<site, told>>
           ELSE /\ site' = f /\ pc' = "idle" /\ UNCHANGED flash
                /\ told' = [told EXCEPT ![job.name] = job.value]
    /\ UNCHANGED <<cbd, shippedConf, onDisk, job, kept, maybe, sets, cuts>>

(* The copy in RAM, then sync and unmount.                                 *)
Mirror ==
    /\ pc = "mirror"
    /\ site' = Rewritten(site, job.name, job.value)
    /\ pc' = "idle"
    /\ told' = [told EXCEPT ![job.name] = job.value]
    /\ maybe' = [maybe EXCEPT ![job.name] = {job.value}]
    /\ UNCHANGED <<cbd, shippedConf, onDisk, flash, job, kept, sets, cuts>>

(* The filesystem writes a rename back in its own time.                    *)
Commits ==
    /\ ~cbd.ram /\ onDisk # site
    /\ onDisk' = site
    /\ maybe' = [n \in Keys |-> {Get(site, n)} \cup
                     (IF pc # "idle" /\ n = job.name THEN {job.value} ELSE {})]
    /\ UNCHANGED <<cbd, shippedConf, site, flash, pc, job, kept, told, sets, cuts>>

(* What a boot finds, and the operator with it.                            *)
BootsWith(own) ==
    /\ site' = own /\ pc' = "idle"
    /\ told' = [n \in Keys |-> Get(own, n)]
    /\ UNCHANGED <<cbd, flash, job, kept, maybe, sets>>

bootConfig ==
    IF cbd.ram THEN IF FlashConfig = {} THEN NoConf ELSE flash[Min(FlashConfig)].conf
    ELSE onDisk

ConfPowerCut ==
    /\ cuts < MaxCuts /\ cuts' = cuts + 1
    /\ BootsWith(bootConfig)
    /\ UNCHANGED <<shippedConf, onDisk>>

(* An upgrade or a rollback: an orderly reboot into another image.         *)
Upgrade(files) ==
    /\ pc = "idle" /\ cuts < MaxCuts /\ cuts' = cuts + 1
    /\ files # shippedConf /\ shippedConf' = files
    /\ onDisk' = site
    /\ BootsWith(IF cbd.ram THEN bootConfig ELSE site)

ConfStops == pc = "idle" /\ UNCHANGED confVars

Start(b) == IF b.ram THEN LET d == {i \in DOMAIN b.parts : b.flash[i].dir}
                          IN  IF d = {} THEN NoConf ELSE b.flash[Min(d)].conf
            ELSE b.conf

ConfInit ==
    /\ cbd \in ConfBoards
    /\ shippedConf \in cbd.images
    /\ site = Start(cbd) /\ onDisk = Start(cbd) /\ flash = cbd.flash
    /\ pc = "idle" /\ job = [name |-> "", value |-> ""] /\ kept = NoConf
    /\ told = [n \in Keys |-> Get(Start(cbd), n)]
    /\ maybe = [n \in Keys |-> {Get(Start(cbd), n)}]
    /\ sets = 0 /\ cuts = 0

ConfNext ==
    \/ \E n \in Keys, v \in Texts \cup {Removed} : BeginSet(n, v)
    \/ SetInRead \/ SetInWrite \/ SetInRename \/ Mirror \/ Commits \/ ConfPowerCut
    \/ \E files \in cbd.images : Upgrade(files)
    \/ ConfStops

ConfSpec == ConfInit /\ [][ConfNext]_confVars
-----------------------------------------------------------------------------
(* A setting comes back as it was last acknowledged, or, when the power    *)
(* failed before the write was safe, as one of the values around that      *)
(* moment: never lost, never half written, untouched by a change to        *)
(* another setting, and in force over the image's default across upgrades  *)
(* and rollbacks (config.go, Set and LoadFrom; initramfs.go, RAM boot).    *)
SettingKept ==
    /\ \A n \in Keys : told[n] \in maybe[n]
    /\ pc = "idle" => \A n \in Keys :
           Get(Effective(site), n) = IF told[n] # Removed THEN told[n]
                                     ELSE Get(Effective(NoConf), n)
=============================================================================
