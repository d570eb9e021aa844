------------------------------ MODULE Upgrade ------------------------------
(***************************************************************************)
(* Image slots: installing into the slot that is not active, booting it on *)
(* trial, committing it when the datapath works, rolling back when not.    *)
(*                                                                         *)
(* Four programs share the files of the boot directory and nothing else:   *)
(*   - the initramfs (internal/imgbuild/initramfs.go), once per boot;      *)
(*   - `nosaic upgrade install`, run by an operator;                       *)
(*   - `nosaic upgrade confirm`, detached at every boot (trial-confirm);   *)
(*   - `nosaic upgrade commit`, run by an operator.                        *)
(* Layout chooses the implementation that runs on the board:               *)
(*   "file"       slots are files on the bootloader's filesystem and the   *)
(*                CLI is the Go one (internal/upgrade/filebacked.go);      *)
(*   "partition"  slots are partitions and the CLI is the C one            *)
(*                (cli/upgrade.c).                                         *)
(* Env lists what the environment may do, see EnvOptions.                  *)
(***************************************************************************)
EXTENDS Health, StateFile

CONSTANTS
    Images,     \* complete images an operator may install
    Partials,   \* what an interrupted copy into a partition may leave behind
    Mountable,  \* those of both that mount as squashfs
    Factory,    \* the image slot a was built with
    NoImage,    \* the content of a slot never written
    Reports,    \* image -> the reports its datapath may give once waited for
    MAXTRIES,
    Layout,
    Env

Slots == {"a", "b"}
Off   == "off"      \* powered down, or rebooting
Dark  == "dark"     \* the initramfs gave up: fail()

(* What the environment may do:
     cut       the power may go at any moment
     kill      a process may die, or meet an I/O error, between two steps, and
               a reboot may be ordered while one is running
     rescue    a boot may carry nosaic.slot= on its command line
     manual    an operator on the trial slot may run `nosaic upgrade commit`
     selftest  a boot may carry nosaic.selftest (the QEMU harness)
     retrial   an install may start while a trial is pending
     early     an install may start before confirm or commit has finished
     lazy      an install may start before the kernel has written back the
               boot directory since its last change *)
EnvOptions == {"cut", "kill", "rescue", "manual", "selftest",
               "retrial", "early", "lazy"}

ASSUME LayoutAssumption == Layout \in {"file", "partition"}
ASSUME EnvAssumption == Env \subseteq EnvOptions
ASSUME TriesAssumption == MAXTRIES \in Nat \ {0}
ASSUME ImageAssumption ==
    /\ Mountable \subseteq Images \cup Partials
    /\ Factory \in Images \cap Mountable
    /\ Images \cap Partials = {}
    /\ NoImage \notin Images \cup Partials
ASSUME ReportAssumption ==
    \A i \in Mountable : Reports[i] # {} /\ \A r \in Reports[i] : IsReport(r)
ASSUME MarkAssumption ==
    /\ NoFile # Blank
    /\ {NoFile, Blank} \cap Slots = {}
    /\ {NoFile, Blank} \cap (0 .. MAXTRIES) = {}

Committers == {"confirm", "operator"}

VARIABLES
    active, trial, tries,   \* the files of the boot directory
    image,      \* [Slots -> image]
    overlay,    \* [Slots -> the images whose writes are in the slot's upper]
    up,         \* the slot the switch is running from, or Off or Dark
    running,    \* the image it was booted from
    harness,    \* the boot carries nosaic.selftest: nobody is logged in
    inst,       \* the install in progress
    com,        \* the confirm and commit processes
    vetted,     \* ghost: slots whose image booted and passed, or was vouched for
    boots       \* ghost: boots given to the image last installed (capped)

files == <<active, trial, tries>>
slots == <<image, overlay>>
vars == <<files, slots, up, running, harness, inst, com, vetted, boots>>

SlotFile  == Slots \cup {NoFile, Blank}
TriesFile == (0 .. MAXTRIES) \cup {NoFile, Blank}
AnyImage  == Images \cup Partials \cup {NoImage}
BootsBound == MAXTRIES + 1

InstallState ==
    [pc : {"idle", "copy", "torn", "clear", "mark"}, slot : Slots, img : AnyImage,
     todo : SUBSET {"trial", "tries"}, open : {"none", "trial", "tries"}]
CommitState ==
    [pc : {"idle", "start", "check", "commit", "truncate", "fill", "sync", "clear"},
     slot : Slots, todo : SUBSET {"trial", "tries"}]

NoInstall == [pc |-> "idle", slot |-> "a", img |-> NoImage, todo |-> {}, open |-> "none"]
NoCommit  == [pc |-> "idle", slot |-> "a", todo |-> {}]

(* upgrade.Status and active_trial(): an absent or empty active reads as "a". *)
StatusActive == IF active.now \in Slots THEN active.now ELSE "a"
TrialPending == trial.now \in Slots
StatusTries  == IF tries.now \in 0 .. MAXTRIES THEN tries.now ELSE 0

Settled == IsOnDisk(active) /\ IsOnDisk(trial) /\ IsOnDisk(tries)

(* A fresh disk: slot a holds the image, slot b is empty, active says a. *)
Init ==
    /\ active = OnDisk("a")
    /\ trial = OnDisk(NoFile)
    /\ tries = OnDisk(NoFile)
    /\ image = [s \in Slots |-> IF s = "a" THEN Factory ELSE NoImage]
    /\ overlay = [s \in Slots |-> {}]
    /\ up = Off
    /\ running = NoImage
    /\ harness = FALSE
    /\ inst = NoInstall
    /\ com = [c \in Committers |-> NoCommit]
    /\ vetted = {"a"}
    /\ boots = 0
-----------------------------------------------------------------------------
(* Install *)

WriteUnsynced(x, v) == Fill(x, v)       \* mutant: no fsync in either CLI

(* How a state file's content is written: the C CLI flushes the file, the Go
   one leaves it in the page cache and flushes the directory at the end. *)
Write(x, v) == IF Layout = "partition" THEN FillSync(x, v) ELSE Fill(x, v)

(* syncDir: only the Go CLI calls it. *)
SyncDir ==
    IF Layout = "file"
    THEN active' = SyncEntry(active) /\ trial' = SyncEntry(trial) /\ tries' = SyncEntry(tries)
    ELSE UNCHANGED files

InUseNever(s) == FALSE      \* mutant: the loop devices are not consulted

(* writeSlotFile refuses a slot file that is loop-mounted.  The partition
   checks compare the device of "/" with the slot's, and "/" is an overlay, so
   they never refuse. *)
InUse(s) == Layout = "file" /\ s = up

(* Install up to the first byte written: the slot must not be the active one. *)
StartInstall(s, i) ==
    /\ up \in Slots /\ ~harness
    /\ inst.pc = "idle"
    /\ "retrial" \in Env \/ ~TrialPending
    /\ "early" \in Env \/ \A c \in Committers : com[c].pc = "idle"
    /\ "lazy" \in Env \/ Settled
    /\ s # StatusActive
    /\ ~InUse(s)
    /\ inst' = [pc |-> "copy", slot |-> s, img |-> i,
                todo |-> {"trial", "tries"}, open |-> "none"]
    /\ UNCHANGED <<files, slots, up, running, harness, com, vetted, boots>>

Place(i) ==
    /\ image' = [image EXCEPT ![inst.slot] = i]
    /\ vetted' = vetted \ {inst.slot}
    /\ boots' = 0
    /\ UNCHANGED <<files, overlay, up, running, harness, com>>

(* A partition is overwritten in place: part way through it holds neither
   image. *)
BeginCopy(p) ==
    /\ Layout = "partition"
    /\ inst.pc = "copy"
    /\ Place(p)
    /\ inst' = [inst EXCEPT !.pc = "torn"]

(* The copy is complete and flushed.  A slot file is written beside the old
   one and renamed over it, so it goes from one image to the other at once. *)
EndCopy ==
    /\ inst.pc = IF Layout = "file" THEN "copy" ELSE "torn"
    /\ Place(inst.img)
    /\ inst' = [inst EXCEPT !.pc = "clear"]

(* Mutant: the layer is left. *)
ClearOverlaySkipped ==
    /\ inst.pc = "clear"
    /\ inst' = [inst EXCEPT !.pc = "mark"]
    /\ UNCHANGED <<files, slots, up, running, harness, com, vetted, boots>>

(* Mutant: a copy that stops short is taken for a complete one. *)
ClearOverlayShort ==
    /\ inst.pc \in {"torn", "clear"}
    /\ overlay' = [overlay EXCEPT ![inst.slot] = {}]
    /\ inst' = [inst EXCEPT !.pc = "mark"]
    /\ UNCHANGED <<files, image, up, running, harness, com, vetted, boots>>

(* clearSlotOverlay, clear_overlay: the slot's upper layer goes. *)
ClearOverlay ==
    /\ inst.pc = "clear"
    /\ overlay' = [overlay EXCEPT ![inst.slot] = {}]
    /\ inst' = [inst EXCEPT !.pc = "mark"]
    /\ UNCHANGED <<files, image, up, running, harness, com, vetted, boots>>

(* The trial mark is two files.  Go ranges over a map, so in either order; C
   writes trial and then tries. *)
MayMark(f) ==
    /\ inst.pc = "mark"
    /\ inst.open = "none"
    /\ f \in inst.todo
    /\ Layout = "partition" /\ f = "tries" => "trial" \notin inst.todo

MarkTruncate(f) ==
    /\ MayMark(f)
    /\ trial' = IF f = "trial" THEN Truncate(trial) ELSE trial
    /\ tries' = IF f = "tries" THEN Truncate(tries) ELSE tries
    /\ inst' = [inst EXCEPT !.open = f]
    /\ UNCHANGED <<active, slots, up, running, harness, com, vetted, boots>>

MarkFill(f) ==
    /\ inst.pc = "mark"
    /\ inst.open = f
    /\ trial' = IF f = "trial" THEN Write(trial, inst.slot) ELSE trial
    /\ tries' = IF f = "tries" THEN Write(tries, 0) ELSE tries
    /\ inst' = [inst EXCEPT !.open = "none", !.todo = @ \ {f}]
    /\ UNCHANGED <<active, slots, up, running, harness, com, vetted, boots>>

MarkDone ==
    /\ inst.pc = "mark"
    /\ inst.todo = {}
    /\ SyncDir
    /\ inst' = NoInstall
    /\ UNCHANGED <<slots, up, running, harness, com, vetted, boots>>

(* An I/O error, a signal: Install returns part way. *)
InstallDies ==
    /\ "kill" \in Env
    /\ inst.pc # "idle"
    /\ inst' = NoInstall
    /\ UNCHANGED <<files, slots, up, running, harness, com, vetted, boots>>

Install ==
    \/ \E s \in Slots, i \in Images : StartInstall(s, i)
    \/ \E p \in Partials : BeginCopy(p)
    \/ EndCopy
    \/ ClearOverlay
    \/ \E f \in {"trial", "tries"} : MarkTruncate(f) \/ MarkFill(f)
    \/ MarkDone
    \/ InstallDies
-----------------------------------------------------------------------------
(* Confirm and commit *)

Moves(c, pc) == com' = [com EXCEPT ![c].pc = pc]

(* `confirm` reads the boot state, on every boot, and is done if nothing is on
   trial. *)
ConfirmStart ==
    /\ com["confirm"].pc = "start"
    /\ Moves("confirm", IF TrialPending THEN "check" ELSE "idle")
    /\ UNCHANGED <<files, slots, up, running, harness, inst, vetted, boots>>

(* It waits for the datapath and asks it. *)
Passes(r) == IF Layout = "file" THEN Check(r) ELSE healthy(r)

Verdict(r, commits) ==
    /\ com["confirm"].pc = "check"
    /\ r \in Reports[running]
    /\ Moves("confirm", IF commits THEN "commit" ELSE "idle")
    /\ vetted' = IF Passes(r) /\ image[up] = running THEN vetted \cup {up} ELSE vetted
    /\ UNCHANGED <<files, slots, up, running, harness, inst, boots>>

ConfirmVerdictBooted(r) == Verdict(r, TRUE)      \* mutant: having booted is enough
ConfirmVerdict(r) == Verdict(r, Passes(r))

(* Commit reads the boot state, again when it is confirm that calls it, and
   takes what is on trial now. *)
Committing(s) == [pc |-> "truncate", slot |-> s, todo |-> {"trial", "tries"}]

CommitRead ==
    /\ com["confirm"].pc = "commit"
    /\ com' = [com EXCEPT !["confirm"] =
                IF TrialPending THEN Committing(trial.now) ELSE NoCommit]
    /\ UNCHANGED <<files, slots, up, running, harness, inst, vetted, boots>>

(* `nosaic upgrade commit`, run by an operator who is on the trial slot, has
   seen it work and vouches for it. *)
OperatorCommit ==
    /\ "manual" \in Env
    /\ up \in Slots /\ ~harness
    /\ com["operator"].pc = "idle"
    /\ trial.now = up
    /\ com' = [com EXCEPT !["operator"] = Committing(up)]
    /\ vetted' = IF image[up] = running THEN vetted \cup {up} ELSE vetted
    /\ UNCHANGED <<files, slots, up, running, harness, inst, boots>>

(* active first ... *)
CommitTruncate(c) ==
    /\ com[c].pc = "truncate"
    /\ active' = Truncate(active)
    /\ Moves(c, "fill")
    /\ UNCHANGED <<trial, tries, slots, up, running, harness, inst, vetted, boots>>

CommitFill(c) ==
    /\ com[c].pc = "fill"
    /\ active' = Write(active, com[c].slot)
    /\ Moves(c, "sync")
    /\ UNCHANGED <<trial, tries, slots, up, running, harness, inst, vetted, boots>>

CommitSync(c) ==
    /\ com[c].pc = "sync"
    /\ SyncDir
    /\ Moves(c, "clear")
    /\ UNCHANGED <<slots, up, running, harness, inst, vetted, boots>>

(* ... then clear the trial: in either order in Go, trial and then tries in C. *)
CommitClear(c, f) ==
    /\ com[c].pc = "clear"
    /\ f \in com[c].todo
    /\ Layout = "partition" /\ f = "tries" => "trial" \notin com[c].todo
    /\ trial' = IF f = "trial" THEN Unlink(trial) ELSE trial
    /\ tries' = IF f = "tries" THEN Unlink(tries) ELSE tries
    /\ com' = [com EXCEPT ![c].todo = @ \ {f}]
    /\ UNCHANGED <<active, slots, up, running, harness, inst, vetted, boots>>

CommitDone(c) ==
    /\ com[c].pc = "clear"
    /\ com[c].todo = {}
    /\ SyncDir
    /\ com' = [com EXCEPT ![c] = NoCommit]
    /\ UNCHANGED <<slots, up, running, harness, inst, vetted, boots>>

CommitterDies(c) ==
    /\ "kill" \in Env
    /\ com[c].pc # "idle"
    /\ com' = [com EXCEPT ![c] = NoCommit]
    /\ UNCHANGED <<files, slots, up, running, harness, inst, vetted, boots>>

CommitStep(c) ==
    \/ CommitTruncate(c)
    \/ CommitFill(c)
    \/ CommitSync(c)
    \/ \E f \in {"trial", "tries"} : CommitClear(c, f)
    \/ CommitDone(c)

ConfirmStep ==
    \/ ConfirmStart
    \/ up \in Slots /\ \E r \in Reports[running] : ConfirmVerdict(r)
    \/ CommitRead
    \/ CommitStep("confirm")

(* The boot self-test runs its own checks, commits with a rename if they pass,
   and ends in sync and poweroff -f. *)
Selftest(pass) ==
    /\ up \in Slots /\ harness
    /\ IF pass /\ trial.now # NoFile
       THEN /\ active' = OnDisk(trial.now)
            /\ trial' = OnDisk(NoFile)
            /\ tries' = OnDisk(NoFile)
            /\ vetted' = IF image[up] = running THEN vetted \cup {up} ELSE vetted
       ELSE /\ active' = Flush(active) /\ trial' = Flush(trial) /\ tries' = Flush(tries)
            /\ UNCHANGED vetted
    /\ up' = Off
    /\ inst' = NoInstall
    /\ com' = [c \in Committers |-> NoCommit]
    /\ UNCHANGED <<slots, running, harness, boots>>
-----------------------------------------------------------------------------
(* Boot *)

(* $ACTIVE: the override, else the file.  An absent file reads as a; an empty
   one reads as the empty string, which no slot has. *)
BootActive(o) ==
    IF o \in Slots THEN o ELSE IF active.now = NoFile THEN "a" ELSE active.now

(* $TRIAL: an override sets it aside. *)
BootTrial(o) == o \notin Slots /\ TrialPending

(* slotdev() finds it and mount_image mounts it. *)
Boots(s) == s \in Slots /\ image[s] \in Mountable

(* The overlay is assembled and the system started, or the boot fails. *)
Enter(s) ==
    IF Boots(s)
    THEN /\ up' = s
         /\ running' = image[s]
         /\ overlay' = [overlay EXCEPT ![s] = @ \cup {image[s]}]
         /\ com' = [com EXCEPT !["confirm"] = [NoCommit EXCEPT !.pc = "start"]]
    ELSE /\ up' = Dark
         /\ UNCHANGED <<running, overlay, com>>

(* Nothing on trial. *)
BootCommitted(o) ==
    /\ ~BootTrial(o)
    /\ Enter(BootActive(o))
    /\ UNCHANGED <<files, boots>>

(* The trial has used its attempts: rolled back. *)
RollBack(o) ==
    /\ BootTrial(o)
    /\ trial' = Unlink(trial)
    /\ tries' = Unlink(tries)
    /\ Enter(BootActive(o))
    /\ UNCHANGED <<active, boots>>

BootExhausted(o) == StatusTries >= MAXTRIES /\ RollBack(o)

(* One more attempt is counted, and the trial slot started. *)
Counted == Fill(Truncate(tries), StatusTries + 1)

Attempt(o, counter) ==
    /\ BootTrial(o)
    /\ Boots(trial.now)
    /\ tries' = counter
    /\ Enter(trial.now)
    /\ boots' = IF boots < BootsBound THEN boots + 1 ELSE boots
    /\ UNCHANGED <<active, trial>>

BootAttemptUncounted(o) == StatusTries < MAXTRIES /\ Attempt(o, tries)      \* mutant
BootAttempt(o) == StatusTries < MAXTRIES /\ Attempt(o, Counted)

(* A trial slot that cannot be found or mounted is rolled back at once, if
   there is another slot to go back to. *)
BootUnbootable(o) ==
    /\ BootTrial(o)
    /\ StatusTries < MAXTRIES
    /\ ~Boots(trial.now)
    /\ IF trial.now # BootActive(o)
       THEN trial' = Unlink(trial) /\ tries' = Unlink(Counted)
       ELSE UNCHANGED trial /\ tries' = Counted
    /\ Enter(BootActive(o))
    /\ UNCHANGED <<active, boots>>

NoOverride == "none"
Overrides == {NoOverride} \cup (IF "rescue" \in Env THEN Slots ELSE {})

Boot ==
    /\ up = Off
    /\ \E o \in Overrides :
        BootCommitted(o) \/ BootExhausted(o) \/ BootAttempt(o) \/ BootUnbootable(o)
    /\ harness' \in IF "selftest" \in Env THEN BOOLEAN ELSE {FALSE}
    /\ UNCHANGED <<image, inst, vetted>>
-----------------------------------------------------------------------------
(* Stopping *)

Stop ==
    /\ up' = Off
    /\ inst' = NoInstall
    /\ com' = [c \in Committers |-> NoCommit]
    /\ UNCHANGED <<slots, running, harness, vetted, boots>>

(* An orderly reboot flushes everything. *)
Reboot ==
    /\ up \in Slots \cup {Dark}
    /\ \/ "kill" \in Env
       \/ inst.pc = "idle" /\ \A c \in Committers : com[c].pc \in {"idle", "start", "check"}
    /\ active' = Flush(active)
    /\ trial' = Flush(trial)
    /\ tries' = Flush(tries)
    /\ Stop

PowerCut ==
    /\ "cut" \in Env
    /\ up # Off
    /\ \E x \in active.cut, y \in trial.cut, z \in tries.cut :
        active' = OnDisk(x) /\ trial' = OnDisk(y) /\ tries' = OnDisk(z)
    /\ Stop

(* The kernel writes dirty pages back in its own time. *)
Writeback ==
    /\ up # Off
    /\ ~Settled
    /\ active' = Flush(active)
    /\ trial' = Flush(trial)
    /\ tries' = Flush(tries)
    /\ UNCHANGED <<slots, up, running, harness, inst, com, vetted, boots>>
-----------------------------------------------------------------------------
Next ==
    \/ Install
    \/ ConfirmStep
    \/ OperatorCommit
    \/ CommitStep("operator")
    \/ \E c \in Committers : CommitterDies(c)
    \/ \E pass \in BOOLEAN : Selftest(pass)
    \/ Boot
    \/ Reboot
    \/ PowerCut
    \/ Writeback

Spec == Init /\ [][Next]_vars
-----------------------------------------------------------------------------
(* Every file holds something the programs write, and what readers see is one
   of the contents a power cut may leave. *)
TypeOK ==
    /\ IsFile(active, SlotFile)
    /\ IsFile(trial, SlotFile)
    /\ IsFile(tries, TriesFile)
    /\ image \in [Slots -> AnyImage]
    /\ overlay \in [Slots -> SUBSET AnyImage]
    /\ up \in Slots \cup {Off, Dark}
    /\ running \in AnyImage
    /\ harness \in BOOLEAN
    /\ inst \in InstallState
    /\ com \in [Committers -> CommitState]
    /\ vetted \in SUBSET Slots
    /\ boots \in 0 .. BootsBound

(* "Nothing becomes the committed choice until it has booted and said it is
   healthy" (Install): the slot active names, now or after a power cut, holds
   an image that ran and passed its check, or that an operator vouched for. *)
CommittedIsVetted == active.cut \cap Slots \subseteq vetted

(* "neither ever overwrites the slot it booted from" (package upgrade): the
   image the switch is running is still the one in its slot. *)
RunningIntact == up \in Slots => image[up] = running

(* clearSlotOverlay: no image runs on top of a layer another image wrote. *)
OverlayFresh == up \in Slots => overlay[up] = {running}

(* cmd_install, "on disk before the pointer moves": a slot on trial, now or
   after a power cut, is never a half-written one. *)
TrialComplete == \A s \in trial.cut \cap Slots : image[s] \in Images

(* Commit, "active first, then clear the trial": from the moment a slot is the
   active one, a power cut leaves it active or leaves it on trial. *)
CommitSurvivesCut ==
    active.now \in Slots =>
        active.cut = {active.now} \/ trial.cut = {active.now}

(* The initramfs gives up only when active is empty. *)
DarkOnlyBlank == up = Dark => active.now = Blank

(* The init script, whatever the last power cut left: it starts a slot on that
   image's own overlay, and goes dark for an empty active file only. *)
BootsClean == OverlayFresh /\ DarkOnlyBlank

(* Rolling back a trial that mounts takes MAXTRIES boots of it, neither fewer nor
   more: no other step clears such a trial, except a commit. *)
ExhaustedMeansTried ==
    [][ TrialPending /\ Boots(trial.now) /\ trial'.now = NoFile /\ up = Off
            => boots = MAXTRIES ]_vars

(* A process runs whenever it can: confirm is detached at boot and waits
   only for the datapath, for 15 minutes at most.  A switch that is off is
   switched on. *)
FairSpec ==
    Spec /\ WF_vars(ConfirmStep) /\ WF_vars(CommitStep("operator")) /\ WF_vars(Boot)

Healthy(i) == i \in Mountable /\ \A r \in Reports[i] : Passes(r)

(* trial-confirm: a healthy image booted on trial becomes the active one,
   unless the switch goes down first. *)
HealthyCommits ==
    \A s \in Slots :
        up = s /\ trial.now = s /\ Healthy(running) ~> active.now = s \/ up # s

(* The attempt counter: if the switch keeps being restarted, every trial ends,
   committed or rolled back. *)
TrialEnds == []<>(up = Off) => (TrialPending ~> ~TrialPending)

(* The course of a trial from cmd_install's mark to the end: all its boots, the
   commit of a healthy image, and an end in any case. *)
TrialsConclude == ExhaustedMeansTried /\ HealthyCommits /\ TrialEnds
=============================================================================
