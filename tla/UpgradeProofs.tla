--------------------------- MODULE UpgradeProofs ---------------------------
(***************************************************************************)
(* Proofs about Upgrade, for every set of images, every health report,     *)
(* every MAXTRIES and, except where a theorem says otherwise, both layouts *)
(* and every environment.                                                  *)
(***************************************************************************)
EXTENDS Upgrade, TLAPS

(* What each operation on a state file leaves, if it was a file of V before:
   a file of V again. *)
LEMMA FileOps ==
    ASSUME NEW V, NoFile \in V, Blank \in V, NEW x, IsFile(x, V), NEW v \in V
    PROVE  /\ IsFile(OnDisk(v), V)
           /\ IsFile(Truncate(x), V)
           /\ IsFile(Fill(x, v), V)
           /\ IsFile(FillSync(x, v), V)
           /\ IsFile(Unlink(x), V)
           /\ IsFile(SyncEntry(x), V)
           /\ IsFile(Flush(x), V)
           /\ IsFile(Write(x, v), V)
           /\ x.now \in V
BY DEF IsFile, OnDisk, Truncate, Fill, FillSync, Unlink, SyncEntry, Flush, Write

(* The contents the programs write are contents of the files. *)
LEMMA Contents ==
    /\ NoFile \in SlotFile /\ Blank \in SlotFile /\ Slots \subseteq SlotFile
    /\ NoFile \in TriesFile /\ Blank \in TriesFile /\ 0 \in TriesFile
    /\ StatusTries < MAXTRIES => StatusTries + 1 \in TriesFile
BY TriesAssumption DEF SlotFile, TriesFile, StatusTries

Files ==
    /\ IsFile(active, SlotFile)
    /\ IsFile(trial, SlotFile)
    /\ IsFile(tries, TriesFile)

(* syncDir and a flush of the three files keep them well formed. *)
LEMMA SyncKeepsFiles ==
    ASSUME Files, SyncDir
    PROVE  Files'
BY FileOps, Contents DEF Files, SyncDir, files

(* Syncing the directory changes nothing a reader sees, and rules out contents
   a power cut might have left. *)
LEMMA SyncNarrows ==
    ASSUME Files, SyncDir
    PROVE  /\ active'.now = active.now /\ active'.cut \subseteq active.cut
           /\ trial'.now = trial.now /\ trial'.cut \subseteq trial.cut
BY DEF Files, IsFile, SyncDir, SyncEntry, files

(* So does a flush, and a power cut that leaves one of the contents it may. *)
LEMMA FlushNarrows ==
    ASSUME Files, active' = Flush(active)
    PROVE  active'.now = active.now /\ active'.cut = {active.now} /\ active'.cut \subseteq active.cut
BY DEF Files, IsFile, Flush, OnDisk

LEMMA CutNarrows ==
    ASSUME PowerCut
    PROVE  active'.cut \subseteq active.cut
<1>1. PICK x \in active.cut : active' = OnDisk(x)
  BY DEF PowerCut
<1> QED
  BY <1>1 DEF OnDisk

(* The initial state of a fresh disk is well formed. *)
LEMMA TypeInit == Init => TypeOK
<1> SUFFICES ASSUME Init PROVE TypeOK
  OBVIOUS
<1>1. Files
  BY FileOps, Contents DEF Init, Files, OnDisk, IsFile, Slots
<1>2. image \in [Slots -> AnyImage] /\ overlay \in [Slots -> SUBSET AnyImage]
  BY ImageAssumption DEF Init, AnyImage, Slots
<1>3. inst \in InstallState
  BY DEF Init, NoInstall, InstallState, AnyImage, Slots
<1>4. com \in [Committers -> CommitState]
  BY DEF Init, NoCommit, CommitState, Slots
<1>5. boots \in 0 .. BootsBound
  BY TriesAssumption DEF Init, BootsBound
<1> QED
  BY Zenon, <1>1, <1>2, <1>3, <1>4, <1>5 DEF Init, TypeOK, Files, AnyImage, Slots, Off

(* No step of the installer leaves the types. *)
LEMMA TypeInstall == TypeOK /\ Install => TypeOK'
<1> SUFFICES ASSUME TypeOK, Install PROVE TypeOK'
  OBVIOUS
<1> USE DEF TypeOK, InstallState, CommitState
<1>1. ASSUME NEW s \in Slots, NEW i \in Images, StartInstall(s, i) PROVE TypeOK'
  BY <1>1 DEF StartInstall, files, slots, AnyImage
<1>2. ASSUME NEW i \in AnyImage, Place(i),
             inst' \in {[inst EXCEPT !.pc = "torn"], [inst EXCEPT !.pc = "clear"]}
      PROVE  TypeOK'
  BY <1>2, TriesAssumption DEF Place, files, BootsBound
<1>3. ASSUME NEW p \in Partials, BeginCopy(p) PROVE TypeOK'
  BY Zenon, <1>2, <1>3 DEF BeginCopy, AnyImage
<1>4. CASE EndCopy
  BY Zenon, <1>2, <1>4 DEF EndCopy
<1>5. CASE ClearOverlay
  BY <1>5 DEF ClearOverlay, files
<1>6. ASSUME NEW f \in {"trial", "tries"}, MarkTruncate(f) PROVE TypeOK'
  <2>1. IsFile(trial', SlotFile) /\ IsFile(tries', TriesFile)
    BY <1>6, FileOps, Contents DEF MarkTruncate
  <2> QED
    BY <1>6, <2>1 DEF MarkTruncate, slots
<1>7. ASSUME NEW f \in {"trial", "tries"}, MarkFill(f) PROVE TypeOK'
  <2>1. IsFile(trial', SlotFile) /\ IsFile(tries', TriesFile)
    BY <1>7, FileOps, Contents DEF MarkFill
  <2> QED
    BY Zenon, <1>7, <2>1 DEF MarkFill, slots
<1>8. CASE MarkDone
  <2>1. Files'
    BY <1>8, SyncKeepsFiles DEF MarkDone, Files
  <2> QED
    BY <1>8, <2>1 DEF MarkDone, Files, NoInstall, AnyImage, Slots, slots
<1>9. CASE InstallDies
  BY <1>9 DEF InstallDies, NoInstall, AnyImage, Slots, files, slots
<1> QED
  BY <1>1, <1>3, <1>4, <1>5, <1>6, <1>7, <1>8, <1>9 DEF Install

(* No step of confirm or commit leaves the types. *)
LEMMA TypeCommit ==
    ASSUME TypeOK, NEW c \in Committers,
           \/ ConfirmStep \/ OperatorCommit \/ CommitStep(c) \/ CommitterDies(c)
    PROVE  TypeOK'
<1> USE DEF TypeOK, InstallState, CommitState
<1>1. CASE ConfirmStart
  BY <1>1 DEF ConfirmStart, Moves, Committers, files, slots
<1>2. ASSUME up \in Slots, NEW r, ConfirmVerdict(r) PROVE TypeOK'
  BY <1>2 DEF ConfirmVerdict, Verdict, Moves, Committers, files, slots
<1>3. CASE CommitRead
  BY Zenon, <1>3 DEF CommitRead, Committing, NoCommit, TrialPending, Slots, files, slots
<1>4. CASE OperatorCommit
  BY Zenon, <1>4 DEF OperatorCommit, Committing, files, slots
<1>5. ASSUME NEW d \in Committers, CommitTruncate(d) PROVE TypeOK'
  <2>1. IsFile(active', SlotFile)
    BY <1>5, FileOps, Contents DEF CommitTruncate
  <2> QED
    BY <1>5, <2>1 DEF CommitTruncate, Moves, slots
<1>6. ASSUME NEW d \in Committers, CommitFill(d) PROVE TypeOK'
  <2>1. IsFile(active', SlotFile)
    BY <1>6, FileOps, Contents DEF CommitFill
  <2> QED
    BY <1>6, <2>1 DEF CommitFill, Moves, slots
<1>7. ASSUME NEW d \in Committers, CommitSync(d) PROVE TypeOK'
  <2>1. Files'
    BY <1>7, SyncKeepsFiles DEF CommitSync, Files
  <2> QED
    BY <1>7, <2>1 DEF CommitSync, Moves, Files, slots
<1>8. ASSUME NEW d \in Committers, NEW f \in {"trial", "tries"}, CommitClear(d, f)
      PROVE  TypeOK'
  <2>1. IsFile(trial', SlotFile) /\ IsFile(tries', TriesFile)
    BY <1>8, FileOps, Contents DEF CommitClear
  <2> QED
    BY <1>8, <2>1 DEF CommitClear, slots
<1>9. ASSUME NEW d \in Committers, CommitDone(d) PROVE TypeOK'
  <2>1. Files'
    BY <1>9, SyncKeepsFiles DEF CommitDone, Files
  <2> QED
    BY <1>9, <2>1 DEF CommitDone, NoCommit, Slots, Files, slots
<1>10. CASE CommitterDies(c)
  BY <1>10 DEF CommitterDies, NoCommit, Slots, files, slots
<1>11. ASSUME NEW d \in Committers, CommitStep(d) PROVE TypeOK'
  BY Zenon, <1>11, <1>5, <1>6, <1>7, <1>8, <1>9 DEF CommitStep
<1>12. CASE ConfirmStep
  BY <1>12, <1>1, <1>2, <1>3, <1>11 DEF ConfirmStep, Committers
<1> QED
  BY <1>4, <1>10, <1>11, <1>12

(* Stopping leaves well-formed processes and slots. *)
LEMMA TypeStop ==
    ASSUME TypeOK, Files',
           \/ Stop
           \/ up' = Off /\ inst' = NoInstall /\ com' = [c \in Committers |-> NoCommit]
              /\ vetted' \in SUBSET Slots /\ UNCHANGED <<slots, running, harness, boots>>
    PROVE  TypeOK'
<1>1. inst' = NoInstall /\ com' = [c \in Committers |-> NoCommit] /\ up' = Off
  BY DEF Stop
<1>2. vetted' \in SUBSET Slots /\ UNCHANGED <<slots, running, harness, boots>>
  BY DEF Stop, TypeOK
<1>3. inst' \in InstallState
  BY <1>1 DEF NoInstall, InstallState, AnyImage, Slots
<1>4. com' \in [Committers -> CommitState]
  BY <1>1 DEF NoCommit, CommitState, Slots
<1> QED
  BY <1>1, <1>2, <1>3, <1>4 DEF TypeOK, Files, Off, slots

(* So does starting a slot, or failing to. *)
LEMMA TypeEnter ==
    ASSUME TypeOK, Files', NEW s, Enter(s), harness' \in BOOLEAN,
           boots' \in 0 .. BootsBound, UNCHANGED <<image, inst, vetted>>
    PROVE  TypeOK'
<1> USE DEF TypeOK, CommitState, Files, Enter
<1>1. CASE Boots(s)
  BY <1>1 DEF Boots, NoCommit, Slots
<1>2. CASE ~Boots(s)
  BY <1>2 DEF Dark
<1> QED
  BY <1>1, <1>2

(* No path through the initramfs leaves the types: in particular the counter
   it writes stays within MAXTRIES. *)
LEMMA TypeBoot == TypeOK /\ Boot => TypeOK'
<1> SUFFICES ASSUME TypeOK, Boot PROVE TypeOK'
  OBVIOUS
<1>1. PICK o \in Overrides :
        BootCommitted(o) \/ BootExhausted(o) \/ BootAttempt(o) \/ BootUnbootable(o)
  BY DEF Boot
<1>2. harness' \in BOOLEAN /\ UNCHANGED <<image, inst, vetted>>
  BY Zenon DEF Boot
<1>3. boots \in 0 .. BootsBound /\ Files
  BY DEF TypeOK, Files
<1>4. CASE BootCommitted(o)
  <2>1. Files'
    BY <1>3, <1>4 DEF BootCommitted, Files, files
  <2> QED
    BY <1>2, <1>3, <1>4, <2>1, TypeEnter DEF BootCommitted
<1>5. CASE BootExhausted(o)
  <2>1. Files'
    BY <1>3, <1>5, FileOps, Contents DEF BootExhausted, RollBack, Files
  <2> QED
    BY <1>2, <1>3, <1>5, <2>1, TypeEnter DEF BootExhausted, RollBack
<1>6. ASSUME StatusTries < MAXTRIES PROVE IsFile(Counted, TriesFile)
  BY Zenon, <1>3, <1>6, FileOps, Contents DEF Counted, Files
<1>7. CASE BootAttempt(o)
  <2>1. Files'
    BY <1>3, <1>6, <1>7 DEF BootAttempt, Attempt, Files
  <2>2. boots' \in 0 .. BootsBound
    BY <1>3, <1>7, TriesAssumption DEF BootAttempt, Attempt, BootsBound
  <2> QED
    BY <1>2, <1>7, <2>1, <2>2, TypeEnter DEF BootAttempt, Attempt
<1>8. CASE BootUnbootable(o)
  <2>1. Files'
    BY <1>3, <1>6, <1>8, FileOps, Contents DEF BootUnbootable, Files
  <2> QED
    BY <1>2, <1>3, <1>8, <2>1, TypeEnter DEF BootUnbootable
<1> QED
  BY <1>1, <1>4, <1>5, <1>7, <1>8

(* The whole system keeps its types: the three files hold only contents some
   reader expects, in every layout and every environment. *)
THEOREM TypeCorrect == Spec => []TypeOK
<1>1. TypeOK /\ [Next]_vars => TypeOK'
  <2> SUFFICES ASSUME TypeOK, [Next]_vars PROVE TypeOK'
    OBVIOUS
  <2>1. Files
    BY DEF TypeOK, Files
  <2>2. CASE Install
    BY <2>2, TypeInstall
  <2>3. CASE ConfirmStep \/ OperatorCommit
    BY <2>3, TypeCommit DEF Committers
  <2>4. CASE CommitStep("operator") \/ \E c \in Committers : CommitterDies(c)
    BY <2>4, TypeCommit DEF Committers
  <2>5. ASSUME NEW pass \in BOOLEAN, Selftest(pass) PROVE TypeOK'
    <3>1. Files'
      BY <2>1, <2>5, FileOps, Contents DEF Selftest, Files
    <3>2. vetted' \in SUBSET Slots
      BY <2>5 DEF Selftest, TypeOK
    <3> QED
      BY <2>5, <3>1, <3>2, TypeStop DEF Selftest
  <2>6. CASE Boot
    BY <2>6, TypeBoot
  <2>7. CASE Reboot
    <3>1. Files'
      BY <2>1, <2>7, FileOps, Contents DEF Reboot, Files
    <3> QED
      BY <2>7, <3>1, TypeStop DEF Reboot
  <2>8. CASE PowerCut
    <3>1. Files'
      BY <2>1, <2>8 DEF PowerCut, Files, IsFile, OnDisk
    <3> QED
      BY <2>8, <3>1, TypeStop DEF PowerCut
  <2>9. CASE Writeback
    <3>1. Files'
      BY <2>1, <2>9, FileOps, Contents DEF Writeback, Files
    <3> QED
      BY <2>9, <3>1 DEF Writeback, TypeOK, Files, slots
  <2>10. CASE UNCHANGED vars
    BY <2>10 DEF vars, files, slots, TypeOK
  <2> QED
    BY <2>2, <2>3, <2>4, <2>5, <2>6, <2>7, <2>8, <2>9, <2>10 DEF Next
<1> QED
  BY <1>1, TypeInit, PTL DEF Spec
-----------------------------------------------------------------------------
(* RunningIntact is not inductive alone: the slot an install is writing must
   not be the one running, from its check to its last byte. *)
Untouched ==
    /\ inst.pc # "idle" => up \in Slots /\ inst.slot # up
    /\ RunningIntact

(* Every step keeps it: an install starts only on a slot that is not the one
   running, and which slot runs changes only when no install is left. *)
LEMMA UntouchedNext ==
    ASSUME Layout = "file", TypeOK, Untouched, [Next]_vars
    PROVE  Untouched'
<1> USE DEF Untouched, RunningIntact
<1>1. CASE Install
  <2>1. ASSUME NEW s \in Slots, NEW i \in Images, StartInstall(s, i) PROVE Untouched'
    BY <2>1 DEF StartInstall, InUse, slots
  <2>2. ASSUME NEW i, inst.pc # "idle", Place(i), inst'.slot = inst.slot PROVE Untouched'
    BY <2>2 DEF Place, TypeOK
  <2>3. inst \in InstallState
    BY DEF TypeOK
  <2>4. ASSUME NEW p \in Partials, BeginCopy(p) PROVE Untouched'
    BY <2>2, <2>3, <2>4 DEF BeginCopy, InstallState
  <2>5. CASE EndCopy
    BY <2>2, <2>3, <2>5 DEF EndCopy, InstallState
  <2>6. CASE ClearOverlay
    BY <2>3, <2>6 DEF ClearOverlay, InstallState
  <2>7. ASSUME NEW f \in {"trial", "tries"}, MarkTruncate(f) \/ MarkFill(f) PROVE Untouched'
    BY Zenon, <2>3, <2>7 DEF MarkTruncate, MarkFill, InstallState, slots
  <2>8. CASE MarkDone \/ InstallDies
    BY <2>8 DEF MarkDone, InstallDies, NoInstall, slots
  <2> QED
    BY <1>1, <2>1, <2>4, <2>5, <2>6, <2>7, <2>8 DEF Install
<1>2. ASSUME UNCHANGED <<slots, up, running, inst>> PROVE Untouched'
  BY <1>2 DEF slots
<1>3. ASSUME NEW c \in Committers, CommitStep(c) PROVE Untouched'
  BY <1>2, <1>3 DEF CommitStep, CommitTruncate, CommitFill, CommitSync, CommitClear, CommitDone
<1>4. CASE ConfirmStep
  BY Zenon, <1>2, <1>3, <1>4
  DEF ConfirmStep, ConfirmStart, ConfirmVerdict, Verdict, CommitRead, Committers
<1>5. CASE OperatorCommit \/ (\E c \in Committers : CommitterDies(c)) \/ Writeback
  BY <1>2, <1>5 DEF OperatorCommit, CommitterDies, Writeback
<1>6. ASSUME up' = Off, inst' = NoInstall PROVE Untouched'
  BY <1>6 DEF Off, NoInstall, Slots
<1>7. CASE Reboot \/ PowerCut \/ \E pass \in BOOLEAN : Selftest(pass)
  BY <1>6, <1>7 DEF Reboot, PowerCut, Selftest, Stop
<1>8. CASE Boot
  <2>1. inst.pc = "idle" /\ UNCHANGED <<image, inst>>
    BY <1>8 DEF Boot, Off, Slots
  <2>2. ASSUME NEW s, Enter(s) PROVE Untouched'
    BY <2>1, <2>2 DEF Enter, Dark, Slots
  <2> QED
    BY <1>8, <2>2
    DEF Boot, BootCommitted, BootExhausted, RollBack, BootAttempt, Attempt, BootUnbootable
<1>9. CASE UNCHANGED vars
  BY <1>2, <1>9 DEF vars
<1> QED
  BY <1>1, <1>3, <1>4, <1>5, <1>7, <1>8, <1>9 DEF Next, Committers

(* "neither ever overwrites the slot it booted from": where slots are files,
   the refusal of a loop-mounted one (writeSlotFile) is enough, whatever the
   boot pointer says, whatever the power does and whoever else is running. *)
THEOREM RunningIntactOnFiles == Layout = "file" => (Spec => []RunningIntact)
<1> SUFFICES ASSUME Layout = "file" PROVE Spec => []RunningIntact
  OBVIOUS
<1>1. Init => Untouched
  BY DEF Init, Untouched, RunningIntact, NoInstall, Off, Slots
<1>2. TypeOK /\ Untouched /\ [Next]_vars => Untouched'
  BY UntouchedNext
<1>3. Untouched => RunningIntact
  BY Zenon DEF Untouched
<1> QED
  BY <1>1, <1>2, <1>3, TypeCorrect, PTL DEF Spec
-----------------------------------------------------------------------------
(* The environment of the next theorem: no boot overridden from the command
   line, no install racing confirm or commit, none before the last change of
   the boot directory is on disk. *)
Prudent == Layout = "file" /\ Env \cap {"rescue", "early", "lazy"} = {}

(* What confirm is about to commit is what it is running. *)
TrialIsUp == trial.now \in Slots => trial.now = up

Writing == {"truncate", "fill", "sync", "clear"}

(* The strengthening of CommittedIsVetted.  A process that commits writes the
   slot it runs from, which has been vetted; confirm and an install are never
   both in progress; an install writes no slot that active may name. *)
Honest ==
    /\ up \notin Slots => \A c \in Committers : com[c].pc = "idle"
    /\ inst.pc # "idle" =>
        com["confirm"].pc = "idle" /\ ~harness /\ inst.slot \notin active.cut
    /\ \A c \in Committers : com[c].pc \in Writing => com[c].slot = up /\ up \in vetted
    /\ com["confirm"].pc = "commit" => up \in vetted
    /\ up \in Slots /\ (harness \/ com["confirm"].pc \in {"start", "check", "commit"})
        => TrialIsUp
    /\ CommittedIsVetted

(* Steps of the installer keep it. *)
LEMMA HonestInstall ==
    ASSUME Prudent, TypeOK, Untouched, Honest, Install
    PROVE  Honest'
<1> USE DEF Honest, CommittedIsVetted, TrialIsUp, Writing
<1>1. inst \in InstallState
  BY Zenon DEF TypeOK
<1>2. ASSUME NEW s \in Slots, NEW i \in Images, StartInstall(s, i) PROVE Honest'
  <2>1. active.cut = {active.now} /\ (\A c \in Committers : com[c].pc = "idle") /\ ~harness
    BY <1>2 DEF StartInstall, Prudent, Settled, IsOnDisk
  <2>2. s \notin active.cut
    BY Zenon, <1>2, <2>1 DEF StartInstall, StatusActive
  <2> QED
    BY Zenon, <1>2, <2>1, <2>2 DEF StartInstall, files, slots, Committers
<1>3. ASSUME NEW i, inst.pc # "idle", Place(i), inst'.slot = inst.slot PROVE Honest'
  BY <1>3 DEF Place, Untouched, files, Committers
<1>4. ASSUME NEW p \in Partials, BeginCopy(p) PROVE Honest'
  BY <1>1, <1>3, <1>4 DEF BeginCopy, InstallState
<1>5. CASE EndCopy
  BY <1>1, <1>3, <1>5 DEF EndCopy, InstallState
<1>6. CASE ClearOverlay
  BY Zenon, <1>1, <1>6 DEF ClearOverlay, InstallState, files, Committers
<1>7. ASSUME NEW f \in {"trial", "tries"}, MarkTruncate(f) \/ MarkFill(f) PROVE Honest'
  <2>1. /\ inst.pc = "mark" /\ inst'.pc = inst.pc /\ inst'.slot = inst.slot
        /\ UNCHANGED <<active, up, harness, com, vetted>>
    BY Zenon, <1>1, <1>7 DEF MarkTruncate, MarkFill, MayMark, InstallState
  <2>2. com["confirm"].pc = "idle" /\ harness = FALSE
    BY Zenon, <2>1 DEF TypeOK
  <2> QED
    BY <2>1, <2>2
<1>8. CASE MarkDone
  BY <1>8, SyncNarrows DEF MarkDone, NoInstall, TypeOK, Files, slots, Committers
<1>9. CASE InstallDies
  BY Zenon, <1>9 DEF InstallDies, NoInstall, files, slots, Committers
<1> QED
  BY Zenon, <1>2, <1>4, <1>5, <1>6, <1>7, <1>8, <1>9 DEF Install

(* Steps of confirm and commit keep it. *)
LEMMA HonestCommit ==
    ASSUME Prudent, TypeOK, Untouched, Honest, NEW c \in Committers,
           \/ ConfirmStep \/ OperatorCommit \/ CommitStep(c) \/ CommitterDies(c)
    PROVE  Honest'
<1> USE DEF Honest, CommittedIsVetted, TrialIsUp, Writing
<1>0. com \in [Committers -> CommitState] /\ "confirm" \in Committers /\ "operator" \in Committers
  BY DEF TypeOK, Committers
<1>1. CASE ConfirmStart
  BY <1>0, <1>1 DEF ConfirmStart, Moves, CommitState, files, slots
<1>2. ASSUME up \in Slots, NEW r, ConfirmVerdict(r) PROVE Honest'
  BY Zenon, <1>0, <1>2 DEF ConfirmVerdict, Verdict, Moves, CommitState, Untouched, RunningIntact, files, slots
<1>3. CASE CommitRead
  BY Zenon, <1>0, <1>3
  DEF CommitRead, Committing, NoCommit, TrialPending, CommitState, files, slots
<1>4. CASE OperatorCommit
  BY <1>0, <1>4
  DEF OperatorCommit, Committing, CommitState, Untouched, RunningIntact, files, slots
<1>5. ASSUME NEW d \in Committers, CommitTruncate(d) PROVE Honest'
  BY <1>0, <1>5, MarkAssumption
  DEF CommitTruncate, Moves, Truncate, CommitState, TypeOK, InstallState, slots
<1>6. ASSUME NEW d \in Committers, CommitFill(d) PROVE Honest'
  BY <1>0, <1>6
  DEF CommitFill, Moves, Write, Fill, Prudent, CommitState, Untouched, TypeOK, InstallState, slots
<1>7. ASSUME NEW d \in Committers, CommitSync(d) PROVE Honest'
  BY <1>0, <1>7, SyncNarrows DEF CommitSync, Moves, CommitState, TypeOK, Files, slots
<1>8. ASSUME NEW d \in Committers, NEW f \in {"trial", "tries"}, CommitClear(d, f)
      PROVE  Honest'
  BY Zenon, <1>0, <1>8, MarkAssumption DEF CommitClear, Unlink, CommitState, slots
<1>9. ASSUME NEW d \in Committers, CommitDone(d) PROVE Honest'
  BY <1>0, <1>9, SyncNarrows DEF CommitDone, NoCommit, CommitState, TypeOK, Files, slots
<1>10. CASE CommitterDies(c)
  BY Zenon, <1>0, <1>10 DEF CommitterDies, NoCommit, CommitState, files, slots
<1>11. ASSUME NEW d \in Committers, CommitStep(d) PROVE Honest'
  BY <1>11, <1>5, <1>6, <1>7, <1>8, <1>9 DEF CommitStep
<1>12. CASE ConfirmStep
  BY Zenon, <1>0, <1>12, <1>1, <1>2, <1>3, <1>11 DEF ConfirmStep
<1> QED
  BY Zenon, <1>4, <1>10, <1>11, <1>12

(* A boot keeps it: with no override, the trial it leaves pending is the slot
   it started. *)
LEMMA HonestBoot ==
    ASSUME Prudent, TypeOK, Untouched, Honest, Boot
    PROVE  Honest'
<1> USE DEF Honest, CommittedIsVetted, Writing
<1>1. PICK o \in Overrides :
        BootCommitted(o) \/ BootExhausted(o) \/ BootAttempt(o) \/ BootUnbootable(o)
  BY DEF Boot
<1>2. o \notin Slots
  BY <1>1 DEF Overrides, NoOverride, Prudent, Slots
<1>3. inst.pc = "idle" /\ (\A c \in Committers : com[c].pc = "idle") /\ UNCHANGED <<image, inst, vetted>>
  BY DEF Boot, Untouched, Off, Slots
<1>4. com \in [Committers -> CommitState] /\ "confirm" \in Committers
  BY Zenon DEF TypeOK, Committers
<1>5. ASSUME NEW s, Enter(s), UNCHANGED active, s \in Slots => (trial'.now \in Slots => trial'.now = s)
      PROVE  Honest'
  <2>1. CASE Boots(s)
    BY <1>3, <1>4, <1>5, <2>1 DEF Enter, Boots, NoCommit, CommitState, TrialIsUp
  <2>2. CASE ~Boots(s)
    BY Zenon, <1>3, <1>4, <1>5, <2>2 DEF Enter, Dark, Slots
  <2> QED
    BY <2>1, <2>2
<1>6. CASE BootCommitted(o)
  BY Zenon, <1>2, <1>5, <1>6 DEF BootCommitted, BootTrial, TrialPending, files
<1>7. CASE BootExhausted(o)
  BY Zenon, <1>5, <1>7, MarkAssumption DEF BootExhausted, RollBack, Unlink
<1>8. CASE BootAttempt(o)
  BY Zenon, <1>5, <1>8 DEF BootAttempt, Attempt
<1>9. CASE BootUnbootable(o)
  <2>1. Enter(BootActive(o)) /\ UNCHANGED active
    BY Zenon, <1>9 DEF BootUnbootable
  <2>2. CASE trial.now # BootActive(o)
    <3>1. trial'.now = NoFile
      BY <1>9, <2>2 DEF BootUnbootable, Unlink
    <3>2. trial'.now \notin Slots
      BY Zenon, <3>1, MarkAssumption
    <3> QED
      BY <1>5, <2>1, <3>2
  <2>3. CASE trial.now = BootActive(o)
    <3>1. trial'.now = BootActive(o)
      BY <1>9, <2>3 DEF BootUnbootable
    <3> QED
      BY Zenon, <1>5, <2>1, <3>1
  <2> QED
    BY <2>2, <2>3
<1> QED
  BY Zenon, <1>1, <1>6, <1>7, <1>8, <1>9

(* Both invariants hold throughout. *)
LEMMA HonestAlways == Prudent => (Spec => [](TypeOK /\ Untouched /\ Honest))
<1> SUFFICES ASSUME Prudent PROVE Spec => [](TypeOK /\ Untouched /\ Honest)
  OBVIOUS
<1>1. Init => Untouched /\ Honest
  BY DEF Init, Untouched, RunningIntact, Honest, CommittedIsVetted, Writing, NoInstall, NoCommit,
         OnDisk, Off, Slots, Committers
<1>2. TypeOK /\ Untouched /\ Honest /\ [Next]_vars => Honest'
  <2> SUFFICES ASSUME TypeOK, Untouched, Honest, [Next]_vars PROVE Honest'
    OBVIOUS
  <2>0. Files /\ CommittedIsVetted
    BY DEF TypeOK, Files, Honest
  <2>1. CASE Install
    BY <2>1, HonestInstall
  <2>2. CASE ConfirmStep \/ OperatorCommit
    BY <2>2, HonestCommit DEF Committers
  <2>3. CASE CommitStep("operator") \/ \E c \in Committers : CommitterDies(c)
    BY Zenon, <2>3, HonestCommit DEF Committers
  <2>4. ASSUME up' = Off, inst' = NoInstall, com' = [c \in Committers |-> NoCommit], CommittedIsVetted'
        PROVE  Honest'
    BY <2>4 DEF Honest, Writing, Off, Slots, NoInstall, NoCommit, Committers
  <2>5. ASSUME NEW pass \in BOOLEAN, Selftest(pass) PROVE Honest'
    <3>1. up' = Off /\ inst' = NoInstall /\ com' = [c \in Committers |-> NoCommit]
      BY <2>5 DEF Selftest
    <3>2. CASE active' = Flush(active) /\ vetted' = vetted
      BY <2>0, <2>4, <3>1, <3>2, FlushNarrows DEF CommittedIsVetted
    <3>3. CASE active' = OnDisk(trial.now) /\ vetted' = vetted \cup {up}
      <4>1. up \in Slots /\ harness
        BY <2>5 DEF Selftest
      <4>2. TrialIsUp
        BY <4>1 DEF Honest
      <4>3. active'.cut = {trial.now}
        BY <3>3 DEF OnDisk
      <4>4. CommittedIsVetted'
        BY Zenon, <3>3, <4>2, <4>3 DEF CommittedIsVetted, TrialIsUp
      <4> QED
        BY <2>4, <3>1, <4>4
    <3>4. image[up] = running
      BY <2>5 DEF Selftest, Untouched, RunningIntact
    <3> QED
      BY <2>5, <3>2, <3>3, <3>4 DEF Selftest
  <2>6. CASE Boot
    BY <2>6, HonestBoot
  <2>7. ASSUME Stop, active'.cut \subseteq active.cut PROVE Honest'
    <3>1. CommittedIsVetted'
      BY <2>0, <2>7 DEF CommittedIsVetted, Stop
    <3> QED
      BY <2>4, <2>7, <3>1 DEF Stop
  <2>8. CASE Reboot
    BY <2>0, <2>7, <2>8, FlushNarrows DEF Reboot
  <2>9. CASE PowerCut
    BY Zenon, <2>7, <2>9, CutNarrows DEF PowerCut
  <2>10. CASE Writeback
    <3>1. active' = Flush(active) /\ trial' = Flush(trial) /\ UNCHANGED <<up, harness, inst, com, vetted>>
      BY <2>10 DEF Writeback
    <3>2. active'.cut \subseteq active.cut
      BY <2>0, <3>1, FlushNarrows
    <3>3. trial'.now = trial.now
      BY Zenon, <3>1 DEF Flush, OnDisk
    <3> QED
      BY <3>1, <3>2, <3>3 DEF Honest, CommittedIsVetted, TrialIsUp
  <2>11. CASE UNCHANGED vars
    BY <2>11 DEF vars, files, slots, Honest, CommittedIsVetted, TrialIsUp
  <2> QED
    BY <2>1, <2>2, <2>3, <2>5, <2>6, <2>8, <2>9, <2>10, <2>11 DEF Next
<1>3. TypeOK /\ Untouched /\ [Next]_vars => Untouched'
  BY UntouchedNext DEF Prudent
<1> QED
  BY <1>1, <1>2, <1>3, TypeCorrect, PTL DEF Spec

(* "Nothing becomes the committed choice until it has booted and said it is
   healthy" (Install): so it is where slots are files, with power cuts, killed
   processes, installs over a pending trial, the self-test and operators who
   commit by hand, for any images and any reports. *)
THEOREM CommittedIsVettedOnFiles == Prudent => (Spec => []CommittedIsVetted)
<1>1. Honest => CommittedIsVetted
  BY Zenon DEF Honest
<1> QED
  BY <1>1, HonestAlways, PTL
-----------------------------------------------------------------------------
(* The strengthening of BootsClean.  A slot the initramfs may start, now or after a
   power cut, has a layer only its own image wrote: the slot on trial has none until
   it has run, and an install clears the layer before it marks the slot.  What has
   been vetted mounts, so the slot active names does. *)
Clean ==
    /\ NoFile \notin active.cut
    /\ \A s \in Slots : s \in active.cut \cup trial.cut => overlay[s] \subseteq {image[s]}
    /\ up \in Slots => \A s \in Slots : trial.now = s /\ s # up => overlay[s] = {}
    /\ inst.pc = "copy" /\ inst.slot \in trial.cut => overlay[inst.slot] = {}
    /\ inst.pc = "mark" => overlay[inst.slot] = {}
    /\ \A s \in vetted : image[s] \in Mountable
    /\ up \in Slots => running \in Mountable
    /\ BootsClean

(* A step that writes no image and starts none: active may come to name the slot
   that runs and trial no slot it did not name before. *)
Quiet ==
    /\ UNCHANGED <<image, overlay, running>>
    /\ active'.cut \subseteq active.cut \cup {Blank} \cup ({up} \cap Slots)
    /\ trial'.cut \subseteq trial.cut \cup {NoFile, Blank}
    /\ vetted' \subseteq vetted \cup {up}
    /\ inst' = NoInstall \/ (inst'.pc = inst.pc /\ inst'.slot = inst.slot)
    /\ \/ up' = Off
       \/ /\ up' = up
          /\ trial'.now = trial.now \/ trial'.now \notin Slots
          /\ up = Dark => active'.now = active.now

(* Such a step keeps it. *)
LEMMA CleanQuiet ==
    ASSUME TypeOK, TypeOK', Untouched, Clean, Quiet
    PROVE  Clean'
<1> USE DEF Quiet
<1>1. NoFile \notin Slots /\ Blank \notin Slots /\ NoFile # Blank
  BY Zenon, MarkAssumption
<1>2. up \in Slots => overlay[up] = {image[up]} /\ image[up] \in Mountable
  BY Zenon DEF Clean, BootsClean, OverlayFresh, Untouched, RunningIntact
<1>3. (NoFile \notin active.cut)'
  BY Zenon, <1>1 DEF Clean
<1>4. ASSUME NEW s \in Slots, s \in active'.cut \cup trial'.cut PROVE overlay'[s] \subseteq {image'[s]}
  <2>1. s \in active.cut \cup trial.cut \/ s = up
    BY Zenon, <1>1, <1>4
  <2> QED
    BY <1>2, <2>1 DEF Clean
<1>5. ASSUME up' \in Slots, NEW s \in Slots, trial'.now = s, s # up' PROVE overlay'[s] = {}
  BY Zenon, <1>5 DEF Clean, Off, Slots
<1>6. /\ inst'.pc = "copy" /\ inst'.slot \in trial'.cut => overlay'[inst'.slot] = {}
      /\ inst'.pc = "mark" => overlay'[inst'.slot] = {}
  <2>1. CASE inst' = NoInstall
    BY Zenon, <2>1 DEF NoInstall
  <2>2. CASE inst'.pc = inst.pc /\ inst'.slot = inst.slot
    <3>1. inst.slot \in Slots
      BY Zenon DEF TypeOK, InstallState
    <3>2. inst'.slot \in trial'.cut => inst.slot \in trial.cut
      BY Zenon, <1>1, <2>2, <3>1
    <3> QED
      BY Zenon, <2>2, <3>2 DEF Clean
  <2> QED
    BY <2>1, <2>2
<1>7. ASSUME NEW s \in vetted' PROVE image'[s] \in Mountable
  <2>1. s \in vetted \/ s = up
    BY Zenon
  <2>2. s \in Slots
    BY DEF TypeOK
  <2> QED
    BY <1>2, <2>1, <2>2 DEF Clean
<1>8. up' \in Slots => running' \in Mountable /\ overlay'[up'] = {running'}
  BY Zenon DEF Clean, BootsClean, OverlayFresh, Off, Slots
<1>9. up' = Dark => active'.now = Blank
  BY DEF Clean, BootsClean, DarkOnlyBlank, Off, Dark
<1> QED
  BY <1>3, <1>4, <1>5, <1>6, <1>7, <1>8, <1>9 DEF Clean, BootsClean, OverlayFresh, DarkOnlyBlank

(* Steps of confirm and commit are quiet. *)
LEMMA CleanCommit ==
    ASSUME Prudent, TypeOK, Untouched, Honest, NEW c \in Committers,
           \/ ConfirmStep \/ OperatorCommit \/ CommitStep(c) \/ CommitterDies(c)
    PROVE  Quiet
<1>0. Files /\ NoFile \notin Slots
  BY MarkAssumption DEF TypeOK, Files
<1>1. ASSUME UNCHANGED <<files, slots, up, running, inst>>, vetted' \subseteq vetted \cup {up} PROVE Quiet
  BY <1>1 DEF Quiet, files, slots
<1>2. CASE ConfirmStart \/ CommitRead \/ CommitterDies(c)
  BY <1>1, <1>2 DEF ConfirmStart, CommitRead, CommitterDies
<1>3. ASSUME NEW r, ConfirmVerdict(r) PROVE Quiet
  BY Zenon, <1>1, <1>3 DEF ConfirmVerdict, Verdict
<1>4. CASE OperatorCommit
  BY Zenon, <1>1, <1>4 DEF OperatorCommit
<1>5. ASSUME NEW d \in Committers, com[d].pc \in Writing
      PROVE  up \in Slots /\ up # Dark /\ com[d].slot = up
  BY <1>5 DEF Honest, Writing, Slots, Dark
<1>6. ASSUME NEW d \in Committers, CommitTruncate(d) PROVE Quiet
  <2>1. up # Dark
    BY <1>5, <1>6 DEF CommitTruncate, Writing
  <2>2. active'.cut = active.cut \cup {Blank}
    BY Zenon, <1>6 DEF CommitTruncate, Truncate
  <2> QED
    BY Zenon, <1>6, <2>1, <2>2 DEF CommitTruncate, Quiet, slots
<1>7. ASSUME NEW d \in Committers, CommitFill(d) PROVE Quiet
  <2>1. up # Dark /\ up \in Slots /\ com[d].slot = up
    BY Zenon, <1>5, <1>7 DEF CommitFill, Writing
  <2>2. active'.cut = active.cut \cup {up}
    BY <1>7, <2>1 DEF CommitFill, Write, Fill, Prudent
  <2> QED
    BY Zenon, <1>7, <2>1, <2>2 DEF CommitFill, Quiet, slots
<1>8. ASSUME SyncDir, UNCHANGED <<slots, up, running, inst, vetted>> PROVE Quiet
  BY Zenon, <1>0, <1>8, SyncNarrows DEF Quiet, slots
<1>9. ASSUME NEW d \in Committers, CommitSync(d) \/ CommitDone(d) PROVE Quiet
  BY <1>8, <1>9 DEF CommitSync, CommitDone
<1>10. ASSUME NEW d \in Committers, NEW f \in {"trial", "tries"}, CommitClear(d, f) PROVE Quiet
  <2>1. trial'.cut \subseteq trial.cut \cup {NoFile} /\ (trial'.now = trial.now \/ trial'.now = NoFile)
    BY <1>10 DEF CommitClear, Unlink
  <2> QED
    BY <1>0, <1>10, <2>1 DEF CommitClear, Quiet, slots
<1>11. ASSUME NEW d \in Committers, CommitStep(d) PROVE Quiet
  BY Zenon, <1>11, <1>6, <1>7, <1>9, <1>10 DEF CommitStep
<1>12. CASE ConfirmStep
  BY <1>12, <1>2, <1>3, <1>11 DEF ConfirmStep, Committers
<1> QED
  BY <1>2, <1>4, <1>11, <1>12

(* An install keeps it.  It begins on a slot that does not run and that active cannot
   name, and if that slot is on trial it has not run yet: where its image changes
   under a layer, nothing may start it; and it is marked with its layer gone. *)
LEMMA CleanInstall ==
    ASSUME Prudent, TypeOK, TypeOK', Untouched, Honest, Clean, Install
    PROVE  Clean'
<1>0. /\ inst \in InstallState /\ Files
      /\ image \in [Slots -> AnyImage] /\ overlay \in [Slots -> SUBSET AnyImage]
      /\ vetted \subseteq Slots /\ NoFile \notin Slots /\ Blank \notin Slots
  BY Zenon, MarkAssumption DEF TypeOK, Files
<1>1. ASSUME NEW s \in Slots, NEW i \in Images, StartInstall(s, i) PROVE Clean'
  <2>1. trial.cut = {trial.now} /\ s # up /\ up \in Slots
    BY <1>1 DEF StartInstall, Prudent, Settled, IsOnDisk, InUse
  <2>2. s \in trial.cut => overlay[s] = {}
    BY Zenon, <2>1 DEF Clean
  <2>3. inst'.pc = "copy" /\ inst'.slot = s /\ UNCHANGED <<active, trial, image, overlay, up, running, vetted>>
    BY <1>1 DEF StartInstall, files, slots
  <2> QED
    BY Zenon, <2>2, <2>3 DEF Clean, BootsClean, OverlayFresh, DarkOnlyBlank
<1>2. ASSUME NEW p \in Partials, BeginCopy(p) PROVE Clean'
  BY Zenon, <1>2 DEF BeginCopy, Prudent
<1>3. CASE EndCopy
  <2>1. /\ inst.pc = "copy" /\ inst'.pc = "clear" /\ inst.slot \in Slots
        /\ image' = [image EXCEPT ![inst.slot] = inst.img] /\ vetted' = vetted \ {inst.slot}
        /\ UNCHANGED <<active, trial, overlay, up, running>>
    BY <1>0, <1>3 DEF EndCopy, Place, Prudent, InstallState, files
  <2>2. inst.slot \notin active.cut
    BY Zenon, <2>1 DEF Honest
  <2>3. ASSUME NEW s \in Slots, s \in active.cut \cup trial.cut PROVE overlay[s] \subseteq {image'[s]}
    <3>1. CASE s = inst.slot
      <4>1. overlay[s] = {}
        BY Zenon, <2>1, <2>2, <2>3, <3>1 DEF Clean
      <4> QED
        BY <4>1
    <3>2. CASE s # inst.slot
      <4>1. image'[s] = image[s]
        BY <1>0, <2>1, <3>2
      <4> QED
        BY <2>3, <4>1 DEF Clean
    <3> QED
      BY <3>1, <3>2
  <2>4. ASSUME NEW s \in vetted' PROVE image'[s] \in Mountable
    <3>1. s \in vetted /\ s # inst.slot
      BY <2>1
    <3>2. image'[s] = image[s]
      BY Zenon, <1>0, <2>1, <3>1
    <3> QED
      BY <3>1, <3>2 DEF Clean
  <2> QED
    BY <2>1, <2>3, <2>4 DEF Clean, BootsClean, OverlayFresh, DarkOnlyBlank
<1>4. CASE ClearOverlay
  <2>1. /\ inst.pc = "clear" /\ inst'.pc = "mark" /\ inst.slot \in Slots /\ inst'.slot = inst.slot
        /\ overlay' = [overlay EXCEPT ![inst.slot] = {}]
        /\ UNCHANGED <<active, trial, image, up, running, vetted>>
    BY <1>0, <1>4 DEF ClearOverlay, InstallState, files
  <2>2. inst.slot # up
    BY <2>1 DEF Untouched
  <2>3. \A s \in Slots : overlay'[s] = IF s = inst.slot THEN {} ELSE overlay[s]
    BY <1>0, <2>1
  <2>4. up \in Slots => overlay'[up] = overlay[up]
    BY <2>2, <2>3
  <2>5. \A s \in Slots : overlay'[s] \subseteq overlay[s]
    BY <2>3
  <2> QED
    BY <2>1, <2>3, <2>4, <2>5 DEF Clean, BootsClean, OverlayFresh, DarkOnlyBlank
<1>5. ASSUME NEW f \in {"trial", "tries"}, MarkTruncate(f) PROVE Clean'
  <2>1. trial'.cut \subseteq trial.cut \cup {Blank} /\ (trial'.now = trial.now \/ trial'.now = Blank)
    BY <1>5 DEF MarkTruncate, Truncate
  <2>2. inst'.pc = inst.pc /\ inst'.slot = inst.slot
    BY <1>0, <1>5 DEF MarkTruncate, InstallState
  <2>3. Quiet
    BY Zenon, <1>0, <1>5, <2>1, <2>2 DEF MarkTruncate, Quiet, slots
  <2> QED
    BY <2>3, CleanQuiet
<1>6. ASSUME NEW f \in {"trial", "tries"}, MarkFill(f) PROVE Clean'
  <2>1. /\ inst.pc = "mark" /\ inst'.pc = "mark" /\ inst'.slot = inst.slot
        /\ UNCHANGED <<active, image, overlay, up, running, vetted>>
    BY <1>0, <1>6 DEF MarkFill, InstallState, slots
  <2>2. /\ trial'.cut \subseteq trial.cut \cup {inst.slot}
        /\ trial'.now = trial.now \/ trial'.now = inst.slot
    BY Zenon, <1>6 DEF MarkFill, Write, Fill, Prudent
  <2>3. overlay[inst.slot] = {}
    BY Zenon, <2>1 DEF Clean
  <2>4. ASSUME NEW s \in Slots, s \in active'.cut \cup trial'.cut PROVE overlay[s] \subseteq {image[s]}
    BY Zenon, <2>1, <2>2, <2>3, <2>4 DEF Clean
  <2>5. up \in Slots => \A s \in Slots : trial'.now = s /\ s # up => overlay[s] = {}
    BY <2>2, <2>3 DEF Clean
  <2> QED
    BY <2>1, <2>3, <2>4, <2>5 DEF Clean, BootsClean, OverlayFresh, DarkOnlyBlank
<1>7. CASE MarkDone
  <2>1. Quiet
    BY Zenon, <1>0, <1>7, SyncNarrows DEF MarkDone, Quiet, slots
  <2> QED
    BY Zenon, <2>1, CleanQuiet
<1>8. CASE InstallDies
  <2>1. Quiet
    BY <1>8 DEF InstallDies, Quiet, files, slots
  <2> QED
    BY <2>1, CleanQuiet
<1> QED
  BY Zenon, <1>1, <1>2, <1>3, <1>4, <1>5, <1>6, <1>7, <1>8 DEF Install

(* A boot keeps it: the slot it starts is one that active or trial named, and the
   slot active names has been vetted, so it mounts. *)
LEMMA CleanBoot ==
    ASSUME Prudent, TypeOK, TypeOK', Untouched, Honest, Clean, Boot
    PROVE  Clean'
<1>1. PICK o \in Overrides :
        BootCommitted(o) \/ BootExhausted(o) \/ BootAttempt(o) \/ BootUnbootable(o)
  BY DEF Boot
<1>2. o \notin Slots
  BY <1>1 DEF Overrides, NoOverride, Prudent, Slots
<1>3. /\ inst.pc = "idle" /\ UNCHANGED <<image, inst, vetted>>
      /\ overlay \in [Slots -> SUBSET AnyImage] /\ NoFile \notin Slots /\ Blank \notin Slots
      /\ active.now \in SlotFile /\ active.now \in active.cut /\ trial.now \in trial.cut
  BY Zenon, MarkAssumption DEF Boot, Untouched, Off, Slots, TypeOK, IsFile
<1>4. BootActive(o) = active.now
  BY <1>2, <1>3 DEF BootActive, Clean
<1>5. ASSUME NEW s, s \in active.cut \cup trial.cut, Enter(s), UNCHANGED active,
             trial'.cut \subseteq trial.cut \cup {NoFile},
             s \in Slots => (trial'.now \in Slots => trial'.now = s),
             Boots(s) \/ active.now = Blank
      PROVE  Clean'
  <2>1. NoFile \notin active'.cut
    BY Zenon, <1>5 DEF Clean
  <2>2. CASE Boots(s)
    <3>1. /\ s \in Slots /\ image[s] \in Mountable /\ up' = s /\ running' = image[s]
          /\ overlay' = [overlay EXCEPT ![s] = overlay[s] \cup {image[s]}]
      BY <1>5, <2>2 DEF Boots, Enter
    <3>2. overlay[s] \subseteq {image[s]}
      BY Zenon, <1>5, <3>1 DEF Clean
    <3>3. overlay'[s] = {image[s]}
      BY <1>3, <3>1, <3>2
    <3>4. ASSUME NEW t \in Slots, t \in active'.cut \cup trial'.cut PROVE overlay'[t] \subseteq {image'[t]}
      <4>1. CASE t = s
        BY Zenon, <1>3, <3>3, <4>1
      <4>2. CASE t # s
        <5>1. overlay'[t] = overlay[t] /\ t \in active.cut \cup trial.cut
          BY <1>3, <1>5, <3>1, <3>4, <4>2
        <5> QED
          BY Zenon, <1>3, <5>1 DEF Clean
      <4> QED
        BY <4>1, <4>2
    <3>5. up' # Dark
      BY <3>1 DEF Slots, Dark
    <3> QED
      BY <1>3, <1>5, <2>1, <3>1, <3>3, <3>4, <3>5 DEF Clean, BootsClean, OverlayFresh, DarkOnlyBlank
  <2>3. CASE ~Boots(s)
    <3>1. up' = Dark /\ UNCHANGED <<running, overlay>> /\ active'.now = Blank /\ up' \notin Slots
      BY Zenon, <1>5, <2>3 DEF Enter, Dark, Slots
    <3>2. ASSUME NEW t \in Slots, t \in active'.cut \cup trial'.cut PROVE overlay[t] \subseteq {image[t]}
      BY Zenon, <1>3, <1>5, <3>2 DEF Clean
    <3> QED
      BY Zenon, <1>3, <2>1, <3>1, <3>2 DEF Clean, BootsClean, OverlayFresh, DarkOnlyBlank
  <2> QED
    BY Zenon, <2>2, <2>3
<1>6. Boots(active.now) \/ active.now = Blank
  <2>1. active.now # NoFile
    BY <1>3 DEF Clean
  <2>2. active.now \in Slots => active.now \in vetted
    BY Zenon, <1>3 DEF Honest, CommittedIsVetted
  <2> QED
    BY <1>3, <2>1, <2>2 DEF SlotFile, Boots, Clean
<1>7. CASE BootCommitted(o)
  BY Zenon, <1>2, <1>3, <1>4, <1>5, <1>6, <1>7 DEF BootCommitted, BootTrial, TrialPending, files
<1>8. ASSUME Enter(active.now), UNCHANGED active, trial' = Unlink(trial) PROVE Clean'
  <2>1. trial'.now = NoFile /\ trial'.cut = trial.cut \cup {NoFile}
    BY <1>8 DEF Unlink
  <2> QED
    BY Zenon, <1>3, <1>5, <1>6, <1>8, <2>1
<1>9. CASE BootExhausted(o)
  BY Zenon, <1>4, <1>8, <1>9 DEF BootExhausted, RollBack
<1>10. CASE BootAttempt(o)
  <2>1. Enter(trial.now) /\ UNCHANGED <<active, trial>> /\ Boots(trial.now)
    BY <1>10 DEF BootAttempt, Attempt
  <2> QED
    BY <1>3, <1>5, <2>1
<1>11. CASE BootUnbootable(o)
  <2>1. Enter(active.now) /\ UNCHANGED active
    BY <1>4, <1>11 DEF BootUnbootable
  <2>2. CASE trial.now # active.now
    BY Zenon, <1>4, <1>8, <1>11, <2>1, <2>2 DEF BootUnbootable
  <2>3. CASE trial.now = active.now
    <3>1. UNCHANGED trial
      BY <1>4, <1>11, <2>3 DEF BootUnbootable
    <3> QED
      BY Zenon, <1>3, <1>5, <1>6, <2>1, <2>3, <3>1
  <2> QED
    BY Zenon, <2>2, <2>3
<1> QED
  BY <1>1, <1>7, <1>9, <1>10, <1>11

(* So is the end of a run: an orderly stop, a power cut or the self-test, which
   commits the slot on trial, the one it ran from. *)
LEMMA CleanStop ==
    ASSUME TypeOK, Honest, Untouched, Reboot \/ PowerCut \/ Writeback \/ \E pass \in BOOLEAN : Selftest(pass)
    PROVE  Quiet
<1>0. Files /\ NoFile \notin Slots
  BY Zenon, MarkAssumption DEF TypeOK, Files
<1>1. ASSUME active' = Flush(active), trial' = Flush(trial)
      PROVE  /\ active'.now = active.now /\ active'.cut \subseteq active.cut
             /\ trial'.now = trial.now /\ trial'.cut \subseteq trial.cut
  BY Zenon, <1>0, <1>1 DEF Files, IsFile, Flush, OnDisk
<1>2. CASE Reboot
  BY Zenon, <1>1, <1>2 DEF Reboot, Stop, Quiet, slots
<1>3. CASE PowerCut
  <2>1. PICK x \in active.cut, y \in trial.cut : active' = OnDisk(x) /\ trial' = OnDisk(y)
    BY <1>3 DEF PowerCut
  <2>2. active'.cut \subseteq active.cut /\ trial'.cut \subseteq trial.cut
    BY Zenon, <2>1 DEF OnDisk
  <2> QED
    BY <1>3, <2>2 DEF PowerCut, Stop, Quiet, slots
<1>4. CASE Writeback
  BY <1>1, <1>4 DEF Writeback, Quiet, slots
<1>5. ASSUME NEW pass \in BOOLEAN, Selftest(pass) PROVE Quiet
  <2>1. up \in Slots /\ harness /\ up' = Off /\ inst' = NoInstall /\ UNCHANGED <<image, overlay, running>>
    BY Zenon, <1>5 DEF Selftest, slots
  <2>2. CASE pass /\ trial.now # NoFile
    <3>1. active' = OnDisk(trial.now) /\ trial' = OnDisk(NoFile) /\ vetted' \subseteq vetted \cup {up}
      BY <1>5, <2>2 DEF Selftest
    <3>2. active'.cut = {trial.now} /\ trial'.cut = {NoFile}
      BY Zenon, <3>1 DEF OnDisk
    <3>3. trial.now = Blank \/ trial.now = up
      BY Zenon, <1>0, <2>1, <2>2 DEF Honest, TrialIsUp, Files, IsFile, SlotFile
    <3> QED
      BY Zenon, <2>1, <3>1, <3>2, <3>3 DEF Quiet
  <2>3. CASE ~(pass /\ trial.now # NoFile)
    <3>1. active' = Flush(active) /\ trial' = Flush(trial) /\ UNCHANGED vetted
      BY <1>5, <2>3 DEF Selftest
    <3> QED
      BY Zenon, <1>1, <2>1, <3>1 DEF Quiet
  <2> QED
    BY <2>2, <2>3
<1> QED
  BY <1>2, <1>3, <1>4, <1>5

(* What the init script finds, where slots are files: whatever power cuts, killed
   installs and installs over a pending trial have left, the slot it starts has no
   layer of another image (clearSlotOverlay), and it fails only on an empty active
   file. *)
THEOREM BootsCleanOnFiles == Prudent => (Spec => []BootsClean)
<1> SUFFICES ASSUME Prudent PROVE Spec => []BootsClean
  BY Zenon
<1>1. Init => Clean
  <2> SUFFICES ASSUME Init PROVE Clean
    BY Zenon
  <2>1. /\ active.cut = {"a"} /\ trial.cut = {NoFile} /\ overlay = [s \in Slots |-> {}] /\ up = Off
        /\ inst.pc = "idle" /\ vetted = {"a"} /\ image["a"] = Factory
    BY DEF Init, OnDisk, NoInstall, Slots
  <2>2. "a" # NoFile /\ Factory \in Mountable
    BY Zenon, MarkAssumption, ImageAssumption DEF Slots
  <2> QED
    BY <2>1, <2>2 DEF Clean, BootsClean, OverlayFresh, DarkOnlyBlank, Off, Dark, Slots
<1>2. TypeOK /\ TypeOK' /\ Untouched /\ Honest /\ Clean /\ [Next]_vars => Clean'
  <2> SUFFICES ASSUME TypeOK, TypeOK', Untouched, Honest, Clean, [Next]_vars PROVE Clean'
    OBVIOUS
  <2>1. CASE Install
    BY <2>1, CleanInstall
  <2>2. ASSUME Quiet PROVE Clean'
    BY <2>2, CleanQuiet
  <2>3. CASE ConfirmStep \/ OperatorCommit
    BY <2>2, <2>3, CleanCommit DEF Committers
  <2>4. CASE CommitStep("operator") \/ \E c \in Committers : CommitterDies(c)
    BY <2>2, <2>4, CleanCommit DEF Committers
  <2>5. CASE Boot
    BY <2>5, CleanBoot
  <2>6. CASE Reboot \/ PowerCut \/ Writeback \/ \E pass \in BOOLEAN : Selftest(pass)
    BY <2>2, <2>6, CleanStop
  <2>7. CASE UNCHANGED vars
    BY Zenon, <2>7 DEF vars, files, slots, Clean, BootsClean, OverlayFresh, DarkOnlyBlank
  <2> QED
    BY <2>1, <2>3, <2>4, <2>5, <2>6, <2>7 DEF Next
<1>3. Clean => BootsClean
  BY DEF Clean
<1>4. Spec => [](TypeOK /\ Untouched /\ Honest)
  BY HonestAlways
<1> QED
  BY <1>1, <1>2, <1>3, <1>4, PTL DEF Spec
-----------------------------------------------------------------------------
(* Where slots are partitions a copy passes through states that are no image, so an
   install must not begin over a trial that is pending or that a cut may bring back. *)
OneAtATime == Layout = "file" \/ Env \cap {"retrial", "lazy"} = {}

(* The strengthening of TrialComplete: from the first byte to the last no slot is on
   trial, and from then on the slot being marked holds the image to be tried. *)
Whole ==
    /\ inst.pc # "idle" => inst.img \in Images
    /\ inst.pc \in {"clear", "mark"} => image[inst.slot] \in Images
    /\ Layout = "partition" /\ inst.pc \in {"copy", "torn"} => trial.cut \cap Slots = {}
    /\ TrialComplete

(* A step that writes no slot and puts none on trial. *)
Unmarked ==
    /\ UNCHANGED image
    /\ trial'.cut \subseteq trial.cut \cup {NoFile, Blank}
    /\ inst' = NoInstall \/ (inst'.pc = inst.pc /\ inst'.slot = inst.slot /\ inst'.img = inst.img)

(* Such a step keeps it. *)
LEMMA WholeUnmarked ==
    ASSUME Whole, Unmarked
    PROVE  Whole'
<1>1. trial'.cut \cap Slots \subseteq trial.cut \cap Slots
  BY MarkAssumption DEF Unmarked
<1>2. TrialComplete'
  BY Zenon, <1>1 DEF Unmarked, Whole, TrialComplete
<1>3. CASE inst' = NoInstall
  BY Zenon, <1>2, <1>3 DEF Whole, NoInstall
<1>4. CASE inst'.pc = inst.pc /\ inst'.slot = inst.slot /\ inst'.img = inst.img
  BY <1>1, <1>2, <1>4 DEF Whole, Unmarked
<1> QED
  BY <1>3, <1>4 DEF Unmarked

(* An install keeps it. *)
LEMMA WholeInstall ==
    ASSUME OneAtATime, TypeOK, Whole, Install
    PROVE  Whole'
<1>0. inst \in InstallState /\ Files /\ image \in [Slots -> AnyImage] /\ inst.slot \in Slots
  BY DEF TypeOK, Files, InstallState
<1>1. ASSUME NEW s \in Slots, NEW i \in Images, StartInstall(s, i) PROVE Whole'
  <2>1. inst'.pc = "copy" /\ inst'.img = i /\ UNCHANGED <<trial, image>>
    BY <1>1 DEF StartInstall, files, slots
  <2>2. Layout = "partition" => trial.cut \cap Slots = {}
    BY Zenon, <1>1 DEF StartInstall, OneAtATime, TrialPending, Settled, IsOnDisk
  <2> QED
    BY Zenon, <2>1, <2>2 DEF Whole, TrialComplete
<1>2. ASSUME NEW p \in Partials, BeginCopy(p) PROVE Whole'
  <2>1. Layout = "partition" /\ inst.pc = "copy" /\ inst'.pc = "torn" /\ inst'.img = inst.img /\ UNCHANGED trial
    BY Zenon, <1>0, <1>2 DEF BeginCopy, Place, InstallState, files
  <2> QED
    BY <2>1 DEF Whole, TrialComplete
<1>3. CASE EndCopy
  <2>1. /\ inst.pc \in {"copy", "torn"} /\ inst'.pc = "clear" /\ inst'.img = inst.img /\ inst'.slot = inst.slot
        /\ image' = [image EXCEPT ![inst.slot] = inst.img] /\ UNCHANGED trial
    BY Zenon, <1>0, <1>3 DEF EndCopy, Place, InstallState, files
  <2>2. inst.img \in Images /\ image'[inst.slot] = inst.img
    BY <1>0, <2>1 DEF Whole
  <2>3. \A s \in Slots : image'[s] = inst.img \/ image'[s] = image[s]
    BY Zenon, <1>0, <2>1
  <2> QED
    BY <2>1, <2>2, <2>3 DEF Whole, TrialComplete
<1>4. CASE ClearOverlay
  <2>1. inst.pc = "clear" /\ inst'.pc = "mark" /\ inst'.slot = inst.slot /\ inst'.img = inst.img
    BY <1>0, <1>4 DEF ClearOverlay, InstallState
  <2>2. UNCHANGED <<trial, image>>
    BY <1>4 DEF ClearOverlay, files
  <2> QED
    BY <2>1, <2>2 DEF Whole, TrialComplete
<1>5. ASSUME NEW f \in {"trial", "tries"}, MarkTruncate(f) PROVE Whole'
  <2>1. trial'.cut \subseteq trial.cut \cup {Blank}
    BY <1>5 DEF MarkTruncate, Truncate
  <2>2. Unmarked
    BY <1>0, <1>5, <2>1 DEF MarkTruncate, Unmarked, InstallState, slots
  <2> QED
    BY <2>2, WholeUnmarked
<1>6. ASSUME NEW f \in {"trial", "tries"}, MarkFill(f) PROVE Whole'
  <2>1. inst.pc = "mark" /\ inst'.pc = "mark" /\ inst'.slot = inst.slot /\ inst'.img = inst.img /\ UNCHANGED image
    BY <1>0, <1>6 DEF MarkFill, InstallState, slots
  <2>2. trial'.cut \subseteq trial.cut \cup {inst.slot}
    BY <1>6 DEF MarkFill, Write, Fill, FillSync
  <2> QED
    BY <2>1, <2>2 DEF Whole, TrialComplete
<1>7. CASE MarkDone
  <2>1. Unmarked
    BY <1>0, <1>7, SyncNarrows DEF MarkDone, Unmarked, slots
  <2> QED
    BY Zenon, <2>1, WholeUnmarked
<1>8. CASE InstallDies
  <2>1. Unmarked
    BY <1>8 DEF InstallDies, Unmarked, files, slots
  <2> QED
    BY <2>1, WholeUnmarked
<1> QED
  BY <1>1, <1>2, <1>3, <1>4, <1>5, <1>6, <1>7, <1>8 DEF Install

(* Nothing else puts a slot on trial. *)
LEMMA OthersUnmarked ==
    ASSUME TypeOK, [Next]_vars, ~Install
    PROVE  Unmarked
<1>0. Files
  BY Zenon DEF TypeOK, Files
<1>1. ASSUME UNCHANGED <<trial, image, inst>> PROVE Unmarked
  BY <1>1 DEF Unmarked
<1>2. ASSUME SyncDir, UNCHANGED <<image, inst>> PROVE Unmarked
  BY <1>0, <1>2, SyncNarrows DEF Unmarked
<1>3. ASSUME NEW d \in Committers, CommitStep(d) PROVE Unmarked
  <2>1. CASE CommitTruncate(d) \/ CommitFill(d)
    BY Zenon, <1>1, <2>1 DEF CommitTruncate, CommitFill, slots
  <2>2. CASE CommitSync(d) \/ CommitDone(d)
    BY <1>2, <2>2 DEF CommitSync, CommitDone, slots
  <2>3. ASSUME NEW f \in {"trial", "tries"}, CommitClear(d, f) PROVE Unmarked
    <3>1. trial'.cut \subseteq trial.cut \cup {NoFile} /\ UNCHANGED <<image, inst>>
      BY Zenon, <2>3 DEF CommitClear, Unlink, slots
    <3> QED
      BY <3>1 DEF Unmarked
  <2> QED
    BY Zenon, <1>3, <2>1, <2>2, <2>3 DEF CommitStep
<1>4. CASE ConfirmStep
  BY Zenon, <1>1, <1>3, <1>4
  DEF ConfirmStep, ConfirmStart, ConfirmVerdict, Verdict, CommitRead, Committers, files, slots
<1>5. CASE OperatorCommit \/ \E c \in Committers : CommitterDies(c)
  BY <1>1, <1>5 DEF OperatorCommit, CommitterDies, files, slots
<1>6. ASSUME trial' = Flush(trial) \/ (\E y \in trial.cut \cup {NoFile} : trial' = OnDisk(y)),
             UNCHANGED image, inst' = NoInstall \/ inst' = inst
      PROVE  Unmarked
  <2>1. trial'.cut \subseteq trial.cut \cup {NoFile}
    BY <1>0, <1>6 DEF Files, IsFile, Flush, OnDisk
  <2> QED
    BY Zenon, <1>6, <2>1 DEF Unmarked
<1>7. CASE Reboot \/ Writeback
  BY Zenon, <1>6, <1>7 DEF Reboot, Stop, Writeback, slots
<1>8. CASE PowerCut
  BY Zenon, <1>6, <1>8 DEF PowerCut, Stop, slots
<1>9. ASSUME NEW pass \in BOOLEAN, Selftest(pass) PROVE Unmarked
  BY Zenon, <1>6, <1>9 DEF Selftest, slots
<1>10. CASE Boot
  <2>1. trial' = trial \/ trial' = Unlink(trial)
    BY <1>10 DEF Boot, BootCommitted, BootExhausted, RollBack, BootAttempt, Attempt, BootUnbootable, files
  <2>2. trial'.cut \subseteq trial.cut \cup {NoFile}
    BY <2>1 DEF Unlink
  <2> QED
    BY Zenon, <1>10, <2>2 DEF Boot, Unmarked
<1>11. CASE UNCHANGED vars
  BY <1>1, <1>11 DEF vars, files, slots
<1> QED
  BY <1>3, <1>4, <1>5, <1>7, <1>8, <1>9, <1>10, <1>11 DEF Next, Committers

(* cmd_install, "on disk before the pointer moves": in both layouts, with any process
   killed at any step, the power cut at any moment, boots overridden and commits
   racing installs, the slot on trial is a complete image. *)
THEOREM TrialCompleteAlways == OneAtATime => (Spec => []TrialComplete)
<1> SUFFICES ASSUME OneAtATime PROVE Spec => []TrialComplete
  OBVIOUS
<1>1. Init => Whole
  <2> SUFFICES ASSUME Init PROVE Whole
    OBVIOUS
  <2>1. trial.cut = {NoFile} /\ inst.pc = "idle"
    BY DEF Init, OnDisk, NoInstall
  <2> QED
    BY Zenon, <2>1, MarkAssumption DEF Whole, TrialComplete
<1>2. TypeOK /\ Whole /\ [Next]_vars => Whole'
  BY WholeInstall, OthersUnmarked, WholeUnmarked
<1>3. Whole => TrialComplete
  BY Zenon DEF Whole
<1> QED
  BY <1>1, <1>2, <1>3, TypeCorrect, PTL DEF Spec
-----------------------------------------------------------------------------
(* The strengthening of CommitSurvivesCut on partitions: active is never absent, so
   that what fsync leaves of it is what was written. *)
Committed ==
    /\ NoFile \notin active.cut
    /\ active.now \in Slots => active.cut = {active.now}

(* What each program does to active. *)
LEMMA ActiveSteps ==
    ASSUME Layout = "partition", TypeOK, [Next]_vars
    PROVE  \/ active' = active \/ active' = Truncate(active)
           \/ \E v \in Slots : active' = FillSync(active, v)
           \/ \E v \in (active.cut \cup trial.cut) : active' = OnDisk(v) /\ (v \in active.cut \/ v # NoFile)
<1> DEFINE P == \/ active' = active \/ active' = Truncate(active)
                \/ \E v \in Slots : active' = FillSync(active, v)
                \/ \E v \in (active.cut \cup trial.cut) : active' = OnDisk(v) /\ (v \in active.cut \/ v # NoFile)
<1>0. Files /\ com \in [Committers -> CommitState]
  BY DEF TypeOK, Files
<1>1. ASSUME SyncDir PROVE active' = active
  BY <1>1 DEF SyncDir, files
<1>2. ASSUME active' = Flush(active) PROVE P
  <2>1. active' = OnDisk(active.now) /\ active.now \in active.cut
    BY <1>0, <1>2 DEF Flush, Files, IsFile
  <2> QED
    BY Zenon, <2>1
<1>3. CASE Install
  BY Zenon, <1>1, <1>3
  DEF Install, StartInstall, BeginCopy, EndCopy, Place, ClearOverlay, MarkTruncate, MarkFill, MarkDone,
      InstallDies, files
<1>4. ASSUME NEW d \in Committers, CommitStep(d) PROVE P
  <2>1. CASE CommitTruncate(d)
    BY <2>1 DEF CommitTruncate
  <2>2. CASE CommitFill(d)
    BY Zenon, <1>0, <2>2 DEF CommitFill, Write, CommitState
  <2>3. CASE CommitSync(d) \/ CommitDone(d) \/ \E f \in {"trial", "tries"} : CommitClear(d, f)
    BY Zenon, <1>1, <2>3 DEF CommitSync, CommitDone, CommitClear
  <2> QED
    BY Zenon, <1>4, <2>1, <2>2, <2>3 DEF CommitStep
<1>5. CASE ConfirmStep
  BY Zenon, <1>4, <1>5 DEF ConfirmStep, ConfirmStart, ConfirmVerdict, Verdict, CommitRead, Committers, files
<1>6. CASE OperatorCommit \/ \E c \in Committers : CommitterDies(c)
  BY Zenon, <1>6 DEF OperatorCommit, CommitterDies, files
<1>7. CASE Reboot \/ Writeback
  BY Zenon, <1>2, <1>7 DEF Reboot, Writeback
<1>8. CASE PowerCut
  BY Zenon, <1>8 DEF PowerCut
<1>9. ASSUME NEW pass \in BOOLEAN, Selftest(pass) PROVE P
  <2>1. trial.now \in trial.cut
    BY <1>0 DEF Files, IsFile
  <2> QED
    BY Zenon, <1>2, <1>9, <2>1 DEF Selftest
<1>10. CASE Boot
  BY Zenon, <1>10 DEF Boot, BootCommitted, BootExhausted, RollBack, BootAttempt, Attempt, BootUnbootable, files
<1>11. CASE UNCHANGED vars
  BY <1>11 DEF vars, files
<1> QED
  BY Zenon, <1>3, <1>4, <1>5, <1>6, <1>7, <1>8, <1>9, <1>10, <1>11 DEF Next, Committers

(* Commit, "active first, then clear the trial": where slots are partitions and the
   C CLI flushes what it writes, a slot that has become the active one is so on the
   disk, in every environment. *)
THEOREM CommitSurvivesCutOnPartitions == Layout = "partition" => (Spec => []CommitSurvivesCut)
<1> SUFFICES ASSUME Layout = "partition" PROVE Spec => []CommitSurvivesCut
  OBVIOUS
<1>0. NoFile \notin Slots /\ Blank \notin Slots /\ NoFile # Blank
  BY MarkAssumption
<1>1. Init => Committed
  BY <1>0 DEF Init, OnDisk, Committed, Slots
<1>2. TypeOK /\ Committed /\ [Next]_vars => Committed'
  <2> SUFFICES ASSUME TypeOK, Committed, [Next]_vars PROVE Committed'
    OBVIOUS
  <2>1. CASE active' = active
    BY Zenon, <2>1 DEF Committed
  <2>2. CASE active' = Truncate(active)
    BY Zenon, <1>0, <2>2 DEF Committed, Truncate
  <2>3. ASSUME NEW v \in Slots, active' = FillSync(active, v) PROVE Committed'
    BY <1>0, <2>3 DEF Committed, FillSync
  <2>4. ASSUME NEW v, active' = OnDisk(v), v \in active.cut \/ v # NoFile PROVE Committed'
    BY <2>4 DEF Committed, OnDisk
  <2> QED
    BY Zenon, <2>1, <2>2, <2>3, <2>4, ActiveSteps
<1>3. Committed => CommitSurvivesCut
  BY DEF Committed, CommitSurvivesCut
<1> QED
  BY <1>1, <1>2, <1>3, TypeCorrect, PTL DEF Spec
=============================================================================
