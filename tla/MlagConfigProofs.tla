-------------------------- MODULE MlagConfigProofs --------------------------
(***************************************************************************)
(* Proofs about Config and about Mlag. A setting is kept, for every board, *)
(* every image and any number of writes, power cuts, upgrades and          *)
(* rollbacks; and a pair of switches whose priorities stay is one device   *)
(* to its partners, for any ports, timers and losses.                      *)
(***************************************************************************)
EXTENDS Config, Mlag, FiniteSetTheorems, TLAPS

-----------------------------------------------------------------------------
(* What is in force over an image's files. *)

(* loadDir of a directory with one file: its settings, and the others as they
   were. *)
LEMMA LoadOne ==
    ASSUME NEW c, NEW f
    PROVE  loadDir(c, <<f>>) = [n \in DOMAIN c \cup DOMAIN f |->
                                   IF n \in DOMAIN f THEN f[n] ELSE c[n]]
<1> DEFINE over == [n \in DOMAIN c \cup DOMAIN f |-> IF n \in DOMAIN f THEN f[n] ELSE c[n]]
           Over(a, b) == [n \in DOMAIN a \cup DOMAIN b |-> IF n \in DOMAIN b THEN b[n] ELSE a[n]]
           g == [i \in 0..1 |-> IF i = 0 THEN c ELSE over]
           Def(h) == h = [i \in 0..Len(<<f>>) |-> IF i = 0 THEN c ELSE Over(h[i - 1], <<f>>[i])]
<1>1. Len(<<f>>) = 1 /\ <<f>>[1] = f
  OBVIOUS
<1>2. Def(g)
  <2>1. g[0] = c /\ Over(c, f) = over
    OBVIOUS
  <2>2. \A i \in 0..1 : (IF i = 0 THEN c ELSE Over(g[i - 1], <<f>>[i])) = g[i]
    <3> HIDE DEF Over, over
    <3> QED
      BY <2>1, <1>1
  <2> HIDE DEF Over, over
  <2> QED
    BY <2>2, <1>1
<1>3. ASSUME NEW h, Def(h) PROVE h[1] = over
  <2>1. h[0] = c
    BY <1>3, <1>1
  <2>2. h[1] = Over(h[0], f)
    <3> HIDE DEF Over, over
    <3> QED
      BY <1>3, <1>1
  <2> QED
    BY <2>1, <2>2
<1>4. loadDir(c, <<f>>) = (CHOOSE h : Def(h))[Len(<<f>>)]
  BY DEF loadDir
<1>5. Def(CHOOSE h : Def(h))
  <2> HIDE DEF Def, g
  <2> QED
    BY Zenon, <1>2
<1>6. (CHOOSE h : Def(h))[1] = over
  <2> HIDE DEF Def, over
  <2> QED
    BY <1>3, <1>5
<1> QED
  BY <1>1, <1>4, <1>6

(* The switch's own file wins, and says nothing of what it does not name. *)
LEMMA OwnWins ==
    ASSUME NEW f, IsConf(f), NEW n
    PROVE  Get(Effective(f), n) = IF Get(f, n) # Removed THEN Get(f, n)
                                  ELSE Get(Effective(NoConf), n)
<1> DEFINE c == loadDir(<<>>, shippedConf)
<1>a. Effective(f) = loadDir(c, <<f>>) /\ Effective(NoConf) = loadDir(c, <<NoConf>>)
  BY DEF Effective, LoadFrom
<1> HIDE DEF c
<1>b. \A g : loadDir(c, <<g>>) = [m \in DOMAIN c \cup DOMAIN g |->
                                      IF m \in DOMAIN g THEN g[m] ELSE c[m]]
  BY Zenon, LoadOne
<1>1. Effective(f) = [m \in DOMAIN c \cup DOMAIN f |-> IF m \in DOMAIN f THEN f[m] ELSE c[m]]
  BY Zenon, <1>a, <1>b
<1>2. Effective(NoConf) = [m \in DOMAIN c \cup DOMAIN NoConf |->
                              IF m \in DOMAIN NoConf THEN NoConf[m] ELSE c[m]]
  BY Zenon, <1>a, <1>b
<1>3. DOMAIN NoConf = {}
  BY DEF NoConf
<1>4. Get(Effective(NoConf), n) = Get(c, n)
  BY <1>2, <1>3 DEF Get
<1>5. Get(Effective(f), n) = IF n \in DOMAIN f THEN f[n] ELSE Get(c, n)
  BY <1>1 DEF Get
<1> QED
  BY <1>4, <1>5 DEF Get, IsConf

(* The file a write leaves. *)
LEMMA Rewriting ==
    ASSUME NEW f, IsConf(f), NEW n, NEW v
    PROVE  /\ IsConf(Rewritten(f, n, v))
           /\ Get(Rewritten(f, n, v), n) = v
           /\ \A m : m # n => Get(Rewritten(f, n, v), m) = Get(f, m)
  BY DEF Rewritten, IsConf, Get
-----------------------------------------------------------------------------
(* The inductive invariant *)

(* The file a boot of a RAM board would bring back: of the one partition that
   can have it. *)
Flashed == IF mountFlashConfig = {} THEN NoConf ELSE flash[Min(mountFlashConfig)].conf

Persisted == IF cbd.ram THEN Flashed ELSE onDisk

ConfTypeOK ==
    /\ cbd \in ConfBoards
    /\ IsConf(site) /\ IsConf(onDisk) /\ IsConf(kept)
    /\ flash = [i \in DOMAIN cbd.parts |-> [dir |-> flash[i].dir, conf |-> flash[i].conf]]
    /\ \A i \in DOMAIN flash : flash[i].dir \in BOOLEAN /\ IsConf(flash[i].conf)
    /\ pc \in {"idle", "read", "write", "rename", "mirror"}
    /\ pc # "idle" => job.name \in Keys
    /\ DOMAIN told = Keys /\ DOMAIN maybe = Keys

(* The directory is on the partition that is mounted, and an absent one has no
   file. *)
OnePlace ==
    /\ \A i \in DOMAIN flash : IF flash[i].dir THEN i \in mountFlashConfig
                               ELSE flash[i].conf = NoConf
    /\ cbd.ram /\ pc # "idle" =>
        mountFlashConfig # {} /\ flash[Min(mountFlashConfig)].dir

(* What the operator was told is what is seen; it, what a boot would find and what
   is being written are all values the setting may come back as. *)
Known ==
    /\ \A n \in Keys : /\ told[n] = Get(site, n) /\ told[n] \in maybe[n]
                       /\ Get(Persisted, n) \in maybe[n]
    /\ pc # "idle" => job.value \in maybe[job.name]

(* The write under way works on the file it will replace, and has replaced it
   before the copy in RAM is changed. *)
Underway ==
    /\ pc \in {"write", "rename"} => kept = IF cbd.ram THEN Flashed ELSE site
    /\ pc = "mirror" => cbd.ram /\ Get(Flashed, job.name) = job.value

ConfInv == ConfTypeOK /\ OnePlace /\ Known /\ Underway
-----------------------------------------------------------------------------
LEMMA PartsListed ==
    ASSUME NEW b \in ConfBoards
    PROVE  b.parts \in Seq({"vfat", "other"}) /\ DOMAIN b.parts \subseteq Nat \ {0}
<1>1. b.parts \in Seq({"vfat", "other"})
  BY Zenon, ConfAssumption
<1> QED
  BY <1>1

(* The partition that is mounted is one, and never another. *)
LEMMA OneMount ==
    ASSUME cbd \in ConfBoards
    PROVE  /\ mountFlashConfig \subseteq DOMAIN cbd.parts
           /\ \A i \in mountFlashConfig : mountFlashConfig = {i} /\ Min(mountFlashConfig) = i
<1>1. DOMAIN cbd.parts \subseteq Nat \ {0}
  BY Zenon, PartsListed
<1>2. ASSUME NEW i \in mountFlashConfig PROVE mountFlashConfig = {i}
  <2> SUFFICES ASSUME NEW j \in mountFlashConfig PROVE j = i
    OBVIOUS
  <2>1. i \in Nat /\ j \in Nat /\ i \in DOMAIN cbd.parts /\ j \in DOMAIN cbd.parts
    BY <1>1 DEF mountFlashConfig
  <2>2. 1 <= i /\ 1 <= j
    BY <1>1, <2>1
  <2>3. ~(i < j) /\ ~(j < i)
    BY <2>1, <2>2 DEF mountFlashConfig
  <2> QED
    BY <2>1, <2>3
<1>3. ASSUME NEW i \in mountFlashConfig PROVE Min(mountFlashConfig) = i
  <2>1. i \in Nat
    BY <1>1 DEF mountFlashConfig
  <2>2. Min({i}) = i
    BY <2>1 DEF Min
  <2> QED
    BY <1>2, <2>2
<1> QED
  BY <1>2, <1>3 DEF mountFlashConfig

(* The initramfs finds the file `config set` wrote. *)
LEMMA BootFinds ==
    ASSUME ConfTypeOK, OnePlace
    PROVE  bootConfig = Persisted
<1> SUFFICES ASSUME cbd.ram PROVE bootConfig = Flashed
  BY DEF bootConfig, Persisted
<1>1. cbd \in ConfBoards /\ DOMAIN cbd.parts \subseteq Nat
  BY PartsListed DEF ConfTypeOK
<1>2. FlashConfig \subseteq mountFlashConfig
  BY DEF FlashConfig, OnePlace, ConfTypeOK
<1>3. CASE mountFlashConfig = {}
  BY <1>2, <1>3 DEF bootConfig, Flashed
<1>4. ASSUME NEW i \in mountFlashConfig PROVE bootConfig = Flashed
  <2>1. mountFlashConfig = {i} /\ Min(mountFlashConfig) = i /\ i \in DOMAIN flash
    BY <1>1, OneMount DEF ConfTypeOK
  <2>2. CASE flash[i].dir
    <3>1. i \in FlashConfig
      BY <2>1, <2>2, <1>1 DEF FlashConfig, mountFlashConfig
    <3>2. FlashConfig = mountFlashConfig
      BY <3>1, <2>1, <1>2
    <3> QED
      BY <3>2, <3>1 DEF bootConfig, Flashed
  <2>3. CASE ~flash[i].dir
    <3>1. FlashConfig = {}
      BY <2>1, <2>3, <1>2 DEF FlashConfig
    <3>2. flash[i].conf = NoConf
      BY <2>1, <2>3 DEF OnePlace
    <3> QED
      BY <3>1, <3>2, <2>1 DEF bootConfig, Flashed
  <2> QED
    BY <2>2, <2>3
<1> QED
  BY <1>3, <1>4

LEMMA PersistedIsConf == ConfTypeOK => IsConf(Persisted) /\ IsConf(Flashed) /\ IsConf(NoConf)
<1> SUFFICES ASSUME ConfTypeOK PROVE IsConf(Persisted) /\ IsConf(Flashed) /\ IsConf(NoConf)
  OBVIOUS
<1>1. IsConf(NoConf)
  BY DEF IsConf, NoConf
<1>2. ASSUME NEW i \in mountFlashConfig PROVE IsConf(flash[Min(mountFlashConfig)].conf)
  BY OneMount DEF ConfTypeOK
<1>3. IsConf(Flashed)
  BY <1>1, <1>2 DEF Flashed
<1> QED
  BY <1>1, <1>3 DEF Persisted, ConfTypeOK

LEMMA ConfStarts == ConfInit => ConfInv
<1> SUFFICES ASSUME ConfInit PROVE ConfInv
  OBVIOUS
<1>a. /\ cbd \in ConfBoards /\ flash = cbd.flash /\ site = Start(cbd) /\ onDisk = Start(cbd)
      /\ pc = "idle" /\ kept = NoConf
      /\ told = [n \in Keys |-> Get(Start(cbd), n)] /\ maybe = [n \in Keys |-> {Get(Start(cbd), n)}]
  BY Zenon DEF ConfInit
<1>1. cbd \in ConfBoards /\ DOMAIN cbd.parts \subseteq Nat /\ cbd.parts \in Seq({"vfat", "other"})
  BY <1>a, PartsListed
<1>2. IsConf(NoConf)
  BY DEF IsConf, NoConf
<1> DEFINE d == {i \in DOMAIN cbd.parts : cbd.flash[i].dir}
<1>3. d \subseteq mountFlashConfig
  BY Zenon, <1>a, ConfAssumption DEF mountFlashConfig
<1>4. IsConf(Start(cbd)) /\ Start(cbd) = Persisted
  <2>1. CASE ~cbd.ram
    BY Zenon, <1>a, <2>1, ConfAssumption DEF Start, Persisted
  <2>2. CASE cbd.ram /\ d # {}
    <3>1. PICK i \in d : TRUE
      BY <2>2
    <3>2. mountFlashConfig = {i} /\ Min(mountFlashConfig) = i
      BY <3>1, <1>3, <1>1, OneMount
    <3>3. d = mountFlashConfig
      BY <3>1, <3>2, <1>3
    <3> QED
      BY ZenonT(40), <1>a, <3>2, <3>3, <2>2, ConfAssumption DEF Start, Persisted, Flashed
  <2>3. CASE cbd.ram /\ d = {}
    <3>1. Start(cbd) = NoConf
      BY <2>3 DEF Start
    <3>2. ASSUME NEW i \in mountFlashConfig PROVE cbd.flash[i].conf = NoConf /\ Min(mountFlashConfig) = i
      BY Zenon, <1>a, <2>3, <1>1, OneMount, ConfAssumption
    <3> QED
      BY <1>a, <3>1, <3>2, <2>3, <1>2 DEF Persisted, Flashed
  <2> QED
    BY <1>a, <2>1, <2>2, <2>3, ConfAssumption
<1>5. ConfTypeOK
  BY <1>a, <1>1, <1>2, <1>4, ConfAssumption DEF ConfTypeOK
<1>6. OnePlace
  BY Zenon, <1>a, <1>3, ConfAssumption DEF OnePlace
<1>7. Known
  BY <1>a, <1>4 DEF Known
<1>8. Underway
  BY <1>a DEF Underway
<1> QED
  BY <1>5, <1>6, <1>7, <1>8 DEF ConfInv
-----------------------------------------------------------------------------
(* Every step keeps it. *)

LEMMA BeginSetKeeps ==
    ASSUME ConfInv, NEW n \in Keys, NEW v, BeginSet(n, v)
    PROVE  ConfInv'
<1>1. CASE cbd.ram /\ mountFlashConfig = {}
  BY Zenon, <1>1 DEF BeginSet, ConfInv, ConfTypeOK, OnePlace, Known, Underway, Persisted, Flashed,
                     mountFlashConfig
<1>2. CASE ~(cbd.ram /\ mountFlashConfig = {})
  <2>1. /\ pc = "idle" /\ pc' = "read" /\ job' = [name |-> n, value |-> v]
        /\ flash' = [i \in DOMAIN flash |->
                        [flash[i] EXCEPT !.dir = @ \/ (cbd.ram /\ i \in mountFlashConfig)]]
        /\ maybe' = [maybe EXCEPT ![n] = @ \cup {v}]
        /\ UNCHANGED <<cbd, shippedConf, site, onDisk, kept, told>>
    BY Zenon, <1>2 DEF BeginSet
  <2>2. cbd' = cbd /\ mountFlashConfig' = mountFlashConfig
    BY <2>1 DEF mountFlashConfig
  <2>3. /\ DOMAIN flash' = DOMAIN flash /\ DOMAIN flash = DOMAIN cbd.parts
        /\ \A i \in DOMAIN flash :
               /\ flash'[i] = [dir |-> flash[i].dir \/ (cbd.ram /\ i \in mountFlashConfig),
                               conf |-> flash[i].conf]
               /\ flash'[i].conf = flash[i].conf
               /\ flash'[i].dir = (flash[i].dir \/ (cbd.ram /\ i \in mountFlashConfig))
    <3>1. flash = [i \in DOMAIN cbd.parts |-> [dir |-> flash[i].dir, conf |-> flash[i].conf]]
      BY DEF ConfInv, ConfTypeOK
    <3>2. DOMAIN flash' = DOMAIN flash /\ DOMAIN flash = DOMAIN cbd.parts
      BY <2>1, <3>1
    <3>3. ASSUME NEW i \in DOMAIN flash
          PROVE  flash'[i] = [dir |-> flash[i].dir \/ (cbd.ram /\ i \in mountFlashConfig),
                              conf |-> flash[i].conf]
      <4>1. flash[i] = [dir |-> flash[i].dir, conf |-> flash[i].conf]
        BY <3>1, <3>2
      <4>2. flash'[i] = [flash[i] EXCEPT !.dir = @ \/ (cbd.ram /\ i \in mountFlashConfig)]
        BY Zenon, <2>1
      <4> QED
        BY <4>1, <4>2
    <3> QED
      BY <3>2, <3>3
  <2>4. mountFlashConfig \subseteq DOMAIN flash /\ (mountFlashConfig # {} => Min(mountFlashConfig) \in mountFlashConfig)
    BY <2>3, OneMount DEF ConfInv, ConfTypeOK
  <2>5. Flashed' = Flashed /\ Persisted' = Persisted
    <3>1. Flashed' = Flashed
      BY Zenon, <2>2, <2>3, <2>4 DEF Flashed
    <3> QED
      BY Zenon, <3>1, <2>1, <2>2 DEF Persisted
  <2>6. ConfTypeOK'
    <3>1. flash' = [i \in DOMAIN cbd'.parts |-> [dir |-> flash'[i].dir, conf |-> flash'[i].conf]]
      BY ZenonT(40), <2>1, <2>2, <2>3
    <3>2. \A i \in DOMAIN flash' : flash'[i].dir \in BOOLEAN /\ IsConf(flash'[i].conf)
      BY Zenon, <2>3 DEF ConfInv, ConfTypeOK
    <3> QED
      BY Zenon, <3>1, <3>2, <2>1, <2>2 DEF ConfInv, ConfTypeOK
  <2>7. OnePlace'
    <3>1. \A i \in DOMAIN flash' : IF flash'[i].dir THEN i \in mountFlashConfig' ELSE flash'[i].conf = NoConf
      BY Zenon, <2>2, <2>3 DEF ConfInv, OnePlace
    <3>2. cbd'.ram => mountFlashConfig' # {} /\ flash'[Min(mountFlashConfig')].dir
      BY Zenon, <1>2, <2>2, <2>3, <2>4
    <3> QED
      BY <3>1, <3>2, <2>2 DEF OnePlace
  <2>8. Known'
    BY <2>1, <2>5 DEF ConfInv, Known, ConfTypeOK
  <2>9. Underway'
    BY <2>1 DEF Underway
  <2> QED
    BY <2>6, <2>7, <2>8, <2>9 DEF ConfInv
<1> QED
  BY <1>1, <1>2

LEMMA ReadKeeps == ASSUME ConfInv, SetInRead PROVE ConfInv'
<1>1. /\ pc = "read" /\ pc' = "write" /\ kept' = IF cbd.ram THEN flash[Min(mountFlashConfig)].conf ELSE site
      /\ UNCHANGED <<cbd, shippedConf, site, onDisk, flash, job, told, maybe>>
  BY DEF SetInRead
<1>2. mountFlashConfig' = mountFlashConfig /\ Flashed' = Flashed /\ Persisted' = Persisted
  BY <1>1 DEF mountFlashConfig, Flashed, Persisted
<1>3. kept' = (IF cbd.ram THEN Flashed ELSE site) /\ IsConf(kept')
  BY Zenon, <1>1, PersistedIsConf DEF ConfInv, OnePlace, Flashed, ConfTypeOK
<1>4. ConfTypeOK' /\ OnePlace'
  BY Zenon, <1>1, <1>2, <1>3 DEF ConfInv, ConfTypeOK, OnePlace
<1>5. Known' /\ Underway'
  BY <1>1, <1>2, <1>3 DEF ConfInv, Known, Underway
<1> QED
  BY <1>4, <1>5 DEF ConfInv

LEMMA WriteKeeps == ASSUME ConfInv, SetInWrite PROVE ConfInv'
<1>1. pc = "write" /\ pc' = "rename" /\ UNCHANGED <<cbd, shippedConf, site, onDisk, flash, job, kept, told, maybe>>
  BY DEF SetInWrite
<1>2. mountFlashConfig' = mountFlashConfig /\ Flashed' = Flashed /\ Persisted' = Persisted
  BY <1>1 DEF mountFlashConfig, Flashed, Persisted
<1> QED
  BY Zenon, <1>1, <1>2 DEF ConfInv, ConfTypeOK, OnePlace, Known, Underway

LEMMA RenameKeeps == ASSUME ConfInv, SetInRename PROVE ConfInv'
<1> DEFINE f == Rewritten(kept, job.name, job.value)
<1>0. IsConf(kept)
  BY DEF ConfInv, ConfTypeOK
<1>1. IsConf(f) /\ Get(f, job.name) = job.value /\ \A m : m # job.name => Get(f, m) = Get(kept, m)
  BY <1>0, Rewriting
<1>2. /\ pc = "rename" /\ UNCHANGED <<cbd, shippedConf, onDisk, job, kept, maybe>>
      /\ IF cbd.ram
         THEN /\ flash' = [flash EXCEPT ![Min(mountFlashConfig)].conf = f]
              /\ pc' = "mirror" /\ UNCHANGED <<site, told>>
         ELSE /\ site' = f /\ pc' = "idle" /\ UNCHANGED flash
              /\ told' = [told EXCEPT ![job.name] = job.value]
  BY Zenon DEF SetInRename
<1> HIDE DEF f
<1>3. cbd' = cbd /\ mountFlashConfig' = mountFlashConfig
  BY <1>2 DEF mountFlashConfig
<1>4. job.name \in Keys /\ job.value \in maybe[job.name]
  BY <1>2 DEF ConfInv, ConfTypeOK, Known
<1>5. CASE cbd.ram
  <2> DEFINE k == Min(mountFlashConfig)
  <2>1. k \in mountFlashConfig /\ k \in DOMAIN flash /\ flash[k].dir /\ Flashed = flash[k].conf
    BY <1>2, <1>5, OneMount DEF ConfInv, ConfTypeOK, OnePlace, Flashed
  <2>2. /\ DOMAIN flash' = DOMAIN flash /\ DOMAIN flash = DOMAIN cbd.parts
        /\ flash'[k] = [dir |-> flash[k].dir, conf |-> f]
        /\ \A i \in DOMAIN flash : i # k => flash'[i] = flash[i]
    BY <1>2, <1>5, <2>1 DEF ConfInv, ConfTypeOK
  <2>3. Flashed' = f /\ Persisted' = f
    BY <2>1, <2>2, <1>3, <1>5 DEF Flashed, Persisted
  <2>4. ConfTypeOK'
    <3>1. flash' = [i \in DOMAIN cbd'.parts |-> [dir |-> flash'[i].dir, conf |-> flash'[i].conf]]
      <4>1. DOMAIN cbd'.parts = DOMAIN flash' /\ flash' = [i \in DOMAIN flash' |-> flash'[i]]
        BY <1>2, <1>5, <2>2
      <4>2. ASSUME NEW i \in DOMAIN flash'
            PROVE  flash'[i] = [dir |-> flash'[i].dir, conf |-> flash'[i].conf]
        <5>1. flash[i] = [dir |-> flash[i].dir, conf |-> flash[i].conf]
          BY Zenon, <2>2 DEF ConfInv, ConfTypeOK
        <5>2. CASE i = k
          BY <2>2, <5>2
        <5>3. CASE i # k
          BY Zenon, <2>2, <5>1, <5>3
        <5> QED
          BY Zenon, <5>2, <5>3
      <4> QED
        BY Zenon, <4>1, <4>2
    <3>2. \A i \in DOMAIN flash' : flash'[i].dir \in BOOLEAN /\ IsConf(flash'[i].conf)
      <4>1. \A i \in DOMAIN flash : flash[i].dir \in BOOLEAN /\ IsConf(flash[i].conf)
        BY Zenon DEF ConfInv, ConfTypeOK
      <4>2. flash'[k].dir = flash[k].dir /\ flash'[k].conf = f
        BY <2>2
      <4> QED
        BY Zenon, <2>1, <2>2, <1>1, <4>1, <4>2
    <3> QED
      BY <3>1, <3>2, <1>2, <1>5 DEF ConfInv, ConfTypeOK
  <2>5. OnePlace'
    BY <1>3, <2>1, <2>2 DEF ConfInv, OnePlace
  <2>6. kept = Flashed /\ Persisted = Flashed
    BY <1>2, <1>5 DEF ConfInv, Underway, Persisted
  <2>7. Known'
    BY <1>1, <1>2, <1>4, <1>5, <2>3, <2>6 DEF ConfInv, Known
  <2>8. Underway'
    BY <1>1, <1>2, <1>5, <2>3 DEF Underway
  <2> QED
    BY <2>4, <2>5, <2>7, <2>8 DEF ConfInv
<1>6. CASE ~cbd.ram
  <2>1. kept = site
    BY <1>2, <1>6 DEF ConfInv, Underway
  <2>2. Persisted' = Persisted
    BY <1>2, <1>6 DEF Persisted
  <2>3. ConfTypeOK' /\ OnePlace'
    BY Zenon, <1>1, <1>2, <1>3, <1>6 DEF ConfInv, ConfTypeOK, OnePlace
  <2>4. Known'
    BY <1>1, <1>2, <1>4, <1>6, <2>1, <2>2 DEF ConfInv, Known, ConfTypeOK
  <2>5. Underway'
    BY <1>2, <1>6 DEF Underway
  <2> QED
    BY <2>3, <2>4, <2>5 DEF ConfInv
<1> QED
  BY <1>5, <1>6

LEMMA MirrorKeeps == ASSUME ConfInv, Mirror PROVE ConfInv'
<1> DEFINE f == Rewritten(site, job.name, job.value)
<1>0. IsConf(site)
  BY DEF ConfInv, ConfTypeOK
<1>1. IsConf(f) /\ Get(f, job.name) = job.value /\ \A m : m # job.name => Get(f, m) = Get(site, m)
  BY <1>0, Rewriting
<1>2. /\ pc = "mirror" /\ site' = f /\ pc' = "idle"
      /\ told' = [told EXCEPT ![job.name] = job.value]
      /\ maybe' = [maybe EXCEPT ![job.name] = {job.value}]
      /\ UNCHANGED <<cbd, shippedConf, onDisk, flash, job, kept>>
  BY Zenon DEF Mirror
<1> HIDE DEF f
<1>3. mountFlashConfig' = mountFlashConfig /\ Flashed' = Flashed /\ Persisted' = Persisted
  BY <1>2 DEF mountFlashConfig, Flashed, Persisted
<1>4. cbd.ram /\ Get(Persisted, job.name) = job.value /\ job.name \in Keys
  BY <1>2 DEF ConfInv, Underway, Persisted, ConfTypeOK
<1>5. ConfTypeOK' /\ OnePlace' /\ Underway'
  BY Zenon, <1>1, <1>2, <1>3 DEF ConfInv, ConfTypeOK, OnePlace, Underway
<1>6. Known'
  BY <1>1, <1>2, <1>3, <1>4 DEF ConfInv, Known, ConfTypeOK
<1> QED
  BY <1>5, <1>6 DEF ConfInv

LEMMA CommitsKeeps == ASSUME ConfInv, Commits PROVE ConfInv'
<1>1. /\ ~cbd.ram /\ onDisk' = site
      /\ maybe' = [n \in Keys |-> {Get(site, n)} \cup
                     (IF pc # "idle" /\ n = job.name THEN {job.value} ELSE {})]
      /\ UNCHANGED <<cbd, shippedConf, site, flash, pc, job, kept, told>>
  BY Zenon DEF Commits
<1>2. mountFlashConfig' = mountFlashConfig /\ Flashed' = Flashed /\ Persisted' = site
  BY <1>1 DEF mountFlashConfig, Flashed, Persisted
<1>3. ConfTypeOK' /\ OnePlace' /\ Underway'
  BY Zenon, <1>1, <1>2 DEF ConfInv, ConfTypeOK, OnePlace, Underway
<1>4. Known'
  BY <1>1, <1>2 DEF ConfInv, Known, ConfTypeOK
<1> QED
  BY <1>3, <1>4 DEF ConfInv

(* A boot, after a cut or into another image: what it finds is what may come back. *)
LEMMA BootKeeps ==
    ASSUME ConfInv, NEW own, BootsWith(own), IsConf(own), IsConf(onDisk'),
           \A n \in Keys : Get(own, n) \in maybe[n],
           ~cbd.ram => \A n \in Keys : Get(onDisk', n) \in maybe[n]
    PROVE  ConfInv'
<1>1. /\ site' = own /\ pc' = "idle" /\ told' = [n \in Keys |-> Get(own, n)]
      /\ UNCHANGED <<cbd, flash, job, kept, maybe>>
  BY Zenon DEF BootsWith
<1>2. mountFlashConfig' = mountFlashConfig /\ Flashed' = Flashed
  BY <1>1 DEF mountFlashConfig, Flashed
<1>3. Persisted' = IF cbd.ram THEN Persisted ELSE onDisk'
  BY <1>1, <1>2 DEF Persisted
<1>4. ConfTypeOK' /\ OnePlace' /\ Underway'
  BY Zenon, <1>1, <1>2 DEF ConfInv, ConfTypeOK, OnePlace, Underway
<1>5. Known'
  BY <1>1, <1>3 DEF ConfInv, Known, ConfTypeOK
<1> QED
  BY <1>4, <1>5 DEF ConfInv

LEMMA ConfStays == ConfInv /\ [ConfNext]_confVars => ConfInv'
<1> SUFFICES ASSUME ConfInv, [ConfNext]_confVars PROVE ConfInv'
  OBVIOUS
<1>0. /\ IsConf(Persisted) /\ IsConf(site) /\ IsConf(onDisk) /\ bootConfig = Persisted
      /\ \A n \in Keys : Get(Persisted, n) \in maybe[n] /\ Get(site, n) \in maybe[n]
  BY PersistedIsConf, BootFinds DEF ConfInv, Known, ConfTypeOK
<1>1. CASE UNCHANGED confVars
  <2>1. UNCHANGED <<cbd, site, onDisk, flash, pc, job, kept, told, maybe>>
    BY Zenon, <1>1 DEF confVars
  <2>2. mountFlashConfig' = mountFlashConfig
    BY Zenon, <2>1 DEF mountFlashConfig
  <2>3. Flashed' = Flashed /\ Persisted' = Persisted
    BY Zenon, <2>1, <2>2 DEF Flashed, Persisted
  <2>4. ConfTypeOK' /\ OnePlace'
    BY Zenon, <2>1, <2>2 DEF ConfInv, ConfTypeOK, OnePlace
  <2>5. Known' /\ Underway'
    BY Zenon, <2>1, <2>3 DEF ConfInv, Known, Underway
  <2> QED
    BY Zenon, <2>4, <2>5 DEF ConfInv
<1>2. CASE \E n \in Keys, v \in Texts \cup {Removed} : BeginSet(n, v)
  BY Zenon, <1>2, BeginSetKeeps
<1>3. CASE SetInRead
  BY Zenon, <1>3, ReadKeeps
<1>4. CASE SetInWrite
  BY Zenon, <1>4, WriteKeeps
<1>5. CASE SetInRename
  BY Zenon, <1>5, RenameKeeps
<1>6. CASE Mirror
  BY Zenon, <1>6, MirrorKeeps
<1>7. CASE Commits
  BY Zenon, <1>7, CommitsKeeps
<1>8. CASE ConfPowerCut
  <2>1. BootsWith(Persisted) /\ onDisk' = onDisk
    BY <1>0, <1>8 DEF ConfPowerCut
  <2>2. ~cbd.ram => onDisk = Persisted
    BY DEF Persisted
  <2> QED
    BY <2>1, <2>2, <1>0, BootKeeps
<1>9. CASE \E files \in cbd.images : Upgrade(files)
  <2>1. BootsWith(IF cbd.ram THEN Persisted ELSE site) /\ onDisk' = site
    BY <1>0, <1>9 DEF Upgrade
  <2> DEFINE own == IF cbd.ram THEN Persisted ELSE site
  <2>2. IsConf(own) /\ IsConf(onDisk') /\ (\A n \in Keys : Get(own, n) \in maybe[n])
        /\ \A n \in Keys : Get(onDisk', n) \in maybe[n]
    BY <1>0, <2>1
  <2> QED
    BY Zenon, <2>1, <2>2, BootKeeps
<1>10. CASE ConfStops
  BY <1>1, <1>10 DEF ConfStops
<1> QED
  BY Zenon, <1>1, <1>2, <1>3, <1>4, <1>5, <1>6, <1>7, <1>8, <1>9, <1>10 DEF ConfNext

(* SettingKept: whatever is written, wherever the power fails and whichever image
   boots, a setting comes back as acknowledged or as one of the values around the
   cut, and wins over the image's default (config.go, Set and LoadFrom). *)
THEOREM SettingKeptAlways == ConfSpec => []SettingKept
<1>1. ConfInv => SettingKept
  <2> SUFFICES ASSUME ConfInv PROVE SettingKept
    OBVIOUS
  <2>1. \A n : Get(Effective(site), n) = IF Get(site, n) # Removed THEN Get(site, n)
                                         ELSE Get(Effective(NoConf), n)
    BY Zenon, OwnWins DEF ConfInv, ConfTypeOK
  <2> QED
    BY <2>1 DEF ConfInv, Known, SettingKept
<1> QED
  BY ConfStarts, ConfStays, <1>1, PTL DEF ConfSpec
-----------------------------------------------------------------------------
Fields == {"on", "prio", "role", "sys", "heard", "last_link", "last_hb", "peer_prio", "up", "known", "ack",
           "peer_down", "alive", "hb_alive", "shut", "local_up", "local_up_since", "local_ready", "block",
           "held", "trigger", "next_hello", "on_for"}

(* No switch is given another priority while its peer may know of the one it had. *)
PrioritiesStay ==
    \A c \in Scenarios : /\ "priority" \notin c.events
                         /\ "off" \in c.events => \A p, q \in c.prios : p = q

(* Who is first, by the priorities the switches have. *)
First(s) == sw[s].prio < sw[Peer(s)].prio \/ (sw[s].prio = sw[Peer(s)].prio /\ Mac[s] < Mac[Peer(s)])

(* What a switch has of its peer is the priority the peer has, a role once taken is the
   one that priority gives it, and the system id is the first's; only a secondary
   disables its half. *)
Knows(s) ==
    /\ sw[s].prio \in scn.prios
    /\ sw[s].heard => sw[s].peer_prio = sw[Peer(s)].prio
    /\ \A f \in frames[s] : f.prio = sw[Peer(s)].prio
    /\ sw[s].role # "none" =>
           /\ sw[s].role = IF First(s) THEN "primary" ELSE "secondary"
           /\ sw[s].sys = IF First(s) THEN Mac[s] ELSE Mac[Peer(s)]
    /\ sw[s].shut => sw[s].role = "secondary"

MlagInv ==
    /\ scn \in Scenarios
    /\ DOMAIN sw = Switches /\ DOMAIN frames = Switches
    /\ \A s \in Switches : DOMAIN sw[s] = Fields /\ Knows(s)
-----------------------------------------------------------------------------
LEMMA Pair ==
    ASSUME NEW s \in Switches
    PROVE  /\ Peer(s) \in Switches /\ Peer(s) # s /\ Peer(Peer(s)) = s
           /\ \A t \in Switches : t = s \/ t = Peer(s)
<1>1. IsFiniteSet(Switches \ {s}) /\ Cardinality(Switches \ {s}) = 1
  <2>1. IsFiniteSet(Switches) /\ Cardinality(Switches) = 2
    BY Zenon, SwitchAssumption
  <2>2. /\ IsFiniteSet(Switches \ {s})
        /\ Cardinality(Switches \ {s}) = IF s \in Switches THEN Cardinality(Switches) - 1 ELSE Cardinality(Switches)
    BY Zenon, <2>1, FS_RemoveElement
  <2>3. Cardinality(Switches \ {s}) = 2 - 1
    BY Zenon, <2>1, <2>2
  <2>4. 2 - 1 = 1
    OBVIOUS
  <2> QED
    BY Zenon, <2>2, <2>3, <2>4
<1>2. PICK x : Switches \ {s} = {x}
  BY Zenon, <1>1, FS_Singleton
<1>3. x \in Switches /\ x # s /\ \A t \in Switches : t = s \/ t = x
  BY <1>2
<1>4. Peer(s) = x
  BY <1>3 DEF Peer
<1>5. Peer(x) = s
  BY <1>3 DEF Peer
<1> QED
  BY <1>3, <1>4, <1>5

(* Of two switches one is first. *)
LEMMA OneFirst ==
    ASSUME NEW s \in Switches, sw[s].prio \in Nat, sw[Peer(s)].prio \in Nat
    PROVE  First(Peer(s)) <=> ~First(s)
<1>1. Mac[s] \in Nat /\ Mac[Peer(s)] \in Nat /\ Mac[s] # Mac[Peer(s)]
  BY Pair, SwitchAssumption
<1>2. Peer(Peer(s)) = s
  BY Pair
<1> QED
  BY <1>1, <1>2 DEF First

LEMMA Elected ==
    ASSUME NEW s, NEW r, DOMAIN r = Fields
    PROVE  LET e == Elect(s, r)
               alive == r.heard /\ r.last_link < Dead /\ link
               hb == Heartbeat /\ r.last_hb < Dead
           IN  /\ DOMAIN e = Fields /\ e.prio = r.prio /\ e.heard = r.heard /\ e.peer_prio = r.peer_prio
               /\ e.role = IF alive THEN IF MineFirst(s, r) THEN "primary" ELSE "secondary"
                           ELSE IF hb THEN r.role ELSE "none"
               /\ e.shut = Shuts(alive, hb, e.role)
               /\ e.sys = System(s, r, alive)
BY DEF Elect, Fields

(* evaluate: what becomes of the role and the system id is Elect's. *)
LEMMA Evaluated ==
    ASSUME NEW s, NEW r, DOMAIN r = Fields
    PROVE  LET e == evaluate(s, r)
               l == Elect(s, r)
           IN  /\ DOMAIN e = Fields /\ e.prio = l.prio /\ e.heard = l.heard /\ e.peer_prio = l.peer_prio
               /\ e.role = l.role /\ e.shut = l.shut /\ e.sys = l.sys
<1> DEFINE l == Elect(s, r)
           n == Notice(s, l)
           b == Block(n)
<1>1. DOMAIN l = Fields
  BY Zenon, Elected
<1> HIDE DEF l
<1>2. /\ DOMAIN n = Fields /\ n.prio = l.prio /\ n.heard = l.heard /\ n.peer_prio = l.peer_prio
      /\ n.role = l.role /\ n.shut = l.shut /\ n.sys = l.sys
  BY <1>1 DEF Notice, Fields
<1> HIDE DEF n
<1>3. /\ DOMAIN b = Fields /\ b.prio = l.prio /\ b.heard = l.heard /\ b.peer_prio = l.peer_prio
      /\ b.role = l.role /\ b.shut = l.shut /\ b.sys = l.sys
  BY <1>2 DEF Block, Fields
<1> HIDE DEF b
<1>4. LET e == Hold(b)
      IN  /\ DOMAIN e = Fields /\ e.prio = l.prio /\ e.heard = l.heard /\ e.peer_prio = l.peer_prio
          /\ e.role = l.role /\ e.shut = l.shut /\ e.sys = l.sys
  BY <1>3 DEF Hold, Fields
<1> QED
  BY Zenon, <1>4 DEF evaluate, l, n, b

(* What the invariant looks at of a switch. *)
Same(r, t) ==
    /\ DOMAIN t = Fields /\ t.prio = r.prio /\ t.heard = r.heard /\ t.peer_prio = r.peer_prio
    /\ t.role = r.role /\ t.shut = r.shut /\ t.sys = r.sys

LEMMA KnowsStays ==
    ASSUME MlagInv, NEW s \in Switches, scn' = scn,
           \A t \in Switches : sw'[t].prio = sw[t].prio,
           \A f \in frames'[s] : f \in frames[s] \/ f.prio = sw[Peer(s)].prio,
           Same(sw[s], sw'[s])
    PROVE  Knows(s)'
<1>1. Peer(s) \in Switches /\ Knows(s)
  BY Pair DEF MlagInv
<1>2. First(s)' = First(s)
  BY <1>1 DEF First
<1> QED
  BY <1>1, <1>2 DEF Knows, Same

LEMMA MlagStarts == Init => MlagInv
<1> SUFFICES ASSUME Init PROVE MlagInv
  OBVIOUS
<1>1. scn \in Scenarios /\ DOMAIN sw = Switches /\ DOMAIN frames = Switches
  BY DEF Init
<1>2. ASSUME NEW s \in Switches PROVE DOMAIN sw[s] = Fields /\ Knows(s)
  <2>1. PICK p \in scn.prios : sw[s] = Fresh(p)
    BY DEF Init
  <2>2. frames[s] = {}
    BY DEF Init
  <2> QED
    BY <2>1, <2>2 DEF Fresh, Knows, Fields
<1> QED
  BY <1>1, <1>2 DEF MlagInv

(* A step in which every switch keeps what the invariant looks at, and no frame is new. *)
LEMMA MlagUntouched ==
    ASSUME MlagInv, scn' = scn, DOMAIN sw' = Switches, DOMAIN frames' = Switches,
           \A s \in Switches : Same(sw[s], sw'[s]) /\ frames'[s] \subseteq frames[s]
    PROVE  MlagInv'
<1>1. \A t \in Switches : sw'[t].prio = sw[t].prio
  BY Zenon DEF Same
<1>2. \A s \in Switches : Knows(s)'
  BY <1>1, KnowsStays
<1> QED
  BY <1>2 DEF MlagInv, Same

LEMMA PassKeeps ==
    ASSUME MlagInv, NEW s \in Switches, Pass(s)
    PROVE  MlagInv'
<1> DEFINE due == sw[s].next_hello = 0 \/ sw[s].trigger
           said == IF due THEN [Beaten(s) EXCEPT !.trigger = FALSE, !.next_hello = Hello] ELSE sw[s]
           e == evaluate(s, said)
<1>0. /\ scn' = scn /\ DOMAIN sw = Switches /\ DOMAIN frames = Switches /\ DOMAIN sw[s] = Fields
      /\ Knows(s) /\ Peer(s) \in Switches /\ Peer(s) # s /\ Peer(Peer(s)) = s /\ Knows(Peer(s))
      /\ \A t \in Switches : t = s \/ t = Peer(s)
      /\ \A t \in Switches : DOMAIN sw[t] = Fields
  BY Pair DEF MlagInv, Pass
<1>1. CASE ~sw[s].on
  <2>1. UNCHANGED <<sw, frames>>
    BY <1>1 DEF Pass
  <2> QED
    BY <1>0, <2>1, MlagUntouched DEF Same
<1>2. CASE sw[s].on
  <2>1. /\ sw' = [sw EXCEPT ![s] = e]
        /\ frames' = frames \/ frames' = [frames EXCEPT ![Peer(s)] = {Frame(s)}]
    BY Zenon, <1>2 DEF Pass
  <2>2. Same(sw[s], Beaten(s))
    BY <1>0 DEF Beaten, Same, Fields
  <2>3. Same(sw[s], said)
    BY <1>0, <2>2 DEF Same, Fields
  <2> HIDE DEF said
  <2> DEFINE alive == said.heard /\ said.last_link < Dead /\ link
             hb == Heartbeat /\ said.last_hb < Dead
  <2>4. /\ DOMAIN e = Fields /\ e.prio = said.prio /\ e.heard = said.heard /\ e.peer_prio = said.peer_prio
        /\ e.role = IF alive THEN IF MineFirst(s, said) THEN "primary" ELSE "secondary"
                    ELSE IF hb THEN said.role ELSE "none"
        /\ e.shut = Shuts(alive, hb, e.role)
        /\ e.sys = System(s, said, alive)
    <3> DEFINE l == Elect(s, said)
    <3>1. DOMAIN said = Fields
      BY Zenon, <2>3 DEF Same
    <3>2. /\ l.prio = said.prio /\ l.heard = said.heard /\ l.peer_prio = said.peer_prio
          /\ l.role = IF alive THEN IF MineFirst(s, said) THEN "primary" ELSE "secondary"
                      ELSE IF hb THEN said.role ELSE "none"
          /\ l.shut = Shuts(alive, hb, l.role)
          /\ l.sys = System(s, said, alive)
      BY Zenon, <3>1, Elected
    <3>3. /\ DOMAIN e = Fields /\ e.prio = l.prio /\ e.heard = l.heard /\ e.peer_prio = l.peer_prio
          /\ e.role = l.role /\ e.shut = l.shut /\ e.sys = l.sys
      BY Zenon, <3>1, Evaluated
    <3> HIDE DEF l, e, alive, hb
    <3> QED
      BY <3>2, <3>3
  <2>5. alive => said.heard
    OBVIOUS
  <2> HIDE DEF e, alive, hb
  <2>6. sw'[s] = e /\ \A t \in Switches : t # s => sw'[t] = sw[t]
    BY <1>0, <2>1
  <2>7. \A t \in Switches : sw'[t].prio = sw[t].prio
    BY <2>3, <2>4, <2>6 DEF Same
  <2>8. First(s)' = First(s)
    BY <1>0, <2>7 DEF First
  <2>9. Frame(s).prio = sw[s].prio
    BY Zenon DEF Frame
  <2>10. alive => (MineFirst(s, said) <=> First(s))
    BY SMTT(20), <1>0, <2>3, <2>5 DEF MineFirst, First, Knows, Same
  <2>11. /\ e.role # "none" => /\ e.role = IF First(s) THEN "primary" ELSE "secondary"
                               /\ e.sys = IF First(s) THEN Mac[s] ELSE Mac[Peer(s)]
         /\ e.shut => e.role = "secondary"
    <3>1. CASE alive
      BY Zenon, <3>1, <2>4, <2>10 DEF System, Shuts
    <3>2. CASE ~alive
      <4>1. e.role # "none" => e.role = said.role
        BY <3>2, <2>4
      <4>2. Mac[s] \in Nat /\ Mac[Peer(s)] \in Nat
        BY <1>0, SwitchAssumption
      <4>3. said.role # "none" => said.sys # Unset
        BY <1>0, <2>3, <4>2 DEF Knows, Same, Unset
      <4>4. e.role # "none" => e.sys = said.sys
        BY Zenon, <3>2, <2>4, <4>1, <4>3 DEF System
      <4>5. e.shut => e.role = "secondary"
        BY Zenon, <2>4 DEF Shuts
      <4> QED
        BY ZenonT(30), <1>0, <2>3, <4>1, <4>4, <4>5 DEF Knows, Same
    <3> QED
      BY Zenon, <3>1, <3>2
  <2>12. Knows(s)'
    <3>1. \A f \in frames'[s] : f \in frames[s]
      BY <1>0, <2>1
    <3>2. sw'[Peer(s)].prio = sw[Peer(s)].prio /\ sw'[s].prio = sw[s].prio
      BY <1>0, <2>7
    <3> QED
      BY Zenon, <1>0, <2>3, <2>4, <2>6, <2>8, <2>11, <3>1, <3>2 DEF Knows, Same
  <2>13. Knows(Peer(s))'
    <3>1. \A f \in frames'[Peer(s)] : f \in frames[Peer(s)] \/ f.prio = sw[s].prio
      BY <1>0, <2>1, <2>9
    <3>2. Same(sw[Peer(s)], sw'[Peer(s)])
      BY Zenon, <1>0, <2>6 DEF Same
    <3> QED
      BY Zenon, <1>0, <2>7, <3>1, <3>2, KnowsStays
  <2>14. DOMAIN sw' = Switches /\ DOMAIN frames' = Switches /\ \A t \in Switches : DOMAIN sw'[t] = Fields
    BY <1>0, <2>1, <2>4, <2>6
  <2> QED
    BY <1>0, <2>12, <2>13, <2>14 DEF MlagInv
<1> QED
  BY <1>1, <1>2

LEMMA ReceiveKeeps ==
    ASSUME MlagInv, NEW s \in Switches, Receive(s)
    PROVE  MlagInv'
<1>0. /\ scn' = scn /\ DOMAIN sw = Switches /\ DOMAIN frames = Switches /\ DOMAIN sw[s] = Fields /\ Knows(s)
      /\ Peer(s) \in Switches /\ Peer(s) # s /\ Peer(Peer(s)) = s
      /\ \A t \in Switches : t = s \/ t = Peer(s)
      /\ \A t \in Switches : DOMAIN sw[t] = Fields
  BY Pair DEF MlagInv, Receive
<1>1. PICK f \in frames[s] : sw' = IF sw[s].on THEN [sw EXCEPT ![s] = Received(@, f)] ELSE sw
  BY DEF Receive
<1>2. f.prio = sw[Peer(s)].prio
  BY <1>0 DEF Knows
<1>3. /\ DOMAIN Received(sw[s], f) = Fields
      /\ Received(sw[s], f).prio = sw[s].prio /\ Received(sw[s], f).peer_prio = f.prio
      /\ Received(sw[s], f).role = sw[s].role /\ Received(sw[s], f).shut = sw[s].shut
      /\ Received(sw[s], f).sys = sw[s].sys
  BY <1>0 DEF Received, Fields
<1>4. DOMAIN frames' = Switches /\ frames'[s] = {} /\ \A t \in Switches : frames'[t] \subseteq frames[t]
  BY <1>0 DEF Receive
<1>5. /\ DOMAIN sw' = Switches /\ (sw'[s] = sw[s] \/ sw'[s] = Received(sw[s], f))
      /\ \A t \in Switches : t # s => sw'[t] = sw[t]
  BY Zenon, <1>0, <1>1
<1>6. \A t \in Switches : sw'[t].prio = sw[t].prio /\ DOMAIN sw'[t] = Fields
  BY SMTT(20), <1>0, <1>3, <1>5
<1>7. First(s)' = First(s)
  BY Zenon, <1>0, <1>6 DEF First
<1>8. Knows(s)'
  BY <1>0, <1>2, <1>3, <1>4, <1>5, <1>6, <1>7 DEF Knows
<1>9. Knows(Peer(s))'
  <2>1. Same(sw[Peer(s)], sw'[Peer(s)])
    BY <1>0, <1>5 DEF Same
  <2> QED
    BY Zenon, <1>0, <1>4, <1>6, <2>1, KnowsStays
<1> QED
  BY <1>0, <1>4, <1>5, <1>6, <1>8, <1>9 DEF MlagInv

(* MLAG is turned off: the switch forgets its role, and its half is its own. *)
LEMMA OffKeeps ==
    ASSUME MlagInv, NEW s \in Switches, Off(s)
    PROVE  MlagInv'
<1>0. /\ scn' = scn /\ frames' = frames /\ DOMAIN sw = Switches /\ DOMAIN sw[s] = Fields /\ Knows(s)
      /\ Peer(s) \in Switches /\ Peer(s) # s /\ Peer(Peer(s)) = s
      /\ \A t \in Switches : t = s \/ t = Peer(s)
      /\ \A t \in Switches : DOMAIN sw[t] = Fields
  BY Pair DEF MlagInv, Off
<1> DEFINE r == [sw[s] EXCEPT !.on = FALSE, !.shut = FALSE, !.block = "none",
                              !.trigger = @ \/ sw[s].block # "none",
                              !.held = "none", !.heard = FALSE,
                              !.role = "none", !.sys = Unset]
<1>1. sw' = [sw EXCEPT ![s] = r]
  BY DEF Off
<1>2. DOMAIN r = Fields /\ r.prio = sw[s].prio /\ r.heard = FALSE /\ r.role = "none" /\ r.shut = FALSE
  BY Zenon, <1>0 DEF Fields
<1> HIDE DEF r
<1>3. DOMAIN sw' = Switches /\ sw'[s] = r /\ \A t \in Switches : t # s => sw'[t] = sw[t]
  BY Zenon, <1>0, <1>1
<1>4. \A t \in Switches : sw'[t].prio = sw[t].prio /\ DOMAIN sw'[t] = Fields
  BY <1>0, <1>2, <1>3
<1>5. Knows(s)'
  BY Zenon, <1>0, <1>2, <1>3, <1>4 DEF Knows
<1>6. Knows(Peer(s))'
  <2>1. Same(sw[Peer(s)], sw'[Peer(s)])
    BY <1>0, <1>3 DEF Same
  <2> QED
    BY <1>0, <1>4, <2>1, KnowsStays
<1> QED
  BY <1>0, <1>3, <1>4, <1>5, <1>6 DEF MlagInv

(* MLAG is turned on again, with the only priority there is. *)
LEMMA OnKeeps ==
    ASSUME MlagInv, PrioritiesStay, NEW s \in Switches, NEW p \in scn.prios, On(s, p)
    PROVE  MlagInv'
<1>0. /\ scn' = scn /\ frames' = frames /\ DOMAIN frames = Switches /\ DOMAIN sw = Switches
      /\ DOMAIN sw[s] = Fields /\ Knows(s) /\ scn \in Scenarios
      /\ \A t \in Switches : DOMAIN sw[t] = Fields
  BY DEF MlagInv, On
<1>1. p = sw[s].prio
  BY <1>0 DEF On, Events, PrioritiesStay, Knows
<1> DEFINE r == [sw[s] EXCEPT !.on = TRUE, !.prio = p, !.on_for = IF sw[s].on THEN @ ELSE 0]
<1>2. sw' = [sw EXCEPT ![s] = r]
  BY DEF On
<1>3. Same(sw[s], r)
  BY <1>0, <1>1 DEF Same, Fields
<1> HIDE DEF r
<1>4. DOMAIN sw' = Switches /\ \A t \in Switches : Same(sw[t], sw'[t])
  BY SMTT(20), <1>0, <1>2, <1>3 DEF Same
<1> QED
  BY <1>0, <1>4, MlagUntouched

LEMMA TickKeeps ==
    ASSUME MlagInv, Tick
    PROVE  MlagInv'
<1>0. /\ scn' = scn /\ frames' = frames /\ DOMAIN frames = Switches
      /\ \A t \in Switches : DOMAIN sw[t] = Fields
  BY DEF MlagInv, Tick
<1>1. DOMAIN sw' = Switches /\ \A t \in Switches : sw'[t] = Older(sw[t])
  BY DEF Tick
<1>2. ASSUME NEW t \in Switches PROVE Same(sw[t], Older(sw[t]))
  BY <1>0 DEF Same, Older, Fields
<1> QED
  BY SMTT(20), <1>0, <1>1, <1>2, MlagUntouched

LEMMA MlagStays == PrioritiesStay /\ MlagInv /\ [Next]_vars => MlagInv'
<1> SUFFICES ASSUME PrioritiesStay, MlagInv, [Next]_vars PROVE MlagInv'
  OBVIOUS
<1>0. /\ \A s \in Switches : Same(sw[s], sw[s])
      /\ DOMAIN sw = Switches /\ DOMAIN frames = Switches
  BY DEF MlagInv, Same
<1>1. CASE \E s \in Switches : Pass(s) \/ Receive(s) \/ Off(s) \/ \E p \in scn.prios : On(s, p)
  BY Zenon, <1>1, PassKeeps, ReceiveKeeps, OffKeeps, OnKeeps
<1>2. CASE \E s \in Switches : Lose(s) \/ \E h \in {"down", "ready", "active"} : HalfMoves(s, h)
  <2>1. /\ scn' = scn /\ sw' = sw /\ DOMAIN frames' = Switches
        /\ \A t \in Switches : frames'[t] \subseteq frames[t]
    BY <1>0, <1>2 DEF Lose, HalfMoves
  <2> QED
    BY <1>0, <2>1, MlagUntouched
<1>3. CASE LinkMoves \/ MgmtMoves \/ UNCHANGED vars
  <2>1. /\ scn' = scn /\ sw' = sw /\ DOMAIN frames' = Switches
        /\ \A t \in Switches : frames'[t] \subseteq frames[t]
    BY <1>0, <1>3 DEF LinkMoves, MgmtMoves, vars
  <2> QED
    BY <1>0, <2>1, MlagUntouched
<1>4. CASE Tick
  BY <1>4, TickKeeps
<1> QED
  BY Zenon, <1>1, <1>2, <1>3, <1>4 DEF Next

(* OneDevice: a pair whose priorities are not changed under way is one switch to the
   device, together, split or restarted: their halves are never both disabled, and two
   switches that know their roles have different ones and present one system id. *)
THEOREM AlwaysOneDevice == PrioritiesStay => (Spec => []OneDevice)
<1> SUFFICES ASSUME PrioritiesStay PROVE Spec => []OneDevice
  OBVIOUS
<1>1. MlagInv => OneDevice
  <2> SUFFICES ASSUME MlagInv PROVE OneDevice
    BY Zenon
  <2>1. ASSUME NEW s \in Switches
        PROVE  /\ Knows(s) /\ Knows(Peer(s)) /\ (First(Peer(s)) <=> ~First(s))
               /\ Peer(s) \in Switches /\ Peer(Peer(s)) = s /\ \A t \in Switches : t = s \/ t = Peer(s)
    <3>1. Knows(s) /\ Knows(Peer(s)) /\ scn \in Scenarios
      BY Pair DEF MlagInv
    <3>2. sw[s].prio \in Nat /\ sw[Peer(s)].prio \in Nat
      BY <3>1, ScenarioAssumption DEF Knows
    <3> QED
      BY <3>1, <3>2, OneFirst, Pair
  <2>2. \E s : s \in Switches
    <3>1. Switches # {}
      BY SwitchAssumption, FS_EmptySet
    <3> QED
      BY <3>1
  <2>3. NotBothShut
    BY <2>1, <2>2 DEF NotBothShut, Knows
  <2>4. OneSystem
    <3> SUFFICES ASSUME \A u \in Switches : sw[u].role # "none", NEW s \in Switches, NEW t \in Switches
                 PROVE  sw[s].sys = sw[t].sys /\ (s # t => sw[s].role # sw[t].role)
      BY DEF OneSystem
    <3>1. t = s \/ t = Peer(s)
      BY <2>1
    <3>2. CASE t = Peer(s)
      BY <2>1, <3>2 DEF Knows
    <3> QED
      BY SMTT(20), <3>1, <3>2
  <2> QED
    BY <2>3, <2>4 DEF OneDevice
<1> QED
  BY MlagStarts, MlagStays, <1>1, PTL DEF Spec
=============================================================================
