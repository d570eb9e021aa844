----------------------------- MODULE BoardProofs -----------------------------
(***************************************************************************)
(* Proofs about a board: its boot, for any boards that keep to the         *)
(* assumption and any number of commands, crashes, retries and boots; and  *)
(* the controller of its SMBus, for any registers and values and any       *)
(* number of transfers and faults.                                         *)
(***************************************************************************)
EXTENDS Boot, Smbus, TLAPS

Boards == {sc.board : sc \in Scenarios}

(* A release-asic command: what it read first, and what is true of the reset lines
   while it is past each of its writes. *)
Releasing(p) ==
    /\ rel[p].pc \in {"core", "settle"} =>
           /\ rel[p].before \cap SwitchResets # {}
           /\ fault = "dead" => held = rel[p].before
    /\ fault # "dead" /\ rel[p].pc \in {"core", "settle"} => held \cap board.resets = {}
    /\ fault # "dead" /\ rel[p].pc = "settle" => "core" \notin held
    /\ Needs /\ rel[p].pc \in {"stat", "wait", "ok"} => held = {}
    /\ Needs /\ rel[p].pc = "ok" => bus = "decoding"
    /\ rel[p].pc = "mapping" => fault = "dead"

(* The board's lines go first, so that a switch chip released in part says that they
   are released. *)
ChipInv ==
    /\ board \in Boards /\ db = Database(board)
    /\ DOMAIN rel = Procs
    /\ \A p \in Procs : rel[p] = [pc |-> rel[p].pc, before |-> rel[p].before] /\ Releasing(p)
    /\ held \subseteq Lines
    /\ SwitchResets \subseteq held \/ held \cap board.resets = {}
    /\ ~Needs => held = {} /\ bus = "decoding"

(* What a oneshot that nosd waits for has done stays done while the oneshot is up. *)
StartInv ==
    /\ "nosd" \notin running
    /\ "nosd" \in up => board.datapath /\ nosdAfter(board) \subseteq up
    /\ nosd # "off" => "nosd" \in up
    /\ board.datapath /\ Needs /\ "asic-release" \in up => held = {} /\ bus = "decoding"
    /\ board.datapath /\ (board.cages \/ board.panel) /\ "transceivers" \in up => lit

BootInv == ChipInv /\ StartInv
-----------------------------------------------------------------------------
LEMMA SvcIs ==
    ASSUME NEW n, NEW e, NEW a, NEW r
    PROVE  /\ Svc(n, e, a, r).name = n /\ Svc(n, e, a, r).exec = e /\ Svc(n, e, a, r).after = a
           /\ Svc(n, e, a, r).wants = {} /\ Svc(n, e, a, r).restart = r
BY DEF Svc

(* What the image declares under the names nosd waits for, and under its own. *)
LEMMA Declared ==
    ASSUME NEW b, NEW s \in stamp(b)
    PROVE  /\ s.name = "nosd" => b.datapath /\ s = Svc("nosd", Exec("nosd"), nosdAfter(b), "always")
           /\ s.name = "asic-release" => s = Svc("asic-release", Exec("release-asic"), {}, "never")
           /\ s.name = "transceivers" =>
                  \/ s = Svc("transceivers", Exec("tx-all-on"), {}, "never")
                  \/ s = Svc("transceivers", Exec("front-panel-init"), {}, "never")
           /\ s.wants = {}
           /\ "nosd" \in s.after => b.datapath
           /\ \A d \in s.after : bareName(d) = d
<1> DEFINE Names14 == {"network", "nosd", "network-config", "asic-release", "i2c-devices", "switch-mac",
                       "asic-irq", "retimer", "transceivers"}
<1>0. \A d \in Names14 : bareName(d) = d
  BY DEF bareName
<1>1. CASE s \in networkServices(b)
  BY SvcIs, <1>0, <1>1 DEF networkServices
<1>2. CASE s \in trialConfirm(b) \cup thermal(b) \cup i2cDevices(b)
  BY SvcIs, <1>0, <1>2 DEF trialConfirm, thermal, i2cDevices
<1>6. CASE s \in bootRearm(b)
  BY SvcIs, <1>0, <1>6 DEF bootRearm
<1>7. CASE s \in consoleGetty
  <2>1. \E r : s = Svc("getty-console", Exec("getty"), {"network"}, r)
    BY Zenon, <1>7 DEF consoleGetty
  <2> QED
    BY SvcIs, <1>0, <2>1
<1>3. CASE s \in asicRelease(b) \cup asicIRQ(b)
  BY SvcIs, <1>0, <1>3 DEF asicRelease, asicIRQ
<1>4. CASE s \in frontPanel(b) \cup frontPanelInit(b)
  BY SvcIs, <1>0, <1>4 DEF frontPanel, frontPanelInit
<1>5. CASE s \in datapath(b)
  <2>1. b.datapath /\ (s = switchMAC(b) \/ s = Svc("nosd", Exec("nosd"), nosdAfter(b), "always"))
    BY <1>5 DEF datapath
  <2>2. CASE s = switchMAC(b)
    BY SvcIs, <1>0, <2>1, <2>2 DEF switchMAC
  <2>3. CASE s = Svc("nosd", Exec("nosd"), nosdAfter(b), "always")
    <3>1. nosdAfter(b) \subseteq Names14
      BY DEF nosdAfter
    <3> QED
      BY SvcIs, <1>0, <2>1, <2>3, <3>1
  <2> QED
    BY <2>1, <2>2, <2>3
<1> QED
  BY <1>1, <1>2, <1>3, <1>4, <1>5, <1>6, <1>7 DEF stamp

(* writeS6: the unit of a name that the image declares, once, is what the image declares;
   and every unit is declared or waited for. *)
LEMMA Written ==
    ASSUME NEW earlier, NEW later, NEW u \in writeS6(earlier, later)
    PROVE  /\ \/ \E t \in earlier \cup later : t.name = u.name
              \/ \E t \in earlier \cup later : \E d \in t.after \cup t.wants : bareName(d) = u.name
           /\ \A t \in later : t.name = u.name =>
                  \E s \in later : /\ s.name = u.name
                                   /\ u.prog = s.exec.prog
                                   /\ u.type = GenerateS6(s).type
                                   /\ GenerateS6(s).deps \subseteq u.deps
<1> DEFINE all == earlier \cup later
           defined == {s.name : s \in all}
           referenced == UNION {{bareName(d) : d \in s.after \cup s.wants} : s \in all}
           last(n) == CHOOSE s \in IF \E t \in later : t.name = n THEN later ELSE earlier : s.name = n
           written(n) == UNION {GenerateS6(s).deps : s \in {t \in all : t.name = n}}
<1>1. CASE u \in {Stub(n) : n \in referenced \ defined}
  <2>1. PICK n \in referenced \ defined : u = Stub(n)
    BY <1>1
  <2>2. u.name = n
    BY <2>1 DEF Stub
  <2> QED
    BY Zenon, <2>1, <2>2
<1>2. CASE u \in {[GenerateS6(last(n)) EXCEPT !.deps = written(n)] : n \in defined}
  <2>1. PICK n \in defined : u = [GenerateS6(last(n)) EXCEPT !.deps = written(n)]
    BY Zenon, <1>2
  <2>2. \E t \in all : t.name = n
    BY Zenon, <2>1
  <2>3. last(n).name = n /\ last(n) \in all /\ ((\E t \in later : t.name = n) => last(n) \in later)
    BY Zenon, <2>2
  <2> HIDE DEF last
  <2>4. GenerateS6(last(n)).deps \subseteq written(n)
    BY Zenon, <2>3
  <2> HIDE DEF written
  <2>5. /\ u.name = last(n).name /\ u.prog = last(n).exec.prog /\ u.type = GenerateS6(last(n)).type
        /\ u.deps = written(n)
    BY <2>1 DEF GenerateS6
  <2>6. u.name = n
    BY Zenon, <2>3, <2>5
  <2> HIDE DEF defined, all
  <2> QED
    BY Zenon, <2>2, <2>3, <2>4, <2>5, <2>6 DEF all
<1> QED
  BY Zenon, <1>1, <1>2 DEF writeS6

LEMMA Exists ==
    ASSUME NEW earlier, NEW later, NEW t \in later
    PROVE  \E u \in writeS6(earlier, later) : u.name = t.name
<1> DEFINE all == earlier \cup later
           defined == {s.name : s \in all}
           referenced == UNION {{bareName(d) : d \in s.after \cup s.wants} : s \in all}
           last(n) == CHOOSE s \in IF \E v \in later : v.name = n THEN later ELSE earlier : s.name = n
           written(n) == UNION {GenerateS6(s).deps : s \in {v \in all : v.name = n}}
           u == [GenerateS6(last(t.name)) EXCEPT !.deps = written(t.name)]
<1>1. t.name \in defined
  BY Zenon
<1>2. u \in writeS6(earlier, later)
  BY Zenon, <1>1 DEF writeS6
<1>3. last(t.name).name = t.name
  BY Zenon
<1> HIDE DEF last, written
<1>4. u.name = last(t.name).name
  BY DEF GenerateS6
<1> HIDE DEF u
<1> QED
  BY Zenon, <1>2, <1>3, <1>4

(* The database of a board: nosd is a longrun that waits for all of nosdAfter, and the
   oneshots it needs are the ones that do the work. *)
LEMMA DatabaseHas ==
    ASSUME NEW b \in Boards
    PROVE  /\ \A u \in Database(b) : u.name = "nosd" =>
                  b.datapath /\ u.type = "longrun" /\ nosdAfter(b) \subseteq u.deps
           /\ b.datapath /\ b.hal = "scd" =>
                  /\ \E u \in Database(b) : u.name = "asic-release"
                  /\ \A u \in Database(b) : u.name = "asic-release" =>
                         u.type = "oneshot" /\ u.prog = "release-asic"
           /\ b.cages \/ b.panel =>
                  /\ \E u \in Database(b) : u.name = "transceivers"
                  /\ \A u \in Database(b) : u.name = "transceivers" =>
                         u.type = "oneshot" /\ u.prog \in {"tx-all-on", "front-panel-init"}
<1>0. /\ b.hal = "scd" => b.goCLI
      /\ b.cages \/ b.panel => IF Drives(b) THEN b.cages ELSE b.panel
      /\ ~b.datapath => \A s \in b.pkg :
             s.name # "nosd" /\ \A d \in s.after \cup s.wants : bareName(d) # "nosd"
  BY BoardsAssumption DEF Boards
<1>1. ASSUME NEW u \in Database(b), u.name = "nosd"
      PROVE  b.datapath /\ u.type = "longrun" /\ nosdAfter(b) \subseteq u.deps
  <2>1. b.datapath
    <3> SUFFICES ASSUME ~b.datapath PROVE FALSE
      OBVIOUS
    <3>1. \A s \in stamp(b) : s.name # "nosd" /\ \A d \in s.after \cup s.wants : bareName(d) # "nosd"
      BY Declared
    <3> QED
      BY <1>0, <1>1, <3>1, Written DEF Database
  <2>2. Svc("nosd", Exec("nosd"), nosdAfter(b), "always") \in stamp(b)
    BY Zenon, <2>1 DEF stamp, datapath
  <2> DEFINE nd == Svc("nosd", Exec("nosd"), nosdAfter(b), "always")
  <2>3. \A s \in stamp(b) : s.name = "nosd" => s = nd
    BY Declared
  <2>4. nd.name = "nosd" /\ nd.restart = "always" /\ nd.after = nosdAfter(b) /\ nd.wants = {}
    BY SvcIs
  <2>5. \A d \in nosdAfter(b) : bareName(d) = d
    BY <2>2, <2>4, Declared
  <2> HIDE DEF nd
  <2>6. u.type = GenerateS6(nd).type /\ GenerateS6(nd).deps \subseteq u.deps
    BY <1>1, <2>2, <2>3, <2>4, Written DEF Database, nd
  <2>7. GenerateS6(nd).type = "longrun" /\ GenerateS6(nd).deps = nosdAfter(b)
    <3>1. GenerateS6(nd).type = "longrun" /\ GenerateS6(nd).deps = {bareName(d) : d \in nosdAfter(b) \cup {}}
      BY <2>4 DEF GenerateS6
    <3> QED
      BY <2>5, <3>1
  <2> QED
    BY <2>1, <2>6, <2>7
<1>2. ASSUME b.datapath, b.hal = "scd"
      PROVE  /\ \E u \in Database(b) : u.name = "asic-release"
             /\ \A u \in Database(b) : u.name = "asic-release" =>
                    u.type = "oneshot" /\ u.prog = "release-asic"
  <2> DEFINE ar == Svc("asic-release", Exec("release-asic"), {}, "never")
  <2>1. Drives(b)
    BY <1>0, <1>2 DEF Drives, HasHAL
  <2>2. ar \in stamp(b)
    BY Zenon, <2>1, <1>2 DEF stamp, asicRelease
  <2>3. \A s \in stamp(b) : s.name = "asic-release" => s = ar
    BY Declared
  <2>4. ar.name = "asic-release" /\ ar.restart = "never" /\ ar.exec.prog = "release-asic"
    BY SvcIs DEF Exec
  <2> HIDE DEF ar
  <2>5. GenerateS6(ar).type = "oneshot"
    BY <2>4 DEF GenerateS6
  <2> QED
    BY <2>2, <2>3, <2>4, <2>5, Written, Exists DEF Database
<1>3. ASSUME b.cages \/ b.panel
      PROVE  /\ \E u \in Database(b) : u.name = "transceivers"
             /\ \A u \in Database(b) : u.name = "transceivers" =>
                    u.type = "oneshot" /\ u.prog \in {"tx-all-on", "front-panel-init"}
  <2> DEFINE tx == Svc("transceivers", Exec("tx-all-on"), {}, "never")
             fp == Svc("transceivers", Exec("front-panel-init"), {}, "never")
  <2>1. tx \in stamp(b) \/ fp \in stamp(b)
    BY Zenon, <1>0, <1>3 DEF stamp, frontPanel, frontPanelInit
  <2>2. \A s \in stamp(b) : s.name = "transceivers" => s = tx \/ s = fp
    BY Declared
  <2>3. /\ tx.name = "transceivers" /\ tx.restart = "never" /\ tx.exec.prog = "tx-all-on"
        /\ fp.name = "transceivers" /\ fp.restart = "never" /\ fp.exec.prog = "front-panel-init"
    BY SvcIs DEF Exec
  <2> HIDE DEF tx, fp
  <2>4. GenerateS6(tx).type = "oneshot" /\ GenerateS6(fp).type = "oneshot"
    BY <2>3 DEF GenerateS6
  <2>5. \E t \in stamp(b) : t.name = "transceivers"
    BY Zenon, <2>1, <2>3
  <2>6. \A u \in Database(b) : u.name = "transceivers" =>
            \E s \in stamp(b) : s.name = "transceivers" /\ u.prog = s.exec.prog /\ u.type = GenerateS6(s).type
    BY <2>5, Written DEF Database
  <2>7. \E u \in Database(b) : u.name = "transceivers"
    BY <2>5, Exists DEF Database
  <2> QED
    BY <2>2, <2>3, <2>4, <2>6, <2>7
<1> QED
  BY Zenon, <1>1, <1>2, <1>3
-----------------------------------------------------------------------------
LEMMA BootStarts == Init => BootInv
<1> SUFFICES ASSUME NEW sc \in Scenarios, PowerOn(sc.board, sc.fault) PROVE BootInv
  BY DEF Init
<1>1. board = sc.board /\ board \in Boards /\ db = Database(board)
  BY Zenon DEF PowerOn, Boards
<1>2. board.resets \cap SwitchResets = {}
  BY <1>1, BoardsAssumption
<1>3. ChipInv
  <2>1. DOMAIN rel = Procs /\ \A p \in Procs : rel[p] = [pc |-> rel[p].pc, before |-> rel[p].before] /\ rel[p].pc = "idle"
    BY DEF PowerOn, Idle
  <2>2. \A p \in Procs : Releasing(p)
    BY <2>1 DEF Releasing
  <2>3. held = (IF Needs THEN Lines ELSE {}) /\ (~Needs => bus = "decoding")
    BY <1>1 DEF PowerOn, Needs, Lines
  <2> QED
    BY <1>1, <2>1, <2>2, <2>3 DEF ChipInv, Lines
<1>4. StartInv
  BY DEF PowerOn, StartInv
<1> QED
  BY <1>3, <1>4 DEF BootInv

(* A step that leaves the lines, the chip and the commands alone. *)
LEMMA ChipUntouched ==
    ASSUME ChipInv, UNCHANGED <<image, fault, held, bus, rel>>
    PROVE  ChipInv'
<1>1. board' = board /\ db' = db /\ fault' = fault /\ held' = held /\ bus' = bus /\ rel' = rel
  BY DEF image
<1>2. \A p \in Procs : Releasing(p)'
  BY <1>1 DEF ChipInv, Releasing, Needs
<1> QED
  BY <1>1, <1>2 DEF ChipInv, Lines, Needs

(* The steps of release-asic only release lines, and never disable the chip. *)
LEMMA Released ==
    ASSUME NEW p \in Procs, ReleaseSwitchChip(p)
    PROVE  /\ held' \subseteq held /\ (bus = "decoding" => bus' = "decoding")
           /\ UNCHANGED <<board, db, fault, up, running, nosd, lit>>
<1>1. CASE openFor(p)
  BY <1>1 DEF openFor, image, services, hardware
<1>2. CASE releaseBoardResets(p)
  BY <1>2 DEF releaseBoardResets, Stay, image, services
<1>3. CASE ClearCore(p)
  BY <1>3 DEF ClearCore, Stay, image, services
<1>4. CASE ClearPCIe(p)
  BY <1>4 DEF ClearPCIe, Stay, image, services
<1>5. CASE Rescan(p)
  BY <1>5 DEF Rescan, Stay, image, services
<1>6. CASE enableMemorySpace(p)
  BY <1>6 DEF enableMemorySpace, Stay, image, services
<1>7. CASE CtxDone(p)
  BY <1>7 DEF CtxDone, Stay, image, services
<1> QED
  BY Zenon, <1>1, <1>2, <1>3, <1>4, <1>5, <1>6, <1>7 DEF ReleaseSwitchChip

(* The other command: what it has seen done is not undone by this one's step. *)
LEMMA OtherKept ==
    ASSUME ChipInv, NEW p \in Procs, NEW q \in Procs, q # p, ReleaseSwitchChip(p), rel'[q] = rel[q],
           fault = "dead" => held' = held
    PROVE  Releasing(q)'
<1>1. /\ held' \subseteq held /\ (bus = "decoding" => bus' = "decoding")
      /\ UNCHANGED <<board, fault>>
  BY Zenon, Released
<1>2. Releasing(q)
  BY DEF ChipInv
<1>3. Needs' = Needs
  BY <1>1 DEF Needs
<1> QED
  BY <1>1, <1>2, <1>3 DEF Releasing

LEMMA CommandKeeps ==
    ASSUME BootInv, NEW p \in Procs, ReleaseSwitchChip(p)
    PROVE  ChipInv'
<1> USE DEF BootInv
<1>0. /\ held' \subseteq held /\ (bus = "decoding" => bus' = "decoding")
      /\ board' = board /\ db' = db /\ fault' = fault
  BY Zenon, Released
<1>1. Needs' = Needs /\ Lines' = Lines
  BY <1>0 DEF Needs, Lines
<1>2. ASSUME NEW pc, NEW bf, rel' = [rel EXCEPT ![p] = [before |-> bf, pc |-> pc]],
             fault = "dead" => held' = held,
             Releasing(p)',
             SwitchResets \subseteq held' \/ held' \cap board.resets = {}
      PROVE  ChipInv'
  <2>1. DOMAIN rel' = Procs /\ \A q \in Procs : q # p => rel'[q] = rel[q]
    BY <1>2 DEF ChipInv
  <2>2. rel'[p] = [before |-> bf, pc |-> pc]
    BY <1>2 DEF ChipInv
  <2>3. \A q \in Procs : rel'[q] = [pc |-> rel'[q].pc, before |-> rel'[q].before]
    BY <2>1, <2>2 DEF ChipInv
  <2>4. \A q \in Procs : Releasing(q)'
    BY <1>2, <2>1, OtherKept
  <2>5. held' \subseteq Lines' /\ (~Needs' => held' = {} /\ bus' = "decoding")
    BY <1>0, <1>1 DEF ChipInv
  <2> QED
    BY <1>0, <1>2, <2>1, <2>3, <2>4, <2>5 DEF ChipInv
<1>3. ASSUME NEW pc, Goto(p, pc)
      PROVE  /\ rel' = [rel EXCEPT ![p] = [before |-> rel[p].before, pc |-> pc]]
             /\ rel'[p].pc = pc /\ rel'[p].before = rel[p].before
  <2>1. rel[p] = [pc |-> rel[p].pc, before |-> rel[p].before] /\ DOMAIN rel = Procs
    BY DEF ChipInv
  <2>2. rel' = [rel EXCEPT ![p] = [rel[p] EXCEPT !.pc = pc]]
    BY <1>3 DEF Goto
  <2>3. [rel[p] EXCEPT !.pc = pc] = [before |-> rel[p].before, pc |-> pc]
    BY <2>1
  <2> QED
    BY Zenon, <2>1, <2>2, <2>3
<1>4. Releasing(p) /\ DOMAIN rel = Procs /\ (~Needs => held = {} /\ bus = "decoding")
  BY DEF ChipInv
<1>5. CASE openFor(p)
  <2>1. PICK pc \in {"error", "open", "ok"} : Goto(p, pc) /\ (Needs => pc # "ok")
    BY <1>5 DEF openFor
  <2>2. held' = held
    BY <1>5 DEF openFor, hardware
  <2>3. Releasing(p)'
    BY <1>0, <1>1, <1>3, <2>1 DEF Releasing
  <2> QED
    BY <1>2, <1>3, <2>1, <2>2, <2>3 DEF ChipInv
<1>6. CASE releaseBoardResets(p)
  <2> DEFINE pc == IF held \cap SwitchResets = {} THEN "stat" ELSE "core"
  <2>1. /\ rel' = [rel EXCEPT ![p] = [before |-> held, pc |-> pc]]
        /\ held' = IF fault # "dead" THEN held \ board.resets ELSE held
    BY <1>6 DEF releaseBoardResets, Lands
  <2>2. rel'[p].pc = pc /\ rel'[p].before = held
    BY <1>4, <2>1
  <2>3. Needs /\ pc = "stat" => held' = {}
    BY Zenon, <2>1 DEF ChipInv, Lines, SwitchResets
  <2>4. Releasing(p)'
    BY <1>0, <1>1, <2>1, <2>2, <2>3 DEF Releasing
  <2>5. SwitchResets \subseteq held' \/ held' \cap board.resets = {}
    BY <2>1 DEF ChipInv
  <2> QED
    BY <1>2, <2>1, <2>4, <2>5
<1>7. CASE ClearCore(p)
  <2>1. Goto(p, "settle") /\ rel[p].pc = "core" /\ held' = IF fault # "dead" THEN held \ {"core"} ELSE held
    BY <1>7 DEF ClearCore, Lands, At
  <2>2. Releasing(p)'
    BY <1>0, <1>1, <1>3, <1>4, <2>1 DEF Releasing
  <2>3. SwitchResets \subseteq held' \/ held' \cap board.resets = {}
    BY <1>4, <2>1 DEF ChipInv, Releasing
  <2> QED
    BY <1>2, <1>3, <2>1, <2>2, <2>3
<1>8. CASE ClearPCIe(p)
  <2> DEFINE pc == IF held' = rel[p].before THEN "mapping" ELSE "stat"
  <2>1. Goto(p, pc) /\ rel[p].pc = "settle" /\ held' = IF fault # "dead" THEN held \ {"pcie"} ELSE held
    BY <1>8 DEF ClearPCIe, Lands, At
  <2>2. fault # "dead" => held' = {} /\ rel[p].before # {}
    BY <1>4, <2>1 DEF Releasing, ChipInv, Lines, SwitchResets
  <2>3. fault = "dead" => held' = rel[p].before
    BY <1>4, <2>1 DEF Releasing
  <2>4. pc = IF fault = "dead" THEN "mapping" ELSE "stat"
    BY <2>2, <2>3
  <2> HIDE DEF pc
  <2>5. Releasing(p)'
    BY <1>0, <1>1, <1>3, <2>1, <2>2, <2>3, <2>4 DEF Releasing
  <2>6. SwitchResets \subseteq held' \/ held' \cap board.resets = {}
    BY <2>1, <2>2 DEF ChipInv
  <2> QED
    BY <1>2, <1>3, <2>1, <2>5, <2>6
<1>9. CASE Rescan(p)
  <2>1. Goto(p, "wait") /\ rel[p].pc = "stat" /\ held' = held
    BY <1>9 DEF Rescan, At
  <2>2. Releasing(p)'
    BY <1>0, <1>1, <1>3, <1>4, <2>1 DEF Releasing
  <2> QED
    BY <1>2, <1>3, <2>1, <2>2 DEF ChipInv
<1>10. CASE enableMemorySpace(p)
  <2>1. Goto(p, "ok") /\ rel[p].pc = "wait" /\ held' = held /\ bus' = "decoding"
    BY <1>10 DEF enableMemorySpace, At
  <2>2. Releasing(p)'
    BY <1>0, <1>1, <1>3, <1>4, <2>1 DEF Releasing
  <2> QED
    BY <1>2, <1>3, <2>1, <2>2 DEF ChipInv
<1>11. CASE CtxDone(p)
  <2>1. Goto(p, "error") /\ held' = held
    BY <1>11 DEF CtxDone
  <2>2. Releasing(p)'
    BY <1>0, <1>1, <1>3, <2>1 DEF Releasing
  <2> QED
    BY <1>2, <1>3, <2>1, <2>2 DEF ChipInv
<1> QED
  BY Zenon, <1>5, <1>6, <1>7, <1>8, <1>9, <1>10, <1>11 DEF ReleaseSwitchChip

(* A command's end. *)
LEMMA ReadsKeeps ==
    ASSUME ChipInv, NEW p \in Procs, rel' = [rel EXCEPT ![p] = Idle], UNCHANGED <<image, fault, held, bus>>
    PROVE  ChipInv'
<1>1. board' = board /\ db' = db /\ fault' = fault /\ held' = held /\ bus' = bus
  BY DEF image
<1>2. DOMAIN rel' = Procs /\ rel'[p] = Idle /\ \A q \in Procs : q # p => rel'[q] = rel[q]
  BY DEF ChipInv
<1>3. \A q \in Procs : rel'[q] = [pc |-> rel'[q].pc, before |-> rel'[q].before]
  BY <1>2 DEF ChipInv, Idle
<1>4. Needs' = Needs
  BY <1>1 DEF Needs
<1>5. \A q \in Procs : Releasing(q)'
  BY <1>1, <1>2, <1>4 DEF ChipInv, Releasing, Idle
<1> QED
  BY <1>1, <1>2, <1>3, <1>4, <1>5 DEF ChipInv, Lines

LEMMA ChipStays == BootInv /\ [Next]_vars => ChipInv'
<1> SUFFICES ASSUME BootInv, [Next]_vars PROVE ChipInv'
  OBVIOUS
<1>0. ChipInv
  BY DEF BootInv
<1>1. ASSUME NEW p \in Procs, ReleaseSwitchChip(p) PROVE ChipInv'
  BY Zenon, <1>1, CommandKeeps
<1>2. CASE s6Init \/ Starts \/ ChangeEnds
  <2>1. UNCHANGED <<image, fault, held, bus, rel>>
    BY Zenon, <1>2 DEF s6Init, Starts, ChangeEnds, hardware
  <2> QED
    BY Zenon, <1>0, <2>1, ChipUntouched
<1>3. CASE PlainEnds \/ i2cDevicesScript \/ ProgramRetimer \/ setCageTX \/ applyNetwork
  <2>1. UNCHANGED <<image, fault, held, bus, rel>>
    BY Zenon, <1>3 DEF PlainEnds, i2cDevicesScript, ProgramRetimer, setCageTX, applyNetwork, Ends, hardware
  <2> QED
    BY Zenon, <1>0, <2>1, ChipUntouched
<1>4. CASE releaseASIC
  <2>1. rel' = [rel EXCEPT !["service"] = Idle] /\ UNCHANGED <<image, fault, held, bus>>
    BY Zenon, <1>4 DEF releaseASIC, Ends, hardware
  <2> QED
    BY <1>0, <2>1, ReadsKeeps DEF Procs
<1>5. CASE OperatorReads
  <2>1. rel' = [rel EXCEPT !["operator"] = Idle] /\ UNCHANGED <<image, fault, held, bus>>
    BY Zenon, <1>5 DEF OperatorReads, Stay
  <2> QED
    BY <1>0, <2>1, ReadsKeeps DEF Procs
<1>6. CASE Serves \/ Crashes \/ Reconciles \/ BringsUp \/ Shuts
  <2>1. UNCHANGED <<image, fault, held, bus, rel>>
    BY Zenon, <1>6 DEF Serves, Crashes, Reconciles, BringsUp, Shuts, hardware
  <2> QED
    BY Zenon, <1>0, <2>1, ChipUntouched
<1>7. CASE Repairs
  <2>1. /\ board' = board /\ db' = db /\ held' = held /\ bus' = bus /\ rel' = rel
        /\ \A p \in Procs : rel[p].pc = "idle"
    BY <1>7 DEF Repairs, image, hardware, Idle
  <2>2. \A p \in Procs : Releasing(p)'
    BY <2>1 DEF Releasing
  <2> QED
    BY <1>0, <2>1, <2>2 DEF ChipInv, Lines, Needs
<1>8. CASE Reboots
  <2>1. /\ board' = board /\ db' = db /\ rel' = [p \in Procs |-> Idle]
        /\ held' = held \/ held' = (IF Needs THEN Lines ELSE {})
        /\ ~Needs => bus' = bus
    BY <1>8 DEF Reboots, image
  <2>2. Needs' = Needs /\ Lines' = Lines
    BY <2>1 DEF Needs, Lines
  <2>3. DOMAIN rel' = Procs /\ \A p \in Procs : rel'[p] = [pc |-> "idle", before |-> {}]
    BY <2>1 DEF Idle
  <2>4. \A p \in Procs : Releasing(p)'
    BY <2>3 DEF Releasing
  <2>5. /\ held' \subseteq Lines
        /\ SwitchResets \subseteq held' \/ held' \cap board.resets = {}
        /\ ~Needs => held' = {} /\ bus' = "decoding"
    BY <1>0, <2>1 DEF ChipInv, Lines
  <2> QED
    BY <1>0, <2>1, <2>2, <2>3, <2>4, <2>5 DEF ChipInv
<1>9. CASE UNCHANGED vars
  <2>1. UNCHANGED <<image, fault, held, bus, rel>>
    BY Zenon, <1>9 DEF vars, image
  <2> QED
    BY Zenon, <1>0, <2>1, ChipUntouched
<1> QED
  BY Zenon, <1>1, <1>2, <1>3, <1>4, <1>5, <1>6, <1>7, <1>8, <1>9 DEF Next, Scripts, Rests

(* Services come up: nosd with all it waits for, and the two oneshots only with the
   chip released or the transmitters on. *)
LEMMA ComesUp ==
    ASSUME StartInv, NEW ns, up' = up \cup ns, "nosd" \notin running', UNCHANGED <<board, held, bus>>,
           lit => lit',
           "nosd" \in ns => board.datapath /\ nosdAfter(board) \subseteq up,
           nosd' # "off" => "nosd" \in up',
           board.datapath /\ Needs /\ "asic-release" \in ns => held = {} /\ bus = "decoding",
           board.datapath /\ (board.cages \/ board.panel) /\ "transceivers" \in ns => lit'
    PROVE  StartInv'
<1>1. Needs' = Needs
  BY DEF Needs
<1>2. "nosd" \in up' => board.datapath /\ nosdAfter(board) \subseteq up'
  BY DEF StartInv
<1>3. board.datapath /\ Needs /\ "asic-release" \in up' => held = {} /\ bus = "decoding"
  BY DEF StartInv
<1>4. board.datapath /\ (board.cages \/ board.panel) /\ "transceivers" \in up' => lit'
  BY DEF StartInv
<1> QED
  BY <1>1, <1>2, <1>3, <1>4 DEF StartInv

(* A script of a name that is none of these ends. *)
LEMMA EndsKeeps ==
    ASSUME StartInv, NEW ns, NEW ok \in BOOLEAN, Ends(ns, ok), UNCHANGED <<held, bus>>, lit => lit',
           ok /\ board.datapath /\ Needs /\ "asic-release" \in ns => held = {} /\ bus = "decoding",
           ok /\ board.datapath /\ (board.cages \/ board.panel) /\ "transceivers" \in ns => lit'
    PROVE  StartInv'
<1>1. /\ ns \subseteq running /\ running' = running \ ns
      /\ up' = up \cup (IF ok THEN ns ELSE {}) /\ board' = board /\ nosd' = nosd
  BY DEF Ends, image
<1>2. "nosd" \notin running' /\ "nosd" \notin ns /\ (nosd' # "off" => "nosd" \in up')
  BY <1>1 DEF StartInv
<1> QED
  BY Zenon, <1>1, <1>2, ComesUp

LEMMA StartStays == BootInv /\ [Next]_vars => StartInv'
<1> SUFFICES ASSUME BootInv, [Next]_vars PROVE StartInv'
  OBVIOUS
<1>0. ChipInv /\ StartInv
  BY DEF BootInv
<1>1. /\ \A u \in db : u.name = "nosd" =>
             board.datapath /\ u.type = "longrun" /\ nosdAfter(board) \subseteq u.deps
      /\ board.datapath /\ Needs =>
             /\ \E u \in db : u.name = "asic-release"
             /\ \A u \in db : u.name = "asic-release" => u.type = "oneshot" /\ u.prog = "release-asic"
      /\ board.cages \/ board.panel =>
             /\ \E u \in db : u.name = "transceivers"
             /\ \A u \in db : u.name = "transceivers" =>
                    u.type = "oneshot" /\ u.prog \in {"tx-all-on", "front-panel-init"}
  <2>1. board \in Boards /\ db = Database(board)
    BY <1>0 DEF ChipInv
  <2> QED
    BY <2>1, DatabaseHas DEF Needs
<1>2. ASSUME UNCHANGED <<board, up, running, held, bus>>, nosd' # "off" => nosd # "off", lit => lit'
      PROVE  StartInv'
  BY <1>0, <1>2 DEF StartInv, Needs
<1>3. ASSUME NEW p \in Procs, ReleaseSwitchChip(p) PROVE StartInv'
  <2>1. /\ held' \subseteq held /\ (bus = "decoding" => bus' = "decoding")
        /\ UNCHANGED <<board, up, running, nosd, lit>>
    BY Zenon, <1>3, Released
  <2> QED
    BY <1>0, <2>1 DEF StartInv, Needs
<1>4. CASE Starts
  <2>1. /\ up' = up \cup Of("longrun") /\ running' = running \cup Of("oneshot")
        /\ nosd' = IF "nosd" \in up' /\ nosd = "off" THEN "init" ELSE nosd
        /\ UNCHANGED <<board, held, bus, lit>>
    BY <1>4 DEF Starts, image, hardware
  <2>2. \A n, t : n \in Of(t) => \E u \in db : u.name = n /\ u.type = t /\ u.deps \subseteq up
    BY Zenon DEF Of, Ready
  <2>3. "nosd" \notin Of("oneshot")
    BY <1>1, <2>2
  <2>4. "nosd" \in Of("longrun") => board.datapath /\ nosdAfter(board) \subseteq up
    BY <1>1, <2>2
  <2>5. board.datapath /\ Needs => "asic-release" \notin Of("longrun")
    BY <1>1, <2>2
  <2>6. board.cages \/ board.panel => "transceivers" \notin Of("longrun")
    BY <1>1, <2>2
  <2>7. "nosd" \notin running' /\ (nosd' # "off" => "nosd" \in up')
    BY <1>0, <2>1, <2>3 DEF StartInv
  <2> QED
    BY <1>0, <2>1, <2>4, <2>5, <2>6, <2>7, ComesUp
<1>5. CASE PlainEnds
  <2> DEFINE ns == {n \in running : Unit(db, n).prog \in Plain}
  <2>1. Ends(ns, TRUE) /\ UNCHANGED <<held, bus, lit>>
    BY Zenon, <1>5 DEF PlainEnds, hardware
  <2>2. \A n : (\E u \in db : u.name = n) => Unit(db, n) \in db /\ Unit(db, n).name = n
    BY Zenon DEF Unit
  <2>3. board.datapath /\ Needs => Unit(db, "asic-release").prog = "release-asic"
    BY <1>1, <2>2
  <2>4. board.cages \/ board.panel => Unit(db, "transceivers").prog \in {"tx-all-on", "front-panel-init"}
    BY <1>1, <2>2
  <2>5. /\ board.datapath /\ Needs => "asic-release" \notin ns
        /\ board.cages \/ board.panel => "transceivers" \notin ns
    BY <2>3, <2>4 DEF Plain
  <2> HIDE DEF ns
  <2> QED
    BY Zenon, <1>0, <2>1, <2>5, EndsKeeps
<1>6. CASE i2cDevicesScript
  <2>1. Ends({"i2c-devices"}, fault # "part") /\ UNCHANGED <<held, bus, lit>>
    BY Zenon, <1>6 DEF i2cDevicesScript, hardware
  <2> QED
    BY Zenon, <1>0, <2>1, EndsKeeps
<1>7. CASE ProgramRetimer
  <2>1. Ends({"retimer"}, TRUE) /\ UNCHANGED <<held, bus, lit>>
    BY Zenon, <1>7 DEF ProgramRetimer
  <2> QED
    BY Zenon, <1>0, <2>1, EndsKeeps
<1>8. CASE setCageTX
  <2>1. Ends({"transceivers"}, fault # "cage") /\ UNCHANGED <<held, bus>> /\ lit' = (lit \/ fault # "cage")
    BY Zenon, <1>8 DEF setCageTX
  <2> QED
    BY Zenon, <1>0, <2>1, EndsKeeps
<1>9. CASE applyNetwork
  <2>1. Ends({"network-config"}, TRUE) /\ UNCHANGED <<held, bus, lit>>
    BY Zenon, <1>9 DEF applyNetwork, hardware
  <2> QED
    BY Zenon, <1>0, <2>1, EndsKeeps
<1>10. CASE releaseASIC
  <2>1. Ends({"asic-release"}, rel["service"].pc = "ok") /\ UNCHANGED <<held, bus, lit>>
    BY Zenon, <1>10 DEF releaseASIC, hardware, At
  <2>2. Needs /\ rel["service"].pc = "ok" => held = {} /\ bus = "decoding"
    BY <1>0 DEF ChipInv, Releasing, Procs
  <2> QED
    BY Zenon, <1>0, <2>1, <2>2, EndsKeeps
<1>11. CASE s6Init \/ ChangeEnds \/ OperatorReads \/ Reconciles \/ Repairs \/ BringsUp
  <2>1. UNCHANGED <<board, up, running, held, bus, nosd, lit>>
    BY Zenon, <1>11 DEF s6Init, ChangeEnds, OperatorReads, Reconciles, Repairs, BringsUp, Stay, image,
                        services, hardware
  <2> QED
    BY <1>2, <2>1
<1>12. CASE Serves \/ Crashes
  <2>1. UNCHANGED <<board, up, running, held, bus, lit>> /\ nosd # "off"
    BY <1>12 DEF Serves, Crashes, image, services, hardware
  <2> QED
    BY <1>2, <2>1
<1>13. CASE Shuts
  <2>1. /\ UNCHANGED <<board, running, held, bus, lit>>
        /\ \/ up' = {} /\ nosd' = "off"
           \/ UNCHANGED <<up, nosd>>
    BY Zenon, <1>13 DEF Shuts, image, hardware
  <2> QED
    BY <1>0, <1>2, <2>1 DEF StartInv
<1>14. CASE Reboots
  BY <1>14 DEF Reboots, StartInv
<1>15. CASE UNCHANGED vars
  <2>1. UNCHANGED <<board, up, running, held, bus, nosd, lit>>
    BY Zenon, <1>15 DEF vars
  <2> QED
    BY <1>2, <2>1
<1> QED
  BY Zenon, <1>3, <1>4, <1>5, <1>6, <1>7, <1>8, <1>9, <1>10, <1>11, <1>12, <1>13, <1>14, <1>15
  DEF Next, Scripts, Rests

LEMMA BootStays == BootInv /\ [Next]_vars => BootInv'
BY ChipStays, StartStays DEF BootInv

(* ForwardsReady: what nosd depends on reaches every service that releases, maps or
   lights the hardware it drives, on every board the assumption describes, and once it
   may run only the reboot that stops it holds the chip again. *)
THEOREM AlwaysForwardsReady == Spec => []ForwardsReady
<1>1. BootInv => ForwardsReady
  <2> SUFFICES ASSUME BootInv, nosd # "off"
               PROVE  held = {} /\ bus = "decoding" /\ (board.cages \/ board.panel => lit)
    BY DEF ForwardsReady
  <2>1. ChipInv /\ StartInv
    BY DEF BootInv
  <2>2. board.datapath /\ nosdAfter(board) \subseteq up
    BY <2>1 DEF StartInv
  <2>3. /\ board.hal = "scd" => board.goCLI
        /\ board.cages \/ board.panel => IF Drives(board) THEN board.cages ELSE board.panel
    BY Zenon, <2>1, BoardsAssumption DEF ChipInv, Boards
  <2>4. Needs => "asic-release" \in up
    BY <2>2, <2>3 DEF Needs, nosdAfter, Drives, HasHAL
  <2>5. board.cages \/ board.panel => "transceivers" \in up
    BY <2>2, <2>3 DEF nosdAfter
  <2> QED
    BY <2>1, <2>2, <2>4, <2>5 DEF ChipInv, StartInv
<1> QED
  BY BootStarts, BootStays, <1>1, PTL DEF Spec

(* BlamesRightly: a release-asic finds its writes without effect only where they have
   none, whatever the other one, the service's or the operator's, writes between its
   steps and wherever an earlier attempt stopped. *)
THEOREM AlwaysBlamesRightly == Spec => []BlamesRightly
<1>1. BootInv => BlamesRightly
  BY DEF BootInv, ChipInv, Releasing, BlamesRightly, At
<1> QED
  BY BootStarts, BootStays, <1>1, PTL DEF Spec
-----------------------------------------------------------------------------
Word ==
    [kind : {"address"}, d : {0, 1}] \cup [kind : {"index"}, d : Registers]
        \cup [kind : {"fetch"}, d : {0}] \cup [kind : {"store"}, d : Values]
Response == [d : Values \cup {0}, err : BOOLEAN]
User ==
    [pc : {"off", "enter", "reset", "send", "poll", "drain", "ok", "error"}, op : {"read", "write"},
     reg : Registers \cup {0}, val : Values \cup {0}, sent : Nat, got : Values \cup {0}]

(* What the queues, the device and the user hold.  What responses a killed user has
   left behind does not matter. *)
SmbTypeOK ==
    /\ dev \in [Registers -> Values]
    /\ latched \in Registers
    /\ nak \in BOOLEAN /\ csRst \in BOOLEAN
    /\ req \in Seq(Word)
    /\ user \in User
    /\ user.pc # "off" => user.reg \in Registers /\ (user.op = "write" => user.val \in Values)

Total == IF user.op = "read" THEN 4 ELSE 3

(* A transfer that has entered is alone in the accelerator: the responses are to its
   first words and the requests are its next ones, in order; the responses carry the
   acknowledgement so far, and while there is one the device is where the words
   executed put it. *)
Alone ==
    /\ ~csRst
    /\ resp \in Seq(Response)
    /\ Len(resp) + Len(req) = user.sent
    /\ user.sent <= Total /\ (user.sent = Total <=> user.pc # "send")
    /\ \A i \in 1 .. Len(req) : req[i] = Words[Len(resp) + i]
    /\ Len(resp) >= 1 => resp[Len(resp)].err = nak
    /\ Len(resp) >= 2 /\ ~nak => latched = user.reg
    /\ Len(resp) >= 3 /\ ~nak /\ user.op = "write" => dev[user.reg] = user.val
    /\ Len(resp) >= 4 /\ ~nak => resp[4].d = dev[user.reg]
    /\ user.pc = "drain" => req = <<>>

SmbInv ==
    /\ SmbTypeOK
    /\ user.pc \in {"enter", "reset"} => user.sent = 0
    /\ user.pc \in {"send", "poll", "drain"} => Alone
    /\ user.pc = "ok" => req = <<>>
    /\ ReadsItsOwn

(* The words of a transfer. *)
LEMMA WordsAre ==
    ASSUME SmbTypeOK, user.pc # "off"
    PROVE  /\ Len(Words) = Total
           /\ \A i \in 1 .. Total : Words[i] \in Word
           /\ Words[1] = smbReq("address", 0) /\ Words[2] = smbReq("index", user.reg)
           /\ user.op = "read" => Words[3] = smbReq("address", 1) /\ Words[4] = smbReq("fetch", 0)
           /\ user.op = "write" => Words[3] = smbReq("store", user.val)
<1>1. CASE user.op = "read"
  BY <1>1 DEF Words, readWords, smbReq, Total, SmbTypeOK, User, Word
<1>2. CASE user.op = "write"
  BY <1>2 DEF Words, writeWords, smbReq, Total, SmbTypeOK, User, Word
<1> QED
  BY <1>1, <1>2 DEF SmbTypeOK, User

(* The accelerator executes the transfer's next word. *)
LEMMA ExecuteAlone ==
    ASSUME SmbInv, user.pc \in {"send", "poll", "drain"}, Execute
    PROVE  SmbInv'
<1> DEFINE w == Head(req)
           k == Len(resp)
           begun == w.kind = "address" /\ w.d = 0
<1>1. Alone /\ SmbTypeOK
  BY DEF SmbInv
<1>2. /\ req # <<>> /\ req \in Seq(Word) /\ resp \in Seq(Response) /\ k \in Nat /\ Len(req) \in Nat
      /\ Len(req) >= 1 /\ w = req[1] /\ user.pc # "drain" /\ UNCHANGED <<csRst, user>>
  BY <1>1 DEF Execute, Alone, SmbTypeOK
<1>3. w = Words[k + 1] /\ k + 1 <= Total /\ w \in Word
  BY <1>1, <1>2, WordsAre DEF Alone
<1>4. PICK err \in BOOLEAN :
        /\ nak' = (err \/ (nak /\ ~begun))
        /\ latched' = IF w.kind = "index" /\ ~nak' THEN w.d ELSE latched
        /\ dev' = IF w.kind = "store" /\ ~nak' THEN [dev EXCEPT ![latched] = w.d] ELSE dev
        /\ resp' = Append(resp, [d |-> IF w.kind = "fetch" THEN dev[latched] ELSE 0, err |-> nak'])
  BY DEF Execute
<1>5. req' = Tail(req) /\ req' \in Seq(Word) /\ Len(req') = Len(req) - 1
      /\ \A i \in 1 .. Len(req') : req'[i] = req[i + 1]
  BY <1>2 DEF Execute
<1>6. nak \in BOOLEAN /\ nak' \in BOOLEAN /\ latched \in Registers /\ dev \in [Registers -> Values]
  BY <1>1, <1>4 DEF SmbTypeOK
<1>7. dev' \in [Registers -> Values] /\ latched' \in Registers
  BY <1>3, <1>4, <1>6 DEF Word
<1>8. SmbTypeOK'
  BY <1>1, <1>2, <1>5, <1>6, <1>7 DEF SmbTypeOK
<1>9. [d |-> IF w.kind = "fetch" THEN dev[latched] ELSE 0, err |-> nak'] \in Response
  BY <1>6 DEF Response
<1>10. /\ resp' \in Seq(Response) /\ Len(resp') = k + 1
       /\ resp'[k + 1] = [d |-> IF w.kind = "fetch" THEN dev[latched] ELSE 0, err |-> nak']
  BY <1>2, <1>4, <1>9
<1> HIDE DEF w, k
<1>11. Words' = Words /\ Total' = Total /\ user.pc # "off"
  BY <1>2 DEF Words, Total
<1>12. \A i \in 1 .. Len(req') : req'[i] = Words'[Len(resp') + i]
  <2> SUFFICES ASSUME NEW i \in 1 .. Len(req') PROVE req'[i] = Words[(k + 1) + i]
    BY <1>10, <1>11
  <2>1. i + 1 \in 1 .. Len(req) /\ req'[i] = req[i + 1]
    BY <1>2, <1>5
  <2>2. req[i + 1] = Words[k + (i + 1)]
    BY <1>1, <2>1 DEF Alone, k
  <2>3. k + (i + 1) = (k + 1) + i
    BY <1>2
  <2> QED
    BY <2>1, <2>2, <2>3
<1>13. ASSUME ~nak', k + 1 >= 2 PROVE ~nak
  <2>1. k + 1 = 2 \/ k + 1 = 3 \/ (k + 1 = 4 /\ user.op = "read")
    BY <1>1, <1>2, <1>3, <1>13 DEF Total, SmbTypeOK, User
  <2>2. ~(w.kind = "address" /\ w.d = 0)
    BY <1>1, <1>3, <1>11, <2>1, WordsAre DEF smbReq, SmbTypeOK, User
  <2> QED
    BY Zenon, <1>4, <1>13, <2>2
<1>14. ASSUME k + 1 >= 2, ~nak' PROVE latched' = user.reg
  <2>1. CASE k + 1 = 2
    BY <1>1, <1>3, <1>4, <1>11, <1>14, <2>1, WordsAre DEF smbReq
  <2>2. CASE k + 1 > 2
    <3>1. latched = user.reg
      BY <1>1, <1>2, <1>13, <1>14, <2>2 DEF Alone, k
    <3>2. w.kind # "index"
      BY <1>1, <1>2, <1>3, <1>11, <2>2, WordsAre DEF smbReq, Total, SmbTypeOK, User
    <3> QED
      BY <1>4, <3>1, <3>2
  <2> QED
    BY <1>2, <1>14, <2>1, <2>2
<1>15. ASSUME k + 1 >= 3, ~nak' PROVE latched' = user.reg /\ latched = user.reg /\ user.reg \in Registers
  <2>1. latched = user.reg
    BY <1>1, <1>2, <1>13, <1>15 DEF Alone, k
  <2> QED
    BY <1>2, <1>6, <1>14, <1>15, <2>1
<1>16. ASSUME k + 1 >= 3, ~nak', user.op = "write" PROVE dev'[user.reg] = user.val
  <2>1. k + 1 = 3
    BY <1>2, <1>3, <1>16 DEF Total
  <2>2. w = smbReq("store", user.val)
    BY <1>1, <1>3, <1>11, <1>16, <2>1, WordsAre
  <2>3. dev' = [dev EXCEPT ![latched] = user.val]
    BY <1>4, <1>16, <2>2 DEF smbReq
  <2> QED
    BY <1>6, <1>15, <1>16, <2>3
<1>17. ASSUME k + 1 >= 4, ~nak' PROVE resp'[4].d = dev'[user.reg]
  <2>1. k + 1 = 4 /\ user.op = "read"
    BY <1>1, <1>2, <1>3, <1>17 DEF Total, SmbTypeOK, User
  <2>2. w = smbReq("fetch", 0)
    BY <1>1, <1>3, <1>11, <2>1, WordsAre
  <2>3. dev' = dev /\ resp'[4].d = dev[latched]
    BY <1>4, <1>10, <2>1, <2>2 DEF smbReq
  <2> QED
    BY <1>2, <1>15, <1>17, <2>3
<1>18. resp'[Len(resp')].err = nak'
  BY <1>10
<1>19. Len(resp') + Len(req') = user.sent
  BY <1>1, <1>2, <1>5, <1>10 DEF Alone, k
<1>20. Alone'
  BY <1>1, <1>2, <1>10, <1>11, <1>12, <1>14, <1>16, <1>17, <1>18, <1>19 DEF Alone
<1> QED
  BY <1>2, <1>8, <1>20 DEF SmbInv, ReadsItsOwn

(* An idle accelerator that is not held in reset is a transfer's own, and nothing of
   it has been sent. *)
LEMMA EntersAlone ==
    ASSUME SmbInv, user.pc \in {"enter", "reset"}, csIdle,
           ~csRst', csRst' \in BOOLEAN, user' = [user EXCEPT !.pc = "send"],
           UNCHANGED <<dev, latched, nak, req, resp>>
    PROVE  SmbInv'
<1>1. SmbTypeOK'
  BY DEF SmbInv, SmbTypeOK, User
<1>2. user'.pc = "send" /\ user'.sent = 0 /\ user'.op = user.op /\ user.op \in {"read", "write"}
  BY DEF SmbInv, SmbTypeOK, User
<1>3. req' = <<>> /\ resp' = <<>>
  BY DEF csIdle
<1>4. Alone'
  BY <1>2, <1>3 DEF Alone, Total
<1> QED
  BY <1>1, <1>2, <1>4 DEF SmbInv, ReadsItsOwn

(* A user begins, dies or gives up: no transfer is under way. *)
LEMMA NotUnderWay ==
    ASSUME SmbTypeOK', user'.pc \in {"off", "enter", "reset", "error"},
           user'.pc \in {"enter", "reset"} => user'.sent = 0
    PROVE  SmbInv'
BY DEF SmbInv, ReadsItsOwn

(* The queues are drained of all the responses, which are the transfer's own. *)
LEMMA DrainsItsOwn ==
    ASSUME SmbInv, ReadDrained \/ WriteDrained
    PROVE  SmbInv'
<1>1. Alone /\ SmbTypeOK /\ user.pc = "drain"
  BY DEF SmbInv, ReadDrained, WriteDrained
<1>2. /\ req = <<>> /\ Len(resp) = Total /\ resp \in Seq(Response) /\ user.sent = Total
      /\ user.reg \in Registers /\ user.op \in {"read", "write"}
  BY <1>1 DEF Alone, SmbTypeOK, User, Total
<1>3. resp[Len(resp)].err = nak /\ resp[Len(resp)] \in Response
  BY <1>1, <1>2 DEF Alone, Total
<1>4. CASE ReadDrained
  <2>1. user.op = "read" /\ Total = 4 /\ UNCHANGED <<dev, latched, nak, csRst, req>>
    BY <1>4 DEF ReadDrained, Total
  <2>2. user' = [user EXCEPT !.got = resp[4].d, !.pc = IF resp[4].err THEN "error" ELSE "ok"]
    BY <1>2, <1>4, <2>1 DEF ReadDrained, Bad
  <2>3. resp[4].err = nak /\ resp[4].d \in Values \cup {0}
    BY <1>2, <1>3, <2>1 DEF Response
  <2>4. SmbTypeOK'
    BY Zenon, <1>1, <2>1, <2>2, <2>3 DEF SmbTypeOK, User
  <2>5. CASE nak
    BY <1>1, <2>2, <2>3, <2>4, <2>5, NotUnderWay DEF SmbTypeOK, User
  <2>6. CASE ~nak
    <3>1. resp[4].d = dev[user.reg]
      BY <1>1, <1>2, <2>1, <2>6 DEF Alone
    <3>2. user'.pc = "ok" /\ user'.got = dev[user.reg] /\ user'.reg = user.reg /\ user'.op = "read"
      BY <1>1, <2>1, <2>2, <2>3, <2>6, <3>1 DEF SmbTypeOK, User
    <3> QED
      BY <1>2, <2>1, <2>4, <3>2 DEF SmbInv, ReadsItsOwn
  <2> QED
    BY <2>5, <2>6
<1>5. CASE WriteDrained
  <2> DEFINE bad == {i \in DOMAIN resp : Bad(resp[i])}
  <2>1. user.op = "write" /\ Total = 3 /\ UNCHANGED <<dev, latched, nak, csRst, req>>
    BY <1>5 DEF WriteDrained, Total
  <2>2. user' = [user EXCEPT !.pc = IF bad = {} THEN "ok" ELSE "error"]
    BY <1>5 DEF WriteDrained
  <2>3. SmbTypeOK'
    BY <1>1, <2>1, <2>2 DEF SmbTypeOK, User
  <2>4. CASE bad # {}
    BY <1>1, <2>2, <2>3, <2>4, NotUnderWay DEF SmbTypeOK, User
  <2>5. CASE bad = {}
    <3>1. 3 \in DOMAIN resp /\ ~resp[3].err
      BY <1>2, <2>1, <2>5 DEF Bad
    <3>2. ~nak
      BY <1>2, <1>3, <2>1, <3>1
    <3>3. dev[user.reg] = user.val
      BY <1>1, <1>2, <2>1, <3>2 DEF Alone
    <3>4. user'.pc = "ok" /\ user'.val = user.val /\ user'.reg = user.reg /\ user'.op = "write"
      BY <1>1, <2>1, <2>2, <2>5 DEF SmbTypeOK, User
    <3> QED
      BY <1>2, <2>1, <2>3, <3>3, <3>4 DEF SmbInv, ReadsItsOwn
  <2> QED
    BY <2>4, <2>5
<1> QED
  BY <1>4, <1>5

(* Every step keeps the invariant. *)
LEMMA SmbInvNext ==
    ASSUME SmbInv, [SmbNext]_smbVars
    PROVE  SmbInv'
<1>0. SmbTypeOK /\ user \in User
  BY DEF SmbInv, SmbTypeOK
<1>1. ASSUME NEW op \in {"read", "write"}, NEW r \in Registers, NEW v \in Values \cup {0}, Begin(op, r, v),
             op = "write" => v \in Values
      PROVE  SmbInv'
  <2>1. /\ user' = [pc |-> "enter", op |-> op, reg |-> r, val |-> v, sent |-> 0, got |-> 0]
        /\ UNCHANGED <<dev, latched, nak, csRst, req>>
    BY Zenon, <1>1 DEF Begin, NoUser, accelerator
  <2>2. SmbTypeOK'
    BY <1>0, <1>1, <2>1 DEF SmbTypeOK, User
  <2> QED
    BY <2>1, <2>2, NotUnderWay
<1>2. CASE smbEnter
  <2>1. CASE csIdle
    BY Zenon, <1>2, <2>1, EntersAlone DEF smbEnter
  <2>2. CASE ~csIdle
    <3>1. user' = [user EXCEPT !.pc = "reset"] /\ csRst' = TRUE /\ UNCHANGED <<dev, latched, nak, req>>
      BY Zenon, <1>2, <2>2 DEF smbEnter
    <3>2. SmbTypeOK'
      BY <1>0, <1>2, <3>1 DEF smbEnter, SmbTypeOK, User
    <3>3. user'.pc = "reset" /\ user'.sent = 0
      BY <1>0, <1>2, <3>1 DEF smbEnter, SmbInv, User
    <3> QED
      BY <3>2, <3>3, NotUnderWay
  <2> QED
    BY <2>1, <2>2
<1>3. CASE smbReset
  <2>1. CASE csIdle
    BY Zenon, <1>3, <2>1, EntersAlone DEF smbReset
  <2>2. CASE ~csIdle
    <3>1. user' = [user EXCEPT !.pc = "error"] /\ UNCHANGED <<dev, latched, nak, csRst, req>>
      BY <1>3, <2>2 DEF smbReset
    <3>2. SmbTypeOK' /\ user'.pc = "error"
      BY <1>0, <1>3, <3>1 DEF smbReset, SmbTypeOK, User
    <3> QED
      BY <3>2, NotUnderWay
  <2> QED
    BY <2>1, <2>2
<1>4. CASE Send
  <2>1. /\ user.pc = "send" /\ Alone /\ req' = Append(req, Words[user.sent + 1])
        /\ UNCHANGED <<dev, latched, nak, csRst, resp>>
    BY <1>4 DEF Send, SmbInv
  <2>2. /\ user.sent \in Nat /\ user.sent < Total /\ Len(Words) = Total /\ Words[user.sent + 1] \in Word
        /\ req \in Seq(Word) /\ resp \in Seq(Response) /\ Total \in Nat
        /\ Len(resp) \in Nat /\ Len(req) \in Nat /\ Len(resp) + Len(req) = user.sent
    BY <1>0, <2>1, WordsAre DEF Alone, SmbTypeOK, User, Total
  <2>3. user' = [user EXCEPT !.sent = user.sent + 1, !.pc = IF user.sent + 1 = Total THEN "poll" ELSE "send"]
    BY <1>4, <2>2 DEF Send
  <2>4. /\ user'.sent = user.sent + 1 /\ user'.op = user.op /\ user'.reg = user.reg /\ user'.val = user.val
        /\ user'.pc = IF user.sent + 1 = Total THEN "poll" ELSE "send"
    BY <1>0, <2>3 DEF User
  <2>5. Words' = Words /\ Total' = Total
    BY <2>4 DEF Words, Total
  <2>6. req' \in Seq(Word) /\ Len(req') = Len(req) + 1 /\ req'[Len(req) + 1] = Words[user.sent + 1]
        /\ \A i \in 1 .. Len(req) : req'[i] = req[i]
    BY <2>1, <2>2
  <2>7. SmbTypeOK'
    <3>1. user' \in User
      <4>1. user.sent + 1 \in Nat
        BY <2>2
      <4>2. CASE user' = [user EXCEPT !.sent = user.sent + 1, !.pc = "poll"]
        BY Zenon, <1>0, <4>1, <4>2 DEF User
      <4>3. CASE user' = [user EXCEPT !.sent = user.sent + 1, !.pc = "send"]
        BY Zenon, <1>0, <4>1, <4>3 DEF User
      <4> QED
        BY Zenon, <2>3, <4>2, <4>3
    <3>2. user.pc # "off" /\ user.reg \in Registers /\ (user.op = "write" => user.val \in Values)
      BY <1>0, <2>1 DEF SmbTypeOK
    <3> QED
      BY <1>0, <2>1, <2>4, <2>6, <3>1, <3>2 DEF SmbTypeOK
  <2>8. \A i \in 1 .. Len(req') : req'[i] = Words'[Len(resp') + i]
    <3> SUFFICES ASSUME NEW i \in 1 .. Len(req') PROVE req'[i] = Words[Len(resp) + i]
      BY <2>1, <2>5
    <3>1. CASE i = Len(req) + 1
      BY <2>2, <2>6, <3>1
    <3>2. CASE i # Len(req) + 1
      <4>1. i \in 1 .. Len(req)
        BY <2>2, <2>6, <3>2
      <4> QED
        BY <2>1, <2>6, <4>1 DEF Alone
    <3> QED
      BY <3>1, <3>2
  <2>9. Len(resp') + Len(req') = user'.sent /\ user'.sent <= Total /\ (user'.sent = Total <=> user'.pc # "send")
    BY <2>1, <2>2, <2>4, <2>6
  <2>10. Alone'
    BY <2>1, <2>2, <2>4, <2>5, <2>8, <2>9 DEF Alone
  <2> QED
    BY <2>4, <2>7, <2>10 DEF SmbInv, ReadsItsOwn
<1>5. CASE Poll
  <2>1. user.pc = "poll" /\ Alone /\ UNCHANGED <<dev, latched, nak, csRst, req, resp>>
    BY <1>5 DEF Poll, SmbInv, accelerator
  <2>2. CASE user' = [user EXCEPT !.pc = "error"]
    <3>1. SmbTypeOK' /\ user'.pc = "error"
      BY <1>0, <2>1, <2>2 DEF SmbTypeOK, User
    <3> QED
      BY <3>1, NotUnderWay
  <2>3. CASE Len(resp) >= Len(Words) /\ user' = [user EXCEPT !.pc = "drain"]
    <3>1. Len(resp) >= Total
      BY <1>0, <2>1, <2>3, WordsAre
    <3>2. /\ user'.sent = user.sent /\ user'.op = user.op /\ user'.reg = user.reg /\ user'.val = user.val
          /\ user'.pc = "drain"
      BY <1>0, <2>3 DEF User
    <3>3. req = <<>>
      <4>1. Len(resp) + Len(req) = user.sent /\ user.sent <= Total /\ Len(req) \in Nat /\ Len(resp) \in Nat
        BY <1>0, <2>1 DEF Alone, SmbTypeOK
      <4>2. Len(req) = 0
        BY <3>1, <4>1 DEF Total
      <4> QED
        BY <1>0, <4>2 DEF SmbTypeOK
    <3>4. Words' = Words /\ Total' = Total
      BY <3>2 DEF Words, Total
    <3>5. SmbTypeOK'
      BY <1>0, <2>1, <2>3 DEF SmbTypeOK, User
    <3>6. Alone'
      BY <2>1, <3>2, <3>3, <3>4 DEF Alone
    <3> QED
      BY <3>2, <3>5, <3>6 DEF SmbInv, ReadsItsOwn
  <2> QED
    BY <1>5, <2>2, <2>3 DEF Poll
<1>6. CASE ReadDrained \/ WriteDrained
  BY <1>6, DrainsItsOwn
<1>7. CASE Dies
  <2>1. SmbTypeOK' /\ user'.pc = "off"
    BY <1>0, <1>7 DEF Dies, NoUser, accelerator, SmbTypeOK, User
  <2> QED
    BY <2>1, NotUnderWay
<1>8. CASE Execute
  <2>1. CASE user.pc \in {"send", "poll", "drain"}
    BY <1>8, <2>1, ExecuteAlone
  <2>2. CASE user.pc \notin {"send", "poll", "drain"}
    <3>1. req # <<>> /\ req \in Seq(Word) /\ UNCHANGED <<csRst, user>> /\ req' = Tail(req)
      BY <1>0, <1>8 DEF Execute, SmbTypeOK
    <3>2. Head(req) \in Word /\ req' \in Seq(Word)
      BY <3>1
    <3>3. dev' \in [Registers -> Values] /\ latched' \in Registers /\ nak' \in BOOLEAN
      BY <1>0, <1>8, <3>2 DEF Execute, SmbTypeOK, Word
    <3>4. SmbTypeOK'
      BY <1>0, <3>1, <3>2, <3>3 DEF SmbTypeOK
    <3>5. user.pc # "ok"
      BY <3>1 DEF SmbInv
    <3> QED
      BY <2>2, <3>1, <3>4, <3>5 DEF SmbInv, ReadsItsOwn
  <2> QED
    BY <2>1, <2>2
<1>9. CASE Flush
  <2>1. csRst /\ req' = <<>> /\ UNCHANGED <<dev, latched, nak, csRst, user>>
    BY <1>9 DEF Flush
  <2>2. user.pc \notin {"send", "poll", "drain"}
    BY Zenon, <2>1 DEF SmbInv, Alone
  <2>3. SmbTypeOK'
    BY <1>0, <2>1 DEF SmbTypeOK
  <2> QED
    BY <2>1, <2>2, <2>3 DEF SmbInv, ReadsItsOwn
<1>10. ASSUME UNCHANGED <<dev, latched, nak, csRst, req, resp, user>> PROVE SmbInv'
  BY <1>10 DEF SmbInv, SmbTypeOK, Alone, Total, Words, ReadsItsOwn
<1>11. CASE Hangs \/ Recovers \/ SmbStops \/ UNCHANGED smbVars
  BY <1>10, <1>11 DEF Hangs, Recovers, SmbStops, smbVars
<1> QED
  BY <1>1, <1>2, <1>3, <1>4, <1>5, <1>6, <1>7, <1>8, <1>9, <1>11 DEF SmbNext

(* scdsmbus: a transfer that succeeds is one's own, however many users were killed,
   refused or hung before it and whatever they left in the accelerator. *)
THEOREM ReadsItsOwnAlways == SmbSpec => []ReadsItsOwn
<1>1. SmbInit => SmbInv
  <2> SUFFICES ASSUME SmbInit PROVE SmbInv
    OBVIOUS
  <2>1. user \in User /\ user.pc = "off"
    BY DEF SmbInit, NoUser, User
  <2>2. req \in Seq(Word)
    <3>1. req = <<>>
      BY DEF SmbInit
    <3> QED
      BY <3>1
  <2>3. nak \in BOOLEAN
    BY Zenon DEF SmbInit
  <2>4. SmbTypeOK
    BY <2>1, <2>2, <2>3 DEF SmbInit, SmbTypeOK
  <2> QED
    BY <2>1, <2>4 DEF SmbInv, ReadsItsOwn
<1>2. SmbInv /\ [SmbNext]_smbVars => SmbInv'
  BY SmbInvNext
<1>3. SmbInv => ReadsItsOwn
  BY DEF SmbInv
<1> QED
  BY <1>1, <1>2, <1>3, PTL DEF SmbSpec
=============================================================================
