------------------------------ MODULE MCImage -------------------------------
(***************************************************************************)
(* Small instances of an image and what becomes of it: how it is composed  *)
(* from packages (Image), how a slot of a partitioned disk is written,     *)
(* tried and committed (Upgrade), and how the switch's own settings come   *)
(* through (Config).  They share no state: the scene, chosen at the start, *)
(* says which one runs, and the others rest.                               *)
(***************************************************************************)
EXTENDS MCUpgrade, Image, Config

VARIABLE scene
allVars == <<scene, vars, imgVars, confVars>>
-----------------------------------------------------------------------------
(* Versions and packages.                                                  *)
V(core, pre) == [core |-> core, pre |-> pre]
V1_2 == V(<<Number(1), Number(2)>>, <<>>)
V1_10 == V(<<Number(1), Number(10)>>, <<>>)
V1_2rc2 == V(<<Number(1), Number(2)>>, <<<<Letters(1), Digits(2)>>>>)
V1_2rc10 == V(<<Number(1), Number(2)>>, <<<<Letters(1), Digits(10)>>>>)
V1_2a == V(<<Number(1), <<Digits(2), Letters(1)>>>>, <<>>)
V1_ == V(<<Number(1), <<>>>>, <<>>)

Bare(names) == [i \in DOMAIN names |-> Unconstrained(names[i])]
LinkTo(how, dir, name) == Link([how |-> how, prefix |-> "", dir |-> dir, name |-> name])
Plain1(prefix, dir, name) == Entry(<<prefix, dir, name>>, File(name, "plain", 0))

Noarch == [version |-> V1_2, arch |-> "any", provides |-> {}, conflicts |-> {},
           depends |-> <<>>, redistributable |-> TRUE, users |-> {}, local |-> "",
           subdir |-> "", compiles |-> {}, entries |-> {}]
Busybox == [Noarch EXCEPT !.entries =
    {Plain1("", "bin", "busybox"), Entry(<<"", "bin", "ip">>, LinkTo("here", "", "busybox")),
     Entry(<<"", "sbin", "reboot">>, LinkTo("up", "bin", "busybox"))}]
Iproute2 == [Noarch EXCEPT !.depends = Bare(<<"busybox">>),
    !.entries = {Entry(<<"", "bin", "ip">>, File("iproute2", "plain", 0))}]
Systemd == [Noarch EXCEPT !.entries =
    {Plain1("usr", "bin", "systemctl"),
     Entry(<<"usr", "sbin", "reboot">>, LinkTo("up", "bin", "systemctl"))}]
Linux == [Noarch EXCEPT !.entries = {Plain1("", "boot", "vmlinuz")}]
Helper(name) == [Noarch EXCEPT !.entries =
    {Entry(<<"usr", "bin", name>>, File(name, "setuid", 0))}]
Frr == [Noarch EXCEPT !.users = {101},
    !.entries = {Entry(<<"", "etc", "frr.conf">>, File("frr", "plain", 101))}]
Datapath(dir) == [Noarch EXCEPT !.arch = "x86", !.redistributable = FALSE,
    !.provides = {"nosd"}, !.conflicts = {"nosd"}, !.local = "datapath", !.subdir = dir,
    !.compiles = {dir, "common"},
    !.entries = {Entry(<<"usr", "bin", "nosd">>, File(dir, "plain", 0))}]

Minimal ==
    [recipes |-> [busybox |-> Busybox, iproute2 |-> Iproute2, linux |-> Linux,
                  opendoas |-> Helper("doas"), td2 |-> Datapath("td2"), tdp |-> Datapath("tdp")],
     areas |-> [td2 |-> "datapath", tdp |-> "datapath", common |-> "datapath"],
     packages |-> Bare(<<"linux", "iproute2", "opendoas">>), datapath |-> "td2",
     arch |-> "x86", goarch |-> TRUE, privilege |-> "doas", allowStale |-> FALSE,
     predates |-> {"linux"}, worked |-> {"linux", "td2"},
     built |-> {"busybox", "iproute2", "linux", "opendoas", "td2", "tdp"}]
Slim ==
    [Minimal EXCEPT
     !.recipes = [busybox |-> Busybox, systemd |-> Systemd, linux |-> Linux,
                  sudo |-> Helper("sudo"), frr |-> Frr],
     !.areas = <<>>, !.packages = Bare(<<"linux", "sudo", "systemd", "busybox", "frr">>),
     !.privilege = "sudo", !.predates = {}, !.worked = {"busybox"}, !.allowStale = TRUE,
     !.built = {"busybox", "systemd", "linux", "sudo", "frr"}]
MCRepos == {Minimal, Slim, [Minimal EXCEPT !.arch = "ppc", !.goarch = FALSE,
                                           !.packages = Bare(<<"linux", "iproute2">>),
                                           !.privilege = "none", !.worked = {"td2"}]}

Offer(n, v, provides, conflicts, depends) ==
    [name |-> n, version |-> v, provides |-> provides, conflicts |-> conflicts,
     depends |-> depends]
Needs1(n, op, v) == [name |-> n, op |-> op, version |-> v]

MCRequests ==
    {[available |-> {Offer("a", V1_2, {}, {}, dpa), Offer("b", vb, {}, {}, dpb),
                     Offer("c", V1_10, pv, {}, dpc), Offer("d", V1_2a, {"v"}, cf, <<>>)},
      roots |-> Bare(rs)] :
        dpa \in {<<>>, Bare(<<"b">>), Bare(<<"b", "c">>), <<Needs1("b", ">=", V1_2rc10)>>,
                <<Needs1("c", "<", V1_10), Unconstrained("v")>>},
        dpb \in {<<>>, Bare(<<"c">>), Bare(<<"v">>), <<Needs1("c", ">=", V1_2)>>,
                <<Needs1("c", "?", V1_2)>>},
        dpc \in {<<>>, Bare(<<"a">>), Bare(<<"gone">>)},
        vb \in {V1_2rc2, V1_2}, pv \in {{}, {"v"}}, cf \in {{}, {"v"}, {"c"}},
        rs \in {<<"a">>, <<"b", "d">>, <<"c", "a">>}}
    \cup {[available |-> {Offer("a", v, {}, {}, <<>>) :
                              v \in {V1_2, V1_10, V1_2rc2, V1_2rc10, V1_2a, V1_}},
           roots |-> Bare(<<"a">>)]}
-----------------------------------------------------------------------------
(* Settings.                                                               *)
Images1 == {<<[a |-> "d"], [a |-> "e", b |-> "d"]>>, <<[b |-> "x"]>>}
Unset == [dir |-> FALSE, conf |-> NoConf]
Kept1 == [dir |-> TRUE, conf |-> [a |-> "x"]]
InRAM(parts, fs) == [ram |-> TRUE, parts |-> parts, flash |-> fs, conf |-> NoConf,
                        images |-> Images1]
MCConfBoards ==
    {[InRAM(<<>>, <<>>) EXCEPT !.ram = FALSE, !.conf = [a |-> "x"]],
     InRAM(<<"other", "vfat">>, <<Unset, Kept1>>), InRAM(<<"vfat", "vfat">>, <<Unset, Unset>>),
     InRAM(<<"other">>, <<Unset>>)}
-----------------------------------------------------------------------------
(* A part that the scene is not about.                                     *)
ImageRests ==
    /\ repo = {} /\ src = <<>> /\ rcp = <<>> /\ out = <<>> /\ busy = <<>> /\ clock = 0
    /\ edits = 0 /\ builds = 0 /\ rot = 0 /\ stage = "off" /\ order = <<>> /\ checked = <<>>
    /\ warned = {} /\ tree = <<>> /\ shipped = <<>> /\ publishable = TRUE

ConfigRests ==
    /\ cbd = {} /\ shippedConf = <<>> /\ site = NoConf /\ onDisk = NoConf /\ flash = <<>>
    /\ pc = "off" /\ job = <<>> /\ kept = NoConf /\ told = [n \in Keys |-> Removed]
    /\ maybe = [n \in Keys |-> {Removed}] /\ sets = 0 /\ cuts = 0

MCInit ==
    /\ Init
    /\ \/ scene = "compose" /\ ImgInit /\ ConfigRests
       \/ scene = "upgrade" /\ ImageRests /\ ConfigRests
       \/ scene = "config" /\ ImageRests /\ ConfInit

MCNext ==
    /\ UNCHANGED scene
    /\ \/ scene = "compose" /\ ImgNext /\ UNCHANGED <<vars, confVars>>
       \/ scene = "upgrade" /\ Next /\ UNCHANGED <<imgVars, confVars>>
       \/ scene = "config" /\ ConfNext /\ UNCHANGED <<vars, imgVars>>

MCSpec == MCInit /\ [][MCNext]_allVars
=============================================================================
