-------------------------------- MODULE Image -------------------------------
(***************************************************************************)
(* Building packages and composing an image from them: internal/pkgbuild   *)
(* and internal/imgbuild.  Developers edit sources and recipes, rebuild    *)
(* packages and compose an image, all at the same time and all in one      *)
(* tree; a package build may be interrupted, and a package file may rot.   *)
(*                                                                         *)
(* The repository (repo) is chosen at the start: its recipes, each with    *)
(* the source areas it compiles, the profile's packages, the board's       *)
(* datapath package, the profile's privilege helper and the recipes worked *)
(* on.  An area is a top-level directory of a local source tree.  The      *)
(* contents of an area or a recipe are a version number; times are ticks   *)
(* of one clock.                                                           *)
(***************************************************************************)
EXTENDS Depsolve, Nospkg

CONSTANTS Repos, Requests, MaxEdits, MaxBuilds, MaxRot

VARIABLES repo, src, rcp, out, busy, clock, edits, builds, rot,
          stage, order, checked, warned, tree, shipped, publishable

workVars == <<src, rcp, out, busy, clock, edits, builds, rot>>
imageVars == <<stage, order, checked, warned, tree, shipped, publishable>>
imgVars == <<repo, workVars, imageVars>>

Recipes == DOMAIN repo.recipes
Recipe(n) == repo.recipes[n]

Manifest(n) ==
    [name |-> n, version |-> Recipe(n).version, arch |-> Recipe(n).arch,
     provides |-> Recipe(n).provides, conflicts |-> Recipe(n).conflicts,
     depends |-> Recipe(n).depends, redistributable |-> Recipe(n).redistributable,
     users |-> Recipe(n).users, whole |-> FALSE, files |-> {}, payload |-> {},
     payload_sha256 |-> {}, recipe |-> 0, mtime |-> 0, from |-> <<>>]

(* What a build reads of the tree when it starts.                          *)
Snapshot(n) ==
    [recipe |-> rcp[n].ver, raced |-> FALSE,
     areas |-> [a \in Recipe(n).compiles |-> src[a].ver]]

Package(n, from, digest, t) ==
    [Build(Manifest(n), Recipe(n).entries)
        EXCEPT !.recipe = digest, !.from = from, !.mtime = t]
-----------------------------------------------------------------------------
Candidate(p) == p.arch \in {"any", repo.arch}

Pkg(p) == [name |-> p.name, version |-> p.version, provides |-> p.provides,
           conflicts |-> p.conflicts, depends |-> p.depends]

Available == {Pkg(out[n]) : n \in {m \in DOMAIN out : Candidate(out[m])}}

wanted ==
    LET built(n) == n \in DOMAIN out /\ Candidate(out[n])
    IN  repo.packages
        \o (IF built(repo.datapath) THEN <<Unconstrained(repo.datapath)>> ELSE <<>>)
        \o (IF ~repo.goarch /\ built("nosaic-cli") THEN <<Unconstrained("nosaic-cli")>> ELSE <<>>)

(* The mutant of siblingSubdirs takes every directory but the recipe's own *)
(* for somebody else's, the one they share included.                       *)
siblingSubdirsAll(n) ==
    IF Recipe(n).subdir = "" THEN {} ELSE DOMAIN src \ {Recipe(n).subdir}

(* The directories of a local source tree that belong to other recipes.    *)
siblingSubdirs(n) ==
    IF Recipe(n).subdir = "" THEN {}
    ELSE {Recipe(m).subdir : m \in {k \in Recipes : /\ Recipe(k).local = Recipe(n).local
                                                    /\ Recipe(k).subdir # ""}}
         \ {Recipe(n).subdir}

newestSource(n) ==
    LET mine == {a \in DOMAIN src : src[a].local = Recipe(n).local} \ siblingSubdirs(n)
    IN  IF Recipe(n).local = "" THEN 0 ELSE Max({0} \cup {src[a].mtime : a \in mine})

(* A selected package found older than what it was built from: by the      *)
(* recipe's content, by time, or (fromRecipeDir) by the time of a recipe   *)
(* directory alone, which only warns.                                      *)
stalePackage(n) ==
    LET p == out[n]
        byRecipe == IF p.recipe = 0 THEN rcp[n].mtime ELSE 0
        newest == Max({byRecipe, newestSource(n)})
    IN  CASE p.recipe # 0 /\ p.recipe # rcp[n].ver -> "stale"
          [] ~(p.recipe # 0 /\ p.recipe # rcp[n].ver) ->
               IF newest <= p.mtime THEN "current"
               ELSE IF Recipe(n).local = "" THEN "predates" ELSE "stale"

findKernel(fs) == \E p \in DOMAIN fs.node : p[1] = "" /\ p[2] = "boot"

(* What the build writes into the tree itself.                             *)
Stamps ==
    {<<"", "etc", "os-release">>, <<"", "etc", "passwd">>, <<"", "sbin", "init">>}
    \cup (CASE repo.privilege = "doas" -> {<<"", "etc", "doas.conf">>, <<"usr", "bin", "sudo">>}
            [] repo.privilege = "sudo" -> {<<"", "etc", "sudoers">>}
            [] repo.privilege = "none" -> {})

Notices == {<<"usr", "share", "NOTICE">>, <<"usr", "share", "sbom.json">>}

writeFile(fs, at) == Put(fs, at, File("image", "plain", 0))

WriteAll(fs, ats) == FoldFunction(LAMBDA at, t : writeFile(t, at), fs, [at \in ats |-> at])

verifyPrivBinary(fs, helper) ==
    LET at == <<"usr", "bin", helper>>
    IN  /\ Has(fs, at)
        /\ NodeAt(fs, at).kind = "file" /\ NodeAt(fs, at).mode = "setuid" /\ NodeAt(fs, at).uid = 0

writePrivilege(fs) == repo.privilege = "none" \/ verifyPrivBinary(fs, repo.privilege)

loginUID == 1000

checkOwnership(fs, users) ==
    \A p \in DOMAIN fs.node :
        fs.node[p].kind = "file" => fs.node[p].uid \in {0, loginUID} \cup users
-----------------------------------------------------------------------------
(* Packages.                                                               *)
Affected(a) == {n \in Recipes : a \in Recipe(n).compiles}

Race(ns) == [n \in DOMAIN busy |-> [busy[n] EXCEPT !.from.raced = @ \/ n \in ns]]

EditSource(a) ==
    /\ edits < MaxEdits
    /\ edits' = edits + 1 /\ clock' = clock + 1
    /\ src' = [src EXCEPT ![a].ver = @ + 1, ![a].mtime = clock + 1]
    /\ busy' = Race(Affected(a))
    /\ UNCHANGED <<repo, rcp, out, builds, rot, imageVars>>

EditRecipe(n) ==
    /\ edits < MaxEdits
    /\ edits' = edits + 1 /\ clock' = clock + 1
    /\ rcp' = [rcp EXCEPT ![n].ver = @ + 1, ![n].mtime = clock + 1]
    /\ busy' = Race({n})
    /\ UNCHANGED <<repo, src, out, builds, rot, imageVars>>

(* A fresh worktree: every file is new and no byte has changed.            *)
Checkout ==
    /\ edits < MaxEdits
    /\ edits' = edits + 1 /\ clock' = clock + 1
    /\ src' = [a \in DOMAIN src |-> [src[a] EXCEPT !.mtime = clock + 1]]
    /\ rcp' = [n \in DOMAIN rcp |-> [rcp[n] EXCEPT !.mtime = clock + 1]]
    /\ UNCHANGED <<repo, out, busy, builds, rot, imageVars>>

(* Copy or fetch the source and stage the dependencies already built.      *)
BuildStarts(n) ==
    /\ builds < MaxBuilds /\ n \notin DOMAIN busy
    /\ Recipe(n).depends = <<>>
       \/ /\ \A m \in DOMAIN out : ReadManifest(out[m])
          /\ Resolve(Available, Recipe(n).depends).err = ""
    /\ builds' = builds + 1
    /\ busy' = [m \in DOMAIN busy \cup {n} |->
                    IF m = n THEN [from |-> Snapshot(n), digest |-> 0] ELSE busy[m]]
    /\ UNCHANGED <<repo, src, rcp, out, clock, edits, rot, imageVars>>

(* The recipe is hashed and the package file created, empty.               *)
BuildWrites(n) ==
    /\ n \in DOMAIN busy /\ busy[n].digest = 0
    /\ busy' = [busy EXCEPT ![n].digest = rcp[n].ver]
    /\ out' = [m \in DOMAIN out \cup {n} |-> IF m = n THEN Manifest(n) ELSE out[m]]
    /\ UNCHANGED <<repo, src, rcp, clock, edits, builds, rot, imageVars>>

BuildEnds(n) ==
    /\ n \in DOMAIN busy /\ busy[n].digest # 0
    /\ clock' = clock + 1
    /\ out' = [out EXCEPT ![n] = Package(n, busy[n].from, busy[n].digest, clock + 1)]
    /\ busy' = [m \in DOMAIN busy \ {n} |-> busy[m]]
    /\ UNCHANGED <<repo, src, rcp, edits, builds, rot, imageVars>>

(* Interrupted: whatever is in the package directory stays there.          *)
BuildDies(n) ==
    /\ n \in DOMAIN busy
    /\ busy' = [m \in DOMAIN busy \ {n} |-> busy[m]]
    /\ UNCHANGED <<repo, src, rcp, out, clock, edits, builds, rot, imageVars>>

(* A byte of the payload of a package on disk changes.                     *)
Rots(n) ==
    /\ rot < MaxRot /\ n \in DOMAIN out /\ out[n].whole
    /\ \E e \in out[n].payload :
           LET bad == IF e.node.kind = "file" THEN [e EXCEPT !.node.data = "junk"]
                      ELSE [e EXCEPT !.node.to.name = "junk"]
           IN  out' = [out EXCEPT ![n].payload = (@ \ {e}) \cup {bad}]
    /\ rot' = rot + 1
    /\ UNCHANGED <<repo, src, rcp, busy, clock, edits, builds, imageVars>>
-----------------------------------------------------------------------------
(* The image.                                                              *)
Fails == stage' = "failed" /\ UNCHANGED <<order, checked, warned, tree, shipped, publishable>>

selectPackages ==
    /\ stage = "idle"
    /\ LET r == Resolve(Available, wanted)
       IN  IF (\E n \in DOMAIN out : ~ReadManifest(out[n])) \/ r.err # "" THEN Fails
           ELSE /\ stage' = "check"
                /\ order' = [i \in DOMAIN r.order |-> r.order[i].name]
                /\ UNCHANGED <<checked, warned, tree, shipped, publishable>>
    /\ UNCHANGED <<repo, workVars>>

reportStale ==
    /\ stage = "check"
    /\ LET of(kind) == {n \in ToSet(order) : stalePackage(n) = kind}
       IN  IF of("stale") # {} /\ ~repo.allowStale THEN Fails
           ELSE /\ stage' = "extract"
                /\ warned' = of("stale") \cup of("predates")
                /\ checked' = [n \in ToSet(order) |-> Snapshot(n)]
                /\ UNCHANGED <<order, tree, shipped, publishable>>
    /\ UNCHANGED <<repo, workVars>>

extractNext ==
    /\ stage = "extract" /\ Len(shipped) < Len(order)
    /\ LET p == out[order[Len(shipped) + 1]]
           x == Extract(p, tree)
       IN  IF ~x.ok THEN Fails
           ELSE /\ tree' = x.fs
                /\ shipped' = Append(shipped, [name |-> p.name, from |-> p.from, users |-> p.users,
                                               redistributable |-> p.redistributable])
                /\ UNCHANGED <<stage, order, checked, warned, publishable>>
    /\ UNCHANGED <<repo, workVars>>

writeAttribution ==
    /\ stage = "extract" /\ Len(shipped) = Len(order)
    /\ publishable' = \A i \in DOMAIN shipped : shipped[i].redistributable
    /\ tree' = usrMerge(WriteAll(tree, Notices))
    /\ stage' = "stamp"
    /\ UNCHANGED <<order, checked, warned, shipped>>
    /\ UNCHANGED <<repo, workVars>>

stampTree ==
    /\ stage = "stamp"
    /\ LET stamped == WriteAll(tree, Stamps)
           users == UNION {shipped[i].users : i \in DOMAIN shipped}
       IN  IF findKernel(tree) /\ writePrivilege(stamped) /\ checkOwnership(stamped, users)
           THEN /\ tree' = stamped /\ stage' = "done"
                /\ UNCHANGED <<order, checked, warned, shipped, publishable>>
           ELSE Fails
    /\ UNCHANGED <<repo, workVars>>

(* A build starts from an empty work directory.                            *)
Again ==
    /\ stage \in {"failed", "done"} /\ (edits < MaxEdits \/ builds < MaxBuilds)
    /\ stage' = "idle" /\ order' = <<>> /\ checked' = <<>> /\ warned' = {}
    /\ tree' = EmptyTree /\ shipped' = <<>> /\ publishable' = FALSE
    /\ UNCHANGED <<repo, workVars>>

ImgStops == stage \in {"failed", "done"} /\ busy = <<>> /\ UNCHANGED imgVars

ImgInit ==
    /\ repo \in Repos
    /\ src = [a \in DOMAIN repo.areas |-> [local |-> repo.areas[a], ver |-> 1, mtime |-> 1]]
    /\ rcp = [n \in Recipes |-> [ver |-> 1, mtime |-> 1]]
    /\ out = [n \in repo.built |-> Package(n, Snapshot(n), IF n \in repo.predates THEN 0 ELSE 1, 2)]
    /\ busy = <<>> /\ clock = 2 /\ edits = 0 /\ builds = 0 /\ rot = 0
    /\ stage = "idle" /\ order = <<>> /\ checked = <<>> /\ warned = {}
    /\ tree = EmptyTree /\ shipped = <<>> /\ publishable = FALSE

ImgNext ==
    \/ \E a \in DOMAIN src : EditSource(a)
    \/ \E n \in repo.worked : \/ EditRecipe(n)
                              \/ BuildStarts(n) \/ BuildWrites(n) \/ BuildEnds(n)
                              \/ BuildDies(n) \/ Rots(n)
    \/ Checkout
    \/ selectPackages \/ reportStale \/ extractNext \/ writeAttribution \/ stampTree
    \/ Again \/ ImgStops

ImgSpec == ImgInit /\ [][ImgNext]_imgVars
-----------------------------------------------------------------------------
(* A composed image holds, of every package, what the tree held when the   *)
(* packages were checked or something later: whatever edits, fresh         *)
(* worktrees, interrupted and concurrent package builds came before and    *)
(* during the composition.  Excepted are what --allow-stale or a package   *)
(* from before recipe digests was reported for, and a package whose inputs *)
(* were edited while it was being built (imgbuild.go, stalePackages).      *)
Fresh ==
    stage = "done" =>
        \A i \in DOMAIN shipped :
            LET s == shipped[i]
            IN  \/ s.name \in warned
                \/ s.from.raced
                \/ /\ s.from.recipe >= checked[s.name].recipe
                   /\ \A a \in DOMAIN s.from.areas : s.from.areas[a] >= checked[s.name].areas[a]

(* The entry that should be found at a path of the image: what the build   *)
(* itself wrote; else what a package shipped under /usr; else what one     *)
(* shipped to the directory that was merged; the later package each time.  *)
Shippers(c) ==
    {<<i, e>> \in UNION {{i} \X Recipe(order[i]).entries : i \in DOMAIN order} :
        Canon(tree, e.at) = c}

Wins(c) ==
    LET usr == {s \in Shippers(c) : s[2].at = c}
        from == IF usr # {} THEN usr ELSE Shippers(c)
    IN  CHOOSE s \in from : \A t \in from : t[1] <= s[1]

Written == {Canon(tree, at) : at \in Stamps \cup Notices}

(* A composed image is exactly its packages: at every path the entry that  *)
(* should win there, byte for byte, with nothing lost, nothing damaged and *)
(* nothing written through a link onto another package's file; and every   *)
(* link that led somewhere in the packages' own layout leads to the same   *)
(* file after the merge of /usr (nospkg/read.go, Extract; usrmerge.go).    *)
Composed ==
    stage = "done" =>
        LET all == UNION {Recipe(order[i]).entries : i \in DOMAIN order}
        IN  /\ DOMAIN tree.node = Written \cup {Canon(tree, e.at) : e \in all}
            /\ \A c \in DOMAIN tree.node \ Written : tree.node[c] = Wins(c)[2].node
            /\ \A c \in DOMAIN tree.node \ Written :
                   LET e == Wins(c)[2]
                       meant == LeadsTo(EmptyTree, e.at, e.node.to)
                   IN  e.node.kind = "link" /\ (\E f \in all : f.at = meant) =>
                           LeadsTo(tree, c, e.node.to) = Canon(tree, meant)

(* Dependency resolution finds the order the profile's packages and their  *)
(* dependencies need, or rightly refuses, for the packages of this build   *)
(* and for every request of the instance (depsolve.go, Resolve; vercmp.go, *)
(* Compare).                                                               *)
Resolved ==
    /\ stage \in {"check", "failed"} => ResolvesRight(Available, wanted)
    /\ stage = "check" /\ edits = 0 /\ builds = 0 =>
           /\ \A q \in Requests : ResolvesRight(q.available, q.roots)
           /\ Ordered({p.version : p \in UNION {q.available : q \in Requests}})
=============================================================================
