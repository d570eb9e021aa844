------------------------------- MODULE Nospkg -------------------------------
(***************************************************************************)
(* The .nos package format and the tree packages are unpacked into:        *)
(* internal/nospkg and the /usr merge of internal/imgbuild/usrmerge.go.    *)
(*                                                                         *)
(* A path is <<prefix, dir, name>>: <<"", "bin", "ip">> is /bin/ip and     *)
(* <<"usr", "bin", "ip">> is /usr/bin/ip; name stands for everything below *)
(* dir.  A tree is the set of top-level directories that are links into    *)
(* /usr (linked) and the nodes at paths no such link leads away from; a    *)
(* directory exists when a node is in it.  A node is a file or a symbolic  *)
(* link: to a name beside it ("here"), through ".." to another directory   *)
(* under the same parent ("up"), or absolute ("root").  A digest is the    *)
(* thing it is a digest of.                                                *)
(***************************************************************************)
EXTENDS Integers, Sequences, FiniteSets, Functions

EmptyTree == [linked |-> {}, node |-> <<>>]

Canon(fs, at) == IF at[1] = "" /\ at[2] \in fs.linked THEN <<"usr", at[2], at[3]>> ELSE at

Has(fs, at) == Canon(fs, at) \in DOMAIN fs.node
NodeAt(fs, at) == fs.node[Canon(fs, at)]

(* The path a link found at a path leads to.                               *)
LeadsTo(fs, at, to) ==
    Canon(fs, CASE to.how = "here" -> <<at[1], at[2], to.name>>
                [] to.how = "up"   -> <<at[1], to.dir, to.name>>
                [] to.how = "root" -> <<to.prefix, to.dir, to.name>>)

(* The mutant of Put opens the path with O_TRUNC instead, which follows  *)
(* a symbolic link to what it points at.                                   *)
PutThrough(fs, at, n) ==
    LET c == Canon(fs, at)
        through == IF c \in DOMAIN fs.node /\ fs.node[c].kind = "link" /\ n.kind = "file"
                   THEN LeadsTo(fs, c, fs.node[c].to) ELSE c
    IN  [fs EXCEPT !.node = [p \in DOMAIN @ \cup {through} |->
                                 IF p = through THEN n ELSE @[p]]]

(* Remove what has the name, link or file, and create anew: writing never  *)
(* follows a link.                                                         *)
Put(fs, at, n) ==
    LET c == Canon(fs, at)
    IN  [fs EXCEPT !.node = [p \in DOMAIN @ \cup {c} |-> IF p = c THEN n ELSE @[p]]]

Entry(at, n) == [at |-> at, node |-> n]
File(data, mode, uid) == [kind |-> "file", data |-> data, mode |-> mode, uid |-> uid]
Link(to) == [kind |-> "link", to |-> to]

(* What the manifest lists of an entry: a digest for a file alone.         *)
buildPayload(entries) ==
    {[at |-> e.at, sha256 |-> IF e.node.kind = "file" THEN e.node.data ELSE ""] : e \in entries}

Build(m, entries) ==
    [m EXCEPT !.whole = TRUE, !.files = buildPayload(entries), !.payload = entries,
              !.payload_sha256 = entries]

ReadManifest(pkg) == pkg.whole

Verify(pkg) ==
    /\ pkg.whole
    /\ pkg.payload = pkg.payload_sha256
    /\ \A e \in pkg.payload : \E f \in pkg.files :
           /\ f.at = e.at
           /\ e.node.kind = "file" => f.sha256 = e.node.data
    /\ Cardinality(pkg.files) = Cardinality(pkg.payload)

(* A package lists a path once, so the order of its entries is immaterial. *)
Extract(pkg, fs) ==
    LET placed == FoldFunction(LAMBDA e, t : Put(t, e.at, e.node), fs,
                               [e \in pkg.payload |-> e])
    IN  [ok |-> Verify(pkg), fs |-> IF Verify(pkg) THEN placed ELSE fs]
-----------------------------------------------------------------------------
In(fs, prefix, dir) == {p \in DOMAIN fs.node : p[1] = prefix /\ p[2] = dir}

Moved(p) == <<"usr", p[2], p[3]>>

(* Everything in /dir moves to /usr/dir, where a name already there wins   *)
(* and the other copy is dropped.                                          *)
mergeDir(fs, dir) ==
    LET gone == In(fs, "", dir)
        kept == DOMAIN fs.node \ gone
        moving == {p \in gone : Moved(p) \notin kept}
    IN  [p \in kept \cup {Moved(q) : q \in moving} |->
             IF p \in kept THEN fs.node[p] ELSE fs.node[<<"", p[2], p[3]>>]]

mergeOne(fs, dir) ==
    IF dir \in fs.linked \/ In(fs, "", dir) = {} THEN fs
    ELSE [linked |-> fs.linked \cup {dir}, node |-> mergeDir(fs, dir)]

usrMerge(fs) == mergeOne(mergeOne(mergeOne(mergeOne(fs, "bin"), "sbin"), "lib"), "lib64")
=============================================================================
