------------------------------ MODULE Depsolve ------------------------------
(***************************************************************************)
(* The order of package versions, internal/vercmp, and the resolution of   *)
(* dependencies, internal/depsolve.                                        *)
(*                                                                         *)
(* A version is its dotted core and its pre-release suffix, each a         *)
(* sequence of parts; the suffix is empty when there is none.  A part is   *)
(* the sequence of its runs of digits and of other characters: a run of    *)
(* digits is its number, so leading zeros are gone, and a run of letters   *)
(* is its place in the alphabetical order.                                 *)
(*                                                                         *)
(* A package is a record of its name, version, provides, conflicts and     *)
(* depends; depends is the sequence of its requirements in the order       *)
(* Resolve sorts them into.  A requirement is a name, an operator ("" for  *)
(* none, "?" for text ParseRequirement refuses) and a version.             *)
(***************************************************************************)
EXTENDS Integers, SequencesExt

Digits(n) == [digit |-> TRUE, v |-> n]
Letters(n) == [digit |-> FALSE, v |-> n]
Number(n) == <<Digits(n)>>

Sign(x, y) == IF x < y THEN -1 ELSE IF x > y THEN 1 ELSE 0

Numeric(part) == Len(part) = 1 /\ part[1].digit

(* The sign of the first position at which two sequences differ under cmp, *)
(* or 0.                                                                   *)
FirstSign(cmp(_), n) ==
    LET differ == {i \in 1..n : cmp(i) # 0}
    IN  IF differ = {} THEN 0 ELSE cmp(Min(differ))

compareRun(a, b) ==
    CASE a.digit /\ ~b.digit -> -1
      [] ~a.digit /\ b.digit -> 1
      [] OTHER               -> Sign(a.v, b.v)

naturalCompare(x, y) ==
    LET n == Min({Len(x), Len(y)})
        c == FirstSign(LAMBDA i : compareRun(x[i], y[i]), n)
    IN  IF c # 0 THEN c ELSE Sign(Len(x), Len(y))

comparePart(x, y) ==
    IF Numeric(x) /\ Numeric(y) THEN Sign(x[1].v, y[1].v)
    ELSE IF Numeric(x) THEN -1
    ELSE IF Numeric(y) THEN 1
    ELSE naturalCompare(x, y)

compareParts(a, b) ==
    LET at(s, i) == IF i <= Len(s) THEN s[i] ELSE Number(0)
    IN  FirstSign(LAMBDA i : comparePart(at(a, i), at(b, i)), Max({Len(a), Len(b)}))

Compare(a, b) ==
    LET core == compareParts(a.core, b.core)
    IN  IF core # 0 THEN core
        ELSE IF a.pre = <<>> THEN IF b.pre = <<>> THEN 0 ELSE 1
        ELSE IF b.pre = <<>> THEN -1
        ELSE compareParts(a.pre, b.pre)
-----------------------------------------------------------------------------
(* Compare is a total preorder on the versions given: comparing the other  *)
(* way round negates it and it is transitive, whatever mixture of numbers, *)
(* letters and suffixes upstream calls its releases; a missing component   *)
(* is zero and a pre-release comes before the release it qualifies         *)
(* (vercmp.go, Compare).                                                   *)
Ordered(Versions) ==
    \A a, b \in Versions :
        /\ Compare(a, b) = -Compare(b, a)
        /\ Compare(a, [a EXCEPT !.core = Append(@, Number(0))]) = 0
        /\ a.pre = <<>> /\ b.pre # <<>> /\ a.core = b.core => Compare(b, a) = -1
        /\ \A c \in Versions :
               Compare(a, b) <= 0 /\ Compare(b, c) <= 0 => Compare(a, c) <= 0
-----------------------------------------------------------------------------
Unconstrained(name) == [name |-> name, op |-> "", version |-> <<>>]

ParseRequirement(req) == req.op # "?"

Satisfied(req, v) ==
    \/ req.op = ""
    \/ Compare(v, req.version) \in CASE req.op = "==" -> {0}
                                     [] req.op = "!=" -> {-1, 1}
                                     [] req.op = ">=" -> {0, 1}
                                     [] req.op = "<=" -> {-1, 0}
                                     [] req.op = ">"  -> {1}
                                     [] req.op = "<"  -> {-1}

Providers(available, v) == {p \in available : v \in p.provides}

resolveName(available, req) ==
    LET named == {p \in available : p.name = req.name}
    IN  IF named # {} THEN named ELSE Providers(available, req.name)

Failed(st, why) == [st EXCEPT !.err = why]

RECURSIVE visit(_, _, _)
visit(available, st, req) ==
    LET to == resolveName(available, req)
        p  == CHOOSE q \in to : TRUE
        Walk(s, d) == IF s.err # "" THEN s ELSE visit(available, s, d)
        walked == FoldLeft(Walk, [st EXCEPT !.visiting = @ \cup {p.name}], p.depends)
    IN  IF ~ParseRequirement(req) THEN Failed(st, "malformed")
        ELSE IF to = {} THEN Failed(st, "missing")
        ELSE IF Cardinality(to) > 1 THEN Failed(st, "ambiguous")
        ELSE IF ~Satisfied(req, p.version) THEN Failed(st, "version")
        ELSE IF p \in ToSet(st.order) THEN st
        ELSE IF p.name \in st.visiting THEN Failed(st, "cycle")
        ELSE IF walked.err # "" THEN walked
        ELSE [walked EXCEPT !.visiting = @ \ {p.name}, !.order = Append(@, p)]

(* A virtual name is held by the last package of the order to provide it,  *)
(* a plain name by the package of that name.                               *)
present(order, upto, v) ==
    LET holders == {i \in 1..upto : v \in order[i].provides}
        named   == {p \in ToSet(order) : p.name = v}
    IN  IF holders # {} THEN {order[Max(holders)].name} ELSE {p.name : p \in named}

(* The mutant of checkConflicts looks for what a package conflicts with    *)
(* among the packages before it only.                                      *)
checkConflictsBefore(order) ==
    /\ \A i \in DOMAIN order, v \in UNION {p.provides : p \in ToSet(order)} :
           v \in order[i].provides => present(order, i - 1, v) \subseteq {order[i].name, v}
    /\ \A i \in DOMAIN order : \A c \in order[i].conflicts :
           present(SubSeq(order, 1, i), i, c) \subseteq {order[i].name}

checkConflicts(order) ==
    /\ \A i \in DOMAIN order, v \in UNION {p.provides : p \in ToSet(order)} :
           v \in order[i].provides => present(order, i - 1, v) \subseteq {order[i].name, v}
    /\ \A p \in ToSet(order) : \A c \in p.conflicts :
           present(order, Len(order), c) \subseteq {p.name}

Resolve(available, roots) ==
    LET start == [order |-> <<>>, visiting |-> {}, err |-> ""]
        Root(s, r) == IF s.err # "" THEN s ELSE visit(available, s, r)
        twice == \E p, q \in available : p # q /\ p.name = q.name
        end == FoldLeft(Root, start, roots)
    IN  IF twice THEN Failed(start, "twice")
        ELSE IF end.err # "" \/ checkConflicts(end.order) THEN end
        ELSE Failed(end, "conflict")
-----------------------------------------------------------------------------
(* What resolution promises, said without the walk.                        *)
Meant(available, req) ==
    {p \in available : \/ p.name = req.name
                       \/ /\ req.name \in p.provides
                          /\ \A q \in available : q.name # req.name}

Needed(available, ps) ==
    UNION {UNION {Meant(available, r) : r \in ToSet(p.depends)} : p \in ps}

RECURSIVE Closure(_, _)
Closure(available, ps) ==
    LET more == ps \cup Needed(available, ps)
    IN  IF more = ps THEN ps ELSE Closure(available, more)

Wanted(available, roots) == Closure(available, UNION {Meant(available, r) : r \in ToSet(roots)})

Solvable(available, roots) ==
    LET all  == Wanted(available, roots)
        reqs == ToSet(roots) \cup UNION {ToSet(p.depends) : p \in all}
    IN  /\ \A p, q \in available : p.name = q.name => p = q
        /\ \A r \in reqs : /\ r.op # "?"
                           /\ \E p \in available : /\ Meant(available, r) = {p}
                                                   /\ Satisfied(r, p.version)
        /\ \A p \in all : p \notin Closure(available, Needed(available, {p}))
        /\ \A p, q \in all : p # q =>
               /\ p.provides \cap q.provides = {}
               /\ p.conflicts \cap ({q.name} \cup q.provides) = {}

(* Resolve succeeds exactly when the request has a solution, and then its  *)
(* order is the transitive closure of the roots, each package once and     *)
(* after everything it depends on (depsolve.go, Resolve).                  *)
ResolvesRight(available, roots) ==
    LET r == Resolve(available, roots)
    IN  /\ (r.err = "") <=> Solvable(available, roots)
        /\ r.err = "" =>
               /\ ToSet(r.order) = Wanted(available, roots)
               /\ IsInjective(r.order)
               /\ \A i \in DOMAIN r.order : \A d \in ToSet(r.order[i].depends) :
                      Meant(available, d) \subseteq {r.order[j] : j \in 1..(i - 1)}
=============================================================================
