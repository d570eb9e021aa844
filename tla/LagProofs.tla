------------------------------ MODULE LagProofs ------------------------------
(***************************************************************************)
(* Proofs about Lag, for any ports, any requests and any number of events. *)
(***************************************************************************)
EXTENDS Lag, FiniteSetTheorems, SequenceTheorems, WellFoundedInduction, TLAPS

LagTypeOK ==
    /\ scn \in Scenarios
    /\ m \in Seq(Port) /\ IsInjective(m)
    /\ claimed \in [Port -> BOOLEAN]
    /\ dports \in [0 .. (Size - 1) -> Port \cup {NoPort}]
    /\ pub \in {"no", "count", "ports"} /\ (pub # "no" => pass = "idle")
    /\ job \in [op : {"none", "members", "del"}, want : Seq(Port), gone : Port \cup {NoPort}]
    /\ job.op = "none" => job = Idle
    /\ "send" \notin scn.events => frame = NoFrame

(* A port that has left the list and is still claimed. *)
Going == {job.gone} \ {NoPort}

(* A claimed port is listed, or is leaving, or is joining: then nobody leaves. *)
Joining(p) == job.op = "members" /\ job.gone = NoPort /\ Leavers = {} /\ p \in Range(job.want)

(* What the chip may send by: the list, and while it is being written the port that
   leaves. *)
Listed == Range(m) \cup (IF pub = "no" THEN {} ELSE Going)

LagInv ==
    /\ LagTypeOK
    /\ Range(m) \cup Going \subseteq Ports(claimed)
    /\ Range(m) \cap Going = {}
    /\ \A p \in Ports(claimed) : p \in Range(m) \cup Going \/ Joining(p)
    /\ job.op # "del" => trunk \subseteq Listed

(* The published ports that are counted are members', and a frame's are members' of
   the time since its count was read. *)
SendOK ==
    /\ ndist \in 0 .. Size
    /\ pub # "ports" /\ job.op # "del"
    /\ \A i \in 0 .. (ndist - 1) : dports[i] \in Listed
    /\ pub = "count" => LET d == Distributing(m, mem)
                        IN  \A i \in 0 .. (Len(d) - 1) : dports[i] = d[i + 1]
    /\ frame \in [n : 0 .. Size, port : Port \cup {NoPort}]
    /\ frame.n > 0 => /\ frame.port = NoPort
                      /\ Ports(claimed) \subseteq seen
                      /\ \A i \in 0 .. (frame.n - 1) : dports[i] \in seen
    /\ PickedMember

SendInv == "send" \in scn.events => SendOK

(* Where frames are sent from the CPU the stores of publish are seen in order, and no
   LAG is deleted meanwhile. *)
SendsOrdered == \A c \in Scenarios : "send" \in c.events => c.ordered /\ "del" \notin c.events
-----------------------------------------------------------------------------
LEMMA Least ==
    ASSUME NEW T, T \subseteq Nat, T # {}
    PROVE  \E x \in T : \A y \in T : x <= y
<1> DEFINE less == {ss \in Nat \X Nat : ss[1] < ss[2]}
<1>1. OpToRel(<, Nat) = less
  BY Zenon DEF OpToRel
<1>2. IsWellFoundedOn(less, Nat)
  BY Zenon, <1>1, NatLessThanWellFounded
<1>3. PICK x \in T : \A y \in T : ~(<<y, x>> \in less)
  BY Zenon, <1>2, WFMin
<1>4. ASSUME NEW y \in T PROVE x <= y
  <2>1. x \in Nat /\ y \in Nat /\ <<y, x>> \in Nat \X Nat /\ <<y, x>>[1] = y /\ <<y, x>>[2] = x
    OBVIOUS
  <2>2. ~(y < x)
    <3> SUFFICES ASSUME y < x PROVE <<y, x>> \in less
      BY <1>3
    <3> QED
      BY Zenon, <2>1
  <2> QED
    BY <2>1, <2>2
<1> QED
  BY <1>4

(* publish's loop up to each member, and one round of it. *)
Round(ms, r, i, d) == IF r[ms[i]].dist THEN Append(d, ms[i]) ELSE d
IsLoop(ms, r, n, g) == g = [i \in 0 .. n |-> IF i = 0 THEN <<>> ELSE Round(ms, r, i, g[i - 1])]

LEMMA LoopThere ==
    ASSUME NEW ms, NEW r, NEW n \in Nat
    PROVE  \E g : IsLoop(ms, r, n, g)
<1> DEFINE T == {k \in Nat : ~\E g : IsLoop(ms, r, k, g)}
<1> SUFFICES ASSUME T # {} PROVE FALSE
  OBVIOUS
<1>1. PICK x \in T : \A y \in T : x <= y
  BY Zenon, Least
<1>2. CASE x = 0
  <2>1. IsLoop(ms, r, 0, [i \in 0 .. 0 |-> <<>>])
    BY DEF IsLoop
  <2> QED
    BY <1>2, <2>1
<1>3. CASE x # 0
  <2>1. x - 1 \in Nat /\ x - 1 \notin T
    BY <1>1, <1>3
  <2>2. PICK g : IsLoop(ms, r, x - 1, g)
    BY <2>1
  <2> DEFINE h == [i \in 0 .. x |-> IF i = x THEN Round(ms, r, x, g[x - 1]) ELSE g[i]]
             k == [i \in 0 .. x |-> IF i = 0 THEN <<>> ELSE Round(ms, r, i, h[i - 1])]
  <2>3. ASSUME NEW i \in 0 .. x PROVE h[i] = k[i]
    <3>1. CASE i = 0
      BY <3>1, <1>3, <2>1, <2>2 DEF IsLoop
    <3>2. CASE i # 0 /\ i # x
      <4>1. i \in 0 .. (x - 1) /\ i - 1 \in 0 .. x /\ i - 1 # x
        BY <3>2, <1>1
      <4>2. g[i] = Round(ms, r, i, g[i - 1])
        BY <4>1, <3>2, <2>2 DEF IsLoop
      <4> QED
        BY <4>1, <4>2, <3>2
    <3>3. CASE i = x
      <4>1. x - 1 \in 0 .. x /\ x - 1 # x
        BY <1>1, <2>1
      <4> QED
        BY <4>1, <3>3, <1>3
    <3> QED
      BY <3>1, <3>2, <3>3
  <2>4. h = k
    BY <2>3
  <2> HIDE DEF h
  <2>5. IsLoop(ms, r, x, h)
    BY Zenon, <2>4 DEF IsLoop
  <2> QED
    BY <2>5
<1> QED
  BY <1>2, <1>3

LEMMA Listing ==
    ASSUME NEW d \in Seq(Port)
    PROVE  /\ Len(d) \in Nat /\ DOMAIN d = 1 .. Len(d) /\ \A i \in 1 .. Len(d) : d[i] \in Port
           /\ \A x : x \in Range(d) <=> \E i \in 1 .. Len(d) : x = d[i]
           /\ Range(d) \subseteq Port
<1>1. Len(d) \in Nat /\ DOMAIN d = 1 .. Len(d) /\ \A i \in 1 .. Len(d) : d[i] \in Port
  OBVIOUS
<1>2. \A x : x \in Range(d) <=> \E i \in 1 .. Len(d) : x = d[i]
  BY Zenon, <1>1 DEF Range
<1> QED
  BY Zenon, <1>1, <1>2

(* g->m[g->n++] = p *)
LEMMA Appended ==
    ASSUME NEW d \in Seq(Port), NEW p \in Port
    PROVE  LET e == Append(d, p)
           IN  /\ e \in Seq(Port) /\ Len(e) = Len(d) + 1 /\ Range(e) = Range(d) \cup {p}
               /\ IsInjective(d) /\ p \notin Range(d) => IsInjective(e)
<1> DEFINE e == Append(d, p)
<1>1. Len(d) \in Nat /\ \A x : x \in Range(d) <=> \E i \in 1 .. Len(d) : x = d[i]
  BY Zenon, Listing
<1>2. e \in Seq(Port) /\ Len(e) = Len(d) + 1
  OBVIOUS
<1>3. (\A i \in 1 .. Len(d) : e[i] = d[i]) /\ e[Len(d) + 1] = p
  OBVIOUS
<1> HIDE DEF e
<1>4. DOMAIN d = 1 .. Len(d) /\ DOMAIN e = 1 .. (Len(d) + 1)
  BY Zenon, <1>2, Listing
<1>5. \A x : x \in Range(e) <=> \E i \in 1 .. (Len(d) + 1) : x = e[i]
  BY Zenon, <1>2, Listing
<1>6. \A x : x \in Range(e) <=> x \in Range(d) \/ x = p
  <2>1. \A i : i \in 1 .. (Len(d) + 1) <=> i \in 1 .. Len(d) \/ i = Len(d) + 1
    BY <1>1
  <2> QED
    BY <1>1, <1>3, <1>5, <2>1
<1>7. ASSUME IsInjective(d), p \notin Range(d) PROVE IsInjective(e)
  <2> SUFFICES ASSUME NEW i \in 1 .. (Len(d) + 1), NEW j \in 1 .. (Len(d) + 1), e[i] = e[j] PROVE i = j
    BY Zenon, <1>4 DEF IsInjective
  <2>1. \A x \in 1 .. Len(d) : d[x] # p
    BY Zenon, <1>1, <1>7
  <2>2. \A x, y \in 1 .. Len(d) : d[x] = d[y] => x = y
    BY Zenon, <1>4, <1>7 DEF IsInjective
  <2> QED
    BY <1>1, <1>3, <2>1, <2>2
<1> QED
  BY Zenon, <1>2, <1>6, <1>7 DEF e

(* g->m[i] = g->m[--g->n], and --g->n alone. *)
LEMMA TakenOut ==
    ASSUME NEW d \in Seq(Port), IsInjective(d), NEW i \in DOMAIN d, NEW e,
           e = [j \in 1 .. (Len(d) - 1) |-> IF j = i THEN d[Len(d)] ELSE d[j]]
    PROVE  e \in Seq(Port) /\ IsInjective(e) /\ Range(e) = Range(d) \ {d[i]}
<1>1. Len(d) \in Nat /\ i \in 1 .. Len(d) /\ \A x : x \in Range(d) <=> \E j \in 1 .. Len(d) : x = d[j]
  BY Zenon, Listing
<1>2. \A x, y \in 1 .. Len(d) : d[x] = d[y] => x = y
  BY Zenon, Listing DEF IsInjective
<1>3. Len(d) - 1 \in Nat /\ \A j \in 1 .. Len(d) : d[j] \in Port
  BY <1>1
<1>4. e \in [1 .. (Len(d) - 1) -> Port]
  BY <1>1, <1>3
<1>5. e \in Seq(Port) /\ Len(e) = Len(d) - 1
  BY <1>3, <1>4
<1>6. \A x : x \in Range(e) <=> \E j \in 1 .. (Len(d) - 1) : x = e[j]
  <2>1. \A x : x \in Range(e) <=> \E j \in 1 .. Len(e) : x = e[j]
    BY Zenon, <1>5, Listing
  <2> QED
    BY <1>5, <2>1
<1>7. ASSUME NEW x PROVE x \in Range(e) <=> x \in Range(d) /\ x # d[i]
  <2>1. ASSUME NEW j \in 1 .. (Len(d) - 1) PROVE e[j] \in Range(d) /\ e[j] # d[i]
    BY <1>1, <1>2, <1>3
  <2>2. ASSUME NEW j \in 1 .. Len(d), j # i PROVE \E k \in 1 .. (Len(d) - 1) : e[k] = d[j]
    <3>1. CASE j = Len(d)
      <4>1. i \in 1 .. (Len(d) - 1)
        BY <1>1, <2>2, <3>1
      <4> QED
        BY <3>1, <4>1
    <3>2. CASE j # Len(d)
      <4>1. j \in 1 .. (Len(d) - 1)
        BY <1>1, <3>2
      <4> QED
        BY <2>2, <4>1
    <3> QED
      BY <3>1, <3>2
  <2>3. ASSUME x \in Range(e) PROVE x \in Range(d) /\ x # d[i]
    <3>1. PICK j \in 1 .. (Len(d) - 1) : x = e[j]
      BY Zenon, <1>6, <2>3
    <3>2. e[j] \in Range(d) /\ e[j] # d[i]
      BY Zenon, <2>1
    <3> QED
      BY <3>1, <3>2
  <2>4. ASSUME x \in Range(d), x # d[i] PROVE x \in Range(e)
    <3>1. PICK j \in 1 .. Len(d) : x = d[j]
      BY Zenon, <1>1, <2>4
    <3> QED
      BY Zenon, <1>6, <2>2, <2>4, <3>1
  <2> QED
    BY Zenon, <2>3, <2>4
<1>8. IsInjective(e)
  <2>1. ASSUME NEW x \in 1 .. (Len(d) - 1), NEW y \in 1 .. (Len(d) - 1), e[x] = e[y] PROVE x = y
    BY <1>1, <1>2, <1>3, <2>1
  <2>2. DOMAIN e = 1 .. (Len(d) - 1)
    BY <1>4
  <2> QED
    BY Zenon, <2>1, <2>2 DEF IsInjective
<1> QED
  BY Zenon, <1>5, <1>7, <1>8

LEMMA LastOut ==
    ASSUME NEW d \in Seq(Port), IsInjective(d), d # <<>>
    PROVE  /\ d[Len(d)] \in Range(d)
           /\ SubSeq(d, 1, Len(d) - 1) \in Seq(Port) /\ IsInjective(SubSeq(d, 1, Len(d) - 1))
           /\ Range(SubSeq(d, 1, Len(d) - 1)) = Range(d) \ {d[Len(d)]}
<1>1. Len(d) \in Nat \ {0} /\ \A j \in 1 .. Len(d) : d[j] \in Port
  OBVIOUS
<1>2. Len(d) \in DOMAIN d /\ d[Len(d)] \in Range(d)
  BY <1>1 DEF Range
<1>3. SubSeq(d, 1, Len(d) - 1) = [j \in 1 .. (Len(d) - 1) |-> d[j]]
  <2> DEFINE n == Len(d) - 1
  <2>5. n \in Int /\ 1 \in Int /\ \A j \in 1 .. n : d[j] \in Port
    BY <1>1
  <2> HIDE DEF n
  <2>6. /\ SubSeq(d, 1, n) \in Seq(Port) /\ Len(SubSeq(d, 1, n)) = IF 1 <= n THEN n - 1 + 1 ELSE 0
        /\ \A j \in 1 .. (n - 1 + 1) : SubSeq(d, 1, n)[j] = d[1 + j - 1]
    BY <2>5, SubSeqProperties
  <2>2. SubSeq(d, 1, Len(d) - 1) \in Seq(Port) /\ Len(SubSeq(d, 1, Len(d) - 1)) = Len(d) - 1
    <3> DEFINE k == Len(SubSeq(d, 1, n))
    <3>0. n \in Nat
      BY <1>1 DEF n
    <3>1. n \in Nat /\ k = IF 1 <= n THEN n - 1 + 1 ELSE 0
      BY Zenon, <2>6, <3>0
    <3> HIDE DEF k
    <3>2. k = n
      BY <3>1
    <3> QED
      BY Zenon, <2>6, <3>2 DEF n, k
  <2>3. ASSUME NEW j \in 1 .. (Len(d) - 1) PROVE SubSeq(d, 1, Len(d) - 1)[j] = d[j]
    <3>1. j \in 1 .. (n - 1 + 1) /\ 1 + j - 1 = j
      BY <1>1 DEF n
    <3>2. SubSeq(d, 1, n)[j] = d[j]
      BY <2>6, <3>1
    <3> QED
      BY Zenon, <3>2 DEF n
  <2>4. SubSeq(d, 1, Len(d) - 1) = [j \in 1 .. (Len(d) - 1) |-> SubSeq(d, 1, Len(d) - 1)[j]]
    BY <2>2
  <2> QED
    BY <2>3, <2>4
<1>4. SubSeq(d, 1, Len(d) - 1) = [j \in 1 .. (Len(d) - 1) |-> IF j = Len(d) THEN d[Len(d)] ELSE d[j]]
  <2>1. \A j \in 1 .. (Len(d) - 1) : j # Len(d)
    BY <1>1
  <2> QED
    BY <1>3, <2>1
<1> QED
  BY Zenon, <1>2, <1>4, TakenOut

(* What is published is some of the members. *)
LEMMA DistributingIs ==
    ASSUME NEW ms \in Seq(Port), NEW r
    PROVE  LET d == Distributing(ms, r)
           IN  d \in Seq(Port) /\ Len(d) <= Len(ms) /\ Range(d) \subseteq Range(ms)
<1> DEFINE L == CHOOSE g : IsLoop(ms, r, Len(ms), g)
           Some(d, i) == d \in Seq(Port) /\ Len(d) <= i /\ Range(d) \subseteq Range(ms)
           T == {i \in 0 .. Len(ms) : ~Some(L[i], i)}
<1>1. Len(ms) \in Nat /\ \A i \in 1 .. Len(ms) : ms[i] \in Port /\ ms[i] \in Range(ms)
  BY DEF Range
<1>2. IsLoop(ms, r, Len(ms), L)
  BY Zenon, <1>1, LoopThere
<1>3. Distributing(ms, r) = L[Len(ms)]
  BY DEF Distributing, IsLoop, Round
<1> HIDE DEF L
<1>4. T = {}
  <2> SUFFICES ASSUME T # {} PROVE FALSE
    OBVIOUS
  <2>1. PICK x \in T : \A y \in T : x <= y
    <3>1. T \subseteq Nat
      BY <1>1
    <3> HIDE DEF T
    <3> QED
      BY Zenon, <3>1, Least
  <2>2. x \in 0 .. Len(ms) /\ ~Some(L[x], x)
    BY <2>1
  <2>3. CASE x = 0
    <3>1. L[0] = <<>>
      BY <1>1, <1>2 DEF IsLoop
    <3> QED
      BY <2>2, <2>3, <3>1 DEF Range
  <2>4. CASE x # 0
    <3>1. x - 1 \in 0 .. Len(ms) /\ x - 1 \notin T
      BY <1>1, <2>1, <2>2, <2>4
    <3>2. Some(L[x - 1], x - 1)
      BY <3>1
    <3>3. L[x] = Round(ms, r, x, L[x - 1])
      BY <1>1, <1>2, <2>2, <2>4 DEF IsLoop
    <3>4. ms[x] \in Port /\ ms[x] \in Range(ms) /\ x \in Nat
      BY <1>1, <2>2, <2>4
    <3> DEFINE d == L[x - 1]
    <3>5. Some(Append(d, ms[x]), x)
      <4>1. d \in Seq(Port) /\ Len(d) <= x - 1 /\ Range(d) \subseteq Range(ms)
        BY <3>2
      <4> HIDE DEF d
      <4>2. /\ Append(d, ms[x]) \in Seq(Port) /\ Len(Append(d, ms[x])) = Len(d) + 1
            /\ Range(Append(d, ms[x])) = Range(d) \cup {ms[x]}
        BY Zenon, <3>4, <4>1, Appended
      <4> QED
        BY <3>4, <4>1, <4>2
    <3>6. Some(d, x)
      BY <3>2, <3>4
    <3> QED
      BY <2>2, <3>3, <3>5, <3>6 DEF Round
  <2> QED
    BY <2>3, <2>4
<1>5. Some(L[Len(ms)], Len(ms))
  BY <1>1, <1>4
<1> QED
  BY <1>3, <1>5

(* A list of distinct ports is no longer than there are ports. *)
LEMMA InjectiveFits ==
    ASSUME NEW ms \in Seq(Port), IsInjective(ms)
    PROVE  Len(ms) <= Size /\ Size \in Nat
<1>1. Len(ms) \in Nat /\ ms \in [1 .. Len(ms) -> Port] /\ DOMAIN ms = 1 .. Len(ms)
  BY Zenon, SeqDef, LenProperties
<1>2. ms \in Injection(1 .. Len(ms), Port)
  BY Zenon, <1>1 DEF IsInjective, Injection
<1>3. Cardinality(1 .. Len(ms)) <= Cardinality(Port)
  BY Zenon, <1>2, FS_Injection, LagAssumption
<1>4. Cardinality(1 .. Len(ms)) = Len(ms)
  BY <1>1, FS_Interval
<1>5. Cardinality(Port) \in Nat
  BY Zenon, FS_CardinalityType, LagAssumption
<1> QED
  BY <1>3, <1>4, <1>5 DEF Size
-----------------------------------------------------------------------------
LEMMA LagStarts == Init => LagInv /\ SendInv
<1> SUFFICES ASSUME Init PROVE LagInv /\ SendInv
  OBVIOUS
<1>1. Size \in Nat
  BY Zenon, FS_CardinalityType, LagAssumption DEF Size
<1>2. /\ scn \in Scenarios /\ m = <<>> /\ claimed = [p \in Port |-> FALSE] /\ pub = "no" /\ job = Idle
      /\ dports = [i \in 0 .. (Size - 1) |-> NoPort] /\ trunk = {} /\ ndist = 0 /\ frame = NoFrame
  BY DEF Init
<1>3. Range(m) = {} /\ IsInjective(m) /\ m \in Seq(Port)
  BY <1>2 DEF Range, IsInjective
<1>4. LagTypeOK
  BY <1>2, <1>3 DEF LagTypeOK, Idle
<1>5. Going = {} /\ Ports(claimed) = {}
  BY <1>2 DEF Going, Idle, Ports
<1>6. LagInv
  BY Zenon, <1>2, <1>3, <1>4, <1>5 DEF LagInv
<1>7. SendInv
  BY <1>1, <1>2 DEF SendInv, SendOK, Idle, NoFrame, PickedMember
<1> QED
  BY <1>6, <1>7

(* A step that leaves the list, the claims, the request and the lock's holder alone. *)
LEMMA LagUntouched ==
    ASSUME LagInv, UNCHANGED <<scn, m, claimed, job, dports>>, trunk' \subseteq trunk,
           pub' = pub, pub = "no" \/ pass' = pass,
           "send" \notin scn.events => frame' = frame
    PROVE  LagInv'
<1>1. Going' = Going /\ Listed' = Listed /\ Leavers' = Leavers /\ Ports(claimed)' = Ports(claimed)
  BY DEF Going, Listed, Leavers, Ports
<1>2. \A p : Joining(p)' = Joining(p)
  BY <1>1 DEF Joining
<1>3. LagTypeOK'
  BY DEF LagInv, LagTypeOK
<1> QED
  BY <1>1, <1>2, <1>3 DEF LagInv

(* What publish writes to dports. *)
LEMMA WrittenIs ==
    ASSUME LagTypeOK, NEW ms \in Seq(Port), NEW r
    PROVE  LET d == Distributing(ms, r)
           IN  /\ Written(d) \in [0 .. (Size - 1) -> Port \cup {NoPort}]
               /\ \A i \in 0 .. (Size - 1) :
                      /\ i < Len(d) => Written(d)[i] = d[i + 1] /\ d[i + 1] \in Range(ms)
                      /\ i >= Len(d) => Written(d)[i] = dports[i]
<1> DEFINE d == Distributing(ms, r)
<1>1. d \in Seq(Port) /\ Range(d) \subseteq Range(ms)
  BY Zenon, DistributingIs
<1> HIDE DEF d
<1>2. Size \in Nat
  BY Zenon, FS_CardinalityType, LagAssumption DEF Size
<1>3. Len(d) \in Nat /\ \A i \in 1 .. Len(d) : d[i] \in Port /\ d[i] \in Range(ms)
  BY Zenon, <1>1, Listing
<1>4. dports \in [0 .. (Size - 1) -> Port \cup {NoPort}] /\ DOMAIN dports = 0 .. (Size - 1)
  BY DEF LagTypeOK
<1>5. \A i \in 0 .. (Size - 1) : i < Len(d) => i + 1 \in 1 .. Len(d)
  BY <1>2, <1>3
<1>6. ASSUME NEW i \in 0 .. (Size - 1)
      PROVE  /\ i < Len(d) => Written(d)[i] = d[i + 1] /\ d[i + 1] \in Range(ms) /\ d[i + 1] \in Port
             /\ i >= Len(d) => Written(d)[i] = dports[i]
  <2>1. Written(d)[i] = IF i < Len(d) THEN d[i + 1] ELSE dports[i]
    BY <1>4 DEF Written
  <2>2. i >= Len(d) => ~(i < Len(d))
    BY <1>2, <1>3
  <2> QED
    BY <1>3, <1>5, <2>1, <2>2
<1>7. Written(d) \in [0 .. (Size - 1) -> Port \cup {NoPort}]
  <2>1. Written(d) = [i \in 0 .. (Size - 1) |-> Written(d)[i]]
    BY <1>4 DEF Written
  <2>2. \A i \in 0 .. (Size - 1) : i < Len(d) \/ i >= Len(d)
    BY <1>2, <1>3
  <2>3. \A i \in 0 .. (Size - 1) : Written(d)[i] \in Port \cup {NoPort}
    BY <1>4, <1>6, <2>2
  <2> QED
    BY <2>1, <2>3
<1> QED
  BY Zenon, <1>6, <1>7 DEF d

(* The lock's holder publishes the list. *)
LEMMA PublishSets ==
    ASSUME LagTypeOK, NEW ms \in Seq(Port), NEW r, Publish(ms, r)
    PROVE  /\ pub' \in {"count", "ports"}
           /\ dports' \in [0 .. (Size - 1) -> Port \cup {NoPort}]
<1>1. dports \in [0 .. (Size - 1) -> Port \cup {NoPort}]
  BY DEF LagTypeOK
<1>2. \/ dports' = Written(Distributing(ms, r)) /\ pub' = "count"
      \/ dports' = dports /\ pub' = "ports"
  BY DEF Publish
<1>3. Written(Distributing(ms, r)) \in [0 .. (Size - 1) -> Port \cup {NoPort}]
  BY Zenon, WrittenIs
<1> QED
  BY <1>1, <1>2, <1>3

(* A step of the lock's holder that leaves the list alone and may publish it. *)
LEMMA PublishesKeeps ==
    ASSUME LagInv, UNCHANGED <<scn, m, claimed, job, trunk, frame>>, pub = "no", pass' = "idle",
           pub' \in {"no", "count", "ports"}, dports' \in [0 .. (Size - 1) -> Port \cup {NoPort}]
    PROVE  LagInv'
<1>1. Going' = Going /\ Leavers' = Leavers /\ Ports(claimed)' = Ports(claimed)
  BY DEF Going, Leavers, Ports
<1>2. \A p : Joining(p)' = Joining(p)
  BY <1>1 DEF Joining
<1>3. Listed \subseteq Listed'
  BY DEF Listed
<1>4. LagTypeOK'
  BY DEF LagInv, LagTypeOK
<1> QED
  BY <1>1, <1>2, <1>3, <1>4 DEF LagInv

LEMMA PublishRestKeeps == ASSUME LagInv, PublishRest PROVE LagInv'
<1> DEFINE d == Distributing(m, mem)
<1>0. LagTypeOK /\ m \in Seq(Port)
  BY DEF LagInv, LagTypeOK
<1>1. /\ UNCHANGED <<scn, m, claimed, job, pass, frame>> /\ pub # "no" /\ pub' = "no"
      /\ trunk' = Range(d) /\ (dports' = dports \/ dports' = Written(d))
  BY Zenon DEF PublishRest, env, cfg
<1>2. Range(d) \subseteq Range(m)
  BY Zenon, <1>0, DistributingIs
<1>3. Written(d) \in [0 .. (Size - 1) -> Port \cup {NoPort}]
  BY Zenon, <1>0, WrittenIs
<1> HIDE DEF d
<1>4. Going' = Going /\ Leavers' = Leavers /\ Ports(claimed)' = Ports(claimed) /\ Range(m)' = Range(m)
  BY <1>1 DEF Going, Leavers, Ports
<1>5. \A p : Joining(p)' = Joining(p)
  BY <1>1, <1>4 DEF Joining
<1>6. trunk' \subseteq Listed'
  BY <1>1, <1>2, <1>4 DEF Listed
<1>7. LagTypeOK'
  BY <1>0, <1>1, <1>3 DEF LagTypeOK
<1> QED
  BY <1>4, <1>5, <1>6, <1>7 DEF LagInv

(* The requests. *)
LEMMA SetMembersKeeps ==
    ASSUME LagInv, NEW want \in Seq(Port), SetMembers(want)
    PROVE  LagInv'
<1>1. /\ UNCHANGED <<scn, m, claimed, trunk, pub, pass, dports, frame>> /\ job = Idle
      /\ job' = [op |-> "members", want |-> want, gone |-> NoPort]
  BY Zenon DEF SetMembers, env, cfg
<1>2. Going' = {} /\ Going = {} /\ Ports(claimed)' = Ports(claimed)
  BY <1>1 DEF Going, Ports, Idle
<1>3. \A p : ~Joining(p)
  BY <1>1 DEF Joining, Idle
<1>4. Listed' = Listed /\ job.op # "del"
  BY <1>1, <1>2 DEF Listed, Idle
<1>5. LagTypeOK'
  BY <1>1 DEF LagInv, LagTypeOK
<1> QED
  BY <1>1, <1>2, <1>3, <1>4, <1>5 DEF LagInv

LEMMA MemberOutKeeps ==
    ASSUME LagInv, MemberOut
    PROVE  /\ LagInv' /\ job'.op = "members" /\ m' \in Seq(Port) /\ Range(m') \subseteq Range(m)
           /\ Listed \subseteq Listed'
<1> DEFINE i == First(Leavers)
<1>0. LagTypeOK /\ m \in Seq(Port) /\ IsInjective(m) /\ job.want \in Seq(Port)
  BY DEF LagInv, LagTypeOK
<1>1. /\ job.op = "members" /\ job.gone = NoPort /\ Leavers # {} /\ pub = "no" /\ pass = "idle"
      /\ m' = WithLast(i) /\ job' = [job EXCEPT !.gone = m[i]] /\ Publish(WithLast(i), mem)
      /\ UNCHANGED <<scn, trunk, claimed, pass, frame>>
  BY Zenon DEF MemberOut, Free, env
<1>2. i \in Leavers
  <2>1. Leavers \subseteq Nat
    BY <1>0 DEF Leavers
  <2>2. \E x \in Leavers : \A y \in Leavers : x <= y
    BY Zenon, <1>1, <2>1, Least
  <2> QED
    BY Zenon, <2>2 DEF First
<1> HIDE DEF i
<1>3. i \in DOMAIN m /\ m[i] \in Port /\ m[i] \in Range(m)
  BY <1>0, <1>2 DEF Leavers, Range
<1>4. m' \in Seq(Port) /\ IsInjective(m') /\ Range(m') = Range(m) \ {m[i]}
  BY Zenon, <1>0, <1>1, <1>3, TakenOut DEF WithLast
<1>5. pub' \in {"count", "ports"} /\ dports' \in [0 .. (Size - 1) -> Port \cup {NoPort}]
  BY Zenon, <1>0, <1>1, <1>4, PublishSets
<1>6. m[i] # NoPort
  BY <1>3, LagAssumption
<1>7. job' \in [op : {"none", "members", "del"}, want : Seq(Port), gone : Port \cup {NoPort}]
      /\ job'.op = "members" /\ job'.gone = m[i]
  BY <1>0, <1>1, <1>3 DEF LagTypeOK
<1>8. Going' = {m[i]} /\ Going = {} /\ Ports(claimed)' = Ports(claimed) /\ Range(m)' = Range(m')
  BY <1>1, <1>6, <1>7 DEF Going, Ports
<1>9. \A p : ~Joining(p)
  BY <1>1 DEF Joining
<1>10. Listed = Range(m) /\ Listed' = Range(m') \cup {m[i]}
  BY <1>1, <1>5, <1>8 DEF Listed
<1>11. LagTypeOK'
  BY <1>0, <1>1, <1>4, <1>5, <1>7 DEF LagTypeOK
<1> QED
  BY <1>1, <1>3, <1>4, <1>7, <1>8, <1>9, <1>10, <1>11 DEF LagInv

LEMMA member_leaveKeeps == ASSUME LagInv, member_leave PROVE LagInv'
<1>0. /\ LagTypeOK /\ claimed \in [Port -> BOOLEAN]
      /\ job \in [op : {"none", "members", "del"}, want : Seq(Port), gone : Port \cup {NoPort}]
  BY DEF LagInv, LagTypeOK
<1>1. /\ job.gone # NoPort /\ pub = "no" /\ claimed' = [claimed EXCEPT ![job.gone] = FALSE]
      /\ job' = [job EXCEPT !.gone = NoPort] /\ UNCHANGED <<scn, m, trunk, pub, pass, dports, frame>>
  BY Zenon DEF member_leave, env
<1>2. /\ job' \in [op : {"none", "members", "del"}, want : Seq(Port), gone : Port \cup {NoPort}]
      /\ job'.op = job.op /\ job'.gone = NoPort /\ job.op # "none"
  BY <1>0, <1>1 DEF LagTypeOK, Idle
<1>3. Going = {job.gone} /\ Going' = {} /\ Ports(claimed)' = Ports(claimed) \ {job.gone}
  BY <1>0, <1>1, <1>2 DEF Going, Ports
<1>4. \A p : ~Joining(p)
  BY <1>1 DEF Joining
<1>5. Listed = Range(m) /\ Listed' = Range(m) /\ Range(m)' = Range(m)
  BY <1>1, <1>3 DEF Listed
<1>6. LagTypeOK'
  BY <1>0, <1>1, <1>2 DEF LagTypeOK
<1> QED
  BY Zenon, <1>1, <1>2, <1>3, <1>4, <1>5, <1>6 DEF LagInv

LEMMA member_joinKeeps == ASSUME LagInv, NEW p \in Port, member_join(p) PROVE LagInv'
<1>0. LagTypeOK /\ claimed \in [Port -> BOOLEAN]
  BY DEF LagInv, LagTypeOK
<1>1. /\ Joiner(p) /\ (\A q \in Port : claimed[q] => q \in Range(m)) /\ claimed' = [claimed EXCEPT ![p] = TRUE]
      /\ UNCHANGED <<scn, m, job, trunk, pub, pass, dports, frame>>
  BY Zenon DEF member_join, env
<1>2. Going' = Going /\ Listed' = Listed /\ Leavers' = Leavers /\ Ports(claimed)' = Ports(claimed) \cup {p}
  BY <1>0, <1>1 DEF Going, Listed, Leavers, Ports
<1>3. Joining(p)'
  BY <1>1, <1>2 DEF Joining, Joiner
<1>4. LagTypeOK'
  BY <1>0, <1>1 DEF LagTypeOK
<1>5. \A q \in Ports(claimed) : q \in Range(m)
  BY <1>1 DEF Ports
<1> QED
  BY Zenon, <1>1, <1>2, <1>3, <1>4, <1>5 DEF LagInv

LEMMA MemberInKeeps == ASSUME LagInv, NEW p \in Port, MemberIn(p) PROVE LagInv'
<1>0. LagTypeOK /\ m \in Seq(Port) /\ IsInjective(m) /\ claimed \in [Port -> BOOLEAN]
  BY DEF LagInv, LagTypeOK
<1>1. /\ Joiner(p) /\ claimed[p] /\ pub = "no" /\ m' = Append(m, p)
      /\ UNCHANGED <<scn, claimed, job, trunk, pub, pass, dports, frame>>
  BY Zenon DEF MemberIn, Free, env
<1>2. /\ job.op = "members" /\ job.gone = NoPort /\ Leavers = {}
      /\ p \in Range(job.want) /\ p \notin Range(m)
  BY <1>1 DEF Joiner
<1>3. m' \in Seq(Port) /\ IsInjective(m') /\ Range(m') = Range(m) \cup {p}
  BY Zenon, <1>0, <1>1, <1>2, Appended
<1>4. Leavers' = {}
  <2>1. \A x \in Range(m) : x \in Range(job.want)
    BY Zenon, <1>0, <1>2 DEF Leavers, Range
  <2>2. \A x \in Range(m') : x \in Range(job.want)
    BY <1>2, <1>3, <2>1
  <2>3. \A x \in DOMAIN m' : m'[x] \in Range(m')
    BY Zenon DEF Range
  <2>4. job' = job
    BY <1>1
  <2> QED
    BY <2>2, <2>3, <2>4 DEF Leavers
<1>5. Going' = {} /\ Going = {} /\ Ports(claimed)' = Ports(claimed) /\ Range(m)' = Range(m') /\ p \in Ports(claimed)
  BY <1>1, <1>2 DEF Going, Ports
<1>6. \A q : Joining(q) => Joining(q)'
  BY <1>1, <1>4 DEF Joining
<1>7. Listed = Range(m) /\ Listed' = Range(m')
  BY <1>1, <1>5 DEF Listed
<1>8. LagTypeOK'
  BY <1>0, <1>1, <1>3 DEF LagTypeOK
<1> QED
  BY <1>1, <1>3, <1>5, <1>6, <1>7, <1>8 DEF LagInv

LEMMA MembersDoneKeeps == ASSUME LagInv, MembersDone PROVE LagInv'
<1>1. /\ job.op = "members" /\ job.gone = NoPort /\ Range(job.want) = Range(m) /\ job' = Idle
      /\ UNCHANGED <<scn, m, claimed, trunk, pub, pass, dports, frame>>
  BY Zenon DEF MembersDone, env, cfg
<1>2. Going' = {} /\ Going = {} /\ Ports(claimed)' = Ports(claimed) /\ Range(m)' = Range(m)
  BY <1>1 DEF Going, Ports, Idle
<1>3. Listed' = Listed
  BY <1>1, <1>2 DEF Listed
<1>4. \A p : Joining(p) => p \in Range(m)
  BY <1>1 DEF Joining
<1>5. LagTypeOK'
  BY <1>1 DEF LagInv, LagTypeOK, Idle
<1> QED
  BY <1>1, <1>2, <1>3, <1>4, <1>5 DEF LagInv

LEMMA DelKeeps == ASSUME LagInv, DelLag \/ DelMember \/ DelDone PROVE LagInv'
<1>0. /\ LagTypeOK /\ m \in Seq(Port) /\ IsInjective(m)
      /\ job \in [op : {"none", "members", "del"}, want : Seq(Port), gone : Port \cup {NoPort}]
  BY DEF LagInv, LagTypeOK
<1>1. CASE DelLag
  <2>1. /\ job = Idle /\ job' = [Idle EXCEPT !.op = "del"]
        /\ UNCHANGED <<scn, m, claimed, trunk, pub, pass, dports, frame>>
    BY Zenon, <1>1 DEF DelLag, env, cfg
  <2>2. /\ job'.op = "del" /\ job'.gone = NoPort
        /\ job' \in [op : {"none", "members", "del"}, want : Seq(Port), gone : Port \cup {NoPort}]
    <3>1. job' = [op |-> "del", want |-> <<>>, gone |-> NoPort]
      BY <2>1 DEF Idle
    <3>2. <<>> \in Seq(Port)
      OBVIOUS
    <3> QED
      BY <3>1, <3>2
  <2>3. Going' = {} /\ Going = {} /\ Ports(claimed)' = Ports(claimed) /\ Range(m)' = Range(m)
    BY <2>1, <2>2 DEF Going, Ports, Idle
  <2>4. \A p : ~Joining(p)
    BY <2>1 DEF Joining, Idle
  <2>5. LagTypeOK'
    BY <1>0, <2>1, <2>2 DEF LagTypeOK
  <2> QED
    BY <2>2, <2>3, <2>4, <2>5 DEF LagInv
<1>2. CASE DelMember
  <2>1. /\ job.op = "del" /\ job.gone = NoPort /\ m # <<>> /\ job' = [job EXCEPT !.gone = m[Len(m)]]
        /\ m' = SubSeq(m, 1, Len(m) - 1) /\ UNCHANGED <<scn, claimed, trunk, pub, pass, dports, frame>>
    BY Zenon, <1>2 DEF DelMember, env
  <2>2. /\ m[Len(m)] \in Range(m) /\ m' \in Seq(Port) /\ IsInjective(m') /\ Range(m') = Range(m) \ {m[Len(m)]}
        /\ Range(m) \subseteq Port
    BY Zenon, <1>0, <2>1, LastOut, Listing
  <2>3. m[Len(m)] \in Port /\ m[Len(m)] # NoPort
    BY <2>2, LagAssumption
  <2>4. /\ job'.op = "del" /\ job'.gone = m[Len(m)]
        /\ job' \in [op : {"none", "members", "del"}, want : Seq(Port), gone : Port \cup {NoPort}]
    BY Zenon, <1>0, <2>1, <2>3
  <2>5. Going' = {m[Len(m)]} /\ Going = {} /\ Ports(claimed)' = Ports(claimed) /\ Range(m)' = Range(m')
    BY <2>1, <2>3, <2>4 DEF Going, Ports
  <2>6. \A p : ~Joining(p)
    BY <2>1 DEF Joining
  <2>7. LagTypeOK'
    BY <1>0, <2>1, <2>2, <2>4 DEF LagTypeOK
  <2> QED
    BY <2>2, <2>4, <2>5, <2>6, <2>7 DEF LagInv
<1>3. CASE DelDone
  <2>1. /\ job.op = "del" /\ job.gone = NoPort
        /\ \/ job' = job
           \/ trunk' = {} /\ job' = Idle
        /\ UNCHANGED <<scn, m, claimed, pub, pass, dports, frame>>
    BY <1>3 DEF DelDone, env
  <2>2. job'.gone = NoPort
    BY <2>1 DEF Idle
  <2>3. Going' = {} /\ Going = {} /\ Ports(claimed)' = Ports(claimed) /\ Range(m)' = Range(m)
    BY <2>1, <2>2 DEF Going, Ports
  <2>4. \A p : ~Joining(p)
    BY <2>1 DEF Joining
  <2>5. LagTypeOK'
    <3>1. /\ job' \in [op : {"none", "members", "del"}, want : Seq(Port), gone : Port \cup {NoPort}]
          /\ job'.op = "none" => job' = Idle
      <4>1. \A w \in Seq(Port) :
                [op |-> "none", want |-> w, gone |-> NoPort]
                    \in [op : {"none", "members", "del"}, want : Seq(Port), gone : Port \cup {NoPort}]
        BY Zenon
      <4>2. <<>> \in Seq(Port)
        OBVIOUS
      <4>3. Idle \in [op : {"none", "members", "del"}, want : Seq(Port), gone : Port \cup {NoPort}]
        BY Zenon, <4>1, <4>2 DEF Idle
      <4> QED
        BY <1>0, <2>1, <4>3
    <3> QED
      BY <1>0, <2>1, <3>1 DEF LagTypeOK
  <2> QED
    BY <2>1, <2>3, <2>4, <2>5 DEF LagInv
<1> QED
  BY <1>1, <1>2, <1>3

(* The thread's passes, and a change of the mode. *)
LEMMA ThreadKeeps == ASSUME LagInv, PassLinks \/ PassRest \/ SetMode PROVE LagInv'
<1>0. LagTypeOK /\ m \in Seq(Port) /\ dports \in [0 .. (Size - 1) -> Port \cup {NoPort}]
  BY DEF LagInv, LagTypeOK
<1>1. CASE PassLinks
  <2>1. UNCHANGED <<scn, m, claimed, job, dports, trunk, pub, frame>> /\ pub = "no"
    BY Zenon, <1>1 DEF PassLinks, Free, env
  <2> QED
    BY <2>1, LagUntouched
<1>2. CASE PassRest
  <2>1. /\ UNCHANGED <<scn, m, claimed, job, trunk, frame>> /\ pass = "rest" /\ pass' = "idle"
        /\ \/ \E r : Publish(m, r)
           \/ UNCHANGED <<dports, pub>>
    BY Zenon, <1>2 DEF PassRest, env
  <2>2. pub = "no"
    BY <1>0, <2>1 DEF LagTypeOK
  <2>3. pub' \in {"no", "count", "ports"} /\ dports' \in [0 .. (Size - 1) -> Port \cup {NoPort}]
    <3>1. CASE \E r : Publish(m, r)
      BY <1>0, <3>1, PublishSets
    <3>2. CASE UNCHANGED <<dports, pub>>
      BY <1>0, <2>2, <3>2
    <3> QED
      BY Zenon, <2>1, <3>1, <3>2
  <2> QED
    BY <2>1, <2>2, <2>3, PublishesKeeps
<1>3. CASE SetMode
  <2>1. /\ UNCHANGED <<scn, m, claimed, job, trunk, frame, pass>> /\ pass = "idle" /\ pub = "no"
        /\ \E r : Publish(m, r)
    BY Zenon, <1>3 DEF SetMode, Free, env
  <2>2. pub' \in {"no", "count", "ports"} /\ dports' \in [0 .. (Size - 1) -> Port \cup {NoPort}]
    BY <1>0, <2>1, PublishSets
  <2> QED
    BY <2>1, <2>2, PublishesKeeps
<1> QED
  BY <1>1, <1>2, <1>3

LEMMA LagStays == LagInv /\ [Next]_vars => LagInv'
<1> SUFFICES ASSUME LagInv, [Next]_vars PROVE LagInv'
  OBVIOUS
<1>1. CASE Thread \/ SetMode
  BY Zenon, <1>1, ThreadKeeps DEF Thread
<1>2. CASE PublishRest
  BY Zenon, <1>2, PublishRestKeeps
<1>3. CASE Server \/ DelLag
  BY Zenon, <1>3, MemberOutKeeps, member_leaveKeeps, MembersDoneKeeps, DelKeeps, member_joinKeeps, MemberInKeeps
  DEF Server
<1>4. ASSUME NEW l, AddLag(l) PROVE LagInv'
  <2>1. UNCHANGED <<scn, m, claimed, job, dports, pub, pass, frame>> /\ trunk' = {}
    BY Zenon, <1>4 DEF AddLag, env
  <2> QED
    BY <2>1, LagUntouched
<1>5. CASE PickCount \/ PickPort \/ Sent
  <2>1. UNCHANGED <<scn, m, claimed, job, dports, trunk, pub, pass>>
    BY Zenon, <1>5 DEF PickCount, PickPort, Sent, env, cfg
  <2>2. "send" \notin scn.events => frame' = frame
    <3> SUFFICES ASSUME "send" \notin scn.events PROVE FALSE
      OBVIOUS
    <3>1. frame = NoFrame
      BY DEF LagInv, LagTypeOK
    <3> QED
      BY <1>5, <3>1 DEF PickCount, PickPort, Sent, Happens, NoFrame
  <2> QED
    BY <2>1, <2>2, LagUntouched
<1>6. ASSUME NEW n \in 0 .. Size, NEW want \in [1 .. n -> Port], SetMembers(want) PROVE LagInv'
  <2>1. Size \in Nat
    BY Zenon, FS_CardinalityType, LagAssumption DEF Size
  <2>2. want \in Seq(Port)
    BY <2>1
  <2> QED
    BY Zenon, <1>6, <2>2, SetMembersKeeps
<1>7. ASSUME NEW p \in Port, LinkMoves(p) \/ Scan(p) \/ Agrees(p) PROVE LagInv'
  <2>1. UNCHANGED <<scn, m, claimed, job, dports, pub, pass, frame>> /\ trunk' \subseteq trunk
    BY <1>7 DEF LinkMoves, Scan, ChipRemoves, lag_linkscan, Agrees, cfg
  <2> QED
    BY <2>1, LagUntouched
<1>8. CASE UNCHANGED vars
  <2>1. UNCHANGED <<scn, m, claimed, job, dports, pub, pass, frame, trunk>>
    BY Zenon, <1>8 DEF vars
  <2> QED
    BY <2>1, LagUntouched
<1> QED
  BY Zenon, <1>1, <1>2, <1>3, <1>4, <1>5, <1>6, <1>7, <1>8 DEF Next
-----------------------------------------------------------------------------
(* A step that publishes nothing: the list may only grow, and so may the claims, with
   the ports the frame has seen. *)
LEMMA SendUntouched ==
    ASSUME SendOK, UNCHANGED <<dports, ndist, frame, pub>>, seen \subseteq seen',
           Listed \subseteq Listed', pub = "count" => UNCHANGED <<m, mem>>, job'.op # "del",
           Ports(claimed)' \subseteq Ports(claimed) \cup seen'
    PROVE  SendOK'
<1>1. ndist' \in 0 .. Size /\ pub' # "ports" /\ \A i \in 0 .. (ndist' - 1) : dports'[i] \in Listed'
  BY DEF SendOK
<1>2. pub' = "count" => LET d == Distributing(m', mem')
                        IN  \A i \in 0 .. (Len(d) - 1) : dports'[i] = d[i + 1]
  BY Zenon DEF SendOK
<1>3. frame.n > 0 => Ports(claimed)' \subseteq seen' /\ \A i \in 0 .. (frame.n - 1) : dports[i] \in seen'
  BY DEF SendOK
<1>4. PickedMember'
  BY DEF SendOK, PickedMember
<1> QED
  BY <1>1, <1>2, <1>3, <1>4 DEF SendOK

(* The stores of publish, in order: what is overwritten is a member's, and so is what is
   written. *)
LEMMA SendPublishes ==
    ASSUME SendOK, LagInv, scn.ordered, pub = "no", NEW ms \in Seq(Port), NEW r, Publish(ms, r),
           IsInjective(ms), m' = ms, mem' = r, Range(ms) \subseteq Range(m), Listed \subseteq Listed',
           UNCHANGED <<claimed, frame, seen>>, job'.op # "del"
    PROVE  SendOK'
<1> DEFINE d == Distributing(ms, r)
<1>0. Size \in Nat /\ ndist \in 0 .. Size
  <2>1. Size \in Nat
    BY Zenon, FS_CardinalityType, LagAssumption DEF Size
  <2> QED
    BY <2>1 DEF SendOK
<1>1. dports' = Written(d) /\ pub' = "count" /\ ndist' = ndist
  BY Zenon DEF Publish
<1>2. /\ \A i \in 0 .. (Size - 1) :
             /\ i < Len(d) => Written(d)[i] = d[i + 1] /\ d[i + 1] \in Range(ms)
             /\ i >= Len(d) => Written(d)[i] = dports[i]
      /\ Len(d) <= Len(ms) /\ d \in Seq(Port)
  BY Zenon, WrittenIs, DistributingIs DEF LagInv
<1>3. Len(d) \in Nat /\ Len(ms) \in Nat
  BY Zenon, <1>2, Listing
<1>4. Distributing(m', mem') = d
  BY Zenon
<1> HIDE DEF d
<1>5. Range(ms) \subseteq Listed' /\ Range(m) \subseteq Ports(claimed) /\ Ports(claimed)' = Ports(claimed)
  BY DEF Listed, LagInv, Ports
<1>6. ASSUME NEW i \in 0 .. (Size - 1)
      PROVE  dports'[i] \in Range(ms) \/ dports'[i] = dports[i]
  <2>1. i < Len(d) \/ i >= Len(d)
    BY <1>0, <1>3
  <2> QED
    BY <1>1, <1>2, <2>1
<1>7. \A i \in 0 .. (ndist' - 1) : dports'[i] \in Listed'
  <2> SUFFICES ASSUME NEW i \in 0 .. (ndist - 1) PROVE dports'[i] \in Listed'
    BY <1>1
  <2>1. i \in 0 .. (Size - 1)
    BY <1>0
  <2>2. dports[i] \in Listed
    BY DEF SendOK
  <2> QED
    BY <1>5, <1>6, <2>1, <2>2
<1>8. frame.n > 0 => \A i \in 0 .. (frame.n - 1) : dports'[i] \in seen
  <2> SUFFICES ASSUME frame.n > 0, NEW i \in 0 .. (frame.n - 1) PROVE dports'[i] \in seen
    OBVIOUS
  <2>1. frame.n \in 0 .. Size /\ Ports(claimed) \subseteq seen /\ dports[i] \in seen
    BY DEF SendOK
  <2>2. i \in 0 .. (Size - 1)
    BY <1>0, <2>1
  <2> QED
    BY <1>5, <1>6, <2>1, <2>2
<1>9. \A i \in 0 .. (Len(d) - 1) : dports'[i] = d[i + 1]
  <2> SUFFICES ASSUME NEW i \in 0 .. (Len(d) - 1) PROVE dports'[i] = d[i + 1]
    OBVIOUS
  <2>1. Len(ms) <= Size
    BY Zenon, InjectiveFits
  <2>2. i \in 0 .. (Size - 1) /\ i < Len(d)
    BY <1>0, <1>2, <1>3, <2>1
  <2> QED
    BY <1>1, <1>2, <2>2
<1>10. PickedMember'
  BY DEF SendOK, PickedMember
<1> QED
  BY Zenon, <1>0, <1>1, <1>4, <1>5, <1>7, <1>8, <1>9, <1>10 DEF SendOK

LEMMA SendStays == SendsOrdered /\ LagInv /\ SendInv /\ [Next]_vars => SendInv'
<1> SUFFICES ASSUME SendsOrdered, LagInv, SendInv, [Next]_vars, "send" \in scn'.events PROVE SendOK'
  BY DEF SendInv
<1>0. LagTypeOK /\ m \in Seq(Port) /\ IsInjective(m) /\ scn \in Scenarios
  BY DEF LagInv, LagTypeOK
<1>1. scn' = scn
  BY Zenon DEF Next, vars, Thread, PassLinks, PassRest, PublishRest, Server, MemberOut, member_leave, MembersDone,
     DelMember, DelDone, member_join, MemberIn, SetMode, DelLag, PickCount, PickPort, Sent, AddLag, SetMembers,
     LinkMoves, Scan, ChipRemoves, lag_linkscan, Agrees, env
<1>2. SendOK /\ scn.ordered /\ "del" \notin scn.events
  BY <1>0, <1>1 DEF SendInv, SendsOrdered
<1>3. job.op # "del"
  BY <1>2 DEF SendOK
<1>4. Size \in Nat
  BY Zenon, FS_CardinalityType, LagAssumption DEF Size
<1>5. ASSUME UNCHANGED <<dports, ndist, frame, seen, claimed, pub, job>>, m' = m, pub = "no" \/ mem' = mem
      PROVE  SendOK'
  <2>1. Listed' = Listed /\ Ports(claimed)' = Ports(claimed)
    BY <1>5 DEF Listed, Going, Ports
  <2>2. (pub = "count" => UNCHANGED <<m, mem>>) /\ seen' = seen /\ job'.op # "del"
    BY <1>3, <1>5
  <2> QED
    BY <1>2, <1>5, <2>1, <2>2, SendUntouched
<1>6. ASSUME NEW r, Publish(m, r), mem' = r, pub = "no", UNCHANGED <<m, claimed, frame, seen, job>>
      PROVE  SendOK'
  <2>1. Listed \subseteq Listed' /\ job'.op # "del"
    BY <1>3, <1>6 DEF Listed, Going
  <2> QED
    BY <1>0, <1>2, <1>6, <2>1, SendPublishes
<1>7. CASE PassLinks
  <2>1. UNCHANGED <<dports, ndist, frame, seen, claimed, pub, job>> /\ m' = m /\ pub = "no"
    BY Zenon, <1>7 DEF PassLinks, Free
  <2> QED
    BY Zenon, <1>5, <2>1
<1>8. CASE PassRest
  <2>1. /\ UNCHANGED <<m, claimed, frame, seen, job>> /\ pass = "rest"
        /\ \/ Publish(m, mem')
           \/ UNCHANGED <<dports, ndist, pub>>
    BY Zenon, <1>8 DEF PassRest
  <2>2. pub = "no"
    BY <1>0, <2>1 DEF LagTypeOK
  <2>3. CASE Publish(m, mem')
    BY Zenon, <1>6, <2>1, <2>2, <2>3
  <2>4. CASE UNCHANGED <<dports, ndist, pub>>
    BY <1>5, <2>1, <2>2, <2>4
  <2> QED
    BY Zenon, <2>1, <2>3, <2>4
<1>9. CASE SetMode
  <2>1. UNCHANGED <<m, claimed, frame, seen, job>> /\ pub = "no" /\ Publish(m, mem')
    BY Zenon, <1>9 DEF SetMode, Free
  <2> QED
    BY Zenon, <1>6, <2>1
<1>10. CASE PublishRest
  <2> DEFINE d == Distributing(m, mem)
  <2>1. pub = "count"
    BY <1>0, <1>2, <1>10 DEF PublishRest, SendOK, LagTypeOK
  <2>2. pub' = "no" /\ ndist' = Len(d) /\ UNCHANGED <<dports, m, mem, claimed, job, frame, seen>>
    BY Zenon, <1>10, <2>1 DEF PublishRest, cfg
  <2>3. \A i \in 0 .. (Len(d) - 1) : dports[i] = d[i + 1]
    BY Zenon, <1>2, <2>1 DEF SendOK
  <2>4. d \in Seq(Port) /\ Len(d) <= Len(m) /\ Range(d) \subseteq Range(m)
    BY Zenon, <1>0, DistributingIs
  <2> HIDE DEF d
  <2>5. Len(d) \in Nat /\ Len(m) \in Nat /\ \A i \in 1 .. Len(d) : d[i] \in Range(m)
    BY Zenon, <1>0, <2>4, Listing
  <2>6. Len(d) \in 0 .. Size
    <3>1. Len(m) <= Size
      BY Zenon, <1>0, InjectiveFits
    <3> QED
      BY <1>4, <2>4, <2>5, <3>1
  <2>7. Listed' = Range(m) /\ Ports(claimed)' = Ports(claimed)
    BY <2>2 DEF Listed, Ports
  <2>8. \A i \in 0 .. (Len(d) - 1) : dports[i] \in Range(m)
    BY <2>3, <2>5
  <2>9. PickedMember'
    BY <1>2, <2>2 DEF SendOK, PickedMember
  <2> QED
    BY Zenon, <1>2, <2>2, <2>6, <2>7, <2>8, <2>9 DEF SendOK
<1>11. CASE MemberOut
  <2>1. /\ pub = "no" /\ Publish(m', mem) /\ mem' = mem /\ UNCHANGED <<claimed, frame, seen>>
    BY Zenon, <1>11 DEF MemberOut, Free
  <2>2. /\ job'.op = "members" /\ m' \in Seq(Port) /\ Range(m') \subseteq Range(m) /\ Listed \subseteq Listed'
        /\ LagInv'
    BY Zenon, <1>11, MemberOutKeeps
  <2>3. IsInjective(m')
    BY <2>2 DEF LagInv, LagTypeOK
  <2> QED
    BY <1>2, <2>1, <2>2, <2>3, SendPublishes
<1>12. CASE member_leave
  <2>1. /\ pub = "no" /\ claimed' = [claimed EXCEPT ![job.gone] = FALSE] /\ job' = [job EXCEPT !.gone = NoPort]
        /\ UNCHANGED <<m, mem, dports, ndist, pub, frame, seen>>
    BY Zenon, <1>12 DEF member_leave
  <2>2. Listed' = Listed /\ Ports(claimed)' \subseteq Ports(claimed) /\ job'.op # "del"
    BY <1>0, <1>3, <2>1 DEF Listed, Ports, LagTypeOK
  <2> QED
    BY Zenon, <1>2, <2>1, <2>2, SendUntouched
<1>13. ASSUME NEW p \in Port, member_join(p) PROVE SendOK'
  <2>1. /\ claimed' = [claimed EXCEPT ![p] = TRUE] /\ seen' = seen \cup {p}
        /\ UNCHANGED <<m, mem, dports, ndist, pub, frame, job>>
    BY Zenon, <1>13 DEF member_join
  <2>2. Listed' = Listed /\ Ports(claimed)' \subseteq Ports(claimed) \cup seen' /\ job'.op # "del"
    BY <1>0, <1>3, <2>1 DEF Listed, Going, Ports, LagTypeOK
  <2> QED
    BY Zenon, <1>2, <2>1, <2>2, SendUntouched
<1>14. ASSUME NEW p \in Port, MemberIn(p) PROVE SendOK'
  <2>1. m' = Append(m, p) /\ pub = "no" /\ UNCHANGED <<dports, ndist, pub, frame, job, seen, claimed>>
    BY Zenon, <1>14 DEF MemberIn, Free
  <2>2. Range(m') = Range(m) \cup {p}
    BY Zenon, <1>0, <2>1, Appended
  <2>3. Listed \subseteq Listed' /\ Ports(claimed)' = Ports(claimed) /\ job'.op # "del"
    BY <1>3, <2>1, <2>2 DEF Listed, Going, Ports
  <2> QED
    BY <1>2, <2>1, <2>3, SendUntouched
<1>15. CASE MembersDone
  <2>1. job.gone = NoPort /\ job' = Idle /\ UNCHANGED <<m, mem, dports, ndist, pub, frame, seen, claimed>>
    BY Zenon, <1>15 DEF MembersDone, cfg
  <2>2. Listed' = Listed /\ Ports(claimed)' = Ports(claimed) /\ job'.op # "del"
    BY <2>1 DEF Listed, Going, Ports, Idle
  <2> QED
    BY <1>2, <2>1, <2>2, SendUntouched
<1>16. CASE DelMember \/ DelDone \/ DelLag
  BY <1>2, <1>3, <1>16 DEF DelMember, DelDone, DelLag, Happens
<1>17. ASSUME NEW l, AddLag(l) PROVE SendOK'
  <2>1. /\ pub = "no" /\ pub' = pub /\ ndist' = 0 /\ job' = job
        /\ UNCHANGED <<m, mem, dports, frame, seen, claimed>>
    BY Zenon, <1>17 DEF AddLag, Free
  <2>2. PickedMember' /\ Ports(claimed)' = Ports(claimed)
    BY Zenon, <1>2, <2>1 DEF SendOK, PickedMember, Ports
  <2> QED
    BY <1>2, <1>4, <2>1, <2>2 DEF SendOK
<1>18. ASSUME NEW want, SetMembers(want) PROVE SendOK'
  <2>1. /\ job = Idle /\ job' = [op |-> "members", want |-> want, gone |-> NoPort]
        /\ UNCHANGED <<m, mem, dports, ndist, pub, frame, seen, claimed>>
    BY Zenon, <1>18 DEF SetMembers, cfg
  <2>2. Listed' = Listed /\ Ports(claimed)' = Ports(claimed) /\ job'.op # "del"
    BY Zenon, <2>1 DEF Listed, Going, Ports, Idle
  <2> QED
    BY <1>2, <2>1, <2>2, SendUntouched
<1>19. CASE PickCount
  <2>1. /\ frame = NoFrame /\ ndist > 0 /\ frame' = [n |-> ndist, port |-> NoPort] /\ seen' = Ports(claimed)
        /\ UNCHANGED <<m, mem, dports, ndist, pub, claimed, job>>
    BY Zenon, <1>19 DEF PickCount, cfg, Ports
  <2>2. Listed \subseteq Ports(claimed) /\ Listed' = Listed /\ Ports(claimed)' = Ports(claimed)
    BY <2>1 DEF LagInv, Listed, Going, Ports
  <2>3. frame'.n = ndist /\ frame'.port = NoPort /\ frame' \in [n : 0 .. Size, port : Port \cup {NoPort}]
    BY <1>2, <2>1 DEF SendOK
  <2>4. \A i \in 0 .. (ndist - 1) : dports[i] \in Listed
    BY <1>2 DEF SendOK
  <2>5. ndist \in 0 .. Size /\ ndist # 0
    BY <1>2, <2>1 DEF SendOK
  <2>6. PickedMember'
    BY Zenon, <2>3, <2>5 DEF PickedMember
  <2>7. pub = "count" => LET d == Distributing(m', mem')
                         IN  \A i \in 0 .. (Len(d) - 1) : dports'[i] = d[i + 1]
    BY Zenon, <1>2, <2>1 DEF SendOK
  <2> QED
    BY <1>2, <2>1, <2>2, <2>3, <2>4, <2>5, <2>6, <2>7 DEF SendOK
<1>20. CASE PickPort
  <2>1. /\ frame.n > 0 /\ (\E i \in 0 .. (frame.n - 1) : frame' = [n |-> 0, port |-> dports[i]])
        /\ UNCHANGED <<m, mem, dports, ndist, pub, claimed, job, seen>>
    BY Zenon, <1>20 DEF PickPort, cfg
  <2>2. PICK i \in 0 .. (frame.n - 1) : frame' = [n |-> 0, port |-> dports[i]]
    BY Zenon, <2>1
  <2>3. frame.n \in 0 .. Size /\ dports[i] \in seen
    BY <1>2, <2>1 DEF SendOK
  <2>4. i \in 0 .. (Size - 1)
    BY <1>4, <2>3
  <2>5. dports[i] \in Port \cup {NoPort}
    BY <1>0, <2>4 DEF LagTypeOK
  <2>6. frame'.n = 0 /\ frame'.port = dports[i] /\ frame' \in [n : 0 .. Size, port : Port \cup {NoPort}]
    BY <1>4, <2>2, <2>5
  <2>7. PickedMember'
    BY <2>1, <2>3, <2>6 DEF PickedMember
  <2>8. Listed' = Listed /\ Ports(claimed)' = Ports(claimed)
    BY <2>1 DEF Listed, Going, Ports
  <2>9. pub = "count" => LET d == Distributing(m', mem')
                         IN  \A j \in 0 .. (Len(d) - 1) : dports'[j] = d[j + 1]
    BY Zenon, <1>2, <2>1 DEF SendOK
  <2> QED
    BY <1>2, <2>1, <2>6, <2>7, <2>8, <2>9 DEF SendOK
<1>21. CASE Sent
  <2>1. frame' = NoFrame /\ UNCHANGED <<m, mem, dports, ndist, pub, claimed, job>>
    BY Zenon, <1>21 DEF Sent, cfg
  <2>2. frame'.n = 0 /\ frame'.port = NoPort /\ frame' \in [n : 0 .. Size, port : Port \cup {NoPort}]
    BY <1>4, <2>1 DEF NoFrame
  <2>3. PickedMember'
    BY <2>1, <2>2 DEF PickedMember, NoFrame
  <2>4. Listed' = Listed
    BY <2>1 DEF Listed, Going
  <2>5. pub = "count" => LET d == Distributing(m', mem')
                         IN  \A j \in 0 .. (Len(d) - 1) : dports'[j] = d[j + 1]
    BY Zenon, <1>2, <2>1 DEF SendOK
  <2> QED
    BY <1>2, <2>1, <2>2, <2>3, <2>4, <2>5 DEF SendOK
<1>22. ASSUME NEW p \in Port, LinkMoves(p) \/ Scan(p) \/ Agrees(p) PROVE SendOK'
  <2>1. UNCHANGED <<m, mem, dports, ndist, pub, frame, seen, claimed, job>>
    BY Zenon, <1>22 DEF LinkMoves, Scan, ChipRemoves, lag_linkscan, Agrees, cfg
  <2> QED
    BY <1>5, <2>1
<1>23. CASE UNCHANGED vars
  <2>1. UNCHANGED <<m, mem, dports, ndist, pub, frame, seen, claimed, job>>
    BY Zenon, <1>23 DEF vars
  <2> QED
    BY <1>5, <2>1
<1>24. CASE Server
  BY Zenon, <1>11, <1>12, <1>13, <1>14, <1>15, <1>16, <1>24 DEF Server
<1> QED
  BY Zenon, <1>7, <1>8, <1>9, <1>10, <1>16, <1>17, <1>18, <1>19, <1>20, <1>21, <1>22, <1>23, <1>24
  DEF Next, Thread

(* Claims: at every moment of a request, of the thread's pass and of linkscan's word,
   a member is listed once and claimed, every claimed port is a member or on its way,
   and the chip's table holds claimed ports only unless the LAG is being removed. *)
THEOREM AlwaysClaims == Spec => []Claims
<1>1. LagInv => Claims
  <2> SUFFICES ASSUME LagInv PROVE Claims
    OBVIOUS
  <2>1. IsInjective(m) /\ Range(m) \subseteq Ports(claimed)
    BY DEF LagInv, LagTypeOK
  <2>2. job = Idle => Range(m) = Ports(claimed)
    <3>1. SUFFICES ASSUME job = Idle PROVE Ports(claimed) \subseteq Range(m)
      BY Zenon, <2>1
    <3>2. job.op = "none" /\ Going = {}
      BY <3>1 DEF Idle, Going
    <3> QED
      BY <3>2 DEF LagInv, Joining
  <2>3. job.op # "del" => trunk \subseteq Ports(claimed)
    BY DEF LagInv, Listed
  <2> QED
    BY <2>1, <2>2, <2>3 DEF Claims
<1>2. Init => LagInv
  BY LagStarts
<1> QED
  BY <1>1, <1>2, LagStays, PTL DEF Spec
-----------------------------------------------------------------------------
(* publish's loop, round by round. *)
LEMMA DistributingLoop ==
    ASSUME NEW ms \in Seq(Port), NEW r
    PROVE  \E g : /\ g[0] = <<>>
                  /\ \A i \in 1 .. Len(ms) : g[i] = Round(ms, r, i, g[i - 1])
                  /\ Distributing(ms, r) = g[Len(ms)]
<1> DEFINE L == CHOOSE g : IsLoop(ms, r, Len(ms), g)
<1>1. Len(ms) \in Nat
  OBVIOUS
<1>2. IsLoop(ms, r, Len(ms), L)
  BY Zenon, <1>1, LoopThere
<1>3. Distributing(ms, r) = L[Len(ms)]
  BY DEF Distributing, IsLoop, Round
<1> HIDE DEF L
<1>4. L[0] = <<>>
  BY <1>1, <1>2 DEF IsLoop
<1>5. ASSUME NEW i \in 1 .. Len(ms) PROVE L[i] = Round(ms, r, i, L[i - 1])
  BY <1>1, <1>2 DEF IsLoop
<1> QED
  BY Zenon, <1>3, <1>4, <1>5

(* A member is published once. *)
LEMMA DistributingOnce ==
    ASSUME NEW ms \in Seq(Port), NEW r, IsInjective(ms)
    PROVE  IsInjective(Distributing(ms, r))
<1>1. PICK g : /\ g[0] = <<>>
               /\ \A i \in 1 .. Len(ms) : g[i] = Round(ms, r, i, g[i - 1])
               /\ Distributing(ms, r) = g[Len(ms)]
  BY Zenon, DistributingLoop
<1>2. Len(ms) \in Nat /\ DOMAIN ms = 1 .. Len(ms) /\ \A i \in 1 .. Len(ms) : ms[i] \in Port
  BY Zenon, Listing
<1> DEFINE Upto(d, i) == \A x \in Range(d) : \E j \in 1 .. i : x = ms[j]
           Once(d, i) == d \in Seq(Port) /\ IsInjective(d) /\ Upto(d, i)
           T == {i \in 0 .. Len(ms) : ~Once(g[i], i)}
<1>3. T = {}
  <2> SUFFICES ASSUME T # {} PROVE FALSE
    BY Zenon
  <2>1. PICK x \in T : \A y \in T : x <= y
    <3>1. T \subseteq Nat
      BY <1>2
    <3> HIDE DEF T
    <3> QED
      BY Zenon, <3>1, Least
  <2>2. x \in 0 .. Len(ms) /\ ~Once(g[x], x)
    BY <2>1
  <2>3. CASE x = 0
    <3>1. <<>> \in Seq(Port) /\ Range(<<>>) = {} /\ IsInjective(<<>>)
      BY DEF Range, IsInjective
    <3> QED
      BY Zenon, <1>1, <2>2, <2>3, <3>1
  <2>4. CASE x # 0
    <3>1. x \in 1 .. Len(ms) /\ x - 1 \in 0 .. Len(ms) /\ x - 1 \notin T
      <4> HIDE DEF T
      <4>1. Len(ms) \in Nat /\ x \in 0 .. Len(ms) /\ \A y \in T : x <= y
        BY Zenon, <1>2, <2>1, <2>2
      <4> QED
        BY ONLY <4>1, <2>4
    <3> DEFINE d == g[x - 1]
    <3>2. d \in Seq(Port) /\ IsInjective(d) /\ Upto(d, x - 1)
      <4>1. Once(g[x - 1], x - 1)
        <5> HIDE DEF Once
        <5> QED
          BY Zenon, <3>1
      <4> QED
        BY Zenon, <4>1
    <3>3. g[x] = d \/ g[x] = Append(d, ms[x])
      BY Zenon, <1>1, <3>1 DEF Round
    <3> HIDE DEF d
    <3>4. Upto(d, x)
      <4>1. \A j \in 1 .. (x - 1) : j \in 1 .. x
        BY <1>2, <3>1
      <4> QED
        BY Zenon, <3>2, <4>1
    <3>5. ms[x] \notin Range(d)
      <4>1. \A j \in 1 .. (x - 1) : j \in 1 .. Len(ms) /\ j # x
        BY <1>2, <3>1
      <4>2. \A j \in 1 .. (x - 1) : ms[x] # ms[j]
        BY Zenon, <1>2, <3>1, <4>1 DEF IsInjective
      <4> QED
        BY Zenon, <3>2, <4>2
    <3>6. ms[x] \in Port /\ x \in 1 .. x
      BY <1>2, <3>1
    <3>7. /\ Append(d, ms[x]) \in Seq(Port) /\ IsInjective(Append(d, ms[x]))
          /\ Range(Append(d, ms[x])) = Range(d) \cup {ms[x]}
      BY Zenon, <3>2, <3>5, <3>6, Appended
    <3>8. Upto(Append(d, ms[x]), x)
      BY <3>4, <3>6, <3>7
    <3> HIDE DEF Upto
    <3> QED
      BY Zenon, <2>2, <3>2, <3>3, <3>4, <3>7, <3>8
  <2> QED
    BY <2>3, <2>4
<1>4. Once(g[Len(ms)], Len(ms))
  <2>1. Len(ms) \in 0 .. Len(ms)
    BY <1>2
  <2> HIDE DEF Once
  <2> QED
    BY Zenon, <1>3, <2>1
<1> QED
  BY Zenon, <1>1, <1>4

(* A member that joins does not distribute: what is published stays. *)
LEMMA DistributingGrows ==
    ASSUME NEW ms \in Seq(Port), NEW p \in Port, NEW r, NEW s,
           \A x \in Range(ms) : s[x] = r[x], ~s[p].dist
    PROVE  Distributing(Append(ms, p), s) = Distributing(ms, r)
<1> DEFINE ns == Append(ms, p)
<1>1. /\ Len(ms) \in Nat /\ ns \in Seq(Port) /\ Len(ns) = Len(ms) + 1
      /\ ns[Len(ms) + 1] = p /\ \A i \in 1 .. Len(ms) : ns[i] = ms[i]
  OBVIOUS
<1> HIDE DEF ns
<1>2. PICK g : /\ g[0] = <<>>
               /\ \A i \in 1 .. Len(ms) : g[i] = Round(ms, r, i, g[i - 1])
               /\ Distributing(ms, r) = g[Len(ms)]
  BY Zenon, DistributingLoop
<1>3. PICK h : /\ h[0] = <<>>
               /\ \A i \in 1 .. Len(ns) : h[i] = Round(ns, s, i, h[i - 1])
               /\ Distributing(ns, s) = h[Len(ns)]
  BY Zenon, <1>1, DistributingLoop
<1> DEFINE T == {i \in 0 .. Len(ms) : g[i] # h[i]}
<1>4. T = {}
  <2> SUFFICES ASSUME T # {} PROVE FALSE
    OBVIOUS
  <2>1. PICK x \in T : \A y \in T : x <= y
    <3>1. T \subseteq Nat
      BY <1>1
    <3> HIDE DEF T
    <3> QED
      BY Zenon, <3>1, Least
  <2>2. x \in 0 .. Len(ms) /\ g[x] # h[x]
    BY <2>1
  <2>3. CASE x = 0
    BY <1>2, <1>3, <2>2, <2>3
  <2>4. CASE x # 0
    <3>1. x \in 1 .. Len(ms) /\ x \in 1 .. Len(ns) /\ x - 1 \in 0 .. Len(ms) /\ x - 1 \notin T
      BY <1>1, <2>1, <2>2, <2>4
    <3>2. g[x - 1] = h[x - 1]
      BY <3>1
    <3>3. ns[x] = ms[x] /\ s[ms[x]] = r[ms[x]]
      <4>1. ms[x] \in Range(ms)
        BY Zenon, <3>1, Listing
      <4> QED
        BY Zenon, <1>1, <3>1, <4>1
    <3>4. g[x] = Round(ms, r, x, g[x - 1]) /\ h[x] = Round(ns, s, x, h[x - 1])
      BY Zenon, <1>2, <1>3, <3>1
    <3>5. Round(ns, s, x, h[x - 1]) = Round(ms, r, x, h[x - 1])
      BY <3>3 DEF Round
    <3> QED
      BY Zenon, <2>2, <3>2, <3>4, <3>5
  <2> QED
    BY <2>3, <2>4
<1>5. g[Len(ms)] = h[Len(ms)]
  BY <1>1, <1>4
<1>6. h[Len(ms) + 1] = Round(ns, s, Len(ms) + 1, h[Len(ms)])
  <2>1. Len(ms) + 1 \in 1 .. Len(ns) /\ (Len(ms) + 1) - 1 = Len(ms)
    BY <1>1
  <2> QED
    BY <1>3, <2>1
<1>7. h[Len(ms) + 1] = h[Len(ms)]
  BY Zenon, <1>1, <1>6 DEF Round
<1> QED
  BY Zenon, <1>1, <1>2, <1>3, <1>5, <1>7 DEF ns

(* A LAG without members publishes none. *)
LEMMA DistributingNone ==
    ASSUME NEW r
    PROVE  Distributing(<<>>, r) = <<>>
<1>1. <<>> \in Seq(Port) /\ Len(<<>>) = 0
  OBVIOUS
<1>2. PICK g : g[0] = <<>> /\ Distributing(<<>>, r) = g[Len(<<>>)]
  BY Zenon, <1>1, DistributingLoop
<1> QED
  BY Zenon, <1>1, <1>2

(* Ports published once each are as many as their count. *)
LEMMA OnceCounted ==
    ASSUME NEW d \in Seq(Port), IsInjective(d)
    PROVE  Cardinality(Range(d)) = Len(d)
<1>1. Len(d) \in Nat /\ d \in [1 .. Len(d) -> Port] /\ DOMAIN d = 1 .. Len(d)
  BY Zenon, SeqDef, LenProperties
<1>2. \A x : x \in Range(d) <=> \E i \in 1 .. Len(d) : x = d[i]
  BY Zenon, Listing
<1>3. d \in [1 .. Len(d) -> Range(d)]
  BY <1>1, <1>2
<1>4. /\ \A i, j \in 1 .. Len(d) : d[i] = d[j] => i = j
      /\ \A x \in Range(d) : \E i \in 1 .. Len(d) : d[i] = x
  BY Zenon, <1>1, <1>2 DEF IsInjective
<1>5. d \in Bijection(1 .. Len(d), Range(d))
  BY Zenon, <1>3, <1>4 DEF Bijection, Injection, Surjection
<1>6. ExistsBijection(1 .. Len(d), Range(d))
  BY Zenon, <1>5 DEF ExistsBijection
<1> QED
  BY Zenon, <1>1, <1>6, FS_CountingElements
-----------------------------------------------------------------------------
(* The table is the distributing members but for those the chip took out, and each of
   these linkscan has yet to tell of, or has. *)
Stated ==
    LET d == Distributing(m, mem)
    IN  /\ ndist = Len(d)
        /\ trunk \subseteq Range(d)
        /\ \A p \in Range(d) \ trunk : relink \/ scan[p] # "no"

TableInv ==
    /\ mem = [p \in Port |-> mem[p]] /\ scan = [p \in Port |-> scan[p]]
    /\ ~used => /\ m = <<>> /\ Free /\ ndist = 0 /\ job.op # "members"
                /\ job.op # "del" => trunk = {}
    /\ pub = "ports" => ndist = Len(Distributing(m, mem))
    /\ pub = "no" /\ job.op # "del" /\ (pass = "rest" => ~changed) => Stated

(* A step that leaves the members, the table and what is still to be said alone. *)
LEMMA TableUntouched ==
    ASSUME TableInv, UNCHANGED <<scan, trunk, used, m, mem, ndist, relink, pass, changed, pub>>,
           job'.op = job.op \/ (used /\ job.op # "del")
    PROVE  TableInv'
<1>1. Stated' = Stated /\ Free' = Free
  BY Zenon DEF Stated, Free
<1>2. Distributing(m, mem)' = Distributing(m, mem)
  BY Zenon
<1> QED
  BY Zenon, <1>1, <1>2 DEF TableInv

(* A request's steps outside the lock, the frames and the partner's. *)
LEMMA QuietTable ==
    ASSUME LagInv, TableInv,
           \/ member_leave \/ MembersDone \/ DelLag \/ PickCount \/ PickPort \/ Sent \/ UNCHANGED vars
           \/ \E p \in Port : member_join(p) \/ Agrees(p)
           \/ \E want : SetMembers(want)
    PROVE  TableInv'
<1>1. UNCHANGED <<scan, trunk, used, m, mem, ndist, relink, pass, changed, pub>>
  BY Zenon DEF member_leave, MembersDone, DelLag, PickCount, PickPort, Sent, member_join, Agrees, SetMembers,
               vars, env, cfg
<1>2. \/ job' = job
      \/ job' = [job EXCEPT !.gone = NoPort]
      \/ job.op = "members"
      \/ job = Idle /\ used
  BY Zenon DEF member_leave, MembersDone, DelLag, PickCount, PickPort, Sent, member_join, Agrees, SetMembers, vars
<1>3. job \in [op : {"none", "members", "del"}, want : Seq(Port), gone : Port \cup {NoPort}]
  BY DEF LagInv, LagTypeOK
<1>4. job' = [job EXCEPT !.gone = NoPort] => job'.op = job.op
  BY <1>3
<1>5. job.op = "members" => used
  BY Zenon DEF TableInv
<1>6. job = Idle => job.op = "none"
  BY DEF Idle
<1>7. job'.op = job.op \/ (used /\ job.op # "del")
  BY <1>2, <1>4, <1>5, <1>6
<1> QED
  BY Zenon, <1>1, <1>7, TableUntouched

(* A link moves, the chip takes its port out, linkscan tells of it. *)
LEMMA ScanTable ==
    ASSUME LagInv, TableInv, NEW p \in Port, LinkMoves(p) \/ ChipRemoves(p) \/ lag_linkscan(p)
    PROVE  TableInv'
<1>1. UNCHANGED <<used, m, mem, ndist, pass, changed, pub, job, claimed>>
  BY Zenon DEF LinkMoves, ChipRemoves, lag_linkscan, cfg
<1> DEFINE d == Distributing(m, mem)
<1>2. d' = d /\ Free' = Free
  BY Zenon, <1>1 DEF Free
<1>3. Range(d) \subseteq Range(m) /\ Range(m) \subseteq Ports(claimed)
  <2>1. m \in Seq(Port)
    BY DEF LagInv, LagTypeOK
  <2> QED
    BY Zenon, <2>1, DistributingIs DEF LagInv
<1> HIDE DEF d
<1>4. trunk' \subseteq trunk
  BY DEF LinkMoves, ChipRemoves, lag_linkscan
<1>5. scan = [q \in Port |-> scan[q]]
  BY Zenon DEF TableInv
<1>6. scan' = [q \in Port |-> scan'[q]] /\ \A q \in Port : q # p => scan'[q] = scan[q]
  BY <1>5 DEF LinkMoves, ChipRemoves, lag_linkscan
<1>7. ASSUME Stated PROVE Stated'
  <2>1. ndist = Len(d) /\ trunk \subseteq Range(d) /\ \A q \in Range(d) \ trunk : relink \/ scan[q] # "no"
    BY Zenon, <1>7 DEF Stated, d
  <2>2. ASSUME NEW q \in Range(d) \ trunk' PROVE relink' \/ scan'[q] # "no"
    <3>1. q \in Port /\ claimed[q]
      BY <1>3 DEF Ports
    <3>2. CASE LinkMoves(p)
      <4>1. relink' = relink /\ trunk' = trunk
        BY <3>2 DEF LinkMoves
      <4>2. q = p => scan'[q] # "no"
        BY <1>5, <3>2 DEF LinkMoves
      <4> QED
        BY <1>6, <2>1, <3>1, <4>1, <4>2
    <3>3. CASE ChipRemoves(p)
      <4>1. relink' = relink /\ trunk' = trunk \ {p}
        BY <3>3 DEF ChipRemoves
      <4>2. q = p => scan'[q] # "no"
        BY <1>5, <3>3 DEF ChipRemoves
      <4> QED
        BY <1>6, <2>1, <3>1, <4>1, <4>2
    <3>4. CASE lag_linkscan(p)
      <4>1. relink' = (relink \/ claimed[p]) /\ trunk' = trunk
        BY Zenon, <3>4 DEF lag_linkscan
      <4> QED
        BY Zenon, <1>6, <2>1, <3>1, <4>1
    <3> QED
      BY Zenon, <3>2, <3>3, <3>4
  <2>3. ndist' = Len(d) /\ trunk' \subseteq Range(d)
    BY <1>1, <1>4, <2>1
  <2> QED
    BY Zenon, <1>2, <2>2, <2>3 DEF Stated, d
<1>8. trunk = {} => trunk' = {}
  BY <1>4
<1>9. mem' = [q \in Port |-> mem'[q]]
  BY Zenon, <1>1 DEF TableInv
<1>10. pub' = "ports" => ndist' = Len(d)
  BY Zenon, <1>1 DEF TableInv, d
<1> QED
  BY Zenon, <1>1, <1>2, <1>6, <1>7, <1>8, <1>9, <1>10 DEF TableInv, d

(* publish begins: the table is not stated while it lasts, and a count that is shown
   first is right. *)
LEMMA PublishTable ==
    ASSUME used', mem' = [q \in Port |-> mem'[q]], scan' = [q \in Port |-> scan'[q]], Publish(m', mem')
    PROVE  TableInv'
<1>1. pub' = "count" \/ (pub' = "ports" /\ ndist' = Len(Distributing(m', mem')))
  BY Zenon DEF Publish
<1> QED
  BY Zenon, <1>1 DEF TableInv

(* publish ends: the table and the count are the list's. *)
LEMMA PublishRestTable == ASSUME LagInv, TableInv, PublishRest PROVE TableInv'
<1> DEFINE d == Distributing(m, mem)
<1>1. /\ pub # "no" /\ pub' = "no" /\ UNCHANGED <<scan, used, m, mem, job, pass, changed, relink>>
      /\ trunk' = Range(d)
      /\ pub = "count" => ndist' = Len(d)
      /\ pub # "count" => ndist' = ndist
  BY Zenon DEF PublishRest, env, cfg
<1>2. pub \in {"no", "count", "ports"}
  BY DEF LagInv, LagTypeOK
<1>3. ndist' = Len(d)
  BY <1>1, <1>2 DEF TableInv
<1>4. d' = d
  BY Zenon, <1>1
<1>5. used
  BY Zenon, <1>1 DEF TableInv, Free
<1>6. Stated'
  BY Zenon, <1>1, <1>3, <1>4 DEF Stated
<1> QED
  BY Zenon, <1>1, <1>5, <1>6 DEF TableInv

(* The thread's pass. *)
LEMMA PassLinksTable == ASSUME TableInv, PassLinks PROVE TableInv'
<1>1. /\ used /\ pub = "no" /\ pass = "idle" /\ pass' = "rest"
      /\ changed' = (Distributing(m, mem') # Distributing(m, mem))
      /\ UNCHANGED <<scan, used, m, trunk, ndist, job, pub, relink>>
  BY Zenon DEF PassLinks, Free, env
<1>2. mem' = [p \in Port |-> mem'[p]]
  BY DEF PassLinks
<1>3. ASSUME Stated, ~changed' PROVE Stated'
  <2>1. Distributing(m', mem') = Distributing(m, mem)
    BY Zenon, <1>1, <1>3
  <2> QED
    BY Zenon, <1>1, <1>3, <2>1 DEF Stated
<1>4. pass # "rest" /\ pub' # "ports"
  BY <1>1
<1> QED
  BY Zenon, <1>1, <1>2, <1>3, <1>4 DEF TableInv

(* linkscan's word and lacp_eval: what is not published has not changed. *)
LEMMA PassRestTable == ASSUME LagInv, TableInv, PassRest PROVE TableInv'
<1>1. /\ pass = "rest" /\ pass' = "idle" /\ relink' = FALSE
      /\ UNCHANGED <<scan, used, m, trunk, job, changed>>
      /\ \/ Publish(m, mem')
         \/ /\ ~changed /\ ~relink /\ Distributing(m, mem') = Distributing(m, mem)
            /\ UNCHANGED <<ndist, pub>>
  BY Zenon DEF PassRest, env
<1>2. mem' = [p \in Port |-> mem'[p]] /\ scan' = [p \in Port |-> scan'[p]]
  <2>1. mem' = [p \in Port |-> mem'[p]]
    BY DEF PassRest
  <2> QED
    BY Zenon, <1>1, <2>1 DEF TableInv
<1>3. used' /\ used
  <2>1. pass # "idle"
    BY <1>1
  <2> QED
    BY Zenon, <1>1, <2>1 DEF TableInv, Free
<1>4. CASE Publish(m, mem')
  <2>1. Publish(m', mem')
    BY Zenon, <1>1, <1>4
  <2> QED
    BY Zenon, <1>2, <1>3, <2>1, PublishTable
<1>5. CASE /\ ~changed /\ ~relink /\ Distributing(m, mem') = Distributing(m, mem)
           /\ UNCHANGED <<ndist, pub>>
  <2>1. Stated => Stated'
    <3>1. Distributing(m', mem') = Distributing(m, mem)
      BY Zenon, <1>1, <1>5
    <3> QED
      BY Zenon, <1>1, <1>5, <3>1 DEF Stated
  <2>2. pub' # "ports"
    BY <1>1, <1>5 DEF LagInv, LagTypeOK
  <2> QED
    BY Zenon, <1>1, <1>2, <1>3, <1>5, <2>1, <2>2 DEF TableInv
<1> QED
  BY Zenon, <1>1, <1>4, <1>5

(* A change of the mode is published. *)
LEMMA SetModeTable == ASSUME TableInv, SetMode PROVE TableInv'
<1>1. used' /\ scan' = scan /\ m' = m /\ Publish(m, mem')
  BY Zenon DEF SetMode, env
<1>2. mem' = [p \in Port |-> mem'[p]]
  BY DEF SetMode
<1>3. scan' = [p \in Port |-> scan'[p]] /\ Publish(m', mem')
  BY Zenon, <1>1 DEF TableInv
<1> QED
  BY Zenon, <1>1, <1>2, <1>3, PublishTable

(* The LAG comes and goes, and so do its members. *)
LEMMA AddLagTable == ASSUME TableInv, NEW l, AddLag(l) PROVE TableInv'
<1>1. /\ ~used /\ used' /\ trunk' = {} /\ ndist' = 0 /\ UNCHANGED <<scan, m, mem, pub, pass, job>>
      /\ pub = "no"
  BY Zenon DEF AddLag, Free, env
<1>2. m' = <<>>
  BY Zenon, <1>1 DEF TableInv
<1>3. Distributing(m', mem') = <<>>
  BY Zenon, <1>2, DistributingNone
<1>4. Stated'
  BY <1>1, <1>3 DEF Stated, Range
<1>5. pub' # "ports"
  BY <1>1
<1> QED
  BY Zenon, <1>1, <1>4, <1>5 DEF TableInv

(* So is a leaver. *)
LEMMA MemberOutTable == ASSUME TableInv, MemberOut PROVE TableInv'
<1>1. /\ job.op = "members" /\ UNCHANGED <<scan, used, mem>> /\ Publish(m', mem)
  BY Zenon DEF MemberOut, env
<1>2. used' /\ mem' = [p \in Port |-> mem'[p]] /\ scan' = [p \in Port |-> scan'[p]] /\ Publish(m', mem')
  BY Zenon, <1>1 DEF TableInv
<1> QED
  BY Zenon, <1>2, PublishTable

(* A joiner does not distribute yet. *)
LEMMA MemberInTable == ASSUME LagInv, TableInv, NEW p \in Port, MemberIn(p) PROVE TableInv'
<1>1. /\ Joiner(p) /\ pub = "no" /\ pass = "idle" /\ m' = Append(m, p) /\ mem' = [mem EXCEPT ![p] = Joined]
      /\ UNCHANGED <<scan, trunk, used, ndist, relink, pass, pub, job>>
  BY Zenon DEF MemberIn, Free, env
<1>2. m \in Seq(Port) /\ p \notin Range(m) /\ job.op = "members"
  BY <1>1 DEF LagInv, LagTypeOK, Joiner
<1>3. mem = [q \in Port |-> mem[q]]
  BY Zenon DEF TableInv
<1>4. /\ mem' = [q \in Port |-> mem'[q]] /\ ~mem'[p].dist
      /\ \A q \in Port : q # p => mem'[q] = mem[q]
  BY Zenon, <1>1, <1>3 DEF Joined
<1>5. \A q \in Range(m) : mem'[q] = mem[q]
  <2>1. Range(m) \subseteq Port
    BY Zenon, <1>2, Listing
  <2> QED
    BY Zenon, <1>2, <1>4, <2>1
<1>6. Distributing(m', mem') = Distributing(m, mem)
  <2>1. Distributing(Append(m, p), mem') = Distributing(m, mem)
    BY <1>2, <1>4, <1>5, DistributingGrows
  <2> QED
    BY Zenon, <1>1, <2>1
<1>7. Stated => Stated'
  BY Zenon, <1>1, <1>6 DEF Stated
<1>8. pub' # "ports" /\ pass # "rest"
  BY <1>1
<1>9. used
  BY Zenon, <1>2 DEF TableInv
<1>10. "members" # "del"
  OBVIOUS
<1> QED
  BY Zenon, <1>1, <1>2, <1>4, <1>7, <1>8, <1>9, <1>10 DEF TableInv

(* nosaic_lag_del: nothing is said of the table until it is empty. *)
LEMMA DelTable == ASSUME LagInv, TableInv, DelMember \/ DelDone PROVE TableInv'
<1>0. job \in [op : {"none", "members", "del"}, want : Seq(Port), gone : Port \cup {NoPort}]
  BY DEF LagInv, LagTypeOK
<1>1. /\ job.op = "del" /\ Free /\ UNCHANGED <<scan, mem, pub, pass>>
  BY Zenon DEF DelMember, DelDone, env
<1>2. pub' # "ports" /\ Free'
  BY <1>1 DEF Free
<1>3. mem' = [p \in Port |-> mem'[p]] /\ scan' = [p \in Port |-> scan'[p]]
  BY Zenon, <1>1 DEF TableInv
<1>4. CASE DelMember
  <2>1. m # <<>> /\ used' = used /\ job' = [job EXCEPT !.gone = m[Len(m)]]
    BY Zenon, <1>4 DEF DelMember
  <2>2. job'.op = "del"
    BY <1>0, <1>1, <2>1
  <2>3. used'
    BY Zenon, <2>1 DEF TableInv
  <2> QED
    BY Zenon, <1>2, <1>3, <2>2, <2>3 DEF TableInv
<1>5. CASE DelDone /\ used
  <2>1. ndist' = 0 /\ job' = job /\ m' = m /\ m = <<>>
    BY Zenon, <1>5 DEF DelDone
  <2>2. "del" # "members"
    OBVIOUS
  <2> QED
    BY Zenon, <1>1, <1>2, <1>3, <2>1, <2>2 DEF TableInv
<1>6. CASE DelDone /\ ~used
  <2>1. trunk' = {} /\ job' = Idle /\ m' = m /\ m = <<>> /\ ndist' = ndist
    BY Zenon, <1>6 DEF DelDone
  <2>2. job'.op # "members" /\ job'.op # "del"
    BY <2>1 DEF Idle
  <2>3. ndist' = 0
    BY Zenon, <1>6, <2>1 DEF TableInv
  <2>4. Distributing(m', mem') = <<>>
    BY Zenon, <2>1, DistributingNone
  <2>5. Stated'
    BY <2>1, <2>3, <2>4 DEF Stated, Range
  <2> QED
    BY Zenon, <1>2, <1>3, <2>1, <2>2, <2>3, <2>5 DEF TableInv
<1> QED
  BY Zenon, <1>1, <1>4, <1>5, <1>6

(* Every step keeps TableInv. *)
LEMMA TableStays == LagInv /\ TableInv /\ [Next]_vars => TableInv'
<1> SUFFICES ASSUME LagInv, TableInv, [Next]_vars PROVE TableInv'
  OBVIOUS
<1>1. CASE Thread \/ SetMode \/ PublishRest
  BY Zenon, <1>1, PassLinksTable, PassRestTable, SetModeTable, PublishRestTable DEF Thread
<1>2. CASE Server
  BY Zenon, <1>2, MemberOutTable, DelTable, MemberInTable, QuietTable DEF Server
<1>3. CASE DelLag \/ PickCount \/ PickPort \/ Sent \/ UNCHANGED vars
  BY Zenon, <1>3, QuietTable
<1>4. ASSUME NEW l, AddLag(l) PROVE TableInv'
  BY Zenon, <1>4, AddLagTable
<1>5. ASSUME NEW want, SetMembers(want) PROVE TableInv'
  BY Zenon, <1>5, QuietTable
<1>6. ASSUME NEW p \in Port, LinkMoves(p) \/ Scan(p) \/ Agrees(p) PROVE TableInv'
  BY Zenon, <1>6, ScanTable, QuietTable DEF Scan
<1> QED
  BY Zenon, <1>1, <1>2, <1>3, <1>4, <1>5, <1>6 DEF Next

(* TableStated: with no request being served, nobody at the lock and nothing of
   linkscan's still to be said or acted on, the chip's table is the distributing
   members and its count theirs, whatever flapped and in whatever order publish's
   stores were seen. *)
THEOREM AlwaysTableStated == Spec => []TableStated
<1>1. LagInv /\ TableInv => TableStated
  <2> SUFFICES ASSUME LagInv, TableInv, used, job = Idle, Free, ~relink, \A p \in Port : scan[p] = "no"
               PROVE  trunk = Range(Distributing(m, mem)) /\ ndist = Cardinality(trunk)
    BY Zenon DEF TableStated
  <2> DEFINE d == Distributing(m, mem)
  <2>1. job.op # "del" /\ pub = "no" /\ pass # "rest"
    BY DEF Idle, Free
  <2>2. Stated
    BY Zenon, <2>1 DEF TableInv
  <2>3. m \in Seq(Port) /\ IsInjective(m)
    BY DEF LagInv, LagTypeOK
  <2>4. d \in Seq(Port) /\ IsInjective(d)
    BY Zenon, <2>3, DistributingIs, DistributingOnce
  <2>5. ndist = Len(d) /\ trunk \subseteq Range(d) /\ \A p \in Range(d) \ trunk : scan[p] # "no"
    BY Zenon, <2>2 DEF Stated
  <2> HIDE DEF d
  <2>6. Range(d) \subseteq Port
    BY Zenon, <2>4, Listing
  <2>7. trunk = Range(d)
    BY Zenon, <2>5, <2>6
  <2>8. Cardinality(Range(d)) = Len(d)
    BY Zenon, <2>4, OnceCounted
  <2> QED
    BY Zenon, <2>5, <2>7, <2>8 DEF d
<1>2. Init => LagInv /\ TableInv
  <2> SUFFICES ASSUME Init PROVE TableInv
    BY Zenon, LagStarts
  <2>1. /\ m = <<>> /\ trunk = {} /\ ndist = 0 /\ job = Idle /\ pass = "idle" /\ pub = "no"
        /\ mem = [p \in Port |-> Joined] /\ scan = [p \in Port |-> "no"]
    BY Zenon DEF Init
  <2>2. mem = [p \in Port |-> mem[p]] /\ scan = [p \in Port |-> scan[p]]
    BY <2>1
  <2>3. Distributing(m, mem) = <<>>
    BY Zenon, <2>1, DistributingNone
  <2>4. Stated
    BY <2>1, <2>3 DEF Stated, Range
  <2>5. job.op # "members" /\ pub # "ports" /\ Free
    BY <2>1 DEF Idle, Free
  <2> QED
    BY Zenon, <2>1, <2>2, <2>4, <2>5 DEF TableInv
<1>3. LagInv /\ TableInv /\ [Next]_vars => LagInv' /\ TableInv'
  BY LagStays, TableStays
<1> QED
  BY <1>1, <1>2, <1>3, PTL DEF Spec

(* TrunkRight: Claims, TableStated, and a frame sent from the CPU leaves by a port that
   was a member at some time since its count was read, where publish's stores are seen
   in order and no LAG is deleted meanwhile. *)
THEOREM AlwaysTrunkRight == SendsOrdered => (Spec => []TrunkRight)
<1> SUFFICES ASSUME SendsOrdered PROVE Spec => []TrunkRight
  BY Zenon
<1>1. LagInv /\ SendInv => PickedMember
  BY DEF LagInv, LagTypeOK, SendInv, SendOK, PickedMember, NoFrame
<1>2. LagInv /\ SendInv /\ [Next]_vars => LagInv' /\ SendInv'
  BY LagStays, SendStays
<1>3. Spec => []PickedMember
  BY <1>1, <1>2, LagStarts, PTL DEF Spec
<1>4. Claims /\ TableStated /\ PickedMember => TrunkRight
  BY DEF TrunkRight
<1> QED
  BY <1>3, <1>4, AlwaysClaims, AlwaysTableStated, PTL
=============================================================================
