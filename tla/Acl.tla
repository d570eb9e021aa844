--------------------------------- MODULE Acl ---------------------------------
(***************************************************************************)
(* Access list rules and their text, internal/switchapi/acl.go.  A text is *)
(* the sequence of its words.  What the standard library makes of a word   *)
(* is given by constants: Atoi, the number a word spells, and Prefix, the  *)
(* masked prefix it spells, whose own spelling is Text.                    *)
(***************************************************************************)
EXTENDS SwitchApi, Sequences

CONSTANTS Atoi,      \* strconv.Atoi, on the words that are numbers
          Prefix,    \* parsePrefixLoose, on the words that are prefixes
          Text       \* strconv.Itoa and netip.Prefix.String

ACLAny == -1         \* the rule does not match on this
NoPrefix == "none"   \* the zero Prefix
ACLMaxSeq == 999999

ACLProtocols ==
    [icmp |-> 1, igmp |-> 2, tcp |-> 6, udp |-> 17, gre |-> 47, esp |-> 50, ah |-> 51,
     icmpv6 |-> 58, icmp6 |-> 58, ospf |-> 89, vrrp |-> 112, sctp |-> 132]

aclProtoName(n) ==
    LET names == {w \in DOMAIN ACLProtocols \ {"icmp6"} : ACLProtocols[w] = n}
    IN  IF names # {} THEN CHOOSE w \in names : TRUE ELSE Text[n]

(* Ports are matched in what follows the IP header, so the protocol must be
   one that has them. *)
L4Stated(r) ==
    (r.SrcPort # ACLAny \/ r.DstPort # ACLAny) => r.Proto \in {6, 17}

(* Reading one word: a family, a keyword that waits for its value, or that
   value.  A word that cannot be read spoils the rule. *)
Spoilt(st) == [st EXCEPT !.ok = FALSE]

setFamily(st, fam) ==
    IF st.family \in {0, fam} THEN [st EXCEPT !.family = fam] ELSE Spoilt(st)

parsePrefixLoose(st, field, w) ==
    IF w \in DOMAIN Prefix
    THEN [setFamily(st, Prefix[w].family) EXCEPT !.r[field] = Prefix[w].name]
    ELSE Spoilt(st)

Number(st, field, w, max) ==
    IF w \in DOMAIN Atoi /\ Atoi[w] \in 0 .. max
    THEN [st EXCEPT !.r[field] = Atoi[w]]
    ELSE Spoilt(st)

Value(st, w) ==
    CASE st.key = "in"    -> [st EXCEPT !.r.InPort = w]
      [] st.key = "proto" -> IF w \in DOMAIN ACLProtocols
                             THEN [st EXCEPT !.r.Proto = ACLProtocols[w]]
                             ELSE Number(st, "Proto", w, 255)
      [] st.key = "src"   -> parsePrefixLoose(st, "Src", w)
      [] st.key = "dst"   -> parsePrefixLoose(st, "Dst", w)
      [] st.key = "sport" -> Number(st, "SrcPort", w, 65535)
      [] st.key = "dport" -> Number(st, "DstPort", w, 65535)
      [] OTHER            -> Spoilt(st)

Word(st, w) ==
    CASE st.key # ""             -> [Value(st, w) EXCEPT !.key = ""]
      [] w \in {"ipv4", "ip"}    -> setFamily(st, 4)
      [] w \in {"ipv6", "ip6"}   -> setFamily(st, 6)
      [] OTHER                   -> [st EXCEPT !.key = w]

(* The rule a text spells, and whether it spells one. *)
ParseACLRule(seq, words) ==
    LET start ==
            [ok     |-> seq \in 1 .. ACLMaxSeq /\ words # <<>> /\ words[1] \in {"permit", "deny"},
             key    |-> "",
             family |-> 0,
             r      |-> [Seq |-> seq, Family |-> 0, Action |-> words[1], InPort |-> NoPort,
                         Proto |-> ACLAny, Src |-> NoPrefix, Dst |-> NoPrefix,
                         SrcPort |-> ACLAny, DstPort |-> ACLAny]]
        read[i \in 1 .. Len(words)] ==
            IF i = 1 THEN start
            ELSE IF read[i - 1].ok THEN Word(read[i - 1], words[i]) ELSE read[i - 1]
        end == read[Len(words)]
        r == [end.r EXCEPT !.Family = OrDefault(end.family, 4)]
    IN  IF words = <<>> THEN [ok |-> FALSE]
        ELSE IF end.ok /\ end.key = "" /\ L4Stated(r) THEN [ok |-> TRUE, rule |-> r]
        ELSE [ok |-> FALSE]

(* The canonical text: the same words in a fixed order. *)
String(r) ==
    LET says(stated, words) == IF stated THEN words ELSE <<>>
    IN     <<r.Action>>
        \o says(r.Family = 6, <<"ipv6">>)
        \o says(r.InPort # NoPort, <<"in", r.InPort>>)
        \o says(r.Proto # ACLAny, <<"proto", aclProtoName(r.Proto)>>)
        \o says(r.Src # NoPrefix, <<"src", r.Src>>)
        \o says(r.Dst # NoPrefix, <<"dst", r.Dst>>)
        \o says(r.SrcPort # ACLAny, <<"sport", Text[r.SrcPort]>>)
        \o says(r.DstPort # ACLAny, <<"dport", Text[r.DstPort]>>)

(* What every datapath refuses at SetACL. *)
Validate(r, ports) ==
    /\ r.Seq \in 1 .. ACLMaxSeq
    /\ r.Family \in {4, 6}
    /\ r.InPort \in ports \cup {NoPort}
    /\ \A p \in {r.Src, r.Dst} \ {NoPrefix} : Prefix[p].family = r.Family
    /\ L4Stated(r)
=============================================================================
