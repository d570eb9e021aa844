----------------------------- MODULE Allocator -----------------------------
(***************************************************************************)
(* What datapath/common/dmapool.h promises the SDK: every payload is       *)
(* 64-byte aligned, lies inside the region with the 64 bytes before it     *)
(* never given out, overlaps no other, and a request is turned away only   *)
(* when nowhere in the region is there room for it.                        *)
(***************************************************************************)
EXTENDS Integers

CONSTANTS
    Len,        \* bytes in the region
    Wants       \* the sizes asked for, rounded up to a multiple of 64

HDR == 64
Null == -1

VARIABLES
    held,       \* payload address -> bytes, for what is allocated
    last        \* the last call to alloc: what it wanted and what it returned

NoCall == [want |-> 0, ret |-> Null]

(* [p, p + n) with the header before it. *)
Clear(p, n) ==
    \A q \in DOMAIN held : p + n <= q - HDR \/ q + held[q] <= p - HDR

Places == {HDR * k : k \in 1 .. (Len \div HDR)}

Room(w) == \E p \in Places : p + w <= Len /\ Clear(p, w)

Init ==
    /\ held = [p \in {} |-> 0]
    /\ last = NoCall

Take(p, w) ==
    /\ p \notin DOMAIN held
    /\ DOMAIN held' = DOMAIN held \cup {p}
    /\ \A q \in DOMAIN held : held'[q] = held[q]
    /\ held'[p] >= w
    /\ p + held'[p] <= Len
    /\ Clear(p, held'[p])
    /\ last' = [want |-> w, ret |-> p]

Refuse(w) ==
    /\ ~Room(w)
    /\ last' = [want |-> w, ret |-> Null]
    /\ UNCHANGED held

Give(p) ==
    /\ p \in DOMAIN held
    /\ held' = [q \in DOMAIN held \ {p} |-> held[q]]
    /\ last' = NoCall

Next ==
    \/ \E w \in Wants : Refuse(w) \/ \E p \in Places : Take(p, w)
    \/ \E p \in DOMAIN held : Give(p)

Spec == Init /\ [][Next]_<<held, last>>
=============================================================================
