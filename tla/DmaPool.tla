------------------------------ MODULE DmaPool ------------------------------
(***************************************************************************)
(* The DMA pool every Broadcom datapath allocates from:                    *)
(* datapath/common/dmapool.c.                                              *)
(*                                                                         *)
(* Addresses are offsets from the base of the region.  `blk` is the memory *)
(* of the region as far as the allocator reads it: the headers, by         *)
(* address, that carry BLK_MAGIC.  Clearing a magic, or zeroing a payload  *)
(* that a header lay in, removes it.  A call holds the pool's lock         *)
(* throughout, except that alloc zeroes the payload after releasing it.    *)
(***************************************************************************)
EXTENDS Integers, FiniteSets

CONSTANTS
    Len,        \* bytes in the region
    Sizes,      \* the sizes callers ask for
    Pointers,   \* the pointers callers free, right and wrong
    Names,      \* the names callers give
    Other,      \* "(other)": statistics slot 0, the catch-all
    NAMES       \* NOSAIC_DMA_NAMES, slot 0 included

HDR == 64
Null == -1

ASSUME LenAssumption == Len \in Nat /\ Len >= HDR + 64
ASSUME CallAssumption == Sizes \subseteq Nat /\ Pointers \subseteq Nat
ASSUME NameAssumption == Other \notin Names

VARIABLES
    blk,        \* address -> header
    used,       \* p->used
    outstanding,\* p->stat[].outstanding, by name
    known,      \* the names that have a statistics slot of their own
    zeroing,    \* blocks handed out and not yet zeroed
    last        \* what the last alloc wanted and returned

vars == <<blk, used, outstanding, known, zeroing, last>>

Call(w, r) == [want |-> w, ret |-> r]

round64(n) == ((n + 63) \div 64) * 64
payload_of(b) == b + HDR
End(f, b) == b + HDR + f[b].size

(* nosaic_dmapool_init *)
Init ==
    /\ blk = [b \in {0} |-> [size |-> Len - HDR, free |-> TRUE, name |-> Other,
                             next |-> Null, prev |-> Null]]
    /\ used = 0
    /\ outstanding = [n \in Names \cup {Other} |-> 0]
    /\ known = {}
    /\ zeroing = {}
    /\ last = Call(0, Null)
-----------------------------------------------------------------------------
(* stat_index: a name gets a slot the first time it is seen, while there are
   any; the rest are counted together. *)
Register(n) == IF Cardinality(known) < NAMES - 1 THEN known \cup {n} ELSE known
Slot(n) == IF n \in Register(n) THEN n ELSE Other

(* The list is in address order, so the first block of the walk that fits is
   the lowest. *)
Fits(w) == {b \in DOMAIN blk : blk[b].free /\ blk[b].size >= w}
IsFirst(b, w) == b \in Fits(w) /\ \A c \in Fits(w) : b <= c

(* The rest must carry a header and be worth handing out. *)
Splits(b, w) == blk[b].size >= w + HDR + 64

(* Block b, cut to w bytes, and the rest behind it. *)
Split(b, w, n) ==
    LET rest == b + HDR + w
    IN [a \in DOMAIN blk \cup {rest} |->
          IF a = b THEN [blk[b] EXCEPT !.size = w, !.free = FALSE, !.name = n, !.next = rest]
          ELSE IF a = rest THEN [size |-> blk[b].size - w - HDR, free |-> TRUE, name |-> Other,
                                 next |-> blk[b].next, prev |-> b]
          ELSE IF a = blk[b].next THEN [blk[a] EXCEPT !.prev = rest]
          ELSE blk[a]]

Whole(b, n) == [blk EXCEPT ![b].free = FALSE, ![b].name = n]

(* nosaic_dmapool_alloc *)
Alloc(size, n, b) ==
    LET want == round64(IF size = 0 THEN 1 ELSE size)
    IN /\ IsFirst(b, want)
       /\ known' = Register(n)
       /\ blk' = IF Splits(b, want) THEN Split(b, want, Slot(n)) ELSE Whole(b, Slot(n))
       /\ used' = used + HDR + blk'[b].size
       /\ outstanding' = [outstanding EXCEPT ![Slot(n)] = @ + blk'[b].size]
       /\ zeroing' = zeroing \cup {b}
       /\ last' = Call(want, payload_of(b))

AllocFails(size, n) ==
    LET want == round64(IF size = 0 THEN 1 ELSE size)
    IN /\ Fits(want) = {}
       /\ known' = Register(n)
       /\ last' = Call(want, Null)
       /\ UNCHANGED <<blk, used, outstanding, zeroing>>

Payload(b) == payload_of(b) .. (End(blk, b) - 1)
PayloadAndOn(b) == payload_of(b) .. (End(blk, b) + HDR - 1)

(* Mutant: the size zeroed counts the header. *)
ZeroTooFar(b) ==
    /\ b \in zeroing
    /\ blk' = [a \in DOMAIN blk \ PayloadAndOn(b) |-> blk[a]]
    /\ zeroing' = zeroing \ {b}
    /\ UNCHANGED <<used, outstanding, known, last>>

(* The memset at the end of alloc, outside the lock. *)
Zero(b) ==
    /\ b \in zeroing
    /\ blk' = [a \in DOMAIN blk \ Payload(b) |-> blk[a]]
    /\ zeroing' = zeroing \ {b}
    /\ UNCHANGED <<used, outstanding, known, last>>
-----------------------------------------------------------------------------
FreeAt(f, n) == n # Null /\ f[n].free

(* Block b takes in the block after it, whose magic is cleared. *)
Absorb(f, b) ==
    LET n == f[b].next
    IN [a \in DOMAIN f \ {n} |->
          IF a = b THEN [f[b] EXCEPT !.size = @ + HDR + f[n].size, !.next = f[n].next]
          ELSE IF a = f[n].next THEN [f[a] EXCEPT !.prev = b]
          ELSE f[a]]

CoalesceForwards(f, b) == IF FreeAt(f, f[b].next) THEN Absorb(f, b) ELSE f

CoalesceHalf(f, b) == CoalesceForwards(f, b)        \* mutant: forwards only

(* Forwards, then backwards. *)
Coalesce(f, b) ==
    LET g == CoalesceForwards(f, b)
    IN IF FreeAt(g, g[b].prev) THEN Absorb(g, g[b].prev) ELSE g

Freed(b) == [blk EXCEPT ![b].free = TRUE, ![b].name = Other]

(* What free accepts: a pointer into the pool whose header has its magic and is
   not free.  Everything else is reported and ignored.  Nobody has the pointer
   of a block that alloc has yet to return. *)
Accepts(ptr) ==
    /\ HDR <= ptr /\ ptr < Len
    /\ ptr - HDR \in DOMAIN blk \ zeroing
    /\ ~blk[ptr - HDR].free

(* Mutant: the accounts are settled after the merge. *)
FreeLate(ptr) ==
    LET b == ptr - HDR
    IN /\ Accepts(ptr)
       /\ blk' = Coalesce(Freed(b), b)
       /\ used' = used - HDR - (IF b \in DOMAIN blk' THEN blk'[b].size ELSE blk[b].size)
       /\ outstanding' = [outstanding EXCEPT ![blk[b].name] = @ - blk[b].size]
       /\ last' = Call(0, Null)
       /\ UNCHANGED <<known, zeroing>>

(* nosaic_dmapool_free *)
Free(ptr) ==
    LET b == ptr - HDR
    IN /\ Accepts(ptr)
       /\ blk' = Coalesce(Freed(b), b)
       /\ used' = used - HDR - blk[b].size
       /\ outstanding' = [outstanding EXCEPT ![blk[b].name] = @ - blk[b].size]
       /\ last' = Call(0, Null)
       /\ UNCHANGED <<known, zeroing>>

Next ==
    \/ \E size \in Sizes, n \in Names :
        AllocFails(size, n) \/ \E b \in DOMAIN blk : Alloc(size, n, b)
    \/ \E b \in zeroing : Zero(b)
    \/ \E ptr \in Pointers : Free(ptr)

Spec == Init /\ [][Next]_vars
-----------------------------------------------------------------------------
Header == [size : Nat, free : BOOLEAN, name : Names \cup {Other},
           next : Nat \cup {Null}, prev : Nat \cup {Null}]

IsHeap(f) == DOMAIN f \subseteq Nat /\ f \in [DOMAIN f -> Header]

(* Headers are headers, and only allocated blocks wait to be zeroed. *)
TypeOK ==
    /\ IsHeap(blk)
    /\ used \in Int
    /\ outstanding \in [Names \cup {Other} -> Int]
    /\ known \subseteq Names
    /\ zeroing \subseteq {b \in DOMAIN blk : ~blk[b].free}
    /\ last \in [want : Nat, ret : Nat \cup {Null}]

Linked(f, b) ==
    /\ \/ f[b].next = Null /\ End(f, b) = Len
       \/ f[b].next = End(f, b) /\ End(f, b) \in DOMAIN f /\ f[End(f, b)].prev = b
    /\ \/ b = 0 /\ f[b].prev = Null
       \/ f[b].prev \in DOMAIN f /\ f[f[b].prev].next = b

Tiles(f) ==
    /\ 0 \in DOMAIN f /\ DOMAIN f \subseteq 0 .. (Len - 1)
    /\ \A x \in 0 .. (Len - 1) : \E b \in DOMAIN f : b <= x /\ x < End(f, b)
    /\ \A b, c \in DOMAIN f : b < c => End(f, b) <= c
    /\ \A b \in DOMAIN f : b % 64 = 0 /\ f[b].size >= 64 /\ Linked(f, b)

(* "The block list tiles the pool: every byte of the region belongs to exactly
   one block": a block ends where its next begins, the last one at the end of
   the region, the pointers agree both ways, every payload is aligned and no
   header with its magic lies anywhere else. *)
Tiled == Tiles(blk)

(* "Without this the pool fragments": no free block follows a free block. *)
Coalesced == \A b \in DOMAIN blk : blk[b].free => ~FreeAt(blk, blk[b].next)

heldBlocks == {b \in DOMAIN blk : ~blk[b].free}

(* What the blocks of S take, by the 64 bytes they begin at: their payloads, and h
   bytes each; and the total of that along the region. *)
Units == Len \div 64 + 1
Shares(f, S, h) == [k \in 0 .. (Units - 1) |-> IF 64 * k \in S THEN h + f[64 * k].size ELSE 0]
Total(w) ==
    LET Upto[i \in 0 .. Units] == IF i = 0 THEN 0 ELSE Upto[i - 1] + w[i - 1]
    IN  Upto[Units]

(* The totals the daemon reports: used is what is allocated with its headers,
   and each name's outstanding bytes are those of its blocks, "so the totals
   stay correct however many names the SDK invents". *)
Accounting ==
    /\ used = Total(Shares(blk, heldBlocks, HDR))
    /\ \A n \in Names \cup {Other} :
        outstanding[n] = Total(Shares(blk, {b \in heldBlocks : blk[b].name = n}, 0))

(* What dma_free gives back is whole and counted: the neighbours are merged, and
   the totals forget the block. *)
FreedWhole == Coalesced /\ Accounting

(* dmapool.h: what the chip and the SDK see is an allocator that turns a
   request away only when there is no room for it anywhere. *)
heldPayloads == [p \in {payload_of(b) : b \in heldBlocks} |-> blk[p - HDR].size]
Wants == {round64(IF size = 0 THEN 1 ELSE size) : size \in Sizes}

A == INSTANCE Allocator WITH held <- heldPayloads, last <- last

Implements == A!Spec
=============================================================================
