---------------------------- MODULE DeviceProofs ----------------------------
(***************************************************************************)
(* Proofs about the memory and the fans of a switch. The DMA pool is a     *)
(* tiling of its region, for every region size, every set of request sizes *)
(* and every pointer anyone frees; and the fans follow the temperature,    *)
(* for any boards that pass validation, any readings a sensor may give and *)
(* any number of events and signals.                                       *)
(***************************************************************************)
EXTENDS DmaPool, Cooling, WellFoundedInduction, TLAPS

(* round64 returns a positive multiple of 64, no smaller than what was asked. *)
LEMMA RoundUp ==
    ASSUME NEW n \in Nat
    PROVE  LET w == round64(IF n = 0 THEN 1 ELSE n)
           IN w \in Nat /\ w >= 64 /\ w % 64 = 0 /\ w >= n
BY DEF round64

(* A fresh pool is one free block. *)
LEMMA PoolInit == Init => TypeOK /\ Tiled /\ Coalesced
BY LenAssumption, NameAssumption
DEF Init, TypeOK, IsHeap, Header, Tiled, Tiles, Linked, End, Coalesced, FreeAt, Call, HDR, Null

(* The fields of a header. *)
LEMMA HeapFields ==
    ASSUME NEW f, IsHeap(f), NEW a \in DOMAIN f
    PROVE  /\ a \in Nat
           /\ f[a] \in Header
           /\ f[a].size \in Nat
           /\ f[a].free \in BOOLEAN
           /\ f[a].name \in Names \cup {Other}
           /\ f[a].next \in Nat \cup {Null}
           /\ f[a].prev \in Nat \cup {Null}
BY DEF IsHeap, Header

(* Where blocks are: b's next, if it has one, is a block that starts where b
   ends. *)
LEMMA NextBlock ==
    ASSUME NEW f, IsHeap(f), Tiles(f), NEW b \in DOMAIN f, f[b].next # Null
    PROVE  /\ f[b].next = End(f, b)
           /\ f[b].next \in DOMAIN f
           /\ f[f[b].next].prev = b
           /\ f[b].next > b
           /\ f[b].next \in Nat
BY DEF IsHeap, Tiles, Linked, End, Header, HDR, Null

(* No block runs past the end of the region. *)
LEMMA BlocksEnd ==
    ASSUME NEW f, IsHeap(f), Tiles(f), NEW b \in DOMAIN f
    PROVE  End(f, b) <= Len
<1>1. b \in Nat /\ f[b].size \in Nat /\ End(f, b) \in Nat
  BY HeapFields DEF End, HDR
<1>2. End(f, b) = Len \/ End(f, b) \in DOMAIN f
  BY DEF Tiles, Linked
<1>3. DOMAIN f \subseteq 0 .. (Len - 1)
  BY DEF Tiles
<1> QED BY <1>1, <1>2, <1>3, LenAssumption

(* Absorbing the next block keeps the tiling, and touches no other block's
   state. *)
LEMMA AbsorbTiles ==
    ASSUME NEW f, IsHeap(f), Tiles(f), NEW b \in DOMAIN f, f[b].next # Null
    PROVE  /\ IsHeap(Absorb(f, b))
           /\ Tiles(Absorb(f, b))
<1> DEFINE n == f[b].next
<1> DEFINE g == Absorb(f, b)
<1>1. /\ n = End(f, b) /\ n \in DOMAIN f /\ f[n].prev = b /\ n > b /\ n \in Nat
  BY NextBlock
<1>2. DOMAIN g = DOMAIN f \ {n}
  BY DEF Absorb
<1>3. b \in DOMAIN g /\ g[b] = [f[b] EXCEPT !.size = @ + HDR + f[n].size, !.next = f[n].next]
  BY <1>1 DEF Absorb
<1>4. f[n].next # Null => /\ f[n].next = End(f, n) /\ f[n].next \in DOMAIN f
                          /\ f[f[n].next].prev = n /\ f[n].next > n /\ f[n].next \in Nat
  BY <1>1, NextBlock
<1>5. f[n].next # b /\ f[n].next # n
  BY <1>1, <1>4 DEF IsHeap, Null
<1>6. \A a \in DOMAIN g : a # b =>
        g[a] = IF a = f[n].next THEN [f[a] EXCEPT !.prev = b] ELSE f[a]
  BY <1>2 DEF Absorb
<1> HIDE DEF g
<1>7. IsHeap(g)
  <2>1. \A a \in DOMAIN g : g[a] \in Header
    <3> SUFFICES ASSUME NEW a \in DOMAIN g PROVE g[a] \in Header
      OBVIOUS
    <3>1. a \in DOMAIN f /\ f[a] \in Header /\ f[n] \in Header /\ f[b] \in Header
      BY <1>1, <1>2, HeapFields
    <3>2. CASE a = b
      <4>1. f[b].size + HDR + f[n].size \in Nat /\ f[n].next \in Nat \cup {Null}
        BY <1>1, HeapFields DEF HDR
      <4> QED BY Zenon, <4>1, <3>1, <3>2, <1>3 DEF Header
    <3>3. CASE a # b
      BY <3>1, <3>3, <1>6, HeapFields DEF Header
    <3> QED BY <3>2, <3>3
  <2>2. g = [a \in DOMAIN g |-> g[a]]
    BY DEF g, Absorb
  <2> QED BY <2>1, <2>2, <1>2 DEF IsHeap
<1>8. End(g, b) = End(f, n)
  BY <1>1, <1>3 DEF End, IsHeap, Header, HDR
<1>9. \A a \in DOMAIN g : a # b => End(g, a) = End(f, a)
  BY Zenon, <1>2, <1>6 DEF End, IsHeap, Header
<1>10. Tiles(g)
  <2>1. 0 \in DOMAIN g /\ DOMAIN g \subseteq 0 .. (Len - 1)
    BY <1>1, <1>2 DEF Tiles, IsHeap
  <2>2. \A x \in 0 .. (Len - 1) : \E a \in DOMAIN g : a <= x /\ x < End(g, a)
    <3> TAKE x \in 0 .. (Len - 1)
    <3>1. PICK a \in DOMAIN f : a <= x /\ x < End(f, a)
      BY DEF Tiles
    <3>2. CASE a \in {b, n}
      <4>1. b <= n /\ n <= End(f, n) /\ b \in Nat /\ End(f, n) \in Nat
        BY <1>1, HeapFields DEF End, HDR
      <4>2. b <= x /\ x < End(g, b)
        BY <4>1, <3>1, <3>2, <1>1, <1>8
      <4> QED BY <4>2, <1>3
    <3>3. CASE a \notin {b, n}
      BY <3>1, <3>3, <1>2, <1>9
    <3> QED BY <3>2, <3>3
  <2>3. \A a, c \in DOMAIN g : a < c => End(g, a) <= c
    <3> SUFFICES ASSUME NEW a \in DOMAIN g, NEW c \in DOMAIN g, a < c
                 PROVE  End(g, a) <= c
      OBVIOUS
    <3>1. a \in DOMAIN f /\ c \in DOMAIN f /\ c # n /\ a # n
      BY <1>2
    <3>2. CASE a # b
      BY <3>1, <3>2, <1>9 DEF Tiles
    <3>3. CASE a = b
      <4>1. n <= c
        BY <3>1, <3>3, <1>1 DEF Tiles
      <4>2. n < c
        BY <4>1, <3>1, <1>1 DEF IsHeap
      <4> QED BY <4>2, <3>1, <3>3, <1>1, <1>8 DEF Tiles
    <3> QED BY <3>2, <3>3
  <2>4. \A a \in DOMAIN g : a % 64 = 0 /\ g[a].size >= 64
    <3> SUFFICES ASSUME NEW a \in DOMAIN g PROVE a % 64 = 0 /\ g[a].size >= 64
      OBVIOUS
    <3>1. a \in DOMAIN f /\ a % 64 = 0 /\ f[a].size >= 64 /\ f[a] \in Header /\ f[n].size \in Nat
      BY <1>1, <1>2, HeapFields DEF Tiles
    <3>2. CASE a = b
      BY <3>1, <3>2, <1>3 DEF Header, HDR
    <3>3. CASE a # b
      BY <3>1, <3>3, <1>6 DEF Header
    <3> QED BY <3>2, <3>3
  <2>5. \A a \in DOMAIN g : Linked(g, a)
    <3> SUFFICES ASSUME NEW a \in DOMAIN g PROVE Linked(g, a)
      OBVIOUS
    <3>1. a \in DOMAIN f /\ a # n /\ Linked(f, a) /\ Linked(f, n) /\ Linked(f, b)
      BY <1>1, <1>2 DEF Tiles
    <3>2. f[a] \in Header /\ f[b] \in Header /\ f[n] \in Header /\ a \in Nat /\ b \in Nat
      BY <3>1, <1>1, HeapFields
    <3>3. CASE a = b
      <4>1. g[b].next = f[n].next /\ g[b].prev = f[b].prev
        BY <1>3, <3>2 DEF Header
      <4>2. \/ g[b].next = Null /\ End(g, b) = Len
            \/ g[b].next = End(g, b) /\ End(g, b) \in DOMAIN g /\ g[End(g, b)].prev = b
        <5>1. CASE f[n].next = Null
          BY <5>1, <4>1, <3>1, <1>1, <1>8, HeapFields DEF Linked, End, Null, HDR
        <5>2. CASE f[n].next # Null
          <6>1. f[n].next \in DOMAIN g /\ f[f[n].next] \in Header
            BY <5>2, <1>2, <1>4, <1>5, HeapFields
          <6>2. g[f[n].next].prev = b
            BY <6>1, <1>5, <1>6 DEF Header
          <6> QED BY <6>1, <6>2, <5>2, <4>1, <1>4, <1>8
        <5> QED BY <5>1, <5>2
      <4>3. CASE b = 0 /\ f[b].prev = Null
        BY <4>1, <4>2, <4>3, <3>3 DEF Linked
      <4>4. CASE f[b].prev \in DOMAIN f /\ f[f[b].prev].next = b
        <5>1. f[b].prev # n /\ f[b].prev # b /\ f[f[b].prev] \in Header
          BY <4>4, <1>1, <1>5, HeapFields
        <5>2. f[b].prev \in DOMAIN g /\ g[f[b].prev].next = b
          BY Zenon, <5>1, <4>4, <1>2, <1>6 DEF Header
        <5> QED BY <5>2, <4>1, <4>2, <3>3 DEF Linked
      <4> QED BY <4>3, <4>4, <3>1 DEF Linked
    <3>4. CASE a # b
      <4>1. g[a].next = f[a].next /\ End(g, a) = End(f, a)
        BY <3>1, <3>2, <3>4, <1>6, <1>9 DEF Header
      <4>2. f[a].next # n
        BY <3>1, <3>4, <1>1, NextBlock DEF Null
      <4>3. \/ g[a].next = Null /\ End(g, a) = Len
            \/ g[a].next = End(g, a) /\ End(g, a) \in DOMAIN g /\ g[End(g, a)].prev = a
        <5>1. CASE f[a].next = Null
          BY <5>1, <4>1, <3>1, <3>2 DEF Linked, End, Null, HDR, Header
        <5>2. CASE f[a].next # Null
          <6>1. f[a].next \in DOMAIN f /\ f[f[a].next].prev = a /\ f[a].next = End(f, a)
            BY <5>2, <3>1, NextBlock
          <6>2. f[a].next \in DOMAIN g /\ f[f[a].next] \in Header
            BY <6>1, <4>2, <1>2, HeapFields
          <6>3. f[a].next # f[n].next
            BY <6>1, <5>2, <3>1, <1>4
          <6>4. g[f[a].next].prev = a
            <7>1. CASE f[a].next = b
              BY Zenon, <7>1, <6>1, <1>3, <3>2 DEF Header
            <7>2. CASE f[a].next # b
              BY <7>2, <6>1, <6>2, <6>3, <1>6
            <7> QED BY <7>1, <7>2
          <6> QED BY <6>1, <6>2, <6>4, <4>1
        <5> QED BY <5>1, <5>2
      <4>4. CASE a = f[n].next
        <5>1. g[a].prev = b /\ g[b].next = a
          BY <4>4, <3>2, <3>4, <1>3, <1>6 DEF Header
        <5> QED BY <5>1, <4>3, <1>3 DEF Linked
      <4>5. CASE a # f[n].next
        <5>1. g[a] = f[a]
          BY <4>5, <3>4, <1>6
        <5>2. CASE a = 0 /\ f[a].prev = Null
          BY <5>1, <5>2, <4>3 DEF Linked
        <5>3. CASE f[a].prev \in DOMAIN f /\ f[f[a].prev].next = a
          <6>1. f[a].prev # b /\ f[a].prev # n /\ f[f[a].prev] \in Header
            BY <5>3, <4>5, <3>1, HeapFields
          <6>2. f[a].prev \in DOMAIN g /\ g[f[a].prev].next = a
            BY Zenon, <6>1, <5>3, <1>2, <1>6 DEF Header
          <6> QED BY <6>2, <5>1, <4>3 DEF Linked
        <5> QED BY <5>2, <5>3, <3>1 DEF Linked
      <4> QED BY <4>4, <4>5
    <3> QED BY <3>3, <3>4
  <2> HIDE DEF n
  <2>6. \A a \in DOMAIN g : a % 64 = 0 /\ g[a].size >= 64 /\ Linked(g, a)
    BY <2>4, <2>5
  <2> QED BY ONLY <2>1, <2>2, <2>3, <2>6 DEF Tiles
<1> QED BY <1>7, <1>10 DEF g

(* What absorbing leaves: the block absorbed is gone, b goes on to where that
   one went on to, and nothing else a walk reads changes. *)
Absorbed(f, b, g) ==
    /\ DOMAIN g = DOMAIN f \ {f[b].next}
    /\ g[b].next = f[f[b].next].next
    /\ \A a \in DOMAIN g : g[a].free = f[a].free /\ g[a].name = f[a].name
    /\ \A a \in DOMAIN g \ {b} : g[a].size = f[a].size /\ g[a].next = f[a].next

(* Absorb does that. *)
LEMMA AbsorbKeeps ==
    ASSUME NEW f, IsHeap(f), Tiles(f), NEW b \in DOMAIN f, f[b].next # Null
    PROVE  Absorbed(f, b, Absorb(f, b))
<1> DEFINE g == Absorb(f, b)
<1>1. DOMAIN g = DOMAIN f \ {f[b].next} /\ b \in DOMAIN g
  BY NextBlock, HeapFields DEF Absorb
<1>2. \A a \in DOMAIN g : f[a] \in Header
  BY <1>1, HeapFields
<1>3. g[b].next = f[f[b].next].next /\ g[b].free = f[b].free /\ g[b].name = f[b].name
  BY <1>1, <1>2 DEF Absorb, Header
<1>4. \A a \in DOMAIN g \ {b} :
        /\ g[a].free = f[a].free /\ g[a].name = f[a].name
        /\ g[a].size = f[a].size /\ g[a].next = f[a].next
  BY <1>1, <1>2 DEF Absorb, Header
<1> HIDE DEF g
<1>5. Absorbed(f, b, g)
  BY <1>1, <1>3, <1>4 DEF Absorbed
<1> QED BY <1>5 DEF g

(* Apart from b, no free block follows a free block. *)
CoalescedBut(f, b) ==
    \A a \in DOMAIN f : a # b /\ f[a].free /\ f[a].next # b => ~FreeAt(f, f[a].next)

Compact(f) == \A a \in DOMAIN f : f[a].free => ~FreeAt(f, f[a].next)

HeldOf(f) == {a \in DOMAIN f : ~f[a].free}

(* Coalescing around a block that has just become free restores the invariant,
   and leaves every allocated block as it is. *)
LEMMA CoalesceRestores ==
    ASSUME NEW f, IsHeap(f), Tiles(f), NEW b \in DOMAIN f, f[b].free, CoalescedBut(f, b)
    PROVE  LET h == Coalesce(f, b)
           IN /\ IsHeap(h) /\ Tiles(h) /\ Compact(h)
              /\ HeldOf(h) = HeldOf(f)
              /\ \A a \in HeldOf(f) : h[a].size = f[a].size /\ h[a].name = f[a].name
<1> DEFINE g == CoalesceForwards(f, b)
<1> DEFINE h == Coalesce(f, b)
<1> DEFINE Good(e) == /\ IsHeap(e) /\ Tiles(e) /\ HeldOf(e) = HeldOf(f)
                      /\ \A a \in HeldOf(f) : e[a].size = f[a].size /\ e[a].name = f[a].name
<1>1. /\ Good(g) /\ b \in DOMAIN g /\ g[b].free
      /\ CoalescedBut(g, b) /\ ~FreeAt(g, g[b].next)
  <2>1. CASE ~FreeAt(f, f[b].next)
    BY <2>1 DEF CoalesceForwards
  <2>2. CASE FreeAt(f, f[b].next)
    <3> DEFINE n == f[b].next
    <3>0. g = Absorb(f, b) /\ n # Null /\ f[n].free
      BY <2>2 DEF CoalesceForwards, FreeAt
    <3> HIDE DEF g
    <3>1. n \in DOMAIN f /\ n # b /\ n > b /\ f[n].prev = b
      BY <3>0, NextBlock, HeapFields
    <3>2. IsHeap(g) /\ Tiles(g)
      BY <3>0, AbsorbTiles
    <3>3. /\ DOMAIN g = DOMAIN f \ {n}
          /\ g[b].next = f[n].next
          /\ \A a \in DOMAIN g : g[a].free = f[a].free /\ g[a].name = f[a].name
          /\ \A a \in DOMAIN g \ {b} : g[a].size = f[a].size /\ g[a].next = f[a].next
      <4>1. Absorbed(f, b, g)
        BY <3>0, AbsorbKeeps
      <4> QED BY <4>1 DEF Absorbed
    <3>4. b \in DOMAIN g /\ g[b].free
      BY <3>1, <3>3
    <3>5. Good(g)
      BY <3>0, <3>2, <3>3 DEF HeldOf
    <3>6. \A a \in DOMAIN f : f[a].next = n => a = b
      <4> SUFFICES ASSUME NEW a \in DOMAIN f, f[a].next = n PROVE a = b
        OBVIOUS
      <4> QED BY <3>0, <3>1, NextBlock
    <3>7. \A a \in DOMAIN f : a # Null
      BY HeapFields DEF Null
    <3>8. ~FreeAt(g, g[b].next)
      <4>1. g[b].next = f[n].next
        BY <3>3, <3>4
      <4>2. f[n].next # b /\ f[n].next # n
        BY <3>0, <3>1, NextBlock, HeapFields DEF Null
      <4>3. ~FreeAt(f, f[n].next)
        BY <4>2, <3>0, <3>1 DEF CoalescedBut
      <4>4. f[n].next # Null => f[n].next \in DOMAIN g
        BY <4>2, <3>1, <3>3, NextBlock
      <4> QED BY <4>1, <4>3, <4>4, <3>3 DEF FreeAt
    <3>9. CoalescedBut(g, b)
      <4> SUFFICES ASSUME NEW a \in DOMAIN g, a # b, g[a].free, g[a].next # b
                   PROVE  ~FreeAt(g, g[a].next)
        BY DEF CoalescedBut
      <4>1. a \in DOMAIN f /\ g[a].next = f[a].next /\ f[a].free
        BY <3>3
      <4>2. ~FreeAt(f, f[a].next)
        BY <4>1 DEF CoalescedBut
      <4>3. f[a].next # Null => f[a].next \in DOMAIN g
        BY <4>1, <3>3, <3>6, NextBlock
      <4> QED BY <4>1, <4>2, <4>3, <3>3 DEF FreeAt
    <3> QED BY <3>4, <3>5, <3>8, <3>9
  <2> QED BY <2>1, <2>2
<1> HIDE DEF g
<1>2. CASE ~FreeAt(g, g[b].prev)
  <2>1. h = g
    BY <1>2 DEF Coalesce, g
  <2>2. Compact(g)
    <3> SUFFICES ASSUME NEW a \in DOMAIN g, g[a].free, FreeAt(g, g[a].next)
                 PROVE  FALSE
      BY DEF Compact
    <3>1. a # b
      BY <1>1
    <3>2. g[a].next = b
      BY <3>1, <1>1 DEF CoalescedBut
    <3>3. g[b].prev = a
      BY <3>2, <1>1, NextBlock, HeapFields DEF Null
    <3> QED BY <3>3, <1>1, <1>2, HeapFields DEF FreeAt, Null
  <2> QED BY <2>1, <2>2, <1>1
<1>3. CASE FreeAt(g, g[b].prev)
  <2> DEFINE p == g[b].prev
  <2>0. h = Absorb(g, p)
    BY <1>3 DEF Coalesce, g
  <2> HIDE DEF h
  <2>1. p # Null /\ p \in DOMAIN g /\ g[p].free /\ g[p].next = b
    BY <1>1, <1>3 DEF FreeAt, Tiles, Linked
  <2>2. g[p].next # Null
    BY <2>1, <1>1, HeapFields DEF Null
  <2>3. IsHeap(h) /\ Tiles(h)
    BY <2>0, <2>1, <2>2, <1>1, AbsorbTiles
  <2>4. /\ DOMAIN h = DOMAIN g \ {b}
        /\ h[p].next = g[b].next
        /\ \A a \in DOMAIN h : h[a].free = g[a].free /\ h[a].name = g[a].name
        /\ \A a \in DOMAIN h \ {p} : h[a].size = g[a].size /\ h[a].next = g[a].next
    <3>1. Absorbed(g, p, h)
      BY <2>0, <2>1, <2>2, <1>1, AbsorbKeeps
    <3> QED BY <3>1, <2>1 DEF Absorbed
  <2>5. Good(h)
    <3>1. HeldOf(h) = HeldOf(g)
      BY <2>4, <1>1 DEF HeldOf
    <3>2. \A a \in HeldOf(g) : a # p /\ h[a].size = g[a].size /\ h[a].name = g[a].name
      BY <2>1, <2>4, <3>1 DEF HeldOf
    <3> QED BY <3>1, <3>2, <2>3, <1>1
  <2>6. p # b
    BY <2>1, <2>2, <1>1, NextBlock, HeapFields
  <2>7. Compact(h)
    <3> SUFFICES ASSUME NEW a \in DOMAIN h, h[a].free, FreeAt(h, h[a].next)
                 PROVE  FALSE
      BY DEF Compact
    <3>1. CASE a = p
      <4>1. h[a].next = g[b].next
        BY <3>1, <2>4
      <4>2. g[b].next # Null => g[b].next \in DOMAIN g /\ g[b].next # b
        BY <1>1, NextBlock, HeapFields
      <4> QED BY <4>1, <4>2, <1>1, <2>4 DEF FreeAt
    <3>2. CASE a # p
      <4>1. h[a].next = g[a].next /\ g[a].free /\ a # b /\ a \in DOMAIN g
        BY <3>2, <2>4
      <4>2. g[a].next # b
        BY <4>1, <3>2, <1>1, NextBlock, HeapFields DEF Null
      <4>3. ~FreeAt(g, g[a].next)
        BY <4>1, <4>2, <1>1 DEF CoalescedBut
      <4>4. g[a].next # Null => g[a].next \in DOMAIN g
        BY <4>1, <1>1, NextBlock
      <4> QED BY <4>1, <4>2, <4>3, <4>4, <2>4 DEF FreeAt
    <3> QED BY <3>1, <3>2
  <2> QED BY <2>3, <2>5, <2>7 DEF h
<1> QED BY <1>2, <1>3
-----------------------------------------------------------------------------
(* The tiling depends on where blocks are and how they are linked, not on who
   has them. *)
LEMMA SameShape ==
    ASSUME NEW f, NEW g, Tiles(f), DOMAIN g = DOMAIN f,
           \A a \in DOMAIN f : g[a].size = f[a].size /\ g[a].next = f[a].next /\ g[a].prev = f[a].prev
    PROVE  Tiles(g)
<1>1. \A a \in DOMAIN f : End(g, a) = End(f, a)
  BY DEF End
<1>2. \A a \in DOMAIN g : Linked(g, a)
  <2> SUFFICES ASSUME NEW a \in DOMAIN f PROVE Linked(g, a)
    OBVIOUS
  <2>1. Linked(f, a)
    BY DEF Tiles
  <2> QED BY <2>1, <1>1 DEF Linked
<1>3. \A a \in DOMAIN g : a % 64 = 0 /\ g[a].size >= 64 /\ Linked(g, a)
  BY <1>2 DEF Tiles
<1>4. \A x \in 0 .. (Len - 1) : \E b \in DOMAIN g : b <= x /\ x < End(g, b)
  BY <1>1 DEF Tiles
<1>5. \A b, c \in DOMAIN g : b < c => End(g, b) <= c
  BY <1>1 DEF Tiles
<1>6. 0 \in DOMAIN g /\ DOMAIN g \subseteq 0 .. (Len - 1)
  BY DEF Tiles
<1> QED BY ONLY <1>3, <1>4, <1>5, <1>6 DEF Tiles

IInv == TypeOK /\ Tiled /\ Coalesced

(* nosaic_dmapool_alloc when the block is handed out whole. *)
LEMMA WholeKeeps ==
    ASSUME IInv, NEW b \in DOMAIN blk, NEW n \in Names \cup {Other}
    PROVE  LET g == Whole(b, n)
           IN /\ IsHeap(g) /\ Tiles(g) /\ Compact(g)
              /\ HeldOf(g) = HeldOf(blk) \cup {b}
              /\ \A a \in DOMAIN blk : a \in DOMAIN g /\ g[a].size = blk[a].size
<1> DEFINE g == Whole(b, n)
<1>1. DOMAIN g = DOMAIN blk /\ \A a \in DOMAIN blk : blk[a] \in Header
  BY HeapFields DEF Whole, IInv, TypeOK
<1>2. \A a \in DOMAIN blk :
        /\ g[a] \in Header
        /\ g[a].size = blk[a].size /\ g[a].next = blk[a].next /\ g[a].prev = blk[a].prev
        /\ g[a].free = IF a = b THEN FALSE ELSE blk[a].free
  BY Zenon, <1>1 DEF Whole, Header
<1>3. IsHeap(g)
  <2>1. g = [a \in DOMAIN g |-> g[a]]
    BY DEF Whole
  <2>2. DOMAIN g \subseteq Nat
    BY <1>1 DEF IInv, TypeOK, IsHeap
  <2> HIDE DEF g
  <2> QED BY Zenon, <2>1, <2>2, <1>1, <1>2 DEF IsHeap
<1>4. Tiles(g)
  <2> HIDE DEF g
  <2> QED BY Zenon, <1>1, <1>2, SameShape DEF IInv, Tiled
<1>5. Compact(g)
  <2> HIDE DEF g
  <2> SUFFICES ASSUME NEW a \in DOMAIN blk, g[a].free, g[a].next # Null, g[g[a].next].free
               PROVE  FALSE
    BY <1>1 DEF Compact, FreeAt
  <2>1. blk[a].free /\ blk[a].next # Null /\ blk[a].next \in DOMAIN blk
    BY Zenon, <1>2, NextBlock DEF IInv, Tiled, TypeOK
  <2> QED BY Zenon, <2>1, <1>2 DEF IInv, Coalesced, FreeAt
<1>6. HeldOf(g) = HeldOf(blk) \cup {b}
  <2> HIDE DEF g
  <2> QED BY Zenon, <1>1, <1>2 DEF HeldOf
<1> QED BY Zenon, <1>1, <1>2, <1>3, <1>4, <1>5, <1>6

(* ... and when the rest becomes a block of its own. *)
LEMMA SplitKeeps ==
    ASSUME IInv, NEW b \in DOMAIN blk, blk[b].free, NEW n \in Names \cup {Other},
           NEW w \in Nat, w >= 64, w % 64 = 0, Splits(b, w)
    PROVE  LET g == Split(b, w, n)
           IN /\ IsHeap(g) /\ Tiles(g) /\ Compact(g)
              /\ HeldOf(g) = HeldOf(blk) \cup {b}
              /\ b \in DOMAIN g /\ g[b].size = w
              /\ \A a \in DOMAIN blk \ {b} : a \in DOMAIN g /\ g[a].size = blk[a].size
<1> DEFINE g == Split(b, w, n)
<1> DEFINE rest == b + HDR + w
<1> DEFINE nx == blk[b].next
<1>0. IsHeap(blk) /\ Tiles(blk) /\ \A a \in DOMAIN blk : blk[a] \in Header /\ a \in Nat
  BY HeapFields DEF IInv, TypeOK, Tiled
<1>1. b \in Nat /\ blk[b].size \in Nat /\ rest \in Nat /\ b < rest /\ rest < End(blk, b) /\ rest % 64 = 0
      /\ blk[b].size - w - HDR \in Nat /\ blk[b].size - w - HDR >= 64 /\ b % 64 = 0
  <2>1. b \in Nat /\ blk[b].size \in Nat /\ b % 64 = 0
    BY <1>0, HeapFields DEF Tiles
  <2>2. blk[b].size >= w + 64 + 64
    BY DEF Splits, HDR
  <2>3. rest % 64 = 0
    BY <2>1 DEF HDR
  <2> QED BY <2>1, <2>2, <2>3 DEF HDR, End
<1>2. rest \notin DOMAIN blk
  <2>1. \A c \in DOMAIN blk : b < c => End(blk, b) <= c
    BY <1>0 DEF Tiles
  <2>2. End(blk, b) \in Nat
    BY <1>1 DEF End, HDR
  <2> HIDE DEF rest
  <2> QED BY <2>1, <2>2, <1>1
<1>3. DOMAIN g = DOMAIN blk \cup {rest} /\ g = [a \in DOMAIN g |-> g[a]]
  BY DEF Split
<1>4. g[b] = [blk[b] EXCEPT !.size = w, !.free = FALSE, !.name = n, !.next = rest]
  BY <1>3 DEF Split
<1>5. g[rest] = [size |-> blk[b].size - w - HDR, free |-> TRUE, name |-> Other,
                 next |-> nx, prev |-> b]
  BY <1>1, <1>2, <1>3 DEF Split
<1>6. \A a \in DOMAIN blk \ {b} : g[a] = IF a = nx THEN [blk[a] EXCEPT !.prev = rest] ELSE blk[a]
  BY <1>2, <1>3 DEF Split
<1> HIDE DEF g
<1>7. g[b] \in Header /\ g[b].size = w /\ g[b].next = rest /\ g[b].prev = blk[b].prev /\ g[b].free = FALSE
  <2> HIDE DEF rest
  <2>1. blk[b] \in Header
    BY <1>0
  <2> QED BY Zenon, <2>1, <1>1, <1>4 DEF Header
<1>8. g[rest] \in Header /\ g[rest].size = blk[b].size - w - HDR /\ g[rest].next = nx
      /\ g[rest].prev = b /\ g[rest].free = TRUE
  <2>1. blk[b].next \in Nat \cup {Null}
    BY <1>0, HeapFields
  <2> QED BY <2>1, <1>0, <1>1, <1>5 DEF Header
<1>9. \A a \in DOMAIN blk \ {b} :
        /\ g[a] \in Header /\ g[a].size = blk[a].size /\ g[a].free = blk[a].free
        /\ g[a].next = blk[a].next
        /\ a # nx => g[a].prev = blk[a].prev
        /\ a = nx => g[a].prev = rest
  <2> HIDE DEF rest, nx
  <2> TAKE a \in DOMAIN blk \ {b}
  <2>1. blk[a] \in Header /\ rest \in Nat
    BY <1>0, <1>1
  <2>2. CASE a = nx
    BY Zenon, <2>1, <2>2, <1>6 DEF Header
  <2>3. CASE a # nx
    BY Zenon, <2>1, <2>3, <1>6
  <2> QED BY <2>2, <2>3
<1>10. IsHeap(g)
  <2>1. \A a \in DOMAIN g : g[a] \in Header
    BY <1>3, <1>7, <1>8, <1>9
  <2> QED BY <2>1, <1>0, <1>1, <1>3 DEF IsHeap
<1>11. End(g, b) = rest /\ End(g, rest) = End(blk, b) /\ \A a \in DOMAIN blk \ {b} : End(g, a) = End(blk, a)
  BY <1>1, <1>7, <1>8, <1>9 DEF End, HDR
<1>12. nx # Null => nx \in DOMAIN blk /\ nx = End(blk, b) /\ nx # b /\ blk[nx].prev = b
  BY <1>0, <1>1, NextBlock
<1>13. Tiles(g)
  <2>1. 0 \in DOMAIN g /\ DOMAIN g \subseteq 0 .. (Len - 1)
    <3>1. End(blk, b) <= Len
      BY <1>0, BlocksEnd
    <3>2. rest \in 0 .. (Len - 1)
      BY <3>1, <1>1, LenAssumption DEF End, HDR
    <3> QED BY <3>2, <1>0, <1>3 DEF Tiles
  <2>2. \A x \in 0 .. (Len - 1) : \E a \in DOMAIN g : a <= x /\ x < End(g, a)
    <3> TAKE x \in 0 .. (Len - 1)
    <3>1. PICK a \in DOMAIN blk : a <= x /\ x < End(blk, a)
      BY <1>0 DEF Tiles
    <3>2. CASE a # b
      BY <3>1, <3>2, <1>3, <1>11
    <3>3. CASE a = b /\ x < rest
      BY <3>1, <3>3, <1>3, <1>11
    <3>4. CASE a = b /\ ~(x < rest)
      BY <3>1, <3>4, <1>1, <1>3, <1>11
    <3> QED BY <3>2, <3>3, <3>4
  <2>3. \A a, c \in DOMAIN g : a < c => End(g, a) <= c
    <3> SUFFICES ASSUME NEW a \in DOMAIN g, NEW c \in DOMAIN g, a < c
                 PROVE  End(g, a) <= c
      OBVIOUS
    <3>1. \A d, e \in DOMAIN blk : d < e => End(blk, d) <= e
      BY <1>0 DEF Tiles
    <3>2. End(blk, b) \in Nat
      BY <1>1 DEF End, HDR
    <3>3. CASE a = rest
      BY <3>1, <3>2, <3>3, <1>0, <1>1, <1>3, <1>11
    <3>4. CASE a # rest /\ c = rest
      <4>1. a \in DOMAIN blk /\ (a = b \/ a < b \/ b < a) /\ a \in Nat
        BY <3>4, <1>0, <1>1, <1>3
      <4>2. ~(b < a)
        BY <4>1, <3>1, <3>2, <3>4, <1>1
      <4>3. CASE a < b
        <5>1. End(blk, a) <= b /\ End(g, a) = End(blk, a)
          BY <4>1, <4>3, <3>1, <1>1, <1>11
        <5>2. End(blk, a) \in Nat
          BY <4>1, <1>0, HeapFields DEF End, HDR
        <5> QED BY <5>1, <5>2, <3>4, <1>1
      <4>4. CASE a = b
        BY <4>4, <3>4, <1>1, <1>11
      <4> QED BY <4>1, <4>2, <4>3, <4>4
    <3>5. CASE a # rest /\ c # rest
      <4>1. a \in DOMAIN blk /\ c \in DOMAIN blk /\ End(blk, a) <= c /\ c \in Nat
        BY <3>1, <3>5, <1>0, <1>3
      <4>2. CASE a = b
        BY <4>1, <4>2, <3>2, <1>1, <1>11
      <4>3. CASE a # b
        BY <4>1, <4>3, <1>11
      <4> QED BY <4>2, <4>3
    <3> QED BY <3>3, <3>4, <3>5
  <2>4. \A a \in DOMAIN g : a % 64 = 0 /\ g[a].size >= 64
    BY <1>0, <1>1, <1>3, <1>7, <1>8, <1>9 DEF Tiles
  <2>5. \A a \in DOMAIN g : Linked(g, a)
    <3> SUFFICES ASSUME NEW a \in DOMAIN g PROVE Linked(g, a)
      OBVIOUS
    <3>1. \A d \in DOMAIN blk : Linked(blk, d)
      BY <1>0 DEF Tiles
    <3>2. CASE a = b
      <4>1. CASE b = 0 /\ blk[b].prev = Null
        BY <4>1, <3>2, <1>3, <1>7, <1>8, <1>11 DEF Linked
      <4>2. CASE blk[b].prev \in DOMAIN blk /\ blk[blk[b].prev].next = b
        <5>1. blk[b].prev # b
          BY <4>2, <1>0, <1>1, NextBlock DEF Null
        <5>2. blk[b].prev \in DOMAIN g /\ g[blk[b].prev].next = b
          BY <5>1, <4>2, <1>3, <1>9
        <5> QED BY <5>2, <3>2, <1>3, <1>7, <1>8, <1>11 DEF Linked
      <4> QED BY <4>1, <4>2, <3>1 DEF Linked
    <3>3. CASE a = rest
      <4>1. CASE nx = Null
        <5>1. End(blk, b) = Len
          BY <4>1, <3>1, <1>1 DEF Linked, End, Null, HDR
        <5> QED BY <5>1, <4>1, <3>3, <1>3, <1>7, <1>8, <1>11 DEF Linked
      <4>2. CASE nx # Null
        BY <4>2, <3>3, <1>3, <1>7, <1>8, <1>9, <1>11, <1>12 DEF Linked
      <4> QED BY <4>1, <4>2
    <3>4. CASE a \in DOMAIN blk \ {b}
      <4>1. g[a].next = blk[a].next /\ End(g, a) = End(blk, a) /\ Linked(blk, a)
        BY <3>1, <3>4, <1>9, <1>11
      <4>2. \/ g[a].next = Null /\ End(g, a) = Len
            \/ g[a].next = End(g, a) /\ End(g, a) \in DOMAIN g /\ g[End(g, a)].prev = a
        <5>1. CASE blk[a].next = Null
          <6>1. End(blk, a) # Null
            BY <3>4, <1>0, HeapFields DEF End, HDR, Null
          <6> QED BY <6>1, <5>1, <4>1 DEF Linked
        <5>2. CASE blk[a].next # Null
          <6>1. blk[a].next \in DOMAIN blk /\ blk[blk[a].next].prev = a /\ blk[a].next = End(blk, a)
            BY <5>2, <3>4, <1>0, NextBlock
          <6>2. CASE blk[a].next = b
            BY Zenon, <6>1, <6>2, <4>1, <1>3, <1>7
          <6>3. CASE blk[a].next # b
            <7>1. blk[a].next # nx
              BY <6>1, <5>2, <3>4, <1>12
            <7> QED BY <7>1, <6>1, <6>3, <4>1, <1>3, <1>9
          <6> QED BY <6>2, <6>3
        <5> QED BY <5>1, <5>2
      <4>3. CASE a = nx
        BY Zenon, <4>2, <4>3, <3>4, <1>3, <1>8, <1>9 DEF Linked
      <4>4. CASE a # nx
        <5>1. g[a].prev = blk[a].prev
          BY <4>4, <3>4, <1>9
        <5>2. CASE a = 0 /\ blk[a].prev = Null
          BY <5>1, <5>2, <4>2 DEF Linked
        <5>3. CASE blk[a].prev \in DOMAIN blk /\ blk[blk[a].prev].next = a
          <6>1. blk[a].prev # b
            BY <5>3, <4>4
          <6> QED BY <6>1, <5>1, <5>3, <4>2, <1>3, <1>9 DEF Linked
        <5> QED BY <5>2, <5>3, <4>1 DEF Linked
      <4> QED BY <4>3, <4>4
    <3> QED BY <3>2, <3>3, <3>4, <1>3
  <2> HIDE DEF rest, nx
  <2>6. \A a \in DOMAIN g : a % 64 = 0 /\ g[a].size >= 64 /\ Linked(g, a)
    BY <2>4, <2>5
  <2> QED BY ONLY <2>1, <2>2, <2>3, <2>6 DEF Tiles
<1>14. Compact(g)
  <2> SUFFICES ASSUME NEW a \in DOMAIN g, g[a].free, g[a].next # Null, g[g[a].next].free
               PROVE  FALSE
    BY DEF Compact, FreeAt
  <2>1. a # b
    BY <1>7
  <2>2. CASE a = rest
    <3>1. nx \in DOMAIN blk \ {b} /\ blk[nx].free
      BY <2>2, <1>8, <1>9, <1>12
    <3> QED BY <3>1, <2>2, <1>8 DEF IInv, Coalesced, FreeAt
  <2>3. CASE a \in DOMAIN blk \ {b}
    <3>1. blk[a].free /\ blk[a].next # Null /\ g[a].next = blk[a].next /\ blk[a].next \in DOMAIN blk
      BY <2>3, <1>0, <1>9, NextBlock
    <3>2. blk[a].next # b
      BY <3>1, <1>7
    <3> QED BY <3>1, <3>2, <2>3, <1>9 DEF IInv, Coalesced, FreeAt
  <2> QED BY <2>1, <2>2, <2>3, <1>3
<1>15. HeldOf(g) = HeldOf(blk) \cup {b}
  BY <1>2, <1>3, <1>7, <1>8, <1>9 DEF HeldOf
<1> QED BY <1>3, <1>7, <1>9, <1>10, <1>13, <1>14, <1>15 DEF g

(* nosaic_dmapool_free of a block it accepts: the block is no longer held and
   every other allocation keeps its place and its size. *)
LEMMA FreeKeeps ==
    ASSUME IInv, NEW b \in DOMAIN blk, ~blk[b].free
    PROVE  LET h == Coalesce(Freed(b), b)
           IN /\ IsHeap(h) /\ Tiles(h) /\ Compact(h)
              /\ HeldOf(h) = HeldOf(blk) \ {b}
              /\ \A a \in HeldOf(blk) \ {b} : h[a].size = blk[a].size
<1> DEFINE f == Freed(b)
<1>1. DOMAIN f = DOMAIN blk /\ \A a \in DOMAIN blk : blk[a] \in Header
  BY HeapFields DEF Freed, IInv, TypeOK
<1>2. \A a \in DOMAIN blk :
        /\ f[a] \in Header
        /\ f[a].size = blk[a].size /\ f[a].next = blk[a].next /\ f[a].prev = blk[a].prev
        /\ f[a].free = IF a = b THEN TRUE ELSE blk[a].free
  BY Zenon, <1>1 DEF Freed, Header
<1>3. f = [a \in DOMAIN f |-> f[a]]
  BY DEF Freed
<1> HIDE DEF f
<1>4. IsHeap(f)
  <2>1. DOMAIN f \subseteq Nat
    BY <1>1 DEF IInv, TypeOK, IsHeap
  <2> QED BY Zenon, <2>1, <1>1, <1>2, <1>3 DEF IsHeap
<1>5. Tiles(f)
  BY Zenon, <1>1, <1>2, SameShape DEF IInv, Tiled
<1>6. CoalescedBut(f, b)
  <2> SUFFICES ASSUME NEW a \in DOMAIN blk, a # b, f[a].free, f[a].next # b, f[a].next # Null,
                      f[f[a].next].free
               PROVE  FALSE
    BY <1>1 DEF CoalescedBut, FreeAt
  <2>1. blk[a].free /\ blk[a].next # Null /\ blk[a].next \in DOMAIN blk
    BY Zenon, <1>2, NextBlock DEF IInv, Tiled, TypeOK
  <2> QED BY Zenon, <2>1, <1>2 DEF IInv, Coalesced, FreeAt
<1>7. HeldOf(f) = HeldOf(blk) \ {b}
  BY Zenon, <1>1, <1>2 DEF HeldOf
<1>8. \A a \in HeldOf(f) : f[a].size = blk[a].size
  BY Zenon, <1>1, <1>2 DEF HeldOf
<1> DEFINE h == Coalesce(f, b)
<1>9. /\ IsHeap(h) /\ Tiles(h) /\ Compact(h)
      /\ HeldOf(h) = HeldOf(f)
      /\ \A a \in HeldOf(f) : h[a].size = f[a].size
  <2>1. b \in DOMAIN f /\ f[b].free
    BY Zenon, <1>1, <1>2
  <2> QED BY <2>1, <1>4, <1>5, <1>6, CoalesceRestores
<1> HIDE DEF h
<1> QED BY <1>7, <1>8, <1>9 DEF f, h

(* The memset of a new allocation, outside the lock, reaches no header. *)
LEMMA ZeroKeeps ==
    ASSUME IInv, NEW b \in zeroing, Zero(b)
    PROVE  blk' = blk
<1>1. b \in DOMAIN blk /\ IsHeap(blk) /\ Tiles(blk)
  BY DEF IInv, TypeOK, Tiled
<1>2. \A a \in DOMAIN blk : a \notin Payload(b)
  <2> SUFFICES ASSUME NEW a \in DOMAIN blk, a \in Payload(b) PROVE FALSE
    OBVIOUS
  <2>1. a \in Nat /\ b \in Nat /\ End(blk, b) \in Nat
    BY <1>1, HeapFields DEF End, HDR
  <2>2. a >= b + 64 /\ a < End(blk, b)
    BY <2>1 DEF Payload, payload_of, HDR
  <2>3. End(blk, b) <= a
    BY <2>1, <2>2, <1>1 DEF Tiles
  <2> QED BY <2>1, <2>2, <2>3
<1>3. DOMAIN blk \ Payload(b) = DOMAIN blk
  BY <1>2
<1>4. blk' = [a \in DOMAIN blk |-> blk[a]]
  BY <1>3 DEF Zero
<1> QED BY <1>1, <1>4 DEF IsHeap
-----------------------------------------------------------------------------
(* An allocation adds the block it returns, large enough, and leaves the others
   as they are. *)
LEMMA AllocStep ==
    ASSUME IInv, NEW size \in Sizes, NEW n \in Names, NEW b \in DOMAIN blk, Alloc(size, n, b)
    PROVE  /\ IInv'
           /\ blk[b].free
           /\ HeldOf(blk') = HeldOf(blk) \cup {b}
           /\ \A a \in HeldOf(blk) : blk'[a].size = blk[a].size
           /\ blk'[b].size >= round64(IF size = 0 THEN 1 ELSE size)
<1> DEFINE w == round64(IF size = 0 THEN 1 ELSE size)
<1>1. w \in Nat /\ w >= 64 /\ w % 64 = 0
  BY Zenon, CallAssumption, RoundUp
<1>2. blk[b].free /\ blk[b].size >= w
  BY DEF Alloc, IsFirst, Fits
<1>3. Slot(n) \in Names \cup {Other} /\ Register(n) \subseteq Names
  BY Zenon DEF Slot, Register, IInv, TypeOK
<1>4. /\ known' = Register(n)
      /\ blk' = IF Splits(b, w) THEN Split(b, w, Slot(n)) ELSE Whole(b, Slot(n))
      /\ used' = used + HDR + blk'[b].size
      /\ outstanding' = [outstanding EXCEPT ![Slot(n)] = @ + blk'[b].size]
      /\ zeroing' = zeroing \cup {b}
      /\ last' = Call(w, payload_of(b))
  BY Zenon DEF Alloc
<1> HIDE DEF w
<1>5. /\ IsHeap(blk') /\ Tiles(blk') /\ Compact(blk')
      /\ HeldOf(blk') = HeldOf(blk) \cup {b}
      /\ \A a \in DOMAIN blk \ {b} : blk'[a].size = blk[a].size
      /\ blk'[b].size >= w /\ b \in DOMAIN blk'
  <2>1. CASE Splits(b, w)
    <3>1. blk' = Split(b, w, Slot(n))
      BY Zenon, <2>1, <1>4
    <3> QED BY <3>1, <2>1, <1>1, <1>2, <1>3, SplitKeeps, SMTT(60)
  <2>2. CASE ~Splits(b, w)
    <3>1. blk' = Whole(b, Slot(n))
      BY <2>2, <1>4
    <3> QED BY SMTT(20), <3>1, <1>2, <1>3, WholeKeeps
  <2> QED BY Zenon, <2>1, <2>2
<1>6. \A a \in HeldOf(blk) : a # b /\ blk'[a].size = blk[a].size
  BY Zenon, <1>2, <1>5 DEF HeldOf
<1>7. TypeOK'
  <2>1. blk'[b].size \in Nat /\ b \in Nat
    BY Zenon, <1>5, HeapFields DEF IInv, TypeOK
  <2>2. used' \in Int /\ outstanding' \in [Names \cup {Other} -> Int]
    BY <2>1, <1>3, <1>4 DEF IInv, TypeOK, HDR
  <2>3. zeroing' \subseteq HeldOf(blk')
    BY Zenon, <1>4, <1>5 DEF IInv, TypeOK, HeldOf
  <2>4. last' \in [want : Nat, ret : Nat \cup {Null}]
    BY <2>1, <1>1, <1>4 DEF Call, payload_of, HDR
  <2> QED BY Zenon, <2>2, <2>3, <2>4, <1>3, <1>4, <1>5 DEF TypeOK, HeldOf
<1>8. Tiled' /\ Coalesced'
  BY <1>5 DEF Tiled, Coalesced, Compact
<1> QED BY <1>2, <1>5, <1>6, <1>7, <1>8 DEF IInv, w

(* A free removes the block it names and leaves the others as they are. *)
LEMMA FreeStep ==
    ASSUME IInv, NEW ptr \in Pointers, Free(ptr)
    PROVE  /\ IInv'
           /\ ptr - HDR \in HeldOf(blk)
           /\ HeldOf(blk') = HeldOf(blk) \ {ptr - HDR}
           /\ \A a \in HeldOf(blk') : blk'[a].size = blk[a].size
<1> DEFINE b == ptr - HDR
<1>1. b \in DOMAIN blk /\ b \notin zeroing /\ ~blk[b].free
  BY DEF Free, Accepts
<1>2. /\ blk' = Coalesce(Freed(b), b)
      /\ used' = used - HDR - blk[b].size
      /\ outstanding' = [outstanding EXCEPT ![blk[b].name] = @ - blk[b].size]
      /\ last' = Call(0, Null)
      /\ known' = known /\ zeroing' = zeroing
  BY Zenon DEF Free
<1> HIDE DEF b
<1>3. /\ IsHeap(blk') /\ Tiles(blk') /\ Compact(blk')
      /\ HeldOf(blk') = HeldOf(blk) \ {b}
      /\ \A a \in HeldOf(blk) \ {b} : blk'[a].size = blk[a].size
  BY <1>1, <1>2, FreeKeeps
<1>4. TypeOK'
  <2>1. blk[b].size \in Nat /\ blk[b].name \in Names \cup {Other}
    BY <1>1, HeapFields DEF IInv, TypeOK
  <2>2. used' \in Int /\ outstanding' \in [Names \cup {Other} -> Int]
    BY SMTT(20), <2>1, <1>2 DEF IInv, TypeOK, HDR
  <2>3. zeroing' \subseteq HeldOf(blk')
    BY <1>1, <1>2, <1>3 DEF IInv, TypeOK, HeldOf
  <2>4. last' \in [want : Nat, ret : Nat \cup {Null}]
    BY <1>2 DEF Call
  <2>5. known' \subseteq Names
    BY <1>2 DEF IInv, TypeOK
  <2> QED BY <2>2, <2>3, <2>4, <2>5, <1>3 DEF TypeOK, HeldOf
<1>5. Tiled' /\ Coalesced'
  BY <1>3 DEF Tiled, Coalesced, Compact
<1>6. b \in HeldOf(blk)
  BY <1>1 DEF HeldOf
<1> QED BY <1>3, <1>4, <1>5, <1>6 DEF IInv, b

(* A request turned away and a payload zeroed change no header. *)
LEMMA OtherSteps ==
    ASSUME IInv,
           \/ \E size \in Sizes, n \in Names : AllocFails(size, n)
           \/ \E b \in zeroing : Zero(b)
           \/ UNCHANGED vars
    PROVE  IInv' /\ blk' = blk
<1>1. CASE \E size \in Sizes, n \in Names : AllocFails(size, n)
  <2>1. PICK size \in Sizes, n \in Names : AllocFails(size, n)
    BY <1>1
  <2>2. Register(n) \subseteq Names
    BY DEF Register, IInv, TypeOK
  <2>3. round64(IF size = 0 THEN 1 ELSE size) \in Nat
    BY CallAssumption, RoundUp
  <2>4. /\ UNCHANGED <<blk, used, outstanding, zeroing>> /\ known' = Register(n)
        /\ last' = Call(round64(IF size = 0 THEN 1 ELSE size), Null)
    BY <2>1 DEF AllocFails
  <2>5. last' \in [want : Nat, ret : Nat \cup {Null}]
    BY <2>3, <2>4 DEF Call
  <2>6. IsHeap(blk)' /\ Tiled' /\ Coalesced'
    BY <2>4 DEF IInv, TypeOK, Tiled, Coalesced
  <2>7. TypeOK'
    BY <2>2, <2>4, <2>5, <2>6 DEF IInv, TypeOK
  <2> QED BY <2>4, <2>6, <2>7 DEF IInv
<1>2. CASE \E b \in zeroing : Zero(b)
  <2>1. PICK b \in zeroing : Zero(b)
    BY <1>2
  <2>2. blk' = blk
    BY <2>1, ZeroKeeps
  <2>3. zeroing' \subseteq zeroing /\ UNCHANGED <<used, outstanding, known, last>>
    BY <2>1 DEF Zero
  <2>4. IsHeap(blk)' /\ Tiled' /\ Coalesced'
    BY <2>2 DEF IInv, TypeOK, Tiled, Coalesced
  <2>5. TypeOK'
    BY <2>2, <2>3, <2>4 DEF IInv, TypeOK
  <2> QED BY <2>2, <2>4, <2>5 DEF IInv
<1>3. CASE UNCHANGED vars
  <2>1. IsHeap(blk)' /\ Tiled' /\ Coalesced'
    BY <1>3 DEF vars, IInv, TypeOK, Tiled, Coalesced
  <2>2. TypeOK'
    BY <2>1, <1>3 DEF vars, IInv, TypeOK
  <2> QED BY <2>1, <2>2, <1>3 DEF IInv, vars
<1> QED BY <1>1, <1>2, <1>3

(* Every step keeps the tiling. *)
LEMMA IInvNext == IInv /\ [Next]_vars => IInv'
BY AllocStep, FreeStep, OtherSteps DEF Next

(* dmapool.h and dmapool.c: whatever is asked for and whatever is freed, headers
   stay headers and no free block waits to be zeroed. *)
THEOREM PoolTypes == Spec => []TypeOK
<1>1. Init => IInv
  BY PoolInit DEF IInv
<1>2. IInv => TypeOK
  BY DEF IInv
<1> QED BY <1>1, <1>2, IInvNext, PTL DEF Spec

(* The block list tiles the region after every alloc, free and memset. *)
THEOREM PoolTiled == Spec => []Tiled
<1>1. Init => IInv
  BY PoolInit DEF IInv
<1>2. IInv => Tiled
  BY DEF IInv
<1> QED BY <1>1, <1>2, IInvNext, PTL DEF Spec

(* nosaic_dmapool_free leaves no free block behind a free block. *)
THEOREM PoolCoalesced == Spec => []Coalesced
<1>1. Init => IInv
  BY PoolInit DEF IInv
<1>2. IInv => Coalesced
  BY DEF IInv
<1> QED BY <1>1, <1>2, IInvNext, PTL DEF Spec
-----------------------------------------------------------------------------
HeldMap ==
    /\ DOMAIN heldPayloads = {b + 64 : b \in HeldOf(blk)}
    /\ \A b \in HeldOf(blk) : b + 64 \in DOMAIN heldPayloads /\ heldPayloads[b + 64] = blk[b].size
    /\ \A p \in DOMAIN heldPayloads : p - 64 \in HeldOf(blk) /\ heldPayloads[p] = blk[p - 64].size

(* The payloads handed out are those of the blocks that are not free. *)
LEMMA HeldPayloads == TypeOK => HeldMap
<1> SUFFICES ASSUME TypeOK PROVE HeldMap
  OBVIOUS
<1>1. \A b \in HeldOf(blk) : b \in Nat /\ b + 64 - 64 = b
  BY DEF HeldOf, TypeOK, IsHeap
<1>2. DOMAIN heldPayloads = {b + 64 : b \in HeldOf(blk)}
  BY DEF heldPayloads, heldBlocks, HeldOf, payload_of, HDR
<1>3. \A p \in DOMAIN heldPayloads : heldPayloads[p] = blk[p - 64].size
  BY DEF heldPayloads, HDR
<1> QED BY <1>1, <1>2, <1>3 DEF HeldMap

(* A request the pool turns away has no room anywhere: the free bytes around any
   place it could go belong to one block, because free blocks are coalesced. *)
LEMMA NoRoom ==
    ASSUME IInv, NEW w \in Nat, w >= 64, Fits(w) = {}
    PROVE  ~A!Room(w)
<1> SUFFICES ASSUME NEW p \in A!Places, p + w <= Len, A!Clear(p, w)
             PROVE  FALSE
  BY DEF A!Room
<1>1. p \in Nat /\ p >= 64
  BY LenAssumption DEF A!Places, A!HDR
<1>2. p - 64 \in 0 .. (Len - 1)
  BY <1>1, LenAssumption
<1>3. IsHeap(blk) /\ Tiles(blk) /\ TypeOK
  BY DEF IInv, TypeOK, Tiled
<1>4. \A c \in DOMAIN blk : c < p + w /\ p - 64 < End(blk, c) => blk[c].free
  <2> SUFFICES ASSUME NEW c \in DOMAIN blk, c < p + w, p - 64 < End(blk, c), ~blk[c].free
               PROVE  FALSE
    OBVIOUS
  <2>1. c \in HeldOf(blk) /\ c \in Nat /\ blk[c].size \in Nat
    BY <1>3, HeapFields DEF HeldOf
  <2>2. c + 64 \in DOMAIN heldPayloads /\ heldPayloads[c + 64] = blk[c].size
    BY <2>1, <1>3, HeldPayloads DEF HeldMap
  <2>3. p + w <= c + 64 - 64 \/ c + 64 + blk[c].size <= p - 64
    <3>1. \A q \in DOMAIN heldPayloads : p + w <= q - 64 \/ q + heldPayloads[q] <= p - 64
      BY DEF A!Clear, A!HDR
    <3>2. PICK q \in DOMAIN heldPayloads : q = c + 64 /\ heldPayloads[q] = blk[c].size
      BY <2>2
    <3>3. p + w <= q - 64 \/ q + heldPayloads[q] <= p - 64
      BY <3>1
    <3> QED BY <3>2, <3>3, <2>1, <1>1
  <2> QED BY <2>1, <2>3, <1>1 DEF End, HDR
<1>5. PICK c \in DOMAIN blk : c <= p - 64 /\ p - 64 < End(blk, c)
  BY <1>2, <1>3 DEF Tiles
<1>6. c \in Nat /\ blk[c].size \in Nat /\ End(blk, c) = c + 64 + blk[c].size
  BY <1>3, HeapFields DEF End, HDR
<1>7. blk[c].free
  BY <1>1, <1>4, <1>5, <1>6
<1>8. blk[c].size < w
  BY <1>6, <1>7 DEF Fits
<1>9. End(blk, c) < p + w
  BY <1>1, <1>5, <1>6, <1>8
<1>10. blk[c].next = End(blk, c) /\ End(blk, c) \in DOMAIN blk
  BY <1>1, <1>3, <1>6, <1>9, LenAssumption DEF Tiles, Linked
<1>11. p - 64 < End(blk, End(blk, c))
  <2>1. blk[End(blk, c)].size \in Nat
    BY <1>3, <1>10, HeapFields
  <2>2. End(blk, End(blk, c)) = End(blk, c) + 64 + blk[End(blk, c)].size
    BY DEF End, HDR
  <2> QED BY <2>1, <2>2, <1>1, <1>5, <1>6
<1>12. blk[End(blk, c)].free
  BY <1>4, <1>9, <1>10, <1>11
<1>13. End(blk, c) # Null
  BY <1>6 DEF Null
<1> QED BY <1>7, <1>10, <1>12, <1>13 DEF IInv, Coalesced, FreeAt

(* The pool is the allocator dmapool.h promises: no two payloads overlap, none
   reaches into a header, and a request fails only for want of room. *)
THEOREM PoolImplements == Spec => Implements
<1>1. Init => IInv /\ A!Init
  <2>1. Init => heldPayloads = [p \in {} |-> 0]
    <3> SUFFICES ASSUME Init PROVE heldPayloads = [p \in {} |-> 0]
      OBVIOUS
    <3>1. heldBlocks = {}
      BY DEF Init, heldBlocks
    <3> QED BY <3>1 DEF heldPayloads
  <2>2. Init => last = A!NoCall
    BY DEF Init, Call, A!NoCall, Null, A!Null
  <2> QED BY <2>1, <2>2, PoolInit DEF IInv, A!Init
<1>2. IInv /\ IInv' /\ [Next]_vars => [A!Next]_<<heldPayloads, last>>
  <2> SUFFICES ASSUME IInv, IInv', [Next]_vars
               PROVE  [A!Next]_<<heldPayloads, last>>
    OBVIOUS
  <2> DEFINE W(size) == round64(IF size = 0 THEN 1 ELSE size)
  <2>0. TypeOK /\ TypeOK'
    BY DEF IInv
  <2> DEFINE H == heldPayloads
  <2>h. /\ H = heldPayloads
        /\ DOMAIN H = {a + 64 : a \in HeldOf(blk)}
        /\ \A a \in HeldOf(blk) : H[a + 64] = blk[a].size
        /\ \A p \in DOMAIN H : p - 64 \in HeldOf(blk) /\ H[p] = blk[p - 64].size
    BY <2>0, HeldPayloads DEF HeldMap
  <2>k. /\ DOMAIN H' = {a + 64 : a \in HeldOf(blk')}
        /\ \A a \in HeldOf(blk') : H'[a + 64] = blk'[a].size
    <3>1. HeldMap'
      BY <2>0, HeldPayloads, PTL
    <3> QED BY <3>1 DEF HeldMap, HeldOf
  <2>1. ASSUME blk' = blk PROVE heldPayloads' = heldPayloads
    BY <2>1 DEF heldPayloads, heldBlocks
  <2>2. ASSUME NEW size \in Sizes, NEW n \in Names, AllocFails(size, n)
        PROVE  A!Next
    <3>1. W(size) \in Nat /\ W(size) >= 64 /\ W(size) \in Wants
      BY CallAssumption, RoundUp DEF Wants
    <3>2. Fits(W(size)) = {} /\ last' = Call(W(size), Null) /\ blk' = blk
      BY <2>2 DEF AllocFails
    <3> HIDE DEF W
    <3>3. A!Refuse(W(size))
      BY <3>1, <3>2, <2>1, NoRoom DEF A!Refuse, Call, Null, A!Null
    <3> QED BY <3>1, <3>3 DEF A!Next
  <2>3. ASSUME NEW size \in Sizes, NEW n \in Names, NEW b \in DOMAIN blk, Alloc(size, n, b)
        PROVE  A!Next
    <3>1. W(size) \in Nat /\ W(size) >= 64 /\ W(size) \in Wants
      BY ZenonT(30), CallAssumption, RoundUp DEF Wants
    <3>2. last' = Call(W(size), payload_of(b))
      BY <2>3 DEF Alloc
    <3>3. /\ blk[b].free
          /\ HeldOf(blk') = HeldOf(blk) \cup {b}
          /\ \A a \in HeldOf(blk) : blk'[a].size = blk[a].size
          /\ blk'[b].size >= W(size)
      BY <2>3, AllocStep
    <3> HIDE DEF W
    <3>4. IsHeap(blk') /\ Tiles(blk') /\ IsHeap(blk) /\ Tiles(blk)
      BY Zenon DEF IInv, TypeOK, Tiled
    <3>5. b \in DOMAIN blk' /\ b \in Nat /\ blk'[b].size \in Nat /\ b % 64 = 0
      BY Zenon, <3>3, <3>4, HeapFields DEF HeldOf, Tiles
    <3>6. DOMAIN H' = DOMAIN H \cup {b + 64} /\ b + 64 \notin DOMAIN H
      <4>1. b \notin HeldOf(blk)
        BY <3>3 DEF HeldOf
      <4>2. b + 64 \notin DOMAIN H
        BY <4>1, <3>5, <2>h
      <4>3. {a + 64 : a \in HeldOf(blk) \cup {b}} = {a + 64 : a \in HeldOf(blk)} \cup {b + 64}
        OBVIOUS
      <4> QED BY Zenon, <4>2, <4>3, <3>3, <2>h, <2>k
    <3>7. \A q \in DOMAIN H : H'[q] = H[q]
      <4> TAKE q \in DOMAIN H
      <4>1. PICK a \in HeldOf(blk) : q = a + 64
        BY <2>h
      <4> QED BY <4>1, <3>3, <2>h, <2>k
    <3>8. H'[b + 64] = blk'[b].size
      BY <3>3, <2>k
    <3>9. b + 64 + blk'[b].size <= Len
      <4>1. End(blk', b) = b + 64 + blk'[b].size
        BY DEF End, HDR
      <4>2. \A a \in DOMAIN blk' : End(blk', a) <= Len
        BY <3>4, BlocksEnd
      <4> QED BY <4>1, <4>2, <3>5
    <3>10. \A q \in DOMAIN H : b + 64 + blk'[b].size <= q - 64 \/ q + H[q] <= b + 64 - 64
      <4> TAKE q \in DOMAIN H
      <4>1. PICK a \in HeldOf(blk) : q = a + 64 /\ H[q] = blk[a].size
        BY SMTT(20), <2>h
      <4>2. a \in DOMAIN blk' /\ a # b /\ blk'[a].size = blk[a].size /\ a \in Nat /\ blk[a].size \in Nat
        BY <3>3, <3>4, HeapFields DEF HeldOf
      <4> HIDE DEF H
      <4>3. End(blk', a) = a + 64 + blk[a].size /\ End(blk', b) = b + 64 + blk'[b].size
        BY Zenon, <4>2 DEF End, HDR
      <4>4. CASE a < b
        <5>1. End(blk', a) <= b
          BY Zenon, <4>2, <4>4, <3>4, <3>5 DEF Tiles
        <5> QED BY <5>1, <4>1, <4>2, <4>3, <3>5
      <4>5. CASE b < a
        <5>1. End(blk', b) <= a
          BY <4>2, <4>5, <3>4, <3>5 DEF Tiles
        <5> QED BY SMTT(20), <5>1, <4>1, <4>2, <4>3, <3>5
      <4>6. a < b \/ b < a
        BY <4>2, <3>5
      <4> QED BY <4>4, <4>5, <4>6
    <3>11. b + 64 \in A!Places
      <4>1. b = 64 * (b \div 64) /\ (b \div 64) \in Nat
        BY <3>5
      <4>2. (b \div 64) + 1 \in 1 .. (Len \div 64) /\ b + 64 = 64 * ((b \div 64) + 1)
        BY <4>1, <3>5, <3>9, LenAssumption
      <4> QED BY <4>2 DEF A!Places, A!HDR
    <3>12. A!Take(b + 64, W(size))
      <4>1. A!Clear(b + 64, heldPayloads'[b + 64])
        <5>1. \A q \in DOMAIN H : q \in Nat /\ H[q] \in Nat
          BY <2>h, <3>4, HeapFields DEF HeldOf
        <5> QED BY SMTT(20), <5>1, <3>5, <3>8, <3>10 DEF A!Clear, A!HDR
      <4>2. last' = [want |-> W(size), ret |-> b + 64]
        BY <3>2 DEF Call, payload_of, HDR
      <4> QED BY Zenon, <4>1, <4>2, <3>3, <3>6, <3>7, <3>8, <3>9 DEF A!Take
    <3> QED BY <3>1, <3>11, <3>12 DEF A!Next
  <2>4. ASSUME NEW ptr \in Pointers, Free(ptr)
        PROVE  A!Next
    <3> DEFINE b == ptr - HDR
    <3>1. last' = Call(0, Null)
      BY <2>4 DEF Free
    <3>2. /\ b \in HeldOf(blk)
          /\ HeldOf(blk') = HeldOf(blk) \ {b}
          /\ \A a \in HeldOf(blk') : blk'[a].size = blk[a].size
      BY <2>4, FreeStep
    <3> HIDE DEF b
    <3>3. \A a \in HeldOf(blk) : a \in Nat
      BY <2>0, HeapFields DEF HeldOf, TypeOK
    <3>4. b + 64 \in DOMAIN H /\ DOMAIN H' = DOMAIN H \ {b + 64}
      BY <3>2, <3>3, <2>h, <2>k
    <3>5. \A q \in DOMAIN H' : H'[q] = H[q]
      <4> TAKE q \in DOMAIN H'
      <4>1. PICK a \in HeldOf(blk') : q = a + 64
        BY <2>k
      <4> QED BY <4>1, <3>2, <2>h, <2>k
    <3>6. H' = [q \in DOMAIN H' |-> H'[q]]
      BY DEF heldPayloads
    <3>7. H' = [q \in DOMAIN H \ {b + 64} |-> H[q]]
      <4> HIDE DEF H
      <4> QED BY <3>4, <3>5, <3>6
    <3>8. A!Give(b + 64)
      BY <3>1, <3>4, <3>7 DEF A!Give, A!NoCall, Call, Null, A!Null
    <3> QED BY <3>4, <3>8 DEF A!Next
  <2>5. ASSUME NEW b \in zeroing, Zero(b)
        PROVE  UNCHANGED <<heldPayloads, last>>
    BY <2>1, <2>5, ZeroKeeps DEF Zero
  <2>6. ASSUME UNCHANGED vars
        PROVE  UNCHANGED <<heldPayloads, last>>
    BY <2>1, <2>6 DEF vars
  <2> QED BY <2>2, <2>3, <2>4, <2>5, <2>6 DEF Next
<1> QED BY <1>1, <1>2, IInvNext, PTL DEF Spec, Implements, A!Spec
-----------------------------------------------------------------------------
Pcs == {"off", "sweep", "lamps", "sleep", "unlamp", "full"}

CoolTypeOK ==
    /\ ValidFans(cb)
    /\ temp \in [Sensors -> Int]
    /\ reg \in [Fans -> Int]
    /\ took \subseteq Fans
    /\ run \in [Runs -> [pc : Pcs, cur : Int, hot : Int]]

(* A fan that took the last command, which no killed run gave, with no run by hand
   about: at full speed when the loop is off, and otherwise at no less than what
   the loop's last reading asks for. *)
Follows(f) ==
    f \in took /\ "duty" \notin stale /\ run["once"].pc = "off" =>
        IF run["loop"].pc = "off" THEN reg[f] = Full
        ELSE reg[f] >= Duty(cb, Target(cb, run["loop"].hot))

CoolInv ==
    /\ CoolTypeOK
    /\ \A f \in Fans : reg[f] >= Duty(cb, cb.floor) /\ Follows(f)

(* Without a lamp map the lamp stays as it was found, which is not green. *)
LampInv ==
    /\ LampsHonest
    /\ ~loadLamps => status # "green"
-----------------------------------------------------------------------------
LEMMA MaxPair ==
    ASSUME NEW a \in Int, NEW b \in Int
    PROVE  Max({a, b}) = IF a >= b THEN a ELSE b
<1>1. \E x \in {a, b} : \A y \in {a, b} : x >= y
  OBVIOUS
<1>2. Max({a, b}) \in {a, b} /\ \A y \in {a, b} : Max({a, b}) >= y
  BY <1>1 DEF Max
<1> QED
  BY <1>2

LEMMA MinPair ==
    ASSUME NEW a \in Int, NEW b \in Int
    PROVE  Min({a, b}) = IF a <= b THEN a ELSE b
<1>1. \E x \in {a, b} : \A y \in {a, b} : x <= y
  OBVIOUS
<1>2. Min({a, b}) \in {a, b} /\ \A y \in {a, b} : Min({a, b}) <= y
  BY <1>1 DEF Min
<1> QED
  BY <1>2

(* The smallest of a set of naturals. *)
LEMMA LeastNat ==
    ASSUME NEW T, T \subseteq Nat, T # {}
    PROVE  \E x \in T : \A y \in T : x <= y
<1> DEFINE less == {ss \in Nat \X Nat : ss[1] < ss[2]}
<1>1. OpToRel(<, Nat) = less
  BY Zenon DEF OpToRel
<1>2. IsWellFoundedOn(less, Nat)
  BY Zenon, <1>1, NatLessThanWellFounded
<1>3. PICK x \in T : \A y \in T : ~(<<y, x>> \in less)
  BY Zenon, <1>2, WFMin
<1>4. ASSUME NEW y \in T PROVE x <= y
  <2>1. x \in Nat /\ y \in Nat /\ <<y, x>> \in Nat \X Nat /\ <<y, x>>[1] = y /\ <<y, x>>[2] = x
    OBVIOUS
  <2>2. ~(y < x)
    <3> SUFFICES ASSUME y < x PROVE <<y, x>> \in less
      BY <1>3
    <3> QED
      BY Zenon, <2>1
  <2> QED
    BY <2>1, <2>2
<1> QED
  BY Zenon, <1>4

(* Min finds it. *)
LEMMA MinNat ==
    ASSUME NEW T, T \subseteq Nat, T # {}
    PROVE  Min(T) \in T
BY Zenon, LeastNat DEF Min

(* clampPercent: what is commanded is a duty between the floor and a hundred. *)
LEMMA ClampIs ==
    ASSUME NEW b, ValidFans(b), NEW p \in Int
    PROVE  clampPercent(b, p) = IF p < b.floor THEN b.floor ELSE IF p > 100 THEN 100 ELSE p
<1>1. b.floor \in 1 .. 100
  BY DEF ValidFans
<1>2. Min({p, 100}) = IF p <= 100 THEN p ELSE 100
  BY MinPair
<1>3. Min({p, 100}) \in Int /\ b.floor \in Int
  BY <1>1, <1>2
<1>4. clampPercent(b, p) = IF b.floor >= Min({p, 100}) THEN b.floor ELSE Min({p, 100})
  BY <1>3, MaxPair DEF clampPercent
<1> QED
  BY <1>1, <1>2, <1>4

LEMMA TimesMonotone ==
    ASSUME NEW c \in Int, NEW d \in Int, NEW m \in Nat, c <= d
    PROVE  c * m <= d * m
<1>1. (d - c) * m >= 0
  OBVIOUS
<1> QED
  BY <1>1

(* A higher duty is no lower a register value, by all three conversions. *)
LEMMA DutyMonotone ==
    ASSUME NEW b, ValidFans(b), NEW p \in Int, NEW q \in Int, clampPercent(b, p) <= clampPercent(b, q)
    PROVE  Duty(b, p) \in Int /\ Duty(b, q) \in Int /\ Duty(b, p) <= Duty(b, q)
<1> DEFINE c == clampPercent(b, p)
           d == clampPercent(b, q)
<1>1. b.max \in Nat /\ b.floor \in 1 .. 100 /\ b.driver \in {"scd", "as4610-cpld", "n3172tq"}
  BY DEF ValidFans
<1>2. c \in Int /\ d \in Int /\ c <= d
  BY <1>1, ClampIs
<1> HIDE DEF c, d
<1>3. CASE b.driver = "scd"
  <2>1. Duty(b, p) = (c * b.max) \div 100 /\ Duty(b, q) = (d * b.max) \div 100
    BY <1>3 DEF Duty, setOneFanPercent, c, d
  <2>2. c * b.max \in Int /\ d * b.max \in Int /\ c * b.max <= d * b.max
    BY <1>1, <1>2, TimesMonotone
  <2> QED
    BY <2>1, <2>2
<1>4. CASE b.driver = "as4610-cpld"
  <2>1. Duty(b, p) = (c * 8 + 50) \div 100 /\ Duty(b, q) = (d * 8 + 50) \div 100
    BY <1>4 DEF Duty, fanDutyToReg, c, d
  <2> QED
    BY <1>2, <2>1
<1>5. CASE b.driver = "n3172tq"
  <2>1. Duty(b, p) = (c * 255 + 99) \div 100 /\ Duty(b, q) = (d * 255 + 99) \div 100
    BY <1>5 DEF Duty, percentToPWM, c, d
  <2> QED
    BY <1>2, <2>1
<1> QED
  BY <1>1, <1>3, <1>4, <1>5

(* The register at the floor, at any duty, at full speed and at full scale. *)
LEMMA DutyBetween ==
    ASSUME NEW b, ValidFans(b), NEW p \in Int
    PROVE  /\ Duty(b, p) \in Int /\ Duty(b, b.floor) \in Int /\ Duty(b, 100) \in Int
           /\ Duty(b, b.floor) <= Duty(b, p) /\ Duty(b, p) <= Duty(b, 100) /\ Duty(b, 100) = b.max
<1>1. b.floor \in 1 .. 100 /\ b.max \in Nat
  BY DEF ValidFans
<1>2. clampPercent(b, b.floor) = b.floor /\ clampPercent(b, 100) = 100 /\ clampPercent(b, p) \in b.floor .. 100
  BY <1>1, ClampIs
<1>3. Duty(b, b.floor) <= Duty(b, p) /\ Duty(b, b.floor) \in Int /\ Duty(b, p) \in Int
  BY <1>1, <1>2, DutyMonotone
<1>4. Duty(b, p) <= Duty(b, 100) /\ Duty(b, 100) \in Int
  BY <1>1, <1>2, DutyMonotone
<1>5. Duty(b, 100) = b.max
  <2>1. CASE b.driver = "scd"
    <3>1. Duty(b, 100) = (100 * b.max) \div 100
      BY <1>2, <2>1 DEF Duty, setOneFanPercent
    <3> QED
      BY <1>1, <3>1
  <2>2. CASE b.driver = "as4610-cpld"
    BY <1>2, <2>2 DEF Duty, fanDutyToReg, ValidFans
  <2>3. CASE b.driver = "n3172tq"
    BY <1>2, <2>3 DEF Duty, percentToPWM, ValidFans
  <2> QED
    BY <2>1, <2>2, <2>3 DEF ValidFans
<1> QED
  BY <1>3, <1>4, <1>5
-----------------------------------------------------------------------------
(* The hottest reading, of what can be read. *)
LEMMA HottestInt ==
    ASSUME CoolTypeOK
    PROVE  Hottest \in Int
<1> DEFINE S == Temperatures \cup {-1}
<1>1. temp[1] \in Int /\ temp[2] \in Int
  BY DEF CoolTypeOK, Sensors
<1>2. \A s \in Sensors : s = 1 \/ s = 2
  BY DEF Sensors
<1>3. Temperatures \subseteq {temp[1], temp[2]}
  <2>1. /\ scdTemperatures \subseteq {temp[1], temp[2]} /\ as4610Temperatures \subseteq {temp[1], temp[2]}
    BY <1>2 DEF scdTemperatures, as4610Temperatures, Readable
  <2>2. n3172tqTemperatures \subseteq {temp[1], temp[2]}
    BY <1>2 DEF n3172tqTemperatures, asicTempMilliC, Readable
  <2> QED
    BY <2>1, <2>2 DEF Temperatures
<1>4. S \subseteq {temp[1], temp[2], -1} /\ -1 \in S
  BY <1>3
<1> HIDE DEF S
<1>5. \E x \in S : \A y \in S : x >= y
  <2>1. \A y \in S : y = temp[1] \/ y = temp[2] \/ y = -1
    BY <1>4
  <2>2. CASE temp[1] \in S /\ temp[2] \in S
    BY <1>1, <1>4, <2>1, <2>2
  <2>3. CASE temp[1] \in S /\ temp[2] \notin S
    BY <1>1, <1>4, <2>1, <2>3
  <2>4. CASE temp[1] \notin S /\ temp[2] \in S
    BY <1>1, <1>4, <2>1, <2>4
  <2>5. CASE temp[1] \notin S /\ temp[2] \notin S
    BY <1>4, <2>1, <2>5
  <2> QED
    BY <2>2, <2>3, <2>4, <2>5
<1>6. Max(S) \in S
  BY <1>5 DEF Max
<1> QED
  BY <1>1, <1>4, <1>6 DEF Hottest, S

LEMMA TargetInt ==
    ASSUME NEW b, ValidFans(b), NEW hot \in Int
    PROVE  Target(b, hot) \in Int
<1>1. b.floor \in Int /\ b.minC \in Int /\ b.maxC \in Int
  BY DEF ValidFans
<1>2. CASE hot > b.minC /\ hot < b.maxC
  <2>1. b.maxC - b.minC \in Nat \ {0}
    BY <1>1, <1>2
  <2>2. (hot - b.minC) * (100 - b.floor) \in Int
    BY <1>1
  <2>3. ((hot - b.minC) * (100 - b.floor)) \div (b.maxC - b.minC) \in Int
    BY <2>1, <2>2
  <2> QED
    BY <1>1, <2>3 DEF Target
<1>3. CASE ~(hot > b.minC /\ hot < b.maxC)
  BY <1>1, <1>3 DEF Target
<1> QED
  BY <1>2, <1>3

(* Curve's slew: what is commanded is never below what the reading asks for. *)
LEMMA SlewedAbove ==
    ASSUME CoolTypeOK, NEW cur \in Int, NEW want \in Int
    PROVE  Slewed(cur, want) \in Int /\ Slewed(cur, want) >= want
<1>1. cb.slew \in Int
  BY DEF CoolTypeOK, ValidFans
<1> QED
  BY <1>1 DEF Slewed

(* SetFanPercent: the fans that took the command are at its duty, the others where
   they were. *)
LEMMA SetFans ==
    ASSUME CoolTypeOK, NEW pct
    PROVE  /\ SetFanPercent(pct).took \subseteq Fans
           /\ SetFanPercent(pct).reg =
                  [f \in Fans |-> IF f \in SetFanPercent(pct).took THEN Duty(cb, pct) ELSE reg[f]]
<1>1. cb.driver \in {"scd", "as4610-cpld", "n3172tq"}
  BY DEF CoolTypeOK, ValidFans
<1>2. ASSUME NEW t, t \subseteq Fans, NEW e, SetFanPercent(pct) = Commanded(t, pct, e)
      PROVE  /\ SetFanPercent(pct).took \subseteq Fans
             /\ SetFanPercent(pct).reg =
                    [f \in Fans |-> IF f \in SetFanPercent(pct).took THEN Duty(cb, pct) ELSE reg[f]]
  BY <1>2 DEF Commanded
<1>3. CASE cb.driver = "scd"
  BY Zenon, <1>2, <1>3 DEF SetFanPercent, scdSetFans
<1>4. CASE cb.driver = "as4610-cpld"
  BY <1>2, <1>4 DEF SetFanPercent, as4610SetFans
<1>5. CASE cb.driver = "n3172tq"
  BY Zenon, <1>2, <1>5 DEF SetFanPercent, n3172tqSetFans
<1> QED
  BY <1>1, <1>3, <1>4, <1>5

(* A command leaves no register below the floor. *)
LEMMA Command ==
    ASSUME CoolInv, NEW pct \in Int, cb' = cb,
           reg' = SetFanPercent(pct).reg, took' = SetFanPercent(pct).took
    PROVE  /\ Fans' = Fans /\ reg' \in [Fans -> Int] /\ took' \subseteq Fans
           /\ \A f \in Fans : reg'[f] >= Duty(cb, cb.floor)
           /\ \A f \in took' : reg'[f] = Duty(cb, pct)
<1>1. CoolTypeOK /\ ValidFans(cb) /\ reg \in [Fans -> Int] /\ \A f \in Fans : reg[f] >= Duty(cb, cb.floor)
  BY DEF CoolInv, CoolTypeOK
<1>2. took' \subseteq Fans /\ reg' = [f \in Fans |-> IF f \in took' THEN Duty(cb, pct) ELSE reg[f]]
  BY <1>1, SetFans
<1>3. Duty(cb, pct) \in Int /\ Duty(cb, pct) >= Duty(cb, cb.floor)
  <2>1. Duty(cb, pct) \in Int /\ Duty(cb, cb.floor) \in Int /\ Duty(cb, cb.floor) <= Duty(cb, pct)
    BY <1>1, DutyBetween
  <2> QED
    BY <2>1
<1>4. Fans' = Fans
  BY DEF Fans
<1> QED
  BY <1>1, <1>2, <1>3, <1>4

(* A command for full speed, whoever gives it. *)
LEMMA AtFull ==
    ASSUME CoolInv, cb' = cb, temp' = temp, run' \in [Runs -> [pc : Pcs, cur : Int, hot : Int]],
           reg' = SetFanPercent(100).reg, took' = SetFanPercent(100).took
    PROVE  CoolInv'
<1>1. /\ Fans' = Fans /\ reg' \in [Fans -> Int] /\ took' \subseteq Fans
      /\ \A f \in Fans : reg'[f] >= Duty(cb, cb.floor)
      /\ \A f \in took' : reg'[f] = Duty(cb, 100)
  BY SMTT(20), Command
<1>2. CoolTypeOK'
  BY <1>1 DEF CoolInv, CoolTypeOK
<1>3. run'["loop"].hot \in Int /\ ValidFans(cb)
  BY DEF Runs, CoolInv, CoolTypeOK
<1>4. Target(cb, run'["loop"].hot) \in Int
  BY Zenon, <1>3, TargetInt
<1>5. /\ Duty(cb, Target(cb, run'["loop"].hot)) \in Int /\ Duty(cb, 100) \in Int
      /\ Duty(cb, Target(cb, run'["loop"].hot)) <= Duty(cb, 100)
  BY <1>3, <1>4, DutyBetween
<1>6. ASSUME NEW f \in Fans PROVE Follows(f)'
  <2>1. f \in took' => reg'[f] = Duty(cb, 100) /\ reg'[f] >= Duty(cb, Target(cb, run'["loop"].hot))
    BY <1>1, <1>5
  <2> QED
    BY Zenon, <2>1 DEF Follows, Full
<1> QED
  BY Zenon, <1>1, <1>2, <1>6 DEF CoolInv

(* Nothing is commanded, and no run starts or stops. *)
LEMMA NoCommand ==
    ASSUME CoolInv, cb' = cb, reg' = reg, took' = took, temp' \in [Sensors -> Int],
           run' \in [Runs -> [pc : Pcs, cur : Int, hot : Int]],
           "duty" \in stale => "duty" \in stale',
           run'["loop"].hot = run["loop"].hot,
           run'["loop"].pc = "off" <=> run["loop"].pc = "off",
           run'["once"].pc = "off" <=> run["once"].pc = "off"
    PROVE  CoolInv'
<1>1. Fans' = Fans
  BY DEF Fans
<1>2. CoolTypeOK'
  BY <1>1 DEF CoolInv, CoolTypeOK
<1>3. ASSUME NEW f \in Fans PROVE Follows(f)'
  <2>1. Follows(f)
    BY DEF CoolInv
  <2> QED
    BY <2>1 DEF Follows, Full
<1> QED
  BY Zenon, <1>1, <1>2, <1>3 DEF CoolInv

LEMMA CoolInvNext ==
    ASSUME CoolInv, [CoolNext]_coolVars
    PROVE  CoolInv'
<1> DEFINE Run == [pc : Pcs, cur : Int, hot : Int]
<1>1. CoolTypeOK /\ ValidFans(cb) /\ run \in [Runs -> Run] /\ temp \in [Sensors -> Int]
  BY DEF CoolInv, CoolTypeOK
<1>2. "loop" \in Runs /\ "once" \in Runs /\ (\A p \in Runs : p = "loop" \/ p = "once")
  BY DEF Runs
<1>3. Off \in Run /\ [pc |-> "sweep", cur |-> 100, hot |-> 0] \in Run
  BY DEF Off, Pcs
<1>4. ASSUME NEW p \in Runs, StartLoop(p) PROVE CoolInv'
  <2>1. run' = [run EXCEPT ![p] = Off] \/ run' = [run EXCEPT ![p] = [pc |-> "sweep", cur |-> 100, hot |-> 0]]
    BY Zenon, <1>4 DEF StartLoop
  <2>2. run' \in [Runs -> Run]
    BY <1>1, <1>3, <2>1
  <2>3. /\ cb' = cb /\ temp' = temp
        /\ reg' = SetFanPercent(100).reg /\ took' = SetFanPercent(100).took
    BY Zenon, <1>4 DEF StartLoop
  <2> QED
    BY <2>2, <2>3, AtFull
<1>5. ASSUME NEW p \in Runs, Sweep(p) PROVE CoolInv'
  <2> DEFINE hot == Hottest
             want == Target(cb, hot)
             cur == Slewed(run[p].cur, want)
  <2>1. /\ reg' = SetFanPercent(cur).reg /\ took' = SetFanPercent(cur).took
        /\ run' = [run EXCEPT ![p] = [pc |-> "lamps", cur |-> cur, hot |-> hot]]
        /\ cb' = cb /\ temp' = temp
    BY <1>5 DEF Sweep, Env
  <2>2. hot \in Int /\ want \in Int /\ run[p].cur \in Int
    BY Zenon, <1>1, HottestInt, TargetInt
  <2>3. cur \in Int /\ cur >= want
    BY Zenon, <1>1, <2>2, SlewedAbove
  <2> HIDE DEF hot, want, cur
  <2>4. /\ Fans' = Fans /\ reg' \in [Fans -> Int] /\ took' \subseteq Fans
        /\ \A f \in Fans : reg'[f] >= Duty(cb, cb.floor)
        /\ \A f \in took' : reg'[f] = Duty(cb, cur)
    BY Zenon, <2>1, <2>3, Command
  <2>5. [pc |-> "lamps", cur |-> cur, hot |-> hot] \in Run
    BY Zenon, <2>2, <2>3 DEF Pcs
  <2>6. run' \in [Runs -> Run] /\ run'[p] = [pc |-> "lamps", cur |-> cur, hot |-> hot]
    BY Zenon, <1>1, <2>1, <2>5
  <2>7. CoolTypeOK'
    BY Zenon, <1>1, <2>1, <2>4, <2>6 DEF CoolTypeOK
  <2>8. ASSUME NEW f \in Fans PROVE Follows(f)'
    <3>1. CASE p = "once"
      <4>1. run'["once"].pc # "off"
        BY <2>6, <3>1
      <4> QED
        BY Zenon, <4>1 DEF Follows
    <3>2. CASE p = "loop"
      <4>1. run'["loop"].pc # "off" /\ run'["loop"].hot = hot
        BY <2>6, <3>2
      <4>2. clampPercent(cb, want) <= clampPercent(cb, cur)
        <5>1. cb.floor \in 1 .. 100
          BY <1>1 DEF ValidFans
        <5>2. /\ clampPercent(cb, want) = IF want < cb.floor THEN cb.floor ELSE IF want > 100 THEN 100 ELSE want
              /\ clampPercent(cb, cur) = IF cur < cb.floor THEN cb.floor ELSE IF cur > 100 THEN 100 ELSE cur
          BY <1>1, <2>2, <2>3, ClampIs
        <5> QED
          BY <2>2, <2>3, <5>1, <5>2
      <4>3. Duty(cb, want) \in Int /\ Duty(cb, cur) \in Int /\ Duty(cb, want) <= Duty(cb, cur)
        BY <1>1, <2>2, <2>3, <4>2, DutyMonotone
      <4>4. f \in took' => reg'[f] >= Duty(cb, want)
        BY <2>4, <4>3
      <4> QED
        BY Zenon, <2>1, <4>1, <4>4 DEF Follows, want
    <3> QED
      BY Zenon, <1>2, <3>1, <3>2
  <2> QED
    BY SMTT(20), <2>1, <2>4, <2>7, <2>8 DEF CoolInv
<1>6. ASSUME NEW p \in Runs, NEW c \in Pcs \ {"off"}, run[p].pc # "off", run' = [run EXCEPT ![p].pc = c],
             UNCHANGED <<cb, reg, took, temp>>, "duty" \in stale => "duty" \in stale'
      PROVE  CoolInv'
  <2>1. run' \in [Runs -> Run] /\ run'[p].pc = c /\ run'[p].hot = run[p].hot
        /\ \A q \in Runs \ {p} : run'[q] = run[q]
    BY <1>1, <1>6
  <2>2. run'["loop"].hot = run["loop"].hot /\ (run'["loop"].pc = "off" <=> run["loop"].pc = "off")
        /\ (run'["once"].pc = "off" <=> run["once"].pc = "off")
    BY <1>2, <1>6, <2>1
  <2> QED
    BY <1>1, <1>6, <2>1, <2>2, NoCommand
<1>7. ASSUME NEW p \in Runs, Render(p) PROVE CoolInv'
  <2>1. PICK c \in Pcs \ {"off"} : run' = [run EXCEPT ![p].pc = c]
    BY Zenon, <1>7 DEF Render, Pcs
  <2> QED
    BY Zenon, <1>6, <1>7, <2>1 DEF Render, Env
<1>8. ASSUME NEW p \in Runs, Wake(p) \/ Terminate(p) \/ LampsUnmanaged(p) PROVE CoolInv'
  <2>1. PICK c \in Pcs \ {"off"} : run' = [run EXCEPT ![p].pc = c]
    BY <1>8 DEF Wake, Terminate, LampsUnmanaged, Pcs
  <2> QED
    BY Zenon, <1>6, <1>8, <2>1 DEF Wake, Terminate, LampsUnmanaged, Env
<1>9. ASSUME NEW p \in Runs, RestoreFull(p) PROVE CoolInv'
  <2>1. run' \in [Runs -> Run]
    BY Zenon, <1>1, <1>3, <1>9 DEF RestoreFull
  <2> QED
    BY <1>9, <2>1, AtFull DEF RestoreFull, Env
<1>10. ASSUME NEW p \in Runs, Kill(p) PROVE CoolInv'
  <2>1. run' \in [Runs -> Run] /\ "duty" \in stale' /\ UNCHANGED <<cb, temp, reg, took>>
    BY <1>1, <1>3, <1>10 DEF Kill
  <2>2. Fans' = Fans
    BY <2>1 DEF Fans
  <2>3. CoolTypeOK'
    BY <1>1, <2>1, <2>2 DEF CoolTypeOK
  <2> QED
    BY <2>1, <2>2, <2>3 DEF CoolInv, Follows
<1>11. ASSUME UNCHANGED <<cb, reg, took, run, stale>>, temp' \in [Sensors -> Int] PROVE CoolInv'
  BY <1>1, <1>11, NoCommand
<1>12. CASE Warms
  <2>1. Degrees \cup {Unreadable} \subseteq Int
    BY CoolAssumption DEF Unreadable
  <2>2. temp' \in [Sensors -> Int]
    BY <1>1, <1>12, <2>1 DEF Warms
  <2> QED
    BY <1>11, <1>12, <2>2 DEF Warms, Quiet
<1>13. CASE FanChanges \/ Binds \/ UNCHANGED coolVars
  BY <1>1, <1>11, <1>13 DEF FanChanges, Binds, Quiet, coolVars
<1> QED
  BY <1>4, <1>5, <1>7, <1>8, <1>9, <1>10, <1>12, <1>13 DEF CoolNext, Works

LEMMA CoolInvAlways == CoolSpec => []CoolInv
<1>1. CoolInit => CoolInv
  <2> SUFFICES ASSUME CoolInit PROVE CoolInv
    OBVIOUS
  <2>1. PICK b \in CoolBoards : cb = WithDefaults(b)
    BY DEF CoolInit
  <2>2. ValidFans(b)
    BY CoolAssumption
  <2>3. ValidFans(cb)
    <3> DEFINE lo == IF b.minC = 0 /\ b.maxC = 0 THEN 35 ELSE b.minC
               hi == IF b.minC = 0 /\ b.maxC = 0 THEN 65 ELSE b.maxC
               sl == IF b.slew <= 0 THEN 5 ELSE b.slew
    <3>1. lo \in Int /\ hi \in Int /\ sl \in Int
      BY <2>2 DEF ValidFans
    <3>2. cb = [b EXCEPT !.minC = lo, !.maxC = hi, !.slew = sl]
      BY <2>1, <2>2 DEF WithDefaults, ValidFans
    <3> HIDE DEF lo, hi, sl
    <3> DEFINE S == [driver : {"scd", "as4610-cpld", "n3172tq"}, count : Nat \ {0}, max : 1 .. 255,
                     floor : 1 .. 100, lamps : STRING, minC : Int, maxC : Int, slew : Int]
    <3>3. b \in S
      BY <2>2 DEF ValidFans
    <3>4. cb \in S
      <4>1. ASSUME NEW r \in S, NEW n \in Int
            PROVE  /\ [r EXCEPT !.minC = n] \in S
                   /\ [r EXCEPT !.maxC = n] \in S
                   /\ [r EXCEPT !.slew = n] \in S
        OBVIOUS
      <4> HIDE DEF S
      <4>2. [b EXCEPT !.minC = lo] \in S
        BY Zenon, <3>1, <3>3, <4>1
      <4>3. [[b EXCEPT !.minC = lo] EXCEPT !.maxC = hi] \in S
        BY Zenon, <3>1, <4>1, <4>2
      <4>4. [[[b EXCEPT !.minC = lo] EXCEPT !.maxC = hi] EXCEPT !.slew = sl] \in S
        BY Zenon, <3>1, <4>1, <4>3
      <4> QED
        BY <3>2, <4>4
    <3>5. cb.driver = b.driver /\ cb.max = b.max
      BY <3>2, <3>3
    <3> QED
      BY <2>2, <3>4, <3>5 DEF ValidFans
  <2>4. Min(Degrees \cap Nat) \in Degrees \cap Nat
    BY CoolAssumption, MinNat
  <2>5. temp \in [Sensors -> Int]
    BY <2>4 DEF CoolInit
  <2>6. cb.max \in Int /\ cb.floor \in Int
    BY <2>3 DEF ValidFans
  <2>7. Duty(cb, cb.floor) <= cb.max /\ Duty(cb, cb.floor) \in Int
    BY <2>3, <2>6, DutyBetween
  <2>8. run \in [Runs -> [pc : Pcs, cur : Int, hot : Int]]
    BY DEF CoolInit, Off, Pcs
  <2>9. CoolTypeOK
    BY <2>3, <2>5, <2>6, <2>8 DEF CoolInit, CoolTypeOK
  <2> QED
    BY <2>6, <2>7, <2>9 DEF CoolInit, CoolInv, Follows
<1>2. CoolInv /\ [CoolNext]_coolVars => CoolInv'
  BY CoolInvNext
<1> QED
  BY <1>1, <1>2, PTL DEF CoolSpec

(* thermal.Run and the drivers: no register is ever below the board's floor; while
   the loop sleeps a fan that took its command is at no less than the reading asks
   for, and when every run has stopped, none of them killed, it is at full speed. *)
THEOREM CooledAlways == CoolSpec => []Cooled
<1>1. CoolInv => Cooled
  BY DEF CoolInv, Follows, Cooled, NoneRuns, Runs
<1> QED
  BY <1>1, CoolInvAlways, PTL
-----------------------------------------------------------------------------
(* A run watches until it has marked the panel unmanaged. *)
Watches(r) == r.pc \notin {"off", "full"}

LEMMA LampInvNext ==
    ASSUME CoolInv, CoolInv', LampInv, [CoolNext]_coolVars
    PROVE  LampInv'
<1> DEFINE Run == [pc : Pcs, cur : Int, hot : Int]
<1>1. /\ run \in [Runs -> Run] /\ run' \in [Runs -> Run] /\ (~loadLamps => status # "green")
      /\ status = "green" => "lamp" \in stale \/ \E p \in Runs : Watches(run[p])
  BY DEF CoolInv, CoolTypeOK, LampInv, LampsHonest, Watches
<1>2. ASSUME status' = status, cb' = cb, "lamp" \in stale => "lamp" \in stale',
             \A p \in Runs : Watches(run[p]) => Watches(run'[p])
      PROVE  LampInv'
  BY <1>1, <1>2 DEF LampInv, LampsHonest, loadLamps, Watches
<1>3. ASSUME NEW p \in Runs, NEW r, Watches(run[p]) => Watches(r), run' = [run EXCEPT ![p] = r],
             status' = status, cb' = cb, "lamp" \in stale => "lamp" \in stale'
      PROVE  LampInv'
  <2>1. run'[p] = r /\ \A q \in Runs \ {p} : run'[q] = run[q]
    BY <1>1, <1>3
  <2> QED
    BY <1>2, <1>3, <2>1
<1>4. ASSUME NEW p \in Runs, StartLoop(p) PROVE LampInv'
  <2>1. PICK r : run' = [run EXCEPT ![p] = r]
    BY Zenon, <1>4 DEF StartLoop
  <2> QED
    BY Zenon, <1>3, <1>4, <2>1 DEF StartLoop, Watches
<1>5. ASSUME NEW p \in Runs, Sweep(p) PROVE LampInv'
  <2>1. PICK r : run' = [run EXCEPT ![p] = r] /\ r.pc = "lamps"
    BY Zenon, <1>5 DEF Sweep
  <2> QED
    BY Zenon, <1>3, <1>5, <2>1 DEF Sweep, Env, Watches
<1>6. ASSUME NEW p \in Runs, Render(p) PROVE LampInv'
  <2>1. Watches(run'[p])
    BY <1>1, <1>6 DEF Render, Watches
  <2>2. ~loadLamps => status' = status
    BY <1>6 DEF Render, SetLamp
  <2>3. loadLamps' <=> loadLamps
    BY <1>6 DEF Render, Env, loadLamps
  <2> QED
    BY <1>1, <2>1, <2>2, <2>3 DEF LampInv, LampsHonest, Watches
<1>7. ASSUME NEW p \in Runs, Wake(p) \/ Terminate(p) PROVE LampInv'
  <2>1. PICK c \in {"sweep", "unlamp"} : run' = [run EXCEPT ![p].pc = c]
    BY <1>7 DEF Wake, Terminate
  <2>2. Watches(run'[p]) /\ \A q \in Runs \ {p} : run'[q] = run[q]
    BY <1>1, <2>1 DEF Watches
  <2> QED
    BY <1>2, <1>7, <2>2 DEF Wake, Terminate, Env
<1>8. ASSUME NEW p \in Runs, LampsUnmanaged(p) PROVE LampInv'
  <2>1. loadLamps' <=> loadLamps
    BY <1>8 DEF LampsUnmanaged, Env, loadLamps
  <2>2. status' # "green"
    BY Zenon, <1>1, <1>8 DEF LampsUnmanaged, SetLamp
  <2> QED
    BY <2>2 DEF LampInv, LampsHonest
<1>9. ASSUME NEW p \in Runs, RestoreFull(p) PROVE LampInv'
  <2>1. ~Watches(run[p]) /\ run' = [run EXCEPT ![p] = Off]
    BY <1>9 DEF RestoreFull, Watches
  <2> QED
    BY Zenon, <1>3, <1>9, <2>1 DEF RestoreFull, Env
<1>10. ASSUME NEW p \in Runs, Kill(p) PROVE LampInv'
  BY <1>1, <1>10 DEF Kill, LampInv, LampsHonest, loadLamps
<1>11. CASE Warms \/ FanChanges \/ Binds \/ UNCHANGED coolVars
  BY <1>2, <1>11 DEF Warms, FanChanges, Binds, Quiet, coolVars
<1> QED
  BY SMTT(20), <1>4, <1>5, <1>6, <1>7, <1>8, <1>9, <1>10, <1>11 DEF CoolNext, Works

(* thermal.Run and the chassis lamps: a green status lamp is the reading of a run
   that is still watching, or of one that was killed. *)
THEOREM LampsHonestAlways == CoolSpec => []LampsHonest
<1>1. CoolInit => LampInv
  BY DEF CoolInit, LampInv, LampsHonest
<1>2. CoolInv /\ CoolInv' /\ LampInv /\ [CoolNext]_coolVars => LampInv'
  BY LampInvNext
<1>3. LampInv => LampsHonest
  BY DEF LampInv
<1> QED
  BY <1>1, <1>2, <1>3, CoolInvAlways, PTL DEF CoolSpec
-----------------------------------------------------------------------------
(* The sum along the region, as far as each place. *)
IsSum(w, n, g) == g = [i \in 0 .. n |-> IF i = 0 THEN 0 ELSE g[i - 1] + w[i - 1]]

(* There is such a sum, of any length. *)
LEMMA SumThere ==
    ASSUME NEW w, NEW n \in Nat
    PROVE  \E g : IsSum(w, n, g)
<1> DEFINE T == {k \in Nat : ~\E g : IsSum(w, k, g)}
<1> SUFFICES ASSUME T # {} PROVE FALSE
  OBVIOUS
<1>1. PICK x \in T : \A y \in T : x <= y
  BY Zenon, LeastNat
<1>2. CASE x = 0
  <2>1. IsSum(w, 0, [i \in 0 .. 0 |-> 0])
    BY DEF IsSum
  <2> QED
    BY Zenon, <1>1, <1>2, <2>1
<1>3. CASE x # 0
  <2>1. x \in Nat /\ x - 1 \in Nat /\ x - 1 \notin T
    BY <1>1, <1>3
  <2>2. PICK g : IsSum(w, x - 1, g)
    BY Zenon, <2>1
  <2> DEFINE h == [i \in 0 .. x |-> IF i = x THEN g[x - 1] + w[x - 1] ELSE g[i]]
             k == [i \in 0 .. x |-> IF i = 0 THEN 0 ELSE h[i - 1] + w[i - 1]]
  <2>3. ASSUME NEW i \in 0 .. x PROVE h[i] = k[i]
    <3>1. CASE i = 0
      <4>1. 0 \in 0 .. (x - 1) /\ 0 \in 0 .. x
        BY <2>1
      <4>2. g[0] = 0
        BY <4>1, <2>2 DEF IsSum
      <4> QED
        BY <3>1, <1>3, <4>1, <4>2
    <3>2. CASE i # 0 /\ i # x
      <4>1. i \in 0 .. (x - 1) /\ i - 1 \in 0 .. x /\ i - 1 # x
        BY <2>1, <3>2
      <4>2. g[i] = g[i - 1] + w[i - 1]
        BY <4>1, <3>2, <2>2 DEF IsSum
      <4> QED
        BY <4>1, <4>2, <3>2
    <3>3. CASE i = x
      <4>1. x - 1 \in 0 .. x /\ x - 1 # x
        BY <2>1
      <4> QED
        BY <4>1, <3>3, <1>3
    <3> QED
      BY <3>1, <3>2, <3>3
  <2>4. h = k
    BY Zenon, <2>3
  <2> HIDE DEF h
  <2>5. IsSum(w, x, h)
    BY Zenon, <2>4 DEF IsSum
  <2> QED
    BY Zenon, <1>1, <2>5
<1> QED
  BY <1>2, <1>3

(* The region has a place to begin at. *)
LEMMA UnitsNat == Units \in Nat /\ Units > 0
BY LenAssumption DEF Units

(* Total is the end of it. *)
LEMMA TotalSums ==
    ASSUME NEW w
    PROVE  \E g : /\ g[0] = 0 /\ Total(w) = g[Units]
                  /\ \A i \in 1 .. Units : g[i] = g[i - 1] + w[i - 1]
<1> DEFINE L == CHOOSE g : IsSum(w, Units, g)
<1>1. IsSum(w, Units, L)
  BY Zenon, UnitsNat, SumThere
<1>2. Total(w) = L[Units]
  BY Zenon DEF Total, IsSum
<1> HIDE DEF L
<1>3. L[0] = 0
  BY <1>1, UnitsNat DEF IsSum
<1>4. ASSUME NEW i \in 1 .. Units PROVE L[i] = L[i - 1] + w[i - 1]
  BY <1>1, UnitsNat DEF IsSum
<1> QED
  BY Zenon, <1>2, <1>3, <1>4

(* A total moves by what one place moves by. *)
LEMMA TotalMoves ==
    ASSUME NEW w \in [0 .. (Units - 1) -> Int], NEW v \in [0 .. (Units - 1) -> Int],
           NEW k \in 0 .. (Units - 1), \A i \in 0 .. (Units - 1) : i # k => v[i] = w[i]
    PROVE  Total(w) \in Int /\ Total(v) = Total(w) + (v[k] - w[k])
<1>1. PICK g : /\ g[0] = 0 /\ Total(w) = g[Units]
               /\ \A i \in 1 .. Units : g[i] = g[i - 1] + w[i - 1]
  BY Zenon, TotalSums
<1>2. PICK h : /\ h[0] = 0 /\ Total(v) = h[Units]
               /\ \A i \in 1 .. Units : h[i] = h[i - 1] + v[i - 1]
  BY Zenon, TotalSums
<1> DEFINE c == v[k] - w[k]
           Right(i) == g[i] \in Int /\ h[i] = g[i] + (IF i > k THEN c ELSE 0)
           T == {i \in 0 .. Units : ~Right(i)}
<1>3. c \in Int /\ k \in Nat /\ k < Units /\ Units \in Nat
  BY UnitsNat
<1>4. T = {}
  <2> SUFFICES ASSUME T # {} PROVE FALSE
    OBVIOUS
  <2>1. T \subseteq Nat
    BY <1>3
  <2>2. PICK x \in T : \A y \in T : x <= y
    <3> HIDE DEF T
    <3> QED
      BY Zenon, <2>1, LeastNat
  <2>3. x \in 0 .. Units /\ ~Right(x)
    BY Zenon, <2>2
  <2>4. CASE x = 0
    <3>1. Right(0)
      BY <1>1, <1>2, <1>3
    <3> QED
      BY Zenon, <2>3, <2>4, <3>1
  <2>5. CASE x # 0
    <3>1. x \in 1 .. Units /\ x - 1 \in 0 .. Units /\ x - 1 \in 0 .. (Units - 1) /\ x - 1 \notin T
      <4> HIDE DEF T
      <4> QED
        BY <1>3, <2>2, <2>3, <2>5
    <3>2. Right(x - 1)
      <4> HIDE DEF Right
      <4> QED
        BY Zenon, <3>1
    <3>3. g[x] = g[x - 1] + w[x - 1] /\ h[x] = h[x - 1] + v[x - 1]
      BY Zenon, <1>1, <1>2, <3>1
    <3>4. w[x - 1] \in Int /\ v[x - 1] \in Int /\ (x - 1 # k => v[x - 1] = w[x - 1])
      BY <3>1
    <3>5. CASE x - 1 = k
      <4>1. v[x - 1] = w[x - 1] + c
        BY <3>4, <3>5
      <4> HIDE DEF c
      <4> QED
        BY SMTT(40), <1>3, <2>3, <3>1, <3>2, <3>3, <3>4, <3>5, <4>1
    <3>6. CASE x - 1 # k
      <4> HIDE DEF c
      <4> QED
        BY <1>3, <2>3, <3>1, <3>2, <3>3, <3>4, <3>6
    <3> QED
      BY Zenon, <3>5, <3>6
  <2> QED
    BY <2>4, <2>5
<1>5. Right(Units)
  <2>1. Units \in 0 .. Units
    BY <1>3
  <2> HIDE DEF Right
  <2> QED
    BY Zenon, <1>4, <2>1
<1> QED
  BY <1>1, <1>2, <1>3, <1>5

(* Nothing taken is a total of nothing. *)
LEMMA TotalNothing ==
    ASSUME NEW f, NEW h
    PROVE  Total(Shares(f, {}, h)) = 0
<1> DEFINE w == Shares(f, {}, h)
<1>1. \A i \in 0 .. (Units - 1) : w[i] = 0
  BY DEF Shares
<1> HIDE DEF w
<1>2. PICK g : /\ g[0] = 0 /\ Total(w) = g[Units]
               /\ \A i \in 1 .. Units : g[i] = g[i - 1] + w[i - 1]
  BY Zenon, TotalSums
<1> DEFINE T == {i \in 0 .. Units : g[i] # 0}
<1>3. T = {}
  <2> SUFFICES ASSUME T # {} PROVE FALSE
    OBVIOUS
  <2>1. T \subseteq Nat
    BY UnitsNat
  <2>2. PICK x \in T : \A y \in T : x <= y
    <3> HIDE DEF T
    <3> QED
      BY Zenon, <2>1, LeastNat
  <2>3. x \in 0 .. Units /\ g[x] # 0
    BY Zenon, <2>2
  <2>4. x # 0
    BY <1>2, <2>3
  <2>5. x \in 1 .. Units /\ x - 1 \in 0 .. Units /\ x - 1 \in 0 .. (Units - 1) /\ x - 1 \notin T
    <3> HIDE DEF T
    <3> QED
      BY UnitsNat, <2>2, <2>3, <2>4
  <2>6. g[x - 1] = 0
    BY Zenon, <2>5
  <2>7. g[x] = 0 + 0
    BY Zenon, <1>1, <1>2, <2>5, <2>6
  <2> QED
    BY <2>3, <2>7
<1>4. Units \in 0 .. Units
  BY UnitsNat
<1> QED
  BY Zenon, <1>2, <1>3, <1>4 DEF w

(* What one block adds to what its set takes, or takes from it. *)
LEMMA OneBlock ==
    ASSUME NEW f, NEW g, NEW S, NEW R, NEW h \in Nat, NEW b \in 0 .. (Len - 1), b % 64 = 0,
           S \ {b} = R \ {b},
           \A a \in S : f[a].size \in Nat,
           \A a \in R : g[a].size \in Nat,
           \A a \in S \ {b} : g[a].size = f[a].size
    PROVE  /\ Total(Shares(f, S, h)) \in Int
           /\ Total(Shares(g, R, h)) = Total(Shares(f, S, h))
                                         + ((IF b \in R THEN h + g[b].size ELSE 0)
                                             - (IF b \in S THEN h + f[b].size ELSE 0))
<1> DEFINE w == Shares(f, S, h)
           v == Shares(g, R, h)
           k == b \div 64
<1>1. k \in 0 .. (Units - 1) /\ 64 * k = b
  BY LenAssumption DEF Units
<1>2. \A i \in 0 .. (Units - 1) : i # k => 64 * i # b
  BY <1>1, UnitsNat
<1> HIDE DEF k
<1>3. \A i \in 0 .. (Units - 1) : /\ w[i] = IF 64 * i \in S THEN h + f[64 * i].size ELSE 0
                                  /\ v[i] = IF 64 * i \in R THEN h + g[64 * i].size ELSE 0
  BY Zenon DEF Shares
<1>4. w \in [0 .. (Units - 1) -> Int] /\ v \in [0 .. (Units - 1) -> Int]
  BY DEF Shares
<1> HIDE DEF w, v
<1>5. ASSUME NEW i \in 0 .. (Units - 1), i # k PROVE v[i] = w[i]
  <2>1. 64 * i # b
    BY Zenon, <1>2, <1>5
  <2>2. 64 * i \in S <=> 64 * i \in R
    BY <2>1
  <2>3. 64 * i \in S => g[64 * i].size = f[64 * i].size
    BY <2>1
  <2> QED
    BY Zenon, <1>3, <2>2, <2>3
<1>6. Total(w) \in Int /\ Total(v) = Total(w) + (v[k] - w[k])
  BY Zenon, <1>1, <1>4, <1>5, TotalMoves
<1>7. /\ w[k] = IF b \in S THEN h + f[b].size ELSE 0
      /\ v[k] = IF b \in R THEN h + g[b].size ELSE 0
  BY Zenon, <1>1, <1>3
<1> QED
  BY Zenon, <1>6, <1>7 DEF w, v

Named(f, n) == {a \in HeldOf(f) : f[a].name = n}

(* Accounting, of the blocks that are held. *)
LEMMA AccountingIs ==
    Accounting <=> /\ used = Total(Shares(blk, HeldOf(blk), HDR))
                   /\ \A n \in Names \cup {Other} : outstanding[n] = Total(Shares(blk, Named(blk, n), 0))
<1>1. heldBlocks = HeldOf(blk) /\ \A n : {b \in heldBlocks : blk[b].name = n} = Named(blk, n)
  BY Zenon DEF heldBlocks, HeldOf, Named
<1> QED
  BY Zenon, <1>1 DEF Accounting

(* What is allocated keeps its name, and the new block has its caller's slot. *)
LEMMA AllocNames ==
    ASSUME IInv, NEW size \in Sizes, NEW n \in Names, NEW b \in DOMAIN blk, Alloc(size, n, b)
    PROVE  blk'[b].name = Slot(n) /\ \A a \in HeldOf(blk) : blk'[a].name = blk[a].name
<1> DEFINE w == round64(IF size = 0 THEN 1 ELSE size)
<1>0. w \in Nat
  BY Zenon, CallAssumption, RoundUp
<1>1. /\ blk[b].free /\ IsHeap(blk)
      /\ blk' = IF Splits(b, w) THEN Split(b, w, Slot(n)) ELSE Whole(b, Slot(n))
  BY Zenon DEF Alloc, IsFirst, Fits, IInv, TypeOK
<1> HIDE DEF w
<1>2. \A a \in DOMAIN blk : blk[a] \in Header
  BY Zenon, <1>1, HeapFields
<1>3. \A a \in HeldOf(blk) : a \in DOMAIN blk /\ a # b
  BY Zenon, <1>1 DEF HeldOf
<1>4. CASE Splits(b, w)
  <2>1. blk' = Split(b, w, Slot(n))
    BY Zenon, <1>1, <1>4
  <2>2. blk'[b].name = Slot(n)
    BY Zenon, <1>2, <2>1 DEF Split, Header
  <2>3. ASSUME NEW a \in HeldOf(blk) PROVE blk'[a].name = blk[a].name
    <3>1. a \in DOMAIN blk /\ a # b /\ blk[a] \in Header /\ ~blk[a].free
      BY Zenon, <1>2, <1>3 DEF HeldOf
    <3>2. a # b + HDR + w
      <4>1. a \in Nat /\ b \in Nat /\ blk[b].size \in Nat
        BY Zenon, <1>1, <3>1, HeapFields
      <4>2. b < a => b + 64 + blk[b].size <= a
        BY <3>1 DEF IInv, Tiled, Tiles, End, HDR
      <4>3. blk[b].size >= w + 64 + 64
        BY <1>4 DEF Splits, HDR
      <4> QED
        BY <1>0, <4>1, <4>2, <4>3 DEF HDR
    <3> QED
      BY <2>1, <3>1, <3>2 DEF Split, Header
  <2> QED
    BY Zenon, <2>2, <2>3
<1>5. CASE ~Splits(b, w)
  <2>1. blk' = Whole(b, Slot(n))
    BY Zenon, <1>1, <1>5
  <2> QED
    BY Zenon, <1>2, <1>3, <2>1 DEF Whole, Header
<1> QED
  BY Zenon, <1>4, <1>5

(* A free leaves the others their names. *)
LEMMA FreeNames ==
    ASSUME IInv, NEW ptr \in Pointers, Free(ptr)
    PROVE  \A a \in HeldOf(blk') : blk'[a].name = blk[a].name
<1> DEFINE b == ptr - HDR
           f == Freed(b)
<1>1. b \in DOMAIN blk /\ ~blk[b].free /\ blk' = Coalesce(f, b) /\ IsHeap(blk)
  BY Zenon DEF Free, Accepts, IInv, TypeOK
<1> HIDE DEF b
<1>2. \A a \in DOMAIN blk : blk[a] \in Header
  BY Zenon, <1>1, HeapFields
<1>3. DOMAIN f = DOMAIN blk /\ f = [a \in DOMAIN f |-> f[a]]
  BY Zenon DEF Freed
<1>4. \A a \in DOMAIN blk :
        /\ f[a] \in Header
        /\ f[a].size = blk[a].size /\ f[a].next = blk[a].next /\ f[a].prev = blk[a].prev
        /\ f[a].free = IF a = b THEN TRUE ELSE blk[a].free
  BY Zenon, <1>2 DEF Freed, Header
<1>5. \A a \in DOMAIN blk : a # b => f[a].name = blk[a].name
  BY Zenon, <1>2 DEF Freed, Header
<1> HIDE DEF f
<1>6. IsHeap(f) /\ Tiles(f)
  <2>1. DOMAIN f \subseteq Nat
    BY Zenon, <1>1, <1>3 DEF IsHeap
  <2>2. IsHeap(f)
    BY Zenon, <2>1, <1>3, <1>4 DEF IsHeap
  <2> QED
    BY Zenon, <2>2, <1>3, <1>4, SameShape DEF IInv, Tiled
<1>7. CoalescedBut(f, b)
  <2> SUFFICES ASSUME NEW a \in DOMAIN blk, a # b, f[a].free, f[a].next # b, f[a].next # Null,
                      f[f[a].next].free
               PROVE  FALSE
    BY <1>3 DEF CoalescedBut, FreeAt
  <2>1. blk[a].free /\ blk[a].next # Null /\ blk[a].next \in DOMAIN blk
    BY Zenon, <1>4, NextBlock DEF IInv, Tiled, TypeOK
  <2> QED
    <3>1. blk[blk[a].next].free
      <4>1. f[a].next = blk[a].next
        BY Zenon, <1>4
      <4> QED
        BY Zenon, <1>4, <2>1, <4>1
    <3> QED
      BY Zenon, <2>1, <3>1 DEF IInv, Coalesced, FreeAt
<1>8. b \in DOMAIN f /\ f[b].free
  BY Zenon, <1>1, <1>3, <1>4
<1>9. HeldOf(blk') = HeldOf(f) /\ \A a \in HeldOf(f) : blk'[a].name = f[a].name
  BY <1>1, <1>6, <1>7, <1>8, CoalesceRestores
<1>10. \A a \in HeldOf(f) : a \in DOMAIN blk /\ a # b
  BY Zenon, <1>3, <1>8 DEF HeldOf
<1> QED
  BY Zenon, <1>5, <1>9, <1>10

(* Two heaps that hold the same blocks but for b, which the second holds too: the
   totals differ by b. *)
Gains(f, g, b) ==
    /\ b \in 0 .. (Len - 1) /\ b % 64 = 0
    /\ b \notin HeldOf(f) /\ HeldOf(g) = HeldOf(f) \cup {b}
    /\ \A a \in HeldOf(f) : f[a].size \in Nat /\ g[a].size = f[a].size /\ g[a].name = f[a].name
    /\ g[b].size \in Nat

(* For any of those blocks, with or without their headers. *)
LEMMA TotalGains ==
    ASSUME NEW f, NEW g, NEW b, Gains(f, g, b), NEW S, NEW R, NEW h \in Nat,
           S \subseteq HeldOf(f), R = S \/ R = S \cup {b}
    PROVE  /\ Total(Shares(f, S, h)) \in Int
           /\ Total(Shares(g, R, h)) = Total(Shares(f, S, h)) + (IF b \in R THEN h + g[b].size ELSE 0)
<1>1. /\ b \in 0 .. (Len - 1) /\ b % 64 = 0 /\ b \notin S /\ g[b].size \in Nat
      /\ \A a \in S : f[a].size \in Nat /\ g[a].size = f[a].size
  BY Zenon DEF Gains
<1>2. S \ {b} = R \ {b}
  BY Zenon
<1>3. \A a \in R : g[a].size \in Nat
  BY ZenonT(30), <1>1
<1>4. /\ Total(Shares(f, S, h)) \in Int
      /\ Total(Shares(g, R, h)) = Total(Shares(f, S, h))
                                    + ((IF b \in R THEN h + g[b].size ELSE 0)
                                        - (IF b \in S THEN h + f[b].size ELSE 0))
  <2>1. /\ \A a \in S : f[a].size \in Nat
        /\ \A a \in S \ {b} : g[a].size = f[a].size
    BY Zenon, <1>1
  <2> QED
    BY SMTT(20), <1>1, <1>2, <1>3, <2>1, OneBlock
<1> DEFINE t == Total(Shares(f, S, h))
           u == Total(Shares(g, R, h))
           c == IF b \in R THEN h + g[b].size ELSE 0
<1>5. t \in Int /\ u = t + (c - 0) /\ c \in Int
  <2>1. u = t + (c - 0)
    BY Zenon, <1>1, <1>4
  <2>2. c \in Int
    BY <1>1
  <2> QED
    BY Zenon, <1>4, <2>1, <2>2
<1> HIDE DEF t, u, c
<1>6. u = t + c
  BY <1>5
<1> QED
  BY Zenon, <1>5, <1>6 DEF t, u, c

(* For all of them, and for each name's. *)
TotalsGain(f, g, b) ==
    /\ Total(Shares(f, HeldOf(f), HDR)) \in Int
    /\ Total(Shares(g, HeldOf(g), HDR)) = Total(Shares(f, HeldOf(f), HDR)) + (HDR + g[b].size)
    /\ \A x : /\ Total(Shares(f, Named(f, x), 0)) \in Int
              /\ Total(Shares(g, Named(g, x), 0))
                   = Total(Shares(f, Named(f, x), 0)) + (IF x = g[b].name THEN g[b].size ELSE 0)

LEMMA AccountsGain ==
    ASSUME NEW f, NEW g, NEW b, Gains(f, g, b)
    PROVE  TotalsGain(f, g, b)
<1>1. HDR \in Nat /\ 0 \in Nat
  BY DEF HDR
<1>2. HeldOf(g) = HeldOf(f) \cup {b} /\ b \in HeldOf(g) /\ b \notin HeldOf(f) /\ g[b].size \in Nat
  BY Zenon DEF Gains
<1>3. /\ Total(Shares(f, HeldOf(f), HDR)) \in Int
      /\ Total(Shares(g, HeldOf(g), HDR)) = Total(Shares(f, HeldOf(f), HDR)) + (HDR + g[b].size)
  <2>1. HeldOf(f) \subseteq HeldOf(f)
    BY ZenonT(30)
  <2>2. /\ Total(Shares(f, HeldOf(f), HDR)) \in Int
        /\ Total(Shares(g, HeldOf(g), HDR))
             = Total(Shares(f, HeldOf(f), HDR)) + (IF b \in HeldOf(g) THEN HDR + g[b].size ELSE 0)
    BY <1>1, <1>2, <2>1, TotalGains
  <2> QED
    BY Zenon, <1>2, <2>2
<1>4. ASSUME NEW x
      PROVE  /\ Total(Shares(f, Named(f, x), 0)) \in Int
             /\ Total(Shares(g, Named(g, x), 0))
                  = Total(Shares(f, Named(f, x), 0)) + (IF x = g[b].name THEN g[b].size ELSE 0)
  <2>1. Named(f, x) \subseteq HeldOf(f) /\ (b \in Named(g, x) <=> x = g[b].name)
    BY Zenon, <1>2 DEF Named
  <2>2. \A a \in HeldOf(f) : g[a].name = f[a].name
    BY Zenon DEF Gains
  <2>3. Named(g, x) = Named(f, x) \/ Named(g, x) = Named(f, x) \cup {b}
    <3>1. \A a : a \in Named(g, x) <=> a \in Named(f, x) \/ (a = b /\ x = g[b].name)
      BY ZenonT(30), <1>2, <2>2 DEF Named
    <3> QED
      BY Zenon, <3>1
  <2>4. /\ Total(Shares(f, Named(f, x), 0)) \in Int
        /\ Total(Shares(g, Named(g, x), 0))
             = Total(Shares(f, Named(f, x), 0)) + (IF b \in Named(g, x) THEN 0 + g[b].size ELSE 0)
    BY <1>1, <2>1, <2>3, TotalGains
  <2>5. 0 + g[b].size = g[b].size
    BY <1>2
  <2> QED
    BY Zenon, <2>1, <2>4, <2>5
<1> QED
  BY Zenon, <1>3, <1>4 DEF TotalsGain

(* A block takes its header and its size from a total, together or in turn. *)
LEMMA AddBoth == \A t \in Int : \A h, z \in Nat : t + h + z = t + (h + z)
  OBVIOUS

(* And gives both back. *)
LEMMA TakeBoth == \A t \in Int : \A h, z \in Nat : (t + (h + z)) - h - z = t
  OBVIOUS

(* The totals are what is held. *)
Counted(f, u, o) ==
    /\ u = Total(Shares(f, HeldOf(f), HDR))
    /\ \A x \in Names \cup {Other} : o[x] = Total(Shares(f, Named(f, x), 0))

(* What alloc adds to the totals keeps them right ... *)
LEMMA AllocCounted ==
    ASSUME NEW f, NEW g, NEW b, Gains(f, g, b), NEW u, NEW o \in [Names \cup {Other} -> Int],
           Counted(f, u, o)
    PROVE  Counted(g, u + HDR + g[b].size, [o EXCEPT ![g[b].name] = @ + g[b].size])
<1> DEFINE p == [o EXCEPT ![g[b].name] = @ + g[b].size]
<1>0. TotalsGain(f, g, b)
  BY Zenon, AccountsGain
<1>1. HDR \in Nat /\ g[b].size \in Nat
  <2>1. HDR \in Nat
    BY DEF HDR
  <2> QED
    BY Zenon, <2>1 DEF Gains
<1>2. /\ u \in Int /\ u = Total(Shares(f, HeldOf(f), HDR))
      /\ Total(Shares(g, HeldOf(g), HDR)) = u + (HDR + g[b].size)
  BY Zenon, <1>0 DEF Counted, TotalsGain
<1>3. u + HDR + g[b].size = Total(Shares(g, HeldOf(g), HDR))
  BY Zenon, <1>1, <1>2, AddBoth
<1>4. ASSUME NEW x \in Names \cup {Other} PROVE p[x] = Total(Shares(g, Named(g, x), 0))
  <2>1. Total(Shares(g, Named(g, x), 0)) = o[x] + (IF x = g[b].name THEN g[b].size ELSE 0)
    BY Zenon, <1>0 DEF Counted, TotalsGain
  <2>2. p[x] = IF x = g[b].name THEN o[x] + g[b].size ELSE o[x]
    BY Zenon
  <2>3. o[x] \in Int
    BY Zenon
  <2>4. o[x] + 0 = o[x]
    BY ONLY <2>3
  <2> QED
    BY Zenon, <2>1, <2>2, <2>4
<1> QED
  BY Zenon, <1>3, <1>4 DEF Counted

(* ... and what free takes from them. *)
LEMMA FreeCounted ==
    ASSUME NEW f, NEW g, NEW b, Gains(g, f, b), NEW u, NEW o \in [Names \cup {Other} -> Int],
           Counted(f, u, o)
    PROVE  Counted(g, u - HDR - f[b].size, [o EXCEPT ![f[b].name] = @ - f[b].size])
<1> DEFINE p == [o EXCEPT ![f[b].name] = @ - f[b].size]
<1>0. TotalsGain(g, f, b)
  BY Zenon, AccountsGain
<1>1. HDR \in Nat /\ f[b].size \in Nat
  <2>1. HDR \in Nat
    BY DEF HDR
  <2> QED
    BY Zenon, <2>1 DEF Gains
<1>2. /\ Total(Shares(g, HeldOf(g), HDR)) \in Int
      /\ u = Total(Shares(g, HeldOf(g), HDR)) + (HDR + f[b].size)
  BY Zenon, <1>0 DEF Counted, TotalsGain
<1>3. u - HDR - f[b].size = Total(Shares(g, HeldOf(g), HDR))
  BY Zenon, <1>1, <1>2, TakeBoth
<1>4. ASSUME NEW x \in Names \cup {Other} PROVE p[x] = Total(Shares(g, Named(g, x), 0))
  <2> DEFINE t == Total(Shares(g, Named(g, x), 0))
  <2>1. t \in Int /\ o[x] = t + (IF x = f[b].name THEN f[b].size ELSE 0)
    BY Zenon, <1>0 DEF Counted, TotalsGain
  <2>2. p[x] = IF x = f[b].name THEN o[x] - f[b].size ELSE o[x]
    BY Zenon
  <2> HIDE DEF t, p
  <2>3. CASE x = f[b].name
    <3>1. o[x] = t + f[b].size /\ p[x] = o[x] - f[b].size
      BY Zenon, <2>1, <2>2, <2>3
    <3>2. p[x] = t
      BY ONLY <1>1, <2>1, <3>1
    <3> QED
      BY Zenon, <3>2 DEF t
  <2>4. CASE x # f[b].name
    <3>1. o[x] = t + 0 /\ p[x] = o[x]
      BY Zenon, <2>1, <2>2, <2>4
    <3>2. p[x] = t
      BY ONLY <2>1, <3>1
    <3> QED
      BY Zenon, <3>2 DEF t
  <2> QED
    BY Zenon, <2>3, <2>4
<1> QED
  BY Zenon, <1>3, <1>4 DEF Counted

(* Every step keeps the accounts. *)
LEMMA AccountsNext == IInv /\ Accounting /\ [Next]_vars => Accounting'
<1> SUFFICES ASSUME IInv, Accounting, [Next]_vars PROVE Accounting'
  OBVIOUS
<1>1. Counted(blk, used, outstanding)
  BY Zenon, AccountingIs DEF Counted
<1>2. SUFFICES Counted(blk', used', outstanding')
  <2>1. heldBlocks' = HeldOf(blk') /\ \A n : {b \in heldBlocks' : blk'[b].name = n} = Named(blk', n)
    BY Zenon DEF heldBlocks, HeldOf, Named
  <2> QED
    BY Zenon, <1>2, <2>1 DEF Accounting, Counted
<1>3. IsHeap(blk) /\ Tiles(blk) /\ outstanding \in [Names \cup {Other} -> Int]
  BY Zenon DEF IInv, TypeOK, Tiled
<1>4. \A a \in DOMAIN blk : a \in 0 .. (Len - 1) /\ a % 64 = 0 /\ blk[a].size \in Nat
  BY Zenon, <1>3, HeapFields DEF Tiles
<1>5. IInv'
  BY Zenon, IInvNext
<1>6. \A a \in HeldOf(blk') : blk'[a].size \in Nat
  <2>1. IsHeap(blk')
    BY Zenon, <1>5 DEF IInv, TypeOK
  <2> QED
    BY Zenon, <2>1, HeapFields DEF HeldOf
<1>7. ASSUME NEW size \in Sizes, NEW n \in Names, NEW b \in DOMAIN blk, Alloc(size, n, b)
      PROVE  Counted(blk', used', outstanding')
  <2>1. /\ blk[b].free /\ HeldOf(blk') = HeldOf(blk) \cup {b}
        /\ \A a \in HeldOf(blk) : blk'[a].size = blk[a].size
    BY Zenon, <1>7, AllocStep
  <2>2. blk'[b].name = Slot(n) /\ \A a \in HeldOf(blk) : blk'[a].name = blk[a].name
    BY Zenon, <1>7, AllocNames
  <2>3. /\ used' = used + HDR + blk'[b].size
        /\ outstanding' = [outstanding EXCEPT ![blk'[b].name] = @ + blk'[b].size]
    BY Zenon, <1>7, <2>2 DEF Alloc
  <2>4. b \notin HeldOf(blk) /\ b \in HeldOf(blk')
    BY Zenon, <2>1 DEF HeldOf
  <2>5. \A a \in HeldOf(blk) : blk[a].size \in Nat
    BY Zenon, <1>4 DEF HeldOf
  <2>6. Gains(blk, blk', b)
    BY Zenon, <1>4, <1>6, <2>1, <2>2, <2>4, <2>5 DEF Gains
  <2>7. Counted(blk', used + HDR + blk'[b].size, [outstanding EXCEPT ![blk'[b].name] = @ + blk'[b].size])
    BY Zenon, <1>1, <1>3, <2>6, AllocCounted
  <2> QED
    BY Zenon, <2>3, <2>7
<1>8. ASSUME NEW ptr \in Pointers, Free(ptr)
      PROVE  Counted(blk', used', outstanding')
  <2> DEFINE b == ptr - HDR
  <2>1. /\ b \in HeldOf(blk) /\ HeldOf(blk') = HeldOf(blk) \ {b}
        /\ \A a \in HeldOf(blk') : blk'[a].size = blk[a].size
    BY Zenon, <1>8, FreeStep
  <2>2. \A a \in HeldOf(blk') : blk'[a].name = blk[a].name
    BY Zenon, <1>8, FreeNames
  <2>3. /\ used' = used - HDR - blk[b].size
        /\ outstanding' = [outstanding EXCEPT ![blk[b].name] = @ - blk[b].size]
    BY Zenon, <1>8 DEF Free
  <2> HIDE DEF b
  <2>4. b \in DOMAIN blk /\ b \notin HeldOf(blk') /\ HeldOf(blk) = HeldOf(blk') \cup {b}
    BY Zenon, <2>1 DEF HeldOf
  <2>5. Gains(blk', blk, b)
    BY Zenon, <1>4, <1>6, <2>1, <2>2, <2>4 DEF Gains
  <2>6. Counted(blk', used - HDR - blk[b].size, [outstanding EXCEPT ![blk[b].name] = @ - blk[b].size])
    BY Zenon, <1>1, <1>3, <2>5, FreeCounted
  <2> QED
    BY Zenon, <2>3, <2>6
<1>9. ASSUME \/ \E size \in Sizes, n \in Names : AllocFails(size, n)
             \/ \E b \in zeroing : Zero(b)
             \/ UNCHANGED vars
      PROVE  Counted(blk', used', outstanding')
  <2>1. blk' = blk
    BY Zenon, <1>9, OtherSteps
  <2>2. used' = used /\ outstanding' = outstanding
    BY Zenon, <1>9 DEF AllocFails, Zero, vars
  <2> QED
    BY Zenon, <1>1, <2>1, <2>2
<1> QED
  BY Zenon, <1>7, <1>8, <1>9 DEF Next

(* FreedWhole: whatever is asked for and freed, no free block follows a free block, and
   the totals the daemon reports are the blocks': used is every held block with its
   header, and each statistics slot what its blocks take. *)
THEOREM PoolFreedWhole == Spec => []FreedWhole
<1>1. Init => IInv
  BY PoolInit DEF IInv
<1>2. Init => Accounting
  <2> SUFFICES ASSUME Init PROVE Accounting
    OBVIOUS
  <2>1. /\ blk = [b \in {0} |-> [size |-> Len - HDR, free |-> TRUE, name |-> Other,
                                 next |-> Null, prev |-> Null]]
        /\ used = 0 /\ outstanding = [n \in Names \cup {Other} |-> 0]
    BY Zenon DEF Init
  <2>2. HeldOf(blk) = {}
    BY <2>1 DEF HeldOf
  <2>3. \A n : Named(blk, n) = {}
    BY Zenon, <2>2 DEF Named
  <2>4. \A n \in Names \cup {Other} : outstanding[n] = 0
    BY Zenon, <2>1
  <2> QED
    BY Zenon, <2>1, <2>2, <2>3, <2>4, AccountingIs, TotalNothing
<1>3. IInv /\ Accounting => FreedWhole
  BY DEF IInv, FreedWhole
<1> QED
  BY <1>1, <1>2, <1>3, IInvNext, AccountsNext, PTL DEF Spec
=============================================================================
