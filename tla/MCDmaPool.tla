----------------------------- MODULE MCDmaPool -----------------------------
(***************************************************************************)
(* DmaPool on a region of a few blocks, with a tail that is not a multiple *)
(* of 64.                                                                  *)
(***************************************************************************)
EXTENDS DmaPool

(* Every 32 bytes, from before the first payload to past the end. *)
MCPointers == {32 * k : k \in 0 .. (Len \div 32) + 2}
=============================================================================
