------------------------------ MODULE MCCoffer ------------------------------
(* Coffer over the 1-bit strings. *)
EXTENDS Coffer, Naturals

MCVal == 0..1
MCXor(x, y) == (x + y) % 2
MCHash(x) == 1 - x
=============================================================================
