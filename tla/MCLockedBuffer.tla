--------------------------- MODULE MCLockedBuffer ---------------------------
(* Two goroutines on a buffer of up to two bytes. *)
EXTENDS LockedBuffer

(* The first bytes of the longer one are no store of their own, so that a   *)
(* half-written source shows.                                               *)
MCSources == {<<1>>, <<2, 2>>}
=============================================================================
