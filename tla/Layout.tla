------------------------------- MODULE Layout -------------------------------
(***************************************************************************)
(* The memory behind a Buffer (core/auxiliary.go and the first half of     *)
(* core.NewBuffer): two guard pages around the inner pages, with the data  *)
(* pushed against the second one and the canary in front of it.  Lengths   *)
(* are Go ints, which wrap around.                                         *)
(***************************************************************************)
EXTENDS Integers

CONSTANTS
  PageSize,  \* os.Getpagesize(), a power of two
  MaxInt     \* the largest int

ASSUME LayoutAssumption ==
  /\ PageSize \in Nat \ {0} /\ MaxInt \in Nat
  /\ 4 * PageSize <= MaxInt + 1

(* The sum of two ints, of which one is not negative. *)
Wrap(n) == IF n > MaxInt THEN n - 2 * (MaxInt + 1) ELSE n

(* Faulty variant: a whole page is rounded up to two. *)
roundUpAlways(length) == LET x == Wrap(length + PageSize) IN x - (x % PageSize)

(* Clearing the low bits of a two's complement number. *)
roundToPageSize(length) == LET x == Wrap(length + (PageSize - 1)) IN x - (x % PageSize)

Total(size) == Wrap(2 * PageSize + roundToPageSize(size))

(* mmap refuses a length that is not positive, and NewBuffer panics. *)
Allocatable(size) == Total(size) > 0

(* The slices of b.memory. *)
Region(at, len) == [at |-> at, len |-> len]
preguard(size)  == Region(0, PageSize)
inner(size)     == Region(PageSize, roundToPageSize(size))
postguard(size) == Region(PageSize + roundToPageSize(size), PageSize)
data(size)      == Region(PageSize + roundToPageSize(size) - size, size)
canary(size)    == Region(PageSize, inner(size).len - data(size).len)

End(r) == r.at + r.len

Aligned(n) == \E q \in 0..n : n = q * PageSize

(* Guard pages, canary and data divide up the memory, the data ends where   *)
(* the second guard page begins, everything that is protected or locked is  *)
(* whole pages, and the canary fits into a guard page, where its copies     *)
(* are (core/buffer.go:55-91, 213).                                         *)
Sound(size) ==
  /\ canary(size).at = End(preguard(size))
  /\ data(size).at = End(canary(size))
  /\ postguard(size).at = End(data(size)) /\ postguard(size).at = End(inner(size))
  /\ Total(size) = End(postguard(size))
  /\ Aligned(inner(size).len)
  /\ data(size).len > 0 /\ canary(size).len \in 0..(PageSize - 1)
=============================================================================
