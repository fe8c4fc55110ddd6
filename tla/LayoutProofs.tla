---------------------------- MODULE LayoutProofs ----------------------------
(***************************************************************************)
(* For every page size and every size that an int can hold, NewBuffer      *)
(* either fails to allocate or lays its memory out soundly.                *)
(***************************************************************************)
EXTENDS Layout, TLAPS

(* Clearing the low bits takes less than a page away. *)
LEMMA Division ==
  ASSUME NEW x \in Nat
  PROVE  /\ x % PageSize \in 0..(PageSize - 1)
         /\ x \div PageSize \in Nat
         /\ x - (x % PageSize) = (x \div PageSize) * PageSize
BY LayoutAssumption

LEMMA NegativeDivision ==
  ASSUME NEW x \in Int PROVE x % PageSize \in 0..(PageSize - 1)
BY LayoutAssumption

(* Without an overflow the length is rounded up, to the next page. *)
LEMMA RoundsUp ==
  ASSUME NEW size \in 1..MaxInt, size + (PageSize - 1) <= MaxInt
  PROVE  /\ roundToPageSize(size) \in Nat
         /\ roundToPageSize(size) - size \in 0..(PageSize - 1)
         /\ Aligned(roundToPageSize(size))
<1> DEFINE x == size + (PageSize - 1)
           q == x \div PageSize
<1>1. x \in Nat /\ roundToPageSize(size) = x - (x % PageSize)
  BY LayoutAssumption DEF roundToPageSize, Wrap
<1>2. /\ x % PageSize \in 0..(PageSize - 1) /\ q \in Nat
      /\ x - (x % PageSize) = q * PageSize
  BY <1>1, Division
<1> HIDE DEF q
<1>3. roundToPageSize(size) \in Nat /\ roundToPageSize(size) - size \in 0..(PageSize - 1)
  BY <1>1, <1>2, LayoutAssumption
<1>4. q <= q * PageSize
  BY <1>2, LayoutAssumption
<1>5. Aligned(roundToPageSize(size))
  BY <1>1, <1>2, <1>3, <1>4 DEF Aligned
<1> QED BY <1>3, <1>5

(* Where the sum wraps around, what is left is no length to allocate. *)
LEMMA OverflowFails ==
  ASSUME NEW size \in 1..MaxInt, size + (PageSize - 1) > MaxInt
  PROVE  ~Allocatable(size)
<1> DEFINE x == size + (PageSize - 1) - 2 * (MaxInt + 1)
<1>1. x \in Int /\ roundToPageSize(size) = x - (x % PageSize)
  BY LayoutAssumption DEF roundToPageSize, Wrap
<1>2. x % PageSize \in 0..(PageSize - 1)
  BY <1>1, NegativeDivision
<1>3. x <= PageSize - 3 - MaxInt
  BY LayoutAssumption
<1> HIDE DEF x
<1>4. roundToPageSize(size) \in Int /\ 2 * PageSize + roundToPageSize(size) <= 0
  BY <1>1, <1>2, <1>3, LayoutAssumption
<1> QED BY <1>4, LayoutAssumption DEF Allocatable, Total, Wrap

(* Whatever size is asked for, no Buffer with a layout that is not sound is *)
(* ever made (core/buffer.go:49-91).                                        *)
THEOREM LayoutIsSound ==
  \A size \in 1..MaxInt : Allocatable(size) => Sound(size)
<1> SUFFICES ASSUME NEW size \in 1..MaxInt, Allocatable(size) PROVE Sound(size)
  OBVIOUS
<1>1. size + (PageSize - 1) <= MaxInt
  BY OverflowFails, LayoutAssumption
<1> DEFINE r == roundToPageSize(size)
<1>2. r \in Nat /\ r - size \in 0..(PageSize - 1) /\ Aligned(r)
  BY <1>1, RoundsUp
<1> HIDE DEF r
<1>3. Total(size) = 2 * PageSize + r
  BY <1>2, LayoutAssumption DEF Allocatable, Total, Wrap, r
<1> QED BY <1>2, <1>3, LayoutAssumption
        DEF Sound, r, preguard, inner, postguard, data, canary, Region, End
=============================================================================
