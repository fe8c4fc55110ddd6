-------------------------------- MODULE Cell --------------------------------
(***************************************************************************)
(* What the methods of a LockedBuffer (buffer.go) promise to goroutines    *)
(* that share it: a string of bytes that is stored into, overwritten, read *)
(* and destroyed as if each call took effect in one instant.               *)
(***************************************************************************)
EXTENDS Naturals, Sequences

CONSTANTS Goroutines, Contents, Sources, Offsets, Zero, Random, Hidden

VARIABLES
  contents,  \* Hidden before the constructor returns, <<>> once destroyed
  seen       \* what each goroutine is looking at, <<>> if at nothing

vars == <<contents, seen>>

(* s with the bytes of src from off on; what does not fit is dropped. *)
Overlay(s, off, src) ==
  [k \in DOMAIN s |-> IF off < k /\ k <= off + Len(src) THEN src[k - off] ELSE s[k]]

Filled(s, byte) == [k \in DOMAIN s |-> byte]

Init == contents = Hidden /\ seen = [g \in Goroutines |-> <<>>]

Publish == contents = Hidden /\ contents' \in Contents /\ UNCHANGED seen

Store ==
  /\ contents # Hidden
  /\ \E off \in Offsets, src \in Sources : contents' = Overlay(contents, off, src)
  /\ UNCHANGED seen

Fill ==
  /\ contents # Hidden
  /\ \E byte \in {Zero, Random} : contents' = Filled(contents, byte)
  /\ UNCHANGED seen

Destroy == contents # Hidden /\ contents' = <<>> /\ UNCHANGED seen

(* A comparison looks at everything, a cast at the bytes of whole elements. *)
Look(g) ==
  /\ contents # Hidden
  /\ \E n \in 0..Len(contents) : seen' = [seen EXCEPT ![g] = SubSeq(contents, 1, n)]
  /\ UNCHANGED contents

LookAway(g) == seen' = [seen EXCEPT ![g] = <<>>] /\ UNCHANGED contents

Next == \/ Publish \/ Store \/ Fill \/ Destroy
        \/ \E g \in Goroutines : Look(g) \/ LookAway(g)

Spec == Init /\ [][Next]_vars
=============================================================================
