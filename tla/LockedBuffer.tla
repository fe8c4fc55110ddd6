----------------------------- MODULE LockedBuffer -----------------------------
(***************************************************************************)
(* The constructors and methods of a LockedBuffer (buffer.go), and the     *)
(* byte-wise helpers of core/crypto.go that they are made of, on one       *)
(* buffer that several goroutines share.                                   *)
(*                                                                         *)
(* A method checks IsAlive() under the read lock, lets go of it, and takes *)
(* the lock again for its work; a Destroy, or a Purge that finds the       *)
(* buffer in the list, comes in between.  Copies go byte by byte.  Writing *)
(* to frozen memory kills the process.  The inside of Freeze, Melt and     *)
(* destroy() is in Buffer; here they are one step under the lock, and the  *)
(* system calls succeed.  The program does not write through Bytes().      *)
(***************************************************************************)
EXTENDS Naturals, Sequences, Functions

CONSTANTS
  Goroutines,
  NoG,      \* owner of a free lock
  Sizes,    \* arguments of NewBuffer and NewBufferRandom
  Sources,  \* slices the program copies or moves from, not empty
  Offsets,  \* arguments of CopyAt and MoveAt
  Widths,   \* bytes in an element of a cast
  Zero, Random,
  Hidden

ASSUME LockedBufferAssumption ==
  /\ NoG \notin Goroutines
  /\ Sizes \subseteq Nat /\ Offsets \subseteq Nat /\ Widths \subseteq Nat \ {0}
  /\ \A s \in Sources : s # <<>> /\ s \in Seq(Range(s))

VARIABLES
  phase,    \* "none", "making" or "made": how far the constructor is
  data,     \* b.data
  alive, mutable,
  writer, readers, \* of b.RWMutex
  pc, my,   \* next statement and local variables of each goroutine
  source,   \* the slice that a goroutine copies or moves from
  status    \* of the process

vars == <<phase, data, alive, mutable, writer, readers, pc, my, source, status>>
buffer == <<data, alive, mutable>>
locks == <<writer, readers>>

(* Method, offset, what it writes, how much is written, element width,      *)
(* result; (history) the buffer was destroyed when the method was called.   *)
NoLocals == [op |-> "none", off |-> 0, src |-> <<>>, i |-> 0, w |-> 0,
             seen |-> <<>>, late |-> FALSE]

Bytes(n, byte) == [k \in 1..n |-> byte]

Init ==
  /\ phase = "none"
  /\ data = <<>> /\ alive = FALSE /\ mutable = FALSE
  /\ writer = NoG /\ readers = {}
  /\ pc = [g \in Goroutines |-> "idle"]
  /\ my = [g \in Goroutines |-> NoLocals]
  /\ source = [g \in Goroutines |-> <<>>]
  /\ status = "running"

Goto(g, l) == pc' = [pc EXCEPT ![g] = l]
Local(g, locals) == my' = [my EXCEPT ![g] = locals]

(* b.Lock() succeeds. *)
Quiet == writer = NoG /\ readers = {}

-----------------------------------------------------------------------------
(* Constructors *)

(* core.NewBuffer, or a null buffer for a size below one. *)
Alloc(n) ==
  /\ data' = Bytes(n, Zero)
  /\ alive' = (n > 0) /\ mutable' = (n > 0)

NewBuffer(g) ==
  /\ phase = "none" /\ phase' = "made"
  /\ \E n \in Sizes : Alloc(n)
  /\ UNCHANGED <<locks, pc, my, source, status>>

NewBufferFromBytes(g) ==
  /\ phase = "none" /\ phase' = "making"
  /\ \E src \in Sources :
       /\ Alloc(Len(src))
       /\ source' = [source EXCEPT ![g] = src]
       /\ Local(g, [NoLocals EXCEPT !.op = "MoveAt", !.src = src])
  /\ Goto(g, "size")
  /\ UNCHANGED <<locks, status>>

NewBufferRandom(g) ==
  /\ phase = "none" /\ phase' = "making"
  /\ \E n \in Sizes : Alloc(n)
  /\ Local(g, [NoLocals EXCEPT !.op = "Scramble"])
  /\ Goto(g, "size")
  /\ UNCHANGED <<locks, source, status>>

(* Everything of g's call is over. *)
Leave(g) ==
  /\ Goto(g, "idle") /\ Local(g, NoLocals)
  /\ source' = [source EXCEPT ![g] = <<>>]

(* if b.Size() == 0 { return b }, without a lock *)
CheckSize(g) ==
  /\ pc[g] = "size"
  /\ \/ data = <<>> /\ phase' = "made" /\ Leave(g)
     \/ data # <<>> /\ Goto(g, "check") /\ UNCHANGED <<phase, my, source>>
  /\ UNCHANGED <<buffer, locks, status>>

(* b.Freeze() at the end of a constructor *)
FreezeNew(g) ==
  /\ pc[g] = "returned" /\ phase = "making" /\ Quiet
  /\ mutable' = FALSE
  /\ phase' = "made"
  /\ Leave(g)
  /\ UNCHANGED <<data, alive, locks, status>>

-----------------------------------------------------------------------------
(* Freeze, Melt and Destroy; Purge destroys also what is not yet made. *)

Freeze(g) ==
  /\ pc[g] = "idle" /\ phase = "made" /\ Quiet
  /\ mutable' = FALSE
  /\ UNCHANGED <<phase, data, alive, locks, pc, my, source, status>>

Melt(g) ==
  /\ pc[g] = "idle" /\ phase = "made" /\ Quiet
  /\ mutable' = alive
  /\ UNCHANGED <<phase, data, alive, locks, pc, my, source, status>>

(* Faulty variant: the buffer's lock is not taken. *)
DestroyableAtOnce == TRUE

Destroyable == Quiet

Destroy(g) ==
  /\ pc[g] = "idle" /\ phase # "none" /\ Destroyable
  /\ data' = <<>> /\ alive' = FALSE /\ mutable' = FALSE
  /\ UNCHANGED <<phase, locks, pc, my, source, status>>

-----------------------------------------------------------------------------
(* The methods *)

Call(g, l, locals) ==
  /\ pc[g] = "idle" /\ phase = "made"
  /\ Goto(g, l)
  /\ Local(g, [locals EXCEPT !.late = ~alive])
  /\ source' = [source EXCEPT ![g] = locals.src]
  /\ UNCHANGED <<phase, buffer, locks, status>>

(* CopyAt and MoveAt; Copy and Move are these at offset zero. *)
CallWrite(g) ==
  \E op \in {"CopyAt", "MoveAt"}, off \in Offsets, src \in Sources :
    Call(g, "check", [NoLocals EXCEPT !.op = op, !.off = off, !.src = src])

CallFill(g) ==
  \E op \in {"Wipe", "Scramble"} : Call(g, "check", [NoLocals EXCEPT !.op = op])

(* EqualTo has no check. *)
CallEqualTo(g) == Call(g, "rlock", [NoLocals EXCEPT !.op = "EqualTo"])

(* Uint16, Uint32, Uint64, Int16, Int32, Int64 *)
CallSlice(g) == \E w \in Widths : Call(g, "check", [NoLocals EXCEPT !.op = "slice", !.w = w])

(* ByteArray8, ByteArray16, ByteArray32, ByteArray64 *)
CallArray(g) == \E w \in Widths : Call(g, "check", [NoLocals EXCEPT !.op = "array", !.w = w])

CallInt8(g) == Call(g, "check", [NoLocals EXCEPT !.op = "Int8", !.w = 1])

IsAlive == alive

(* if !b.IsAlive() { return }, under the read lock *)
Check(g) ==
  /\ pc[g] = "check" /\ writer = NoG
  /\ Goto(g, IF ~IsAlive THEN "returned"
             ELSE IF my[g].w > 0 THEN "rlock" ELSE "lock")
  /\ my' = IF IsAlive THEN my ELSE [my EXCEPT ![g].late = TRUE]
  /\ UNCHANGED <<phase, buffer, locks, source, status>>

(* Faulty variant: one byte too few. *)
FitsLess(n, room) == IF n <= room THEN n - 1 ELSE room

(* core.Copy copies what both slices have room for. *)
Fits(n, room) == IF n <= room THEN n ELSE room

(* What a method writes from b.Bytes()[off] on. *)
Payload(g) == CASE my[g].op = "Wipe" -> Bytes(Len(data), Zero)
                [] my[g].op = "Scramble" -> Bytes(Len(data), Random)
                [] OTHER -> SubSeq(my[g].src, 1, Fits(Len(my[g].src), Len(data) - my[g].off))

(* Faulty variant: the unlock is not deferred. *)
PanicUnlockNot(g) == writer' = g

(* The deferred b.Unlock() of a method that panics. *)
PanicUnlock(g) == UNCHANGED writer

(* Faulty variant: the lock is forgotten. *)
WriteLockNot(g) == UNCHANGED writer

WriteLock(g) == writer' = g

(* b.Lock(), and the slice b.Bytes()[offset:]. *)
Lock(g) ==
  /\ pc[g] = "lock" /\ Quiet
  /\ \/ /\ my[g].off <= Len(data)
        /\ WriteLock(g)
        /\ my' = [my EXCEPT ![g].src = Payload(g)]
        /\ Goto(g, "write")
     \/ /\ my[g].off > Len(data)
        /\ PanicUnlock(g)
        /\ Goto(g, "panicked")
        /\ UNCHANGED my
  /\ UNCHANGED <<phase, buffer, readers, source, status>>

(* A page that is read-only or gone. *)
Fault == status' = "segv" /\ UNCHANGED <<phase, buffer, locks, pc, my, source>>

(* One byte. *)
Write(g) ==
  /\ pc[g] = "write" /\ my[g].i < Len(my[g].src)
  /\ \/ /\ mutable
        /\ data' = [data EXCEPT ![my[g].off + my[g].i + 1] = my[g].src[my[g].i + 1]]
        /\ my' = [my EXCEPT ![g].i = @ + 1]
        /\ UNCHANGED <<phase, alive, mutable, locks, pc, source, status>>
     \/ ~mutable /\ Fault

(* core.Move wipes its source; then the lock is dropped. *)
WriteEnd(g) ==
  /\ pc[g] = "write" /\ my[g].i = Len(my[g].src)
  /\ source' = IF my[g].op = "MoveAt"
               THEN [source EXCEPT ![g] = Bytes(Len(source[g]), Zero)] ELSE source
  /\ writer' = NoG
  /\ Goto(g, "returned")
  /\ UNCHANGED <<phase, buffer, readers, my, status>>

RLock(g) ==
  /\ pc[g] = "rlock" /\ writer = NoG
  /\ readers' = readers \cup {g}
  /\ Goto(g, "read")
  /\ UNCHANGED <<phase, buffer, writer, my, source, status>>

(* How many bytes the result of a cast covers, 0 for nil. *)
SliceCovers(n, w) == w * (n \div w)
ArrayCovers(n, w) == IF n < w THEN 0 ELSE w

Covered(g) == CASE my[g].op = "slice" -> SliceCovers(Len(data), my[g].w)
                [] my[g].op = "array" -> ArrayCovers(Len(data), my[g].w)
                [] OTHER -> Len(data)

(* Faulty variant: no cast checks the size. *)
TakesAddressBlindly(g) == my[g].w > 0

(* &b.Bytes()[0] without a check of the size *)
TakesAddress(g) == my[g].op = "Int8"

Read(g) ==
  /\ pc[g] = "read"
  /\ \/ /\ TakesAddress(g) /\ data = <<>>
        /\ readers' = readers \ {g}
        /\ Goto(g, "panicked")
        /\ UNCHANGED my
     \/ /\ ~TakesAddress(g) \/ data # <<>>
        /\ my' = [my EXCEPT ![g].seen = SubSeq(data, 1, Covered(g))]
        /\ Goto(g, "seen")
        /\ UNCHANGED readers
  /\ UNCHANGED <<phase, buffer, writer, source, status>>

RUnlock(g) ==
  /\ pc[g] = "seen"
  /\ readers' = readers \ {g}
  /\ Goto(g, "returned")
  /\ UNCHANGED <<phase, buffer, writer, my, source, status>>

(* The caller has the result, or recovers. *)
Return(g) ==
  /\ pc[g] \in {"returned", "panicked"} /\ phase = "made"
  /\ Leave(g)
  /\ UNCHANGED <<phase, buffer, locks, status>>

-----------------------------------------------------------------------------
Begin(g) == \/ NewBuffer(g) \/ NewBufferFromBytes(g) \/ NewBufferRandom(g)
            \/ Freeze(g) \/ Melt(g) \/ Destroy(g)
            \/ CallWrite(g) \/ CallFill(g) \/ CallEqualTo(g)
            \/ CallSlice(g) \/ CallArray(g) \/ CallInt8(g)

Step(g) == \/ CheckSize(g) \/ FreezeNew(g) \/ Check(g) \/ Lock(g) \/ Write(g)
           \/ WriteEnd(g) \/ RLock(g) \/ Read(g) \/ RUnlock(g) \/ Return(g)

Next == status = "running" /\ \E g \in Goroutines : Begin(g) \/ Step(g)

Spec == Init /\ [][Next]_vars

(* A method that has begun goes on; Go's RWMutex starves nobody. *)
FairSpec == Spec /\ \A g \in Goroutines : SF_vars(status = "running" /\ Step(g))

-----------------------------------------------------------------------------
Byte == {Zero, Random} \cup UNION {Range(s) : s \in Sources}

(* Nothing the program holds can be taken for a buffer that is not made yet. *)
ASSUME HiddenAssumption == Hidden \notin Seq(Byte)

(* A buffer is alive as long as it has bytes; a null buffer never is        *)
(* (buffer.go:26-43).                                                       *)
TypeOK ==
  /\ phase \in {"none", "making", "made"}
  /\ data \in Seq(Byte) /\ alive = (data # <<>>) /\ mutable \in BOOLEAN
  /\ writer \in Goroutines \cup {NoG} /\ readers \subseteq Goroutines
  /\ pc \in [Goroutines -> {"idle", "size", "check", "lock", "write", "rlock", "read",
                            "seen", "returned", "panicked"}]
  /\ \A g \in Goroutines : source[g] \in Seq(Byte) /\ my[g].seen \in Seq(Byte)
  /\ status \in {"running", "segv"}

(* What the others may take the buffer to hold: a write that has begun is   *)
(* already complete, since nobody can look before it is.                    *)
Shown ==
  IF phase # "made" THEN Hidden
  ELSE IF writer # NoG /\ mutable
       THEN LET src == my[writer].src  off == my[writer].off
            IN  [k \in DOMAIN data |->
                   IF off < k /\ k <= off + Len(src) THEN src[k - off] ELSE data[k]]
       ELSE data

C == INSTANCE Cell WITH
  contents <- Shown,
  seen <- [g \in Goroutines |-> my[g].seen],
  Contents <- Seq(Byte)

(* Each method takes effect in one instant (buffer.go:256-359): nobody sees *)
(* half of a Copy, a Move, a Wipe or a Scramble, and none is lost, cut or   *)
(* put in the wrong place.                                                  *)
IsCell == C!Spec

(* Memory is written to after it was frozen, which kills the process, but   *)
(* never after it was released: whoever destroys the buffer waits for the   *)
(* methods that are at work on it (core/buffer.go:195, buffer.go:271).      *)
SafeAccess == TypeOK /\ (status = "segv" => alive)

(* "The source is wiped after the bytes are copied" (buffer.go:278): a Move *)
(* leaves nothing behind unless the buffer was gone, and what               *)
(* NewBufferFromBytes returns, if nobody has purged it, is the whole source.*)
MoveIsMove ==
  \A g \in Goroutines : pc[g] = "returned" /\ my[g].op = "MoveAt" =>
    /\ my[g].late \/ Range(source[g]) = {Zero}
    /\ phase = "making" => data \in {<<>>, my[g].src} /\ Len(data) \in {0, Len(source[g])}

(* The methods of a destroyed buffer do nothing (buffer_test.go:602), at    *)
(* whatever offset they are called.  A buffer that is destroyed behind a    *)
(* method's IsAlive() is nil to the casts and too short for nothing to a    *)
(* Copy or Move: only a slice at an offset (buffer.go:274, 295) and Int8,   *)
(* which has no check of the size (buffer.go:486), are out of range then.   *)
PanicsAreKnown ==
  \A g \in Goroutines : pc[g] = "panicked" => ~my[g].late /\ (my[g].op = "Int8" \/ my[g].off > 0)

(* Every method returns or panics, and no panic keeps the others waiting    *)
(* (buffer.go:271), unless the process dies.                                *)
CallsReturn == \A g \in Goroutines : pc[g] # "idle" ~> pc[g] = "idle" \/ status = "segv"
=============================================================================
