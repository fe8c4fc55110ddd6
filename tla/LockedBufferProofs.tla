-------------------------- MODULE LockedBufferProofs --------------------------
(***************************************************************************)
(* The methods of a LockedBuffer that any number of goroutines share, for  *)
(* slices of any length at any offset: memory is never touched after it    *)
(* was released, a Move leaves nothing behind, only the known panics       *)
(* happen, and every method takes effect in one instant (Cell).            *)
(***************************************************************************)
EXTENDS LockedBuffer, SequenceTheorems, TLAPS

Ops == {"none", "CopyAt", "MoveAt", "Wipe", "Scramble", "EqualTo", "slice", "array", "Int8"}

Locals == [op : Ops, off : Nat, src : Seq(Byte), i : Nat, w : Nat,
           seen : Seq(Byte), late : BOOLEAN]

(* The types of the buffer and of the goroutines' local variables. *)
TypeInv == TypeOK /\ my \in [Goroutines -> Locals] /\ source \in [Goroutines -> Seq(Byte)]

(* Who holds the lock is who is at work under it: one writer, or readers. *)
LockInv ==
  /\ \A g \in Goroutines : writer = g <=> pc[g] = "write"
  /\ \A g \in Goroutines : g \in readers <=> pc[g] \in {"read", "seen"}
  /\ writer # NoG => readers = {}

(* Which methods come to which statement, and with which arguments. *)
MethodInv ==
  \A g \in Goroutines :
    /\ pc[g] = "idle" => my[g] = NoLocals
    /\ my[g].w > 0 <=> my[g].op \in {"slice", "array", "Int8"}
    /\ pc[g] \in {"size", "lock", "write"} => my[g].op \in {"CopyAt", "MoveAt", "Wipe", "Scramble"}
    /\ pc[g] = "check" => my[g].op \notin {"none", "EqualTo"}
    /\ pc[g] \in {"rlock", "read", "seen"} => my[g].w > 0 \/ my[g].op = "EqualTo"
    /\ my[g].op \notin {"CopyAt", "MoveAt"} => my[g].off = 0
    /\ my[g].seen # <<>> => pc[g] \in {"seen", "returned"}
    /\ pc[g] = "panicked" => my[g].op = "Int8" \/ my[g].off > 0

(* A buffer that was gone when a method was called, or when it checked, is  *)
(* still gone, and the method goes no further than its check.               *)
LateInv ==
  \A g \in Goroutines : my[g].late =>
    /\ ~alive
    /\ pc[g] \notin {"lock", "write", "panicked"}
    /\ pc[g] \in {"rlock", "read", "seen"} => my[g].op = "EqualTo"

(* What a Copy or a Move has in hand before it has the lock; after it a     *)
(* Move's source is wiped.                                                  *)
SourceInv ==
  \A g \in Goroutines : my[g].op \in {"CopyAt", "MoveAt"} =>
    /\ source[g] # <<>>
    /\ pc[g] \in {"size", "check", "lock"} =>
         /\ my[g].src \in Sources /\ source[g] = my[g].src
         /\ phase = "made" => my[g].off \in Offsets
    /\ pc[g] = "returned" /\ my[g].op = "MoveAt" =>
         my[g].late \/ \A k \in 1..Len(source[g]) : source[g][k] = Zero

(* What is written fits into the buffer and is there so far. *)
WriteInv ==
  \A g \in Goroutines :
    /\ pc[g] \in {"size", "check", "lock"} => my[g].i = 0
    /\ pc[g] = "write" =>
         /\ my[g].off + Len(my[g].src) <= Len(data)
         /\ my[g].i <= Len(my[g].src)
         /\ \A k \in 1..my[g].i : data[my[g].off + k] = my[g].src[k]

(* Until the constructor returns it is alone with the buffer, but for       *)
(* whoever destroys it.                                                     *)
PhaseInv ==
  /\ phase = "none" => data = <<>> /\ \A g \in Goroutines : pc[g] = "idle"
  /\ \A g \in Goroutines : pc[g] = "size" => phase = "making"
  /\ phase # "made" =>
       /\ \A g, h \in Goroutines : pc[g] # "idle" /\ pc[h] # "idle" => g = h
       /\ \A g \in Goroutines :
            /\ pc[g] \in {"idle", "size", "check", "lock", "write", "returned"}
            /\ my[g].off = 0 /\ my[g].w = 0 /\ my[g].seen = <<>>

(* NewBufferFromBytes makes room for its source and fills it. *)
FromBytesInv ==
  \A g \in Goroutines : phase = "making" /\ my[g].op = "MoveAt" =>
    /\ Len(data) \in {0, Len(source[g])}
    /\ pc[g] = "write" => Len(my[g].src) = Len(data)
    /\ pc[g] = "returned" => data \in {<<>>, my[g].src}

(* A fault is a write to frozen memory, never to released memory. *)
FaultInv == status = "segv" => alive

(* The inductive invariant. *)
IInv == /\ TypeInv /\ LockInv /\ MethodInv /\ LateInv /\ SourceInv /\ WriteInv
        /\ PhaseInv /\ FromBytesInv /\ FaultInv

-----------------------------------------------------------------------------
(* A slice of n equal bytes. *)
LEMMA EqualBytes ==
  ASSUME NEW n \in Nat, NEW byte \in Byte
  PROVE  /\ Bytes(n, byte) \in Seq(Byte) /\ Len(Bytes(n, byte)) = n
         /\ \A k \in 1..n : Bytes(n, byte)[k] = byte
         /\ Bytes(n, byte) # <<>> <=> n > 0
<1>1. Bytes(n, byte) \in [1..n -> Byte]
  BY DEF Bytes
<1>2. Bytes(n, byte) \in Seq(Byte)
  BY <1>1, SeqDef
<1>3. Len(Bytes(n, byte)) = n
  BY <1>1, <1>2, LenProperties
<1> QED BY <1>2, <1>3, EmptySeq DEF Bytes

(* What the program copies from is a slice of bytes, and not empty. *)
LEMMA SourceBytes ==
  ASSUME NEW s \in Sources
  PROVE  s \in Seq(Byte) /\ Len(s) \in Nat \ {0}
<1>1. Range(s) \subseteq Byte
  BY DEF Byte
<1>2. s \in Seq(Byte)
  BY <1>1, LockedBufferAssumption, SeqMonotonic
<1> QED BY <1>2, LockedBufferAssumption, EmptySeq

(* Zero and Random are bytes. *)
LEMMA FillBytes == Zero \in Byte /\ Random \in Byte
BY DEF Byte

(* The payload of a method that has the lock fits behind its offset, and    *)
(* fills the room behind it unless its source is shorter.                   *)
LEMMA PayloadFits ==
  ASSUME TypeInv, MethodInv, NEW g \in Goroutines, pc[g] = "lock", my[g].off <= Len(data)
  PROVE  /\ Payload(g) \in Seq(Byte)
         /\ my[g].off + Len(Payload(g)) <= Len(data)
         /\ my[g].op = "Wipe" => Payload(g) = Bytes(Len(data), Zero)
         /\ my[g].op = "Scramble" => Payload(g) = Bytes(Len(data), Random)
         /\ my[g].op \in {"CopyAt", "MoveAt"} =>
              /\ Len(Payload(g)) = Fits(Len(my[g].src), Len(data) - my[g].off)
              /\ \A k \in 1..Len(Payload(g)) : Payload(g)[k] = my[g].src[k]
<1>1. my[g] \in Locals /\ data \in Seq(Byte)
  BY DEF TypeInv, TypeOK
<1>2. CASE my[g].op \in {"CopyAt", "MoveAt"}
  <2> DEFINE src == my[g].src
             n == Fits(Len(src), Len(data) - my[g].off)
  <2>1. src \in Seq(Byte) /\ Len(src) \in Nat /\ Len(data) \in Nat /\ my[g].off \in Nat
    BY <1>1, LenProperties DEF Locals
  <2>2. n \in 0..Len(src) /\ my[g].off + n <= Len(data)
    BY <2>1 DEF Fits
  <2>3. \A k \in 1..n : src[k] \in Byte
    BY <2>1, <2>2, ElementOfSeq
  <2>4. Payload(g) = SubSeq(src, 1, n)
    BY <1>2 DEF Payload
  <2> HIDE DEF n, src
  <2>5. /\ SubSeq(src, 1, n) \in Seq(Byte) /\ Len(SubSeq(src, 1, n)) = n
        /\ \A k \in 1..n : SubSeq(src, 1, n)[k] = src[k]
    BY <2>2, <2>3, SubSeqProperties
  <2> QED BY <1>2, <2>2, <2>4, <2>5 DEF n, src
<1>3. CASE my[g].op = "Wipe"
  <2>1. my[g].off = 0 /\ Len(data) \in Nat
    BY <1>1, <1>3, LenProperties DEF MethodInv
  <2>2. Payload(g) = Bytes(Len(data), Zero)
    BY <1>3 DEF Payload
  <2>3. Payload(g) \in Seq(Byte) /\ Len(Payload(g)) = Len(data)
    BY <2>1, <2>2, EqualBytes, FillBytes
  <2> QED BY <1>3, <2>1, <2>2, <2>3
<1>4. CASE my[g].op = "Scramble"
  <2>1. my[g].off = 0 /\ Len(data) \in Nat
    BY <1>1, <1>4, LenProperties DEF MethodInv
  <2>2. Payload(g) = Bytes(Len(data), Random)
    BY <1>4 DEF Payload
  <2>3. Payload(g) \in Seq(Byte) /\ Len(Payload(g)) = Len(data)
    BY <2>1, <2>2, EqualBytes, FillBytes
  <2> QED BY <1>4, <2>1, <2>2, <2>3
<1> QED BY <1>2, <1>3, <1>4 DEF MethodInv

(* The elements of a cast cover no more than the buffer. *)
LEMMA CoversLess ==
  ASSUME NEW n \in Nat, NEW w \in Nat, w > 0
  PROVE  SliceCovers(n, w) \in 0..n
BY DEF SliceCovers

(* What a cast or a comparison looks at is in the buffer. *)
LEMMA CoveredFits ==
  ASSUME TypeInv, MethodInv, NEW g \in Goroutines
  PROVE  Covered(g) \in 0..Len(data)
<1>1. my[g] \in Locals /\ Len(data) \in Nat
  BY LenProperties DEF TypeInv, TypeOK
<1>2. my[g].w \in Nat /\ (my[g].op \in {"slice", "array"} => my[g].w > 0)
  BY <1>1 DEF MethodInv, Locals
<1>3. my[g].w > 0 => SliceCovers(Len(data), my[g].w) \in 0..Len(data)
  BY <1>1, <1>2, CoversLess
<1>4. ArrayCovers(Len(data), my[g].w) \in 0..Len(data)
  BY <1>1, <1>2 DEF ArrayCovers
<1> QED BY <1>1, <1>2, <1>3, <1>4 DEF Covered

(* The byte that Write stores lies in the buffer. *)
LEMMA OneByte ==
  ASSUME TypeInv, WriteInv, NEW g \in Goroutines, pc[g] = "write", my[g].i < Len(my[g].src)
  PROVE  LET at == my[g].off + my[g].i + 1
             new == [data EXCEPT ![at] = my[g].src[my[g].i + 1]]
         IN  /\ at \in 1..Len(data) /\ data # <<>>
             /\ new \in Seq(Byte) /\ new # <<>> /\ Len(new) = Len(data)
             /\ \A k \in 1..Len(data) : new[k] = IF k = at THEN my[g].src[my[g].i + 1] ELSE data[k]
<1> DEFINE at == my[g].off + my[g].i + 1
           byte == my[g].src[my[g].i + 1]
<1>1. my[g] \in Locals /\ data \in Seq(Byte) /\ Len(data) \in Nat
  BY LenProperties DEF TypeInv, TypeOK
<1>2. my[g].src \in Seq(Byte) /\ Len(my[g].src) \in Nat /\ my[g].off \in Nat /\ my[g].i \in Nat
  BY <1>1, LenProperties DEF Locals
<1>3. at \in 1..Len(data)
  BY <1>1, <1>2 DEF WriteInv
<1>4. byte \in Byte
  BY <1>2, ElementOfSeq
<1> HIDE DEF at, byte
<1>5. /\ [data EXCEPT ![at] = byte] \in Seq(Byte) /\ Len([data EXCEPT ![at] = byte]) = Len(data)
      /\ \A k \in 1..Len(data) : [data EXCEPT ![at] = byte][k] = IF k = at THEN byte ELSE data[k]
  BY <1>1, <1>3, <1>4, ExceptSeq
<1>6. data # <<>> /\ [data EXCEPT ![at] = byte] # <<>>
  BY <1>1, <1>3, <1>5, EmptySeq
<1> QED BY <1>3, <1>5, <1>6 DEF at, byte

-----------------------------------------------------------------------------
(* The initial state satisfies the invariant. *)
LEMMA InitEstablishes == Init => IInv
<1> SUFFICES ASSUME Init PROVE IInv
  OBVIOUS
<1> USE LockedBufferAssumption DEF Init
<1>1. <<>> \in Seq(Byte) /\ Len(<<>>) = 0
  BY EmptySeq
<1>2. NoLocals \in Locals
  BY <1>1 DEF NoLocals, Locals, Ops
<1>3. TypeInv
  BY <1>1, <1>2 DEF TypeInv, TypeOK, NoLocals
<1>4. LockInv /\ MethodInv /\ LateInv /\ SourceInv
  BY DEF LockInv, MethodInv, LateInv, SourceInv, NoLocals
<1>5. WriteInv /\ PhaseInv /\ FromBytesInv /\ FaultInv
  BY DEF WriteInv, PhaseInv, FromBytesInv, FaultInv, NoLocals
<1> QED BY <1>3, <1>4, <1>5 DEF IInv

(* A method is called with the lock free or not. *)
LEMMA CallStep ==
  ASSUME IInv, status = "running", NEW g \in Goroutines, NEW l \in {"check", "rlock"},
         NEW locals \in Locals, Call(g, l, locals),
         locals.seen = <<>> /\ locals.i = 0 /\ locals.op # "none",
         locals.op = "EqualTo" <=> l = "rlock",
         locals.w > 0 <=> locals.op \in {"slice", "array", "Int8"},
         IF locals.op \in {"CopyAt", "MoveAt"}
         THEN locals.src \in Sources /\ locals.off \in Offsets
         ELSE locals.off = 0
  PROVE  IInv'
<1> USE DEF Call, Goto, Local, buffer, locks
<1>1. TypeInv'
  BY DEF IInv, TypeInv, TypeOK, Locals
<1>2. LockInv'
  BY DEF IInv, LockInv, TypeInv, TypeOK
<1>3. MethodInv'
  BY SMTT(40) DEF IInv, MethodInv, TypeInv, TypeOK, Locals
<1>4. LateInv'
  BY DEF IInv, LateInv, TypeInv, TypeOK, Locals
<1>5. SourceInv'
  <2> SUFFICES ASSUME NEW h \in Goroutines
               PROVE  SourceInv!(h)'
    BY DEF SourceInv
  <2>1. CASE h # g
    <3>1. my'[h] = my[h] /\ pc'[h] = pc[h] /\ source'[h] = source[h] /\ phase' = phase
      BY <2>1 DEF IInv, TypeInv, TypeOK
    <3>2. SourceInv!(h)
      BY DEF IInv, SourceInv
    <3> QED BY ONLY <3>1, <3>2
  <2>2. CASE h = g
    <3>1. /\ my'[g].op = locals.op /\ my'[g].src = locals.src /\ my'[g].off = locals.off
          /\ pc'[g] = l /\ source'[g] = locals.src
      BY DEF IInv, TypeInv, TypeOK, Locals
    <3>2. locals.op \in {"CopyAt", "MoveAt"} => locals.src # <<>>
      BY SourceBytes, EmptySeq
    <3> QED BY <2>2, <3>1, <3>2
  <2> QED BY <2>1, <2>2
<1>6. WriteInv'
  <2>1. \A h \in Goroutines \ {g} : pc'[h] = pc[h] /\ my'[h] = my[h]
    BY DEF IInv, TypeInv, TypeOK
  <2>2. pc'[g] = l /\ my'[g].i = 0 /\ data' = data
    BY DEF IInv, TypeInv, TypeOK, Locals
  <2> QED BY ONLY <2>1, <2>2, IInv, l \in {"check", "rlock"} DEF IInv, WriteInv
<1>7. PhaseInv' /\ FromBytesInv' /\ FaultInv'
  BY DEF IInv, PhaseInv, FromBytesInv, FaultInv, TypeInv, TypeOK, Locals
<1> QED BY <1>1, <1>2, <1>3, <1>4, <1>5, <1>6, <1>7 DEF IInv

(* The statements that only take or give back the read lock. *)
LEMMA ReadLockStep ==
  ASSUME IInv, status = "running", NEW g \in Goroutines, RLock(g) \/ RUnlock(g)
  PROVE  IInv'
<1> USE LockedBufferAssumption DEF RLock, RUnlock, Goto, buffer, locks
<1>1. TypeInv'
  BY DEF IInv, TypeInv, TypeOK, Locals
<1>2. LockInv'
  BY DEF IInv, LockInv, TypeInv, TypeOK
<1>3. MethodInv'
  BY SMTT(40) DEF IInv, MethodInv, TypeInv, TypeOK, Locals
<1>4. LateInv'
  BY DEF IInv, LateInv, TypeInv, TypeOK, Locals
<1>5. SourceInv'
  <2>1. my[g].op \notin {"CopyAt", "MoveAt"}
    BY DEF IInv, MethodInv
  <2>2. \A h \in Goroutines : h # g => pc'[h] = pc[h]
    BY DEF IInv, TypeInv, TypeOK
  <2>3. UNCHANGED <<my, source, phase>>
    OBVIOUS
  <2> QED BY <2>1, <2>2, <2>3 DEF IInv, SourceInv
<1>6. WriteInv'
  BY SMTT(40) DEF IInv, WriteInv, TypeInv, TypeOK, Locals
<1>7. phase = "made"
  BY DEF IInv, PhaseInv, TypeInv, TypeOK
<1>8. PhaseInv' /\ FromBytesInv' /\ FaultInv'
  BY <1>7 DEF IInv, PhaseInv, FromBytesInv, FaultInv, TypeInv, TypeOK
<1> QED BY <1>1, <1>2, <1>3, <1>4, <1>5, <1>6, <1>8 DEF IInv

(* Read: a cast or a comparison looks at the bytes, or Int8 panics. *)
LEMMA ReadStep ==
  ASSUME IInv, status = "running", NEW g \in Goroutines, Read(g)
  PROVE  IInv'
<1> USE LockedBufferAssumption DEF Goto, buffer
<1>1. phase = "made" /\ my[g] \in Locals /\ data \in Seq(Byte) /\ Len(data) \in Nat
  BY LenProperties DEF Read, IInv, PhaseInv, TypeInv, TypeOK
<1>2. Covered(g) \in 0..Len(data)
  BY CoveredFits DEF IInv
<1>3. CASE /\ TakesAddress(g) /\ data = <<>> /\ readers' = readers \ {g}
           /\ pc' = [pc EXCEPT ![g] = "panicked"] /\ UNCHANGED my
  <2> USE <1>3 DEF Read, TakesAddress
  <2>1. TypeInv'
    BY DEF IInv, TypeInv, TypeOK
  <2>2. LockInv'
    BY DEF IInv, LockInv, TypeInv, TypeOK
  <2>3. MethodInv' /\ LateInv'
    BY DEF IInv, MethodInv, LateInv, TypeInv, TypeOK
  <2>4. SourceInv' /\ WriteInv'
    BY DEF IInv, SourceInv, WriteInv, TypeInv, TypeOK
  <2>5. PhaseInv' /\ FromBytesInv' /\ FaultInv'
    BY <1>1 DEF IInv, PhaseInv, FromBytesInv, FaultInv, TypeInv, TypeOK
  <2> QED BY <2>1, <2>2, <2>3, <2>4, <2>5 DEF IInv
<1>4. CASE /\ my' = [my EXCEPT ![g].seen = SubSeq(data, 1, Covered(g))]
           /\ pc' = [pc EXCEPT ![g] = "seen"] /\ UNCHANGED readers
  <2> DEFINE bytes == SubSeq(data, 1, Covered(g))
  <2>1. bytes \in Seq(Byte)
    BY <1>1, <1>2, ElementOfSeq, SubSeqProperties
  <2> HIDE DEF bytes
  <2>2. /\ my' = [my EXCEPT ![g].seen = bytes] /\ pc' = [pc EXCEPT ![g] = "seen"]
        /\ pc[g] = "read" /\ UNCHANGED <<phase, data, alive, mutable, writer, readers, source, status>>
    BY <1>4 DEF Read, bytes
  <2> USE <2>2
  <2>3. TypeInv'
    <3>1. my' \in [Goroutines -> Locals]
      <4>1. my \in [Goroutines -> Locals] /\ my[g] \in Locals
        BY DEF IInv, TypeInv
      <4>2. [my[g] EXCEPT !.seen = bytes] \in Locals
        BY <2>1, <4>1 DEF Locals
      <4>3. my' = [my EXCEPT ![g] = [my[g] EXCEPT !.seen = bytes]]
        BY <2>2
      <4> QED BY <4>1, <4>2, <4>3
    <3>2. \A h \in Goroutines : my'[h].seen \in Seq(Byte)
      BY <3>1 DEF Locals
    <3> QED BY <3>1, <3>2 DEF IInv, TypeInv, TypeOK
  <2>4. LockInv'
    BY DEF IInv, LockInv, TypeInv, TypeOK
  <2>5. MethodInv' /\ LateInv'
    BY SMTT(40) DEF IInv, MethodInv, LateInv, TypeInv, TypeOK, Locals
  <2>6. SourceInv' /\ WriteInv'
    BY SMTT(40) DEF IInv, SourceInv, WriteInv, TypeInv, TypeOK, Locals
  <2>7. PhaseInv' /\ FromBytesInv' /\ FaultInv'
    BY <1>1 DEF IInv, PhaseInv, FromBytesInv, FaultInv, TypeInv, TypeOK, Locals
  <2> QED BY <2>3, <2>4, <2>5, <2>6, <2>7 DEF IInv
<1> QED BY <1>3, <1>4 DEF Read

(* A method's call is over. *)
LEMMA ReturnStep ==
  ASSUME IInv, status = "running", NEW g \in Goroutines, Return(g)
  PROVE  IInv'
<1> USE LockedBufferAssumption DEF Return, Leave, Goto, Local, buffer, locks
<1>1. TypeInv'
  BY EmptySeq DEF IInv, TypeInv, TypeOK, Locals, Ops, NoLocals
<1>2. LockInv'
  BY DEF IInv, LockInv, TypeInv, TypeOK
<1>3. MethodInv'
  BY DEF IInv, MethodInv, TypeInv, TypeOK, Locals, NoLocals
<1>4. LateInv' /\ SourceInv' /\ WriteInv'
  BY DEF IInv, LateInv, SourceInv, WriteInv, TypeInv, TypeOK, Locals, NoLocals
<1>5. PhaseInv' /\ FromBytesInv' /\ FaultInv'
  BY DEF IInv, PhaseInv, FromBytesInv, FaultInv, TypeInv, TypeOK, Locals
<1> QED BY <1>1, <1>2, <1>3, <1>4, <1>5 DEF IInv

(* IsAlive(): a method on a destroyed buffer returns at once. *)
LEMMA CheckStep ==
  ASSUME IInv, status = "running", NEW g \in Goroutines, Check(g)
  PROVE  IInv'
<1> USE LockedBufferAssumption DEF Check, Goto, buffer, locks, IsAlive
<1>1. TypeInv'
  <2> DEFINE r == [my[g] EXCEPT !.late = TRUE]
  <2>1. my \in [Goroutines -> Locals] /\ my[g] \in Locals
    BY DEF IInv, TypeInv
  <2>2. r \in Locals /\ r.seen = my[g].seen
    BY <2>1 DEF Locals
  <2>3. my' = my \/ my' = [my EXCEPT ![g] = r]
    OBVIOUS
  <2> HIDE DEF r
  <2>4. my' \in [Goroutines -> Locals] /\ \A h \in Goroutines : my'[h].seen = my[h].seen
    BY <2>1, <2>2, <2>3
  <2> QED BY <2>4 DEF IInv, TypeInv, TypeOK
<1>2. LockInv'
  BY DEF IInv, LockInv, TypeInv, TypeOK
<1>3. CASE alive
  <2> USE <1>3
  <2>1. MethodInv'
    BY SMTT(40) DEF IInv, MethodInv, TypeInv, TypeOK, Locals, Ops
  <2>2. LateInv' /\ SourceInv' /\ WriteInv'
    BY SMTT(40) DEF IInv, MethodInv, LateInv, SourceInv, WriteInv, TypeInv, TypeOK, Locals
  <2>3. PhaseInv' /\ FromBytesInv' /\ FaultInv'
    BY DEF IInv, PhaseInv, FromBytesInv, FaultInv, TypeInv, TypeOK, Locals
  <2> QED BY <1>1, <1>2, <2>1, <2>2, <2>3 DEF IInv
<1>4. CASE ~alive
  <2> USE <1>4
  <2>1. MethodInv'
    BY DEF IInv, MethodInv, TypeInv, TypeOK, Locals
  <2>2. LateInv' /\ SourceInv' /\ WriteInv'
    BY DEF IInv, MethodInv, LateInv, SourceInv, WriteInv, TypeInv, TypeOK, Locals
  <2>3. PhaseInv' /\ FaultInv'
    BY DEF IInv, PhaseInv, FaultInv, TypeInv, TypeOK, Locals
  <2>4. FromBytesInv'
    <3>1. /\ data = <<>> /\ data' = data /\ pc'[g] = "returned" /\ UNCHANGED <<phase, source>>
          /\ \A h \in Goroutines : my'[h].op = my[h].op /\ my'[h].src = my[h].src
          /\ \A h \in Goroutines : h # g => pc'[h] = pc[h]
      BY DEF IInv, TypeInv, TypeOK, Locals
    <3> QED BY <3>1 DEF IInv, FromBytesInv
  <2> QED BY <1>1, <1>2, <2>1, <2>2, <2>3, <2>4 DEF IInv
<1> QED BY <1>3, <1>4

(* b.Lock() and the slice at the offset, which may be out of range. *)
LEMMA LockStep ==
  ASSUME IInv, status = "running", NEW g \in Goroutines, Lock(g)
  PROVE  IInv'
<1> USE LockedBufferAssumption DEF Goto, Quiet
<1>1. /\ pc[g] = "lock" /\ writer = NoG /\ readers = {}
      /\ UNCHANGED <<phase, data, alive, mutable, readers, source, status>>
  BY DEF Lock, buffer
<1>2. my[g] \in Locals /\ data \in Seq(Byte) /\ Len(data) \in Nat
  BY LenProperties DEF IInv, TypeInv, TypeOK
<1>3. CASE /\ my[g].off <= Len(data) /\ WriteLock(g) /\ my' = [my EXCEPT ![g].src = Payload(g)]
           /\ pc' = [pc EXCEPT ![g] = "write"]
  <2> DEFINE payload == Payload(g)
  <2>1. /\ payload \in Seq(Byte) /\ my[g].off + Len(payload) <= Len(data)
        /\ my[g].op = "MoveAt" => Len(payload) = Fits(Len(my[g].src), Len(data) - my[g].off)
    BY <1>1, <1>3, PayloadFits DEF IInv
  <2>2. /\ my' = [my EXCEPT ![g].src = payload] /\ pc' = [pc EXCEPT ![g] = "write"]
        /\ writer' = g
    BY <1>3 DEF WriteLock
  <2>3. my[g].i = 0
    BY <1>1 DEF IInv, WriteInv
  <2> HIDE DEF payload
  <2>4. TypeInv'
    <3>1. my' \in [Goroutines -> Locals] /\ \A h \in Goroutines : my'[h].seen = my[h].seen
      BY <2>1, <2>2 DEF IInv, TypeInv, Locals
    <3> QED BY <1>1, <2>2, <3>1 DEF IInv, TypeInv, TypeOK
  <2>5. LockInv'
    BY <1>1, <2>2 DEF IInv, LockInv, TypeInv, TypeOK
  <2>6. MethodInv'
    BY <1>1, <2>2 DEF IInv, MethodInv, TypeInv, TypeOK, Locals
  <2>7. LateInv' /\ SourceInv'
    BY <1>1, <2>2 DEF IInv, LateInv, SourceInv, TypeInv, TypeOK, Locals
  <2>8. WriteInv'
    BY <1>1, <1>2, <2>1, <2>2, <2>3, LenProperties, SMTT(40) DEF IInv, WriteInv, TypeInv, TypeOK, Locals
  <2>9. FromBytesInv'
    <3>1. phase = "making" /\ my[g].op = "MoveAt" => Len(payload) = Len(data)
      <4> SUFFICES ASSUME phase = "making", my[g].op = "MoveAt"
                   PROVE  Len(payload) = Len(data)
        OBVIOUS
      <4>1. my[g].off = 0 /\ Len(data) \in {0, Len(my[g].src)} /\ Len(my[g].src) \in Nat
        BY <1>1, <1>2, LenProperties DEF IInv, PhaseInv, FromBytesInv, SourceInv, Locals
      <4> QED BY <1>2, <2>1, <4>1 DEF Fits
    <3> QED BY <1>1, <2>2, <3>1 DEF IInv, FromBytesInv, TypeInv, TypeOK, Locals
  <2>10. PhaseInv' /\ FaultInv'
    BY <1>1, <2>2 DEF IInv, PhaseInv, FaultInv, TypeInv, TypeOK, Locals
  <2> QED BY <2>4, <2>5, <2>6, <2>7, <2>8, <2>9, <2>10 DEF IInv
<1>4. CASE /\ my[g].off > Len(data) /\ PanicUnlock(g) /\ pc' = [pc EXCEPT ![g] = "panicked"]
           /\ UNCHANGED my
  <2> USE <1>1, <1>4 DEF PanicUnlock
  <2>1. my[g].off > 0 /\ phase = "made"
    BY <1>2 DEF IInv, PhaseInv, TypeInv, TypeOK, Locals
  <2>2. TypeInv' /\ LockInv'
    BY DEF IInv, TypeInv, TypeOK, LockInv
  <2>3. MethodInv' /\ LateInv'
    BY <2>1 DEF IInv, MethodInv, LateInv, TypeInv, TypeOK
  <2>4. SourceInv' /\ WriteInv'
    BY DEF IInv, SourceInv, WriteInv, TypeInv, TypeOK
  <2>5. PhaseInv' /\ FromBytesInv' /\ FaultInv'
    BY <2>1 DEF IInv, PhaseInv, FromBytesInv, FaultInv, TypeInv, TypeOK
  <2> QED BY <2>2, <2>3, <2>4, <2>5 DEF IInv
<1> QED BY <1>3, <1>4 DEF Lock

(* One byte is written, or the memory is frozen and the process dies. *)
LEMMA WriteStep ==
  ASSUME IInv, status = "running", NEW g \in Goroutines, Write(g)
  PROVE  IInv'
<1> USE LockedBufferAssumption
<1> DEFINE at == my[g].off + my[g].i + 1
           new == [data EXCEPT ![at] = my[g].src[my[g].i + 1]]
<1>1. /\ at \in 1..Len(data) /\ data # <<>> /\ new \in Seq(Byte) /\ new # <<>>
      /\ Len(new) = Len(data)
      /\ \A k \in 1..Len(data) : new[k] = IF k = at THEN my[g].src[my[g].i + 1] ELSE data[k]
  BY OneByte DEF Write, IInv
<1>2. pc[g] = "write" /\ my[g].i < Len(my[g].src) /\ my[g] \in Locals
  BY DEF Write, IInv, TypeInv
<1>3. CASE /\ mutable /\ data' = new /\ my' = [my EXCEPT ![g].i = @ + 1]
           /\ UNCHANGED <<phase, alive, mutable, locks, pc, source, status>>
  <2>0. my' \in [Goroutines -> Locals] /\ \A h \in Goroutines : my'[h].seen = my[h].seen
    <3>1. my[g].i + 1 \in Nat /\ my' = [my EXCEPT ![g].i = my[g].i + 1]
      BY <1>2, <1>3 DEF Locals
    <3> QED BY <3>1 DEF IInv, TypeInv, Locals
  <2> HIDE DEF new
  <2> USE <1>1, <1>2, <1>3 DEF locks
  <2>1. TypeInv'
    BY <2>0 DEF IInv, TypeInv, TypeOK
  <2>2. LockInv' /\ MethodInv' /\ LateInv'
    <3>1. LockInv'
      BY DEF IInv, LockInv
    <3>2. /\ my'[g].op = my[g].op /\ my'[g].w = my[g].w /\ my'[g].off = my[g].off
          /\ my'[g].seen = my[g].seen /\ my'[g].late = my[g].late
          /\ \A h \in Goroutines \ {g} : my'[h] = my[h]
      BY <2>0 DEF IInv, TypeInv, Locals
    <3>3. MethodInv'
      BY <3>2 DEF IInv, MethodInv
    <3>4. LateInv'
      BY <3>2 DEF IInv, LateInv
    <3> QED BY <3>1, <3>3, <3>4
  <2>3. SourceInv'
    BY SMTT(40) DEF IInv, SourceInv, TypeInv, TypeOK, Locals
  <2>4. WriteInv'
    <3>1. \A h \in Goroutines : h # g => pc[h] # "write"
      BY DEF IInv, LockInv
    <3>2. \A h \in Goroutines : h # g => my'[h] = my[h]
      BY DEF IInv, TypeInv
    <3>3. my'[g].off = my[g].off /\ my'[g].src = my[g].src /\ my'[g].i = my[g].i + 1
      BY DEF IInv, TypeInv, Locals
    <3>4. \A k \in 1..(my[g].i + 1) : new[my[g].off + k] = my[g].src[k]
      <4> TAKE k \in 1..(my[g].i + 1)
      <4>1. my[g].off \in Nat /\ my[g].i \in Nat /\ Len(my[g].src) \in Nat /\ Len(data) \in Nat
        BY LenProperties DEF IInv, TypeInv, TypeOK, Locals
      <4>2. my[g].off + k \in 1..Len(data)
        BY <4>1, SMTT(40)
      <4>3. CASE k = my[g].i + 1
        BY <4>1, <4>2, <4>3, SMTT(40)
      <4>4. CASE k \in 1..my[g].i
        <5>1. data[my[g].off + k] = my[g].src[k]
          BY <4>4 DEF IInv, WriteInv
        <5>2. my[g].off + k # at
          BY <4>1, <4>4
        <5> QED BY <4>2, <5>1, <5>2
      <4> QED BY <4>1, <4>3, <4>4, SMTT(40)
    <3>5. my[g].i \in Nat /\ Len(my[g].src) \in Nat
      BY LenProperties DEF Locals
    <3> QED BY <3>1, <3>2, <3>3, <3>4, <3>5 DEF IInv, WriteInv
  <2>5. PhaseInv' /\ FaultInv'
    <3>1. data # <<>>
      OBVIOUS
    <3> QED BY <3>1 DEF IInv, PhaseInv, FaultInv, TypeInv, TypeOK, Locals
  <2>6. FromBytesInv'
    <3>1. \A h \in Goroutines : pc[h] = "returned" => phase = "made"
      BY DEF IInv, PhaseInv
    <3> QED BY <3>1 DEF IInv, FromBytesInv, TypeInv, TypeOK, Locals
  <2> QED BY <2>1, <2>2, <2>3, <2>4, <2>5, <2>6 DEF IInv
<1>4. CASE ~mutable /\ Fault
  <2>1. alive
    BY <1>1 DEF IInv, TypeInv, TypeOK
  <2> QED BY <1>4, <2>1 DEF Fault, buffer, locks, IInv, TypeInv, TypeOK, LockInv, MethodInv,
        LateInv, SourceInv, WriteInv, PhaseInv, FromBytesInv, FaultInv
<1> QED BY <1>3, <1>4 DEF Write

(* The last byte is written: the source of a Move is wiped and the lock is  *)
(* given back.                                                              *)
LEMMA WriteEndStep ==
  ASSUME IInv, status = "running", NEW g \in Goroutines, WriteEnd(g)
  PROVE  IInv'
<1> USE LockedBufferAssumption
<1> DEFINE wiped == Bytes(Len(source[g]), Zero)
<1>1. /\ pc[g] = "write" /\ my[g].i = Len(my[g].src) /\ writer' = NoG
      /\ source' = IF my[g].op = "MoveAt" THEN [source EXCEPT ![g] = wiped] ELSE source
      /\ pc' = [pc EXCEPT ![g] = "returned"]
      /\ UNCHANGED <<phase, data, alive, mutable, readers, my, status>>
  BY DEF WriteEnd, Goto, buffer
<1>2. /\ wiped \in Seq(Byte) /\ Len(wiped) = Len(source[g])
      /\ \A k \in 1..Len(source[g]) : wiped[k] = Zero
      /\ source[g] # <<>> => wiped # <<>>
  <2>1. source[g] \in Seq(Byte) /\ Len(source[g]) \in Nat
    BY LenProperties DEF IInv, TypeInv
  <2> QED BY <2>1, EqualBytes, FillBytes, EmptySeq
<1> HIDE DEF wiped
<1>3. TypeInv'
  <2>1. source' \in [Goroutines -> Seq(Byte)]
    BY <1>1, <1>2 DEF IInv, TypeInv
  <2> QED BY <1>1, <2>1 DEF IInv, TypeInv, TypeOK
<1>4. LockInv'
  BY <1>1 DEF IInv, LockInv, TypeInv, TypeOK
<1>5. MethodInv' /\ LateInv' /\ WriteInv'
  BY <1>1 DEF IInv, MethodInv, LateInv, WriteInv, TypeInv, TypeOK, Locals
<1>6. SourceInv'
  BY <1>1, <1>2 DEF IInv, SourceInv, TypeInv, TypeOK, Locals
<1>7. PhaseInv' /\ FaultInv'
  BY <1>1 DEF IInv, PhaseInv, FaultInv, TypeInv, TypeOK
<1>8. FromBytesInv'
  <2>1. ASSUME phase = "making", my[g].op = "MoveAt" PROVE data = my[g].src
    <3>1. /\ data \in Seq(Byte) /\ my[g].src \in Seq(Byte) /\ Len(my[g].src) = Len(data)
          /\ my[g].off = 0 /\ Len(data) \in Nat
      BY <1>1, <2>1, LenProperties DEF IInv, TypeInv, TypeOK, Locals, FromBytesInv, PhaseInv
    <3>2. \A k \in 1..Len(data) : data[k] = my[g].src[k]
      BY <1>1, <3>1 DEF IInv, WriteInv
    <3> QED BY <3>1, <3>2, SeqEqual
  <2>2. \A h \in Goroutines : Len(source'[h]) = Len(source[h])
    BY <1>1, <1>2 DEF IInv, TypeInv
  <2> QED BY <1>1, <2>1, <2>2 DEF IInv, FromBytesInv, TypeInv, TypeOK
<1> QED BY <1>3, <1>4, <1>5, <1>6, <1>7, <1>8 DEF IInv

-----------------------------------------------------------------------------
(* The buffer is handed to the program; whoever made it is done.  The       *)
(* memory may have been frozen.                                             *)
LEMMA PublishStep ==
  ASSUME IInv, status = "running", NEW g \in Goroutines, phase = "making", phase' = "made",
         pc[g] \in {"size", "returned"}, Leave(g), mutable' \in BOOLEAN,
         UNCHANGED <<data, alive, locks, status>>
  PROVE  IInv'
<1> USE LockedBufferAssumption DEF Leave, Goto, Local, locks
<1>1. TypeInv'
  <2>1. NoLocals \in Locals /\ <<>> \in Seq(Byte) /\ NoLocals.seen = <<>>
    BY EmptySeq DEF NoLocals, Locals, Ops
  <2> QED BY <2>1 DEF IInv, TypeInv, TypeOK
<1>2. LockInv'
  BY DEF IInv, LockInv, TypeInv, TypeOK
<1>3. \A h \in Goroutines : pc'[h] = "idle" /\ my'[h] = NoLocals
  BY DEF IInv, PhaseInv, MethodInv, TypeInv, TypeOK
<1>4. MethodInv' /\ LateInv' /\ SourceInv' /\ WriteInv'
  BY <1>3 DEF MethodInv, LateInv, SourceInv, WriteInv, NoLocals
<1>5. PhaseInv' /\ FromBytesInv' /\ FaultInv'
  BY <1>3 DEF IInv, PhaseInv, FromBytesInv, FaultInv
<1> QED BY <1>1, <1>2, <1>4, <1>5 DEF IInv

(* if b.Size() == 0 in a constructor. *)
LEMMA CheckSizeStep ==
  ASSUME IInv, status = "running", NEW g \in Goroutines, CheckSize(g)
  PROVE  IInv'
<1> USE LockedBufferAssumption
<1>1. CASE phase' = "made" /\ Leave(g)
  <2>1. /\ phase = "making" /\ pc[g] = "size" /\ mutable' \in BOOLEAN
        /\ UNCHANGED <<data, alive, locks, status>>
    BY DEF CheckSize, buffer, IInv, PhaseInv, TypeInv, TypeOK
  <2> QED BY <1>1, <2>1, PublishStep
<1>2. CASE Goto(g, "check") /\ UNCHANGED <<phase, my, source>>
  <2> USE <1>2 DEF CheckSize, Goto, buffer, locks
  <2>1. TypeInv' /\ LockInv'
    BY DEF IInv, TypeInv, TypeOK, LockInv
  <2>2. MethodInv' /\ LateInv'
    BY DEF IInv, MethodInv, LateInv, TypeInv, TypeOK
  <2>3. SourceInv' /\ WriteInv'
    BY DEF IInv, SourceInv, WriteInv, TypeInv, TypeOK
  <2>4. PhaseInv' /\ FromBytesInv' /\ FaultInv'
    BY DEF IInv, PhaseInv, FromBytesInv, FaultInv, TypeInv, TypeOK
  <2> QED BY <2>1, <2>2, <2>3, <2>4 DEF IInv
<1> QED BY <1>1, <1>2 DEF CheckSize

(* A constructor allocates; two of the three have more to do. *)
LEMMA NewStep ==
  ASSUME IInv, status = "running", NEW g \in Goroutines,
         NewBuffer(g) \/ NewBufferFromBytes(g) \/ NewBufferRandom(g)
  PROVE  IInv'
<1> USE LockedBufferAssumption
<1>1. /\ phase = "none" /\ UNCHANGED <<writer, readers, status>>
      /\ \A h \in Goroutines : pc[h] = "idle" /\ my[h] = NoLocals
  BY DEF NewBuffer, NewBufferFromBytes, NewBufferRandom, locks, IInv, PhaseInv, MethodInv
<1>2. ASSUME NEW n \in Nat, Alloc(n)
      PROVE  /\ data' \in Seq(Byte) /\ Len(data') = n /\ alive' = (data' # <<>>)
             /\ mutable' \in BOOLEAN
  <2>1. /\ Bytes(n, Zero) \in Seq(Byte) /\ Len(Bytes(n, Zero)) = n
        /\ Bytes(n, Zero) # <<>> <=> n > 0
    BY <1>2, EqualBytes, FillBytes
  <2> QED BY <1>2, <2>1 DEF Alloc
<1>3. NoLocals \in Locals /\ <<>> \in Seq(Byte)
  BY EmptySeq DEF NoLocals, Locals, Ops
<1>4. CASE NewBuffer(g)
  <2>1. /\ data' \in Seq(Byte) /\ alive' = (data' # <<>>) /\ mutable' \in BOOLEAN
        /\ phase' = "made" /\ UNCHANGED <<pc, my, source>>
    BY <1>2, <1>4 DEF NewBuffer
  <2>2. TypeInv' /\ LockInv'
    BY <1>1, <2>1 DEF IInv, TypeInv, TypeOK, LockInv
  <2>3. MethodInv' /\ LateInv' /\ SourceInv' /\ WriteInv'
    BY <1>1, <2>1 DEF MethodInv, LateInv, SourceInv, WriteInv, NoLocals
  <2>4. PhaseInv' /\ FromBytesInv' /\ FaultInv'
    BY <1>1, <2>1 DEF PhaseInv, FromBytesInv, FaultInv
  <2> QED BY <2>2, <2>3, <2>4 DEF IInv
<1>5. CASE NewBufferFromBytes(g)
  <2>1. PICK src \in Sources :
          /\ Alloc(Len(src))
          /\ source' = [source EXCEPT ![g] = src]
          /\ my' = [my EXCEPT ![g] = [NoLocals EXCEPT !.op = "MoveAt", !.src = src]]
    BY <1>5 DEF NewBufferFromBytes, Local
  <2>2. src \in Seq(Byte) /\ Len(src) \in Nat /\ src # <<>>
    BY SourceBytes, EmptySeq
  <2>3. /\ data' \in Seq(Byte) /\ Len(data') = Len(src) /\ alive' = (data' # <<>>)
        /\ mutable' \in BOOLEAN /\ phase' = "making" /\ pc' = [pc EXCEPT ![g] = "size"]
    BY <1>2, <1>5, <2>1, <2>2 DEF NewBufferFromBytes, Goto
  <2>4. TypeInv'
    <3>1. [NoLocals EXCEPT !.op = "MoveAt", !.src = src] \in Locals
      BY <1>3, <2>2 DEF NoLocals, Locals, Ops
    <3>2. my' \in [Goroutines -> Locals] /\ \A h \in Goroutines : my'[h].seen \in Seq(Byte)
      BY <2>1, <3>1 DEF IInv, TypeInv, Locals
    <3> QED BY <1>1, <2>1, <2>2, <2>3, <3>2 DEF IInv, TypeInv, TypeOK
  <2>5. LockInv'
    BY <1>1, <2>3 DEF IInv, TypeInv, TypeOK, LockInv
  <2>6. MethodInv' /\ LateInv'
    BY <1>1, <2>1, <2>3 DEF MethodInv, LateInv, NoLocals, IInv, TypeInv, TypeOK
  <2>7. SourceInv' /\ WriteInv'
    BY <1>1, <2>1, <2>2, <2>3 DEF SourceInv, WriteInv, NoLocals, IInv, TypeInv, TypeOK
  <2>8. PhaseInv' /\ FromBytesInv' /\ FaultInv'
    BY <1>1, <2>1, <2>3 DEF PhaseInv, FromBytesInv, FaultInv, NoLocals, IInv, TypeInv, TypeOK
  <2> QED BY <2>4, <2>5, <2>6, <2>7, <2>8 DEF IInv
<1>6. CASE NewBufferRandom(g)
  <2>1. /\ data' \in Seq(Byte) /\ alive' = (data' # <<>>) /\ mutable' \in BOOLEAN
        /\ phase' = "making" /\ pc' = [pc EXCEPT ![g] = "size"] /\ UNCHANGED source
        /\ my' = [my EXCEPT ![g] = [NoLocals EXCEPT !.op = "Scramble"]]
    BY <1>2, <1>6 DEF NewBufferRandom, Goto, Local
  <2>2. TypeInv'
    <3>1. [NoLocals EXCEPT !.op = "Scramble"] \in Locals
      BY <1>3 DEF NoLocals, Locals, Ops
    <3>2. my' \in [Goroutines -> Locals] /\ \A h \in Goroutines : my'[h].seen \in Seq(Byte)
      BY <2>1, <3>1 DEF IInv, TypeInv, Locals
    <3> QED BY <1>1, <2>1, <3>2 DEF IInv, TypeInv, TypeOK
  <2>3. LockInv'
    BY <1>1, <2>1 DEF IInv, TypeInv, TypeOK, LockInv
  <2>4. MethodInv' /\ LateInv'
    BY <1>1, <2>1 DEF MethodInv, LateInv, NoLocals, IInv, TypeInv, TypeOK
  <2>5. SourceInv' /\ WriteInv'
    BY <1>1, <2>1 DEF SourceInv, WriteInv, NoLocals, IInv, TypeInv, TypeOK
  <2>6. PhaseInv' /\ FromBytesInv' /\ FaultInv'
    BY <1>1, <2>1 DEF PhaseInv, FromBytesInv, FaultInv, NoLocals, IInv, TypeInv, TypeOK
  <2> QED BY <2>2, <2>3, <2>4, <2>5, <2>6 DEF IInv
<1> QED BY <1>4, <1>5, <1>6

(* Freeze and Melt change the protection only. *)
LEMMA ProtectStep ==
  ASSUME IInv, status = "running", NEW g \in Goroutines, Freeze(g) \/ Melt(g)
  PROVE  IInv'
<1>1. mutable' \in BOOLEAN /\ UNCHANGED <<phase, data, alive, writer, readers, pc, my, source, status>>
  BY DEF Freeze, Melt, locks, IInv, TypeInv, TypeOK
<1> QED BY <1>1 DEF IInv, TypeInv, TypeOK, LockInv, MethodInv, LateInv, SourceInv, WriteInv,
      PhaseInv, FromBytesInv, FaultInv

(* Destroy finds nobody at work on the buffer. *)
LEMMA DestroyStep ==
  ASSUME IInv, status = "running", NEW g \in Goroutines, Destroy(g)
  PROVE  IInv'
<1>1. /\ phase # "none" /\ writer = NoG /\ data' = <<>> /\ ~alive' /\ ~mutable' /\ status' = "running"
      /\ UNCHANGED <<phase, writer, readers, pc, my, source>>
  BY DEF Destroy, Destroyable, Quiet, locks
<1>2. <<>> \in Seq(Byte) /\ Len(<<>>) = 0
  BY EmptySeq
<1>3. TypeInv'
  <2>1. alive' = FALSE /\ mutable' = FALSE
    BY DEF Destroy
  <2> QED BY <1>1, <1>2, <2>1 DEF IInv, TypeInv, TypeOK
<1>4. LockInv' /\ MethodInv' /\ LateInv' /\ SourceInv'
  BY <1>1 DEF IInv, LockInv, MethodInv, LateInv, SourceInv
<1>5. WriteInv'
  <2>1. \A h \in Goroutines : pc[h] # "write"
    BY <1>1, LockedBufferAssumption DEF IInv, LockInv
  <2> QED BY <1>1, <2>1 DEF IInv, WriteInv
<1>6. PhaseInv' /\ FromBytesInv' /\ FaultInv'
  <2>1. \A h \in Goroutines : pc[h] # "write"
    BY <1>1, LockedBufferAssumption DEF IInv, LockInv
  <2> QED BY <1>1, <1>2, <2>1 DEF IInv, PhaseInv, FromBytesInv, FaultInv
<1> QED BY <1>3, <1>4, <1>5, <1>6 DEF IInv

(* Each of the methods is called with arguments that CallStep admits. *)
LEMMA CallsStep ==
  ASSUME IInv, status = "running", NEW g \in Goroutines,
         \/ CallWrite(g) \/ CallFill(g) \/ CallEqualTo(g)
         \/ CallSlice(g) \/ CallArray(g) \/ CallInt8(g)
  PROVE  IInv'
<1> USE LockedBufferAssumption
<1>1. NoLocals \in Locals
  BY EmptySeq DEF NoLocals, Locals, Ops
<1>2. CASE CallWrite(g)
  <2>1. PICK op \in {"CopyAt", "MoveAt"}, off \in Offsets, src \in Sources :
          Call(g, "check", [NoLocals EXCEPT !.op = op, !.off = off, !.src = src])
    BY <1>2 DEF CallWrite
  <2> DEFINE locals == [NoLocals EXCEPT !.op = op, !.off = off, !.src = src]
  <2>2. /\ locals \in Locals /\ locals.seen = <<>> /\ locals.i = 0 /\ locals.w = 0
        /\ locals.op = op /\ locals.off = off /\ locals.src = src
    BY <1>1, SourceBytes DEF NoLocals, Locals, Ops
  <2> HIDE DEF locals
  <2>3. Call(g, "check", locals)
    BY <2>1 DEF locals
  <2> QED BY <2>2, <2>3, CallStep
<1>3. CASE CallFill(g)
  <2>1. PICK op \in {"Wipe", "Scramble"} : Call(g, "check", [NoLocals EXCEPT !.op = op])
    BY <1>3 DEF CallFill
  <2> DEFINE locals == [NoLocals EXCEPT !.op = op]
  <2>2. /\ locals \in Locals /\ locals.seen = <<>> /\ locals.i = 0 /\ locals.w = 0
        /\ locals.op = op /\ locals.off = 0
    BY <1>1 DEF NoLocals, Locals, Ops
  <2>3. Call(g, "check", locals)
    BY <2>1
  <2> HIDE DEF locals
  <2> QED BY <2>2, <2>3, CallStep
<1>4. CASE CallEqualTo(g)
  <2> DEFINE locals == [NoLocals EXCEPT !.op = "EqualTo"]
  <2>2. /\ locals \in Locals /\ locals.seen = <<>> /\ locals.i = 0 /\ locals.w = 0
        /\ locals.op = "EqualTo" /\ locals.off = 0
    BY <1>1 DEF NoLocals, Locals, Ops
  <2>3. Call(g, "rlock", locals)
    BY <1>4 DEF CallEqualTo
  <2> HIDE DEF locals
  <2> QED BY <2>2, <2>3, CallStep
<1>5. CASE CallSlice(g)
  <2>1. PICK w \in Widths : Call(g, "check", [NoLocals EXCEPT !.op = "slice", !.w = w])
    BY <1>5 DEF CallSlice
  <2> DEFINE locals == [NoLocals EXCEPT !.op = "slice", !.w = w]
  <2>2. /\ locals \in Locals /\ locals.seen = <<>> /\ locals.i = 0 /\ locals.w = w
        /\ locals.op = "slice" /\ locals.off = 0
    BY <1>1 DEF NoLocals, Locals, Ops
  <2>3. Call(g, "check", locals)
    BY <2>1
  <2> HIDE DEF locals
  <2> QED BY <2>2, <2>3, CallStep
<1>6. CASE CallArray(g)
  <2>1. PICK w \in Widths : Call(g, "check", [NoLocals EXCEPT !.op = "array", !.w = w])
    BY <1>6 DEF CallArray
  <2> DEFINE locals == [NoLocals EXCEPT !.op = "array", !.w = w]
  <2>2. /\ locals \in Locals /\ locals.seen = <<>> /\ locals.i = 0 /\ locals.w = w
        /\ locals.op = "array" /\ locals.off = 0
    BY <1>1 DEF NoLocals, Locals, Ops
  <2>3. Call(g, "check", locals)
    BY <2>1
  <2> HIDE DEF locals
  <2> QED BY <2>2, <2>3, CallStep
<1>7. CASE CallInt8(g)
  <2> DEFINE locals == [NoLocals EXCEPT !.op = "Int8", !.w = 1]
  <2>2. /\ locals \in Locals /\ locals.seen = <<>> /\ locals.i = 0 /\ locals.w = 1
        /\ locals.op = "Int8" /\ locals.off = 0
    BY <1>1 DEF NoLocals, Locals, Ops
  <2>3. Call(g, "check", locals)
    BY <1>7 DEF CallInt8
  <2> HIDE DEF locals
  <2> QED BY <2>2, <2>3, CallStep
<1> QED BY <1>2, <1>3, <1>4, <1>5, <1>6, <1>7

(* Every step keeps the invariant. *)
LEMMA Inductive == ASSUME IInv, [Next]_vars PROVE IInv'
<1>1. CASE UNCHANGED vars
  BY <1>1 DEF vars, IInv, TypeInv, TypeOK, LockInv, MethodInv, LateInv, SourceInv, WriteInv,
     PhaseInv, FromBytesInv, FaultInv
<1>2. ASSUME status = "running", NEW g \in Goroutines, Begin(g) PROVE IInv'
  BY <1>2, NewStep, ProtectStep, DestroyStep, CallsStep DEF Begin
<1>3. ASSUME status = "running", NEW g \in Goroutines, FreezeNew(g) PROVE IInv'
  BY <1>3, PublishStep DEF FreezeNew
<1>4. ASSUME status = "running", NEW g \in Goroutines, Step(g) PROVE IInv'
  BY <1>3, <1>4, CheckSizeStep, CheckStep, LockStep, WriteStep, WriteEndStep, ReadLockStep,
     ReadStep, ReturnStep DEF Step
<1> QED BY <1>1, <1>2, <1>4 DEF Next

(* The inductive invariant holds in every state, however the methods of     *)
(* buffer.go overlap.                                                       *)
THEOREM Invariance == Spec => []IInv
<1>1. Init => IInv
  BY InitEstablishes
<1>2. IInv /\ [Next]_vars => IInv'
  BY Inductive
<1> QED BY <1>1, <1>2, PTL DEF Spec

-----------------------------------------------------------------------------
(* No method reads or writes memory that was released: whoever destroys the *)
(* buffer waits for the lock (core/buffer.go:195, buffer.go:271).           *)
THEOREM AccessIsSafe == Spec => []SafeAccess
<1>1. IInv => SafeAccess
  BY DEF IInv, TypeInv, FaultInv, SafeAccess
<1> QED BY <1>1, Invariance, PTL

(* A Move wipes its source unless the buffer was gone, and what             *)
(* NewBufferFromBytes returns is its source or nothing (buffer.go:97-107,   *)
(* 278-297).                                                                *)
THEOREM MoveLeavesNothing == Spec => []MoveIsMove
<1>1. IInv => MoveIsMove
  <2> SUFFICES ASSUME IInv, NEW g \in Goroutines, pc[g] = "returned", my[g].op = "MoveAt"
               PROVE  /\ my[g].late \/ Range(source[g]) = {Zero}
                      /\ phase = "making" => data \in {<<>>, my[g].src} /\ Len(data) \in {0, Len(source[g])}
    BY DEF MoveIsMove
  <2>1. CASE ~my[g].late
    <3>1. /\ source[g] \in Seq(Byte) /\ source[g] # <<>> /\ DOMAIN source[g] = 1..Len(source[g])
          /\ Len(source[g]) \in Nat \ {0} /\ \A k \in 1..Len(source[g]) : source[g][k] = Zero
      BY <2>1, LenProperties, EmptySeq DEF IInv, TypeInv, SourceInv
    <3> QED BY <3>1 DEF IInv, FromBytesInv, Range
  <2>2. CASE my[g].late
    BY <2>2 DEF IInv, FromBytesInv
  <2> QED BY <2>1, <2>2
<1> QED BY <1>1, Invariance, PTL

(* Only a slice at an offset and Int8 can be out of range, and only if the  *)
(* buffer was destroyed after the method's own check (buffer.go:274, 295,   *)
(* 486).                                                                    *)
THEOREM OnlyKnownPanics == Spec => []PanicsAreKnown
<1>1. IInv => PanicsAreKnown
  BY DEF IInv, MethodInv, LateInv, PanicsAreKnown
<1> QED BY <1>1, Invariance, PTL

-----------------------------------------------------------------------------
(* What the goroutines are looking at. *)
Seen == [g \in Goroutines |-> my[g].seen]

(* Steps that nobody can notice: the buffer is not made yet, or no writer   *)
(* is at work on it and its bytes stay, or the same write goes on.          *)
LEMMA Unnoticed ==
  ASSUME \A h \in Goroutines : my'[h].seen = my[h].seen,
         \/ phase # "made" /\ phase' # "made"
         \/ writer = NoG /\ writer' = NoG /\ UNCHANGED <<phase, data>>
         \/ /\ UNCHANGED <<phase, data, mutable, writer>>
            /\ writer # NoG => my'[writer].src = my[writer].src /\ my'[writer].off = my[writer].off
  PROVE  UNCHANGED C!vars
<1>1. Seen' = Seen
  BY DEF Seen
<1>2. Shown' = Shown
  <2>1. CASE phase # "made" /\ phase' # "made"
    BY <2>1 DEF Shown
  <2>2. CASE writer = NoG /\ writer' = NoG /\ UNCHANGED <<phase, data>>
    BY <2>2 DEF Shown
  <2>3. CASE /\ UNCHANGED <<phase, data, mutable, writer>>
             /\ writer # NoG => my'[writer].src = my[writer].src /\ my'[writer].off = my[writer].off
    BY <2>3 DEF Shown
  <2> QED BY <2>1, <2>2, <2>3
<1> QED BY <1>1, <1>2 DEF C!vars, Seen

(* The initial state of the buffer is the initial state of the cell. *)
LEMMA CellInit == Init => C!Init
BY DEF Init, C!Init, Shown, NoLocals

(* A constructor that only allocates publishes the buffer, Destroy empties  *)
(* it, and the beginning of a method is not noticed.                        *)
LEMMA CellBegin ==
  ASSUME IInv, IInv', status = "running", NEW g \in Goroutines, Begin(g)
  PROVE  [C!Next]_C!vars
<1> USE LockedBufferAssumption, HiddenAssumption
<1>1. CASE NewBuffer(g)
  <2>1. /\ phase = "none" /\ phase' = "made" /\ UNCHANGED <<writer, my>> /\ writer = NoG
        /\ data' \in Seq(Byte)
    BY <1>1 DEF NewBuffer, locks, IInv, TypeInv, TypeOK, LockInv, PhaseInv
  <2>2. Shown = Hidden /\ Shown' = data' /\ Seen' = Seen
    BY <2>1 DEF Shown, Seen
  <2>3. C!Publish
    BY <2>1, <2>2 DEF C!Publish, Seen
  <2> QED BY <2>3 DEF C!Next
<1>2. CASE NewBufferFromBytes(g) \/ NewBufferRandom(g)
  <2>1. phase = "none" /\ phase' = "making"
    BY <1>2 DEF NewBufferFromBytes, NewBufferRandom
  <2>2. \A h \in Goroutines : my'[h].seen = my[h].seen
    BY <2>1 DEF IInv, PhaseInv
  <2> QED BY <2>1, <2>2, Unnoticed
<1>3. CASE Freeze(g) \/ Melt(g)
  <2>1. writer = NoG /\ writer' = NoG /\ UNCHANGED <<phase, data, my>>
    BY <1>3 DEF Freeze, Melt, Quiet, locks
  <2> QED BY <2>1, Unnoticed
<1>4. CASE Destroy(g)
  <2>1. writer = NoG /\ writer' = NoG /\ data' = <<>> /\ UNCHANGED <<phase, my>>
    BY <1>4 DEF Destroy, Destroyable, Quiet, locks
  <2>2. CASE phase # "made"
    BY <2>1, <2>2, Unnoticed
  <2>3. CASE phase = "made"
    <3>1. Shown = data /\ Shown' = <<>> /\ Seen' = Seen /\ data \in Seq(Byte)
      BY <2>1, <2>3 DEF Shown, Seen, IInv, TypeInv, TypeOK
    <3>2. C!Destroy
      BY <3>1 DEF C!Destroy, Seen
    <3> QED BY <3>2 DEF C!Next
  <2> QED BY <2>2, <2>3
<1>5. ASSUME NEW l \in {"check", "rlock"}, NEW locals, Call(g, l, locals) PROVE UNCHANGED C!vars
  <2>1. /\ pc[g] = "idle" /\ pc' = [pc EXCEPT ![g] = l] /\ UNCHANGED <<phase, data, mutable, writer>>
        /\ my' = [my EXCEPT ![g] = [locals EXCEPT !.late = ~alive]]
    BY <1>5 DEF Call, Goto, Local, buffer, locks
  <2>2. writer # g /\ \A h \in Goroutines \ {g} : my'[h] = my[h]
    BY <2>1 DEF IInv, LockInv, TypeInv
  <2>3. my[g].seen = <<>> /\ my'[g].seen = <<>>
    BY <2>1 DEF IInv, MethodInv, NoLocals, TypeInv, TypeOK
  <2>4. \A h \in Goroutines : my'[h].seen = my[h].seen
    BY <2>2, <2>3
  <2> QED BY <2>1, <2>2, <2>4, Unnoticed DEF IInv, TypeInv, TypeOK
<1> QED BY <1>1, <1>2, <1>3, <1>4, <1>5
        DEF Begin, CallWrite, CallFill, CallEqualTo, CallSlice, CallArray, CallInt8

(* A method that writes takes effect when it gets the lock: a Copy or Move  *)
(* is a store of its whole source, a Wipe or Scramble overwrites all, and   *)
(* writing to a frozen buffer has no effect but the fault.                  *)
LEMMA CellLock ==
  ASSUME IInv, IInv', status = "running", NEW g \in Goroutines, Lock(g)
  PROVE  [C!Next]_C!vars
<1> USE LockedBufferAssumption, HiddenAssumption
<1>1. /\ pc[g] = "lock" /\ writer = NoG /\ UNCHANGED <<phase, data, mutable>>
  BY DEF Lock, Quiet, buffer
<1>2. my[g] \in Locals /\ data \in Seq(Byte) /\ Len(data) \in Nat /\ DOMAIN data = 1..Len(data)
  BY LenProperties DEF IInv, TypeInv, TypeOK
<1>3. CASE writer' = NoG /\ UNCHANGED my
  BY <1>1, <1>3, Unnoticed
<1>4. CASE /\ my[g].off <= Len(data) /\ writer' = g /\ my' = [my EXCEPT ![g].src = Payload(g)]
  <2> DEFINE payload == Payload(g)
             off == my[g].off
  <2>1. \A h \in Goroutines : my'[h].seen = my[h].seen
    BY <1>4 DEF IInv, TypeInv, Locals
  <2>2. my'[g].src = payload /\ my'[g].off = off
    BY <1>4 DEF IInv, TypeInv, Locals
  <2>3. CASE phase # "made"
    BY <1>1, <2>1, <2>3, Unnoticed
  <2>4. CASE phase = "made" /\ ~mutable
    <3>1. Shown = data /\ Shown' = data /\ Seen' = Seen
      BY <1>1, <2>1, <2>4 DEF Shown, Seen
    <3> QED BY <3>1 DEF C!vars, Seen
  <2>5. CASE phase = "made" /\ mutable
    <3>1. /\ Shown = data /\ Seen' = Seen
          /\ Shown' = [k \in 1..Len(data) |->
                         IF off < k /\ k <= off + Len(payload) THEN payload[k - off] ELSE data[k]]
      <4> HIDE DEF payload, off
      <4>1. writer' = g /\ g # NoG /\ data' = data /\ mutable' /\ phase' = "made"
        BY <1>1, <1>4, <2>5
      <4>2. Shown = data
        BY <1>1, <2>5 DEF Shown
      <4>3. Seen' = Seen
        BY <2>1 DEF Seen
      <4> QED BY <1>2, <2>2, <4>1, <4>2, <4>3 DEF Shown
    <3>2. off \in Nat /\ payload \in Seq(Byte) /\ Len(payload) \in Nat
      BY <1>1, <1>2, <1>4, PayloadFits, LenProperties DEF IInv, Locals
    <3>3. CASE my[g].op \in {"CopyAt", "MoveAt"}
      <4> DEFINE src == my[g].src
      <4>1. src \in Sources /\ off \in Offsets /\ Len(src) \in Nat
        BY <1>1, <2>5, <3>3, SourceBytes DEF IInv, SourceInv
      <4>2. /\ Len(payload) = Fits(Len(src), Len(data) - off)
            /\ \A k \in 1..Len(payload) : payload[k] = src[k]
        BY <1>1, <1>4, <3>3, PayloadFits DEF IInv
      <4> HIDE DEF payload, off, src
      <4>3. ASSUME NEW k \in 1..Len(data)
            PROVE  (IF off < k /\ k <= off + Len(payload) THEN payload[k - off] ELSE data[k])
                 = (IF off < k /\ k <= off + Len(src) THEN src[k - off] ELSE data[k])
        <5>1. off < k => (k <= off + Len(payload) <=> k <= off + Len(src))
          <6>1. CASE Len(src) <= Len(data) - off
            BY <4>2, <6>1 DEF Fits
          <6>2. CASE ~(Len(src) <= Len(data) - off)
            <7>1. Len(payload) = Len(data) - off
              BY <4>2, <6>2 DEF Fits
            <7> QED BY <1>2, <3>2, <4>1, <6>2, <7>1
          <6> QED BY <6>1, <6>2
        <5>2. off < k /\ k <= off + Len(payload) => payload[k - off] = src[k - off]
          BY <1>2, <3>2, <4>2
        <5> QED BY <5>1, <5>2
      <4>4. Shown' = [k \in 1..Len(data) |->
                        IF off < k /\ k <= off + Len(src) THEN src[k - off] ELSE data[k]]
        BY <3>1, <4>3
      <4>5. Shown' = C!Overlay(Shown, off, src)
        BY <1>2, <3>1, <4>4 DEF C!Overlay
      <4>6. C!Store
        BY <1>2, <3>1, <4>1, <4>5 DEF C!Store, Seen
      <4> QED BY <4>6 DEF C!Next
    <3>4. ASSUME NEW byte \in {Zero, Random}, payload = Bytes(Len(data), byte), off = 0
          PROVE  C!Next
      <4>1. Len(payload) = Len(data) /\ \A k \in 1..Len(data) : payload[k] = byte
        BY <1>2, <3>4, EqualBytes, FillBytes
      <4> HIDE DEF payload, off
      <4>2. ASSUME NEW k \in 1..Len(data)
            PROVE  (IF off < k /\ k <= off + Len(payload) THEN payload[k - off] ELSE data[k]) = byte
        BY <1>2, <3>4, <4>1
      <4>3. Shown' = [k \in 1..Len(data) |-> byte]
        BY <3>1, <4>2
      <4>4. Shown' = C!Filled(Shown, byte)
        BY <1>2, <3>1, <4>3 DEF C!Filled
      <4>5. C!Fill
        BY <1>2, <3>1, <4>4 DEF C!Fill, Seen
      <4> QED BY <4>5 DEF C!Next
    <3>5. CASE my[g].op \in {"Wipe", "Scramble"}
      <4>1. off = 0
        BY <3>5 DEF IInv, MethodInv
      <4>2. payload = Bytes(Len(data), Zero) \/ payload = Bytes(Len(data), Random)
        BY <1>1, <1>4, <3>5, PayloadFits DEF IInv
      <4> QED BY <3>4, <4>1, <4>2
    <3> QED BY <1>1, <3>3, <3>5 DEF IInv, MethodInv
  <2> QED BY <2>3, <2>4, <2>5
<1> QED BY <1>1, <1>3, <1>4 DEF Lock, WriteLock, PanicUnlock

(* The bytes arrive one by one in a buffer that already shows them. *)
LEMMA CellWrite ==
  ASSUME IInv, IInv', status = "running", NEW g \in Goroutines, Write(g)
  PROVE  UNCHANGED C!vars
<1> USE LockedBufferAssumption
<1> DEFINE at == my[g].off + my[g].i + 1
           new == [data EXCEPT ![at] = my[g].src[my[g].i + 1]]
           src == my[g].src
           off == my[g].off
<1>1. pc[g] = "write" /\ my[g].i < Len(src) /\ writer = g
  BY DEF Write, IInv, LockInv
<1>2. CASE Fault
  BY <1>2, Unnoticed DEF Fault, buffer, locks
<1>3. CASE /\ mutable /\ data' = new /\ my' = [my EXCEPT ![g].i = @ + 1]
           /\ UNCHANGED <<phase, mutable, writer>>
  <2>1. /\ at \in 1..Len(data) /\ new \in Seq(Byte) /\ Len(new) = Len(data)
        /\ \A k \in 1..Len(data) : new[k] = IF k = at THEN src[my[g].i + 1] ELSE data[k]
    BY <1>1, OneByte DEF IInv
  <2>2. /\ DOMAIN data = 1..Len(data) /\ DOMAIN new = 1..Len(data) /\ Len(data) \in Nat
        /\ off \in Nat /\ my[g].i \in Nat /\ Len(src) \in Nat
    BY <2>1, LenProperties DEF IInv, TypeInv, TypeOK, Locals
  <2>3. my'[g].src = src /\ my'[g].off = off /\ \A h \in Goroutines : my'[h].seen = my[h].seen
    BY <1>3 DEF IInv, TypeInv, Locals
  <2>4. CASE phase # "made"
    BY <1>3, <2>3, <2>4, Unnoticed
  <2>5. CASE phase = "made"
    <3>1. Shown = [k \in 1..Len(data) |->
                     IF off < k /\ k <= off + Len(src) THEN src[k - off] ELSE data[k]]
      BY <1>1, <1>3, <2>2, <2>5 DEF Shown
    <3>2. Shown' = [k \in 1..Len(data) |->
                      IF off < k /\ k <= off + Len(src) THEN src[k - off] ELSE new[k]]
      BY <1>1, <1>3, <2>2, <2>3, <2>5 DEF Shown
    <3> HIDE DEF new, src, off
    <3>3. ASSUME NEW k \in 1..Len(data)
          PROVE  (IF off < k /\ k <= off + Len(src) THEN src[k - off] ELSE data[k])
               = (IF off < k /\ k <= off + Len(src) THEN src[k - off] ELSE new[k])
      <4>1. k = at => off < k /\ k <= off + Len(src)
        BY <1>1, <2>2, SMTT(40) DEF off
      <4> QED BY <2>1, <4>1
    <3>4. Shown' = Shown
      BY <3>1, <3>2, <3>3
    <3>5. Seen' = Seen
      BY <2>3 DEF Seen
    <3> QED BY <3>4, <3>5 DEF C!vars, Seen
  <2> QED BY <2>4, <2>5
<1> QED BY <1>2, <1>3 DEF Write, locks

(* When the lock is given back, the buffer holds what it has shown. *)
LEMMA CellWriteEnd ==
  ASSUME IInv, IInv', status = "running", NEW g \in Goroutines, WriteEnd(g)
  PROVE  UNCHANGED C!vars
<1> USE LockedBufferAssumption
<1> DEFINE src == my[g].src
           off == my[g].off
<1>1. /\ pc[g] = "write" /\ my[g].i = Len(src) /\ writer = g /\ writer' = NoG
      /\ UNCHANGED <<phase, data, mutable, my>>
  BY DEF WriteEnd, buffer, IInv, LockInv
<1>2. CASE phase = "made" /\ mutable
  <2>1. /\ data \in Seq(Byte) /\ DOMAIN data = 1..Len(data) /\ Len(data) \in Nat
        /\ data = [k \in 1..Len(data) |-> data[k]]
        /\ off \in Nat /\ Len(src) \in Nat
    BY LenProperties DEF IInv, TypeInv, TypeOK, Locals
  <2>2. Shown = [k \in 1..Len(data) |->
                   IF off < k /\ k <= off + Len(src) THEN src[k - off] ELSE data[k]]
    BY <1>1, <1>2, <2>1 DEF Shown
  <2>3. Shown' = data
    BY <1>1, <1>2 DEF Shown
  <2>4. \A k \in 1..Len(src) : data[off + k] = src[k]
    BY <1>1 DEF IInv, WriteInv
  <2> HIDE DEF src, off
  <2>5. ASSUME NEW k \in 1..Len(data)
        PROVE  (IF off < k /\ k <= off + Len(src) THEN src[k - off] ELSE data[k]) = data[k]
    <3>1. CASE off < k /\ k <= off + Len(src)
      <4>1. k - off \in 1..Len(src) /\ off + (k - off) = k
        BY <2>1, <3>1
      <4> QED BY <2>4, <3>1, <4>1
    <3>2. CASE ~(off < k /\ k <= off + Len(src))
      BY <3>2
    <3> QED BY <3>1, <3>2
  <2>6. Shown' = Shown
    BY <2>1, <2>2, <2>3, <2>5
  <2> QED BY <1>1, <2>6 DEF C!vars
<1>3. CASE ~(phase = "made" /\ mutable)
  <2>1. Shown' = Shown
    BY <1>1, <1>3 DEF Shown
  <2> QED BY <1>1, <2>1 DEF C!vars
<1> QED BY <1>2, <1>3

(* The other statements of the methods: the end of a constructor publishes  *)
(* the buffer, a look at it is a look at the cell, and a return looks away. *)
LEMMA CellOther ==
  ASSUME IInv, IInv', status = "running", NEW g \in Goroutines,
         \/ CheckSize(g) \/ FreezeNew(g) \/ Check(g) \/ RLock(g) \/ Read(g) \/ RUnlock(g)
         \/ Return(g)
  PROVE  [C!Next]_C!vars
<1> USE LockedBufferAssumption, HiddenAssumption
<1>1. ASSUME phase = "making", phase' = "made", UNCHANGED data, writer' = NoG, Leave(g)
      PROVE  C!Next
  <2>1. Shown = Hidden /\ Shown' = data /\ data \in Seq(Byte)
    BY <1>1 DEF Shown, IInv, TypeInv, TypeOK
  <2>2. Seen' = Seen
    BY <1>1 DEF Seen, IInv, PhaseInv, TypeInv, Leave, Local, NoLocals
  <2>3. C!Publish
    BY <2>1, <2>2 DEF C!Publish, Seen
  <2> QED BY <2>3 DEF C!Next
<1>2. CASE CheckSize(g)
  <2>1. CASE phase' = "made" /\ Leave(g)
    <3>1. phase = "making" /\ UNCHANGED data /\ writer' = writer
      BY <1>2 DEF CheckSize, buffer, locks, IInv, PhaseInv
    <3>2. \A h \in Goroutines : pc[h] # "write"
      BY <1>2, <3>1 DEF CheckSize, IInv, PhaseInv
    <3>3. writer = NoG
      BY <3>2 DEF IInv, LockInv, TypeInv, TypeOK
    <3> QED BY <1>1, <2>1, <3>1, <3>3
  <2>2. CASE UNCHANGED <<phase, my, source>>
    BY <1>2, <2>2, Unnoticed DEF CheckSize, buffer, locks
  <2> QED BY <1>2, <2>1, <2>2 DEF CheckSize
<1>3. CASE FreezeNew(g)
  <2>1. phase = "making" /\ phase' = "made" /\ UNCHANGED data /\ writer' = NoG /\ Leave(g)
    BY <1>3 DEF FreezeNew, Quiet, locks
  <2> QED BY <1>1, <2>1
<1>4. CASE Check(g)
  <2>1. writer = NoG /\ writer' = NoG /\ UNCHANGED <<phase, data>>
    BY <1>4 DEF Check, buffer, locks
  <2>2. \A h \in Goroutines : my'[h].seen = my[h].seen
    BY <1>4 DEF Check, IInv, TypeInv, Locals
  <2> QED BY <2>1, <2>2, Unnoticed
<1>5. CASE RLock(g) \/ RUnlock(g)
  BY <1>5, Unnoticed DEF RLock, RUnlock, buffer
<1>6. CASE Read(g)
  <2>1. /\ phase = "made" /\ pc[g] = "read" /\ UNCHANGED <<phase, data, mutable, writer>>
    BY <1>6 DEF Read, buffer, IInv, PhaseInv, TypeInv, TypeOK
  <2>2. writer = NoG
    BY <2>1 DEF IInv, LockInv
  <2>3. CASE UNCHANGED my
    BY <2>1, <2>3, Unnoticed
  <2>4. CASE my' = [my EXCEPT ![g].seen = SubSeq(data, 1, Covered(g))]
    <3>1. Shown = data /\ Shown' = data /\ data \in Seq(Byte) /\ Len(data) \in Nat
      BY <2>1, <2>2, LenProperties DEF Shown, IInv, TypeInv, TypeOK
    <3>2. Covered(g) \in 0..Len(data)
      BY <3>1, CoveredFits DEF IInv
    <3>3. Seen' = [Seen EXCEPT ![g] = SubSeq(data, 1, Covered(g))]
      BY <2>4 DEF Seen, IInv, TypeInv, Locals
    <3>4. C!Look(g)
      BY <3>1, <3>2, <3>3 DEF C!Look, Seen
    <3> QED BY <3>4 DEF C!Next
  <2> QED BY <1>6, <2>3, <2>4 DEF Read
<1>7. CASE Return(g)
  <2>1. /\ my' = [my EXCEPT ![g] = NoLocals] /\ UNCHANGED <<phase, data, mutable, writer>>
        /\ pc[g] \in {"returned", "panicked"}
    BY <1>7 DEF Return, Leave, Local, buffer, locks
  <2>2. writer # g /\ \A h \in Goroutines \ {g} : my'[h] = my[h]
    BY <2>1 DEF IInv, LockInv, TypeInv
  <2>3. Shown' = Shown
    BY <2>1, <2>2 DEF Shown, IInv, TypeInv, TypeOK
  <2>4. Seen' = [Seen EXCEPT ![g] = <<>>]
    BY <2>1 DEF Seen, IInv, TypeInv, NoLocals
  <2>5. C!LookAway(g)
    BY <2>3, <2>4 DEF C!LookAway, Seen
  <2> QED BY <2>5 DEF C!Next
<1> QED BY <1>2, <1>3, <1>4, <1>5, <1>6, <1>7

(* The LockedBuffer implements the cell: every method takes effect in one   *)
(* instant between its call and its return, for any number of goroutines,   *)
(* any slices and any offsets (buffer.go:256-359).                          *)
THEOREM Linearizable == Spec => IsCell
<1>1. Init => C!Init
  BY CellInit
<1>2. IInv /\ IInv' /\ [Next]_vars => [C!Next]_C!vars
  <2> SUFFICES ASSUME IInv, IInv', [Next]_vars PROVE [C!Next]_C!vars
    OBVIOUS
  <2>1. CASE UNCHANGED vars
    BY <2>1, Unnoticed DEF vars
  <2>2. CASE Next
    <3>1. PICK g \in Goroutines : status = "running" /\ (Begin(g) \/ Step(g))
      BY <2>2 DEF Next
    <3> QED BY <3>1, CellBegin, CellLock, CellWrite, CellWriteEnd, CellOther DEF Step
  <2> QED BY <2>1, <2>2
<1> QED BY <1>1, <1>2, Invariance, PTL DEF Spec, IsCell, C!Spec
=============================================================================
