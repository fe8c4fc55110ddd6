---------------------------- MODULE BufferProofs ----------------------------
(***************************************************************************)
(* IInv of module Buffer is an inductive invariant, for any number of      *)
(* goroutines, and with it the safety properties of the Buffer.            *)
(***************************************************************************)
EXTENDS Buffer, TLAPS

(* The updates that the actions make to the pages stay within Memory. *)
LEMMA MemoryUpdates ==
  ASSUME NEW m \in Memory
  PROVE  /\ [m EXCEPT !.inner = "ro"] \in Memory
         /\ [m EXCEPT !.inner = "rw"] \in Memory
         /\ [m EXCEPT !.data = "zero"] \in Memory
         /\ [m EXCEPT !.data = "secret"] \in Memory
         /\ [m EXCEPT !.canary = "torn"] \in Memory
         /\ [m EXCEPT !.mlocked = FALSE] \in Memory
         /\ [m EXCEPT !.inner = "rw", !.guards = "rw"] \in Memory
         /\ [m EXCEPT !.inner = "rw", !.data = "zero"] \in Memory
         /\ [m EXCEPT !.data = "zero", !.canary = "zero"] \in Memory
BY DEF Memory

(* So does what NewBuffer leaves behind when it fails. *)
LEMMA Leftovers ==
  /\ Unmapped \in Memory
  /\ [Unmapped EXCEPT !.mapped = TRUE, !.inner = "rw", !.guards = "rw"] \in Memory
  /\ [Unmapped EXCEPT !.mapped = TRUE, !.mlocked = TRUE, !.inner = "rw",
                      !.guards = "rw", !.canary = "intact"] \in Memory
BY DEF Unmapped, Memory

(* Where destroy() goes when it fails. *)
LEMMA FailsWithin ==
  ASSUME TypeOK, NEW g \in Goroutines, DestroyFails(g)
  PROVE  /\ writer' \in Goroutines \cup {NoG} /\ pc' \in [Goroutines -> Labels]
         /\ panics' \in [Goroutines -> BOOLEAN]
BY DEF TypeOK, DestroyFails, Labels

(* Typing is inductive by itself. *)
LEMMA TypeStep == ASSUME TypeOK, [Next]_vars PROVE TypeOK'
<1> USE BufferAssumption DEF TypeOK, Labels, Goto, fields, ctl
<1>1. CASE UNCHANGED vars
  BY <1>1 DEF vars
<1>2. ASSUME NEW g \in Goroutines, Call(g) PROVE TypeOK'
  <2>1. CASE NewBuffer(g)
    <3>1. mem' \in Memory
      BY <2>1 DEF NewBuffer, Memory
    <3> QED BY <2>1, <3>1 DEF NewBuffer
  <2>2. CASE NewBufferFails(g)
    <3>1. mem' \in Memory
      BY <2>2, Leftovers DEF NewBufferFails
    <3> QED BY <2>2, <3>1 DEF NewBufferFails, Panic
  <2>3. CASE Freeze(g)
    <3>1. mem' \in Memory
      BY <2>3, MemoryUpdates DEF Freeze
    <3> QED BY <2>3, <3>1 DEF Freeze, Panic
  <2>4. CASE Melt(g)
    <3>1. mem' \in Memory
      BY <2>4, MemoryUpdates DEF Melt
    <3> QED BY <2>4, <3>1 DEF Melt, Panic
  <2>5. CASE LockedWrite(g)
    <3>1. mem' = [mem EXCEPT !.data = "zero"] \/ mem' = [mem EXCEPT !.data = "secret"]
      BY <2>5 DEF LockedWrite
    <3>2. mem' \in Memory
      BY <3>1, MemoryUpdates
    <3> QED BY <2>5, <3>2 DEF LockedWrite
  <2>6. CASE UnlockedWrite(g) \/ Underflow(g)
    <3>1. mem' \in Memory
      BY <2>6, MemoryUpdates DEF UnlockedWrite, Underflow
    <3> QED BY <2>6, <3>1 DEF UnlockedWrite, Underflow
  <2>7. CASE Destroy(g) \/ CofferDestroy(g)
    BY <2>7 DEF Destroy, CofferDestroy
  <2>8. CASE Purge(g) \/ Recover(g)
    BY <2>8 DEF Purge, Recover
  <2> QED BY <1>2, <2>1, <2>2, <2>3, <2>4, <2>5, <2>6, <2>7, <2>8 DEF Call
<1>3. ASSUME NEW g \in Goroutines, DestroyStep(g) PROVE TypeOK'
  <2>1. CASE DestroyLock(g)
    BY <2>1 DEF DestroyLock, AfterDestroy
  <2>2. CASE DestroyProtect(g)
    <3>1. mem' \in Memory
      BY <2>2, MemoryUpdates DEF DestroyProtect
    <3>2. CASE DestroyFails(g) /\ UNCHANGED <<mem, mutable>>
      BY <2>2, <3>1, <3>2, FailsWithin DEF DestroyProtect
    <3>3. CASE mutable' = TRUE /\ Goto(g, "verify") /\ UNCHANGED <<writer, panics>>
      BY <2>2, <3>1, <3>3 DEF DestroyProtect
    <3> QED BY <2>2, <3>2, <3>3 DEF DestroyProtect
  <2>3. CASE DestroyVerify(g)
    <3>1. mem' \in Memory
      BY <2>3, MemoryUpdates DEF DestroyVerify
    <3> QED BY <2>3, <3>1, FailsWithin DEF DestroyVerify
  <2>4. CASE DestroyWipe(g)
    <3>1. mem' \in Memory
      BY <2>4, MemoryUpdates DEF DestroyWipe
    <3> QED BY <2>4, <3>1 DEF DestroyWipe
  <2>5. CASE DestroyMunlock(g)
    <3>1. mem' \in Memory
      BY <2>5, MemoryUpdates DEF DestroyMunlock
    <3> QED BY <2>5, <3>1, FailsWithin DEF DestroyMunlock
  <2>6. CASE DestroyFree(g)
    <3>1. mem' \in Memory /\ released' \in Memory
      BY <2>6, Leftovers DEF DestroyFree
    <3> QED BY <2>6, <3>1, FailsWithin DEF DestroyFree
  <2>7. CASE DestroyReset(g)
    BY <2>7 DEF DestroyReset, AfterDestroy
  <2>8. CASE Remove(g)
    BY <2>8 DEF Remove
  <2> QED BY <1>3, <2>1, <2>2, <2>3, <2>4, <2>5, <2>6, <2>7, <2>8 DEF DestroyStep
<1>4. ASSUME NEW g \in Goroutines, PurgeStep(g) PROVE TypeOK'
  <2>1. CASE PurgeFlush(g)
    BY <2>1 DEF PurgeFlush
  <2>2. CASE PurgeFallback(g)
    <3>1. mem' \in Memory
      BY <2>2, MemoryUpdates DEF PurgeFallback
    <3> QED BY <2>2, <3>1 DEF PurgeFallback
  <2>3. CASE PurgeReturns(g)
    BY <2>3 DEF PurgeReturns
  <2> QED BY <1>4, <2>1, <2>2, <2>3 DEF PurgeStep
<1> QED BY <1>1, <1>2, <1>3, <1>4 DEF Next

(* Calls leave StateInv intact: none of them starts before the lock is free *)
(* and none writes to pages that are not writable.                          *)
LEMMA CallStep ==
  ASSUME IInv, TypeOK', NEW g \in Goroutines, Call(g) PROVE StateInv'
<1> USE BufferAssumption
    DEF IInv, StateInv, TypeOK, Labels, Goto, fields, ctl, LockInv, FieldInv, PageInv,
        ProtectionInv, WipeInv, AccountedFor, NeverLost, WipedAsLastResort, Destroying, Critical
<1>1. CASE NewBuffer(g)
  BY <1>1 DEF NewBuffer, Memory
<1>2. CASE NewBufferFails(g)
  BY <1>2 DEF NewBufferFails, Panic, Unmapped, Memory
<1>3. CASE Freeze(g)
  <2>1. CASE /\ mem' = [mem EXCEPT !.inner = "ro"]
             /\ mutable' = FALSE /\ UNCHANGED <<pc, panics>>
    <3>1. /\ mem'.inner = "ro" /\ mem'.data = mem.data
          /\ mem'.mapped = mem.mapped /\ mem'.mlocked = mem.mlocked
      BY <2>1 DEF Memory
    <3> QED BY <1>3, <2>1, <3>1 DEF Freeze
  <2>2. CASE Panic(g) /\ UNCHANGED <<mem, mutable>>
    BY <1>3, <2>2 DEF Freeze, Panic
  <2> QED BY <1>3, <2>1, <2>2 DEF Freeze
<1>4. CASE Melt(g)
  BY <1>4 DEF Melt, Panic, Memory
<1>5. CASE LockedWrite(g)
  <2>1. PICK d \in {"zero", "secret"} : mem' = [mem EXCEPT !.data = d]
    BY <1>5 DEF LockedWrite
  <2>2. /\ mem'.inner = mem.inner
        /\ mem'.mapped = mem.mapped /\ mem'.mlocked = mem.mlocked
    BY <2>1 DEF Memory
  <2>3. \A h \in Goroutines : pc[h] \notin Critical
    BY <1>5 DEF LockedWrite
  <2>4. /\ UNCHANGED <<made, alive, mutable, slices, released, listed, writer,
                       keyMtx, pc, by, panics, gaveUp, raced>>
        /\ writer = NoG
    BY <1>5 DEF LockedWrite
  <2> QED BY <2>2, <2>3, <2>4
<1>6. CASE UnlockedWrite(g)
  BY <1>6 DEF UnlockedWrite, Memory
<1>7. CASE Underflow(g)
  BY <1>7 DEF Underflow, Memory
<1>8. CASE Destroy(g)
  BY <1>8 DEF Destroy
<1>9. CASE CofferDestroy(g)
  BY <1>9 DEF CofferDestroy
<1>10. CASE Purge(g)
  BY <1>10 DEF Purge
<1>11. CASE Recover(g)
  BY <1>11 DEF Recover
<1> QED BY <1>1, <1>2, <1>3, <1>4, <1>5, <1>6, <1>7, <1>8, <1>9, <1>10, <1>11 DEF Call

(* Every system call of destroy() preserves StateInv, whether it succeeds   *)
(* or fails.                                                                *)
LEMMA DestroySteps ==
  ASSUME IInv, TypeOK', NEW g \in Goroutines, DestroyStep(g) PROVE StateInv'
<1> USE BufferAssumption
    DEF IInv, StateInv, TypeOK, Labels, Goto, fields, ctl, LockInv, FieldInv, PageInv,
        ProtectionInv, WipeInv, AccountedFor, NeverLost, WipedAsLastResort, Destroying, Critical
<1>1. CASE DestroyLock(g)
  BY <1>1 DEF DestroyLock, AfterDestroy
<1>2. CASE DestroyProtect(g)
  <2>1. CASE /\ mem' = [mem EXCEPT !.inner = "rw", !.guards = "rw"]
             /\ mutable' = TRUE /\ Goto(g, "verify") /\ UNCHANGED <<writer, panics>>
    <3>1. /\ mem'.inner = "rw" /\ mem'.data = mem.data
          /\ mem'.mapped = mem.mapped /\ mem'.mlocked = mem.mlocked
      BY <2>1 DEF Memory
    <3> QED BY <1>2, <2>1, <3>1 DEF DestroyProtect
  <2>2. CASE DestroyFails(g) /\ UNCHANGED <<mem, mutable>>
    BY <1>2, <2>2 DEF DestroyProtect, DestroyFails
  <2> QED BY <1>2, <2>1, <2>2 DEF DestroyProtect
<1>3. CASE DestroyVerify(g)
  BY <1>3 DEF DestroyVerify, DestroyFails, Memory
<1>4. CASE DestroyWipe(g)
  BY <1>4 DEF DestroyWipe, Memory
<1>5. CASE DestroyMunlock(g)
  BY <1>5 DEF DestroyMunlock, DestroyFails, Memory
<1>6. CASE DestroyFree(g)
  BY <1>6 DEF DestroyFree, DestroyFails, Unmapped, Memory
<1>7. CASE DestroyReset(g)
  BY <1>7 DEF DestroyReset, AfterDestroy
<1>8. CASE Remove(g)
  BY <1>8 DEF Remove
<1> QED BY <1>1, <1>2, <1>3, <1>4, <1>5, <1>6, <1>7, <1>8 DEF DestroyStep

(* Purge takes the buffer out of the list and is then answerable for it.    *)
LEMMA PurgeSteps ==
  ASSUME IInv, TypeOK', NEW g \in Goroutines, PurgeStep(g) PROVE StateInv'
<1> USE BufferAssumption
    DEF IInv, StateInv, TypeOK, Labels, Goto, fields, ctl, LockInv, FieldInv, PageInv,
        ProtectionInv, WipeInv, AccountedFor, NeverLost, WipedAsLastResort, Destroying, Critical
<1>1. CASE PurgeFlush(g)
  BY <1>1 DEF PurgeFlush
<1>2. CASE PurgeFallback(g)
  <2>1. CASE ~alive /\ UNCHANGED <<mem, gaveUp>>
    BY <1>2, <2>1 DEF PurgeFallback
  <2>2. CASE alive /\ mem' = [mem EXCEPT !.inner = "rw", !.data = "zero"]
    <3>1. /\ mem'.inner = "rw" /\ mem'.data = "zero"
          /\ mem'.mapped = mem.mapped /\ mem'.mlocked = mem.mlocked
      BY <2>2 DEF Memory
    <3> QED BY <1>2, <2>2, <3>1 DEF PurgeFallback
  <2>3. CASE alive /\ ~mutable /\ gaveUp' = "warned" /\ UNCHANGED mem
    BY <1>2, <2>3 DEF PurgeFallback
  <2> QED BY <1>2, <2>1, <2>2, <2>3 DEF PurgeFallback
<1>3. CASE PurgeReturns(g)
  BY <1>3 DEF PurgeReturns
<1> QED BY <1>1, <1>2, <1>3 DEF PurgeStep

(* Before NewBuffer nothing is mapped and nobody is in a method. *)
LEMMA InitEstablishes == Init => IInv
<1> SUFFICES ASSUME Init PROVE IInv
  OBVIOUS
<1>1. TypeOK
  BY BufferAssumption DEF Init, TypeOK, Labels, Memory, Unmapped
<1>2. StateInv
  BY BufferAssumption
     DEF Init, StateInv, LockInv, FieldInv, PageInv, ProtectionInv, WipeInv,
         AccountedFor, NeverLost, WipedAsLastResort, Destroying, Critical, Unmapped
<1> QED BY <1>1, <1>2 DEF IInv

LEMMA Inductive == ASSUME IInv, [Next]_vars PROVE IInv'
<1>1. TypeOK'
  BY TypeStep DEF IInv
<1>2. CASE UNCHANGED vars
  BY <1>2 DEF vars, IInv, StateInv, TypeOK, LockInv, FieldInv, PageInv, ProtectionInv,
              WipeInv, AccountedFor, NeverLost, WipedAsLastResort, Destroying
<1>3. CASE Next
  BY <1>1, <1>3, CallStep, DestroySteps, PurgeSteps DEF Next, IInv
<1> QED BY <1>2, <1>3

-----------------------------------------------------------------------------
(* The strengthened invariant holds in every reachable state. *)
THEOREM Invariance == Spec => []IInv
<1>1. Init => IInv
  BY InitEstablishes
<1>2. IInv /\ [Next]_vars => IInv'
  BY Inductive
<1> QED BY <1>1, <1>2, PTL DEF Spec

(* Every variable keeps its type. *)
THEOREM TypeCorrect == Spec => []TypeOK
<1>1. IInv => TypeOK
  BY DEF IInv
<1> QED BY <1>1, Invariance, PTL

(* The system calls of destroy() only ever see mapped pages, under the      *)
(* lock, however many goroutines destroy the buffer (core/buffer.go:189).   *)
THEOREM MemorySafety == Spec => []NoUseAfterFree
<1>1. IInv => NoUseAfterFree
  BY DEF IInv, StateInv, LockInv, FieldInv, PageInv, NoUseAfterFree
<1> QED BY <1>1, Invariance, PTL

(* Memory goes back to the kernel unlocked, and wiped unless a store through *)
(* a kept slice hit it under the lock of destroy() (core/buffer.go:209-228). *)
THEOREM CleanRelease == Spec => []ReleasedClean
<1>1. IInv => ReleasedClean
  BY DEF IInv, StateInv, PageInv, WipeInv, ReleasedClean
<1> QED BY <1>1, Invariance, PTL

(* The mutable flag agrees with the page protection whenever the lock is    *)
(* free (core/buffer.go:121-161, 203-207).                                  *)
THEOREM HonestMutability == Spec => []WritableAsAdvertised
<1>1. IInv => WritableAsAdvertised
  BY BufferAssumption
     DEF IInv, StateInv, TypeOK, LockInv, ProtectionInv, WritableAsAdvertised, Critical
<1> QED BY <1>1, Invariance, PTL

(* A frozen, listed buffer keeps its data through every step                *)
(* (core/buffer.go:121-140): only a writable page changes, and destroy()    *)
(* and the fallback of Purge make the buffer mutable or unlist it first.    *)
THEOREM KernelImmutability == Spec => FrozenDataIsStable
<1>1. ASSUME IInv, [Next]_vars, alive, ~mutable, listed PROVE mem'.data = mem.data
  <2> USE BufferAssumption, <1>1
      DEF IInv, StateInv, TypeOK, LockInv, FieldInv, PageInv, ProtectionInv, Destroying,
          Critical, Goto
  <2>1. CASE UNCHANGED vars
    BY <2>1 DEF vars
  <2>2. ASSUME NEW g \in Goroutines, Call(g) PROVE mem'.data = mem.data
    BY <2>2 DEF Call, NewBuffer, NewBufferFails, Freeze, Melt, LockedWrite, UnlockedWrite,
                Underflow, Destroy, CofferDestroy, Purge, Recover, Memory
  <2>3. ASSUME NEW g \in Goroutines, DestroyStep(g) PROVE mem'.data = mem.data
    BY <2>3 DEF DestroyStep, DestroyLock, DestroyProtect, DestroyVerify, DestroyWipe,
                DestroyMunlock, DestroyFree, DestroyReset, Remove, Memory
  <2>4. ASSUME NEW g \in Goroutines, PurgeStep(g) PROVE mem'.data = mem.data
    BY <2>4 DEF PurgeStep, PurgeFlush, PurgeFallback, PurgeReturns
  <2> QED BY <2>1, <2>2, <2>3, <2>4 DEF Next
<1>2. IInv /\ [Next]_vars => [alive /\ ~mutable /\ listed => mem'.data = mem.data]_vars
  BY <1>1
<1> QED BY <1>2, Invariance, PTL DEF Spec, FrozenDataIsStable

(* A live buffer is listed, or some Purge is answerable for it              *)
(* (core/exit.go:30-53).                                                    *)
THEOREM Accounted == Spec => []AccountedFor
<1>1. IInv => AccountedFor
  BY DEF IInv, StateInv
<1> QED BY <1>1, Invariance, PTL
=============================================================================
