------------------------------- MODULE Buffer -------------------------------
(***************************************************************************)
(* One guarded allocation and everybody who can get at it: the Buffer of   *)
(* core/buffer.go, its entry in the package list `buffers`, and what       *)
(* Coffer.Destroy (core/coffer.go) and Purge / Panic (core/exit.go) do     *)
(* with it.  Any number of goroutines act on the same Buffer; every system *)
(* call of github.com/awnumar/memcall may fail.                            *)
(*                                                                         *)
(* The methods hold the embedded RWMutex from their first statement to     *)
(* their last, so freeze, melt and scramble are single steps; destroy is   *)
(* split at its system calls because each of them is an early return.      *)
(* Writes through a slice obtained earlier from Data() take no lock (the   *)
(* TODO on core/buffer.go:28) and happen at any moment.  A write to memory *)
(* that is not writable is an access violation that kills the process; it  *)
(* changes nothing and therefore is not a step.                            *)
(***************************************************************************)

CONSTANTS
  Goroutines,      \* goroutines sharing the buffer
  UnlockedWriters, \* those that write through a slice kept from Data()
  NoG              \* owner of a free lock

ASSUME BufferAssumption ==
  /\ NoG \notin Goroutines
  /\ UnlockedWriters \subseteq Goroutines

VARIABLES
  made,     \* "no", "yes", or "lost" when NewBuffer panicked half way
  alive,    \* Buffer.alive
  mutable,  \* Buffer.mutable
  slices,   \* data, memory, preguard, inner, postguard, canary are not nil
  mem,      \* the pages behind the slices
  released, \* what the pages held when they went back to the kernel
  listed,   \* the buffer is in buffers.list
  writer,   \* owner of the buffer's RWMutex
  keyMtx,   \* owner of core/enclave.go's keyMtx, which serialises Purge
  pc,       \* next statement of each goroutine
  by,       \* on whose behalf a goroutine runs destroy()
  panics,   \* the goroutine will panic when its Purge is over
  gaveUp,   \* "no", or what Purge managed after destroy() failed
  raced     \* history: a store hit the pages while another goroutine held the lock

vars == <<made, alive, mutable, slices, mem, released, listed, writer,
          keyMtx, pc, by, panics, gaveUp, raced>>

fields == <<made, alive, mutable, slices>>
ctl    == <<by, panics, gaveUp, raced>>

Labels == {"idle", "lock", "protect", "verify", "wipe", "munlock", "free",
           "reset", "remove", "flush", "fallback", "purged", "panicked"}

Memory == [mapped : BOOLEAN, mlocked : BOOLEAN, inner : {"none", "ro", "rw"},
           guards : {"none", "rw"}, data : {"zero", "secret"},
           canary : {"zero", "intact", "torn"}]

Unmapped == [mapped |-> FALSE, mlocked |-> FALSE, inner |-> "none",
             guards |-> "none", data |-> "zero", canary |-> "zero"]

Init ==
  /\ made = "no"
  /\ alive = FALSE
  /\ mutable = FALSE
  /\ slices = FALSE
  /\ mem = Unmapped
  /\ released = Unmapped
  /\ listed = FALSE
  /\ writer = NoG
  /\ keyMtx = NoG
  /\ pc = [g \in Goroutines |-> "idle"]
  /\ by = [g \in Goroutines |-> "Destroy"]
  /\ panics = [g \in Goroutines |-> FALSE]
  /\ gaveUp = "no"
  /\ raced = FALSE

Goto(g, l) == pc' = [pc EXCEPT ![g] = l]

(* Panic(v): run Purge, then panic. *)
Panic(g) ==
  /\ Goto(g, "flush")
  /\ panics' = [panics EXCEPT ![g] = TRUE]

-----------------------------------------------------------------------------
(* Construction.  Nobody else sees the buffer before buffers.add(b).        *)

(* NewBuffer, everything succeeds. *)
NewBuffer(g) ==
  /\ pc[g] = "idle" /\ made = "no"
  /\ mem' = [mapped |-> TRUE, mlocked |-> TRUE, inner |-> "rw",
             guards |-> "none", data |-> "zero", canary |-> "intact"]
  /\ made' = "yes" /\ alive' = TRUE /\ mutable' = TRUE /\ slices' = TRUE
  /\ listed' = TRUE
  /\ UNCHANGED <<released, writer, keyMtx, pc, ctl>>

(* NewBuffer when Alloc, Lock or a guard page's Protect fails: what has     *)
(* been set up so far stays behind, unlisted, and the caller panics.        *)
NewBufferFails(g) ==
  /\ pc[g] = "idle" /\ made = "no"
  /\ made' = "lost"
  /\ mem' \in { Unmapped,
                [Unmapped EXCEPT !.mapped = TRUE, !.inner = "rw", !.guards = "rw"],
                [Unmapped EXCEPT !.mapped = TRUE, !.mlocked = TRUE, !.inner = "rw",
                                 !.guards = "rw", !.canary = "intact"] }
  /\ Panic(g)
  /\ UNCHANGED <<alive, mutable, slices, released, listed, writer, keyMtx,
                 by, gaveUp, raced>>

-----------------------------------------------------------------------------
(* Methods whose whole body runs under the lock.                            *)

(* Faulty variant: the flag is set, the pages are left writable. *)
FreezeFlagOnly(g) ==
  /\ pc[g] = "idle" /\ made = "yes" /\ writer = NoG
  /\ alive /\ mutable
  /\ mutable' = FALSE
  /\ UNCHANGED <<made, alive, slices, mem, released, listed, writer, keyMtx, pc, ctl>>

Freeze(g) ==
  /\ pc[g] = "idle" /\ made = "yes" /\ writer = NoG
  /\ alive /\ mutable
  /\ \/ /\ mem' = [mem EXCEPT !.inner = "ro"]
        /\ mutable' = FALSE
        /\ UNCHANGED <<pc, panics>>
     \/ Panic(g) /\ UNCHANGED <<mem, mutable>>
  /\ UNCHANGED <<made, alive, slices, released, listed, writer, keyMtx, by, gaveUp, raced>>

Melt(g) ==
  /\ pc[g] = "idle" /\ made = "yes" /\ writer = NoG
  /\ alive /\ ~mutable
  /\ \/ /\ mem' = [mem EXCEPT !.inner = "rw"]
        /\ mutable' = TRUE
        /\ UNCHANGED <<pc, panics>>
     \/ Panic(g) /\ UNCHANGED <<mem, mutable>>
  /\ UNCHANGED <<made, alive, slices, released, listed, writer, keyMtx, by, gaveUp, raced>>

(* Scramble, CopyAt, MoveAt and Wipe store into b.data under the lock; on a *)
(* destroyed buffer there is nothing to store into.                         *)
LockedWrite(g) ==
  /\ pc[g] = "idle" /\ made = "yes" /\ writer = NoG
  /\ slices /\ mem.inner = "rw"
  /\ \E d \in {"zero", "secret"} : mem' = [mem EXCEPT !.data = d]
  /\ UNCHANGED <<fields, released, listed, writer, keyMtx, pc, ctl>>

(* A store through a slice kept from Data(): no lock, whatever the others do. *)
UnlockedWrite(g) ==
  /\ g \in UnlockedWriters /\ pc[g] = "idle"
  /\ made = "yes" /\ mem.inner = "rw"
  /\ mem' = [mem EXCEPT !.data = "secret"]
  /\ raced' = (raced \/ writer # NoG)
  /\ UNCHANGED <<fields, released, listed, writer, keyMtx, pc, by, panics, gaveUp>>

(* The client program runs off the front of its slice and hits the canary. *)
Underflow(g) ==
  /\ pc[g] = "idle"
  /\ made = "yes" /\ mem.inner = "rw"
  /\ mem' = [mem EXCEPT !.canary = "torn"]
  /\ UNCHANGED <<fields, released, listed, writer, keyMtx, pc, ctl>>

-----------------------------------------------------------------------------
(* destroy(), one step per system call.                                     *)

AfterDestroy(g) == IF by[g] = "Purge" THEN "purged" ELSE "remove"

(* Faulty variant: Purge tries destroy() again instead of wiping. *)
DestroyFailsRetries(g) ==
  /\ writer' = NoG
  /\ pc' = [pc EXCEPT ![g] = CASE by[g] = "Destroy" -> "flush"
                               [] by[g] = "Coffer"  -> "idle"
                               [] by[g] = "Purge"   -> "lock"]
  /\ panics' = [panics EXCEPT ![g] = by[g] # "Coffer"]

(* destroy() returns an error: Destroy panics, Coffer.Destroy hands the     *)
(* error on, Purge falls back to wiping and will panic later.               *)
DestroyFails(g) ==
  /\ writer' = NoG
  /\ pc' = [pc EXCEPT ![g] = CASE by[g] = "Destroy" -> "flush"
                               [] by[g] = "Coffer"  -> "idle"
                               [] by[g] = "Purge"   -> "fallback"]
  /\ panics' = [panics EXCEPT ![g] = by[g] # "Coffer"]

(* Buffer.Destroy is called. *)
Destroy(g) ==
  /\ pc[g] = "idle" /\ made = "yes"
  /\ Goto(g, "lock")
  /\ by' = [by EXCEPT ![g] = "Destroy"]
  /\ UNCHANGED <<fields, mem, released, listed, writer, keyMtx, panics, gaveUp, raced>>

(* Coffer.Destroy reaches this buffer. *)
CofferDestroy(g) ==
  /\ pc[g] = "idle" /\ made = "yes"
  /\ Goto(g, "lock")
  /\ by' = [by EXCEPT ![g] = "Coffer"]
  /\ UNCHANGED <<fields, mem, released, listed, writer, keyMtx, panics, gaveUp, raced>>

(* Faulty variant: a destroyed buffer is destroyed again. *)
DestroyLockUnchecked(g) ==
  /\ pc[g] = "lock" /\ writer = NoG
  /\ writer' = g
  /\ Goto(g, "protect")
  /\ UNCHANGED <<fields, mem, released, listed, keyMtx, ctl>>

(* Take the lock; a destroyed buffer is left alone. *)
DestroyLock(g) ==
  /\ pc[g] = "lock" /\ writer = NoG
  /\ \/ alive  /\ writer' = g /\ Goto(g, "protect")
     \/ ~alive /\ Goto(g, AfterDestroy(g)) /\ UNCHANGED writer
  /\ UNCHANGED <<fields, mem, released, listed, keyMtx, ctl>>

(* Faulty variant: mutable is not updated when the pages are opened. *)
DestroyProtectStaleFlag(g) ==
  /\ pc[g] = "protect"
  /\ \/ /\ mem' = [mem EXCEPT !.inner = "rw", !.guards = "rw"]
        /\ Goto(g, "verify")
        /\ UNCHANGED <<writer, panics>>
     \/ DestroyFails(g) /\ UNCHANGED mem
  /\ UNCHANGED <<fields, released, listed, keyMtx, by, gaveUp, raced>>

(* Protect(b.memory, ReadWrite) opens the guard pages too. *)
DestroyProtect(g) ==
  /\ pc[g] = "protect"
  /\ \/ /\ mem' = [mem EXCEPT !.inner = "rw", !.guards = "rw"]
        /\ mutable' = TRUE
        /\ Goto(g, "verify")
        /\ UNCHANGED <<writer, panics>>
     \/ DestroyFails(g) /\ UNCHANGED <<mem, mutable>>
  /\ UNCHANGED <<made, alive, slices, released, listed, keyMtx, by, gaveUp, raced>>

(* Wipe(b.data), then compare the canary with the guard pages. *)
DestroyVerify(g) ==
  /\ pc[g] = "verify"
  /\ mem' = [mem EXCEPT !.data = "zero"]
  /\ \/ mem.canary # "torn" /\ Goto(g, "wipe") /\ UNCHANGED <<writer, panics>>
     \/ mem.canary = "torn" /\ DestroyFails(g)
  /\ UNCHANGED <<fields, released, listed, keyMtx, by, gaveUp, raced>>

(* Wipe(b.memory) *)
DestroyWipe(g) ==
  /\ pc[g] = "wipe"
  /\ mem' = [mem EXCEPT !.data = "zero", !.canary = "zero"]
  /\ Goto(g, "munlock")
  /\ UNCHANGED <<fields, released, listed, writer, keyMtx, ctl>>

(* Faulty variant: the error of Unlock is ignored. *)
DestroyMunlockUnchecked(g) ==
  /\ pc[g] = "munlock"
  /\ mem' \in {mem, [mem EXCEPT !.mlocked = FALSE]}
  /\ Goto(g, "free")
  /\ UNCHANGED <<fields, released, listed, writer, keyMtx, ctl>>

(* memcall.Unlock(b.inner) *)
DestroyMunlock(g) ==
  /\ pc[g] = "munlock"
  /\ \/ /\ mem' = [mem EXCEPT !.mlocked = FALSE]
        /\ Goto(g, "free")
        /\ UNCHANGED <<writer, panics>>
     \/ DestroyFails(g) /\ UNCHANGED mem
  /\ UNCHANGED <<fields, released, listed, keyMtx, by, gaveUp, raced>>

(* memcall.Free(b.memory) *)
DestroyFree(g) ==
  /\ pc[g] = "free"
  /\ \/ /\ released' = mem
        /\ mem' = Unmapped
        /\ Goto(g, "reset")
        /\ UNCHANGED <<writer, panics>>
     \/ DestroyFails(g) /\ UNCHANGED <<mem, released>>
  /\ UNCHANGED <<fields, listed, keyMtx, by, gaveUp, raced>>

(* Faulty variant: the slices are not set to nil. *)
DestroyResetKeepsSlices(g) ==
  /\ pc[g] = "reset"
  /\ alive' = FALSE /\ mutable' = FALSE
  /\ writer' = NoG
  /\ Goto(g, AfterDestroy(g))
  /\ UNCHANGED <<made, slices, mem, released, listed, keyMtx, ctl>>

(* Reset the fields and drop the lock. *)
DestroyReset(g) ==
  /\ pc[g] = "reset"
  /\ alive' = FALSE /\ mutable' = FALSE /\ slices' = FALSE
  /\ writer' = NoG
  /\ Goto(g, AfterDestroy(g))
  /\ UNCHANGED <<made, mem, released, listed, keyMtx, ctl>>

(* buffers.remove(b), by Destroy and Coffer.Destroy only. *)
Remove(g) ==
  /\ pc[g] = "remove"
  /\ listed' = FALSE
  /\ Goto(g, "idle")
  /\ UNCHANGED <<fields, mem, released, writer, keyMtx, ctl>>

-----------------------------------------------------------------------------
(* Purge, as far as this buffer is concerned.                               *)

Purge(g) ==
  /\ pc[g] = "idle"
  /\ Goto(g, "flush")
  /\ UNCHANGED <<fields, mem, released, listed, writer, keyMtx, ctl>>

(* keyMtx.Lock(), then buffers.flush(): whoever flushes the buffer out of   *)
(* the list destroys it.                                                    *)
PurgeFlush(g) ==
  /\ pc[g] = "flush" /\ keyMtx = NoG
  /\ keyMtx' = g
  /\ listed' = FALSE
  /\ by' = [by EXCEPT ![g] = "Purge"]
  /\ Goto(g, IF listed THEN "lock" ELSE "purged")
  /\ UNCHANGED <<fields, mem, released, writer, panics, gaveUp, raced>>

(* Faulty variant: a frozen buffer is made writable but not wiped. *)
PurgeFallbackNoWipe(g) ==
  /\ pc[g] = "fallback" /\ writer = NoG
  /\ writer' = g
  /\ Goto(g, "purged")
  /\ \/ ~alive /\ UNCHANGED <<mem, gaveUp>>
     \/ /\ alive
        /\ mem' = IF mutable THEN [mem EXCEPT !.data = "zero"]
                             ELSE [mem EXCEPT !.inner = "rw"]
        /\ gaveUp' = "wiped"
  /\ UNCHANGED <<fields, released, listed, keyMtx, by, panics, raced>>

(* destroy() failed: lock the buffer again and wipe what can be wiped.  The *)
(* lock is kept until Purge is over (defer b.Unlock()).  The mutable flag   *)
(* is not updated, and another goroutine may have been in between.          *)
PurgeFallback(g) ==
  /\ pc[g] = "fallback" /\ writer = NoG
  /\ writer' = g
  /\ Goto(g, "purged")
  /\ \/ ~alive /\ UNCHANGED <<mem, gaveUp>>
     \/ /\ alive
        /\ mem' = [mem EXCEPT !.inner = "rw", !.data = "zero"]
        /\ gaveUp' = "wiped"
     \/ /\ alive /\ ~mutable
        /\ gaveUp' = "warned"
        /\ UNCHANGED mem
  /\ UNCHANGED <<fields, released, listed, keyMtx, by, panics, raced>>

(* The deferred unlocks run, then the error or the original value panics.   *)
PurgeReturns(g) ==
  /\ pc[g] = "purged"
  /\ writer' = IF writer = g THEN NoG ELSE writer
  /\ keyMtx' = NoG
  /\ Goto(g, IF panics[g] THEN "panicked" ELSE "idle")
  /\ panics' = [panics EXCEPT ![g] = FALSE]
  /\ UNCHANGED <<fields, mem, released, listed, by, gaveUp, raced>>

(* The program recovers and goes on using the buffer. *)
Recover(g) ==
  /\ pc[g] = "panicked"
  /\ Goto(g, "idle")
  /\ UNCHANGED <<fields, mem, released, listed, writer, keyMtx, ctl>>

-----------------------------------------------------------------------------
DestroyStep(g) ==
  \/ DestroyLock(g) \/ DestroyProtect(g) \/ DestroyVerify(g) \/ DestroyWipe(g)
  \/ DestroyMunlock(g) \/ DestroyFree(g) \/ DestroyReset(g) \/ Remove(g)

PurgeStep(g) == PurgeFlush(g) \/ PurgeFallback(g) \/ PurgeReturns(g)

Call(g) ==
  \/ NewBuffer(g) \/ NewBufferFails(g) \/ Freeze(g) \/ Melt(g)
  \/ LockedWrite(g) \/ UnlockedWrite(g) \/ Underflow(g)
  \/ Destroy(g) \/ CofferDestroy(g) \/ Purge(g) \/ Recover(g)

Next == \E g \in Goroutines : Call(g) \/ DestroyStep(g) \/ PurgeStep(g)

Spec == Init /\ [][Next]_vars

(* Go's mutexes hand over to a waiter after 1ms (starvation mode), hence    *)
(* strong fairness on the steps that take a lock.                           *)
FairSpec ==
  /\ Spec
  /\ \A g \in Goroutines : SF_vars(DestroyStep(g)) /\ SF_vars(PurgeStep(g))

-----------------------------------------------------------------------------
(* Properties.                                                              *)

TypeOK ==
  /\ made \in {"no", "yes", "lost"}
  /\ alive \in BOOLEAN /\ mutable \in BOOLEAN /\ slices \in BOOLEAN
  /\ mem \in Memory /\ released \in Memory
  /\ listed \in BOOLEAN
  /\ writer \in Goroutines \cup {NoG} /\ keyMtx \in Goroutines \cup {NoG}
  /\ pc \in [Goroutines -> Labels]
  /\ by \in [Goroutines -> {"Destroy", "Coffer", "Purge"}]
  /\ panics \in [Goroutines -> BOOLEAN]
  /\ gaveUp \in {"no", "wiped", "warned"}
  /\ raced \in BOOLEAN

(* The labels of destroy() between taking and dropping the lock. *)
Critical == {"protect", "verify", "wipe", "munlock", "free", "reset"}

(* g has flushed the buffer out of the list and is not done with it. *)
Destroying(g) ==
  \/ by[g] = "Purge" /\ pc[g] \in {"lock"} \cup Critical
  \/ pc[g] = "fallback"

(* However many goroutines destroy the buffer at once, directly, through a  *)
(* coffer or through Purge, each system call of destroy() (core/buffer.go:  *)
(* 203-228) works on pages that are still mapped, under the buffer's lock:  *)
(* no use after free and no double free.                                    *)
NoUseAfterFree ==
  \A g \in Goroutines :
    pc[g] \in Critical \ {"reset"} => writer = g /\ alive /\ mem.mapped

(* Pages go back to the kernel wiped and unlocked, whatever fails and is    *)
(* retried on the way (core/buffer.go:209-228).  Only a store through a     *)
(* slice kept from Data() that lands while destroy() holds the lock can     *)
(* refill them; a store before that cannot.                                 *)
ReleasedClean ==
  /\ ~released.mlocked
  /\ ~raced => released.data = "zero"

(* What IsMutable answers is what the pages allow: a buffer that says it is *)
(* mutable can be written without a fault, and one that says it is frozen   *)
(* and is still managed by the package really is read-only, also after any  *)
(* number of failed system calls (core/buffer.go:121-161, 203-207).         *)
WritableAsAdvertised ==
  alive /\ writer = NoG =>
    /\ mutable => mem.inner = "rw"
    /\ ~mutable /\ listed => mem.inner = "ro"

(* No live buffer is ever out of Purge's reach: it is in the list, or some  *)
(* Purge has just flushed it and is about to destroy it, or Purge has tried *)
(* and given up with a panic (core/exit.go:30-53).  In particular a Purge   *)
(* that returns normally leaves no earlier buffer alive.                    *)
NeverLost ==
  alive => listed \/ gaveUp # "no" \/ \E g \in Goroutines : Destroying(g)

(* "buffer destroy failed; wipe instead" (core/exit.go:40-51): when Purge   *)
(* gives a buffer up it is wiped, or its pages could not be made writable.  *)
WipedAsLastResort ==
  \A g \in Goroutines :
    pc[g] = "purged" /\ writer = g /\ alive /\ ~raced =>
      mem.data = "zero" \/ gaveUp = "warned"

(* Purge accounts for every buffer: it reaches them all, and what it cannot *)
(* destroy it wipes or warns about (core/exit.go:30-53).                    *)
AccountedFor == NeverLost /\ WipedAsLastResort

(* Kernel-level immutability (README.md:21): as long as a listed buffer is  *)
(* frozen no step of anyone, locked or not, changes its data.               *)
FrozenDataIsStable ==
  [][alive /\ ~mutable /\ listed => mem'.data = mem.data]_vars

(* Destroy always comes back, with or without a panic: nobody who is asked  *)
(* to destroy the buffer waits for ever, even when it has to Purge.         *)
DestroyReturns ==
  \A g \in Goroutines : pc[g] = "lock" ~> pc[g] \in {"idle", "panicked"}

-----------------------------------------------------------------------------
(* The inductive strengthening used by BufferProofs.                        *)

LockInv ==
  /\ \A g \in Goroutines : pc[g] \in Critical => writer = g
  /\ \A g \in Goroutines :
       Destroying(g) \/ pc[g] = "purged" => keyMtx = g
  /\ \A g \in Goroutines : writer = g => pc[g] \in Critical \cup {"purged"}

FieldInv ==
  /\ slices = alive
  /\ alive => made = "yes"
  /\ listed => made = "yes"
  /\ \A g \in Goroutines : pc[g] \in Critical \cup {"lock"} => made = "yes"
  /\ \A g \in Goroutines : pc[g] \in Critical => alive
  /\ \A g \in Goroutines : Destroying(g) => ~listed /\ made = "yes"
  /\ \A g \in Goroutines : pc[g] = "remove" => ~alive /\ made = "yes"

PageInv ==
  /\ alive => mem.mapped \/ \E g \in Goroutines : pc[g] = "reset"
  /\ \A g \in Goroutines : pc[g] \in Critical \ {"reset"} => mem.mapped
  /\ \A g \in Goroutines :
       pc[g] \in Critical \ {"protect"} => mutable
  /\ \A g \in Goroutines : pc[g] = "free" => ~mem.mlocked
  /\ ~released.mlocked

ProtectionInv ==
  /\ alive /\ mutable =>
       mem.inner = "rw" \/ \E g \in Goroutines : pc[g] = "reset"
  /\ alive /\ ~mutable /\ listed => mem.inner = "ro"

WipeInv ==
  ~raced =>
    /\ released.data = "zero"
    /\ \A g \in Goroutines : pc[g] \in {"munlock", "free"} => mem.data = "zero"

StateInv == /\ LockInv /\ FieldInv /\ PageInv /\ ProtectionInv /\ WipeInv
            /\ AccountedFor

IInv == TypeOK /\ StateInv
=============================================================================
