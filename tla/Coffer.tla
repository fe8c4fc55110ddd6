------------------------------- MODULE Coffer -------------------------------
(***************************************************************************)
(* The key container of core/coffer.go.  A 32 byte value is kept as two    *)
(* partitions, left = value XOR Hash(right), that a background goroutine   *)
(* re-randomises without ever assembling the value.                        *)
(*                                                                         *)
(* Every method holds s.Mutex, but the three Buffers are also in the       *)
(* package list, and are destroyed from there: by Purge, which takes       *)
(* s.Mutex first only for a session key that is not yet destroyed, and by  *)
(* Exit, which never takes it.  The methods read the partitions without    *)
(* the Buffers' locks, so they are split at every access to a partition,   *)
(* and destroy() (core/buffer.go) where they can see the difference: the   *)
(* data wiped, the pages unmapped, the slices nil.  Ranging over a nil     *)
(* slice does nothing, indexing it is a runtime panic that no one recovers *)
(* in the re-key goroutine, and unmapped pages are a fault.                *)
(*                                                                         *)
(* Byte strings are elements of an abstract group with XOR; a loop over    *)
(* the 32 bytes is one operation on the whole (a loop that a wipe overtakes*)
(* half way gives one more wrong result).  crypto/rand never fails with    *)
(* the toolchain of go.mod (it aborts the process instead), so Scramble    *)
(* always succeeds.  View's NewBuffer failing is in Session, and so is a   *)
(* coffer destroyed while NewCoffer is at work.                            *)
(***************************************************************************)

CONSTANTS
  Val,           \* 32 byte strings
  Zero,          \* the all-zero string
  Nil,           \* the slice of a destroyed buffer
  Freed,         \* a slice whose pages are unmapped
  Xor(_, _),
  Hash(_),       \* Blake2b of a partition
  EmptyHash,     \* Blake2b of the empty string
  Goroutines,    \* callers
  Ticker,        \* the goroutine started by NewCoffer
  NoG            \* owner of a free lock

Procs == Goroutines \cup {Ticker}
Parts == {"left", "right", "rand"}

ASSUME CofferAssumption ==
  Ticker \notin Goroutines /\ NoG \notin Procs

ASSUME ValAssumption ==
  /\ Zero \in Val /\ EmptyHash \in Val
  /\ Nil \notin Val /\ Freed \notin Val /\ Freed # Nil
  /\ \A x \in Val : Hash(x) \in Val
  /\ \A x, y \in Val : Xor(x, y) \in Val

ASSUME XorAssumption ==
  /\ \A x, y \in Val : Xor(x, y) = Xor(y, x)
  /\ \A x, y, z \in Val : Xor(Xor(x, y), z) = Xor(x, Xor(y, z))
  /\ \A x \in Val : Xor(x, x) = Zero /\ Xor(x, Zero) = x

VARIABLES
  part,       \* data of the three Buffers
  busy,       \* the Buffers whose lock a destroy() holds
  lock,       \* owner of s.Mutex
  pc,         \* next statement of each goroutine
  at,         \* the partition a goroutine is destroying
  exits,      \* the goroutines that destroy the partitions from Exit
  tmp,        \* hash a goroutine computed before it goes on; View's result
  crashed,    \* a runtime panic or a fault inside a method
  value,      \* the value stored by the last Init (history)
  ended,      \* somebody has been through all three partitions (history)
  failed,     \* the partitions whose destroy() has returned an error (history)
  sessionKey  \* this coffer is core/enclave.go's `key`; never changes

vars == <<part, busy, lock, pc, at, exits, tmp, crashed, value, ended, failed, sessionKey>>
destroying == <<busy, at, exits, ended, failed, sessionKey>>

left  == part["left"]
right == part["right"]
rand  == part["rand"]

Labels == {"idle", "scrambleLeft", "scrambleRight", "bindLeft", "hashView",
           "fillView", "viewed", "scrambleRand", "xorRight", "rebindLeft",
           "wipe", "free", "reset", "panic", "exited", "stopped"}

destroyed == left = Nil \/ right = Nil

(* hash(right) XOR left, what View assembles. *)
Contents == Xor(Hash(right), left)

HashOf(x) == IF x = Nil THEN EmptyHash ELSE Hash(x)

Goto(p, l) == pc' = [pc EXCEPT ![p] = l]
Return(p) == Goto(p, "idle") /\ lock' = NoG /\ tmp' = [tmp EXCEPT ![p] = Zero]
Put(x, v) == part' = [part EXCEPT ![x] = v]

(* NewCoffer has returned: Init filled the partitions, the ticker runs. *)
Init ==
  /\ value \in Val
  /\ \E r \in Val : part = [x \in Parts |-> CASE x = "left" -> Xor(value, Hash(r))
                                         [] x = "right" -> r
                                         [] OTHER -> Zero]
  /\ busy = {} /\ exits = {} /\ lock = NoG
  /\ pc = [p \in Procs |-> "idle"]
  /\ at = [p \in Procs |-> "left"]
  /\ tmp = [p \in Procs |-> Zero]
  /\ crashed = FALSE /\ ended = FALSE /\ failed = {}
  /\ sessionKey \in BOOLEAN

(* Faulty variant: the loop of the re-key goroutine ignores the error. *)
AfterExpiryIdle(p) == "idle"

(* ErrCofferExpired ends the ticker's loop; a caller just gets it. *)
AfterExpiry(p) == IF p = Ticker THEN "stopped" ELSE "idle"

(* Faulty variant: the method forgets to take the lock. *)
EnterUnlocked(p, l) ==
  /\ pc[p] = "idle" /\ ~destroyed /\ Goto(p, l)
  /\ UNCHANGED <<part, lock, tmp, crashed, value, destroying>>

(* s.Lock() and the check every method starts with.  isDestroyed() waits    *)
(* for the Buffer's lock, first of left and then of right; as whoever       *)
(* destroys right is through with left, the two are one step.               *)
Enter(p, l) ==
  /\ pc[p] = "idle" /\ lock = NoG
  /\ \/ ~destroyed /\ busy \cap {"left", "right"} = {} /\ lock' = p /\ Goto(p, l)
     \/ destroyed /\ Goto(p, AfterExpiry(p)) /\ UNCHANGED lock
  /\ UNCHANGED <<part, tmp, crashed, value, destroying>>

(* The statement at hand touches unmapped pages, or indexes a nil slice. *)
Faults(p) ==
  \/ pc[p] \in {"bindLeft", "fillView"} /\ left \notin Val
  \/ pc[p] \in {"scrambleLeft", "rebindLeft"} /\ left = Freed
  \/ pc[p] \in {"scrambleRight", "hashView", "scrambleRand", "xorRight", "rebindLeft"}
       /\ right = Freed
  \/ pc[p] = "scrambleRand" /\ rand = Freed
  \/ pc[p] = "xorRight" /\ right # Nil /\ rand \notin Val

Crash(p) ==
  /\ Faults(p)
  /\ crashed' = TRUE
  /\ UNCHANGED <<part, lock, pc, tmp, value, destroying>>

(* What Scramble may make of a slice. *)
Scrambled(x) == IF x = Nil THEN {Nil} ELSE Val

-----------------------------------------------------------------------------
(* Coffer.Init *)

InitBegin(p) == p \in Goroutines /\ Enter(p, "scrambleLeft")

InitScrambleLeft(p) ==
  /\ pc[p] = "scrambleLeft" /\ ~Faults(p)
  /\ \E v \in Scrambled(left) : Put("left", v)
  /\ Goto(p, "scrambleRight")
  /\ UNCHANGED <<lock, tmp, crashed, value, destroying>>

(* Scramble(right), hr := Hash(right).  From here on the value is fixed. *)
InitScrambleRight(p) ==
  /\ pc[p] = "scrambleRight" /\ ~Faults(p)
  /\ \E v \in Scrambled(right) :
       Put("right", v) /\ tmp' = [tmp EXCEPT ![p] = HashOf(v)]
  /\ Goto(p, "bindLeft")
  /\ UNCHANGED <<lock, crashed, value, destroying>>

(* left[i] ^= hr[i] *)
InitBindLeft(p) ==
  /\ pc[p] = "bindLeft" /\ ~Faults(p)
  /\ Put("left", Xor(left, tmp[p]))
  /\ value' = left
  /\ Return(p)
  /\ UNCHANGED <<crashed, destroying>>

-----------------------------------------------------------------------------
(* Coffer.View *)

ViewBegin(p) == p \in Goroutines /\ Enter(p, "hashView")

ViewHash(p) ==
  /\ pc[p] = "hashView" /\ ~Faults(p)
  /\ tmp' = [tmp EXCEPT ![p] = HashOf(right)]
  /\ Goto(p, "fillView")
  /\ UNCHANGED <<part, lock, crashed, value, destroying>>

(* b.Data()[i] = h[i] ^ left[i] *)
ViewFill(p) ==
  /\ pc[p] = "fillView" /\ ~Faults(p)
  /\ tmp' = [tmp EXCEPT ![p] = Xor(tmp[p], left)]
  /\ Goto(p, "viewed")
  /\ UNCHANGED <<part, lock, crashed, value, destroying>>

(* The deferred s.Unlock() runs with the result in hand. *)
ViewReturn(p) ==
  /\ pc[p] = "viewed"
  /\ Return(p)
  /\ UNCHANGED <<part, crashed, value, destroying>>

-----------------------------------------------------------------------------
(* Coffer.Rekey, by the ticker or a caller. *)

RekeyBegin(p) == Enter(p, "scrambleRand")

(* Scramble(rand), hashRightCurrent := Hash(right) *)
RekeyScramble(p) ==
  /\ pc[p] = "scrambleRand" /\ ~Faults(p)
  /\ \E v \in Scrambled(rand) : Put("rand", v)
  /\ tmp' = [tmp EXCEPT ![p] = HashOf(right)]
  /\ Goto(p, "xorRight")
  /\ UNCHANGED <<lock, crashed, value, destroying>>

(* for i := range right { right[i] ^= rand[i] } *)
RekeyRight(p) ==
  /\ pc[p] = "xorRight" /\ ~Faults(p)
  /\ Put("right", IF right = Nil THEN Nil ELSE Xor(right, rand))
  /\ Goto(p, "rebindLeft")
  /\ UNCHANGED <<lock, tmp, crashed, value, destroying>>

(* Faulty variant: the hash of the old right partition is left out. *)
ReboundHalf(l, old, new) == IF l = Nil THEN Nil ELSE Xor(l, new)

(* for i := range left { left[i] ^= hashRightCurrent[i] ^ hashRightNew[i] } *)
Rebound(l, old, new) == IF l = Nil THEN Nil ELSE Xor(l, Xor(old, new))

RekeyLeft(p) ==
  /\ pc[p] = "rebindLeft" /\ ~Faults(p)
  /\ Put("left", Rebound(left, tmp[p], HashOf(right)))
  /\ Return(p)
  /\ UNCHANGED <<crashed, value, destroying>>

-----------------------------------------------------------------------------
(* Coffer.Destroy, Purge and Exit: destroy() of one partition after another *)

(* Coffer.Destroy takes s.Mutex. *)
DestroyBegin(p) ==
  /\ p \in Goroutines /\ pc[p] = "idle"
  /\ lock = NoG /\ lock' = p
  /\ Goto(p, "wipe") /\ at' = [at EXCEPT ![p] = "left"]
  /\ UNCHANGED <<part, busy, exits, tmp, crashed, value, ended, failed, sessionKey>>

(* Faulty variant: Purge does not halt the users of the session key. *)
PurgeBeginUnlocked(p) ==
  /\ p \in Goroutines /\ pc[p] \in {"idle", "panic"}
  /\ Goto(p, "wipe") /\ at' = [at EXCEPT ![p] = "left"]
  /\ UNCHANGED <<part, busy, lock, exits, tmp, crashed, value, ended, failed, sessionKey>>

(* Purge, called by anyone or from the Panic of a failed Buffer.Destroy.    *)
(* key.Destroyed() needs s.Mutex; only if it says no does Purge keep the    *)
(* mutex.  It may say no and the key be destroyed by the time of key.Lock().*)
PurgeBegin(p) ==
  /\ p \in Goroutines /\ pc[p] \in {"idle", "panic"}
  /\ \/ sessionKey /\ lock = NoG /\ lock' = p
     \/ sessionKey /\ lock = NoG /\ destroyed /\ UNCHANGED lock
     \/ ~sessionKey /\ UNCHANGED lock
  /\ Goto(p, "wipe") /\ at' = [at EXCEPT ![p] = "left"]
  /\ UNCHANGED <<part, busy, exits, tmp, crashed, value, ended, failed, sessionKey>>

(* The loop of Exit over its copy of the list. *)
ExitBegin(p) ==
  /\ p \in Goroutines /\ pc[p] = "idle"
  /\ exits' = exits \cup {p}
  /\ Goto(p, "wipe") /\ at' = [at EXCEPT ![p] = "left"]
  /\ UNCHANGED <<part, busy, lock, tmp, crashed, value, ended, failed, sessionKey>>

Following(x) == CASE x = "left" -> "right" [] x = "right" -> "rand" [] OTHER -> "left"

(* destroy() has returned: the next partition has its turn. *)
Proceed(p) ==
  /\ at' = [at EXCEPT ![p] = Following(at[p])]
  /\ \/ /\ at[p] # "rand"
        /\ Goto(p, "wipe")
        /\ UNCHANGED <<lock, ended>>
     \/ /\ at[p] = "rand"
        /\ Goto(p, IF p \in exits THEN "exited" ELSE "idle")
        /\ lock' = IF lock = p THEN NoG ELSE lock
        /\ ended' = TRUE

(* Faulty variant: the first error ends the work. *)
FailStops(p) ==
  /\ failed' = failed \cup {at[p]}
  /\ Goto(p, "idle") /\ ended' = TRUE
  /\ lock' = IF lock = p THEN NoG ELSE lock
  /\ exits' = exits \ {p}
  /\ UNCHANGED at

(* destroy() has returned an error.  Coffer.Destroy and Purge remember it   *)
(* and go on; the Buffer.Destroy that Exit calls panics, which purges.      *)
Fail(p) ==
  /\ failed' = failed \cup {at[p]}
  /\ \/ p \notin exits /\ Proceed(p) /\ UNCHANGED exits
     \/ /\ p \in exits /\ exits' = exits \ {p}
        /\ Goto(p, "panic")
        /\ UNCHANGED <<at, lock, ended>>

(* destroy() with the Buffer's lock: nothing if it is not alive; an error   *)
(* of mprotect, after which Purge tries to wipe; or Wipe(b.data).           *)
Wiping(p) ==
  /\ \/ /\ part[at[p]] = Nil /\ Proceed(p)
        /\ UNCHANGED <<part, busy, exits, failed>>
     \/ /\ part[at[p]] # Nil /\ Fail(p)
        /\ \E v \in {part[at[p]], Zero} : Put(at[p], v)
        /\ UNCHANGED busy
     \/ /\ part[at[p]] # Nil
        /\ Put(at[p], Zero)
        /\ busy' = busy \cup {at[p]}
        /\ Goto(p, "free")
        /\ UNCHANGED <<lock, at, exits, ended, failed>>
  /\ UNCHANGED <<tmp, crashed, value, sessionKey>>

(* Faulty variant: destroy() does not wait for the Buffer's lock. *)
DestroyWipeUnlocked(p) == pc[p] = "wipe" /\ Wiping(p)

DestroyWipe(p) == pc[p] = "wipe" /\ at[p] \notin busy /\ Wiping(p)

(* A wrong canary, an error of munlock or of munmap; or the pages are gone. *)
DestroyFree(p) ==
  /\ pc[p] = "free"
  /\ \/ /\ Fail(p)
        /\ \E v \in {part[at[p]], Zero} : Put(at[p], v)
        /\ busy' = busy \ {at[p]}
     \/ /\ Put(at[p], Freed)
        /\ Goto(p, "reset")
        /\ UNCHANGED <<busy, lock, at, exits, ended, failed>>
  /\ UNCHANGED <<tmp, crashed, value, sessionKey>>

(* b.data = nil, and the Buffer's lock is released. *)
DestroyReset(p) ==
  /\ pc[p] = "reset"
  /\ Put(at[p], Nil)
  /\ busy' = busy \ {at[p]}
  /\ Proceed(p)
  /\ UNCHANGED <<exits, tmp, crashed, value, failed, sessionKey>>

-----------------------------------------------------------------------------
InitStep(p) == InitScrambleLeft(p) \/ InitScrambleRight(p) \/ InitBindLeft(p)
ViewStep(p) == ViewHash(p) \/ ViewFill(p) \/ ViewReturn(p)
RekeyStep(p) == RekeyScramble(p) \/ RekeyRight(p) \/ RekeyLeft(p)
DestroyStep(p) == DestroyWipe(p) \/ DestroyFree(p) \/ DestroyReset(p)

Begin(p) == InitBegin(p) \/ ViewBegin(p) \/ RekeyBegin(p)
DestroyBegins(p) == DestroyBegin(p) \/ PurgeBegin(p) \/ ExitBegin(p)
Step(p) == InitStep(p) \/ ViewStep(p) \/ RekeyStep(p) \/ DestroyStep(p) \/ Crash(p)

(* os.Exit and a panic that nobody recovers end every goroutine. *)
Running == ~crashed /\ \A p \in Procs : pc[p] # "exited"

Next == Running /\ \E p \in Procs : Begin(p) \/ DestroyBegins(p) \/ Step(p)

Spec == Init /\ [][Next]_vars

(* A goroutine inside a method goes on, and the ticker's channel fires for  *)
(* ever; s.Lock() and the Lock() of a Buffer succeed in the end (mutex      *)
(* starvation mode).                                                        *)
FairSpec ==
  /\ Spec
  /\ \A p \in Procs : WF_vars(Running /\ Step(p))
  /\ \A p \in Goroutines : SF_vars(Running /\ DestroyWipe(p))
  /\ SF_vars(Running /\ RekeyBegin(Ticker))

-----------------------------------------------------------------------------
TypeOK ==
  /\ part \in [Parts -> Val \cup {Freed, Nil}] /\ busy \subseteq Parts
  /\ lock \in Procs \cup {NoG}
  /\ pc \in [Procs -> Labels] /\ at \in [Procs -> Parts]
  /\ tmp \in [Procs -> Val]
  /\ crashed \in BOOLEAN /\ ended \in BOOLEAN /\ value \in Val
  /\ exits \subseteq Procs /\ failed \subseteq Parts /\ sessionKey \in BOOLEAN

(* Nobody has laid hands on the left partition, which goes first. *)
Intact == left \in Val /\ "left" \notin busy

(* Re-keying is invisible: whenever nobody is inside a method or a          *)
(* destroy(), what the two partitions encode is what the last Init stored   *)
(* (core/coffer.go:99-126).  A partition that destroy() wiped and could not *)
(* release is the exception.                                                *)
ValuePreserved ==
  failed = {} /\ lock = NoG /\ busy = {} /\ ~destroyed => Contents = value

(* View hands out exactly the stored value, wherever the ticker's Rekey and *)
(* other callers are (core/coffer.go:77-94), as long as no one has begun to *)
(* destroy the coffer; and for the session key also then, unless from Exit: *)
(* whoever else destroys it holds its mutex (core/exit.go:24-27).           *)
ViewIsValue ==
  failed = {} =>
    \A p \in Procs :
      pc[p] = "viewed" /\ (Intact \/ (sessionKey /\ exits = {})) => tmp[p] = value

(* A method that runs into a destroyed session key returns                  *)
(* ErrCofferExpired (core/coffer.go:12); it never touches the slice of a    *)
(* Buffer that Destroy or any number of Purges are destroying or have       *)
(* destroyed.  Exit's loop, without the mutex, is the exception             *)
(* (core/exit.go:70-74), and so is an error of destroy().                   *)
ExpiredIsAnError == sessionKey /\ exits = {} /\ failed = {} => ~crashed

Gone(x) == part[x] = Nil \/ x \in failed

(* "Once this method has been called, the Coffer can no longer be used"     *)
(* (core/coffer.go:129): once a Destroy, a Purge or an Exit is through,     *)
(* each of the three partitions is gone or its own destroy() failed,        *)
(* whatever became of the others and however many destroyed the coffer at   *)
(* once.                                                                    *)
PurgeIsFinal == ended => \A x \in Parts : Gone(x)

(* The re-key goroutine of a destroyed coffer comes to its end, however the *)
(* coffer was destroyed (core/coffer.go:39-43), unless the process dies.    *)
TickerStops == destroyed ~> pc[Ticker] = "stopped" \/ ~Running
-----------------------------------------------------------------------------
(* The inductive strengthening used by CofferProofs. *)

Using(p) == pc[p] \in {"scrambleLeft", "scrambleRight", "bindLeft", "hashView",
                      "fillView", "viewed", "scrambleRand", "xorRight", "rebindLeft"}

Destroying(p) == pc[p] \in {"wipe", "free", "reset"}

(* The users of the value exclude one another, and for the session key also *)
(* those who destroy it, except Exit and a Purge that found it destroyed.   *)
ExclusionInv ==
  \A p \in Procs :
    /\ Using(p) => lock = p
    /\ Destroying(p) /\ sessionKey /\ p \notin exits => lock = p \/ destroyed

(* A Buffer's lock is held by exactly one destroy(), and pages are unmapped *)
(* only under it.                                                           *)
BufferLockInv ==
  /\ \A p \in Procs :
       /\ pc[p] \in {"free", "reset"} => at[p] \in busy
       /\ pc[p] = "free" => part[at[p]] \in Val
       /\ pc[p] = "reset" => part[at[p]] = Freed
  /\ \A p, q \in Procs :
       pc[p] \in {"free", "reset"} /\ pc[q] \in {"free", "reset"} /\ at[p] = at[q] => p = q
  /\ \A x \in Parts : part[x] = Freed => x \in busy
  /\ \A x \in busy : part[x] # Nil /\ \E p \in Procs : pc[p] \in {"free", "reset"} /\ at[p] = x

(* left goes first, for a session key with nobody in a method. *)
ExpiryInv ==
  failed = {} =>
    /\ Intact => busy = {} /\ \A x \in Parts : part[x] \in Val
    /\ sessionKey /\ exits = {} => \A p \in Procs : Using(p) => Intact

(* Who destroys is through with the partitions before. *)
ProgressInv ==
  \A p \in Procs : Destroying(p) =>
    /\ at[p] # "left" => Gone("left")
    /\ at[p] = "rand" => Gone("right")

(* What the goroutine inside a method has established so far. *)
MethodInv ==
  failed = {} /\ Intact =>
    \A p \in Procs :
      /\ pc[p] \in {"bindLeft", "fillView", "xorRight"} => tmp[p] = Hash(right)
      /\ pc[p] \in {"hashView", "fillView", "viewed", "scrambleRand", "xorRight"} =>
           Contents = value
      /\ pc[p] = "rebindLeft" => Xor(tmp[p], left) = value

(* What every statement finds: the type of the variables, who holds which   *)
(* lock (core/coffer.go:51, core/buffer.go:195), which partitions a         *)
(* destroy() has been through, and how the partitions and the hash in a     *)
(* local variable make up the value in the middle of Init, View and Rekey.  *)
StepInv ==
  /\ TypeOK /\ ExclusionInv /\ BufferLockInv /\ ExpiryInv /\ ProgressInv /\ MethodInv

IInv == StepInv /\ ValuePreserved /\ ViewIsValue /\ ExpiredIsAnError /\ PurgeIsFinal
=============================================================================
