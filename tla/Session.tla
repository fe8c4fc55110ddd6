------------------------------- MODULE Session -------------------------------
(***************************************************************************)
(* The session of package core: the one key every Enclave is encrypted     *)
(* under (core/enclave.go), the list of all Buffers, and the calls that    *)
(* meet there: NewBuffer, NewEnclave, Seal, Open, Destroy, Purge, Panic    *)
(* and Exit, with the wrappers of enclave.go and buffer.go that turn their *)
(* errors into results or panics.                                          *)
(*                                                                         *)
(* A coffer's three Buffers are one entry here, identified with the coffer *)
(* (Coffer models the inside), and destroy() is one step that waits for    *)
(* the buffer's lock and does not fail (Buffer models the inside); what is *)
(* read of a Buffer just before it may be wiped already.  Page protection  *)
(* is left to Buffer as well.  Buffers are numbered in the order           *)
(* buffers.add saw them, which is the order of the list.                   *)
(*                                                                         *)
(* The slices of a Buffer are read without its lock, so a method that      *)
(* checks a length and then uses the memory can lose the buffer in         *)
(* between: it then sees either an empty slice or an access violation.     *)
(***************************************************************************)
EXTENDS Naturals, FiniteSets, FiniteSetsExt

CONSTANTS
  Goroutines,
  Programs,  \* which functions each goroutine calls, and a bound on the
             \* calls that may allocate
  MaxBuffers,\* bound on the Buffers allocated; the runs never reach it
  MlockLimit,\* how many Buffers the kernel lets the process lock
  NoG,       \* owner of a free lock
  Ticker     \* owner of a coffer's lock when its re-key goroutine has it

Names == {"NewBuffer", "NewEnclave", "NewEnclaveRandom", "Seal", "Open", "Destroy",
          "Purge", "SafePanic", "Exit"}

ASSUME SessionAssumption ==
  /\ NoG \notin Goroutines /\ Ticker \notin Goroutines /\ NoG # Ticker
  /\ IsFiniteSet(Goroutines)
  /\ Programs \subseteq [calls : [Goroutines -> SUBSET Names], max : Nat]
  /\ MaxBuffers \in Nat /\ MlockLimit \in Nat

Ids == 1..MaxBuffers
None == 0   \* no buffer; as a coffer, the empty one that `key` starts with

VARIABLES
  buf,      \* the Buffers, by number
  next,     \* number of the next Buffer
  list,     \* buffers.list
  handles,  \* data buffers that the program holds
  enclaves, \* enclaves that the program holds
  key,      \* core's `key`: its coffer
  keyMtx,   \* owner of keyMtx
  lock,     \* owner of each coffer's mutex
  readers,  \* who holds the read lock of a Buffer
  rekeyer,  \* what the goroutine of each coffer is doing
  pc,       \* next statement of each goroutine
  my,       \* its local variables
  calls,    \* allocating calls made so far
  status,   \* of the process
  program   \* the one that runs; never changes

vars == <<buf, next, list, handles, enclaves, key, keyMtx, lock, readers,
          rekeyer, pc, my, calls, status, program>>

memory == <<buf, next, list>>
client == <<handles, enclaves, calls>>
locks  == <<keyMtx, lock, readers>>

Unused == [live |-> FALSE, kind |-> "data", of |-> None, data |-> "zero"]

NoEnclave == [key |-> None, data |-> "zero"]

(* call, coffer, key view, buffer, enclave, snapshot, Panic pending, and    *)
(* (history) the first number that Exit's snapshot missed.                  *)
NoLocals == [call |-> "none", c |-> None, k |-> None, b |-> None,
             e |-> NoEnclave, snap |-> {}, panics |-> FALSE, missed |-> None]

Init ==
  /\ buf = [i \in Ids |-> Unused]
  /\ next = 1
  /\ list = {} /\ handles = {} /\ enclaves = {}
  /\ key = None /\ keyMtx = NoG
  /\ lock = [i \in Ids \cup {None} |-> NoG]
  /\ readers = [i \in Ids |-> {}]
  /\ rekeyer = [i \in Ids \cup {None} |-> "none"]
  /\ pc = [g \in Goroutines |-> "idle"]
  /\ my = [g \in Goroutines |-> NoLocals]
  /\ calls = 0
  /\ status = "running"
  /\ program \in Programs

-----------------------------------------------------------------------------
Goto(g, l) == pc' = [pc EXCEPT ![g] = l]

Return(g) == Goto(g, "idle") /\ my' = [my EXCEPT ![g] = NoLocals]

(* core.Panic(v): Purge first, with whatever locks the caller holds. *)
Panic(g) == Goto(g, "purge") /\ my' = [my EXCEPT ![g].panics = TRUE]

(* A runtime panic or an access violation. *)
Crash == /\ status' = "crashed"
         /\ UNCHANGED <<memory, client, key, locks, rekeyer, pc, my>>

Live(i) == i # None /\ buf[i].live
LiveSet == {i \in Ids : buf[i].live}

(* Buffers locked in memory; a coffer has three. *)
Mlocked == Cardinality(LiveSet) +
           2 * Cardinality({i \in LiveSet : buf[i].kind = "coffer"})

(* Faulty variant: the buffer is not added to the list. *)
AddNot(i) == list

(* buffers.add *)
Add(i) == list \cup {i}

(* A coffer has three Buffers. *)
Fits(kind) == Mlocked + (IF kind = "coffer" THEN 3 ELSE 1) <= MlockLimit

(* NewBuffer succeeds: buffer number `next`, listed; MaxBuffers bounds them. *)
NewBuffer(kind, coffer, data) ==
  /\ Fits(kind) /\ next \in Ids
  /\ buf' = [buf EXCEPT ![next] = [live |-> TRUE, kind |-> kind,
                                   of |-> coffer, data |-> data]]
  /\ next' = next + 1
  /\ list' = Add(next)

(* NewBuffer runs into the limit on locked memory and panics. *)
NewBufferPanics(g, kind) == ~Fits(kind) /\ Panic(g) /\ UNCHANGED memory

(* buf once buffer i is destroyed, for the first time or again. *)
Destroyed(i) ==
  IF i = None THEN buf
  ELSE [buf EXCEPT ![i] = [@ EXCEPT !.live = FALSE, !.data = "zero"]]

(* destroy() of buffer i has begun in Purge's loop or Exit's: its bytes may *)
(* be wiped while its slices are still there.                               *)
UnderWay(i) ==
  \E h \in Goroutines : /\ pc[h] \in {"purgeLoop", "exitLoop"} /\ my[h].snap # {}
                        /\ i = Min(my[h].snap)

(* Begin a call, and count it if it may allocate. *)
Begin(g, name, l, locals) ==
  /\ pc[g] = "idle" /\ name \in program.calls[g]
  /\ Goto(g, l)
  /\ my' = [my EXCEPT ![g] = locals]
  /\ UNCHANGED <<memory, handles, enclaves, key, locks, rekeyer, status>>

Allocates == calls < program.max /\ calls' = calls + 1

-----------------------------------------------------------------------------
(* The calls.                                                               *)

(* A data buffer is made and filled by the program. *)
CallNewBuffer(g) ==
  /\ pc[g] = "idle" /\ "NewBuffer" \in program.calls[g]
  /\ Allocates
  /\ \/ /\ NewBuffer("data", None, "plain")
        /\ handles' = handles \cup {next}
        /\ UNCHANGED <<pc, my>>
     \/ NewBufferPanics(g, "data") /\ UNCHANGED handles
  /\ UNCHANGED <<enclaves, key, locks, rekeyer, status>>

CallNewEnclave(g) ==
  /\ Begin(g, "NewEnclave", "getKey", [NoLocals EXCEPT !.call = "NewEnclave"])
  /\ Allocates

(* NewBufferRandom, and Seal of the result. *)
CallNewEnclaveRandom(g) ==
  /\ pc[g] = "idle" /\ "NewEnclaveRandom" \in program.calls[g]
  /\ Allocates
  /\ \/ /\ NewBuffer("data", None, "plain")
        /\ my' = [my EXCEPT ![g] = [NoLocals EXCEPT !.call = "Seal", !.b = next]]
        /\ Goto(g, "sealRandom")
     \/ NewBufferPanics(g, "data")
  /\ UNCHANGED <<handles, enclaves, key, locks, rekeyer, status>>

(* Seal returns ErrBufferExpired, hence nil, if b.Alive() is false. *)
Sealable(b) == Live(b)

CallSeal(g) ==
  \E b \in handles :
    /\ Sealable(b)
    /\ Begin(g, "Seal", "melt", [NoLocals EXCEPT !.call = "Seal", !.b = b])
    /\ Allocates

CallOpen(g) ==
  \E e \in enclaves :
    /\ Begin(g, "Open", "allocate", [NoLocals EXCEPT !.call = "Open", !.e = e])
    /\ Allocates

CallDestroy(g) ==
  \E b \in handles :
    /\ Begin(g, "Destroy", "destroy", [NoLocals EXCEPT !.call = "Destroy", !.b = b])
    /\ UNCHANGED calls

CallPurge(g) ==
  /\ Begin(g, "Purge", "purge", [NoLocals EXCEPT !.call = "Purge"])
  /\ UNCHANGED calls

CallSafePanic(g) ==
  /\ Begin(g, "SafePanic", "purge", [NoLocals EXCEPT !.call = "SafePanic", !.panics = TRUE])
  /\ UNCHANGED calls

CallExit(g) ==
  /\ Begin(g, "Exit", "exit", [NoLocals EXCEPT !.call = "Exit"])
  /\ UNCHANGED calls

Call(g) == \/ CallNewBuffer(g) \/ CallNewEnclave(g) \/ CallNewEnclaveRandom(g)
           \/ CallSeal(g) \/ CallOpen(g) \/ CallDestroy(g)
           \/ CallPurge(g) \/ CallSafePanic(g) \/ CallExit(g)

-----------------------------------------------------------------------------
(* getOrCreateKey                                                           *)

(* Faulty variant: keyMtx is not waited for. *)
KeyMtxIgnored == TRUE

KeyMtxFree == keyMtx = NoG

KeyLock(g) ==
  /\ pc[g] = "getKey" /\ KeyMtxFree
  /\ keyMtx' = g
  /\ Goto(g, "checkKey")
  /\ UNCHANGED <<memory, client, key, lock, readers, rekeyer, my, status>>

(* key.Destroyed() takes the coffer's mutex for a moment. *)
KeyCheck(g) ==
  /\ pc[g] = "checkKey" /\ lock[key] = NoG
  /\ \/ /\ Live(key)
        /\ my' = [my EXCEPT ![g].c = key]
        /\ keyMtx' = NoG
        /\ Goto(g, "view")
     \/ ~Live(key) /\ Goto(g, "newKey") /\ UNCHANGED <<my, keyMtx>>
  /\ UNCHANGED <<memory, client, key, lock, readers, rekeyer, status>>

(* NewCoffer allocates, still under keyMtx. *)
KeyNew(g) ==
  /\ pc[g] = "newKey"
  /\ \/ /\ NewBuffer("coffer", next, "zero")
        /\ my' = [my EXCEPT ![g].c = next]
        /\ Goto(g, "initKey")
     \/ NewBufferPanics(g, "coffer")
  /\ UNCHANGED <<client, key, locks, rekeyer, status>>

(* Init fills the coffer, the re-key goroutine starts, key is replaced.     *)
(* Exit may have destroyed the new buffers: Init's ErrCofferExpired is      *)
(* dropped, or Init indexes a slice that is gone.                           *)
KeyInit(g) ==
  /\ pc[g] = "initKey"
  /\ \/ /\ key' = my[g].c
        /\ rekeyer' = [rekeyer EXCEPT ![my[g].c] = "waiting"]
        /\ keyMtx' = NoG
        /\ Goto(g, "view")
        /\ UNCHANGED <<memory, client, lock, readers, my, status>>
     \/ ~Live(my[g].c) /\ Crash

-----------------------------------------------------------------------------
(* Coffer.View, under the coffer's mutex.                                   *)

(* A coffer destroyed meanwhile gives ErrCofferExpired; the callers hand it *)
(* up (Seal's deferred RUnlock runs) and the wrappers Panic.                *)
ViewLock(g) ==
  /\ pc[g] = "view" /\ lock[my[g].c] = NoG
  /\ \/ /\ Live(my[g].c)
        /\ lock' = [lock EXCEPT ![my[g].c] = g]
        /\ Goto(g, "newView")
        /\ UNCHANGED <<my, readers>>
     \/ /\ ~Live(my[g].c)
        /\ readers' = [i \in Ids |-> readers[i] \ {g}]
        /\ Panic(g)
        /\ UNCHANGED lock
  /\ UNCHANGED <<memory, client, key, keyMtx, rekeyer, status>>

ViewNew(g) ==
  /\ pc[g] = "newView"
  /\ \/ /\ NewBuffer("view", my[g].c, "zero")
        /\ my' = [my EXCEPT ![g].k = next]
        /\ Goto(g, "fillView")
     \/ NewBufferPanics(g, "view")
  /\ UNCHANGED <<client, key, locks, rekeyer, status>>

(* Faulty variant: the coffer's mutex is not released. *)
ViewUnlockNot(c) == UNCHANGED lock

(* The deferred s.Unlock() of View. *)
ViewUnlock(c) == lock' = [lock EXCEPT ![c] = NoG]

(* The view gets the key, or no key at all if the coffer's partitions are   *)
(* being wiped, or stays empty if it was destroyed at once.                 *)
ViewFill(g) ==
  /\ pc[g] = "fillView"
  /\ \/ /\ Live(my[g].k) => Live(my[g].c)
        /\ \/ UNCHANGED buf
           \/ UnderWay(my[g].c) /\ buf' = [buf EXCEPT ![my[g].k].of = None]
        /\ ViewUnlock(my[g].c)
        /\ Goto(g, IF my[g].call = "Open" THEN "decrypt" ELSE "encrypt")
        /\ UNCHANGED <<next, list, client, key, keyMtx, readers, rekeyer, my, status>>
     \/ ~Live(my[g].k) /\ Crash
     \/ ~Live(my[g].c) /\ Crash

-----------------------------------------------------------------------------
(* NewEnclave and Seal.                                                     *)

(* The check at the beginning of Seal, for NewEnclaveRandom. *)
SealRandom(g) ==
  /\ pc[g] = "sealRandom"
  /\ \/ Sealable(my[g].b) /\ Goto(g, "melt") /\ UNCHANGED my
     \/ ~Sealable(my[g].b) /\ Return(g)
  /\ UNCHANGED <<memory, client, key, locks, rekeyer, status>>

(* b.Melt() waits for the lock. *)
SealMelt(g) ==
  /\ pc[g] = "melt" /\ readers[my[g].b] = {}
  /\ Goto(g, "rlock")
  /\ UNCHANGED <<memory, client, key, locks, rekeyer, my, status>>

(* b.RLock(), then NewEnclave(b.Data()): an empty slice is ErrNullEnclave,  *)
(* and LockedBuffer.Seal panics.                                            *)
SealRLock(g) ==
  /\ pc[g] = "rlock"
  /\ \/ /\ Live(my[g].b)
        /\ readers' = [readers EXCEPT ![my[g].b] = @ \cup {g}]
        /\ Goto(g, "getKey")
        /\ UNCHANGED my
     \/ ~Live(my[g].b) /\ Panic(g) /\ UNCHANGED readers
  /\ UNCHANGED <<memory, client, key, keyMtx, lock, rekeyer, status>>

(* Faulty variant: the buffer is wiped first. *)
PlaintextWiped(g) == "zero"

(* The bytes an enclave is made of. *)
Plaintext(g) == IF my[g].call = "Seal" THEN buf[my[g].b].data ELSE "plain"

(* The keys that the bytes of the view k may be: zeroes are nobody's key. *)
KeysRead(g) == {buf[my[g].k].of} \cup {x \in {None} : UnderWay(my[g].k)}

(* crypto.go's Encrypt, with one of them. *)
Ciphertext(g, x) == [key |-> x, data |-> Plaintext(g)]

(* Encrypt(buf, k.Data()).  With k gone it is ErrInvalidKeyLength and Panic *)
(* (the read lock still held), or an access violation.                      *)
Encrypt(g) ==
  /\ pc[g] = "encrypt"
  /\ \/ /\ Live(my[g].k)
        /\ \E x \in KeysRead(g) : my' = [my EXCEPT ![g].e = Ciphertext(g, x)]
        /\ Goto(g, "dropView")
        /\ UNCHANGED <<memory, client, key, locks, rekeyer, status>>
     \/ /\ ~Live(my[g].k) /\ Panic(g)
        /\ UNCHANGED <<memory, client, key, locks, rekeyer, status>>
     \/ ~Live(my[g].k) /\ Crash

(* Faulty variant: the copy of the key is not destroyed. *)
DroppedNot(g) == buf

(* Faulty variant: the key is destroyed instead of its copy. *)
DroppedKey(g) == Destroyed(my[g].c)

Dropped(g) == Destroyed(my[g].k)

(* k.Destroy() *)
DropView(g) ==
  /\ pc[g] = "dropView"
  /\ buf' = Dropped(g)
  /\ list' = list \ {my[g].k}
  /\ Goto(g, IF my[g].call = "Open" THEN "opened" ELSE "wipe")
  /\ UNCHANGED <<next, client, key, locks, rekeyer, my, status>>

(* The deferred b.RUnlock(). *)
RUnlock(g) == readers' = [readers EXCEPT ![my[g].b] = @ \ {g}]

(* Wipe(buf); Seal goes on to release and destroy its buffer. *)
Wipe(g) ==
  /\ pc[g] = "wipe"
  /\ \/ /\ my[g].call = "NewEnclave"
        /\ enclaves' = enclaves \cup {my[g].e}
        /\ Return(g)
        /\ UNCHANGED <<buf, readers>>
     \/ /\ my[g].call = "Seal"
        /\ buf' = [buf EXCEPT ![my[g].b].data = "zero"]
        /\ RUnlock(g)
        /\ Goto(g, "destroy")
        /\ UNCHANGED <<enclaves, my>>
  /\ UNCHANGED <<next, list, handles, calls, key, keyMtx, lock, rekeyer, status>>

(* b.Destroy(), for the program or at the end of Seal. *)
Destroy(g) ==
  /\ pc[g] = "destroy" /\ readers[my[g].b] = {}
  /\ buf' = Destroyed(my[g].b)
  /\ list' = list \ {my[g].b}
  /\ enclaves' = enclaves \cup (IF my[g].call = "Seal" THEN {my[g].e} ELSE {})
  /\ Return(g)
  /\ UNCHANGED <<next, handles, calls, key, locks, rekeyer, status>>

-----------------------------------------------------------------------------
(* Open.                                                                    *)

OpenAllocate(g) ==
  /\ pc[g] = "allocate"
  /\ \/ /\ NewBuffer("data", None, "zero")
        /\ my' = [my EXCEPT ![g].b = next]
        /\ Goto(g, "getKey")
     \/ NewBufferPanics(g, "data")
  /\ UNCHANGED <<client, key, locks, rekeyer, status>>

(* crypto.go's Decrypt: the lengths of key and output are right, and the    *)
(* ciphertext authenticates under the key.                                  *)
Usable(g) == Live(my[g].k) /\ Live(my[g].b)
Authentic(g, x) == x = my[g].e.key

(* Decrypt(e.ciphertext, k.Data(), b.Data()).  ErrDecryptionFailed is       *)
(* handed to the program, b and k stay behind; a key or a buffer that is    *)
(* gone is ErrInvalidKeyLength or ErrBufferTooSmall and Open panics, or it  *)
(* is an access violation.                                                  *)
Decrypt(g) ==
  /\ pc[g] = "decrypt"
  /\ \/ /\ Usable(g) /\ \E x \in KeysRead(g) : Authentic(g, x)
        /\ buf' = [buf EXCEPT ![my[g].b].data = my[g].e.data]
        /\ Goto(g, "dropView")
        /\ UNCHANGED <<next, list, client, key, locks, rekeyer, my, status>>
     \/ /\ \/ Usable(g) /\ (\E x \in KeysRead(g) : ~Authentic(g, x)) /\ Return(g)
           \/ ~Usable(g) /\ Panic(g)
        /\ UNCHANGED <<memory, client, key, locks, rekeyer, status>>
     \/ ~Usable(g) /\ Crash

(* The wrapper freezes the buffer and returns it. *)
Opened(g) ==
  /\ pc[g] = "opened"
  /\ handles' = handles \cup {my[g].b}
  /\ Return(g)
  /\ UNCHANGED <<memory, enclaves, calls, key, locks, rekeyer, status>>

-----------------------------------------------------------------------------
(* Purge, called or on the way to a panic.                                  *)

PurgeLock(g) ==
  /\ pc[g] = "purge" /\ keyMtx = NoG
  /\ keyMtx' = g
  /\ Goto(g, "purgeKey")
  /\ UNCHANGED <<memory, client, key, lock, readers, rekeyer, my, status>>

(* Faulty variant: the re-key cycle is not halted. *)
HaltRekeyNot == "flush"

HaltRekey == IF Live(key) THEN "lockKey" ELSE "flush"

(* key.Destroyed() and key.Lock() are two acquisitions of the same mutex. *)
PurgeKey(g) ==
  /\ pc[g] = "purgeKey" /\ lock[key] = NoG
  /\ Goto(g, HaltRekey)
  /\ UNCHANGED <<memory, client, key, locks, rekeyer, my, status>>

PurgeLockKey(g) ==
  /\ pc[g] = "lockKey" /\ lock[key] = NoG
  /\ lock' = [lock EXCEPT ![key] = g]
  /\ Goto(g, "flush")
  /\ UNCHANGED <<memory, client, key, keyMtx, readers, rekeyer, my, status>>

(* buffers.flush() *)
PurgeFlush(g) ==
  /\ pc[g] = "flush"
  /\ my' = [my EXCEPT ![g].snap = list]
  /\ list' = {}
  /\ Goto(g, "purgeLoop")
  /\ UNCHANGED <<buf, next, client, key, locks, rekeyer, status>>

PurgeDestroy(g) ==
  /\ pc[g] = "purgeLoop" /\ my[g].snap # {}
  /\ LET i == Min(my[g].snap) IN
       /\ readers[i] = {}
       /\ buf' = Destroyed(i)
       /\ my' = [my EXCEPT ![g].snap = @ \ {i}]
  /\ UNCHANGED <<next, list, client, key, locks, rekeyer, pc, status>>

(* Faulty variant: keyMtx is not released. *)
KeyMtxUnlockNot == UNCHANGED keyMtx

KeyMtxUnlock == keyMtx' = NoG

(* The deferred unlocks run, and all the others of g if it is to panic.     *)
PurgeReturn(g) ==
  /\ pc[g] = "purgeLoop" /\ my[g].snap = {}
  /\ KeyMtxUnlock
  /\ lock' = [i \in DOMAIN lock |-> IF lock[i] = g THEN NoG ELSE lock[i]]
  /\ readers' = [i \in Ids |-> readers[i] \ {g}]
  /\ Goto(g, IF my[g].panics THEN "panicked" ELSE "idle")
  /\ my' = [my EXCEPT ![g] = NoLocals]
  /\ UNCHANGED <<memory, client, key, rekeyer, status>>

Recover(g) ==
  /\ pc[g] = "panicked"
  /\ Return(g)
  /\ UNCHANGED <<memory, client, key, locks, rekeyer, status>>

-----------------------------------------------------------------------------
(* Exit.                                                                    *)

(* getKey() *)
ExitKey(g) ==
  /\ pc[g] = "exit" /\ keyMtx = NoG
  /\ my' = [my EXCEPT ![g].c = key]
  /\ Goto(g, "exitKey")
  /\ UNCHANGED <<memory, client, key, locks, rekeyer, status>>

(* Coffer.Destroy() *)
ExitDestroyKey(g) ==
  /\ pc[g] = "exitKey" /\ lock[my[g].c] = NoG
  /\ buf' = Destroyed(my[g].c)
  /\ list' = list \ {my[g].c}
  /\ Goto(g, "exitCopy")
  /\ UNCHANGED <<next, client, key, locks, rekeyer, my, status>>

(* Faulty variant: the loop over the snapshot starts one too late. *)
ExitSnapshotRest == {i \in list : \E j \in list : j < i}

(* buffers.copy() *)
ExitSnapshot == list

ExitCopy(g) ==
  /\ pc[g] = "exitCopy"
  /\ my' = [my EXCEPT ![g].snap = ExitSnapshot, ![g].missed = next]
  /\ Goto(g, "exitLoop")
  /\ UNCHANGED <<memory, client, key, locks, rekeyer, status>>

ExitDestroy(g) ==
  /\ pc[g] = "exitLoop" /\ my[g].snap # {}
  /\ LET i == Min(my[g].snap) IN
       /\ readers[i] = {}
       /\ buf' = Destroyed(i)
       /\ list' = list \ {i}
       /\ my' = [my EXCEPT ![g].snap = @ \ {i}]
  /\ UNCHANGED <<next, client, key, locks, rekeyer, pc, status>>

(* os.Exit *)
ExitProcess(g) ==
  /\ pc[g] = "exitLoop" /\ my[g].snap = {}
  /\ Goto(g, "exited")
  /\ status' = "exited"
  /\ UNCHANGED <<memory, client, key, locks, rekeyer, my>>

-----------------------------------------------------------------------------
(* The re-key goroutine of coffer c.                                        *)

RekeyBegin(c) ==
  /\ rekeyer[c] = "waiting" /\ lock[c] = NoG
  /\ \/ /\ Live(c)
        /\ lock' = [lock EXCEPT ![c] = Ticker]
        /\ rekeyer' = [rekeyer EXCEPT ![c] = "rekeying"]
     \/ /\ ~Live(c)
        /\ rekeyer' = [rekeyer EXCEPT ![c] = "stopped"]
        /\ UNCHANGED lock
  /\ UNCHANGED <<memory, client, key, keyMtx, readers, pc, my, status>>

RekeyEnd(c) ==
  /\ rekeyer[c] = "rekeying"
  /\ \/ /\ lock' = [lock EXCEPT ![c] = NoG]
        /\ rekeyer' = [rekeyer EXCEPT ![c] = "waiting"]
        /\ UNCHANGED <<memory, client, key, keyMtx, readers, pc, my, status>>
     \/ ~Live(c) /\ Crash

-----------------------------------------------------------------------------
KeyStep(g)  == KeyLock(g) \/ KeyCheck(g) \/ KeyNew(g) \/ KeyInit(g)
ViewStep(g) == ViewLock(g) \/ ViewNew(g) \/ ViewFill(g)
SealStep(g) == \/ SealRandom(g) \/ SealMelt(g) \/ SealRLock(g)
               \/ Encrypt(g) \/ DropView(g) \/ Wipe(g) \/ Destroy(g)
OpenStep(g) == OpenAllocate(g) \/ Decrypt(g) \/ Opened(g)
PurgeStep(g) == \/ PurgeLock(g) \/ PurgeKey(g) \/ PurgeLockKey(g) \/ PurgeFlush(g)
                \/ PurgeDestroy(g) \/ PurgeReturn(g)
ExitStep(g) == \/ ExitKey(g) \/ ExitDestroyKey(g) \/ ExitCopy(g) \/ ExitDestroy(g)
               \/ ExitProcess(g)
RekeyStep(c) == RekeyBegin(c) \/ RekeyEnd(c)

Step(g) == \/ KeyStep(g) \/ ViewStep(g) \/ SealStep(g) \/ OpenStep(g)
           \/ PurgeStep(g) \/ ExitStep(g) \/ Recover(g)

Run(g) == status = "running" /\ (Call(g) \/ Step(g)) /\ UNCHANGED program
Rekey(c) == status = "running" /\ RekeyStep(c) /\ UNCHANGED program

Next == (\E g \in Goroutines : Run(g)) \/ (\E c \in Ids : Rekey(c))

Spec == Init /\ [][Next]_vars

(* A call that has begun goes on, and so do the re-key goroutines; Go's     *)
(* mutexes starve nobody, hence strong fairness where a lock is taken.  An  *)
(* old key's goroutine has only finitely many steps left.                   *)
FairSpec ==
  /\ Spec
  /\ \A g \in Goroutines : SF_vars(status = "running" /\ Step(g) /\ UNCHANGED program)
  /\ SF_vars(Rekey(key)) /\ SF_vars(\E c \in Ids \ {key} : Rekey(c))

-----------------------------------------------------------------------------
(* Properties.                                                              *)

Labels == {"idle", "getKey", "checkKey", "newKey", "initKey", "view", "newView",
           "fillView", "sealRandom", "melt", "rlock", "encrypt", "dropView", "wipe", "destroy",
           "allocate", "decrypt", "opened", "purge", "purgeKey", "lockKey", "flush",
           "purgeLoop", "panicked", "exit", "exitKey", "exitCopy", "exitLoop", "exited"}

Data == {"zero", "plain"}
Coffers == Ids \cup {None}
Enclave == [key : Coffers, data : Data]

TypeOK ==
  /\ buf \in [Ids -> [live : BOOLEAN, kind : {"data", "view", "coffer"},
                      of : Coffers, data : Data]]
  /\ next \in Nat \ {0}
  /\ list \in SUBSET Ids /\ handles \in SUBSET Ids /\ enclaves \in SUBSET Enclave
  /\ key \in Coffers /\ keyMtx \in Goroutines \cup {NoG}
  /\ lock \in [Coffers -> Goroutines \cup {NoG, Ticker}]
  /\ readers \in [Ids -> SUBSET Goroutines]
  /\ rekeyer \in [Coffers -> {"none", "waiting", "rekeying", "stopped"}]
  /\ pc \in [Goroutines -> Labels]
  /\ my \in [Goroutines -> [call : Names \cup {"none"}, c : Coffers, k : Coffers,
                            b : Coffers, e : Enclave, snap : SUBSET Ids,
                            panics : BOOLEAN, missed : Nat]]
  /\ calls \in 0..program.max
  /\ status \in {"running", "crashed", "exited"}
  /\ program \in Programs

Purging(i) == \E g \in Goroutines : pc[g] = "purgeLoop" /\ i \in my[g].snap

(* The state is well typed, and no Buffer escapes Purge: whatever runs      *)
(* concurrently, a live one is in the list or in the snapshot of a Purge at *)
(* work (core/exit.go:30-53).                                               *)
Tracked == TypeOK /\ \A i \in LiveSet : i \in list \/ Purging(i)

(* There is one session key: a live coffer is the current key, or the one   *)
(* that the holder of keyMtx is about to install (core/enclave.go:13-22).   *)
SingleKey ==
  \A i \in LiveSet : buf[i].kind = "coffer" =>
    i = key \/ \E g \in Goroutines : keyMtx = g /\ pc[g] = "initKey" /\ my[g].c = i

Exiting == \E g \in Goroutines : pc[g] \in {"exitCopy", "exitLoop", "exited"}

(* "the old data is assumed to be practically unrecoverable"                *)
(* (core/exit.go:11): once a Purge is over there is no copy of an old key   *)
(* anywhere, also not in a view that some call took before.                 *)
OldKeysGone ==
  keyMtx = NoG /\ ~Exiting =>
    \A i \in LiveSet : buf[i].kind = "view" => Live(buf[i].of)

(* An enclave holds what was to be sealed, never the zeroes of a wiped      *)
(* buffer (buffer.go:241, core/enclave.go:77-100).                          *)
EnclaveFaithful == \A e \in enclaves : e.data = "plain"

PurgeFree == \A g \in Goroutines : program.calls[g] \cap {"Purge", "SafePanic", "Exit"} = {}

(* "the Buffer should be destroyed as soon as possible after use"           *)
(* (core/coffer.go:75): where nobody purges, no view of the key outlives    *)
(* the call that took it.                                                   *)
NoKeyViewLeak ==
  PurgeFree /\ (\A g \in Goroutines : pc[g] = "idle") =>
    ~\E i \in LiveSet : buf[i].kind = "view"

(* The goroutines that g has to wait for. *)
WaitsFor(g) ==
  CASE pc[g] \in {"getKey", "purge", "exit"} -> {keyMtx} \cap Goroutines
    [] pc[g] \in {"checkKey", "purgeKey", "lockKey"} -> {lock[key]} \cap Goroutines
    [] pc[g] \in {"view", "exitKey"} -> {lock[my[g].c]} \cap Goroutines
    [] pc[g] \in {"melt", "destroy"} -> readers[my[g].b]
    [] pc[g] \in {"purgeLoop", "exitLoop"} /\ my[g].snap # {} -> readers[Min(my[g].snap)]
    [] OTHER -> {}

(* Nobody waits in a circle for keyMtx, a coffer's mutex and a buffer's     *)
(* lock, not even a Panic for a lock of its own (core/exit.go:82).          *)
NoDeadlock ==
  \A S \in SUBSET Goroutines \ {{}} : \E g \in S : WaitsFor(g) \cap S = {}

(* When the process exits, a Buffer is still there only if it was made      *)
(* after Exit's snapshot or a concurrent Purge has it in its own            *)
(* (core/exit.go:65-79).                                                    *)
ExitCovers ==
  \A g \in Goroutines : pc[g] = "exited" =>
    \A i \in LiveSet : i >= my[g].missed \/ Purging(i)

(* "If Seal is called on a destroyed buffer, a nil enclave is returned"     *)
(* (buffer.go:243): Seal does not panic, with enough lockable memory.       *)
SealReturns == \A g \in Goroutines : ~(my[g].call = "Seal" /\ my[g].panics)

(* "An error will be returned if decryption failed" (enclave.go:40): Open   *)
(* does not panic where nobody purges and there is lockable memory enough,  *)
(* and what it returns is what was sealed (examples/deadlock/x01/poc.go:57).*)
OpenReturns ==
  PurgeFree =>
    \A g \in Goroutines :
      /\ my[g].call = "Open" => ~my[g].panics
      /\ pc[g] = "opened" => Live(my[g].b) /\ buf[my[g].b].data = my[g].e.data

(* Seal and Open give their callers what they promise, and no panic.        *)
SealAndOpenReturn == SealReturns /\ OpenReturns

(* Every call returns or panics, unless the process ends; nobody is starved *)
(* by the re-key cycle or by other calls.                                   *)
CallsReturn ==
  \A g \in Goroutines :
    pc[g] # "idle" ~> pc[g] \in {"idle", "panicked"} \/ status # "running"

(* The re-key cycle of the session key goes on for as long as the key lives *)
(* and ends after, whoever uses the key meanwhile (core/coffer.go:36-44).   *)
RekeyGoesOn ==
  []<>(key = None \/ status # "running" \/ rekeyer[key] \in {"rekeying", "stopped"})
=============================================================================
