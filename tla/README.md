# A TLA+ model of memguard

memguard keeps secrets in memory that the Go runtime does not manage: guarded,
locked pages (`Buffer`), data encrypted under a session key that never exists
in one piece for long (`Coffer`, `Enclave`), a stream of encrypted chunks, and
ways to wipe everything (`Purge`, `Panic`, `Exit`, signals).  Almost everything
in it is shared between goroutines: a background goroutine re-keys the session
key twice a second, `Purge` may be called by anybody at any moment and also
runs on the way to every panic, and a signal handler ends the process.  The
tests mostly call one function at a time.  This project is about the rest.

## The system

| Component | Code | State | Operations | What is hard |
|---|---|---|---|---|
| Buffer | `core/buffer.go` | alive, mutable, slices, pages, RWMutex | NewBuffer, Freeze, Melt, Scramble, Destroy, Data | every system call inside `destroy()` is an early return; three kinds of callers destroy the same buffer; `Data()` hands out the slice without a lock |
| Buffer list | `core/buffer.go` | all Buffers | add, copy, remove, flush | `Purge` flushes, `Exit` copies, others append and remove |
| Coffer | `core/coffer.go` | left, right, rand, mutex, a re-key goroutine | Init, View, Rekey, Destroy | the buffers are destroyed from outside; re-keying must keep the value |
| Session | `core/enclave.go` | `key`, `keyMtx` | getOrCreateKey, NewEnclave, Seal, Open | three kinds of locks; checks in one critical section and uses in the next |
| Termination | `core/exit.go` | - | Purge, Panic, Exit | runs with the caller's locks held, against everything else |
| LockedBuffer | `buffer.go`, `core/crypto.go` | one Buffer | NewBuffer, ...FromBytes, ...Random, Copy(At), Move(At), Wipe, Scramble, EqualTo, casts | IsAlive() in one critical section, the use in the next; copies are byte loops |
| Readers | `buffer.go` | buffers that grow and shrink | NewBufferFromReader, ...Until, ...EntireReader | short reads, errors with data, exactly full buffers, Purge during a Read |
| Layout | `core/buffer.go`, `core/auxiliary.go` | - | roundToPageSize, the slices of NewBuffer | overflow, whole pages, empty canaries |
| Enclave | `enclave.go` | - | NewEnclave, NewEnclaveRandom, Open | errors that become panics, `nil` results |
| Signals | `signals.go` | two channels, a goroutine, the subscription | CatchSignal, CatchInterrupt | `select`, a channel of capacity 1, Reset before Notify |
| Stream | `stream.go` | list of enclaves, mutex | Write, Read, Next, Size, Flush | Read takes a chunk out and puts a part back; Purge in the middle |

How they interact: `Enclave` and `LockedBuffer` wrap the core; every `NewEnclave`,
`Seal` and `Open` takes a view of the session key, which is a Buffer; the coffer
is three Buffers; every Buffer is in the list; `Purge` destroys the list; a failed
allocation anywhere calls `Panic`, which calls `Purge`; the signal goroutine calls
`Exit`; a `Stream` calls all of them.  Lock order as written: `keyMtx`, then the
coffer's mutex, then a buffer's lock - except in `Seal`.

## Modules

| Module | Models | Kind |
|---|---|---|
| `Buffer` | one Buffer, any number of goroutines, failing system calls | component |
| `BufferProofs` | theorems about `Buffer` | TLAPS |
| `Coffer` | one Coffer with its re-key goroutine | component |
| `CofferProofs` | theorems about `Coffer` | TLAPS |
| `LockedBuffer` | constructors and methods of one LockedBuffer, byte by byte, against Destroy and Purge | component, implements `Cell` |
| `LockedBufferProofs` | theorems about `LockedBuffer`, and that it implements `Cell` | TLAPS |
| `Cell` | what these methods promise: a string of bytes with atomic operations | abstract specification |
| `Layout` | roundToPageSize and the slices of NewBuffer | operators |
| `LayoutProofs` | the layout is sound for every size | TLAPS |
| `Readers` | the three constructors from an io.Reader, on `Layout`, against Purge | component with a reference definition |
| `ReadersProofs` | theorems about `Readers`, on `LayoutProofs` | TLAPS |
| `Session` | session key, enclaves, the list, Purge, Panic, Exit | composition: a coffer and a Buffer are one entry each |
| `SessionProofs` | theorems about `Session` | TLAPS |
| `Signals` | CatchSignal and its goroutine | component |
| `SignalsProofs` | theorems about `Signals` | TLAPS |
| `ByteQueue` | what a Stream promises: an atomic FIFO queue of bytes | abstract specification |
| `Stream` | Stream and NewBufferFromEntireReader, against Purge | component, implements `ByteQueue` |
| `StreamProofs` | theorems about `Stream`, and that it implements `ByteQueue` | TLAPS |
| `MC*` | constants for TLC | - |

The runs list the properties that say something of their own: a module's `TypeOK` is a
conjunct of one of them (`IInv`, `StepInv`, `Tracked`, `HandlersKept`, `InOrder`, `SafeAccess`,
`ReturnsExpected`).

Definitions called "Faulty variant" are not part of any specification.  Each is
a plausible mistake in the definition after it, used to show that a property
notices it.

### Buffer

A Buffer's fields are `alive`, `mutable`, `slices` (its six slices are nil or not
together); `mem` is what the kernel has: mapped, mlocked, the protection of the
inner and guard pages, and whether data and canary are wiped.  `destroy()` is one
action per system call (`DestroyLock` ... `DestroyReset`), each with the error
return; `DestroyFails` says what the three callers do with an error.  `Purge` is
`PurgeFlush`, the same destroy steps, `PurgeFallback` and `PurgeReturns`, with the
deferred unlocks at the end.  Freeze, Melt and the locked writes are one action
each, since they hold the lock throughout.  `UnlockedWrite` is a store through a
slice kept from `Data()`, and `Underflow` a client that hits the canary.  `raced`
remembers if such a store hit the pages while somebody held the lock: then nothing
can be promised about their contents.  The
window between the last write of `NewBuffer` and `buffers.add` is not visible to
anybody and is not a state.

### Coffer

`part` holds what is in `left`, `right` and `rand`: elements of an arbitrary group with
`Xor`, `Freed` (the pages are unmapped) or `Nil` (the slice is nil).  The hash is an
arbitrary function; a loop over 32 bytes is one operation.  Methods are split at each
access to a partition, which they read without the Buffer's lock, because not everybody
who destroys one holds `s.Mutex`: Purge takes it only for a session key that is not
yet destroyed, Exit's loop never does (`exits` is who comes from there).  `destroy()` of
the partition `at` is split where a method can see the difference: the data wiped
(`DestroyWipe`), the pages unmapped (`DestroyFree`), the slices nil (`DestroyReset`),
each with its errors; `busy` is the Buffers whose lock it holds meanwhile.  The variable
`sessionKey`, fixed at the start, says if this coffer is the one whose mutex Purge
takes.  `failed` is history.

### Session

Each goroutine runs one call at a time through the labels in `pc`, one label per
acquisition of a lock or access to a shared Buffer.  A Buffer is live or not and
holds data, a view of a key or a coffer; `Destroyed` is atomic because `Buffer` and
`Coffer` show what is inside.  When a Buffer is gone at the moment its slice is used, the
outcome is either an empty slice (an error or a panic, by the code that follows)
or an access violation (`Crash`), both modelled.  While a Purge or an Exit is at its loop
(`UnderWay`), a Buffer that it has yet to destroy may be wiped already: a view then is of
no key, Encrypt works under an all-zero one (`KeysRead`), and Decrypt finds the wrong key.  `MlockLimit` is the number of
Buffers that the kernel lets the process lock.  History: `missed`, the first
buffer number that Exit's snapshot cannot contain.

`Programs` says which calls each goroutine makes and how many of them allocate;
a behaviour follows one of them.  `NewEnclaveRandom` goes through the labels of Seal
after its own allocation, `SafePanic` through those of Purge before the panic.

### LockedBuffer

One shared buffer; `phase` is how far its constructor is (a Purge finds it in the
list before the constructor returns).  A method is its IsAlive() check (`Check`),
the acquisition of the lock with the evaluation of the slice (`Lock`, `RLock`), one
step per byte (`Write`), and the rest (`WriteEnd` with Move's wipe of the source,
`Read`, `RUnlock`).  A write to frozen memory is a fault.  The casts differ only in
how many bytes they cover and in whether they check the size.  Refinement mapping:
a write that has begun counts as complete, since the lock hides it.

### Layout and Readers

Lengths are ints that wrap at `MaxInt`; clearing low bits is `x - (x % PageSize)`,
also for negative numbers.  NewBuffer panics if the length is not positive, and also if
the kernel refuses to map, protect or lock the pages, which it may for any size
(`my.err = "refused"` remembers that).  In `Readers` one call runs against an arbitrary `io.Reader`:
`Read(k, e)` gives any number of bytes that fits, with or after them the error at the
end of the input, or nothing.  `io.ReadFull` is the loop between `GotFull` and `Read`.
The slice that is with the reader is fixed at `Take`; `mem` is empty for a destroyed
Buffer, so that what the code computes from `Size()` and `Bytes()` after a Purge is
what Go computes from nil slices: a panic, a growth by one page, an empty Read.
`Seen` and `Fault` are the two outcomes of using pages that Purge is wiping and
unmapping.  `Wanted`, `Taken` and `Error` are the reference definition.

### Signals

`sigfunc` and `listener` are sequences with the channels' capacities, `subs` the
signals relayed.  `os/signal` is external: Notify adds, Reset clears, a delivery
to a full channel is dropped, and an unsubscribed signal kills the process.

### Stream

Bytes are numbered in the order in which Write gets the mutex, so order and loss
can be seen in the values.  `alive` and `doomed` are the Buffers in use and the
ones that a Purge has in its snapshot; NewEnclave, Open and Seal wait for the Purge
(it holds `keyMtx`).  A Buffer in the snapshot may be wiped before it is gone: whoever
copies from it finds its bytes or zeroes (`Wiped`).  Flush is a loop of Reads into its own
growing buffer `f`, at the end of which `FlushCopy` makes the buffer `d` that it returns
in `FlushReturn`; `drawn` (history) is what its Reads gave it.  The
refinement mapping puts back what a Read has popped and hides what a Write has
joined so far, so that each operation is one step of `ByteQueue`.

## Runs

Passing runs:

| Run | Instance | Shows |
|---|---|---|
| `buffer` | 2 goroutines, one of them with a slice kept from `Data()` | no use after free, clean release, the mutable flag is right, no live buffer is out of Purge's reach, wiping as a last resort, frozen data is stable, Destroy returns; the inductive invariant |
| `coffer` | 2 callers and the ticker, 1-bit values, session key or not, failing destroys, Exit | re-keying is invisible, View is right until somebody destroys the coffer, no use of a destroyed partition of the session key but from Exit, a destroyed coffer is destroyed in all its parts, the re-key goroutine ends; what each statement finds (`StepInv`) |
| `session_all` | 2 goroutines, every call, 3 allocating calls (2 in the program with SafePanic and NewEnclaveRandom), limit of 5 buffers | every live Buffer is tracked, one session key, no copy of an old key after a Purge, what can survive an Exit |
| `session_calls` | three programs: both goroutines make, open, destroy and purge; one seals its own buffers beside one that makes and opens; the openers of `examples/deadlock/x01` | sealed data is the data and Open returns it, no leak of key views, no panics, every call returns (hence no circular wait), the re-key cycle goes on |
| `lockedbuffer` | 2 goroutines, up to 2 bytes, offsets 0, 1, 3 | LockedBuffer implements Cell, no use of released memory, a Move leaves nothing behind, methods of a destroyed buffer are no-ops, only the known races panic, every call returns |
| `readers` | pages of 2 bytes, inputs up to 5 with up to 2 delimiters, sizes 0 to MaxInt = 15, one Purge | each function returns what it promises and takes no byte too many, no buffer is left behind, no byte is misplaced, the layout is sound, the call ends; any allocation may be refused |
| `signals` | 2 callers with 2 calls each, 2 signals, capacity 2 | handler before exit, last subscription, no handler lost on its way, a caught signal ends the process, CatchSignal returns |
| `stream_queue` | 2 goroutines, page 1, chunk 4, 6 bytes | Stream implements ByteQueue; every call returns |
| `stream_purge` | the same with one Purge, 5 bytes | bytes never come twice or out of order; Flush loses, adds and misplaces none |

Violation runs, each a disagreement between the code and what its documentation
or comments say (`findings` in `PROJECT.json` quotes the lines):

| Run | Property | What happens |
|---|---|---|
| `seal_purge` | NoDeadlock | Seal and Purge take a buffer's lock and keyMtx in opposite orders |
| `signals_nil` | HandlerIsThere | a signal before the first handler calls a nil func |
| `stream_olddata` | OldDataGone | a Read under way carries data from before a Purge into an enclave under the new key |

### Where the promises of the passing runs end

The passing runs state in which company a promise holds.  The models reach these
states as soon as the constants are widened; no run is kept for them.

* `NoDeadlock` (Session, `MlockLimit` below what the calls need): NewBuffer panics
  inside getOrCreateKey or View, and the Purge of `Panic` waits for the mutex that
  its own goroutine holds.
* `EnclaveFaithful` (Session, two goroutines that Seal the same buffer): both pass
  the check of `core/enclave.go:79`, the second encrypts the zeroes of the first.
* `SealReturns` (Session, Seal against Destroy): a buffer destroyed after that
  check makes Seal panic; `buffer.go:243` promises a nil enclave.
* `OpenReturns` (Session, Open against Purge): a Purge between the allocation or
  the key view and Decrypt leaves an empty slice, and `Enclave.Open` panics.
* `NoKeyViewLeak` (Session, Open of an enclave under an old key): Open returns on a
  decryption error and leaves its view of the session key (`core/enclave.go:122`).
* `ExitCovers` has two exceptions on purpose: a Buffer made after Exit's snapshot,
  and one that a Purge under way has already flushed out of the list.
  `memguard.go:40` says that SafeExit destroys everything.
* `ViewIsValue` and `ExpiredIsAnError` need whoever destroys the coffer to hold its
  mutex.  Purge does not for a coffer other than the session key, and Exit's loop
  (`core/exit.go:70-74`) does not for a session key made after Exit has destroyed the one it
  found.  There, View reads a partition that `destroy()` has wiped but not yet set to nil
  and returns a hash XOR zeroes, or it, Init or Rekey runs into unmapped pages or indexes
  a nil slice.  `core/coffer.go:12` promises an error.
* Session has no property about the key that an enclave is under while a Purge or an
  Exit is at work: a view that is wiped between `core/enclave.go:54` and 60 makes Encrypt
  use an all-zero key.
* `PurgeIsFinal` excepts a partition whose own `destroy()` failed: if that happens
  to both of them the coffer counts as usable.
* `PanicsAreKnown` names two exceptions: CopyAt and MoveAt at an offset above zero
  (`buffer.go:274`, `295`) and Int8 (`buffer.go:493`) panic if the buffer is destroyed
  between their check and their lock.
* EqualTo of a destroyed buffer and an empty slice is true, although `buffer.go:352`
  says that it is false for a destroyed buffer; `buffer_test.go:851` expects true for
  a null buffer.  Move wipes its whole source even if only a part fits, and
  NewBufferFromBytes leaves its source as it is if a Purge comes before the check of
  the size.
* `ReturnsExpected` allows a panic wherever the kernel refuses a Buffer.
* `ReturnsExpected` and `ReadReturns` hold without a Purge.  After one the byte count
  may run past an empty slice (a panic), growth copies nothing (zero bytes), a wiped
  delimiter is read over, and NewBufferFromEntireReader reads into an empty slice for
  ever if the Purge came before the first byte.
* `NewestHandlerKept` allows the newest handler to be still in the channel when a
  signal is taken: CatchSignal has returned and the previous handler runs.  Between
  Reset and Notify of a second call a signal has its default effect and kills the
  process (`Signal`, last disjunct).
* `FlushReturnsData` allows zeroes, and a destroyed buffer, if a Purge has begun since Flush
  did: it may grow or copy a buffer that is wiped.
* `CallsReturn` (Stream, `MaxEpoch = 2`): a Purge that destroys the empty buffer of Flush
  makes it read into a slice of length zero for ever.
* `IsByteQueue` (Stream, `MaxEpoch = 2`): a Purge between Read's copy of the rest and
  its Seal puts a nil enclave in front of the queue, which reads as EOF although
  there is data behind it.

### Bounds

Two goroutines are enough for every pair of calls, and each of the races found
needs two; for Buffer and Coffer the proofs cover any number.  `MaxCalls` in
Session bounds calls that allocate, so buffer numbers stay finite; three calls
allow a key, a view and a result to overlap with another call's, and the limit of
five buffers is hit both under `keyMtx` and under the coffer's mutex.  One-bit values
let every dropped or repeated operand of Rekey show; the proofs cover all values.
Two bytes make a half-written buffer visible, and the offsets are one inside, one
at the start and one beyond the end.  Five input bytes fill two pages of two and
begin a third, so that a buffer grows twice and is shrunk; the sizes are zero, one,
less than, equal to and more than the input, and two that overflow.  At most
one Purge comes during a call of `Readers`.
Six bytes with a chunk of four give a whole chunk, a rest, and a Write that follows;
a page of one makes Flush grow several times.  `ListenCap` is 2 in the passing
run, so that signals are dropped (the code has 4).  Deadlock checking is off
in Session and Signals because their processes end (exit, crash, panic of a nil
func) and because the bound on calls stops clients; lock cycles are for `CallsReturn` and `NoDeadlock`.
It is off in `coffer` because a crash ends the process, and in `lockedbuffer`
because a fault does.

### Fairness

Steps inside a call are fair: goroutines are scheduled.  Where a lock is taken the
fairness is strong, since a Go mutex in starvation mode hands over to the waiter.
Calls themselves are never fair: nobody has to call anything.  The ticker is fair
because its channel fires for ever; in Coffer `destroy()` gets the Buffer's lock in the
end, like any mutex.  In Signals each ready `select` case is taken
if it is ready again and again, because Go chooses at random.  Purge, once begun,
is fair in Stream.  In Readers an `io.Reader` does not answer (0, nil) for ever, which
its documentation discourages and without which no caller could come to an end.

## Proofs

`BufferProofs` proves, for any sets of goroutines and unlocked writers, `Spec =>
[]IInv` and from it all safety properties of the run `buffer` and the action
property `FrozenDataIsStable`.  The properties alone are not inductive: that pages
are mapped when `munlock` runs depends on who holds the lock and which statement it
has reached.  `IInv` adds: the lock is held exactly in the critical labels
(`LockInv`), the fields agree with each other and with the label (`FieldInv`), and
what the pages are (`PageInv`), their protection (`ProtectionInv`) and their
contents (`WipeInv`) are at each label.  The step lemmas go by group of actions
(`CallStep`, `DestroySteps`, `PurgeSteps`); `MemoryUpdates` and `Leftovers` collect
facts about record updates.  The only assumption is `BufferAssumption`.

`CofferProofs` proves `TypeCorrect`, `StepsAgree`, `RekeyPreserves`, `ViewCorrect`,
`NoCrash` and `DestroyCompletes`, whether or not the coffer is the session key and
whichever destroys fail, for every set of values with an XOR that is
an Abelian group of exponent two, every hash and every set of callers.  `StepInv` is
what they rest on: only the holder of the mutex is in a method, and whoever destroys the
session key holds it too, except Exit and a Purge that found it destroyed
(`ExclusionInv`); a Buffer's lock is held by exactly one `destroy()`, under which alone pages
are unmapped (`BufferLockInv`); `left` is the first partition to go, for the session key
with nobody in a method (`ExpiryInv`); whoever destroys is through with the partitions
before (`ProgressInv`); and what a method has computed so far while nobody destroys
(`MethodInv`): in the middle of Rekey, `left` still belongs to the old hash, and
`tmp XOR left` is the value.  `XorCancels` and `XorRebinds` are the algebra.
`DestroyOutcomes` sorts the steps of `destroy()` into those that go on under the Buffer's
lock (`UnderWay`) and those that are through with the partition (`Returned`).

`LayoutProofs` proves `LayoutIsSound` for every page size, every `MaxInt` of at least
four pages and every size.  `RoundsUp` is the case without overflow, by division
with remainder; `OverflowFails` shows that a sum that wrapped around is never a
length that can be allocated.

`SessionProofs` proves `Tracked`, `SingleKey`, `OldKeysGone` and `ExitCovers` for any
set of goroutines and of programs, any bound on the buffers and any limit on locked
memory.  None of them is inductive.  `IInv` adds: numbers are given out in order, so
nobody knows a buffer that is yet to be made (`FreshInv`); the key and the coffers in use are
coffers, the views views of coffers (`KindInv`); who holds `keyMtx` and a coffer's
mutex at which label (`MutexInv`); a new key is made only when the old one is gone
(`KeyInv`); a Purge holds the mutex of a live key from before its flush to its end
(`HaltInv`); a live view is of a live coffer or in the snapshot of the Purge at work
(`ViewInv`); and what Exit has seen it destroys, or a Purge does (`ExitInv`).  The
heart of `OldKeysGone` is the lemma `NoViews`: because Purge halts the only coffer,
no view is being made while it flushes the list, so that every view is in its snapshot.  Buffer
numbers are bounded by `MaxBuffers` in the guard of `NewBuffer`.

The other promises of a call are not the session's alone to keep, so their theorems name
what the program has to do for them.  The run `session_calls` checks them for programs that do,
and TLC finds a counterexample as soon as a rule is dropped (see "Where the promises of
the passing runs end").

* `Ownership`, without any rule: the buffer that Open or NewEnclaveRandom makes is known
  to nobody else until the call hands it out, and Seal and Destroy work on the program's
  handles (`OwnInv`).  `OwnStep` is the frame: a turn of one goroutine takes a number not
  yet given out, or a handle.
* `EnclavesHoldPlaintext` proves `EnclaveFaithful` if the program's buffers are sealed by
  one goroutine (`SoleSealer`); others may destroy them, purge and exit at any time, and
  memory may run out.  `FaithfulInv` adds what is on its way to the enclave: from RLock
  to Encrypt the goroutine is among the buffer's readers, so no destroy gets at the data
  (`CarriesInv`), and a live handle holds zeroes only if its Seal has wiped it and is
  about to destroy it (`HandlesInv`).
* `NoViewLeaks` proves `NoKeyViewLeak` and `CallsKeepTheirPromise` proves
  `SealAndOpenReturn`, if the kernel locks what is needed (`EnoughMemory`: one key has
  three Buffers, so two more than numbers, and `AlwaysFits` bounds `Mlocked` by it), if
  whoever seals the program's buffers is the only one to seal or destroy them
  (`SealerOwns`), and, for the second, if nobody purges, panics or exits in a program that
  seals (`SealersDoNotPurge`).  Without a Purge the properties say too little: a Seal
  that panics purges too.  `QuietInv` says that this never happens: the key is made once
  and stays alive, all enclaves are under it, every live view is in use by one call, and
  each call has the coffer, the view and the buffer that its next statement needs
  (`ServedInv`); nothing is being destroyed under it, so what it reads is the key
  (`NothingUnderWay`).  `QuietStep` is the frame for the goroutines whose turn it is not.

TLC checked these invariants on the programs of the run `session_calls` and on wider ones (every
function but SafePanic by both goroutines, Seal by one) before they were proved.

`SignalsProofs` proves `HandlersKept` and `LastSubscribed` for any set of callers
and signals and any capacity of the channel.  `IInv` adds that the goroutine leaves its
loop with the one handler that it has executed (`LoopInv`), and that the subscription of
the last call to return stands, unless some call is between Reset and Notify
(`SubscribedInv`).

`LockedBufferProofs` proves `SafeAccess`, `MoveIsMove`, `PanicsAreKnown`, and the
refinement `Spec => IsCell`: for any goroutines, any strings of bytes and any offsets
the byte loops appear as single steps of `Cell`.  `IInv` says who holds the lock in
which mode (`LockInv`), which method comes to which statement (`MethodInv`), that a
method which found the buffer gone goes no further (`LateInv`), how much of a write is
there so far (`WriteInv`), and that a constructor is alone with its buffer but for
whoever destroys it (`PhaseInv`).  The refinement goes action by action.  Besides
`LockedBufferAssumption` it uses `HiddenAssumption`: the value that stands for a buffer
not yet made is no string of bytes.

`ReadersProofs` proves `ReturnsExpected`, `NeverMisplaced`, `NoLeak` and
`LayoutSound` for every input, every division of it by the reader, every size, page
size and `MaxInt`.  The parts of `IInv`: what is counted is what the reader gave
(`CountInv`), the call knows every live buffer (`OwnInv`), every byte of every buffer
is zero or the input's byte at that place (`PlaceInv`), every buffer could be
allocated (`SizeInv`), and what each statement relies on as long as nobody purges
(`QuietInv`): how much of the input the buffer holds, that no delimiter was read over,
and that the answer is decided once the loop is left.  `SizeAnswer`, `UntilAnswer` and
`EntireAnswer` relate the loop to the reference definition.  `ReadersAssumption` asks
that zero is not a byte of the input (so that what was never filled can be told), and
that the input and four more pages fit into an address space: otherwise growing fails
and the call panics, which `ReturnsExpected` allows only for the size that was asked for or
when the kernel refuses a Buffer that could have been allocated.

`StreamProofs` proves `InOrder` and `FlushReturnsData` for any goroutines, sizes and number of
Purges, and, if there is no Purge (`MaxEpoch = 1`, as in the run `stream_queue`),
the refinement `Spec => IsByteQueue`.  What `FlattenSeq` makes
of a list of any length is proved by induction over a set of numbers (`SetInduction`,
from the least number that is not in it): `FlattenAppend` and `FlattenPush` say what joining and
pushing do to the bytes of the list.  `ChunkIs` is the arithmetic of Write's chunks.
`IInv` says that who is at work under the mutex holds it (`LockInv`), that Write goes in
whole chunks and `rest` is what follows the bytes handed out, or zeroes (`LocalInv`),
that the bytes taken, the bytes popped and the bytes in the list form one rising chain
(`OrderInv`), and that all of them were written before what a Write has yet to join
(`BoundInv`).  Without a Purge `QInv` adds: no enclave is nil, empty or under another
key, every Read and Flush has its buffers and room for what it reads (`QuietAt`), and
what a Write has joined so far is at the end of the list (`JoinInv`).  Each action lemma
proves that both are kept and that the step is one of `ByteQueue` on `View` and `Count`,
which are the refinement mapping (`ContentsIs`).
`FlushInv` is about one Flush at each of its statements (`FlushAt`): its buffers are alive if no
Purge has begun since it did, and hold, up to the count, what was drawn, where only such a
Purge may have put zeroes.

Only model-checked: liveness (the prover does not do it), that is `DestroyReturns`,
`TickerStops`, `CallsReturn`, `RekeyGoesOn`, `SignalEndsProcess`, `CatchSignalReturns`
and `ReadReturns`.  Every invariant and action property of the passing runs is stated by
a theorem.

## Not modelled

* What the ciphers and the hash compute, constant-time comparison, memcall,
  `core/init.go`, and the client code of the examples.
* Writes through a slice kept from `Bytes()` are in Buffer only; in LockedBuffer they
  would make every promise about contents void.
* `Reader`, `String`, `Size`, `IsMutable` and `Bytes` change nothing and use
  their result without a lock.
* Go's memory model below the statement: a torn read of a slice header is not
  modelled, the empty slice and the access violation are.
* `crypto/rand` failing: with the Go version of `go.mod` it aborts the process.

## Plan

Done: Buffer, Coffer, Session, Signals, Stream with ByteQueue, LockedBuffer with Cell,
Layout, Readers, and proofs for all of them.  Next: `Session` shown to implement an
abstract session (a set of live secrets and one key), for the calls that do not race.
