------------------------------- MODULE Stream -------------------------------
(***************************************************************************)
(* Stream (stream.go): a list of enclaves behind one mutex, with Write,    *)
(* Read, Next, Size and Flush, which is NewBufferFromEntireReader          *)
(* (buffer.go) on the stream itself, and a session that may be purged at   *)
(* any moment.                                                             *)
(*                                                                         *)
(* Bytes are numbered in the order in which Write got hold of the mutex;   *)
(* Zero is the byte of a buffer nobody filled or that was wiped.  Each call*)
(* works on at most four Buffers: b and c of Read, f and d of Flush (there *)
(* b and d).  Purge holds keyMtx, so NewEnclave, Open and Seal wait for it;*)
(* it destroys, one by one, the Buffers that were in the list when it      *)
(* began, and whoever copies from one of them meanwhile may find it wiped  *)
(* (a copy that a wipe overtakes half way has some zeroes; no property     *)
(* tells how many).  NewEnclave, Open and Seal are one step each (Session  *)
(* models the inside and what goes wrong there), and so is a method's      *)
(* check and use of a Buffer: the access violation that a Buffer unmapped  *)
(* in between causes ends the process.                                     *)
(***************************************************************************)
EXTENDS Naturals, Sequences, SequencesExt

CONSTANTS
  Goroutines,
  PageSize,   \* os.Getpagesize()
  WriteSizes, \* lengths of the slices given to Write
  ReadSizes,  \* lengths of the slices given to Read
  MaxBytes,   \* bound on the bytes written
  MaxEpoch,   \* bound on the sessions: MaxEpoch - 1 Purges
  NoG         \* owner of a free mutex

ASSUME StreamAssumption ==
  /\ PageSize \in Nat \ {0}
  /\ WriteSizes \subseteq Nat /\ ReadSizes \subseteq Nat
  /\ MaxBytes \in Nat /\ MaxEpoch \in Nat \ {0}
  /\ NoG \notin Goroutines

VARIABLES
  queue,   \* the list of enclaves
  mutex,   \* owner of the stream's mutex
  epoch,   \* number of the current session key
  purging, \* a Purge holds keyMtx
  alive,   \* Buffers in use: <<goroutine, variable>>
  doomed,  \* the ones that the Purge has yet to destroy
  written, \* bytes given to Write so far
  taken,   \* (history) bytes handed out by Read and Next, in order
  pc, my,  \* next statement and local variables of each goroutine
  last     \* (history) what the last step made a call return, if it did

vars == <<queue, mutex, epoch, purging, alive, doomed, written, taken,
          pc, my, last>>

session == <<epoch, purging>>

(* c, the chunk size (stream.go:17) *)
ChunkSize == PageSize * 4

Zero == 0

(* An enclave: the key it is under, the key its bytes were first under, and *)
(* its bytes.  Nil is the nil *Enclave.                                     *)
Enclave(key, born, data) == [key |-> key, born |-> born, data |-> data]
Nil == Enclave(0, 0, <<>>)

Result(g, n, bytes, err) == [by |-> g, n |-> n, bytes |-> bytes, err |-> err]
NoResult == Result(NoG, 0, <<>>, "nil")

(* data: Write's argument, or what is in b; i: Write's loop variable;       *)
(* n: len(buf); rest: what is in c; flush: is this a Read by Flush; got,    *)
(* read: what is in f, and how many bytes of it have been read; res: what   *)
(* Read returned; out: what is in d.  History: what Reads have given to     *)
(* this Flush, and the sessions begun before it.                            *)
NoLocals == [data |-> <<>>, born |-> 0, i |-> 0, n |-> 0, rest |-> <<>>,
             flush |-> FALSE, got |-> <<>>, read |-> 0, res |-> NoResult,
             out |-> <<>>, drawn |-> <<>>, start |-> 0]

Init ==
  /\ queue = <<>> /\ mutex = NoG
  /\ epoch = 1 /\ purging = FALSE
  /\ alive = {} /\ doomed = {}
  /\ written = 0 /\ taken = <<>>
  /\ pc = [g \in Goroutines |-> "idle"]
  /\ my = [g \in Goroutines |-> NoLocals]
  /\ last = NoResult

-----------------------------------------------------------------------------
Silent == last' = NoResult

Goto(g, l) == pc' = [pc EXCEPT ![g] = l]

Alive(g, v) == <<g, v>> \in alive

NewBuffer(g, v) == alive' = alive \cup {<<g, v>>} /\ doomed' = doomed \ {<<g, v>>}

Destroy(buffers) == alive' = alive \ buffers /\ doomed' = doomed \ buffers

(* Does one find the Buffer wiped?  Zeroed is what one copies then. *)
Wiped(g, v) == IF ~Alive(g, v) THEN {TRUE} ELSE IF <<g, v>> \in doomed THEN BOOLEAN ELSE {FALSE}
Zeroed(data, wiped) == IF wiped THEN [k \in 1..Len(data) |-> Zero] ELSE data

(* The sessions begun so far. *)
Begun == IF purging THEN epoch + 1 ELSE epoch

(* A call returns to the program. *)
Return(g, n, bytes, err) ==
  /\ last' = Result(g, n, bytes, err)
  /\ Goto(g, "idle")
  /\ my' = [my EXCEPT ![g] = NoLocals]

(* A runtime panic: the deferred calls unlock the mutex and destroy b; c, d *)
(* and f leak, where nobody reaches them any more.                          *)
Panic(g) ==
  /\ Return(g, 0, <<>>, "panic")
  /\ mutex' = IF mutex = g THEN NoG ELSE mutex
  /\ Destroy({<<g, "b">>, <<g, "c">>, <<g, "d">>, <<g, "f">>})
  /\ UNCHANGED <<queue, session, written, taken>>

(* Read returns, to the program or to Flush; b.Destroy() and s.Unlock() run. *)
ReadReturn(g, n, bytes, err) ==
  /\ last' = Result(g, n, bytes, err)
  /\ taken' = taken \o bytes
  /\ \/ /\ my[g].flush /\ Goto(g, "flushed")
        /\ my' = [my EXCEPT ![g].res = last', ![g].drawn = @ \o bytes]
     \/ ~my[g].flush /\ Goto(g, "idle") /\ my' = [my EXCEPT ![g] = NoLocals]
  /\ mutex' = NoG
  /\ UNCHANGED <<session, written>>

-----------------------------------------------------------------------------
(* Write                                                                    *)

Write(g) ==
  \E n \in WriteSizes :
    /\ pc[g] = "idle" /\ mutex = NoG
    /\ written + n <= MaxBytes
    /\ mutex' = g
    /\ written' = written + n
    /\ my' = [my EXCEPT ![g].data = [k \in 1..n |-> written + k]]
    /\ Goto(g, "write")
    /\ UNCHANGED <<queue, session, alive, doomed, taken>> /\ Silent

(* Faulty variant: the last chunk is cut off from the wrong place. *)
ChunkFromStart(data, i) ==
  IF i + ChunkSize > Len(data)
    THEN SubSeq(data, 1, Len(data) % ChunkSize)
    ELSE SubSeq(data, i + 1, i + ChunkSize)

(* The chunk of data that starts at i. *)
Chunk(data, i) ==
  IF i + ChunkSize > Len(data)
    THEN SubSeq(data, Len(data) - (Len(data) % ChunkSize) + 1, Len(data))
    ELSE SubSeq(data, i + 1, i + ChunkSize)

(* s.join(NewEnclave(...)) *)
WriteJoin(g) ==
  /\ pc[g] = "write" /\ my[g].i < Len(my[g].data) /\ ~purging
  /\ queue' = Append(queue, Enclave(epoch, epoch, Chunk(my[g].data, my[g].i)))
  /\ my' = [my EXCEPT ![g].i = @ + ChunkSize]
  /\ UNCHANGED <<mutex, session, alive, doomed, written, taken, pc>> /\ Silent

WriteReturn(g) ==
  /\ pc[g] = "write" /\ my[g].i >= Len(my[g].data)
  /\ mutex' = NoG
  /\ Return(g, Len(my[g].data), <<>>, "nil")
  /\ UNCHANGED <<queue, session, alive, doomed, written, taken>>

-----------------------------------------------------------------------------
(* Read and Next                                                            *)

CallRead(g) ==
  \E n \in ReadSizes :
    /\ pc[g] = "idle"
    /\ my' = [my EXCEPT ![g].n = n]
    /\ Goto(g, "read")
    /\ UNCHANGED <<queue, mutex, session, alive, doomed, written, taken>> /\ Silent

(* pop() returns nil: the list is empty or its first element is nil. *)
PopNil == \/ queue = <<>> /\ UNCHANGED queue
          \/ queue # <<>> /\ Head(queue) = Nil /\ queue' = Tail(queue)

(* pop() returns an enclave, which opens under the present key or not. *)
Pop == queue # <<>> /\ Head(queue) # Nil /\ ~purging /\ queue' = Tail(queue)
Opens == Head(queue).key = epoch

(* The mutex is taken and next() called: EOF, an error, or a buffer b. *)
ReadNext(g) ==
  /\ pc[g] = "read" /\ mutex = NoG
  /\ \/ PopNil /\ ReadReturn(g, 0, <<>>, "EOF") /\ UNCHANGED <<alive, doomed>>
     \/ /\ Pop /\ ~Opens
        /\ ReadReturn(g, 0, <<>>, "decryption failed")
        /\ UNCHANGED <<alive, doomed>>
     \/ /\ Pop /\ Opens
        /\ mutex' = g
        /\ NewBuffer(g, "b")
        /\ my' = [my EXCEPT ![g].data = Head(queue).data, ![g].born = Head(queue).born]
        /\ Goto(g, "check")
        /\ UNCHANGED <<session, written, taken>> /\ Silent

(* Copy(buf, b.Bytes()), then is len(buf) < b.Size()?  If b is destroyed    *)
(* now or at the return, its size is 0 and nothing counts as read.          *)
ReadCheck(g) ==
  /\ pc[g] = "check"
  /\ \/ /\ Alive(g, "b") /\ my[g].n < Len(my[g].data)
        /\ \E wiped \in Wiped(g, "b") :
             my' = [my EXCEPT ![g].data = Zeroed(@, wiped), ![g].born = IF wiped THEN epoch ELSE @]
        /\ Goto(g, "leftover")
        /\ UNCHANGED <<queue, mutex, session, alive, doomed, written, taken>> /\ Silent
     \/ /\ Alive(g, "b") /\ my[g].n >= Len(my[g].data)
        /\ \E wiped \in Wiped(g, "b") :
             ReadReturn(g, Len(my[g].data), Zeroed(my[g].data, wiped), "nil")
        /\ Destroy({<<g, "b">>})
        /\ UNCHANGED queue
     \/ /\ ~Alive(g, "b")
        /\ ReadReturn(g, 0, <<>>, "nil")
        /\ UNCHANGED <<queue, alive, doomed>>

(* c := NewBuffer(b.Size() - len(buf)).  If b is gone the size is not       *)
(* positive and c is a null buffer.                                         *)
ReadLeftover(g) ==
  /\ pc[g] = "leftover"
  /\ \/ Alive(g, "b") /\ NewBuffer(g, "c")
     \/ ~Alive(g, "b") /\ UNCHANGED <<alive, doomed>>
  /\ Goto(g, "fill")
  /\ UNCHANGED <<queue, mutex, session, written, taken, my>> /\ Silent

(* c.Copy(b.Bytes()[len(buf):]): the slice expression panics if b is gone,  *)
(* unless len(buf) is 0, when c just stays as it is, all zeroes.            *)
ReadFill(g) ==
  /\ pc[g] = "fill"
  /\ \/ /\ Alive(g, "b") \/ my[g].n = 0
        /\ \E wiped \in Wiped(g, "b") :
             my' = [my EXCEPT
                      ![g].rest = Zeroed(SubSeq(my[g].data, my[g].n + 1, Len(my[g].data)), wiped),
                      ![g].born = IF wiped THEN epoch ELSE @]
        /\ Goto(g, "reseal")
        /\ UNCHANGED <<queue, mutex, session, alive, doomed, written, taken>> /\ Silent
     \/ ~Alive(g, "b") /\ my[g].n > 0 /\ Panic(g)

(* Faulty variant: what is left goes to the back of the list. *)
ReadResealBack(g) ==
  /\ pc[g] = "reseal"
  /\ \/ /\ Alive(g, "c") /\ ~purging
        /\ queue' = Append(queue, Enclave(epoch, my[g].born, my[g].rest))
     \/ ~Alive(g, "c") /\ queue' = Append(queue, Nil)
  /\ Destroy({<<g, "b">>, <<g, "c">>})
  /\ ReadReturn(g, my[g].n, SubSeq(my[g].data, 1, my[g].n), "nil")

(* s.push(c.Seal()), where Seal of a destroyed buffer is nil. *)
ReadReseal(g) ==
  /\ pc[g] = "reseal"
  /\ \/ /\ Alive(g, "c") /\ ~purging
        /\ queue' = <<Enclave(epoch, my[g].born, my[g].rest)>> \o queue
     \/ ~Alive(g, "c") /\ queue' = <<Nil>> \o queue
  /\ Destroy({<<g, "b">>, <<g, "c">>})
  /\ ReadReturn(g, my[g].n, SubSeq(my[g].data, 1, my[g].n), "nil")

(* Next hands the buffer itself to the program, or null and the error. *)
NextChunk(g) ==
  /\ pc[g] = "idle" /\ mutex = NoG
  /\ \/ /\ PopNil
        /\ Return(g, 0, <<>>, "EOF")
        /\ UNCHANGED taken
     \/ /\ Pop /\ ~Opens
        /\ Return(g, 0, <<>>, "decryption failed")
        /\ UNCHANGED taken
     \/ /\ Pop /\ Opens
        /\ Return(g, Len(Head(queue).data), Head(queue).data, "nil")
        /\ taken' = taken \o Head(queue).data
  /\ UNCHANGED <<mutex, session, alive, doomed, written>>

(* All bytes in the list. *)
Bytes == FlattenSeq([k \in DOMAIN queue |-> queue[k].data])

(* Size, which dereferences every element. *)
Size(g) ==
  /\ pc[g] = "idle" /\ mutex = NoG
  /\ \/ (\A k \in DOMAIN queue : queue[k] # Nil) /\ Return(g, Len(Bytes), <<>>, "nil")
     \/ (\E k \in DOMAIN queue : queue[k] = Nil) /\ Return(g, 0, <<>>, "panic")
  /\ UNCHANGED <<queue, mutex, session, alive, doomed, written, taken>>

-----------------------------------------------------------------------------
(* Flush, that is NewBufferFromEntireReader(s)                              *)

Zeroes(n) == [k \in 1..n |-> Zero]

CallFlush(g) ==
  /\ pc[g] = "idle"
  /\ NewBuffer(g, "f")
  /\ my' = [my EXCEPT ![g].flush = TRUE, ![g].got = Zeroes(PageSize), ![g].start = Begun]
  /\ Goto(g, "flush")
  /\ UNCHANGED <<queue, mutex, session, written, taken>> /\ Silent

(* len(b.Bytes()) *)
Cap(g) == IF Alive(g, "f") THEN Len(my[g].got) ELSE 0

(* r.Read(b.Bytes()[read:]), whose slice expression may panic *)
FlushRead(g) ==
  /\ pc[g] = "flush"
  /\ \/ /\ my[g].read <= Cap(g)
        /\ my' = [my EXCEPT ![g].n = Cap(g) - my[g].read]
        /\ Goto(g, "read")
        /\ UNCHANGED <<queue, mutex, session, alive, doomed, written, taken>> /\ Silent
     \/ my[g].read > Cap(g) /\ Panic(g)

(* What Read has put into the slice at i. *)
Filled(buffer, i, bytes) ==
  [k \in 1..Len(buffer) |-> IF i < k /\ k <= i + Len(bytes) THEN bytes[k - i] ELSE buffer[k]]

(* Faulty variant: a Read of nothing is repeated, whatever the error. *)
FlushedIgnoresEOF(g) ==
  LET read == my[g].read + my[g].res.n IN
  /\ pc[g] = "flushed"
  /\ my' = [my EXCEPT ![g].read = read, ![g].got = Filled(@, my[g].read, my[g].res.bytes)]
  /\ Goto(g, IF my[g].res.n > 0 /\ read = Cap(g) THEN "grow" ELSE "flush")
  /\ UNCHANGED <<queue, mutex, session, alive, doomed, written, taken>> /\ Silent

(* Read has returned: nothing read and no error, try again; else count the  *)
(* bytes; at an error return null or make d for what has been read; and     *)
(* grow the buffer if it is full.                                           *)
Flushed(g) ==
  LET read == my[g].read + my[g].res.n IN
  /\ pc[g] = "flushed"
  /\ \/ /\ my[g].res.n = 0 /\ my[g].res.err = "nil"
        /\ Goto(g, "flush")
        /\ UNCHANGED <<queue, mutex, session, alive, doomed, written, taken, my>> /\ Silent
     \/ /\ my[g].res.err # "nil" /\ read = 0
        /\ Goto(g, "idle")
        /\ my' = [my EXCEPT ![g] = NoLocals]
        /\ Destroy({<<g, "f">>})
        /\ UNCHANGED <<queue, mutex, session, written, taken>> /\ Silent
     \/ /\ my[g].res.err # "nil" /\ read > 0
        /\ Goto(g, "final")
        /\ my' = [my EXCEPT ![g].read = read, ![g].got = Filled(@, my[g].read, my[g].res.bytes)]
        /\ NewBuffer(g, "d")
        /\ UNCHANGED <<queue, mutex, session, written, taken>> /\ Silent
     \/ /\ my[g].res.n > 0 /\ my[g].res.err = "nil" /\ read <= Cap(g)
        /\ my' = [my EXCEPT ![g].read = read, ![g].got = Filled(@, my[g].read, my[g].res.bytes)]
        /\ Goto(g, IF read = Cap(g) THEN "grow" ELSE "flush")
        /\ UNCHANGED <<queue, mutex, session, alive, doomed, written, taken>> /\ Silent
     \/ /\ my[g].res.n > 0 /\ my[g].res.err = "nil" /\ read > Cap(g)
        /\ Panic(g)

(* Faulty variant: the larger buffer does not get the data. *)
FlushGrowNoCopy(g) ==
  /\ pc[g] = "grow"
  /\ NewBuffer(g, "f")
  /\ my' = [my EXCEPT ![g].got = Zeroes(Cap(g) + PageSize)]
  /\ Goto(g, "flush")
  /\ UNCHANGED <<queue, mutex, session, written, taken>> /\ Silent

(* d := NewBuffer(b.Size() + os.Getpagesize()) and d.Copy(b.Bytes()).       *)
(* If b was destroyed, d is one page of zeroes.                             *)
FlushGrow(g) ==
  /\ pc[g] = "grow"
  /\ NewBuffer(g, "f")
  /\ \E wiped \in Wiped(g, "f") :
       my' = [my EXCEPT ![g].got = Filled(Zeroes(Cap(g) + PageSize), 0,
                                          Zeroed(SubSeq(@, 1, Cap(g)), wiped))]
  /\ Goto(g, "flush")
  /\ UNCHANGED <<queue, mutex, session, written, taken>> /\ Silent

(* d.Copy(b.Bytes()[:read]): the slice expression panics if b is gone;      *)
(* nothing happens if d is.                                                 *)
FlushCopy(g) ==
  /\ pc[g] = "final"
  /\ \/ /\ my[g].read <= Cap(g)
        /\ \E wiped \in Wiped(g, "f") :
             my' = [my EXCEPT ![g].out = IF Alive(g, "d")
                                           THEN Zeroed(SubSeq(my[g].got, 1, my[g].read), wiped)
                                           ELSE <<>>]
        /\ Goto(g, "done")
        /\ UNCHANGED <<queue, mutex, session, alive, doomed, written, taken>> /\ Silent
     \/ my[g].read > Cap(g) /\ Panic(g)

(* d.Freeze(), b.Destroy(), and d is the program's. *)
FlushReturn(g) ==
  /\ pc[g] = "done"
  /\ Goto(g, "idle")
  /\ my' = [my EXCEPT ![g] = NoLocals]
  /\ Destroy({<<g, "f">>, <<g, "d">>})
  /\ UNCHANGED <<queue, mutex, session, written, taken>> /\ Silent

-----------------------------------------------------------------------------
(* Purge, by some other goroutine                                           *)

PurgeBegin ==
  /\ ~purging /\ epoch < MaxEpoch
  /\ purging' = TRUE
  /\ doomed' = alive
  /\ UNCHANGED <<queue, mutex, epoch, alive, written, taken, pc, my>> /\ Silent

PurgeDestroy ==
  \E x \in doomed :
    /\ Destroy({x})
    /\ UNCHANGED <<queue, mutex, session, written, taken, pc, my>> /\ Silent

PurgeEnd ==
  /\ purging /\ doomed = {}
  /\ purging' = FALSE
  /\ epoch' = epoch + 1
  /\ UNCHANGED <<queue, mutex, alive, doomed, written, taken, pc, my>> /\ Silent

-----------------------------------------------------------------------------
Call(g) == Write(g) \/ CallRead(g) \/ NextChunk(g) \/ Size(g) \/ CallFlush(g)

Step(g) == \/ WriteJoin(g) \/ WriteReturn(g)
           \/ ReadNext(g) \/ ReadCheck(g) \/ ReadLeftover(g) \/ ReadFill(g) \/ ReadReseal(g)
           \/ FlushRead(g) \/ Flushed(g) \/ FlushGrow(g) \/ FlushCopy(g) \/ FlushReturn(g)

PurgeStep == PurgeDestroy \/ PurgeEnd

Next == (\E g \in Goroutines : Call(g) \/ Step(g)) \/ PurgeBegin \/ PurgeStep

Spec == Init /\ [][Next]_vars

(* A call that has begun goes on and a Purge comes to its end; Go's mutex   *)
(* starves nobody, hence strong fairness.                                   *)
FairSpec ==
  /\ Spec
  /\ \A g \in Goroutines : SF_vars(Step(g))
  /\ WF_vars(PurgeStep)

-----------------------------------------------------------------------------
(* Properties.                                                              *)

Byte == 0..MaxBytes
Results == [by : Goroutines \cup {NoG}, n : Nat, bytes : Seq(Byte),
            err : {"nil", "EOF", "decryption failed", "panic"}]
EnclaveType == [key : 0..MaxEpoch, born : 0..MaxEpoch, data : Seq(Byte)]

TypeOK ==
  /\ queue \in Seq(EnclaveType)
  /\ mutex \in Goroutines \cup {NoG}
  /\ epoch \in 1..MaxEpoch /\ purging \in BOOLEAN
  /\ alive \subseteq Goroutines \X {"b", "c", "d", "f"} /\ doomed \subseteq alive
  /\ written \in 0..MaxBytes /\ taken \in Seq(Byte)
  /\ pc \in [Goroutines -> {"idle", "write", "read", "check", "leftover", "fill",
                            "reseal", "flush", "flushed", "grow", "final", "done"}]
  /\ my \in [Goroutines -> [data : Seq(Byte), born : 0..MaxEpoch, i : Nat, n : Nat,
                            rest : Seq(Byte), flush : BOOLEAN, got : Seq(Byte),
                            read : Nat, res : Results, out : Seq(Byte),
                            drawn : Seq(Byte), start : Nat]]
  /\ last \in Results

(* The state is well typed, and every byte is handed out at most once and   *)
(* in the order of the Writes, by whichever of Read, Next and Flush, also   *)
(* if Purges drop some (stream.go:63, 82-84).                               *)
InOrder ==
  /\ TypeOK
  /\ \A i, j \in DOMAIN taken :
       i < j /\ taken[i] # Zero /\ taken[j] # Zero => taken[i] < taken[j]

Holder(l) == {g \in Goroutines : pc[g] \in l /\ mutex = g}

(* The bytes in the stream as everyone but the holder of the mutex sees     *)
(* them: without what Write has joined so far, with what Read has popped.   *)
Contents ==
  LET writer == Holder({"write"})
      reader == Holder({"check", "leftover", "fill", "reseal"})
  IN CASE writer # {} -> LET w == my[CHOOSE g \in writer : TRUE]
                             joined == IF w.i < Len(w.data) THEN w.i ELSE Len(w.data)
                         IN SubSeq(Bytes, 1, Len(Bytes) - joined)
       [] reader # {} -> my[CHOOSE g \in reader : TRUE].data \o Bytes
       [] OTHER -> Bytes

Completed ==
  LET writer == Holder({"write"})
  IN IF writer = {} THEN written ELSE written - Len(my[CHOOSE g \in writer : TRUE].data)

Abstract == INSTANCE ByteQueue WITH contents <- Contents, written <- Completed

(* Without a Purge, a Stream is a queue of bytes with atomic operations,    *)
(* for all its users at once (stream.go:59-150).                            *)
IsByteQueue == Abstract!Spec

(* Flush returns what its Reads gave it, all of it and each byte at its     *)
(* place, through every growth and the last copy: "returned along with any  *)
(* data read up until that point" (stream.go:152, buffer.go:183-203).  If   *)
(* somebody purged the session since Flush began, bytes may be zero, and    *)
(* the buffer may be destroyed; but none is lost, added or misplaced.       *)
FlushReturnsData ==
  \A g \in Goroutines : pc[g] = "done" =>
    /\ my[g].start = Begun => Alive(g, "d") /\ my[g].out = my[g].drawn
    /\ Alive(g, "d") =>
         /\ Len(my[g].out) = Len(my[g].drawn)
         /\ \A k \in DOMAIN my[g].out : my[g].out[k] \in {my[g].drawn[k], Zero}

(* Every call returns, Flush included, which reads until it meets EOF.      *)
CallsReturn == \A g \in Goroutines : pc[g] # "idle" ~> pc[g] = "idle"

(* "the old data is assumed to be practically unrecoverable"                *)
(* (core/exit.go:11): no enclave under the present key holds what was       *)
(* written under an earlier one.                                            *)
OldDataGone == \A k \in DOMAIN queue : queue[k].key = epoch => queue[k].born = epoch
=============================================================================
