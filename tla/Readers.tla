------------------------------- MODULE Readers -------------------------------
(***************************************************************************)
(* One call of NewBufferFromReader, NewBufferFromReaderUntil or            *)
(* NewBufferFromEntireReader (buffer.go) on any io.Reader, beside a Purge  *)
(* by another goroutine.                                                   *)
(*                                                                         *)
(* The reader decides how much of the slice it fills and whether the error *)
(* at the end of its input comes with the last bytes or after them.  A     *)
(* Purge destroys the Buffers that it finds in the list, at any moment     *)
(* and without asking; what has no lock, reading b.Bytes(), may then see   *)
(* wiped bytes or fault.  The inside of destroy() is in Buffer.            *)
(***************************************************************************)
EXTENDS Layout, Sequences, FiniteSets, SequencesExt

CONSTANTS
  Delim,   \* the delimiter, a byte
  Inputs,  \* what the io.Reader has to give: sequences of bytes
  Sizes    \* arguments of NewBufferFromReader

Zero == 0

(* What is read, and a page to grow by, has a place in memory. *)
ASSUME ReadersAssumption ==
  /\ Delim # Zero
  /\ \A i \in Inputs : /\ i \in Seq(Range(i)) /\ Zero \notin Range(i)
                        /\ Len(i) + 4 * PageSize <= MaxInt + 1
  /\ Sizes \subseteq 0..MaxInt

VARIABLES
  fn, size, input, end, \* the call and its reader: io.EOF or an error at the end
  pos,     \* how much the reader has given
  mem,     \* b.data of every Buffer in the order of allocation; empty when destroyed
  frozen,  \* the Buffers that are immutable
  my,      \* local variables
  pc,      \* next statement
  purged,  \* another goroutine's Purge has flushed the list
  doomed   \* what is left of its snapshot

call == <<fn, size, input, end>>
vars == <<call, pos, mem, frozen, my, pc, purged, doomed>>

null == 0
Ended == {"returned", "panicked", "segv"}

(* b and d; n is i or read; Bytes()[lo:hi] of Buffer b is with the reader,  *)
(* which answered (k, e); err is what will be returned with Buffer ret, or  *)
(* that the kernel refused to map, protect or lock a Buffer.                *)
NoLocals == [b |-> null, d |-> null, n |-> 0, lo |-> 0, hi |-> 0,
             k |-> 0, e |-> "nil", err |-> "nil", ret |-> null]

Init ==
  /\ \/ fn = "size" /\ size \in Sizes
     \/ fn \in {"until", "entire"} /\ size = 0
  /\ input \in Inputs /\ end \in {"EOF", "err"}
  /\ pos = 0 /\ mem = <<>> /\ frozen = {}
  /\ my = NoLocals /\ pc = "start"
  /\ purged = FALSE /\ doomed = {}

Data(id) == IF id = null THEN <<>> ELSE mem[id]
Size(id) == Len(Data(id))
Live == {id \in DOMAIN mem : mem[id] # <<>>}

Goto(l) == pc' = l /\ UNCHANGED <<call, purged>>

-----------------------------------------------------------------------------
(* Buffers *)

NewBuffer(v, n, l) ==
  /\ UNCHANGED pos
  /\ \/ /\ n < 1
        /\ my' = [my EXCEPT ![v] = null]
        /\ Goto(l) /\ UNCHANGED <<mem, frozen, doomed>>
     \/ /\ n >= 1 /\ Allocatable(n)
        /\ mem' = Append(mem, [i \in 1..n |-> Zero])
        /\ my' = [my EXCEPT ![v] = Len(mem) + 1]
        /\ Goto(l) /\ UNCHANGED <<frozen, doomed>>
     \/ /\ n >= 1  \* core.Panic, which purges; the kernel may refuse any size
        /\ mem' = [id \in DOMAIN mem |-> <<>>] /\ frozen' = {} /\ doomed' = {}
        /\ my' = [my EXCEPT !.err = IF Allocatable(n) THEN "refused" ELSE @]
        /\ Goto("panicked")

(* Faulty variant: the old buffer is left to the garbage collector. *)
KeepData(id) == mem

DropData(id) == IF id = null THEN mem ELSE [mem EXCEPT ![id] = <<>>]

Destroy(id) == mem' = DropData(id) /\ frozen' = frozen \ {id} /\ doomed' = doomed \ {id}

Freeze(id) == frozen' = frozen \cup ({id} \cap Live)

(* What a loop over b.Bytes() may see while a Purge wipes it. *)
Seen(id) ==
  IF id \in doomed
  THEN {[i \in DOMAIN mem[id] |-> IF i \in w THEN Zero ELSE mem[id][i]] : w \in SUBSET DOMAIN mem[id]}
  ELSE {Data(id)}

(* d.Copy(b.Bytes()[:n]): nothing happens if d is destroyed. *)
Copy(n) ==
  \E bytes \in Seen(my.b) :
    mem' = [mem EXCEPT ![my.d] = [i \in DOMAIN @ |-> IF i <= n THEN bytes[i] ELSE @[i]]]

Panic == Goto("panicked") /\ UNCHANGED <<pos, mem, frozen, my, doomed>>

(* The next statement uses the memory of b. *)
Touches ==
  \/ pc = "read" /\ my.lo < my.hi /\ pos < Len(input)
  \/ pc = "got" /\ fn = "until" /\ my.k = 1 /\ my.b \in doomed
  \/ pc \in {"growcopy", "shrinkcopy"} /\ my.b \in doomed

(* The memory has been unmapped, or is before its Buffer is marked dead. *)
Fault ==
  /\ Touches /\ (my.b \in doomed \/ Size(my.b) = 0)
  /\ Goto("segv")
  /\ UNCHANGED <<pos, mem, frozen, my, doomed>>

-----------------------------------------------------------------------------
(* The loops *)

Start ==
  /\ pc = "start"
  /\ NewBuffer("b", IF fn = "size" THEN size ELSE PageSize,
               CASE fn = "size" -> "sized" [] fn = "until" -> "loop" [] OTHER -> "take")

Return(id, err) ==
  /\ my' = [my EXCEPT !.ret = id, !.err = err]
  /\ Goto("returned")

(* if b.Size() == 0 { return b, nil } *)
Sized ==
  /\ pc = "sized"
  /\ \/ Size(my.b) = 0 /\ Return(my.b, "nil")
     \/ Size(my.b) # 0 /\ Goto("take") /\ UNCHANGED my
  /\ UNCHANGED <<pos, mem, frozen, doomed>>

(* if i == b.Size() *)
Loop ==
  /\ pc = "loop"
  /\ Goto(IF my.n = Size(my.b) THEN "grow" ELSE "take")
  /\ UNCHANGED <<pos, mem, frozen, my, doomed>>

(* Faulty variant: every Read starts at the front of the buffer. *)
FromStart(n) == 0

From(n) == n

(* b.Bytes(), b.Bytes()[i : i+1] or b.Bytes()[read:]; io.ReadFull looks    *)
(* first whether there is anything to fill.                                *)
Take ==
  /\ pc = "take"
  /\ LET hi == IF fn = "until" THEN my.n + 1 ELSE Size(my.b)
     IN  \/ /\ my.n <= hi /\ hi <= Size(my.b)
            /\ my' = [my EXCEPT !.lo = From(my.n), !.hi = hi, !.k = 0, !.e = "nil"]
            /\ Goto(IF fn = "size" THEN "got" ELSE "read")
            /\ UNCHANGED <<pos, mem, frozen, doomed>>
         \/ ~(my.n <= hi /\ hi <= Size(my.b)) /\ Panic

(* r.Read(slice) of the reader; for destroyed memory the kernel may answer  *)
(* with an error.                                                           *)
Room == IF Size(my.b) = 0 THEN 0 ELSE my.hi - my.lo
Read(k, e) ==
  /\ pc = "read"
  /\ k <= Room /\ pos + k <= Len(input)
  /\ e = "nil" \/ (e = end /\ pos + k = Len(input)) \/ (e = "err" /\ my.lo < my.hi /\ Size(my.b) = 0)
  /\ mem' = IF k = 0 THEN mem
            ELSE [mem EXCEPT ![my.b] =
                    [i \in DOMAIN @ |-> IF i \in (my.lo + 1)..(my.lo + k)
                                        THEN input[pos + i - my.lo] ELSE @[i]]]
  /\ pos' = pos + k
  /\ my' = [my EXCEPT !.k = k, !.e = e]
  /\ Goto("got")
  /\ UNCHANGED <<frozen, doomed>>

(* The end of the input, or an error: what has been read is returned. *)
Finish(n, err) ==
  /\ my' = [my EXCEPT !.n = n, !.err = err]
  /\ Goto(IF n = 0 THEN "empty" ELSE "shrink")

Continue(n, l) == my' = [my EXCEPT !.n = n] /\ Goto(l)

(* io.ReadFull, and what NewBufferFromReader makes of its answer *)
GotFull ==
  /\ pc = "got" /\ fn = "size"
  /\ LET n == my.n + my.k
     IN  \/ /\ n < my.hi /\ my.e = "nil"
            /\ my' = [my EXCEPT !.n = n, !.lo = n]
            /\ Goto("read")
         \/ n >= my.hi /\ Continue(n, "freeze")
         \/ /\ n < my.hi /\ my.e # "nil"
            /\ Finish(n, IF n > 0 /\ my.e = "EOF" THEN "UnexpectedEOF" ELSE my.e)
  /\ UNCHANGED <<pos, mem, frozen, doomed>>

(* Faulty variant: the index moves on although nothing was read. *)
RetryNext(n) == n + 1

(* i--; continue *)
Retry(n) == n

GotUntil ==
  /\ pc = "got" /\ fn = "until"
  /\ \/ my.k # 1 /\ my.e = "nil" /\ Continue(Retry(my.n), "loop")
     \/ my.k # 1 /\ my.e # "nil" /\ Finish(my.n, my.e)
     \/ my.k = 1 /\ Size(my.b) = 0 /\ Goto("panicked") /\ UNCHANGED my
     \/ /\ my.k = 1 /\ Size(my.b) # 0
        /\ \E bytes \in Seen(my.b) :
             IF bytes[my.n + 1] = Delim THEN Finish(my.n, "nil") ELSE Continue(my.n + 1, "loop")
  /\ UNCHANGED <<pos, mem, frozen, doomed>>

(* Faulty variant: a full buffer is not noticed. *)
NeverFull(n) == FALSE

Full(n) == n = Size(my.b)

GotEntire ==
  /\ pc = "got" /\ fn = "entire"
  /\ LET n == my.n + my.k
     IN  \/ my.e # "nil" /\ Finish(n, IF my.e = "EOF" THEN "nil" ELSE my.e)
         \/ my.e = "nil" /\ my.k = 0 /\ Continue(my.n, "take")
         \/ /\ my.e = "nil" /\ my.k # 0
            /\ Continue(n, CASE n > Size(my.b) -> "panicked"
                             [] Full(n) -> "grow"
                             [] OTHER -> "take")
  /\ UNCHANGED <<pos, mem, frozen, doomed>>

-----------------------------------------------------------------------------
(* Growing, shrinking and returning *)

Grow == pc = "grow" /\ NewBuffer("d", Size(my.b) + PageSize, "growcopy")

GrowCopy ==
  /\ pc = "growcopy"
  /\ Copy(Size(my.b))
  /\ Goto("growend")
  /\ UNCHANGED <<pos, frozen, my, doomed>>

GrowEnd ==
  /\ pc = "growend"
  /\ Destroy(my.b)
  /\ my' = [my EXCEPT !.b = my.d]
  /\ Goto("take")
  /\ UNCHANGED pos

Shrink == pc = "shrink" /\ NewBuffer("d", my.n, "shrinkcopy")

ShrinkCopy ==
  /\ pc = "shrinkcopy"
  /\ \/ Size(my.b) < my.n /\ Panic
     \/ /\ Size(my.b) >= my.n /\ Copy(my.n)
        /\ Goto("shrinkfreeze")
        /\ UNCHANGED <<pos, frozen, my, doomed>>

ShrinkFreeze ==
  /\ pc = "shrinkfreeze"
  /\ Freeze(my.d)
  /\ Goto("shrinkend")
  /\ UNCHANGED <<pos, mem, my, doomed>>

ShrinkEnd ==
  /\ pc = "shrinkend"
  /\ Destroy(my.b)
  /\ Return(my.d, my.err)
  /\ UNCHANGED pos

Empty ==
  /\ pc = "empty"
  /\ Destroy(my.b)
  /\ Return(null, my.err)
  /\ UNCHANGED pos

FreezeFull ==
  /\ pc = "freeze"
  /\ Freeze(my.b)
  /\ Return(my.b, "nil")
  /\ UNCHANGED <<pos, mem, doomed>>

-----------------------------------------------------------------------------
(* Purge by another goroutine *)

(* Before the first allocation there is nothing to find. *)
PurgeFlush ==
  /\ ~purged /\ pc \notin Ended \cup {"start"}
  /\ purged' = TRUE /\ doomed' = Live
  /\ UNCHANGED <<call, pos, mem, frozen, my, pc>>

PurgeDestroy ==
  /\ doomed # {} /\ pc \notin {"panicked", "segv"}
  /\ Destroy(Min(doomed))
  /\ UNCHANGED <<call, pos, my, pc, purged>>

-----------------------------------------------------------------------------
Reading == \E k \in 0..Len(input), e \in {"nil", "EOF", "err"} : Read(k, e)

(* A read that brings the caller further. *)
Progress == \E k \in 0..Len(input), e \in {"nil", "EOF", "err"} :
              Read(k, e) /\ (k > 0 \/ e # "nil")

Step == \/ Start \/ Sized \/ Loop \/ Take \/ GotFull \/ GotUntil \/ GotEntire
        \/ Grow \/ GrowCopy \/ GrowEnd
        \/ Shrink \/ ShrinkCopy \/ ShrinkFreeze \/ ShrinkEnd
        \/ Empty \/ FreezeFull

Over == pc \in Ended /\ UNCHANGED vars

Next == Step \/ Reading \/ Fault \/ PurgeFlush \/ PurgeDestroy \/ Over

(* The caller runs, and a reader does not answer (0, nil) for ever. *)
Spec == Init /\ [][Next]_vars /\ WF_vars(Step) /\ WF_vars(Reading) /\ SF_vars(Progress)

-----------------------------------------------------------------------------
Bytes == {Zero, Delim} \cup UNION {Range(i) : i \in Inputs}

(* The locals stay within the buffer and the input (buffer.go:70-208):      *)
(* never more is counted than the reader gave, and unless destroyed under   *)
(* its feet the buffer holds all that is counted.                           *)
TypeOK ==
  /\ pos \in 0..Len(input)
  /\ mem \in Seq(Seq(Bytes)) /\ frozen \subseteq Live /\ doomed \subseteq Live
  /\ {my.b, my.d, my.ret} \subseteq 0..Len(mem)
  /\ my.n \in 0..pos /\ my.lo <= my.hi
  /\ purged \/ pc \in Ended \/ my.n <= Size(my.b)

(* What the three functions promise, as functions of the whole input.       *)
Before == LET p == CHOOSE p \in 1..Len(input) :
                     input[p] = Delim /\ \A q \in 1..(p - 1) : input[q] # Delim
          IN  IF Delim \in Range(input) THEN p - 1 ELSE Len(input)
Wanted == CASE fn = "size" -> Min({size, Len(input)}) [] fn = "until" -> Before [] OTHER -> Len(input)
Taken  == IF fn = "until" /\ Delim \in Range(input) THEN Wanted + 1 ELSE Wanted
Error  == CASE fn = "size"   -> (IF Wanted = size THEN "nil"
                                 ELSE IF end = "EOF" /\ Wanted > 0 THEN "UnexpectedEOF" ELSE end)
            [] fn = "until"  -> (IF Delim \in Range(input) THEN "nil" ELSE end)
            [] fn = "entire" -> (IF end = "EOF" THEN "nil" ELSE end)

(* Without a Purge each function returns exactly the bytes that it promises *)
(* in an immutable buffer, however the reader divides them up, with an      *)
(* error precisely when it should, and takes no byte too many from the      *)
(* reader (buffer.go:67-69, 100-102, 159-161); it panics only if the kernel *)
(* refuses a Buffer or the size that was asked for overflows.               *)
ReturnsExpected ==
  /\ TypeOK
  /\ ~purged =>
       /\ pc = "returned" =>
            /\ Data(my.ret) = SubSeq(input, 1, Wanted)
            /\ my.err = Error
            /\ pos = Taken
            /\ {my.ret} \cap Live \subseteq frozen
       /\ pc = "panicked" => my.err = "refused" \/ (fn = "size" /\ ~Allocatable(size))
       /\ pc # "segv"

(* With a Purge at any moment bytes may be zero or missing, but none is     *)
(* returned at a place that is not its own (buffer.go:115, 168).            *)
NeverMisplaced ==
  pc = "returned" => \A k \in 1..Size(my.ret) : Data(my.ret)[k] \in {Zero} \cup {input[j] : j \in {k} \cap DOMAIN input}

(* When the call returns, every other buffer that it made is destroyed,     *)
(* on each of the early returns (buffer.go:81, 89, 118, 131-152, 190-204).  *)
NoLeak == pc = "returned" => Live \subseteq {my.ret}

(* Whatever size is asked for, the memory of every buffer is laid out       *)
(* soundly: an overflow ends in a panic (core/buffer.go:55-71).             *)
LayoutSound == \A id \in Live : Sound(Size(id))

(* Unless a Purge comes, every call ends: a full buffer grows, a read of    *)
(* nothing is tried again, the end of the input is noticed                  *)
(* (buffer.go:110-155, 166-208).                                            *)
ReadReturns == <>(purged \/ pc \in Ended)
=============================================================================
