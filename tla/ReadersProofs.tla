---------------------------- MODULE ReadersProofs ----------------------------
(***************************************************************************)
(* NewBufferFromReader, NewBufferFromReaderUntil and                       *)
(* NewBufferFromEntireReader for every input, every division of it by the  *)
(* reader, every page size and a Purge at any moment.                      *)
(***************************************************************************)
EXTENDS Readers, LayoutProofs, SequenceTheorems

Labels == {"start", "sized", "loop", "take", "read", "got", "grow", "growcopy", "growend",
           "shrink", "shrinkcopy", "shrinkfreeze", "shrinkend", "empty", "freeze"} \cup Ended

Locals == [b : Nat, d : Nat, n : Nat, lo : Nat, hi : Nat, k : Nat, e : {"nil", "EOF", "err"},
           err : {"nil", "EOF", "err", "UnexpectedEOF", "refused"}, ret : Nat]

(* The state is well typed. *)
TypeInv ==
  /\ fn \in {"size", "until", "entire"} /\ size \in 0..MaxInt
  /\ input \in Inputs /\ end \in {"EOF", "err"}
  /\ pos \in 0..Len(input) /\ mem \in Seq(Seq(Bytes))
  /\ frozen \subseteq Live /\ doomed \subseteq Live
  /\ my \in Locals /\ my.b <= Len(mem) /\ my.d <= Len(mem) /\ my.ret <= Len(mem)
  /\ pc \in Labels /\ purged \in BOOLEAN

Copying   == {"growcopy", "growend", "shrinkcopy", "shrinkfreeze", "shrinkend"}
Shrinking == {"shrink", "shrinkcopy", "shrinkfreeze", "shrinkend"}
Looping   == {"loop", "take", "read", "got", "grow", "growcopy", "growend"}

(* What is counted is what the reader gave, Purge or no Purge. *)
CountInv ==
  /\ pc = "start" => mem = <<>> /\ my.n = 0
  /\ pc = "sized" => fn = "size" /\ my.n = 0
  /\ pc = "take" /\ fn = "size" => my.n = 0
  /\ pc = "loop" => fn = "until"
  /\ pc = "freeze" => fn = "size"
  /\ pc \in {"grow", "growcopy", "growend"} => fn # "size"
  /\ my.n <= pos /\ my.lo <= my.hi
  /\ pc \in {"start", "sized"} \cup (Looping \ {"got"}) => pos = my.n
  /\ pc = "got" => pos = my.n + my.k
  /\ pc \in {"read", "got"} => my.lo = my.n
  /\ pc \in {"read", "got"} /\ fn = "until" => my.hi = my.n + 1
  /\ pc = "got" => my.k <= my.hi - my.lo
  /\ pc \in Shrinking => my.n >= 1
  /\ pc = "empty" => my.n = 0

(* The call knows every buffer that is alive. *)
OwnInv ==
  /\ pc \notin Ended \cup Copying => Live \subseteq {my.b}
  /\ pc \in Copying => Live \subseteq {my.b, my.d} /\ my.b # my.d
  /\ pc = "returned" => Live \subseteq {my.ret}

(* No byte is at a place that is not its own. *)
PlaceInv ==
  \A id \in 1..Len(mem) : \A k \in 1..Len(mem[id]) :
    mem[id][k] = Zero \/ (k <= Len(input) /\ mem[id][k] = input[k])

(* Every buffer is one that could be allocated. *)
SizeInv == \A id \in 1..Len(mem) : Len(mem[id]) > 0 => Len(mem[id]) <= MaxInt /\ Allocatable(Len(mem[id]))

Holds(id, n) == n <= Size(id) /\ \A k \in 1..n : Data(id)[k] = input[k]

(* The answer is decided. *)
Decided == my.n = Wanted /\ pos = Taken /\ my.err = Error

(* What each statement can rely on as long as nobody purges. *)
QuietInv ==
  ~purged =>
    /\ doomed = {} /\ pc # "segv"
    /\ pc = "panicked" => my.err = "refused" \/ (fn = "size" /\ ~Allocatable(size))
    /\ pc \notin {"start", "sized"} \cup Ended => my.b \in 1..Len(mem) /\ Size(my.b) > 0
    /\ pc \in {"sized", "take", "read", "got", "freeze"} /\ fn = "size" => Size(my.b) = size
    /\ pc \notin {"start", "got"} \cup Ended => Holds(my.b, my.n)
    /\ pc = "got" => Holds(my.b, my.n + my.k)
    /\ pc \in {"take", "read", "got"} => my.n < Size(my.b)
    /\ pc \in {"read", "got"} => my.hi <= Size(my.b) /\ (fn # "until" => my.hi = Size(my.b))
    /\ pc = "got" /\ my.e # "nil" => my.e = end /\ pos = Len(input)
    /\ pc \in Looping /\ fn = "until" => \A k \in 1..my.n : input[k] # Delim
    /\ pc \in {"grow", "growcopy"} => my.n = Size(my.b)
    /\ pc = "growcopy" => my.d \in 1..Len(mem) /\ Size(my.d) = Size(my.b) + PageSize
    /\ pc = "growend" => my.d \in 1..Len(mem) /\ Holds(my.d, my.n) /\ my.n < Size(my.d)
    /\ pc \in Shrinking \cup {"empty"} => Decided
    /\ pc \in Shrinking \ {"shrink"} => my.d \in 1..Len(mem) /\ Size(my.d) = my.n
    /\ pc \in {"shrinkfreeze", "shrinkend"} => Holds(my.d, my.n)
    /\ pc = "shrinkend" => my.d \in frozen
    /\ pc = "freeze" => my.n = size /\ pos = size
    /\ pc = "returned" => /\ Size(my.ret) = Wanted /\ Holds(my.ret, Wanted)
                          /\ pos = Taken /\ my.err = Error
                          /\ Size(my.ret) > 0 => my.ret \in frozen

(* The inductive invariant. *)
IInv == TypeInv /\ CountInv /\ OwnInv /\ PlaceInv /\ SizeInv /\ QuietInv
-----------------------------------------------------------------------------
(* The input is a sequence of bytes, none of them zero, and fits into       *)
(* memory.                                                                  *)
LEMMA InputBytes ==
  ASSUME NEW i \in Inputs
  PROVE  /\ i \in Seq(Bytes) /\ Len(i) \in Nat /\ DOMAIN i = 1..Len(i)
         /\ \A k \in 1..Len(i) : i[k] \in Bytes /\ i[k] # Zero
         /\ Len(i) + 4 * PageSize <= MaxInt + 1
<1>1. Range(i) \subseteq Bytes /\ i \in Seq(Range(i)) /\ Zero \notin Range(i)
  BY ReadersAssumption DEF Bytes
<1>2. i \in Seq(Bytes)
  BY <1>1, SeqMonotonic
<1>3. Len(i) \in Nat /\ DOMAIN i = 1..Len(i) /\ \A k \in 1..Len(i) : i[k] \in Range(i)
  BY <1>1, LenProperties, ElementOfSeq
<1> QED BY <1>1, <1>2, <1>3, ReadersAssumption

(* Zero and the delimiter are bytes. *)
LEMMA SomeBytes == Zero \in Bytes /\ Delim \in Bytes
BY DEF Bytes

(* Buffers are sequences of bytes; the ones with bytes are alive. *)
LEMMA Memory ==
  ASSUME NEW m \in Seq(Seq(Bytes))
  PROVE  /\ Len(m) \in Nat /\ DOMAIN m = 1..Len(m)
         /\ \A id \in 1..Len(m) : /\ m[id] \in Seq(Bytes) /\ Len(m[id]) \in Nat
                                  /\ DOMAIN m[id] = 1..Len(m[id])
                                  /\ m[id] # <<>> <=> Len(m[id]) > 0
                                  /\ \A k \in 1..Len(m[id]) : m[id][k] \in Bytes
<1>1. Len(m) \in Nat /\ DOMAIN m = 1..Len(m)
  BY LenProperties
<1>2. ASSUME NEW id \in 1..Len(m)
      PROVE  /\ m[id] \in Seq(Bytes) /\ Len(m[id]) \in Nat
             /\ DOMAIN m[id] = 1..Len(m[id])
             /\ m[id] # <<>> <=> Len(m[id]) > 0
             /\ \A k \in 1..Len(m[id]) : m[id][k] \in Bytes
  <2>1. m[id] \in Seq(Bytes)
    BY <1>2, ElementOfSeq
  <2>2. Len(m[id]) \in Nat /\ DOMAIN m[id] = 1..Len(m[id])
    BY <2>1, LenProperties
  <2>3. m[id] # <<>> <=> Len(m[id]) > 0
    BY <2>1, <2>2, EmptySeq
  <2>4. \A k \in 1..Len(m[id]) : m[id][k] \in Bytes
    BY <2>1, ElementOfSeq
  <2> QED BY <2>1, <2>2, <2>3, <2>4
<1> QED BY <1>1, <1>2

(* A function on 1..n is a sequence of length n. *)
LEMMA Sequence ==
  ASSUME NEW n \in Nat, NEW f \in [1..n -> Bytes]
  PROVE  f \in Seq(Bytes) /\ Len(f) = n
<1>1. f \in Seq(Bytes)
  BY SeqDef
<1> QED BY <1>1, LenProperties

(* NewBuffer adds a buffer of zeroes. *)
LEMMA Allocated ==
  ASSUME mem \in Seq(Seq(Bytes)), NEW n \in Nat \ {0},
         mem' = Append(mem, [i \in 1..n |-> Zero])
  PROVE  /\ mem' \in Seq(Seq(Bytes)) /\ Len(mem') = Len(mem) + 1
         /\ \A id \in 1..Len(mem) : mem'[id] = mem[id]
         /\ Len(mem'[Len(mem) + 1]) = n
         /\ \A k \in 1..n : mem'[Len(mem) + 1][k] = Zero
<1> DEFINE new == [i \in 1..n |-> Zero]
<1>1. new \in Seq(Bytes) /\ Len(new) = n /\ \A k \in 1..n : new[k] = Zero
  BY SomeBytes, Sequence
<1> HIDE DEF new
<1>2. mem' = Append(mem, new)
  BY DEF new
<1> QED BY <1>1, <1>2, AppendProperties, LenProperties

(* One buffer gets other bytes, as many as before. *)
LEMMA Filled ==
  ASSUME mem \in Seq(Seq(Bytes)), NEW b \in 1..Len(mem), NEW new \in [1..Len(mem[b]) -> Bytes],
         mem' = [mem EXCEPT ![b] = new]
  PROVE  /\ mem' \in Seq(Seq(Bytes)) /\ Len(mem') = Len(mem)
         /\ \A id \in 1..Len(mem) : Len(mem'[id]) = Len(mem[id]) /\ (id # b => mem'[id] = mem[id])
         /\ mem'[b] = new
<1>1. Len(mem[b]) \in Nat
  BY Memory
<1>2. new \in Seq(Bytes) /\ Len(new) = Len(mem[b])
  BY <1>1, Sequence
<1> QED BY <1>2, ExceptSeq

(* Destroy(x) empties x and nothing else. *)
LEMMA Dropped ==
  ASSUME mem \in Seq(Seq(Bytes)), NEW x, mem' = DropData(x)
  PROVE  /\ mem' \in Seq(Seq(Bytes)) /\ Len(mem') = Len(mem)
         /\ \A id \in 1..Len(mem) : mem'[id] = IF id = x THEN <<>> ELSE mem[id]
<1>1. Len(mem) \in Nat /\ mem \in [1..Len(mem) -> Seq(Bytes)]
  BY LenProperties
<1>2. CASE x \in 1..Len(mem)
  <2>1. mem' = [mem EXCEPT ![x] = <<>>]
    BY <1>1, <1>2 DEF DropData, null
  <2> QED BY <1>2, <2>1, EmptySeq, ExceptSeq
<1>3. CASE x \notin 1..Len(mem)
  <2>1. mem' = mem
    BY <1>1, <1>3 DEF DropData
  <2> QED BY <1>3, <2>1
<1> QED BY <1>2, <1>3
-----------------------------------------------------------------------------
(* A size with three pages to spare can be allocated. *)
LEMMA Spacious ==
  ASSUME NEW n \in Nat \ {0}, n + 3 * PageSize <= MaxInt + 1
  PROVE  n <= MaxInt /\ Allocatable(n)
<1>1. n \in 1..MaxInt /\ n + (PageSize - 1) <= MaxInt
  BY LayoutAssumption
<1>2. roundToPageSize(n) \in Nat /\ roundToPageSize(n) - n \in 0..(PageSize - 1)
  BY <1>1, RoundsUp
<1> QED BY <1>1, <1>2, LayoutAssumption DEF Allocatable, Total, Wrap

(* A buffer that was allocated leaves room for a page in an int. *)
LEMMA RoomToGrow ==
  ASSUME NEW n \in 1..MaxInt, Allocatable(n)
  PROVE  n + PageSize <= MaxInt
<1>1. n + (PageSize - 1) <= MaxInt
  BY OverflowFails, LayoutAssumption
<1>2. roundToPageSize(n) \in Nat /\ roundToPageSize(n) - n \in 0..(PageSize - 1)
  BY <1>1, RoundsUp
<1> QED BY <1>1, <1>2, LayoutAssumption DEF Allocatable, Total, Wrap

(* What the call is about does not change. *)
LEMMA SameCall ==
  UNCHANGED call => UNCHANGED <<fn, size, input, end>> /\ UNCHANGED <<Wanted, Taken, Error>>
BY DEF call, Wanted, Taken, Error, Before

(* NewBufferFromReader wants the first bytes, or all there are. *)
LEMMA SizeAnswer ==
  ASSUME fn = "size", size \in Nat, Len(input) \in Nat
  PROVE  /\ size <= Len(input) => Wanted = size /\ Taken = size /\ Error = "nil"
         /\ size > Len(input) => /\ Wanted = Len(input) /\ Taken = Len(input)
                                 /\ Error = IF end = "EOF" /\ Len(input) > 0
                                            THEN "UnexpectedEOF" ELSE end
<1>1. Wanted = Min({size, Len(input)}) /\ Taken = Wanted
  BY DEF Wanted, Taken
<1>2. size <= Len(input) => Min({size, Len(input)}) = size
  BY DEF Min
<1>3. size > Len(input) => Min({size, Len(input)}) = Len(input)
  BY DEF Min
<1>4. Error = IF Wanted = size THEN "nil"
              ELSE IF end = "EOF" /\ Wanted > 0 THEN "UnexpectedEOF" ELSE end
  BY DEF Error
<1> QED BY <1>1, <1>2, <1>3, <1>4

(* NewBufferFromReaderUntil wants what comes before the first delimiter. *)
LEMMA UntilAnswer ==
  ASSUME fn = "until", input \in Inputs, NEW n \in 0..Len(input),
         \A k \in 1..n : input[k] # Delim
  PROVE  /\ n < Len(input) /\ input[n + 1] = Delim =>
              Wanted = n /\ Taken = n + 1 /\ Error = "nil"
         /\ n = Len(input) => Wanted = n /\ Taken = n /\ Error = end
<1> USE InputBytes
<1>1. /\ Wanted = Before /\ Taken = IF Delim \in Range(input) THEN Wanted + 1 ELSE Wanted
      /\ Error = IF Delim \in Range(input) THEN "nil" ELSE end
  BY DEF Wanted, Taken, Error
<1>2. Delim \in Range(input) <=> \E k \in 1..Len(input) : input[k] = Delim
  BY DEF Range
<1>3. ASSUME n < Len(input), input[n + 1] = Delim PROVE Before = n
  <2> DEFINE First(p) == input[p] = Delim /\ \A q \in 1..(p - 1) : input[q] # Delim
  <2>1. n + 1 \in 1..Len(input) /\ First(n + 1)
    BY <1>3
  <2>2. \A p \in 1..Len(input) : First(p) => p = n + 1
    BY <1>3
  <2> HIDE DEF First
  <2>3. (CHOOSE p \in 1..Len(input) : First(p)) = n + 1
    BY <2>1, <2>2
  <2> QED BY <1>2, <1>3, <2>1, <2>3, SMTT(40) DEF Before, First
<1>4. n = Len(input) => Before = n
  BY <1>2 DEF Before
<1> QED BY <1>1, <1>2, <1>3, <1>4

(* NewBufferFromEntireReader wants everything. *)
LEMMA EntireAnswer ==
  ASSUME fn = "entire"
  PROVE  /\ Wanted = Len(input) /\ Taken = Len(input)
         /\ Error = IF end = "EOF" THEN "nil" ELSE end
BY DEF Wanted, Taken, Error
-----------------------------------------------------------------------------
(* The initial state satisfies the invariant. *)
LEMMA InitEstablishes == Init => IInv
<1> SUFFICES ASSUME Init PROVE IInv
  OBVIOUS
<1>0. /\ (fn = "size" /\ size \in Sizes) \/ (fn \in {"until", "entire"} /\ size = 0)
      /\ input \in Inputs /\ end \in {"EOF", "err"} /\ pos = 0 /\ mem = <<>> /\ frozen = {}
      /\ doomed = {} /\ my = NoLocals /\ pc = "start" /\ purged = FALSE
  BY DEF Init
<1>1. /\ fn \in {"size", "until", "entire"} /\ size \in 0..MaxInt /\ input \in Inputs
      /\ end \in {"EOF", "err"} /\ pos = 0 /\ mem = <<>> /\ frozen = {} /\ doomed = {}
      /\ my = NoLocals /\ pc = "start" /\ purged \in BOOLEAN
  <2>0. Sizes \subseteq 0..MaxInt /\ 0 \in 0..MaxInt
    BY ReadersAssumption, LayoutAssumption
  <2>1. size \in 0..MaxInt
    BY <1>0, <2>0
  <2>2. fn \in {"size", "until", "entire"} /\ purged \in BOOLEAN
    BY <1>0
  <2> QED BY <1>0, <2>1, <2>2
<1>2. mem \in Seq(Seq(Bytes)) /\ Len(mem) = 0 /\ Len(input) \in Nat
  BY <1>1, EmptySeq, InputBytes
<1>3. Live = {}
  BY <1>1 DEF Live
<1>4. /\ my \in Locals /\ my.b = 0 /\ my.d = 0 /\ my.ret = 0 /\ my.n = 0 /\ my.lo = 0 /\ my.hi = 0
  BY <1>1 DEF NoLocals, Locals, null
<1>5. TypeInv
  BY <1>1, <1>2, <1>3, <1>4 DEF TypeInv, Labels
<1>6. CountInv
  BY <1>1, <1>4 DEF CountInv, Looping, Shrinking
<1>7. OwnInv /\ PlaceInv /\ SizeInv
  BY <1>1, <1>2, <1>3 DEF OwnInv, PlaceInv, SizeInv, Copying
<1>8. QuietInv
  BY <1>1 DEF QuietInv, Ended, Looping, Shrinking
<1> QED BY <1>5, <1>6, <1>7, <1>8 DEF IInv

(* Sizes and contents of the buffers in a well-typed state. *)
LEMMA Buffers ==
  ASSUME TypeInv
  PROVE  /\ Len(mem) \in Nat /\ Len(input) \in Nat /\ PageSize \in Nat \ {0} /\ MaxInt \in Nat
         /\ my \in Locals
         /\ \A id \in 0..Len(mem) : /\ Size(id) \in Nat
                                    /\ Size(id) > 0 <=> id \in Live
         /\ Live \subseteq 1..Len(mem)
         /\ \A id \in 1..Len(mem) : /\ Data(id) = mem[id] /\ Size(id) = Len(mem[id])
                                    /\ Len(mem[id]) \in Nat
                                    /\ \A k \in 1..Size(id) : mem[id][k] \in Bytes
         /\ Size(null) = 0
<1>1. Len(input) \in Nat /\ my \in Locals
  BY InputBytes DEF TypeInv
<1>2. /\ Len(mem) \in Nat /\ DOMAIN mem = 1..Len(mem)
      /\ \A id \in 1..Len(mem) : /\ mem[id] \in Seq(Bytes) /\ Len(mem[id]) \in Nat
                                 /\ mem[id] # <<>> <=> Len(mem[id]) > 0
                                 /\ \A k \in 1..Len(mem[id]) : mem[id][k] \in Bytes
  BY Memory DEF TypeInv
<1>3. Size(null) = 0
  BY EmptySeq DEF Size, Data
<1>4. \A id \in 1..Len(mem) : Data(id) = mem[id] /\ Size(id) = Len(mem[id])
  BY <1>2 DEF Size, Data, null
<1>5. Live = {id \in 1..Len(mem) : Len(mem[id]) > 0}
  BY <1>2 DEF Live
<1>6. \A id \in 0..Len(mem) : id = null \/ id \in 1..Len(mem)
  BY <1>2 DEF null
<1> QED BY <1>1, <1>2, <1>3, <1>4, <1>5, <1>6, LayoutAssumption DEF null

(* A statement of the loops, which touches no buffer. *)
LEMMA ControlStep ==
  ASSUME IInv, NEW l \in Labels, Goto(l), UNCHANGED <<pos, mem, frozen, doomed>>,
         my' \in Locals, my'.b = my.b, my'.d = my.d, my'.ret \in {my.b, my.ret},
         pc \notin Ended \cup Copying, l \notin Copying, l = "returned" => my'.ret = my.b
  PROVE  TypeInv' /\ OwnInv' /\ PlaceInv' /\ SizeInv'
<1>1. UNCHANGED <<fn, size, input, end, purged, pos, mem, frozen, doomed>> /\ pc' = l
  BY DEF Goto, call
<1>2. Live' = Live
  BY <1>1 DEF Live
<1>3. TypeInv'
  BY <1>1, <1>2 DEF IInv, TypeInv
<1>4. OwnInv'
  BY <1>1, <1>2 DEF IInv, OwnInv
<1>5. PlaceInv' /\ SizeInv'
  BY <1>1 DEF IInv, PlaceInv, SizeInv
<1> QED BY <1>3, <1>4, <1>5

(* NewBufferFromReader: is there anything to read? *)
LEMMA SizedStep == ASSUME IInv, Sized PROVE IInv'
<1> USE Buffers, SameCall
<1>1. /\ pc = "sized" /\ UNCHANGED <<pos, mem, frozen, doomed>>
      /\ TypeInv /\ fn = "size" /\ my \in Locals /\ my.n = 0 /\ pos = 0
  BY DEF Sized, IInv, TypeInv, CountInv
<1>2. CASE Size(my.b) = 0 /\ Return(my.b, "nil")
  <2>1. /\ Goto("returned") /\ "returned" \in Labels /\ my' \in Locals
        /\ my'.b = my.b /\ my'.d = my.d /\ my'.ret = my.b /\ my'.err = "nil"
        /\ my'.n = my.n /\ my'.lo = my.lo /\ my'.hi = my.hi
    BY <1>1, <1>2 DEF Return, Labels, Ended, Locals
  <2>2. pc' = "returned" /\ UNCHANGED call /\ purged' = purged
    BY <2>1 DEF Goto
  <2>3. CountInv'
    BY <1>1, <2>1, <2>2 DEF IInv, CountInv, Looping, Shrinking
  <2>4. TypeInv' /\ OwnInv' /\ PlaceInv' /\ SizeInv'
    BY <1>1, <2>1, ControlStep DEF Ended, Copying
  <2>5. QuietInv'
    <3> SUFFICES ASSUME ~purged PROVE QuietInv'
      BY <2>2 DEF QuietInv
    <3>1. size = 0
      BY <1>1, <1>2 DEF IInv, QuietInv
    <3>2. Wanted = 0 /\ Taken = 0 /\ Error = "nil"
      BY <1>1, <3>1, SizeAnswer DEF TypeInv
    <3>3. Size(my.ret)' = 0 /\ doomed' = {}
      BY <1>1, <1>2, <2>1 DEF Size, Data, IInv, QuietInv
    <3> QED BY <1>1, <2>1, <2>2, <3>2, <3>3 DEF QuietInv, Holds, Looping, Shrinking, Ended
  <2> QED BY <2>3, <2>4, <2>5 DEF IInv
<1>3. CASE Size(my.b) # 0 /\ Goto("take") /\ UNCHANGED my
  <2>1. pc' = "take" /\ UNCHANGED call /\ purged' = purged
    BY <1>3 DEF Goto
  <2>2. CountInv'
    BY <1>1, <1>3, <2>1 DEF IInv, CountInv, Looping, Shrinking
  <2>3. TypeInv' /\ OwnInv' /\ PlaceInv' /\ SizeInv'
    BY <1>1, <1>3, ControlStep DEF Ended, Copying, Labels
  <2>4. QuietInv'
    <3> SUFFICES ASSUME ~purged PROVE QuietInv'
      BY <2>1 DEF QuietInv
    <3>1. my.b \in 1..Len(mem) /\ Size(my.b) > 0 /\ Size(my.b) \in Nat
      BY <1>1, <1>3 DEF TypeInv, Locals, null
    <3> QED BY <1>1, <1>3, <2>1, <3>1
            DEF IInv, QuietInv, Holds, Size, Data, Looping, Shrinking, Ended
  <2> QED BY <2>2, <2>3, <2>4 DEF IInv
<1> QED BY <1>2, <1>3 DEF Sized

(* NewBufferFromReaderUntil: is the buffer full? *)
LEMMA LoopStep == ASSUME IInv, Loop PROVE IInv'
<1> USE Buffers, SameCall
<1>1. /\ pc = "loop" /\ UNCHANGED <<pos, mem, frozen, my, doomed>>
      /\ Goto(IF my.n = Size(my.b) THEN "grow" ELSE "take")
      /\ TypeInv /\ fn = "until" /\ my \in Locals
  BY DEF Loop, IInv, TypeInv, CountInv
<1>2. /\ pc' \in {"grow", "take"} /\ UNCHANGED <<fn, size, input, end, purged>>
      /\ pc' = "grow" <=> my.n = Size(my.b)
  BY <1>1 DEF Goto, call
<1>3. CountInv'
  BY <1>1, <1>2 DEF IInv, CountInv, Looping, Shrinking
<1>4. TypeInv' /\ OwnInv' /\ PlaceInv' /\ SizeInv'
  BY <1>1, <1>2, ControlStep DEF Ended, Copying, Labels
<1>5. QuietInv'
  <2> SUFFICES ASSUME ~purged PROVE QuietInv'
    BY <1>2 DEF QuietInv
  <2>1. my.b \in 0..Len(mem) /\ Size(my.b) \in Nat /\ my.n \in Nat
    BY <1>1 DEF TypeInv, Locals
  <2> QED BY <1>1, <1>2, <2>1 DEF IInv, QuietInv, Holds, Size, Data, Looping, Shrinking, Ended
<1> QED BY <1>3, <1>4, <1>5 DEF IInv

(* The end that only a Purge can bring about. *)
LEMMA EndStep ==
  ASSUME IInv, purged, NEW l \in {"panicked", "segv"}, Goto(l),
         UNCHANGED <<pos, mem, frozen, my, doomed>>
  PROVE  IInv'
<1>1. UNCHANGED <<fn, size, input, end, purged, pos, mem, frozen, my, doomed>> /\ pc' = l
  BY DEF Goto, call
<1>2. Live' = Live
  BY <1>1 DEF Live
<1>3. TypeInv' /\ OwnInv' /\ PlaceInv' /\ SizeInv'
  BY <1>1, <1>2 DEF IInv, TypeInv, OwnInv, PlaceInv, SizeInv, Labels, Ended, Copying
<1>4. CountInv' /\ QuietInv'
  BY <1>1 DEF IInv, CountInv, QuietInv, Looping, Shrinking
<1> QED BY <1>3, <1>4 DEF IInv

(* The next slice of the buffer. *)
LEMMA TakeStep == ASSUME IInv, Take PROVE IInv'
<1> USE Buffers
<1> DEFINE hi == IF fn = "until" THEN my.n + 1 ELSE Size(my.b)
<1>1. /\ pc = "take" /\ TypeInv /\ my \in Locals /\ my.n \in Nat /\ my.b \in 0..Len(mem)
      /\ Size(my.b) \in Nat /\ UNCHANGED <<pos, mem, frozen, doomed>>
  BY SMTT(40) DEF Take, IInv, TypeInv, Locals, Panic
<1>2. CASE /\ my.n <= hi /\ hi <= Size(my.b)
           /\ my' = [my EXCEPT !.lo = From(my.n), !.hi = hi, !.k = 0, !.e = "nil"]
           /\ Goto(IF fn = "size" THEN "got" ELSE "read")
  <2>1. /\ my' \in Locals /\ my'.b = my.b /\ my'.d = my.d /\ my'.ret = my.ret /\ my'.n = my.n
        /\ my'.lo = my.n /\ my'.hi = hi /\ my'.k = 0 /\ my'.e = "nil"
    <3>1. hi \in Nat
      BY <1>1
    <3> HIDE DEF hi
    <3> QED BY <1>1, <1>2, <3>1 DEF Locals, From
  <2>2. /\ pc' = (IF fn = "size" THEN "got" ELSE "read") /\ UNCHANGED <<fn, size, input, end, purged>>
    BY <1>2 DEF Goto, call
  <2>3. CountInv'
    BY <1>1, <1>2, <2>1, <2>2 DEF IInv, CountInv, Looping, Shrinking
  <2>4. TypeInv' /\ OwnInv' /\ PlaceInv' /\ SizeInv'
    <3>1. pc' \in Labels /\ Goto(pc') /\ pc' \notin Copying /\ pc' # "returned"
          /\ pc \notin Ended \cup Copying
      BY <1>1, <1>2, <2>2 DEF Labels, Copying, Ended, Goto
    <3> QED BY <1>1, <2>1, <3>1, ControlStep
  <2>5. QuietInv'
    <3> SUFFICES ASSUME ~purged PROVE QuietInv'
      BY <2>2 DEF QuietInv
    <3>1. Size(my.b)' = Size(my.b) /\ Data(my.b)' = Data(my.b)
      BY <1>1, <2>1 DEF Size, Data
    <3> QED BY <1>1, <1>2, <2>1, <2>2, <3>1 DEF IInv, QuietInv, Holds, Looping, Shrinking, Ended
  <2> QED BY <2>3, <2>4, <2>5 DEF IInv
<1>3. CASE ~(my.n <= hi /\ hi <= Size(my.b)) /\ Panic
  <2>1. purged
    BY <1>1, <1>3 DEF IInv, QuietInv, Holds
  <2> QED BY <1>3, <2>1, EndStep DEF Panic
<1> QED BY <1>2, <1>3 DEF Take

(* The loop is over, with what was decided. *)
LEMMA FinishStep ==
  ASSUME IInv, pc = "got", NEW n \in Nat, NEW err \in {"nil", "EOF", "err", "UnexpectedEOF"},
         n \in {my.n, my.n + my.k}, Finish(n, err), UNCHANGED <<pos, mem, frozen, doomed>>,
         ~purged => n = Wanted /\ pos = Taken /\ err = Error
  PROVE  IInv'
<1> USE Buffers, SameCall
<1>1. /\ my' = [my EXCEPT !.n = n, !.err = err] /\ Goto(IF n = 0 THEN "empty" ELSE "shrink")
      /\ TypeInv /\ my \in Locals /\ my.b \in 0..Len(mem) /\ Size(my.b) \in Nat
  BY SMTT(40) DEF Finish, IInv, TypeInv, Locals
<1>2. /\ my' \in Locals /\ my'.b = my.b /\ my'.d = my.d /\ my'.ret = my.ret /\ my'.n = n
      /\ my'.lo = my.lo /\ my'.hi = my.hi /\ my'.err = err
  BY <1>1 DEF Locals
<1>3. /\ pc' = (IF n = 0 THEN "empty" ELSE "shrink") /\ UNCHANGED <<call, purged>>
      /\ UNCHANGED <<fn, size, input, end>> /\ UNCHANGED <<Wanted, Taken, Error>>
  BY <1>1 DEF Goto
<1>4. n <= my.n + my.k /\ my.n + my.k = pos
  BY <1>1 DEF IInv, CountInv, Locals
<1>5. CountInv'
  BY <1>2, <1>3, <1>4 DEF IInv, CountInv, Looping, Shrinking
<1>6. TypeInv' /\ OwnInv' /\ PlaceInv' /\ SizeInv'
  <2>1. pc' \in Labels /\ Goto(pc') /\ pc' \notin Copying /\ pc' # "returned"
        /\ pc \notin Ended \cup Copying
    BY <1>3 DEF Labels, Copying, Ended, Goto
  <2> QED BY <1>2, <2>1, ControlStep
<1>7. QuietInv'
  <2> SUFFICES ASSUME ~purged PROVE QuietInv'
    BY <1>3 DEF QuietInv
  <2>1. Size(my.b)' = Size(my.b) /\ Data(my.b)' = Data(my.b)
    BY <1>2 DEF Size, Data
  <2>2. Holds(my.b, n) /\ my.b \in 1..Len(mem) /\ Size(my.b) > 0 /\ doomed = {}
    BY <1>1, <1>4, SMTT(40) DEF IInv, QuietInv, Holds, Ended, Locals
  <2>3. Decided'
    BY <1>2, <1>3 DEF Decided
  <2> QED BY <1>2, <1>3, <2>1, <2>2, <2>3 DEF QuietInv, Holds, Looping, Shrinking, Ended
<1> QED BY <1>5, <1>6, <1>7 DEF IInv

(* The loop goes on. *)
LEMMA ContinueStep ==
  ASSUME IInv, pc = "got", fn # "size", NEW l \in {"loop", "take", "grow"}, Continue(pos, l),
         UNCHANGED <<pos, mem, frozen, doomed>>, l = "loop" => fn = "until",
         ~purged => /\ l = "take" => pos < Size(my.b)
                    /\ l = "grow" => pos = Size(my.b)
                    /\ fn = "until" => \A k \in 1..pos : input[k] # Delim
  PROVE  IInv'
<1> USE Buffers, SameCall
<1>1. /\ my' = [my EXCEPT !.n = pos] /\ Goto(l) /\ pos \in Nat
      /\ TypeInv /\ my \in Locals /\ my.b \in 0..Len(mem) /\ Size(my.b) \in Nat
  BY SMTT(40) DEF Continue, IInv, TypeInv, Locals
<1>2. /\ my' \in Locals /\ my'.b = my.b /\ my'.d = my.d /\ my'.ret = my.ret /\ my'.n = pos
      /\ my'.lo = my.lo /\ my'.hi = my.hi
  BY <1>1 DEF Locals
<1>3. pc' = l /\ UNCHANGED <<call, purged>> /\ UNCHANGED <<fn, size, input, end>>
  BY <1>1 DEF Goto
<1>4. my.n + my.k = pos
  BY DEF IInv, CountInv
<1>5. CountInv'
  BY <1>1, <1>2, <1>3 DEF IInv, CountInv, Looping, Shrinking
<1>6. TypeInv' /\ OwnInv' /\ PlaceInv' /\ SizeInv'
  <2>1. l \in Labels /\ l \notin Copying /\ l # "returned" /\ pc \notin Ended \cup Copying
    BY DEF Labels, Copying, Ended
  <2> QED BY <1>1, <1>2, <2>1, ControlStep
<1>7. QuietInv'
  <2> SUFFICES ASSUME ~purged PROVE QuietInv'
    BY <1>3 DEF QuietInv
  <2>1. Size(my.b)' = Size(my.b) /\ Data(my.b)' = Data(my.b)
    BY <1>2 DEF Size, Data
  <2>2. Holds(my.b, pos) /\ my.b \in 1..Len(mem) /\ Size(my.b) > 0 /\ doomed = {}
    BY <1>4 DEF IInv, QuietInv, Ended
  <2> QED BY <1>2, <1>3, <2>1, <2>2 DEF QuietInv, Holds, Looping, Shrinking, Ended
<1> QED BY <1>5, <1>6, <1>7 DEF IInv

(* What io.ReadFull makes of an answer. *)
LEMMA GotFullStep == ASSUME IInv, GotFull PROVE IInv'
<1> USE Buffers, SameCall
<1> DEFINE n == my.n + my.k
<1>1. /\ pc = "got" /\ fn = "size" /\ UNCHANGED <<pos, mem, frozen, doomed>>
      /\ TypeInv /\ my \in Locals /\ my.b \in 0..Len(mem) /\ Size(my.b) \in Nat
      /\ my.n \in Nat /\ my.k \in Nat /\ my.hi \in Nat /\ my.lo \in Nat /\ n \in Nat
      /\ pos = n /\ size \in Nat /\ pos <= Len(input) /\ n <= my.hi
  BY SMTT(40) DEF GotFull, IInv, TypeInv, CountInv, Locals
<1>2. CASE n < my.hi /\ my.e = "nil" /\ my' = [my EXCEPT !.n = n, !.lo = n] /\ Goto("read")
  <2>1. /\ my' \in Locals /\ my'.b = my.b /\ my'.d = my.d /\ my'.ret = my.ret /\ my'.n = n
        /\ my'.lo = n /\ my'.hi = my.hi
    <3> HIDE DEF n
    <3> QED BY <1>1, <1>2 DEF Locals
  <2>2. pc' = "read" /\ UNCHANGED <<fn, size, input, end, purged>>
    BY <1>2 DEF Goto, call
  <2>3. CountInv'
    BY <1>1, <1>2, <2>1, <2>2 DEF IInv, CountInv, Looping, Shrinking
  <2>4. TypeInv' /\ OwnInv' /\ PlaceInv' /\ SizeInv'
    <3>1. "read" \in Labels /\ "read" \notin Copying /\ pc \notin Ended \cup Copying
      BY <1>1 DEF Labels, Copying, Ended
    <3> QED BY <1>1, <1>2, <2>1, <3>1, ControlStep
  <2>5. QuietInv'
    <3> SUFFICES ASSUME ~purged PROVE QuietInv'
      BY <2>2 DEF QuietInv
    <3>1. Size(my.b)' = Size(my.b) /\ Data(my.b)' = Data(my.b)
      BY <1>1, <2>1 DEF Size, Data
    <3>2. /\ Holds(my.b, n) /\ my.b \in 1..Len(mem) /\ Size(my.b) > 0 /\ doomed = {}
          /\ Size(my.b) = size /\ my.hi = Size(my.b)
      BY <1>1 DEF IInv, QuietInv, Ended
    <3> QED BY <1>1, <1>2, <2>1, <2>2, <3>1, <3>2 DEF QuietInv, Holds, Looping, Shrinking, Ended
  <2> QED BY <2>3, <2>4, <2>5 DEF IInv
<1>3. CASE n >= my.hi /\ Continue(n, "freeze")
  <2>1. /\ my' \in Locals /\ my'.b = my.b /\ my'.d = my.d /\ my'.ret = my.ret /\ my'.n = n
        /\ my'.lo = my.lo /\ my'.hi = my.hi
    <3> HIDE DEF n
    <3> QED BY <1>1, <1>3 DEF Locals, Continue
  <2>2. pc' = "freeze" /\ UNCHANGED <<fn, size, input, end, purged>>
    BY <1>3 DEF Continue, Goto, call
  <2>3. CountInv'
    BY <1>1, <1>3, <2>1, <2>2 DEF IInv, CountInv, Looping, Shrinking
  <2>4. TypeInv' /\ OwnInv' /\ PlaceInv' /\ SizeInv'
    <3>1. "freeze" \in Labels /\ "freeze" \notin Copying /\ pc \notin Ended \cup Copying
          /\ Goto("freeze")
      BY <1>1, <1>3 DEF Labels, Copying, Ended, Continue
    <3> QED BY <1>1, <2>1, <3>1, ControlStep
  <2>5. QuietInv'
    <3> SUFFICES ASSUME ~purged PROVE QuietInv'
      BY <2>2 DEF QuietInv
    <3>1. Size(my.b)' = Size(my.b) /\ Data(my.b)' = Data(my.b)
      BY <1>1, <2>1 DEF Size, Data
    <3>2. /\ Holds(my.b, n) /\ my.b \in 1..Len(mem) /\ Size(my.b) > 0 /\ doomed = {}
          /\ Size(my.b) = size /\ my.hi = Size(my.b)
      BY <1>1 DEF IInv, QuietInv, Ended
    <3>3. n = size
      BY <1>1, <1>3, <3>2
    <3> QED BY <1>1, <2>1, <2>2, <3>1, <3>2, <3>3 DEF QuietInv, Holds, Looping, Shrinking, Ended
  <2> QED BY <2>3, <2>4, <2>5 DEF IInv
<1>4. CASE /\ n < my.hi /\ my.e # "nil"
           /\ Finish(n, IF n > 0 /\ my.e = "EOF" THEN "UnexpectedEOF" ELSE my.e)
  <2> DEFINE err == IF n > 0 /\ my.e = "EOF" THEN "UnexpectedEOF" ELSE my.e
  <2>1. err \in {"nil", "EOF", "err", "UnexpectedEOF"}
    BY <1>1 DEF Locals
  <2>2. ~purged => n = Wanted /\ pos = Taken /\ err = Error
    <3> SUFFICES ASSUME ~purged PROVE n = Wanted /\ pos = Taken /\ err = Error
      OBVIOUS
    <3>1. Size(my.b) = size /\ my.hi = Size(my.b) /\ my.e = end /\ pos = Len(input)
      BY <1>1, <1>4 DEF IInv, QuietInv
    <3>2. size > Len(input) /\ n = Len(input)
      BY <1>1, <1>4, <3>1
    <3> QED BY <1>1, <3>1, <3>2, SizeAnswer
  <2>3. Finish(n, err)
    BY <1>4
  <2> HIDE DEF err
  <2> QED BY <1>1, <2>1, <2>2, <2>3, FinishStep
<1> QED BY <1>2, <1>3, <1>4 DEF GotFull

(* What NewBufferFromReaderUntil makes of an answer. *)
LEMMA GotUntilStep == ASSUME IInv, GotUntil PROVE IInv'
<1> USE Buffers
<1>1. /\ pc = "got" /\ fn = "until" /\ UNCHANGED <<pos, mem, frozen, doomed>>
      /\ TypeInv /\ my \in Locals /\ my.b \in 0..Len(mem) /\ Size(my.b) \in Nat
      /\ my.n \in Nat /\ my.k \in {0, 1} /\ pos = my.n + my.k /\ pos \in 0..Len(input)
      /\ input \in Inputs /\ my.e \in {"nil", "EOF", "err"}
  <2>1. /\ pc = "got" /\ fn = "until" /\ UNCHANGED <<pos, mem, frozen, doomed>>
        /\ TypeInv /\ CountInv /\ my \in Locals /\ pos \in 0..Len(input) /\ input \in Inputs
    BY DEF GotUntil, IInv, TypeInv
  <2>2. /\ my.n \in Nat /\ my.k \in Nat /\ my.b \in Nat /\ my.e \in {"nil", "EOF", "err"}
        /\ my.hi \in Nat /\ my.lo \in Nat
    BY <2>1 DEF Locals
  <2>3. /\ pos = my.n + my.k /\ my.lo = my.n /\ my.hi = my.n + 1 /\ my.k <= my.hi - my.lo
    BY <2>1 DEF CountInv
  <2>4. my.k \in {0, 1}
    BY <2>2, <2>3
  <2>5. my.b \in 0..Len(mem) /\ Size(my.b) \in Nat
    BY <2>1, <2>2 DEF TypeInv
  <2> QED BY <2>1, <2>2, <2>3, <2>4, <2>5
<1>2. ~purged => /\ \A k \in 1..my.n : input[k] # Delim
                 /\ Holds(my.b, my.n + my.k) /\ Size(my.b) > 0
                 /\ my.e # "nil" => my.e = end /\ pos = Len(input)
                 /\ doomed = {} /\ my.b \in 1..Len(mem)
  BY <1>1 DEF IInv, QuietInv, Looping, Ended
<1>3. CASE my.k # 1 /\ my.e = "nil" /\ Continue(Retry(my.n), "loop")
  <2>1. Continue(pos, "loop")
    BY <1>1, <1>3 DEF Retry
  <2> QED BY <1>1, <1>2, <1>3, <2>1, ContinueStep
<1>4. CASE my.k # 1 /\ my.e # "nil" /\ Finish(my.n, my.e)
  <2>1. ~purged => my.n = Wanted /\ pos = Taken /\ my.e = Error
    BY <1>1, <1>2, <1>4, UntilAnswer
  <2> QED BY <1>1, <1>4, <2>1, FinishStep
<1>5. CASE my.k = 1 /\ Size(my.b) = 0 /\ Goto("panicked") /\ UNCHANGED my
  BY <1>1, <1>2, <1>5, EndStep
<1>6. CASE /\ my.k = 1 /\ Size(my.b) # 0
           /\ \E bytes \in Seen(my.b) :
                IF bytes[my.n + 1] = Delim THEN Finish(my.n, "nil") ELSE Continue(my.n + 1, "loop")
  <2>1. PICK bytes \in Seen(my.b) :
          IF bytes[my.n + 1] = Delim THEN Finish(my.n, "nil") ELSE Continue(my.n + 1, "loop")
    BY <1>6
  <2>2. ~purged => bytes[my.n + 1] = input[my.n + 1]
    <3> SUFFICES ASSUME ~purged PROVE bytes[my.n + 1] = input[my.n + 1]
      OBVIOUS
    <3>1. bytes = Data(my.b)
      BY <1>2 DEF Seen
    <3>2. my.n + 1 \in 1..(my.n + my.k) /\ \A k \in 1..(my.n + my.k) : Data(my.b)[k] = input[k]
      BY <1>1, <1>2, <1>6 DEF Holds
    <3> QED BY <3>1, <3>2
  <2>3. CASE bytes[my.n + 1] = Delim /\ Finish(my.n, "nil")
    <3>1. ~purged => my.n = Wanted /\ pos = Taken /\ "nil" = Error
      <4> SUFFICES ASSUME ~purged PROVE my.n = Wanted /\ pos = Taken /\ "nil" = Error
        OBVIOUS
      <4>1. my.n \in 0..Len(input) /\ my.n < Len(input) /\ input[my.n + 1] = Delim /\ pos = my.n + 1
        BY <1>1, <1>6, <2>2, <2>3
      <4> QED BY <1>1, <1>2, <4>1, UntilAnswer
    <3> QED BY <1>1, <2>3, <3>1, FinishStep
  <2>4. CASE bytes[my.n + 1] # Delim /\ Continue(my.n + 1, "loop")
    <3>1. ~purged => \A k \in 1..pos : input[k] # Delim
      BY <1>1, <1>2, <1>6, <2>2, <2>4
    <3>2. Continue(pos, "loop")
      BY <1>1, <1>6, <2>4
    <3> QED BY <1>1, <3>1, <3>2, ContinueStep
  <2> QED BY <2>1, <2>3, <2>4
<1> QED BY <1>3, <1>4, <1>5, <1>6 DEF GotUntil

(* What NewBufferFromEntireReader makes of an answer. *)
LEMMA GotEntireStep == ASSUME IInv, GotEntire PROVE IInv'
<1> USE Buffers
<1> DEFINE n == my.n + my.k
<1>1. /\ pc = "got" /\ fn = "entire" /\ UNCHANGED <<pos, mem, frozen, doomed>>
      /\ TypeInv /\ my \in Locals /\ my.b \in 0..Len(mem) /\ Size(my.b) \in Nat
      /\ my.n \in Nat /\ my.k \in Nat /\ pos = n /\ pos \in 0..Len(input) /\ n \in Nat
      /\ my.e \in {"nil", "EOF", "err"} /\ end \in {"EOF", "err"}
  BY SMTT(40) DEF GotEntire, IInv, TypeInv, CountInv, Locals
<1>2. ~purged => /\ n <= Size(my.b) /\ my.n < Size(my.b)
                 /\ my.e # "nil" => my.e = end /\ pos = Len(input)
  BY <1>1 DEF IInv, QuietInv, Holds
<1>3. CASE my.e # "nil" /\ Finish(n, IF my.e = "EOF" THEN "nil" ELSE my.e)
  <2> DEFINE err == IF my.e = "EOF" THEN "nil" ELSE my.e
  <2>1. err \in {"nil", "EOF", "err", "UnexpectedEOF"} /\ Finish(n, err)
    BY <1>1, <1>3
  <2>2. ~purged => n = Wanted /\ pos = Taken /\ err = Error
    BY <1>1, <1>2, <1>3, EntireAnswer
  <2> HIDE DEF err
  <2> QED BY <1>1, <2>1, <2>2, FinishStep
<1>4. CASE my.e = "nil" /\ my.k = 0 /\ Continue(my.n, "take")
  <2>1. Continue(pos, "take")
    BY <1>1, <1>4
  <2> QED BY <1>1, <1>2, <1>4, <2>1, ContinueStep
<1>5. CASE my.e = "nil" /\ my.k # 0 /\ n > Size(my.b) /\ Continue(n, "panicked")
  <2>1. purged
    BY <1>1, <1>2, <1>5
  <2>2. /\ my' \in Locals /\ my'.b = my.b /\ my'.d = my.d /\ my'.ret = my.ret /\ my'.n = n
        /\ my'.lo = my.lo /\ my'.hi = my.hi
    <3> HIDE DEF n
    <3> QED BY <1>1, <1>5 DEF Locals, Continue
  <2>3. pc' = "panicked" /\ Goto("panicked") /\ UNCHANGED <<fn, size, input, end, purged>>
    BY <1>5 DEF Continue, Goto, call
  <2>4. CountInv' /\ QuietInv'
    BY <1>1, <2>1, <2>2, <2>3 DEF IInv, CountInv, QuietInv, Looping, Shrinking
  <2>5. TypeInv' /\ OwnInv' /\ PlaceInv' /\ SizeInv'
    <3>1. "panicked" \in Labels /\ "panicked" \notin Copying /\ pc \notin Ended \cup Copying
      BY <1>1 DEF Labels, Copying, Ended
    <3> QED BY <1>1, <2>2, <2>3, <3>1, ControlStep
  <2> QED BY <2>4, <2>5 DEF IInv
<1>6. CASE my.e = "nil" /\ my.k # 0 /\ n = Size(my.b) /\ Continue(n, "grow")
  <2>1. Continue(pos, "grow")
    BY <1>1, <1>6
  <2> QED BY <1>1, <1>6, <2>1, ContinueStep
<1>7. CASE my.e = "nil" /\ my.k # 0 /\ n < Size(my.b) /\ Continue(n, "take")
  <2>1. Continue(pos, "take")
    BY <1>1, <1>7
  <2> QED BY <1>1, <1>7, <2>1, ContinueStep
<1>8. ASSUME my.e = "nil", my.k # 0,
             Continue(n, CASE n > Size(my.b) -> "panicked" [] Full(n) -> "grow" [] OTHER -> "take")
      PROVE  IInv'
  <2>1. CASE n > Size(my.b)
    <3>1. n > Size(my.b) /\ ~Full(n)
      BY <1>1, <2>1 DEF Full
    <3> QED BY <1>5, <1>8, <3>1
  <2>2. CASE n = Size(my.b)
    <3>1. ~(n > Size(my.b)) /\ Full(n)
      BY <1>1, <2>2 DEF Full
    <3> QED BY <1>6, <1>8, <2>2, <3>1
  <2>3. CASE n < Size(my.b)
    <3>1. ~(n > Size(my.b)) /\ ~Full(n)
      BY <1>1, <2>3 DEF Full
    <3> QED BY <1>7, <1>8, <2>3, <3>1
  <2> QED BY <1>1, <2>1, <2>2, <2>3
<1> QED BY <1>3, <1>4, <1>8 DEF GotEntire
-----------------------------------------------------------------------------
(* The buffers that are alive after a step. *)
LEMMA NextBuffers ==
  ASSUME mem' \in Seq(Seq(Bytes))
  PROVE  /\ Len(mem') \in Nat /\ Live' = {id \in 1..Len(mem') : Len(mem'[id]) > 0}
         /\ \A id \in 1..Len(mem') : Len(mem'[id]) \in Nat
<1>1. /\ Len(mem') \in Nat /\ DOMAIN mem' = 1..Len(mem')
      /\ \A id \in 1..Len(mem') : Len(mem'[id]) \in Nat /\ (mem'[id] # <<>> <=> Len(mem'[id]) > 0)
  BY Memory
<1> QED BY <1>1 DEF Live

(* A step that writes into buffers kills none. *)
LEMMA SameSizes ==
  ASSUME TypeInv, SizeInv, mem' \in Seq(Seq(Bytes)), Len(mem') = Len(mem),
         \A id \in 1..Len(mem) : Len(mem'[id]) = Len(mem[id])
  PROVE  Live' = Live /\ SizeInv'
<1>1. Live = {id \in 1..Len(mem) : Len(mem[id]) > 0}
  BY Memory DEF Live, TypeInv
<1>2. Live' = Live
  BY <1>1, NextBuffers
<1> QED BY <1>2 DEF SizeInv

(* A Read puts the bytes that it gives where they belong. *)
LEMMA ReadKeeps ==
  ASSUME IInv, NEW k \in 0..Len(input), NEW e, Read(k, e)
  PROVE  /\ mem' \in Seq(Seq(Bytes)) /\ Len(mem') = Len(mem)
         /\ \A id \in 1..Len(mem) : Len(mem'[id]) = Len(mem[id])
         /\ \A id \in 1..Len(mem) : \A i \in 1..Len(mem[id]) :
              mem'[id][i] = IF id = my.b /\ i \in (my.n + 1)..(my.n + k) THEN input[i] ELSE mem[id][i]
<1>1. /\ pc = "read" /\ TypeInv /\ my \in Locals /\ mem \in Seq(Seq(Bytes)) /\ my.b \in 0..Len(mem)
      /\ my.n \in Nat /\ my.lo = my.n /\ pos = my.n /\ pos + k <= Len(input) /\ k <= Room
      /\ input \in Inputs
  BY DEF Read, IInv, TypeInv, CountInv, Locals, Looping
<1>2. CASE k = 0
  <2>1. mem' = mem
    BY <1>2 DEF Read
  <2>2. \A i \in 1..Len(input) : i \notin (my.n + 1)..(my.n + k)
    BY <1>1, <1>2
  <2>3. (my.n + 1)..(my.n + k) = {}
    BY <1>1, <1>2
  <2> QED BY <1>1, <2>1, <2>3
<1>3. CASE k # 0
  <2> DEFINE new == [i \in DOMAIN mem[my.b] |-> IF i \in (my.lo + 1)..(my.lo + k)
                                               THEN input[pos + i - my.lo] ELSE mem[my.b][i]]
  <2>1. Size(my.b) # 0
    BY <1>1, <1>3 DEF Room
  <2>2. my.b \in 1..Len(mem)
    BY <1>1, <2>1, Buffers DEF null
  <2>3. DOMAIN mem[my.b] = 1..Len(mem[my.b]) /\ \A i \in 1..Len(mem[my.b]) : mem[my.b][i] \in Bytes
    BY <1>1, <2>2, Memory
  <2>4. Len(mem[my.b]) \in Nat
    BY <1>1, <2>2, Memory
  <2>5. \A i \in (my.n + 1)..(my.n + k) : i \in 1..Len(input) /\ pos + i - my.lo = i
    BY <1>1, InputBytes
  <2>6. \A i \in 1..Len(input) : input[i] \in Bytes
    BY <1>1, InputBytes
  <2>7. /\ new \in [1..Len(mem[my.b]) -> Bytes]
        /\ \A i \in 1..Len(mem[my.b]) :
             new[i] = IF i \in (my.n + 1)..(my.n + k) THEN input[i] ELSE mem[my.b][i]
    BY <1>1, <2>3, <2>5, <2>6
  <2>8. mem' = [mem EXCEPT ![my.b] = new]
    BY <1>3 DEF Read
  <2> HIDE DEF new
  <2>9. /\ mem' \in Seq(Seq(Bytes)) /\ Len(mem') = Len(mem)
        /\ \A id \in 1..Len(mem) : Len(mem'[id]) = Len(mem[id]) /\ (id # my.b => mem'[id] = mem[id])
        /\ mem'[my.b] = new
    BY <1>1, <2>2, <2>7, <2>8, Filled
  <2> QED BY <2>7, <2>9
<1> QED BY <1>2, <1>3

(* A Read of the io.Reader. *)
LEMMA ReadStep ==
  ASSUME IInv, NEW k \in 0..Len(input), NEW e \in {"nil", "EOF", "err"}, Read(k, e)
  PROVE  IInv'
<1> USE Buffers, SameCall
<1>1. /\ pc = "read" /\ TypeInv /\ my \in Locals /\ my.b \in 0..Len(mem) /\ Size(my.b) \in Nat
      /\ my.n \in Nat /\ my.hi \in Nat /\ my.lo = my.n /\ my.lo <= my.hi /\ pos = my.n
      /\ pos + k <= Len(input) /\ k <= Room /\ input \in Inputs /\ Len(input) \in Nat /\ k \in Nat
  BY SMTT(40) DEF Read, IInv, TypeInv, CountInv, Locals, Looping
<1>2. k <= my.hi - my.lo
  BY <1>1 DEF Room
<1>3. /\ my' = [my EXCEPT !.k = k, !.e = e] /\ Goto("got") /\ pos' = pos + k
      /\ UNCHANGED <<frozen, doomed>>
      /\ e = "nil" \/ (e = end /\ pos + k = Len(input)) \/ (e = "err" /\ my.lo < my.hi /\ Size(my.b) = 0)
  BY DEF Read
<1>4. /\ my' \in Locals /\ my'.b = my.b /\ my'.d = my.d /\ my'.ret = my.ret /\ my'.n = my.n
      /\ my'.lo = my.lo /\ my'.hi = my.hi /\ my'.k = k /\ my'.e = e
  BY <1>1, <1>3 DEF Locals
<1>5. pc' = "got" /\ UNCHANGED <<fn, size, input, end, purged>> /\ UNCHANGED call
  BY <1>3 DEF Goto
<1>6. /\ mem' \in Seq(Seq(Bytes)) /\ Len(mem') = Len(mem)
      /\ \A id \in 1..Len(mem) : Len(mem'[id]) = Len(mem[id])
      /\ \A id \in 1..Len(mem) : \A i \in 1..Len(mem[id]) :
           mem'[id][i] = IF id = my.b /\ i \in (my.n + 1)..(my.n + k) THEN input[i] ELSE mem[id][i]
  BY ReadKeeps
<1>7. Live' = Live /\ SizeInv'
  BY <1>6, SameSizes DEF IInv
<1>8. TypeInv'
  <2>1. pos' \in 0..Len(input)
    BY <1>1, <1>3
  <2>2. "got" \in Labels
    BY DEF Labels
  <2> QED BY <1>3, <1>4, <1>5, <1>6, <1>7, <2>1, <2>2 DEF IInv, TypeInv
<1>9. CountInv'
  BY <1>1, <1>2, <1>3, <1>4, <1>5 DEF IInv, CountInv, Looping, Shrinking
<1>10. OwnInv'
  BY <1>1, <1>4, <1>5, <1>7 DEF IInv, OwnInv, Ended, Copying
<1>11. PlaceInv'
  <2>1. \A i \in (my.n + 1)..(my.n + k) : i <= Len(input)
    BY <1>1
  <2>2. \A id \in 1..Len(mem) : \A i \in 1..Len(mem[id]) :
          mem[id][i] = Zero \/ (i <= Len(input) /\ mem[id][i] = input[i])
    BY DEF IInv, PlaceInv
  <2>3. ASSUME NEW id \in 1..Len(mem'), NEW i \in 1..Len(mem'[id])
        PROVE  mem'[id][i] = Zero \/ (i <= Len(input) /\ mem'[id][i] = input[i])
    <3>1. id \in 1..Len(mem) /\ i \in 1..Len(mem[id])
      BY <1>6, <2>3
    <3>2. mem'[id][i] = IF id = my.b /\ i \in (my.n + 1)..(my.n + k) THEN input[i] ELSE mem[id][i]
      BY <1>6, <3>1
    <3> QED BY <2>1, <2>2, <3>1, <3>2
  <2> QED BY <1>5, <2>3 DEF PlaceInv
<1>12. QuietInv'
  <2> SUFFICES ASSUME ~purged PROVE QuietInv'
    BY <1>5 DEF QuietInv
  <2>1. /\ my.b \in 1..Len(mem) /\ Size(my.b) > 0 /\ Holds(my.b, my.n) /\ my.n < Size(my.b) /\ doomed = {}
        /\ fn = "size" => Size(my.b) = size
        /\ my.hi <= Size(my.b) /\ (fn # "until" => my.hi = Size(my.b))
        /\ fn = "until" => \A i \in 1..my.n : input[i] # Delim
    BY <1>1 DEF IInv, QuietInv, Ended, Looping
  <2>2. Size(my.b)' = Size(my.b) /\ Data(my.b)' = mem'[my.b]
    BY <1>4, <1>6, <2>1 DEF Size, Data, null
  <2>3. Holds(my.b, my.n + k)'
    <3>1. my.n + k <= Size(my.b) /\ Size(my.b) = Len(mem[my.b]) /\ Data(my.b) = mem[my.b]
      BY <1>1, <1>2, <2>1, SMTT(40)
    <3>2. ASSUME NEW i \in 1..(my.n + k) PROVE mem'[my.b][i] = input[i]
      <4>1. i \in 1..Len(mem[my.b]) /\ (i \in 1..my.n \/ i \in (my.n + 1)..(my.n + k))
        BY <1>1, <3>1, <3>2, SMTT(40)
      <4>2. mem'[my.b][i] = IF i \in (my.n + 1)..(my.n + k) THEN input[i] ELSE mem[my.b][i]
        BY <1>6, <2>1, <4>1
      <4>3. i \in 1..my.n => mem[my.b][i] = input[i]
        BY <2>1, <3>1 DEF Holds
      <4> QED BY <4>1, <4>2, <4>3
    <3> QED BY <1>4, <1>5, <2>2, <3>1, <3>2 DEF Holds
  <2>4. e # "nil" => e = end /\ pos' = Len(input)
    BY <1>3, <2>1
  <2> QED BY <1>1, <1>3, <1>4, <1>5, <1>6, <2>1, <2>2, <2>3, <2>4
          DEF QuietInv, Holds, Looping, Shrinking, Ended
<1> QED BY <1>7, <1>8, <1>9, <1>10, <1>11, <1>12 DEF IInv
-----------------------------------------------------------------------------
(* A new buffer leaves the others as they are. *)
LEMMA NewKeeps ==
  ASSUME IInv, NEW n \in 1..MaxInt, Allocatable(n), mem' = Append(mem, [i \in 1..n |-> Zero]),
         UNCHANGED <<call, pos, frozen, doomed>>
  PROVE  /\ mem' \in Seq(Seq(Bytes)) /\ Len(mem') = Len(mem) + 1
         /\ Live' = Live \cup {Len(mem) + 1} /\ frozen' \subseteq Live' /\ doomed' \subseteq Live'
         /\ PlaceInv' /\ SizeInv'
         /\ \A id \in 1..Len(mem) : mem'[id] = mem[id]
         /\ Len(mem'[Len(mem) + 1]) = n
<1> USE Buffers, SameCall
<1>1. TypeInv /\ Len(mem) \in Nat /\ mem \in Seq(Seq(Bytes)) /\ n \in Nat \ {0} /\ n <= MaxInt
  BY DEF IInv, TypeInv
<1>2. /\ mem' \in Seq(Seq(Bytes)) /\ Len(mem') = Len(mem) + 1
      /\ \A id \in 1..Len(mem) : mem'[id] = mem[id]
      /\ Len(mem'[Len(mem) + 1]) = n
      /\ \A k \in 1..n : mem'[Len(mem) + 1][k] = Zero
  BY <1>1, Allocated
<1>3. \A id \in 1..Len(mem') : id \in 1..Len(mem) \/ id = Len(mem) + 1
  BY <1>1, <1>2
<1>4. 1..Len(mem) \subseteq 1..Len(mem') /\ Len(mem) + 1 \in 1..Len(mem')
  BY <1>1, <1>2
<1>5. Live' = Live \cup {Len(mem) + 1}
  <2>1. Live = {id \in 1..Len(mem) : Len(mem[id]) > 0}
    BY <1>1, Memory DEF Live
  <2>2. Live' = {id \in 1..Len(mem') : Len(mem'[id]) > 0}
    BY <1>2, NextBuffers
  <2> QED BY <1>1, <1>2, <1>3, <1>4, <2>1, <2>2
<1>6. PlaceInv'
  BY <1>2, <1>3 DEF IInv, PlaceInv
<1>7. SizeInv'
  BY <1>1, <1>2, <1>3 DEF IInv, SizeInv
<1> QED BY <1>1, <1>2, <1>5, <1>6, <1>7 DEF TypeInv

(* NewBuffer panics, and everything is wiped. *)
LEMMA PanicStep ==
  ASSUME IInv, mem' = [id \in DOMAIN mem |-> <<>>], frozen' = {}, doomed' = {}, Goto("panicked"),
         NEW n, my' = [my EXCEPT !.err = IF Allocatable(n) THEN "refused" ELSE @], UNCHANGED pos,
         ~purged => Allocatable(n) \/ (fn = "size" /\ ~Allocatable(size))
  PROVE  IInv'
<1> USE Buffers, SameCall
<1>0. /\ my' \in Locals /\ my'.b = my.b /\ my'.d = my.d /\ my'.ret = my.ret /\ my'.n = my.n
      /\ my'.lo = my.lo /\ my'.hi = my.hi
      /\ ~purged => my'.err = "refused" \/ (fn = "size" /\ ~Allocatable(size))
  <2>1. my \in Locals
    BY DEF IInv, TypeInv
  <2>2. CASE Allocatable(n)
    <3>1. my' = [my EXCEPT !.err = "refused"]
      BY <2>2
    <3> QED BY <2>1, <3>1 DEF Locals
  <2>3. CASE ~Allocatable(n)
    <3>1. my' = [my EXCEPT !.err = my.err]
      BY <2>3
    <3>2. ~purged => fn = "size" /\ ~Allocatable(size)
      BY <2>3
    <3> QED BY <2>1, <3>1, <3>2 DEF Locals
  <2> QED BY <2>2, <2>3
<1>1. /\ TypeInv /\ Len(mem) \in Nat /\ mem \in Seq(Seq(Bytes)) /\ DOMAIN mem = 1..Len(mem)
      /\ pc' = "panicked" /\ UNCHANGED <<call, purged>> /\ UNCHANGED <<fn, size, input, end>>
  BY Memory DEF IInv, TypeInv, Goto
<1>2. /\ mem' \in Seq(Seq(Bytes)) /\ Len(mem') = Len(mem)
      /\ \A id \in 1..Len(mem) : mem'[id] = <<>>
  <2>1. mem' \in [1..Len(mem) -> Seq(Bytes)]
    BY <1>1, EmptySeq
  <2>2. mem' \in Seq(Seq(Bytes))
    BY <1>1, <2>1, SeqDef
  <2> QED BY <1>1, <2>1, <2>2, LenProperties
<1>3. \A id \in 1..Len(mem') : Len(mem'[id]) = 0
  BY <1>2, EmptySeq
<1>4. Live' = {}
  BY <1>2, <1>3, NextBuffers
<1>5. "panicked" \in Labels \cap Ended /\ "panicked" \notin Copying
  BY DEF Labels, Ended, Copying
<1>6. TypeInv' /\ OwnInv'
  BY <1>0, <1>1, <1>2, <1>4, <1>5 DEF IInv, TypeInv, OwnInv
<1>7. PlaceInv' /\ SizeInv'
  BY <1>1, <1>2, <1>3 DEF PlaceInv, SizeInv
<1>8. CountInv' /\ QuietInv'
  BY <1>0, <1>1 DEF IInv, CountInv, QuietInv, Looping, Shrinking, Ended
<1> QED BY <1>6, <1>7, <1>8 DEF IInv

(* The first buffer. *)
LEMMA StartStep == ASSUME IInv, Start PROVE IInv'
<1> USE Buffers, SameCall
<1> DEFINE n == IF fn = "size" THEN size ELSE PageSize
           l == CASE fn = "size" -> "sized" [] fn = "until" -> "loop" [] OTHER -> "take"
<1>1. /\ pc = "start" /\ TypeInv /\ my \in Locals /\ my.n = 0 /\ pos = 0 /\ UNCHANGED pos
      /\ mem = <<>> /\ Len(mem) = 0 /\ Live = {} /\ NewBuffer("b", n, l)
  <2>1. pc = "start" /\ NewBuffer("b", n, l) /\ UNCHANGED pos
    BY DEF Start, NewBuffer
  <2>2. TypeInv /\ my \in Locals /\ mem = <<>> /\ my.n = 0 /\ pos = 0
    BY <2>1 DEF IInv, TypeInv, CountInv
  <2>3. Len(mem) = 0 /\ Live = {}
    BY <2>2, EmptySeq DEF Live
  <2> QED BY <2>1, <2>2, <2>3
<1>2. /\ fn \in {"size", "until", "entire"} /\ size \in 0..MaxInt /\ input \in Inputs /\ n \in 0..MaxInt
  BY <1>1, LayoutAssumption DEF TypeInv
<1>3. fn # "size" => Allocatable(n)
  BY <1>1, <1>2, Spacious, LayoutAssumption
<1>4. /\ fn = "size" => l = "sized"
      /\ fn = "until" => l = "loop"
      /\ fn = "entire" => l = "take"
  OBVIOUS
<1>5. l \in Labels /\ l \notin Copying \cup Ended
  BY <1>2, <1>4 DEF Labels, Copying, Ended
<1>6. ASSUME pc' = l, UNCHANGED <<call, purged>>, UNCHANGED <<frozen, doomed>>,
             mem' \in Seq(Seq(Bytes)), my' = [my EXCEPT !["b"] = Len(mem')],
             (Len(mem') = 0 /\ n = 0) \/ (Len(mem') = 1 /\ Len(mem'[1]) = n),
             Live' \subseteq {Len(mem')}, frozen' \subseteq Live', doomed' \subseteq Live',
             PlaceInv', SizeInv'
      PROVE  IInv'
  <2> USE <1>6
  <2>1. /\ my' \in Locals /\ my'.b = Len(mem') /\ my'.d = my.d /\ my'.ret = my.ret /\ my'.n = 0
        /\ my'.lo = my.lo /\ my'.hi = my.hi /\ my.d \in Nat /\ my.ret \in Nat
    <3>1. Len(mem') \in Nat
      OBVIOUS
    <3> QED BY <1>1, <3>1 DEF Locals
  <2>2. my'.d <= Len(mem') /\ my'.ret <= Len(mem')
    BY <1>1, <2>1 DEF TypeInv
  <2>3. UNCHANGED <<fn, size, input, end, purged>>
    OBVIOUS
  <2> HIDE DEF n, l
  <2>4. TypeInv'
    BY <1>1, <1>5, <2>1, <2>2, <2>3 DEF TypeInv
  <2>5. CountInv'
    BY <1>1, <1>2, <1>4, <2>1, <2>3 DEF IInv, CountInv, Looping, Shrinking
  <2>6. OwnInv'
    BY <1>5, <2>1, <2>3 DEF OwnInv, Ended
  <2>7. QuietInv'
    <3> SUFFICES ASSUME ~purged PROVE QuietInv'
      BY <2>3 DEF QuietInv
    <3>1. doomed' = {}
      BY DEF IInv, QuietInv
    <3>2. Size(my.b)' = n
      BY <2>1, EmptySeq DEF Size, Data, null
    <3>3. n \in Nat /\ (fn = "size" => n = size) /\ (fn # "size" => n > 0)
      BY <1>2, LayoutAssumption DEF n
    <3>4. my'.b = 1 \/ n = 0
      BY <2>1
    <3>5. Holds(my.b, my.n)'
      BY <2>1, <3>2, <3>3 DEF Holds
    <3>6. n > 0 => my'.b \in 1..Len(mem')
      BY <2>1, <3>4
    <3>7. (pc' = "sized" /\ fn = "size") \/ (pc' \in {"loop", "take"} /\ fn # "size")
      BY <1>2, <1>4
    <3>8. my'.n = 0 /\ 1..0 = {}
      BY <2>1
    <3> QED BY <2>1, <2>3, <3>1, <3>2, <3>3, <3>5, <3>6, <3>7, <3>8
            DEF QuietInv, Looping, Shrinking, Ended
  <2> QED BY <2>4, <2>5, <2>6, <2>7 DEF IInv
<1>7. CASE n < 1 /\ my' = [my EXCEPT !["b"] = null] /\ Goto(l) /\ UNCHANGED <<mem, frozen, doomed>>
  <2>1. pc' = l /\ UNCHANGED <<call, purged>> /\ UNCHANGED <<fn, size, input, end>>
    BY <1>7 DEF Goto
  <2>2. n = 0 /\ fn = "size" /\ size = 0
    BY <1>2, <1>7, LayoutAssumption
  <2>3. mem' \in Seq(Seq(Bytes)) /\ Len(mem') = 0 /\ my' = [my EXCEPT !["b"] = Len(mem')]
    BY <1>1, <1>7 DEF TypeInv, null
  <2>4. Live' = {} /\ PlaceInv' /\ SizeInv' /\ frozen' \subseteq Live' /\ doomed' \subseteq Live'
    BY <1>1, <1>7, <2>1 DEF IInv, TypeInv, PlaceInv, SizeInv, Live
  <2> HIDE DEF n, l
  <2> QED BY <1>6, <1>7, <2>1, <2>2, <2>3, <2>4
<1>8. CASE /\ n >= 1 /\ Allocatable(n) /\ mem' = Append(mem, [i \in 1..n |-> Zero])
           /\ my' = [my EXCEPT !["b"] = Len(mem) + 1] /\ Goto(l) /\ UNCHANGED <<frozen, doomed>>
  <2>1. pc' = l /\ UNCHANGED <<call, purged>>
    BY <1>8 DEF Goto
  <2>2. n \in 1..MaxInt
    BY <1>2, <1>8
  <2> HIDE DEF n, l
  <2>3. /\ mem' \in Seq(Seq(Bytes)) /\ Len(mem') = 1 /\ Live' = {1} /\ PlaceInv' /\ SizeInv'
        /\ frozen' \subseteq Live' /\ doomed' \subseteq Live' /\ Len(mem'[1]) = n
    BY <1>1, <1>8, <2>1, <2>2, NewKeeps
  <2>4. my' = [my EXCEPT !["b"] = Len(mem')]
    BY <1>1, <1>8, <2>3
  <2> QED BY <1>6, <1>8, <2>1, <2>3, <2>4
<1>9. CASE /\ n >= 1 /\ mem' = [id \in DOMAIN mem |-> <<>>] /\ frozen' = {} /\ doomed' = {}
           /\ my' = [my EXCEPT !.err = IF Allocatable(n) THEN "refused" ELSE @] /\ Goto("panicked")
  <2>1. Allocatable(n) \/ (fn = "size" /\ ~Allocatable(size))
    BY <1>3, <1>9
  <2> HIDE DEF n, l
  <2> QED BY <1>1, <1>9, <2>1, PanicStep
<1> HIDE DEF n, l
<1> QED BY <1>1, <1>7, <1>8, <1>9 DEF NewBuffer

(* A bigger buffer beside the full one, or one of the right size. *)
LEMMA SecondStep ==
  ASSUME IInv, NEW n \in 1..MaxInt, NEW l \in {"growcopy", "shrinkcopy"}, NewBuffer("d", n, l),
         l = "growcopy" => pc = "grow" /\ n = Size(my.b) + PageSize,
         l = "shrinkcopy" => pc = "shrink" /\ n = my.n,
         ~purged => Allocatable(n)
  PROVE  IInv'
<1> USE Buffers, SameCall
<1>1. /\ TypeInv /\ my \in Locals /\ mem \in Seq(Seq(Bytes)) /\ Len(mem) \in Nat /\ UNCHANGED pos
      /\ my.b \in 0..Len(mem) /\ my.ret \in 0..Len(mem) /\ my.n \in Nat
  <2>1. UNCHANGED pos
    BY DEF NewBuffer
  <2>2. TypeInv /\ my \in Locals /\ mem \in Seq(Seq(Bytes)) /\ Len(mem) \in Nat
    BY DEF IInv, TypeInv
  <2>3. my.b \in 0..Len(mem) /\ my.ret \in 0..Len(mem) /\ my.n \in Nat
    BY <2>2 DEF TypeInv, Locals
  <2> QED BY <2>1, <2>2, <2>3
<1>2. CASE /\ n >= 1 /\ Allocatable(n) /\ mem' = Append(mem, [i \in 1..n |-> Zero])
           /\ my' = [my EXCEPT !["d"] = Len(mem) + 1] /\ Goto(l) /\ UNCHANGED <<frozen, doomed>>
  <2>1. pc' = l /\ UNCHANGED <<call, purged>> /\ UNCHANGED <<fn, size, input, end>>
        /\ UNCHANGED <<Wanted, Taken, Error>>
    BY <1>2 DEF Goto
  <2>2. /\ my' \in Locals /\ my'.b = my.b /\ my'.d = Len(mem) + 1 /\ my'.ret = my.ret /\ my'.n = my.n
        /\ my'.lo = my.lo /\ my'.hi = my.hi /\ my'.err = my.err
    <3>1. Len(mem) + 1 \in Nat /\ my' = [my EXCEPT !["d"] = Len(mem) + 1] /\ my \in Locals
      BY <1>1, <1>2
    <3> QED BY <3>1 DEF Locals
  <2>3. /\ mem' \in Seq(Seq(Bytes)) /\ Len(mem') = Len(mem) + 1
        /\ Live' = Live \cup {Len(mem) + 1} /\ frozen' \subseteq Live' /\ doomed' \subseteq Live'
        /\ PlaceInv' /\ SizeInv'
        /\ \A id \in 1..Len(mem) : mem'[id] = mem[id]
        /\ Len(mem'[Len(mem) + 1]) = n
    BY <1>1, <1>2, <2>1, NewKeeps
  <2>4. my'.b <= Len(mem') /\ my'.d <= Len(mem') /\ my'.ret <= Len(mem') /\ my'.b # my'.d
    BY <1>1, <2>2, <2>3, SMTT(40)
  <2>5. TypeInv'
    <3>1. l \in Labels
      BY DEF Labels
    <3> QED BY <1>1, <2>1, <2>2, <2>3, <2>4, <3>1 DEF TypeInv
  <2>6. CountInv'
    BY <1>1, <2>1, <2>2 DEF IInv, CountInv, Looping, Shrinking
  <2>7. OwnInv'
    <3>1. Live \subseteq {my.b}
      BY DEF IInv, OwnInv, Ended, Copying
    <3>2. l \in Copying /\ l # "returned"
      BY DEF Copying
    <3> QED BY <2>1, <2>2, <2>3, <2>4, <3>1, <3>2 DEF OwnInv
  <2>8. QuietInv'
    <3> SUFFICES ASSUME ~purged PROVE QuietInv'
      BY <2>1 DEF QuietInv
    <3>1. /\ doomed = {} /\ my.b \in 1..Len(mem) /\ Size(my.b) > 0 /\ Holds(my.b, my.n)
          /\ l = "growcopy" => my.n = Size(my.b)
          /\ l = "growcopy" /\ fn = "until" => \A k \in 1..my.n : input[k] # Delim
          /\ l = "shrinkcopy" => Decided
      BY DEF IInv, QuietInv, Looping, Shrinking, Ended
    <3>2. Data(my.b)' = Data(my.b) /\ Size(my.b)' = Size(my.b) /\ Size(my.d)' = n
      <4>1. mem'[my.b] = mem[my.b] /\ my'.b = my.b /\ my'.b # 0 /\ my.b # 0
        BY <2>2, <2>3, <3>1
      <4>2. Data(my.b)' = Data(my.b)
        BY <4>1 DEF Data, null
      <4>3. my'.d # 0 /\ Data(my.d)' = mem'[Len(mem) + 1]
        BY <1>1, <2>2 DEF Data, null
      <4> QED BY <2>3, <4>2, <4>3 DEF Size
    <3>3. my'.b \in 1..Len(mem') /\ my'.d \in 1..Len(mem')
      BY <1>1, <2>2, <2>3, <3>1
    <3>4. Holds(my.b, my.n)'
      BY <2>1, <2>2, <3>1, <3>2 DEF Holds
    <3>5. Decided => Decided'
      BY <1>1, <2>1, <2>2 DEF Decided
    <3> QED BY <1>2, <2>1, <2>2, <3>1, <3>2, <3>3, <3>4, <3>5 DEF QuietInv, Looping, Shrinking, Ended
  <2> QED BY <2>3, <2>5, <2>6, <2>7, <2>8 DEF IInv
<1>3. CASE /\ n >= 1 /\ mem' = [id \in DOMAIN mem |-> <<>>] /\ frozen' = {} /\ doomed' = {}
           /\ my' = [my EXCEPT !.err = IF Allocatable(n) THEN "refused" ELSE @] /\ Goto("panicked")
  BY <1>1, <1>3, PanicStep
<1>4. ~(n < 1)
  BY <1>1
<1> QED BY <1>2, <1>3, <1>4 DEF NewBuffer

(* A full buffer grows by a page. *)
LEMMA GrowStep == ASSUME IInv, Grow PROVE IInv'
<1> USE Buffers
<1>1. /\ pc = "grow" /\ NewBuffer("d", Size(my.b) + PageSize, "growcopy") /\ TypeInv
      /\ my \in Locals /\ my.b \in 0..Len(mem) /\ Size(my.b) \in Nat /\ my.n \in Nat /\ Len(input) \in Nat
      /\ input \in Inputs /\ PageSize \in Nat \ {0} /\ MaxInt \in Nat
  BY SMTT(40) DEF Grow, IInv, TypeInv, Locals
<1>2. Size(my.b) + PageSize <= MaxInt
  <2>1. CASE Size(my.b) = 0
    BY <1>1, <2>1, LayoutAssumption
  <2>2. CASE Size(my.b) > 0
    <3>1. my.b \in 1..Len(mem)
      BY <1>1, <2>2 DEF null
    <3>2. Size(my.b) \in 1..MaxInt /\ Allocatable(Size(my.b))
      BY <1>1, <2>2, <3>1, SMTT(40) DEF IInv, SizeInv
    <3> QED BY <3>2, RoomToGrow
  <2> QED BY <1>1, <2>1, <2>2
<1>3. ~purged => Allocatable(Size(my.b) + PageSize)
  <2> SUFFICES ASSUME ~purged PROVE Allocatable(Size(my.b) + PageSize)
    OBVIOUS
  <2>1. Size(my.b) = pos /\ pos <= Len(input)
    BY <1>1 DEF IInv, TypeInv, QuietInv, CountInv, Looping
  <2>2. Len(input) + 4 * PageSize <= MaxInt + 1
    BY <1>1, InputBytes
  <2>3. Size(my.b) + PageSize \in Nat \ {0} /\ (Size(my.b) + PageSize) + 3 * PageSize <= MaxInt + 1
    BY <1>1, <2>1, <2>2, SMTT(40)
  <2> QED BY <2>3, Spacious
<1>4. Size(my.b) + PageSize \in 1..MaxInt
  BY <1>1, <1>2
<1> QED BY <1>1, <1>3, <1>4, SecondStep

(* A buffer of the size of what was read. *)
LEMMA ShrinkStep == ASSUME IInv, Shrink PROVE IInv'
<1>1. /\ pc = "shrink" /\ NewBuffer("d", my.n, "shrinkcopy") /\ my.n \in Nat \ {0} /\ my.n <= pos
      /\ pos \in 0..Len(input) /\ input \in Inputs
  BY DEF Shrink, IInv, TypeInv, CountInv, Locals, Shrinking
<1>2. Len(input) \in Nat /\ Len(input) + 4 * PageSize <= MaxInt + 1
  BY <1>1, InputBytes
<1>3. my.n + 3 * PageSize <= MaxInt + 1
  BY <1>1, <1>2, LayoutAssumption
<1>4. my.n \in 1..MaxInt /\ Allocatable(my.n)
  BY <1>1, <1>3, Spacious, LayoutAssumption
<1> QED BY <1>1, <1>4, SecondStep
-----------------------------------------------------------------------------
(* What a loop over the bytes of a buffer sees is what is there, or zero. *)
LEMMA SeenBytes ==
  ASSUME TypeInv, NEW id \in 0..Len(mem), NEW bytes \in Seen(id)
  PROVE  /\ Size(id) > 0 => id \in 1..Len(mem)
         /\ \A i \in 1..Size(id) : bytes[i] \in {Zero, mem[id][i]}
         /\ doomed = {} => bytes = Data(id)
<1> USE Buffers
<1>1. Size(id) > 0 => id \in 1..Len(mem)
  BY DEF null
<1>2. CASE id \in doomed
  <2>1. PICK w \in SUBSET DOMAIN mem[id] :
          bytes = [i \in DOMAIN mem[id] |-> IF i \in w THEN Zero ELSE mem[id][i]]
    BY <1>2 DEF Seen
  <2>2. id \in 1..Len(mem) /\ DOMAIN mem[id] = 1..Size(id)
    BY <1>2, Memory DEF TypeInv
  <2> QED BY <1>1, <1>2, <2>1, <2>2
<1>3. CASE id \notin doomed
  <2>1. bytes = Data(id)
    BY <1>3 DEF Seen
  <2>2. \A i \in 1..Size(id) : id \in 1..Len(mem)
    BY <1>1
  <2> QED BY <1>1, <2>1, <2>2
<1> QED BY <1>2, <1>3

(* d.Copy(b.Bytes()[:n]) *)
LEMMA CopyKeeps ==
  ASSUME IInv, NEW n \in Nat, n <= Size(my.b), Copy(n), UNCHANGED input
  PROVE  /\ mem' \in Seq(Seq(Bytes)) /\ Len(mem') = Len(mem)
         /\ \A id \in 1..Len(mem) : Len(mem'[id]) = Len(mem[id]) /\ (id # my.d => mem'[id] = mem[id])
         /\ PlaceInv' /\ SizeInv' /\ Live' = Live
         /\ ~purged /\ Holds(my.b, n) /\ my.d \in 1..Len(mem) /\ n <= Size(my.d) =>
              \A k \in 1..n : mem'[my.d][k] = input[k]
<1> USE Buffers
<1>1. /\ TypeInv /\ my \in Locals /\ mem \in Seq(Seq(Bytes)) /\ my.b \in 0..Len(mem)
      /\ my.d \in 0..Len(mem) /\ Size(my.b) \in Nat /\ Len(mem) \in Nat
  BY SMTT(40) DEF IInv, TypeInv, Locals
<1>2. PICK bytes \in Seen(my.b) :
        mem' = [mem EXCEPT ![my.d] = [i \in DOMAIN @ |-> IF i <= n THEN bytes[i] ELSE @[i]]]
  BY DEF Copy
<1>3. /\ \A i \in 1..Size(my.b) : bytes[i] \in {Zero, mem[my.b][i]} /\ my.b \in 1..Len(mem)
      /\ doomed = {} => bytes = Data(my.b)
  BY <1>1, SeenBytes, SMTT(40)
<1>4. PlaceInv /\ SizeInv
  BY DEF IInv
<1>5. CASE my.d \notin 1..Len(mem)
  <2>1. DOMAIN mem = 1..Len(mem)
    BY <1>1, Memory
  <2>2. mem' = mem
    BY <1>1, <1>2, <1>5, <2>1
  <2>3. PlaceInv' /\ SizeInv' /\ Live' = Live
    BY <1>4, <2>2 DEF PlaceInv, SizeInv, Live
  <2>4. mem' \in Seq(Seq(Bytes)) /\ Len(mem') = Len(mem) /\ \A id \in 1..Len(mem) : mem'[id] = mem[id]
    BY <1>1, <2>2
  <2> QED BY <1>5, <2>3, <2>4
<1>6. CASE my.d \in 1..Len(mem)
  <2> DEFINE new == [i \in DOMAIN mem[my.d] |-> IF i <= n THEN bytes[i] ELSE mem[my.d][i]]
  <2>1. /\ DOMAIN mem[my.d] = 1..Len(mem[my.d]) /\ Len(mem[my.d]) \in Nat
        /\ \A i \in 1..Len(mem[my.d]) : mem[my.d][i] \in Bytes
    BY <1>1, <1>6, Memory
  <2>2. \A i \in 1..Len(mem[my.d]) : i <= n => i \in 1..Size(my.b)
    BY <1>1, <2>1
  <2>3. \A i \in 1..Size(my.b) : bytes[i] \in Bytes
    BY <1>1, <1>3, SomeBytes
  <2>4. new \in [1..Len(mem[my.d]) -> Bytes]
    BY <2>1, <2>2, <2>3
  <2>5. \A i \in 1..Len(mem[my.d]) : new[i] = IF i <= n THEN bytes[i] ELSE mem[my.d][i]
    BY <2>1
  <2>6. mem' = [mem EXCEPT ![my.d] = new]
    BY <1>2
  <2> HIDE DEF new
  <2>7. /\ mem' \in Seq(Seq(Bytes)) /\ Len(mem') = Len(mem)
        /\ \A id \in 1..Len(mem) : Len(mem'[id]) = Len(mem[id]) /\ (id # my.d => mem'[id] = mem[id])
        /\ mem'[my.d] = new
    BY <1>1, <1>6, <2>4, <2>6, Filled
  <2>8. Live' = Live /\ SizeInv'
    BY <1>1, <1>4, <2>7, SameSizes
  <2>9. PlaceInv'
    <3>1. ASSUME NEW i \in 1..Size(my.b)
          PROVE  bytes[i] = Zero \/ (i <= Len(input) /\ bytes[i] = input[i])
      <4>1. mem[my.b][i] = Zero \/ (i <= Len(input) /\ mem[my.b][i] = input[i])
        BY <1>1, <1>3, <1>4, <3>1 DEF PlaceInv
      <4> QED BY <1>3, <3>1, <4>1
    <3>2. ASSUME NEW id \in 1..Len(mem'), NEW i \in 1..Len(mem'[id])
          PROVE  mem'[id][i] = Zero \/ (i <= Len(input) /\ mem'[id][i] = input[i])
      <4>1. id \in 1..Len(mem) /\ i \in 1..Len(mem[id])
        BY <2>7, <3>2
      <4>2. mem[id][i] = Zero \/ (i <= Len(input) /\ mem[id][i] = input[i])
        BY <1>4, <4>1 DEF PlaceInv
      <4>3. CASE id # my.d
        BY <2>7, <4>1, <4>2, <4>3
      <4>4. CASE id = my.d
        BY <2>2, <2>5, <2>7, <3>1, <4>1, <4>2, <4>4
      <4> QED BY <4>3, <4>4
    <3> QED BY <3>2 DEF PlaceInv
  <2>10. ASSUME ~purged, Holds(my.b, n), n <= Size(my.d), NEW k \in 1..n
         PROVE  mem'[my.d][k] = input[k]
    <3>1. bytes = Data(my.b)
      BY <1>3, <2>10 DEF IInv, QuietInv
    <3>2. k \in 1..Len(mem[my.d]) /\ k <= n
      <4>1. Size(my.d) = Len(mem[my.d])
        BY <1>1, <1>6
      <4> QED BY <2>1, <2>10, <4>1
    <3>3. mem'[my.d][k] = bytes[k] /\ bytes[k] = input[k]
      BY <2>5, <2>7, <2>10, <3>1, <3>2 DEF Holds
    <3> QED BY <3>3
  <2> QED BY <1>6, <2>7, <2>8, <2>9, <2>10
<1> QED BY <1>5, <1>6

(* The bigger buffer gets what the full one holds. *)
LEMMA GrowCopyStep == ASSUME IInv, GrowCopy PROVE IInv'
<1> USE Buffers, SameCall
<1>1. /\ pc = "growcopy" /\ Goto("growend") /\ UNCHANGED <<pos, frozen, my, doomed>> /\ TypeInv
      /\ my \in Locals /\ mem \in Seq(Seq(Bytes)) /\ Len(mem) \in Nat /\ Copy(Size(my.b))
  BY DEF GrowCopy, IInv, TypeInv
<1>2. my.b \in 0..Len(mem) /\ Size(my.b) \in Nat
  BY <1>1 DEF TypeInv, Locals
<1>3. pc' = "growend" /\ UNCHANGED <<call, purged>> /\ UNCHANGED <<fn, size, input, end>>
  BY <1>1 DEF Goto
<1>4. /\ mem' \in Seq(Seq(Bytes)) /\ Len(mem') = Len(mem)
      /\ \A id \in 1..Len(mem) : Len(mem'[id]) = Len(mem[id]) /\ (id # my.d => mem'[id] = mem[id])
      /\ PlaceInv' /\ SizeInv' /\ Live' = Live
      /\ ~purged /\ Holds(my.b, Size(my.b)) /\ my.d \in 1..Len(mem) /\ Size(my.b) <= Size(my.d) =>
           \A k \in 1..Size(my.b) : mem'[my.d][k] = input[k]
  BY <1>1, <1>2, <1>3, CopyKeeps, SMTT(40)
<1>5. TypeInv'
  <2>1. "growend" \in Labels
    BY DEF Labels
  <2> QED BY <1>1, <1>3, <1>4, <2>1 DEF TypeInv
<1>6. CountInv'
  BY <1>1, <1>3 DEF IInv, CountInv, Looping, Shrinking
<1>7. OwnInv'
  BY <1>1, <1>3, <1>4 DEF IInv, OwnInv, Ended, Copying
<1>8. QuietInv'
  <2> SUFFICES ASSUME ~purged PROVE QuietInv'
    BY <1>3 DEF QuietInv
  <2>1. /\ doomed = {} /\ my.b \in 1..Len(mem) /\ Size(my.b) > 0 /\ Holds(my.b, my.n)
        /\ my.n = Size(my.b) /\ my.d \in 1..Len(mem) /\ Size(my.d) = Size(my.b) + PageSize
        /\ fn = "until" => \A k \in 1..my.n : input[k] # Delim
    BY <1>1 DEF IInv, QuietInv, Looping, Ended
  <2>2. my.b # my.d
    BY <1>1 DEF IInv, OwnInv, Copying
  <2>3. Data(my.b)' = Data(my.b) /\ Data(my.d)' = mem'[my.d]
    <3>1. mem'[my.b] = mem[my.b]
      BY <1>4, <2>1, <2>2
    <3>2. my' = my /\ my.b # 0 /\ my.d # 0
      BY <1>1, <2>1, SMTT(40)
    <3> QED BY <3>1, <3>2 DEF Data, null
  <2>4. Size(my.b)' = Size(my.b) /\ Size(my.d)' = Size(my.d)
    BY <1>1, <1>4, <2>1, <2>3 DEF Size
  <2>5. Size(my.b) <= Size(my.d) /\ my.n < Size(my.d)
    BY <1>1, <1>2, <2>1
  <2>6. Holds(my.b, my.n)' /\ Holds(my.d, my.n)'
    BY <1>1, <1>3, <1>4, <2>1, <2>3, <2>4, <2>5 DEF Holds
  <2> QED BY <1>1, <1>3, <1>4, <2>1, <2>4, <2>5, <2>6 DEF QuietInv, Looping, Shrinking, Ended
<1> QED BY <1>4, <1>5, <1>6, <1>7, <1>8 DEF IInv

(* The small buffer gets what was read. *)
LEMMA ShrinkCopyStep == ASSUME IInv, ShrinkCopy PROVE IInv'
<1> USE Buffers, SameCall
<1>1. /\ pc = "shrinkcopy" /\ TypeInv /\ my \in Locals /\ mem \in Seq(Seq(Bytes)) /\ Len(mem) \in Nat
  BY DEF ShrinkCopy, IInv, TypeInv
<1>2. my.b \in 0..Len(mem) /\ Size(my.b) \in Nat /\ my.n \in Nat
  BY <1>1 DEF TypeInv, Locals
<1>3. CASE Size(my.b) < my.n /\ Panic
  <2>1. purged
    BY <1>1, <1>2, <1>3 DEF IInv, QuietInv, Holds, Ended
  <2> QED BY <1>3, <2>1, EndStep DEF Panic
<1>4. CASE /\ Size(my.b) >= my.n /\ Copy(my.n) /\ Goto("shrinkfreeze")
           /\ UNCHANGED <<pos, frozen, my, doomed>>
  <2>1. pc' = "shrinkfreeze" /\ UNCHANGED <<call, purged>> /\ UNCHANGED <<fn, size, input, end>>
        /\ UNCHANGED <<Wanted, Taken, Error>>
    BY <1>4 DEF Goto
  <2>2. my.n <= Size(my.b)
    BY <1>2, <1>4
  <2>3. /\ mem' \in Seq(Seq(Bytes)) /\ Len(mem') = Len(mem)
        /\ \A id \in 1..Len(mem) : Len(mem'[id]) = Len(mem[id]) /\ (id # my.d => mem'[id] = mem[id])
        /\ PlaceInv' /\ SizeInv' /\ Live' = Live
        /\ ~purged /\ Holds(my.b, my.n) /\ my.d \in 1..Len(mem) /\ my.n <= Size(my.d) =>
             \A k \in 1..my.n : mem'[my.d][k] = input[k]
    BY <1>2, <1>4, <2>1, <2>2, CopyKeeps
  <2>4. TypeInv'
    <3>1. "shrinkfreeze" \in Labels
      BY DEF Labels
    <3> QED BY <1>1, <1>4, <2>1, <2>3, <3>1 DEF TypeInv
  <2>5. CountInv'
    BY <1>1, <1>4, <2>1 DEF IInv, CountInv, Looping, Shrinking
  <2>6. OwnInv'
    BY <1>1, <1>4, <2>1, <2>3 DEF IInv, OwnInv, Ended, Copying
  <2>7. QuietInv'
    <3> SUFFICES ASSUME ~purged PROVE QuietInv'
      BY <2>1 DEF QuietInv
    <3>1. /\ doomed = {} /\ my.b \in 1..Len(mem) /\ Size(my.b) > 0 /\ Holds(my.b, my.n)
          /\ my.d \in 1..Len(mem) /\ Size(my.d) = my.n /\ Decided
      BY <1>1 DEF IInv, QuietInv, Shrinking, Ended
    <3>2. my.b # my.d
      BY <1>1 DEF IInv, OwnInv, Copying
    <3>3. Data(my.b)' = Data(my.b) /\ Data(my.d)' = mem'[my.d]
      BY <1>4, <2>3, <3>1, <3>2 DEF Data, null
    <3>4. Size(my.b)' = Size(my.b) /\ Size(my.d)' = Size(my.d)
      BY <1>1, <1>4, <2>3, <3>1, <3>3 DEF Size
    <3>5. \A k \in 1..my.n : mem'[my.d][k] = input[k]
      BY <1>2, <2>3, <3>1, SMTT(40)
    <3>6. Holds(my.b, my.n)'
      BY <1>4, <2>1, <3>1, <3>3, <3>4 DEF Holds
    <3>7. Holds(my.d, my.n)'
      BY <1>2, <1>4, <2>1, <3>1, <3>3, <3>4, <3>5 DEF Holds
    <3>8. Decided'
      BY <1>4, <2>1, <3>1 DEF Decided
    <3> QED BY <1>4, <2>1, <2>3, <3>1, <3>4, <3>6, <3>7, <3>8 DEF QuietInv, Looping, Shrinking, Ended
  <2> QED BY <2>3, <2>4, <2>5, <2>6, <2>7 DEF IInv
<1> QED BY <1>3, <1>4 DEF ShrinkCopy

(* The buffer that will be returned becomes immutable. *)
LEMMA ShrinkFreezeStep == ASSUME IInv, ShrinkFreeze PROVE IInv'
<1> USE Buffers, SameCall
<1>1. /\ pc = "shrinkfreeze" /\ Goto("shrinkend") /\ UNCHANGED <<pos, mem, my, doomed>>
      /\ frozen' = frozen \cup ({my.d} \cap Live) /\ TypeInv /\ my \in Locals
  BY DEF ShrinkFreeze, Freeze, IInv, TypeInv
<1>2. pc' = "shrinkend" /\ UNCHANGED <<call, purged>> /\ UNCHANGED <<fn, size, input, end>>
      /\ UNCHANGED <<Wanted, Taken, Error>>
  BY <1>1 DEF Goto
<1>3. Live' = Live
  BY <1>1 DEF Live
<1>4. TypeInv'
  <2>1. "shrinkend" \in Labels
    BY DEF Labels
  <2> QED BY <1>1, <1>2, <1>3, <2>1 DEF TypeInv
<1>5. CountInv' /\ OwnInv' /\ PlaceInv' /\ SizeInv'
  BY <1>1, <1>2, <1>3 DEF IInv, CountInv, OwnInv, PlaceInv, SizeInv, Looping, Shrinking, Copying, Ended
<1>6. QuietInv'
  <2> SUFFICES ASSUME ~purged PROVE QuietInv'
    BY <1>2 DEF QuietInv
  <2>1. /\ doomed = {} /\ my.b \in 1..Len(mem) /\ Size(my.b) > 0 /\ Holds(my.b, my.n)
        /\ my.d \in 1..Len(mem) /\ Size(my.d) = my.n /\ Decided /\ Holds(my.d, my.n) /\ my.n >= 1
    BY <1>1 DEF IInv, QuietInv, CountInv, Shrinking, Ended
  <2>2. my.d \in frozen'
    BY <1>1, <2>1
  <2>3. Data(my.b)' = Data(my.b) /\ Data(my.d)' = Data(my.d)
    BY <1>1 DEF Data
  <2>4. Size(my.b)' = Size(my.b) /\ Size(my.d)' = Size(my.d)
    BY <1>1, <2>3 DEF Size
  <2>5. Holds(my.b, my.n)' /\ Holds(my.d, my.n)' /\ Decided'
    BY <1>1, <1>2, <2>1, <2>3, <2>4 DEF Holds, Decided
  <2> QED BY <1>1, <1>2, <2>1, <2>2, <2>4, <2>5 DEF QuietInv, Looping, Shrinking, Ended
<1> QED BY <1>4, <1>5, <1>6 DEF IInv

(* NewBufferFromReader returns the full buffer. *)
LEMMA FreezeFullStep == ASSUME IInv, FreezeFull PROVE IInv'
<1> USE Buffers, SameCall
<1>1. /\ pc = "freeze" /\ Goto("returned") /\ UNCHANGED <<pos, mem, doomed>>
      /\ frozen' = frozen \cup ({my.b} \cap Live) /\ TypeInv /\ my \in Locals /\ fn = "size"
      /\ my' = [my EXCEPT !.ret = my.b, !.err = "nil"]
  BY DEF FreezeFull, Freeze, Return, IInv, TypeInv, CountInv
<1>2. /\ my' \in Locals /\ my'.b = my.b /\ my'.d = my.d /\ my'.ret = my.b /\ my'.err = "nil"
      /\ my'.n = my.n /\ my'.lo = my.lo /\ my'.hi = my.hi
  BY <1>1 DEF Locals
<1>3. pc' = "returned" /\ UNCHANGED <<call, purged>> /\ UNCHANGED <<fn, size, input, end>>
      /\ UNCHANGED <<Wanted, Taken, Error>>
  BY <1>1 DEF Goto
<1>4. Live' = Live
  BY <1>1 DEF Live
<1>5. TypeInv'
  <2>1. "returned" \in Labels
    BY DEF Labels, Ended
  <2> QED BY <1>1, <1>2, <1>3, <1>4, <2>1 DEF TypeInv
<1>6. CountInv' /\ PlaceInv' /\ SizeInv'
  BY <1>1, <1>2, <1>3 DEF IInv, CountInv, PlaceInv, SizeInv, Looping, Shrinking
<1>7. OwnInv'
  BY <1>1, <1>2, <1>3, <1>4 DEF IInv, OwnInv, Ended, Copying
<1>8. QuietInv'
  <2> SUFFICES ASSUME ~purged PROVE QuietInv'
    BY <1>3 DEF QuietInv
  <2>1. /\ doomed = {} /\ my.b \in 1..Len(mem) /\ Size(my.b) > 0 /\ Holds(my.b, my.n)
        /\ Size(my.b) = size /\ my.n = size /\ pos = size /\ size \in Nat /\ pos <= Len(input)
    BY <1>1 DEF IInv, QuietInv, TypeInv, Ended
  <2>2. Wanted = size /\ Taken = size /\ Error = "nil"
    BY <1>1, <2>1, SizeAnswer
  <2>3. Data(my.ret)' = Data(my.b)
    BY <1>1, <1>2 DEF Data
  <2>4. Size(my.ret)' = Size(my.b)
    BY <2>3 DEF Size
  <2>5. Holds(my.ret, Wanted)'
    BY <1>3, <2>1, <2>2, <2>3, <2>4 DEF Holds
  <2>6. my'.ret \in frozen'
    BY <1>1, <1>2, <2>1
  <2> QED BY <1>1, <1>2, <1>3, <2>1, <2>2, <2>4, <2>5, <2>6 DEF QuietInv, Looping, Shrinking, Ended
<1> QED BY <1>5, <1>6, <1>7, <1>8 DEF IInv
-----------------------------------------------------------------------------
(* Destroy(x) leaves the other buffers as they are. *)
LEMMA DestroyKeeps ==
  ASSUME IInv, NEW x, Destroy(x), UNCHANGED input
  PROVE  /\ mem' \in Seq(Seq(Bytes)) /\ Len(mem') = Len(mem)
         /\ \A id \in 1..Len(mem) : id # x => mem'[id] = mem[id]
         /\ Live' = Live \ {x} /\ frozen' = frozen \ {x} /\ doomed' = doomed \ {x}
         /\ frozen' \subseteq Live' /\ doomed' \subseteq Live' /\ PlaceInv' /\ SizeInv'
<1>1. /\ TypeInv /\ mem \in Seq(Seq(Bytes)) /\ mem' = DropData(x) /\ frozen' = frozen \ {x}
      /\ doomed' = doomed \ {x} /\ frozen \subseteq Live /\ doomed \subseteq Live
  BY DEF IInv, TypeInv, Destroy
<1>2. /\ mem' \in Seq(Seq(Bytes)) /\ Len(mem') = Len(mem)
      /\ \A id \in 1..Len(mem) : mem'[id] = IF id = x THEN <<>> ELSE mem[id]
  BY <1>1, Dropped
<1>3. \A id \in 1..Len(mem) : Len(mem'[id]) = IF id = x THEN 0 ELSE Len(mem[id])
  BY <1>2, EmptySeq
<1>4. Live' = Live \ {x}
  <2>1. Live = {id \in 1..Len(mem) : Len(mem[id]) > 0}
    BY <1>1, Memory DEF Live
  <2>2. Live' = {id \in 1..Len(mem) : Len(mem'[id]) > 0}
    BY <1>2, NextBuffers
  <2> QED BY <1>3, <2>1, <2>2
<1>5. SizeInv'
  BY <1>2, <1>3 DEF IInv, SizeInv
<1>6. PlaceInv'
  <2>1. ASSUME NEW id \in 1..Len(mem'), NEW k \in 1..Len(mem'[id])
        PROVE  mem'[id][k] = Zero \/ (k <= Len(input) /\ mem'[id][k] = input[k])
    <3>1. id \in 1..Len(mem) /\ id # x
      BY <1>2, <1>3, <2>1
    <3> QED BY <1>2, <2>1, <3>1 DEF IInv, PlaceInv
  <2> QED BY <2>1 DEF PlaceInv
<1> QED BY <1>1, <1>2, <1>4, <1>5, <1>6

(* The bigger buffer takes the place of the full one. *)
LEMMA GrowEndStep == ASSUME IInv, GrowEnd PROVE IInv'
<1> USE Buffers, SameCall
<1>1. /\ pc = "growend" /\ Goto("take") /\ Destroy(my.b) /\ my' = [my EXCEPT !.b = my.d]
      /\ UNCHANGED pos /\ TypeInv /\ my \in Locals
  BY DEF GrowEnd, IInv, TypeInv
<1>2. /\ my' \in Locals /\ my'.b = my.d /\ my'.d = my.d /\ my'.ret = my.ret
      /\ my'.n = my.n /\ my'.lo = my.lo /\ my'.hi = my.hi
  BY <1>1 DEF Locals
<1>3. pc' = "take" /\ UNCHANGED <<call, purged>> /\ UNCHANGED <<fn, size, input, end>>
  BY <1>1 DEF Goto
<1>4. /\ mem' \in Seq(Seq(Bytes)) /\ Len(mem') = Len(mem)
      /\ \A id \in 1..Len(mem) : id # my.b => mem'[id] = mem[id]
      /\ Live' = Live \ {my.b} /\ frozen' = frozen \ {my.b} /\ doomed' = doomed \ {my.b}
      /\ frozen' \subseteq Live' /\ doomed' \subseteq Live' /\ PlaceInv' /\ SizeInv'
  BY <1>1, <1>3, DestroyKeeps
<1>5. TypeInv'
  <2>1. "take" \in Labels
    BY DEF Labels
  <2> QED BY <1>1, <1>2, <1>3, <1>4, <2>1 DEF TypeInv
<1>6. CountInv'
  BY <1>1, <1>2, <1>3 DEF IInv, CountInv, Looping, Shrinking
<1>7. OwnInv'
  BY <1>1, <1>2, <1>3, <1>4 DEF IInv, OwnInv, Ended, Copying
<1>8. QuietInv'
  <2> SUFFICES ASSUME ~purged PROVE QuietInv'
    BY <1>3 DEF QuietInv
  <2>1. /\ doomed = {} /\ my.d \in 1..Len(mem) /\ Holds(my.d, my.n) /\ my.n < Size(my.d)
        /\ fn = "until" => \A k \in 1..my.n : input[k] # Delim
    BY <1>1 DEF IInv, QuietInv, Looping, Ended
  <2>2. my.b # my.d /\ fn # "size" /\ my.n \in Nat /\ Size(my.d) \in Nat
    BY <1>1, <2>1 DEF IInv, OwnInv, CountInv, Copying, Locals
  <2>3. Data(my.b)' = Data(my.d)
    <3>1. mem'[my.d] = mem[my.d] /\ my'.b = my.d
      BY <1>2, <1>4, <2>1, <2>2
    <3> QED BY <3>1 DEF Data
  <2>4. Size(my.b)' = Size(my.d) /\ Size(my.d) > 0
    BY <2>1, <2>2, <2>3 DEF Size
  <2>5. Holds(my.b, my.n)'
    BY <1>2, <1>3, <2>1, <2>3, <2>4 DEF Holds
  <2> QED BY <1>2, <1>3, <1>4, <2>1, <2>2, <2>4, <2>5 DEF QuietInv, Looping, Shrinking, Ended
<1> QED BY <1>4, <1>5, <1>6, <1>7, <1>8 DEF IInv

(* The last statement of a call that destroys the buffer that it read into. *)
LEMMA LastStep ==
  ASSUME IInv, NEW id, (pc = "shrinkend" /\ id = my.d) \/ (pc = "empty" /\ id = null),
         Destroy(my.b), Return(id, my.err), UNCHANGED pos
  PROVE  IInv'
<1> USE Buffers, SameCall
<1>1. /\ Goto("returned") /\ my' = [my EXCEPT !.ret = id, !.err = my.err] /\ TypeInv /\ my \in Locals
      /\ id \in Nat /\ id <= Len(mem)
  <2>1. Goto("returned") /\ my' = [my EXCEPT !.ret = id, !.err = my.err] /\ TypeInv /\ my \in Locals
    BY DEF Return, IInv, TypeInv
  <2> QED BY <2>1, SMTT(40) DEF TypeInv, Locals, null
<1>2. /\ my' \in Locals /\ my'.b = my.b /\ my'.d = my.d /\ my'.ret = id /\ my'.err = my.err
      /\ my'.n = my.n /\ my'.lo = my.lo /\ my'.hi = my.hi
  BY <1>1 DEF Locals
<1>3. pc' = "returned" /\ UNCHANGED <<call, purged>> /\ UNCHANGED <<fn, size, input, end>>
      /\ UNCHANGED <<Wanted, Taken, Error>>
  BY <1>1 DEF Goto
<1>4. /\ mem' \in Seq(Seq(Bytes)) /\ Len(mem') = Len(mem)
      /\ \A x \in 1..Len(mem) : x # my.b => mem'[x] = mem[x]
      /\ Live' = Live \ {my.b} /\ frozen' = frozen \ {my.b} /\ doomed' = doomed \ {my.b}
      /\ frozen' \subseteq Live' /\ doomed' \subseteq Live' /\ PlaceInv' /\ SizeInv'
  BY <1>3, DestroyKeeps
<1>5. TypeInv'
  <2>1. "returned" \in Labels
    BY DEF Labels, Ended
  <2> QED BY <1>1, <1>2, <1>3, <1>4, <2>1 DEF TypeInv
<1>6. CountInv'
  BY <1>1, <1>2, <1>3 DEF IInv, CountInv, Looping, Shrinking
<1>7. OwnInv'
  <2>1. CASE pc = "shrinkend"
    BY <1>2, <1>3, <1>4, <2>1 DEF IInv, OwnInv, Ended, Copying
  <2>2. CASE pc = "empty"
    BY <1>2, <1>3, <1>4, <2>2 DEF IInv, OwnInv, Ended, Copying
  <2> QED BY <2>1, <2>2
<1>8. QuietInv'
  <2> SUFFICES ASSUME ~purged PROVE QuietInv'
    BY <1>3 DEF QuietInv
  <2>1. doomed' = {} /\ my.n = Wanted /\ pos = Taken /\ my.err = Error
    BY <1>4 DEF IInv, QuietInv, Decided, Shrinking
  <2>2. Size(my.ret)' = Wanted /\ Holds(my.ret, Wanted)' /\ (Wanted > 0 => my'.ret \in frozen')
    <3>1. CASE pc = "shrinkend"
      <4>1. my.d \in 1..Len(mem) /\ Size(my.d) = my.n /\ Holds(my.d, my.n) /\ my.d \in frozen
        BY <3>1 DEF IInv, QuietInv, Shrinking
      <4>2. my.b # my.d /\ my'.ret = my.d
        BY <1>2, <3>1 DEF IInv, OwnInv, Copying
      <4>3. mem'[my.d] = mem[my.d]
        BY <1>4, <4>1, <4>2
      <4>4. Data(my.ret)' = Data(my.d)
        BY <4>2, <4>3 DEF Data
      <4>5. Size(my.ret)' = Size(my.d)
        BY <4>4 DEF Size
      <4>6. my'.ret \in frozen'
        BY <1>4, <4>1, <4>2
      <4> QED BY <1>3, <2>1, <4>1, <4>4, <4>5, <4>6 DEF Holds
    <3>2. CASE pc = "empty"
      <4>1. my.n = 0 /\ my'.ret = null
        BY <1>2, <3>2 DEF IInv, CountInv
      <4>2. Size(my.ret)' = 0
        BY <4>1, EmptySeq DEF Size, Data
      <4> QED BY <1>3, <2>1, <4>1, <4>2 DEF Holds
    <3> QED BY <3>1, <3>2
  <2> QED BY <1>2, <1>3, <2>1, <2>2 DEF QuietInv, Looping, Shrinking, Ended
<1> QED BY <1>4, <1>5, <1>6, <1>7, <1>8 DEF IInv

(* What was read is returned. *)
LEMMA ShrinkEndStep == ASSUME IInv, ShrinkEnd PROVE IInv'
BY LastStep DEF ShrinkEnd

(* Nothing was read. *)
LEMMA EmptyStep == ASSUME IInv, Empty PROVE IInv'
BY LastStep DEF Empty
-----------------------------------------------------------------------------
(* Memory faults only after a Purge. *)
LEMMA FaultStep == ASSUME IInv, Fault PROVE IInv'
<1>1. /\ pc \in {"read", "got", "growcopy", "shrinkcopy"} /\ (my.b \in doomed \/ Size(my.b) = 0)
      /\ Goto("segv") /\ UNCHANGED <<pos, mem, frozen, my, doomed>>
  BY DEF Fault, Touches
<1>2. purged
  BY <1>1 DEF IInv, QuietInv, Ended
<1> QED BY <1>1, <1>2, EndStep

(* Another goroutine's Purge begins. *)
LEMMA PurgeFlushStep == ASSUME IInv, PurgeFlush PROVE IInv'
<1>1. UNCHANGED <<fn, size, input, end, pos, mem, frozen, my, pc>> /\ purged' = TRUE /\ doomed' = Live
  BY DEF PurgeFlush, call
<1>2. Live' = Live
  BY <1>1 DEF Live
<1>3. TypeInv'
  <2>1. purged' \in BOOLEAN
    BY <1>1
  <2> QED BY <1>1, <1>2, <2>1 DEF IInv, TypeInv
<1>4. CountInv' /\ OwnInv' /\ PlaceInv' /\ SizeInv'
  BY <1>1, <1>2 DEF IInv, CountInv, OwnInv, PlaceInv, SizeInv
<1>5. QuietInv'
  BY <1>1 DEF QuietInv
<1> QED BY <1>3, <1>4, <1>5 DEF IInv

(* It destroys a buffer that it found. *)
LEMMA PurgeDestroyStep == ASSUME IInv, PurgeDestroy PROVE IInv'
<1> DEFINE x == Min(doomed)
<1>1. /\ UNCHANGED <<call, pos, my, pc, purged>> /\ UNCHANGED <<fn, size, input, end>> /\ Destroy(x)
      /\ doomed # {} /\ mem # <<>>
  <2>1. UNCHANGED <<call, pos, my, pc, purged>> /\ Destroy(x) /\ doomed # {}
    BY DEF PurgeDestroy
  <2>2. mem # <<>>
    BY <2>1 DEF IInv, TypeInv, Live
  <2> QED BY <2>1, <2>2 DEF call
<1> HIDE DEF x
<1>2. purged /\ purged'
  BY <1>1 DEF IInv, QuietInv
<1>3. /\ mem' \in Seq(Seq(Bytes)) /\ Len(mem') = Len(mem)
      /\ Live' = Live \ {x} /\ frozen' \subseteq Live' /\ doomed' \subseteq Live'
      /\ PlaceInv' /\ SizeInv'
  BY <1>1, DestroyKeeps
<1>4. TypeInv'
  BY <1>1, <1>3 DEF IInv, TypeInv
<1>5. CountInv'
  BY <1>1 DEF IInv, CountInv
<1>6. OwnInv'
  BY <1>1, <1>3 DEF IInv, OwnInv
<1>7. QuietInv'
  BY <1>2 DEF QuietInv
<1> QED BY <1>3, <1>4, <1>5, <1>6, <1>7 DEF IInv
-----------------------------------------------------------------------------
(* Every step keeps the invariant. *)
LEMMA Inductive == IInv /\ [Next]_vars => IInv'
<1> SUFFICES ASSUME IInv, [Next]_vars PROVE IInv'
  OBVIOUS
<1>1. CASE Step
  BY <1>1, StartStep, SizedStep, LoopStep, TakeStep, GotFullStep, GotUntilStep, GotEntireStep,
     GrowStep, GrowCopyStep, GrowEndStep, ShrinkStep, ShrinkCopyStep, ShrinkFreezeStep,
     ShrinkEndStep, EmptyStep, FreezeFullStep DEF Step
<1>2. CASE Reading
  BY <1>2, ReadStep DEF Reading
<1>3. CASE Fault
  BY <1>3, FaultStep
<1>4. CASE PurgeFlush
  BY <1>4, PurgeFlushStep
<1>5. CASE PurgeDestroy
  BY <1>5, PurgeDestroyStep
<1>6. CASE UNCHANGED vars
  <2>1. UNCHANGED <<fn, size, input, end, pos, mem, frozen, my, pc, purged, doomed>>
    BY <1>6 DEF vars, call
  <2>2. TypeInv' /\ CountInv' /\ OwnInv' /\ PlaceInv' /\ SizeInv'
    BY <2>1 DEF IInv, TypeInv, CountInv, OwnInv, PlaceInv, SizeInv, Live
  <2>3. UNCHANGED <<Wanted, Taken, Error>>
    BY <1>6, SameCall DEF vars
  <2>4. QuietInv'
    BY <2>1, <2>3 DEF IInv, QuietInv, Holds, Decided, Size, Data
  <2> QED BY <2>2, <2>4 DEF IInv
<1> QED BY <1>1, <1>2, <1>3, <1>4, <1>5, <1>6 DEF Next, Over

(* The invariant holds in every reachable state. *)
THEOREM Invariance == Spec => []IInv
BY InitEstablishes, Inductive, PTL DEF Spec

(* The invariant says what the runs check. *)
LEMMA ImpliesTypeOK == IInv => TypeOK
<1> SUFFICES ASSUME IInv PROVE TypeOK
  OBVIOUS
<1> USE Buffers
<1>1. TypeInv /\ CountInv /\ my \in Locals
  BY DEF IInv, TypeInv
<1>2. /\ my.b \in 0..Len(mem) /\ my.d \in 0..Len(mem) /\ my.ret \in 0..Len(mem) /\ my.n \in Nat
      /\ my.k \in Nat
  BY <1>1 DEF TypeInv, Locals
<1>3. pos \in Nat /\ my.n <= pos /\ my.lo <= my.hi
  BY <1>1 DEF TypeInv, CountInv
<1>4. my.n \in 0..pos
  BY <1>2, <1>3
<1>5. ASSUME ~purged, pc \notin Ended PROVE my.n <= Size(my.b)
  <2>1. Size(my.b) \in Nat
    BY <1>1, <1>2
  <2>2. CASE pc = "start"
    BY <1>1, <2>1, <2>2 DEF CountInv
  <2>3. CASE pc = "got"
    <3>1. my.n + my.k <= Size(my.b)
      BY <1>5, <2>3 DEF IInv, QuietInv, Holds
    <3> QED BY <1>2, <2>1, <3>1
  <2>4. CASE pc \notin {"start", "got"}
    BY <1>5, <2>4 DEF IInv, QuietInv, Holds
  <2> QED BY <2>2, <2>3, <2>4
<1> QED BY <1>1, <1>2, <1>3, <1>4, <1>5 DEF TypeOK, TypeInv

(* Without a Purge each of the three functions returns the bytes that it    *)
(* promises in an immutable buffer, takes no byte too many, reports an      *)
(* error exactly when it should and does not fail, for every input and      *)
(* every way in which the reader hands it out (buffer.go:67-208).           *)
THEOREM ReadersReturnExpected == Spec => []ReturnsExpected
<1>1. IInv => ReturnsExpected
  <2> SUFFICES ASSUME IInv PROVE ReturnsExpected
    OBVIOUS
  <2>1. ASSUME ~purged, pc = "returned"
        PROVE  /\ Data(my.ret) = SubSeq(input, 1, Wanted) /\ my.err = Error /\ pos = Taken
               /\ {my.ret} \cap Live \subseteq frozen
    <3> USE Buffers
    <3>1. TypeInv /\ my \in Locals /\ my.ret \in 0..Len(mem) /\ input \in Inputs /\ pos \in 0..Len(input)
      BY SMTT(40) DEF IInv, TypeInv, Locals
    <3>2. /\ Size(my.ret) = Wanted /\ Holds(my.ret, Wanted) /\ pos = Taken /\ my.err = Error
          /\ Size(my.ret) > 0 => my.ret \in frozen
      BY <2>1 DEF IInv, QuietInv
    <3>3. Wanted \in Nat /\ Taken \in {Wanted, Wanted + 1} /\ Len(input) \in Nat
      BY <3>1, <3>2 DEF Taken
    <3>4. Wanted \in 0..Len(input)
      BY <3>1, <3>2, <3>3
    <3>5. Data(my.ret) \in Seq(Bytes) /\ input \in Seq(Bytes)
      <4>1. my.ret # null => my.ret \in 1..Len(mem)
        BY <3>1 DEF null
      <4>2. mem \in Seq(Seq(Bytes))
        BY <3>1 DEF TypeInv
      <4> QED BY <3>1, <4>1, <4>2, Memory, InputBytes, EmptySeq DEF Data
    <3>6. /\ SubSeq(input, 1, Wanted) \in Seq(Bytes) /\ Len(SubSeq(input, 1, Wanted)) = Wanted
          /\ \A k \in 1..Wanted : SubSeq(input, 1, Wanted)[k] = input[k]
      BY <3>3, <3>4, <3>5
    <3>7. Data(my.ret) = SubSeq(input, 1, Wanted)
      BY <3>2, <3>5, <3>6, SeqEqual DEF Holds, Size
    <3> QED BY <3>1, <3>2, <3>7
  <2>2. ~purged => /\ pc = "panicked" => my.err = "refused" \/ (fn = "size" /\ ~Allocatable(size))
                   /\ pc # "segv"
    BY DEF IInv, QuietInv
  <2> QED BY <2>1, <2>2, ImpliesTypeOK DEF ReturnsExpected
<1> QED BY <1>1, Invariance, PTL

(* Whenever a Purge comes, no byte is returned at a place that is not its   *)
(* own (buffer.go:115, 168).                                                *)
THEOREM BytesStayInPlace == Spec => []NeverMisplaced
<1>1. IInv => NeverMisplaced
  <2> SUFFICES ASSUME IInv, NEW k \in 1..Size(my.ret)
               PROVE  Data(my.ret)[k] \in {Zero} \cup {input[j] : j \in {k} \cap DOMAIN input}
    BY DEF NeverMisplaced
  <2> USE Buffers
  <2>1. TypeInv /\ my \in Locals /\ my.ret \in 0..Len(mem) /\ input \in Inputs
    <3>1. TypeInv /\ my \in Locals /\ input \in Inputs /\ my.ret <= Len(mem)
      BY DEF IInv, TypeInv
    <3> QED BY <3>1 DEF Locals
  <2>2. my.ret \in 1..Len(mem) /\ Data(my.ret) = mem[my.ret] /\ Size(my.ret) = Len(mem[my.ret])
    BY <2>1 DEF null
  <2>3. mem[my.ret][k] = Zero \/ (k <= Len(input) /\ mem[my.ret][k] = input[k])
    BY <2>2 DEF IInv, PlaceInv
  <2>4. k <= Len(input) => k \in DOMAIN input
    BY <2>1, InputBytes
  <2> QED BY <2>2, <2>3, <2>4
<1> QED BY <1>1, Invariance, PTL

(* On every way out, every buffer but the returned one is destroyed         *)
(* (buffer.go:81, 89, 118, 131-152, 190-204).                               *)
THEOREM ReadersDoNotLeak == Spec => []NoLeak
<1>1. IInv => NoLeak
  BY DEF IInv, OwnInv, NoLeak
<1> QED BY <1>1, Invariance, PTL

(* The memory of every buffer of a call is laid out soundly, for every page *)
(* size and width of int (core/buffer.go:55-71).                            *)
THEOREM ReadersLayoutSound == Spec => []LayoutSound
<1>1. IInv => LayoutSound
  <2> SUFFICES ASSUME IInv, NEW id \in Live PROVE Sound(Size(id))
    BY DEF LayoutSound
  <2> USE Buffers
  <2>1. TypeInv
    BY DEF IInv
  <2>2. id \in 1..Len(mem) /\ Size(id) = Len(mem[id]) /\ Size(id) \in Nat /\ Size(id) > 0
    BY <2>1
  <2>3. Size(id) \in 1..MaxInt /\ Allocatable(Size(id))
    BY <2>1, <2>2 DEF IInv, SizeInv
  <2> QED BY <2>3, LayoutIsSound
<1> QED BY <1>1, Invariance, PTL
=============================================================================
