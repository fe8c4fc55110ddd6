------------------------------ MODULE ByteQueue ------------------------------
(***************************************************************************)
(* What a Stream promises the goroutines that share it: an unbounded queue *)
(* of bytes whose operations are atomic.  "The last thing to be written to *)
(* the stream is the last thing that will be read back" (stream.go:63).    *)
(* Bytes are numbered in the order in which they were written.             *)
(***************************************************************************)
EXTENDS Naturals, Sequences

CONSTANTS Goroutines, MaxBytes, NoG

VARIABLES
  contents, \* the bytes stored
  written,  \* how many bytes have been written
  last      \* what the last step made a call return, if it did

vars == <<contents, written, last>>

Result(g, n, bytes, err) == [by |-> g, n |-> n, bytes |-> bytes, err |-> err]
NoResult == Result(NoG, 0, <<>>, "nil")

Init ==
  /\ contents = <<>>
  /\ written = 0
  /\ last = NoResult

Write(g) ==
  \E n \in 0..(MaxBytes - written) :
    /\ contents' = contents \o [k \in 1..n |-> written + k]
    /\ written' = written + n
    /\ last' = Result(g, n, <<>>, "nil")

(* Read and Next: EOF if and only if there is no data. *)
Take(g) ==
  /\ \/ contents = <<>> /\ last' = Result(g, 0, <<>>, "EOF")
                        /\ UNCHANGED contents
     \/ /\ contents # <<>>
        /\ \E n \in 0..Len(contents) :
             /\ last' = Result(g, n, SubSeq(contents, 1, n), "nil")
             /\ contents' = SubSeq(contents, n + 1, Len(contents))
  /\ UNCHANGED written

Size(g) ==
  /\ last' = Result(g, Len(contents), <<>>, "nil")
  /\ UNCHANGED <<contents, written>>

(* Something goes on that no caller can see. *)
Pause == last' = NoResult /\ UNCHANGED <<contents, written>>

Next == Pause \/ \E g \in Goroutines : Write(g) \/ Take(g) \/ Size(g)

Spec == Init /\ [][Next]_vars
=============================================================================
