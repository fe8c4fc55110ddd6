------------------------------ MODULE MCReaders ------------------------------
EXTENDS Readers

(* Up to five bytes, more than two pages, and up to two delimiters. *)
MaxLen == 5
MCInputs == UNION {{[k \in 1..l |-> IF k \in d THEN Delim ELSE k] :
                      d \in {s \in SUBSET (1..l) : Cardinality(s) <= 2}} : l \in 0..MaxLen}
MCSizes == {0, 1, 3, 4, 10, MaxInt - 1, MaxInt}
=============================================================================
