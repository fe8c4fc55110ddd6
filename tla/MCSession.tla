----------------------------- MODULE MCSession -----------------------------
(* Instances of Session for TLC: who calls what.                           *)
EXTENDS Session, TLC

CONSTANTS g1, g2

Program(first, second, n) ==
  [calls |-> [g \in Goroutines |-> IF g = g1 THEN first ELSE second], max |-> n]

(* Everything, by everyone; SafePanic is Purge with a panic behind it, and  *)
(* NewEnclaveRandom a NewBuffer and a Seal, so they get a smaller bound.    *)
Everything ==
  LET Some == Names \ {"SafePanic", "NewEnclaveRandom"}
      Rest == {"SafePanic", "NewEnclaveRandom", "Open", "Exit"}
  IN  {Program(Some, Some, 3), Program(Rest, Rest, 2)}

(* One goroutine seals its own buffer, the other purges. *)
SealPurge == {Program({"NewBuffer", "Seal"}, {"Purge"}, 3)}

(* Both goroutines make, open and purge enclaves. *)
Purgers == LET C == {"NewEnclave", "Open", "Destroy", "Purge"} IN Program(C, C, 2)

(* One goroutine owns the buffers and seals them. *)
OneSealer == Program({"NewBuffer", "Seal"}, {"NewEnclave", "NewEnclaveRandom", "Open"}, 4)

(* The threads of examples/deadlock/x01/poc.go open, compare and destroy    *)
(* what one of them has sealed at the start.                                *)
OpenEnclave == Program({"NewEnclave", "Open", "Destroy"}, {"Open", "Destroy"}, 4)

Fair == {Purgers, OneSealer, OpenEnclave}

Symmetry == Permutations(Goroutines)
=============================================================================
