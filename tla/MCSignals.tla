----------------------------- MODULE MCSignals -----------------------------
(* Instances of Signals for TLC.                                           *)
EXTENDS Signals

CONSTANTS int, term

(* CatchInterrupt, or all signals. *)
IntOrAll == {{int}, {}}
All == {{}}
=============================================================================
