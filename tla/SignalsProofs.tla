---------------------------- MODULE SignalsProofs ----------------------------
(***************************************************************************)
(* Any number of goroutines call CatchSignal as often as they like: the    *)
(* newest handler is never lost, exactly one handler runs before the       *)
(* process exits, and the signals of the last call stay subscribed to.     *)
(***************************************************************************)
EXTENDS Signals, TLAPS

(* A caller past create.Do has begun a call. *)
CallsInv == \A p \in Callers : pc[p] # "idle" => calls[p] > 0

(* The goroutine leaves its loop with the one handler it has executed, and  *)
(* only then exits.                                                         *)
LoopInv ==
  /\ loop # "exit" => ran = <<>>
  /\ loop = "exit" => Len(ran) = 1
  /\ status = "exited" => loop = "exit"

(* The subscription of the last call to return stands, or another call is   *)
(* between its Reset and its Notify, or the same caller has called again.   *)
SubscribedInv ==
  last # NoHandler =>
    \/ \E q \in Callers : pc[q] = "notify"
    \/ pc[last[1]] # "idle"
    \/ (IF wants[last[1]] = {} THEN Sigs ELSE wants[last[1]]) \subseteq subs

(* The inductive invariant: what the runs check, with what it rests on. *)
IInv == TypeOK /\ CallsInv /\ LoopInv /\ NewestHandlerKept /\ SubscribedInv

-----------------------------------------------------------------------------
(* The initial state satisfies the invariant. *)
LEMMA InitEstablishes == Init => IInv
BY SignalsAssumption
   DEF Init, IInv, TypeOK, CallsInv, LoopInv, NewestHandlerKept, SubscribedInv, Handlers

(* Every statement of CatchSignal keeps the invariant. *)
LEMMA CallerStep ==
  ASSUME IInv, status = "running", NEW p \in Callers, CatchSignal(p) \/ Call(p)
  PROVE  IInv'
<1> USE SignalsAssumption DEF IInv, TypeOK, Handlers, Goto, history
<1>1. CASE CatchSignal(p)
  <2> USE <1>1 DEF CatchSignal
  <2>1. TypeOK'
    OBVIOUS
  <2>2. CallsInv' /\ LoopInv' /\ NewestHandlerKept'
    BY DEF CallsInv, LoopInv, NewestHandlerKept
  <2>3. SubscribedInv'
    BY DEF SubscribedInv
  <2> QED BY <2>1, <2>2, <2>3
<1>2. CASE Send(p)
  <2> USE <1>2 DEF Send
  <2>1. <<p, calls[p]>> \in Handlers
    BY DEF CallsInv
  <2>2. TypeOK'
    BY <2>1
  <2>3. CallsInv' /\ LoopInv' /\ NewestHandlerKept'
    BY DEF CallsInv, LoopInv, NewestHandlerKept
  <2>4. SubscribedInv'
    BY DEF SubscribedInv
  <2> QED BY <2>2, <2>3, <2>4
<1>3. CASE Reset(p)
  <2> USE <1>3 DEF Reset
  <2>1. TypeOK'
    OBVIOUS
  <2>2. CallsInv' /\ LoopInv' /\ NewestHandlerKept'
    BY DEF CallsInv, LoopInv, NewestHandlerKept
  <2>3. SubscribedInv'
    BY DEF SubscribedInv
  <2> QED BY <2>1, <2>2, <2>3
<1>4. CASE Notify(p)
  <2> USE <1>4 DEF Notify
  <2>1. <<p, calls[p]>> \in Handlers
    BY DEF CallsInv
  <2>2. TypeOK'
    BY <2>1
  <2>3. CallsInv' /\ LoopInv' /\ NewestHandlerKept'
    BY DEF CallsInv, LoopInv, NewestHandlerKept
  <2>4. SubscribedInv'
    BY DEF SubscribedInv
  <2> QED BY <2>2, <2>3, <2>4
<1> QED BY <1>1, <1>2, <1>3, <1>4 DEF Call

(* So does a signal, whether it is relayed, dropped or deadly. *)
LEMMA SignalStep ==
  ASSUME IInv, status = "running", NEW s \in Sigs, Signal(s)
  PROVE  IInv'
<1> USE SignalsAssumption DEF IInv, TypeOK, Handlers, history, Signal
<1>1. listener' \in Seq(Sigs) /\ Len(listener') <= ListenCap
  <2>1. CASE Len(listener) < ListenCap /\ listener' = Append(listener, s)
    BY <2>1
  <2>2. CASE listener' = listener
    BY <2>2
  <2> QED BY <2>1, <2>2
<1>2. TypeOK'
  BY <1>1
<1>3. CallsInv' /\ LoopInv' /\ NewestHandlerKept' /\ SubscribedInv'
  BY DEF CallsInv, LoopInv, NewestHandlerKept, SubscribedInv
<1> QED BY <1>2, <1>3

(* And the signal goroutine. *)
LEMMA LoopStep ==
  ASSUME IInv, status = "running", Loop
  PROVE  IInv'
<1> USE SignalsAssumption DEF IInv, TypeOK, Handlers, history
<1>1. CASE UpdateHandler
  <2> USE <1>1 DEF UpdateHandler
  <2>1. PICK h \in Handlers : sigfunc = <<h>>
    OBVIOUS
  <2>2. handler' = h
    BY <2>1
  <2>3. TypeOK'
    BY <2>1, <2>2
  <2>4. NewestHandlerKept'
    BY <2>1, <2>2 DEF NewestHandlerKept
  <2>5. CallsInv' /\ LoopInv' /\ SubscribedInv'
    BY DEF CallsInv, LoopInv, SubscribedInv
  <2> QED BY <2>3, <2>4, <2>5
<1>2. CASE Handle
  <2> USE <1>2 DEF Handle
  <2>1. TypeOK'
    <3>1. listener' \in Seq(Sigs) /\ Len(listener') <= ListenCap
      OBVIOUS
    <3>2. ran' \in Seq(Handlers)
      <4> HIDE DEF Handlers
      <4>1. CASE handler \in Handlers /\ ran' = Append(ran, handler)
        BY <4>1
      <4>2. CASE ran' = ran
        BY <4>2
      <4> QED BY <4>1, <4>2
    <3> QED BY <3>1, <3>2
  <2>2. LoopInv'
    BY DEF LoopInv
  <2>3. CallsInv' /\ NewestHandlerKept' /\ SubscribedInv'
    BY DEF CallsInv, NewestHandlerKept, SubscribedInv
  <2> QED BY <2>1, <2>2, <2>3
<1>3. CASE Exit
  BY <1>3 DEF Exit, CallsInv, LoopInv, NewestHandlerKept, SubscribedInv
<1> QED BY <1>1, <1>2, <1>3 DEF Loop

(* The inductive invariant holds in every state of the signal machinery     *)
(* (signals.go:28-54).                                                      *)
THEOREM Invariance == Spec => []IInv
<1>1. Init => IInv
  BY InitEstablishes
<1>2. IInv /\ [Next]_vars => IInv'
  <2>1. ASSUME IInv, UNCHANGED vars PROVE IInv'
    BY <2>1 DEF vars, IInv, TypeOK, CallsInv, LoopInv, NewestHandlerKept, SubscribedInv
  <2> QED BY <2>1, CallerStep, SignalStep, LoopStep DEF Next
<1> QED BY <1>1, <1>2, PTL DEF Spec

-----------------------------------------------------------------------------
(* The newest handler is in the channel or in force, and exactly one has    *)
(* run when the goroutine exits (signals.go:36-41, 49).                     *)
THEOREM NewestHandlerRuns == Spec => []HandlersKept
<1>1. IInv => HandlersKept
  BY DEF IInv, LoopInv, HandlersKept, HandlerThenExit
<1> QED BY <1>1, Invariance, PTL

(* When no call is in progress, the signals of the last call to return are  *)
(* subscribed to, however the calls before it overlapped (signals.go:52-53).*)
THEOREM SubscriptionStands == Spec => []LastSubscribed
<1>1. IInv => LastSubscribed
  <2> SUFFICES ASSUME IInv, last # NoHandler, \A p \in Callers : pc[p] = "idle"
               PROVE  (IF wants[last[1]] = {} THEN Sigs ELSE wants[last[1]]) \subseteq subs
    BY DEF LastSubscribed
  <2>1. last[1] \in Callers
    BY DEF IInv, TypeOK, Handlers
  <2> QED BY <2>1 DEF IInv, SubscribedInv
<1> QED BY <1>1, Invariance, PTL
=============================================================================
