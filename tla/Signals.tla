------------------------------- MODULE Signals -------------------------------
(***************************************************************************)
(* CatchSignal (signals.go): callers hand a handler to the one signal      *)
(* goroutine through a channel of capacity 1 and then subscribe to the     *)
(* signals; the goroutine selects between new handlers and caught signals, *)
(* runs the handler, wipes the session and exits.                          *)
(*                                                                         *)
(* External, as signals.go uses it: os/signal.  Notify adds the signals to *)
(* the channel's subscription (no signals at all means every signal),      *)
(* Reset cancels every subscription, and a delivery never blocks: it is    *)
(* dropped when the channel is full.  A signal nobody has subscribed to    *)
(* has its default effect and terminates the process.  core.Exit is one    *)
(* step here; Session models it.                                           *)
(***************************************************************************)
EXTENDS Naturals, Sequences

CONSTANTS
  Callers,   \* goroutines that call CatchSignal
  Sigs,      \* signals whose default effect is to terminate
  Wanted,    \* the sets of signals a caller passes
  MaxCalls,  \* bound on the calls of each caller
  ListenCap, \* capacity of listener
  NoHandler  \* the nil func

ASSUME SignalsAssumption ==
  /\ Wanted \subseteq SUBSET Sigs
  /\ MaxCalls \in Nat /\ ListenCap \in Nat
  /\ NoHandler \notin (Callers \X (1..MaxCalls))

(* The handler of a call is named after the call. *)
Handlers == Callers \X (1..MaxCalls)

VARIABLES
  sigfunc,  \* channel of handlers, capacity 1
  listener, \* channel of caught signals
  subs,     \* signals relayed to listener
  handler,  \* local variable of the signal goroutine
  loop,     \* "none" before the first call, else what the goroutine does
  pc,       \* next statement of each caller
  wants,    \* signals argument of each caller's current call
  calls,    \* calls begun by each caller
  sent,     \* handler last put into sigfunc (history)
  last,     \* handler of the last call that returned (history)
  ran,      \* handlers executed (history)
  status    \* of the process

vars == <<sigfunc, listener, subs, handler, loop, pc, wants, calls, sent, last,
          ran, status>>

history == <<sent, last, ran>>

Init ==
  /\ sigfunc = <<>> /\ listener = <<>> /\ subs = {}
  /\ handler = NoHandler /\ loop = "none"
  /\ pc = [p \in Callers |-> "idle"]
  /\ wants = [p \in Callers |-> {}]
  /\ calls = [p \in Callers |-> 0]
  /\ sent = NoHandler /\ last = NoHandler /\ ran = <<>>
  /\ status = "running"

Goto(p, l) == pc' = [pc EXCEPT ![p] = l]

(* create.Do: the first caller starts the goroutine, the others wait for it. *)
CatchSignal(p) ==
  /\ pc[p] = "idle" /\ calls[p] < MaxCalls
  /\ \E w \in Wanted : wants' = [wants EXCEPT ![p] = w]
  /\ calls' = [calls EXCEPT ![p] = @ + 1]
  /\ loop' = IF loop = "none" THEN "select" ELSE loop
  /\ Goto(p, "send")
  /\ UNCHANGED <<sigfunc, listener, subs, handler, history, status>>

(* Faulty variant: the handler is dropped when the channel is full. *)
SendDrops(p) ==
  /\ pc[p] = "send"
  /\ sigfunc' = IF sigfunc = <<>> THEN <<<<p, calls[p]>>>> ELSE sigfunc
  /\ sent' = <<p, calls[p]>>
  /\ Goto(p, "reset")
  /\ UNCHANGED <<listener, subs, handler, loop, wants, calls, last, ran, status>>

(* sigfunc <- f blocks while the channel is full. *)
Send(p) ==
  /\ pc[p] = "send" /\ sigfunc = <<>>
  /\ sigfunc' = <<<<p, calls[p]>>>>
  /\ sent' = <<p, calls[p]>>
  /\ Goto(p, "reset")
  /\ UNCHANGED <<listener, subs, handler, loop, wants, calls, last, ran, status>>

(* signal.Reset() *)
Reset(p) ==
  /\ pc[p] = "reset"
  /\ subs' = {}
  /\ Goto(p, "notify")
  /\ UNCHANGED <<sigfunc, listener, handler, loop, wants, calls, history, status>>

(* Faulty variant: no signals means no signal. *)
NotifyLiteral(p) ==
  /\ pc[p] = "notify"
  /\ subs' = subs \cup wants[p]
  /\ last' = <<p, calls[p]>>
  /\ Goto(p, "idle")
  /\ UNCHANGED <<sigfunc, listener, handler, loop, wants, calls, sent, ran, status>>

(* signal.Notify(listener, signals...), and CatchSignal returns. *)
Notify(p) ==
  /\ pc[p] = "notify"
  /\ subs' = subs \cup (IF wants[p] = {} THEN Sigs ELSE wants[p])
  /\ last' = <<p, calls[p]>>
  /\ Goto(p, "idle")
  /\ UNCHANGED <<sigfunc, listener, handler, loop, wants, calls, sent, ran, status>>

(* A signal reaches the process. *)
Signal(s) ==
  /\ \/ /\ s \in subs /\ Len(listener) < ListenCap
        /\ listener' = Append(listener, s)
        /\ UNCHANGED status
     \/ s \in subs /\ Len(listener) = ListenCap /\ UNCHANGED <<listener, status>>
     \/ s \notin subs /\ status' = "killed" /\ UNCHANGED listener
  /\ UNCHANGED <<sigfunc, subs, handler, loop, pc, wants, calls, history>>

(* Faulty variant: the channel is not drained. *)
UpdateHandlerKeeps ==
  /\ loop = "select" /\ sigfunc # <<>>
  /\ handler' = Head(sigfunc)
  /\ UNCHANGED <<sigfunc, listener, subs, loop, pc, wants, calls, history, status>>

(* case handler = <-sigfunc *)
UpdateHandler ==
  /\ loop = "select" /\ sigfunc # <<>>
  /\ handler' = Head(sigfunc)
  /\ sigfunc' = <<>>
  /\ UNCHANGED <<listener, subs, loop, pc, wants, calls, history, status>>

(* case signal := <-listener; calling a nil func is a runtime panic. *)
Handle ==
  /\ loop = "select" /\ listener # <<>>
  /\ listener' = Tail(listener)
  /\ \/ /\ handler # NoHandler
        /\ ran' = Append(ran, handler)
        /\ loop' = "exit"
        /\ UNCHANGED status
     \/ handler = NoHandler /\ status' = "crashed" /\ UNCHANGED <<ran, loop>>
  /\ UNCHANGED <<sigfunc, subs, handler, pc, wants, calls, sent, last>>

(* Faulty variant: the goroutine goes back to its loop. *)
ExitNot ==
  /\ loop = "exit"
  /\ loop' = "select"
  /\ UNCHANGED <<sigfunc, listener, subs, handler, pc, wants, calls, history, status>>

(* core.Exit(1) *)
Exit ==
  /\ loop = "exit"
  /\ status' = "exited"
  /\ UNCHANGED <<sigfunc, listener, subs, handler, loop, pc, wants, calls, history>>

Call(p) == Send(p) \/ Reset(p) \/ Notify(p)
Loop == UpdateHandler \/ Handle \/ Exit

Next ==
  /\ status = "running"
  /\ \/ \E p \in Callers : CatchSignal(p) \/ Call(p)
     \/ \E s \in Sigs : Signal(s)
     \/ Loop

Spec == Init /\ [][Next]_vars

(* Goroutines are scheduled; a select with several ready cases picks one at *)
(* random, so each that is ready again and again is taken.                  *)
FairSpec ==
  /\ Spec
  /\ \A p \in Callers : SF_vars(status = "running" /\ Call(p))
  /\ SF_vars(status = "running" /\ UpdateHandler)
  /\ SF_vars(status = "running" /\ Handle)
  /\ WF_vars(status = "running" /\ Exit)

-----------------------------------------------------------------------------
TypeOK ==
  /\ sigfunc \in {<<>>} \cup {<<h>> : h \in Handlers}
  /\ listener \in Seq(Sigs) /\ Len(listener) <= ListenCap
  /\ subs \in SUBSET Sigs
  /\ handler \in Handlers \cup {NoHandler}
  /\ loop \in {"none", "select", "exit"}
  /\ pc \in [Callers -> {"idle", "send", "reset", "notify"}]
  /\ wants \in [Callers -> SUBSET Sigs]
  /\ calls \in [Callers -> 0..MaxCalls]
  /\ sent \in Handlers \cup {NoHandler} /\ last \in Handlers \cup {NoHandler}
  /\ ran \in Seq(Handlers)
  /\ status \in {"running", "exited", "killed", "crashed"}

(* The order that the documentation of CatchSignal promises: an exit of the *)
(* signal goroutine comes after exactly one handler has been executed.      *)
HandlerThenExit == status = "exited" => Len(ran) = 1

(* However calls overlap, when none is in progress the signals asked for by *)
(* the last one to return are caught: no Reset comes after its Notify       *)
(* without a Notify of its own (signals.go:52-53).                          *)
LastSubscribed ==
  last # NoHandler /\ (\A p \in Callers : pc[p] = "idle") =>
    LET p == last[1] IN
      (IF wants[p] = {} THEN Sigs ELSE wants[p]) \subseteq subs

(* No handler is lost or overtaken on its way: the one handed over last is  *)
(* the one in the channel or the one in force, whatever signals and calls   *)
(* come in between (signals.go:38, 49).                                     *)
NewestHandlerKept ==
  sent # NoHandler => \/ sigfunc = <<sent>>
                      \/ sigfunc = <<>> /\ handler = sent

(* The handler that runs, once and before the exit, is the newest that the  *)
(* goroutine could know of (signals.go:36-41), in a well-typed state.       *)
HandlersKept == TypeOK /\ HandlerThenExit /\ NewestHandlerKept

(* A caught signal ends the process, also if the channel was full and some  *)
(* were dropped (signals.go:19, 39-41).                                     *)
SignalEndsProcess == listener # <<>> ~> status # "running"

(* CatchSignal returns although the channel of handlers has one slot only.  *)
CatchSignalReturns ==
  \A p \in Callers : pc[p] # "idle" ~> pc[p] = "idle" \/ status # "running"

(* "2. Interrupt handler is executed" (signals.go:26): a caught signal      *)
(* finds a handler.                                                         *)
HandlerIsThere == status # "crashed"
=============================================================================
