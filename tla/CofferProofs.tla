---------------------------- MODULE CofferProofs ----------------------------
(***************************************************************************)
(* The value in a coffer survives any number of re-keyings, and View hands *)
(* out exactly that value until somebody destroys the coffer; if it is the *)
(* session key and the process is not at its Exit, also then.  For every   *)
(* group with an exclusive-or, every hash function and any number of       *)
(* goroutines.  A destroyed coffer is destroyed in all its parts but those *)
(* whose own destroy() failed.                                             *)
(***************************************************************************)
EXTENDS Coffer, TLAPS

(* XOR with the same string twice is nothing. *)
LEMMA XorCancels ==
  ASSUME NEW x \in Val, NEW y \in Val
  PROVE  Xor(y, Xor(x, y)) = x
<1>1. Xor(y, Xor(x, y)) = Xor(Xor(x, y), y)
  BY XorAssumption, ValAssumption
<1>2. Xor(Xor(x, y), y) = Xor(x, Xor(y, y))
  BY XorAssumption
<1>3. Xor(y, y) = Zero /\ Xor(x, Zero) = x
  BY XorAssumption
<1> QED BY <1>1, <1>2, <1>3

(* new_left XOR hash(new_right) is left XOR hash(right). *)
LEMMA XorRebinds ==
  ASSUME NEW l \in Val, NEW old \in Val, NEW new \in Val
  PROVE  Xor(new, Xor(l, Xor(old, new))) = Xor(old, l)
<1>1. Xor(l, old) \in Val /\ Xor(old, new) \in Val
  BY ValAssumption
<1>2. Xor(l, Xor(old, new)) = Xor(Xor(l, old), new)
  BY XorAssumption
<1>3. Xor(new, Xor(Xor(l, old), new)) = Xor(l, old)
  BY <1>1, XorCancels
<1>4. Xor(l, old) = Xor(old, l)
  BY XorAssumption
<1> QED BY <1>2, <1>3, <1>4

-----------------------------------------------------------------------------
(* Typing. *)

(* A store into a partition changes that one alone. *)
LEMMA PutTyped ==
  ASSUME TypeOK, NEW x \in Parts, NEW v \in Val \cup {Freed, Nil}, Put(x, v)
  PROVE  /\ part' \in [Parts -> Val \cup {Freed, Nil}]
         /\ part'[x] = v
         /\ \A y \in Parts : y # x => part'[y] = part[y]
BY DEF TypeOK, Put

(* The three names of the partitions. *)
LEMMA PartsTyped ==
  ASSUME TypeOK
  PROVE  /\ "left" \in Parts /\ "right" \in Parts /\ "rand" \in Parts
         /\ \A x \in Parts : part[x] \in Val \cup {Freed, Nil}
         /\ left \in Val \cup {Freed, Nil} /\ right \in Val \cup {Freed, Nil}
         /\ rand \in Val \cup {Freed, Nil}
BY DEF TypeOK, Parts, left, right, rand

(* What the statement at hand finds if it does not fault. *)
LEMMA NoFault ==
  ASSUME TypeOK, NEW p \in Procs, ~Faults(p)
  PROVE  /\ pc[p] \in {"bindLeft", "fillView"} => left \in Val
         /\ pc[p] \in {"scrambleLeft", "rebindLeft"} => left \in Val \cup {Nil}
         /\ pc[p] \in {"scrambleRight", "hashView", "scrambleRand", "xorRight", "rebindLeft"}
              => right \in Val \cup {Nil}
         /\ pc[p] = "scrambleRand" => rand \in Val \cup {Nil}
         /\ pc[p] = "xorRight" => right = Nil \/ (right \in Val /\ rand \in Val)
BY PartsTyped DEF Faults

LEMMA HashTyped == ASSUME NEW x \in Val \cup {Nil} PROVE HashOf(x) \in Val
BY ValAssumption DEF HashOf

(* destroy() has returned, and the goroutine goes on. *)
LEMMA ProceedTyped ==
  ASSUME TypeOK, NEW p \in Procs, Proceed(p)
  PROVE  /\ at' \in [Procs -> Parts] /\ pc' \in [Procs -> Labels]
         /\ lock' \in Procs \cup {NoG} /\ ended' \in BOOLEAN
BY DEF TypeOK, Proceed, Following, Goto, Labels, Parts

LEMMA FailTyped ==
  ASSUME TypeOK, NEW p \in Procs, Fail(p)
  PROVE  /\ at' \in [Procs -> Parts] /\ pc' \in [Procs -> Labels]
         /\ lock' \in Procs \cup {NoG} /\ ended' \in BOOLEAN
         /\ exits' \subseteq Procs /\ failed' \subseteq Parts
<1>1. failed' \subseteq Parts
  BY DEF TypeOK, Fail
<1>2. CASE p \notin exits
  BY <1>1, <1>2, ProceedTyped DEF Fail, TypeOK
<1>3. CASE p \in exits
  BY <1>1, <1>3 DEF Fail, TypeOK, Goto, Labels
<1> QED BY <1>2, <1>3

(* Typing needs no assumption on who destroys the coffer. *)
LEMMA TypeStep == ASSUME TypeOK, [Next]_vars PROVE TypeOK'
<1>1. CASE UNCHANGED vars
  BY <1>1 DEF vars, TypeOK
<1>2. ASSUME NEW p \in Procs, Begin(p) PROVE TypeOK'
  <2>1. ASSUME NEW l \in Labels, Enter(p, l) PROVE TypeOK'
    BY <2>1 DEF Enter, AfterExpiry, TypeOK, Goto, Labels, destroying
  <2> QED BY <1>2, <2>1 DEF Begin, InitBegin, ViewBegin, RekeyBegin, Labels
<1>3. ASSUME NEW p \in Procs, DestroyBegins(p) PROVE TypeOK'
  <2> USE DEF TypeOK, Goto, Labels, Parts
  <2>1. CASE DestroyBegin(p)
    BY <2>1 DEF DestroyBegin
  <2>2. CASE PurgeBegin(p)
    BY <2>2 DEF PurgeBegin
  <2>3. CASE ExitBegin(p)
    BY <2>3 DEF ExitBegin
  <2> QED BY <1>3, <2>1, <2>2, <2>3 DEF DestroyBegins
<1>4. ASSUME NEW p \in Procs, InitStep(p) \/ ViewStep(p) \/ RekeyStep(p) PROVE TypeOK'
  <2> DEFINE Rest == /\ busy' \subseteq Parts /\ at' \in [Procs -> Parts]
                     /\ crashed' \in BOOLEAN /\ ended' \in BOOLEAN
                     /\ exits' \subseteq Procs /\ failed' \subseteq Parts
                     /\ sessionKey' \in BOOLEAN
  <2>1. ASSUME UNCHANGED <<crashed, destroying>> PROVE Rest
    BY <2>1 DEF TypeOK, destroying
  <2>2. ASSUME NEW v \in Val \cup {Nil}, NEW x \in Parts, Put(x, v)
        PROVE  part' \in [Parts -> Val \cup {Freed, Nil}]
    BY <2>2, PutTyped
  <2>3. ASSUME NEW l \in Labels, Goto(p, l) PROVE pc' \in [Procs -> Labels]
    BY <2>3 DEF Goto, TypeOK
  <2>4. ASSUME NEW v \in Val PROVE [tmp EXCEPT ![p] = v] \in [Procs -> Val]
    BY DEF TypeOK
  <2>5. ASSUME Return(p) PROVE /\ pc' \in [Procs -> Labels] /\ lock' = NoG
                               /\ tmp' \in [Procs -> Val]
    BY <2>3, <2>4, <2>5, ValAssumption DEF Return, Labels
  <2> HIDE DEF Rest
  <2> USE PartsTyped
  <2>6. CASE InitScrambleLeft(p)
    <3>1. \A v \in Scrambled(left) : v \in Val \cup {Nil}
      BY DEF Scrambled
    <3>2. part' \in [Parts -> Val \cup {Freed, Nil}]
      BY <2>2, <2>6, <3>1 DEF InitScrambleLeft
    <3>3. pc' \in [Procs -> Labels] /\ Rest
      BY <2>1, <2>3, <2>6 DEF InitScrambleLeft, Labels
    <3> QED BY <2>6, <3>2, <3>3 DEF InitScrambleLeft, TypeOK, Rest
  <2>7. CASE InitScrambleRight(p)
    <3>1. \A v \in Scrambled(right) : v \in Val \cup {Nil} /\ HashOf(v) \in Val
      BY HashTyped DEF Scrambled
    <3>2. PICK v \in Scrambled(right) :
            Put("right", v) /\ tmp' = [tmp EXCEPT ![p] = HashOf(v)]
      BY <2>7 DEF InitScrambleRight
    <3>3. part' \in [Parts -> Val \cup {Freed, Nil}] /\ tmp' \in [Procs -> Val]
      BY <2>2, <2>4, <3>1, <3>2
    <3>4. pc' \in [Procs -> Labels] /\ Rest
      BY <2>1, <2>3, <2>7 DEF InitScrambleRight, Labels
    <3> QED BY <2>7, <3>3, <3>4 DEF InitScrambleRight, TypeOK, Rest
  <2>8. CASE InitBindLeft(p)
    <3>1. left \in Val /\ tmp[p] \in Val
      BY <2>8, NoFault DEF InitBindLeft, TypeOK
    <3>2. part' \in [Parts -> Val \cup {Freed, Nil}] /\ value' \in Val
      BY <2>2, <2>8, <3>1, ValAssumption DEF InitBindLeft
    <3>3. Rest
      BY <2>1, <2>8 DEF InitBindLeft
    <3> QED BY <2>5, <2>8, <3>2, <3>3 DEF InitBindLeft, TypeOK, Rest
  <2>9. CASE ViewHash(p)
    <3>1. tmp' \in [Procs -> Val]
      BY <2>4, <2>9, NoFault, HashTyped DEF ViewHash
    <3>2. pc' \in [Procs -> Labels] /\ Rest
      BY <2>1, <2>3, <2>9 DEF ViewHash, Labels
    <3> QED BY <2>9, <3>1, <3>2 DEF ViewHash, TypeOK, Rest
  <2>10. CASE ViewFill(p)
    <3>1. left \in Val /\ tmp[p] \in Val
      BY <2>10, NoFault DEF ViewFill, TypeOK
    <3>2. tmp' \in [Procs -> Val]
      BY <2>4, <2>10, <3>1, ValAssumption DEF ViewFill
    <3>3. pc' \in [Procs -> Labels] /\ Rest
      BY <2>1, <2>3, <2>10 DEF ViewFill, Labels
    <3> QED BY <2>10, <3>2, <3>3 DEF ViewFill, TypeOK, Rest
  <2>11. CASE ViewReturn(p)
    <3>1. Rest
      BY <2>1, <2>11 DEF ViewReturn
    <3> QED BY <2>5, <2>11, <3>1 DEF ViewReturn, TypeOK, Rest
  <2>12. CASE RekeyScramble(p)
    <3>1. \A v \in Scrambled(rand) : v \in Val \cup {Nil}
      BY DEF Scrambled
    <3>2. part' \in [Parts -> Val \cup {Freed, Nil}]
      BY <2>2, <2>12, <3>1 DEF RekeyScramble
    <3>3. tmp' \in [Procs -> Val]
      BY <2>4, <2>12, NoFault, HashTyped DEF RekeyScramble
    <3>4. pc' \in [Procs -> Labels] /\ Rest
      BY <2>1, <2>3, <2>12 DEF RekeyScramble, Labels
    <3> QED BY <2>12, <3>2, <3>3, <3>4 DEF RekeyScramble, TypeOK, Rest
  <2>13. CASE RekeyRight(p)
    <3>1. right = Nil \/ (right \in Val /\ rand \in Val)
      BY <2>13, NoFault DEF RekeyRight
    <3>2. (IF right = Nil THEN Nil ELSE Xor(right, rand)) \in Val \cup {Nil}
      BY <3>1, ValAssumption
    <3>3. part' \in [Parts -> Val \cup {Freed, Nil}]
      BY <2>2, <2>13, <3>2 DEF RekeyRight
    <3>4. pc' \in [Procs -> Labels] /\ Rest
      BY <2>1, <2>3, <2>13 DEF RekeyRight, Labels
    <3> QED BY <2>13, <3>3, <3>4 DEF RekeyRight, TypeOK, Rest
  <2>14. CASE RekeyLeft(p)
    <3>1. left \in Val \cup {Nil} /\ HashOf(right) \in Val /\ tmp[p] \in Val
      BY <2>14, NoFault, HashTyped DEF RekeyLeft, TypeOK
    <3>2. Rebound(left, tmp[p], HashOf(right)) \in Val \cup {Nil}
      BY <3>1, ValAssumption DEF Rebound
    <3>3. part' \in [Parts -> Val \cup {Freed, Nil}] /\ Rest
      BY <2>1, <2>2, <2>14, <3>2 DEF RekeyLeft
    <3> QED BY <2>5, <2>14, <3>3 DEF RekeyLeft, TypeOK, Rest
  <2> QED BY <1>4, <2>6, <2>7, <2>8, <2>9, <2>10, <2>11, <2>12, <2>13, <2>14
          DEF InitStep, ViewStep, RekeyStep
<1>5. ASSUME NEW p \in Procs, DestroyStep(p) PROVE TypeOK'
  <2> USE PartsTyped
  <2>1. at[p] \in Parts /\ part[at[p]] \in Val \cup {Freed, Nil} /\ Zero \in Val
    BY ValAssumption DEF TypeOK
  <2>2. part' \in [Parts -> Val \cup {Freed, Nil}]
    <3>1. ASSUME NEW v \in Val \cup {Freed, Nil}, Put(at[p], v)
          PROVE  part' \in [Parts -> Val \cup {Freed, Nil}]
      BY <2>1, <3>1, PutTyped
    <3>2. part' = part \/ \E v \in Val \cup {Freed, Nil} : Put(at[p], v)
      BY <1>5, <2>1 DEF DestroyStep, DestroyWipe, Wiping, DestroyFree, DestroyReset
    <3> QED BY <3>1, <3>2 DEF TypeOK
  <2>3. /\ at' \in [Procs -> Parts] /\ pc' \in [Procs -> Labels]
        /\ lock' \in Procs \cup {NoG} /\ ended' \in BOOLEAN
        /\ exits' \subseteq Procs /\ failed' \subseteq Parts
    <3>1. CASE Proceed(p) /\ UNCHANGED <<exits, failed>>
      BY <3>1, ProceedTyped DEF TypeOK
    <3>2. CASE Fail(p)
      BY <3>2, FailTyped
    <3>3. CASE (Goto(p, "free") \/ Goto(p, "reset")) /\ UNCHANGED <<lock, at, exits, ended, failed>>
      BY <3>3 DEF Goto, TypeOK, Labels
    <3> QED BY <1>5, <3>1, <3>2, <3>3
            DEF DestroyStep, DestroyWipe, Wiping, DestroyFree, DestroyReset
  <2>4. busy' \subseteq Parts /\ UNCHANGED <<tmp, crashed, value, sessionKey>>
    BY <1>5, <2>1 DEF DestroyStep, DestroyWipe, Wiping, DestroyFree, DestroyReset, TypeOK
  <2> QED BY <2>2, <2>3, <2>4 DEF TypeOK
<1>6. ASSUME NEW p \in Procs, Crash(p) PROVE TypeOK'
  BY <1>6 DEF Crash, TypeOK, destroying
<1> QED BY <1>1, <1>2, <1>3, <1>4, <1>5, <1>6 DEF Next, Step

LEMMA InitTyped == Init => TypeOK
<1> SUFFICES ASSUME Init PROVE TypeOK
  OBVIOUS
<1>1. PICK r \in Val : part = [x \in Parts |-> CASE x = "left" -> Xor(value, Hash(r))
                                            [] x = "right" -> r
                                            [] OTHER -> Zero]
  BY DEF Init
<1>2. value \in Val /\ Xor(value, Hash(r)) \in Val
  BY ValAssumption DEF Init
<1>3. part \in [Parts -> Val \cup {Freed, Nil}]
  BY <1>1, <1>2, ValAssumption DEF Parts
<1> QED BY <1>3, ValAssumption DEF Init, TypeOK, Labels, Parts

(* Every variable keeps its type, also when the coffer is destroyed under   *)
(* its users.                                                               *)
THEOREM TypeCorrect == Spec => []TypeOK
<1>1. Init => TypeOK
  BY InitTyped
<1>2. TypeOK /\ [Next]_vars => TypeOK'
  BY TypeStep
<1> QED BY <1>1, <1>2, PTL DEF Spec

-----------------------------------------------------------------------------
(* Facts about a state. *)

(* One user at a time. *)
LEMMA OneUser ==
  ASSUME ExclusionInv, NEW p \in Procs, NEW q \in Procs, Using(p), Using(q)
  PROVE  p = q
BY DEF ExclusionInv

(* A user of the session key finds it whole. *)
LEMMA KeyIntact ==
  ASSUME StepInv, failed = {}, sessionKey, exits = {}, NEW p \in Procs, Using(p)
  PROVE  Intact
BY DEF StepInv, ExpiryInv

(* An untouched coffer has all three partitions. *)
LEMMA IntactParts ==
  ASSUME StepInv, failed = {}, Intact
  PROVE  left \in Val /\ right \in Val /\ rand \in Val
BY PartsTyped DEF StepInv, ExpiryInv, left, right, rand

(* No statement of a method faults in an untouched coffer. *)
LEMMA IntactNoFault ==
  ASSUME StepInv, failed = {}, Intact, NEW p \in Procs
  PROVE  ~Faults(p)
<1>1. left \in Val /\ right \in Val /\ rand \in Val
  BY IntactParts
<1> QED BY <1>1, ValAssumption DEF Faults

-----------------------------------------------------------------------------
(* Steps of a method leave the destroyers alone. *)

(* No partition comes or goes. *)
SameShape ==
  \A x \in Parts : /\ part'[x] \in Val <=> part[x] \in Val
                   /\ part'[x] = Nil <=> part[x] = Nil
                   /\ part'[x] = Freed <=> part[x] = Freed

LEMMA PutShape ==
  ASSUME TypeOK, NEW x \in Parts, NEW v \in Val \cup {Nil}, Put(x, v),
         part[x] \in Val \cup {Nil}, v = Nil <=> part[x] = Nil
  PROVE  SameShape
<1>1. part'[x] = v /\ \A y \in Parts : y # x => part'[y] = part[y]
  BY PutTyped
<1> QED BY <1>1, ValAssumption DEF SameShape

LEMMA ShapeFacts ==
  ASSUME SameShape, UNCHANGED destroying
  PROVE  /\ Intact' <=> Intact
         /\ destroyed' <=> destroyed
         /\ \A x \in Parts : Gone(x)' <=> Gone(x)
BY DEF SameShape, destroying, Intact, destroyed, Gone, left, right, Parts

(* What a method's step has no part in. *)
Frame == /\ TypeOK' /\ ExclusionInv' /\ BufferLockInv' /\ ExpiryInv' /\ ProgressInv'
         /\ ExpiredIsAnError' /\ PurgeIsFinal'

LEMMA UserFrame ==
  ASSUME IInv, TypeOK', NEW p \in Procs, Using(p), SameShape,
         UNCHANGED <<crashed, destroying>>,
         NEW l, Goto(p, l),
         l \in {"idle", "scrambleRight", "bindLeft", "fillView", "viewed", "xorRight", "rebindLeft"},
         lock' = IF l = "idle" THEN NoG ELSE lock
  PROVE  Frame
<1>1. /\ Intact' <=> Intact
      /\ destroyed' <=> destroyed
      /\ \A x \in Parts : Gone(x)' <=> Gone(x)
  BY ShapeFacts
<1>2. /\ pc \in [Procs -> Labels] /\ pc' = [pc EXCEPT ![p] = l]
      /\ ~Destroying(p) /\ ~Destroying(p)' /\ (Using(p)' <=> l # "idle")
      /\ lock = p
  BY DEF IInv, StepInv, TypeOK, Goto, Using, Destroying, ExclusionInv
<1>3. \A q \in Procs : q # p => pc'[q] = pc[q] /\ ~Using(q)
  BY <1>2, OneUser DEF IInv, StepInv
<1>4. ExclusionInv'
  <2> SUFFICES ASSUME NEW q \in Procs
               PROVE  /\ Using(q)' => lock' = q
                      /\ (Destroying(q) /\ sessionKey /\ q \notin exits)' => (lock' = q \/ destroyed')
    BY DEF ExclusionInv
  <2>1. CASE q = p
    BY <1>2, <2>1
  <2>2. CASE q # p
    <3>1. ~Using(q)'
      BY <1>3, <2>2 DEF Using
    <3>2. (Destroying(q) /\ sessionKey /\ q \notin exits)' => destroyed
      BY <1>2, <1>3, <2>2 DEF IInv, StepInv, ExclusionInv, Destroying, destroying
    <3> QED BY <1>1, <3>1, <3>2
  <2> QED BY <2>1, <2>2
<1>5. BufferLockInv'
  <2>1. \A q \in Procs : pc[q] \in {"free", "reset"} <=> pc'[q] \in {"free", "reset"}
    BY <1>2, <1>3 DEF Destroying
  <2>2. \A q \in Procs : pc'[q] \in {"free", "reset"} => pc'[q] = pc[q]
    BY <1>2, <1>3 DEF Destroying
  <2>3. at' = at /\ busy' = busy /\ at \in [Procs -> Parts] /\ busy \subseteq Parts
    BY DEF destroying, IInv, StepInv, TypeOK
  <2> QED BY <2>1, <2>2, <2>3 DEF IInv, StepInv, BufferLockInv, SameShape
<1>6. ExpiryInv'
  <2>1. \A q \in Procs : Using(q)' => q = p
    BY <1>3 DEF Using
  <2>2. (Intact => busy = {} /\ \A x \in Parts : part[x] \in Val)
         => (Intact' => busy' = {} /\ \A x \in Parts : part'[x] \in Val)
    BY <1>1 DEF SameShape, destroying
  <2> QED BY <1>1, <2>1, <2>2 DEF IInv, StepInv, ExpiryInv, destroying
<1>7. ProgressInv'
  <2>1. \A q \in Procs : Destroying(q)' => Destroying(q)
    BY <1>2, <1>3 DEF Destroying
  <2> QED BY <1>1, <2>1 DEF IInv, StepInv, ProgressInv, destroying, Parts
<1>8. ExpiredIsAnError' /\ PurgeIsFinal'
  BY <1>1 DEF IInv, ExpiredIsAnError, PurgeIsFinal, destroying
<1> QED BY <1>4, <1>5, <1>6, <1>7, <1>8 DEF Frame

(* With the frame, only what a method establishes is left to show: in the   *)
(* middle of it for its own goroutine alone, and at the end for everyone.   *)
LEMMA UserStep ==
  ASSUME IInv, Frame, NEW p \in Procs, Using(p), Intact' <=> Intact, UNCHANGED destroying,
         \A q \in Procs : q # p => pc'[q] = pc[q],
         failed = {} /\ Intact =>
           /\ pc'[p] \in {"bindLeft", "fillView", "xorRight"} => tmp'[p] = Hash(right)'
           /\ pc'[p] \in {"hashView", "fillView", "viewed", "scrambleRand", "xorRight"} =>
                Contents' = value'
           /\ pc'[p] = "rebindLeft" => Xor(tmp[p], left)' = value'
           /\ pc'[p] = "viewed" => tmp'[p] = value'
           /\ lock' = NoG => Contents' = value'
  PROVE  IInv'
<1>1. \A q \in Procs : q # p => ~Using(q)'
  BY OneUser DEF IInv, StepInv, Using
<1>2. failed' = failed /\ sessionKey' = sessionKey /\ exits' = exits
  BY DEF destroying
<1>3. MethodInv'
  BY <1>1, <1>2 DEF MethodInv, Using
<1>4. StepInv'
  BY <1>3 DEF StepInv, Frame
<1>5. ViewIsValue'
  <2>1. failed' = {} /\ sessionKey' /\ exits' = {} => Intact'
    BY <1>2, KeyIntact DEF IInv
  <2> QED BY <1>1, <1>2, <2>1 DEF ViewIsValue, Using
<1>6. ValuePreserved'
  <2>1. (busy = {})' /\ ~destroyed' => Intact'
    BY <1>4 DEF StepInv, BufferLockInv, TypeOK, Intact, destroyed, left, Parts
  <2> QED BY <1>2, <2>1 DEF ValuePreserved
<1> QED BY <1>4, <1>5, <1>6 DEF IInv, Frame

-----------------------------------------------------------------------------
(* The steps of Init. *)
LEMMA InitSteps ==
  ASSUME IInv, TypeOK', NEW p \in Procs, InitStep(p)
  PROVE  IInv'
<1> USE PartsTyped, NoFault, ValAssumption DEF IInv, StepInv
<1>1. CASE InitScrambleLeft(p)
  <2>1. Using(p) /\ left \in Val \cup {Nil} /\ UNCHANGED <<crashed, destroying, lock>>
    BY <1>1 DEF InitScrambleLeft, Using
  <2>2. PICK v \in Scrambled(left) : Put("left", v)
    BY <1>1 DEF InitScrambleLeft
  <2>3. SameShape
    BY <2>1, <2>2, PutShape DEF Scrambled, left
  <2>4. Goto(p, "scrambleRight")
    BY <1>1 DEF InitScrambleLeft
  <2>5. Frame
    BY <2>1, <2>3, <2>4, UserFrame
  <2>6. (Intact' <=> Intact) /\ pc'[p] = "scrambleRight" /\ lock' = p
        /\ \A q \in Procs : q # p => pc'[q] = pc[q]
    BY <2>1, <2>3, <2>4, ShapeFacts DEF Goto, TypeOK, ExclusionInv
  <2> QED BY <2>1, <2>5, <2>6, UserStep, CofferAssumption
<1>2. CASE InitScrambleRight(p)
  <2>1. Using(p) /\ right \in Val \cup {Nil} /\ UNCHANGED <<crashed, destroying, lock>>
    BY <1>2 DEF InitScrambleRight, Using
  <2>2. PICK v \in Scrambled(right) :
          Put("right", v) /\ tmp' = [tmp EXCEPT ![p] = HashOf(v)]
    BY <1>2 DEF InitScrambleRight
  <2>3. SameShape /\ right' = v
    BY <2>1, <2>2, PutShape, PutTyped DEF Scrambled, right
  <2>4. Goto(p, "bindLeft")
    BY <1>2 DEF InitScrambleRight
  <2>5. Frame
    BY <2>1, <2>3, <2>4, UserFrame
  <2>6. (Intact' <=> Intact) /\ pc'[p] = "bindLeft" /\ lock' = p
        /\ \A q \in Procs : q # p => pc'[q] = pc[q]
    BY <2>1, <2>3, <2>4, ShapeFacts DEF Goto, TypeOK, ExclusionInv
  <2>7. failed = {} /\ Intact => tmp'[p] = Hash(right')
    BY <2>2, <2>3, IntactParts DEF Scrambled, HashOf, TypeOK
  <2> QED BY <2>1, <2>5, <2>6, <2>7, UserStep, CofferAssumption
<1>3. CASE InitBindLeft(p)
  <2>1. Using(p) /\ left \in Val /\ tmp[p] \in Val /\ UNCHANGED <<crashed, destroying>>
    BY <1>3 DEF InitBindLeft, Using, TypeOK
  <2>2. /\ Put("left", Xor(left, tmp[p])) /\ value' = left
        /\ Goto(p, "idle") /\ lock' = NoG
    BY <1>3 DEF InitBindLeft, Return
  <2>3. SameShape /\ left' = Xor(left, tmp[p]) /\ right' = right
    BY <2>1, <2>2, PutShape, PutTyped DEF left, right
  <2>4. Frame
    BY <2>1, <2>2, <2>3, UserFrame
  <2>5. (Intact' <=> Intact) /\ pc'[p] = "idle"
        /\ \A q \in Procs : q # p => pc'[q] = pc[q]
    BY <2>1, <2>2, <2>3, ShapeFacts DEF Goto, TypeOK
  <2>6. failed = {} /\ Intact => Contents' = value'
    <3> SUFFICES ASSUME failed = {}, Intact PROVE Contents' = value'
      OBVIOUS
    <3>1. right \in Val /\ tmp[p] = Hash(right)
      BY <1>3, IntactParts DEF MethodInv, InitBindLeft
    <3>2. Xor(Hash(right), Xor(left, Hash(right))) = left
      BY <2>1, <3>1, XorCancels
    <3> QED BY <2>2, <2>3, <3>1, <3>2 DEF Contents
  <2> QED BY <2>1, <2>4, <2>5, <2>6, UserStep
<1> QED BY <1>1, <1>2, <1>3 DEF InitStep

(* The steps of View. *)
LEMMA ViewSteps ==
  ASSUME IInv, TypeOK', NEW p \in Procs, ViewStep(p)
  PROVE  IInv'
<1> USE PartsTyped, NoFault DEF IInv, StepInv
<1>1. part' = part /\ SameShape /\ Using(p) /\ UNCHANGED <<crashed, destroying, value>>
  BY DEF ViewStep, ViewHash, ViewFill, ViewReturn, SameShape, Using
<1>2. left' = left /\ right' = right /\ Contents' = Contents /\ (Intact' <=> Intact)
  BY <1>1, ShapeFacts DEF left, right, Contents
<1>3. CASE ViewHash(p)
  <2>1. Goto(p, "fillView") /\ UNCHANGED lock /\ tmp' = [tmp EXCEPT ![p] = HashOf(right)]
    BY <1>3 DEF ViewHash
  <2>2. Frame
    BY <1>1, <2>1, UserFrame
  <2>3. pc'[p] = "fillView" /\ lock' = p /\ \A q \in Procs : q # p => pc'[q] = pc[q]
    BY <1>1, <2>1 DEF Goto, TypeOK, ExclusionInv
  <2>4. failed = {} /\ Intact => tmp'[p] = Hash(right') /\ Contents' = value'
    <3>1. failed = {} /\ Intact => right \in Val
      BY IntactParts
    <3>2. failed = {} /\ Intact => Contents = value
      BY <1>3 DEF ViewHash, MethodInv
    <3> QED BY <1>1, <1>2, <2>1, <3>1, <3>2, ValAssumption DEF HashOf, TypeOK
  <2> QED BY <1>1, <1>2, <2>2, <2>3, <2>4, UserStep, CofferAssumption
<1>4. CASE ViewFill(p)
  <2>1. Goto(p, "viewed") /\ UNCHANGED lock /\ tmp' = [tmp EXCEPT ![p] = Xor(tmp[p], left)]
    BY <1>4 DEF ViewFill
  <2>2. Frame
    BY <1>1, <2>1, UserFrame
  <2>3. pc'[p] = "viewed" /\ lock' = p /\ \A q \in Procs : q # p => pc'[q] = pc[q]
    BY <1>1, <2>1 DEF Goto, TypeOK, ExclusionInv
  <2>4. failed = {} /\ Intact => tmp'[p] = value' /\ Contents' = value'
    <3>1. failed = {} /\ Intact => tmp[p] = Hash(right) /\ Contents = value
      BY <1>4 DEF ViewFill, MethodInv
    <3> QED BY <1>1, <1>2, <2>1, <3>1 DEF TypeOK, Contents
  <2> QED BY <1>1, <1>2, <2>2, <2>3, <2>4, UserStep, CofferAssumption
<1>5. CASE ViewReturn(p)
  <2>1. Goto(p, "idle") /\ lock' = NoG
    BY <1>5 DEF ViewReturn, Return
  <2>2. Frame
    BY <1>1, <2>1, UserFrame
  <2>3. pc'[p] = "idle" /\ \A q \in Procs : q # p => pc'[q] = pc[q]
    BY <2>1 DEF Goto, TypeOK
  <2>4. failed = {} /\ Intact => Contents' = value'
    BY <1>1, <1>2, <1>5 DEF ViewReturn, MethodInv
  <2> QED BY <1>1, <1>2, <2>2, <2>3, <2>4, UserStep
<1> QED BY <1>3, <1>4, <1>5 DEF ViewStep

(* The steps of Rekey: between the second and the third the partitions do   *)
(* not encode the value, and the hash kept in tmp makes up for it.          *)
LEMMA RekeySteps ==
  ASSUME IInv, TypeOK', NEW p \in Procs, RekeyStep(p)
  PROVE  IInv'
<1> USE PartsTyped, NoFault, ValAssumption DEF IInv, StepInv
<1>1. CASE RekeyScramble(p)
  <2>1. Using(p) /\ rand \in Val \cup {Nil} /\ UNCHANGED <<crashed, destroying, value, lock>>
    BY <1>1 DEF RekeyScramble, Using
  <2>2. PICK v \in Scrambled(rand) : Put("rand", v)
    BY <1>1 DEF RekeyScramble
  <2>3. SameShape /\ left' = left /\ right' = right
    BY <2>1, <2>2, PutShape, PutTyped DEF Scrambled, left, right, rand
  <2>4. Goto(p, "xorRight") /\ tmp' = [tmp EXCEPT ![p] = HashOf(right)]
    BY <1>1 DEF RekeyScramble
  <2>5. Frame
    BY <2>1, <2>3, <2>4, UserFrame
  <2>6. (Intact' <=> Intact) /\ pc'[p] = "xorRight" /\ lock' = p
        /\ \A q \in Procs : q # p => pc'[q] = pc[q]
    BY <2>1, <2>3, <2>4, ShapeFacts DEF Goto, TypeOK, ExclusionInv
  <2>7. failed = {} /\ Intact => tmp'[p] = Hash(right') /\ Contents' = value'
    <3>1. failed = {} /\ Intact => right \in Val
      BY IntactParts
    <3>2. failed = {} /\ Intact => Contents = value
      BY <1>1 DEF RekeyScramble, MethodInv
    <3> QED BY <2>1, <2>3, <2>4, <3>1, <3>2 DEF HashOf, TypeOK, Contents
  <2> QED BY <2>1, <2>5, <2>6, <2>7, UserStep, CofferAssumption
<1>2. CASE RekeyRight(p)
  <2>1. /\ Using(p) /\ UNCHANGED <<crashed, destroying, value, lock, tmp>>
        /\ right = Nil \/ (right \in Val /\ rand \in Val)
    BY <1>2 DEF RekeyRight, Using
  <2>2. Put("right", IF right = Nil THEN Nil ELSE Xor(right, rand)) /\ Goto(p, "rebindLeft")
    BY <1>2 DEF RekeyRight
  <2>3. SameShape /\ left' = left
    BY <2>1, <2>2, PutShape, PutTyped DEF left, right
  <2>4. Frame
    BY <2>1, <2>2, <2>3, UserFrame
  <2>5. (Intact' <=> Intact) /\ pc'[p] = "rebindLeft" /\ lock' = p
        /\ \A q \in Procs : q # p => pc'[q] = pc[q]
    BY <2>1, <2>2, <2>3, ShapeFacts DEF Goto, TypeOK, ExclusionInv
  <2>6. failed = {} /\ Intact => Xor(tmp[p], left)' = value'
    <3>1. failed = {} /\ Intact => tmp[p] = Hash(right) /\ Contents = value
      BY <1>2 DEF RekeyRight, MethodInv
    <3> QED BY <2>1, <2>3, <3>1 DEF Contents
  <2> QED BY <2>1, <2>4, <2>5, <2>6, UserStep, CofferAssumption
<1>3. CASE RekeyLeft(p)
  <2>1. /\ Using(p) /\ left \in Val \cup {Nil} /\ UNCHANGED <<crashed, destroying, value>>
        /\ HashOf(right) \in Val /\ tmp[p] \in Val
    BY <1>3, HashTyped DEF RekeyLeft, Using, TypeOK
  <2>2. /\ Put("left", Rebound(left, tmp[p], HashOf(right)))
        /\ Goto(p, "idle") /\ lock' = NoG
    BY <1>3 DEF RekeyLeft, Return
  <2>3. /\ Rebound(left, tmp[p], HashOf(right)) \in Val \cup {Nil}
        /\ Rebound(left, tmp[p], HashOf(right)) = Nil <=> left = Nil
    BY <2>1 DEF Rebound
  <2>4. SameShape /\ left' = Rebound(left, tmp[p], HashOf(right)) /\ right' = right
    BY <2>1, <2>2, <2>3, PutShape, PutTyped DEF left, right
  <2>5. Frame
    BY <2>1, <2>2, <2>4, UserFrame
  <2>6. (Intact' <=> Intact) /\ pc'[p] = "idle"
        /\ \A q \in Procs : q # p => pc'[q] = pc[q]
    BY <2>1, <2>2, <2>4, ShapeFacts DEF Goto, TypeOK
  <2>7. failed = {} /\ Intact => Contents' = value'
    <3> SUFFICES ASSUME failed = {}, Intact PROVE Contents' = value'
      OBVIOUS
    <3>1. left \in Val /\ right \in Val /\ Xor(tmp[p], left) = value
      BY <1>3, IntactParts DEF MethodInv, RekeyLeft
    <3>2. Xor(Hash(right), Xor(left, Xor(tmp[p], Hash(right)))) = Xor(tmp[p], left)
      BY <2>1, <3>1, XorRebinds
    <3> QED BY <2>1, <2>4, <3>1, <3>2 DEF Contents, Rebound, HashOf
  <2> QED BY <2>1, <2>5, <2>6, <2>7, UserStep
<1> QED BY <1>1, <1>2, <1>3 DEF RekeyStep

-----------------------------------------------------------------------------
(* Entering a method, faulting in one, beginning to destroy the coffer. *)

LEMMA EnterStep ==
  ASSUME IInv, TypeOK', NEW p \in Procs,
         NEW l \in {"scrambleLeft", "hashView", "scrambleRand"}, Enter(p, l)
  PROVE  IInv'
<1> USE DEF IInv, StepInv
<1>1. /\ UNCHANGED <<part, tmp, crashed, value, destroying>> /\ lock = NoG
      /\ \A q \in Procs : ~Using(q)
      /\ pc[p] = "idle" /\ \A q \in Procs : q # p => pc'[q] = pc[q]
  BY CofferAssumption DEF Enter, Goto, ExclusionInv, TypeOK, AfterExpiry
<1>2. /\ left' = left /\ right' = right /\ Contents' = Contents
      /\ (Intact' <=> Intact) /\ (destroyed' <=> destroyed)
      /\ \A x \in Parts : Gone(x)' <=> Gone(x)
  BY <1>1 DEF left, right, Contents, Intact, destroyed, Gone, destroying
<1>3. /\ ~Destroying(p) /\ ~Destroying(p)' /\ pc'[p] \in {l, "idle", "stopped"}
  BY <1>1 DEF Enter, Goto, AfterExpiry, TypeOK, Destroying
<1>4. BufferLockInv'
  <2>1. \A q \in Procs : (pc[q] \in {"free", "reset"} \/ pc'[q] \in {"free", "reset"}) => pc'[q] = pc[q]
    BY <1>1, <1>3 DEF Destroying
  <2> QED BY <1>1, <2>1 DEF BufferLockInv, destroying
<1>5. ProgressInv'
  <2>1. \A q \in Procs : Destroying(q)' => Destroying(q)
    BY <1>1, <1>3 DEF Destroying
  <2> QED BY <1>1, <1>2, <2>1 DEF ProgressInv, destroying, Parts
<1>6. ExpiredIsAnError' /\ PurgeIsFinal'
  BY <1>1, <1>2 DEF ExpiredIsAnError, PurgeIsFinal, destroying
<1>7. CASE destroyed
  <2>1. pc'[p] \in {"idle", "stopped"} /\ lock' = NoG
    BY <1>1, <1>3, <1>7 DEF Enter, AfterExpiry, Goto, TypeOK
  <2>2. \A q \in Procs : ~Using(q)'
    BY <1>1, <2>1 DEF Using
  <2>3. ExclusionInv'
    BY <1>1, <1>2, <1>7, <2>2 DEF ExclusionInv
  <2>4. ExpiryInv' /\ MethodInv' /\ ViewIsValue' /\ ValuePreserved'
    BY <1>1, <1>2, <1>7, <2>2 DEF ExpiryInv, MethodInv, ViewIsValue, ValuePreserved, Using, destroying
  <2> QED BY <1>4, <1>5, <1>6, <2>3, <2>4
<1>8. CASE ~destroyed
  <2>1. lock' = p /\ pc'[p] = l /\ busy \cap {"left", "right"} = {}
    BY <1>1, <1>8 DEF Enter, Goto, TypeOK
  <2>2. \A q \in Procs : q # p => ~Using(q)'
    BY <1>1 DEF Using
  <2>3. Intact
    BY <1>8, <2>1, PartsTyped DEF BufferLockInv, destroyed, Intact, left
  <2>4. ExclusionInv'
    <3>1. \A q \in Procs : (Destroying(q) /\ sessionKey /\ q \notin exits)' => destroyed'
      BY <1>1, <1>2, <1>3, CofferAssumption DEF ExclusionInv, Destroying, destroying
    <3> QED BY <2>1, <2>2, <3>1 DEF ExclusionInv
  <2>5. ExpiryInv'
    BY <1>1, <1>2, <2>3 DEF ExpiryInv, destroying
  <2>6. failed = {} => Contents = value
    <3>1. failed = {} => busy = {}
      BY <2>3 DEF ExpiryInv
    <3> QED BY <1>1, <1>8, <3>1 DEF ValuePreserved
  <2>7. MethodInv' /\ ViewIsValue' /\ ValuePreserved'
    BY <1>1, <1>2, <2>1, <2>2, <2>6, CofferAssumption
       DEF MethodInv, ViewIsValue, ValuePreserved, Using, destroying
  <2> QED BY <1>4, <1>5, <1>6, <2>4, <2>5, <2>7
<1> QED BY <1>7, <1>8

(* A fault needs a partition that somebody destroys without the mutex. *)
LEMMA CrashStep ==
  ASSUME IInv, TypeOK', NEW p \in Procs, Crash(p)
  PROVE  IInv'
<1> USE DEF IInv, StepInv
<1>1. UNCHANGED <<part, lock, pc, tmp, value, destroying>> /\ Using(p)
  BY DEF Crash, Faults, Using
<1>2. ~(failed = {} /\ Intact)
  BY IntactNoFault DEF Crash
<1>3. ExpiredIsAnError'
  BY <1>1, <1>2, KeyIntact DEF ExpiredIsAnError, destroying
<1>4. ExclusionInv' /\ BufferLockInv' /\ ExpiryInv' /\ ProgressInv' /\ MethodInv'
  BY <1>1 DEF ExclusionInv, BufferLockInv, ExpiryInv, ProgressInv, MethodInv, Using, Destroying,
              Intact, destroyed, Gone, Contents, left, right, rand, destroying
<1>5. ValuePreserved' /\ ViewIsValue' /\ PurgeIsFinal'
  BY <1>1 DEF ValuePreserved, ViewIsValue, PurgeIsFinal, Intact, destroyed, Gone, Contents,
              left, right, destroying
<1> QED BY <1>3, <1>4, <1>5

(* Destroy, Purge and Exit begin with the left partition. *)
LEMMA DestroyBeginStep ==
  ASSUME IInv, TypeOK', NEW p \in Procs, DestroyBegins(p)
  PROVE  IInv'
<1> USE DEF IInv, StepInv
<1>1. /\ UNCHANGED <<part, busy, tmp, crashed, value, ended, failed, sessionKey>>
      /\ pc[p] \in {"idle", "panic"} /\ pc'[p] = "wipe" /\ at'[p] = "left"
      /\ \A q \in Procs : q # p => pc'[q] = pc[q] /\ at'[q] = at[q]
      /\ exits \subseteq exits' /\ (lock' = lock \/ (lock = NoG /\ lock' = p))
  BY DEF DestroyBegins, DestroyBegin, PurgeBegin, ExitBegin, Goto, TypeOK
<1>2. \A q \in Procs : (Using(q)' <=> Using(q)) /\ (Using(q) => q # p)
  BY <1>1 DEF Using
<1>3. /\ left' = left /\ right' = right /\ Contents' = Contents
      /\ (Intact' <=> Intact) /\ (destroyed' <=> destroyed)
      /\ \A x \in Parts : Gone(x)' <=> Gone(x)
  BY <1>1 DEF left, right, Contents, Intact, destroyed, Gone
<1>4. ExclusionInv'
  <2>1. sessionKey /\ p \notin exits' => lock' = p \/ destroyed
    BY DEF DestroyBegins, DestroyBegin, PurgeBegin, ExitBegin, TypeOK
  <2>2. \A q \in Procs : q # p /\ Destroying(q)' => Destroying(q)
    BY <1>1 DEF Destroying
  <2>3. \A q \in Procs : lock = q => lock' = q
    BY <1>1, CofferAssumption
  <2> QED BY <1>1, <1>2, <1>3, <2>1, <2>2, <2>3 DEF ExclusionInv
<1>5. BufferLockInv'
  <2>1. \A q \in Procs : pc[q] \in {"free", "reset"} \/ pc'[q] \in {"free", "reset"}
                            => pc'[q] = pc[q] /\ at'[q] = at[q]
    BY <1>1
  <2> QED BY <1>1, <2>1 DEF BufferLockInv
<1>6. ExpiryInv' /\ MethodInv'
  <2>1. \A q \in Procs : Using(q) => pc'[q] = pc[q]
    BY <1>1, <1>2
  <2>2. exits' = {} => exits = {}
    BY <1>1
  <2>3. ExpiryInv'
    BY <1>1, <1>2, <1>3, <2>2 DEF ExpiryInv
  <2>4. MethodInv'
    BY <1>1, <1>3 DEF MethodInv
  <2> QED BY <2>3, <2>4
<1>7. ProgressInv'
  <2>1. \A q \in Procs : q # p /\ Destroying(q)' => Destroying(q)
    BY <1>1 DEF Destroying
  <2> QED BY <1>1, <1>3, <2>1 DEF ProgressInv, Parts
<1>8. ValuePreserved' /\ ViewIsValue' /\ ExpiredIsAnError' /\ PurgeIsFinal'
  <2>1. lock' = NoG => lock = NoG
    BY <1>1
  <2>2. exits' = {} => exits = {}
    BY <1>1
  <2> QED BY <1>1, <1>3, <2>1, <2>2 DEF ValuePreserved, ViewIsValue, ExpiredIsAnError, PurgeIsFinal
<1> QED BY <1>4, <1>5, <1>6, <1>7, <1>8

-----------------------------------------------------------------------------
(* The steps of destroy(). *)

(* destroy() of the partition at hand has come to its end, with or without  *)
(* an error, ...                                                            *)
Returned(p) ==
  /\ (part'[at[p]] = Nil \/ at[p] \in failed')
  /\ part'[at[p]] \in Val \cup {Nil} /\ busy' = busy \ {at[p]}
  /\ \/ Proceed(p) /\ UNCHANGED exits
     \/ /\ p \in exits /\ exits' = exits \ {p} /\ failed' # {}
        /\ Goto(p, "panic") /\ UNCHANGED <<at, lock, ended>>

(* ... or is on its way: the data is wiped, or the pages are unmapped. *)
UnderWay(p) ==
  /\ UNCHANGED <<lock, at, exits, ended, failed>>
  /\ \/ /\ pc[p] = "wipe" /\ at[p] \notin busy /\ part[at[p]] # Nil
        /\ busy' = busy \cup {at[p]} /\ part'[at[p]] = Zero /\ Goto(p, "free")
     \/ /\ pc[p] = "free" /\ busy' = busy
        /\ part'[at[p]] = Freed /\ Goto(p, "reset")

LEMMA DestroyOutcomes ==
  ASSUME IInv, TypeOK', NEW p \in Procs, DestroyStep(p)
  PROVE  /\ Returned(p) \/ UnderWay(p)
         /\ \A y \in Parts : y # at[p] => part'[y] = part[y]
         /\ part[at[p]] = Nil => part'[at[p]] = Nil
         /\ at[p] \in Parts /\ Destroying(p) /\ UNCHANGED <<tmp, crashed, value, sessionKey>>
         /\ failed \subseteq failed' /\ exits' \subseteq exits
         /\ failed' = {} => exits' = exits
<1> USE DEF IInv, StepInv
<1>1. at[p] \in Parts /\ part[at[p]] \in Val \cup {Freed, Nil} /\ Zero \in Val
  BY ValAssumption DEF TypeOK
<1>2. ASSUME NEW v \in Val \cup {Freed, Nil}, Put(at[p], v)
      PROVE  part'[at[p]] = v /\ \A y \in Parts : y # at[p] => part'[y] = part[y]
  BY <1>1, <1>2, PutTyped
<1>3. ASSUME Fail(p), part'[at[p]] \in Val \cup {Nil}, busy' = busy \ {at[p]}
      PROVE  Returned(p)
  BY <1>1, <1>3 DEF Fail, Returned, Gone
<1>4. Fail(p) => failed' # {} /\ failed \subseteq failed' /\ exits' \subseteq exits
  BY DEF Fail
<1>5. CASE DestroyWipe(p)
  <2> USE <1>1 DEF Destroying
  <2>1. pc[p] = "wipe" /\ at[p] \notin busy /\ part[at[p]] # Freed
        /\ UNCHANGED <<tmp, crashed, value, sessionKey>>
    BY <1>5 DEF DestroyWipe, Wiping, BufferLockInv
  <2>2. CASE part[at[p]] = Nil
    BY <1>5, <2>1, <2>2 DEF DestroyWipe, Wiping, Returned, Gone, Fail
  <2>3. CASE part[at[p]] # Nil /\ Fail(p) /\ (\E v \in {part[at[p]], Zero} : Put(at[p], v)) /\ UNCHANGED busy
    <3>1. part'[at[p]] \in Val /\ \A y \in Parts : y # at[p] => part'[y] = part[y]
      BY <1>2, <2>1, <2>3
    <3> QED BY <1>3, <1>4, <2>1, <2>3, <3>1
  <2>4. CASE part[at[p]] # Nil /\ Put(at[p], Zero) /\ busy' = busy \cup {at[p]} /\ Goto(p, "free")
             /\ UNCHANGED <<lock, at, exits, ended, failed>>
    BY <1>2, <2>1, <2>4 DEF UnderWay
  <2> QED BY <1>5, <2>2, <2>3, <2>4 DEF DestroyWipe, Wiping
<1>6. CASE DestroyFree(p)
  <2> USE <1>1 DEF Destroying
  <2>1. pc[p] = "free" /\ part[at[p]] \in Val /\ UNCHANGED <<tmp, crashed, value, sessionKey>>
    BY <1>6 DEF DestroyFree, BufferLockInv
  <2>2. CASE Fail(p) /\ (\E v \in {part[at[p]], Zero} : Put(at[p], v)) /\ busy' = busy \ {at[p]}
    <3>1. part'[at[p]] \in Val /\ \A y \in Parts : y # at[p] => part'[y] = part[y]
      BY <1>2, <2>1, <2>2
    <3> QED BY <1>3, <1>4, <2>1, <2>2, <3>1, ValAssumption
  <2>3. CASE Put(at[p], Freed) /\ Goto(p, "reset") /\ UNCHANGED <<busy, lock, at, exits, ended, failed>>
    BY <1>2, <2>1, <2>3, ValAssumption DEF UnderWay
  <2> QED BY <1>6, <2>2, <2>3 DEF DestroyFree
<1>7. CASE DestroyReset(p)
  <2>1. Put(at[p], Nil) /\ busy' = busy \ {at[p]} /\ Proceed(p)
        /\ UNCHANGED <<exits, tmp, crashed, value, failed, sessionKey>> /\ Destroying(p)
    BY <1>7 DEF DestroyReset, Destroying
  <2>2. part'[at[p]] = Nil /\ \A y \in Parts : y # at[p] => part'[y] = part[y]
    BY <1>2, <2>1
  <2> QED BY <1>1, <2>1, <2>2 DEF Returned, Gone
<1> QED BY <1>5, <1>6, <1>7 DEF DestroyStep

(* Where the goroutine goes after a destroy(). *)
LEMMA ReturnedTo ==
  ASSUME TypeOK, NEW p \in Procs, Returned(p)
  PROVE  /\ \A q \in Procs : q # p => pc'[q] = pc[q] /\ at'[q] = at[q]
         /\ \/ /\ pc'[p] = "wipe" /\ at[p] # "rand" /\ at'[p] = Following(at[p])
               /\ UNCHANGED <<lock, ended, exits>>
            \/ /\ pc'[p] \in {"idle", "exited"} /\ at[p] = "rand" /\ ended' = TRUE
               /\ lock' = IF lock = p THEN NoG ELSE lock
            \/ pc'[p] = "panic" /\ UNCHANGED <<lock, ended>>
BY DEF TypeOK, Returned, Proceed, Goto

LEMMA UnderWayTo ==
  ASSUME TypeOK, NEW p \in Procs, UnderWay(p)
  PROVE  /\ \A q \in Procs : q # p => pc'[q] = pc[q]
         /\ pc'[p] = IF pc[p] = "wipe" THEN "free" ELSE "reset"
         /\ UNCHANGED <<lock, at, exits, ended, failed>>
BY DEF TypeOK, UnderWay, Goto

(* A destroy() of anything that has not failed leaves no coffer untouched. *)
LEMMA DestroySpoils ==
  ASSUME IInv, TypeOK', NEW p \in Procs, DestroyStep(p), failed' = {}
  PROVE  ~Intact'
<1> USE DEF IInv, StepInv
<1>1. failed = {} /\ Destroying(p) /\ at[p] \in Parts
  BY DestroyOutcomes
<1>2. CASE at[p] = "left"
  <2>1. CASE Returned(p)
    BY <1>1, <1>2, <2>1, ValAssumption DEF Returned, Gone, Intact, left
  <2>2. CASE UnderWay(p)
    BY <1>2, <2>2, ValAssumption DEF UnderWay, Intact, left, BufferLockInv
  <2> QED BY <2>1, <2>2, DestroyOutcomes
<1>3. CASE at[p] # "left"
  <2>1. part["left"] = Nil
    BY <1>1, <1>3 DEF ProgressInv, Gone
  <2>2. part'["left"] = part["left"]
    BY <1>3, DestroyOutcomes DEF Parts
  <2> QED BY <2>1, <2>2, ValAssumption DEF Intact, left
<1> QED BY <1>2, <1>3

(* The coffer is destroyed, left partition first. *)
LEMMA DestroySteps ==
  ASSUME IInv, TypeOK', NEW p \in Procs, DestroyStep(p)
  PROVE  IInv'
<1> USE DEF IInv, StepInv
<1>1. /\ Returned(p) \/ UnderWay(p)
      /\ \A y \in Parts : y # at[p] => part'[y] = part[y]
      /\ part[at[p]] = Nil => part'[at[p]] = Nil
      /\ at[p] \in Parts /\ Destroying(p) /\ UNCHANGED <<tmp, crashed, value, sessionKey>>
      /\ failed \subseteq failed' /\ exits' \subseteq exits
      /\ failed' = {} => exits' = exits /\ ~Intact'
  BY DestroyOutcomes, DestroySpoils
<1>2. /\ \A q \in Procs : q # p => pc'[q] = pc[q] /\ at'[q] = at[q]
      /\ ~Using(p) /\ ~Using(p)'
  BY <1>1, ReturnedTo, UnderWayTo DEF Using, Destroying
<1>3. \A x \in Parts : part[x] = Nil => part'[x] = Nil
  BY <1>1
<1>4. (destroyed => destroyed') /\ \A x \in Parts : Gone(x) => Gone(x)'
  BY <1>1, <1>3 DEF destroyed, left, right, Gone, Parts
<1>5. ExclusionInv'
  <2>1. \A q \in Procs : q # p /\ lock = q => lock' = q
    BY <1>1, ReturnedTo, UnderWayTo
  <2>2. (Destroying(p) /\ sessionKey /\ p \notin exits)' => (lock' = p \/ destroyed')
    <3> SUFFICES ASSUME Destroying(p)', sessionKey', p \notin exits' PROVE lock' = p \/ destroyed'
      OBVIOUS
    <3>1. lock' = lock /\ exits' = exits
      BY <1>1, ReturnedTo, UnderWayTo DEF Destroying
    <3> QED BY <1>1, <1>4, <3>1 DEF ExclusionInv
  <2>3. \A q \in Procs : q # p => (Destroying(q)' <=> Destroying(q)) /\ (Using(q)' <=> Using(q))
                                 /\ (q \notin exits' => q \notin exits)
    <3>1. \A q \in Procs : q # p /\ q \in exits => q \in exits'
      BY <1>1, UnderWayTo DEF Returned, UnderWay
    <3> QED BY <1>2, <3>1 DEF Destroying, Using
  <2> QED BY <1>1, <1>2, <1>4, <2>1, <2>2, <2>3 DEF ExclusionInv
<1>6. BufferLockInv'
  <2>1. \A q \in Procs : q # p /\ pc[q] \in {"free", "reset"} => at[q] # at[p] /\ at[q] \in busy
    <3>1. CASE pc[p] = "wipe"
      BY <1>1, <3>1, UnderWayTo
         DEF BufferLockInv, Returned, UnderWay, DestroyStep, DestroyWipe, DestroyFree, DestroyReset
    <3>2. CASE pc[p] # "wipe"
      BY <1>1, <3>2 DEF BufferLockInv, Destroying
    <3> QED BY <3>1, <3>2
  <2>2. CASE Returned(p)
    <3>1. pc'[p] \notin {"free", "reset"} /\ busy' = busy \ {at[p]} /\ part'[at[p]] \in Val \cup {Nil}
      BY <2>2, ReturnedTo DEF Returned
    <3> QED BY <1>1, <1>2, <2>1, <3>1, ValAssumption, PartsTyped DEF BufferLockInv, TypeOK
  <2>3. CASE UnderWay(p)
    <3>1. /\ pc'[p] \in {"free", "reset"} /\ at' = at /\ busy' = busy \cup {at[p]}
          /\ pc'[p] = "free" => part'[at[p]] = Zero
          /\ pc'[p] = "reset" => part'[at[p]] = Freed
          /\ part'[at[p]] \in Val \cup {Freed}
      BY <1>1, <2>3, UnderWayTo, ValAssumption DEF UnderWay, BufferLockInv
    <3> QED BY <1>1, <1>2, <2>1, <3>1, ValAssumption, PartsTyped DEF BufferLockInv, TypeOK
  <2> QED BY <1>1, <2>2, <2>3
<1>7. ExpiryInv' /\ MethodInv' /\ ValuePreserved' /\ ViewIsValue'
  <2>1. failed' = {} => ~Intact'
    BY <1>1
  <2>2. failed' = {} /\ sessionKey' /\ exits' = {} => \A q \in Procs : ~Using(q)'
    <3> SUFFICES ASSUME failed' = {}, sessionKey', exits' = {}, NEW q \in Procs, Using(q)'
                 PROVE  FALSE
      OBVIOUS
    <3>1. failed = {} /\ sessionKey /\ exits = {} /\ Using(q) /\ q # p
      BY <1>1, <1>2 DEF Using
    <3>2. lock = q /\ Intact /\ right \in Val
      BY <3>1, KeyIntact, IntactParts DEF ExclusionInv
    <3>3. ~destroyed
      BY <3>2, ValAssumption DEF destroyed, Intact
    <3> QED BY <1>1, <3>1, <3>2, <3>3 DEF ExclusionInv
  <2>3. ExpiryInv' /\ MethodInv'
    BY <2>1, <2>2 DEF ExpiryInv, MethodInv
  <2>4. ViewIsValue'
    BY <2>1, <2>2 DEF ViewIsValue, Using
  <2>5. ValuePreserved'
    <3>1. (busy = {})' /\ ~destroyed' => Intact'
      BY <1>6 DEF BufferLockInv, TypeOK, Intact, destroyed, left, Parts
    <3> QED BY <2>1, <3>1 DEF ValuePreserved
  <2> QED BY <2>3, <2>4, <2>5
<1>8. ProgressInv' /\ PurgeIsFinal'
  <2>1. \A q \in Procs : q # p /\ Destroying(q)' => Destroying(q) /\ at'[q] = at[q]
    BY <1>2 DEF Destroying
  <2>2. at[p] # "left" => Gone("left") /\ (at[p] = "rand" => Gone("right"))
    BY <1>1 DEF ProgressInv
  <2>3. CASE Returned(p)
    <3>1. Gone(at[p]) \/ part'[at[p]] = Nil \/ at[p] \in failed'
      BY <2>3 DEF Returned
    <3>2. /\ at[p] = "left" => Gone("left")'
          /\ at[p] = "right" => Gone("left")' /\ Gone("right")'
          /\ at[p] = "rand" => Gone("left")' /\ Gone("right")' /\ Gone("rand")'
      BY <1>4, <2>2, <2>3 DEF Gone, Parts, Returned
    <3>3. pc'[p] = "wipe" => at[p] # "rand" /\ at'[p] = Following(at[p])
      BY <2>3, ReturnedTo
    <3>4. Destroying(p)' => pc'[p] = "wipe"
      BY <2>3, ReturnedTo DEF Destroying
    <3>5. ended' => ended \/ at[p] = "rand"
      BY <2>3, ReturnedTo
    <3>6. ProgressInv'
      BY <1>1, <1>4, <2>1, <3>2, <3>3, <3>4 DEF ProgressInv, Following, Parts
    <3>7. PurgeIsFinal'
      BY <1>4, <3>2, <3>5 DEF PurgeIsFinal, Parts
    <3> QED BY <3>6, <3>7
  <2>4. CASE UnderWay(p)
    BY <1>1, <1>4, <2>1, <2>4, UnderWayTo DEF ProgressInv, PurgeIsFinal, Parts, Destroying
  <2> QED BY <1>1, <2>3, <2>4
<1>9. ExpiredIsAnError'
  BY <1>1 DEF ExpiredIsAnError
<1> QED BY <1>5, <1>6, <1>7, <1>8, <1>9

(* NewCoffer returns a coffer that holds its value. *)
LEMMA InitEstablishes == Init => IInv
<1> SUFFICES ASSUME Init PROVE IInv
  OBVIOUS
<1>1. TypeOK
  BY InitTyped
<1>2. PICK r \in Val : part = [x \in Parts |-> CASE x = "left" -> Xor(value, Hash(r))
                                            [] x = "right" -> r
                                            [] OTHER -> Zero]
  BY DEF Init
<1>3. left = Xor(value, Hash(r)) /\ right = r /\ rand = Zero /\ value \in Val
  BY <1>2 DEF left, right, rand, Parts, Init
<1>4. Contents = value
  BY <1>3, ValAssumption, XorCancels DEF Contents
<1>5. \A x \in Parts : part[x] \in Val
  BY <1>3, ValAssumption DEF Parts, left, right, rand
<1>6. \A p \in Procs : ~Using(p) /\ ~Destroying(p) /\ pc[p] = "idle"
  BY DEF Init, Using, Destroying
<1>7. StepInv
  BY <1>1, <1>5, <1>6, ValAssumption
     DEF Init, StepInv, ExclusionInv, BufferLockInv, ExpiryInv, ProgressInv, MethodInv
<1>8. ValuePreserved /\ ViewIsValue /\ ExpiredIsAnError /\ PurgeIsFinal
  BY <1>4, <1>6 DEF Init, ValuePreserved, ViewIsValue, ExpiredIsAnError, PurgeIsFinal
<1> QED BY <1>7, <1>8 DEF IInv

LEMMA Inductive ==
  ASSUME IInv, [Next]_vars PROVE IInv'
<1>1. TypeOK'
  BY TypeStep DEF IInv, StepInv
<1>2. CASE UNCHANGED vars
  <2>1. StepInv'
    BY <1>2 DEF vars, IInv, StepInv, TypeOK, ExclusionInv, BufferLockInv, ExpiryInv, ProgressInv,
                MethodInv, Using, Destroying, Gone, destroyed, Contents, Intact, left, right
  <2>2. ValuePreserved' /\ ViewIsValue' /\ ExpiredIsAnError' /\ PurgeIsFinal'
    BY <1>2 DEF vars, IInv, ValuePreserved, ViewIsValue, ExpiredIsAnError, PurgeIsFinal,
                Gone, destroyed, Contents, Intact, left, right
  <2> QED BY <2>1, <2>2 DEF IInv
<1>3. ASSUME NEW p \in Procs, Begin(p) PROVE IInv'
  BY <1>1, <1>3, EnterStep DEF Begin, InitBegin, ViewBegin, RekeyBegin
<1>4. CASE Next
  BY <1>1, <1>3, <1>4, DestroyBeginStep, InitSteps, ViewSteps, RekeySteps, DestroySteps, CrashStep
     DEF Next, Step
<1> QED BY <1>2, <1>4

-----------------------------------------------------------------------------
(* The strengthened invariant holds in every reachable state. *)
THEOREM Invariance == Spec => []IInv
<1>1. Init => IInv
  BY InitEstablishes
<1>2. IInv /\ [Next]_vars => IInv'
  BY Inductive
<1> QED BY <1>1, <1>2, PTL DEF Spec

(* Who holds which lock, what every statement finds, and how the partitions *)
(* and the hashes in local variables make up the value at every point of    *)
(* Init, View, Rekey and destroy().                                         *)
THEOREM StepsAgree == Spec => []StepInv
<1>1. IInv => StepInv
  BY DEF IInv
<1> QED BY <1>1, Invariance, PTL

(* Re-keying is invisible: whenever nobody is inside a method or a          *)
(* destroy(), the partitions encode the value that Init stored              *)
(* (core/coffer.go:99-126).                                                 *)
THEOREM RekeyPreserves == Spec => []ValuePreserved
<1>1. IInv => ValuePreserved
  BY DEF IInv
<1> QED BY <1>1, Invariance, PTL

(* View returns that value until somebody begins to destroy the coffer, and *)
(* for the session key also then, but for Exit (core/coffer.go:77-94).      *)
THEOREM ViewCorrect == Spec => []ViewIsValue
<1>1. IInv => ViewIsValue
  BY DEF IInv
<1> QED BY <1>1, Invariance, PTL

(* As long as Exit is not at its loop, no method touches the slice of a     *)
(* session key that is being destroyed or is destroyed: on an expired key   *)
(* it returns ErrCofferExpired (core/coffer.go:12).                         *)
THEOREM NoCrash == Spec => []ExpiredIsAnError
<1>1. IInv => ExpiredIsAnError
  BY DEF IInv
<1> QED BY <1>1, Invariance, PTL

(* After a Destroy or a Purge every partition is gone, or its own destroy() *)
(* failed: no error keeps another partition alive (core/coffer.go:131-162). *)
THEOREM DestroyCompletes == Spec => []PurgeIsFinal
<1>1. IInv => PurgeIsFinal
  BY DEF IInv
<1> QED BY <1>1, Invariance, PTL
=============================================================================
