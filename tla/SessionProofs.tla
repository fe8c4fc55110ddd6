---------------------------- MODULE SessionProofs ----------------------------
(***************************************************************************)
(* The session for any number of goroutines, any programs and any limit on *)
(* locked memory: no Buffer escapes Purge, there is one session key, a     *)
(* finished Purge leaves no copy of an old key, and Exit leaves only what  *)
(* was made after its snapshot.  For programs that keep to some rules,     *)
(* stated as hypotheses: an enclave holds what was to be sealed, no copy   *)
(* of the key outlives the call that took it, and Seal and Open return.    *)
(***************************************************************************)
EXTENDS Session, FiniteSetTheorems, TLAPS

(* Between getOrCreateKey and the end of the call that needs the key. *)
Working == {"getKey", "checkKey", "newKey", "initKey", "view", "newView", "fillView",
            "encrypt", "decrypt", "dropView", "opened"}

(* A call that has a buffer of its own goes on with it. *)
CallInv ==
  \A g \in Goroutines :
    /\ my[g].call = "Seal" => my[g].b \in Ids
    /\ my[g].call = "Open" /\ pc[g] \in Working => my[g].b \in Ids
    /\ pc[g] = "opened" => my[g].call = "Open"

(* Numbers are given out in order, so what anybody knows was made before. *)
FreshInv ==
  /\ key < next
  /\ \A i \in Ids : buf[i].live => i < next /\ buf[i].of < next
  /\ \A b \in handles : b < next
  /\ \A g \in Goroutines : /\ my[g].c < next /\ my[g].k < next /\ my[g].b < next
                           /\ my[g].missed <= next

(* The key and the coffers in use are coffers, the views are views of       *)
(* coffers, and what the program destroys is data.                          *)
KindInv ==
  /\ key # None => buf[key].kind = "coffer"
  /\ \A b \in handles : buf[b].kind = "data"
  /\ \A i \in Ids : buf[i].live /\ buf[i].kind = "view" /\ buf[i].of # None =>
       buf[buf[i].of].kind = "coffer"
  /\ \A g \in Goroutines :
       /\ my[g].c # None => buf[my[g].c].kind = "coffer"
       /\ my[g].k # None => buf[my[g].k].kind = "view"
       /\ my[g].b # None => buf[my[g].b].kind = "data"

(* Who holds which mutex where. *)
MutexInv ==
  /\ \A g \in Goroutines :
       pc[g] \in {"checkKey", "newKey", "initKey", "purgeKey", "lockKey", "flush", "purgeLoop"}
         => keyMtx = g
  /\ \A g \in Goroutines : pc[g] \in {"newView", "fillView"} => lock[my[g].c] = g
  /\ \A c \in Ids : rekeyer[c] = "rekeying" => lock[c] = Ticker

(* A new key is made only when the old one is gone. *)
KeyInv ==
  /\ SingleKey
  /\ \A g \in Goroutines : pc[g] \in {"newKey", "initKey"} => ~Live(key)

(* No Buffer is out of sight. *)
ListInv == \A i \in Ids : buf[i].live => i \in list \/ Purging(i)

(* Purge halts whoever uses the key before it takes its snapshot. *)
HaltInv ==
  \A g \in Goroutines : pc[g] \in {"flush", "purgeLoop"} /\ Live(key) => lock[key] = g

(* A copy of a key does not outlive the key, but in the snapshot of a Purge *)
(* that is about to destroy it.                                             *)
ViewInv ==
  ~Exiting =>
    /\ \A g \in Goroutines : pc[g] \in {"newView", "fillView"} => Live(my[g].c)
    /\ \A i \in Ids : buf[i].live /\ buf[i].kind = "view" =>
         /\ \A g \in Goroutines : pc[g] = "purgeLoop" => i \in my[g].snap
         /\ (\A g \in Goroutines : pc[g] # "purgeLoop") => Live(buf[i].of)

(* What Exit has seen it destroys, or a Purge does. *)
ExitInv ==
  \A g \in Goroutines : pc[g] \in {"exitLoop", "exited"} =>
    \A i \in Ids : buf[i].live =>
      \/ i >= my[g].missed \/ Purging(i)
      \/ pc[g] = "exitLoop" /\ i \in my[g].snap

(* The inductive invariant. *)
IInv == /\ TypeOK /\ CallInv /\ FreshInv /\ KindInv /\ MutexInv /\ KeyInv
        /\ ListInv /\ HaltInv /\ ViewInv /\ ExitInv

-----------------------------------------------------------------------------
Record == [live : BOOLEAN, kind : {"data", "view", "coffer"}, of : Coffers, data : Data]

Locals == [call : Names \cup {"none"}, c : Coffers, k : Coffers, b : Coffers, e : Enclave,
           snap : SUBSET Ids, panics : BOOLEAN, missed : Nat]

(* A goroutine that has nothing to remember. *)
LEMMA NothingLocal ==
  /\ NoLocals \in Locals
  /\ NoLocals.call = "none" /\ NoLocals.c = None /\ NoLocals.k = None /\ NoLocals.b = None
  /\ NoLocals.snap = {} /\ NoLocals.missed = 0
BY SessionAssumption DEF NoLocals, Locals, Coffers, None, Enclave, NoEnclave, Data, Ids

(* The list of numbers. *)
LEMMA Numbers ==
  /\ None \in Coffers /\ None \notin Ids /\ Ids \subseteq Coffers
  /\ \A i \in Ids : i \in Nat /\ i > 0
  /\ \A i \in Coffers : i \in Nat /\ (i # None => i \in Ids)
BY SessionAssumption DEF Coffers, None, Ids

(* The initial state satisfies the invariant. *)
LEMMA InitEstablishes == Init => IInv
<1> SUFFICES ASSUME Init PROVE IInv
  OBVIOUS
<1>1. Unused \in Record /\ Unused.live = FALSE
  BY Numbers DEF Unused, Record, Data
<1> USE SessionAssumption, Numbers, NothingLocal DEF Init
<1>2. TypeOK
  <2>1. buf \in [Ids -> Record] /\ my \in [Goroutines -> Locals]
    BY <1>1
  <2>2. calls \in 0..program.max
    OBVIOUS
  <2> QED BY <2>1, <2>2 DEF TypeOK, Record, Locals, Labels
<1>3. \A i \in Ids : ~buf[i].live
  BY <1>1
<1>4. CallInv /\ FreshInv /\ KindInv /\ MutexInv
  BY <1>3 DEF CallInv, FreshInv, KindInv, MutexInv, None
<1>5. KeyInv /\ ListInv /\ HaltInv /\ ViewInv /\ ExitInv
  BY <1>3 DEF KeyInv, SingleKey, LiveSet, ListInv, HaltInv, ViewInv, ExitInv, Live
<1> QED BY <1>2, <1>4, <1>5 DEF IInv

(* A crash changes nothing but the process. *)
LEMMA CrashStep == ASSUME IInv, Crash, UNCHANGED program PROVE IInv'
<1>1. /\ UNCHANGED <<buf, next, list, handles, enclaves, calls, key, keyMtx, lock, readers,
                     rekeyer, pc, my, program>>
      /\ status' = "crashed"
  BY DEF Crash, memory, client, locks
<1>2. TypeOK'
  BY <1>1 DEF IInv, TypeOK
<1>3. CallInv' /\ FreshInv' /\ KindInv' /\ MutexInv' /\ ListInv' /\ HaltInv'
  BY <1>1 DEF IInv, CallInv, FreshInv, KindInv, MutexInv, ListInv, Purging, HaltInv, Live
<1>4. KeyInv' /\ ViewInv' /\ ExitInv'
  BY <1>1 DEF IInv, KeyInv, SingleKey, LiveSet, ViewInv, ExitInv, Exiting, Purging, Live
<1> QED BY <1>2, <1>3, <1>4 DEF IInv

(* The labels at which other goroutines rely on g. *)
Special == {"checkKey", "newKey", "initKey", "purgeKey", "lockKey", "flush", "purgeLoop",
            "newView", "fillView", "exitCopy", "exitLoop", "exited"}

(* The buffers keep what they are, and no coffer is destroyed; what is not  *)
(* listed any more is destroyed.                                            *)
CoffersStay ==
  \A i \in Ids :
    /\ buf'[i].kind = buf[i].kind /\ buf'[i].of = buf[i].of
    /\ buf'[i].live => buf[i].live /\ (i \in list => i \in list')
    /\ buf[i].live /\ buf[i].kind = "coffer" => buf'[i].live

(* Nothing at all happens to the buffers. *)
LEMMA Untouched == UNCHANGED <<buf, list>> => CoffersStay
BY DEF CoffersStay

(* A statement of g alone, between labels where nobody relies on g. *)
LEMMA PrivateStep ==
  ASSUME IInv, TypeOK', CallInv', NEW g \in Goroutines, NEW l \in Labels \ Special, Goto(g, l),
         pc[g] \notin {"initKey", "purgeLoop", "exitCopy", "exitLoop", "exited"},
         \A h \in Goroutines \ {g} : my'[h] = my[h],
         my'[g].c \in {None, key, my[g].c}, my'[g].k \in {None, my[g].k},
         my'[g].b \in handles \cup {None, my[g].b}, my'[g].missed \in {0, my[g].missed},
         handles' \subseteq handles \cup {my[g].b},
         CoffersStay, UNCHANGED <<next, key, keyMtx, lock, rekeyer>>
  PROVE  IInv'
<1> USE Numbers
<1>1. /\ pc'[g] = l /\ l \notin Special
      /\ \A h \in Goroutines \ {g} : pc'[h] = pc[h] /\ my'[h] = my[h]
      /\ UNCHANGED <<next, key, keyMtx, lock, rekeyer>>
  BY DEF Goto, IInv, TypeOK
<1>2. /\ next \in Nat \ {0} /\ None \notin handles' /\ key \in Coffers
      /\ \A i \in Ids : buf[i].of \in Coffers
      /\ \A h \in Goroutines : my[h].c \in Coffers /\ my[h].k \in Coffers /\ my[h].b \in Coffers
      /\ handles \subseteq Ids /\ handles' \subseteq Ids
  BY DEF IInv, TypeOK
<1>3. /\ \A i \in Ids : buf'[i].kind = buf[i].kind /\ buf'[i].of = buf[i].of
                        /\ (buf'[i].live => buf[i].live)
      /\ \A i \in Ids : buf[i].live /\ buf[i].kind = "coffer" => buf'[i].live
  BY DEF CoffersStay
<1>4. FreshInv'
  BY <1>1, <1>2, <1>3 DEF IInv, FreshInv, None
<1>5. KindInv'
  BY <1>1, <1>2, <1>3 DEF IInv, KindInv
<1>6. MutexInv' /\ HaltInv'
  BY <1>1, <1>2, <1>3 DEF IInv, MutexInv, HaltInv, Live, Special
<1>7. KeyInv'
  BY <1>1, <1>2, <1>3 DEF IInv, KeyInv, SingleKey, LiveSet, Live, Special
<1>8. \A i \in Ids : Purging(i) => Purging(i)'
  BY <1>1 DEF Purging
<1>9. ListInv' /\ ExitInv'
  BY <1>1, <1>8 DEF IInv, ListInv, ExitInv, Special, CoffersStay
<1>10. ViewInv'
  <2> SUFFICES ASSUME ~Exiting' PROVE ViewInv'
    BY DEF ViewInv
  <2>1. ~Exiting
    BY <1>1 DEF Exiting
  <2>2. \A h \in Goroutines : pc'[h] \in {"newView", "fillView"} => Live(my[h].c)'
    BY <1>1, <1>2, <1>3, <2>1 DEF IInv, ViewInv, KindInv, Live, Special
  <2>3. ASSUME NEW i \in Ids, buf'[i].live, buf'[i].kind = "view"
        PROVE  /\ \A h \in Goroutines : pc'[h] = "purgeLoop" => i \in my'[h].snap
               /\ (\A h \in Goroutines : pc'[h] # "purgeLoop") => Live(buf[i].of)'
    <3>1. buf[i].live /\ buf[i].kind = "view" /\ buf'[i].of = buf[i].of
      BY <1>3, <2>3
    <3>2. Live(buf[i].of) => Live(buf[i].of)'
      BY <1>2, <1>3, <3>1 DEF Live, IInv, KindInv
    <3> QED BY <1>1, <2>1, <3>1, <3>2 DEF IInv, ViewInv, Special
  <2> QED BY <2>2, <2>3 DEF ViewInv
<1> QED BY <1>4, <1>5, <1>6, <1>7, <1>9, <1>10 DEF IInv

(* The type of the state, with names for its parts. *)
LEMMA Types ==
  TypeOK <=> /\ buf \in [Ids -> Record] /\ next \in Nat \ {0}
             /\ list \in SUBSET Ids /\ handles \in SUBSET Ids /\ enclaves \in SUBSET Enclave
             /\ key \in Coffers /\ keyMtx \in Goroutines \cup {NoG}
             /\ lock \in [Coffers -> Goroutines \cup {NoG, Ticker}]
             /\ readers \in [Ids -> SUBSET Goroutines]
             /\ rekeyer \in [Coffers -> {"none", "waiting", "rekeying", "stopped"}]
             /\ pc \in [Goroutines -> Labels] /\ my \in [Goroutines -> Locals]
             /\ calls \in 0..program.max
             /\ status \in {"running", "crashed", "exited"} /\ program \in Programs
BY DEF TypeOK, Record, Locals

(* Panic(g) where g has no key to install and purges nothing yet. *)
LEMMA PanicStep ==
  ASSUME IInv, NEW g \in Goroutines, Panic(g),
         pc[g] \notin {"initKey", "purgeLoop", "exitCopy", "exitLoop", "exited"},
         calls' \in 0..program.max, readers' \in [Ids -> SUBSET Goroutines],
         UNCHANGED <<buf, next, list, handles, enclaves, key, keyMtx, lock, rekeyer, status, program>>
  PROVE  IInv'
<1>0. TypeOK'
  <2>1. my \in [Goroutines -> Locals] /\ pc \in [Goroutines -> Labels]
    BY Types DEF IInv
  <2>2. my' \in [Goroutines -> Locals]
    <3>1. my[g] \in Locals
      BY <2>1
    <3>2. [my[g] EXCEPT !.panics = TRUE] \in Locals
      BY <3>1 DEF Locals
    <3> QED BY <2>1, <3>2 DEF Panic
  <2>3. pc' \in [Goroutines -> Labels]
    BY <2>1 DEF Panic, Goto, Labels
  <2> QED BY <2>2, <2>3 DEF IInv, TypeOK, Locals
<1>1. /\ my'[g].call = my[g].call /\ my'[g].c = my[g].c /\ my'[g].k = my[g].k
      /\ my'[g].b = my[g].b /\ my'[g].missed = my[g].missed
      /\ \A h \in Goroutines \ {g} : my'[h] = my[h]
  BY DEF Panic, IInv, TypeOK
<1>2. "purge" \in Labels \ Special /\ Goto(g, "purge")
  BY DEF Panic, Labels, Special
<1>3. CallInv'
  BY <1>1, <1>2 DEF IInv, CallInv, TypeOK, Goto, Working
<1>4. /\ my'[g].c \in {None, key, my[g].c} /\ my'[g].k \in {None, my[g].k}
      /\ my'[g].b \in handles \cup {None, my[g].b} /\ my'[g].missed \in {0, my[g].missed}
  BY <1>1
<1>5. handles' \subseteq handles \cup {my[g].b}
  OBVIOUS
<1> QED BY <1>0, <1>1, <1>2, <1>3, <1>4, <1>5, Untouched, PrivateStep

-----------------------------------------------------------------------------
(* NewBuffer gives out the next number. *)
LEMMA Allocated ==
  ASSUME IInv, NEW kind \in {"data", "view", "coffer"}, NEW coffer \in Coffers, NEW d \in Data,
         NewBuffer(kind, coffer, d)
  PROVE  /\ next \in Ids /\ ~buf[next].live /\ next' = next + 1 /\ list' = list \cup {next}
         /\ buf' \in [Ids -> Record]
         /\ buf'[next].live /\ buf'[next].kind = kind /\ buf'[next].of = coffer
         /\ \A i \in Ids \ {next} : buf'[i] = buf[i]
<1>1. buf \in [Ids -> Record] /\ next \in Ids
  BY DEF IInv, TypeOK, Record, NewBuffer
<1>2. [live |-> TRUE, kind |-> kind, of |-> coffer, data |-> d] \in Record
  BY DEF Record
<1>3. ~buf[next].live
  BY <1>1, Numbers DEF IInv, FreshInv
<1> QED BY <1>1, <1>2, <1>3 DEF NewBuffer, Add

(* The numbers and kinds after an allocation whose number at most g has. *)
LEMMA AllocationStep ==
  ASSUME IInv, TypeOK', NEW g \in Goroutines, UNCHANGED key,
         next \in Ids, ~buf[next].live, next' = next + 1, list' = list \cup {next},
         \A i \in Ids \ {next} : buf'[i] = buf[i],
         buf'[next].of \in {None, my[g].c, next},
         buf'[next].kind = "view" => buf'[next].of = my[g].c,
         \A h \in Goroutines \ {g} : pc'[h] = pc[h] /\ my'[h] = my[h],
         pc[g] \notin {"purgeLoop", "exitCopy", "exitLoop", "exited"},
         pc'[g] \notin {"purgeLoop", "exitCopy", "exitLoop", "exited"},
         my'[g].c \notin {None, my[g].c} => my'[g].c = next /\ buf'[next].kind = "coffer",
         my'[g].k \notin {None, my[g].k} => my'[g].k = next /\ buf'[next].kind = "view",
         my'[g].b \notin {None, my[g].b} => my'[g].b = next /\ buf'[next].kind = "data",
         my'[g].missed \in {0, my[g].missed},
         handles' = handles \/ (handles' = handles \cup {next} /\ buf'[next].kind = "data")
  PROVE  FreshInv' /\ KindInv' /\ ListInv' /\ ExitInv' /\ (Exiting => Exiting')
<1> USE Numbers
<1>1. /\ next \in Ids /\ next' = next + 1 /\ list' = list \cup {next} /\ ~buf[next].live
      /\ \A i \in Ids \ {next} : buf'[i] = buf[i]
  OBVIOUS
<1>2. next \in Nat \ {0} /\ my \in [Goroutines -> Locals] /\ my' \in [Goroutines -> Locals]
      /\ handles \subseteq Ids /\ handles' \subseteq Ids /\ key \in Coffers
      /\ \A i \in Ids : buf[i].of \in Coffers
  BY DEF IInv, TypeOK, Locals
<1>3. \A h \in Goroutines : /\ my[h].c \in Nat /\ my[h].k \in Nat /\ my[h].b \in Nat
                            /\ my[h].missed \in Nat
  BY <1>2 DEF Locals
<1>4. FreshInv'
  BY <1>1, <1>2, <1>3 DEF IInv, FreshInv, None
<1>5. KindInv'
  <2>1. \A h \in Goroutines : my[h].c # next /\ my[h].k # next /\ my[h].b # next
    BY <1>2, <1>3 DEF IInv, FreshInv
  <2>2. key # next /\ next \notin handles
    BY <1>2 DEF IInv, FreshInv
  <2>3. \A h \in Goroutines : my[h] \in Locals /\ my'[h] \in Locals
    BY <1>2
  <2>4. key # None => buf'[key].kind = "coffer"
    BY <1>1, <1>2, <2>2 DEF IInv, KindInv
  <2>5. \A b \in handles' : buf'[b].kind = "data"
    BY <1>1, <1>2, <2>2 DEF IInv, KindInv
  <2>6. \A h \in Goroutines :
          /\ my'[h].c # None => buf'[my'[h].c].kind = "coffer"
          /\ my'[h].k # None => buf'[my'[h].k].kind = "view"
          /\ my'[h].b # None => buf'[my'[h].b].kind = "data"
    BY <1>1, <2>1, <2>3 DEF IInv, KindInv, Locals
  <2>7. ASSUME NEW i \in Ids, buf'[i].live, buf'[i].kind = "view", buf'[i].of # None
        PROVE  buf'[buf'[i].of].kind = "coffer"
    <3>1. CASE i = next
      BY <1>1, <2>1, <2>3, <2>7, <3>1 DEF IInv, KindInv, Locals
    <3>2. CASE i # next
      <4>1. buf'[i] = buf[i] /\ buf[i].of < next /\ buf[i].of \in Ids
        BY <1>1, <1>2, <2>7, <3>2 DEF IInv, FreshInv
      <4> QED BY <1>1, <1>2, <2>7, <4>1 DEF IInv, KindInv
    <3> QED BY <3>1, <3>2
  <2> QED BY <2>4, <2>5, <2>6, <2>7 DEF KindInv
<1>6. \A i \in Ids : Purging(i) => Purging(i)'
  BY DEF Purging
<1>7. ListInv'
  BY <1>1, <1>6 DEF IInv, ListInv
<1>8. ExitInv'
  <2> SUFFICES ASSUME NEW h \in Goroutines, pc'[h] \in {"exitLoop", "exited"},
                      NEW i \in Ids, buf'[i].live
               PROVE  \/ i >= my'[h].missed \/ Purging(i)'
                      \/ pc'[h] = "exitLoop" /\ i \in my'[h].snap
    BY DEF ExitInv
  <2>1. h # g /\ pc[h] \in {"exitLoop", "exited"} /\ my'[h] = my[h] /\ pc'[h] = pc[h]
    OBVIOUS
  <2>2. CASE i = next
    BY <1>2, <1>3, <2>1, <2>2 DEF IInv, FreshInv
  <2>3. CASE i # next
    BY <1>1, <1>6, <2>1, <2>3 DEF IInv, ExitInv
  <2> QED BY <2>2, <2>3
<1>9. Exiting => Exiting'
  BY DEF Exiting
<1> QED BY <1>4, <1>5, <1>7, <1>8, <1>9

(* A buffer of the program's, or of Open's. *)
LEMMA DataStep ==
  ASSUME IInv, TypeOK', CallInv', NEW g \in Goroutines, NEW d \in Data,
         NewBuffer("data", None, d), UNCHANGED <<key, keyMtx, lock, rekeyer>>,
         pc[g] \notin Special, pc'[g] \notin Special,
         \A h \in Goroutines \ {g} : pc'[h] = pc[h] /\ my'[h] = my[h],
         my'[g].c \in {None, my[g].c}, my'[g].k \in {None, my[g].k},
         my'[g].b \in {None, my[g].b, next}, my'[g].missed \in {0, my[g].missed},
         handles' \in {handles, handles \cup {next}}
  PROVE  IInv'
<1> USE Numbers
<1>1. /\ next \in Ids /\ ~buf[next].live /\ buf'[next].kind = "data" /\ buf'[next].of = None
      /\ next' = next + 1 /\ list' = list \cup {next}
      /\ \A i \in Ids \ {next} : buf'[i] = buf[i]
  BY Allocated
<1>2. FreshInv' /\ KindInv' /\ ListInv' /\ ExitInv' /\ (Exiting => Exiting')
  <2>1. /\ pc[g] \notin {"purgeLoop", "exitCopy", "exitLoop", "exited"}
        /\ pc'[g] \notin {"purgeLoop", "exitCopy", "exitLoop", "exited"}
    BY DEF Special
  <2>2. my'[g].b \notin {None, my[g].b} => my'[g].b = next
    OBVIOUS
  <2>3. handles' = handles \/ handles' = handles \cup {next}
    OBVIOUS
  <2>4. /\ my'[g].c \in {None, my[g].c} /\ my'[g].k \in {None, my[g].k}
        /\ UNCHANGED key
    OBVIOUS
  <2> QED BY <1>1, <2>1, <2>2, <2>3, <2>4, AllocationStep
<1>3. \A i \in Coffers : i # next => (Live(i) <=> Live(i)')
  BY <1>1 DEF Live
<1>4. key \in Coffers /\ key # next /\ \A h \in Goroutines : my[h].c \in Coffers /\ my[h].c # next
  BY DEF IInv, TypeOK, FreshInv
<1>5. MutexInv' /\ HaltInv'
  BY <1>3, <1>4 DEF IInv, MutexInv, HaltInv, Special
<1>6. KeyInv'
  BY <1>1, <1>3, <1>4 DEF IInv, KeyInv, SingleKey, LiveSet, Special
<1>7. ViewInv'
  <2> SUFFICES ASSUME ~Exiting, ~Exiting' PROVE ViewInv'
    BY <1>2 DEF ViewInv
  <2>1. \A h \in Goroutines : pc'[h] \in {"newView", "fillView"} => Live(my[h].c)'
    BY <1>3, <1>4 DEF IInv, ViewInv, Special
  <2>2. ASSUME NEW i \in Ids, buf'[i].live, buf'[i].kind = "view"
        PROVE  /\ \A h \in Goroutines : pc'[h] = "purgeLoop" => i \in my'[h].snap
               /\ (\A h \in Goroutines : pc'[h] # "purgeLoop") => Live(buf[i].of)'
    <3>1. i # next /\ buf[i].live /\ buf[i].kind = "view" /\ buf'[i].of = buf[i].of
          /\ buf[i].of \in Coffers
      BY <1>1, <2>2 DEF IInv, TypeOK
    <3>2. Live(buf[i].of) => Live(buf[i].of)'
      <4>1. Live(buf[i].of) => buf[i].of # next
        BY <1>1 DEF Live
      <4> QED BY <1>1, <3>1, <4>1 DEF Live
    <3> QED BY <3>1, <3>2 DEF IInv, ViewInv, Special
  <2> QED BY <2>1, <2>2 DEF ViewInv
<1> QED BY <1>2, <1>5, <1>6, <1>7 DEF IInv

-----------------------------------------------------------------------------
(* A call begins with what the program has in hand. *)
LEMMA BeginStep ==
  ASSUME IInv, UNCHANGED program, NEW g \in Goroutines, NEW name,
         NEW l \in {"getKey", "melt", "allocate", "destroy", "purge", "exit"},
         NEW locals \in Locals, Begin(g, name, l, locals), calls' \in 0..program.max,
         locals.c = None, locals.k = None, locals.b \in handles \cup {None}, locals.missed = 0,
         locals.call = "Seal" => locals.b # None,
         locals.call = "Open" => l = "allocate"
  PROVE  IInv'
<1> USE Numbers
<1>1. /\ pc[g] = "idle" /\ Goto(g, l) /\ my' = [my EXCEPT ![g] = locals]
      /\ UNCHANGED <<buf, next, list, handles, enclaves, key, keyMtx, lock, readers, rekeyer, status>>
  BY DEF Begin, memory, locks
<1>2. my \in [Goroutines -> Locals] /\ pc \in [Goroutines -> Labels] /\ l \in Labels \ Special
      /\ handles \subseteq Ids
  BY Types DEF IInv, Labels, Special
<1>3. my'[g] = locals /\ my' \in [Goroutines -> Locals]
      /\ \A h \in Goroutines \ {g} : my'[h] = my[h]
  BY <1>1, <1>2
<1>4. TypeOK'
  BY <1>1, <1>2, <1>3 DEF IInv, TypeOK, Locals, Goto
<1>5. CallInv'
  BY <1>1, <1>2, <1>3 DEF IInv, CallInv, Goto, Working
<1>6. CoffersStay
  BY <1>1, Untouched
<1> QED BY <1>1, <1>2, <1>3, <1>4, <1>5, <1>6, PrivateStep

(* The calls of the program. *)
LEMMA CallStep ==
  ASSUME IInv, UNCHANGED program, NEW g \in Goroutines, Call(g)
  PROVE  IInv'
<1> USE Numbers, SessionAssumption
<1>0. calls \in 0..program.max /\ program.max \in Nat /\ handles \subseteq Ids
      /\ readers \in [Ids -> SUBSET Goroutines]
      /\ pc \in [Goroutines -> Labels] /\ my \in [Goroutines -> Locals] /\ enclaves \subseteq Enclave
  BY Types DEF IInv
<1>1. Allocates => calls' \in 0..program.max
  BY <1>0 DEF Allocates
<1>2. CASE CallNewBuffer(g)
  <2>1. /\ pc[g] = "idle" /\ calls' \in 0..program.max
        /\ UNCHANGED <<enclaves, key, keyMtx, lock, readers, rekeyer, status>>
    BY <1>1, <1>2 DEF CallNewBuffer, locks
  <2>2. CASE NewBuffer("data", None, "plain") /\ handles' = handles \cup {next} /\ UNCHANGED <<pc, my>>
    <3>1. /\ next \in Ids /\ next' = next + 1 /\ list' = list \cup {next} /\ buf' \in [Ids -> Record]
      BY <2>2, Allocated DEF Data
    <3>2. TypeOK'
      BY <2>1, <2>2, <3>1 DEF IInv, TypeOK, Record
    <3>3. CallInv'
      BY <2>2 DEF IInv, CallInv
    <3> QED BY <2>1, <2>2, <3>2, <3>3, DataStep DEF Special, Data
  <2>3. CASE NewBufferPanics(g, "data") /\ UNCHANGED handles
    <3>1. Panic(g) /\ UNCHANGED <<buf, next, list, handles>>
      BY <2>3 DEF NewBufferPanics, memory
    <3> QED BY <1>0, <2>1, <3>1, PanicStep
  <2> QED BY <1>2, <2>2, <2>3 DEF CallNewBuffer
<1>3. CASE CallNewEnclave(g)
  <2> DEFINE locals == [NoLocals EXCEPT !.call = "NewEnclave"]
  <2>1. /\ locals \in Locals /\ locals.c = None /\ locals.k = None /\ locals.b = None
        /\ locals.missed = 0 /\ locals.call = "NewEnclave"
    BY NothingLocal DEF NoLocals, Locals, Names
  <2>2. Begin(g, "NewEnclave", "getKey", locals) /\ calls' \in 0..program.max
    BY <1>1, <1>3 DEF CallNewEnclave
  <2> HIDE DEF locals
  <2> QED BY <2>1, <2>2, BeginStep
<1>4. CASE CallNewEnclaveRandom(g)
  <2>1. /\ pc[g] = "idle" /\ calls' \in 0..program.max
        /\ UNCHANGED <<handles, enclaves, key, keyMtx, lock, readers, rekeyer, status>>
    BY <1>1, <1>4 DEF CallNewEnclaveRandom, locks
  <2>2. CASE /\ NewBuffer("data", None, "plain") /\ Goto(g, "sealRandom")
             /\ my' = [my EXCEPT ![g] = [NoLocals EXCEPT !.call = "Seal", !.b = next]]
    <3> DEFINE locals == [NoLocals EXCEPT !.call = "Seal", !.b = next]
    <3>1. /\ next \in Ids /\ next' = next + 1 /\ list' = list \cup {next} /\ buf' \in [Ids -> Record]
      BY <2>2, Allocated DEF Data
    <3>2. /\ locals \in Locals /\ locals.c = None /\ locals.k = None /\ locals.b = next
          /\ locals.missed = 0 /\ locals.call = "Seal"
      BY <3>1, NothingLocal DEF NoLocals, Locals, Names
    <3>3. my' = [my EXCEPT ![g] = locals] /\ pc' = [pc EXCEPT ![g] = "sealRandom"]
      BY <2>2 DEF Goto
    <3> HIDE DEF locals
    <3>4. /\ my'[g] = locals /\ \A h \in Goroutines \ {g} : pc'[h] = pc[h] /\ my'[h] = my[h]
          /\ pc'[g] = "sealRandom" /\ my' \in [Goroutines -> Locals]
      BY <1>0, <3>2, <3>3
    <3>5. TypeOK'
      BY <1>0, <2>1, <3>1, <3>3, <3>4 DEF IInv, TypeOK, Record, Locals, Labels
    <3>6. CallInv'
      BY <3>1, <3>2, <3>4 DEF IInv, CallInv, Working
    <3>7. pc[g] \notin Special /\ pc'[g] \notin Special /\ "plain" \in Data
      BY <2>1, <3>4 DEF Special, Data
    <3> QED BY <2>1, <2>2, <3>2, <3>4, <3>5, <3>6, <3>7, DataStep
  <2>3. CASE NewBufferPanics(g, "data")
    <3>1. Panic(g) /\ UNCHANGED <<buf, next, list>>
      BY <2>3 DEF NewBufferPanics, memory
    <3> QED BY <1>0, <2>1, <3>1, PanicStep
  <2> QED BY <1>4, <2>2, <2>3 DEF CallNewEnclaveRandom
<1>5. CASE CallSeal(g)
  <2>1. PICK b \in handles :
          /\ Begin(g, "Seal", "melt", [NoLocals EXCEPT !.call = "Seal", !.b = b])
          /\ Allocates
    BY <1>5 DEF CallSeal
  <2> DEFINE locals == [NoLocals EXCEPT !.call = "Seal", !.b = b]
  <2>2. /\ locals \in Locals /\ locals.c = None /\ locals.k = None /\ locals.b = b /\ b # None
        /\ locals.missed = 0 /\ locals.call = "Seal"
    BY <1>0, NothingLocal DEF NoLocals, Locals, Names
  <2>3. Begin(g, "Seal", "melt", locals)
    BY <2>1
  <2> HIDE DEF locals
  <2> QED BY <1>1, <2>1, <2>2, <2>3, BeginStep
<1>6. CASE CallOpen(g)
  <2>1. PICK e \in enclaves :
          /\ Begin(g, "Open", "allocate", [NoLocals EXCEPT !.call = "Open", !.e = e])
          /\ Allocates
    BY <1>6 DEF CallOpen
  <2> DEFINE locals == [NoLocals EXCEPT !.call = "Open", !.e = e]
  <2>2. /\ locals \in Locals /\ locals.c = None /\ locals.k = None /\ locals.b = None
        /\ locals.missed = 0 /\ locals.call = "Open"
    BY <1>0, NothingLocal DEF NoLocals, Locals, Names
  <2>3. Begin(g, "Open", "allocate", locals)
    BY <2>1
  <2> HIDE DEF locals
  <2> QED BY <1>1, <2>1, <2>2, <2>3, BeginStep
<1>7. CASE CallDestroy(g)
  <2>1. PICK b \in handles :
          /\ Begin(g, "Destroy", "destroy", [NoLocals EXCEPT !.call = "Destroy", !.b = b])
          /\ UNCHANGED calls
    BY <1>7 DEF CallDestroy
  <2> DEFINE locals == [NoLocals EXCEPT !.call = "Destroy", !.b = b]
  <2>2. /\ locals \in Locals /\ locals.c = None /\ locals.k = None /\ locals.b = b
        /\ locals.missed = 0 /\ locals.call = "Destroy"
    BY <1>0, NothingLocal DEF NoLocals, Locals, Names
  <2>3. Begin(g, "Destroy", "destroy", locals)
    BY <2>1
  <2> HIDE DEF locals
  <2> QED BY <1>0, <2>1, <2>2, <2>3, BeginStep
<1>8. CASE CallPurge(g)
  <2> DEFINE locals == [NoLocals EXCEPT !.call = "Purge"]
  <2>1. /\ locals \in Locals /\ locals.c = None /\ locals.k = None /\ locals.b = None
        /\ locals.missed = 0 /\ locals.call = "Purge"
    BY NothingLocal DEF NoLocals, Locals, Names
  <2>2. Begin(g, "Purge", "purge", locals) /\ calls' \in 0..program.max
    BY <1>0, <1>8 DEF CallPurge
  <2> HIDE DEF locals
  <2> QED BY <2>1, <2>2, BeginStep
<1>9. CASE CallSafePanic(g)
  <2> DEFINE locals == [NoLocals EXCEPT !.call = "SafePanic", !.panics = TRUE]
  <2>1. /\ locals \in Locals /\ locals.c = None /\ locals.k = None /\ locals.b = None
        /\ locals.missed = 0 /\ locals.call = "SafePanic"
    BY NothingLocal DEF NoLocals, Locals, Names
  <2>2. Begin(g, "SafePanic", "purge", locals) /\ calls' \in 0..program.max
    BY <1>0, <1>9 DEF CallSafePanic
  <2> HIDE DEF locals
  <2> QED BY <2>1, <2>2, BeginStep
<1>10. CASE CallExit(g)
  <2> DEFINE locals == [NoLocals EXCEPT !.call = "Exit"]
  <2>1. /\ locals \in Locals /\ locals.c = None /\ locals.k = None /\ locals.b = None
        /\ locals.missed = 0 /\ locals.call = "Exit"
    BY NothingLocal DEF NoLocals, Locals, Names
  <2>2. Begin(g, "Exit", "exit", locals) /\ calls' \in 0..program.max
    BY <1>0, <1>10 DEF CallExit
  <2> HIDE DEF locals
  <2> QED BY <2>1, <2>2, BeginStep
<1> QED BY <1>2, <1>3, <1>4, <1>5, <1>6, <1>7, <1>8, <1>9, <1>10 DEF Call

-----------------------------------------------------------------------------
(* A statement of g that leaves the buffers alone: only locks and the key   *)
(* remain to be looked at.                                                  *)
LEMMA ControlStep ==
  ASSUME IInv, NEW g \in Goroutines,
         pc[g] \notin {"purgeLoop", "exitCopy", "exitLoop", "exited"},
         pc'[g] \notin {"purgeLoop", "exitCopy", "exitLoop", "exited"},
         \A h \in Goroutines \ {g} : pc'[h] = pc[h] /\ my'[h] = my[h],
         my'[g] = my[g] \/ my' = [my EXCEPT ![g].c = key],
         key' \in {key, my[g].c}, UNCHANGED <<buf, next, list, handles>>
  PROVE  FreshInv' /\ KindInv' /\ ListInv' /\ ExitInv' /\ (Exiting => Exiting')
<1> USE Numbers
<1>1. my \in [Goroutines -> Locals] /\ next \in Nat \ {0} /\ key \in Coffers
  BY Types DEF IInv
<1>2. /\ my'[g].c \in {my[g].c, key} /\ my'[g].k = my[g].k /\ my'[g].b = my[g].b
      /\ my'[g].missed = my[g].missed
  BY <1>1 DEF Locals
<1>3. FreshInv'
  BY <1>1, <1>2 DEF IInv, FreshInv
<1>4. KindInv'
  BY <1>2 DEF IInv, KindInv
<1>5. \A i \in Ids : Purging(i) => Purging(i)'
  BY DEF Purging
<1>6. ListInv' /\ ExitInv'
  BY <1>5 DEF IInv, ListInv, ExitInv
<1>7. Exiting => Exiting'
  BY DEF Exiting
<1> QED BY <1>3, <1>4, <1>6, <1>7

(* getOrCreateKey. *)
LEMMA KeySteps ==
  ASSUME IInv, UNCHANGED program, NEW g \in Goroutines, KeyStep(g)
  PROVE  IInv'
<1> USE Numbers, SessionAssumption
<1>0. /\ pc \in [Goroutines -> Labels] /\ my \in [Goroutines -> Locals] /\ key \in Coffers
      /\ readers \in [Ids -> SUBSET Goroutines] /\ calls \in 0..program.max
      /\ \A h \in Goroutines : my[h] \in Locals /\ my[h].c \in Coffers
      /\ buf \in [Ids -> Record] /\ \A i \in Ids : buf[i].of \in Coffers
  BY Types DEF IInv, Locals, Record
<1>1. CASE KeyLock(g)
  <2>1. /\ pc[g] = "getKey" /\ keyMtx = NoG /\ keyMtx' = g /\ pc' = [pc EXCEPT ![g] = "checkKey"]
        /\ UNCHANGED <<buf, next, list, handles, enclaves, calls, key, lock, readers, rekeyer, my, status>>
    BY <1>1 DEF KeyLock, KeyMtxFree, Goto, memory, client
  <2>2. pc'[g] = "checkKey" /\ \A h \in Goroutines \ {g} : pc'[h] = pc[h] /\ my'[h] = my[h]
    BY <1>0, <2>1
  <2>3. TypeOK'
    BY <2>1 DEF IInv, TypeOK, Labels
  <2>4. CallInv'
    BY <2>1, <2>2 DEF IInv, CallInv, Working
  <2>5. FreshInv' /\ KindInv' /\ ListInv' /\ ExitInv' /\ (Exiting => Exiting')
    BY <2>1, <2>2, ControlStep
  <2>6. MutexInv' /\ HaltInv'
    BY <2>1, <2>2 DEF IInv, MutexInv, HaltInv, Live
  <2>7. KeyInv'
    BY <2>1, <2>2 DEF IInv, KeyInv, SingleKey, LiveSet, Live
  <2>8. ViewInv'
    BY <2>1, <2>2, <2>5 DEF IInv, ViewInv, Live
  <2> QED BY <2>3, <2>4, <2>5, <2>6, <2>7, <2>8 DEF IInv
<1>2. CASE KeyCheck(g)
  <2>1. /\ pc[g] = "checkKey"
        /\ UNCHANGED <<buf, next, list, handles, enclaves, calls, key, lock, readers, rekeyer, status>>
    BY <1>2 DEF KeyCheck, memory, client
  <2>2. CASE /\ my' = [my EXCEPT ![g].c = key] /\ keyMtx' = NoG /\ pc' = [pc EXCEPT ![g] = "view"]
    <3>1. /\ pc'[g] = "view" /\ \A h \in Goroutines \ {g} : pc'[h] = pc[h] /\ my'[h] = my[h]
          /\ my' \in [Goroutines -> Locals] /\ my'[g].call = my[g].call /\ my'[g].b = my[g].b
      BY <1>0, <2>2, SMTT(40) DEF Locals
    <3>2. TypeOK'
      BY <1>0, <2>1, <2>2, <3>1 DEF IInv, TypeOK, Labels, Locals
    <3>3. CallInv'
      BY <2>1, <3>1 DEF IInv, CallInv, Working
    <3>4. FreshInv' /\ KindInv' /\ ListInv' /\ ExitInv' /\ (Exiting => Exiting')
      BY <2>1, <2>2, <3>1, ControlStep
    <3>5. MutexInv' /\ HaltInv'
      BY <2>1, <2>2, <3>1 DEF IInv, MutexInv, HaltInv, Live
    <3>6. KeyInv'
      BY <2>1, <2>2, <3>1 DEF IInv, KeyInv, SingleKey, LiveSet, Live, MutexInv
    <3>7. ViewInv'
      BY <2>1, <3>1, <3>4 DEF IInv, ViewInv, Live
    <3> QED BY <3>2, <3>3, <3>4, <3>5, <3>6, <3>7 DEF IInv
  <2>3. CASE ~Live(key) /\ pc' = [pc EXCEPT ![g] = "newKey"] /\ UNCHANGED <<my, keyMtx>>
    <3>1. /\ pc'[g] = "newKey" /\ \A h \in Goroutines \ {g} : pc'[h] = pc[h] /\ my'[h] = my[h]
      BY <1>0, <2>3
    <3>2. TypeOK'
      BY <2>1, <2>3 DEF IInv, TypeOK, Labels
    <3>3. CallInv'
      BY <2>1, <2>3, <3>1 DEF IInv, CallInv, Working
    <3>4. FreshInv' /\ KindInv' /\ ListInv' /\ ExitInv' /\ (Exiting => Exiting')
      BY <2>1, <2>3, <3>1, ControlStep
    <3>5. MutexInv' /\ HaltInv'
      BY <2>1, <2>3, <3>1 DEF IInv, MutexInv, HaltInv, Live
    <3>6. KeyInv'
      BY <2>1, <2>3, <3>1 DEF IInv, KeyInv, SingleKey, LiveSet, Live
    <3>7. ViewInv'
      BY <2>1, <2>3, <3>1, <3>4 DEF IInv, ViewInv, Live
    <3> QED BY <3>2, <3>3, <3>4, <3>5, <3>6, <3>7 DEF IInv
  <2> QED BY <1>2, <2>2, <2>3 DEF KeyCheck, Goto
<1>3. CASE KeyNew(g)
  <2>1. /\ pc[g] = "newKey"
        /\ UNCHANGED <<handles, enclaves, calls, key, keyMtx, lock, readers, rekeyer, status>>
    BY <1>3 DEF KeyNew, client, locks
  <2>2. CASE /\ NewBuffer("coffer", next, "zero") /\ my' = [my EXCEPT ![g].c = next]
             /\ pc' = [pc EXCEPT ![g] = "initKey"]
    <3>0. next \in Ids
      BY <2>2 DEF NewBuffer
    <3>1. /\ next \in Ids /\ ~buf[next].live /\ next' = next + 1 /\ list' = list \cup {next}
          /\ buf' \in [Ids -> Record] /\ buf'[next].kind = "coffer" /\ buf'[next].of = next
          /\ \A i \in Ids \ {next} : buf'[i] = buf[i]
      BY <2>2, <3>0, Allocated DEF Data
    <3>2. /\ pc'[g] = "initKey" /\ \A h \in Goroutines \ {g} : pc'[h] = pc[h] /\ my'[h] = my[h]
          /\ my' \in [Goroutines -> Locals] /\ my'[g].call = my[g].call /\ my'[g].b = my[g].b
          /\ my'[g].c = next /\ my'[g].k = my[g].k /\ my'[g].missed = my[g].missed
      <4> DEFINE r == [my[g] EXCEPT !.c = next]
      <4>1. my[g] \in Locals /\ next \in Coffers
        BY <1>0, <3>1 DEF Coffers
      <4>2. /\ r \in Locals /\ r.call = my[g].call /\ r.b = my[g].b /\ r.c = next
            /\ r.k = my[g].k /\ r.missed = my[g].missed
        BY <4>1 DEF Locals
      <4>3. my' = [my EXCEPT ![g] = r]
        BY <2>2
      <4> HIDE DEF r
      <4> QED BY <1>0, <2>2, <4>2, <4>3
    <3>3. TypeOK'
      BY <1>0, <2>1, <2>2, <3>1, <3>2, SMTT(40) DEF IInv, TypeOK, Labels, Locals, Record
    <3>4. CallInv'
      BY <2>1, <3>2 DEF IInv, CallInv, Working
    <3>5. FreshInv' /\ KindInv' /\ ListInv' /\ ExitInv' /\ (Exiting => Exiting')
      <4>1. my'[g].c \notin {None, my[g].c} => my'[g].c = next /\ buf'[next].kind = "coffer"
        BY <3>1, <3>2
      <4>2. my'[g].k \notin {None, my[g].k} => my'[g].k = next /\ buf'[next].kind = "view"
        BY <3>2
      <4>3. my'[g].b \notin {None, my[g].b} => my'[g].b = next /\ buf'[next].kind = "data"
        BY <3>2
      <4>4. /\ my'[g].missed \in {0, my[g].missed} /\ UNCHANGED <<key, handles>>
            /\ buf'[next].of \in {None, my[g].c, next}
            /\ buf'[next].kind = "view" => buf'[next].of = my[g].c
            /\ pc[g] \notin {"purgeLoop", "exitCopy", "exitLoop", "exited"}
            /\ pc'[g] \notin {"purgeLoop", "exitCopy", "exitLoop", "exited"}
        BY <2>1, <3>1, <3>2
      <4> QED BY <3>1, <3>2, <3>3, <4>1, <4>2, <4>3, <4>4, AllocationStep
    <3>6. key # next /\ \A h \in Goroutines : my[h].c # next
      BY <1>0 DEF IInv, FreshInv
    <3>7. MutexInv'
      BY <2>1, <3>2 DEF IInv, MutexInv
    <3>8. HaltInv'
      BY <1>0, <2>1, <3>1, <3>2, <3>6 DEF IInv, HaltInv, Live
    <3>9. KeyInv'
      <4>1. keyMtx = g /\ \A h \in Goroutines : pc[h] = "initKey" => FALSE
        BY <2>1 DEF IInv, MutexInv
      <4>2. SingleKey'
        BY <2>1, <3>1, <3>2, <4>1 DEF IInv, KeyInv, SingleKey, LiveSet
      <4>3. ~Live(key) /\ ~Live(key)'
        BY <1>0, <2>1, <3>1, <3>6 DEF IInv, KeyInv, Live
      <4> QED BY <2>1, <4>2, <4>3 DEF KeyInv
    <3>10. ViewInv'
      <4> SUFFICES ASSUME ~Exiting, ~Exiting' PROVE ViewInv'
        BY <3>5 DEF ViewInv
      <4>2. \A h \in Goroutines : pc'[h] \in {"newView", "fillView"} => Live(my[h].c)'
        <5> SUFFICES ASSUME NEW h \in Goroutines, pc'[h] \in {"newView", "fillView"}
                     PROVE  Live(my[h].c)'
          OBVIOUS
        <5>1. h # g /\ pc[h] \in {"newView", "fillView"} /\ my'[h] = my[h]
          BY <3>2
        <5>2. Live(my[h].c) /\ my[h].c \in Ids /\ my[h].c # next
          BY <1>0, <3>6, <5>1 DEF IInv, ViewInv, Live
        <5> QED BY <3>1, <5>1, <5>2 DEF Live
      <4>3. ASSUME NEW i \in Ids, buf'[i].live, buf'[i].kind = "view"
            PROVE  /\ \A h \in Goroutines : pc'[h] = "purgeLoop" => i \in my'[h].snap
                   /\ (\A h \in Goroutines : pc'[h] # "purgeLoop") => Live(buf[i].of)'
        <5>1. /\ i # next /\ buf[i].live /\ buf[i].kind = "view" /\ buf'[i].of = buf[i].of
              /\ buf[i].of \in Coffers
          BY <1>0, <3>1, <4>3
        <5>2. Live(buf[i].of) => Live(buf[i].of)'
          <6>1. Live(buf[i].of) => buf[i].of # next
            BY <3>1 DEF Live
          <6> QED BY <3>1, <5>1, <6>1 DEF Live
        <5> QED BY <2>1, <3>2, <5>1, <5>2 DEF IInv, ViewInv
      <4> QED BY <4>2, <4>3 DEF ViewInv
    <3> QED BY <3>3, <3>4, <3>5, <3>7, <3>8, <3>9, <3>10 DEF IInv
  <2>3. CASE NewBufferPanics(g, "coffer")
    <3>1. Panic(g) /\ UNCHANGED <<buf, next, list>>
      BY <2>3 DEF NewBufferPanics, memory
    <3> QED BY <1>0, <2>1, <3>1, PanicStep
  <2> QED BY <1>3, <2>2, <2>3 DEF KeyNew, Goto
<1>4. CASE KeyInit(g)
  <2>1. CASE /\ key' = my[g].c /\ rekeyer' = [rekeyer EXCEPT ![my[g].c] = "waiting"]
             /\ keyMtx' = NoG /\ pc' = [pc EXCEPT ![g] = "view"]
             /\ UNCHANGED <<memory, client, lock, readers, my, status>>
    <3>1. /\ pc[g] = "initKey"
          /\ UNCHANGED <<buf, next, list, handles, enclaves, calls, lock, readers, my, status>>
      BY <1>4, <2>1 DEF KeyInit, memory, client
    <3>2. /\ pc'[g] = "view" /\ \A h \in Goroutines \ {g} : pc'[h] = pc[h] /\ my'[h] = my[h]
      BY <1>0, <2>1, <3>1
    <3>3. TypeOK'
      BY <1>0, <2>1, <3>1 DEF IInv, TypeOK, Labels
    <3>4. CallInv'
      BY <3>1, <3>2 DEF IInv, CallInv, Working
    <3>5. FreshInv' /\ KindInv' /\ ListInv' /\ ExitInv' /\ (Exiting => Exiting')
      BY <2>1, <3>1, <3>2, ControlStep
    <3>6. \A h \in Goroutines \ {g} : pc[h] \notin {"checkKey", "newKey", "initKey", "purgeKey",
                                                    "lockKey", "flush", "purgeLoop"}
      BY <3>1 DEF IInv, MutexInv
    <3>7. MutexInv' /\ HaltInv'
      BY <2>1, <3>1, <3>2, <3>6 DEF IInv, MutexInv, HaltInv, TypeOK
    <3>8. KeyInv'
      BY <2>1, <3>1, <3>2, <3>6 DEF IInv, KeyInv, SingleKey, LiveSet, Live
    <3>9. ViewInv'
      BY <3>1, <3>2, <3>5 DEF IInv, ViewInv, Live
    <3> QED BY <3>3, <3>4, <3>5, <3>7, <3>8, <3>9 DEF IInv
  <2> QED BY <1>4, <2>1, CrashStep DEF KeyInit, Goto
<1> QED BY <1>1, <1>2, <1>3, <1>4 DEF KeyStep
-----------------------------------------------------------------------------
(* Nobody takes a copy of the key while a Purge is past its snapshot: the   *)
(* Purge holds the mutex of the only coffer there is.                       *)
LEMMA NoViews ==
  ASSUME IInv, ~Exiting, NEW g \in Goroutines, pc[g] \in {"newView", "fillView"},
         NEW h \in Goroutines, pc[h] \in {"flush", "purgeLoop"}
  PROVE  FALSE
<1>1. Live(my[g].c) /\ lock[my[g].c] = g /\ keyMtx = h
  BY DEF IInv, ViewInv, MutexInv
<1>2. my[g].c \in LiveSet /\ buf[my[g].c].kind = "coffer"
  BY <1>1, Numbers DEF Live, LiveSet, IInv, TypeOK, KindInv
<1>3. my[g].c = key
  BY <1>1, <1>2 DEF IInv, KeyInv, SingleKey
<1>4. lock[key] = h
  BY <1>1, <1>3 DEF IInv, HaltInv
<1> QED BY <1>1, <1>3, <1>4

(* Coffer.View. *)
LEMMA ViewSteps ==
  ASSUME IInv, UNCHANGED program, NEW g \in Goroutines, ViewStep(g)
  PROVE  IInv'
<1> USE Numbers, SessionAssumption
<1>0. /\ pc \in [Goroutines -> Labels] /\ my \in [Goroutines -> Locals] /\ key \in Coffers
      /\ readers \in [Ids -> SUBSET Goroutines] /\ calls \in 0..program.max
      /\ lock \in [Coffers -> Goroutines \cup {NoG, Ticker}]
      /\ \A h \in Goroutines : my[h] \in Locals /\ my[h].c \in Coffers
      /\ buf \in [Ids -> Record] /\ \A i \in Ids : buf[i].of \in Coffers
  BY Types DEF IInv, Locals, Record
<1>1. CASE ViewLock(g)
  <2>1. /\ pc[g] = "view" /\ lock[my[g].c] = NoG
        /\ UNCHANGED <<buf, next, list, handles, enclaves, calls, key, keyMtx, rekeyer, status>>
    BY <1>1 DEF ViewLock, memory, client
  <2>2. CASE /\ Live(my[g].c) /\ lock' = [lock EXCEPT ![my[g].c] = g]
             /\ pc' = [pc EXCEPT ![g] = "newView"] /\ UNCHANGED <<my, readers>>
    <3>1. /\ pc'[g] = "newView" /\ \A h \in Goroutines \ {g} : pc'[h] = pc[h] /\ my'[h] = my[h]
          /\ my'[g] = my[g]
          /\ lock'[my[g].c] = g /\ \A c \in Coffers \ {my[g].c} : lock'[c] = lock[c]
      BY <1>0, <2>2
    <3>2. TypeOK'
      BY <1>0, <2>1, <2>2 DEF IInv, TypeOK, Labels
    <3>3. CallInv'
      BY <2>1, <2>2, <3>1 DEF IInv, CallInv, Working
    <3>4. FreshInv' /\ KindInv' /\ ListInv' /\ ExitInv' /\ (Exiting => Exiting')
      BY <2>1, <2>2, <3>1, ControlStep
    <3>5. MutexInv'
      BY <1>0, <2>1, <3>1 DEF IInv, MutexInv
    <3>6. HaltInv'
      BY <1>0, <2>1, <3>1 DEF IInv, HaltInv, Live
    <3>7. KeyInv'
      BY <2>1, <3>1 DEF IInv, KeyInv, SingleKey, LiveSet, Live
    <3>8. ViewInv'
      BY <2>1, <2>2, <3>1, <3>4 DEF IInv, ViewInv, Live
    <3> QED BY <3>2, <3>3, <3>4, <3>5, <3>6, <3>7, <3>8 DEF IInv
  <2>3. CASE Panic(g) /\ readers' = [i \in Ids |-> readers[i] \ {g}] /\ UNCHANGED lock
    <3>1. readers' \in [Ids -> SUBSET Goroutines]
      BY <1>0, <2>3
    <3> QED BY <1>0, <2>1, <2>3, <3>1, PanicStep
  <2> QED BY <1>1, <2>2, <2>3 DEF ViewLock, Goto
<1>2. CASE ViewNew(g)
  <2>1. /\ pc[g] = "newView"
        /\ UNCHANGED <<handles, enclaves, calls, key, keyMtx, lock, readers, rekeyer, status>>
    BY <1>2 DEF ViewNew, client, locks
  <2>2. CASE /\ NewBuffer("view", my[g].c, "zero") /\ my' = [my EXCEPT ![g].k = next]
             /\ pc' = [pc EXCEPT ![g] = "fillView"]
    <3>1. /\ next \in Ids /\ ~buf[next].live /\ next' = next + 1 /\ list' = list \cup {next}
          /\ buf' \in [Ids -> Record] /\ buf'[next].kind = "view" /\ buf'[next].of = my[g].c
          /\ \A i \in Ids \ {next} : buf'[i] = buf[i]
      BY <1>0, <2>2, Allocated DEF Data
    <3>2. /\ pc'[g] = "fillView" /\ \A h \in Goroutines \ {g} : pc'[h] = pc[h] /\ my'[h] = my[h]
          /\ my' \in [Goroutines -> Locals] /\ my'[g].call = my[g].call /\ my'[g].b = my[g].b
          /\ my'[g].c = my[g].c /\ my'[g].k = next /\ my'[g].missed = my[g].missed
      BY <1>0, <2>2, <3>1, SMTT(40) DEF Locals
    <3>3. TypeOK'
      <4>1. next' \in Nat \ {0} /\ list' \in SUBSET Ids /\ pc' \in [Goroutines -> Labels]
        BY <1>0, <2>2, <3>1 DEF IInv, TypeOK, Labels
      <4> QED BY <2>1, <3>1, <3>2, <4>1 DEF IInv, TypeOK, Locals, Record
    <3>4. CallInv'
      BY <2>1, <3>2 DEF IInv, CallInv, Working
    <3>5. FreshInv' /\ KindInv' /\ ListInv' /\ ExitInv' /\ (Exiting => Exiting')
      <4>1. my'[g].c \notin {None, my[g].c} => my'[g].c = next /\ buf'[next].kind = "coffer"
        BY <3>2
      <4>2. my'[g].k \notin {None, my[g].k} => my'[g].k = next /\ buf'[next].kind = "view"
        BY <3>1, <3>2
      <4>3. my'[g].b \notin {None, my[g].b} => my'[g].b = next /\ buf'[next].kind = "data"
        BY <3>2
      <4>4. /\ my'[g].missed \in {0, my[g].missed} /\ UNCHANGED <<key, handles>>
            /\ buf'[next].of \in {None, my[g].c, next}
            /\ buf'[next].kind = "view" => buf'[next].of = my[g].c
            /\ pc[g] \notin {"purgeLoop", "exitCopy", "exitLoop", "exited"}
            /\ pc'[g] \notin {"purgeLoop", "exitCopy", "exitLoop", "exited"}
        BY <2>1, <3>1, <3>2
      <4> QED BY <3>1, <3>2, <3>3, <4>1, <4>2, <4>3, <4>4, AllocationStep
    <3>6. key # next /\ \A h \in Goroutines : my[h].c # next /\ my'[h].c = my[h].c
      BY <1>0, <3>2 DEF IInv, FreshInv
    <3>7. MutexInv'
      BY <2>1, <3>2 DEF IInv, MutexInv
    <3>8. HaltInv'
      BY <1>0, <2>1, <3>1, <3>2, <3>6 DEF IInv, HaltInv, Live
    <3>9. KeyInv'
      BY <1>0, <2>1, <3>1, <3>2, <3>6, SMTT(40) DEF IInv, KeyInv, SingleKey, LiveSet, Live
    <3>10. ViewInv'
      <4> SUFFICES ASSUME ~Exiting, ~Exiting' PROVE ViewInv'
        BY <3>5 DEF ViewInv
      <4>1. \A h \in Goroutines : pc'[h] \in {"newView", "fillView"} => Live(my[h].c)'
        BY <1>0, <2>1, <3>1, <3>2, <3>6 DEF IInv, ViewInv, Live
      <4>2. \A h \in Goroutines : pc'[h] # "purgeLoop"
        BY <2>1, <3>2, NoViews
      <4>3. ASSUME NEW i \in Ids, buf'[i].live, buf'[i].kind = "view" PROVE Live(buf[i].of)'
        <5>1. CASE i = next
          BY <3>1, <3>2, <4>1, <5>1
        <5>2. CASE i # next
          <6>1. Live(buf[i].of)
            BY <2>1, <3>1, <3>2, <4>2, <4>3, <5>2 DEF IInv, ViewInv
          <6>2. buf'[i].of = buf[i].of /\ buf[i].of \in Ids /\ buf[i].of # next
            BY <1>0, <3>1, <5>2, <6>1 DEF Live
          <6> QED BY <3>1, <6>1, <6>2 DEF Live
        <5> QED BY <5>1, <5>2
      <4> QED BY <4>1, <4>2, <4>3 DEF ViewInv
    <3> QED BY <3>3, <3>4, <3>5, <3>7, <3>8, <3>9, <3>10 DEF IInv
  <2>3. CASE NewBufferPanics(g, "view")
    <3>1. Panic(g) /\ UNCHANGED <<buf, next, list>>
      BY <2>3 DEF NewBufferPanics, memory
    <3> QED BY <1>0, <2>1, <3>1, PanicStep
  <2> QED BY <1>2, <2>2, <2>3 DEF ViewNew, Goto
<1>3. CASE ViewFill(g)
  <2>1. CASE /\ lock' = [lock EXCEPT ![my[g].c] = NoG]
             /\ Goto(g, IF my[g].call = "Open" THEN "decrypt" ELSE "encrypt")
             /\ UNCHANGED <<memory, client, key, keyMtx, readers, rekeyer, my, status>>
    <3>1. /\ pc[g] = "fillView"
          /\ UNCHANGED <<buf, next, list, handles, enclaves, calls, key, keyMtx, readers, rekeyer, my, status>>
      BY <1>3, <2>1 DEF ViewFill, memory, client
    <3>2. /\ pc'[g] \in {"decrypt", "encrypt"} /\ pc' \in [Goroutines -> Labels]
          /\ \A h \in Goroutines \ {g} : pc'[h] = pc[h] /\ my'[h] = my[h]
          /\ my'[g] = my[g] /\ lock' \in [Coffers -> Goroutines \cup {NoG, Ticker}]
          /\ lock'[my[g].c] = NoG /\ \A c \in Coffers \ {my[g].c} : lock'[c] = lock[c]
      BY <1>0, <2>1, <3>1 DEF Goto, Labels
    <3>3. TypeOK'
      BY <1>0, <3>1, <3>2 DEF IInv, TypeOK
    <3>4. CallInv'
      BY <3>1, <3>2 DEF IInv, CallInv, Working
    <3>5. FreshInv' /\ KindInv' /\ ListInv' /\ ExitInv' /\ (Exiting => Exiting')
      BY <3>1, <3>2, ControlStep
    <3>6. MutexInv'
      BY <1>0, <3>1, <3>2 DEF IInv, MutexInv
    <3>7. HaltInv'
      BY <1>0, <3>1, <3>2 DEF IInv, HaltInv, MutexInv, Live
    <3>8. KeyInv'
      BY <3>1, <3>2 DEF IInv, KeyInv, SingleKey, LiveSet, Live
    <3>9. ViewInv'
      BY <3>1, <3>2, <3>5 DEF IInv, ViewInv, Live
    <3> QED BY <3>3, <3>4, <3>5, <3>6, <3>7, <3>8, <3>9 DEF IInv
  <2>2. CASE /\ UnderWay(my[g].c) /\ buf' = [buf EXCEPT ![my[g].k].of = None]
             /\ lock' = [lock EXCEPT ![my[g].c] = NoG]
             /\ Goto(g, IF my[g].call = "Open" THEN "decrypt" ELSE "encrypt")
             /\ UNCHANGED <<next, list, client, key, keyMtx, readers, rekeyer, my, status>>
    <3>1. /\ pc[g] = "fillView"
          /\ UNCHANGED <<next, list, handles, enclaves, calls, key, keyMtx, readers, rekeyer, my, status>>
      BY <1>3, <2>2 DEF ViewFill, client
    <3>2. /\ pc'[g] \in {"decrypt", "encrypt"} /\ pc' \in [Goroutines -> Labels]
          /\ \A h \in Goroutines \ {g} : pc'[h] = pc[h] /\ my'[h] = my[h]
          /\ my'[g] = my[g] /\ lock' \in [Coffers -> Goroutines \cup {NoG, Ticker}]
          /\ lock'[my[g].c] = NoG /\ \A c \in Coffers \ {my[g].c} : lock'[c] = lock[c]
      BY <1>0, <2>2, <3>1 DEF Goto, Labels
    <3>3. /\ buf' \in [Ids -> Record]
          /\ \A i \in Ids : /\ buf'[i].live = buf[i].live /\ buf'[i].kind = buf[i].kind
                            /\ buf'[i].of \in {None, buf[i].of}
                            /\ i # my[g].k => buf'[i] = buf[i]
      <4>1. my[g].k \notin Ids => buf' = buf
        BY <1>0, <2>2
      <4>2. ASSUME my[g].k \in Ids
            PROVE  /\ buf' \in [Ids -> Record] /\ buf'[my[g].k].live = buf[my[g].k].live
                   /\ buf'[my[g].k].kind = buf[my[g].k].kind /\ buf'[my[g].k].of = None
                   /\ \A i \in Ids \ {my[g].k} : buf'[i] = buf[i]
        <5> DEFINE r == [buf[my[g].k] EXCEPT !.of = None]
        <5>1. r \in Record /\ r.live = buf[my[g].k].live /\ r.kind = buf[my[g].k].kind /\ r.of = None
          <6>1. buf[my[g].k] \in Record
            BY <1>0, <4>2
          <6> QED BY <6>1, Numbers DEF Record
        <5>2. buf' = [buf EXCEPT ![my[g].k] = r]
          BY <2>2
        <5> HIDE DEF r
        <5> QED BY <1>0, <4>2, <5>1, <5>2
      <4> QED BY <1>0, <4>1, <4>2
    <3>4. TypeOK'
      BY <1>0, <3>1, <3>2, <3>3 DEF IInv, TypeOK, Record
    <3>5. CallInv'
      BY <3>1, <3>2 DEF IInv, CallInv, Working
    <3>6. FreshInv' /\ KindInv'
      <4>1. FreshInv'
        <5>1. next \in Nat \ {0} /\ None < next
          BY Types DEF IInv, None
        <5>2. \A i \in Ids : buf'[i].live => i < next /\ buf'[i].of < next
          BY <3>3, <5>1 DEF IInv, FreshInv
        <5> QED BY <3>1, <3>2, <5>2 DEF IInv, FreshInv
      <4>2. key \in Coffers /\ handles \in SUBSET Ids /\ \A i \in Ids : buf[i].of \in Coffers
        BY <1>0 DEF IInv, TypeOK, Record
      <4>3. \A i \in Ids : buf'[i].live /\ buf'[i].kind = "view" /\ buf'[i].of # None =>
              buf'[buf'[i].of].kind = "coffer"
        BY <3>3, <4>2, Numbers DEF IInv, KindInv
      <4>4. \A h \in Goroutines : my[h].c \in Coffers /\ my[h].k \in Coffers /\ my[h].b \in Coffers
        BY <1>0 DEF Locals
      <4> QED BY <3>1, <3>3, <4>1, <4>2, <4>3, <4>4, Numbers DEF IInv, KindInv
    <3>7. ListInv' /\ ExitInv' /\ (Exiting => Exiting')
      <4>1. \A i \in Ids : Purging(i) => Purging(i)'
        BY <3>1, <3>2 DEF Purging
      <4>2. Exiting => Exiting'
        BY <3>1, <3>2 DEF Exiting
      <4> QED BY <3>1, <3>2, <3>3, <4>1, <4>2 DEF IInv, ListInv, ExitInv
    <3>8. MutexInv'
      BY <1>0, <3>1, <3>2 DEF IInv, MutexInv
    <3>9. HaltInv' /\ KeyInv'
      BY <1>0, <3>1, <3>2, <3>3 DEF IInv, HaltInv, MutexInv, KeyInv, SingleKey, LiveSet, Live
    <3>10. ViewInv'
      <4> SUFFICES ASSUME ~Exiting PROVE ViewInv'
        BY <3>7 DEF ViewInv
      <4>1. PICK h \in Goroutines : pc[h] = "purgeLoop"
        BY <2>2 DEF UnderWay, Exiting
      <4>2. pc'[h] = "purgeLoop"
        BY <3>1, <3>2, <4>1
      <4>3. \A c \in Coffers : Live(c) => Live(c)'
        BY <3>3, Numbers DEF Live
      <4>4. ASSUME NEW f \in Goroutines, pc'[f] \in {"newView", "fillView"} PROVE Live(my[f].c)'
        <5>1. my[f].c \in Coffers /\ pc[f] = pc'[f] /\ my' = my
          BY <1>0, <3>1, <3>2, <4>4 DEF Locals
        <5>2. Live(my[f].c)
          BY <4>4, <5>1 DEF IInv, ViewInv
        <5>3. ASSUME NEW c \in Coffers, Live(c) PROVE Live(c)'
          BY <4>3, <5>3
        <5> QED BY <5>1, <5>2, <5>3 DEF Live
      <4>5. \A i \in Ids : buf'[i].live /\ buf'[i].kind = "view" =>
              \A f \in Goroutines : pc'[f] = "purgeLoop" => i \in my'[f].snap
        BY <3>1, <3>2, <3>3 DEF IInv, ViewInv
      <4> QED BY <4>2, <4>4, <4>5 DEF ViewInv
    <3> QED BY <3>4, <3>5, <3>6, <3>7, <3>8, <3>9, <3>10 DEF IInv
  <2> QED BY <1>3, <2>1, <2>2, CrashStep DEF ViewFill, ViewUnlock, memory
<1> QED BY <1>1, <1>2, <1>3 DEF ViewStep
-----------------------------------------------------------------------------
(* Destroyed(x) takes buffer x away and leaves the others alone. *)
LEMMA Gone ==
  ASSUME IInv, NEW x, buf' = Destroyed(x)
  PROVE  /\ buf' \in [Ids -> Record]
         /\ \A i \in Ids : /\ buf'[i].kind = buf[i].kind /\ buf'[i].of = buf[i].of
                           /\ buf'[i].live <=> buf[i].live /\ i # x
<1>1. buf \in [Ids -> Record]
  BY Types DEF IInv
<1>2. CASE x \notin Ids
  <2>1. buf' = buf
    BY <1>1, <1>2 DEF Destroyed
  <2> QED BY <1>1, <1>2, <2>1
<1>3. CASE x \in Ids
  <2>1. x # None /\ buf[x] \in Record
    BY <1>1, <1>3, Numbers
  <2>2. buf' = [buf EXCEPT ![x] = [buf[x] EXCEPT !.live = FALSE, !.data = "zero"]]
    BY <2>1 DEF Destroyed
  <2>3. [buf[x] EXCEPT !.live = FALSE, !.data = "zero"] \in Record
    BY <2>1 DEF Record, Data
  <2> QED BY <1>1, <1>3, <2>1, <2>2, <2>3 DEF Record
<1> QED BY <1>2, <1>3

(* A buffer that is not a coffer is destroyed and leaves the list. *)
LEMMA DestroyedAlone ==
  ASSUME IInv, NEW x \in Coffers, buf' = Destroyed(x), list' = list \ {x},
         x # None => buf[x].kind # "coffer"
  PROVE  CoffersStay /\ buf' \in [Ids -> Record] /\ list' \in SUBSET Ids
<1>1. /\ buf' \in [Ids -> Record]
      /\ \A i \in Ids : /\ buf'[i].kind = buf[i].kind /\ buf'[i].of = buf[i].of
                        /\ buf'[i].live <=> buf[i].live /\ i # x
  BY Gone
<1>2. CoffersStay
  BY <1>1, Numbers DEF CoffersStay
<1> QED BY <1>1, <1>2 DEF IInv, TypeOK

(* g goes on with the variables it has. *)
LEMMA MoveStep ==
  ASSUME IInv, NEW g \in Goroutines, NEW l \in Labels \ Special, Goto(g, l),
         pc[g] \notin {"initKey", "purgeLoop", "exitCopy", "exitLoop", "exited"},
         my[g].call = "Open" /\ l \in Working => my[g].b \in Ids,
         l = "opened" => my[g].call = "Open",
         CoffersStay, buf' \in [Ids -> Record], list' \in SUBSET Ids,
         readers' \in [Ids -> SUBSET Goroutines],
         UNCHANGED <<next, handles, enclaves, calls, key, keyMtx, lock, rekeyer, my, status, program>>
  PROVE  IInv'
<1>0. pc \in [Goroutines -> Labels]
  BY Types DEF IInv
<1>1. /\ pc'[g] = l /\ pc' \in [Goroutines -> Labels]
      /\ \A h \in Goroutines \ {g} : pc'[h] = pc[h]
  BY <1>0 DEF Goto
<1>2. TypeOK'
  BY <1>1 DEF IInv, TypeOK, Record
<1>3. CallInv'
  BY <1>1 DEF IInv, CallInv
<1>4. /\ my'[g].c \in {None, key, my[g].c} /\ my'[g].k \in {None, my[g].k}
      /\ my'[g].b \in handles \cup {None, my[g].b} /\ my'[g].missed \in {0, my[g].missed}
      /\ handles' \subseteq handles \cup {my[g].b} /\ \A h \in Goroutines \ {g} : my'[h] = my[h]
  OBVIOUS
<1> QED BY <1>2, <1>3, <1>4, PrivateStep

(* g returns to the program, perhaps with a buffer or an enclave. *)
LEMMA ReturnStep ==
  ASSUME IInv, NEW g \in Goroutines, Return(g),
         pc[g] \notin {"initKey", "purgeLoop", "exitCopy", "exitLoop", "exited"},
         CoffersStay, buf' \in [Ids -> Record], list' \in SUBSET Ids,
         handles' \in SUBSET Ids, handles' \subseteq handles \cup {my[g].b},
         enclaves' \in SUBSET Enclave, readers' \in [Ids -> SUBSET Goroutines],
         UNCHANGED <<next, calls, key, keyMtx, lock, rekeyer, status, program>>
  PROVE  IInv'
<1> USE NothingLocal
<1>0. pc \in [Goroutines -> Labels] /\ my \in [Goroutines -> Locals]
  BY Types DEF IInv
<1>1. pc' = [pc EXCEPT ![g] = "idle"] /\ my' = [my EXCEPT ![g] = NoLocals]
  BY DEF Return, Goto
<1>2. /\ pc'[g] = "idle" /\ pc' \in [Goroutines -> Labels]
      /\ my'[g] = NoLocals /\ my' \in [Goroutines -> Locals]
      /\ \A h \in Goroutines \ {g} : pc'[h] = pc[h] /\ my'[h] = my[h]
  BY <1>0, <1>1 DEF Labels
<1>3. TypeOK'
  BY <1>2 DEF IInv, TypeOK, Record, Locals
<1>4. CallInv'
  BY <1>2 DEF IInv, CallInv, Working
<1>5. "idle" \in Labels \ Special /\ Goto(g, "idle")
  BY DEF Return, Labels, Special
<1>6. /\ my'[g].c \in {None, key, my[g].c} /\ my'[g].k \in {None, my[g].k}
      /\ my'[g].b \in handles \cup {None, my[g].b} /\ my'[g].missed \in {0, my[g].missed}
  BY <1>2
<1> QED BY <1>2, <1>3, <1>4, <1>5, <1>6, PrivateStep

(* Seal and NewEnclave. *)
LEMMA SealSteps ==
  ASSUME IInv, UNCHANGED program, NEW g \in Goroutines, SealStep(g)
  PROVE  IInv'
<1> USE Numbers
<1>0. /\ pc \in [Goroutines -> Labels] /\ my \in [Goroutines -> Locals]
      /\ readers \in [Ids -> SUBSET Goroutines] /\ calls \in 0..program.max
      /\ buf \in [Ids -> Record] /\ list \in SUBSET Ids /\ handles \in SUBSET Ids
      /\ enclaves \in SUBSET Enclave
      /\ my[g] \in Locals /\ my[g].k \in Coffers /\ my[g].b \in Coffers /\ my[g].e \in Enclave
  BY Types DEF IInv, Locals
<1>1. CASE SealRandom(g)
  <2>1. /\ pc[g] = "sealRandom"
        /\ UNCHANGED <<buf, next, list, handles, enclaves, calls, key, keyMtx, lock, readers, rekeyer, status>>
    BY <1>1 DEF SealRandom, memory, client, locks
  <2>2. CASE Goto(g, "melt") /\ UNCHANGED my
    BY <1>0, <2>1, <2>2, Untouched, MoveStep DEF Labels, Special, Working
  <2>3. CASE Return(g)
    BY <1>0, <2>1, <2>3, Untouched, ReturnStep
  <2> QED BY <1>1, <2>2, <2>3 DEF SealRandom
<1>2. CASE SealMelt(g)
  <2>1. /\ pc[g] = "melt" /\ Goto(g, "rlock")
        /\ UNCHANGED <<buf, next, list, handles, enclaves, calls, key, keyMtx, lock, readers, rekeyer, my, status>>
    BY <1>2 DEF SealMelt, memory, client, locks
  <2> QED BY <1>0, <2>1, Untouched, MoveStep DEF Labels, Special, Working
<1>3. CASE SealRLock(g)
  <2>1. /\ pc[g] = "rlock"
        /\ UNCHANGED <<buf, next, list, handles, enclaves, calls, key, keyMtx, lock, rekeyer, status>>
    BY <1>3 DEF SealRLock, memory, client
  <2>2. CASE /\ Live(my[g].b) /\ readers' = [readers EXCEPT ![my[g].b] = @ \cup {g}]
             /\ Goto(g, "getKey") /\ UNCHANGED my
    <3>1. my[g].b \in Ids /\ readers' \in [Ids -> SUBSET Goroutines]
      BY <1>0, <2>2 DEF Live
    <3>2. "getKey" \in Labels \ Special
      BY DEF Labels, Special
    <3> QED BY <1>0, <2>1, <2>2, <3>1, <3>2, Untouched, MoveStep
  <2>3. CASE Panic(g) /\ UNCHANGED readers
    BY <1>0, <2>1, <2>3, PanicStep
  <2> QED BY <1>3, <2>2, <2>3 DEF SealRLock
<1>4. CASE Encrypt(g)
  <2>1. ASSUME NEW x \in KeysRead(g), Live(my[g].k), my' = [my EXCEPT ![g].e = Ciphertext(g, x)],
               Goto(g, "dropView"),
               UNCHANGED <<memory, client, key, locks, rekeyer, status>>
        PROVE  IInv'
    <3>1. /\ pc[g] = "encrypt"
          /\ UNCHANGED <<buf, next, list, handles, enclaves, calls, key, keyMtx, lock, readers, rekeyer, status>>
      BY <1>4, <2>1 DEF Encrypt, memory, client, locks
    <3>2. Plaintext(g) \in Data
      BY <1>0 DEF Plaintext, Data, Record, IInv, CallInv
    <3>3. Ciphertext(g, x) \in Enclave
      BY <1>0, <2>1, <3>2, Numbers DEF Ciphertext, KeysRead, Enclave, Live, Record
    <3>4. /\ my' \in [Goroutines -> Locals] /\ my'[g].call = my[g].call /\ my'[g].c = my[g].c
          /\ my'[g].k = my[g].k /\ my'[g].b = my[g].b /\ my'[g].missed = my[g].missed
          /\ \A h \in Goroutines \ {g} : my'[h] = my[h]
      BY <1>0, <2>1, <3>3 DEF Locals
    <3>5. /\ pc'[g] = "dropView" /\ pc' \in [Goroutines -> Labels]
          /\ \A h \in Goroutines \ {g} : pc'[h] = pc[h]
      BY <1>0, <2>1 DEF Goto, Labels
    <3>6. TypeOK'
      BY <3>1, <3>4, <3>5 DEF IInv, TypeOK, Locals
    <3>7. CallInv'
      BY <3>1, <3>4, <3>5 DEF IInv, CallInv, Working
    <3>8. /\ my'[g].c \in {None, key, my[g].c} /\ my'[g].k \in {None, my[g].k}
          /\ my'[g].b \in handles \cup {None, my[g].b} /\ my'[g].missed \in {0, my[g].missed}
          /\ handles' \subseteq handles \cup {my[g].b} /\ "dropView" \in Labels \ Special
      BY <3>1, <3>4 DEF Labels, Special
    <3> QED BY <2>1, <3>1, <3>4, <3>6, <3>7, <3>8, Untouched, PrivateStep
  <2>2. CASE Panic(g) /\ UNCHANGED <<memory, client, key, locks, rekeyer, status>>
    <3>1. /\ pc[g] = "encrypt"
          /\ UNCHANGED <<buf, next, list, handles, enclaves, calls, key, keyMtx, lock, readers, rekeyer, status>>
      BY <1>4, <2>2 DEF Encrypt, memory, client, locks
    <3> QED BY <1>0, <2>2, <3>1, PanicStep
  <2> QED BY <1>4, <2>1, <2>2, CrashStep DEF Encrypt
<1>5. CASE DropView(g)
  <2>1. /\ pc[g] = "dropView" /\ buf' = Destroyed(my[g].k) /\ list' = list \ {my[g].k}
        /\ Goto(g, IF my[g].call = "Open" THEN "opened" ELSE "wipe")
        /\ UNCHANGED <<next, handles, enclaves, calls, key, keyMtx, lock, readers, rekeyer, my, status>>
    BY <1>5 DEF DropView, Dropped, client, locks
  <2>2. my[g].k # None => buf[my[g].k].kind # "coffer"
    BY DEF IInv, KindInv
  <2>3. CoffersStay /\ buf' \in [Ids -> Record] /\ list' \in SUBSET Ids
    BY <1>0, <2>1, <2>2, DestroyedAlone
  <2>4. CASE my[g].call = "Open"
    <3>1. my[g].b \in Ids
      BY <2>1, <2>4 DEF IInv, CallInv, Working
    <3>2. Goto(g, "opened") /\ "opened" \in Labels \ Special
      BY <2>1, <2>4 DEF Labels, Special
    <3> QED BY <1>0, <2>1, <2>3, <2>4, <3>1, <3>2, MoveStep
  <2>5. CASE my[g].call # "Open"
    <3>1. Goto(g, "wipe") /\ "wipe" \in Labels \ Special
      BY <2>1, <2>5 DEF Labels, Special
    <3> QED BY <1>0, <2>1, <2>3, <2>5, <3>1, MoveStep
  <2> QED BY <2>4, <2>5
<1>6. CASE Wipe(g)
  <2>1. /\ pc[g] = "wipe" /\ UNCHANGED <<next, list, handles, calls, key, keyMtx, lock, rekeyer, status>>
    BY <1>6 DEF Wipe
  <2>2. CASE enclaves' = enclaves \cup {my[g].e} /\ Return(g) /\ UNCHANGED <<buf, readers>>
    BY <1>0, <2>1, <2>2, Untouched, ReturnStep
  <2>3. CASE /\ my[g].call = "Seal" /\ buf' = [buf EXCEPT ![my[g].b].data = "zero"]
             /\ RUnlock(g) /\ Goto(g, "destroy") /\ UNCHANGED <<enclaves, my>>
    <3>1. my[g].b \in Ids
      BY <2>3 DEF IInv, CallInv
    <3>2. /\ buf' \in [Ids -> Record]
          /\ \A i \in Ids : /\ buf'[i].kind = buf[i].kind /\ buf'[i].of = buf[i].of
                            /\ buf'[i].live = buf[i].live
      BY <1>0, <2>3, <3>1 DEF Record, Data
    <3>3. CoffersStay
      BY <2>1, <3>2 DEF CoffersStay
    <3>4. readers' \in [Ids -> SUBSET Goroutines]
      BY <1>0, <2>3, <3>1 DEF RUnlock
    <3>5. "destroy" \in Labels \ Special
      BY DEF Labels, Special
    <3> QED BY <1>0, <2>1, <2>3, <3>1, <3>2, <3>3, <3>4, <3>5, MoveStep
  <2> QED BY <1>6, <2>2, <2>3 DEF Wipe
<1>7. CASE Destroy(g)
  <2>1. /\ pc[g] = "destroy" /\ buf' = Destroyed(my[g].b) /\ list' = list \ {my[g].b} /\ Return(g)
        /\ enclaves' \subseteq enclaves \cup {my[g].e}
        /\ UNCHANGED <<next, handles, calls, key, keyMtx, lock, readers, rekeyer, status>>
    BY <1>7 DEF Destroy, locks
  <2>2. my[g].b # None => buf[my[g].b].kind # "coffer"
    BY DEF IInv, KindInv
  <2>3. CoffersStay /\ buf' \in [Ids -> Record] /\ list' \in SUBSET Ids
    BY <1>0, <2>1, <2>2, DestroyedAlone
  <2>4. enclaves' \in SUBSET Enclave
    BY <1>0, <2>1
  <2> QED BY <1>0, <2>1, <2>3, <2>4, ReturnStep
<1> QED BY <1>1, <1>2, <1>3, <1>4, <1>5, <1>6, <1>7 DEF SealStep

(* Open. *)
LEMMA OpenSteps ==
  ASSUME IInv, UNCHANGED program, NEW g \in Goroutines, OpenStep(g)
  PROVE  IInv'
<1> USE Numbers
<1>0. /\ pc \in [Goroutines -> Labels] /\ my \in [Goroutines -> Locals]
      /\ readers \in [Ids -> SUBSET Goroutines] /\ calls \in 0..program.max
      /\ buf \in [Ids -> Record] /\ list \in SUBSET Ids /\ handles \in SUBSET Ids
      /\ enclaves \in SUBSET Enclave
      /\ my[g] \in Locals /\ my[g].k \in Coffers /\ my[g].b \in Coffers /\ my[g].e \in Enclave
  BY Types DEF IInv, Locals
<1>1. CASE OpenAllocate(g)
  <2>1. /\ pc[g] = "allocate"
        /\ UNCHANGED <<handles, enclaves, calls, key, keyMtx, lock, readers, rekeyer, status>>
    BY <1>1 DEF OpenAllocate, client, locks
  <2>2. CASE /\ NewBuffer("data", None, "zero") /\ my' = [my EXCEPT ![g].b = next]
             /\ pc' = [pc EXCEPT ![g] = "getKey"]
    <3>1. /\ next \in Ids /\ next' = next + 1 /\ list' = list \cup {next} /\ buf' \in [Ids -> Record]
      BY <2>2, Allocated DEF Data
    <3>2. /\ pc'[g] = "getKey" /\ \A h \in Goroutines \ {g} : pc'[h] = pc[h] /\ my'[h] = my[h]
          /\ my' \in [Goroutines -> Locals] /\ my'[g].call = my[g].call /\ my'[g].b = next
          /\ my'[g].c = my[g].c /\ my'[g].k = my[g].k /\ my'[g].missed = my[g].missed
      BY <1>0, <2>2, <3>1 DEF Locals
    <3>3. TypeOK'
      <4>1. next' \in Nat \ {0} /\ list' \in SUBSET Ids /\ pc' \in [Goroutines -> Labels]
        BY <1>0, <2>2, <3>1 DEF IInv, TypeOK, Labels
      <4> QED BY <2>1, <3>1, <3>2, <4>1 DEF IInv, TypeOK, Locals, Record
    <3>4. CallInv'
      BY <3>1, <3>2 DEF IInv, CallInv
    <3>5. pc[g] \notin Special /\ pc'[g] \notin Special /\ "zero" \in Data
      BY <2>1, <3>2 DEF Special, Data
    <3>6. /\ my'[g].c \in {None, my[g].c} /\ my'[g].k \in {None, my[g].k}
          /\ my'[g].b \in {None, my[g].b, next} /\ my'[g].missed \in {0, my[g].missed}
          /\ handles' \in {handles, handles \cup {next}}
      BY <2>1, <3>2
    <3> QED BY <2>1, <2>2, <3>2, <3>3, <3>4, <3>5, <3>6, DataStep
  <2>3. CASE NewBufferPanics(g, "data")
    <3>1. Panic(g) /\ UNCHANGED <<buf, next, list>>
      BY <2>3 DEF NewBufferPanics, memory
    <3> QED BY <1>0, <2>1, <3>1, PanicStep
  <2> QED BY <1>1, <2>2, <2>3 DEF OpenAllocate, Goto
<1>2. CASE Decrypt(g)
  <2>0. pc[g] = "decrypt"
    BY <1>2 DEF Decrypt
  <2>1. CASE /\ Usable(g) /\ buf' = [buf EXCEPT ![my[g].b].data = my[g].e.data] /\ Goto(g, "dropView")
             /\ UNCHANGED <<next, list, client, key, locks, rekeyer, my, status>>
    <3>1. UNCHANGED <<next, list, handles, enclaves, calls, key, keyMtx, lock, readers, rekeyer, my, status>>
      BY <2>1 DEF client, locks
    <3>2. my[g].b \in Ids /\ my[g].e.data \in Data
      BY <1>0, <2>1 DEF Usable, Live, Enclave
    <3>3. /\ buf' \in [Ids -> Record]
          /\ \A i \in Ids : /\ buf'[i].kind = buf[i].kind /\ buf'[i].of = buf[i].of
                            /\ buf'[i].live = buf[i].live
      BY <1>0, <2>1, <3>2 DEF Record
    <3>4. CoffersStay
      BY <3>1, <3>3 DEF CoffersStay
    <3>5. "dropView" \in Labels \ Special
      BY DEF Labels, Special
    <3> QED BY <1>0, <2>0, <2>1, <3>1, <3>2, <3>3, <3>4, <3>5, MoveStep
  <2>2. CASE Return(g) /\ UNCHANGED <<memory, client, key, locks, rekeyer, status>>
    <3>1. UNCHANGED <<buf, next, list, handles, enclaves, calls, key, keyMtx, lock, readers, rekeyer, status>>
      BY <2>2 DEF memory, client, locks
    <3> QED BY <1>0, <2>0, <2>2, <3>1, Untouched, ReturnStep
  <2>3. CASE Panic(g) /\ UNCHANGED <<memory, client, key, locks, rekeyer, status>>
    <3>1. UNCHANGED <<buf, next, list, handles, enclaves, calls, key, keyMtx, lock, readers, rekeyer, status>>
      BY <2>3 DEF memory, client, locks
    <3> QED BY <1>0, <2>0, <2>3, <3>1, PanicStep
  <2> QED BY <1>2, <2>1, <2>2, <2>3, CrashStep DEF Decrypt
<1>3. CASE Opened(g)
  <2>1. /\ pc[g] = "opened" /\ handles' = handles \cup {my[g].b} /\ Return(g)
        /\ UNCHANGED <<buf, next, list, enclaves, calls, key, keyMtx, lock, readers, rekeyer, status>>
    BY <1>3 DEF Opened, memory, locks
  <2>2. handles' \in SUBSET Ids
    BY <1>0, <2>1 DEF IInv, CallInv, Working
  <2> QED BY <1>0, <2>1, <2>2, Untouched, ReturnStep
<1> QED BY <1>1, <1>2, <1>3 DEF OpenStep
-----------------------------------------------------------------------------
(* Buffers go, by the hand of g: no lock changes, and the number, the kind  *)
(* and the owner of what is left stay the same.                             *)
LEMMA FadeStep ==
  ASSUME IInv, NEW g \in Goroutines, pc[g] # "initKey",
         pc'[g] \in {pc[g], "exitCopy", "exitLoop", "exited"},
         \A h \in Goroutines \ {g} : pc'[h] = pc[h] /\ my'[h] = my[h],
         my'[g].c = my[g].c, my'[g].k = my[g].k, my'[g].b = my[g].b, my'[g].missed <= next,
         \A i \in Ids : /\ buf'[i].kind = buf[i].kind /\ buf'[i].of = buf[i].of
                        /\ buf'[i].live => buf[i].live,
         UNCHANGED <<next, handles, key, keyMtx, lock, rekeyer>>
  PROVE  FreshInv' /\ KindInv' /\ MutexInv' /\ KeyInv' /\ HaltInv'
<1> USE Numbers
<1>0. /\ next \in Nat \ {0} /\ key \in Coffers /\ handles \subseteq Ids
      /\ \A i \in Ids : buf[i].of \in Coffers
      /\ \A h \in Goroutines : my[h].c \in Coffers /\ my[h].k \in Coffers /\ my[h].b \in Coffers
  BY DEF IInv, TypeOK
<1>1. FreshInv'
  BY <1>0 DEF IInv, FreshInv
<1>2. KindInv'
  BY <1>0 DEF IInv, KindInv
<1>3. MutexInv' /\ HaltInv'
  BY <1>0 DEF IInv, MutexInv, HaltInv, Live
<1>4. KeyInv'
  BY <1>0 DEF IInv, KeyInv, SingleKey, LiveSet, Live
<1> QED BY <1>1, <1>2, <1>3, <1>4

(* A Purge is alone. *)
LEMMA OnePurge ==
  ASSUME IInv, NEW g \in Goroutines, keyMtx = g
  PROVE  \A h \in Goroutines \ {g} :
           pc[h] \notin {"checkKey", "newKey", "initKey", "purgeKey", "lockKey", "flush", "purgeLoop"}
BY DEF IInv, MutexInv

(* Purge. *)
LEMMA PurgeSteps ==
  ASSUME IInv, UNCHANGED program, NEW g \in Goroutines, PurgeStep(g)
  PROVE  IInv'
<1> USE Numbers, SessionAssumption
<1>0. /\ pc \in [Goroutines -> Labels] /\ my \in [Goroutines -> Locals] /\ key \in Coffers
      /\ readers \in [Ids -> SUBSET Goroutines] /\ next \in Nat
      /\ lock \in [Coffers -> Goroutines \cup {NoG, Ticker}] /\ list \in SUBSET Ids
      /\ \A h \in Goroutines : /\ my[h] \in Locals /\ my[h].c \in Coffers /\ my[h].missed \in Nat
                               /\ my[h].snap \in SUBSET Ids
      /\ buf \in [Ids -> Record] /\ \A i \in Ids : buf[i].of \in Coffers
  BY Types DEF IInv, Locals, Record
<1>1. CASE PurgeLock(g)
  <2>1. /\ pc[g] = "purge" /\ keyMtx = NoG /\ keyMtx' = g /\ pc' = [pc EXCEPT ![g] = "purgeKey"]
        /\ UNCHANGED <<buf, next, list, handles, enclaves, calls, key, lock, readers, rekeyer, my, status>>
    BY <1>1 DEF PurgeLock, Goto, memory, client
  <2>2. pc'[g] = "purgeKey" /\ \A h \in Goroutines \ {g} : pc'[h] = pc[h] /\ my'[h] = my[h]
    BY <1>0, <2>1
  <2>3. TypeOK'
    BY <2>1 DEF IInv, TypeOK, Labels
  <2>4. CallInv'
    BY <2>1, <2>2 DEF IInv, CallInv, Working
  <2>5. FreshInv' /\ KindInv' /\ ListInv' /\ ExitInv' /\ (Exiting => Exiting')
    BY <2>1, <2>2, ControlStep
  <2>6. MutexInv' /\ HaltInv'
    BY <2>1, <2>2 DEF IInv, MutexInv, HaltInv, Live
  <2>7. KeyInv'
    BY <2>1, <2>2 DEF IInv, KeyInv, SingleKey, LiveSet, Live
  <2>8. ViewInv'
    BY <2>1, <2>2, <2>5 DEF IInv, ViewInv, Live
  <2> QED BY <2>3, <2>4, <2>5, <2>6, <2>7, <2>8 DEF IInv
<1>2. CASE PurgeKey(g)
  <2>1. /\ pc[g] = "purgeKey" /\ pc' = [pc EXCEPT ![g] = IF Live(key) THEN "lockKey" ELSE "flush"]
        /\ UNCHANGED <<buf, next, list, handles, enclaves, calls, key, keyMtx, lock, readers, rekeyer, my, status>>
    BY <1>2 DEF PurgeKey, HaltRekey, Goto, memory, client, locks
  <2>2. /\ pc'[g] \in {"lockKey", "flush"} /\ (Live(key) => pc'[g] = "lockKey")
        /\ \A h \in Goroutines \ {g} : pc'[h] = pc[h] /\ my'[h] = my[h]
    BY <1>0, <2>1
  <2>3. TypeOK'
    BY <2>1 DEF IInv, TypeOK, Labels
  <2>4. CallInv'
    BY <2>1, <2>2 DEF IInv, CallInv, Working
  <2>5. FreshInv' /\ KindInv' /\ ListInv' /\ ExitInv' /\ (Exiting => Exiting')
    BY <2>1, <2>2, ControlStep
  <2>6. MutexInv' /\ HaltInv'
    BY <2>1, <2>2 DEF IInv, MutexInv, HaltInv, Live
  <2>7. KeyInv'
    BY <2>1, <2>2 DEF IInv, KeyInv, SingleKey, LiveSet, Live
  <2>8. ViewInv'
    BY <2>1, <2>2, <2>5 DEF IInv, ViewInv, Live
  <2> QED BY <2>3, <2>4, <2>5, <2>6, <2>7, <2>8 DEF IInv
<1>3. CASE PurgeLockKey(g)
  <2>1. /\ pc[g] = "lockKey" /\ lock[key] = NoG /\ lock' = [lock EXCEPT ![key] = g]
        /\ pc' = [pc EXCEPT ![g] = "flush"]
        /\ UNCHANGED <<buf, next, list, handles, enclaves, calls, key, keyMtx, readers, rekeyer, my, status>>
    BY <1>3 DEF PurgeLockKey, Goto, memory, client
  <2>2. /\ pc'[g] = "flush" /\ \A h \in Goroutines \ {g} : pc'[h] = pc[h] /\ my'[h] = my[h]
        /\ lock'[key] = g /\ \A c \in Coffers \ {key} : lock'[c] = lock[c]
    BY <1>0, <2>1
  <2>3. TypeOK'
    BY <1>0, <2>1 DEF IInv, TypeOK, Labels
  <2>4. CallInv'
    BY <2>1, <2>2 DEF IInv, CallInv, Working
  <2>5. FreshInv' /\ KindInv' /\ ListInv' /\ ExitInv' /\ (Exiting => Exiting')
    BY <2>1, <2>2, ControlStep
  <2>6. MutexInv'
    BY <1>0, <2>1, <2>2 DEF IInv, MutexInv
  <2>7. HaltInv'
    BY <2>1, <2>2, OnePurge DEF IInv, HaltInv, MutexInv
  <2>8. KeyInv'
    BY <2>1, <2>2 DEF IInv, KeyInv, SingleKey, LiveSet, Live
  <2>9. ViewInv'
    BY <2>1, <2>2, <2>5 DEF IInv, ViewInv, Live
  <2> QED BY <2>3, <2>4, <2>5, <2>6, <2>7, <2>8, <2>9 DEF IInv
<1>4. CASE PurgeFlush(g)
  <2>1. /\ pc[g] = "flush" /\ my' = [my EXCEPT ![g].snap = list] /\ list' = {}
        /\ pc' = [pc EXCEPT ![g] = "purgeLoop"]
        /\ UNCHANGED <<buf, next, handles, enclaves, calls, key, keyMtx, lock, readers, rekeyer, status>>
    BY <1>4 DEF PurgeFlush, Goto, client, locks
  <2>2. /\ pc'[g] = "purgeLoop" /\ \A h \in Goroutines \ {g} : pc'[h] = pc[h] /\ my'[h] = my[h]
        /\ my' \in [Goroutines -> Locals] /\ my'[g].call = my[g].call /\ my'[g].b = my[g].b
        /\ my'[g].c = my[g].c /\ my'[g].k = my[g].k /\ my'[g].missed = my[g].missed
        /\ my'[g].snap = list
    <3> DEFINE r == [my[g] EXCEPT !.snap = list]
    <3>1. my[g] \in Locals /\ list \in SUBSET Ids
      BY <1>0 DEF IInv, TypeOK
    <3>2. /\ r \in Locals /\ r.call = my[g].call /\ r.b = my[g].b /\ r.c = my[g].c
          /\ r.k = my[g].k /\ r.missed = my[g].missed /\ r.snap = list
      BY <3>1 DEF Locals
    <3>3. my' = [my EXCEPT ![g] = r]
      BY <2>1
    <3> HIDE DEF r
    <3> QED BY <1>0, <2>1, <3>2, <3>3
  <2>3. TypeOK'
    BY <1>0, <2>1, <2>2 DEF IInv, TypeOK, Labels, Locals
  <2>4. CallInv'
    BY <2>1, <2>2 DEF IInv, CallInv, Working
  <2>5. keyMtx = g /\ \A h \in Goroutines \ {g} : pc[h] # "purgeLoop"
    BY <2>1, OnePurge DEF IInv, MutexInv
  <2>6. \A i \in Ids : buf[i].live => i \in my'[g].snap
    BY <2>1, <2>2, <2>5 DEF IInv, ListInv, Purging
  <2>7. FreshInv' /\ KindInv'
    BY <2>1, <2>2 DEF IInv, FreshInv, KindInv
  <2>8. MutexInv' /\ HaltInv'
    BY <2>1, <2>2 DEF IInv, MutexInv, HaltInv, Live
  <2>9. KeyInv'
    BY <2>1, <2>2 DEF IInv, KeyInv, SingleKey, LiveSet, Live
  <2>10. ListInv' /\ ExitInv'
    BY <2>1, <2>2, <2>6 DEF ListInv, ExitInv, Purging
  <2>11. ViewInv'
    <3>1. Exiting => Exiting'
      BY <2>1, <2>2 DEF Exiting
    <3> QED BY <2>1, <2>2, <2>5, <2>6, <3>1 DEF IInv, ViewInv, Live
  <2> QED BY <2>3, <2>4, <2>7, <2>8, <2>9, <2>10, <2>11 DEF IInv
<1>5. CASE PurgeDestroy(g)
  <2> DEFINE x == Min(my[g].snap)
  <2>1. /\ pc[g] = "purgeLoop" /\ buf' = Destroyed(x) /\ my' = [my EXCEPT ![g].snap = @ \ {x}]
        /\ UNCHANGED <<next, list, handles, enclaves, calls, key, keyMtx, lock, readers, rekeyer, pc, status>>
    BY <1>5 DEF PurgeDestroy, client, locks
  <2> HIDE DEF x
  <2>2. /\ buf' \in [Ids -> Record]
        /\ \A i \in Ids : /\ buf'[i].kind = buf[i].kind /\ buf'[i].of = buf[i].of
                          /\ buf'[i].live <=> buf[i].live /\ i # x
    BY <2>1, Gone
  <2>3. /\ pc' = pc /\ \A h \in Goroutines \ {g} : pc'[h] = pc[h] /\ my'[h] = my[h]
        /\ my' \in [Goroutines -> Locals] /\ my'[g].call = my[g].call /\ my'[g].b = my[g].b
        /\ my'[g].c = my[g].c /\ my'[g].k = my[g].k /\ my'[g].missed = my[g].missed
        /\ my'[g].snap = my[g].snap \ {x}
    <3> DEFINE r == [my[g] EXCEPT !.snap = @ \ {x}]
    <3>1. my[g] \in Locals
      BY <1>0
    <3>2. /\ r \in Locals /\ r.call = my[g].call /\ r.b = my[g].b /\ r.c = my[g].c
          /\ r.k = my[g].k /\ r.missed = my[g].missed /\ r.snap = my[g].snap \ {x}
      BY <3>1 DEF Locals
    <3>3. my' = [my EXCEPT ![g] = r]
      BY <2>1
    <3> HIDE DEF r
    <3>4. my' \in [Goroutines -> Locals] /\ my'[g] = r /\ \A h \in Goroutines \ {g} : my'[h] = my[h]
      BY <1>0, <3>2, <3>3
    <3>5. pc' = pc
      BY <2>1
    <3> QED BY <3>2, <3>4, <3>5
  <2>4. TypeOK'
    BY <2>1, <2>2, <2>3 DEF IInv, TypeOK, Locals, Record
  <2>5. CallInv'
    BY <2>1, <2>3 DEF IInv, CallInv
  <2>6. FreshInv' /\ KindInv' /\ MutexInv' /\ KeyInv' /\ HaltInv'
    <3>1. my'[g].missed <= next /\ pc'[g] \in {pc[g], "exitCopy", "exitLoop", "exited"}
          /\ pc[g] # "initKey"
      BY <2>1, <2>3 DEF IInv, FreshInv
    <3>2. \A i \in Ids : /\ buf'[i].kind = buf[i].kind /\ buf'[i].of = buf[i].of
                         /\ buf'[i].live => buf[i].live
      BY <2>2
    <3> QED BY <2>1, <2>3, <3>1, <3>2, FadeStep
  <2>7. \A i \in Ids : buf'[i].live => buf[i].live /\ (Purging(i) => Purging(i)')
    BY <2>2, <2>3 DEF Purging
  <2>8. ListInv' /\ ExitInv'
    BY <2>1, <2>3, <2>7 DEF IInv, ListInv, ExitInv
  <2>9. ViewInv'
    <3> SUFFICES ASSUME ~Exiting, ~Exiting' PROVE ViewInv'
      BY <2>3 DEF ViewInv, Exiting
    <3>1. \A h \in Goroutines : pc'[h] \notin {"newView", "fillView"}
      BY <2>1, <2>3, NoViews
    <3>2. ASSUME NEW i \in Ids, buf'[i].live, buf'[i].kind = "view", NEW h \in Goroutines,
                 pc'[h] = "purgeLoop"
          PROVE  i \in my'[h].snap
      BY <2>2, <2>3, <3>2 DEF IInv, ViewInv
    <3> QED BY <2>1, <3>1, <3>2 DEF ViewInv
  <2> QED BY <2>4, <2>5, <2>6, <2>8, <2>9 DEF IInv
<1>6. CASE PurgeReturn(g)
  <2>1. /\ pc[g] = "purgeLoop" /\ my[g].snap = {} /\ keyMtx' = NoG
        /\ lock' = [i \in DOMAIN lock |-> IF lock[i] = g THEN NoG ELSE lock[i]]
        /\ readers' = [i \in Ids |-> readers[i] \ {g}] /\ my' = [my EXCEPT ![g] = NoLocals]
        /\ pc' = [pc EXCEPT ![g] = IF my[g].panics THEN "panicked" ELSE "idle"]
        /\ UNCHANGED <<buf, next, list, handles, enclaves, calls, key, rekeyer, status>>
    BY <1>6 DEF PurgeReturn, KeyMtxUnlock, Goto, memory, client
  <2>2. /\ pc'[g] \in {"panicked", "idle"} /\ pc' \in [Goroutines -> Labels]
        /\ \A h \in Goroutines \ {g} : pc'[h] = pc[h] /\ my'[h] = my[h]
        /\ my' \in [Goroutines -> Locals] /\ my'[g] = NoLocals
        /\ lock' \in [Coffers -> Goroutines \cup {NoG, Ticker}]
        /\ \A c \in Coffers : lock[c] # g => lock'[c] = lock[c]
    BY <1>0, <2>1, NothingLocal DEF Labels
  <2>3. TypeOK'
    <3>1. readers' \in [Ids -> SUBSET Goroutines]
      BY <1>0, <2>1
    <3> QED BY <2>1, <2>2, <3>1 DEF IInv, TypeOK, Locals
  <2>4. CallInv'
    BY <2>2, NothingLocal DEF IInv, CallInv, Working
  <2>5. keyMtx = g /\ \A h \in Goroutines \ {g} :
          pc[h] \notin {"checkKey", "newKey", "initKey", "purgeKey", "lockKey", "flush", "purgeLoop"}
    BY <2>1, OnePurge DEF IInv, MutexInv
  <2>6. \A i \in Ids : ~Purging(i)
    BY <2>1, <2>5 DEF Purging
  <2>7. FreshInv' /\ KindInv'
    BY <1>0, <2>1, <2>2, NothingLocal DEF IInv, FreshInv, KindInv, None, TypeOK
  <2>8. MutexInv' /\ HaltInv'
    BY <1>0, <2>1, <2>2, <2>5 DEF IInv, MutexInv, HaltInv
  <2>9. KeyInv'
    BY <2>1, <2>2, <2>5 DEF IInv, KeyInv, SingleKey, LiveSet
  <2>10. ListInv' /\ ExitInv'
    BY <2>1, <2>2, <2>6 DEF IInv, ListInv, ExitInv
  <2>11. ViewInv'
    <3>1. Exiting => Exiting'
      BY <2>1, <2>2 DEF Exiting
    <3>2. ~Exiting => \A i \in Ids : ~(buf[i].live /\ buf[i].kind = "view")
      BY <2>1 DEF IInv, ViewInv
    <3> QED BY <2>1, <2>2, <3>1, <3>2 DEF IInv, ViewInv, Live
  <2> QED BY <2>3, <2>4, <2>7, <2>8, <2>9, <2>10, <2>11 DEF IInv
<1> QED BY <1>1, <1>2, <1>3, <1>4, <1>5, <1>6 DEF PurgeStep
-----------------------------------------------------------------------------
(* Exit. *)
LEMMA ExitSteps ==
  ASSUME IInv, UNCHANGED program, NEW g \in Goroutines, ExitStep(g)
  PROVE  IInv'
<1> USE Numbers
<1>0. /\ pc \in [Goroutines -> Labels] /\ my \in [Goroutines -> Locals] /\ key \in Coffers
      /\ next \in Nat /\ list \in SUBSET Ids
      /\ \A h \in Goroutines : my[h].c \in Coffers /\ my[h].missed \in Nat /\ my[h].missed <= next
  BY Types DEF IInv, Locals, FreshInv
<1>1. CASE ExitKey(g)
  <2>1. /\ pc[g] = "exit" /\ my' = [my EXCEPT ![g].c = key] /\ Goto(g, "exitKey")
        /\ UNCHANGED <<buf, next, list, handles, enclaves, calls, key, keyMtx, lock, readers, rekeyer, status>>
    BY <1>1 DEF ExitKey, memory, client, locks
  <2>2. /\ pc'[g] = "exitKey" /\ pc' \in [Goroutines -> Labels]
        /\ \A h \in Goroutines \ {g} : pc'[h] = pc[h] /\ my'[h] = my[h]
        /\ my' \in [Goroutines -> Locals] /\ my'[g].call = my[g].call /\ my'[g].b = my[g].b
        /\ my'[g].c = key /\ my'[g].k = my[g].k /\ my'[g].missed = my[g].missed
    BY <1>0, <2>1 DEF Locals, Goto, Labels
  <2>3. TypeOK'
    BY <2>1, <2>2 DEF IInv, TypeOK, Locals
  <2>4. CallInv'
    BY <2>2 DEF IInv, CallInv, Working
  <2>5. /\ my'[g].c \in {None, key, my[g].c} /\ my'[g].k \in {None, my[g].k}
        /\ my'[g].b \in handles \cup {None, my[g].b} /\ my'[g].missed \in {0, my[g].missed}
        /\ handles' \subseteq handles \cup {my[g].b} /\ "exitKey" \in Labels \ Special
    BY <2>1, <2>2 DEF Labels, Special
  <2> QED BY <2>1, <2>2, <2>3, <2>4, <2>5, Untouched, PrivateStep
<1>2. CASE ExitDestroyKey(g)
  <2>1. /\ pc[g] = "exitKey" /\ buf' = Destroyed(my[g].c) /\ list' = list \ {my[g].c}
        /\ pc' = [pc EXCEPT ![g] = "exitCopy"]
        /\ UNCHANGED <<next, handles, enclaves, calls, key, keyMtx, lock, readers, rekeyer, my, status>>
    BY <1>2 DEF ExitDestroyKey, Goto, client, locks
  <2>2. /\ buf' \in [Ids -> Record]
        /\ \A i \in Ids : /\ buf'[i].kind = buf[i].kind /\ buf'[i].of = buf[i].of
                          /\ buf'[i].live => buf[i].live /\ i # my[g].c
    BY <2>1, Gone
  <2>3. /\ pc'[g] = "exitCopy" /\ pc' \in [Goroutines -> Labels]
        /\ \A h \in Goroutines \ {g} : pc'[h] = pc[h] /\ my'[h] = my[h]
    BY <1>0, <2>1 DEF Labels
  <2>4. TypeOK'
    BY <2>1, <2>2, <2>3 DEF IInv, TypeOK, Record
  <2>5. CallInv'
    BY <2>1, <2>3 DEF IInv, CallInv, Working
  <2>6. FreshInv' /\ KindInv' /\ MutexInv' /\ KeyInv' /\ HaltInv'
    BY <1>0, <2>1, <2>2, <2>3, FadeStep
  <2>7. \A i \in Ids : buf'[i].live => /\ buf[i].live /\ (Purging(i) => Purging(i)')
                                       /\ (i \in list => i \in list')
    BY <2>1, <2>2, <2>3 DEF Purging
  <2>8. ListInv' /\ ExitInv'
    BY <2>1, <2>3, <2>7 DEF IInv, ListInv, ExitInv
  <2>9. ViewInv'
    BY <2>3 DEF ViewInv, Exiting
  <2> QED BY <2>4, <2>5, <2>6, <2>8, <2>9 DEF IInv
<1>3. CASE ExitCopy(g)
  <2>1. /\ pc[g] = "exitCopy" /\ my' = [my EXCEPT ![g].snap = list, ![g].missed = next]
        /\ pc' = [pc EXCEPT ![g] = "exitLoop"]
        /\ UNCHANGED <<buf, next, list, handles, enclaves, calls, key, keyMtx, lock, readers, rekeyer, status>>
    BY <1>3 DEF ExitCopy, ExitSnapshot, Goto, memory, client, locks
  <2>2. /\ pc'[g] = "exitLoop" /\ pc' \in [Goroutines -> Labels]
        /\ \A h \in Goroutines \ {g} : pc'[h] = pc[h] /\ my'[h] = my[h]
        /\ my' \in [Goroutines -> Locals] /\ my'[g].call = my[g].call /\ my'[g].b = my[g].b
        /\ my'[g].c = my[g].c /\ my'[g].k = my[g].k /\ my'[g].missed = next /\ my'[g].snap = list
    <3> DEFINE r == [my[g] EXCEPT !.snap = list, !.missed = next]
    <3>1. my[g] \in Locals /\ list \in SUBSET Ids /\ next \in Nat
      BY <1>0, SessionAssumption DEF IInv, TypeOK, Ids
    <3>2. /\ r \in Locals /\ r.call = my[g].call /\ r.b = my[g].b /\ r.c = my[g].c
          /\ r.k = my[g].k /\ r.missed = next /\ r.snap = list
      BY <3>1 DEF Locals
    <3>3. my' = [my EXCEPT ![g] = r]
      BY <2>1
    <3>4. pc'[g] = "exitLoop" /\ pc' \in [Goroutines -> Labels]
      BY <1>0, <2>1 DEF Labels
    <3> HIDE DEF r
    <3>5. my' \in [Goroutines -> Locals] /\ my'[g] = r /\ \A h \in Goroutines \ {g} : my'[h] = my[h]
      BY <1>0, <3>2, <3>3
    <3>6. \A h \in Goroutines \ {g} : pc'[h] = pc[h]
      BY <1>0, <2>1
    <3> QED BY <3>2, <3>4, <3>5, <3>6
  <2>3. TypeOK'
    BY <2>1, <2>2 DEF IInv, TypeOK, Locals
  <2>4. CallInv'
    BY <2>2 DEF IInv, CallInv, Working
  <2>5. FreshInv' /\ KindInv' /\ MutexInv' /\ KeyInv' /\ HaltInv'
    BY <1>0, <2>1, <2>2, FadeStep
  <2>6. \A i \in Ids : Purging(i) => Purging(i)'
    BY <2>1, <2>2 DEF Purging
  <2>7. ListInv' /\ ExitInv'
    BY <2>1, <2>2, <2>6 DEF IInv, ListInv, ExitInv
  <2>8. ViewInv'
    BY <2>2 DEF ViewInv, Exiting
  <2> QED BY <2>3, <2>4, <2>5, <2>7, <2>8 DEF IInv
<1>4. CASE ExitDestroy(g)
  <2> DEFINE x == Min(my[g].snap)
  <2>1. /\ pc[g] = "exitLoop" /\ buf' = Destroyed(x) /\ list' = list \ {x}
        /\ my' = [my EXCEPT ![g].snap = @ \ {x}]
        /\ UNCHANGED <<next, handles, enclaves, calls, key, keyMtx, lock, readers, rekeyer, pc, status>>
    BY <1>4 DEF ExitDestroy, client, locks
  <2> HIDE DEF x
  <2>2. /\ buf' \in [Ids -> Record]
        /\ \A i \in Ids : /\ buf'[i].kind = buf[i].kind /\ buf'[i].of = buf[i].of
                          /\ buf'[i].live => buf[i].live /\ i # x
    BY <2>1, Gone
  <2>3. /\ pc' = pc /\ \A h \in Goroutines \ {g} : pc'[h] = pc[h] /\ my'[h] = my[h]
        /\ my' \in [Goroutines -> Locals] /\ my'[g].call = my[g].call /\ my'[g].b = my[g].b
        /\ my'[g].c = my[g].c /\ my'[g].k = my[g].k /\ my'[g].missed = my[g].missed
        /\ my'[g].snap = my[g].snap \ {x}
    BY <1>0, <2>1 DEF Locals
  <2>4. TypeOK'
    BY <2>1, <2>2, <2>3 DEF IInv, TypeOK, Locals, Record
  <2>5. CallInv'
    BY <2>1, <2>3 DEF IInv, CallInv
  <2>6. FreshInv' /\ KindInv' /\ MutexInv' /\ KeyInv' /\ HaltInv'
    BY <1>0, <2>1, <2>2, <2>3, FadeStep
  <2>7. \A i \in Ids : buf'[i].live => /\ buf[i].live /\ (Purging(i) => Purging(i)')
                                       /\ (i \in list => i \in list')
    BY <2>1, <2>2, <2>3 DEF Purging
  <2>8. ListInv'
    BY <2>7 DEF IInv, ListInv
  <2>9. ExitInv'
    BY <2>1, <2>2, <2>3, <2>7 DEF IInv, ExitInv
  <2>10. ViewInv'
    BY <2>1 DEF ViewInv, Exiting
  <2> QED BY <2>4, <2>5, <2>6, <2>8, <2>9, <2>10 DEF IInv
<1>5. CASE ExitProcess(g)
  <2>1. /\ pc[g] = "exitLoop" /\ my[g].snap = {} /\ pc' = [pc EXCEPT ![g] = "exited"]
        /\ status' = "exited"
        /\ UNCHANGED <<buf, next, list, handles, enclaves, calls, key, keyMtx, lock, readers, rekeyer, my>>
    BY <1>5 DEF ExitProcess, Goto, memory, client, locks
  <2>2. /\ pc'[g] = "exited" /\ pc' \in [Goroutines -> Labels]
        /\ \A h \in Goroutines \ {g} : pc'[h] = pc[h] /\ my'[h] = my[h]
    BY <1>0, <2>1 DEF Labels
  <2>3. TypeOK'
    BY <2>1, <2>2 DEF IInv, TypeOK
  <2>4. CallInv'
    BY <2>1, <2>2 DEF IInv, CallInv, Working
  <2>5. FreshInv' /\ KindInv' /\ MutexInv' /\ KeyInv' /\ HaltInv'
    BY <1>0, <2>1, <2>2, FadeStep
  <2>6. \A i \in Ids : Purging(i) => Purging(i)'
    BY <2>1, <2>2 DEF Purging
  <2>7. ListInv' /\ ExitInv'
    BY <2>1, <2>2, <2>6 DEF IInv, ListInv, ExitInv
  <2>8. ViewInv'
    BY <2>2 DEF ViewInv, Exiting
  <2> QED BY <2>3, <2>4, <2>5, <2>7, <2>8 DEF IInv
<1> QED BY <1>1, <1>2, <1>3, <1>4, <1>5 DEF ExitStep

-----------------------------------------------------------------------------
(* The re-key goroutine of a coffer takes a mutex that is free, and gives   *)
(* back only its own.                                                       *)
LEMMA RekeySteps ==
  ASSUME IInv, UNCHANGED program, NEW c \in Ids, RekeyStep(c)
  PROVE  IInv'
<1> USE Numbers, SessionAssumption
<1>0. /\ key \in Coffers /\ c \in Coffers
      /\ lock \in [Coffers -> Goroutines \cup {NoG, Ticker}]
      /\ rekeyer \in [Coffers -> {"none", "waiting", "rekeying", "stopped"}]
      /\ \A h \in Goroutines : my[h].c \in Coffers
  BY DEF IInv, TypeOK
<1>1. ASSUME UNCHANGED <<buf, next, list, handles, enclaves, calls, key, keyMtx, readers, pc, my, status>>,
             lock[c] \in {NoG, Ticker},
             lock' \in {lock, [lock EXCEPT ![c] = Ticker], [lock EXCEPT ![c] = NoG]},
             NEW r \in {"waiting", "rekeying", "stopped"}, rekeyer' = [rekeyer EXCEPT ![c] = r],
             r = "rekeying" => lock'[c] = Ticker
      PROVE  IInv'
  <2>1. /\ lock' \in [Coffers -> Goroutines \cup {NoG, Ticker}]
        /\ rekeyer' \in [Coffers -> {"none", "waiting", "rekeying", "stopped"}]
        /\ \A d \in Coffers \ {c} : lock'[d] = lock[d] /\ rekeyer'[d] = rekeyer[d]
        /\ rekeyer'[c] = r
    BY <1>0, <1>1
  <2>2. TypeOK'
    BY <1>1, <2>1 DEF IInv, TypeOK
  <2>3. CallInv' /\ FreshInv' /\ KindInv' /\ ListInv'
    BY <1>1 DEF IInv, CallInv, FreshInv, KindInv, ListInv, Purging
  <2>4. MutexInv'
    BY <1>0, <1>1, <2>1 DEF IInv, MutexInv
  <2>5. HaltInv'
    BY <1>0, <1>1, <2>1 DEF IInv, HaltInv, Live
  <2>6. KeyInv' /\ ViewInv' /\ ExitInv'
    BY <1>1 DEF IInv, KeyInv, SingleKey, LiveSet, ViewInv, ExitInv, Exiting, Purging, Live
  <2> QED BY <2>2, <2>3, <2>4, <2>5, <2>6 DEF IInv
<1>2. CASE RekeyBegin(c)
  <2>1. /\ lock[c] = NoG
        /\ UNCHANGED <<buf, next, list, handles, enclaves, calls, key, keyMtx, readers, pc, my, status>>
    BY <1>2 DEF RekeyBegin, memory, client
  <2>2. CASE lock' = [lock EXCEPT ![c] = Ticker] /\ rekeyer' = [rekeyer EXCEPT ![c] = "rekeying"]
    BY <1>0, <1>1, <2>1, <2>2
  <2>3. CASE UNCHANGED lock /\ rekeyer' = [rekeyer EXCEPT ![c] = "stopped"]
    BY <1>0, <1>1, <2>1, <2>3
  <2> QED BY <1>2, <2>2, <2>3 DEF RekeyBegin
<1>3. CASE RekeyEnd(c)
  <2>1. CASE /\ lock' = [lock EXCEPT ![c] = NoG] /\ rekeyer' = [rekeyer EXCEPT ![c] = "waiting"]
             /\ UNCHANGED <<memory, client, key, keyMtx, readers, pc, my, status>>
    <3>1. lock[c] = Ticker
      BY <1>3 DEF RekeyEnd, IInv, MutexInv
    <3>2. UNCHANGED <<buf, next, list, handles, enclaves, calls, key, keyMtx, readers, pc, my, status>>
      BY <2>1 DEF memory, client
    <3> QED BY <1>0, <1>1, <2>1, <3>1, <3>2
  <2> QED BY <1>3, <2>1, CrashStep DEF RekeyEnd
<1> QED BY <1>2, <1>3 DEF RekeyStep

(* A call that panicked and was recovered from. *)
LEMMA RecoverStep ==
  ASSUME IInv, UNCHANGED program, NEW g \in Goroutines, Recover(g)
  PROVE  IInv'
<1>1. /\ pc[g] = "panicked" /\ Return(g)
      /\ UNCHANGED <<buf, next, list, handles, enclaves, calls, key, keyMtx, lock, readers, rekeyer, status>>
  BY DEF Recover, memory, client, locks
<1>2. /\ buf \in [Ids -> Record] /\ list \in SUBSET Ids /\ handles \in SUBSET Ids
      /\ enclaves \in SUBSET Enclave /\ readers \in [Ids -> SUBSET Goroutines]
  BY Types DEF IInv
<1> QED BY <1>1, <1>2, Untouched, ReturnStep

-----------------------------------------------------------------------------
(* The invariant is inductive: every statement of every goroutine keeps it. *)
LEMMA Inductive == IInv /\ [Next]_vars => IInv'
<1> SUFFICES ASSUME IInv, [Next]_vars PROVE IInv'
  OBVIOUS
<1>1. ASSUME NEW g \in Goroutines, Run(g) PROVE IInv'
  <2>1. UNCHANGED program /\ (Call(g) \/ Step(g))
    BY <1>1 DEF Run
  <2> QED BY <2>1, CallStep, KeySteps, ViewSteps, SealSteps, OpenSteps, PurgeSteps, ExitSteps,
             RecoverStep DEF Step
<1>2. ASSUME NEW c \in Ids, Rekey(c) PROVE IInv'
  BY <1>2, RekeySteps DEF Rekey
<1>3. CASE UNCHANGED vars
  <2>1. UNCHANGED <<buf, next, list, handles, enclaves, key, keyMtx, lock, readers,
                    rekeyer, pc, my, calls, status, program>>
    BY <1>3 DEF vars
  <2>2. TypeOK' /\ CallInv' /\ FreshInv' /\ KindInv' /\ MutexInv' /\ ListInv' /\ HaltInv'
    BY <2>1 DEF IInv, TypeOK, CallInv, FreshInv, KindInv, MutexInv, ListInv, Purging, HaltInv, Live
  <2>3. KeyInv' /\ ViewInv' /\ ExitInv'
    BY <2>1 DEF IInv, KeyInv, SingleKey, LiveSet, ViewInv, ExitInv, Exiting, Purging, Live
  <2> QED BY <2>2, <2>3 DEF IInv
<1> QED BY <1>1, <1>2, <1>3 DEF Next

(* IInv holds in every state, whatever the goroutines call and however      *)
(* their statements interleave.                                             *)
THEOREM Invariance == Spec => []IInv
BY InitEstablishes, Inductive, PTL DEF Spec

(* No Buffer escapes Purge (core/exit.go:30-53): a live one is in the list  *)
(* or in the snapshot of a Purge at work, and the state is well typed.      *)
THEOREM NothingEscapes == Spec => []Tracked
<1>1. IInv => Tracked
  BY DEF IInv, ListInv, Tracked, LiveSet
<1> QED BY <1>1, Invariance, PTL

(* There is one session key (core/enclave.go:13-22), however many calls     *)
(* create it and however many Purges take it away meanwhile.                *)
THEOREM OneKey == Spec => []SingleKey
<1>1. IInv => SingleKey
  BY DEF IInv, KeyInv
<1> QED BY <1>1, Invariance, PTL

(* A finished Purge leaves no copy of an old key (core/exit.go:11-53).      *)
THEOREM PurgeForgets == Spec => []OldKeysGone
<1>1. ASSUME IInv, keyMtx = NoG, ~Exiting, NEW i \in LiveSet, buf[i].kind = "view"
      PROVE  Live(buf[i].of)
  <2>1. \A g \in Goroutines : pc[g] # "purgeLoop"
    BY <1>1, SessionAssumption DEF IInv, MutexInv
  <2> QED BY <1>1, <2>1 DEF IInv, ViewInv, LiveSet
<1>2. IInv => OldKeysGone
  BY <1>1 DEF OldKeysGone
<1> QED BY <1>2, Invariance, PTL

(* When Exit ends the process (core/exit.go:65-79), what is left was made   *)
(* after its snapshot or belongs to a Purge at work.                        *)
THEOREM ExitDestroysAll == Spec => []ExitCovers
<1>1. IInv => ExitCovers
  BY DEF IInv, ExitInv, ExitCovers, LiveSet
<1> QED BY <1>1, Invariance, PTL

-----------------------------------------------------------------------------
(* What the calls may rely on besides the session's own state: whose buffer *)
(* is whose.                                                                *)

(* The buffer of g's call is known to nobody else. *)
Own(g) == my[g].b \notin handles /\ \A h \in Goroutines \ {g} : my[h].b # my[g].b

(* A call works on a buffer of its own, or on one that the program handed   *)
(* to it.                                                                   *)
OwnsInv(g) ==
  /\ my[g].call = "Open" /\ my[g].b # None => Own(g)
  /\ my[g].call = "Seal" => Own(g) \/ ("Seal" \in program.calls[g] /\ my[g].b \in handles)
  /\ my[g].call = "Destroy" => "Destroy" \in program.calls[g] /\ my[g].b \in handles
  /\ pc[g] = "destroy" => my[g].call \in {"Seal", "Destroy"}
  /\ pc[g] \in {"allocate", "decrypt"} => my[g].call = "Open"
  /\ pc[g] = "encrypt" => my[g].call # "Open"

OwnInv == \A g \in Goroutines : OwnsInv(g)

(* It is g's turn, and nobody else's. *)
Turn(g) == \A h \in Goroutines \ {g} : pc'[h] = pc[h] /\ my'[h] = my[h]

(* A turn of g: a buffer that g gets is new or the program's, so nobody     *)
(* loses one.                                                               *)
LEMMA OwnStep ==
  ASSUME IInv, OwnInv, UNCHANGED program, NEW g \in Goroutines, Turn(g),
         handles \subseteq handles', handles' \subseteq handles \cup {next, my[g].b},
         \/ my'[g].call = my[g].call /\ my'[g].b = my[g].b /\ handles' = handles
         \/ my'[g].call \notin {"Open", "Seal", "Destroy"} /\ my'[g].b = None
         \/ my'[g].call = "Open" /\ my'[g].b = None
         \/ my'[g].call \in {"Open", "Seal"} /\ my'[g].b = next /\ handles' = handles
         \/ /\ my'[g].call \in {"Seal", "Destroy"} \cap program.calls[g]
            /\ my'[g].b \in handles,
         pc'[g] = "destroy" => my'[g].call \in {"Seal", "Destroy"},
         pc'[g] \in {"allocate", "decrypt"} => my'[g].call = "Open",
         pc'[g] = "encrypt" => my'[g].call # "Open"
  PROVE  OwnInv'
<1> USE Numbers
<1>0. /\ \A h \in Goroutines : my[h].b \in Coffers /\ my[h].b < next
      /\ next \in Nat /\ next # None /\ None \notin handles /\ next \notin handles
  BY DEF IInv, TypeOK, FreshInv, None
<1>1. my'[g].b \in handles \cup {None, next, my[g].b}
  OBVIOUS
<1>2. \A h \in Goroutines : my[h].b # next
  BY <1>0
<1>3. ASSUME NEW h \in Goroutines \ {g} PROVE OwnsInv(h)'
  <2>1. pc'[h] = pc[h] /\ my'[h] = my[h]
    BY DEF Turn
  <2>2. ASSUME Own(h), my[h].b # None PROVE Own(h)'
    <3>1. my[h].b # my[g].b
      BY <2>2 DEF Own
    <3>2. my[h].b \notin handles'
      BY <1>2, <2>2, <3>1 DEF Own
    <3>3. my[h].b # my'[g].b
      BY <1>1, <1>2, <2>2, <3>1 DEF Own
    <3> QED BY <2>1, <2>2, <3>2, <3>3 DEF Own, Turn
  <2>3. my[h].call = "Seal" => my[h].b # None
    BY DEF IInv, CallInv
  <2> QED BY <2>1, <2>2, <2>3 DEF OwnInv, OwnsInv
<1>4. OwnsInv(g)'
  <2>1. CASE my'[g].call = my[g].call /\ my'[g].b = my[g].b /\ handles' = handles
    <3>1. Own(g) <=> Own(g)'
      BY <2>1 DEF Own, Turn
    <3> QED BY <2>1, <3>1 DEF OwnInv, OwnsInv
  <2>2. CASE my'[g].call \notin {"Open", "Seal", "Destroy"} \/ (my'[g].call = "Open" /\ my'[g].b = None)
    BY <2>2 DEF OwnsInv
  <2>3. CASE my'[g].call \in {"Open", "Seal"} /\ my'[g].b = next /\ handles' = handles
    <3>1. Own(g)'
      BY <1>0, <1>2, <2>3 DEF Own, Turn
    <3> QED BY <2>3, <3>1 DEF OwnsInv
  <2>4. CASE my'[g].call \in {"Seal", "Destroy"} \cap program.calls[g] /\ my'[g].b \in handles
    BY <2>4 DEF OwnsInv
  <2> QED BY <2>1, <2>2, <2>3, <2>4
<1> QED BY <1>3, <1>4 DEF OwnInv

(* Panic keeps the call's variables. *)
LEMMA Panicked ==
  ASSUME IInv, NEW g \in Goroutines, Panic(g)
  PROVE  /\ Turn(g) /\ pc'[g] = "purge" /\ my'[g].call = my[g].call /\ my'[g].b = my[g].b
         /\ my'[g].e = my[g].e
<1>1. pc \in [Goroutines -> Labels] /\ my \in [Goroutines -> Locals] /\ my[g] \in Locals
  BY Types DEF IInv
<1>2. [my[g] EXCEPT !.panics = TRUE].call = my[g].call /\ [my[g] EXCEPT !.panics = TRUE].b = my[g].b
      /\ [my[g] EXCEPT !.panics = TRUE].e = my[g].e
  BY <1>1 DEF Locals
<1> QED BY <1>1, <1>2 DEF Panic, Goto, Turn

(* A turn that ends at label l with variables r. *)
LEMMA Turned ==
  ASSUME IInv, NEW g \in Goroutines, NEW l, NEW r, Goto(g, l), my' = [my EXCEPT ![g] = r]
  PROVE  Turn(g) /\ pc'[g] = l /\ my'[g] = r
BY Types DEF IInv, Goto, Turn

(* A turn that ends at label l with the variables as they were. *)
LEMMA Moved ==
  ASSUME IInv, NEW g \in Goroutines, NEW l, Goto(g, l), my' = my
  PROVE  Turn(g) /\ pc'[g] = l /\ my'[g] = my[g]
BY Types DEF IInv, Goto, Turn

(* A turn that sets one variable of g and leaves the others. *)
LEMMA SetC ==
  ASSUME IInv, NEW g \in Goroutines, NEW x, my' = [my EXCEPT ![g].c = x]
  PROVE  /\ my'[g].c = x /\ my'[g].k = my[g].k /\ my'[g].b = my[g].b /\ my'[g].e = my[g].e
         /\ my'[g].call = my[g].call /\ my'[g].panics = my[g].panics
<1>1. my \in [Goroutines -> Locals] /\ my[g] \in Locals
  BY Types DEF IInv
<1>2. my'[g] = [my[g] EXCEPT !.c = x]
  BY <1>1
<1> QED BY <1>1, <1>2 DEF Locals

LEMMA SetK ==
  ASSUME IInv, NEW g \in Goroutines, NEW x, my' = [my EXCEPT ![g].k = x]
  PROVE  /\ my'[g].k = x /\ my'[g].c = my[g].c /\ my'[g].b = my[g].b /\ my'[g].e = my[g].e
         /\ my'[g].call = my[g].call /\ my'[g].panics = my[g].panics
<1>1. my \in [Goroutines -> Locals] /\ my[g] \in Locals
  BY Types DEF IInv
<1>2. my'[g] = [my[g] EXCEPT !.k = x]
  BY <1>1
<1> QED BY <1>1, <1>2 DEF Locals

LEMMA SetB ==
  ASSUME IInv, NEW g \in Goroutines, NEW x, my' = [my EXCEPT ![g].b = x]
  PROVE  /\ my'[g].b = x /\ my'[g].c = my[g].c /\ my'[g].k = my[g].k /\ my'[g].e = my[g].e
         /\ my'[g].call = my[g].call /\ my'[g].panics = my[g].panics
<1>1. my \in [Goroutines -> Locals] /\ my[g] \in Locals
  BY Types DEF IInv
<1>2. my'[g] = [my[g] EXCEPT !.b = x]
  BY <1>1
<1> QED BY <1>1, <1>2 DEF Locals

LEMMA SetE ==
  ASSUME IInv, NEW g \in Goroutines, NEW x, my' = [my EXCEPT ![g].e = x]
  PROVE  /\ my'[g].e = x /\ my'[g].c = my[g].c /\ my'[g].k = my[g].k /\ my'[g].b = my[g].b
         /\ my'[g].call = my[g].call /\ my'[g].panics = my[g].panics
<1>1. my \in [Goroutines -> Locals] /\ my[g] \in Locals
  BY Types DEF IInv
<1>2. my'[g] = [my[g] EXCEPT !.e = x]
  BY <1>1
<1> QED BY <1>1, <1>2 DEF Locals

(* So does Return, to nothing. *)
LEMMA Returned ==
  ASSUME IInv, NEW g \in Goroutines, Return(g)
  PROVE  Turn(g) /\ pc'[g] = "idle" /\ my'[g] = NoLocals
BY Turned DEF Return

(* Where a turn sets a variable, the others are left alone too. *)
LEMMA OneTurn ==
  ASSUME IInv, NEW g \in Goroutines, NEW l, Goto(g, l), NEW x,
         \/ my' = [my EXCEPT ![g].c = x] \/ my' = [my EXCEPT ![g].k = x]
         \/ my' = [my EXCEPT ![g].b = x] \/ my' = [my EXCEPT ![g].e = x]
  PROVE  Turn(g) /\ pc'[g] = l
BY Types DEF IInv, Goto, Turn

(* A call of the program starts with nothing, with an enclave, or with one  *)
(* of the program's buffers.                                                *)
LEMMA Begun ==
  ASSUME IInv, NEW g \in Goroutines, Call(g)
  PROVE  \/ CallNewBuffer(g) \/ CallNewEnclaveRandom(g)
         \/ /\ Turn(g) /\ pc[g] = "idle" /\ my'[g].b = None /\ my'[g].k = None /\ my'[g].c = None
            /\ \/ /\ "NewEnclave" \in program.calls[g] /\ pc'[g] = "getKey"
                  /\ my'[g].call = "NewEnclave" /\ ~my'[g].panics
               \/ /\ "Purge" \in program.calls[g] /\ pc'[g] = "purge" /\ my'[g].call = "Purge"
               \/ /\ "SafePanic" \in program.calls[g] /\ pc'[g] = "purge" /\ my'[g].call = "SafePanic"
               \/ /\ "Exit" \in program.calls[g] /\ pc'[g] = "exit" /\ my'[g].call = "Exit"
               \/ /\ my'[g].e \in enclaves /\ pc'[g] = "allocate" /\ my'[g].call = "Open"
                  /\ ~my'[g].panics
            /\ UNCHANGED <<buf, next, list, handles, enclaves, key, keyMtx, lock, readers, rekeyer, status>>
         \/ /\ Turn(g) /\ pc[g] = "idle" /\ my'[g].b \in handles /\ my'[g].k = None /\ my'[g].c = None
            /\ ~my'[g].panics
            /\ \/ /\ "Seal" \in program.calls[g] /\ pc'[g] = "melt" /\ my'[g].call = "Seal"
                  /\ Live(my'[g].b)
               \/ /\ "Destroy" \in program.calls[g] /\ pc'[g] = "destroy" /\ my'[g].call = "Destroy"
            /\ UNCHANGED <<buf, next, list, handles, enclaves, key, keyMtx, lock, readers, rekeyer, status>>
<1>0. ASSUME NEW name, NEW l, NEW r, Begin(g, name, l, r)
      PROVE  /\ Turn(g) /\ pc[g] = "idle" /\ pc'[g] = l /\ my'[g] = r /\ name \in program.calls[g]
             /\ UNCHANGED <<buf, next, list, handles, enclaves, key, keyMtx, lock, readers, rekeyer, status>>
  <2>1. Goto(g, l) /\ my' = [my EXCEPT ![g] = r]
    BY <1>0 DEF Begin
  <2> QED BY <1>0, <2>1, Turned DEF Begin, memory, locks
<1>1. CASE CallNewEnclave(g)
  <2>1. Begin(g, "NewEnclave", "getKey", [NoLocals EXCEPT !.call = "NewEnclave"])
    BY <1>1 DEF CallNewEnclave
  <2>2. my'[g] = [NoLocals EXCEPT !.call = "NewEnclave"]
    BY <2>1, <1>0
  <2>3. /\ my'[g].call = "NewEnclave" /\ ~my'[g].panics /\ my'[g].b = None /\ my'[g].k = None
        /\ my'[g].c = None
    BY <2>2 DEF NoLocals
  <2> QED BY <2>1, <2>3, <1>0
<1>2. CASE CallSeal(g)
  <2>1. PICK b \in handles :
          /\ Sealable(b)
          /\ Begin(g, "Seal", "melt", [NoLocals EXCEPT !.call = "Seal", !.b = b])
    BY <1>2 DEF CallSeal
  <2>2. my'[g] = [NoLocals EXCEPT !.call = "Seal", !.b = b]
    BY <2>1, <1>0
  <2>3. /\ my'[g].call = "Seal" /\ ~my'[g].panics /\ my'[g].b = b /\ my'[g].k = None
        /\ my'[g].c = None
    BY <2>2 DEF NoLocals
  <2> QED BY <2>1, <2>3, <1>0 DEF Sealable
<1>3. CASE CallOpen(g)
  <2>1. PICK e \in enclaves :
          Begin(g, "Open", "allocate", [NoLocals EXCEPT !.call = "Open", !.e = e])
    BY <1>3 DEF CallOpen
  <2>2. my'[g] = [NoLocals EXCEPT !.call = "Open", !.e = e]
    BY <2>1, <1>0
  <2>3. /\ my'[g].call = "Open" /\ ~my'[g].panics /\ my'[g].b = None /\ my'[g].k = None
        /\ my'[g].c = None /\ my'[g].e = e
    BY <2>2 DEF NoLocals
  <2> QED BY <2>1, <2>3, <1>0
<1>4. CASE CallDestroy(g)
  <2>1. PICK b \in handles :
          Begin(g, "Destroy", "destroy", [NoLocals EXCEPT !.call = "Destroy", !.b = b])
    BY <1>4 DEF CallDestroy
  <2>2. my'[g] = [NoLocals EXCEPT !.call = "Destroy", !.b = b]
    BY <2>1, <1>0
  <2>3. /\ my'[g].call = "Destroy" /\ ~my'[g].panics /\ my'[g].b = b /\ my'[g].k = None
        /\ my'[g].c = None
    BY <2>2 DEF NoLocals
  <2> QED BY <2>1, <2>3, <1>0
<1>5. CASE CallPurge(g)
  <2>1. Begin(g, "Purge", "purge", [NoLocals EXCEPT !.call = "Purge"])
    BY <1>5 DEF CallPurge
  <2>2. my'[g] = [NoLocals EXCEPT !.call = "Purge"]
    BY <2>1, <1>0
  <2>3. my'[g].call = "Purge" /\ my'[g].b = None /\ my'[g].k = None /\ my'[g].c = None
    BY <2>2 DEF NoLocals
  <2> QED BY <2>1, <2>3, <1>0
<1>6. CASE CallSafePanic(g)
  <2>1. Begin(g, "SafePanic", "purge", [NoLocals EXCEPT !.call = "SafePanic", !.panics = TRUE])
    BY <1>6 DEF CallSafePanic
  <2>2. my'[g] = [NoLocals EXCEPT !.call = "SafePanic", !.panics = TRUE]
    BY <2>1, <1>0
  <2>3. my'[g].call = "SafePanic" /\ my'[g].b = None /\ my'[g].k = None /\ my'[g].c = None
    BY <2>2 DEF NoLocals
  <2> QED BY <2>1, <2>3, <1>0
<1>7. CASE CallExit(g)
  <2>1. Begin(g, "Exit", "exit", [NoLocals EXCEPT !.call = "Exit"])
    BY <1>7 DEF CallExit
  <2>2. my'[g] = [NoLocals EXCEPT !.call = "Exit"]
    BY <2>1, <1>0
  <2>3. my'[g].call = "Exit" /\ my'[g].b = None /\ my'[g].k = None /\ my'[g].c = None
    BY <2>2 DEF NoLocals
  <2> QED BY <2>1, <2>3, <1>0
<1> QED BY <1>1, <1>2, <1>3, <1>4, <1>5, <1>6, <1>7 DEF Call

(* Where a call needs the key and works up to it. *)
UsesKey == {"getKey", "checkKey", "newKey", "initKey", "view", "newView", "fillView", "encrypt"}

(* The labels of Purge, Panic and Exit. *)
Ending == {"purge", "purgeKey", "lockKey", "flush", "purgeLoop", "panicked",
           "exit", "exitKey", "exitCopy", "exitLoop", "exited"}

(* The call, its buffer and its enclave are what they were. *)
SameCall(g) == my'[g].call = my[g].call /\ my'[g].b = my[g].b /\ my'[g].e = my[g].e

(* Buffers may go, but none that is being read, and no other one changes.   *)
KeptBuffers ==
  \A i \in Ids \ {next} :
    /\ buf'[i].live => buf[i].live /\ buf'[i].data = buf[i].data
    /\ buf[i].kind = "data" /\ readers[i] # {} => buf'[i].data = buf[i].data

(* The readers but g stay. *)
KeptReaders(g) == \A i \in Ids : readers[i] \ {g} \subseteq readers'[i]

(* NewBuffer touches no other buffer. *)
LEMMA Fresh ==
  ASSUME IInv, NEW kind, NEW coffer, NEW d, NewBuffer(kind, coffer, d)
  PROVE  /\ next \in Ids /\ ~buf[next].live /\ next' = next + 1
         /\ buf'[next] = [live |-> TRUE, kind |-> kind, of |-> coffer, data |-> d]
         /\ \A i \in Ids \ {next} : buf'[i] = buf[i]
<1>1. buf \in [Ids -> Record] /\ next \in Ids
  BY DEF IInv, TypeOK, Record, NewBuffer
<1>2. ~buf[next].live
  BY <1>1, Numbers DEF IInv, FreshInv
<1> QED BY <1>1, <1>2 DEF NewBuffer

(* Destroyed(x) takes x away and no other buffer. *)
LEMMA Taken ==
  ASSUME IInv, NEW x, buf' = Destroyed(x)
  PROVE  /\ \A i \in Ids \ {x} : buf'[i] = buf[i]
         /\ x \in Ids => ~buf'[x].live /\ buf'[x].kind = buf[x].kind
<1>1. \A i \in Ids \ {x} : buf'[i] = buf[i]
  BY DEF Destroyed, IInv, TypeOK
<1>2. x \in Ids => ~buf'[x].live /\ buf'[x].kind = buf[x].kind
  BY Gone
<1> QED BY <1>1, <1>2

(* A destroyed buffer that nobody reads, or that is no data buffer. *)
LEMMA TakenUnread ==
  ASSUME IInv, NEW x, buf' = Destroyed(x), x \in Ids => readers[x] = {} \/ buf[x].kind # "data"
  PROVE  KeptBuffers
<1>1. /\ \A i \in Ids \ {x} : buf'[i] = buf[i]
      /\ x \in Ids => ~buf'[x].live /\ buf'[x].kind = buf[x].kind
  BY Taken
<1> QED BY <1>1 DEF KeptBuffers

(* Getting the key, and a view of it. *)
LEMMA LookedUp ==
  ASSUME IInv, NEW g \in Goroutines, KeyStep(g) \/ ViewStep(g)
  PROVE  /\ Turn(g) /\ SameCall(g) /\ UNCHANGED <<handles, enclaves>>
         /\ KeptBuffers
         /\ pc[g] \in UsesKey \ {"encrypt"}
         /\ pc'[g] \in UsesKey \cup {"purge", "decrypt"}
         /\ pc'[g] = "decrypt" => my[g].call = "Open"
         /\ pc'[g] = "encrypt" => my[g].call # "Open"
         /\ pc'[g] # "purge" => UNCHANGED readers
         /\ KeptReaders(g)
<1> USE DEF SameCall, KeptReaders, KeptBuffers
<1>0. ASSUME Crash, pc[g] \in UsesKey \ {"encrypt"}
      PROVE  /\ Turn(g) /\ SameCall(g) /\ UNCHANGED <<handles, enclaves, readers, pc>>
             /\ \A i \in Ids \ {next} : buf'[i] = buf[i]
             /\ KeptReaders(g)
  BY <1>0 DEF Crash, Turn, memory, client, locks
<1>p. ASSUME NEW kind, NewBufferPanics(g, kind), UNCHANGED <<client, locks>>
      PROVE  /\ Turn(g) /\ SameCall(g) /\ UNCHANGED <<handles, enclaves, readers>> /\ pc'[g] = "purge"
             /\ KeptReaders(g) /\ \A i \in Ids \ {next} : buf'[i] = buf[i]
  <2>1. Panic(g) /\ UNCHANGED <<buf, handles, enclaves, readers>>
    BY <1>p DEF NewBufferPanics, memory, client, locks
  <2>2. KeptReaders(g) /\ \A i \in Ids \ {next} : buf'[i] = buf[i]
    BY <2>1
  <2> QED BY <2>1, <2>2, Panicked
<1>1. CASE KeyLock(g)
  <2>1. Goto(g, "checkKey") /\ my' = my /\ pc[g] = "getKey" /\ UNCHANGED <<buf, handles, enclaves, readers>>
    BY <1>1 DEF KeyLock, memory, client
  <2>2. Turn(g) /\ pc'[g] = "checkKey" /\ my'[g] = my[g]
    BY <2>1, Moved
  <2> QED BY <2>1, <2>2 DEF UsesKey
<1>2. CASE KeyCheck(g)
  <2>1. pc[g] = "checkKey" /\ UNCHANGED <<buf, handles, enclaves, readers>>
    BY <1>2 DEF KeyCheck, memory, client
  <2>2. CASE my' = [my EXCEPT ![g].c = key] /\ Goto(g, "view")
    <3>1. Turn(g) /\ pc'[g] = "view" /\ SameCall(g)
      BY <2>2, OneTurn, SetC
    <3> QED BY <2>1, <3>1 DEF UsesKey
  <2>3. CASE Goto(g, "newKey") /\ my' = my
    <3>1. Turn(g) /\ pc'[g] = "newKey" /\ my'[g] = my[g]
      BY <2>3, Moved
    <3> QED BY <2>1, <3>1 DEF UsesKey
  <2> QED BY <1>2, <2>2, <2>3 DEF KeyCheck
<1>3. CASE KeyNew(g)
  <2>1. pc[g] = "newKey" /\ UNCHANGED <<handles, enclaves, readers, client, locks>>
    BY <1>3 DEF KeyNew, client, locks
  <2>2. CASE NewBuffer("coffer", next, "zero") /\ my' = [my EXCEPT ![g].c = next] /\ Goto(g, "initKey")
    <3>1. Turn(g) /\ pc'[g] = "initKey" /\ SameCall(g)
      BY <2>2, OneTurn, SetC
    <3> QED BY <2>1, <2>2, <3>1, Fresh DEF UsesKey
  <2>3. CASE NewBufferPanics(g, "coffer")
    BY <2>1, <2>3, <1>p DEF UsesKey
  <2> QED BY <1>3, <2>2, <2>3 DEF KeyNew
<1>4. CASE KeyInit(g)
  <2>1. pc[g] = "initKey"
    BY <1>4 DEF KeyInit
  <2>2. CASE Goto(g, "view") /\ my' = my /\ UNCHANGED <<memory, client, readers>>
    <3>1. Turn(g) /\ pc'[g] = "view" /\ my'[g] = my[g]
      BY <2>2, Moved
    <3> QED BY <2>1, <2>2, <3>1 DEF UsesKey, memory, client
  <2>3. CASE Crash
    BY <2>1, <2>3, <1>0 DEF UsesKey
  <2> QED BY <1>4, <2>2, <2>3 DEF KeyInit
<1>5. CASE ViewLock(g)
  <2>1. pc[g] = "view" /\ UNCHANGED <<buf, handles, enclaves>>
    BY <1>5 DEF ViewLock, memory, client
  <2>2. CASE Goto(g, "newView") /\ my' = my /\ UNCHANGED readers
    <3>1. Turn(g) /\ pc'[g] = "newView" /\ my'[g] = my[g]
      BY <2>2, Moved
    <3> QED BY <2>1, <2>2, <3>1 DEF UsesKey
  <2>3. CASE Panic(g) /\ readers' = [i \in Ids |-> readers[i] \ {g}]
    <3>1. Turn(g) /\ pc'[g] = "purge" /\ SameCall(g)
      BY <2>3, Panicked
    <3> QED BY <2>1, <2>3, <3>1 DEF UsesKey
  <2> QED BY <1>5, <2>2, <2>3 DEF ViewLock
<1>6. CASE ViewNew(g)
  <2>1. pc[g] = "newView" /\ UNCHANGED <<handles, enclaves, readers, client, locks>>
    BY <1>6 DEF ViewNew, client, locks
  <2>2. CASE NewBuffer("view", my[g].c, "zero") /\ my' = [my EXCEPT ![g].k = next] /\ Goto(g, "fillView")
    <3>1. Turn(g) /\ pc'[g] = "fillView" /\ SameCall(g)
      BY <2>2, OneTurn, SetK
    <3> QED BY <2>1, <2>2, <3>1, Fresh DEF UsesKey
  <2>3. CASE NewBufferPanics(g, "view")
    BY <2>1, <2>3, <1>p DEF UsesKey
  <2> QED BY <1>6, <2>2, <2>3 DEF ViewNew
<1>7. CASE ViewFill(g)
  <2>1. pc[g] = "fillView"
    BY <1>7 DEF ViewFill
  <2>2. CASE /\ Goto(g, IF my[g].call = "Open" THEN "decrypt" ELSE "encrypt") /\ my' = my
             /\ buf' = buf \/ buf' = [buf EXCEPT ![my[g].k].of = None]
             /\ UNCHANGED <<client, readers>>
    <3>1. Turn(g) /\ pc'[g] = (IF my[g].call = "Open" THEN "decrypt" ELSE "encrypt") /\ my'[g] = my[g]
      BY <2>2, Moved
    <3>2. \A i \in Ids : buf'[i].live = buf[i].live /\ buf'[i].data = buf[i].data
      <4>1. buf \in [Ids -> Record]
        BY Types DEF IInv
      <4> QED BY <2>2, <4>1 DEF Record
    <3> QED BY <2>1, <2>2, <3>1, <3>2 DEF UsesKey, client
  <2>3. CASE Crash
    BY <2>1, <2>3, <1>0 DEF UsesKey
  <2> QED BY <1>7, <2>2, <2>3 DEF ViewFill
<1> QED BY <1>1, <1>2, <1>3, <1>4, <1>5, <1>6, <1>7 DEF KeyStep, ViewStep

(* Purge, Panic and Exit destroy only what nobody reads, and start nothing. *)
LEMMA WoundDown ==
  ASSUME IInv, NEW g \in Goroutines, PurgeStep(g) \/ ExitStep(g) \/ Recover(g)
  PROVE  /\ SameCall(g) \/ my'[g] = NoLocals
         /\ Turn(g) /\ UNCHANGED <<handles, enclaves>> /\ KeptBuffers /\ KeptReaders(g)
         /\ pc[g] \in Ending /\ pc'[g] \in Ending \cup {"idle"}
<1> USE DEF SameCall, KeptReaders
<1>0. pc \in [Goroutines -> Labels] /\ my \in [Goroutines -> Locals] /\ my[g] \in Locals
      /\ \A h \in Goroutines : my[h].c \in Coffers
  BY Types DEF IInv, Locals
<1>b. UNCHANGED buf => KeptBuffers
  BY DEF KeptBuffers
<1>1. CASE PurgeLock(g)
  <2>1. /\ Goto(g, "purgeKey") /\ my' = my /\ pc[g] = "purge"
        /\ UNCHANGED <<buf, handles, enclaves, readers>>
    BY <1>1 DEF PurgeLock, memory, client
  <2> QED BY <1>b, <2>1, Moved DEF Ending
<1>2. CASE PurgeKey(g)
  <2>1. /\ Goto(g, HaltRekey) /\ HaltRekey \in {"lockKey", "flush"} /\ my' = my /\ pc[g] = "purgeKey"
        /\ UNCHANGED <<buf, handles, enclaves, readers>>
    BY <1>2 DEF PurgeKey, HaltRekey, memory, client, locks
  <2> QED BY <1>b, <2>1, Moved DEF Ending
<1>3. CASE PurgeLockKey(g)
  <2>1. /\ Goto(g, "flush") /\ my' = my /\ pc[g] = "lockKey"
        /\ UNCHANGED <<buf, handles, enclaves, readers>>
    BY <1>3 DEF PurgeLockKey, memory, client
  <2> QED BY <1>b, <2>1, Moved DEF Ending
<1>s. ASSUME NEW S, NEW l, Goto(g, l), my' = [my EXCEPT ![g].snap = S]
      PROVE  Turn(g) /\ SameCall(g) /\ pc'[g] = l
  <2>1. my'[g] = [my[g] EXCEPT !.snap = S] /\ Turn(g) /\ pc'[g] = l
    BY <1>0, <1>s DEF Goto, Turn
  <2> QED BY <1>0, <2>1 DEF Locals
<1>4. CASE PurgeFlush(g)
  <2>1. /\ Goto(g, "purgeLoop") /\ my' = [my EXCEPT ![g].snap = list] /\ pc[g] = "flush"
        /\ UNCHANGED <<buf, handles, enclaves, readers>>
    BY <1>4 DEF PurgeFlush, client, locks
  <2> QED BY <1>b, <1>s, <2>1 DEF Ending
<1>5. CASE PurgeDestroy(g)
  <2> DEFINE x == Min(my[g].snap)
  <2>1. /\ buf' = Destroyed(x) /\ readers[x] = {} /\ my' = [my EXCEPT ![g].snap = @ \ {x}]
        /\ pc[g] = "purgeLoop" /\ UNCHANGED <<pc, handles, enclaves, readers>>
    BY <1>5 DEF PurgeDestroy, client, locks
  <2> HIDE DEF x
  <2>2. Goto(g, pc[g]) /\ my' = [my EXCEPT ![g].snap = my[g].snap \ {x}]
    BY <1>0, <2>1 DEF Goto
  <2>3. Turn(g) /\ SameCall(g) /\ pc'[g] = pc[g]
    BY <1>s, <2>2
  <2>4. KeptBuffers
    BY <2>1, TakenUnread
  <2> QED BY <2>1, <2>3, <2>4 DEF Ending
<1>6. CASE PurgeReturn(g)
  <2>1. /\ Goto(g, IF my[g].panics THEN "panicked" ELSE "idle") /\ my' = [my EXCEPT ![g] = NoLocals]
        /\ readers' = [i \in Ids |-> readers[i] \ {g}] /\ pc[g] = "purgeLoop"
        /\ UNCHANGED <<buf, handles, enclaves>>
    BY <1>6 DEF PurgeReturn, memory, client
  <2>2. Turn(g) /\ pc'[g] \in {"panicked", "idle"} /\ my'[g] = NoLocals
    BY <2>1, Turned
  <2> QED BY <1>b, <2>1, <2>2 DEF Ending
<1>7. CASE ExitKey(g)
  <2>1. /\ Goto(g, "exitKey") /\ my' = [my EXCEPT ![g].c = key] /\ pc[g] = "exit"
        /\ UNCHANGED <<buf, handles, enclaves, readers>>
    BY <1>7 DEF ExitKey, memory, client, locks
  <2> QED BY <1>b, <2>1, OneTurn, SetC DEF Ending
<1>8. CASE ExitDestroyKey(g)
  <2>1. /\ Goto(g, "exitCopy") /\ my' = my /\ buf' = Destroyed(my[g].c) /\ pc[g] = "exitKey"
        /\ UNCHANGED <<handles, enclaves, readers>>
    BY <1>8 DEF ExitDestroyKey, client, locks
  <2>2. my[g].c \in Ids => buf[my[g].c].kind # "data"
    BY Numbers DEF IInv, KindInv
  <2>3. KeptBuffers
    BY <2>1, <2>2, TakenUnread
  <2> QED BY <2>1, <2>3, Moved DEF Ending
<1>9. CASE ExitCopy(g)
  <2>1. /\ Goto(g, "exitLoop") /\ my' = [my EXCEPT ![g].snap = ExitSnapshot, ![g].missed = next]
        /\ pc[g] = "exitCopy" /\ UNCHANGED <<buf, handles, enclaves, readers>>
    BY <1>9 DEF ExitCopy, memory, client, locks
  <2>2. my'[g] = [my[g] EXCEPT !.snap = ExitSnapshot, !.missed = next] /\ Turn(g) /\ pc'[g] = "exitLoop"
    BY <1>0, <2>1 DEF Goto, Turn
  <2>3. SameCall(g)
    BY <1>0, <2>2 DEF Locals
  <2> QED BY <1>b, <2>1, <2>2, <2>3 DEF Ending
<1>10. CASE ExitDestroy(g)
  <2> DEFINE x == Min(my[g].snap)
  <2>1. /\ buf' = Destroyed(x) /\ readers[x] = {} /\ my' = [my EXCEPT ![g].snap = @ \ {x}]
        /\ pc[g] = "exitLoop" /\ UNCHANGED <<pc, handles, enclaves, readers>>
    BY <1>10 DEF ExitDestroy, client, locks
  <2> HIDE DEF x
  <2>2. Goto(g, pc[g]) /\ my' = [my EXCEPT ![g].snap = my[g].snap \ {x}]
    BY <1>0, <2>1 DEF Goto
  <2>3. Turn(g) /\ SameCall(g) /\ pc'[g] = pc[g]
    BY <1>s, <2>2
  <2>4. KeptBuffers
    BY <2>1, TakenUnread
  <2> QED BY <2>1, <2>3, <2>4 DEF Ending
<1>11. CASE ExitProcess(g)
  <2>1. /\ Goto(g, "exited") /\ my' = my /\ pc[g] = "exitLoop"
        /\ UNCHANGED <<buf, handles, enclaves, readers>>
    BY <1>11 DEF ExitProcess, memory, client, locks
  <2> QED BY <1>b, <2>1, Moved DEF Ending
<1>12. CASE Recover(g)
  <2>1. Return(g) /\ pc[g] = "panicked" /\ UNCHANGED <<buf, handles, enclaves, readers>>
    BY <1>12 DEF Recover, memory, client, locks
  <2> QED BY <1>b, <2>1, Returned DEF Ending
<1> QED BY <1>1, <1>2, <1>3, <1>4, <1>5, <1>6, <1>7, <1>8, <1>9, <1>10, <1>11, <1>12
        DEF PurgeStep, ExitStep

(* The steps of Seal and of Open, as turns of g. *)
LEMMA SealRandomDid ==
  ASSUME IInv, NEW g \in Goroutines, SealRandom(g)
  PROVE  /\ Turn(g) /\ pc[g] = "sealRandom"
         /\ \/ pc'[g] = "melt" /\ my'[g] = my[g]
            \/ pc'[g] = "idle" /\ my'[g] = NoLocals
         /\ UNCHANGED <<buf, next, handles, enclaves, key, readers>>
BY Moved, Returned DEF SealRandom, memory, client, locks

LEMMA SealMeltDid ==
  ASSUME IInv, NEW g \in Goroutines, SealMelt(g)
  PROVE  /\ Turn(g) /\ pc[g] = "melt" /\ pc'[g] = "rlock" /\ my'[g] = my[g]
         /\ UNCHANGED <<buf, next, handles, enclaves, key, readers>>
BY Moved DEF SealMelt, memory, client, locks

LEMMA SealRLockDid ==
  ASSUME IInv, NEW g \in Goroutines, SealRLock(g)
  PROVE  /\ Turn(g) /\ pc[g] = "rlock" /\ SameCall(g)
         /\ \/ /\ Live(my[g].b) /\ pc'[g] = "getKey" /\ my'[g] = my[g]
               /\ readers' = [readers EXCEPT ![my[g].b] = @ \cup {g}]
            \/ ~Live(my[g].b) /\ pc'[g] = "purge" /\ UNCHANGED readers
         /\ UNCHANGED <<buf, next, handles, enclaves, key>>
BY Moved, Panicked DEF SealRLock, memory, client, SameCall

LEMMA EncryptDid ==
  ASSUME IInv, NEW g \in Goroutines, Encrypt(g)
  PROVE  /\ Turn(g) /\ pc[g] = "encrypt"
         /\ \/ /\ pc'[g] = "dropView" /\ my'[g].call = my[g].call /\ my'[g].b = my[g].b
               /\ my'[g].k = my[g].k /\ my'[g].panics = my[g].panics
               /\ Live(my[g].k) /\ \E x \in KeysRead(g) : my'[g].e = Ciphertext(g, x)
            \/ ~Live(my[g].k) /\ pc'[g] = "purge" /\ SameCall(g)
            \/ ~Live(my[g].k) /\ pc'[g] = pc[g] /\ my'[g] = my[g]
         /\ UNCHANGED <<buf, next, handles, enclaves, key, readers>>
<1>1. ASSUME NEW x \in KeysRead(g), Live(my[g].k), my' = [my EXCEPT ![g].e = Ciphertext(g, x)],
             Goto(g, "dropView"), UNCHANGED <<memory, client, key, locks>>
      PROVE  /\ Turn(g) /\ pc[g] = "encrypt" /\ pc'[g] = "dropView"
             /\ my'[g].call = my[g].call /\ my'[g].b = my[g].b
             /\ my'[g].k = my[g].k /\ my'[g].panics = my[g].panics
             /\ my'[g].e = Ciphertext(g, x)
             /\ UNCHANGED <<buf, next, handles, enclaves, key, readers>>
  <2>1. Turn(g) /\ pc'[g] = "dropView"
    BY <1>1, OneTurn
  <2>2. /\ my'[g].call = my[g].call /\ my'[g].b = my[g].b /\ my'[g].e = Ciphertext(g, x)
        /\ my'[g].k = my[g].k /\ my'[g].panics = my[g].panics
    BY <1>1, SetE
  <2>3. pc[g] = "encrypt" /\ UNCHANGED <<buf, next, handles, enclaves, key, readers>>
    BY <1>1 DEF Encrypt, memory, client, locks
  <2> QED BY <1>1, <2>1, <2>2, <2>3
<1>2. CASE ~Live(my[g].k) /\ Panic(g) /\ UNCHANGED <<memory, client, key, locks>>
  BY <1>2, Panicked DEF Encrypt, memory, client, locks, SameCall
<1>3. CASE ~Live(my[g].k) /\ Crash
  BY <1>3 DEF Encrypt, Crash, Turn, memory, client, locks
<1> QED BY <1>1, <1>2, <1>3 DEF Encrypt

LEMMA DropViewDid ==
  ASSUME IInv, NEW g \in Goroutines, DropView(g)
  PROVE  /\ Turn(g) /\ pc[g] = "dropView" /\ my'[g] = my[g] /\ buf' = Destroyed(my[g].k)
         /\ pc'[g] = IF my[g].call = "Open" THEN "opened" ELSE "wipe"
         /\ UNCHANGED <<next, handles, enclaves, key, readers>>
BY Moved DEF DropView, Dropped, client, locks

LEMMA WipeDid ==
  ASSUME IInv, NEW g \in Goroutines, Wipe(g)
  PROVE  /\ Turn(g) /\ pc[g] = "wipe"
         /\ \/ /\ my[g].call = "NewEnclave" /\ enclaves' = enclaves \cup {my[g].e}
               /\ pc'[g] = "idle" /\ my'[g] = NoLocals /\ UNCHANGED <<buf, readers>>
            \/ /\ my[g].call = "Seal" /\ pc'[g] = "destroy" /\ my'[g] = my[g] /\ UNCHANGED enclaves
               /\ readers' = [readers EXCEPT ![my[g].b] = @ \ {g}]
               /\ my[g].b \in Ids /\ buf'[my[g].b] = [buf[my[g].b] EXCEPT !.data = "zero"]
               /\ \A i \in Ids \ {my[g].b} : buf'[i] = buf[i]
         /\ UNCHANGED <<next, handles, key>>
<1>1. CASE /\ my[g].call = "NewEnclave" /\ enclaves' = enclaves \cup {my[g].e} /\ Return(g)
           /\ UNCHANGED <<buf, readers>>
  BY <1>1, Returned DEF Wipe
<1>2. CASE /\ my[g].call = "Seal" /\ buf' = [buf EXCEPT ![my[g].b].data = "zero"]
           /\ RUnlock(g) /\ Goto(g, "destroy") /\ UNCHANGED <<enclaves, my>>
  <2>1. my[g].b \in Ids /\ buf \in [Ids -> Record]
    BY <1>2, Types DEF IInv, CallInv
  <2>2. /\ buf'[my[g].b] = [buf[my[g].b] EXCEPT !.data = "zero"]
        /\ \A i \in Ids \ {my[g].b} : buf'[i] = buf[i]
    BY <1>2, <2>1
  <2> QED BY <1>2, <2>1, <2>2, Moved DEF Wipe, RUnlock
<1> QED BY <1>1, <1>2 DEF Wipe

LEMMA DestroyDid ==
  ASSUME IInv, NEW g \in Goroutines, Destroy(g)
  PROVE  /\ Turn(g) /\ pc[g] = "destroy" /\ pc'[g] = "idle" /\ my'[g] = NoLocals
         /\ buf' = Destroyed(my[g].b) /\ readers[my[g].b] = {}
         /\ enclaves' = enclaves \cup (IF my[g].call = "Seal" THEN {my[g].e} ELSE {})
         /\ UNCHANGED <<next, handles, key, readers>>
BY Returned DEF Destroy, locks

LEMMA OpenAllocateDid ==
  ASSUME IInv, NEW g \in Goroutines, OpenAllocate(g)
  PROVE  /\ Turn(g) /\ pc[g] = "allocate" /\ my'[g].call = my[g].call /\ my'[g].e = my[g].e
         /\ \/ /\ NewBuffer("data", None, "zero") /\ pc'[g] = "getKey" /\ my'[g].b = next
               /\ my'[g].panics = my[g].panics
            \/ /\ NewBufferPanics(g, "data") /\ pc'[g] = "purge" /\ my'[g].b = my[g].b
               /\ UNCHANGED <<buf, next>>
         /\ UNCHANGED <<handles, enclaves, key, readers>>
<1>1. pc[g] = "allocate" /\ UNCHANGED <<handles, enclaves, key, readers>>
  BY DEF OpenAllocate, client, locks
<1>2. CASE NewBuffer("data", None, "zero") /\ my' = [my EXCEPT ![g].b = next] /\ Goto(g, "getKey")
  <2>1. Turn(g) /\ pc'[g] = "getKey"
    BY <1>2, OneTurn
  <2>2. /\ my'[g].b = next /\ my'[g].call = my[g].call /\ my'[g].e = my[g].e
        /\ my'[g].panics = my[g].panics
    BY <1>2, SetB
  <2> QED BY <1>1, <1>2, <2>1, <2>2
<1>3. CASE NewBufferPanics(g, "data")
  BY <1>1, <1>3, Panicked DEF NewBufferPanics, memory
<1> QED BY <1>2, <1>3 DEF OpenAllocate

LEMMA DecryptDid ==
  ASSUME IInv, NEW g \in Goroutines, Decrypt(g)
  PROVE  /\ Turn(g) /\ pc[g] = "decrypt"
         /\ \/ /\ Usable(g) /\ pc'[g] = "dropView" /\ my'[g] = my[g] /\ my[g].b \in Ids
               /\ buf'[my[g].b] = [buf[my[g].b] EXCEPT !.data = my[g].e.data]
               /\ \A i \in Ids \ {my[g].b} : buf'[i] = buf[i]
            \/ /\ Usable(g) /\ \E x \in KeysRead(g) : ~Authentic(g, x)
               /\ pc'[g] = "idle" /\ my'[g] = NoLocals /\ UNCHANGED buf
            \/ ~Usable(g) /\ pc'[g] = "purge" /\ SameCall(g) /\ UNCHANGED buf
            \/ ~Usable(g) /\ pc'[g] = pc[g] /\ my'[g] = my[g] /\ UNCHANGED buf
         /\ UNCHANGED <<next, handles, enclaves, key, readers>>
<1>0. pc[g] = "decrypt" /\ UNCHANGED <<next, handles, enclaves, key, readers>>
  BY DEF Decrypt, Crash, memory, client, locks
<1>1. CASE /\ Usable(g) /\ buf' = [buf EXCEPT ![my[g].b].data = my[g].e.data]
           /\ Goto(g, "dropView") /\ UNCHANGED my
  <2>1. my[g].b \in Ids /\ buf \in [Ids -> Record]
    BY <1>1, Types, Numbers DEF IInv, Usable, Live, Locals
  <2>2. /\ buf'[my[g].b] = [buf[my[g].b] EXCEPT !.data = my[g].e.data]
        /\ \A i \in Ids \ {my[g].b} : buf'[i] = buf[i]
    BY <1>1, <2>1
  <2> QED BY <1>0, <1>1, <2>1, <2>2, Moved
<1>2. CASE /\ Usable(g) /\ (\E x \in KeysRead(g) : ~Authentic(g, x))
           /\ Return(g) /\ UNCHANGED memory
  BY <1>0, <1>2, Returned DEF memory
<1>3. CASE ~Usable(g) /\ Panic(g) /\ UNCHANGED memory
  BY <1>0, <1>3, Panicked DEF memory, SameCall
<1>4. CASE ~Usable(g) /\ Crash
  BY <1>0, <1>4 DEF Crash, memory, Turn
<1> QED BY <1>1, <1>2, <1>3, <1>4 DEF Decrypt

LEMMA OpenedDid ==
  ASSUME IInv, NEW g \in Goroutines, Opened(g)
  PROVE  /\ Turn(g) /\ pc[g] = "opened" /\ pc'[g] = "idle" /\ my'[g] = NoLocals
         /\ handles' = handles \cup {my[g].b}
         /\ UNCHANGED <<buf, next, enclaves, key, readers>>
BY Returned DEF Opened, memory, locks

(* NewBuffer, and the first half of NewEnclaveRandom. *)
LEMMA NewBufferDid ==
  ASSUME IInv, NEW g \in Goroutines, CallNewBuffer(g)
  PROVE  /\ Turn(g) /\ pc[g] = "idle" /\ UNCHANGED <<enclaves, key, readers>>
         /\ \/ /\ NewBuffer("data", None, "plain") /\ handles' = handles \cup {next}
               /\ pc'[g] = pc[g] /\ my'[g] = my[g]
            \/ /\ NewBufferPanics(g, "data") /\ UNCHANGED <<buf, next, handles>>
               /\ pc'[g] = "purge" /\ SameCall(g)
<1>1. pc[g] = "idle" /\ UNCHANGED <<enclaves, key, readers>>
  BY DEF CallNewBuffer, locks
<1>2. CASE NewBuffer("data", None, "plain") /\ handles' = handles \cup {next} /\ UNCHANGED <<pc, my>>
  BY <1>1, <1>2 DEF Turn
<1>3. CASE NewBufferPanics(g, "data") /\ UNCHANGED handles
  BY <1>1, <1>3, Panicked DEF NewBufferPanics, memory, SameCall
<1> QED BY <1>2, <1>3 DEF CallNewBuffer

LEMMA NewRandomDid ==
  ASSUME IInv, NEW g \in Goroutines, CallNewEnclaveRandom(g)
  PROVE  /\ Turn(g) /\ pc[g] = "idle" /\ UNCHANGED <<handles, enclaves, key, readers>>
         /\ "NewEnclaveRandom" \in program.calls[g]
         /\ \/ /\ NewBuffer("data", None, "plain") /\ pc'[g] = "sealRandom"
               /\ my'[g].call = "Seal" /\ my'[g].b = next /\ my'[g].k = None /\ ~my'[g].panics
            \/ /\ NewBufferPanics(g, "data") /\ UNCHANGED <<buf, next>>
               /\ pc'[g] = "purge" /\ SameCall(g)
<1>1. /\ pc[g] = "idle" /\ "NewEnclaveRandom" \in program.calls[g]
      /\ UNCHANGED <<handles, enclaves, key, readers>>
  BY DEF CallNewEnclaveRandom, locks
<1>2. CASE /\ NewBuffer("data", None, "plain") /\ Goto(g, "sealRandom")
           /\ my' = [my EXCEPT ![g] = [NoLocals EXCEPT !.call = "Seal", !.b = next]]
  <2>1. Turn(g) /\ pc'[g] = "sealRandom" /\ my'[g] = [NoLocals EXCEPT !.call = "Seal", !.b = next]
    BY <1>2, Turned
  <2>2. my'[g].call = "Seal" /\ my'[g].b = next /\ my'[g].k = None /\ ~my'[g].panics
    BY <2>1 DEF NoLocals
  <2> QED BY <1>1, <1>2, <2>1, <2>2
<1>3. CASE NewBufferPanics(g, "data")
  BY <1>1, <1>3, Panicked DEF NewBufferPanics, memory, SameCall
<1> QED BY <1>2, <1>3 DEF CallNewEnclaveRandom

(* Nobody's buffer is taken from him, whatever is called. *)
LEMMA OwnInductive == IInv /\ OwnInv /\ [Next]_vars => OwnInv'
<1> SUFFICES ASSUME IInv, OwnInv, [Next]_vars PROVE OwnInv'
  OBVIOUS
<1>0. /\ NoLocals.call \notin {"Open", "Seal", "Destroy"} /\ NoLocals.b = None
      /\ \A g \in Goroutines : my[g].call = "Open" => my[g].call \notin {"Seal", "Destroy"}
  BY NothingLocal
<1>s. UNCHANGED <<handles, pc, my, program>> => OwnInv'
  BY DEF OwnInv, OwnsInv, Own
<1>1. ASSUME NEW g \in Goroutines, Run(g) PROVE OwnInv'
  <2>0. UNCHANGED program /\ (Call(g) \/ Step(g)) /\ handles \subseteq handles \cup {next, my[g].b}
    BY <1>1 DEF Run
  <2>1. CASE CallNewBuffer(g)
    <3>1. Turn(g) /\ pc'[g] \in {"idle", "purge"} /\ my'[g].b = my[g].b /\ my'[g].call = my[g].call
          /\ pc[g] = "idle"
      BY <2>1, NewBufferDid DEF SameCall
    <3>2. handles' = handles \/ handles' = handles \cup {next}
      BY <2>1, NewBufferDid
    <3>3. CASE handles' = handles
      BY <2>0, <3>1, <3>3, OwnStep
    <3>4. CASE handles' = handles \cup {next}
      <4>0. next \notin handles
        BY Numbers DEF IInv, FreshInv, TypeOK
      <4>1. UNCHANGED <<pc, my>>
        BY <2>1, <3>4, <4>0 DEF CallNewBuffer
      <4>2. \A h \in Goroutines : my[h].b # next
        BY Numbers DEF IInv, TypeOK, FreshInv
      <4> QED BY <2>0, <3>4, <4>1, <4>2 DEF OwnInv, OwnsInv, Own
    <3> QED BY <3>2, <3>3, <3>4
  <2>2. CASE CallNewEnclaveRandom(g)
    <3>1. /\ Turn(g) /\ UNCHANGED handles /\ pc'[g] \in {"sealRandom", "purge"}
          /\ \/ my'[g].call = "Seal" /\ my'[g].b = next
             \/ my'[g].call = my[g].call /\ my'[g].b = my[g].b
      BY <2>2, NewRandomDid DEF SameCall
    <3> QED BY <2>0, <3>1, OwnStep
  <2>3. CASE Call(g) /\ ~CallNewBuffer(g) /\ ~CallNewEnclaveRandom(g)
    <3>1. CASE /\ Turn(g) /\ my'[g].b = None /\ UNCHANGED handles
               /\ \/ my'[g].call \in {"NewEnclave", "Purge", "SafePanic", "Exit"} /\ pc'[g] \in {"getKey", "purge", "exit"}
                  \/ my'[g].call = "Open" /\ pc'[g] = "allocate"
      BY <2>0, <3>1, OwnStep
    <3>2. CASE /\ Turn(g) /\ my'[g].b \in handles /\ UNCHANGED handles
               /\ \/ "Seal" \in program.calls[g] /\ pc'[g] = "melt" /\ my'[g].call = "Seal"
                  \/ "Destroy" \in program.calls[g] /\ pc'[g] = "destroy" /\ my'[g].call = "Destroy"
      BY <2>0, <3>2, OwnStep
    <3> QED BY <2>3, <3>1, <3>2, Begun
  <2>4. CASE KeyStep(g) \/ ViewStep(g)
    BY <2>0, <2>4, LookedUp, OwnStep DEF SameCall, UsesKey
  <2>5. CASE PurgeStep(g) \/ ExitStep(g) \/ Recover(g)
    <3>1. /\ Turn(g) /\ UNCHANGED handles /\ pc'[g] \notin {"destroy", "allocate", "decrypt", "encrypt"}
          /\ \/ my'[g].call = my[g].call /\ my'[g].b = my[g].b
             \/ my'[g].call \notin {"Open", "Seal", "Destroy"} /\ my'[g].b = None
      BY <1>0, <2>5, WoundDown DEF SameCall, Ending
    <3> QED BY <2>0, <3>1, OwnStep
  <2>6. ASSUME Turn(g), UNCHANGED handles, pc'[g] \in {"idle", "melt", "rlock", "getKey", "purge",
                                                     "dropView", "opened", "wipe"},
               my'[g] = NoLocals \/ (my'[g].call = my[g].call /\ my'[g].b = my[g].b)
        PROVE  OwnInv'
    BY <1>0, <2>0, <2>6, OwnStep
  <2>7. CASE SealRandom(g) \/ SealMelt(g) \/ SealRLock(g)
    BY <2>6, <2>7, SealRandomDid, SealMeltDid, SealRLockDid DEF SameCall
  <2>8. CASE Encrypt(g)
    <3>1. CASE pc'[g] = pc[g] /\ my'[g] = my[g]
      BY <2>0, <2>8, <3>1, EncryptDid, OwnStep DEF OwnInv, OwnsInv
    <3> QED BY <2>6, <2>8, <3>1, EncryptDid DEF SameCall
  <2>9. CASE DropView(g)
    BY <2>6, <2>9, DropViewDid
  <2>10. CASE Wipe(g)
    <3>1. CASE pc'[g] = "destroy" /\ my'[g] = my[g] /\ my[g].call = "Seal"
      <4>1. Turn(g) /\ UNCHANGED handles
        BY <2>10, WipeDid
      <4> QED BY <2>0, <3>1, <4>1, OwnStep
    <3> QED BY <2>6, <2>10, <3>1, WipeDid
  <2>11. CASE Destroy(g)
    BY <2>6, <2>11, DestroyDid
  <2>12. CASE OpenAllocate(g)
    <3>1. my[g].call = "Open" /\ my'[g].call = "Open" /\ Turn(g) /\ UNCHANGED handles
      BY <2>12, OpenAllocateDid DEF OwnInv, OwnsInv
    <3>2. CASE pc'[g] = "getKey" /\ my'[g].b = next
      BY <2>0, <3>1, <3>2, OwnStep
    <3>3. CASE pc'[g] = "purge" /\ my'[g].b = my[g].b
      BY <2>6, <3>1, <3>3
    <3> QED BY <2>12, <3>2, <3>3, OpenAllocateDid
  <2>13. CASE Decrypt(g)
    <3>1. CASE pc'[g] = pc[g] /\ my'[g] = my[g]
      BY <2>0, <2>13, <3>1, DecryptDid, OwnStep DEF OwnInv, OwnsInv
    <3> QED BY <2>6, <2>13, <3>1, DecryptDid DEF SameCall
  <2>14. CASE Opened(g)
    <3>1. Turn(g) /\ handles' = handles \cup {my[g].b} /\ pc'[g] = "idle" /\ my'[g] = NoLocals
      BY <2>14, OpenedDid
    <3> QED BY <1>0, <2>0, <3>1, OwnStep
  <2> QED BY <2>0, <2>1, <2>2, <2>3, <2>4, <2>5, <2>7, <2>8, <2>9, <2>10, <2>11, <2>12, <2>13, <2>14
          DEF Step, SealStep, OpenStep
<1>2. ASSUME NEW c \in Ids, Rekey(c) PROVE OwnInv'
  <2>1. UNCHANGED <<handles, pc, my, program>>
    BY <1>2 DEF Rekey, RekeyStep, RekeyBegin, RekeyEnd, Crash, client
  <2> QED BY <1>s, <2>1
<1>3. CASE UNCHANGED vars
  BY <1>3, <1>s DEF vars
<1> QED BY <1>1, <1>2, <1>3 DEF Next

-----------------------------------------------------------------------------
(* What Seal puts into an enclave, where one goroutine alone seals the      *)
(* program's buffers.                                                       *)
SoleSealer ==
  \A p \in Programs : \A g, h \in Goroutines :
    "Seal" \in p.calls[g] /\ "Seal" \in p.calls[h] => g = h

(* What g carries to the enclave or out of it is what was to be sealed; the *)
(* read lock of Seal keeps the buffer from being wiped before it is read.   *)
CarriesInv(g) ==
  /\ my[g].call = "Open" => my[g].e.data = "plain"
  /\ pc[g] \in {"dropView", "wipe", "destroy"} /\ my[g].call # "Destroy" => my[g].e.data = "plain"
  /\ my[g].call = "Seal" /\ pc[g] \in {"sealRandom", "melt", "rlock"} /\ buf[my[g].b].live =>
       buf[my[g].b].data = "plain"
  /\ my[g].call = "Seal" /\ pc[g] \in UsesKey => g \in readers[my[g].b] /\ buf[my[g].b].data = "plain"
  /\ my[g].call = "Open" /\ pc[g] \in {"dropView", "opened"} /\ buf[my[g].b].live =>
       buf[my[g].b].data = "plain"

(* A buffer that the program holds is wiped only by a Seal that is about to *)
(* destroy it.                                                              *)
HandlesInv ==
  \A b \in handles : buf[b].live =>
    \/ buf[b].data = "plain"
    \/ \E g \in Goroutines : pc[g] = "destroy" /\ my[g].call = "Seal" /\ my[g].b = b

FaithfulInv == EnclaveFaithful /\ HandlesInv /\ \A g \in Goroutines : CarriesInv(g)

(* A turn that leaves the others' data alone. *)
LEMMA FaithfulStep ==
  ASSUME IInv, FaithfulInv, NEW g \in Goroutines, Turn(g), KeptBuffers, KeptReaders(g),
         \A e \in enclaves' : e \in enclaves \/ e.data = "plain",
         \A b \in handles' : b \in handles \/ (buf'[b].live => buf'[b].data = "plain"),
         pc[g] = "destroy" /\ my[g].call = "Seal" => ~buf'[my[g].b].live,
         CarriesInv(g)'
  PROVE  FaithfulInv'
<1> USE Numbers
<1>0. /\ \A h \in Goroutines : my[h].b \in Coffers /\ my[h].b # next
      /\ handles \subseteq Ids /\ next \notin handles
  BY DEF IInv, TypeOK, FreshInv
<1>1. EnclaveFaithful'
  BY DEF FaithfulInv, EnclaveFaithful
<1>2. ASSUME NEW b \in handles', buf'[b].live, buf'[b].data # "plain"
      PROVE  \E h \in Goroutines : pc'[h] = "destroy" /\ my'[h].call = "Seal" /\ my'[h].b = b
  <2>1. b \in handles /\ b \in Ids \ {next}
    BY <1>0, <1>2
  <2>2. buf[b].live /\ buf[b].data # "plain"
    BY <1>2, <2>1 DEF KeptBuffers
  <2>3. PICK h \in Goroutines : pc[h] = "destroy" /\ my[h].call = "Seal" /\ my[h].b = b
    BY <2>1, <2>2 DEF FaithfulInv, HandlesInv
  <2>4. h # g
    BY <1>2, <2>3
  <2> QED BY <2>3, <2>4 DEF Turn
<1>3. ASSUME NEW h \in Goroutines \ {g} PROVE CarriesInv(h)'
  <2>1. pc'[h] = pc[h] /\ my'[h] = my[h] /\ CarriesInv(h)
    BY DEF Turn, FaithfulInv
  <2>2. ASSUME my[h].call = "Seal" \/ (my[h].call = "Open" /\ pc[h] \in {"dropView", "opened"})
        PROVE  my[h].b \in Ids \ {next} /\ buf[my[h].b].kind = "data"
    BY <1>0, <2>2 DEF IInv, CallInv, KindInv, Working
  <2>3. my[h].call = "Seal" /\ pc[h] \in UsesKey =>
          h \in readers'[my[h].b] /\ buf'[my[h].b].data = "plain"
    BY <2>1, <2>2 DEF CarriesInv, KeptBuffers, KeptReaders
  <2>4. /\ my[h].call = "Seal" /\ pc[h] \in {"sealRandom", "melt", "rlock"} /\ buf'[my[h].b].live =>
             buf'[my[h].b].data = "plain"
        /\ my[h].call = "Open" /\ pc[h] \in {"dropView", "opened"} /\ buf'[my[h].b].live =>
             buf'[my[h].b].data = "plain"
    BY <2>1, <2>2 DEF CarriesInv, KeptBuffers
  <2> QED BY <2>1, <2>3, <2>4 DEF CarriesInv
<1>4. HandlesInv'
  BY <1>2 DEF HandlesInv
<1> QED BY <1>1, <1>3, <1>4 DEF FaithfulInv

(* g goes on with the call that it is at. *)
LEMMA CarriedOn ==
  ASSUME IInv, FaithfulInv, KeptBuffers, NEW g \in Goroutines,
         my'[g].call = my[g].call, my'[g].e = my[g].e,
         my[g].call = "Seal" \/ pc'[g] \in {"dropView", "opened"} => my'[g].b = my[g].b,
         pc'[g] \in {"dropView", "wipe", "destroy"} => pc[g] \in {"dropView", "wipe", "destroy"},
         pc'[g] \in {"sealRandom", "melt", "rlock"} => pc[g] \in {"sealRandom", "melt", "rlock"},
         pc'[g] \in UsesKey /\ my[g].call = "Seal" =>
           /\ pc[g] \in UsesKey
           /\ g \in readers[my[g].b] => g \in readers'[my[g].b],
         pc'[g] \in {"dropView", "opened"} => pc[g] \in {"dropView", "opened"}
  PROVE  CarriesInv(g)'
<1> USE Numbers
<1>0. my[g].b \in Coffers /\ my[g].b # next
  BY DEF IInv, TypeOK, FreshInv
<1>1. ASSUME my[g].call = "Seal" \/ (my[g].call = "Open" /\ pc[g] \in {"dropView", "opened"})
      PROVE  my[g].b \in Ids \ {next} /\ buf[my[g].b].kind = "data"
  BY <1>0, <1>1 DEF IInv, CallInv, KindInv, Working
<1>2. CarriesInv(g)
  BY DEF FaithfulInv
<1>3. my'[g].call = "Seal" /\ pc'[g] \in UsesKey =>
        g \in readers'[my'[g].b] /\ buf'[my'[g].b].data = "plain"
  BY <1>1, <1>2 DEF CarriesInv, KeptBuffers
<1>4. /\ my'[g].call = "Seal" /\ pc'[g] \in {"sealRandom", "melt", "rlock"} /\ buf'[my'[g].b].live =>
           buf'[my'[g].b].data = "plain"
      /\ my'[g].call = "Open" /\ pc'[g] \in {"dropView", "opened"} /\ buf'[my'[g].b].live =>
           buf'[my'[g].b].data = "plain"
  BY <1>1, <1>2 DEF CarriesInv, KeptBuffers
<1> QED BY <1>2, <1>3, <1>4 DEF CarriesInv

(* A goroutine that is at no call, or at one that has to do with no         *)
(* enclave.                                                                 *)
LEMMA CarriesNothing ==
  ASSUME NEW g \in Goroutines, my'[g].call \notin {"Open", "Seal"},
         pc'[g] \in {"dropView", "wipe", "destroy"} => my'[g].call = "Destroy"
  PROVE  CarriesInv(g)'
BY DEF CarriesInv

(* Two Seals at a time are about two buffers. *)
LEMMA TwoSeals ==
  ASSUME SoleSealer, IInv, OwnInv, NEW g \in Goroutines, NEW h \in Goroutines, g # h,
         my[g].call = "Seal", my[h].call = "Seal"
  PROVE  my[g].b # my[h].b
<1>1. program \in Programs
  BY DEF IInv, TypeOK
<1>2. CASE Own(g) \/ Own(h)
  BY <1>2 DEF Own
<1>3. CASE "Seal" \in program.calls[g] /\ "Seal" \in program.calls[h]
  BY <1>1, <1>3 DEF SoleSealer
<1> QED BY <1>2, <1>3 DEF OwnInv, OwnsInv

(* A call of the program. *)
LEMMA FaithfulCalls ==
  ASSUME SoleSealer, IInv, OwnInv, FaithfulInv, NEW g \in Goroutines, Call(g)
  PROVE  FaithfulInv'
<1> USE Numbers
<1>b. UNCHANGED buf => KeptBuffers
  BY DEF KeptBuffers
<1>r. UNCHANGED readers => KeptReaders(g)
  BY DEF KeptReaders
<1>n. ASSUME NewBuffer("data", None, "plain")
      PROVE  KeptBuffers /\ buf'[next].data = "plain" /\ next \in Ids
  <2>1. /\ next \in Ids /\ buf'[next] = [live |-> TRUE, kind |-> "data", of |-> None, data |-> "plain"]
        /\ \A i \in Ids \ {next} : buf'[i] = buf[i]
    BY <1>n, Fresh
  <2> QED BY <2>1 DEF KeptBuffers
<1>p. ASSUME Turn(g), pc[g] = "idle", pc'[g] = "purge", SameCall(g),
             UNCHANGED <<buf, handles, enclaves, readers>>
      PROVE  FaithfulInv'
  <2>1. CarriesInv(g)'
    BY <1>b, <1>p, CarriedOn DEF SameCall, UsesKey
  <2> QED BY <1>b, <1>r, <1>p, <2>1, FaithfulStep
<1>1. CASE CallNewBuffer(g)
  <2>0. Turn(g) /\ pc[g] = "idle" /\ UNCHANGED <<enclaves, readers>>
    BY <1>1, NewBufferDid
  <2>1. CASE /\ NewBuffer("data", None, "plain") /\ handles' = handles \cup {next}
             /\ pc'[g] = pc[g] /\ my'[g] = my[g]
    <3>1. CarriesInv(g)'
      BY <1>n, <2>0, <2>1, CarriedOn DEF UsesKey
    <3> QED BY <1>n, <1>r, <2>0, <2>1, <3>1, FaithfulStep
  <2> QED BY <1>1, <1>p, <2>0, <2>1, NewBufferDid
<1>2. CASE CallNewEnclaveRandom(g)
  <2>0. Turn(g) /\ pc[g] = "idle" /\ UNCHANGED <<handles, enclaves, readers>>
    BY <1>2, NewRandomDid
  <2>1. CASE /\ NewBuffer("data", None, "plain") /\ pc'[g] = "sealRandom"
             /\ my'[g].call = "Seal" /\ my'[g].b = next
    <3>1. CarriesInv(g)'
      BY <1>n, <2>1 DEF CarriesInv, UsesKey
    <3> QED BY <1>n, <1>r, <2>0, <2>1, <3>1, FaithfulStep
  <2> QED BY <1>2, <1>p, <2>0, <2>1, NewRandomDid
<1>3. ASSUME Turn(g), pc[g] = "idle", UNCHANGED <<buf, handles, enclaves, readers>>, CarriesInv(g)'
      PROVE  FaithfulInv'
  BY <1>b, <1>r, <1>3, FaithfulStep
<1>4. CASE /\ Turn(g) /\ pc[g] = "idle" /\ pc'[g] \in {"getKey", "purge", "exit", "destroy"}
           /\ my'[g].call \in {"NewEnclave", "Purge", "SafePanic", "Exit", "Destroy"}
           /\ pc'[g] = "destroy" => my'[g].call = "Destroy"
           /\ UNCHANGED <<buf, handles, enclaves, readers>>
  <2>1. CarriesInv(g)'
    BY <1>4, CarriesNothing
  <2> QED BY <1>3, <1>4, <2>1
<1>5. CASE /\ Turn(g) /\ pc[g] = "idle" /\ pc'[g] = "allocate" /\ my'[g].call = "Open"
           /\ my'[g].e \in enclaves /\ UNCHANGED <<buf, handles, enclaves, readers>>
  <2>1. CarriesInv(g)'
    BY <1>5 DEF CarriesInv, FaithfulInv, EnclaveFaithful, UsesKey
  <2> QED BY <1>3, <1>5, <2>1
<1>6. CASE /\ Turn(g) /\ pc[g] = "idle" /\ pc'[g] = "melt" /\ my'[g].call = "Seal"
           /\ "Seal" \in program.calls[g] /\ Live(my'[g].b) /\ my'[g].b \in handles
           /\ UNCHANGED <<buf, handles, enclaves, readers>>
  <2>1. ASSUME NEW h \in Goroutines, pc[h] = "destroy", my[h].call = "Seal", my[h].b = my'[g].b
        PROVE  FALSE
    <3>1. "Seal" \in program.calls[h]
      BY <1>6, <2>1 DEF OwnInv, OwnsInv, Own
    <3>2. h = g
      BY <1>6, <3>1 DEF SoleSealer, IInv, TypeOK
    <3> QED BY <1>6, <2>1, <3>2
  <2>2. buf[my'[g].b].data = "plain"
    BY <1>6, <2>1 DEF FaithfulInv, HandlesInv, Live
  <2>3. CarriesInv(g)'
    BY <1>6, <2>2 DEF CarriesInv, UsesKey
  <2> QED BY <1>3, <1>6, <2>3
<1> QED BY <1>1, <1>2, <1>4, <1>5, <1>6, Begun

(* A statement of Seal or of Open. *)
LEMMA FaithfulWork ==
  ASSUME SoleSealer, IInv, OwnInv, FaithfulInv, NEW g \in Goroutines, SealStep(g) \/ OpenStep(g)
  PROVE  FaithfulInv'
<1> USE Numbers
<1>b. UNCHANGED buf => KeptBuffers
  BY DEF KeptBuffers
<1>r. UNCHANGED readers => KeptReaders(g)
  BY DEF KeptReaders
<1>n. NoLocals.call \notin {"Open", "Seal"} /\ CarriesInv(g) /\ EnclaveFaithful
  BY NothingLocal DEF FaithfulInv
<1>0. ASSUME Turn(g), UNCHANGED <<buf, handles, enclaves, readers>>, pc[g] # "destroy", CarriesInv(g)'
      PROVE  FaithfulInv'
  BY <1>0, <1>b, <1>r, FaithfulStep
<1>i. ASSUME pc'[g] = "idle", my'[g] = NoLocals PROVE CarriesInv(g)'
  BY <1>i, <1>n, CarriesNothing
<1>p. ASSUME UNCHANGED buf, pc'[g] \in {pc[g], "purge"}, SameCall(g), UNCHANGED readers PROVE CarriesInv(g)'
  BY <1>b, <1>p, CarriedOn DEF SameCall, UsesKey
<1>1. CASE SealRandom(g)
  <2>1. CarriesInv(g)'
    BY <1>1, <1>b, <1>i, SealRandomDid, CarriedOn DEF UsesKey
  <2> QED BY <1>0, <1>1, <2>1, SealRandomDid
<1>2. CASE SealMelt(g)
  <2>1. CarriesInv(g)'
    BY <1>2, <1>b, SealMeltDid, CarriedOn DEF UsesKey
  <2> QED BY <1>0, <1>2, <2>1, SealMeltDid
<1>3. CASE SealRLock(g)
  <2>0. Turn(g) /\ pc[g] = "rlock" /\ SameCall(g) /\ UNCHANGED <<buf, handles, enclaves>>
    BY <1>3, SealRLockDid
  <2>1. CASE /\ Live(my[g].b) /\ pc'[g] = "getKey"
             /\ readers' = [readers EXCEPT ![my[g].b] = @ \cup {g}]
    <3>1. my[g].b \in Ids /\ readers \in [Ids -> SUBSET Goroutines]
      BY <2>1 DEF Live, IInv, TypeOK
    <3>2. KeptReaders(g) /\ g \in readers'[my[g].b]
      BY <2>1, <3>1 DEF KeptReaders
    <3>3. CarriesInv(g)'
      BY <1>n, <2>0, <2>1, <3>2 DEF CarriesInv, SameCall, Live
    <3> QED BY <1>b, <2>0, <3>2, <3>3, FaithfulStep
  <2>2. CASE pc'[g] = "purge" /\ UNCHANGED readers
    BY <1>0, <1>p, <2>0, <2>2
  <2> QED BY <1>3, <2>1, <2>2, SealRLockDid
<1>4. CASE Encrypt(g)
  <2>0. Turn(g) /\ pc[g] = "encrypt" /\ UNCHANGED <<buf, handles, enclaves, readers>>
    BY <1>4, EncryptDid
  <2>1. ASSUME NEW x, pc'[g] = "dropView", my'[g].call = my[g].call, my'[g].e = Ciphertext(g, x)
        PROVE  FaithfulInv'
    <3>1. my[g].call # "Open"
      BY <2>0 DEF OwnInv, OwnsInv
    <3>2. Ciphertext(g, x).data = "plain"
      BY <1>n, <2>0 DEF Ciphertext, Plaintext, CarriesInv, UsesKey
    <3>3. CarriesInv(g)'
      BY <2>1, <3>1, <3>2 DEF CarriesInv, UsesKey
    <3> QED BY <1>0, <2>0, <3>3
  <2>2. CASE pc'[g] \in {pc[g], "purge"} /\ SameCall(g)
    BY <1>0, <1>p, <2>0, <2>2
  <2> QED BY <1>4, <2>1, <2>2, EncryptDid DEF SameCall
<1>5. CASE DropView(g)
  <2>0. /\ Turn(g) /\ pc[g] = "dropView" /\ my'[g] = my[g] /\ buf' = Destroyed(my[g].k)
        /\ pc'[g] = (IF my[g].call = "Open" THEN "opened" ELSE "wipe")
        /\ UNCHANGED <<handles, enclaves, readers>>
    BY <1>5, DropViewDid
  <2>1. my[g].k \in Ids => buf[my[g].k].kind # "data"
    BY DEF IInv, KindInv
  <2>2. KeptBuffers
    BY <2>0, <2>1, TakenUnread
  <2>3. CarriesInv(g)'
    BY <2>0, <2>2, CarriedOn DEF UsesKey
  <2> QED BY <1>r, <2>0, <2>2, <2>3, FaithfulStep
<1>6. CASE Wipe(g)
  <2>0. Turn(g) /\ pc[g] = "wipe" /\ UNCHANGED handles
    BY <1>6, WipeDid
  <2>1. CASE /\ my[g].call = "NewEnclave" /\ enclaves' = enclaves \cup {my[g].e}
             /\ pc'[g] = "idle" /\ my'[g] = NoLocals /\ UNCHANGED <<buf, readers>>
    <3>1. my[g].e.data = "plain"
      BY <1>n, <2>0, <2>1 DEF CarriesInv
    <3> QED BY <1>b, <1>i, <1>r, <2>0, <2>1, <3>1, FaithfulStep
  <2>2. CASE /\ my[g].call = "Seal" /\ pc'[g] = "destroy" /\ my'[g] = my[g] /\ UNCHANGED enclaves
             /\ readers' = [readers EXCEPT ![my[g].b] = @ \ {g}] /\ my[g].b \in Ids
             /\ \A i \in Ids \ {my[g].b} : buf'[i] = buf[i]
    <3>1. KeptReaders(g)
      BY <2>2 DEF KeptReaders, IInv, TypeOK
    <3>2. CarriesInv(g)'
      BY <1>n, <2>0, <2>2 DEF CarriesInv, UsesKey
    <3>3. ASSUME NEW h \in Goroutines \ {g} PROVE CarriesInv(h)'
      <4>1. pc'[h] = pc[h] /\ my'[h] = my[h] /\ CarriesInv(h) /\ OwnsInv(h)
        BY <2>0 DEF Turn, FaithfulInv, OwnInv
      <4>2. my[h].call = "Seal" => my[h].b \in Ids \ {my[g].b}
        BY <2>2, TwoSeals DEF IInv, CallInv
      <4>3. my[h].call = "Open" /\ pc[h] \in {"dropView", "opened"} => my[h].b \in Ids \ {my[g].b}
        BY <4>1 DEF OwnsInv, Own, IInv, CallInv, Working
      <4>4. my[h].call = "Seal" => readers[my[h].b] \ {g} \subseteq readers'[my[h].b]
        BY <3>1, <4>2 DEF KeptReaders
      <4> QED BY <2>2, <4>1, <4>2, <4>3, <4>4 DEF CarriesInv
    <3>4. HandlesInv'
      <4> SUFFICES ASSUME NEW b \in handles, buf'[b].live, buf'[b].data # "plain", b # my[g].b
                   PROVE  \E h \in Goroutines : pc'[h] = "destroy" /\ my'[h].call = "Seal" /\ my'[h].b = b
        BY <2>0, <2>2 DEF HandlesInv
      <4>1. b \in Ids /\ buf'[b] = buf[b]
        BY <2>2 DEF IInv, TypeOK
      <4>2. PICK h \in Goroutines : pc[h] = "destroy" /\ my[h].call = "Seal" /\ my[h].b = b
        BY <4>1 DEF FaithfulInv, HandlesInv
      <4>3. h # g
        BY <4>2
      <4> QED BY <2>0, <4>2, <4>3 DEF Turn
    <3> QED BY <1>n, <2>2, <3>2, <3>3, <3>4 DEF FaithfulInv, EnclaveFaithful
  <2> QED BY <1>6, <2>1, <2>2, WipeDid
<1>7. CASE Destroy(g)
  <2>0. /\ Turn(g) /\ pc[g] = "destroy" /\ pc'[g] = "idle" /\ my'[g] = NoLocals
        /\ buf' = Destroyed(my[g].b) /\ readers[my[g].b] = {}
        /\ enclaves' = enclaves \cup (IF my[g].call = "Seal" THEN {my[g].e} ELSE {})
        /\ UNCHANGED <<handles, readers>>
    BY <1>7, DestroyDid
  <2>1. KeptBuffers
    BY <2>0, TakenUnread
  <2>2. my[g].call = "Seal" => my[g].e.data = "plain" /\ ~buf'[my[g].b].live
    BY <1>n, <2>0, Taken DEF CarriesInv, IInv, CallInv
  <2> QED BY <1>i, <1>r, <2>0, <2>1, <2>2, FaithfulStep
<1>8. CASE OpenAllocate(g)
  <2>0. /\ Turn(g) /\ pc[g] = "allocate" /\ my'[g].call = my[g].call /\ my'[g].e = my[g].e
        /\ pc'[g] \in {"getKey", "purge"} /\ UNCHANGED <<handles, enclaves, readers>>
    BY <1>8, OpenAllocateDid
  <2>1. KeptBuffers
    BY <1>8, <1>b, OpenAllocateDid, Fresh DEF KeptBuffers
  <2>2. my[g].call = "Open"
    BY <2>0 DEF OwnInv, OwnsInv
  <2>3. CarriesInv(g)'
    BY <2>0, <2>1, <2>2, CarriedOn
  <2> QED BY <1>r, <2>0, <2>1, <2>3, FaithfulStep
<1>9. CASE Decrypt(g)
  <2>0. Turn(g) /\ pc[g] = "decrypt" /\ UNCHANGED <<handles, enclaves, readers>> /\ my[g].call = "Open"
    BY <1>9, DecryptDid DEF OwnInv, OwnsInv
  <2>1. CASE /\ pc'[g] = "dropView" /\ my'[g] = my[g] /\ my[g].b \in Ids
             /\ buf'[my[g].b] = [buf[my[g].b] EXCEPT !.data = my[g].e.data]
             /\ \A i \in Ids \ {my[g].b} : buf'[i] = buf[i]
    <3>1. my[g].e.data = "plain"
      BY <1>n, <2>0 DEF CarriesInv
    <3>2. buf[my[g].b] \in Record
      BY <2>1, Types DEF IInv
    <3>3. buf'[my[g].b].data = "plain" /\ buf'[my[g].b].live = buf[my[g].b].live
      BY <2>1, <3>1, <3>2 DEF Record
    <3>4. \A i \in Ids : /\ buf'[i].live = buf[i].live
                         /\ buf[i].data = "plain" => buf'[i].data = "plain"
      BY <2>1, <3>3
    <3>5. CarriesInv(g)'
      BY <2>0, <2>1, <3>1, <3>3 DEF CarriesInv, UsesKey
    <3>6. ASSUME NEW h \in Goroutines \ {g} PROVE CarriesInv(h)'
      <4>1. pc'[h] = pc[h] /\ my'[h] = my[h] /\ CarriesInv(h)
        BY <2>0 DEF Turn, FaithfulInv
      <4>2. my[h].call = "Seal" \/ (my[h].call = "Open" /\ pc[h] \in {"dropView", "opened"}) =>
              my[h].b \in Ids
        BY DEF IInv, CallInv, Working
      <4> QED BY <2>0, <3>4, <4>1, <4>2 DEF CarriesInv
    <3>7. HandlesInv'
      <4> SUFFICES ASSUME NEW b \in handles, buf'[b].live, buf'[b].data # "plain"
                   PROVE  \E h \in Goroutines : pc'[h] = "destroy" /\ my'[h].call = "Seal" /\ my'[h].b = b
        BY <2>0 DEF HandlesInv
      <4>1. b \in Ids /\ buf[b].live /\ buf[b].data # "plain"
        BY <3>4 DEF IInv, TypeOK
      <4>2. PICK h \in Goroutines : pc[h] = "destroy" /\ my[h].call = "Seal" /\ my[h].b = b
        BY <4>1 DEF FaithfulInv, HandlesInv
      <4> QED BY <2>0, <4>2 DEF Turn
    <3> QED BY <1>n, <2>0, <3>5, <3>6, <3>7 DEF FaithfulInv, EnclaveFaithful
  <2>2. CASE UNCHANGED buf /\ pc'[g] = "idle" /\ my'[g] = NoLocals
    BY <1>0, <1>i, <2>0, <2>2
  <2>3. CASE UNCHANGED buf /\ pc'[g] \in {pc[g], "purge"} /\ SameCall(g)
    BY <1>0, <1>p, <2>0, <2>3
  <2> QED BY <1>9, <2>1, <2>2, <2>3, DecryptDid DEF SameCall
<1>10. CASE Opened(g)
  <2>0. /\ Turn(g) /\ pc[g] = "opened" /\ pc'[g] = "idle" /\ my'[g] = NoLocals
        /\ handles' = handles \cup {my[g].b} /\ UNCHANGED <<buf, enclaves, readers>>
    BY <1>10, OpenedDid
  <2>1. buf[my[g].b].live => buf[my[g].b].data = "plain"
    BY <1>n, <2>0 DEF CarriesInv, IInv, CallInv
  <2> QED BY <1>b, <1>i, <1>r, <2>0, <2>1, FaithfulStep
<1> QED BY <1>1, <1>2, <1>3, <1>4, <1>5, <1>6, <1>7, <1>8, <1>9, <1>10 DEF SealStep, OpenStep

(* Faithfulness is inductive, too. *)
LEMMA FaithfulInductive ==
  ASSUME SoleSealer
  PROVE  IInv /\ OwnInv /\ FaithfulInv /\ [Next]_vars => FaithfulInv'
<1> SUFFICES ASSUME IInv, OwnInv, FaithfulInv, [Next]_vars PROVE FaithfulInv'
  OBVIOUS
<1>s. UNCHANGED <<buf, handles, enclaves, readers, pc, my>> => FaithfulInv'
  BY DEF FaithfulInv, EnclaveFaithful, HandlesInv, CarriesInv
<1>1. ASSUME NEW g \in Goroutines, Run(g) PROVE FaithfulInv'
  <2>0. Call(g) \/ Step(g)
    BY <1>1 DEF Run
  <2>1. CASE KeyStep(g) \/ ViewStep(g)
    <3>1. /\ Turn(g) /\ SameCall(g) /\ UNCHANGED <<handles, enclaves>> /\ KeptReaders(g)
          /\ KeptBuffers
          /\ pc[g] \in UsesKey \ {"encrypt"} /\ pc'[g] \in UsesKey \cup {"purge", "decrypt"}
          /\ pc'[g] # "purge" => UNCHANGED readers
      BY <2>1, LookedUp
    <3>2. CarriesInv(g)'
      BY <3>1, CarriedOn DEF UsesKey, SameCall
    <3> QED BY <3>1, <3>2, FaithfulStep DEF UsesKey
  <2>2. CASE PurgeStep(g) \/ ExitStep(g) \/ Recover(g)
    <3>1. /\ SameCall(g) \/ my'[g] = NoLocals
          /\ Turn(g) /\ UNCHANGED <<handles, enclaves>> /\ KeptBuffers /\ KeptReaders(g)
          /\ pc[g] \in Ending /\ pc'[g] \in Ending \cup {"idle"}
      BY <2>2, WoundDown
    <3>2. CASE SameCall(g)
      <4>1. CarriesInv(g)'
        BY <3>1, <3>2, CarriedOn DEF SameCall, UsesKey, Ending
      <4> QED BY <3>1, <4>1, FaithfulStep DEF Ending
    <3>3. CASE my'[g] = NoLocals
      <4>1. CarriesInv(g)'
        BY <3>1, <3>3, NothingLocal, CarriesNothing DEF Ending
      <4> QED BY <3>1, <4>1, FaithfulStep DEF Ending
    <3> QED BY <3>1, <3>2, <3>3
  <2> QED BY <2>0, <2>1, <2>2, FaithfulCalls, FaithfulWork DEF Step
<1>2. ASSUME NEW c \in Ids, Rekey(c) PROVE FaithfulInv'
  <2>1. UNCHANGED <<buf, handles, enclaves, readers, pc, my>>
    BY <1>2 DEF Rekey, RekeyStep, RekeyBegin, RekeyEnd, Crash, memory, client, locks
  <2> QED BY <1>s, <2>1
<1>3. CASE UNCHANGED vars
  BY <1>3, <1>s DEF vars
<1> QED BY <1>1, <1>2, <1>3 DEF Next

(* In the beginning there are no calls, no handles and no enclaves. *)
LEMMA InitOwns == Init => OwnInv /\ FaithfulInv
<1> SUFFICES ASSUME Init PROVE OwnInv /\ FaithfulInv
  OBVIOUS
<1>1. \A g \in Goroutines : pc[g] = "idle" /\ my[g] = NoLocals
  BY DEF Init
<1>2. \A g \in Goroutines : my[g].call = "none"
  BY <1>1, NothingLocal
<1>3. OwnInv
  BY <1>1, <1>2 DEF OwnInv, OwnsInv
<1>4. FaithfulInv
  BY <1>1, <1>2 DEF FaithfulInv, EnclaveFaithful, HandlesInv, CarriesInv, Init
<1> QED BY <1>3, <1>4

(* A buffer that Open or NewEnclaveRandom has made is known to nobody else  *)
(* until the call hands it out, and Seal and Destroy work on what the       *)
(* program gave them (core/enclave.go:103-132, enclave.go:26-60).           *)
THEOREM Ownership == Spec => []OwnInv
<1>1. Init => OwnInv
  BY InitOwns
<1>2. IInv /\ OwnInv /\ [Next]_vars => OwnInv'
  BY OwnInductive
<1> QED BY <1>1, <1>2, Invariance, PTL DEF Spec

(* An enclave holds what was to be sealed, never the zeroes of a wiped      *)
(* buffer (buffer.go:241, core/enclave.go:77-100), whoever destroys the     *)
(* buffer meanwhile, purges or exits, if the program's buffers are sealed   *)
(* by one goroutine.                                                        *)
THEOREM EnclavesHoldPlaintext == ASSUME SoleSealer PROVE Spec => []EnclaveFaithful
<1>1. Init => FaithfulInv
  BY InitOwns
<1>2. IInv /\ OwnInv /\ FaithfulInv /\ [Next]_vars => FaithfulInv'
  BY FaithfulInductive
<1>3. FaithfulInv => EnclaveFaithful
  BY DEF FaithfulInv
<1> QED BY <1>1, <1>2, <1>3, Invariance, Ownership, PTL DEF Spec

-----------------------------------------------------------------------------
(* Calls where nobody purges, the kernel lets the process lock what it      *)
(* needs, and the goroutine that seals the program's buffers is the one     *)
(* that disposes of them.                                                   *)
EnoughMemory == MlockLimit >= MaxBuffers + 5

(* With one key there are at most two Buffers more than numbers, so another *)
(* one fits.                                                                *)
LEMMA AlwaysFits ==
  ASSUME EnoughMemory, IInv, NEW kind \in {"data", "view", "coffer"}
  PROVE  Fits(kind)
<1> DEFINE C == {i \in LiveSet : buf[i].kind = "coffer"}
<1>1. IsFiniteSet(Ids) /\ Cardinality(Ids) = MaxBuffers /\ MaxBuffers \in Nat /\ MlockLimit \in Nat
  <2>1. MaxBuffers \in Nat /\ MlockLimit \in Nat
    BY SessionAssumption
  <2>2. IsFiniteSet(1..MaxBuffers)
        /\ Cardinality(1..MaxBuffers) = (IF 1 > MaxBuffers THEN 0 ELSE MaxBuffers - 1 + 1)
    BY <2>1, FS_Interval
  <2> QED BY <2>1, <2>2 DEF Ids
<1>2. IsFiniteSet(LiveSet) /\ Cardinality(LiveSet) <= MaxBuffers
  <2>1. LiveSet \in SUBSET Ids
    BY DEF LiveSet
  <2> QED BY <1>1, <2>1, FS_Subset
<1>3. Cardinality(LiveSet) \in Nat
  BY <1>2, FS_CardinalityType
<1>4. Cardinality(C) \in {0, 1}
  <2>1. CASE C = {}
    BY <2>1, FS_EmptySet
  <2>2. CASE C # {}
    <3>1. PICK i \in C : TRUE
      BY <2>2
    <3>2. ASSUME NEW j \in C PROVE j = i
      <4>1. i \in LiveSet /\ j \in LiveSet /\ buf[i].kind = "coffer" /\ buf[j].kind = "coffer"
        BY <3>1, <3>2
      <4>2. Live(i) /\ Live(j)
        BY <4>1, Numbers DEF Live, LiveSet
      <4>3. /\ i = key \/ \E g \in Goroutines : keyMtx = g /\ pc[g] = "initKey" /\ my[g].c = i
            /\ j = key \/ \E g \in Goroutines : keyMtx = g /\ pc[g] = "initKey" /\ my[g].c = j
        BY <4>1 DEF IInv, KeyInv, SingleKey
      <4>4. \A g \in Goroutines : pc[g] = "initKey" => ~Live(key)
        BY DEF IInv, KeyInv
      <4> QED BY <4>2, <4>3, <4>4
    <3>3. C = {i}
      BY <3>1, <3>2
    <3> QED BY <3>3, FS_Singleton
  <2> QED BY <2>1, <2>2
<1>5. Mlocked = Cardinality(LiveSet) + 2 * Cardinality(C)
  BY DEF Mlocked
<1> HIDE DEF C
<1>6. Mlocked <= MaxBuffers + 2 /\ Mlocked \in Nat
  BY <1>1, <1>2, <1>3, <1>4, <1>5
<1> QED BY <1>1, <1>6 DEF Fits, EnoughMemory

(* Who seals the program's buffers is the only one to seal or destroy them. *)
SealerOwns ==
  \A p \in Programs : \A g, h \in Goroutines :
    "Seal" \in p.calls[g] /\ p.calls[h] \cap {"Seal", "Destroy"} # {} => g = h

(* Where a call has a view of the key. *)
Viewing == {"fillView", "encrypt", "decrypt", "dropView"}

(* g's call does not panic, and has the key, the view and the buffer that   *)
(* it needs.                                                                *)
ServedInv(g) ==
  /\ pc[g] \notin Ending /\ ~my[g].panics
  /\ pc[g] = "initKey" => Live(my[g].c)
  /\ pc[g] \in {"view", "newView", "fillView"} => my[g].c = key
  /\ pc[g] \in {"view", "newView"} \cup Viewing => key # None
  /\ pc[g] \in Viewing => /\ Live(my[g].k) /\ buf[my[g].k].of = key
                          /\ \A h \in Goroutines \ {g} : pc[h] \in Viewing => my[h].k # my[g].k
  /\ \/ my[g].call = "Open"
     \/ pc[g] \in {"dropView", "wipe", "destroy"} /\ my[g].call # "Destroy"
     => key # None /\ my[g].e.key = key
  /\ my[g].call = "Open" /\ pc[g] \in Working => Live(my[g].b)
  /\ my[g].call = "Open" /\ pc[g] \in {"dropView", "opened"} => buf[my[g].b].data = my[g].e.data
  /\ pc[g] \in {"sealRandom", "melt", "rlock"} => my[g].call = "Seal" /\ Live(my[g].b)

(* The key is made once and stays, all enclaves are encrypted under it, and *)
(* the views of it are in use.                                              *)
QuietInv ==
  /\ key # None => Live(key)
  /\ \A e \in enclaves : key # None /\ e.key = key
  /\ \A i \in Ids : buf[i].live /\ buf[i].kind = "view" =>
       \E g \in Goroutines : pc[g] \in Viewing /\ my[g].k = i
  /\ \A g \in Goroutines : ServedInv(g)

(* Where nobody purges, no destroy() is under way behind anybody's back. *)
LEMMA NothingUnderWay ==
  ASSUME QuietInv
  PROVE  /\ \A i : ~UnderWay(i)
         /\ \A g \in Goroutines : KeysRead(g) = {buf[my[g].k].of}
<1>1. \A i : ~UnderWay(i)
  BY DEF QuietInv, ServedInv, Ending, UnderWay
<1> QED BY <1>1 DEF KeysRead

(* A turn that touches only its own buffer and its own view. *)
LEMMA QuietStep ==
  ASSUME SealerOwns, IInv, OwnInv, QuietInv, UNCHANGED program, NEW g \in Goroutines, Turn(g),
         \A i \in Ids \ {next, my[g].b, my[g].k} : buf'[i] = buf[i],
         my[g].b \in Ids => /\ buf'[my[g].b].kind = buf[my[g].b].kind
                            /\ pc[g] # "destroy" => buf'[my[g].b].live = buf[my[g].b].live,
         my[g].k \in Ids => \/ buf'[my[g].k] = buf[my[g].k]
                            \/ pc[g] = "dropView" /\ ~buf'[my[g].k].live,
         next \in Ids => \/ buf'[next] = buf[next] \/ buf'[next].kind # "view"
                         \/ pc'[g] \in Viewing /\ my'[g].k = next,
         key' = key \/ (key = None /\ key' # None /\ buf'[key'].live),
         \A e \in enclaves' : e \in enclaves \/ (key' # None /\ e.key = key'),
         pc[g] \in Viewing => \/ pc'[g] \in Viewing /\ my'[g].k = my[g].k
                              \/ my[g].k \in Ids => ~buf'[my[g].k].live,
         pc'[g] \in Viewing => \/ my'[g].k = next
                               \/ pc[g] \in Viewing /\ my'[g].k = my[g].k,
         ServedInv(g)'
  PROVE  QuietInv'
<1> USE Numbers
<1>0. /\ \A h \in Goroutines : /\ my[h].c \in Coffers /\ my[h].k \in Coffers /\ my[h].b \in Coffers
                               /\ my[h].c # next /\ my[h].k # next /\ my[h].b # next
      /\ key \in Coffers /\ key # next /\ program \in Programs
      /\ \A i \in Ids : i # next \/ ~buf[i].live
  BY DEF IInv, TypeOK, FreshInv
<1>1. /\ key # None => buf[key].kind = "coffer"
      /\ \A h \in Goroutines : /\ my[h].c # None => buf[my[h].c].kind = "coffer"
                               /\ my[h].k # None => buf[my[h].k].kind = "view"
                               /\ my[h].b # None => buf[my[h].b].kind = "data"
  BY DEF IInv, KindInv
<1>2. ASSUME NEW i \in Ids, buf[i].kind = "coffer", i # next PROVE buf'[i] = buf[i]
  BY <1>0, <1>1, <1>2
<1>3. key' # None => Live(key)'
  BY <1>0, <1>1, <1>2 DEF QuietInv, Live
<1>4. \A e \in enclaves' : key' # None /\ e.key = key'
  BY DEF QuietInv
<1>5. ASSUME NEW i \in Ids, buf'[i].live, buf'[i].kind = "view"
      PROVE  \E h \in Goroutines : pc'[h] \in Viewing /\ my'[h].k = i
  <2>1. CASE i = next
    BY <1>0, <1>5, <2>1
  <2>2. CASE i # next
    <3>1. i # my[g].b
      BY <1>0, <1>1, <1>5
    <3>2. buf'[i] = buf[i]
      BY <1>5, <2>2, <3>1
    <3>3. PICK h \in Goroutines : pc[h] \in Viewing /\ my[h].k = i
      BY <1>5, <3>2 DEF QuietInv
    <3>4. CASE h # g
      BY <3>3, <3>4 DEF Turn
    <3>5. CASE h = g
      BY <1>5, <3>3, <3>5
    <3> QED BY <3>4, <3>5
  <2> QED BY <2>1, <2>2
<1>6. ASSUME NEW h \in Goroutines \ {g} PROVE ServedInv(h)'
  <2>1. pc'[h] = pc[h] /\ my'[h] = my[h] /\ ServedInv(h) /\ OwnsInv(h) /\ OwnsInv(g)
    BY DEF Turn, QuietInv, OwnInv
  <2>2. pc[h] = "initKey" => Live(my[h].c)'
    BY <1>0, <1>1, <1>2, <2>1 DEF ServedInv, Live
  <2>3. key # None => key' = key
    OBVIOUS
  <2>4. ASSUME pc[h] \in Viewing
        PROVE  /\ Live(my[h].k)' /\ buf'[my[h].k].of = key
               /\ \A f \in Goroutines \ {h} : pc'[f] \in Viewing => my'[f].k # my[h].k
    <3>1. Live(my[h].k) /\ my[h].k \in Ids \ {next} /\ buf[my[h].k].of = key
          /\ \A f \in Goroutines \ {h} : pc[f] \in Viewing => my[f].k # my[h].k
      BY <1>0, <2>1, <2>4 DEF ServedInv, Live
    <3>2. my[h].k # my[g].b
      BY <1>0, <1>1, <3>1
    <3>3. buf'[my[h].k] = buf[my[h].k]
      BY <3>1, <3>2 DEF Viewing
    <3>4. pc'[g] \in Viewing => my'[g].k # my[h].k
      BY <3>1
    <3> QED BY <2>1, <3>1, <3>3, <3>4 DEF Live, Turn
  <2>5. ASSUME my[h].call = "Open", pc[h] \in Working
        PROVE  Live(my[h].b)' /\ buf'[my[h].b] = buf[my[h].b]
    <3>1. Live(my[h].b) /\ my[h].b \in Ids \ {next}
      BY <1>0, <2>1, <2>5 DEF ServedInv, Live
    <3>2. my[h].b # my[g].b
      BY <2>1, <2>5, <3>1 DEF OwnsInv, Own
    <3>3. my[h].b # my[g].k
      BY <1>0, <1>1, <3>1
    <3> QED BY <2>1, <3>1, <3>2, <3>3 DEF Live
  <2>6. ASSUME pc[h] \in {"sealRandom", "melt", "rlock"}
        PROVE  Live(my[h].b)'
    <3>1. my[h].call = "Seal" /\ Live(my[h].b) /\ my[h].b \in Ids \ {next}
      BY <1>0, <2>1, <2>6 DEF ServedInv, Live
    <3>2. my[h].b # my[g].k
      BY <1>0, <1>1, <3>1
    <3>3. CASE my[h].b # my[g].b
      BY <2>1, <3>1, <3>2, <3>3 DEF Live
    <3>4. CASE my[h].b = my[g].b
      <4>1. "Seal" \in program.calls[h] /\ ~Own(g)
        BY <2>1, <3>1, <3>4 DEF OwnsInv, Own
      <4>2. pc[g] # "destroy"
        BY <1>0, <2>1, <4>1 DEF OwnsInv, SealerOwns
      <4> QED BY <2>1, <3>1, <3>4, <4>2 DEF Live
    <3> QED BY <3>3, <3>4
  <2> QED BY <2>1, <2>2, <2>3, <2>4, <2>5, <2>6 DEF ServedInv, Working, Viewing
<1> QED BY <1>3, <1>4, <1>5, <1>6 DEF QuietInv

(* A goroutine between two calls needs nothing. *)
LEMMA ServedIdle ==
  ASSUME NEW g \in Goroutines, pc'[g] = "idle", my'[g] = NoLocals
  PROVE  ServedInv(g)'
BY DEF ServedInv, NoLocals, Ending, Viewing, Working

(* A turn that touches no buffer. *)
LEMMA QuietTurn ==
  ASSUME SealerOwns, IInv, OwnInv, QuietInv, UNCHANGED <<buf, key, program>>,
         NEW g \in Goroutines, Turn(g),
         \A e \in enclaves' : e \in enclaves \/ (key' # None /\ e.key = key'),
         pc[g] \in Viewing => pc'[g] \in Viewing /\ my'[g].k = my[g].k,
         pc'[g] \in Viewing => pc[g] \in Viewing,
         ServedInv(g)'
  PROVE  QuietInv'
BY QuietStep

(* A turn that makes a buffer; a view is for g itself. *)
LEMMA QuietNew ==
  ASSUME SealerOwns, IInv, OwnInv, QuietInv, UNCHANGED <<enclaves, key, program>>,
         NEW g \in Goroutines, Turn(g), NEW kind, NEW coffer, NEW d,
         NewBuffer(kind, coffer, d), pc[g] \notin Viewing,
         kind = "view" => pc'[g] \in Viewing,
         pc'[g] \in Viewing => my'[g].k = next,
         ServedInv(g)'
  PROVE  QuietInv'
<1>0. /\ buf'[next] = [live |-> TRUE, kind |-> kind, of |-> coffer, data |-> d]
      /\ \A i \in Ids \ {next} : buf'[i] = buf[i]
  BY Fresh
<1>1. buf'[next].kind = kind /\ \A i \in Ids \ {next} : buf'[i] = buf[i]
  BY <1>0
<1>2. my[g].b # next /\ my[g].k # next
  <2>1. next \in Nat /\ my[g].b \in Nat /\ my[g].k \in Nat
    BY Numbers DEF IInv, TypeOK
  <2> QED BY <2>1 DEF IInv, FreshInv
<1> QED BY <1>1, <1>2, QuietStep

(* Getting the key, and a view of it: the first call makes the key, and the *)
(* others find it alive.                                                    *)
LEMMA QuietLookup ==
  ASSUME EnoughMemory, SealerOwns, IInv, OwnInv, QuietInv, UNCHANGED program,
         NEW g \in Goroutines, KeyStep(g) \/ ViewStep(g)
  PROVE  QuietInv'
<1>0. /\ ServedInv(g) /\ key \in Coffers /\ next \in Nat /\ next # None
      /\ my[g].b \in Coffers /\ my[g].b # next /\ key # next
      /\ \A h \in Goroutines : my[h].k # next
  <2>1. \A h \in Goroutines : my[h].k \in Nat /\ my[h].k < next
    BY Numbers DEF IInv, TypeOK, FreshInv
  <2> QED BY <2>1, Numbers DEF QuietInv, IInv, TypeOK, FreshInv, None
<1>p. ASSUME NEW kind \in {"data", "view", "coffer"} PROVE ~NewBufferPanics(g, kind)
  BY AlwaysFits DEF NewBufferPanics
<1>1. CASE KeyLock(g)
  <2>1. /\ pc[g] = "getKey" /\ pc'[g] = "checkKey" /\ my'[g] = my[g] /\ Turn(g)
        /\ UNCHANGED <<buf, key, enclaves>>
    BY <1>1, Moved DEF KeyLock, memory, client
  <2>2. ServedInv(g)'
    BY <1>0, <2>1 DEF ServedInv, Live, Ending, Viewing, Working
  <2> QED BY <2>1, <2>2, QuietTurn DEF Viewing
<1>2. CASE KeyCheck(g)
  <2>1. /\ pc[g] = "checkKey" /\ UNCHANGED <<buf, key, enclaves>>
        /\ \/ Live(key) /\ my' = [my EXCEPT ![g].c = key] /\ Goto(g, "view")
           \/ Goto(g, "newKey") /\ UNCHANGED my
    BY <1>2 DEF KeyCheck, memory, client
  <2>2. CASE Live(key) /\ my' = [my EXCEPT ![g].c = key] /\ Goto(g, "view")
    <3>1. Turn(g) /\ pc'[g] = "view"
      BY <2>2, OneTurn
    <3>2. /\ my'[g].c = key /\ my'[g].b = my[g].b /\ my'[g].call = my[g].call
          /\ my'[g].e = my[g].e /\ my'[g].panics = my[g].panics
      BY <2>2, SetC
    <3>3. ServedInv(g)'
      BY <1>0, <2>1, <2>2, <3>1, <3>2 DEF ServedInv, Live, Ending, Viewing, Working
    <3> QED BY <2>1, <3>1, <3>3, QuietTurn DEF Viewing
  <2>3. CASE Goto(g, "newKey") /\ UNCHANGED my
    <3>1. Turn(g) /\ pc'[g] = "newKey" /\ my'[g] = my[g]
      BY <2>3, Moved
    <3>2. ServedInv(g)'
      BY <1>0, <2>1, <3>1 DEF ServedInv, Live, Ending, Viewing, Working
    <3> QED BY <2>1, <3>1, <3>2, QuietTurn DEF Viewing
  <2> QED BY <2>1, <2>2, <2>3
<1>3. CASE KeyNew(g)
  <2>1. /\ pc[g] = "newKey" /\ UNCHANGED <<key, enclaves>>
        /\ NewBuffer("coffer", next, "zero") /\ my' = [my EXCEPT ![g].c = next] /\ Goto(g, "initKey")
    BY <1>3, <1>p DEF KeyNew, client
  <2>2. Turn(g) /\ pc'[g] = "initKey"
    BY <2>1, OneTurn
  <2>3. /\ my'[g].c = next /\ my'[g].b = my[g].b /\ my'[g].call = my[g].call
        /\ my'[g].e = my[g].e /\ my'[g].panics = my[g].panics
    BY <2>1, SetC
  <2>4. buf'[next].live /\ \A i \in Ids \ {next} : buf'[i] = buf[i]
    <3>1. /\ buf'[next] = [live |-> TRUE, kind |-> "coffer", of |-> next, data |-> "zero"]
          /\ \A i \in Ids \ {next} : buf'[i] = buf[i]
      BY <2>1, Fresh
    <3> QED BY <3>1
  <2>5. my[g].b # None => my[g].b \in Ids
    BY <1>0 DEF Coffers
  <2>6. ServedInv(g)'
    BY <1>0, <2>1, <2>2, <2>3, <2>4, <2>5 DEF ServedInv, Live, Ending, Viewing, Working
  <2> QED BY <2>1, <2>2, <2>6, QuietNew DEF Viewing
<1>4. CASE KeyInit(g)
  <2>1. pc[g] = "initKey" /\ Live(my[g].c) /\ key = None
    BY <1>0, <1>4 DEF KeyInit, ServedInv, QuietInv, IInv, KeyInv
  <2>2. /\ key' = my[g].c /\ Goto(g, "view") /\ UNCHANGED <<buf, next, enclaves, my>>
    BY <1>4, <2>1 DEF KeyInit, memory, client
  <2>3. Turn(g) /\ pc'[g] = "view" /\ my'[g] = my[g] /\ key' # None /\ buf'[key'].live
    BY <2>1, <2>2, Moved DEF Live
  <2>4. ServedInv(g)'
    BY <1>0, <2>1, <2>2, <2>3 DEF ServedInv, Live, Ending, Viewing, Working
  <2> QED BY <2>1, <2>2, <2>3, <2>4, QuietStep DEF Viewing
<1>5. CASE ViewLock(g)
  <2>1. pc[g] = "view" /\ Live(my[g].c)
    BY <1>0, <1>5 DEF ViewLock, ServedInv, QuietInv
  <2>2. /\ Turn(g) /\ pc'[g] = "newView" /\ my'[g] = my[g] /\ UNCHANGED <<buf, key, enclaves>>
    BY <1>5, <2>1, Moved DEF ViewLock, memory, client
  <2>3. ServedInv(g)'
    BY <1>0, <2>1, <2>2 DEF ServedInv, Live, Ending, Viewing, Working
  <2> QED BY <2>1, <2>2, <2>3, QuietTurn DEF Viewing
<1>6. CASE ViewNew(g)
  <2>1. /\ pc[g] = "newView" /\ UNCHANGED <<key, enclaves>>
        /\ NewBuffer("view", my[g].c, "zero") /\ my' = [my EXCEPT ![g].k = next] /\ Goto(g, "fillView")
    BY <1>6, <1>p DEF ViewNew, client
  <2>2. Turn(g) /\ pc'[g] = "fillView"
    BY <2>1, OneTurn
  <2>3. /\ my'[g].k = next /\ my'[g].c = my[g].c /\ my'[g].b = my[g].b /\ my'[g].call = my[g].call
        /\ my'[g].e = my[g].e /\ my'[g].panics = my[g].panics
    BY <2>1, SetK
  <2>4. buf'[next].live /\ buf'[next].of = my[g].c /\ \A i \in Ids \ {next} : buf'[i] = buf[i]
    <3>1. /\ buf'[next] = [live |-> TRUE, kind |-> "view", of |-> my[g].c, data |-> "zero"]
          /\ \A i \in Ids \ {next} : buf'[i] = buf[i]
      BY <2>1, Fresh
    <3> QED BY <3>1
  <2>5. my[g].b # None => my[g].b \in Ids
    BY <1>0 DEF Coffers
  <2>6. \A h \in Goroutines \ {g} : my'[h].k # next
    BY <1>0, <2>2 DEF Turn
  <2>7. ServedInv(g)'
    BY <1>0, <2>1, <2>2, <2>3, <2>4, <2>5, <2>6 DEF ServedInv, Live, Ending, Viewing, Working
  <2> QED BY <2>1, <2>2, <2>3, <2>7, QuietNew DEF Viewing
<1>7. CASE ViewFill(g)
  <2>1. pc[g] = "fillView" /\ Live(my[g].k) /\ Live(my[g].c)
    BY <1>0, <1>7 DEF ViewFill, ServedInv, QuietInv, Viewing
  <2>2. /\ Goto(g, IF my[g].call = "Open" THEN "decrypt" ELSE "encrypt")
        /\ UNCHANGED <<my, buf, key, enclaves>>
    BY <1>7, <2>1, NothingUnderWay DEF ViewFill, client
  <2>3. Turn(g) /\ pc'[g] \in {"decrypt", "encrypt"} /\ my'[g] = my[g]
    BY <2>2, Moved
  <2>4. \A h \in Goroutines \ {g} : pc'[h] \in Viewing => my'[h].k # my'[g].k
    BY <1>0, <2>1, <2>3 DEF ServedInv, Turn, Viewing
  <2>5. ServedInv(g)'
    BY <1>0, <2>1, <2>2, <2>3, <2>4 DEF ServedInv, Live, Ending, Viewing, Working
  <2> QED BY <2>1, <2>2, <2>3, <2>5, QuietTurn DEF Viewing
<1> QED BY <1>1, <1>2, <1>3, <1>4, <1>5, <1>6, <1>7 DEF KeyStep, ViewStep

(* Seal finds its buffer alive and makes its enclave with the session key;  *)
(* the view is destroyed before it returns.                                 *)
LEMMA QuietSeal ==
  ASSUME SealerOwns, IInv, OwnInv, QuietInv, UNCHANGED program, NEW g \in Goroutines, SealStep(g)
  PROVE  QuietInv'
<1>0. /\ ServedInv(g) /\ OwnsInv(g) /\ my[g].b \in Coffers /\ my[g].k \in Coffers
      /\ my[g].b # None => my[g].b \in Ids /\ buf[my[g].b].kind = "data"
      /\ my[g].k # None => my[g].k \in Ids /\ buf[my[g].k].kind = "view"
  BY DEF QuietInv, OwnInv, IInv, TypeOK, KindInv, Coffers
<1>n. my[g].b # next /\ my[g].k # next
  <2>1. next \in Nat /\ my[g].b \in Nat /\ my[g].k \in Nat
    BY Numbers DEF IInv, TypeOK
  <2> QED BY <2>1 DEF IInv, FreshInv
<1>k. ASSUME NEW i \in Ids, i = my[g].b PROVE i # my[g].k
  BY <1>0, <1>k, Numbers
<1>1. CASE SealRandom(g)
  <2>1. /\ Turn(g) /\ pc[g] = "sealRandom" /\ UNCHANGED <<buf, key, enclaves>>
        /\ \/ pc'[g] = "melt" /\ my'[g] = my[g]
           \/ pc'[g] = "idle" /\ my'[g] = NoLocals
    BY <1>1, SealRandomDid
  <2>2. pc'[g] = "melt" /\ my'[g] = my[g] => ServedInv(g)'
    BY <1>0, <2>1 DEF ServedInv, Live, Ending, Viewing, Working
  <2>3. pc'[g] \notin Viewing /\ pc[g] \notin Viewing /\ ServedInv(g)'
    BY <2>1, <2>2, ServedIdle DEF Viewing
  <2> QED BY <2>1, <2>3, QuietTurn
<1>2. CASE SealMelt(g)
  <2>1. /\ Turn(g) /\ pc[g] = "melt" /\ UNCHANGED <<buf, key, enclaves>>
        /\ pc'[g] = "rlock" /\ my'[g] = my[g]
    BY <1>2, SealMeltDid
  <2>2. ServedInv(g)'
    BY <1>0, <2>1 DEF ServedInv, Live, Ending, Viewing, Working
  <2> QED BY <2>1, <2>2, QuietTurn DEF Viewing
<1>3. CASE SealRLock(g)
  <2>1. pc[g] = "rlock" /\ Live(my[g].b) /\ my[g].call = "Seal"
    BY <1>0, <1>3, SealRLockDid DEF ServedInv
  <2>2. /\ Turn(g) /\ UNCHANGED <<buf, key, enclaves>> /\ pc'[g] = "getKey" /\ my'[g] = my[g]
    BY <1>3, <2>1, SealRLockDid
  <2>3. ServedInv(g)'
    BY <1>0, <2>1, <2>2 DEF ServedInv, Live, Ending, Viewing, Working
  <2> QED BY <2>1, <2>2, <2>3, QuietTurn DEF Viewing
<1>4. CASE Encrypt(g)
  <2>1. pc[g] = "encrypt" /\ Live(my[g].k) /\ my[g].call # "Open" /\ key # None
        /\ buf[my[g].k].of = key
    BY <1>0, <1>4, EncryptDid DEF ServedInv, OwnsInv, Viewing
  <2>2. /\ Turn(g) /\ UNCHANGED <<buf, key, enclaves>> /\ pc'[g] = "dropView"
        /\ my'[g].call = my[g].call /\ my'[g].k = my[g].k /\ my'[g].panics = my[g].panics
        /\ my'[g].e = Ciphertext(g, key)
    BY <1>4, <2>1, EncryptDid, NothingUnderWay
  <2>3. my'[g].e.key = key
    BY <2>1, <2>2 DEF Ciphertext
  <2>4. \A h \in Goroutines \ {g} : pc'[h] \in Viewing => my'[h].k # my'[g].k
    BY <1>0, <2>1, <2>2 DEF ServedInv, Turn, Viewing
  <2>5. ServedInv(g)'
    BY <1>0, <2>1, <2>2, <2>3, <2>4 DEF ServedInv, Live, Ending, Viewing, Working
  <2> QED BY <2>1, <2>2, <2>5, QuietTurn DEF Viewing
<1>5. CASE DropView(g)
  <2>1. /\ Turn(g) /\ pc[g] = "dropView" /\ my'[g] = my[g] /\ buf' = Destroyed(my[g].k)
        /\ pc'[g] \in {"opened", "wipe"} /\ UNCHANGED <<enclaves, key>>
        /\ pc'[g] = "opened" => my[g].call = "Open"
        /\ pc'[g] = "wipe" => my[g].call # "Open"
    BY <1>5, DropViewDid
  <2>2. /\ \A i \in Ids \ {my[g].k} : buf'[i] = buf[i]
        /\ my[g].k \in Ids => ~buf'[my[g].k].live
    BY <2>1, Taken
  <2>3. my[g].b # None => buf'[my[g].b] = buf[my[g].b]
    BY <1>0, <1>k, <2>2
  <2>4. ServedInv(g)'
    BY <1>0, <2>1, <2>3 DEF ServedInv, Live, Ending, Viewing, Working
  <2> QED BY <1>0, <1>k, <1>n, <2>1, <2>2, <2>4, Numbers, QuietStep DEF Viewing
<1>6. CASE Wipe(g)
  <2>1. Turn(g) /\ pc[g] = "wipe" /\ UNCHANGED key
    BY <1>6, WipeDid
  <2>2. CASE /\ my[g].call = "NewEnclave" /\ enclaves' = enclaves \cup {my[g].e}
             /\ pc'[g] = "idle" /\ my'[g] = NoLocals /\ UNCHANGED buf
    <3>1. key # None /\ my[g].e.key = key
      BY <1>0, <2>1, <2>2 DEF ServedInv
    <3>2. ServedInv(g)'
      BY <2>2, ServedIdle
    <3> QED BY <2>1, <2>2, <3>1, <3>2, QuietTurn DEF Viewing
  <2>3. CASE /\ my[g].call = "Seal" /\ pc'[g] = "destroy" /\ my'[g] = my[g] /\ UNCHANGED enclaves
             /\ my[g].b \in Ids /\ buf'[my[g].b] = [buf[my[g].b] EXCEPT !.data = "zero"]
             /\ \A i \in Ids \ {my[g].b} : buf'[i] = buf[i]
    <3>1. ServedInv(g)'
      BY <1>0, <2>1, <2>3 DEF ServedInv, Ending, Viewing, Working
    <3>2. buf'[my[g].b].kind = buf[my[g].b].kind /\ buf'[my[g].b].live = buf[my[g].b].live
      BY <2>3 DEF IInv, TypeOK
    <3> QED BY <1>0, <1>k, <1>n, <2>1, <2>3, <3>1, <3>2, QuietStep DEF Viewing
  <2> QED BY <1>6, <2>2, <2>3, WipeDid
<1>7. CASE Destroy(g)
  <2>1. /\ Turn(g) /\ pc[g] = "destroy" /\ pc'[g] = "idle" /\ my'[g] = NoLocals
        /\ buf' = Destroyed(my[g].b) /\ UNCHANGED key
        /\ enclaves' = enclaves \cup (IF my[g].call = "Seal" THEN {my[g].e} ELSE {})
    BY <1>7, DestroyDid
  <2>2. /\ \A i \in Ids \ {my[g].b} : buf'[i] = buf[i]
        /\ my[g].b \in Ids => buf'[my[g].b].kind = buf[my[g].b].kind
    BY <2>1, Taken
  <2>3. my[g].call = "Seal" => key # None /\ my[g].e.key = key
    BY <1>0, <2>1 DEF ServedInv
  <2>4. ServedInv(g)'
    BY <2>1, ServedIdle
  <2> QED BY <1>0, <1>k, <1>n, <2>1, <2>2, <2>3, <2>4, QuietStep DEF Viewing
<1> QED BY <1>1, <1>2, <1>3, <1>4, <1>5, <1>6, <1>7 DEF SealStep

(* Open decrypts into a buffer of its own with the key that its enclave was *)
(* made with.                                                               *)
LEMMA QuietOpen ==
  ASSUME EnoughMemory, SealerOwns, IInv, OwnInv, QuietInv, UNCHANGED program,
         NEW g \in Goroutines, OpenStep(g)
  PROVE  QuietInv'
<1>0. /\ ServedInv(g) /\ OwnsInv(g) /\ my[g].b \in Coffers /\ my[g].k \in Coffers
      /\ my[g].b # None => my[g].b \in Ids /\ buf[my[g].b].kind = "data"
      /\ my[g].k # None => my[g].k \in Ids /\ buf[my[g].k].kind = "view"
  BY DEF QuietInv, OwnInv, IInv, TypeOK, KindInv, Coffers
<1>n. my[g].b # next /\ my[g].k # next
  <2>1. next \in Nat /\ my[g].b \in Nat /\ my[g].k \in Nat
    BY Numbers DEF IInv, TypeOK
  <2> QED BY <2>1 DEF IInv, FreshInv
<1>1. CASE OpenAllocate(g)
  <2>1. ~NewBufferPanics(g, "data")
    BY AlwaysFits DEF NewBufferPanics
  <2>2. /\ Turn(g) /\ pc[g] = "allocate" /\ my'[g].call = my[g].call /\ my'[g].e = my[g].e
        /\ NewBuffer("data", None, "zero") /\ pc'[g] = "getKey" /\ my'[g].b = next
        /\ my'[g].panics = my[g].panics /\ UNCHANGED <<enclaves, key>>
    BY <1>1, <2>1, OpenAllocateDid
  <2>3. next \in Ids /\ buf'[next] = [live |-> TRUE, kind |-> "data", of |-> None, data |-> "zero"]
    BY <2>2, Fresh
  <2>4. buf'[next].live /\ next # None
    BY <2>3, Numbers
  <2>5. ServedInv(g)'
    BY <1>0, <2>2, <2>4 DEF ServedInv, OwnsInv, Live, Ending, Viewing, Working
  <2> QED BY <2>2, <2>5, QuietNew DEF Viewing
<1>2. CASE Decrypt(g)
  <2>1. /\ pc[g] = "decrypt" /\ my[g].call = "Open" /\ Usable(g)
        /\ key # None /\ my[g].e.key = key /\ \A x \in KeysRead(g) : Authentic(g, x)
    <3>1. pc[g] = "decrypt" /\ my[g].call = "Open"
      BY <1>0, <1>2, DecryptDid DEF OwnsInv
    <3>2. /\ key # None /\ my[g].e.key = key /\ Usable(g) /\ buf[my[g].k].of = key
      BY <1>0, <3>1 DEF ServedInv, Usable, Viewing, Working
    <3>3. \A x \in KeysRead(g) : Authentic(g, x)
      BY <3>2, NothingUnderWay DEF Authentic
    <3> QED BY <3>1, <3>2, <3>3
  <2>2. /\ Turn(g) /\ pc'[g] = "dropView" /\ my'[g] = my[g] /\ my[g].b \in Ids
        /\ buf'[my[g].b] = [buf[my[g].b] EXCEPT !.data = my[g].e.data]
        /\ \A i \in Ids \ {my[g].b} : buf'[i] = buf[i]
        /\ UNCHANGED <<enclaves, key>>
    BY <1>2, <2>1, DecryptDid
  <2>3. /\ buf'[my[g].b].live = buf[my[g].b].live /\ buf'[my[g].b].kind = buf[my[g].b].kind
        /\ buf'[my[g].b].data = my[g].e.data
    BY <2>2 DEF IInv, TypeOK
  <2>4. my[g].k \in Ids /\ my[g].k # my[g].b
    BY <1>0, <2>1, <2>2, Numbers DEF Usable, Live
  <2>5. \A h \in Goroutines \ {g} : pc'[h] \in Viewing => my'[h].k # my'[g].k
    BY <1>0, <2>1, <2>2 DEF ServedInv, Turn, Viewing
  <2>6. ServedInv(g)'
    BY <1>0, <2>1, <2>2, <2>3, <2>4, <2>5 DEF ServedInv, Live, Ending, Viewing, Working
  <2> QED BY <1>n, <2>1, <2>2, <2>3, <2>4, <2>6, QuietStep DEF Viewing
<1>3. CASE Opened(g)
  <2>1. /\ Turn(g) /\ pc[g] = "opened" /\ pc'[g] = "idle" /\ my'[g] = NoLocals
        /\ UNCHANGED <<buf, enclaves, key>>
    BY <1>3, OpenedDid
  <2>2. ServedInv(g)'
    BY <2>1, ServedIdle
  <2> QED BY <2>1, <2>2, QuietTurn DEF Viewing
<1> QED BY <1>1, <1>2, <1>3 DEF OpenStep

(* A call of a program in which nobody purges. *)
LEMMA QuietCalls ==
  ASSUME EnoughMemory, SealerOwns, PurgeFree, IInv, OwnInv, QuietInv, UNCHANGED program,
         NEW g \in Goroutines, Call(g)
  PROVE  QuietInv'
<1>0. /\ ServedInv(g) /\ ~NewBufferPanics(g, "data")
      /\ my[g].b \in Coffers /\ my[g].b # None => my[g].b \in Ids
  BY AlwaysFits DEF QuietInv, NewBufferPanics, IInv, TypeOK, Coffers
<1>n. ASSUME NewBuffer("data", None, "plain")
      PROVE  next # None /\ buf'[next].live /\ \A i \in Ids \ {next} : buf'[i] = buf[i]
  <2>1. /\ next \in Ids /\ \A i \in Ids \ {next} : buf'[i] = buf[i]
        /\ buf'[next] = [live |-> TRUE, kind |-> "data", of |-> None, data |-> "plain"]
    BY <1>n, Fresh
  <2> QED BY <2>1, Numbers
<1>1. CASE CallNewBuffer(g)
  <2>1. /\ Turn(g) /\ pc[g] = "idle" /\ pc'[g] = "idle" /\ my'[g] = my[g]
        /\ NewBuffer("data", None, "plain") /\ UNCHANGED <<enclaves, key>>
    BY <1>0, <1>1, NewBufferDid
  <2>2. ServedInv(g)'
    BY <1>0, <2>1 DEF ServedInv, Ending, Viewing, Working
  <2> QED BY <2>1, <2>2, QuietNew DEF Viewing
<1>2. CASE CallNewEnclaveRandom(g)
  <2>1. /\ Turn(g) /\ pc[g] = "idle" /\ pc'[g] = "sealRandom" /\ my'[g].call = "Seal"
        /\ my'[g].b = next /\ ~my'[g].panics
        /\ NewBuffer("data", None, "plain") /\ UNCHANGED <<enclaves, key>>
    BY <1>0, <1>2, NewRandomDid
  <2>2. ServedInv(g)'
    BY <2>1, <1>n DEF ServedInv, Live, Ending, Viewing, Working
  <2> QED BY <2>1, <2>2, QuietNew DEF Viewing
<1>3. CASE /\ Turn(g) /\ pc[g] = "idle" /\ UNCHANGED <<buf, enclaves, key>> /\ ~my'[g].panics
           /\ \/ pc'[g] = "getKey" /\ my'[g].call = "NewEnclave"
              \/ my'[g].e \in enclaves /\ pc'[g] = "allocate" /\ my'[g].call = "Open"
              \/ pc'[g] = "melt" /\ my'[g].call = "Seal" /\ Live(my'[g].b)
              \/ pc'[g] = "destroy" /\ my'[g].call = "Destroy"
  <2>1. my'[g].e \in enclaves => key # None /\ my'[g].e.key = key
    BY DEF QuietInv
  <2>2. ServedInv(g)'
    BY <1>3, <2>1 DEF ServedInv, Live, Ending, Viewing, Working
  <2>3. pc'[g] \notin Viewing /\ pc[g] \notin Viewing
    BY <1>3 DEF Viewing
  <2> QED BY <1>3, <2>2, <2>3, QuietTurn
<1>4. program.calls[g] \cap {"Purge", "SafePanic", "Exit"} = {}
  BY DEF PurgeFree
<1> QED BY <1>1, <1>2, <1>3, <1>4, Begun

LEMMA QuietInductive ==
  ASSUME EnoughMemory, SealerOwns
  PROVE  PurgeFree /\ IInv /\ OwnInv /\ QuietInv /\ [Next]_vars => QuietInv'
<1> SUFFICES ASSUME PurgeFree, IInv, OwnInv, QuietInv, [Next]_vars PROVE QuietInv'
  OBVIOUS
<1>s. UNCHANGED <<buf, key, enclaves, pc, my>> => QuietInv'
  BY DEF QuietInv, ServedInv, Live
<1>1. ASSUME NEW g \in Goroutines, Run(g) PROVE QuietInv'
  <2>1. UNCHANGED program /\ (Call(g) \/ Step(g))
    BY <1>1 DEF Run
  <2>2. ~(PurgeStep(g) \/ ExitStep(g) \/ Recover(g))
    BY WoundDown DEF QuietInv, ServedInv
  <2> QED BY <2>1, <2>2, QuietCalls, QuietLookup, QuietSeal, QuietOpen DEF Step
<1>2. ASSUME NEW c \in Ids, Rekey(c) PROVE QuietInv'
  <2>1. UNCHANGED <<buf, key, enclaves, pc, my>>
    BY <1>2 DEF Rekey, RekeyStep, RekeyBegin, RekeyEnd, Crash, client, memory
  <2> QED BY <2>1, <1>s
<1>3. CASE UNCHANGED vars
  BY <1>3, <1>s DEF vars
<1> QED BY <1>1, <1>2, <1>3 DEF Next

LEMMA InitQuiet == Init => QuietInv
<1> SUFFICES ASSUME Init PROVE QuietInv
  OBVIOUS
<1>1. key = None /\ enclaves = {} /\ \A i \in Ids : ~buf[i].live
  BY DEF Init, Unused
<1>2. ASSUME NEW g \in Goroutines PROVE ServedInv(g)
  <2>1. pc[g] = "idle" /\ my[g] = NoLocals
    BY DEF Init
  <2>2. NoLocals.call = "none" /\ ~NoLocals.panics
    BY DEF NoLocals
  <2> QED BY <2>1, <2>2 DEF ServedInv, Ending, Viewing, Working
<1> QED BY <1>1, <1>2 DEF QuietInv

(* The program stays the same. *)
LEMMA SameProgram == [Next]_vars => UNCHANGED program
BY DEF Next, Run, Rekey, vars

LEMMA Quiet == ASSUME EnoughMemory, SealerOwns PROVE Spec => [](PurgeFree => QuietInv)
<1> DEFINE Q == PurgeFree => QuietInv
<1>1. Init => Q
  BY InitQuiet
<1>2. IInv /\ OwnInv /\ Q /\ [Next]_vars => Q'
  <2> SUFFICES ASSUME IInv, OwnInv, Q, [Next]_vars, PurgeFree' PROVE QuietInv'
    OBVIOUS
  <2>1. PurgeFree
    BY SameProgram DEF PurgeFree
  <2> QED BY <2>1, QuietInductive
<1> HIDE DEF Q
<1>3. Spec => []Q
  BY <1>1, <1>2, Invariance, Ownership, PTL DEF Spec
<1> QED BY <1>3 DEF Q

(* No copy of the session key outlives the call that took it                *)
(* (core/coffer.go:75), where nobody purges, the process may lock the       *)
(* memory it needs, and nobody seals or destroys a buffer while another     *)
(* goroutine seals it: without one of these a call panics and purges, the   *)
(* Open of an older enclave then fails, and its view stays behind.          *)
THEOREM NoViewLeaks == ASSUME EnoughMemory, SealerOwns PROVE Spec => []NoKeyViewLeak
<1>1. (PurgeFree => QuietInv) => NoKeyViewLeak
  <2> SUFFICES ASSUME QuietInv, \A g \in Goroutines : pc[g] = "idle"
               PROVE  ~\E i \in LiveSet : buf[i].kind = "view"
    BY DEF NoKeyViewLeak
  <2> QED BY DEF QuietInv, Viewing, LiveSet
<1> QED BY <1>1, Quiet, PTL

-----------------------------------------------------------------------------
(* Where somebody seals a buffer nobody purges, panics or exits. *)
SealersDoNotPurge ==
  \A p \in Programs : \A g, h \in Goroutines :
    p.calls[g] \cap {"Seal", "NewEnclaveRandom"} # {} =>
      p.calls[h] \cap {"Purge", "SafePanic", "Exit"} = {}

(* Who is at a Seal has called it, or NewEnclaveRandom. *)
SealsInv ==
  \A g \in Goroutines :
    my[g].call = "Seal" => program.calls[g] \cap {"Seal", "NewEnclaveRandom"} # {}

LEMMA SealsInductive == IInv /\ SealsInv /\ [Next]_vars => SealsInv'
<1> SUFFICES ASSUME IInv, SealsInv, [Next]_vars PROVE SealsInv'
  OBVIOUS
<1>0. UNCHANGED program /\ NoLocals.call = "none"
  BY SameProgram, NothingLocal
<1>t. ASSUME NEW g \in Goroutines, Turn(g),
             \/ my'[g].call = my[g].call \/ my'[g].call # "Seal"
             \/ program.calls[g] \cap {"Seal", "NewEnclaveRandom"} # {}
      PROVE  SealsInv'
  BY <1>0, <1>t DEF SealsInv, Turn
<1>1. ASSUME NEW g \in Goroutines, Run(g) PROVE SealsInv'
  <2>0. Call(g) \/ Step(g)
    BY <1>1 DEF Run
  <2>1. CASE CallNewBuffer(g)
    BY <2>1, <1>t, NewBufferDid DEF SameCall
  <2>2. CASE CallNewEnclaveRandom(g)
    BY <2>2, <1>t, NewRandomDid
  <2>3. CASE Call(g) /\ ~CallNewBuffer(g) /\ ~CallNewEnclaveRandom(g)
    <3>1. Turn(g) /\ (my'[g].call = "Seal" => "Seal" \in program.calls[g])
      BY <2>3, Begun
    <3> QED BY <3>1, <1>t
  <2>4. CASE KeyStep(g) \/ ViewStep(g)
    BY <2>4, <1>t, LookedUp DEF SameCall
  <2>5. CASE PurgeStep(g) \/ ExitStep(g) \/ Recover(g)
    BY <2>5, <1>0, <1>t, WoundDown DEF SameCall
  <2>6. CASE SealRandom(g) \/ SealMelt(g) \/ SealRLock(g) \/ Encrypt(g)
    BY <2>6, <1>0, <1>t, SealRandomDid, SealMeltDid, SealRLockDid, EncryptDid DEF SameCall
  <2>7. CASE DropView(g) \/ Wipe(g) \/ Destroy(g)
    BY <2>7, <1>0, <1>t, DropViewDid, WipeDid, DestroyDid
  <2>8. CASE OpenStep(g)
    BY <2>8, <1>0, <1>t, OpenAllocateDid, DecryptDid, OpenedDid DEF OpenStep, SameCall
  <2> QED BY <2>0, <2>1, <2>2, <2>3, <2>4, <2>5, <2>6, <2>7, <2>8 DEF Step, SealStep
<1>2. ASSUME NEW c \in Ids, Rekey(c) PROVE SealsInv'
  <2>1. UNCHANGED my
    BY <1>2 DEF Rekey, RekeyStep, RekeyBegin, RekeyEnd, Crash
  <2> QED BY <1>0, <2>1 DEF SealsInv
<1>3. CASE UNCHANGED vars
  BY <1>3 DEF vars, SealsInv
<1> QED BY <1>1, <1>2, <1>3 DEF Next

(* Seal and Open do not panic, and Open returns what was sealed, in a live  *)
(* buffer (buffer.go:243, enclave.go:40, examples/deadlock/x01/poc.go:57),  *)
(* for programs that keep to this: a buffer is sealed by one goroutine,     *)
(* which alone destroys it, and the process is not purged while somebody    *)
(* seals.                                                                   *)
THEOREM CallsKeepTheirPromise ==
  ASSUME EnoughMemory, SealerOwns, SealersDoNotPurge
  PROVE  Spec => []SealAndOpenReturn
<1>1. Init => SealsInv
  BY NothingLocal DEF Init, SealsInv
<1>2. Spec => []SealsInv
  BY <1>1, SealsInductive, Invariance, PTL DEF Spec
<1>3. IInv /\ SealsInv /\ (PurgeFree => QuietInv) => SealAndOpenReturn
  <2> SUFFICES ASSUME IInv, SealsInv, PurgeFree => QuietInv, NEW g \in Goroutines
               PROVE  /\ ~(my[g].call = "Seal" /\ my[g].panics)
                      /\ PurgeFree =>
                           /\ my[g].call = "Open" => ~my[g].panics
                           /\ pc[g] = "opened" => Live(my[g].b) /\ buf[my[g].b].data = my[g].e.data
    BY DEF SealAndOpenReturn, SealReturns, OpenReturns
  <2>1. my[g].call = "Seal" => PurgeFree
    BY DEF SealsInv, SealersDoNotPurge, PurgeFree, IInv, TypeOK
  <2>2. PurgeFree => ServedInv(g)
    BY DEF QuietInv
  <2>3. pc[g] = "opened" => my[g].call = "Open"
    BY DEF IInv, CallInv
  <2> QED BY <2>1, <2>2, <2>3 DEF ServedInv, Working
<1> QED BY <1>2, <1>3, Invariance, Quiet, PTL
=============================================================================
