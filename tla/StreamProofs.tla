---------------------------- MODULE StreamProofs ----------------------------
(***************************************************************************)
(* A Stream under any number of goroutines: bytes come out once and in     *)
(* order even if it is purged, and unless it is purged it is a queue of    *)
(* bytes with atomic operations.                                           *)
(***************************************************************************)
EXTENDS Stream, SequenceTheorems, WellFoundedInduction, TLAPS

(* Induction over the natural numbers, by the least number that is not in   *)
(* the set.                                                                 *)
LEMMA SetInduction ==
  ASSUME NEW G, 0 \in G, \A n \in Nat : n \in G => n + 1 \in G
  PROVE  Nat \subseteq G
<1> SUFFICES ASSUME Nat \ G # {} PROVE FALSE
  OBVIOUS
<1> DEFINE R == OpToRel(<, Nat)
<1>1. R = {ss \in Nat \X Nat : ss[1] < ss[2]}
  BY DEF OpToRel
<1>2. \A x, y \in Nat : x < y => <<x, y>> \in R
  BY <1>1
<1>3. IsWellFoundedOn(R, Nat)
  BY NatLessThanWellFounded
<1> HIDE DEF R
<1>4. PICK m \in Nat \ G : \A y \in Nat \ G : <<y, m>> \notin R
  BY <1>3, WFMin
<1>5. m # 0 /\ m - 1 \in Nat
  BY <1>4
<1>6. m - 1 \in G
  <2>1. <<m - 1, m>> \in R
    BY <1>2, <1>5
  <2> QED BY <1>4, <1>5, <2>1
<1> QED BY <1>4, <1>5, <1>6
-----------------------------------------------------------------------------
(* FlattenSeq: f is the function that it is defined by. *)
Flattens(f, s) ==
  \A i \in 1..Len(s) : f[i] = IF i = 1 THEN s[i] ELSE f[i - 1] \o s[i]

(* There is one such function. *)
LEMMA FlattenerExists ==
  ASSUME NEW S, NEW s \in Seq(Seq(S))
  PROVE  \E f \in [1..Len(s) -> Seq(S)] : Flattens(f, s)
<1> DEFINE Upto(k) == \E f \in [1..k -> Seq(S)] :
                        \A i \in 1..k : f[i] = IF i = 1 THEN s[i] ELSE f[i - 1] \o s[i]
           G == {k \in Nat : k <= Len(s) => Upto(k)}
<1>0. Len(s) \in Nat /\ \A i \in 1..Len(s) : s[i] \in Seq(S)
  BY LenProperties, ElementOfSeq
<1>1. 0 \in G
  <2>1. [i \in 1..0 |-> <<>>] \in [1..0 -> Seq(S)] /\ \A i \in 1..0 : FALSE
    OBVIOUS
  <2>2. Upto(0)
    BY <2>1
  <2> QED BY <2>2
<1>2. ASSUME NEW n \in Nat, n \in G PROVE n + 1 \in G
  <2> SUFFICES ASSUME n + 1 <= Len(s) PROVE Upto(n + 1)
    <3> HIDE DEF Upto
    <3> QED BY <1>0
  <2>0. Upto(n)
    <3>1. n <= Len(s)
      BY <1>0
    <3> HIDE DEF Upto
    <3> QED BY <1>2, <3>1
  <2>1. PICK f \in [1..n -> Seq(S)] : \A i \in 1..n : f[i] = IF i = 1 THEN s[i] ELSE f[i - 1] \o s[i]
    BY <2>0
  <2> DEFINE h == [i \in 1..(n + 1) |-> IF i <= n THEN f[i]
                                       ELSE IF i = 1 THEN s[i] ELSE f[i - 1] \o s[i]]
  <2>2. \A i \in 1..(n + 1) : h[i] \in Seq(S)
    <3> SUFFICES ASSUME NEW i \in 1..(n + 1) PROVE h[i] \in Seq(S)
      OBVIOUS
    <3>1. CASE i <= n
      BY <3>1
    <3>2. CASE i = 1 /\ ~(i <= n)
      BY <1>0, <3>2
    <3>3. CASE i # 1 /\ ~(i <= n)
      <4>1. i - 1 \in 1..n /\ i \in 1..Len(s)
        BY <1>0, <3>3
      <4>2. f[i - 1] \in Seq(S) /\ s[i] \in Seq(S)
        BY <1>0, <4>1
      <4>3. f[i - 1] \o s[i] \in Seq(S)
        BY <4>2, ConcatProperties
      <4> QED BY <3>3, <4>3
    <3> QED BY <3>1, <3>2, <3>3
  <2>3. h \in [1..(n + 1) -> Seq(S)]
    BY <2>2
  <2>4. ASSUME NEW i \in 1..(n + 1) PROVE h[i] = IF i = 1 THEN s[i] ELSE h[i - 1] \o s[i]
    <3>1. i # 1 => i - 1 \in 1..(n + 1) /\ h[i - 1] = f[i - 1]
      OBVIOUS
    <3>2. CASE i <= n
      <4>1. i \in 1..n /\ h[i] = f[i]
        BY <3>2
      <4>2. f[i] = IF i = 1 THEN s[i] ELSE f[i - 1] \o s[i]
        BY <2>1, <4>1
      <4> QED BY <3>1, <4>1, <4>2
    <3>3. CASE ~(i <= n)
      BY <3>1, <3>3
    <3> QED BY <3>2, <3>3
  <2> HIDE DEF h
  <2> QED BY <2>3, <2>4
<1> HIDE DEF G
<1>3. Len(s) \in G
  BY <1>0, <1>1, <1>2, SetInduction
<1>4. Upto(Len(s))
  BY <1>0, <1>3 DEF G
<1> QED BY <1>4 DEF Flattens

LEMMA FlattenerUnique ==
  ASSUME NEW s, Len(s) \in Nat, NEW f, NEW h, Flattens(f, s), Flattens(h, s)
  PROVE  \A i \in 1..Len(s) : f[i] = h[i]
<1> DEFINE G == {k \in Nat : k \in 1..Len(s) => f[k] = h[k]}
<1>1. 0 \in G
  OBVIOUS
<1>2. ASSUME NEW n \in Nat, n \in G PROVE n + 1 \in G
  BY <1>2 DEF Flattens
<1>3. Nat \subseteq G
  <2> HIDE DEF G
  <2> QED BY <1>1, <1>2, SetInduction
<1> QED BY <1>3

(* FlattenSeq is the last value of this function. *)
LEMMA FlattenIs ==
  ASSUME NEW S, NEW s \in Seq(Seq(S)), s # <<>>, NEW h, Flattens(h, s)
  PROVE  FlattenSeq(s) = h[Len(s)]
<1>0. Len(s) \in Nat /\ Len(s) # 0 /\ Len(s) \in 1..Len(s)
  BY LenProperties, EmptySeq
<1> DEFINE Def(f) == f = [i \in 1..Len(s) |-> IF i = 1 THEN s[i] ELSE f[i - 1] \o s[i]]
           fl == CHOOSE f : Def(f)
<1>1. PICK f \in [1..Len(s) -> Seq(S)] : Flattens(f, s)
  BY FlattenerExists
<1>2. Def(f)
  BY <1>1 DEF Flattens
<1>3. Def(fl)
  <2> HIDE DEF Def
  <2> QED BY <1>2
<1>4. Flattens(fl, s)
  <2> HIDE DEF fl
  <2> QED BY <1>3 DEF Flattens
<1>5. FlattenSeq(s) = fl[Len(s)]
  BY <1>0 DEF FlattenSeq
<1> HIDE DEF fl
<1>6. fl[Len(s)] = h[Len(s)]
  BY <1>0, <1>4, FlattenerUnique
<1> QED BY <1>5, <1>6

(* What FlattenSeq makes of a list that is empty, that grows at the back    *)
(* and that grows at the front.                                             *)
LEMMA FlattenEmpty == FlattenSeq(<<>>) = <<>>
BY EmptySeq DEF FlattenSeq

LEMMA FlattenType ==
  ASSUME NEW S, NEW s \in Seq(Seq(S))
  PROVE  FlattenSeq(s) \in Seq(S)
<1>1. CASE s = <<>>
  BY <1>1, FlattenEmpty, EmptySeq
<1>2. CASE s # <<>>
  <2>1. PICK f \in [1..Len(s) -> Seq(S)] : Flattens(f, s)
    BY FlattenerExists
  <2>2. Len(s) \in 1..Len(s)
    BY <1>2, LenProperties, EmptySeq
  <2>3. f[Len(s)] \in Seq(S)
    BY <2>1, <2>2
  <2> QED BY <1>2, <2>1, <2>3, FlattenIs
<1> QED BY <1>1, <1>2

LEMMA FlattenAppend ==
  ASSUME NEW S, NEW s \in Seq(Seq(S)), NEW x \in Seq(S)
  PROVE  FlattenSeq(Append(s, x)) = FlattenSeq(s) \o x
<1> DEFINE t == Append(s, x)
           n == Len(s)
<1>1. /\ t \in Seq(Seq(S)) /\ t # <<>> /\ Len(t) = n + 1 /\ t[n + 1] = x /\ n \in Nat
      /\ \A i \in 1..n : t[i] = s[i]
  BY AppendProperties, LenProperties, EmptySeq
<1> HIDE DEF t
<1>2. CASE s = <<>>
  <2>1. n = 0
    BY <1>2, EmptySeq
  <2>2. Flattens([i \in 1..1 |-> x], t)
    BY <1>1, <2>1 DEF Flattens
  <2>3. FlattenSeq(t) = x
    BY <1>1, <2>1, <2>2, FlattenIs
  <2>4. <<>> \o x = x
    BY ConcatEmptySeq
  <2> QED BY <1>2, <2>3, <2>4, FlattenEmpty DEF t
<1>3. CASE s # <<>>
  <2>1. PICK f \in [1..n -> Seq(S)] : Flattens(f, s)
    BY FlattenerExists
  <2>2. n \in 1..n
    BY <1>3, LenProperties, EmptySeq
  <2>3. FlattenSeq(s) = f[n]
    BY <1>3, <2>1, FlattenIs
  <2> DEFINE h == [i \in 1..(n + 1) |-> IF i <= n THEN f[i] ELSE f[n] \o x]
  <2>4. Flattens(h, t)
    <3> SUFFICES ASSUME NEW i \in 1..(n + 1) PROVE h[i] = IF i = 1 THEN t[i] ELSE h[i - 1] \o t[i]
      BY <1>1 DEF Flattens
    <3>1. i # 1 => i - 1 \in 1..n /\ h[i - 1] = f[i - 1]
      BY <1>1
    <3>2. CASE i <= n
      <4>1. i \in 1..n /\ h[i] = f[i] /\ t[i] = s[i]
        BY <1>1, <3>2
      <4>2. f[i] = IF i = 1 THEN s[i] ELSE f[i - 1] \o s[i]
        BY <2>1, <4>1 DEF Flattens
      <4> QED BY <3>1, <4>1, <4>2
    <3>3. CASE i = n + 1
      <4>1. h[i] = f[n] \o x /\ i # 1 /\ i - 1 = n /\ t[i] = x
        BY <1>1, <2>2, <3>3
      <4> QED BY <3>1, <4>1
    <3> QED BY <1>1, <3>2, <3>3
  <2>5. h[n + 1] = f[n] \o x
    BY <1>1
  <2> HIDE DEF h
  <2>6. FlattenSeq(t) = h[n + 1]
    BY <1>1, <2>4, FlattenIs
  <2> QED BY <2>3, <2>5, <2>6 DEF t
<1> QED BY <1>2, <1>3

LEMMA FlattenPush ==
  ASSUME NEW S, NEW s \in Seq(Seq(S)), NEW x \in Seq(S)
  PROVE  FlattenSeq(<<x>> \o s) = x \o FlattenSeq(s)
<1> DEFINE t == <<x>> \o s
           n == Len(s)
<1>1. /\ t \in Seq(Seq(S)) /\ Len(t) = n + 1 /\ n \in Nat
      /\ t[1] = x /\ \A i \in 1..n : t[i + 1] = s[i]
  <2>1. <<x>> \in Seq(Seq(S)) /\ Len(<<x>>) = 1 /\ <<x>>[1] = x /\ n \in Nat
    BY LenProperties
  <2> HIDE DEF n
  <2> QED BY <2>1, ConcatProperties DEF n
<1>2. t # <<>>
  BY <1>1, EmptySeq
<1> HIDE DEF t
<1>3. CASE s = <<>>
  <2>1. n = 0
    BY <1>3, EmptySeq
  <2>2. Flattens([i \in 1..1 |-> x], t)
    BY <1>1, <2>1 DEF Flattens
  <2>3. FlattenSeq(t) = x
    BY <1>1, <1>2, <2>1, <2>2, FlattenIs
  <2>4. x \o <<>> = x
    BY ConcatEmptySeq
  <2> QED BY <1>3, <2>3, <2>4, FlattenEmpty DEF t
<1>4. CASE s # <<>>
  <2>1. PICK f \in [1..n -> Seq(S)] : Flattens(f, s)
    BY FlattenerExists
  <2>2. n \in 1..n
    BY <1>4, LenProperties, EmptySeq
  <2>3. FlattenSeq(s) = f[n]
    BY <1>4, <2>1, FlattenIs
  <2> DEFINE h == [i \in 1..(n + 1) |-> IF i = 1 THEN x ELSE x \o f[i - 1]]
  <2>4. Flattens(h, t)
    <3> SUFFICES ASSUME NEW i \in 1..(n + 1) PROVE h[i] = IF i = 1 THEN t[i] ELSE h[i - 1] \o t[i]
      BY <1>1 DEF Flattens
    <3>1. CASE i = 1
      BY <1>1, <3>1
    <3>2. CASE i = 2
      <4>0. 1 \in 1..n /\ 1 \in 1..(n + 1) /\ 2 \in 1..(n + 1)
        BY <1>1, <2>2
      <4>1. f[1] = s[1]
        BY <2>1, <4>0 DEF Flattens
      <4>2. t[1 + 1] = s[1]
        BY <1>1, <4>0
      <4>3. h[2] = x \o f[1] /\ h[1] = x
        BY <4>0
      <4>4. 1 + 1 = 2 /\ i - 1 = 1 /\ i # 1
        BY <3>2
      <4> HIDE DEF h
      <4> QED BY <3>2, <4>1, <4>2, <4>3, <4>4
    <3>3. CASE i > 2
      <4>1. /\ i - 1 \in 1..n /\ i - 2 \in 1..n /\ i - 1 \in 1..(n + 1) /\ (i - 1) - 1 = i - 2
            /\ i - 1 # 1 /\ i # 1
        BY <1>1, <3>3
      <4>2. f[i - 1] = f[i - 2] \o s[i - 1]
        <5>1. f[i - 1] = IF i - 1 = 1 THEN s[i - 1] ELSE f[(i - 1) - 1] \o s[i - 1]
          BY <2>1, <4>1 DEF Flattens
        <5> QED BY <4>1, <5>1
      <4>3. t[i] = s[i - 1]
        <5>1. (i - 1) + 1 = i
          BY <1>1
        <5> QED BY <1>1, <4>1, <5>1
      <4>4. h[i] = x \o f[i - 1] /\ h[i - 1] = x \o f[i - 2]
        <5>1. h[i] = x \o f[i - 1]
          BY <4>1
        <5>2. h[i - 1] = x \o f[(i - 1) - 1]
          BY <4>1
        <5> QED BY <4>1, <5>1, <5>2
      <4>5. f[i - 2] \in Seq(S) /\ s[i - 1] \in Seq(S)
        BY <2>1, <4>1, ElementOfSeq
      <4>6. x \o (f[i - 2] \o s[i - 1]) = (x \o f[i - 2]) \o s[i - 1]
        <5>1. \A u, v \in Seq(S) : (x \o u) \o v = x \o (u \o v)
          BY ConcatAssociative, SMTT(40)
        <5> QED BY <4>5, <5>1
      <4> HIDE DEF h, n, t
      <4> QED BY <4>1, <4>2, <4>3, <4>4, <4>6
    <3>4. i = 1 \/ i = 2 \/ i > 2
      BY <1>1
    <3> QED BY <3>1, <3>2, <3>3, <3>4
  <2>5. h[n + 1] = x \o f[n]
    <3>1. n + 1 \in 1..(n + 1) /\ n + 1 # 1 /\ (n + 1) - 1 = n
      BY <1>1, <2>2
    <3> QED BY <3>1
  <2> HIDE DEF h
  <2>6. FlattenSeq(t) = h[n + 1]
    BY <1>1, <1>2, <2>4, FlattenIs
  <2> QED BY <2>3, <2>5, <2>6 DEF t
<1> QED BY <1>3, <1>4
-----------------------------------------------------------------------------
(* Sequences of bytes.                                                      *)

(* The bytes that somebody wrote. *)
Real(s) == {s[k] : k \in 1..Len(s)} \ {Zero}

(* Their order in one sequence, and between two of them. *)
Rising(s) == \A i, j \in 1..Len(s) : i < j /\ s[i] # Zero /\ s[j] # Zero => s[i] < s[j]
Before(s, t) == \A a \in Real(s), b \in Real(t) : a < b
UpTo(s, n) == \A a \in Real(s) : a <= n

(* A part of a sequence. *)
LEMMA Part ==
  ASSUME NEW S, NEW s \in Seq(S), NEW a \in Nat \ {0}, NEW b \in Nat, b <= Len(s)
  PROVE  /\ SubSeq(s, a, b) \in Seq(S)
         /\ Len(SubSeq(s, a, b)) = IF a <= b THEN b - a + 1 ELSE 0
         /\ \A i \in 1..(b - a + 1) : SubSeq(s, a, b)[i] = s[a + i - 1]
<1>1. \A i \in a..b : i \in 1..Len(s)
  BY LenProperties
<1>2. \A i \in a..b : s[i] \in S
  BY <1>1, ElementOfSeq
<1> QED BY <1>2, SubSeqProperties

(* The two parts that a sequence is cut into. *)
LEMMA Cut ==
  ASSUME NEW S, NEW s \in Seq(S), NEW n \in Nat, n <= Len(s)
  PROVE  /\ SubSeq(s, 1, n) \in Seq(S) /\ Len(SubSeq(s, 1, n)) = n
         /\ SubSeq(s, n + 1, Len(s)) \in Seq(S) /\ Len(SubSeq(s, n + 1, Len(s))) = Len(s) - n
         /\ s = SubSeq(s, 1, n) \o SubSeq(s, n + 1, Len(s))
<1>1. Len(s) \in Nat
  BY LenProperties
<1>2. SubSeq(s, 1, n) \in Seq(S) /\ Len(SubSeq(s, 1, n)) = n
  BY <1>1, Part
<1>3. SubSeq(s, n + 1, Len(s)) \in Seq(S) /\ Len(SubSeq(s, n + 1, Len(s))) = Len(s) - n
  BY <1>1, Part
<1>4. SubSeq(s, 1, n) \o SubSeq(s, n + 1, Len(s)) = SubSeq(s, 1, Len(s))
  <2>1. 1 \in 1..(Len(s) + 1) /\ n \in (1 - 1)..Len(s) /\ Len(s) \in n..Len(s)
    BY <1>1
  <2> QED BY <2>1, ConcatAdjacentSubSeq
<1>5. SubSeq(s, 1, Len(s)) = s
  BY SubSeqFull
<1> QED BY <1>2, <1>3, <1>4, <1>5

(* A concatenation cut where its first part ends. *)
LEMMA CutBack ==
  ASSUME NEW S, NEW s \in Seq(S), NEW t \in Seq(S)
  PROVE  /\ SubSeq(s \o t, 1, Len(s)) = s
         /\ SubSeq(s \o t, Len(s) + 1, Len(s \o t)) = t
<1> DEFINE u == s \o t
<1>1. /\ Len(s) \in Nat /\ Len(t) \in Nat /\ u \in Seq(S) /\ Len(u) = Len(s) + Len(t)
      /\ \A i \in 1..(Len(s) + Len(t)) : u[i] = IF i <= Len(s) THEN s[i] ELSE t[i - Len(s)]
  BY LenProperties, ConcatProperties
<1> HIDE DEF u
<1>2. SubSeq(u, 1, Len(s)) = s
  <2>1. /\ SubSeq(u, 1, Len(s)) \in Seq(S) /\ Len(SubSeq(u, 1, Len(s))) = Len(s)
        /\ \A i \in 1..((Len(s) - 1) + 1) : SubSeq(u, 1, Len(s))[i] = u[1 + i - 1]
    BY <1>1, Part
  <2>2. ASSUME NEW i \in 1..Len(s) PROVE SubSeq(u, 1, Len(s))[i] = s[i]
    BY <1>1, <2>1
  <2> QED BY <2>1, <2>2, SeqEqual
<1>3. SubSeq(u, Len(s) + 1, Len(u)) = t
  <2> DEFINE v == SubSeq(u, Len(s) + 1, Len(u))
  <2>1. /\ v \in Seq(S) /\ Len(v) = IF Len(s) + 1 <= Len(u) THEN Len(u) - (Len(s) + 1) + 1 ELSE 0
        /\ \A i \in 1..(Len(u) - (Len(s) + 1) + 1) : v[i] = u[(Len(s) + 1) + i - 1]
    BY <1>1, Part
  <2> HIDE DEF v
  <2>2. Len(v) = Len(t)
    BY <1>1, <2>1
  <2>3. ASSUME NEW i \in 1..Len(t) PROVE v[i] = t[i]
    <3>1. v[i] = u[Len(s) + i]
      BY <1>1, <2>1
    <3>2. u[Len(s) + i] = t[(Len(s) + i) - Len(s)]
      <4>1. Len(s) + i \in 1..(Len(s) + Len(t)) /\ ~(Len(s) + i <= Len(s))
        BY <1>1
      <4> QED BY <1>1, <4>1
    <3>3. (Len(s) + i) - Len(s) = i
      BY <1>1
    <3> QED BY <3>1, <3>2, <3>3
  <2>4. v = t
    BY <2>1, <2>2, <2>3, SeqEqual
  <2> QED BY <2>4 DEF v
<1> QED BY <1>2, <1>3 DEF u

LEMMA ByteAssociative == \A x, y, z \in Seq(Byte) : (x \o y) \o z = x \o (y \o z)
BY ConcatAssociative, SMTT(40)

(* What is in a concatenation, and when it is in order. *)
LEMMA RealOf ==
  ASSUME NEW s \in Seq(Byte), NEW t \in Seq(Byte)
  PROVE  /\ Real(s) \subseteq Nat /\ Real(<<>>) = {} /\ Rising(<<>>)
         /\ Real(s \o t) = Real(s) \cup Real(t)
         /\ Rising(s \o t) <=> Rising(s) /\ Rising(t) /\ Before(s, t)
<1> DEFINE u == s \o t
           m == Len(s)
           n == Len(t)
<1>1. /\ m \in Nat /\ n \in Nat /\ u \in Seq(Byte) /\ Len(u) = m + n
      /\ \A i \in 1..(m + n) : u[i] = IF i <= m THEN s[i] ELSE t[i - m]
  BY LenProperties, ConcatProperties
<1>2. \A i \in 1..m : s[i] \in Nat
  <2>1. \A i \in 1..m : s[i] \in Byte
    BY ElementOfSeq
  <2> QED BY <2>1, StreamAssumption DEF Byte
<1>3. Real(<<>>) = {} /\ Rising(<<>>)
  BY EmptySeq DEF Real, Rising
<1> HIDE DEF u, m, n
<1>4. /\ \A i \in 1..m : i \in 1..(m + n) /\ u[i] = s[i]
      /\ \A j \in 1..n : m + j \in 1..(m + n) /\ u[m + j] = t[j]
      /\ \A i \in 1..(m + n) : i \in 1..m \/ (i - m \in 1..n /\ i = m + (i - m))
  BY <1>1
<1>5. Real(u) = Real(s) \cup Real(t)
  <2>1. ASSUME NEW i \in 1..(m + n) PROVE (\E k \in 1..m : u[i] = s[k]) \/ (\E k \in 1..n : u[i] = t[k])
    <3>1. CASE i \in 1..m
      BY <1>4, <3>1
    <3>2. CASE i - m \in 1..n /\ i = m + (i - m)
      <4>1. u[m + (i - m)] = t[i - m]
        BY <1>4, <3>2
      <4> QED BY <3>2, <4>1
    <3> QED BY <1>4, <3>1, <3>2
  <2>2. Real(u) \subseteq Real(s) \cup Real(t)
    <3>1. \A i \in 1..(m + n) : u[i] # Zero => u[i] \in Real(s) \cup Real(t)
      BY <2>1 DEF Real, m, n
    <3> QED BY <1>1, <3>1 DEF Real
  <2>3. Real(s) \subseteq Real(u) /\ Real(t) \subseteq Real(u)
    BY <1>1, <1>4 DEF Real, m, n
  <2> QED BY <2>2, <2>3
<1>6. Rising(u) => Rising(s) /\ Rising(t) /\ Before(s, t)
  <2> SUFFICES ASSUME Rising(u) PROVE Rising(s) /\ Rising(t) /\ Before(s, t)
    OBVIOUS
  <2>0. \A i, j \in 1..(m + n) : i < j /\ u[i] # Zero /\ u[j] # Zero => u[i] < u[j]
    BY <1>1 DEF Rising
  <2>1. Rising(s)
    BY <1>1, <1>4, <2>0 DEF Rising, m
  <2>2. Rising(t)
    <3> SUFFICES ASSUME NEW i \in 1..n, NEW j \in 1..n, i < j, t[i] # Zero, t[j] # Zero
                 PROVE  t[i] < t[j]
      BY DEF Rising, n
    <3>1. m + i < m + j /\ m + i \in 1..(m + n) /\ m + j \in 1..(m + n)
      BY <1>1
    <3> QED BY <1>4, <2>0, <3>1
  <2>3. Before(s, t)
    <3> SUFFICES ASSUME NEW i \in 1..m, NEW j \in 1..n, s[i] # Zero, t[j] # Zero
                 PROVE  s[i] < t[j]
      BY DEF Before, Real, m, n
    <3>1. i < m + j /\ i \in 1..(m + n) /\ m + j \in 1..(m + n)
      BY <1>1
    <3> QED BY <1>4, <2>0, <3>1
  <2> QED BY <2>1, <2>2, <2>3
<1>7. Rising(s) /\ Rising(t) /\ Before(s, t) => Rising(u)
  <2> SUFFICES ASSUME Rising(s), Rising(t), Before(s, t),
                      NEW i \in 1..(m + n), NEW j \in 1..(m + n), i < j, u[i] # Zero, u[j] # Zero
               PROVE  u[i] < u[j]
    BY <1>1 DEF Rising
  <2>1. CASE j <= m
    <3>1. i \in 1..m /\ j \in 1..m
      BY <1>1, <2>1
    <3> QED BY <1>4, <3>1 DEF Rising, m
  <2>2. CASE i > m
    <3>1. i - m \in 1..n /\ j - m \in 1..n /\ i - m < j - m /\ i = m + (i - m) /\ j = m + (j - m)
      BY <1>1, <2>2
    <3>2. u[i] = t[i - m] /\ u[j] = t[j - m]
      BY <1>4, <3>1
    <3> QED BY <3>1, <3>2 DEF Rising, n
  <2>3. CASE i <= m /\ j > m
    <3>1. i \in 1..m /\ j - m \in 1..n /\ j = m + (j - m)
      BY <1>1, <2>3
    <3>2. u[i] = s[i] /\ u[j] = t[j - m]
      BY <1>4, <3>1
    <3>3. u[i] \in Real(s) /\ u[j] \in Real(t)
      BY <3>1, <3>2 DEF Real, m, n
    <3> QED BY <3>3 DEF Before
  <2> QED BY <1>1, <2>1, <2>2, <2>3
<1>8. Real(s) \subseteq Nat
  BY <1>2 DEF Real, m
<1> QED BY <1>3, <1>5, <1>6, <1>7, <1>8 DEF u

(* a, b and c one after the other are in order. *)
Chain(a, b, c) ==
  /\ Rising(a) /\ Rising(b) /\ Rising(c)
  /\ Before(a, b) /\ Before(a, c) /\ Before(b, c)

(* What the operations of the stream do to such a chain. *)
LEMMA ChainMoves ==
  ASSUME NEW a \in Seq(Byte), NEW b \in Seq(Byte), NEW c \in Seq(Byte), NEW d \in Seq(Byte)
  PROVE  /\ Chain(a, <<>>, b \o c) => Chain(a, b, c) /\ Chain(a \o b, <<>>, c)
         /\ Chain(a, b, c) => Chain(a, <<>>, c) /\ Chain(a \o b, <<>>, c) /\ Chain(a, <<>>, b \o c)
         /\ Chain(a, b \o d, c) => Chain(a \o b, <<>>, d \o c) /\ Chain(a \o b, <<>>, c)
         /\ Chain(a, b, c) /\ Real(d) = {} => Chain(a, b, d \o c)
         /\ Chain(a, b, c) /\ Rising(d) /\ Before(a, d) /\ Before(b, d) /\ Before(c, d) =>
              Chain(a, b, c \o d)
<1>1. <<>> \in Seq(Byte) /\ Real(<<>>) = {} /\ Rising(<<>>)
  BY EmptySeq, RealOf
<1>2. /\ Real(a \o b) = Real(a) \cup Real(b) /\ Real(b \o c) = Real(b) \cup Real(c)
      /\ Real(b \o d) = Real(b) \cup Real(d) /\ Real(d \o c) = Real(d) \cup Real(c)
      /\ Real(c \o d) = Real(c) \cup Real(d)
  BY RealOf
<1>3. /\ Rising(a \o b) <=> Rising(a) /\ Rising(b) /\ Before(a, b)
      /\ Rising(b \o c) <=> Rising(b) /\ Rising(c) /\ Before(b, c)
      /\ Rising(b \o d) <=> Rising(b) /\ Rising(d) /\ Before(b, d)
      /\ Rising(d \o c) <=> Rising(d) /\ Rising(c) /\ Before(d, c)
      /\ Rising(c \o d) <=> Rising(c) /\ Rising(d) /\ Before(c, d)
  BY RealOf
<1>4. Real(d) = {} => Rising(d)
  <2> SUFFICES ASSUME Real(d) = {}, NEW i \in 1..Len(d) PROVE d[i] = Zero
    BY DEF Rising
  <2> QED BY DEF Real
<1> QED BY <1>1, <1>2, <1>3, <1>4 DEF Chain, Before

(* The chunk that starts at a multiple of the chunk size ends where the     *)
(* next one starts or where the data ends.                                  *)
ChunkEnd(data, i) == IF i + ChunkSize > Len(data) THEN Len(data) ELSE i + ChunkSize

LEMMA Remainder ==
  ASSUME NEW c \in Nat \ {0}, NEW m \in Nat, NEW r \in 0..(c - 1)
  PROVE  (m * c + r) % c = r
<1> DEFINE L == m * c + r
           q == L \div c
           x == L % c
<1>0. m * c \in Nat
  OBVIOUS
<1>1. L \in Nat /\ q \in Nat /\ x \in 0..(c - 1) /\ L = c * q + x
  BY <1>0, SMTT(20)
<1>2. m * c = c * m
  OBVIOUS
<1> HIDE DEF L, q, x
<1>3. L = c * m + r
  BY <1>2 DEF L
<1>4. c * q - c * m = r - x
  <2>1. c * q \in Nat /\ c * m \in Nat
    BY <1>1
  <2> QED BY <1>1, <1>3, <2>1
<1>5. c * q - c * m = c * (q - m)
  BY <1>1
<1>6. ~(q - m >= 1)
  <2> SUFFICES ASSUME q - m >= 1 PROVE FALSE
    OBVIOUS
  <2>1. c * (q - m) >= c
    BY <1>1
  <2> QED BY <1>1, <1>4, <1>5, <2>1
<1>7. ~(q - m <= -1)
  <2> SUFFICES ASSUME q - m <= -1 PROVE FALSE
    OBVIOUS
  <2>1. c * (q - m) <= -c
    BY <1>1
  <2> QED BY <1>1, <1>4, <1>5, <2>1
<1>8. q = m
  BY <1>1, <1>6, <1>7
<1>9. x = r
  <2>1. c * q = c * m
    BY <1>8
  <2>2. c * m \in Nat
    OBVIOUS
  <2> QED BY <1>1, <1>3, <2>1, <2>2
<1> QED BY <1>9 DEF x, L

LEMMA ChunkIs ==
  ASSUME NEW data \in Seq(Byte), NEW m \in Nat, m * ChunkSize < Len(data)
  PROVE  /\ Chunk(data, m * ChunkSize) = SubSeq(data, m * ChunkSize + 1, ChunkEnd(data, m * ChunkSize))
         /\ ChunkEnd(data, m * ChunkSize) \in (m * ChunkSize + 1)..Len(data)
<1> DEFINE i == m * ChunkSize
           r == Len(data) - i
<1>1. ChunkSize \in Nat \ {0} /\ Len(data) \in Nat
  BY StreamAssumption, LenProperties DEF ChunkSize
<1>2. i \in Nat
  BY <1>1
<1>3. CASE i + ChunkSize > Len(data)
  <2>1. r \in 0..(ChunkSize - 1) /\ Len(data) = m * ChunkSize + r
    <3> HIDE DEF i
    <3>1. r \in 0..(ChunkSize - 1) /\ Len(data) = i + r
      BY <1>1, <1>2, <1>3 DEF i
    <3> QED BY <3>1 DEF i
  <2> HIDE DEF r
  <2>2. Len(data) % ChunkSize = r
    BY <1>1, <2>1, Remainder
  <2>3. Len(data) - (Len(data) % ChunkSize) = i
    BY <1>1, <1>2, <2>1, <2>2
  <2> HIDE DEF i
  <2>4. Chunk(data, i) = SubSeq(data, i + 1, Len(data)) /\ ChunkEnd(data, i) = Len(data)
    BY <1>3, <2>3 DEF Chunk, ChunkEnd
  <2>5. i < Len(data)
    BY DEF i
  <2> QED BY <1>1, <1>2, <2>4, <2>5 DEF i
<1>4. CASE ~(i + ChunkSize > Len(data))
  <2> HIDE DEF i
  <2>1. Chunk(data, i) = SubSeq(data, i + 1, i + ChunkSize) /\ ChunkEnd(data, i) = i + ChunkSize
    BY <1>4 DEF Chunk, ChunkEnd
  <2> QED BY <1>1, <1>2, <1>4, <2>1 DEF i
<1> QED BY <1>3, <1>4
-----------------------------------------------------------------------------
(* The invariant.                                                           *)

Locals == [data : Seq(Byte), born : 0..MaxEpoch, i : Nat, n : Nat, rest : Seq(Byte),
           flush : BOOLEAN, got : Seq(Byte), read : Nat, res : Results, out : Seq(Byte),
           drawn : Seq(Byte), start : Nat]

Labels == {"idle", "write", "read", "check", "leftover", "fill", "reseal", "flush", "flushed",
           "grow", "final", "done"}
Reading == {"check", "leftover", "fill", "reseal"}
Critical == Reading \cup {"write"}

(* What a Read has popped and not handed out or pushed back yet. *)
Held == IF mutex \in Goroutines /\ pc[mutex] \in Reading THEN my[mutex].data ELSE <<>>

TypeInv == TypeOK /\ (purging => epoch < MaxEpoch)

(* Who holds the mutex is who is at work under it. *)
LockInv == \A g \in Goroutines : pc[g] \in Critical <=> mutex = g

(* What the locals r are at label l: Write goes in whole chunks, and rest   *)
(* is what follows the bytes that are handed out, or zeroes.                *)
LocalsAt(l, r) ==
  /\ l = "idle" => r = NoLocals
  /\ l = "write" => \E m \in Nat : r.i = m * ChunkSize
  /\ l \in {"leftover", "fill", "reseal"} => r.n < Len(r.data)
  /\ l = "reseal" => r.rest = SubSeq(r.data, r.n + 1, Len(r.data)) \/ Real(r.rest) = {}

LocalInv == \A g \in Goroutines : LocalsAt(pc[g], my[g])

(* What was handed out, what is being read and what is in the list are in   *)
(* the order of the Writes.                                                 *)
OrderInv == Chain(taken, Held, Bytes)

(* They were written before what a Write has yet to join. *)
BoundInv ==
  /\ UpTo(taken, written) /\ UpTo(Held, written) /\ UpTo(Bytes, written)
  /\ \A g \in Goroutines : pc[g] = "write" =>
       LET L == Len(my[g].data)
       IN /\ L <= written
          /\ \A k \in 1..L : my[g].data[k] = written - L + k
          /\ my[g].i < L =>
               UpTo(taken, written - L + my[g].i) /\ UpTo(Bytes, written - L + my[g].i)

IInv == TypeInv /\ LockInv /\ LocalInv /\ OrderInv /\ BoundInv

(* The list of enclaves as bytes. *)
QueueData(q) == [k \in DOMAIN q |-> q[k].data]
BytesOf(q) == FlattenSeq(QueueData(q))

LEMMA QueueBytes ==
  ASSUME NEW q \in Seq(EnclaveType), NEW e \in EnclaveType
  PROVE  /\ BytesOf(q) \in Seq(Byte) /\ BytesOf(<<>>) = <<>> /\ e.data \in Seq(Byte)
         /\ Append(q, e) \in Seq(EnclaveType) /\ <<e>> \o q \in Seq(EnclaveType)
         /\ BytesOf(Append(q, e)) = BytesOf(q) \o e.data
         /\ BytesOf(<<e>> \o q) = e.data \o BytesOf(q)
<1>1. /\ Len(q) \in Nat /\ DOMAIN q = 1..Len(q) /\ e.data \in Seq(Byte)
      /\ \A k \in 1..Len(q) : q[k] \in EnclaveType /\ q[k].data \in Seq(Byte)
  <2>1. \A x \in EnclaveType : x.data \in Seq(Byte)
    BY DEF EnclaveType
  <2> QED BY <2>1, LenProperties, ElementOfSeq
<1>2. QueueData(q) \in Seq(Seq(Byte)) /\ Len(QueueData(q)) = Len(q)
  <2>1. QueueData(q) \in [1..Len(q) -> Seq(Byte)]
    BY <1>1 DEF QueueData
  <2> QED BY <1>1, <2>1
<1>3. BytesOf(q) \in Seq(Byte)
  BY <1>2, FlattenType DEF BytesOf
<1>4. BytesOf(<<>>) = <<>>
  <2>1. QueueData(<<>>) = <<>>
    BY DEF QueueData
  <2> QED BY <2>1, FlattenEmpty DEF BytesOf
<1>5. Append(q, e) \in Seq(EnclaveType) /\ BytesOf(Append(q, e)) = BytesOf(q) \o e.data
  <2> DEFINE s == Append(q, e)
             t == Append(QueueData(q), e.data)
  <2>1. /\ s \in Seq(EnclaveType) /\ Len(s) = Len(q) + 1 /\ s[Len(q) + 1] = e
        /\ \A k \in 1..Len(q) : s[k] = q[k]
    BY AppendProperties
  <2>2. /\ t \in Seq(Seq(Byte)) /\ Len(t) = Len(q) + 1 /\ t[Len(q) + 1] = e.data
        /\ \A k \in 1..Len(q) : t[k] = QueueData(q)[k]
    BY <1>1, <1>2, AppendProperties
  <2>3. DOMAIN s = 1..(Len(q) + 1) /\ t \in [1..(Len(q) + 1) -> Seq(Byte)]
    BY <2>1, <2>2, LenProperties
  <2> HIDE DEF s, t
  <2>4. ASSUME NEW k \in 1..(Len(q) + 1) PROVE s[k].data = t[k]
    <3>1. CASE k \in 1..Len(q)
      BY <1>1, <2>1, <2>2, <3>1 DEF QueueData
    <3>2. CASE k = Len(q) + 1
      BY <2>1, <2>2, <3>2
    <3> QED BY <1>1, <3>1, <3>2
  <2>5. QueueData(s) = t
    BY <2>3, <2>4 DEF QueueData
  <2>6. FlattenSeq(t) = FlattenSeq(QueueData(q)) \o e.data
    BY <1>1, <1>2, FlattenAppend DEF t
  <2> QED BY <2>1, <2>5, <2>6 DEF BytesOf, s
<1>6. <<e>> \o q \in Seq(EnclaveType) /\ BytesOf(<<e>> \o q) = e.data \o BytesOf(q)
  <2> DEFINE s == <<e>> \o q
             t == <<e.data>> \o QueueData(q)
  <2>0. /\ <<e>> \in Seq(EnclaveType) /\ Len(<<e>>) = 1 /\ <<e>>[1] = e
        /\ <<e.data>> \in Seq(Seq(Byte)) /\ Len(<<e.data>>) = 1 /\ <<e.data>>[1] = e.data
    BY <1>1
  <2>1. /\ s \in Seq(EnclaveType) /\ Len(s) = 1 + Len(q) /\ s[1] = e
        /\ \A k \in 1..(1 + Len(q)) : s[k] = IF k <= 1 THEN <<e>>[k] ELSE q[k - 1]
    BY <1>1, <2>0, ConcatProperties
  <2>2. /\ t \in Seq(Seq(Byte)) /\ Len(t) = 1 + Len(q) /\ t[1] = e.data
        /\ \A k \in 1..(1 + Len(q)) : t[k] = IF k <= 1 THEN <<e.data>>[k] ELSE QueueData(q)[k - 1]
    BY <1>1, <1>2, <2>0, ConcatProperties
  <2>3. DOMAIN s = 1..(1 + Len(q)) /\ t \in [1..(1 + Len(q)) -> Seq(Byte)]
    BY <2>1, <2>2, LenProperties
  <2> HIDE DEF s, t
  <2>4. ASSUME NEW k \in 1..(1 + Len(q)) PROVE s[k].data = t[k]
    <3>1. CASE k = 1
      BY <2>1, <2>2, <3>1
    <3>2. CASE k > 1
      <4>1. k - 1 \in 1..Len(q) /\ s[k] = q[k - 1] /\ t[k] = QueueData(q)[k - 1]
        BY <1>1, <2>1, <2>2, <3>2
      <4> QED BY <1>1, <4>1 DEF QueueData
    <3> QED BY <1>1, <3>1, <3>2
  <2>5. QueueData(s) = t
    BY <2>3, <2>4 DEF QueueData
  <2>6. FlattenSeq(t) = e.data \o FlattenSeq(QueueData(q))
    BY <1>1, <1>2, FlattenPush DEF t
  <2> QED BY <2>1, <2>5, <2>6 DEF BytesOf, s
<1> QED BY <1>1, <1>3, <1>4, <1>5, <1>6

(* pop() *)
LEMMA PopBytes ==
  ASSUME NEW q \in Seq(EnclaveType), q # <<>>
  PROVE  /\ Head(q) \in EnclaveType /\ Tail(q) \in Seq(EnclaveType) /\ Head(q).data \in Seq(Byte)
         /\ BytesOf(q) = Head(q).data \o BytesOf(Tail(q))
<1>1. /\ Head(q) \in EnclaveType /\ Tail(q) \in Seq(EnclaveType) /\ Len(Tail(q)) = Len(q) - 1
      /\ \A k \in 1..Len(Tail(q)) : Tail(q)[k] = q[k + 1]
  BY HeadTailProperties
<1>2. q = <<Head(q)>> \o Tail(q)
  <2> DEFINE s == <<Head(q)>> \o Tail(q)
  <2>1. /\ <<Head(q)>> \in Seq(EnclaveType) /\ Len(<<Head(q)>>) = 1 /\ <<Head(q)>>[1] = Head(q)
        /\ Head(q) = q[1] /\ Len(q) \in Nat \ {0} /\ Len(Tail(q)) \in Nat
    BY <1>1, EmptySeq, LenProperties
  <2>2. /\ s \in Seq(EnclaveType) /\ Len(s) = 1 + Len(Tail(q))
        /\ \A k \in 1..(1 + Len(Tail(q))) : s[k] = IF k <= 1 THEN <<Head(q)>>[k] ELSE Tail(q)[k - 1]
    BY <1>1, <2>1, ConcatProperties
  <2> HIDE DEF s
  <2>3. Len(s) = Len(q)
    BY <1>1, <2>1, <2>2
  <2>4. ASSUME NEW k \in 1..Len(s) PROVE s[k] = q[k]
    <3>1. CASE k = 1
      BY <2>1, <2>2, <3>1
    <3>2. CASE k > 1
      <4>1. k - 1 \in 1..Len(Tail(q)) /\ (k - 1) + 1 = k /\ ~(k <= 1) /\ k \in 1..(1 + Len(Tail(q)))
        BY <1>1, <2>1, <2>2, <3>2
      <4>2. s[k] = Tail(q)[k - 1] /\ Tail(q)[k - 1] = q[(k - 1) + 1]
        BY <1>1, <2>2, <4>1
      <4> QED BY <4>1, <4>2
    <3> QED BY <2>1, <2>3, <3>1, <3>2
  <2>5. s = q
    BY <2>2, <2>3, <2>4, SeqEqual
  <2> QED BY <2>5 DEF s
<1> QED BY <1>1, <1>2, QueueBytes

LEMMA Types ==
  ASSUME TypeInv
  PROVE  /\ queue \in Seq(EnclaveType) /\ Bytes \in Seq(Byte) /\ Bytes = BytesOf(queue)
         /\ taken \in Seq(Byte) /\ written \in Nat /\ epoch \in 0..MaxEpoch /\ Held \in Seq(Byte)
         /\ pc \in [Goroutines -> Labels] /\ my \in [Goroutines -> Locals]
         /\ \A g \in Goroutines :
              /\ my[g] \in Locals /\ my[g].data \in Seq(Byte) /\ my[g].rest \in Seq(Byte)
              /\ my[g].n \in Nat /\ my[g].i \in Nat /\ Len(my[g].data) \in Nat
<1>1. /\ queue \in Seq(EnclaveType) /\ taken \in Seq(Byte) /\ written \in Nat /\ epoch \in 0..MaxEpoch
      /\ pc \in [Goroutines -> Labels] /\ my \in [Goroutines -> Locals]
  BY StreamAssumption DEF TypeInv, TypeOK, Labels, Locals
<1>2. Bytes = BytesOf(queue)
  BY DEF Bytes, BytesOf, QueueData
<1>3. Bytes \in Seq(Byte)
  <2>1. QueueData(queue) \in Seq(Seq(Byte))
    <3>1. \A x \in EnclaveType : x.data \in Seq(Byte)
      BY DEF EnclaveType
    <3>2. Len(queue) \in Nat /\ queue \in [1..Len(queue) -> EnclaveType]
      BY <1>1, LenProperties
    <3>3. QueueData(queue) \in [1..Len(queue) -> Seq(Byte)]
      BY <3>1, <3>2 DEF QueueData
    <3> QED BY <3>2, <3>3
  <2> QED BY <1>2, <2>1, FlattenType DEF BytesOf
<1>4. \A g \in Goroutines :
        /\ my[g] \in Locals /\ my[g].data \in Seq(Byte) /\ my[g].rest \in Seq(Byte)
        /\ my[g].n \in Nat /\ my[g].i \in Nat
  <2>1. \A r \in Locals : r.data \in Seq(Byte) /\ r.rest \in Seq(Byte) /\ r.n \in Nat /\ r.i \in Nat
    BY DEF Locals
  <2> QED BY <1>1, <2>1
<1>5. \A g \in Goroutines : Len(my[g].data) \in Nat
  BY <1>4, LenProperties
<1>6. Held \in Seq(Byte)
  BY <1>4, EmptySeq DEF Held
<1> QED BY <1>1, <1>2, <1>3, <1>4, <1>5, <1>6

(* What Flush has read and how large its buffer is. *)
LEMMA FlushTypes ==
  ASSUME TypeInv, NEW g \in Goroutines
  PROVE  /\ my[g].got \in Seq(Byte) /\ Len(my[g].got) \in Nat /\ Cap(g) \in Nat /\ my[g].read \in Nat
         /\ my[g].res \in Results /\ my[g].res.bytes \in Seq(Byte) /\ Len(my[g].res.bytes) \in Nat
         /\ my[g].res.n \in Nat /\ my[g].read + my[g].res.n \in Nat
         /\ my[g].out \in Seq(Byte) /\ my[g].drawn \in Seq(Byte) /\ my[g].start \in Nat
         /\ Begun \in Nat /\ PageSize \in Nat \ {0}
<1>1. /\ my[g].got \in Seq(Byte) /\ my[g].read \in Nat /\ my[g].res \in Results
      /\ my[g].out \in Seq(Byte) /\ my[g].drawn \in Seq(Byte) /\ my[g].start \in Nat
      /\ PageSize \in Nat \ {0}
  BY Types, StreamAssumption DEF Locals
<1>2. my[g].res.bytes \in Seq(Byte) /\ my[g].res.n \in Nat
  BY <1>1 DEF Results
<1>3. Begun \in Nat
  BY Types, StreamAssumption DEF Begun
<1>4. Len(my[g].got) \in Nat /\ Len(my[g].res.bytes) \in Nat
  BY <1>1, <1>2, LenProperties
<1>5. Cap(g) \in Nat
  BY <1>4 DEF Cap
<1>6. my[g].read + my[g].res.n \in Nat
  BY <1>1, <1>2
<1> QED BY <1>1, <1>2, <1>3, <1>4, <1>5, <1>6

(* Zeroes, and what one copies from a Buffer that may have been wiped. *)
LEMMA ZeroesAre ==
  ASSUME NEW n \in Nat
  PROVE  /\ Zeroes(n) \in Seq(Byte) /\ Len(Zeroes(n)) = n /\ Real(Zeroes(n)) = {}
         /\ \A k \in 1..n : Zeroes(n)[k] = Zero
<1>1. Zeroes(n) \in [1..n -> Byte] /\ \A k \in 1..n : Zeroes(n)[k] = Zero
  BY StreamAssumption DEF Byte, Zero, Zeroes
<1>2. Zeroes(n) \in Seq(Byte) /\ Len(Zeroes(n)) = n
  BY <1>1
<1> QED BY <1>1, <1>2 DEF Real

LEMMA ZeroedIs ==
  ASSUME NEW s \in Seq(Byte), NEW wiped \in BOOLEAN
  PROVE  /\ Zeroed(s, wiped) \in Seq(Byte) /\ Len(Zeroed(s, wiped)) = Len(s)
         /\ wiped => Real(Zeroed(s, wiped)) = {}
         /\ ~wiped => Zeroed(s, wiped) = s
         /\ \A k \in 1..Len(s) : Zeroed(s, wiped)[k] \in {s[k], Zero}
<1>1. Len(s) \in Nat
  BY LenProperties
<1>2. wiped => Zeroed(s, wiped) = Zeroes(Len(s))
  BY DEF Zeroed, Zeroes
<1>3. ~wiped => Zeroed(s, wiped) = s
  BY DEF Zeroed
<1>4. CASE wiped
  <2>1. Zeroed(s, wiped) = Zeroes(Len(s))
    BY <1>2, <1>4
  <2> QED BY <1>1, <1>4, <2>1, ZeroesAre
<1>5. CASE ~wiped
  BY <1>3, <1>5
<1> QED BY <1>4, <1>5

(* Who may find a Buffer wiped. *)
LEMMA WipedIs ==
  ASSUME NEW g, NEW v
  PROVE  /\ Wiped(g, v) \subseteq BOOLEAN
         /\ ~Alive(g, v) => Wiped(g, v) = {TRUE}
         /\ Alive(g, v) /\ <<g, v>> \notin doomed => Wiped(g, v) = {FALSE}
BY DEF Wiped

(* The buffer after bytes were put into it at i. *)
LEMMA FilledIs ==
  ASSUME NEW buffer \in Seq(Byte), NEW i \in Nat, NEW bytes \in Seq(Byte)
  PROVE  /\ Filled(buffer, i, bytes) \in Seq(Byte) /\ Len(Filled(buffer, i, bytes)) = Len(buffer)
         /\ \A k \in 1..Len(buffer) :
              /\ i < k /\ k <= i + Len(bytes) =>
                   k - i \in 1..Len(bytes) /\ Filled(buffer, i, bytes)[k] = bytes[k - i]
              /\ ~(i < k /\ k <= i + Len(bytes)) => Filled(buffer, i, bytes)[k] = buffer[k]
<1>1. Len(buffer) \in Nat /\ Len(bytes) \in Nat
  BY LenProperties
<1>2. \A k \in 1..Len(buffer) : buffer[k] \in Byte
  BY ElementOfSeq
<1>3. \A k \in 1..Len(bytes) : bytes[k] \in Byte
  BY ElementOfSeq
<1>4. \A k \in 1..Len(buffer) : i < k /\ k <= i + Len(bytes) => k - i \in 1..Len(bytes)
  BY <1>1
<1>5. \A k \in 1..Len(buffer) :
        Filled(buffer, i, bytes)[k] = IF i < k /\ k <= i + Len(bytes) THEN bytes[k - i] ELSE buffer[k]
  BY DEF Filled
<1>6. Filled(buffer, i, bytes) \in [1..Len(buffer) -> Byte]
  BY <1>2, <1>3, <1>4 DEF Filled
<1>7. Filled(buffer, i, bytes) \in Seq(Byte) /\ Len(Filled(buffer, i, bytes)) = Len(buffer)
  BY <1>1, <1>6
<1> QED BY <1>4, <1>5, <1>7

(* What a call returns is a result. *)
LEMMA ResultTypes ==
  ASSUME NEW g \in Goroutines, NEW n \in Nat, NEW bytes \in Seq(Byte),
         NEW err \in {"nil", "EOF", "decryption failed", "panic"}
  PROVE  Result(g, n, bytes, err) \in Results
BY DEF Result, Results

LEMMA NothingTypes ==
  /\ <<>> \in Seq(Byte) /\ Len(<<>>) = 0 /\ NoResult \in Results /\ NoLocals \in Locals
  /\ NoLocals.i = 0 /\ NoLocals.data = <<>> /\ NoLocals.got = <<>> /\ NoLocals.flush = FALSE
  /\ NoLocals.read = 0 /\ NoLocals.drawn = <<>> /\ NoLocals.n = 0 /\ NoLocals.rest = <<>>
  /\ Nil \in EnclaveType /\ Nil.data = <<>>
<1>1. <<>> \in Seq(Byte) /\ Len(<<>>) = 0
  BY EmptySeq
<1>2. NoResult \in Results
  BY <1>1 DEF NoResult, Result, Results
<1>3. /\ NoLocals \in Locals /\ NoLocals.i = 0 /\ NoLocals.data = <<>> /\ NoLocals.got = <<>>
      /\ NoLocals.flush = FALSE /\ NoLocals.read = 0 /\ NoLocals.drawn = <<>> /\ NoLocals.n = 0 /\ NoLocals.rest = <<>>
  BY <1>1, <1>2, StreamAssumption DEF NoLocals, Locals
<1>4. Nil \in EnclaveType /\ Nil.data = <<>>
  BY <1>1, StreamAssumption DEF Nil, Enclave, EnclaveType
<1> QED BY <1>1, <1>2, <1>3, <1>4

(* The assignments to local variables. *)
LEMMA LocalUpdates ==
  ASSUME NEW r \in Locals
  PROVE  /\ \A d \in Seq(Byte) : [r EXCEPT !.data = d] \in Locals
         /\ \A d \in Seq(Byte), e \in 0..MaxEpoch : [r EXCEPT !.data = d, !.born = e] \in Locals
         /\ \A n \in Nat : [r EXCEPT !.i = n] \in Locals
         /\ \A n \in Nat : [r EXCEPT !.n = n] \in Locals
         /\ \A d \in Seq(Byte), e \in 0..MaxEpoch : [r EXCEPT !.rest = d, !.born = e] \in Locals
         /\ \A d \in Seq(Byte), n \in Nat : [r EXCEPT !.flush = TRUE, !.got = d, !.start = n] \in Locals
         /\ \A d \in Seq(Byte) : [r EXCEPT !.got = d] \in Locals
         /\ \A n \in Nat, d \in Seq(Byte) : [r EXCEPT !.read = n, !.got = d] \in Locals
         /\ \A x \in Results, d \in Seq(Byte) : [r EXCEPT !.res = x, !.drawn = d] \in Locals
         /\ \A d \in Seq(Byte) : [r EXCEPT !.out = d] \in Locals
<1> USE DEF Locals
<1>1. \A d \in Seq(Byte) : [r EXCEPT !.data = d] \in Locals
  OBVIOUS
<1>2. \A d \in Seq(Byte), e \in 0..MaxEpoch : [r EXCEPT !.data = d, !.born = e] \in Locals
  OBVIOUS
<1>3. \A n \in Nat : [r EXCEPT !.i = n] \in Locals
  OBVIOUS
<1>4. \A n \in Nat : [r EXCEPT !.n = n] \in Locals
  OBVIOUS
<1>5. \A d \in Seq(Byte), e \in 0..MaxEpoch : [r EXCEPT !.rest = d, !.born = e] \in Locals
  OBVIOUS
<1>6. \A d \in Seq(Byte), n \in Nat : [r EXCEPT !.flush = TRUE, !.got = d, !.start = n] \in Locals
  OBVIOUS
<1>7. \A d \in Seq(Byte) : [r EXCEPT !.got = d] \in Locals
  OBVIOUS
<1>8. \A n \in Nat, d \in Seq(Byte) : [r EXCEPT !.read = n, !.got = d] \in Locals
  OBVIOUS
<1>9. \A x \in Results, d \in Seq(Byte) : [r EXCEPT !.res = x, !.drawn = d] \in Locals
  OBVIOUS
<1>10. \A d \in Seq(Byte) : [r EXCEPT !.out = d] \in Locals
  OBVIOUS
<1> HIDE DEF Locals
<1> QED BY <1>1, <1>2, <1>3, <1>4, <1>5, <1>6, <1>7, <1>8, <1>9, <1>10

(* g goes on to label l with the locals r, and takes or gives back the      *)
(* mutex where l says so.                                                   *)
Moves(g, l, r) ==
  /\ l \in Labels /\ r \in Locals /\ LocalsAt(l, r)
  /\ l \in Critical => mutex \in {NoG, g}
  /\ pc' = [pc EXCEPT ![g] = l] /\ my' = [my EXCEPT ![g] = r]
  /\ mutex' = IF l \in Critical THEN g ELSE IF mutex = g THEN NoG ELSE mutex

LEMMA MoveKeeps ==
  ASSUME TypeInv, LockInv, LocalInv, NEW g \in Goroutines, NEW l, NEW r, Moves(g, l, r)
  PROVE  /\ pc' \in [Goroutines -> Labels] /\ my' \in [Goroutines -> Locals]
         /\ mutex' \in Goroutines \cup {NoG}
         /\ LockInv' /\ LocalInv'
         /\ pc'[g] = l /\ my'[g] = r
         /\ \A h \in Goroutines \ {g} : pc'[h] = pc[h] /\ my'[h] = my[h]
         /\ Held' = IF l \in Reading THEN r.data ELSE IF pc[g] \in Reading THEN <<>> ELSE Held
         /\ pc[g] \in Reading => Held = my[g].data
         /\ pc[g] \notin Reading /\ (l \in Critical \/ mutex \in {NoG, g}) => Held = <<>>
         /\ pc[g] \in Critical \/ l \in Critical \/ mutex = NoG =>
              \A h \in Goroutines \ {g} : pc[h] \notin Critical
<1>0. pc \in [Goroutines -> Labels] /\ my \in [Goroutines -> Locals] /\ NoG \notin Goroutines
  BY Types, StreamAssumption
<1>1. /\ pc' \in [Goroutines -> Labels] /\ my' \in [Goroutines -> Locals]
      /\ pc'[g] = l /\ my'[g] = r
      /\ \A h \in Goroutines \ {g} : pc'[h] = pc[h] /\ my'[h] = my[h]
  BY <1>0 DEF Moves
<1>2. mutex' \in Goroutines \cup {NoG}
  BY DEF Moves, TypeInv, TypeOK
<1>3. LockInv'
  <2> SUFFICES ASSUME NEW h \in Goroutines PROVE pc'[h] \in Critical <=> mutex' = h
    BY DEF LockInv
  <2>1. CASE h = g
    BY <1>0, <1>1, <2>1 DEF Moves
  <2>2. CASE h # g
    <3>1. pc[h] \in Critical <=> mutex = h
      BY DEF LockInv
    <3> QED BY <1>0, <1>1, <2>2, <3>1 DEF Moves
  <2> QED BY <2>1, <2>2
<1>4. LocalInv'
  <2> SUFFICES ASSUME NEW h \in Goroutines PROVE LocalsAt(pc'[h], my'[h])
    BY DEF LocalInv, LocalsAt
  <2>1. CASE h = g
    BY <1>1, <2>1 DEF Moves
  <2>2. CASE h # g
    BY <1>1, <2>2 DEF LocalInv
  <2> QED BY <2>1, <2>2
<1>5. /\ pc[g] \in Critical \/ l \in Critical \/ mutex = NoG =>
           \A h \in Goroutines \ {g} : pc[h] \notin Critical
      /\ pc[g] \in Critical => mutex = g
  BY <1>0 DEF LockInv, Moves
<1>6. /\ pc[g] \in Reading => Held = my[g].data
      /\ pc[g] \notin Reading /\ (l \in Critical \/ mutex \in {NoG, g}) => Held = <<>>
  BY <1>0, <1>5 DEF Held, Critical, Moves
<1>7. Held' = IF l \in Reading THEN r.data ELSE IF pc[g] \in Reading THEN <<>> ELSE Held
  <2>1. CASE l \in Reading
    BY <1>1, <2>1 DEF Held, Critical, Moves
  <2>2. CASE l = "write"
    <3>1. Held' = <<>>
      BY <1>1, <2>2 DEF Held, Critical, Reading, Moves
    <3> QED BY <1>6, <2>2, <3>1 DEF Reading, Critical
  <2>3. CASE l \notin Critical /\ mutex = g
    <3>1. Held' = <<>>
      BY <1>0, <2>3 DEF Held, Moves
    <3> QED BY <1>6, <2>3, <3>1 DEF Critical
  <2>4. CASE l \notin Critical /\ mutex # g
    <3>1. mutex' = mutex /\ pc[g] \notin Reading
      BY <1>5, <2>4 DEF Moves, Critical
    <3>2. Held' = Held
      BY <1>1, <2>4, <3>1 DEF Held
    <3> QED BY <2>4, <3>1, <3>2 DEF Critical
  <2> QED BY <2>1, <2>2, <2>3, <2>4 DEF Critical
<1> QED BY <1>1, <1>2, <1>3, <1>4, <1>5, <1>6, <1>7

(* Nothing new is written: the order is kept, and the bounds with it. *)
LEMMA ViewKeeps ==
  ASSUME TypeInv, BoundInv, written' = written, Chain(taken', Held', Bytes'),
         Real(taken') \cup Real(Held') \cup Real(Bytes')
           \subseteq Real(taken) \cup Real(Held) \cup Real(Bytes),
         \A h \in Goroutines : pc'[h] = "write" =>
           /\ pc[h] = "write" /\ my'[h].data = my[h].data /\ my'[h].i = my[h].i
           /\ Held = <<>>
  PROVE  OrderInv' /\ BoundInv'
<1>1. OrderInv'
  BY DEF OrderInv, Chain, Rising, Before, Real
<1>2. UpTo(taken', written) /\ UpTo(Held', written) /\ UpTo(Bytes', written)
  BY DEF BoundInv, UpTo
<1>3. ASSUME NEW h \in Goroutines, pc'[h] = "write"
      PROVE  LET L == Len(my'[h].data)
             IN /\ L <= written
                /\ \A k \in 1..L : my'[h].data[k] = written - L + k
                /\ my'[h].i < L =>
                     UpTo(taken', written - L + my'[h].i) /\ UpTo(Bytes', written - L + my'[h].i)
  <2> DEFINE L == Len(my[h].data)
  <2>1. pc[h] = "write" /\ my'[h].data = my[h].data /\ my'[h].i = my[h].i /\ Held = <<>>
    BY <1>3
  <2>2. Real(Held) = {}
    BY <2>1, RealOf, EmptySeq
  <2>3. /\ L <= written /\ \A k \in 1..L : my[h].data[k] = written - L + k
        /\ my[h].i < L => UpTo(taken, written - L + my[h].i) /\ UpTo(Bytes, written - L + my[h].i)
    BY <2>1 DEF BoundInv
  <2> HIDE DEF L
  <2>4. my[h].i < L => UpTo(taken', written - L + my[h].i) /\ UpTo(Bytes', written - L + my[h].i)
    BY <2>2, <2>3 DEF UpTo
  <2> QED BY <2>1, <2>3, <2>4 DEF L
<1>4. BoundInv'
  BY <1>2, <1>3 DEF BoundInv, UpTo, Real
<1> QED BY <1>1, <1>4

BuffersOK == alive \subseteq Goroutines \X {"b", "c", "d", "f"} /\ doomed \subseteq alive

LEMMA BuffersKept ==
  ASSUME TypeInv, NEW g \in Goroutines, NEW v \in {"b", "c", "d", "f"}, NEW X
  PROVE  /\ NewBuffer(g, v) => BuffersOK'
         /\ Destroy(X) => BuffersOK'
         /\ UNCHANGED <<alive, doomed>> => BuffersOK'
<1>1. BuffersOK
  BY DEF TypeInv, TypeOK, BuffersOK
<1>2. NewBuffer(g, v) => BuffersOK'
  BY <1>1 DEF NewBuffer, BuffersOK
<1>3. Destroy(X) => BuffersOK'
  BY <1>1 DEF Destroy, BuffersOK
<1>4. UNCHANGED <<alive, doomed>> => BuffersOK'
  BY <1>1 DEF BuffersOK
<1> QED BY <1>2, <1>3, <1>4

(* The part of the invariant that a step of g keeps for itself. *)
LEMMA StepKeeps ==
  ASSUME IInv, NEW g \in Goroutines, NEW l, NEW r, Moves(g, l, r),
         queue' \in Seq(EnclaveType), taken' \in Seq(Byte), written' \in 0..MaxBytes,
         last' \in Results, BuffersOK', UNCHANGED session
  PROVE  TypeInv' /\ LockInv' /\ LocalInv'
<1>1. /\ pc' \in [Goroutines -> Labels] /\ my' \in [Goroutines -> Locals]
      /\ mutex' \in Goroutines \cup {NoG} /\ LockInv' /\ LocalInv'
  BY MoveKeeps DEF IInv
<1>2. epoch' = epoch /\ purging' = purging
  BY DEF session
<1>3. TypeOK'
  BY <1>1, <1>2 DEF IInv, TypeInv, TypeOK, BuffersOK, Labels, Locals
<1> QED BY <1>1, <1>2, <1>3 DEF IInv, TypeInv

(* A step that writes nothing new. *)
LEMMA ReadKeeps ==
  ASSUME IInv, NEW g \in Goroutines, NEW l, NEW r, Moves(g, l, r), l # "write",
         queue' \in Seq(EnclaveType), taken' \in Seq(Byte), written' = written,
         last' \in Results, BuffersOK', UNCHANGED session,
         Chain(taken', Held', Bytes'),
         Real(taken') \cup Real(Held') \cup Real(Bytes')
           \subseteq Real(taken) \cup Real(Held) \cup Real(Bytes)
  PROVE  IInv'
<1>1. written' \in 0..MaxBytes
  BY DEF IInv, TypeInv, TypeOK
<1>2. TypeInv' /\ LockInv' /\ LocalInv'
  BY <1>1, StepKeeps
<1>3. ASSUME NEW h \in Goroutines, pc'[h] = "write"
      PROVE  /\ pc[h] = "write" /\ my'[h].data = my[h].data /\ my'[h].i = my[h].i
             /\ Held = <<>>
  <2>1. pc'[g] = l /\ \A x \in Goroutines \ {g} : pc'[x] = pc[x] /\ my'[x] = my[x]
    BY MoveKeeps DEF IInv
  <2>2. pc[h] = "write" /\ my'[h] = my[h]
    BY <1>3, <2>1
  <2>3. mutex = h
    BY <2>2 DEF IInv, LockInv, Critical
  <2> QED BY <2>2, <2>3 DEF Held, Reading
<1>4. OrderInv' /\ BoundInv'
  BY <1>3, ViewKeeps DEF IInv
<1> QED BY <1>2, <1>4 DEF IInv

(* A step that moves no bytes. *)
LEMMA StillKeeps ==
  ASSUME IInv, NEW g \in Goroutines, NEW l, NEW r, Moves(g, l, r), l # "write",
         l \in Reading <=> pc[g] \in Reading,
         l \in Reading => r.data = my[g].data,
         UNCHANGED <<queue, taken, written>>,
         last' \in Results, BuffersOK', UNCHANGED session
  PROVE  IInv'
<1>1. Held' = Held
  BY MoveKeeps DEF IInv
<1>2. Bytes' = Bytes
  BY DEF Bytes
<1>3. Chain(taken', Held', Bytes')
  BY <1>1, <1>2 DEF IInv, OrderInv
<1>4. queue' \in Seq(EnclaveType) /\ taken' \in Seq(Byte)
  BY Types DEF IInv
<1> QED BY <1>1, <1>2, <1>3, <1>4, ReadKeeps

(* The program's own calls, and the returns to it. *)
LEMMA ReturnMoves ==
  ASSUME IInv, NEW g \in Goroutines, NEW n, NEW bytes, NEW err, Return(g, n, bytes, err),
         mutex' = IF mutex = g THEN NoG ELSE mutex
  PROVE  Moves(g, "idle", NoLocals)
<1>1. LocalsAt("idle", NoLocals)
  BY DEF LocalsAt
<1>2. NoLocals \in Locals
  BY NothingTypes
<1> QED BY <1>1, <1>2 DEF Return, Goto, Moves, Labels, Critical, Reading

LEMMA PanicStep ==
  ASSUME IInv, NEW g \in Goroutines, Panic(g)
  PROVE  IInv'
<1>1. /\ Moves(g, "idle", NoLocals) /\ UNCHANGED <<queue, session, written, taken>>
      /\ last' = Result(g, 0, <<>>, "panic")
  BY ReturnMoves DEF Panic, Return
<1>2. last' \in Results
  BY <1>1, NothingTypes, ResultTypes
<1>3. BuffersOK'
  BY BuffersKept DEF Panic, IInv
<1>4. /\ Held' = IF pc[g] \in Reading THEN <<>> ELSE Held
      /\ pc[g] \in Reading => Held = my[g].data
  BY <1>1, MoveKeeps DEF IInv, Reading
<1>5. Bytes' = Bytes /\ taken' = taken
  BY <1>1 DEF Bytes
<1>6. /\ Held \in Seq(Byte) /\ Bytes \in Seq(Byte) /\ taken \in Seq(Byte) /\ queue' \in Seq(EnclaveType)
      /\ written' = written
  BY <1>1, Types DEF IInv
<1>7. Chain(taken', Held', Bytes')
  BY <1>4, <1>5, <1>6, ChainMoves DEF IInv, OrderInv
<1>8. Real(Held') \subseteq Real(Held)
  BY <1>4, RealOf, EmptySeq
<1>9. "idle" # "write" /\ taken' \in Seq(Byte) /\ UNCHANGED session
  BY <1>1, <1>5, <1>6
<1> QED BY <1>1, <1>2, <1>3, <1>5, <1>6, <1>7, <1>8, <1>9, ReadKeeps

(* Read returns, to the program or to Flush. *)
ReturnsTo(g, l, r) ==
  /\ Moves(g, l, r)
  /\ l = "idle" => r = NoLocals
  /\ l = "flushed" =>
       /\ my[g].flush
       /\ r = [my[g] EXCEPT !.res = last', !.drawn = my[g].drawn \o last'.bytes]

LEMMA ReadReturnMoves ==
  ASSUME IInv, NEW g \in Goroutines, mutex \in {NoG, g}, pc[g] \in Reading \cup {"read"},
         NEW n \in Nat, NEW bytes \in Seq(Byte),
         NEW err \in {"nil", "EOF", "decryption failed"}, ReadReturn(g, n, bytes, err)
  PROVE  /\ \E l \in {"idle", "flushed"}, r \in Locals : ReturnsTo(g, l, r)
         /\ last' = Result(g, n, bytes, err) /\ last' \in Results /\ Held' = <<>>
         /\ taken' = taken \o bytes /\ taken' \in Seq(Byte) /\ UNCHANGED <<session, written>>
<1>1. last' = Result(g, n, bytes, err) /\ last' \in Results
  BY ResultTypes DEF ReadReturn
<1>2. my[g] \in Locals /\ taken \in Seq(Byte)
  BY Types DEF IInv
<1>3. taken' = taken \o bytes /\ taken' \in Seq(Byte) /\ UNCHANGED <<session, written>>
  BY <1>2, ConcatProperties DEF ReadReturn
<1>4. \E l \in {"idle", "flushed"}, r \in Locals : ReturnsTo(g, l, r)
  <2>0. mutex' = IF mutex = g THEN NoG ELSE mutex
    BY DEF ReadReturn
  <2>1. CASE /\ my[g].flush /\ Goto(g, "flushed")
             /\ my' = [my EXCEPT ![g].res = last', ![g].drawn = @ \o bytes]
    <3> DEFINE r == [my[g] EXCEPT !.res = last', !.drawn = my[g].drawn \o last'.bytes]
    <3>0. last'.bytes = bytes /\ my[g].drawn \in Seq(Byte)
      BY <1>1, FlushTypes DEF Result, IInv
    <3>1. r \in Locals
      BY <1>1, <1>2, <3>0, LocalUpdates, ConcatProperties
    <3>2. my' = [my EXCEPT ![g] = r]
      BY <2>1, <3>0
    <3> HIDE DEF r
    <3>3. Moves(g, "flushed", r)
      BY <2>0, <2>1, <3>1, <3>2 DEF Moves, LocalsAt, Labels, Critical, Reading, Goto
    <3> QED BY <2>1, <3>1, <3>3 DEF r, ReturnsTo
  <2>2. CASE ~my[g].flush /\ Goto(g, "idle") /\ my' = [my EXCEPT ![g] = NoLocals]
    <3>1. NoLocals \in Locals
      BY NothingTypes
    <3>2. Moves(g, "idle", NoLocals)
      BY <2>0, <2>2, <3>1 DEF Moves, LocalsAt, Labels, Critical, Reading, Goto
    <3> QED BY <3>1, <3>2 DEF ReturnsTo
  <2> QED BY <2>1, <2>2 DEF ReadReturn
<1>5. Held' = <<>>
  <2>1. PICK l \in {"idle", "flushed"}, r \in Locals : ReturnsTo(g, l, r)
    BY <1>4
  <2>2. /\ Held' = IF l \in Reading THEN r.data ELSE IF pc[g] \in Reading THEN <<>> ELSE Held
        /\ pc[g] \notin Reading /\ (l \in Critical \/ mutex \in {NoG, g}) => Held = <<>>
    BY <2>1, MoveKeeps DEF IInv, ReturnsTo
  <2> QED BY <2>2 DEF Reading
<1> QED BY <1>1, <1>3, <1>4, <1>5

LEMMA ReadReturnKeeps ==
  ASSUME IInv, NEW g \in Goroutines, mutex \in {NoG, g}, pc[g] \in Reading \cup {"read"},
         NEW n \in Nat, NEW bytes \in Seq(Byte),
         NEW err \in {"nil", "EOF", "decryption failed"}, ReadReturn(g, n, bytes, err),
         queue' \in Seq(EnclaveType), BuffersOK',
         Chain(taken \o bytes, <<>>, Bytes'),
         Real(bytes) \cup Real(Bytes') \subseteq Real(Held) \cup Real(Bytes)
  PROVE  IInv'
<1>1. /\ \E l \in {"idle", "flushed"}, r \in Locals : ReturnsTo(g, l, r)
      /\ last' \in Results /\ Held' = <<>>
      /\ taken' = taken \o bytes /\ taken' \in Seq(Byte) /\ UNCHANGED session /\ written' = written
  BY ReadReturnMoves
<1>2. PICK l \in {"idle", "flushed"}, r \in Locals : Moves(g, l, r)
  BY <1>1 DEF ReturnsTo
<1>3. taken \in Seq(Byte)
  BY Types DEF IInv
<1>4. Real(taken') = Real(taken) \cup Real(bytes) /\ Real(Held') = {}
  BY <1>1, <1>3, RealOf
<1>5. Chain(taken', Held', Bytes') /\ l # "write"
  BY <1>1
<1>6. Real(taken') \cup Real(Held') \cup Real(Bytes') \subseteq Real(taken) \cup Real(Held) \cup Real(Bytes)
  BY <1>4
<1> QED BY <1>1, <1>2, <1>5, <1>6, ReadKeeps

-----------------------------------------------------------------------------
(* Without a Purge: the list, the buffers and how much Flush has read.      *)

Clean(s) == \A k \in 1..Len(s) : s[k] # Zero

(* No enclave is nil or empty, and each opens. *)
QueueOK(q) == \A k \in 1..Len(q) : q[k].key = 1 /\ q[k].data # <<>> /\ Clean(q[k].data)

(* The buffers that g has at label l, what it has read and has room for. *)
QuietAt(g, l, r, buffers) ==
  /\ l \in Reading => <<g, "b">> \in buffers /\ r.data # <<>> /\ Clean(r.data)
  /\ l \in {"fill", "reseal"} => <<g, "c">> \in buffers
  /\ l = "reseal" => r.rest = SubSeq(r.data, r.n + 1, Len(r.data))
  /\ l = "write" => Clean(r.data)
  /\ l \in {"flush", "flushed", "grow", "final", "done"} => r.flush
  /\ r.flush => <<g, "f">> \in buffers /\ r.read <= Len(r.got)
  /\ r.flush /\ l \in Reading \cup {"read"} => r.read + r.n <= Len(r.got)
  /\ l = "flushed" => r.read + r.res.n <= Len(r.got)

(* The queue of bytes and the count of bytes written that a Stream stands   *)
(* for; a Write that goes on has not happened yet.                          *)
Writing == mutex \in Goroutines /\ pc[mutex] = "write"
Joined(r) == IF r.i < Len(r.data) THEN r.i ELSE Len(r.data)
View == IF Writing THEN SubSeq(Bytes, 1, Len(Bytes) - Joined(my[mutex])) ELSE Held \o Bytes
Count == IF Writing THEN written - Len(my[mutex].data) ELSE written

(* What a Write has joined so far is at the end of the list. *)
JoinInv == Writing =>
  View \in Seq(Byte) /\ Bytes = View \o SubSeq(my[mutex].data, 1, Joined(my[mutex]))

QInv ==
  /\ epoch = 1 /\ ~purging /\ doomed = {}
  /\ QueueOK(queue)
  /\ \A g \in Goroutines : QuietAt(g, pc[g], my[g], alive)
  /\ JoinInv

(* View and Count are what Stream's refinement mapping says. *)
Mapped == Contents = View /\ Completed = Count

LEMMA ContentsIs == IInv => Mapped
<1> SUFFICES ASSUME IInv PROVE Contents = View /\ Completed = Count
  BY DEF Mapped
<1> DEFINE W == Holder({"write"})
           R == Holder({"check", "leftover", "fill", "reseal"})
<1>0. NoG \notin Goroutines /\ mutex \in Goroutines \cup {NoG} /\ Bytes \in Seq(Byte)
  BY StreamAssumption, Types DEF IInv, TypeInv, TypeOK
<1>1. W # {} /\ R = {} => Contents = SubSeq(Bytes, 1, Len(Bytes) - Joined(my[CHOOSE g \in W : TRUE]))
  <2> HIDE DEF Bytes, Holder
  <2> QED BY DEF Contents, Joined
<1>2. W = {} /\ R # {} => Contents = my[CHOOSE g \in R : TRUE].data \o Bytes
  BY DEF Contents
<1>3. W = {} /\ R = {} => Contents = Bytes
  BY DEF Contents
<1>4. Completed = IF W = {} THEN written ELSE written - Len(my[CHOOSE g \in W : TRUE].data)
  BY DEF Completed
<1>5. CASE Writing
  <2>1. W = {mutex} /\ R = {}
    BY <1>5 DEF Holder, Writing
  <2>2. (CHOOSE g \in W : TRUE) = mutex /\ W # {}
    BY <2>1
  <2> HIDE DEF W, R
  <2> QED BY <1>1, <1>4, <1>5, <2>1, <2>2 DEF View, Count
<1>6. CASE ~Writing
  <2>1. W = {}
    BY <1>6 DEF Holder, Writing
  <2>2. CASE mutex \in Goroutines /\ pc[mutex] \in Reading
    <3>1. R = {mutex}
      BY <2>2 DEF Holder, Reading
    <3>2. (CHOOSE g \in R : TRUE) = mutex /\ R # {}
      BY <3>1
    <3>3. Held = my[mutex].data
      BY <2>2 DEF Held
    <3> HIDE DEF W, R
    <3> QED BY <1>2, <1>4, <1>6, <2>1, <3>2, <3>3 DEF View, Count
  <2>3. CASE ~(mutex \in Goroutines /\ pc[mutex] \in Reading)
    <3>1. R = {}
      BY <2>3 DEF Holder, Reading
    <3>2. Held = <<>> /\ <<>> \o Bytes = Bytes
      BY <1>0, <2>3, ConcatEmptySeq DEF Held
    <3> HIDE DEF W, R
    <3> QED BY <1>3, <1>4, <1>6, <2>1, <3>1, <3>2 DEF View, Count
  <2> QED BY <2>2, <2>3
<1> QED BY <1>5, <1>6

LEMMA ContentsNext == IInv' => Mapped'
BY ContentsIs, PTL

(* The steps of ByteQueue in terms of View and Count. *)
Paused == last' = NoResult /\ View' = View /\ Count' = Count

Wrote(g) ==
  \E n \in 0..(MaxBytes - Count) :
    /\ View' = View \o [k \in 1..n |-> Count + k]
    /\ Count' = Count + n
    /\ last' = Result(g, n, <<>>, "nil")

Took(g) ==
  /\ \/ View = <<>> /\ last' = Result(g, 0, <<>>, "EOF") /\ View' = View
     \/ /\ View # <<>>
        /\ \E n \in 0..Len(View) :
             /\ last' = Result(g, n, SubSeq(View, 1, n), "nil")
             /\ View' = SubSeq(View, n + 1, Len(View))
  /\ Count' = Count

Sized(g) == last' = Result(g, Len(View), <<>>, "nil") /\ View' = View /\ Count' = Count

Implements == Paused \/ \E g \in Goroutines : Wrote(g) \/ Took(g) \/ Sized(g)

LEMMA ImplementsIs ==
  ASSUME IInv, IInv', Implements
  PROVE  [Abstract!Next]_(Abstract!vars)
<1>1. Contents = View /\ Completed = Count /\ Contents' = View' /\ Completed' = Count'
  BY ContentsIs, ContentsNext DEF Mapped
<1> HIDE DEF Contents, Completed, View, Count
<1>2. CASE Paused
  BY <1>1, <1>2 DEF Paused, Abstract!Next, Abstract!Pause, Abstract!NoResult, Abstract!Result, NoResult, Result
<1>3. ASSUME NEW g \in Goroutines, Wrote(g) PROVE Abstract!Write(g)
  BY <1>1, <1>3 DEF Wrote, Abstract!Write, Abstract!Result, Result
<1>4. ASSUME NEW g \in Goroutines, Took(g) PROVE Abstract!Take(g)
  BY <1>1, <1>4 DEF Took, Abstract!Take, Abstract!Result, Result
<1>5. ASSUME NEW g \in Goroutines, Sized(g) PROVE Abstract!Size(g)
  BY <1>1, <1>5 DEF Sized, Abstract!Size, Abstract!Result, Result
<1> QED BY <1>2, <1>3, <1>4, <1>5 DEF Implements, Abstract!Next

(* Some first bytes of the queue are taken. *)
LEMMA Takes ==
  ASSUME NEW g \in Goroutines, NEW p \in Seq(Byte), NEW q \in Seq(Byte),
         View = p \o q, View # <<>>, View' = q, Count' = Count,
         last' = Result(g, Len(p), p, "nil")
  PROVE  Took(g)
<1>1. SubSeq(View, 1, Len(p)) = p /\ SubSeq(View, Len(p) + 1, Len(View)) = q
  BY CutBack
<1>2. Len(p) \in 0..Len(View)
  BY LenProperties, ConcatProperties
<1> QED BY <1>1, <1>2 DEF Took

LEMMA ViewMoves ==
  ASSUME IInv, NEW g \in Goroutines, NEW l, NEW r, Moves(g, l, r), l # "write", pc[g] # "write"
  PROVE  /\ mutex \in {NoG, g} =>
              /\ View = Held \o Bytes /\ View' = Held' \o Bytes'
              /\ Count = written /\ Count' = written' /\ ~Writing'
         /\ UNCHANGED <<queue, written>> /\ Held' = Held =>
              /\ View' = View /\ Count' = Count
              /\ Writing' => Writing /\ mutex' = mutex /\ my'[mutex] = my[mutex] /\ Bytes' = Bytes
<1>0. NoG \notin Goroutines /\ mutex \in Goroutines \cup {NoG}
  BY StreamAssumption DEF IInv, TypeInv, TypeOK
<1>1. pc'[g] = l /\ my'[g] = r /\ \A h \in Goroutines \ {g} : pc'[h] = pc[h] /\ my'[h] = my[h]
  BY MoveKeeps DEF IInv
<1>2. l \in Critical => mutex \in {NoG, g}
  BY DEF Moves
<1>3. mutex' = IF l \in Critical THEN g ELSE IF mutex = g THEN NoG ELSE mutex
  BY DEF Moves
<1>4. CASE mutex \in {NoG, g}
  <2>1. ~Writing /\ ~Writing'
    BY <1>0, <1>1, <1>3, <1>4 DEF Writing
  <2>2. /\ View = Held \o Bytes /\ View' = Held' \o Bytes' /\ Count = written /\ Count' = written'
    BY <2>1 DEF View, Count
  <2>3. UNCHANGED queue => Bytes' = Bytes
    BY DEF Bytes
  <2> QED BY <2>1, <2>2, <2>3
<1>5. CASE mutex \notin {NoG, g}
  <2>1. mutex \in Goroutines \ {g} /\ mutex' = mutex
    BY <1>0, <1>2, <1>3, <1>5
  <2>2. pc'[mutex] = pc[mutex] /\ my'[mutex] = my[mutex]
    BY <1>1, <2>1
  <2>3. Writing' <=> Writing
    BY <2>1, <2>2 DEF Writing
  <2>4. UNCHANGED queue => Bytes' = Bytes
    BY DEF Bytes
  <2>5. ASSUME UNCHANGED <<queue, written>>, Held' = Held PROVE View' = View /\ Count' = Count
    BY <2>1, <2>2, <2>3, <2>4, <2>5 DEF View, Count, Joined
  <2> QED BY <1>5, <2>1, <2>2, <2>3, <2>4, <2>5
<1> QED BY <1>4, <1>5

(* Parts of clean sequences, and the list that grows and shrinks. *)
LEMMA CleanParts ==
  ASSUME NEW s \in Seq(Byte), NEW t \in Seq(Byte)
  PROVE  Clean(s \o t) <=> Clean(s) /\ Clean(t)
<1> DEFINE u == s \o t
<1>1. /\ Len(s) \in Nat /\ Len(t) \in Nat /\ Len(u) = Len(s) + Len(t)
      /\ \A i \in 1..(Len(s) + Len(t)) : u[i] = IF i <= Len(s) THEN s[i] ELSE t[i - Len(s)]
  BY LenProperties, ConcatProperties
<1> HIDE DEF u
<1>2. \A i \in 1..Len(s) : i \in 1..Len(u) /\ u[i] = s[i]
  BY <1>1
<1>3. \A i \in 1..Len(t) : Len(s) + i \in 1..Len(u) /\ u[Len(s) + i] = t[i]
  <2> SUFFICES ASSUME NEW i \in 1..Len(t) PROVE Len(s) + i \in 1..Len(u) /\ u[Len(s) + i] = t[i]
    OBVIOUS
  <2>1. Len(s) + i \in 1..(Len(s) + Len(t)) /\ ~(Len(s) + i <= Len(s)) /\ (Len(s) + i) - Len(s) = i
    BY <1>1
  <2> QED BY <1>1, <2>1
<1>4. \A i \in 1..Len(u) : i \in 1..Len(s) \/ (i - Len(s) \in 1..Len(t) /\ u[i] = t[i - Len(s)])
  BY <1>1
<1>5. Clean(u) => Clean(s) /\ Clean(t)
  BY <1>2, <1>3 DEF Clean
<1>6. Clean(s) /\ Clean(t) => Clean(u)
  BY <1>2, <1>4 DEF Clean
<1> QED BY <1>5, <1>6 DEF u

EnclaveOK(e) == e.key = 1 /\ e.data # <<>> /\ Clean(e.data)

LEMMA QueueGrows ==
  ASSUME NEW q \in Seq(EnclaveType), QueueOK(q), NEW e \in EnclaveType, EnclaveOK(e)
  PROVE  QueueOK(Append(q, e)) /\ QueueOK(<<e>> \o q)
<1>1. \A k \in 1..Len(q) : EnclaveOK(q[k])
  BY DEF QueueOK, EnclaveOK
<1>2. Len(q) \in Nat
  BY LenProperties
<1>3. QueueOK(Append(q, e))
  <2>1. /\ Len(Append(q, e)) = Len(q) + 1 /\ Append(q, e)[Len(q) + 1] = e
        /\ \A k \in 1..Len(q) : Append(q, e)[k] = q[k]
    BY AppendProperties
  <2>2. \A k \in 1..(Len(q) + 1) : k \in 1..Len(q) \/ k = Len(q) + 1
    BY <1>2
  <2>3. \A k \in 1..(Len(q) + 1) : EnclaveOK(Append(q, e)[k])
    BY <1>1, <2>1, <2>2
  <2> QED BY <2>1, <2>3 DEF QueueOK, EnclaveOK
<1>4. QueueOK(<<e>> \o q)
  <2> DEFINE s == <<e>> \o q
  <2>1. <<e>> \in Seq(EnclaveType) /\ Len(<<e>>) = 1 /\ <<e>>[1] = e
    OBVIOUS
  <2>2. /\ Len(s) = 1 + Len(q)
        /\ \A k \in 1..(1 + Len(q)) : s[k] = IF k <= 1 THEN <<e>>[k] ELSE q[k - 1]
    BY <2>1, ConcatProperties
  <2> HIDE DEF s
  <2>3. \A k \in 1..(1 + Len(q)) : (k = 1 /\ s[k] = e) \/ (k - 1 \in 1..Len(q) /\ s[k] = q[k - 1])
    BY <1>2, <2>1, <2>2
  <2>4. \A k \in 1..(1 + Len(q)) : EnclaveOK(s[k])
    BY <1>1, <2>3
  <2>5. QueueOK(s)
    BY <2>2, <2>4 DEF QueueOK, EnclaveOK
  <2> QED BY <2>5 DEF s
<1> QED BY <1>3, <1>4

LEMMA QueueShrinks ==
  ASSUME NEW q \in Seq(EnclaveType), QueueOK(q), q # <<>>
  PROVE  QueueOK(Tail(q)) /\ EnclaveOK(Head(q)) /\ Head(q) # Nil
<1>1. /\ Len(q) \in Nat \ {0} /\ Head(q) = q[1] /\ Len(Tail(q)) = Len(q) - 1
      /\ \A k \in 1..Len(Tail(q)) : Tail(q)[k] = q[k + 1]
  BY HeadTailProperties, EmptySeq, LenProperties
<1>2. EnclaveOK(Head(q))
  BY <1>1 DEF QueueOK, EnclaveOK
<1>3. QueueOK(Tail(q))
  <2>1. \A k \in 1..Len(Tail(q)) : k + 1 \in 1..Len(q)
    BY <1>1
  <2> QED BY <1>1, <2>1 DEF QueueOK
<1> QED BY <1>2, <1>3, NothingTypes DEF EnclaveOK

(* The other goroutines keep their buffers. *)
OtherBuffers(g) ==
  \A h \in Goroutines \ {g}, v \in {"b", "c", "f"} : <<h, v>> \in alive => <<h, v>> \in alive'

LEMMA BuffersQuiet ==
  ASSUME QInv, NEW g \in Goroutines, NEW v \in {"b", "c", "d", "f"}
  PROVE  /\ NewBuffer(g, v) =>
              /\ OtherBuffers(g) /\ doomed' = {} /\ <<g, v>> \in alive'
              /\ \A x \in {"b", "c", "f"} : <<g, x>> \in alive => <<g, x>> \in alive'
         /\ UNCHANGED <<alive, doomed>> => OtherBuffers(g) /\ doomed' = {}
         /\ Destroy({<<g, v>>}) =>
              /\ OtherBuffers(g) /\ doomed' = {}
              /\ v # "f" /\ <<g, "f">> \in alive => <<g, "f">> \in alive'
         /\ Destroy({<<g, "b">>, <<g, "c">>}) =>
              /\ OtherBuffers(g) /\ doomed' = {}
              /\ <<g, "f">> \in alive => <<g, "f">> \in alive'
         /\ Destroy({<<g, "f">>, <<g, "d">>}) => OtherBuffers(g) /\ doomed' = {}
BY DEF QInv, NewBuffer, Destroy, OtherBuffers

LEMMA QuietKeeps ==
  ASSUME IInv, QInv, NEW g \in Goroutines, NEW l, NEW r, Moves(g, l, r), QuietAt(g, l, r, alive'),
         QueueOK(queue'), UNCHANGED session, doomed' = {}, OtherBuffers(g), JoinInv'
  PROVE  QInv'
<1>1. pc'[g] = l /\ my'[g] = r /\ \A h \in Goroutines \ {g} : pc'[h] = pc[h] /\ my'[h] = my[h]
  BY MoveKeeps DEF IInv
<1>2. ASSUME NEW h \in Goroutines PROVE QuietAt(h, pc'[h], my'[h], alive')
  <2>1. CASE h = g
    BY <1>1, <2>1
  <2>2. CASE h # g
    <3>1. QuietAt(h, pc[h], my[h], alive)
      BY DEF QInv
    <3> QED BY <1>1, <2>2, <3>1 DEF QuietAt, OtherBuffers
  <2> QED BY <2>1, <2>2
<1>3. epoch' = 1 /\ ~purging'
  BY DEF QInv, session
<1>4. \A h \in Goroutines : QuietAt(h, pc[h], my[h], alive)'
  BY <1>2 DEF QuietAt, Clean
<1>5. QueueOK(queue)'
  BY DEF QueueOK, Clean
<1> QED BY <1>3, <1>4, <1>5 DEF QInv

(* A Write that goes on elsewhere is not disturbed. *)
LEMMA JoinKeeps ==
  ASSUME IInv, QInv, NEW g \in Goroutines, NEW l, NEW r, Moves(g, l, r), l # "write",
         mutex \in {NoG, g} \/ (pc[g] # "write" /\ UNCHANGED <<queue, written>> /\ Held' = Held)
  PROVE  JoinInv'
<1>1. CASE mutex \in {NoG, g}
  <2>1. pc'[g] = l /\ mutex' \in {NoG, g}
    BY <1>1, MoveKeeps DEF IInv, Moves
  <2>2. ~Writing'
    BY <2>1, StreamAssumption DEF Writing
  <2> QED BY <2>2 DEF JoinInv
<1>2. CASE pc[g] # "write" /\ UNCHANGED <<queue, written>> /\ Held' = Held
  <2>1. /\ View' = View /\ Bytes' = Bytes
        /\ Writing' => Writing /\ mutex' = mutex /\ my'[mutex] = my[mutex]
    <3>1. Bytes' = Bytes
      BY <1>2 DEF Bytes
    <3> QED BY <1>2, <3>1, ViewMoves
  <2> SUFFICES ASSUME Writing'
               PROVE  View' \in Seq(Byte) /\ Bytes' = View' \o SubSeq(my'[mutex'].data, 1, Joined(my'[mutex']))
    BY DEF JoinInv, Joined
  <2>2. View \in Seq(Byte) /\ Bytes = View \o SubSeq(my[mutex].data, 1, Joined(my[mutex]))
    BY <2>1 DEF QInv, JoinInv
  <2> QED BY <2>1, <2>2
<1> QED BY <1>1, <1>2

(* A step that no caller can see. *)
LEMMA StillQuiet ==
  ASSUME IInv, QInv, NEW g \in Goroutines, NEW l, NEW r, Moves(g, l, r), l # "write", pc[g] # "write",
         l \in Reading <=> pc[g] \in Reading, l \in Reading => r.data = my[g].data,
         UNCHANGED <<queue, written>>, last' = NoResult, UNCHANGED session,
         QuietAt(g, l, r, alive'), doomed' = {}, OtherBuffers(g)
  PROVE  QInv' /\ Implements
<1>1. Held' = Held
  BY MoveKeeps DEF IInv
<1>2. JoinInv'
  BY <1>1, JoinKeeps
<1>3. QueueOK(queue')
  BY DEF QInv
<1>4. QInv'
  BY <1>2, <1>3, QuietKeeps
<1>5. View' = View /\ Count' = Count
  BY <1>1, ViewMoves
<1> QED BY <1>4, <1>5 DEF Implements, Paused

(* The program's own calls need nothing, and Flush has room for what the    *)
(* Read it makes returns.                                                   *)
LEMMA QuietIdle == ASSUME NEW g, NEW A PROVE QuietAt(g, "idle", NoLocals, A)
BY NothingTypes DEF QuietAt, Reading

LEMMA Room == \A a, b, c, d \in Nat : b <= c /\ a + c <= d => a + b <= d
OBVIOUS

LEMMA ReadReturnQuiet ==
  ASSUME IInv, QInv, NEW g \in Goroutines, mutex \in {NoG, g}, pc[g] \in Reading \cup {"read"},
         NEW n \in Nat, NEW bytes \in Seq(Byte), NEW err \in {"nil", "EOF", "decryption failed"},
         ReadReturn(g, n, bytes, err), n <= my[g].n,
         QueueOK(queue'), Bytes' \in Seq(Byte), doomed' = {}, OtherBuffers(g),
         <<g, "f">> \in alive => <<g, "f">> \in alive'
  PROVE  /\ QInv' /\ View = Held \o Bytes /\ View' = Bytes' /\ Count' = Count
         /\ last' = Result(g, n, bytes, err)
<1>1. /\ \E l \in {"idle", "flushed"}, r \in Locals : ReturnsTo(g, l, r)
      /\ last' = Result(g, n, bytes, err) /\ last' \in Results /\ Held' = <<>>
      /\ UNCHANGED session /\ written' = written
  BY ReadReturnMoves
<1>2. PICK l \in {"idle", "flushed"}, r \in Locals : ReturnsTo(g, l, r)
  BY <1>1
<1>3. QuietAt(g, l, r, alive')
  <2>1. CASE l = "idle"
    <3>1. r = NoLocals
      BY <1>2, <2>1 DEF ReturnsTo
    <3> QED BY <2>1, <3>1, QuietIdle
  <2>2. CASE l = "flushed"
    <3>1. /\ my[g] \in Locals /\ my[g].n \in Nat /\ Len(my[g].got) \in Nat /\ my[g].read \in Nat
      BY Types, FlushTypes DEF IInv
    <3>2. r.flush /\ r.got = my[g].got /\ r.read = my[g].read /\ r.res = last'
      <4>1. r = [my[g] EXCEPT !.res = last', !.drawn = my[g].drawn \o last'.bytes] /\ my[g].flush
        BY <1>2, <2>2 DEF ReturnsTo
      <4>2. r.flush = my[g].flush /\ r.got = my[g].got /\ r.read = my[g].read
        BY <3>1, <4>1 DEF Locals
      <4>3. r.res = last'
        BY <3>1, <4>1 DEF Locals
      <4> QED BY <4>1, <4>2, <4>3
    <3>3. last'.n = n
      BY <1>1 DEF Result
    <3>4. /\ <<g, "f">> \in alive /\ my[g].read <= Len(my[g].got)
          /\ my[g].read + my[g].n <= Len(my[g].got)
      <4>1. QuietAt(g, pc[g], my[g], alive) /\ my[g].flush
        BY <1>2, <2>2 DEF QInv, ReturnsTo
      <4> QED BY <4>1 DEF QuietAt
    <3>5. my[g].read + n <= Len(my[g].got)
      BY <3>1, <3>4, Room
    <3> QED BY <2>2, <3>2, <3>3, <3>4, <3>5 DEF QuietAt, Reading
  <2> QED BY <2>1, <2>2
<1>4. JoinInv' /\ l # "write" /\ pc[g] # "write"
  BY <1>2, JoinKeeps DEF Reading, ReturnsTo
<1>5. QInv'
  BY <1>1, <1>2, <1>3, <1>4, QuietKeeps DEF ReturnsTo
<1>6. View = Held \o Bytes /\ View' = Held' \o Bytes' /\ Count = written /\ Count' = written'
  BY <1>2, <1>4, ViewMoves DEF ReturnsTo
<1>7. <<>> \o Bytes' = Bytes'
  BY ConcatEmptySeq
<1> QED BY <1>1, <1>5, <1>6, <1>7

(* What each action keeps. *)
Kept == IInv' /\ (QInv => QInv' /\ Implements)
-----------------------------------------------------------------------------
(* One lemma per action.                                                    *)

LEMMA WriteStep == ASSUME IInv, NEW g \in Goroutines, Write(g) PROVE Kept
<1>0. PICK n \in WriteSizes :
        /\ pc[g] = "idle" /\ mutex = NoG /\ written + n <= MaxBytes /\ mutex' = g
        /\ written' = written + n
        /\ my' = [my EXCEPT ![g].data = [k \in 1..n |-> written + k]]
        /\ Goto(g, "write")
        /\ UNCHANGED <<queue, session, alive, doomed, taken>> /\ Silent
  BY DEF Write
<1>1. /\ n \in Nat /\ written \in Nat /\ MaxBytes \in Nat /\ my[g] \in Locals /\ my[g] = NoLocals
      /\ queue \in Seq(EnclaveType) /\ taken \in Seq(Byte) /\ Bytes \in Seq(Byte)
  BY <1>0, Types, StreamAssumption DEF IInv, LocalInv, LocalsAt
<1> DEFINE d == [k \in 1..n |-> written + k]
           r == [my[g] EXCEPT !.data = d]
<1>2. d \in Seq(Byte) /\ Len(d) = n /\ \A k \in 1..n : d[k] = written + k
  <2>1. d \in [1..n -> Byte] /\ \A k \in 1..n : d[k] = written + k
    BY <1>0, <1>1 DEF Byte
  <2> HIDE DEF d
  <2> QED BY <1>1, <2>1
<1> HIDE DEF d
<1>3. r \in Locals /\ r.data = d /\ r.i = 0
  <2>1. r \in Locals
    BY <1>1, <1>2, LocalUpdates
  <2>2. r.data = d /\ r.i = my[g].i
    BY <1>1 DEF Locals
  <2> QED BY <1>1, <2>1, <2>2, NothingTypes
<1>4. my' = [my EXCEPT ![g] = r]
  BY <1>0 DEF d
<1> HIDE DEF r
<1>5. LocalsAt("write", r)
  <2>1. 0 \in Nat /\ 0 = 0 * ChunkSize
    BY StreamAssumption DEF ChunkSize
  <2> QED BY <1>3, <2>1 DEF LocalsAt
<1>6. Moves(g, "write", r)
  BY <1>0, <1>3, <1>4, <1>5 DEF Moves, Labels, Critical, Goto
<1>7. written' \in 0..MaxBytes /\ UNCHANGED session /\ BuffersOK' /\ last' \in Results
  <2>1. UNCHANGED <<alive, doomed>> /\ UNCHANGED session /\ last' = NoResult
    BY <1>0 DEF Silent
  <2>2. BuffersOK'
    BY <2>1, BuffersKept DEF IInv
  <2>3. written' \in 0..MaxBytes
    BY <1>0, <1>1
  <2> QED BY <2>1, <2>2, <2>3, NothingTypes
<1>8. TypeInv' /\ LockInv' /\ LocalInv'
  BY <1>0, <1>1, <1>6, <1>7, StepKeeps
<1>9. /\ Held = <<>> /\ Held' = <<>> /\ pc'[g] = "write" /\ my'[g] = r
      /\ \A h \in Goroutines \ {g} : pc'[h] = pc[h] /\ pc[h] \notin Critical
  <2>1. "write" \in Critical /\ "write" \notin Reading /\ "idle" \notin Reading
    BY DEF Reading, Critical
  <2>2. TypeInv /\ LockInv /\ LocalInv
    BY DEF IInv
  <2>3. /\ pc'[g] = "write" /\ my'[g] = r
        /\ \A h \in Goroutines \ {g} : pc'[h] = pc[h] /\ my'[h] = my[h]
        /\ Held' = IF "write" \in Reading THEN r.data ELSE IF pc[g] \in Reading THEN <<>> ELSE Held
        /\ pc[g] \notin Reading /\ ("write" \in Critical \/ mutex \in {NoG, g}) => Held = <<>>
        /\ pc[g] \in Critical \/ "write" \in Critical \/ mutex = NoG =>
             \A h \in Goroutines \ {g} : pc[h] \notin Critical
    BY <1>6, <2>2, MoveKeeps
  <2> QED BY <1>0, <2>1, <2>3
<1>10. taken' = taken /\ Bytes' = Bytes /\ Held' = Held
  BY <1>0, <1>9 DEF Bytes
<1>11. OrderInv'
  BY <1>10 DEF IInv, OrderInv, Chain, Rising, Before, Real
<1>12. BoundInv'
  <2>1. UpTo(taken, written) /\ UpTo(Bytes, written)
    BY DEF IInv, BoundInv
  <2>2. Real(taken) \subseteq Nat /\ Real(Bytes) \subseteq Nat /\ Real(<<>>) = {}
    BY <1>1, RealOf
  <2>3. UpTo(taken, written') /\ UpTo(<<>>, written') /\ UpTo(Bytes, written')
    BY <1>0, <1>1, <2>1, <2>2 DEF UpTo
  <2>4. \A h \in Goroutines : pc'[h] = "write" => h = g
    BY <1>9 DEF Critical
  <2>5. /\ Len(my'[g].data) = n /\ n <= written' /\ my'[g].i = 0
        /\ \A k \in 1..n : my'[g].data[k] = written' - n + k
    <3>1. my'[g].data = d /\ my'[g].i = 0
      BY <1>3, <1>9
    <3>2. n <= written' /\ \A k \in 1..n : written + k = written' - n + k
      BY <1>0, <1>1
    <3> QED BY <1>2, <3>1, <3>2
  <2>6. written' - n + 0 = written
    BY <1>0, <1>1
  <2>7. /\ taken' = taken /\ Bytes' = Bytes /\ Held' = <<>>
    BY <1>9, <1>10
  <2> QED BY <2>1, <2>3, <2>4, <2>5, <2>6, <2>7 DEF BoundInv, UpTo, Real
<1>13. IInv'
  BY <1>8, <1>11, <1>12 DEF IInv
<1>14. ASSUME QInv PROVE QInv' /\ Implements
  <2>1. Clean(d)
    BY <1>1, <1>2 DEF Clean, Zero
  <2>2. r.flush = FALSE
    BY <1>1, NothingTypes DEF r, Locals
  <2>3. QuietAt(g, "write", r, alive')
    BY <1>3, <2>1, <2>2 DEF QuietAt, Reading
  <2>4. (IF r.i < Len(r.data) THEN r.i ELSE Len(r.data)) = 0
    BY <1>1, <1>2, <1>3
  <2>5. /\ mutex' = g /\ my'[g] = r /\ Bytes' = Bytes /\ written' = written + n /\ Len(r.data) = n
        /\ Writing' /\ ~Writing /\ Len(Bytes) \in Nat
    BY <1>0, <1>1, <1>2, <1>3, <1>9, <1>10, StreamAssumption, LenProperties DEF Writing
  <2>6. View' = SubSeq(Bytes, 1, Len(Bytes) - 0) /\ Count' = (written + n) - n
    <3> DEFINE j == IF r.i < Len(r.data) THEN r.i ELSE Len(r.data)
    <3>1. View' = SubSeq(Bytes', 1, Len(Bytes') - j)
      BY <2>5 DEF View, Joined
    <3>2. Count' = written' - Len(r.data)
      BY <2>5 DEF Count
    <3>3. j = 0
      BY <2>4
    <3> HIDE DEF j
    <3> QED BY <2>5, <3>1, <3>2, <3>3
  <2>7. View' = Bytes /\ View' = View /\ Count' = Count
    <3>1. SubSeq(Bytes, 1, Len(Bytes)) = Bytes /\ <<>> \o Bytes = Bytes
      BY <1>1, SubSeqFull, ConcatEmptySeq
    <3>2. View = <<>> \o Bytes /\ Count = written
      BY <1>9, <2>5 DEF View, Count
    <3>3. Len(Bytes) - 0 = Len(Bytes) /\ (written + n) - n = written
      BY <1>1, <2>5
    <3> QED BY <2>6, <3>1, <3>2, <3>3
  <2>8. SubSeq(r.data, 1, 0) = <<>> /\ Bytes \o <<>> = Bytes
    <3>1. r.data \in Seq(Byte) /\ 0 \in Nat /\ 0 <= Len(r.data)
      BY <1>1, <1>2, <1>3
    <3>2. SubSeq(r.data, 1, 0) \in Seq(Byte) /\ Len(SubSeq(r.data, 1, 0)) = 0
      BY <3>1, Cut
    <3> QED BY <1>1, <3>2, EmptySeq, ConcatEmptySeq
  <2>9. JoinInv'
    BY <1>1, <2>4, <2>5, <2>7, <2>8 DEF JoinInv, Joined
  <2>10. QInv'
    <3>1. UNCHANGED <<alive, doomed>> /\ QueueOK(queue')
      BY <1>0, <1>14 DEF QInv
    <3>2. OtherBuffers(g) /\ doomed' = {}
      BY <1>14, <3>1, BuffersQuiet
    <3> QED BY <1>6, <1>7, <1>14, <2>3, <2>9, <3>1, <3>2, QuietKeeps
  <2> QED BY <1>0, <2>7, <2>10 DEF Implements, Paused, Silent
<1> QED BY <1>13, <1>14 DEF Kept

LEMMA WriteJoinStep == ASSUME IInv, NEW g \in Goroutines, WriteJoin(g) PROVE Kept
<1> DEFINE data == my[g].data
           L == Len(data)
           i == my[g].i
           E == ChunkEnd(data, i)
           chunk == Chunk(data, i)
           e == Enclave(epoch, epoch, chunk)
           r == [my[g] EXCEPT !.i = @ + ChunkSize]
<1>0. /\ pc[g] = "write" /\ i < L /\ queue' = Append(queue, e) /\ my' = [my EXCEPT ![g] = r]
      /\ UNCHANGED <<mutex, session, alive, doomed, written, taken, pc>> /\ last' = NoResult
  BY DEF WriteJoin, Silent
<1>1. /\ my[g] \in Locals /\ data \in Seq(Byte) /\ i \in Nat /\ L \in Nat /\ epoch \in 0..MaxEpoch
      /\ queue \in Seq(EnclaveType) /\ taken \in Seq(Byte) /\ Bytes \in Seq(Byte) /\ written \in Nat
      /\ Bytes = BytesOf(queue) /\ pc \in [Goroutines -> Labels]
  BY Types DEF IInv
<1>2. ChunkSize \in Nat \ {0}
  BY StreamAssumption DEF ChunkSize
<1>3. PICK m \in Nat : i = m * ChunkSize
  BY <1>0 DEF IInv, LocalInv, LocalsAt
<1> HIDE DEF i
<1>4. chunk = SubSeq(data, i + 1, E) /\ E \in (i + 1)..L
  <2>1. m * ChunkSize < Len(data)
    BY <1>0, <1>3
  <2> HIDE DEF data
  <2>2. /\ Chunk(data, m * ChunkSize) = SubSeq(data, m * ChunkSize + 1, ChunkEnd(data, m * ChunkSize))
        /\ ChunkEnd(data, m * ChunkSize) \in (m * ChunkSize + 1)..Len(data)
    BY <1>1, <2>1, ChunkIs
  <2> QED BY <1>3, <2>2
<1>5. /\ chunk \in Seq(Byte) /\ Len(chunk) = E - i
      /\ \A k \in 1..(E - i) : chunk[k] = data[i + k]
  <2> HIDE DEF chunk, L, E, data
  <2>1. i + 1 \in Nat \ {0} /\ E \in Nat /\ E <= Len(data) /\ E - (i + 1) + 1 = E - i /\ i + 1 <= E
    BY <1>1, <1>4 DEF L
  <2>2. /\ chunk \in Seq(Byte) /\ Len(chunk) = E - i
        /\ \A k \in 1..(E - i) : chunk[k] = data[(i + 1) + k - 1]
    BY <1>1, <1>4, <2>1, Part
  <2>3. \A k \in 1..(E - i) : (i + 1) + k - 1 = i + k
    BY <1>1, <2>1
  <2> QED BY <2>2, <2>3
<1>6. E = i + ChunkSize \/ (E = L /\ i + ChunkSize > L)
  <2> HIDE DEF data
  <2> QED BY DEF ChunkEnd
<1> HIDE DEF chunk, E, data
<1>7. e \in EnclaveType /\ e.data = chunk
  BY <1>1, <1>5 DEF Enclave, EnclaveType
<1> HIDE DEF e
<1>8. r \in Locals /\ r.i = i + ChunkSize /\ r.data = data
  <2>1. i + ChunkSize \in Nat /\ r = [my[g] EXCEPT !.i = i + ChunkSize]
    BY <1>1, <1>2 DEF i
  <2> HIDE DEF r
  <2>2. r \in Locals
    BY <1>1, <2>1, LocalUpdates
  <2>3. r.i = i + ChunkSize /\ r.data = my[g].data
    BY <1>1, <2>1 DEF Locals
  <2> QED BY <2>2, <2>3 DEF data
<1> HIDE DEF r
<1>9. LocalsAt("write", r)
  <2>1. m + 1 \in Nat /\ r.i = (m + 1) * ChunkSize
    BY <1>2, <1>3, <1>8
  <2> QED BY <2>1 DEF LocalsAt
<1>10. mutex = g
  BY <1>0 DEF IInv, LockInv, Critical
<1>11. Moves(g, "write", r)
  BY <1>0, <1>1, <1>8, <1>9, <1>10 DEF Moves, Labels, Critical
<1>12. queue' \in Seq(EnclaveType) /\ Bytes' = Bytes \o chunk
  <2>1. Bytes' = BytesOf(queue')
    BY DEF Bytes, BytesOf, QueueData
  <2> QED BY <1>0, <1>1, <1>7, <2>1, QueueBytes
<1>13. /\ written' = written /\ written' \in 0..MaxBytes /\ UNCHANGED session /\ BuffersOK'
       /\ last' \in Results /\ taken' = taken /\ taken' \in Seq(Byte)
  BY <1>0, <1>1, BuffersKept, NothingTypes DEF IInv, TypeInv, TypeOK
<1>14. TypeInv' /\ LockInv' /\ LocalInv'
  BY <1>11, <1>12, <1>13, StepKeeps
<1>15. /\ Held = <<>> /\ Held' = <<>> /\ pc'[g] = "write" /\ my'[g] = r
       /\ \A h \in Goroutines \ {g} : pc'[h] = pc[h] /\ pc[h] \notin Critical
  BY <1>0, <1>11, MoveKeeps DEF IInv, Reading, Critical
<1> DEFINE base == written - L
<1>16. /\ L <= written /\ \A k \in 1..L : data[k] = base + k
       /\ UpTo(taken, base + i) /\ UpTo(Bytes, base + i)
       /\ UpTo(taken, written) /\ UpTo(Bytes, written)
  BY <1>0 DEF IInv, BoundInv, data, i
<1>17. base \in Nat /\ E \in Nat /\ base + E <= written /\ i <= E /\ base + i <= base + E
  BY <1>1, <1>4, <1>16
<1> HIDE DEF base
<1>18. \A k \in 1..(E - i) : chunk[k] = (base + i) + k
  <2>1. \A k \in 1..(E - i) : i + k \in 1..L /\ base + (i + k) = (base + i) + k
    BY <1>1, <1>4, <1>17
  <2> QED BY <1>5, <1>16, <2>1
<1>19. Rising(chunk) /\ \A a \in Real(chunk) : a \in Nat /\ base + i < a /\ a <= base + E
  <2>1. Rising(chunk)
    BY <1>1, <1>5, <1>17, <1>18 DEF Rising
  <2>2. \A k \in 1..(E - i) : chunk[k] \in Nat /\ base + i < chunk[k] /\ chunk[k] <= base + E
    BY <1>1, <1>17, <1>18
  <2> QED BY <1>5, <2>1, <2>2 DEF Real
<1>20. /\ Real(taken) \subseteq Nat /\ Real(Bytes) \subseteq Nat /\ Real(<<>>) = {}
       /\ Real(Bytes') = Real(Bytes) \cup Real(chunk)
  BY <1>1, <1>5, <1>12, RealOf
<1>21. Before(taken, chunk) /\ Before(Bytes, chunk) /\ Before(<<>>, chunk)
  BY <1>1, <1>16, <1>17, <1>19, <1>20 DEF Before, UpTo
<1>22. OrderInv'
  <2>1. Chain(taken, <<>>, Bytes)
    BY <1>15 DEF IInv, OrderInv
  <2>2. Chain(taken, <<>>, Bytes \o chunk)
    BY <1>1, <1>5, <1>19, <1>21, <2>1, ChainMoves, EmptySeq
  <2>3. Chain(taken', Held', Bytes')
    BY <1>12, <1>13, <1>15, <2>2
  <2> QED BY <2>3 DEF OrderInv, Chain, Rising, Before, Real
<1>23. UpTo(Bytes', base + E) /\ UpTo(taken, base + E)
  BY <1>1, <1>16, <1>17, <1>19, <1>20 DEF UpTo
<1>24. UpTo(Bytes', written) /\ UpTo(Held', written) /\ UpTo(taken', written)
  <2>1. Real(Bytes') \subseteq Nat
    BY <1>19, <1>20
  <2> QED BY <1>1, <1>13, <1>15, <1>16, <1>17, <1>20, <1>23, <2>1 DEF UpTo
<1>25. ASSUME my'[g].i < L PROVE UpTo(taken', base + my'[g].i) /\ UpTo(Bytes', base + my'[g].i)
  <2>1. E = my'[g].i
    BY <1>1, <1>2, <1>6, <1>8, <1>15, <1>25
  <2> QED BY <1>13, <1>23, <2>1
<1>26. BoundInv'
  <2>1. \A h \in Goroutines : pc'[h] = "write" => h = g
    BY <1>15 DEF Critical
  <2>2. my'[g].data = data /\ written' = written /\ base = written - L
    BY <1>8, <1>13, <1>15 DEF base
  <2>3. \A k \in 1..L : data[k] = written - L + k
    BY <1>16 DEF base
  <2> QED BY <1>16, <1>24, <1>25, <2>1, <2>2, <2>3 DEF BoundInv, UpTo, Real
<1>27. IInv'
  BY <1>14, <1>22, <1>26 DEF IInv
<1>28. ASSUME QInv PROVE QInv' /\ Implements
  <2>1. /\ mutex = g /\ mutex' = g /\ my'[g] = r /\ Writing /\ Writing'
        /\ Joined(my[g]) = i /\ (IF r.i < Len(r.data) THEN r.i ELSE Len(r.data)) = E
    <3>1. Joined(my[g]) = i
      BY <1>0 DEF Joined, i, data
    <3>2. (IF r.i < Len(r.data) THEN r.i ELSE Len(r.data)) = E
      BY <1>1, <1>2, <1>4, <1>6, <1>8
    <3> QED BY <1>0, <1>10, <1>15, <3>1, <3>2 DEF Writing
  <2>2. View \in Seq(Byte) /\ Bytes = View \o SubSeq(data, 1, i)
    BY <1>28, <2>1 DEF QInv, JoinInv, data
  <2>3. /\ SubSeq(data, 1, E) = SubSeq(data, 1, i) \o chunk
        /\ SubSeq(data, 1, i) \in Seq(Byte) /\ SubSeq(data, 1, E) \in Seq(Byte)
        /\ Len(SubSeq(data, 1, E)) = E
    <3>1. 1 \in 1..(Len(data) + 1) /\ i \in (1 - 1)..Len(data) /\ E \in i..Len(data)
      BY <1>1, <1>4
    <3>2. SubSeq(data, 1, i) \o SubSeq(data, i + 1, E) = SubSeq(data, 1, E)
      BY <1>1, <3>1, ConcatAdjacentSubSeq
    <3>3. i \in Nat /\ i <= Len(data) /\ E \in Nat /\ E <= Len(data)
      BY <1>1, <1>4
    <3>4. data \in Seq(Byte)
      BY <1>1
    <3>5. SubSeq(data, 1, i) \in Seq(Byte)
      BY <3>3, <3>4, Cut
    <3>6. SubSeq(data, 1, E) \in Seq(Byte) /\ Len(SubSeq(data, 1, E)) = E
      BY <3>3, <3>4, Cut
    <3> QED BY <1>4, <3>2, <3>5, <3>6
  <2>4. Bytes' = View \o SubSeq(data, 1, E)
    <3>1. (View \o SubSeq(data, 1, i)) \o chunk = View \o (SubSeq(data, 1, i) \o chunk)
      BY <1>5, <2>2, <2>3, ByteAssociative
    <3> QED BY <1>12, <2>2, <2>3, <3>1
  <2>5. SubSeq(Bytes', 1, Len(Bytes') - E) = View
    <3>1. Len(View) \in Nat /\ E \in Nat /\ Len(Bytes') = Len(View) + E
      BY <1>17, <2>2, <2>3, <2>4, LenProperties, ConcatProperties
    <3>2. Len(Bytes') - E = Len(View)
      BY <3>1
    <3>3. SubSeq(View \o SubSeq(data, 1, E), 1, Len(View)) = View
      BY <2>2, <2>3, CutBack
    <3> QED BY <2>4, <3>2, <3>3
  <2>6. View' = View /\ Count' = Count
    <3>1. View' = SubSeq(Bytes', 1, Len(Bytes') - E)
      BY <2>1 DEF View, Joined
    <3>2. Count' = written' - Len(r.data) /\ Count = written - L
      BY <2>1 DEF Count, data
    <3> QED BY <1>8, <1>13, <2>5, <3>1, <3>2
  <2>7. JoinInv'
    BY <1>8, <2>1, <2>2, <2>4, <2>6 DEF JoinInv, Joined
  <2>8. QuietAt(g, "write", r, alive')
    <3>1. QuietAt(g, "write", my[g], alive) /\ alive' = alive
      BY <1>0, <1>28 DEF QInv
    <3>2. r.data = my[g].data /\ r.flush = my[g].flush /\ r.got = my[g].got /\ r.read = my[g].read
      BY <1>1 DEF r, Locals
    <3> QED BY <3>1, <3>2 DEF QuietAt, Reading
  <2>9. QueueOK(queue')
    <3>1. chunk # <<>>
      <4>1. E - i # 0 /\ Len(<<>>) = 0
        BY <1>1, <1>4
      <4> QED BY <1>5, <4>1
    <3>2. Clean(chunk)
      BY <1>1, <1>5, <1>17, <1>18 DEF Clean, Zero
    <3>3. e.key = 1
      BY <1>28 DEF QInv, e, Enclave
    <3>4. EnclaveOK(e) /\ QueueOK(queue)
      BY <1>7, <1>28, <3>1, <3>2, <3>3 DEF EnclaveOK, QInv
    <3> QED BY <1>0, <1>1, <1>7, <3>4, QueueGrows
  <2>10. QInv'
    <3>1. OtherBuffers(g) /\ doomed' = {}
      BY <1>0, <1>28, BuffersQuiet
    <3> QED BY <1>11, <1>13, <1>28, <2>7, <2>8, <2>9, <3>1, QuietKeeps
  <2> QED BY <1>0, <2>6, <2>10 DEF Implements, Paused
<1> QED BY <1>27, <1>28 DEF Kept

LEMMA WriteReturnStep == ASSUME IInv, NEW g \in Goroutines, WriteReturn(g) PROVE Kept
<1>1. /\ pc[g] = "write" /\ mutex' = NoG /\ Return(g, Len(my[g].data), <<>>, "nil")
      /\ UNCHANGED <<queue, session, alive, doomed, written, taken>>
  BY DEF WriteReturn
<1>2. mutex = g
  BY <1>1 DEF IInv, LockInv, Critical
<1>3. Moves(g, "idle", NoLocals) /\ last' = Result(g, Len(my[g].data), <<>>, "nil")
  BY <1>1, <1>2, ReturnMoves DEF Return
<1>4. last' \in Results /\ BuffersOK'
  BY <1>1, <1>3, Types, ResultTypes, NothingTypes, BuffersKept DEF IInv
<1>5. "idle" \notin Reading /\ pc[g] \notin Reading /\ "idle" # "write"
  BY <1>1 DEF Reading
<1>6. IInv'
  BY <1>1, <1>3, <1>4, <1>5, StillKeeps
<1>7. ASSUME QInv PROVE QInv' /\ Implements
  <2> DEFINE data == my[g].data
             L == Len(data)
  <2>1. /\ data \in Seq(Byte) /\ L \in Nat /\ written \in Nat /\ MaxBytes \in Nat /\ written <= MaxBytes
        /\ Bytes \in Seq(Byte) /\ L <= written /\ \A k \in 1..L : data[k] = written - L + k
    <3>1. data \in Seq(Byte) /\ L \in Nat /\ written \in Nat /\ Bytes \in Seq(Byte)
      BY Types DEF IInv
    <3>2. MaxBytes \in Nat /\ written <= MaxBytes
      BY StreamAssumption DEF IInv, TypeInv, TypeOK
    <3>3. L <= written /\ \A k \in 1..L : data[k] = written - L + k
      BY <1>1 DEF IInv, BoundInv
    <3> QED BY <3>1, <3>2, <3>3
  <2>2. Writing /\ ~Writing' /\ Joined(my[g]) = L
    <3>1. Writing /\ ~Writing'
      BY <1>1, <1>2, StreamAssumption DEF Writing
    <3>2. Joined(my[g]) = L
      <4>1. my[g].i >= L /\ my[g].i \in Nat
        BY Types DEF IInv, WriteReturn
      <4> QED BY <2>1, <4>1 DEF Joined
    <3> QED BY <3>1, <3>2
  <2>3. View \in Seq(Byte) /\ Bytes = View \o data
    <3>1. View \in Seq(Byte) /\ Bytes = View \o SubSeq(data, 1, L)
      BY <1>2, <1>7, <2>2 DEF QInv, JoinInv
    <3>2. SubSeq(data, 1, L) = data
      BY <2>1, SubSeqFull
    <3> QED BY <3>1, <3>2
  <2>4. Held' = <<>> /\ Bytes' = Bytes
    BY <1>1, StreamAssumption DEF Held, Bytes
  <2>5. View' = View \o data
    <3>1. View' = <<>> \o Bytes
      BY <2>2, <2>4 DEF View
    <3>2. <<>> \o Bytes = Bytes
      BY <2>1, ConcatEmptySeq
    <3> QED BY <2>3, <3>1, <3>2
  <2>6. Count = written - L /\ Count' = written
    BY <1>1, <1>2, <2>2 DEF Count
  <2>7. data = [k \in 1..L |-> Count + k] /\ L \in 0..(MaxBytes - Count) /\ Count' = Count + L
    <3>1. L \in 0..(MaxBytes - Count) /\ Count' = Count + L
      <4>1. \A a, b, c \in Nat : b <= a /\ a <= c => b \in 0..(c - (a - b)) /\ a = (a - b) + b
        OBVIOUS
      <4> QED BY <2>1, <2>6, <4>1
    <3>2. data = [k \in 1..L |-> data[k]]
      BY <2>1, LenProperties
    <3>3. \A k \in 1..L : data[k] = Count + k
      BY <2>1, <2>6
    <3> QED BY <3>1, <3>2, <3>3
  <2>8. Wrote(g)
    BY <1>3, <2>5, <2>7 DEF Wrote
  <2>9. QInv'
    <3>1. OtherBuffers(g) /\ doomed' = {}
      BY <1>1, <1>7, BuffersQuiet
    <3>2. JoinInv'
      BY <2>2 DEF JoinInv
    <3>3. QueueOK(queue') /\ UNCHANGED session
      BY <1>1, <1>7 DEF QInv
    <3> QED BY <1>3, <1>7, <3>1, <3>2, <3>3, QuietKeeps, QuietIdle
  <2> QED BY <2>8, <2>9 DEF Implements
<1> QED BY <1>6, <1>7 DEF Kept

(* Steps between two labels without the mutex, and between two with it. *)
LEMMA FreeMoves ==
  ASSUME IInv, NEW g \in Goroutines, NEW l \in {"read", "flush", "grow", "final", "done"}, NEW r \in Locals,
         pc[g] \in {"idle", "read", "flush", "flushed", "grow", "final"}, mutex' = mutex,
         Goto(g, l), my' = [my EXCEPT ![g] = r]
  PROVE  Moves(g, l, r) /\ l # "write" /\ l \notin Reading /\ pc[g] \notin Reading
<1>1. mutex # g
  BY DEF IInv, LockInv, Critical, Reading
<1>2. LocalsAt(l, r)
  BY DEF LocalsAt
<1> QED BY <1>1, <1>2 DEF Moves, Labels, Critical, Reading, Goto

LEMMA ReadingMoves ==
  ASSUME IInv, NEW g \in Goroutines, NEW l \in Reading, NEW r \in Locals,
         pc[g] \in Reading, mutex' = mutex, LocalsAt(l, r),
         Goto(g, l), my' = [my EXCEPT ![g] = r]
  PROVE  Moves(g, l, r) /\ l # "write"
<1>1. mutex = g
  BY DEF IInv, LockInv, Critical
<1> QED BY <1>1 DEF Moves, Labels, Critical, Reading, Goto

LEMMA CallReadStep == ASSUME IInv, NEW g \in Goroutines, CallRead(g) PROVE Kept
<1>0. PICK n \in ReadSizes :
        /\ pc[g] = "idle" /\ my' = [my EXCEPT ![g].n = n] /\ Goto(g, "read")
        /\ UNCHANGED <<queue, mutex, session, alive, doomed, written, taken>> /\ Silent
  BY DEF CallRead
<1> DEFINE r == [my[g] EXCEPT !.n = n]
<1>1. r \in Locals
  BY Types, LocalUpdates, StreamAssumption DEF IInv
<1>2. my' = [my EXCEPT ![g] = r]
  BY <1>0
<1> HIDE DEF r
<1>3. Moves(g, "read", r) /\ "read" # "write" /\ "read" \notin Reading /\ pc[g] \notin Reading
  BY <1>0, <1>1, <1>2, FreeMoves
<1>4. last' \in Results /\ BuffersOK'
  BY <1>0, NothingTypes, BuffersKept DEF IInv, Silent
<1>5. IInv'
  BY <1>0, <1>3, <1>4, StillKeeps
<1>6. ASSUME QInv PROVE QInv' /\ Implements
  <2>1. r.flush = FALSE
    <3>1. my[g] = NoLocals /\ my[g] \in Locals
      BY <1>0, Types DEF IInv, LocalInv, LocalsAt
    <3> QED BY <3>1, NothingTypes DEF r, Locals
  <2>2. QuietAt(g, "read", r, alive')
    BY <2>1 DEF QuietAt, Reading
  <2>3. OtherBuffers(g) /\ doomed' = {} /\ last' = NoResult /\ pc[g] # "write"
    BY <1>0, <1>6, BuffersQuiet DEF Silent
  <2> QED BY <1>0, <1>3, <1>6, <2>2, <2>3, StillQuiet
<1> QED BY <1>5, <1>6 DEF Kept

LEMMA PopViews ==
  ASSUME IInv, mutex = NoG
  PROVE  /\ Held = <<>>
         /\ PopNil => queue' \in Seq(EnclaveType) /\ Bytes' = Bytes
         /\ Pop => /\ queue' \in Seq(EnclaveType) /\ Head(queue) \in EnclaveType
                   /\ Head(queue).data \in Seq(Byte) /\ Head(queue).born \in 0..MaxEpoch
                   /\ Bytes' \in Seq(Byte) /\ Bytes = Head(queue).data \o Bytes'
<1>0. Held = <<>>
  BY StreamAssumption DEF Held
<1>1. queue \in Seq(EnclaveType) /\ Bytes = BytesOf(queue) /\ Bytes' = BytesOf(queue')
  <2>1. Bytes' = BytesOf(queue')
    BY DEF Bytes, BytesOf, QueueData
  <2> QED BY <2>1, Types DEF IInv
<1>2. ASSUME queue # <<>>, queue' = Tail(queue)
      PROVE  /\ queue' \in Seq(EnclaveType) /\ Head(queue) \in EnclaveType
             /\ Head(queue).data \in Seq(Byte) /\ Head(queue).born \in 0..MaxEpoch
             /\ Bytes' \in Seq(Byte) /\ Bytes = Head(queue).data \o Bytes'
  <2>1. /\ queue' \in Seq(EnclaveType) /\ Head(queue) \in EnclaveType
        /\ Head(queue).data \in Seq(Byte)  /\ Bytes = Head(queue).data \o Bytes'
    BY <1>1, <1>2, PopBytes
  <2>2. Head(queue).born \in 0..MaxEpoch
    BY <2>1 DEF EnclaveType
  <2>3. Bytes' \in Seq(Byte)
    BY <1>1, <2>1, QueueBytes
  <2> QED BY <2>1, <2>2, <2>3
<1>3. ASSUME PopNil PROVE queue' \in Seq(EnclaveType) /\ Bytes' = Bytes
  <2>1. CASE queue = <<>> /\ UNCHANGED queue
    BY <1>1, <2>1
  <2>2. CASE queue # <<>> /\ Head(queue) = Nil /\ queue' = Tail(queue)
    <3>1. Bytes' \in Seq(Byte) /\ Bytes = <<>> \o Bytes' /\ queue' \in Seq(EnclaveType)
      BY <1>2, <2>2, NothingTypes
    <3>2. <<>> \o Bytes' = Bytes'
      BY <3>1, ConcatEmptySeq
    <3> QED BY <3>1, <3>2
  <2> QED BY <1>3, <2>1, <2>2 DEF PopNil
<1>4. Pop => queue # <<>> /\ queue' = Tail(queue)
  BY DEF Pop
<1> QED BY <1>0, <1>2, <1>3, <1>4

LEMMA PopQuiet ==
  ASSUME IInv, QInv, mutex = NoG
  PROVE  /\ View = Bytes
         /\ PopNil => Bytes = <<>> /\ QueueOK(queue')
         /\ Pop => Opens /\ EnclaveOK(Head(queue)) /\ QueueOK(queue')
<1>1. queue \in Seq(EnclaveType) /\ QueueOK(queue) /\ epoch = 1 /\ Bytes \in Seq(Byte)
  BY Types DEF IInv, QInv
<1>2. queue # <<>> => QueueOK(Tail(queue)) /\ EnclaveOK(Head(queue)) /\ Head(queue) # Nil
  BY <1>1, QueueShrinks
<1>3. PopNil => Bytes = <<>> /\ QueueOK(queue')
  <2>1. PopNil => queue = <<>> /\ queue' = queue
    BY <1>2 DEF PopNil
  <2>2. queue = <<>> => Bytes = <<>>
    BY Types, QueueBytes, NothingTypes DEF IInv
  <2> QED BY <1>1, <2>1, <2>2
<1>4. Pop => Opens /\ EnclaveOK(Head(queue)) /\ QueueOK(queue')
  BY <1>1, <1>2 DEF Pop, Opens, EnclaveOK
<1>5. View = Bytes
  <2>1. ~Writing
    BY StreamAssumption DEF Writing
  <2>2. View = <<>> \o Bytes
    BY <2>1, PopViews DEF View
  <2> QED BY <1>1, <2>2, ConcatEmptySeq
<1> QED BY <1>3, <1>4, <1>5

LEMMA ReadNextStep == ASSUME IInv, NEW g \in Goroutines, ReadNext(g) PROVE Kept
<1>0. /\ pc[g] = "read" /\ mutex = NoG /\ taken \in Seq(Byte) /\ Bytes \in Seq(Byte)
      /\ my[g] \in Locals /\ taken \o <<>> = taken
      /\ <<>> \in Seq(Byte) /\ Real(<<>>) = {} /\ 0 \in Nat
  <2>1. taken \in Seq(Byte)
    BY Types DEF IInv
  <2>2. taken \o <<>> = taken
    BY <2>1, ConcatEmptySeq
  <2> QED BY <2>1, <2>2, Types, EmptySeq, RealOf DEF IInv, ReadNext
<1>1. Chain(taken, <<>>, Bytes) /\ Held = <<>>
  BY <1>0, PopViews DEF IInv, OrderInv
<1>2. CASE PopNil /\ ReadReturn(g, 0, <<>>, "EOF") /\ UNCHANGED <<alive, doomed>>
  <2>1. queue' \in Seq(EnclaveType) /\ Bytes' = Bytes /\ BuffersOK'
    BY <1>0, <1>2, PopViews, BuffersKept DEF IInv
  <2>2. IInv'
    BY <1>0, <1>1, <1>2, <2>1, ReadReturnKeeps
  <2>3. ASSUME QInv PROVE QInv' /\ Implements
    <3>1. View = Bytes /\ Bytes = <<>> /\ QueueOK(queue') /\ Bytes' \in Seq(Byte)
      BY <1>0, <1>2, <2>1, <2>3, PopQuiet
    <3>2. /\ OtherBuffers(g) /\ doomed' = {} /\ (<<g, "f">> \in alive => <<g, "f">> \in alive')
      BY <1>2, <2>3, BuffersQuiet
    <3>3. 0 <= my[g].n
      BY Types DEF IInv
    <3>4. QInv' /\ View' = Bytes' /\ Count' = Count /\ last' = Result(g, 0, <<>>, "EOF")
      BY <1>0, <1>2, <2>3, <3>1, <3>2, <3>3, ReadReturnQuiet
    <3>5. Took(g)
      BY <2>1, <3>1, <3>4 DEF Took
    <3> QED BY <3>4, <3>5 DEF Implements
  <2> QED BY <2>2, <2>3 DEF Kept
<1>3. CASE Pop /\ ~Opens /\ ReadReturn(g, 0, <<>>, "decryption failed") /\ UNCHANGED <<alive, doomed>>
  <2>1. /\ queue' \in Seq(EnclaveType) /\ BuffersOK' /\ Head(queue).data \in Seq(Byte)
        /\ Bytes' \in Seq(Byte) /\ Bytes = Head(queue).data \o Bytes'
    BY <1>0, <1>3, PopViews, BuffersKept DEF IInv
  <2>2. Chain(taken, Head(queue).data, Bytes')
    BY <1>0, <1>1, <2>1, ChainMoves
  <2>3. Chain(taken, <<>>, Bytes')
    BY <1>0, <2>1, <2>2, ChainMoves
  <2>4. Real(Bytes') \subseteq Real(Bytes)
    BY <2>1, RealOf
  <2>5. IInv'
    BY <1>0, <1>1, <1>3, <2>1, <2>3, <2>4, ReadReturnKeeps
  <2>6. ~QInv
    BY <1>0, <1>3, PopQuiet
  <2> QED BY <2>5, <2>6 DEF Kept
<1>4. CASE /\ Pop /\ Opens /\ mutex' = g /\ NewBuffer(g, "b")
           /\ my' = [my EXCEPT ![g].data = Head(queue).data, ![g].born = Head(queue).born]
           /\ Goto(g, "check") /\ UNCHANGED <<session, written, taken>> /\ Silent
  <2> DEFINE d == Head(queue).data
             r == [my[g] EXCEPT !.data = d, !.born = Head(queue).born]
  <2>1. /\ queue' \in Seq(EnclaveType) /\ BuffersOK' /\ d \in Seq(Byte)
        /\ Bytes' \in Seq(Byte) /\ Bytes = d \o Bytes' /\ Head(queue).born \in 0..MaxEpoch
    BY <1>0, <1>4, PopViews, BuffersKept DEF IInv
  <2>2. r \in Locals /\ r.data = d
    BY <1>0, <2>1, LocalUpdates DEF Locals
  <2>3. my' = [my EXCEPT ![g] = r]
    BY <1>4
  <2> HIDE DEF r, d
  <2>4. Moves(g, "check", r)
    <3>1. LocalsAt("check", r)
      BY DEF LocalsAt
    <3> QED BY <1>0, <1>4, <2>2, <2>3, <3>1 DEF Moves, Labels, Critical, Reading, Goto
  <2>5. Held' = d
    BY <2>2, <2>4, MoveKeeps DEF IInv, Reading
  <2>6. Chain(taken', Held', Bytes')
    BY <1>0, <1>1, <1>4, <2>1, <2>5, ChainMoves
  <2>7. Real(taken') \cup Real(Held') \cup Real(Bytes') \subseteq Real(taken) \cup Real(Held) \cup Real(Bytes)
    BY <1>4, <2>1, <2>5, RealOf
  <2>8. /\ last' \in Results /\ taken' \in Seq(Byte) /\ written' = written /\ UNCHANGED session
        /\ "check" # "write"
    BY <1>0, <1>4, NothingTypes DEF Silent
  <2>9. IInv'
    BY <2>1, <2>4, <2>6, <2>7, <2>8, ReadKeeps
  <2>10. ASSUME QInv PROVE QInv' /\ Implements
    <3>1. View = Bytes /\ QueueOK(queue') /\ d # <<>> /\ Clean(d)
      BY <1>0, <1>4, <2>10, PopQuiet DEF EnclaveOK, d
    <3>2. /\ OtherBuffers(g) /\ doomed' = {} /\ <<g, "b">> \in alive'
          /\ <<g, "f">> \in alive => <<g, "f">> \in alive'
      BY <1>4, <2>10, BuffersQuiet
    <3>3. QuietAt(g, "check", r, alive')
      <4>1. QuietAt(g, "read", my[g], alive)
        BY <1>0, <2>10 DEF QInv
      <4>2. r.flush = my[g].flush /\ r.got = my[g].got /\ r.read = my[g].read /\ r.n = my[g].n
        BY <1>0 DEF r, Locals
      <4> QED BY <2>2, <3>1, <3>2, <4>1, <4>2 DEF QuietAt, Reading
    <3>4. JoinInv'
      BY <1>0, <2>4, <2>8, <2>10, JoinKeeps
    <3>5. QInv'
      BY <2>4, <2>8, <2>10, <3>1, <3>2, <3>3, <3>4, QuietKeeps
    <3>6. View' = d \o Bytes' /\ Count' = Count
      <4>1. pc[g] # "write"
        BY <1>0
      <4> QED BY <1>0, <2>4, <2>5, <2>8, <4>1, ViewMoves
    <3> QED BY <1>4, <2>1, <3>1, <3>5, <3>6 DEF Implements, Paused, Silent
  <2> QED BY <2>9, <2>10 DEF Kept
<1> QED BY <1>2, <1>3, <1>4 DEF ReadNext

(* A buffer that is found wiped leaves the order of the rest. *)
LEMMA WipedChain ==
  ASSUME NEW a \in Seq(Byte), NEW b \in Seq(Byte), NEW c \in Seq(Byte), NEW wiped \in BOOLEAN,
         Chain(a, b, c)
  PROVE  /\ Chain(a, Zeroed(b, wiped), c) /\ Chain(a \o Zeroed(b, wiped), <<>>, c)
         /\ Real(Zeroed(b, wiped)) \subseteq Real(b)
<1>1. Zeroed(b, wiped) \in Seq(Byte)
  BY ZeroedIs
<1>2. CASE wiped
  <2> DEFINE z == Zeroed(b, wiped)
  <2>1. Real(z) = {}
    BY <1>2, ZeroedIs
  <2>2. \A k \in 1..Len(z) : z[k] = Zero
    BY <2>1 DEF Real
  <2> HIDE DEF z
  <2>3. Rising(z) /\ Before(a, z) /\ Before(z, c)
    BY <2>1, <2>2 DEF Rising, Before
  <2>4. Chain(a, z, c)
    BY <2>3 DEF Chain
  <2> QED BY <1>1, <2>1, <2>4, ChainMoves DEF z
<1>3. CASE ~wiped
  <2>1. Zeroed(b, wiped) = b
    BY <1>3, ZeroedIs
  <2> QED BY <2>1, ChainMoves
<1> QED BY <1>2, <1>3

(* Without a Purge no buffer is found wiped. *)
LEMMA NotWiped ==
  ASSUME QInv, NEW g \in Goroutines, NEW v, <<g, v>> \in alive, NEW wiped \in Wiped(g, v)
  PROVE  wiped = FALSE
BY WipedIs DEF QInv, Alive

LEMMA NotEmpty ==
  ASSUME NEW s \in Seq(Byte), NEW t \in Seq(Byte), s # <<>>
  PROVE  s \o t # <<>>
<1>1. Len(s) \in Nat \ {0} /\ Len(t) \in Nat /\ Len(s \o t) = Len(s) + Len(t)
  BY EmptySeq, LenProperties, ConcatProperties
<1>2. Len(s \o t) # 0 /\ Len(<<>>) = 0
  BY <1>1
<1> QED BY <1>2

LEMMA ReadCheckStep == ASSUME IInv, NEW g \in Goroutines, ReadCheck(g) PROVE Kept
<1> DEFINE d == my[g].data
<1>0. /\ pc[g] = "check" /\ pc[g] \in Reading /\ mutex = g /\ Held = d /\ Bytes \in Seq(Byte)
      /\ my[g] \in Locals /\ d \in Seq(Byte) /\ Len(d) \in Nat /\ taken \in Seq(Byte)
      /\ <<>> \in Seq(Byte) /\ Real(<<>>) = {} /\ 0 \in Nat /\ queue \in Seq(EnclaveType)
  <2>1. pc[g] = "check" /\ pc[g] \in Reading
    BY DEF ReadCheck, Reading
  <2>2. mutex = g
    BY <2>1 DEF IInv, LockInv, Critical
  <2> QED BY <2>1, <2>2, Types, EmptySeq, RealOf DEF IInv, Held
<1>1. Chain(taken, d, Bytes) /\ taken \o <<>> = taken
  BY <1>0, ConcatEmptySeq DEF IInv, OrderInv
<1>2. ASSUME my[g].n < Len(my[g].data), Goto(g, "leftover"),
             UNCHANGED <<queue, mutex, session, alive, doomed, written, taken>>, Silent,
             NEW wiped \in Wiped(g, "b"),
             my' = [my EXCEPT ![g].data = Zeroed(@, wiped), ![g].born = IF wiped THEN epoch ELSE @]
      PROVE  Kept
  <2> DEFINE z == Zeroed(d, wiped)
             r == [my[g] EXCEPT !.data = z, !.born = IF wiped THEN epoch ELSE my[g].born]
  <2>0. wiped \in BOOLEAN
    BY WipedIs
  <2>1. z \in Seq(Byte) /\ Len(z) = Len(d) /\ (~wiped => z = d)
    BY <1>0, <2>0, ZeroedIs
  <2>2. /\ my' = [my EXCEPT ![g] = r] /\ r \in Locals /\ r.data = z
        /\ r.n = my[g].n /\ r.flush = my[g].flush /\ r.got = my[g].got /\ r.read = my[g].read
    <3>1. (IF wiped THEN epoch ELSE my[g].born) \in 0..MaxEpoch
      BY <1>0, <2>0, Types DEF IInv, Locals
    <3>2. my' = [my EXCEPT ![g] = r]
      BY <1>2
    <3> HIDE DEF z
    <3>3. r \in Locals
      BY <1>0, <2>1, <3>1, LocalUpdates
    <3>4. r.data = z /\ r.n = my[g].n /\ r.flush = my[g].flush
      BY <1>0 DEF Locals
    <3>5. r.got = my[g].got /\ r.read = my[g].read
      BY <1>0 DEF Locals
    <3> QED BY <3>2, <3>3, <3>4, <3>5
  <2> HIDE DEF r
  <2>3. Moves(g, "leftover", r) /\ "leftover" # "write" /\ "leftover" \in Reading
    <3>1. LocalsAt("leftover", r) /\ "leftover" \in Reading
      BY <1>2, <2>1, <2>2 DEF LocalsAt, Reading
    <3> QED BY <1>0, <1>2, <2>2, <3>1, ReadingMoves
  <2>4. last' \in Results /\ BuffersOK'
    BY <1>2, NothingTypes, BuffersKept DEF IInv, Silent
  <2>5. IInv'
    <3>1. Held' = z /\ Bytes' = Bytes /\ taken' = taken /\ written' = written
      BY <1>2, <2>2, <2>3, MoveKeeps DEF IInv, Bytes
    <3>2. Chain(taken, z, Bytes) /\ Real(z) \subseteq Real(d)
      BY <1>0, <1>1, <2>0, WipedChain
    <3>3. queue' \in Seq(EnclaveType) /\ taken' \in Seq(Byte) /\ UNCHANGED session
      BY <1>0, <1>2
    <3> HIDE DEF z
    <3> QED BY <1>0, <2>3, <2>4, <3>1, <3>2, <3>3, ReadKeeps
  <2>6. ASSUME QInv PROVE QInv' /\ Implements
    <3>0. QuietAt(g, "check", my[g], alive) /\ alive' = alive
      BY <1>0, <1>2, <2>6 DEF QInv
    <3>1. r.data = d
      <4>1. <<g, "b">> \in alive
        BY <3>0 DEF QuietAt, Reading
      <4>2. wiped = FALSE
        BY <2>6, <4>1, NotWiped
      <4> QED BY <2>1, <2>2, <4>2
    <3>2. QuietAt(g, "leftover", r, alive')
      BY <2>2, <3>0, <3>1 DEF QuietAt, Reading
    <3>3. OtherBuffers(g) /\ doomed' = {} /\ last' = NoResult /\ pc[g] # "write"
      BY <1>0, <1>2, <2>6, BuffersQuiet DEF Silent
    <3> QED BY <1>0, <1>2, <2>3, <2>6, <3>1, <3>2, <3>3, StillQuiet
  <2> QED BY <2>5, <2>6 DEF Kept
<1>3. ASSUME my[g].n >= Len(my[g].data), Destroy({<<g, "b">>}), UNCHANGED queue,
             NEW wiped \in Wiped(g, "b"),
             ReadReturn(g, Len(my[g].data), Zeroed(my[g].data, wiped), "nil")
      PROVE  Kept
  <2> DEFINE z == Zeroed(d, wiped)
  <2>0. wiped \in BOOLEAN
    BY WipedIs
  <2>1. Bytes' = Bytes /\ queue' \in Seq(EnclaveType) /\ BuffersOK'
    BY <1>0, <1>3, BuffersKept DEF Bytes, IInv
  <2>2. /\ z \in Seq(Byte) /\ Chain(taken \o z, <<>>, Bytes) /\ Real(z) \subseteq Real(d)
        /\ (~wiped => z = d)
    BY <1>0, <1>1, <2>0, WipedChain, ZeroedIs
  <2>3. ReadReturn(g, Len(d), z, "nil")
    BY <1>3
  <2> HIDE DEF z
  <2>4. IInv'
    BY <1>0, <2>1, <2>2, <2>3, ReadReturnKeeps
  <2>5. ASSUME QInv PROVE QInv' /\ Implements
    <3>1. <<g, "b">> \in alive /\ d # <<>> /\ Clean(d) /\ QueueOK(queue')
      BY <1>0, <1>3, <2>5 DEF QInv, QuietAt
    <3>2. /\ OtherBuffers(g) /\ doomed' = {} /\ (<<g, "f">> \in alive => <<g, "f">> \in alive')
      BY <1>3, <2>5, BuffersQuiet
    <3>3. Len(d) <= my[g].n
      BY <1>0, <1>3, Types DEF IInv
    <3>4. z = d
      BY <2>2, <2>5, <3>1, NotWiped
    <3>5. QInv' /\ View = d \o Bytes /\ View' = Bytes /\ Count' = Count /\ last' = Result(g, Len(d), d, "nil")
      BY <1>0, <2>1, <2>3, <2>5, <3>1, <3>2, <3>3, <3>4, ReadReturnQuiet
    <3>6. View # <<>>
      BY <1>0, <3>1, <3>5, NotEmpty
    <3>7. Took(g)
      BY <1>0, <3>5, <3>6, Takes
    <3> QED BY <3>5, <3>7 DEF Implements
  <2> QED BY <2>4, <2>5 DEF Kept
<1>4. CASE /\ ~Alive(g, "b") /\ ReadReturn(g, 0, <<>>, "nil") /\ UNCHANGED <<queue, alive, doomed>>
  <2>1. Bytes' = Bytes /\ queue' \in Seq(EnclaveType) /\ BuffersOK'
    BY <1>0, <1>4, BuffersKept DEF Bytes, IInv
  <2>2. Chain(taken \o <<>>, <<>>, Bytes)
    BY <1>0, <1>1, ChainMoves
  <2>3. IInv'
    BY <1>0, <1>4, <2>1, <2>2, ReadReturnKeeps
  <2>4. ~QInv
    BY <1>0, <1>4 DEF QInv, QuietAt, Alive
  <2> QED BY <2>3, <2>4 DEF Kept
<1> QED BY <1>2, <1>3, <1>4 DEF ReadCheck

LEMMA ReadLeftoverStep == ASSUME IInv, NEW g \in Goroutines, ReadLeftover(g) PROVE Kept
<1>0. /\ pc[g] = "leftover" /\ Goto(g, "fill") /\ UNCHANGED <<queue, mutex, session, written, taken, my>>
      /\ last' = NoResult /\ (NewBuffer(g, "c") \/ UNCHANGED <<alive, doomed>>)
  BY DEF ReadLeftover, Silent
<1>1. my[g] \in Locals /\ my' = [my EXCEPT ![g] = my[g]]
  BY <1>0, Types DEF IInv
<1>2. LocalsAt("fill", my[g]) /\ pc[g] \in Reading /\ "fill" \in Reading
  BY <1>0 DEF IInv, LocalInv, LocalsAt, Reading
<1>3. Moves(g, "fill", my[g]) /\ "fill" # "write"
  BY <1>0, <1>1, <1>2, ReadingMoves
<1>4. last' \in Results /\ BuffersOK'
  BY <1>0, NothingTypes, BuffersKept DEF IInv
<1>5. IInv'
  BY <1>0, <1>2, <1>3, <1>4, StillKeeps
<1>6. ASSUME QInv PROVE QInv' /\ Implements
  <2>1. QuietAt(g, "leftover", my[g], alive)
    BY <1>0, <1>6 DEF QInv
  <2>2. NewBuffer(g, "c") /\ <<g, "b">> \in alive
    BY <2>1 DEF QuietAt, Reading, ReadLeftover, Alive
  <2>3. /\ OtherBuffers(g) /\ doomed' = {} /\ <<g, "c">> \in alive'
        /\ \A x \in {"b", "c", "f"} : <<g, x>> \in alive => <<g, x>> \in alive'
    BY <1>6, <2>2, BuffersQuiet
  <2>4. QuietAt(g, "fill", my[g], alive')
    BY <2>1, <2>3 DEF QuietAt, Reading
  <2>5. pc[g] # "write"
    BY <1>0
  <2> QED BY <1>0, <1>2, <1>3, <1>6, <2>3, <2>4, <2>5, StillQuiet
<1> QED BY <1>5, <1>6 DEF Kept

LEMMA ReadFillStep == ASSUME IInv, NEW g \in Goroutines, ReadFill(g) PROVE Kept
<1> DEFINE d == my[g].data
           n == my[g].n
<1>1. CASE ~Alive(g, "b") /\ my[g].n > 0 /\ Panic(g)
  <2>1. IInv'
    BY <1>1, PanicStep
  <2>2. ~QInv
    <3>1. pc[g] = "fill"
      BY DEF ReadFill
    <3> QED BY <1>1, <3>1 DEF QInv, QuietAt, Alive, Reading
  <2> QED BY <2>1, <2>2 DEF Kept
<1>2. ASSUME Goto(g, "reseal"),
             UNCHANGED <<queue, mutex, session, alive, doomed, written, taken>>, Silent,
             NEW wiped \in Wiped(g, "b"),
             my' = [my EXCEPT
                      ![g].rest = Zeroed(SubSeq(my[g].data, my[g].n + 1, Len(my[g].data)), wiped),
                      ![g].born = IF wiped THEN epoch ELSE @]
      PROVE  Kept
  <2> DEFINE rest == Zeroed(SubSeq(d, n + 1, Len(d)), wiped)
             born == IF wiped THEN epoch ELSE my[g].born
             r == [my[g] EXCEPT !.rest = rest, !.born = born]
  <2>0. /\ my[g] \in Locals /\ d \in Seq(Byte) /\ n \in Nat /\ Len(d) \in Nat /\ epoch \in 0..MaxEpoch
        /\ n < Len(d) /\ my[g].born \in 0..MaxEpoch /\ pc[g] \in Reading /\ wiped \in BOOLEAN
    <3>1. pc[g] = "fill"
      BY DEF ReadFill
    <3>2. my[g].born \in 0..MaxEpoch /\ d \in Seq(Byte)
      BY Types DEF IInv, Locals
    <3> QED BY <3>1, <3>2, Types, WipedIs DEF IInv, LocalInv, LocalsAt, Reading
  <2>1. my' = [my EXCEPT ![g] = r]
    BY <1>2
  <2>2. /\ rest \in Seq(Byte) /\ born \in 0..MaxEpoch
        /\ rest = SubSeq(d, n + 1, Len(d)) \/ Real(rest) = {}
        /\ ~wiped => rest = SubSeq(d, n + 1, Len(d))
    <3>1. SubSeq(d, n + 1, Len(d)) \in Seq(Byte)
      <4> HIDE DEF d, n
      <4>1. n <= Len(d)
        BY <2>0
      <4> QED BY <2>0, <4>1, Cut
    <3>2. born \in 0..MaxEpoch
      BY <2>0
    <3> QED BY <2>0, <3>1, <3>2, ZeroedIs
  <2> HIDE DEF rest, born
  <2>3. /\ r \in Locals /\ r.data = d /\ r.n = n /\ r.rest = rest
        /\ r.flush = my[g].flush /\ r.got = my[g].got /\ r.read = my[g].read
    <3>1. r \in Locals
      BY <2>0, <2>2, LocalUpdates
    <3>2. r.data = d /\ r.n = n /\ r.rest = rest
      BY <2>0 DEF Locals
    <3>3. r.flush = my[g].flush /\ r.got = my[g].got /\ r.read = my[g].read
      BY <2>0 DEF Locals
    <3> QED BY <3>1, <3>2, <3>3
  <2> HIDE DEF r
  <2>4. LocalsAt("reseal", r) /\ "reseal" \in Reading
    BY <2>0, <2>2, <2>3 DEF LocalsAt, Reading
  <2>5. Moves(g, "reseal", r) /\ "reseal" # "write"
    BY <1>2, <2>0, <2>1, <2>3, <2>4, ReadingMoves
  <2>6. last' \in Results /\ BuffersOK'
    BY <1>2, NothingTypes, BuffersKept DEF IInv, Silent
  <2>7. IInv'
    BY <1>2, <2>0, <2>3, <2>4, <2>5, <2>6, StillKeeps
  <2>8. ASSUME QInv PROVE QInv' /\ Implements
    <3>1. QuietAt(g, "fill", my[g], alive) /\ alive' = alive /\ pc[g] # "write"
      BY <1>2, <2>8 DEF QInv, ReadFill
    <3>2. rest = SubSeq(d, n + 1, Len(d))
      <4>1. <<g, "b">> \in alive
        BY <3>1 DEF QuietAt, Reading
      <4>2. wiped = FALSE
        BY <2>8, <4>1, NotWiped
      <4> QED BY <2>2, <4>2
    <3>3. QuietAt(g, "reseal", r, alive')
      BY <2>3, <3>1, <3>2 DEF QuietAt, Reading
    <3>4. OtherBuffers(g) /\ doomed' = {} /\ last' = NoResult
      BY <1>2, <2>8, BuffersQuiet DEF Silent
    <3> QED BY <1>2, <2>0, <2>3, <2>4, <2>5, <2>8, <3>1, <3>3, <3>4, StillQuiet
  <2> QED BY <2>7, <2>8 DEF Kept
<1> QED BY <1>1, <1>2 DEF ReadFill

LEMMA ReadResealStep == ASSUME IInv, NEW g \in Goroutines, ReadReseal(g) PROVE Kept
<1> DEFINE d == my[g].data
           n == my[g].n
           rest == my[g].rest
           out == SubSeq(d, 1, n)
           left == SubSeq(d, n + 1, Len(d))
           e == Enclave(epoch, my[g].born, rest)
<1>0. /\ pc[g] = "reseal" /\ pc[g] \in Reading /\ mutex = g /\ Held = d /\ Bytes \in Seq(Byte)
      /\ my[g] \in Locals /\ d \in Seq(Byte) /\ Len(d) \in Nat /\ taken \in Seq(Byte) /\ n \in Nat
      /\ rest \in Seq(Byte) /\ n < Len(d) /\ (rest = left \/ Real(rest) = {})
      /\ queue \in Seq(EnclaveType) /\ Bytes = BytesOf(queue) /\ epoch \in 0..MaxEpoch
  <2>1. pc[g] = "reseal" /\ pc[g] \in Reading
    BY DEF ReadReseal, Reading
  <2>2. mutex = g
    BY <2>1 DEF IInv, LockInv, Critical
  <2>3. n < Len(d) /\ (rest = left \/ Real(rest) = {})
    BY <2>1 DEF IInv, LocalInv, LocalsAt
  <2> QED BY <2>1, <2>2, <2>3, Types DEF IInv, Held
<1>1. /\ Destroy({<<g, "b">>, <<g, "c">>}) /\ ReadReturn(g, n, out, "nil")
      /\ queue' = <<e>> \o queue \/ queue' = <<Nil>> \o queue
  BY DEF ReadReseal
<1>2. out \in Seq(Byte) /\ left \in Seq(Byte) /\ d = out \o left
  <2> HIDE DEF d, n
  <2>1. n <= Len(d)
    BY <1>0
  <2> QED BY <1>0, <2>1, Cut
<1>3. e \in EnclaveType /\ e.data = rest
  <2>1. my[g].born \in 0..MaxEpoch
    BY <1>0 DEF Locals
  <2> QED BY <1>0, <2>1 DEF Enclave, EnclaveType
<1> HIDE DEF e, out, left, rest
<1>4. Chain(taken, out \o left, Bytes)
  BY <1>0, <1>2 DEF IInv, OrderInv
<1>5. Chain(taken \o out, <<>>, left \o Bytes) /\ Chain(taken \o out, <<>>, Bytes)
  BY <1>0, <1>2, <1>4, ChainMoves
<1>6. Real(Held) = Real(out) \cup Real(left)
  BY <1>0, <1>2, RealOf
<1>7. Bytes' = BytesOf(queue')
  BY DEF Bytes, BytesOf, QueueData
<1>8. /\ queue' \in Seq(EnclaveType) /\ Chain(taken \o out, <<>>, Bytes')
      /\ Real(Bytes') \subseteq Real(left) \cup Real(Bytes)
  <2>1. CASE queue' = <<e>> \o queue
    <3>1. queue' \in Seq(EnclaveType) /\ Bytes' = rest \o Bytes
      BY <1>0, <1>3, <1>7, <2>1, QueueBytes
    <3>2. CASE rest = left
      BY <1>0, <1>2, <1>5, <3>1, <3>2, RealOf
    <3>3. CASE Real(rest) = {}
      <4>1. taken \o out \in Seq(Byte) /\ <<>> \in Seq(Byte)
        BY <1>0, <1>2, ConcatProperties, EmptySeq
      <4>2. Chain(taken \o out, <<>>, rest \o Bytes)
        BY <1>0, <1>5, <3>3, <4>1, ChainMoves
      <4> QED BY <1>0, <3>1, <3>3, <4>2, RealOf
    <3> QED BY <1>0, <3>2, <3>3
  <2>2. CASE queue' = <<Nil>> \o queue
    <3>1. queue' \in Seq(EnclaveType) /\ Bytes' = <<>> \o Bytes
      BY <1>0, <1>7, <2>2, QueueBytes, NothingTypes
    <3>2. <<>> \o Bytes = Bytes
      BY <1>0, ConcatEmptySeq
    <3> QED BY <1>5, <3>1, <3>2
  <2> QED BY <1>1, <2>1, <2>2
<1>9. BuffersOK'
  BY <1>1, BuffersKept DEF IInv
<1>10. IInv'
  BY <1>0, <1>1, <1>2, <1>6, <1>8, <1>9, ReadReturnKeeps
<1>11. ASSUME QInv PROVE QInv' /\ Implements
  <2>1. /\ <<g, "c">> \in alive /\ rest = left /\ Clean(d) /\ epoch = 1 /\ QueueOK(queue)
    BY <1>0, <1>11 DEF QInv, QuietAt, rest, left
  <2>2. queue' = <<e>> \o queue
    BY <2>1 DEF ReadReseal, Alive, e, rest
  <2>3. Clean(out) /\ Clean(left) /\ Len(out) = n /\ left # <<>>
    <3>1. Clean(out) /\ Clean(left)
      BY <1>2, <2>1, CleanParts
    <3>2. Len(out) = n /\ Len(left) = Len(d) - n
      <4> HIDE DEF d, n
      <4>1. n <= Len(d)
        BY <1>0
      <4> QED BY <1>0, <4>1, Cut DEF out, left
    <3>3. Len(d) - n # 0 /\ Len(<<>>) = 0
      BY <1>0
    <3> QED BY <3>1, <3>2, <3>3
  <2>4. QueueOK(queue') /\ Bytes' = left \o Bytes /\ Bytes' \in Seq(Byte)
    <3>1. e.key = 1
      BY <2>1 DEF e, Enclave
    <3>2. EnclaveOK(e)
      BY <1>3, <2>1, <2>3, <3>1 DEF EnclaveOK
    <3>3. Bytes' = left \o Bytes
      <4>1. queue \in Seq(EnclaveType) /\ Bytes = BytesOf(queue)
        BY <1>0
      <4>2. BytesOf(<<e>> \o queue) = e.data \o BytesOf(queue)
        BY <1>3, <4>1, QueueBytes
      <4> QED BY <1>3, <1>7, <2>1, <2>2, <4>1, <4>2
    <3> QED BY <1>0, <1>2, <1>3, <2>1, <2>2, <3>2, <3>3, QueueGrows, ConcatProperties
  <2>5. /\ OtherBuffers(g) /\ doomed' = {} /\ (<<g, "f">> \in alive => <<g, "f">> \in alive')
    BY <1>1, <1>11, BuffersQuiet
  <2>6. n <= my[g].n
    BY <1>0
  <2>7. QInv' /\ View = d \o Bytes /\ View' = left \o Bytes /\ Count' = Count /\ last' = Result(g, n, out, "nil")
    BY <1>0, <1>1, <1>2, <1>11, <2>3, <2>4, <2>5, <2>6, ReadReturnQuiet
  <2>8. View = out \o (left \o Bytes)
    <3>1. Bytes \in Seq(Byte)
      BY <1>0
    <3>2. (out \o left) \o Bytes = out \o (left \o Bytes)
      BY <1>2, <3>1, ByteAssociative
    <3> HIDE DEF d
    <3> QED BY <1>2, <2>7, <3>2
  <2>9. View # <<>>
    <3>1. d # <<>>
      BY <1>0, EmptySeq
    <3> QED BY <1>0, <2>7, <3>1, NotEmpty
  <2>10. Took(g)
    BY <1>2, <2>3, <2>4, <2>7, <2>8, <2>9, Takes
  <2> QED BY <2>7, <2>10 DEF Implements
<1> QED BY <1>10, <1>11 DEF Kept

LEMMA NextChunkStep == ASSUME IInv, NEW g \in Goroutines, NextChunk(g) PROVE Kept
<1>0. /\ pc[g] = "idle" /\ mutex = NoG /\ UNCHANGED <<mutex, session, alive, doomed, written>>
      /\ taken \in Seq(Byte) /\ Bytes \in Seq(Byte) /\ <<>> \in Seq(Byte) /\ 0 \in Nat
  BY Types, EmptySeq DEF IInv, NextChunk
<1>1. Chain(taken, <<>>, Bytes) /\ Held = <<>>
  BY <1>0, PopViews DEF IInv, OrderInv
<1>2. mutex' = IF mutex = g THEN NoG ELSE mutex
  BY <1>0
<1>3. ASSUME NEW n \in Nat, NEW bytes \in Seq(Byte), NEW err \in {"nil", "EOF", "decryption failed"},
             Return(g, n, bytes, err), queue' \in Seq(EnclaveType), taken' \in Seq(Byte),
             Chain(taken', <<>>, Bytes'),
             Real(taken') \cup Real(Bytes') \subseteq Real(taken) \cup Real(Bytes)
      PROVE  /\ IInv' /\ last' = Result(g, n, bytes, err)
             /\ QInv /\ QueueOK(queue') /\ Bytes' \in Seq(Byte) => QInv' /\ View' = Bytes' /\ Count' = Count
  <2>1. Moves(g, "idle", NoLocals) /\ last' = Result(g, n, bytes, err)
    BY <1>2, <1>3, ReturnMoves DEF Return
  <2>2. last' \in Results /\ BuffersOK' /\ "idle" # "write" /\ written' = written /\ UNCHANGED session
    BY <1>0, <2>1, ResultTypes, BuffersKept DEF IInv
  <2>3. Held' = <<>> /\ Real(<<>>) = {}
    BY <1>0, <1>1, <2>1, MoveKeeps, RealOf DEF IInv, Reading
  <2>4. /\ Chain(taken', Held', Bytes')
        /\ Real(taken') \cup Real(Held') \cup Real(Bytes') \subseteq Real(taken) \cup Real(Held) \cup Real(Bytes)
    BY <1>3, <2>3
  <2>5. IInv'
    BY <1>3, <2>1, <2>2, <2>4, ReadKeeps
  <2>6. ASSUME QInv, QueueOK(queue'), Bytes' \in Seq(Byte)
        PROVE  QInv' /\ View' = Bytes' /\ Count' = Count
    <3>1. OtherBuffers(g) /\ doomed' = {} /\ pc[g] # "write"
      BY <1>0, <2>6, BuffersQuiet
    <3>2. JoinInv'
      BY <1>0, <2>1, <2>2, <2>6, JoinKeeps
    <3>3. QInv'
      BY <2>1, <2>2, <2>6, <3>1, <3>2, QuietKeeps, QuietIdle
    <3>4. View' = <<>> \o Bytes' /\ Count' = Count
      BY <1>0, <2>1, <2>2, <2>3, <3>1, ViewMoves
    <3> QED BY <2>6, <3>3, <3>4, ConcatEmptySeq
  <2> QED BY <2>1, <2>5, <2>6
<1>4. CASE PopNil /\ Return(g, 0, <<>>, "EOF") /\ UNCHANGED taken
  <2>1. queue' \in Seq(EnclaveType) /\ Bytes' = Bytes
    BY <1>0, <1>4, PopViews
  <2>2. /\ IInv' /\ last' = Result(g, 0, <<>>, "EOF")
        /\ QInv /\ QueueOK(queue') /\ Bytes' \in Seq(Byte) => QInv' /\ View' = Bytes' /\ Count' = Count
    BY <1>0, <1>1, <1>3, <1>4, <2>1
  <2>3. ASSUME QInv PROVE QInv' /\ Implements
    <3>1. View = Bytes /\ Bytes = <<>> /\ QueueOK(queue')
      BY <1>0, <1>4, <2>3, PopQuiet
    <3>2. QInv' /\ View' = View /\ Count' = Count
      BY <1>0, <2>1, <2>2, <2>3, <3>1
    <3>3. Took(g)
      BY <2>2, <3>1, <3>2 DEF Took
    <3> QED BY <3>2, <3>3 DEF Implements
  <2> QED BY <2>2, <2>3 DEF Kept
<1>5. ASSUME Pop
      PROVE  /\ queue' \in Seq(EnclaveType) /\ Head(queue).data \in Seq(Byte) /\ Bytes' \in Seq(Byte)
             /\ Chain(taken, <<>>, Bytes') /\ Chain(taken \o Head(queue).data, <<>>, Bytes')
             /\ Real(Bytes) = Real(Head(queue).data) \cup Real(Bytes')
  <2> DEFINE d == Head(queue).data
  <2>1. /\ queue' \in Seq(EnclaveType) /\ d \in Seq(Byte) /\ Bytes' \in Seq(Byte) /\ Bytes = d \o Bytes'
    BY <1>0, <1>5, PopViews
  <2> HIDE DEF d
  <2>2. Chain(taken, d, Bytes') /\ Chain(taken \o d, <<>>, Bytes')
    BY <1>0, <1>1, <2>1, ChainMoves
  <2>3. Chain(taken, <<>>, Bytes')
    BY <1>0, <2>1, <2>2, ChainMoves
  <2>4. Real(Bytes) = Real(d) \cup Real(Bytes')
    BY <2>1, RealOf
  <2> QED BY <2>1, <2>2, <2>3, <2>4 DEF d
<1>6. CASE Pop /\ ~Opens /\ Return(g, 0, <<>>, "decryption failed") /\ UNCHANGED taken
  <2>1. /\ queue' \in Seq(EnclaveType) /\ Chain(taken', <<>>, Bytes') /\ taken' \in Seq(Byte)
        /\ Real(taken') \cup Real(Bytes') \subseteq Real(taken) \cup Real(Bytes)
    BY <1>0, <1>5, <1>6
  <2>2. IInv'
    BY <1>0, <1>3, <1>6, <2>1
  <2>3. ~QInv
    BY <1>0, <1>6, PopQuiet
  <2> QED BY <2>2, <2>3 DEF Kept
<1>7. CASE /\ Pop /\ Opens /\ Return(g, Len(Head(queue).data), Head(queue).data, "nil")
           /\ taken' = taken \o Head(queue).data
  <2> DEFINE d == Head(queue).data
  <2>1. d \in Seq(Byte) /\ Len(d) \in Nat
    BY <1>5, <1>7, LenProperties
  <2>2. taken' \in Seq(Byte) /\ Real(taken') = Real(taken) \cup Real(d)
    BY <1>0, <1>7, <2>1, ConcatProperties, RealOf
  <2>3. /\ IInv' /\ last' = Result(g, Len(d), d, "nil")
        /\ QInv /\ QueueOK(queue') /\ Bytes' \in Seq(Byte) => QInv' /\ View' = Bytes' /\ Count' = Count
    BY <1>3, <1>5, <1>7, <2>1, <2>2
  <2>4. ASSUME QInv PROVE QInv' /\ Implements
    <3>1. View = Bytes /\ d # <<>> /\ QueueOK(queue') /\ Bytes' \in Seq(Byte) /\ Bytes = d \o Bytes'
      BY <1>0, <1>7, <2>4, PopQuiet, PopViews DEF EnclaveOK
    <3>2. QInv' /\ View' = Bytes' /\ Count' = Count
      BY <2>3, <2>4, <3>1
    <3> HIDE DEF d
    <3>3. View = d \o Bytes' /\ View # <<>>
      BY <2>1, <3>1, NotEmpty
    <3>4. Took(g)
      BY <2>1, <2>3, <3>1, <3>2, <3>3, Takes
    <3> QED BY <3>2, <3>4 DEF Implements
  <2> QED BY <2>3, <2>4 DEF Kept
<1> QED BY <1>4, <1>6, <1>7 DEF NextChunk

LEMMA SizeStep == ASSUME IInv, NEW g \in Goroutines, Size(g) PROVE Kept
<1>0. /\ pc[g] = "idle" /\ mutex = NoG /\ UNCHANGED <<queue, mutex, session, alive, doomed, written, taken>>
      /\ \E n \in Nat, err \in {"nil", "panic"} : Return(g, n, <<>>, err)
  <2>1. Len(Bytes) \in Nat /\ 0 \in Nat
    BY Types, LenProperties DEF IInv
  <2> QED BY <2>1 DEF Size
<1>1. PICK n \in Nat, err \in {"nil", "panic"} : Return(g, n, <<>>, err)
  BY <1>0
<1>2. Moves(g, "idle", NoLocals) /\ last' = Result(g, n, <<>>, err)
  BY <1>0, <1>1, ReturnMoves DEF Return
<1>3. last' \in Results /\ BuffersOK'
  BY <1>0, <1>2, ResultTypes, NothingTypes, BuffersKept DEF IInv
<1>4. "idle" \notin Reading /\ pc[g] \notin Reading /\ "idle" # "write"
  BY <1>0 DEF Reading
<1>5. IInv'
  BY <1>0, <1>2, <1>3, <1>4, StillKeeps
<1>6. ASSUME QInv PROVE QInv' /\ Implements
  <2>1. Return(g, Len(Bytes), <<>>, "nil")
    <3>1. DOMAIN queue = 1..Len(queue)
      BY Types, LenProperties DEF IInv
    <3>2. \A k \in DOMAIN queue : queue[k] # Nil
      BY <1>6, <3>1, NothingTypes DEF QInv, QueueOK
    <3> QED BY <3>2 DEF Size
  <2>2. View = Bytes /\ pc[g] # "write" /\ "idle" # "write"
    BY <1>0, <1>6, PopQuiet
  <2>3. Held' = Held
    BY <1>2, <1>4, MoveKeeps DEF IInv
  <2>4. View' = View /\ Count' = Count
    BY <1>0, <1>2, <2>2, <2>3, ViewMoves
  <2>5. QInv'
    <3>1. OtherBuffers(g) /\ doomed' = {}
      BY <1>0, <1>6, BuffersQuiet
    <3>2. JoinInv' /\ QueueOK(queue')
      BY <1>0, <1>2, <1>6, <2>2, JoinKeeps DEF QInv
    <3> QED BY <1>0, <1>2, <1>6, <3>1, <3>2, QuietKeeps, QuietIdle
  <2> QED BY <2>1, <2>2, <2>4, <2>5 DEF Implements, Sized, Return
<1> QED BY <1>5, <1>6 DEF Kept

LEMMA CallFlushStep == ASSUME IInv, NEW g \in Goroutines, CallFlush(g) PROVE Kept
<1> DEFINE r == [my[g] EXCEPT !.flush = TRUE, !.got = Zeroes(PageSize), !.start = Begun]
<1>0. /\ pc[g] = "idle" /\ NewBuffer(g, "f") /\ my' = [my EXCEPT ![g] = r] /\ Goto(g, "flush")
      /\ UNCHANGED <<queue, mutex, session, written, taken>> /\ last' = NoResult
  BY DEF CallFlush, Silent
<1>1. r \in Locals /\ r.flush /\ r.read = 0 /\ Len(r.got) \in Nat
  <2>1. /\ PageSize \in Nat /\ Zeroes(PageSize) \in Seq(Byte) /\ Len(Zeroes(PageSize)) = PageSize
        /\ Begun \in Nat
    BY FlushTypes, ZeroesAre DEF IInv
  <2>2. my[g] = NoLocals /\ my[g] \in Locals
    BY <1>0, Types DEF IInv, LocalInv, LocalsAt
  <2>3. r \in Locals
    BY <2>1, <2>2, LocalUpdates
  <2>4. r.flush /\ r.read = my[g].read /\ r.got = Zeroes(PageSize)
    BY <2>2 DEF Locals
  <2> QED BY <2>1, <2>2, <2>3, <2>4, NothingTypes
<1> HIDE DEF r
<1>2. Moves(g, "flush", r) /\ "flush" # "write" /\ "flush" \notin Reading /\ pc[g] \notin Reading
  BY <1>0, <1>1, FreeMoves
<1>3. last' \in Results /\ BuffersOK'
  BY <1>0, NothingTypes, BuffersKept DEF IInv
<1>4. IInv'
  BY <1>0, <1>2, <1>3, StillKeeps
<1>5. ASSUME QInv PROVE QInv' /\ Implements
  <2>1. OtherBuffers(g) /\ doomed' = {} /\ <<g, "f">> \in alive' /\ pc[g] # "write"
    BY <1>0, <1>5, BuffersQuiet
  <2>2. QuietAt(g, "flush", r, alive')
    BY <1>1, <2>1 DEF QuietAt, Reading
  <2> QED BY <1>0, <1>2, <1>5, <2>1, <2>2, StillQuiet
<1> QED BY <1>4, <1>5 DEF Kept

(* Flush has its buffer, and what it has read fits. *)
LEMMA FlushQuiet ==
  ASSUME IInv, QInv, NEW g \in Goroutines, pc[g] \in {"flush", "flushed", "grow", "final", "done"}
  PROVE  /\ Alive(g, "f") /\ Cap(g) = Len(my[g].got) /\ my[g].flush
         /\ my[g].read <= Cap(g)
         /\ pc[g] = "flushed" => my[g].read + my[g].res.n <= Cap(g)
<1>1. QuietAt(g, pc[g], my[g], alive)
  BY DEF QInv
<1>2. /\ Alive(g, "f") /\ my[g].flush /\ my[g].read <= Len(my[g].got)
      /\ pc[g] = "flushed" => my[g].read + my[g].res.n <= Len(my[g].got)
  BY <1>1 DEF QuietAt, Alive
<1>3. Cap(g) = Len(my[g].got)
  BY <1>2 DEF Cap
<1> QED BY <1>2, <1>3

(* A step of Flush that only changes what it has read and copied. *)
LEMMA FlushMoves ==
  ASSUME IInv, NEW g \in Goroutines, NEW l \in {"read", "flush", "grow", "final", "done"},
         NEW r \in Locals, pc[g] \in {"flush", "flushed", "grow", "final"},
         Goto(g, l), my' = [my EXCEPT ![g] = r],
         UNCHANGED <<queue, mutex, session, written, taken>>, Silent,
         UNCHANGED <<alive, doomed>> \/ \E v \in {"d", "f"} : NewBuffer(g, v),
         QInv => /\ r.flush /\ r.read <= Len(r.got)
                 /\ l = "read" => r.read + r.n <= Len(r.got)
  PROVE  Kept
<1>1. Moves(g, l, r) /\ l # "write" /\ l \notin Reading /\ pc[g] \notin Reading
  BY FreeMoves
<1>2. last' \in Results /\ BuffersOK'
  BY NothingTypes, BuffersKept DEF IInv, Silent
<1>3. IInv'
  BY <1>1, <1>2, StillKeeps
<1>4. ASSUME QInv PROVE QInv' /\ Implements
  <2>1. /\ OtherBuffers(g) /\ doomed' = {} /\ last' = NoResult /\ pc[g] # "write"
        /\ <<g, "f">> \in alive => <<g, "f">> \in alive'
    BY <1>4, BuffersQuiet DEF Silent
  <2>2. QuietAt(g, l, r, alive')
    <3>1. Alive(g, "f")
      BY <1>4, FlushQuiet
    <3> QED BY <1>1, <1>4, <2>1, <3>1 DEF QuietAt, Alive, Reading
  <2> QED BY <1>1, <1>4, <2>1, <2>2, StillQuiet
<1> QED BY <1>3, <1>4 DEF Kept

(* A slice expression beyond the buffer's end, which no Flush meets that is *)
(* not disturbed by a Purge.                                                *)
LEMMA FlushPanic ==
  ASSUME IInv, NEW g \in Goroutines, pc[g] \in {"flush", "flushed", "final"}, Panic(g),
         \/ my[g].read > Cap(g)
         \/ pc[g] = "flushed" /\ my[g].read + my[g].res.n > Cap(g)
  PROVE  Kept
<1>1. IInv'
  BY PanicStep
<1>2. ~QInv
  <2>1. QInv => my[g].read <= Cap(g) /\ (pc[g] = "flushed" => my[g].read + my[g].res.n <= Cap(g))
    BY FlushQuiet
  <2>2. my[g].read \in Nat /\ Cap(g) \in Nat /\ my[g].read + my[g].res.n \in Nat
    BY FlushTypes DEF IInv
  <2>3. \A a, b \in Nat : a > b => ~(a <= b)
    OBVIOUS
  <2> QED BY <2>1, <2>2, <2>3
<1> QED BY <1>1, <1>2 DEF Kept

(* Flush ends without a panic. *)
LEMMA FlushEnds ==
  ASSUME IInv, NEW g \in Goroutines, pc[g] \in {"flushed", "done"}, Goto(g, "idle"),
         my' = [my EXCEPT ![g] = NoLocals],
         Destroy({<<g, "f">>}) \/ Destroy({<<g, "f">>, <<g, "d">>}),
         UNCHANGED <<queue, mutex, session, written, taken>>, Silent
  PROVE  Kept
<1>1. mutex # g
  BY DEF IInv, LockInv, Critical, Reading
<1>2. Moves(g, "idle", NoLocals)
  BY <1>1, NothingTypes DEF Moves, LocalsAt, Labels, Critical, Reading, Goto
<1>3. last' \in Results /\ BuffersOK'
  BY NothingTypes, BuffersKept DEF IInv, Silent
<1>4. "idle" \notin Reading /\ pc[g] \notin Reading /\ "idle" # "write"
  BY DEF Reading
<1>5. IInv'
  BY <1>2, <1>3, <1>4, StillKeeps
<1>6. ASSUME QInv PROVE QInv' /\ Implements
  <2>1. OtherBuffers(g) /\ doomed' = {} /\ last' = NoResult /\ pc[g] # "write"
    BY <1>6, BuffersQuiet DEF Silent
  <2>2. QuietAt(g, "idle", NoLocals, alive')
    BY QuietIdle
  <2> QED BY <1>2, <1>4, <1>6, <2>1, <2>2, StillQuiet
<1> QED BY <1>5, <1>6 DEF Kept

LEMMA FlushReadStep == ASSUME IInv, NEW g \in Goroutines, FlushRead(g) PROVE Kept
<1>0. pc[g] = "flush"
  BY DEF FlushRead
<1>1. CASE my[g].read > Cap(g) /\ Panic(g)
  BY <1>0, <1>1, FlushPanic
<1>2. CASE /\ my[g].read <= Cap(g)
           /\ my' = [my EXCEPT ![g].n = Cap(g) - my[g].read]
           /\ Goto(g, "read")
           /\ UNCHANGED <<queue, mutex, session, alive, doomed, written, taken>> /\ Silent
  <2> DEFINE n == Cap(g) - my[g].read
             r == [my[g] EXCEPT !.n = n]
  <2>1. n \in Nat /\ my[g].read + n = Cap(g) /\ my[g] \in Locals
    <3>1. my[g].read \in Nat /\ Cap(g) \in Nat /\ my[g] \in Locals
      BY Types, FlushTypes DEF IInv
    <3> QED BY <1>2, <3>1
  <2>2. my' = [my EXCEPT ![g] = r]
    BY <1>2
  <2> HIDE DEF n
  <2>3. r \in Locals /\ r.flush = my[g].flush /\ r.got = my[g].got /\ r.read = my[g].read /\ r.n = n
    <3>1. r \in Locals
      BY <2>1, LocalUpdates
    <3>2. r.flush = my[g].flush /\ r.got = my[g].got /\ r.read = my[g].read /\ r.n = n
      BY <2>1 DEF Locals
    <3> QED BY <3>1, <3>2
  <2> HIDE DEF r
  <2>4. QInv => r.flush /\ r.read <= Len(r.got) /\ r.read + r.n <= Len(r.got)
    <3>1. QInv => Cap(g) = Len(my[g].got) /\ my[g].flush /\ my[g].read <= Cap(g)
      BY <1>0, FlushQuiet
    <3>2. Cap(g) <= Cap(g)
      BY FlushTypes DEF IInv
    <3> QED BY <2>1, <2>3, <3>1, <3>2
  <2> QED BY <1>0, <1>2, <2>2, <2>3, <2>4, FlushMoves
<1> QED BY <1>1, <1>2 DEF FlushRead

LEMMA FlushedStep == ASSUME IInv, NEW g \in Goroutines, Flushed(g) PROVE Kept
<1> DEFINE read == my[g].read + my[g].res.n
           got == Filled(my[g].got, my[g].read, my[g].res.bytes)
           r == [my[g] EXCEPT !.read = read, !.got = got]
<1>0. pc[g] = "flushed" /\ my[g] \in Locals /\ my \in [Goroutines -> Locals] /\ read \in Nat
  BY Types, FlushTypes DEF IInv, Flushed
<1>1. got \in Seq(Byte) /\ Len(got) = Len(my[g].got)
  BY FlushTypes, FilledIs DEF IInv
<1>2. /\ QInv => /\ Cap(g) = Len(my[g].got) /\ my[g].flush /\ my[g].read <= Cap(g)
                 /\ read <= Cap(g)
  BY <1>0, FlushQuiet
<1>3. CASE /\ Goto(g, "flush")
           /\ UNCHANGED <<queue, mutex, session, alive, doomed, written, taken, my>> /\ Silent
  <2>1. my' = [my EXCEPT ![g] = my[g]]
    BY <1>0, <1>3
  <2> QED BY <1>0, <1>2, <1>3, <2>1, FlushMoves
<1>4. CASE /\ Goto(g, "idle") /\ my' = [my EXCEPT ![g] = NoLocals] /\ Destroy({<<g, "f">>})
           /\ UNCHANGED <<queue, mutex, session, written, taken>> /\ Silent
  BY <1>0, <1>4, FlushEnds
<1>5. CASE read > Cap(g) /\ Panic(g)
  BY <1>0, <1>5, FlushPanic
<1>6. ASSUME NEW l \in {"flush", "grow", "final"}, Goto(g, l),
             my' = [my EXCEPT ![g].read = read, ![g].got = got],
             UNCHANGED <<alive, doomed>> \/ NewBuffer(g, "d"),
             UNCHANGED <<queue, mutex, session, written, taken>>, Silent
      PROVE  Kept
  <2>1. my' = [my EXCEPT ![g] = r]
    BY <1>6
  <2> HIDE DEF read, got
  <2>2. r \in Locals /\ r.flush = my[g].flush /\ r.got = got /\ r.read = read
    <3>1. r \in Locals
      BY <1>0, <1>1, LocalUpdates
    <3>2. r.flush = my[g].flush /\ r.got = got /\ r.read = read
      BY <1>0 DEF Locals
    <3> QED BY <3>1, <3>2
  <2> HIDE DEF r
  <2>3. QInv => r.flush /\ r.read <= Len(r.got)
    BY <1>1, <1>2, <2>2
  <2>4. /\ UNCHANGED <<alive, doomed>> \/ \E v \in {"d", "f"} : NewBuffer(g, v)
        /\ l \in {"read", "flush", "grow", "final", "done"} /\ l # "read"
    BY <1>6
  <2>5. /\ pc[g] \in {"flush", "flushed", "grow", "final"} /\ Goto(g, l)
        /\ UNCHANGED <<queue, mutex, session, written, taken>> /\ Silent
    BY <1>0, <1>6
  <2> QED BY <2>1, <2>2, <2>3, <2>4, <2>5, FlushMoves
<1>7. CASE /\ Goto(g, "final")
           /\ my' = [my EXCEPT ![g].read = read, ![g].got = got]
           /\ NewBuffer(g, "d")
           /\ UNCHANGED <<queue, mutex, session, written, taken>> /\ Silent
  <2> HIDE DEF read, got
  <2> QED BY <1>6, <1>7
<1>8. CASE /\ my' = [my EXCEPT ![g].read = read, ![g].got = got]
           /\ Goto(g, IF read = Cap(g) THEN "grow" ELSE "flush")
           /\ UNCHANGED <<queue, mutex, session, alive, doomed, written, taken>> /\ Silent
  <2> DEFINE l == IF read = Cap(g) THEN "grow" ELSE "flush"
  <2>1. l \in {"flush", "grow", "final"} /\ Goto(g, l)
    BY <1>8
  <2> HIDE DEF read, got, l
  <2> QED BY <1>6, <1>8, <2>1
<1> QED BY <1>3, <1>4, <1>5, <1>7, <1>8 DEF Flushed

(* What Flush's larger buffer holds: what was in the old one, or zeroes.    *)
Grown(g, wiped) ==
  Filled(Zeroes(Cap(g) + PageSize), 0, Zeroed(SubSeq(my[g].got, 1, Cap(g)), wiped))

LEMMA GrownIs ==
  ASSUME IInv, NEW g \in Goroutines, NEW wiped \in BOOLEAN
  PROVE  /\ Grown(g, wiped) \in Seq(Byte) /\ Len(Grown(g, wiped)) = Cap(g) + PageSize
         /\ Cap(g) <= Len(my[g].got) /\ Cap(g) <= Len(Grown(g, wiped))
         /\ \A k \in 1..(Cap(g) + PageSize) :
              /\ k <= Cap(g) => Grown(g, wiped)[k] \in {my[g].got[k], Zero}
              /\ k <= Cap(g) /\ ~wiped => Grown(g, wiped)[k] = my[g].got[k]
              /\ k > Cap(g) => Grown(g, wiped)[k] = Zero
<1> DEFINE c == Cap(g)
           m == c + PageSize
           old == SubSeq(my[g].got, 1, c)
           z == Zeroed(old, wiped)
           new == Filled(Zeroes(m), 0, z)
<1>1. /\ my[g].got \in Seq(Byte) /\ Len(my[g].got) \in Nat /\ c \in Nat /\ m \in Nat /\ c <= m
      /\ c <= Len(my[g].got)
  <2>1. my[g].got \in Seq(Byte) /\ Len(my[g].got) \in Nat /\ PageSize \in Nat /\ c \in Nat
    BY FlushTypes DEF IInv
  <2>2. c = Len(my[g].got) \/ c = 0
    BY DEF Cap
  <2> QED BY <2>1, <2>2
<1> HIDE DEF c, m
<1>2. old \in Seq(Byte) /\ Len(old) = c /\ \A k \in 1..c : old[k] = my[g].got[k]
  <2>1. \A i \in 1..((c - 1) + 1) : old[i] = my[g].got[1 + i - 1]
    BY <1>1, Part
  <2>2. ASSUME NEW k \in 1..c PROVE old[k] = my[g].got[k]
    <3>1. k \in 1..((c - 1) + 1) /\ 1 + k - 1 = k
      BY <1>1
    <3> QED BY <2>1, <3>1
  <2> QED BY <1>1, <2>2, Cut
<1> HIDE DEF old
<1>3. /\ z \in Seq(Byte) /\ Len(z) = c /\ \A k \in 1..c : z[k] \in {old[k], Zero}
      /\ ~wiped => z = old
  BY <1>2, ZeroedIs
<1> HIDE DEF z
<1>4. Zeroes(m) \in Seq(Byte) /\ Len(Zeroes(m)) = m /\ \A k \in 1..m : Zeroes(m)[k] = Zero
  BY <1>1, ZeroesAre
<1>5. /\ new \in Seq(Byte) /\ Len(new) = m
      /\ \A k \in 1..m : /\ 0 < k /\ k <= 0 + Len(z) => k - 0 \in 1..Len(z) /\ new[k] = z[k - 0]
                         /\ ~(0 < k /\ k <= 0 + Len(z)) => new[k] = Zeroes(m)[k]
  BY <1>3, <1>4, FilledIs
<1> HIDE DEF new
<1>6. ASSUME NEW k \in 1..m
      PROVE  /\ k <= c => new[k] \in {my[g].got[k], Zero}
             /\ k <= c /\ ~wiped => new[k] = my[g].got[k]
             /\ k > c => new[k] = Zero
  <2>1. 0 < k /\ k - 0 = k /\ 0 + Len(z) = c /\ (k <= c => k \in 1..c) /\ (k > c => ~(k <= c))
    BY <1>1, <1>3
  <2>2. (k <= c => new[k] = z[k]) /\ (k > c => new[k] = Zero)
    BY <1>4, <1>5, <2>1
  <2> QED BY <1>2, <1>3, <2>1, <2>2
<1>7. new = Grown(g, wiped)
  BY DEF new, z, old, m, c, Grown
<1> QED BY <1>1, <1>5, <1>6, <1>7 DEF m, c

LEMMA FlushGrowStep == ASSUME IInv, NEW g \in Goroutines, FlushGrow(g) PROVE Kept
<1>0. /\ pc[g] = "grow" /\ NewBuffer(g, "f") /\ Goto(g, "flush") /\ my[g] \in Locals
      /\ UNCHANGED <<queue, mutex, session, written, taken>> /\ Silent
  BY Types DEF FlushGrow, IInv
<1>1. PICK wiped \in Wiped(g, "f") : my' = [my EXCEPT ![g].got = Grown(g, wiped)]
  BY DEF FlushGrow, Grown
<1> DEFINE r == [my[g] EXCEPT !.got = Grown(g, wiped)]
<1>2. my' = [my EXCEPT ![g] = r]
  BY <1>1
<1>3. Grown(g, wiped) \in Seq(Byte) /\ Cap(g) <= Len(Grown(g, wiped)) /\ Len(Grown(g, wiped)) \in Nat
  BY GrownIs, WipedIs, LenProperties
<1>4. /\ r \in Locals /\ r.flush = my[g].flush /\ r.got = Grown(g, wiped) /\ r.read = my[g].read
  <2>1. r \in Locals
    BY <1>0, <1>3, LocalUpdates
  <2>2. r.flush = my[g].flush /\ r.got = Grown(g, wiped) /\ r.read = my[g].read
    BY <1>0 DEF Locals
  <2> QED BY <2>1, <2>2
<1> HIDE DEF r
<1>5. QInv => r.flush /\ r.read <= Len(r.got)
  <2>1. QInv => my[g].flush /\ my[g].read <= Cap(g)
    BY <1>0, FlushQuiet
  <2>2. my[g].read \in Nat /\ Cap(g) \in Nat
    BY FlushTypes DEF IInv
  <2>3. \A a, b, c \in Nat : a <= b /\ b <= c => a <= c
    OBVIOUS
  <2> QED BY <1>3, <1>4, <2>1, <2>2, <2>3
<1> QED BY <1>0, <1>2, <1>4, <1>5, FlushMoves

LEMMA FlushCopyStep == ASSUME IInv, NEW g \in Goroutines, FlushCopy(g) PROVE Kept
<1>0. pc[g] = "final" /\ my[g] \in Locals
  BY Types DEF FlushCopy, IInv
<1>1. CASE my[g].read > Cap(g) /\ Panic(g)
  BY <1>0, <1>1, FlushPanic
<1>2. ASSUME my[g].read <= Cap(g), Goto(g, "done"),
             UNCHANGED <<queue, mutex, session, alive, doomed, written, taken>>, Silent,
             NEW wiped \in Wiped(g, "f"),
             my' = [my EXCEPT ![g].out = IF Alive(g, "d")
                                           THEN Zeroed(SubSeq(my[g].got, 1, my[g].read), wiped)
                                           ELSE <<>>]
      PROVE  Kept
  <2> DEFINE out == IF Alive(g, "d") THEN Zeroed(SubSeq(my[g].got, 1, my[g].read), wiped) ELSE <<>>
             r == [my[g] EXCEPT !.out = out]
  <2>1. my' = [my EXCEPT ![g] = r]
    BY <1>2
  <2>2. out \in Seq(Byte)
    <3>1. my[g].read <= Len(my[g].got)
      <4>1. Cap(g) <= Len(my[g].got) /\ my[g].read \in Nat /\ Cap(g) \in Nat /\ Len(my[g].got) \in Nat
        BY GrownIs, FlushTypes DEF IInv
      <4> QED BY <1>2, <4>1
    <3>2. SubSeq(my[g].got, 1, my[g].read) \in Seq(Byte)
      BY <3>1, FlushTypes, Cut DEF IInv
    <3> QED BY <3>2, WipedIs, ZeroedIs, NothingTypes
  <2> HIDE DEF out
  <2>3. r \in Locals /\ r.flush = my[g].flush /\ r.got = my[g].got /\ r.read = my[g].read
    <3>1. r \in Locals
      BY <1>0, <2>2, LocalUpdates
    <3>2. r.flush = my[g].flush /\ r.got = my[g].got /\ r.read = my[g].read
      BY <1>0 DEF Locals
    <3> QED BY <3>1, <3>2
  <2> HIDE DEF r
  <2>4. QInv => r.flush /\ r.read <= Len(r.got)
    BY <1>0, <2>3, FlushQuiet
  <2> QED BY <1>0, <1>2, <2>1, <2>3, <2>4, FlushMoves
<1> QED BY <1>1, <1>2 DEF FlushCopy

LEMMA FlushReturnStep == ASSUME IInv, NEW g \in Goroutines, FlushReturn(g) PROVE Kept
BY FlushEnds DEF FlushReturn

LEMMA PurgeKeeps == ASSUME IInv, PurgeBegin \/ PurgeStep PROVE IInv'
<1>1. UNCHANGED <<queue, mutex, written, taken, pc, my>> /\ last' = NoResult
  BY DEF PurgeBegin, PurgeStep, PurgeDestroy, PurgeEnd, Silent
<1>2. /\ epoch' \in 1..MaxEpoch /\ purging' \in BOOLEAN /\ (purging' => epoch' < MaxEpoch)
      /\ alive' \subseteq Goroutines \X {"b", "c", "d", "f"} /\ doomed' \subseteq alive'
  <2>0. /\ MaxEpoch \in Nat /\ epoch \in 1..MaxEpoch /\ purging \in BOOLEAN
        /\ (purging => epoch < MaxEpoch)
        /\ alive \subseteq Goroutines \X {"b", "c", "d", "f"} /\ doomed \subseteq alive
    BY StreamAssumption DEF IInv, TypeInv, TypeOK
  <2>1. CASE PurgeBegin
    BY <2>0, <2>1 DEF PurgeBegin
  <2>2. CASE PurgeDestroy
    BY <2>0, <2>2 DEF PurgeDestroy, Destroy, session
  <2>3. CASE PurgeEnd
    <3>1. purging /\ purging' = FALSE /\ epoch' = epoch + 1 /\ UNCHANGED <<alive, doomed>>
      BY <2>3 DEF PurgeEnd
    <3>2. epoch + 1 \in 1..MaxEpoch
      BY <2>0, <3>1
    <3> QED BY <2>0, <3>1, <3>2
  <2> QED BY <2>1, <2>2, <2>3 DEF PurgeStep
<1>3. last' \in Results
  BY <1>1, NothingTypes
<1>4. TypeInv'
  BY <1>1, <1>2, <1>3 DEF IInv, TypeInv, TypeOK
<1>5. Held' = Held /\ Bytes' = Bytes
  BY <1>1 DEF Held, Bytes
<1>6. LockInv' /\ LocalInv'
  BY <1>1 DEF IInv, LockInv, LocalInv, LocalsAt
<1>7. OrderInv' /\ BoundInv'
  BY <1>1, <1>5 DEF IInv, OrderInv, BoundInv, Chain, Rising, Before, UpTo, Real
<1> QED BY <1>4, <1>6, <1>7 DEF IInv

LEMMA InitEstablishes == Init => IInv
<1> SUFFICES ASSUME Init PROVE IInv
  OBVIOUS
<1>1. <<>> \in Seq(EnclaveType) /\ <<>> \in Seq(Byte) /\ NoLocals \in Locals /\ NoResult \in Results
  BY EmptySeq, NothingTypes
<1>2. TypeInv
  <2>1. my \in [Goroutines -> Locals] /\ pc \in [Goroutines -> Labels]
    BY <1>1 DEF Init, Labels
  <2>2. 1 \in 1..MaxEpoch /\ 0 \in 0..MaxBytes
    BY StreamAssumption
  <2> QED BY <1>1, <2>1, <2>2 DEF Init, TypeInv, TypeOK, Locals, Labels
<1>3. LockInv /\ LocalInv /\ Held = <<>>
  BY StreamAssumption DEF Init, LockInv, LocalInv, LocalsAt, Held, Critical, Reading
<1>4. Bytes = <<>>
  BY FlattenEmpty DEF Init, Bytes
<1>5. Real(<<>>) = {} /\ Rising(<<>>)
  BY <1>1, RealOf
<1>6. OrderInv /\ BoundInv
  BY <1>3, <1>4, <1>5 DEF Init, OrderInv, BoundInv, Chain, Before, UpTo
<1> QED BY <1>2, <1>3, <1>6 DEF IInv

LEMMA StutterKeeps == ASSUME IInv, UNCHANGED vars PROVE IInv'
<1>1. UNCHANGED <<queue, mutex, epoch, purging, alive, doomed, written, taken, pc, my, last>>
  BY DEF vars
<1>2. Held' = Held /\ Bytes' = Bytes
  BY <1>1 DEF Held, Bytes
<1>3. TypeInv' /\ LockInv' /\ LocalInv'
  BY <1>1 DEF IInv, TypeInv, TypeOK, LockInv, LocalInv, LocalsAt
<1>4. OrderInv' /\ BoundInv'
  BY <1>1, <1>2 DEF IInv, OrderInv, BoundInv, Chain, Rising, Before, UpTo, Real
<1> QED BY <1>3, <1>4 DEF IInv

(* PurgeBegin needs a session to go on to. *)
LEMMA NoPurge == ASSUME MaxEpoch = 1, QInv, PurgeBegin \/ PurgeStep PROVE FALSE
BY DEF QInv, PurgeBegin, PurgeStep, PurgeDestroy, PurgeEnd

LEMMA StutterQuiet == ASSUME QInv, UNCHANGED vars PROVE QInv'
<1>1. UNCHANGED <<queue, mutex, epoch, purging, alive, doomed, written, taken, pc, my, last>>
  BY DEF vars
<1>2. View' = View /\ Bytes' = Bytes /\ (Writing' <=> Writing)
  BY <1>1 DEF View, Bytes, Writing, Joined, Held
<1>3. JoinInv'
  BY <1>1, <1>2 DEF QInv, JoinInv, Joined
<1>4. QueueOK(queue)' /\ \A g \in Goroutines : QuietAt(g, pc[g], my[g], alive)'
  BY <1>1 DEF QInv, QueueOK, QuietAt, Clean
<1> QED BY <1>1, <1>3, <1>4 DEF QInv

LEMMA NextKeeps ==
  ASSUME IInv, [Next]_vars
  PROVE  /\ IInv'
         /\ MaxEpoch = 1 /\ QInv => QInv' /\ (Implements \/ UNCHANGED vars)
<1>1. ASSUME NEW g \in Goroutines, Call(g) PROVE Kept
  BY <1>1, WriteStep, CallReadStep, NextChunkStep, SizeStep, CallFlushStep DEF Call
<1>2. ASSUME NEW g \in Goroutines, Step(g) PROVE Kept
  <2>1. CASE WriteJoin(g) \/ WriteReturn(g)
    BY <2>1, WriteJoinStep, WriteReturnStep
  <2>2. CASE ReadNext(g) \/ ReadCheck(g) \/ ReadLeftover(g) \/ ReadFill(g) \/ ReadReseal(g)
    BY <2>2, ReadNextStep, ReadCheckStep, ReadLeftoverStep, ReadFillStep, ReadResealStep
  <2>3. CASE FlushRead(g) \/ Flushed(g) \/ FlushGrow(g) \/ FlushCopy(g) \/ FlushReturn(g)
    BY <2>3, FlushReadStep, FlushedStep, FlushGrowStep, FlushCopyStep, FlushReturnStep
  <2> QED BY <1>2, <2>1, <2>2, <2>3 DEF Step
<1>3. CASE UNCHANGED vars
  BY <1>3, StutterKeeps, StutterQuiet
<1>4. CASE PurgeBegin \/ PurgeStep
  BY <1>4, PurgeKeeps, NoPurge
<1>5. CASE Kept
  BY <1>5 DEF Kept
<1> QED BY <1>1, <1>2, <1>3, <1>4, <1>5 DEF Next

(* The invariant holds in every state of the stream, for any number of      *)
(* goroutines, any sizes and any number of Purges.                          *)
THEOREM Invariance == Spec => []IInv
<1>1. Init => IInv
  BY InitEstablishes
<1>2. IInv /\ [Next]_vars => IInv'
  BY NextKeeps
<1> QED BY <1>1, <1>2, PTL DEF Spec

(* Bytes leave the stream once and in the order of the Writes, whoever      *)
(* reads them and however, and whatever a Purge drops (stream.go:63,        *)
(* 82-84).                                                                  *)
THEOREM StreamInOrder == Spec => []InOrder
<1>1. IInv => InOrder
  <2> SUFFICES ASSUME IInv PROVE InOrder
    OBVIOUS
  <2>1. DOMAIN taken = 1..Len(taken)
    BY Types, LenProperties DEF IInv
  <2>2. Rising(taken)
    BY DEF IInv, OrderInv, Chain
  <2> QED BY <2>1, <2>2 DEF IInv, TypeInv, InOrder, Rising
<1> QED BY <1>1, Invariance, PTL
-----------------------------------------------------------------------------
(* A stream that is never purged. *)
LEMMA QuietInit == Init => QInv
<1> SUFFICES ASSUME Init PROVE QInv
  OBVIOUS
<1>1. QueueOK(queue)
  BY DEF Init, QueueOK
<1>2. \A g \in Goroutines : QuietAt(g, pc[g], my[g], alive)
  BY QuietIdle DEF Init
<1>3. JoinInv
  BY StreamAssumption DEF Init, JoinInv, Writing
<1> QED BY <1>1, <1>2, <1>3 DEF Init, QInv

LEMMA InitImplements == Init => Abstract!Init
<1> SUFFICES ASSUME Init PROVE Abstract!Init
  OBVIOUS
<1>1. Contents = View /\ Completed = Count
  BY InitEstablishes, ContentsIs DEF Mapped
<1>2. ~Writing /\ mutex = NoG
  BY StreamAssumption DEF Init, Writing
<1>3. View = <<>> /\ Count = 0
  <2>1. View = Bytes
    BY <1>2, InitEstablishes, QuietInit, PopQuiet
  <2>2. Bytes = <<>>
    BY FlattenEmpty DEF Init, Bytes
  <2> QED BY <1>2, <2>1, <2>2 DEF Init, Count
<1> QED BY <1>1, <1>3 DEF Init, Abstract!Init, NoResult, Result, Abstract!NoResult, Abstract!Result

LEMMA QuietInvariance == ASSUME MaxEpoch = 1 PROVE Spec => [](IInv /\ QInv)
<1>1. Init => IInv /\ QInv
  BY InitEstablishes, QuietInit
<1>2. IInv /\ QInv /\ [Next]_vars => IInv' /\ QInv'
  BY NextKeeps
<1> QED BY <1>1, <1>2, PTL DEF Spec

(* Without a Purge a Stream implements ByteQueue: to all its users at once  *)
(* it is one queue of bytes, whose Write, Read, Next and Size take effect   *)
(* at one moment each although Write joins chunk by chunk and Read pops,    *)
(* splits and pushes back (stream.go:59-150).                               *)
THEOREM StreamIsByteQueue == ASSUME MaxEpoch = 1 PROVE Spec => IsByteQueue
<1>1. Init => Abstract!Init
  BY InitImplements
<1>2. IInv /\ QInv /\ (IInv /\ QInv)' /\ [Next]_vars => [Abstract!Next]_(Abstract!vars)
  <2> SUFFICES ASSUME IInv, QInv, IInv', [Next]_vars PROVE [Abstract!Next]_(Abstract!vars)
    OBVIOUS
  <2>1. Implements \/ UNCHANGED vars
    BY NextKeeps
  <2>2. CASE UNCHANGED vars
    <3>1. UNCHANGED <<queue, mutex, written, pc, my, last>>
      BY <2>2 DEF vars
    <3>2. Contents' = Contents /\ Completed' = Completed
      <4>1. View' = View /\ Count' = Count
        BY <3>1 DEF View, Count, Bytes, Writing, Joined, Held
      <4> QED BY <4>1, ContentsIs, ContentsNext DEF Mapped
    <3> QED BY <3>1, <3>2 DEF Abstract!vars
  <2> QED BY <2>1, <2>2, ImplementsIs
<1> QED BY <1>1, <1>2, QuietInvariance, PTL DEF Spec, IsByteQueue, Abstract!Spec

-----------------------------------------------------------------------------
(* What Flush returns, whoever purges the session meanwhile.                *)

FlushLabels == {"flush", "flushed", "grow", "final", "done"}

(* A buffer in use that no Purge is going to destroy. *)
Holds(g, v, a, d) == <<g, v>> \in a /\ <<g, v>> \notin d

(* What Flush has read at label l is what its Reads gave it, up to bytes    *)
(* that a Purge wiped; and if no session has begun since it did, it has its *)
(* buffers and every byte.                                                  *)
FlushAt(g, l, r, a, d, b) ==
  /\ l \in FlushLabels => r.flush
  /\ r.flush =>
       /\ r.start <= b
       /\ Len(r.drawn) = r.read + (IF l = "flushed" THEN Len(r.res.bytes) ELSE 0)
       /\ \A k \in 1..r.read : k <= Len(r.got) => r.got[k] \in {r.drawn[k], Zero}
       /\ l = "flushed" => /\ r.res.n = Len(r.res.bytes)
                           /\ \A k \in 1..r.res.n : r.drawn[r.read + k] = r.res.bytes[k]
       /\ l = "grow" => r.read <= Len(r.got)
       /\ l = "done" /\ <<g, "d">> \in a =>
            /\ Len(r.out) = Len(r.drawn)
            /\ \A k \in 1..Len(r.out) : r.out[k] \in {r.drawn[k], Zero}
       /\ r.start = b =>
            /\ Holds(g, "f", a, d)
            /\ \A k \in 1..r.read : k <= Len(r.got) => r.got[k] = r.drawn[k]
            /\ l \in {"final", "done"} => Holds(g, "d", a, d)
            /\ l = "done" => r.out = r.drawn

FlushInv == \A g \in Goroutines : FlushAt(g, pc[g], my[g], alive, doomed, Begun)

(* A step that leaves g's buffers as they are, or a step of Purge. *)
Stays(g) ==
  /\ Begun <= Begun'
  /\ \A v \in {"d", "f"} :
       /\ <<g, v>> \in alive' => <<g, v>> \in alive
       /\ Begun' = Begun /\ Holds(g, v, alive, doomed) => Holds(g, v, alive', doomed')

LEMMA FlushStays ==
  ASSUME NEW g, NEW l, NEW r \in Locals, Begun \in Nat, Begun' \in Nat, Stays(g),
         FlushAt(g, l, r, alive, doomed, Begun)
  PROVE  FlushAt(g, l, r, alive', doomed', Begun')
<1>1. r.start \in Nat
  BY DEF Locals
<1>2. r.flush /\ r.start = Begun' => r.start = Begun /\ Begun' = Begun
  BY <1>1 DEF FlushAt, Stays
<1>3. r.flush => r.start <= Begun'
  BY <1>1 DEF FlushAt, Stays
<1>4. l = "done" /\ <<g, "d">> \in alive' => <<g, "d">> \in alive
  BY DEF Stays
<1>5. r.flush /\ r.start = Begun' =>
        /\ Holds(g, "f", alive', doomed')
        /\ l \in {"final", "done"} => Holds(g, "d", alive', doomed')
  BY <1>2 DEF FlushAt, Stays
<1> HIDE DEF Holds
<1> QED BY <1>2, <1>3, <1>4, <1>5 DEF FlushAt

(* g goes on to label l with the locals r. *)
LEMMA FlushStep ==
  ASSUME IInv, FlushInv, NEW g \in Goroutines, NEW l, NEW r,
         pc' = [pc EXCEPT ![g] = l], my' = [my EXCEPT ![g] = r],
         Begun' = Begun, \A h \in Goroutines \ {g} : Stays(h),
         FlushAt(g, l, r, alive', doomed', Begun)
  PROVE  FlushInv'
<1>0. pc \in [Goroutines -> Labels] /\ my \in [Goroutines -> Locals] /\ Begun \in Nat
  BY Types, FlushTypes DEF IInv
<1>1. ASSUME NEW h \in Goroutines PROVE FlushAt(h, pc'[h], my'[h], alive', doomed', Begun')
  <2>1. CASE h = g
    <3>1. pc'[h] = l /\ my'[h] = r
      BY <1>0, <2>1
    <3> QED BY <2>1, <3>1
  <2>2. CASE h # g
    <3>1. pc'[h] = pc[h] /\ my'[h] = my[h] /\ my[h] \in Locals
      BY <1>0, <2>2
    <3>2. FlushAt(h, pc[h], my[h], alive', doomed', Begun')
      <4>1. FlushAt(h, pc[h], my[h], alive, doomed, Begun) /\ Stays(h) /\ Begun' \in Nat
        BY <1>0, <2>2 DEF FlushInv
      <4> HIDE DEF FlushAt, Stays
      <4> QED BY <1>0, <3>1, <4>1, FlushStays
    <3> QED BY <3>1, <3>2
  <2> QED BY <2>1, <2>2
<1> QED BY <1>1 DEF FlushInv, FlushAt, Holds

(* What g does to its own buffers stays out of the others'. *)
LEMMA BuffersStay ==
  ASSUME IInv, NEW g \in Goroutines, UNCHANGED session,
         \/ UNCHANGED <<alive, doomed>>
         \/ \E v \in {"b", "c", "d", "f"} : NewBuffer(g, v)
         \/ \E V \in SUBSET {"b", "c", "d", "f"} : Destroy({<<g, v>> : v \in V})
  PROVE  /\ Begun' = Begun /\ Begun \in Nat
         /\ \A h \in Goroutines \ {g} : Stays(h)
<1>1. Begun' = Begun /\ Begun \in Nat
  BY FlushTypes DEF Begun, session, IInv
<1>2. \A h \in Goroutines \ {g}, v \in {"d", "f"} :
        (<<h, v>> \in alive' <=> <<h, v>> \in alive) /\ (<<h, v>> \in doomed' <=> <<h, v>> \in doomed)
  BY DEF NewBuffer, Destroy
<1> QED BY <1>1, <1>2 DEF Stays, Holds

(* A step outside Flush's own, which keeps what Flush has. *)
Plain == {"idle", "write", "read", "check", "leftover", "fill", "reseal"}

SameFlush(r, s) ==
  /\ r.flush = s.flush /\ r.got = s.got /\ r.read = s.read /\ r.out = s.out
  /\ r.drawn = s.drawn /\ r.start = s.start

LEMMA PlainStep ==
  ASSUME IInv, FlushInv, NEW g \in Goroutines, NEW l \in Plain, NEW r, SameFlush(r, my[g]),
         pc[g] \in Plain \cup {"flush"}, Goto(g, l), my' = [my EXCEPT ![g] = r], UNCHANGED session,
         UNCHANGED <<alive, doomed>> \/ \E v \in {"b", "c"} : NewBuffer(g, v)
  PROVE  FlushInv'
<1>1. Begun' = Begun /\ \A h \in Goroutines \ {g} : Stays(h)
  BY BuffersStay
<1>2. FlushAt(g, pc[g], my[g], alive, doomed, Begun)
  BY DEF FlushInv
<1>3. \A v \in {"d", "f"} :
        (<<g, v>> \in alive' <=> <<g, v>> \in alive) /\ (<<g, v>> \in doomed' <=> <<g, v>> \in doomed)
  BY DEF NewBuffer
<1>4. FlushAt(g, l, r, alive', doomed', Begun)
  BY <1>2, <1>3 DEF FlushAt, Plain, FlushLabels, SameFlush, Holds
<1> QED BY <1>1, <1>4, FlushStep DEF Goto

(* A call that ends. *)
LEMMA EndStep ==
  ASSUME IInv, FlushInv, NEW g \in Goroutines, Goto(g, "idle"), my' = [my EXCEPT ![g] = NoLocals],
         UNCHANGED session,
         \/ UNCHANGED <<alive, doomed>>
         \/ \E V \in SUBSET {"b", "c", "d", "f"} : Destroy({<<g, v>> : v \in V})
  PROVE  FlushInv'
<1>1. Begun' = Begun /\ \A h \in Goroutines \ {g} : Stays(h)
  BY BuffersStay
<1>2. FlushAt(g, "idle", NoLocals, alive', doomed', Begun)
  BY NothingTypes DEF FlushAt, FlushLabels
<1> QED BY <1>1, <1>2, FlushStep DEF Goto

LEMMA PanicEnds == ASSUME IInv, FlushInv, NEW g \in Goroutines, Panic(g) PROVE FlushInv'
<1>1. {<<g, "b">>, <<g, "c">>, <<g, "d">>, <<g, "f">>} = {<<g, v>> : v \in {"b", "c", "d", "f"}}
  OBVIOUS
<1> QED BY <1>1, EndStep DEF Panic, Return

LEMMA Concatenated ==
  ASSUME NEW s \in Seq(Byte), NEW t \in Seq(Byte)
  PROVE  /\ Len(s \o t) = Len(s) + Len(t)
         /\ \A k \in 1..Len(s) : (s \o t)[k] = s[k]
         /\ \A k \in 1..Len(t) : (s \o t)[Len(s) + k] = t[k]
<1> DEFINE u == s \o t
<1>1. /\ Len(s) \in Nat /\ Len(t) \in Nat /\ Len(u) = Len(s) + Len(t)
      /\ \A i \in 1..(Len(s) + Len(t)) : u[i] = IF i <= Len(s) THEN s[i] ELSE t[i - Len(s)]
  BY LenProperties, ConcatProperties
<1> HIDE DEF u
<1>2. \A k \in 1..Len(s) : k \in 1..(Len(s) + Len(t)) /\ k <= Len(s)
  BY <1>1
<1>3. \A k \in 1..Len(t) : /\ Len(s) + k \in 1..(Len(s) + Len(t)) /\ ~(Len(s) + k <= Len(s))
                           /\ (Len(s) + k) - Len(s) = k
  BY <1>1
<1>4. \A k \in 1..Len(s) : u[k] = s[k]
  BY <1>1, <1>2
<1>5. ASSUME NEW k \in 1..Len(t) PROVE u[Len(s) + k] = t[k]
  BY <1>1, <1>3
<1> QED BY <1>1, <1>4, <1>5 DEF u

(* Read returns: to the program, or its bytes to Flush. *)
LEMMA ReadReturnFlush ==
  ASSUME IInv, FlushInv, NEW g \in Goroutines, pc[g] \in Reading \cup {"read"},
         NEW bytes \in Seq(Byte), NEW err, NEW n, n = Len(bytes), ReadReturn(g, n, bytes, err),
         \/ UNCHANGED <<alive, doomed>>
         \/ \E V \in SUBSET {"b", "c"} : Destroy({<<g, v>> : v \in V})
  PROVE  FlushInv'
<1>1. UNCHANGED session /\ last' = Result(g, n, bytes, err)
  BY DEF ReadReturn
<1>2. Begun' = Begun /\ \A h \in Goroutines \ {g} : Stays(h)
  BY <1>1, BuffersStay
<1>3. CASE Goto(g, "idle") /\ my' = [my EXCEPT ![g] = NoLocals]
  BY <1>1, <1>3, EndStep
<1>4. CASE /\ my[g].flush /\ Goto(g, "flushed")
           /\ my' = [my EXCEPT ![g].res = last', ![g].drawn = @ \o bytes]
  <2> DEFINE drawn == my[g].drawn \o bytes
             r == [my[g] EXCEPT !.res = last', !.drawn = drawn]
  <2>1. /\ my[g] \in Locals /\ my[g].drawn \in Seq(Byte) /\ Len(my[g].drawn) \in Nat
        /\ my[g].read \in Nat /\ Len(bytes) \in Nat
    BY Types, FlushTypes, LenProperties DEF IInv
  <2>2. FlushAt(g, pc[g], my[g], alive, doomed, Begun)
    BY DEF FlushInv
  <2>3. Len(my[g].drawn) = my[g].read
    BY <1>4, <2>1, <2>2 DEF FlushAt, Reading
  <2>4. /\ Len(drawn) = my[g].read + Len(bytes)
        /\ \A k \in 1..my[g].read : drawn[k] = my[g].drawn[k]
        /\ \A k \in 1..Len(bytes) : drawn[my[g].read + k] = bytes[k]
    <3>1. /\ Len(drawn) = Len(my[g].drawn) + Len(bytes)
          /\ \A k \in 1..Len(my[g].drawn) : drawn[k] = my[g].drawn[k]
          /\ \A k \in 1..Len(bytes) : drawn[Len(my[g].drawn) + k] = bytes[k]
      BY <2>1, Concatenated
    <3> HIDE DEF drawn
    <3> QED BY <2>3, <3>1
  <2> HIDE DEF drawn
  <2>5. my' = [my EXCEPT ![g] = r]
    BY <1>4 DEF drawn
  <2>6. /\ r.flush /\ r.got = my[g].got /\ r.read = my[g].read /\ r.out = my[g].out
        /\ r.drawn = drawn /\ r.start = my[g].start /\ r.res.n = Len(bytes) /\ r.res.bytes = bytes
    BY <1>1, <1>4, <2>1 DEF Locals, Result
  <2> HIDE DEF r
  <2>7. \A v \in {"d", "f"} :
          (<<g, v>> \in alive' <=> <<g, v>> \in alive) /\ (<<g, v>> \in doomed' <=> <<g, v>> \in doomed)
    BY DEF Destroy
  <2>8. FlushAt(g, "flushed", r, alive', doomed', Begun)
    <3>1. /\ my[g].start <= Begun
          /\ \A k \in 1..my[g].read : k <= Len(my[g].got) => my[g].got[k] \in {my[g].drawn[k], Zero}
          /\ my[g].start = Begun =>
               /\ Holds(g, "f", alive, doomed)
               /\ \A k \in 1..my[g].read : k <= Len(my[g].got) => my[g].got[k] = my[g].drawn[k]
      BY <1>4, <2>2 DEF FlushAt
    <3>2. Holds(g, "f", alive, doomed) => Holds(g, "f", alive', doomed')
      BY <2>7 DEF Holds
    <3>3. \A k \in 1..my[g].read : drawn[k] = my[g].drawn[k]
      BY <2>4
    <3>4. /\ r.start <= Begun
          /\ \A k \in 1..r.read : k <= Len(r.got) => r.got[k] \in {r.drawn[k], Zero}
          /\ r.start = Begun =>
               /\ Holds(g, "f", alive', doomed')
               /\ \A k \in 1..r.read : k <= Len(r.got) => r.got[k] = r.drawn[k]
      BY <2>6, <3>1, <3>2, <3>3
    <3>5. Len(r.drawn) = r.read + Len(bytes) /\ \A k \in 1..Len(bytes) : r.drawn[r.read + k] = bytes[k]
      BY <2>4, <2>6
    <3> QED BY <2>6, <3>4, <3>5 DEF FlushAt
  <2> QED BY <1>2, <1>4, <2>5, <2>8, FlushStep DEF Goto
<1> QED BY <1>3, <1>4 DEF ReadReturn

LEMMA CallsFlush ==
  ASSUME IInv, FlushInv, NEW g \in Goroutines,
         Write(g) \/ WriteJoin(g) \/ WriteReturn(g) \/ CallRead(g) \/ NextChunk(g) \/ Size(g)
  PROVE  FlushInv'
<1>0. my[g] \in Locals
  BY Types DEF IInv
<1>1. CASE Write(g)
  <2>1. PICK n \in WriteSizes : my' = [my EXCEPT ![g].data = [k \in 1..n |-> written + k]]
    BY <1>1 DEF Write
  <2> DEFINE r == [my[g] EXCEPT !.data = [k \in 1..n |-> written + k]]
  <2>2. SameFlush(r, my[g])
    BY <1>0 DEF SameFlush, Locals
  <2>3. my' = [my EXCEPT ![g] = r]
    BY <2>1
  <2> HIDE DEF r
  <2> QED BY <1>1, <2>2, <2>3, PlainStep DEF Write, Plain
<1>2. CASE WriteJoin(g)
  <2> DEFINE r == [my[g] EXCEPT !.i = my[g].i + ChunkSize]
  <2>1. SameFlush(r, my[g])
    BY <1>0 DEF SameFlush, Locals
  <2>2. my' = [my EXCEPT ![g] = r]
    BY <1>2 DEF WriteJoin
  <2> HIDE DEF r
  <2>3. pc' = [pc EXCEPT ![g] = "write"]
    BY <1>2, Types DEF WriteJoin, IInv
  <2> QED BY <1>2, <2>1, <2>2, <2>3, PlainStep DEF WriteJoin, Plain, Goto
<1>3. CASE CallRead(g)
  <2>1. PICK n \in ReadSizes : my' = [my EXCEPT ![g].n = n]
    BY <1>3 DEF CallRead
  <2> DEFINE r == [my[g] EXCEPT !.n = n]
  <2>2. SameFlush(r, my[g])
    BY <1>0 DEF SameFlush, Locals
  <2>3. my' = [my EXCEPT ![g] = r]
    BY <2>1
  <2> HIDE DEF r
  <2> QED BY <1>3, <2>2, <2>3, PlainStep DEF CallRead, Plain
<1>4. CASE WriteReturn(g) \/ NextChunk(g) \/ Size(g)
  <2>1. /\ Goto(g, "idle") /\ my' = [my EXCEPT ![g] = NoLocals]
        /\ UNCHANGED session /\ UNCHANGED <<alive, doomed>>
    BY <1>4 DEF WriteReturn, NextChunk, Size, Return
  <2> QED BY <2>1, EndStep
<1> QED BY <1>1, <1>2, <1>3, <1>4

LEMMA ReadsFlush ==
  ASSUME IInv, FlushInv, NEW g \in Goroutines,
         ReadNext(g) \/ ReadCheck(g) \/ ReadLeftover(g) \/ ReadFill(g) \/ ReadReseal(g)
  PROVE  FlushInv'
<1>0. /\ my[g] \in Locals /\ my[g].data \in Seq(Byte) /\ my[g].n \in Nat /\ Len(my[g].data) \in Nat
      /\ <<>> \in Seq(Byte) /\ Len(<<>>) = 0
  BY Types, NothingTypes DEF IInv
<1>1. CASE ReadNext(g)
  <2>0. pc[g] = "read"
    BY <1>1 DEF ReadNext
  <2>1. CASE \E err \in {"EOF", "decryption failed"} : ReadReturn(g, 0, <<>>, err) /\ UNCHANGED <<alive, doomed>>
    BY <1>0, <2>0, <2>1, ReadReturnFlush
  <2>2. CASE /\ NewBuffer(g, "b") /\ UNCHANGED session /\ Goto(g, "check")
             /\ my' = [my EXCEPT ![g].data = Head(queue).data, ![g].born = Head(queue).born]
    <3> DEFINE r == [my[g] EXCEPT !.data = Head(queue).data, !.born = Head(queue).born]
    <3>1. SameFlush(r, my[g])
      BY <1>0 DEF SameFlush, Locals
    <3>2. my' = [my EXCEPT ![g] = r]
      BY <2>2
    <3> HIDE DEF r
    <3> QED BY <2>0, <2>2, <3>1, <3>2, PlainStep DEF Plain
  <2> QED BY <1>1, <2>1, <2>2 DEF ReadNext
<1>2. CASE ReadCheck(g)
  <2>0. pc[g] = "check" /\ pc[g] \in Reading
    BY <1>2 DEF ReadCheck, Reading
  <2>1. ASSUME Goto(g, "leftover"), UNCHANGED <<session, alive, doomed>>, NEW wiped \in Wiped(g, "b"),
               my' = [my EXCEPT ![g].data = Zeroed(@, wiped), ![g].born = IF wiped THEN epoch ELSE @]
        PROVE  FlushInv'
    <3> DEFINE r == [my[g] EXCEPT !.data = Zeroed(my[g].data, wiped),
                                  !.born = IF wiped THEN epoch ELSE my[g].born]
    <3>1. SameFlush(r, my[g])
      BY <1>0 DEF SameFlush, Locals
    <3>2. my' = [my EXCEPT ![g] = r]
      BY <2>1
    <3> HIDE DEF r
    <3> QED BY <2>0, <2>1, <3>1, <3>2, PlainStep DEF Plain
  <2>2. ASSUME Destroy({<<g, "b">>}), NEW wiped \in Wiped(g, "b"),
               ReadReturn(g, Len(my[g].data), Zeroed(my[g].data, wiped), "nil")
        PROVE  FlushInv'
    <3> DEFINE z == Zeroed(my[g].data, wiped)
    <3>1. z \in Seq(Byte) /\ Len(z) = Len(my[g].data)
      <4>1. wiped \in BOOLEAN
        BY WipedIs
      <4> QED BY <1>0, <4>1, ZeroedIs
    <3>2. Destroy({<<g, v>> : v \in {"b"}}) /\ {"b"} \in SUBSET {"b", "c"}
      <4>1. {<<g, v>> : v \in {"b"}} = {<<g, "b">>}
        OBVIOUS
      <4> QED BY <2>2, <4>1
    <3> HIDE DEF z
    <3>3. ReadReturn(g, Len(my[g].data), z, "nil")
      BY <2>2 DEF z
    <3> QED BY <2>0, <3>1, <3>2, <3>3, ReadReturnFlush
  <2>3. CASE ReadReturn(g, 0, <<>>, "nil") /\ UNCHANGED <<queue, alive, doomed>>
    BY <1>0, <2>0, <2>3, ReadReturnFlush
  <2> QED BY <1>2, <2>1, <2>2, <2>3 DEF ReadCheck
<1>3. CASE ReadLeftover(g)
  <2>1. my' = [my EXCEPT ![g] = my[g]] /\ SameFlush(my[g], my[g])
    BY <1>3, Types DEF ReadLeftover, IInv, SameFlush
  <2> QED BY <1>3, <2>1, PlainStep DEF ReadLeftover, Plain
<1>4. CASE ReadFill(g)
  <2>0. pc[g] = "fill"
    BY <1>4 DEF ReadFill
  <2>1. ASSUME Goto(g, "reseal"), UNCHANGED <<session, alive, doomed>>, NEW wiped \in Wiped(g, "b"),
               my' = [my EXCEPT
                        ![g].rest = Zeroed(SubSeq(my[g].data, my[g].n + 1, Len(my[g].data)), wiped),
                        ![g].born = IF wiped THEN epoch ELSE @]
        PROVE  FlushInv'
    <3> DEFINE r == [my[g] EXCEPT
                       !.rest = Zeroed(SubSeq(my[g].data, my[g].n + 1, Len(my[g].data)), wiped),
                       !.born = IF wiped THEN epoch ELSE my[g].born]
    <3>1. SameFlush(r, my[g])
      BY <1>0 DEF SameFlush, Locals
    <3>2. my' = [my EXCEPT ![g] = r]
      BY <2>1
    <3> HIDE DEF r
    <3> QED BY <2>0, <2>1, <3>1, <3>2, PlainStep DEF Plain
  <2> QED BY <1>4, <2>1, PanicEnds DEF ReadFill
<1>5. CASE ReadReseal(g)
  <2> DEFINE out == SubSeq(my[g].data, 1, my[g].n)
  <2>0. pc[g] = "reseal" /\ pc[g] \in Reading
    BY <1>5 DEF ReadReseal, Reading
  <2>1. out \in Seq(Byte) /\ Len(out) = my[g].n
    <3>1. my[g].n <= Len(my[g].data)
      <4>1. my[g].n < Len(my[g].data)
        BY <2>0 DEF IInv, LocalInv, LocalsAt
      <4> QED BY <1>0, <4>1
    <3> QED BY <1>0, <3>1, Cut
  <2>2. Destroy({<<g, v>> : v \in {"b", "c"}}) /\ {"b", "c"} \in SUBSET {"b", "c"}
    <3>1. {<<g, v>> : v \in {"b", "c"}} = {<<g, "b">>, <<g, "c">>}
      OBVIOUS
    <3> QED BY <1>5, <3>1 DEF ReadReseal
  <2>3. ReadReturn(g, my[g].n, out, "nil")
    BY <1>5 DEF ReadReseal
  <2> HIDE DEF out
  <2> QED BY <2>0, <2>1, <2>2, <2>3, ReadReturnFlush
<1> QED BY <1>1, <1>2, <1>3, <1>4, <1>5

LEMMA CallFlushFlush == ASSUME IInv, FlushInv, NEW g \in Goroutines, CallFlush(g) PROVE FlushInv'
<1> DEFINE r == [my[g] EXCEPT !.flush = TRUE, !.got = Zeroes(PageSize), !.start = Begun]
<1>0. /\ pc[g] = "idle" /\ NewBuffer(g, "f") /\ my' = [my EXCEPT ![g] = r] /\ Goto(g, "flush")
      /\ UNCHANGED session
  BY DEF CallFlush
<1>1. Begun' = Begun /\ Begun \in Nat /\ \A h \in Goroutines \ {g} : Stays(h)
  BY <1>0, BuffersStay
<1>2. r.flush /\ r.read = 0 /\ r.drawn = <<>> /\ r.start = Begun
  <2>1. my[g] = NoLocals /\ my[g] \in Locals
    BY <1>0, Types DEF IInv, LocalInv, LocalsAt
  <2> QED BY <2>1, NothingTypes DEF Locals
<1> HIDE DEF r
<1>3. Holds(g, "f", alive', doomed')
  BY <1>0 DEF NewBuffer, Holds
<1>4. FlushAt(g, "flush", r, alive', doomed', Begun)
  BY <1>1, <1>2, <1>3, NothingTypes DEF FlushAt
<1> QED BY <1>0, <1>1, <1>4, FlushStep DEF Goto

LEMMA FlushReadFlush == ASSUME IInv, FlushInv, NEW g \in Goroutines, FlushRead(g) PROVE FlushInv'
<1>1. CASE Panic(g)
  BY <1>1, PanicEnds
<1>2. CASE /\ my' = [my EXCEPT ![g].n = Cap(g) - my[g].read] /\ Goto(g, "read")
           /\ UNCHANGED <<session, alive, doomed>>
  <2> DEFINE r == [my[g] EXCEPT !.n = Cap(g) - my[g].read]
  <2>1. SameFlush(r, my[g])
    BY Types DEF SameFlush, Locals, IInv
  <2>2. my' = [my EXCEPT ![g] = r]
    BY <1>2
  <2> HIDE DEF r
  <2>3. pc[g] \in Plain \cup {"flush"} /\ "read" \in Plain
    BY DEF FlushRead, Plain
  <2> QED BY <1>2, <2>1, <2>2, <2>3, PlainStep
<1> QED BY <1>1, <1>2 DEF FlushRead

LEMMA FlushedFlush == ASSUME IInv, FlushInv, NEW g \in Goroutines, Flushed(g) PROVE FlushInv'
<1> DEFINE n == my[g].res.n
           bytes == my[g].res.bytes
           read == my[g].read + n
           got == Filled(my[g].got, my[g].read, bytes)
           r == [my[g] EXCEPT !.read = read, !.got = got]
<1>0. /\ pc[g] = "flushed" /\ my[g] \in Locals /\ my \in [Goroutines -> Locals]
      /\ n \in Nat /\ bytes \in Seq(Byte) /\ my[g].read \in Nat /\ my[g].got \in Seq(Byte)
      /\ Len(my[g].got) \in Nat /\ Cap(g) \in Nat /\ Cap(g) <= Len(my[g].got)
  <2>1. Cap(g) <= Len(my[g].got)
    BY GrownIs
  <2> QED BY <2>1, Types, FlushTypes DEF IInv, Flushed
<1>1. FlushAt(g, "flushed", my[g], alive, doomed, Begun)
  BY <1>0 DEF FlushInv
<1>2. my[g].flush /\ n = Len(bytes) /\ Len(my[g].drawn) = read
  BY <1>1 DEF FlushAt, FlushLabels
<1>3. CASE n = 0 /\ Goto(g, "flush") /\ UNCHANGED <<session, alive, doomed, my>>
  <2>1. Begun' = Begun /\ \A h \in Goroutines \ {g} : Stays(h)
    BY <1>3, BuffersStay
  <2>2. my' = [my EXCEPT ![g] = my[g]]
    BY <1>0, <1>3
  <2>3. FlushAt(g, "flush", my[g], alive', doomed', Begun)
    <3>1. Len(my[g].drawn) = my[g].read + 0
      BY <1>2, <1>3
    <3> QED BY <1>1, <1>2, <1>3, <3>1 DEF FlushAt, Holds
  <2> QED BY <1>3, <2>1, <2>2, <2>3, FlushStep DEF Goto
<1>4. CASE Goto(g, "idle") /\ my' = [my EXCEPT ![g] = NoLocals] /\ Destroy({<<g, "f">>}) /\ UNCHANGED session
  <2>1. {<<g, v>> : v \in {"f"}} = {<<g, "f">>}
    OBVIOUS
  <2> QED BY <1>4, <2>1, EndStep
<1>5. CASE Panic(g)
  BY <1>5, PanicEnds
<1>6. Len(got) = Len(my[g].got) /\ got \in Seq(Byte)
  BY <1>0, FilledIs
<1>f. \A k \in 1..Len(my[g].got) :
        /\ my[g].read < k /\ k <= my[g].read + Len(bytes) => got[k] = bytes[k - my[g].read]
        /\ ~(my[g].read < k) => got[k] = my[g].got[k]
  <2>1. my[g].got \in Seq(Byte) /\ my[g].read \in Nat /\ bytes \in Seq(Byte)
    BY <1>0
  <2> HIDE DEF bytes
  <2> DEFINE b == my[g].got
             i == my[g].read
  <2> HIDE DEF b, i
  <2>2. \A k \in 1..Len(b) :
          /\ i < k /\ k <= i + Len(bytes) =>
               k - i \in 1..Len(bytes) /\ Filled(b, i, bytes)[k] = bytes[k - i]
          /\ ~(i < k /\ k <= i + Len(bytes)) => Filled(b, i, bytes)[k] = b[k]
    BY <2>1, FilledIs DEF b, i
  <2> QED BY <2>2 DEF b, i
<1>7. ASSUME NEW k \in 1..read, k <= Len(got)
      PROVE  /\ got[k] \in {my[g].drawn[k], Zero}
             /\ my[g].start = Begun => got[k] = my[g].drawn[k]
  <2>0. k \in 1..Len(my[g].got)
    BY <1>0, <1>6, <1>7
  <2>1. CASE k <= my[g].read
    <3>1. ~(my[g].read < k) /\ k \in 1..my[g].read /\ k <= Len(my[g].got)
      BY <1>0, <1>6, <1>7, <2>1
    <3>2. got[k] = my[g].got[k]
      BY <1>f, <2>0, <3>1
    <3> QED BY <1>1, <1>2, <3>1, <3>2 DEF FlushAt
  <2>2. CASE k > my[g].read
    <3>1. /\ my[g].read < k /\ k <= my[g].read + Len(bytes) /\ k - my[g].read \in 1..n
          /\ my[g].read + (k - my[g].read) = k
      <4>1. /\ my[g].read < k /\ k <= my[g].read + Len(bytes) /\ k \in Nat
            /\ n = Len(bytes) /\ n \in Nat /\ my[g].read \in Nat
        BY <1>0, <1>2, <1>7, <2>2
      <4> HIDE DEF n, bytes
      <4> QED BY <4>1
    <3>2. got[k] = bytes[k - my[g].read]
      BY <1>f, <2>0, <3>1
    <3>3. my[g].drawn[my[g].read + (k - my[g].read)] = bytes[k - my[g].read]
      BY <1>1, <1>2, <3>1 DEF FlushAt
    <3> QED BY <3>1, <3>2, <3>3
  <2> QED BY <1>0, <2>1, <2>2
<1>8. ASSUME NEW l \in {"flush", "grow", "final"}, Goto(g, l), UNCHANGED session,
             my' = [my EXCEPT ![g].read = read, ![g].got = got],
             \/ UNCHANGED <<alive, doomed>> /\ l # "final"
             \/ NewBuffer(g, "d"),
             l = "grow" => read <= Len(my[g].got)
      PROVE  FlushInv'
  <2>1. my' = [my EXCEPT ![g] = r]
    BY <1>8
  <2> HIDE DEF read, got
  <2>2. /\ r.flush = my[g].flush /\ r.got = got /\ r.read = read /\ r.drawn = my[g].drawn
        /\ r.start = my[g].start
    BY <1>0 DEF Locals
  <2> HIDE DEF r
  <2>3. Begun' = Begun /\ \A h \in Goroutines \ {g} : Stays(h)
    BY <1>8, BuffersStay
  <2>4. /\ my[g].start <= Begun
        /\ my[g].start = Begun => /\ Holds(g, "f", alive', doomed')
                                  /\ l = "final" => Holds(g, "d", alive', doomed')
    BY <1>1, <1>2, <1>8 DEF FlushAt, Holds, NewBuffer
  <2>5. Len(r.drawn) = r.read + 0
    BY <1>0, <1>2, <2>2 DEF read
  <2>6. FlushAt(g, l, r, alive', doomed', Begun)
    <3>1. l # "flushed" /\ l # "done"
      BY <1>8
    <3>2. l = "grow" => r.read <= Len(r.got)
      BY <1>6, <1>8, <2>2
    <3> HIDE DEF Holds
    <3> QED BY <1>2, <1>7, <2>2, <2>4, <2>5, <3>1, <3>2 DEF FlushAt
  <2> QED BY <1>8, <2>1, <2>3, <2>6, FlushStep DEF Goto
<1>9. CASE /\ Goto(g, "final") /\ my' = [my EXCEPT ![g].read = read, ![g].got = got]
           /\ NewBuffer(g, "d") /\ UNCHANGED session
  <2> HIDE DEF read, got
  <2> QED BY <1>8, <1>9
<1>10. CASE /\ my' = [my EXCEPT ![g].read = read, ![g].got = got]
            /\ Goto(g, IF read = Cap(g) THEN "grow" ELSE "flush")
            /\ UNCHANGED <<session, alive, doomed>>
  <2> DEFINE l == IF read = Cap(g) THEN "grow" ELSE "flush"
  <2>1. l \in {"flush", "grow", "final"} /\ Goto(g, l) /\ l # "final"
    BY <1>10
  <2>2. l = "grow" => read <= Len(my[g].got)
    <3> HIDE DEF read
    <3> QED BY <1>0
  <2> HIDE DEF read, got, l
  <2> QED BY <1>8, <1>10, <2>1, <2>2
<1> QED BY <1>3, <1>4, <1>5, <1>9, <1>10 DEF Flushed

LEMMA FlushGrowFlush == ASSUME IInv, FlushInv, NEW g \in Goroutines, FlushGrow(g) PROVE FlushInv'
<1>0. /\ pc[g] = "grow" /\ NewBuffer(g, "f") /\ Goto(g, "flush") /\ my[g] \in Locals
      /\ UNCHANGED session
      /\ my[g].read \in Nat /\ Len(my[g].got) \in Nat /\ Cap(g) \in Nat /\ PageSize \in Nat
  BY Types, FlushTypes DEF FlushGrow, IInv
<1>1. PICK wiped \in Wiped(g, "f") : my' = [my EXCEPT ![g].got = Grown(g, wiped)]
  BY DEF FlushGrow, Grown
<1> DEFINE new == Grown(g, wiped)
           r == [my[g] EXCEPT !.got = new]
<1>2. my' = [my EXCEPT ![g] = r]
  BY <1>1
<1> HIDE DEF new
<1>3. r.flush = my[g].flush /\ r.got = new /\ r.read = my[g].read /\ r.drawn = my[g].drawn /\ r.start = my[g].start
  BY <1>0 DEF Locals
<1> HIDE DEF r
<1>4. FlushAt(g, "grow", my[g], alive, doomed, Begun)
  BY <1>0 DEF FlushInv
<1>5. my[g].flush /\ my[g].read <= Len(my[g].got) /\ Len(my[g].drawn) = my[g].read + 0
  BY <1>4 DEF FlushAt, FlushLabels
<1>6. /\ Len(new) = Cap(g) + PageSize /\ Cap(g) <= Len(my[g].got)
      /\ \A k \in 1..(Cap(g) + PageSize) :
           /\ k <= Cap(g) => new[k] \in {my[g].got[k], Zero}
           /\ k <= Cap(g) /\ ~wiped => new[k] = my[g].got[k]
           /\ k > Cap(g) => new[k] = Zero
  <2>1. wiped \in BOOLEAN
    BY WipedIs
  <2> QED BY <2>1, GrownIs DEF new
<1>7. my[g].start = Begun => wiped = FALSE /\ Cap(g) = Len(my[g].got)
  <2>1. my[g].start = Begun => Alive(g, "f") /\ <<g, "f">> \notin doomed
    BY <1>4, <1>5 DEF FlushAt, Holds, Alive
  <2> QED BY <2>1, WipedIs DEF Cap
<1>8. ASSUME NEW k \in 1..my[g].read, k <= Len(new)
      PROVE  /\ new[k] \in {my[g].drawn[k], Zero}
             /\ my[g].start = Begun => new[k] = my[g].drawn[k]
  <2>1. /\ k \in 1..(Cap(g) + PageSize) /\ k <= Len(my[g].got) /\ (k <= Cap(g) \/ k > Cap(g))
        /\ Cap(g) = Len(my[g].got) => k <= Cap(g)
    BY <1>0, <1>5, <1>6, <1>8
  <2>2. /\ my[g].got[k] \in {my[g].drawn[k], Zero}
        /\ my[g].start = Begun => my[g].got[k] = my[g].drawn[k]
    BY <1>4, <1>5, <2>1 DEF FlushAt
  <2>3. new[k] \in {my[g].got[k], Zero}
    BY <1>6, <2>1
  <2>4. my[g].start = Begun => new[k] = my[g].got[k]
    BY <1>6, <1>7, <2>1
  <2> QED BY <2>2, <2>3, <2>4
<1>9. Begun' = Begun /\ \A h \in Goroutines \ {g} : Stays(h)
  BY <1>0, BuffersStay
<1>10. FlushAt(g, "flush", r, alive', doomed', Begun)
  <2>1. my[g].start <= Begun /\ Holds(g, "f", alive', doomed')
    BY <1>0, <1>4, <1>5 DEF FlushAt, Holds, NewBuffer
  <2> HIDE DEF Holds
  <2> QED BY <1>3, <1>5, <1>8, <2>1 DEF FlushAt
<1> QED BY <1>0, <1>2, <1>9, <1>10, FlushStep DEF Goto

LEMMA FlushCopyFlush == ASSUME IInv, FlushInv, NEW g \in Goroutines, FlushCopy(g) PROVE FlushInv'
<1> DEFINE read == my[g].read
           part == SubSeq(my[g].got, 1, read)
<1>0. /\ pc[g] = "final" /\ my[g] \in Locals
      /\ read \in Nat /\ Len(my[g].got) \in Nat /\ Cap(g) \in Nat
      /\ my[g].got \in Seq(Byte) /\ my[g].drawn \in Seq(Byte)
  BY Types, FlushTypes DEF FlushCopy, IInv
<1>1. CASE Panic(g)
  BY <1>1, PanicEnds
<1>2. ASSUME my[g].read <= Cap(g), Goto(g, "done"), UNCHANGED <<session, alive, doomed>>,
             NEW wiped \in Wiped(g, "f"),
             my' = [my EXCEPT ![g].out = IF Alive(g, "d")
                                           THEN Zeroed(SubSeq(my[g].got, 1, my[g].read), wiped)
                                           ELSE <<>>]
      PROVE  FlushInv'
  <2> DEFINE z == Zeroed(part, wiped)
             out == IF Alive(g, "d") THEN z ELSE <<>>
             r == [my[g] EXCEPT !.out = out]
  <2>1. my' = [my EXCEPT ![g] = r]
    BY <1>2
  <2> HIDE DEF z
  <2>2. /\ r.flush = my[g].flush /\ r.got = my[g].got /\ r.read = read /\ r.drawn = my[g].drawn
        /\ r.start = my[g].start /\ (Alive(g, "d") => r.out = z)
    BY <1>0 DEF Locals
  <2> HIDE DEF r
  <2>3. FlushAt(g, "final", my[g], alive, doomed, Begun)
    BY <1>0 DEF FlushInv
  <2>4. my[g].flush /\ Len(my[g].drawn) = read
    BY <1>0, <2>3 DEF FlushAt, FlushLabels
  <2>5. /\ part \in Seq(Byte) /\ Len(part) = read
        /\ \A k \in 1..read : part[k] = my[g].got[k] /\ k <= Len(my[g].got)
    <3>1. read <= Len(my[g].got)
      <4>1. Cap(g) <= Len(my[g].got)
        BY GrownIs
      <4> QED BY <1>0, <1>2, <4>1
    <3>2. part \in Seq(Byte) /\ Len(part) = read
      BY <1>0, <3>1, Cut
    <3>3. \A k \in 1..((read - 1) + 1) : part[k] = my[g].got[1 + k - 1]
      BY <1>0, <3>1, Part
    <3> HIDE DEF part, read
    <3>4. ASSUME NEW k \in 1..read PROVE part[k] = my[g].got[k] /\ k <= Len(my[g].got)
      <4>1. k \in 1..((read - 1) + 1) /\ 1 + k - 1 = k /\ k <= Len(my[g].got)
        BY <1>0, <3>1
      <4> QED BY <3>3, <4>1
    <3> QED BY <3>2, <3>4
  <2> HIDE DEF part
  <2>6. /\ z \in Seq(Byte) /\ Len(z) = read /\ \A k \in 1..read : z[k] \in {part[k], Zero}
        /\ ~wiped => z = part
    <3>1. wiped \in BOOLEAN
      BY WipedIs
    <3> QED BY <2>5, <3>1, ZeroedIs DEF z
  <2>7. \A k \in 1..read : z[k] \in {my[g].drawn[k], Zero}
    BY <2>3, <2>4, <2>5, <2>6 DEF FlushAt
  <2>8. my[g].start = Begun => z = my[g].drawn /\ Alive(g, "d")
    <3> SUFFICES ASSUME my[g].start = Begun PROVE z = my[g].drawn /\ Alive(g, "d")
      OBVIOUS
    <3>1. /\ Alive(g, "f") /\ <<g, "f">> \notin doomed /\ Alive(g, "d")
          /\ \A k \in 1..read : k <= Len(my[g].got) => my[g].got[k] = my[g].drawn[k]
      BY <2>3, <2>4 DEF FlushAt, Holds, Alive
    <3>2. wiped = FALSE
      BY <3>1, WipedIs
    <3>3. \A k \in 1..read : part[k] = my[g].drawn[k]
      BY <2>5, <3>1
    <3>4. part = my[g].drawn
      BY <1>0, <2>4, <2>5, <3>3, SeqEqual
    <3> QED BY <2>6, <3>1, <3>2, <3>4
  <2>9. Begun' = Begun /\ \A h \in Goroutines \ {g} : Stays(h)
    BY <1>2, BuffersStay
  <2>10. FlushAt(g, "done", r, alive', doomed', Begun)
    <3>1. /\ my[g].start <= Begun
          /\ \A k \in 1..read : k <= Len(my[g].got) => my[g].got[k] \in {my[g].drawn[k], Zero}
          /\ my[g].start = Begun =>
               /\ Holds(g, "f", alive', doomed') /\ Holds(g, "d", alive', doomed')
               /\ \A k \in 1..read : k <= Len(my[g].got) => my[g].got[k] = my[g].drawn[k]
      BY <1>2, <2>3, <2>4 DEF FlushAt, Holds
    <3>2. <<g, "d">> \in alive' =>
            Len(r.out) = Len(r.drawn) /\ \A k \in 1..Len(r.out) : r.out[k] \in {r.drawn[k], Zero}
      BY <1>2, <2>2, <2>4, <2>6, <2>7 DEF Alive
    <3>3. r.start = Begun => r.out = r.drawn
      BY <2>2, <2>8
    <3>4. Len(r.drawn) = r.read + 0
      BY <1>0, <2>2, <2>4
    <3> HIDE DEF Holds, read
    <3> QED BY <2>2, <2>4, <3>1, <3>2, <3>3, <3>4 DEF FlushAt
  <2> QED BY <1>2, <2>1, <2>9, <2>10, FlushStep DEF Goto
<1> QED BY <1>1, <1>2 DEF FlushCopy

LEMMA FlushReturnFlush == ASSUME IInv, FlushInv, NEW g \in Goroutines, FlushReturn(g) PROVE FlushInv'
<1>1. {<<g, v>> : v \in {"f", "d"}} = {<<g, "f">>, <<g, "d">>}
  OBVIOUS
<1> QED BY <1>1, EndStep DEF FlushReturn

LEMMA PurgeFlush == ASSUME IInv, FlushInv, PurgeBegin \/ PurgeStep PROVE FlushInv'
<1>0. /\ epoch \in Nat /\ Begun \in Nat /\ pc' = pc /\ my' = my /\ my \in [Goroutines -> Locals]
      /\ purging \in BOOLEAN
  <2>1. epoch \in Nat /\ purging \in BOOLEAN
    BY StreamAssumption DEF IInv, TypeInv, TypeOK
  <2>2. Begun \in Nat
    BY <2>1 DEF Begun
  <2> QED BY <2>1, <2>2, Types DEF IInv, PurgeBegin, PurgeStep, PurgeDestroy, PurgeEnd
<1>1. Begun' \in Nat /\ \A g \in Goroutines : Stays(g)
  <2>1. CASE PurgeBegin
    <3>1. Begun' = Begun + 1 /\ alive' = alive
      BY <1>0, <2>1 DEF PurgeBegin, Begun
    <3> QED BY <1>0, <3>1 DEF Stays
  <2>2. CASE PurgeDestroy
    <3>1. Begun' = Begun
      BY <2>2 DEF PurgeDestroy, Begun, session
    <3>2. PICK x \in doomed : alive' = alive \ {x} /\ doomed' = doomed \ {x}
      BY <2>2 DEF PurgeDestroy, Destroy
    <3> QED BY <1>0, <3>1, <3>2 DEF Stays, Holds
  <2>3. CASE PurgeEnd
    <3>1. Begun' = Begun /\ alive' = alive /\ doomed' = doomed
      BY <1>0, <2>3 DEF PurgeEnd, Begun
    <3> QED BY <1>0, <3>1 DEF Stays, Holds
  <2> QED BY <2>1, <2>2, <2>3 DEF PurgeStep
<1>2. ASSUME NEW g \in Goroutines PROVE FlushAt(g, pc'[g], my'[g], alive', doomed', Begun')
  <2>1. FlushAt(g, pc[g], my[g], alive, doomed, Begun) /\ Stays(g) /\ my[g] \in Locals
    BY <1>0, <1>1 DEF FlushInv
  <2> HIDE DEF FlushAt, Stays
  <2>2. FlushAt(g, pc[g], my[g], alive', doomed', Begun')
    BY <1>0, <1>1, <2>1, FlushStays
  <2> QED BY <1>0, <2>2
<1> QED BY <1>2 DEF FlushInv, FlushAt, Holds

LEMMA StutterFlush == ASSUME FlushInv, UNCHANGED vars PROVE FlushInv'
<1>1. UNCHANGED <<epoch, purging, alive, doomed, pc, my>>
  BY DEF vars
<1>2. Begun' = Begun
  BY <1>1 DEF Begun
<1>3. \A g \in Goroutines : FlushAt(g, pc'[g], my'[g], alive', doomed', Begun')
  BY <1>1, <1>2 DEF FlushInv
<1> QED BY <1>3 DEF FlushInv, FlushAt, Holds

LEMMA NextFlush == ASSUME IInv, FlushInv, [Next]_vars PROVE FlushInv'
<1>1. ASSUME NEW g \in Goroutines, Call(g) \/ Step(g) PROVE FlushInv'
  <2>1. CASE Write(g) \/ WriteJoin(g) \/ WriteReturn(g) \/ CallRead(g) \/ NextChunk(g) \/ Size(g)
    BY <2>1, CallsFlush
  <2>2. CASE ReadNext(g) \/ ReadCheck(g) \/ ReadLeftover(g) \/ ReadFill(g) \/ ReadReseal(g)
    BY <2>2, ReadsFlush
  <2>3. CASE CallFlush(g) \/ FlushRead(g) \/ Flushed(g)
    BY <2>3, CallFlushFlush, FlushReadFlush, FlushedFlush
  <2>4. CASE FlushGrow(g) \/ FlushCopy(g) \/ FlushReturn(g)
    BY <2>4, FlushGrowFlush, FlushCopyFlush, FlushReturnFlush
  <2> QED BY <1>1, <2>1, <2>2, <2>3, <2>4 DEF Call, Step
<1> QED BY <1>1, PurgeFlush, StutterFlush DEF Next

(* Whoever reads the stream besides and whoever purges the session, Flush   *)
(* returns the bytes that its Reads gave it, all of them and each at its    *)
(* place: exactly those if no session has begun since, and else wiped at    *)
(* worst (stream.go:152, buffer.go:183-203).                                *)
THEOREM FlushReturns == Spec => []FlushReturnsData
<1>1. Init => FlushInv
  BY NothingTypes DEF Init, FlushInv, FlushAt, FlushLabels
<1>2. IInv /\ FlushInv /\ [Next]_vars => FlushInv'
  BY NextFlush
<1>3. IInv /\ FlushInv => FlushReturnsData
  <2> SUFFICES ASSUME IInv, FlushInv, NEW g \in Goroutines, pc[g] = "done"
               PROVE  /\ my[g].start = Begun => Alive(g, "d") /\ my[g].out = my[g].drawn
                      /\ Alive(g, "d") =>
                           /\ Len(my[g].out) = Len(my[g].drawn)
                           /\ \A k \in DOMAIN my[g].out : my[g].out[k] \in {my[g].drawn[k], Zero}
    BY DEF FlushReturnsData
  <2>1. DOMAIN my[g].out = 1..Len(my[g].out)
    BY FlushTypes, LenProperties DEF IInv
  <2>2. FlushAt(g, "done", my[g], alive, doomed, Begun)
    BY DEF FlushInv
  <2> QED BY <2>1, <2>2 DEF FlushAt, FlushLabels, Holds, Alive
<1> QED BY <1>1, <1>2, <1>3, Invariance, PTL DEF Spec
=============================================================================
