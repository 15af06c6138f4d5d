---------------------------- MODULE FlattenFacts ----------------------------
(***************************************************************************)
(* What FlattenSeq computes, for sequences of any length.                  *)
(*                                                                         *)
(* FlattenSeq is defined by recursion over a sequence.  Induction over the *)
(* natural numbers is stated here for a set of them, not for a predicate:  *)
(* a set of numbers that does not hold all of them has a least one that is *)
(* missing, as < is well-founded.                                          *)
(***************************************************************************)
EXTENDS SequencesExt, SequenceTheorems, WellFoundedInduction, TLAPS

(* A set of natural numbers that is not empty has a least element.         *)
LEMMA LeastNumber ==
  ASSUME NEW T \in SUBSET Nat, T # {}
  PROVE  \E m \in T : \A k \in T : m <= k
<1> DEFINE R == OpToRel(<, Nat)
<1>1. \A a, b \in Nat : <<a, b>> \in R <=> a < b
  BY DEF OpToRel
<1>2. IsWellFoundedOn(R, Nat)
  BY NatLessThanWellFounded
<1> HIDE DEF R
<1>3. PICK m \in T : \A k \in T : ~ (<<k, m>> \in R)
  BY <1>2, WFMin
<1>4. m \in Nat /\ \A k \in T : k \in Nat /\ ~ (k < m)
  BY <1>1, <1>3
<1> QED
  BY <1>3, <1>4

(* Induction, for the set of the numbers of which something holds.         *)
LEMMA SetInduction ==
  ASSUME NEW I \in SUBSET Nat, 0 \in I, \A n \in I : n + 1 \in I
  PROVE  I = Nat
<1> SUFFICES ASSUME Nat \ I # {} PROVE FALSE
  OBVIOUS
<1>1. PICK m \in Nat \ I : \A k \in Nat \ I : m <= k
  BY LeastNumber
<1>2. m - 1 \in Nat /\ m - 1 \notin Nat \ I
  BY <1>1
<1> QED
  BY <1>1, <1>2
-----------------------------------------------------------------------------
(* f is the function that FlattenSeq(s) defines, or would define.          *)
Flattens(s, f) ==
  f = [i \in 1 .. Len(s) |-> IF i = 1 THEN s[i] ELSE f[i - 1] \o s[i]]

(* How one gets such a function for a sequence that is one longer.         *)
Longer(s, e, f) ==
  [i \in 1 .. Len(s) + 1 |->
     IF i <= Len(s) THEN f[i] ELSE IF i = 1 THEN e ELSE f[i - 1] \o e]

LEMMA LongerFlattens ==
  ASSUME NEW S, NEW s \in Seq(S), NEW e \in S, NEW f, Flattens(s, f)
  PROVE  Flattens(Append(s, e), Longer(s, e, f))
<1> DEFINE t == Append(s, e)
           n == Len(s)
           g == Longer(s, e, f)
<1>1. /\ n \in Nat /\ Len(t) = n + 1 /\ t[n + 1] = e
      /\ \A i \in 1 .. n : t[i] = s[i]
  BY AppendProperties, LenProperties
<1>2. g = [i \in 1 .. n + 1 |->
             IF i <= n THEN f[i] ELSE IF i = 1 THEN e ELSE f[i - 1] \o e]
  BY DEF Longer
<1>3. \A i \in 1 .. n : f[i] = IF i = 1 THEN s[i] ELSE f[i - 1] \o s[i]
  BY <1>1 DEF Flattens
<1> HIDE DEF t, n, g
<1>4. ASSUME NEW i \in 1 .. n + 1
      PROVE  g[i] = IF i = 1 THEN t[i] ELSE g[i - 1] \o t[i]
  <2>1. CASE i <= n
    <3>1. g[i] = f[i] /\ t[i] = s[i] /\ (i # 1 => g[i - 1] = f[i - 1])
      BY <1>1, <1>2, <2>1
    <3> QED
      BY <1>1, <1>3, <2>1, <3>1
  <2>2. CASE i = n + 1
    <3>1. t[i] = e /\ g[i] = IF i = 1 THEN e ELSE f[i - 1] \o e
      BY <1>1, <1>2, <2>2
    <3>2. i # 1 => g[i - 1] = f[i - 1]
      BY <1>1, <1>2, <2>2
    <3> QED
      BY <3>1, <3>2
  <2> QED
    BY <1>1, <2>1, <2>2
<1>5. g = [i \in 1 .. n + 1 |-> g[i]]
  BY <1>2
<1>6. g = [i \in 1 .. n + 1 |-> IF i = 1 THEN t[i] ELSE g[i - 1] \o t[i]]
  BY <1>4, <1>5
<1> QED
  BY <1>1, <1>6 DEF Flattens, t, g

(* There is such a function, ...                                           *)
LEMMA FlattensExists ==
  ASSUME NEW S, NEW s \in Seq(S)
  PROVE  \E f : Flattens(s, f)
<1> DEFINE I == {n \in Nat : \A t \in Seq(S) :
                                Len(t) = n => \E f : Flattens(t, f)}
<1>1. 0 \in I
  <2> SUFFICES ASSUME NEW t \in Seq(S), Len(t) = 0
               PROVE  \E f : Flattens(t, f)
    OBVIOUS
  <2> WITNESS [i \in 1 .. 0 |-> t[i]]
  <2> QED
    BY DEF Flattens
<1>2. ASSUME NEW n \in I PROVE n + 1 \in I
  <2> SUFFICES ASSUME NEW t \in Seq(S), Len(t) = n + 1
               PROVE  \E f : Flattens(t, f)
    OBVIOUS
  <2>1. t # <<>>
    BY EmptySeq
  <2>2. PICK u \in Seq(S), e \in S : t = Append(u, e)
    BY <2>1, SequenceEmptyOrAppend
  <2>3. Len(u) = n
    BY <2>2, AppendProperties, LenProperties
  <2>4. PICK f : Flattens(u, f)
    BY <2>3
  <2> QED
    BY <2>2, <2>4, LongerFlattens
<1> HIDE DEF I
<1>3. I = Nat
  BY <1>1, <1>2, SetInduction DEF I
<1> QED
  BY <1>3, LenProperties DEF I

(* ... and it is the only one.                                             *)
LEMMA FlattensUnique ==
  ASSUME NEW S, NEW s \in Seq(S), NEW f, Flattens(s, f),
         NEW g, Flattens(s, g)
  PROVE  f = g
<1> DEFINE I == {n \in Nat : n + 1 \in 1 .. Len(s) => f[n + 1] = g[n + 1]}
<1>1. Len(s) \in Nat
  BY LenProperties
<1>2. \A i \in 1 .. Len(s) :
        /\ f[i] = IF i = 1 THEN s[i] ELSE f[i - 1] \o s[i]
        /\ g[i] = IF i = 1 THEN s[i] ELSE g[i - 1] \o s[i]
  BY DEF Flattens
<1>3. 0 \in I
  BY <1>2
<1>4. ASSUME NEW n \in I PROVE n + 1 \in I
  <2> SUFFICES ASSUME n + 2 \in 1 .. Len(s) PROVE f[n + 2] = g[n + 2]
    OBVIOUS
  <2>1. f[n + 1] = g[n + 1]
    BY <1>1
  <2>2. /\ f[n + 2] = f[n + 1] \o s[n + 2]
        /\ g[n + 2] = g[n + 1] \o s[n + 2]
    <3>1. n + 2 # 1 /\ (n + 2) - 1 = n + 1
      OBVIOUS
    <3> QED
      BY <1>2, <3>1
  <2> QED
    BY <2>1, <2>2
<1> HIDE DEF I
<1>5. I = Nat
  BY <1>3, <1>4, SetInduction DEF I
<1>6. ASSUME NEW i \in 1 .. Len(s) PROVE f[i] = g[i]
  <2>1. i - 1 \in I /\ (i - 1) + 1 = i
    BY <1>1, <1>5
  <2> QED
    BY <2>1 DEF I
<1>7. f = [i \in 1 .. Len(s) |-> f[i]] /\ g = [i \in 1 .. Len(s) |-> g[i]]
  BY DEF Flattens
<1> QED
  BY <1>6, <1>7

(* So FlattenSeq is its last value.                                        *)
LEMMA FlattenIs ==
  ASSUME NEW S, NEW s \in Seq(S), s # <<>>, NEW f, Flattens(s, f)
  PROVE  FlattenSeq(s) = f[Len(s)]
<1> DEFINE h == CHOOSE h : h = [i \in 1 .. Len(s) |->
                                  IF i = 1 THEN s[i] ELSE h[i - 1] \o s[i]]
<1>1. Flattens(s, h)
  BY DEF Flattens
<1>2. FlattenSeq(s) = h[Len(s)]
  <2>1. Len(s) # 0
    BY EmptySeq
  <2> QED
    BY <2>1 DEF FlattenSeq
<1> QED
  BY <1>1, <1>2, FlattensUnique
-----------------------------------------------------------------------------
LEMMA FlattenEmpty == FlattenSeq(<<>>) = <<>>
BY DEF FlattenSeq

(* The flattened sequence of a sequence with one more element.             *)
LEMMA FlattenAppend ==
  ASSUME NEW T, NEW s \in Seq(Seq(T)), NEW e \in Seq(T)
  PROVE  FlattenSeq(Append(s, e)) = FlattenSeq(s) \o e
<1> DEFINE t == Append(s, e)
<1>1. PICK f : Flattens(s, f)
  BY FlattensExists
<1>2. /\ t \in Seq(Seq(T)) /\ t # <<>> /\ Len(t) = Len(s) + 1
      /\ Len(s) \in Nat
  BY AppendProperties, LenProperties
<1>3. FlattenSeq(t) = Longer(s, e, f)[Len(s) + 1]
  BY <1>1, <1>2, LongerFlattens, FlattenIs
<1>4. CASE s = <<>>
  <2>1. FlattenSeq(t) = e
    BY <1>2, <1>3, <1>4 DEF Longer
  <2> QED
    BY <1>4, <2>1, FlattenEmpty, ConcatEmptySeq
<1>5. CASE s # <<>>
  <2>1. Len(s) # 0
    BY <1>5, EmptySeq
  <2>2. FlattenSeq(s) = f[Len(s)]
    BY <1>1, <1>5, FlattenIs
  <2>3. FlattenSeq(t) = f[Len(s)] \o e
    BY <1>2, <1>3, <2>1, SMTT(30) DEF Longer
  <2> QED
    BY <2>2, <2>3
<1> QED
  BY <1>4, <1>5

(* Its type.                                                               *)
LEMMA FlattenType ==
  ASSUME NEW T, NEW s \in Seq(Seq(T))
  PROVE  FlattenSeq(s) \in Seq(T)
<1> DEFINE I == {n \in Nat : \A t \in Seq(Seq(T)) :
                                Len(t) = n => FlattenSeq(t) \in Seq(T)}
<1>1. 0 \in I
  BY EmptySeq, FlattenEmpty
<1>2. ASSUME NEW n \in I PROVE n + 1 \in I
  <2> SUFFICES ASSUME NEW t \in Seq(Seq(T)), Len(t) = n + 1
               PROVE  FlattenSeq(t) \in Seq(T)
    OBVIOUS
  <2>1. PICK u \in Seq(Seq(T)), e \in Seq(T) : t = Append(u, e)
    <3>1. t # <<>>
      BY EmptySeq
    <3> QED
      BY <3>1, SequenceEmptyOrAppend
  <2>2. Len(u) = n
    BY <2>1, AppendProperties, LenProperties
  <2>3. FlattenSeq(t) = FlattenSeq(u) \o e
    BY <2>1, FlattenAppend
  <2> QED
    BY <2>2, <2>3, ConcatProperties
<1> HIDE DEF I
<1>3. I = Nat
  BY <1>1, <1>2, SetInduction DEF I
<1> QED
  BY <1>3, LenProperties DEF I

(* The flattened sequence of two, one behind the other: the induction's    *)
(* step and the induction.                                                 *)
LEMMA FlattenConcatStep ==
  ASSUME NEW T, NEW s \in Seq(Seq(T)), NEW v \in Seq(Seq(T)), NEW e \in Seq(T),
         FlattenSeq(s \o v) = FlattenSeq(s) \o FlattenSeq(v)
  PROVE  FlattenSeq(s \o Append(v, e)) =
           FlattenSeq(s) \o FlattenSeq(Append(v, e))
<1>1. s \o Append(v, e) = Append(s \o v, e) /\ s \o v \in Seq(Seq(T))
  <2>1. /\ <<e>> \in Seq(Seq(T)) /\ s \o v \in Seq(Seq(T))
        /\ Append(v, e) = v \o <<e>>
    BY AppendIsConcat, ConcatProperties
  <2>2. s \o (v \o <<e>>) = (s \o v) \o <<e>>
    BY <2>1, ConcatAssociative, SMTT(30)
  <2> QED
    BY <2>1, <2>2, AppendIsConcat
<1>2. FlattenSeq(s \o Append(v, e)) = FlattenSeq(s \o v) \o e
  BY <1>1, FlattenAppend
<1>3. FlattenSeq(Append(v, e)) = FlattenSeq(v) \o e
  BY FlattenAppend
<1>4. FlattenSeq(s) \in Seq(T) /\ FlattenSeq(v) \in Seq(T)
  BY FlattenType
<1>5. (FlattenSeq(s) \o FlattenSeq(v)) \o e =
        FlattenSeq(s) \o (FlattenSeq(v) \o e)
  BY <1>4, ConcatAssociative, SMTT(30)
<1> QED
  BY <1>2, <1>3, <1>5

LEMMA FlattenConcat ==
  ASSUME NEW T, NEW s \in Seq(Seq(T)), NEW t \in Seq(Seq(T))
  PROVE  FlattenSeq(s \o t) = FlattenSeq(s) \o FlattenSeq(t)
<1> DEFINE I == {n \in Nat : \A u \in Seq(Seq(T)) : Len(u) = n =>
                   FlattenSeq(s \o u) = FlattenSeq(s) \o FlattenSeq(u)}
<1>1. 0 \in I
  <2> SUFFICES ASSUME NEW u \in Seq(Seq(T)), Len(u) = 0
               PROVE  FlattenSeq(s \o u) = FlattenSeq(s) \o FlattenSeq(u)
    OBVIOUS
  <2>1. u = <<>>
    BY EmptySeq
  <2> QED
    BY <2>1, FlattenEmpty, FlattenType, ConcatEmptySeq
<1>2. ASSUME NEW n \in I PROVE n + 1 \in I
  <2> SUFFICES ASSUME NEW u \in Seq(Seq(T)), Len(u) = n + 1
               PROVE  FlattenSeq(s \o u) = FlattenSeq(s) \o FlattenSeq(u)
    OBVIOUS
  <2>1. \E v \in Seq(Seq(T)), e \in Seq(T) : u = Append(v, e)
    <3>1. u # <<>>
      BY EmptySeq
    <3> QED
      BY <3>1, SequenceEmptyOrAppend
  <2>2. ASSUME NEW v \in Seq(Seq(T)), NEW e \in Seq(T), u = Append(v, e)
        PROVE  FlattenSeq(s \o u) = FlattenSeq(s) \o FlattenSeq(u)
    <3>1. Len(v) = n
      BY <2>2, AppendProperties, LenProperties
    <3>2. FlattenSeq(s \o v) = FlattenSeq(s) \o FlattenSeq(v)
      BY <3>1
    <3> HIDE DEF I
    <3> QED
      BY ONLY <2>2, <3>2, FlattenConcatStep, s \in Seq(Seq(T)),
              v \in Seq(Seq(T)), e \in Seq(T)
  <2> QED
    BY <2>1, <2>2
<1> HIDE DEF I
<1>3. I = Nat
  BY <1>1, <1>2, SetInduction DEF I
<1> QED
  BY <1>3, LenProperties DEF I
=============================================================================
