------------------------- MODULE HttpSessionProofs -------------------------
(***************************************************************************)
(* Proofs about HttpSession, for any scenarios: that its stages, errors,   *)
(* method and lines agree (Agreement), that whole requests are parsed and  *)
(* answered in turn (InTurn), and the properties that follow.              *)
(*                                                                         *)
(* First come the facts about sequences that the handlers need (parts of   *)
(* one, the lines with two blanks in one), the layout of Stream, eight     *)
(* tokens to a request, and what the operators of the handlers return;     *)
(* then one lemma per action for Agreement and one for Turns, and for Calm *)
(* if nothing disturbs the session; then what the replies so far are of    *)
(* what is owed, and the theorems.                                         *)
(***************************************************************************)
EXTENDS HttpSession, FlattenFacts, FiniteSetTheorems

(* A part of a sequence.                                                   *)
LEMMA PartOf ==
  ASSUME NEW S, NEW s \in Seq(S), NEW m \in Nat, NEW n \in 0 .. Len(s)
  PROVE  /\ SubSeq(s, m + 1, n) \in Seq(S)
         /\ Len(SubSeq(s, m + 1, n)) = IF m <= n THEN n - m ELSE 0
         /\ \A i \in 1 .. n - m : SubSeq(s, m + 1, n)[i] = s[m + i]
<1>1. Len(s) \in Nat /\ \A i \in m + 1 .. n : s[i] \in S
  BY ElementOfSeq, LenProperties
<1>2. /\ SubSeq(s, m + 1, n) \in Seq(S)
      /\ Len(SubSeq(s, m + 1, n)) = IF m + 1 <= n THEN n - (m + 1) + 1 ELSE 0
      /\ \A i \in 1 .. n - (m + 1) + 1 :
           SubSeq(s, m + 1, n)[i] = s[m + 1 + i - 1]
  BY <1>1, SubSeqProperties
<1> QED
  BY <1>1, <1>2

(* What one gets by dropping the first k elements of a part.               *)
LEMMA PartOfPart ==
  ASSUME NEW S, NEW s \in Seq(S), NEW m \in Nat, NEW n \in 0 .. Len(s),
         NEW k \in Nat, m + k <= n
  PROVE  LET t == SubSeq(s, m + 1, n)
         IN  SubSeq(t, k + 1, Len(t)) = SubSeq(s, m + k + 1, n)
<1> DEFINE t == SubSeq(s, m + 1, n)
           u == SubSeq(t, k + 1, Len(t))
           v == SubSeq(s, m + k + 1, n)
<1>1. Len(s) \in Nat /\ m <= n /\ m + k \in Nat
  BY LenProperties
<1>2. /\ t \in Seq(S) /\ Len(t) = n - m
      /\ \A i \in 1 .. n - m : t[i] = s[m + i]
  BY <1>1, PartOf
<1> HIDE DEF t
<1>3. /\ u \in Seq(S) /\ Len(u) = n - m - k
      /\ \A i \in 1 .. n - m - k : u[i] = t[k + i]
  BY <1>1, <1>2, PartOf
<1>4. /\ v \in Seq(S) /\ Len(v) = n - (m + k)
      /\ \A i \in 1 .. n - (m + k) : v[i] = s[m + k + i]
  BY <1>1, PartOf
<1> HIDE DEF u, v
<1>5. ASSUME NEW i \in 1 .. Len(u) PROVE u[i] = v[i]
  <2>1. u[i] = t[k + i] /\ v[i] = s[m + k + i]
    BY <1>1, <1>3, <1>4
  <2>2. k + i \in 1 .. n - m
    BY <1>1, <1>3
  <2> QED
    BY <1>1, <1>2, <2>1, <2>2, SMTT(30)
<1>6. u = v
  BY <1>1, <1>3, <1>4, <1>5, SeqEqual
<1> QED
  BY <1>6 DEF t, u, v

(* What comes after the first k tokens of a sequence holds no more lines   *)
(* with two blanks than the whole, and less if one is among the first.     *)
LinesIn(s) == {i \in DOMAIN s : s[i] \in TwoBlanks}

LEMMA LinesType ==
  ASSUME NEW S, NEW s \in Seq(S)
  PROVE  IsFiniteSet(LinesIn(s)) /\ Lines(s) = Cardinality(LinesIn(s))
         /\ Lines(s) \in Nat
<1>1. LinesIn(s) \in SUBSET (1 .. Len(s)) /\ Len(s) \in Nat
  BY LenProperties DEF LinesIn
<1>2. IsFiniteSet(1 .. Len(s))
  BY <1>1, FS_Interval
<1>3. IsFiniteSet(LinesIn(s))
  BY <1>1, <1>2, FS_Subset
<1> QED
  BY <1>3, FS_CardinalityType DEF Lines, LinesIn

LEMMA LinesAfter ==
  ASSUME NEW S, NEW s \in Seq(S), NEW k \in Nat
  PROVE  LET t == SubSeq(s, k + 1, Len(s))
         IN  /\ Lines(t) <= Lines(s)
             /\ \A j \in 1 .. k :
                  j \in LinesIn(s) => Lines(t) + 1 <= Lines(s)
<1> DEFINE t == SubSeq(s, k + 1, Len(s))
           f == [i \in LinesIn(t) |-> i + k]
<1>1. /\ Len(s) \in Nat /\ DOMAIN s = 1 .. Len(s)
  BY LenProperties
<1>2. /\ t \in Seq(S) /\ Len(t) = IF k <= Len(s) THEN Len(s) - k ELSE 0
      /\ \A i \in 1 .. Len(s) - k : t[i] = s[k + i]
  BY <1>1, PartOf
<1>3. DOMAIN t = 1 .. Len(t)
  BY <1>2, LenProperties
<1> HIDE DEF t
<1>4. ASSUME NEW i \in LinesIn(t)
      PROVE  i \in Nat /\ i > 0 /\ i + k \in LinesIn(s)
  <2>1. i \in 1 .. Len(t) /\ t[i] \in TwoBlanks
    BY <1>3 DEF LinesIn
  <2>2. i \in Nat /\ i > 0 /\ i <= Len(t) /\ Len(t) # 0
    BY <1>2, <2>1, LenProperties
  <2>3. k <= Len(s) /\ i <= Len(s) - k
    <3>1. k <= Len(s) /\ Len(t) = Len(s) - k
      BY <1>2, <2>2
    <3> QED
      BY <2>2, <3>1, Zenon
  <2>4. i \in 1 .. Len(s) - k /\ i + k \in 1 .. Len(s)
    BY <1>1, <2>2, <2>3
  <2>5. t[i] = s[k + i]
    BY <1>2, <2>4, Zenon
  <2>6. i + k \in DOMAIN s /\ s[i + k] \in TwoBlanks
    BY <1>1, <2>1, <2>2, <2>4, <2>5
  <2> QED
    BY <2>2, <2>6 DEF LinesIn
<1>5. /\ IsFiniteSet(LinesIn(s)) /\ Lines(s) = Cardinality(LinesIn(s))
      /\ IsFiniteSet(LinesIn(t)) /\ Lines(t) = Cardinality(LinesIn(t))
      /\ Lines(s) \in Nat /\ Lines(t) \in Nat
  BY <1>2, LinesType
<1>6. f \in Injection(LinesIn(t), LinesIn(s))
  BY <1>4 DEF Injection, IsInjective
<1>7. Lines(t) <= Lines(s)
  BY <1>5, <1>6, FS_Injection
<1>8. ASSUME NEW j \in 1 .. k, j \in LinesIn(s) PROVE Lines(t) + 1 <= Lines(s)
  <2> DEFINE R == LinesIn(s) \ {j}
  <2>1. IsFiniteSet(R) /\ Cardinality(R) = Lines(s) - 1
    BY <1>5, <1>8, FS_RemoveElement
  <2>2. f \in Injection(LinesIn(t), R)
    BY <1>4 DEF Injection, IsInjective
  <2>3. Lines(t) <= Cardinality(R)
    BY <1>5, <2>1, <2>2, FS_Injection
  <2> QED
    BY <1>5, <2>1, <2>3
<1> QED
  BY <1>7, <1>8 DEF t

LEMMA LinesConcat ==
  ASSUME NEW S, NEW s \in Seq(S), NEW t \in Seq(S)
  PROVE  Lines(s \o t) = Lines(s) + Lines(t)
<1> DEFINE u == s \o t
           n == Len(s)
           T == {i + n : i \in LinesIn(t)}
           f == [i \in LinesIn(t) |-> i + n]
<1>1. /\ n \in Nat /\ DOMAIN s = 1 .. n
      /\ Len(t) \in Nat /\ DOMAIN t = 1 .. Len(t)
  BY LenProperties
<1>2. /\ u \in Seq(S) /\ Len(u) = n + Len(t)
      /\ \A i \in 1 .. n + Len(t) : u[i] = IF i <= n THEN s[i] ELSE t[i - n]
  BY ConcatProperties
<1>3. DOMAIN u = 1 .. n + Len(t)
  BY <1>2, LenProperties
<1>4. /\ IsFiniteSet(LinesIn(s)) /\ Lines(s) = Cardinality(LinesIn(s))
      /\ IsFiniteSet(LinesIn(t)) /\ Lines(t) = Cardinality(LinesIn(t))
      /\ Lines(u) = Cardinality(LinesIn(u))
      /\ Lines(s) \in Nat /\ Lines(t) \in Nat
  BY <1>2, LinesType
<1> HIDE DEF u, n
<1>5. \A i \in LinesIn(t) : i \in 1 .. Len(t) /\ t[i] \in TwoBlanks
  BY <1>1 DEF LinesIn
<1>6. f \in Bijection(LinesIn(t), T)
  BY <1>1, <1>5 DEF Bijection, Injection, IsInjective, Surjection
<1>7. IsFiniteSet(T) /\ Cardinality(T) = Lines(t)
  BY <1>4, <1>6, FS_Bijection DEF ExistsBijection
<1>8. LinesIn(u) = LinesIn(s) \cup T
  <2>1. ASSUME NEW i \in LinesIn(u) PROVE i \in LinesIn(s) \cup T
    <3>1. i \in 1 .. n + Len(t) /\ u[i] \in TwoBlanks
      BY <1>3 DEF LinesIn
    <3>2. CASE i <= n
      BY <1>1, <1>2, <3>1, <3>2 DEF LinesIn
    <3>3. CASE i > n
      <4>1. i - n \in 1 .. Len(t) /\ t[i - n] \in TwoBlanks
        BY <1>1, <1>2, <3>1, <3>3
      <4>2. i - n \in LinesIn(t) /\ i = (i - n) + n
        BY <1>1, <3>1, <4>1 DEF LinesIn
      <4> QED
        BY <4>2
    <3> QED
      BY <1>1, <3>1, <3>2, <3>3
  <2>2. LinesIn(s) \subseteq LinesIn(u)
    BY <1>1, <1>2, <1>3 DEF LinesIn
  <2>3. ASSUME NEW i \in LinesIn(t) PROVE i + n \in LinesIn(u)
    <3>1. i + n \in 1 .. n + Len(t) /\ u[i + n] = t[(i + n) - n]
      BY <1>1, <1>2, <1>5
    <3>2. (i + n) - n = i
      BY <1>1, <1>5
    <3> QED
      BY <1>3, <1>5, <3>1, <3>2 DEF LinesIn
  <2> QED
    BY <2>1, <2>2, <2>3
<1>9. LinesIn(s) \cap T = {}
  BY <1>1, <1>5 DEF LinesIn
<1>10. Cardinality(LinesIn(u)) = Lines(s) + Lines(t) - 0
  BY <1>4, <1>7, <1>8, <1>9, FS_Union, FS_EmptySet, SMTT(30)
<1> QED
  BY <1>4, <1>10 DEF u

LEMMA LinesPart ==
  ASSUME NEW S, NEW s \in Seq(S), NEW n \in 0 .. Len(s)
  PROVE  /\ Lines(SubSeq(s, 1, n)) \in Nat
         /\ Lines(SubSeq(s, 1, n)) <= Lines(s)
         /\ Lines(SubSeq(s, 1, n)) =
              Cardinality({i \in 1 .. n : s[i] \in TwoBlanks})
<1> DEFINE u == SubSeq(s, 1, n)
           v == SubSeq(s, n + 1, Len(s))
<1>1. Len(s) \in Nat /\ n \in Nat /\ 0 \in Nat /\ 0 + 1 = 1 /\ n - 0 = n
  BY LenProperties
<1>2. /\ u \in Seq(S) /\ Len(u) = n
      /\ \A i \in 1 .. n : u[i] = s[i]
  <2>1. /\ SubSeq(s, 0 + 1, n) \in Seq(S)
        /\ Len(SubSeq(s, 0 + 1, n)) = IF 0 <= n THEN n - 0 ELSE 0
        /\ \A i \in 1 .. n - 0 : SubSeq(s, 0 + 1, n)[i] = s[0 + i]
    BY <1>1, PartOf
  <2> QED
    BY <1>1, <2>1
<1>3. v \in Seq(S)
  BY <1>1, PartOf
<1>4. u \o v = s
  <2>1. /\ 1 \in 1 .. Len(s) + 1 /\ n \in 1 - 1 .. Len(s)
        /\ Len(s) \in n .. Len(s)
    BY <1>1
  <2>2. u \o v = SubSeq(s, 1, Len(s))
    BY <2>1, ConcatAdjacentSubSeq
  <2> QED
    BY <2>2, SubSeqFull
<1> HIDE DEF u, v
<1>5. /\ Lines(u) \in Nat /\ Lines(v) \in Nat
      /\ Lines(u) = Cardinality(LinesIn(u))
  BY <1>2, <1>3, LinesType
<1>6. Lines(s) = Lines(u) + Lines(v)
  BY <1>2, <1>3, <1>4, LinesConcat
<1>7. LinesIn(u) = {i \in 1 .. n : s[i] \in TwoBlanks}
  <2>1. DOMAIN u = 1 .. n
    BY <1>2, LenProperties
  <2> QED
    BY <1>2, <2>1 DEF LinesIn
<1>8. /\ Lines(u) \in Nat /\ Lines(u) <= Lines(s)
      /\ Lines(u) = Cardinality({i \in 1 .. n : s[i] \in TwoBlanks})
  <2>1. Lines(u) <= Lines(s)
    BY <1>5, <1>6
  <2> QED
    BY <1>5, <1>7, <2>1
<1> QED
  BY <1>8 DEF u
-----------------------------------------------------------------------------
(* What the peer sends: eight tokens to a request.                         *)
Blocks(n) == {t \in Seq(Seq(Tokens)) :
                Len(t) = n /\ \A i \in 1 .. n : Len(t[i]) = 8}

Laid(t, n) ==
  /\ FlattenSeq(t) \in Seq(Tokens) /\ Len(FlattenSeq(t)) = 8 * n
  /\ \A i \in 1 .. n, k \in 1 .. 8 :
       FlattenSeq(t)[8 * (i - 1) + k] = t[i][k]

LEMMA BlocksAre ==
  ASSUME NEW n \in Nat, NEW t \in Blocks(n)
  PROVE  /\ t \in Seq(Seq(Tokens)) /\ Len(t) = n
         /\ \A i \in 1 .. n : Len(t[i]) = 8
BY DEF Blocks

LEMMA FlattenBlocks ==
  ASSUME NEW n \in Nat, NEW s \in Blocks(n) PROVE Laid(s, n)
<1> DEFINE I == {m \in Nat : \A t \in Blocks(m) : Laid(t, m)}
<1>1. 0 \in I
  <2>1. ASSUME NEW t \in Blocks(0) PROVE Laid(t, 0)
    <3>1. t \in Seq(Seq(Tokens)) /\ Len(t) = 0
      BY BlocksAre
    <3>2. t = <<>>
      BY <3>1, EmptySeq
    <3>3. FlattenSeq(t) = <<>>
      BY <3>2, FlattenEmpty
    <3> QED
      BY <3>3 DEF Laid
  <2> QED
    BY <2>1
<1>2. ASSUME NEW m \in I PROVE m + 1 \in I
  <2> SUFFICES ASSUME NEW t \in Blocks(m + 1) PROVE Laid(t, m + 1)
    OBVIOUS
  <2>0. m \in Nat /\ \A u \in Blocks(m) : Laid(u, m)
    OBVIOUS
  <2> HIDE DEF I
  <2>9. /\ t \in Seq(Seq(Tokens)) /\ Len(t) = m + 1
        /\ \A i \in 1 .. m + 1 : Len(t[i]) = 8
    BY <2>0, BlocksAre
  <2>1. PICK u \in Seq(Seq(Tokens)), e \in Seq(Tokens) : t = Append(u, e)
    <3>1. t # <<>> /\ t \in Seq(Seq(Tokens))
      BY <2>0, <2>9, EmptySeq
    <3> QED
      BY <3>1, SequenceEmptyOrAppend
  <2>2. /\ Len(u) = m /\ \A i \in 1 .. m : t[i] = u[i]
        /\ t[m + 1] = e
    BY <2>0, <2>1, <2>9, AppendProperties, LenProperties
  <2>3. u \in Blocks(m) /\ Len(e) = 8
    <3>1. Len(e) = 8
      BY <2>0, <2>2, <2>9
    <3>2. \A i \in 1 .. m : Len(u[i]) = 8
      BY <2>0, <2>2, <2>9
    <3> QED
      BY <2>1, <2>2, <3>1, <3>2 DEF Blocks
  <2> DEFINE w == FlattenSeq(u)
  <2>4. /\ Len(w) = 8 * m
        /\ \A i \in 1 .. m, k \in 1 .. 8 : w[8 * (i - 1) + k] = u[i][k]
    BY <2>0, <2>3 DEF Laid
  <2>5. FlattenSeq(t) = w \o e /\ w \in Seq(Tokens)
    BY <2>1, FlattenAppend, FlattenType
  <2> HIDE DEF w
  <2>6. /\ Len(w \o e) = 8 * m + 8
        /\ \A i \in 1 .. 8 * m + 8 :
             (w \o e)[i] = IF i <= 8 * m THEN w[i] ELSE e[i - 8 * m]
    <3>1. Len(w) = 8 * m /\ Len(e) = 8
      BY <2>3, <2>4
    <3>2. /\ Len(w \o e) = Len(w) + Len(e)
          /\ \A i \in 1 .. Len(w) + Len(e) :
               (w \o e)[i] = IF i <= Len(w) THEN w[i] ELSE e[i - Len(w)]
      BY <2>1, <2>5, ConcatProperties
    <3> QED
      BY <2>0, <3>1, <3>2
  <2>7. ASSUME NEW i \in 1 .. m + 1, NEW k \in 1 .. 8
        PROVE  FlattenSeq(t)[8 * (i - 1) + k] = t[i][k]
    <3>1. CASE i = m + 1
      <4>1. 8 * (i - 1) + k = 8 * m + k
        BY <2>0, <3>1
      <4>2. (w \o e)[8 * m + k] = e[k]
        BY <2>6, <2>0
      <4> QED
        BY <2>2, <2>5, <3>1, <4>1, <4>2
    <3>2. CASE i # m + 1
      <4>1. i \in 1 .. m /\ 8 * (i - 1) + k \in 1 .. 8 * m
        BY <2>0, <3>2
      <4>2. (w \o e)[8 * (i - 1) + k] = w[8 * (i - 1) + k]
        BY <2>6, <2>0, <4>1, SMTT(30)
      <4> QED
        BY <2>2, <2>4, <2>5, <4>1, <4>2
    <3> QED
      BY <3>1, <3>2
  <2>8. /\ 8 * (m + 1) = 8 * m + 8
        /\ FlattenSeq(t) \in Seq(Tokens)
    BY <2>0, <2>1, <2>5, FlattenAppend, ConcatProperties
  <2> QED
    BY <2>5, <2>6, <2>7, <2>8 DEF Laid
<1> HIDE DEF I
<1>3. I = Nat
  BY <1>1, <1>2, SetInduction DEF I
<1> QED
  BY <1>3 DEF I

LEMMA MessageIs ==
  ASSUME NEW r \in RequestKinds
  PROVE  /\ Message(r) \in Seq(Tokens) /\ Len(Message(r)) = 8
         /\ Message(r)[1] = r.line /\ Message(r)[2] = "cr"
         /\ Message(r)[3] = "lf" /\ Message(r)[4] = r.header
         /\ Message(r)[5] = "cr" /\ Message(r)[6] = "lf"
         /\ Message(r)[7] = "cr" /\ Message(r)[8] = "lf"
         /\ r.line \in RequestLines /\ r.header \in HeaderLines
<1>1. r.line \in RequestLines /\ r.header \in HeaderLines
  BY DEF RequestKinds
<1> DEFINE l == r.line
           h == r.header
<1>2. l \in Tokens /\ h \in Tokens /\ "cr" \in Tokens /\ "lf" \in Tokens
  BY <1>1 DEF Tokens
<1>3. Message(r) = <<l, "cr", "lf", h, "cr", "lf", "cr", "lf">>
  BY DEF Message
<1> HIDE DEF l, h
<1>4. /\ Message(r) \in Seq(Tokens) /\ Len(Message(r)) = 8
      /\ Message(r)[1] = l /\ Message(r)[2] = "cr"
      /\ Message(r)[3] = "lf" /\ Message(r)[4] = h
      /\ Message(r)[5] = "cr" /\ Message(r)[6] = "lf"
      /\ Message(r)[7] = "cr" /\ Message(r)[8] = "lf"
  BY <1>2, <1>3
<1> QED
  BY <1>1, <1>4 DEF l, h

LEMMA StreamIs ==
  ASSUME Requests \in Seq(RequestKinds)
  PROVE  /\ Stream \in Seq(Tokens) /\ Len(Stream) = 8 * Len(Requests)
         /\ Len(Requests) \in Nat
         /\ \A i \in 1 .. Len(Requests), k \in 1 .. 8 :
              Stream[8 * (i - 1) + k] = Message(Requests[i])[k]
<1> DEFINE n == Len(Requests)
           s == [i \in DOMAIN Requests |-> Message(Requests[i])]
<1>1. n \in Nat /\ DOMAIN Requests = 1 .. n
  BY LenProperties
<1>2. \A i \in 1 .. n : Message(Requests[i]) \in Seq(Tokens)
  BY ElementOfSeq, MessageIs
<1>3. s \in Seq(Seq(Tokens)) /\ Len(s) = n
  BY <1>1, <1>2, IsASeq, LenProperties
<1>4. s \in Blocks(n)
  BY <1>1, <1>3, ElementOfSeq, MessageIs DEF Blocks
<1>5. Stream = FlattenSeq(s)
  BY DEF Stream
<1>6. \A i \in 1 .. n : s[i] = Message(Requests[i])
  BY <1>1
<1> HIDE DEF n, s
<1>7. Laid(s, n)
  BY <1>1, <1>4, FlattenBlocks
<1>8. /\ Stream \in Seq(Tokens) /\ Len(Stream) = 8 * n
      /\ \A i \in 1 .. n, k \in 1 .. 8 :
           Stream[8 * (i - 1) + k] = Message(Requests[i])[k]
  BY <1>5, <1>6, <1>7, Zenon DEF Laid
<1> QED
  BY <1>1, <1>8, Zenon DEF n

-----------------------------------------------------------------------------
(***************************************************************************)
(* The operators that the actions are made of.                             *)
(***************************************************************************)
LEMMA RequestsType ==
  ASSUME scenario \in Scenarios
  PROVE  /\ Requests \in Seq(RequestKinds) /\ Trouble \in SUBSET Troubles
         /\ Stream \in Seq(Tokens) /\ Len(Stream) = 8 * Len(Requests)
         /\ Len(Requests) \in Nat
<1>1. scenario \in [requests : Seq(RequestKinds), cut : BOOLEAN,
                    trouble : SUBSET Troubles]
  BY SessionAssumption
<1>2. Requests \in Seq(RequestKinds) /\ Trouble \in SUBSET Troubles
  BY <1>1 DEF Requests, Trouble
<1> QED
  BY <1>2, StreamIs

LEMMA SameScenario ==
  ASSUME UNCHANGED scenario
  PROVE  /\ UNCHANGED <<Requests, Trouble, Stream, Whole, Undisturbed>>
         /\ UNCHANGED <<KnownMethods, Units, Tokens, Colons>>
         /\ \A i : Reply(i)' = Reply(i)
<1>1. UNCHANGED <<Units, Tokens, Colons>>
  BY DEF Units, Tokens, Colons, RequestLines, HeaderLines
<1> QED
  BY <1>1 DEF Requests, Trouble, Stream, Whole, Undisturbed, KnownMethods,
              Reply, ReplyHead

LEMMA FirstFound ==
  ASSUME inBuffer_ \in Seq(Tokens), NEW token
  PROVE  /\ First(token) \in 0 .. Len(inBuffer_)
         /\ First(token) # 0 => inBuffer_[First(token)] = token
         /\ \A i \in 1 .. Len(inBuffer_) :
              inBuffer_[i] = token => First(token) # 0 /\ First(token) <= i
<1> DEFINE I == {i \in 1 .. Len(inBuffer_) : inBuffer_[i] = token}
<1>1. First(token) = IF I # {} THEN Min(I) ELSE 0
  BY DEF First, SelectInSeq
<1>2. ASSUME I # {} PROVE Min(I) \in I /\ \A i \in I : Min(I) <= i
  <2>1. I \in SUBSET Nat
    OBVIOUS
  <2>2. \E m \in I : \A k \in I : m <= k
    BY <1>2, <2>1, LeastNumber
  <2> QED
    BY <2>2 DEF Min
<1>3. Len(inBuffer_) \in Nat
  BY LenProperties
<1>4. CASE I = {}
  BY <1>1, <1>3, <1>4
<1>5. CASE I # {}
  <2>1. First(token) \in I /\ \A i \in I : First(token) <= i
    BY <1>1, <1>2, <1>5
  <2>2. /\ First(token) \in 1 .. Len(inBuffer_)
        /\ inBuffer_[First(token)] = token
    BY <2>1
  <2> QED
    BY <1>3, <2>1, <2>2
<1> QED
  BY <1>4, <1>5

(* What is left of inBuffer_.                                              *)
LEMMA AfterIs ==
  ASSUME inBuffer_ \in Seq(Tokens), NEW k \in Nat
  PROVE  /\ After(k) \in Seq(Tokens)
         /\ Lines(After(k)) \in Nat /\ Lines(inBuffer_) \in Nat
         /\ Lines(After(k)) <= Lines(inBuffer_)
         /\ \A j \in 1 .. k :
              j \in LinesIn(inBuffer_)
                => Lines(After(k)) + 1 <= Lines(inBuffer_)
<1>1. Len(inBuffer_) \in Nat
  BY LenProperties
<1>2. After(k) \in Seq(Tokens)
  BY <1>1, PartOf DEF After
<1> QED
  BY <1>2, LinesAfter, LinesType DEF After

LEMMA PairIs == ASSUME NEW a, NEW b PROVE <<a>> \o <<b>> = <<a, b>>
<1> DEFINE p == <<a>> \o <<b>>
           q == <<a, b>>
<1>1. <<a>> \in Seq({a, b}) /\ <<b>> \in Seq({a, b})
  OBVIOUS
<1>2. q \in Seq({a, b}) /\ Len(q) = 2 /\ q[1] = a /\ q[2] = b
  OBVIOUS
<1>3. p \in Seq({a, b}) /\ Len(p) = 2 /\ p[1] = a /\ p[2] = b
  BY <1>1, ConcatProperties
<1> HIDE DEF p, q
<1>4. \A i \in 1 .. 2 : p[i] = q[i]
  BY <1>2, <1>3
<1>5. p = q
  BY <1>2, <1>3, <1>4, SeqEqual
<1> QED
  BY <1>5 DEF p, q

LEMMA AtTheEnd ==
  ASSUME NEW n \in Nat, NEW d \in 0 .. 2, NEW i \in 1 .. n + d,
         NEW j \in i + 1 .. n + d, i > n
  PROVE  i = n + 1 /\ j = n + 2 /\ d = 2
OBVIOUS

(* An error page: what of it reaches the peer.                             *)
LEMMA PageIs ==
  ASSUME NEW code \in {"400", "404"}, WritenPage(code), sent \in Seq(Units)
  PROVE  /\ sent' \in Seq(Units)
         /\ \E p \in Seq(Units) : /\ sent' = sent \o p
                                  /\ \A i \in 1 .. Len(p) : p[i][1] = 0
         /\ (\A i \in DOMAIN sent : sent[i][1] # 0) => ErrorIsLast'
         /\ ~writeFailed /\ Trouble = {}
              => sent' = sent \o <<<<0, code>>, <<0, "page">>>>
<1> DEFINE h == <<0, code>>
           b == <<0, "page">>
<1>1. PICK head \in Taken(h), page \in Taken(b) : sent' = sent \o head \o page
  BY DEF WritenPage
<1>2. head \in {<<>>, <<h>>} /\ page \in {<<>>, <<b>>}
  BY DEF Taken
<1>3. h \in Units /\ b \in Units
  BY DEF Units
<1>4. h[1] = 0 /\ b[1] = 0
  OBVIOUS
<1> DEFINE p == head \o page
<1>5. ~writeFailed /\ Trouble = {} => head = <<h>> /\ page = <<b>>
  BY DEF Taken
<1> HIDE DEF h, b
<1>6. head \in Seq(Units) /\ page \in Seq(Units)
  <2>1. <<>> \in Seq(Units) /\ <<h>> \in Seq(Units) /\ <<b>> \in Seq(Units)
    BY <1>3, EmptySeq
  <2> QED
    BY <1>2, <2>1
<1>7. sent' = sent \o p
  BY <1>1, <1>6, ConcatAssociative, SMTT(30)
<1>8. /\ p \in Seq(Units) /\ Len(p) \in 0 .. 2
      /\ \A i \in 1 .. Len(p) : p[i][1] = 0
      /\ Len(p) = 2 => p[2] = b
      /\ head = <<h>> /\ page = <<b>> => p = <<h, b>>
  <2>1. CASE head = <<>>
    <3>1. p = page
      BY <1>6, <2>1, ConcatEmptySeq
    <3> QED
      BY <1>2, <1>4, <1>6, <2>1, <3>1
  <2>2. CASE page = <<>>
    <3>1. p = head
      BY <1>6, <2>2, ConcatEmptySeq
    <3> QED
      BY <1>2, <1>4, <1>6, <2>2, <3>1
  <2>3. CASE head = <<h>> /\ page = <<b>>
    <3>1. p = <<h, b>>
      BY <2>3, PairIs
    <3> QED
      BY <1>3, <1>4, <3>1
  <2> QED
    BY <1>2, <2>1, <2>2, <2>3
<1> HIDE DEF p
<1>9. /\ sent' = sent \o p /\ sent' \in Seq(Units)
      /\ Len(sent') = Len(sent) + Len(p) /\ Len(sent) \in Nat
      /\ \A i \in 1 .. Len(sent) + Len(p) :
           sent'[i] = IF i <= Len(sent) THEN sent[i] ELSE p[i - Len(sent)]
  BY <1>7, <1>8, ConcatProperties, LenProperties
<1>10. ASSUME \A i \in DOMAIN sent : sent[i][1] # 0 PROVE ErrorIsLast'
  <2> SUFFICES ASSUME NEW i \in DOMAIN sent', sent'[i][1] = 0,
                      NEW j \in i + 1 .. Len(sent')
               PROVE  j = i + 1 /\ sent'[j] = <<0, "page">>
    BY DEF ErrorIsLast
  <2>1. DOMAIN sent = 1 .. Len(sent) /\ DOMAIN sent' = 1 .. Len(sent')
    BY <1>9, LenProperties
  <2>2. i \in 1 .. Len(sent) + Len(p) /\ j \in i + 1 .. Len(sent) + Len(p)
    BY <1>8, <1>9, <2>1
  <2>3. i > Len(sent)
    BY <1>9, <1>10, <2>1, <2>2
  <2>4. i = Len(sent) + 1 /\ j = Len(sent) + 2 /\ Len(p) = 2
    <3>1. Len(sent) \in Nat /\ Len(p) \in 0 .. 2
      BY <1>8, <1>9
    <3> QED
      BY <2>2, <2>3, <3>1, AtTheEnd
  <2>5. sent'[j] = p[2]
    BY <1>9, <2>4
  <2> QED
    BY <1>8, <2>4, <2>5 DEF b
<1> QED
  BY <1>5, <1>8, <1>9, <1>10 DEF h, b
-----------------------------------------------------------------------------
(***************************************************************************)
(* The stages, errors, the method and the request lines agree.             *)
(***************************************************************************)
LEMMA InitAgrees == Init => Agreement
<1> SUFFICES ASSUME Init PROVE Agreement
  OBVIOUS
<1>1. /\ Requests \in Seq(RequestKinds) /\ Stream \in Seq(Tokens)
      /\ Len(Stream) \in Nat /\ Len(Requests) \in Nat
  BY RequestsType, LenProperties DEF Init
<1>2. SubSeq(Stream, 1, 0) = <<>> /\ DOMAIN <<>> = {}
  BY SubSeqEmpty
<1>3. TypeOK
  <2>1. /\ scenario \in Scenarios /\ arrived = 0 /\ consumed = 0 /\ ~eof
        /\ inBuffer_ = <<>> /\ outBuffer_ = <<>> /\ sent = <<>>
        /\ answers = 0 /\ ~error_ /\ ~closed /\ ~writeFailed
        /\ method_ = "garbage" /\ url_ = "" /\ headtToValue_ = {}
        /\ state_ = "STATE_PARSE_URL" /\ events_ = {"IN"} /\ pc = "idle"
        /\ eof = FALSE /\ error_ = FALSE /\ closed = FALSE
        /\ writeFailed = FALSE
    BY DEF Init
  <2>2. /\ arrived \in 0 .. Len(Stream) /\ consumed \in 0 .. arrived
        /\ answers \in Nat
    <3>1. arrived = 0 /\ consumed = 0 /\ answers = 0
      BY <2>1
    <3>2. Len(Stream) \in Nat /\ Len(Requests) \in Nat
      BY <1>1
    <3> QED
      BY ONLY <3>1, <3>2
  <2>3. sent \in Seq(Units) /\ inBuffer_ \in Seq(Tokens)
        /\ outBuffer_ \in Seq(Units)
    BY <2>1, EmptySeq
  <2>4. headtToValue_ \subseteq Colons /\ events_ \subseteq {"IN", "OUT"}
    BY <2>1
  <2> QED
    BY <2>1, <2>2, <2>3, <2>4 DEF TypeOK
<1>4. StagesAgree /\ ErrorsAgree /\ ErrorIsLast
  BY <1>2 DEF Init, StagesAgree, ErrorsAgree, ErrorIsLast
<1>5. MethodAgrees
  BY <1>2 DEF Init, MethodAgrees
<1>6. LinesAgree
  <2>1. Lines(<<>>) \in Nat
    <3>1. <<>> \in Seq(Tokens)
      BY EmptySeq
    <3> QED
      BY <3>1, LinesType
  <2>2. /\ InHand = 0 /\ answers = 0 /\ inBuffer_ = <<>>
        /\ SubSeq(Stream, 1, consumed) = <<>>
    BY <1>2 DEF InHand, Init
  <2>3. /\ Lines(inBuffer_) \in Nat
        /\ Lines(SubSeq(Stream, 1, consumed)) = Lines(inBuffer_)
    BY <2>1, <2>2
  <2> QED
    BY ONLY <2>2, <2>3 DEF LinesAgree
<1> QED
  BY <1>3, <1>4, <1>5, <1>6 DEF Agreement

(* Steps that neither read, parse nor write.                               *)
LEMMA QuietAgrees ==
  ASSUME Agreement, UNCHANGED <<scenario, consumed, buffers, parser, error_>>,
         UNCHANGED answers,
         arrived' \in 0 .. Len(Stream), arrived <= arrived',
         eof' \in BOOLEAN, closed' \in BOOLEAN, writeFailed' \in BOOLEAN,
         events_' \in SUBSET {"IN", "OUT"},
         pc' \in {"idle", "read", "url", "headers", "analysis", "end", "conn",
                 "crashed"},
         StagesAgree', MethodAgrees',
         error_ => pc' \in {"end", "conn"} \/ (pc' = "idle" /\ closed'),
         closed' => pc' = "idle"
  PROVE  Agreement'
<1>1. /\ UNCHANGED <<Requests, Stream, KnownMethods, Units, Tokens, Colons>>
  BY SameScenario
<1>2. UNCHANGED <<inBuffer_, outBuffer_, sent, method_, url_, state_>>
  BY DEF buffers, parser
<1>3. UNCHANGED headtToValue_
  BY DEF parser
<1>4. Len(Stream) \in Nat
  BY RequestsType, LenProperties DEF Agreement, TypeOK
<1>5. TypeOK'
  <2>1. TypeOK
    BY DEF Agreement
  <2>2. /\ scenario' \in Scenarios /\ consumed' \in 0 .. arrived'
        /\ arrived' \in 0 .. Len(Stream)'
        /\ answers' \in Nat
    <3>1. /\ arrived \in 0 .. Len(Stream) /\ consumed \in 0 .. arrived
          /\ answers \in Nat /\ scenario \in Scenarios
      BY <2>1 DEF TypeOK
    <3>2. consumed \in 0 .. arrived'
      BY <1>4, <3>1
    <3> QED
      BY <1>1, <3>1, <3>2
  <2>3. /\ sent' \in Seq(Units)' /\ outBuffer_' \in Seq(Units)'
        /\ inBuffer_' \in Seq(Tokens) /\ UNCHANGED error_
    BY <1>1, <1>2, <2>1 DEF TypeOK
  <2>4. /\ method_' \in {"garbage", "GET", "HEAD", "POST"}
        /\ url_' \in {"", "file", "no file", "empty file"}
        /\ headtToValue_' \subseteq Colons
        /\ error_' \in BOOLEAN
        /\ state_' \in {"STATE_PARSE_URL", "STATE_PARSE_HEADERS",
                        "STATE_RECV_BODY", "STATE_ANALYSIS", "STATE_FINISH"}
    BY <1>2, <1>3, <2>1, <2>3 DEF TypeOK
  <2> QED
    BY <2>2, <2>3, <2>4 DEF TypeOK
<1>6. ErrorsAgree' /\ ErrorIsLast'
  BY <1>2 DEF Agreement, ErrorsAgree, ErrorIsLast
<1>7. LinesAgree'
  BY <1>1, <1>2 DEF Agreement, LinesAgree, Lines, InHand
<1> QED
  BY <1>5, <1>6, <1>7 DEF Agreement

LEMMA SegmentsEnd ==
  ASSUME scenario \in Scenarios, NEW n \in SegmentEnds
  PROVE  n \in 0 .. Len(Stream)
<1>1. /\ Stream \in Seq(Tokens) /\ Len(Stream) = 8 * Len(Requests)
      /\ Requests \in Seq(RequestKinds) /\ Len(Requests) \in Nat
  BY RequestsType
<1>2. /\ DOMAIN Stream = 1 .. Len(Stream)
      /\ DOMAIN Requests = 1 .. Len(Requests)
  BY <1>1, LenProperties
<1>3. CASE scenario.cut
  BY <1>1, <1>2, <1>3 DEF SegmentEnds
<1>4. CASE ~scenario.cut
  <2>1. PICK i \in 1 .. Len(Requests) : n = 8 * i
    BY <1>2, <1>4 DEF SegmentEnds
  <2> QED
    BY <1>1, <2>1
<1> QED
  BY <1>3, <1>4

LEMMA ArriveAgrees ==
  ASSUME Agreement, UNCHANGED scenario, NEW n \in SegmentEnds, Arrive(n)
  PROVE  Agreement'
<1>1. /\ UNCHANGED <<consumed, buffers, parser, error_, answers, eof>>
      /\ UNCHANGED <<events_, pc, closed, writeFailed>>
      /\ n > arrived /\ arrived' = n
  BY DEF Arrive
<1>2. n \in 0 .. Len(Stream)
  BY SegmentsEnd DEF Agreement, TypeOK
<1>3. StagesAgree'
  BY <1>1 DEF Agreement, StagesAgree, parser
<1>4. MethodAgrees'
  <2>1. UNCHANGED <<inBuffer_, method_, url_, state_>>
    BY <1>1 DEF buffers, parser
  <2> QED
    BY <1>1, <2>1, SameScenario DEF Agreement, MethodAgrees
<1>5. /\ eof \in BOOLEAN /\ closed \in BOOLEAN /\ writeFailed \in BOOLEAN
      /\ events_ \in SUBSET {"IN", "OUT"} /\ arrived \in 0 .. Len(Stream)
      /\ pc \in {"idle", "read", "url", "headers", "analysis", "end", "conn",
                 "crashed"}
      /\ Len(Stream) \in Nat
  BY RequestsType, LenProperties DEF Agreement, TypeOK
<1>6. /\ error_ => pc \in {"end", "conn"} \/ (pc = "idle" /\ closed)
      /\ closed => pc = "idle"
  BY DEF Agreement, ErrorsAgree
<1>7. arrived' \in 0 .. Len(Stream) /\ arrived <= arrived'
  BY <1>1, <1>2, <1>5
<1> QED
  BY <1>1, <1>3, <1>4, <1>5, <1>6, <1>7, QuietAgrees

(* What QuietAgrees asks for of the variables that a step leaves alone.    *)
LEMMA AgreementType ==
  ASSUME Agreement
  PROVE  /\ eof \in BOOLEAN /\ closed \in BOOLEAN /\ writeFailed \in BOOLEAN
         /\ error_ \in BOOLEAN
         /\ events_ \in SUBSET {"IN", "OUT"}
         /\ Len(Stream) \in Nat /\ arrived \in 0 .. Len(Stream)
         /\ consumed \in 0 .. arrived /\ arrived <= arrived
         /\ pc \in {"idle", "read", "url", "headers", "analysis", "end",
                    "conn", "crashed"}
         /\ error_ => pc \in {"end", "conn"} \/ (pc = "idle" /\ closed)
         /\ closed => pc = "idle"
<1>1. /\ eof \in BOOLEAN /\ closed \in BOOLEAN /\ writeFailed \in BOOLEAN
      /\ error_ \in BOOLEAN
      /\ events_ \in SUBSET {"IN", "OUT"} /\ arrived \in 0 .. Len(Stream)
      /\ pc \in {"idle", "read", "url", "headers", "analysis", "end", "conn",
                 "crashed"}
      /\ Len(Stream) \in Nat /\ consumed \in 0 .. arrived
  BY RequestsType, LenProperties DEF Agreement, TypeOK
<1>2. arrived <= arrived
  BY <1>1
<1>3. /\ error_ => pc \in {"end", "conn"} \/ (pc = "idle" /\ closed)
      /\ closed => pc = "idle"
  BY DEF Agreement, ErrorsAgree
<1> QED
  BY <1>1, <1>2, <1>3

LEMMA PeerClosesAgrees ==
  ASSUME Agreement, UNCHANGED scenario, PeerCloses
  PROVE  Agreement'
<1>1. /\ UNCHANGED <<consumed, buffers, parser, error_, answers, arrived>>
      /\ UNCHANGED <<events_, pc, closed, writeFailed>> /\ eof' = TRUE
  BY DEF PeerCloses
<1>2. StagesAgree'
  BY <1>1 DEF Agreement, StagesAgree, parser
<1>3. MethodAgrees'
  <2>1. UNCHANGED <<inBuffer_, method_, url_, state_, Stream, KnownMethods>>
    BY <1>1, SameScenario DEF buffers, parser
  <2> QED
    BY <1>1, <2>1 DEF Agreement, MethodAgrees
<1> QED
  BY <1>1, <1>2, <1>3, AgreementType, QuietAgrees

LEMMA ExpiresAgrees ==
  ASSUME Agreement, UNCHANGED scenario, Expires
  PROVE  Agreement'
<1>1. /\ UNCHANGED <<net, buffers, parser, error_, answers>>
      /\ UNCHANGED <<events_, pc, writeFailed>> /\ closed' = TRUE
      /\ pc = "idle"
  BY DEF Expires
<1>2. UNCHANGED <<consumed, arrived, eof>>
  BY <1>1 DEF net
<1>3. StagesAgree'
  BY <1>1 DEF Agreement, StagesAgree, parser
<1>4. MethodAgrees'
  <2>1. UNCHANGED <<inBuffer_, method_, url_, state_, Stream, KnownMethods>>
    BY <1>1, SameScenario DEF buffers, parser
  <2> QED
    BY <1>1, <1>2, <2>1 DEF Agreement, MethodAgrees
<1> QED
  BY <1>1, <1>2, <1>3, <1>4, AgreementType, QuietAgrees

LEMMA EventAgrees ==
  ASSUME Agreement, UNCHANGED scenario, Event
  PROVE  Agreement'
<1>1. /\ UNCHANGED <<net, buffers, parser, error_, answers>>
      /\ UNCHANGED <<events_, closed, writeFailed>> /\ pc' = "read"
      /\ pc = "idle" /\ ~closed /\ (Readable \/ Writable)
  BY DEF Event
<1>2. UNCHANGED <<consumed, arrived, eof>>
  BY <1>1 DEF net
<1>3. ~error_
  BY <1>1, AgreementType
<1>4. StagesAgree'
  BY <1>1 DEF Agreement, StagesAgree, parser
<1>5. MethodAgrees'
  <2>1. UNCHANGED <<inBuffer_, method_, url_, state_, Stream, KnownMethods>>
    BY <1>1, SameScenario DEF buffers, parser
  <2> QED
    BY <1>1, <1>2, <2>1 DEF Agreement, MethodAgrees
<1> QED
  BY <1>1, <1>2, <1>3, <1>4, <1>5, AgreementType, QuietAgrees

LEMMA ConnAgrees ==
  ASSUME Agreement, UNCHANGED scenario, Conn
  PROVE  Agreement'
<1>1. /\ UNCHANGED <<net, buffers, parser, error_, answers, writeFailed>>
      /\ pc' = "idle" /\ pc = "conn"
  BY DEF Conn
<1>2. UNCHANGED <<consumed, arrived, eof>>
  BY <1>1 DEF net
<1>3. ~closed
  BY <1>1, AgreementType
<1>4. /\ events_' \in SUBSET {"IN", "OUT"} /\ closed' \in BOOLEAN
      /\ error_ => closed'
  BY <1>1, AgreementType DEF Conn
<1>5. StagesAgree'
  BY <1>1 DEF Agreement, StagesAgree, parser
<1>6. MethodAgrees'
  <2>1. UNCHANGED <<inBuffer_, method_, url_, state_, Stream, KnownMethods>>
    BY <1>1, SameScenario DEF buffers, parser
  <2> QED
    BY <1>1, <1>2, <1>4, <2>1 DEF Agreement, MethodAgrees
<1> QED
  BY <1>1, <1>2, <1>3, <1>4, <1>5, <1>6, AgreementType, QuietAgrees

(* While handleRead parses, nothing has failed and nothing is closed.      *)
LEMMA Parsing ==
  ASSUME Agreement, pc \in {"read", "url", "headers", "analysis"}
  PROVE  /\ ~error_ /\ ~closed /\ state_ # "STATE_FINISH"
         /\ \A i \in DOMAIN sent : sent[i][1] # 0
         /\ scenario \in Scenarios /\ sent \in Seq(Units)
         /\ inBuffer_ \in Seq(Tokens) /\ outBuffer_ \in Seq(Units)
         /\ Len(Stream) \in Nat /\ consumed \in 0 .. arrived
         /\ arrived \in 0 .. Len(Stream) /\ consumed \in 0 .. Len(Stream)
         /\ Stream \in Seq(Tokens)
         /\ Lines(inBuffer_) \in Nat /\ InHand \in 0 .. 1 /\ answers \in Nat
         /\ Lines(SubSeq(Stream, 1, consumed)) \in Nat
         /\ answers + InHand + Lines(inBuffer_)
              <= Lines(SubSeq(Stream, 1, consumed))
<1>1. /\ scenario \in Scenarios /\ sent \in Seq(Units)
      /\ inBuffer_ \in Seq(Tokens) /\ outBuffer_ \in Seq(Units)
      /\ answers \in Nat
  BY DEF Agreement, TypeOK
<1>2. Stream \in Seq(Tokens) /\ Len(Stream) \in Nat
  BY <1>1, RequestsType, LenProperties
<1>3. /\ consumed \in 0 .. arrived /\ arrived \in 0 .. Len(Stream)
      /\ error_ => pc \in {"end", "conn"} \/ (pc = "idle" /\ closed)
      /\ closed => pc = "idle"
  BY AgreementType
<1>4. consumed \in 0 .. Len(Stream)
  BY <1>2, <1>3
<1>5. /\ ~error_ /\ ~closed /\ state_ # "STATE_FINISH"
      /\ \A i \in DOMAIN sent : sent[i][1] # 0
  BY <1>3 DEF Agreement, ErrorsAgree, StagesAgree
<1>6. Lines(inBuffer_) \in Nat /\ Lines(SubSeq(Stream, 1, consumed)) \in Nat
  BY <1>1, <1>2, <1>4, LinesType, LinesPart
<1>7. /\ InHand \in 0 .. 1 /\ answers \in Nat
      /\ answers + InHand + Lines(inBuffer_)
           <= Lines(SubSeq(Stream, 1, consumed))
  <2>1. InHand \in 0 .. 1
    BY DEF InHand
  <2>2. LinesAgree
    BY DEF Agreement
  <2> QED
    BY <1>1, <2>1, <2>2 DEF LinesAgree
<1> QED
  BY <1>1, <1>2, <1>3, <1>4, <1>5, <1>6, <1>7

(* The types of what a parsing step changes.                               *)
LEMMA ParsingType ==
  ASSUME Agreement, UNCHANGED <<scenario, arrived, eof, events_, closed>>,
         UNCHANGED writeFailed,
         consumed' \in 0 .. arrived, sent' \in Seq(Units),
         inBuffer_' \in Seq(Tokens), outBuffer_' \in Seq(Units),
         method_' \in {"garbage", "GET", "HEAD", "POST"},
         url_' \in {"", "file", "no file", "empty file"},
         headtToValue_' \in SUBSET Colons, error_' \in BOOLEAN,
         state_' \in {"STATE_PARSE_URL", "STATE_PARSE_HEADERS",
                      "STATE_RECV_BODY", "STATE_ANALYSIS", "STATE_FINISH"},
         pc' \in {"idle", "read", "url", "headers", "analysis", "end", "conn",
                 "crashed"},
         answers' \in Nat
  PROVE  TypeOK'
<1>1. UNCHANGED <<Requests, Stream, KnownMethods, Units, Tokens, Colons>>
  BY SameScenario
<1>2. TypeOK
  BY DEF Agreement
<1>3. /\ scenario' \in Scenarios /\ arrived' \in 0 .. Len(Stream)'
      /\ consumed' \in 0 .. arrived' /\ answers' \in Nat
  BY <1>1, <1>2 DEF TypeOK
<1>4. /\ eof' \in BOOLEAN /\ closed' \in BOOLEAN /\ writeFailed' \in BOOLEAN
      /\ events_' \subseteq {"IN", "OUT"}
  BY <1>2 DEF TypeOK
<1> QED
  BY <1>1, <1>3, <1>4 DEF TypeOK

LEMMA ReadnIs ==
  ASSUME Agreement, pc = "read", Readn
  PROVE  /\ consumed' = arrived /\ inBuffer_' \in Seq(Tokens)
         /\ \E m \in Nat :
              /\ Lines(inBuffer_') = Lines(inBuffer_) + m
              /\ Lines(SubSeq(Stream, 1, arrived))
                   = Lines(SubSeq(Stream, 1, consumed)) + m
         /\ \A k \in 0 .. consumed :
              inBuffer_ = SubSeq(Stream, k + 1, consumed)
                => inBuffer_' = SubSeq(Stream, k + 1, arrived)
<1> DEFINE part == SubSeq(Stream, consumed + 1, arrived)
           read == SubSeq(Stream, 1, consumed)
<1>1. /\ Stream \in Seq(Tokens) /\ inBuffer_ \in Seq(Tokens)
      /\ Len(Stream) \in Nat /\ arrived \in 0 .. Len(Stream)
      /\ consumed \in 0 .. arrived
  BY Parsing
<1>2. part \in Seq(Tokens)
  <2>1. consumed \in Nat
    BY <1>1
  <2> QED
    BY <1>1, <2>1, PartOf
<1>3. read \in Seq(Tokens)
  <2>1. 0 \in Nat /\ 0 + 1 = 1 /\ consumed \in 0 .. Len(Stream)
    BY <1>1
  <2> QED
    BY <1>1, <2>1, PartOf
<1>4. ASSUME NEW k \in 0 .. consumed
      PROVE  SubSeq(Stream, k + 1, consumed) \o part
               = SubSeq(Stream, k + 1, arrived)
  <2>1. /\ k + 1 \in 1 .. Len(Stream) + 1
        /\ consumed \in k + 1 - 1 .. Len(Stream)
        /\ arrived \in consumed .. Len(Stream)
    BY <1>1
  <2> QED
    BY <1>1, <2>1, ConcatAdjacentSubSeq
<1>5. read \o part = SubSeq(Stream, 1, arrived)
  <2>1. 0 \in 0 .. consumed /\ 0 + 1 = 1
    BY <1>1
  <2> QED
    BY <1>4, <2>1
<1>6. consumed' = arrived /\ inBuffer_' = inBuffer_ \o part
  BY DEF Readn
<1> HIDE DEF part, read
<1>7. inBuffer_' \in Seq(Tokens)
  BY <1>1, <1>2, <1>6, ConcatProperties
<1>8. /\ Lines(inBuffer_ \o part) = Lines(inBuffer_) + Lines(part)
      /\ Lines(read \o part) = Lines(read) + Lines(part)
      /\ Lines(part) \in Nat
  BY <1>1, <1>2, <1>3, LinesConcat, LinesType
<1> QED
  BY <1>4, <1>5, <1>6, <1>7, <1>8 DEF read

LEMMA ReadAgrees ==
  ASSUME Agreement, UNCHANGED scenario, Read
  PROVE  Agreement'
<1>1. /\ UNCHANGED <<arrived, eof, outBuffer_, events_, closed, answers>>
      /\ UNCHANGED <<writeFailed, method_, url_, state_, headtToValue_>>
      /\ pc = "read" /\ consumed' = arrived /\ Readn
  BY DEF Read, parser, Readn
<1>2. UNCHANGED <<Requests, Stream, KnownMethods, Units, Tokens, Colons>>
  BY SameScenario
<1>3. \/ /\ WritenPage("400") /\ error_' = TRUE /\ pc' = "end"
      \/ /\ UNCHANGED <<sent, error_>> /\ ~eof
         /\ pc' = CASE state_ = "STATE_PARSE_URL" -> "url"
                    [] state_ = "STATE_PARSE_HEADERS" -> "headers"
                    [] state_ = "STATE_ANALYSIS" -> "analysis"
                    [] OTHER -> "end"
  BY DEF Read, ErrorPage, ReadnFails
<1>4. TypeOK /\ inBuffer_' \in Seq(Tokens) /\ arrived \in 0 .. arrived
  <2>1. arrived \in 0 .. Len(Stream) /\ Len(Stream) \in Nat
    BY AgreementType
  <2>2. arrived \in 0 .. arrived
    BY <2>1
  <2> QED
    BY <1>1, <2>2, ReadnIs DEF Agreement
<1>5. /\ sent' \in Seq(Units) /\ ErrorIsLast' /\ error_' \in BOOLEAN
      /\ error_' => pc' = "end"
      /\ ~error_' => UNCHANGED sent
  <2>1. CASE WritenPage("400") /\ error_' = TRUE /\ pc' = "end"
    BY <1>1, <2>1, Parsing, PageIs
  <2>2. CASE UNCHANGED <<sent, error_>>
    <3>1. ErrorIsLast /\ sent' = sent
      BY <2>2 DEF Agreement
    <3>2. ErrorIsLast'
      BY <3>1 DEF ErrorIsLast
    <3>3. sent \in Seq(Units) /\ ~error_ /\ error_' = error_
      BY <1>1, <2>2, Parsing
    <3>4. error_' \in BOOLEAN
      BY <2>2, AgreementType
    <3> QED
      BY <3>1, <3>2, <3>3, <3>4
  <2> QED
    BY <1>3, <2>1, <2>2
<1>6. /\ pc' \in {"url", "headers", "analysis", "end"}
      /\ pc' = "url" => state_ = "STATE_PARSE_URL"
      /\ pc' = "headers" => state_ = "STATE_PARSE_HEADERS"
      /\ pc' = "analysis" => state_ = "STATE_ANALYSIS"
  BY <1>3
<1>7. TypeOK'
  BY <1>1, <1>4, <1>5, <1>6, ParsingType DEF TypeOK
<1>8. StagesAgree' /\ ErrorsAgree'
  BY <1>1, <1>5, <1>6, Parsing DEF Agreement, StagesAgree, ErrorsAgree
<1>9. MethodAgrees'
  <2>1. 0 \in 0 .. consumed /\ 0 + 1 = 1
    BY AgreementType
  <2>2. inBuffer_ = SubSeq(Stream, 1, consumed)
          => inBuffer_' = SubSeq(Stream, 1, arrived)
    BY <1>1, <2>1, ReadnIs
  <2> QED
    BY <1>1, <1>2, <2>2, Parsing DEF Agreement, MethodAgrees
<1>10. LinesAgree'
  <2>1. PICK m \in Nat :
          /\ Lines(inBuffer_') = Lines(inBuffer_) + m
          /\ Lines(SubSeq(Stream, 1, arrived))
               = Lines(SubSeq(Stream, 1, consumed)) + m
    BY <1>1, ReadnIs
  <2>2. /\ answers \in Nat /\ InHand \in 0 .. 1 /\ Lines(inBuffer_) \in Nat
        /\ Lines(SubSeq(Stream, 1, consumed)) \in Nat
        /\ answers + InHand + Lines(inBuffer_)
             <= Lines(SubSeq(Stream, 1, consumed))
    BY <1>1, Parsing
  <2>3. answers + InHand + Lines(inBuffer_')
          <= Lines(SubSeq(Stream, 1, arrived))
    BY <2>1, <2>2
  <2>4. InHand' = InHand
    BY <1>1 DEF InHand
  <2>5. Lines(inBuffer_)' = Lines(inBuffer_')
    BY DEF Lines, TwoBlanks
  <2> QED
    BY <1>1, <1>2, <2>3, <2>4, <2>5 DEF LinesAgree, Lines, TwoBlanks
<1> QED
  BY <1>5, <1>7, <1>8, <1>9, <1>10 DEF Agreement

LEMMA LinesEmpty == Lines(<<>>) = 0
<1>1. {i \in DOMAIN <<>> : <<>>[i] \in TwoBlanks} = {}
  OBVIOUS
<1> QED
  BY <1>1, FS_EmptySet DEF Lines

(* The line before a "\r".                                                *)
LEMMA LineIs ==
  ASSUME inBuffer_ \in Seq(Tokens), NEW cr \in 1 .. Len(inBuffer_)
  PROVE  /\ Before(cr) \in Seq(Tokens) /\ Len(Before(cr)) = cr - 1
         /\ \A i \in 1 .. cr - 1 : Before(cr)[i] = inBuffer_[i]
         /\ Before(cr) # <<>>
              => cr - 1 \in 1 .. cr + 1 /\ cr - 1 \in DOMAIN inBuffer_
                 /\ Last(Before(cr)) = inBuffer_[cr - 1]
<1>1. Len(inBuffer_) \in Nat /\ DOMAIN inBuffer_ = 1 .. Len(inBuffer_)
  BY LenProperties
<1> DEFINE n == cr - 1
<1>2. /\ n \in 0 .. Len(inBuffer_) /\ 0 \in Nat /\ 0 + 1 = 1 /\ n - 0 = n
      /\ 0 <= n /\ n \in Nat /\ \A i \in 1 .. n : 0 + i = i
  BY <1>1
<1>3. Before(cr) = SubSeq(inBuffer_, 0 + 1, n)
  BY <1>2 DEF Before
<1> HIDE DEF n
<1>4. /\ SubSeq(inBuffer_, 0 + 1, n) \in Seq(Tokens)
      /\ Len(SubSeq(inBuffer_, 0 + 1, n)) = IF 0 <= n THEN n - 0 ELSE 0
      /\ \A i \in 1 .. n - 0 :
           SubSeq(inBuffer_, 0 + 1, n)[i] = inBuffer_[0 + i]
  BY <1>2, PartOf
<1> HIDE DEF Before
<1>5. /\ Before(cr) \in Seq(Tokens) /\ Len(Before(cr)) = n
      /\ \A i \in 1 .. n : Before(cr)[i] = inBuffer_[i]
  BY <1>2, <1>3, <1>4
<1>6. ASSUME Before(cr) # <<>>
      PROVE  /\ n \in 1 .. cr + 1 /\ n \in DOMAIN inBuffer_
             /\ Last(Before(cr)) = inBuffer_[n]
  <2>1. n # 0
    BY <1>5, <1>6, EmptySeq
  <2>2. n \in 1 .. n /\ n \in 1 .. cr + 1 /\ n \in 1 .. Len(inBuffer_)
    BY <1>1, <1>2, <2>1 DEF n
  <2> QED
    BY <1>1, <1>5, <2>2 DEF Last
<1> QED
  BY <1>5, <1>6 DEF n

(* While the method is unknown, the first line is that of a request.       *)
LEMMA FirstLineIs ==
  ASSUME Agreement, KnownMethods, pc = "url", method_ = "garbage",
         First("cr") # 0
  PROVE  /\ First("cr") = 2 /\ Len(Before(2)) = 1
         /\ Method(Before(2)[1]) \in {"GET", "HEAD", "POST"}
<1>1. /\ Stream \in Seq(Tokens) /\ inBuffer_ \in Seq(Tokens)
      /\ Len(Stream) \in Nat /\ consumed \in 0 .. Len(Stream)
      /\ state_ = "STATE_PARSE_URL" /\ ~error_
  BY Parsing DEF Agreement, StagesAgree
<1>2. inBuffer_ = SubSeq(Stream, 1, consumed)
  BY <1>1 DEF Agreement, MethodAgrees
<1>3. /\ Len(inBuffer_) = consumed /\ consumed \in Nat
      /\ \A i \in 1 .. consumed : inBuffer_[i] = Stream[i]
  <2>1. 0 \in Nat /\ 0 + 1 = 1 /\ consumed - 0 = consumed /\ 0 <= consumed
    BY <1>1
  <2>2. /\ Len(SubSeq(Stream, 0 + 1, consumed))
             = IF 0 <= consumed THEN consumed - 0 ELSE 0
        /\ \A i \in 1 .. consumed - 0 :
             SubSeq(Stream, 0 + 1, consumed)[i] = Stream[0 + i]
    BY <1>1, <2>1, PartOf
  <2>3. \A i \in 1 .. consumed : 0 + i = i
    BY <1>1
  <2> QED
    BY <1>1, <1>2, <2>1, <2>2, <2>3
<1>4. /\ First("cr") \in 1 .. consumed
      /\ inBuffer_[First("cr")] = "cr"
      /\ \A i \in 1 .. consumed : inBuffer_[i] = "cr" => First("cr") <= i
  <2> DEFINE cr == First("cr")
  <2>1. /\ cr \in 0 .. Len(inBuffer_) /\ cr # 0 /\ inBuffer_[cr] = "cr"
        /\ \A i \in 1 .. Len(inBuffer_) : inBuffer_[i] = "cr" => cr <= i
    BY <1>1, FirstFound
  <2> HIDE DEF cr
  <2>2. cr \in 1 .. consumed
    BY <1>3, <2>1
  <2> QED
    BY <1>3, <2>1, <2>2 DEF cr
<1>5. /\ Requests \in Seq(RequestKinds) /\ Len(Stream) = 8 * Len(Requests)
      /\ Len(Requests) \in Nat
  BY RequestsType DEF Agreement, TypeOK
<1> DEFINE r == Requests[1]
<1>6. 1 \in 1 .. Len(Requests) /\ DOMAIN Requests = 1 .. Len(Requests)
  BY <1>1, <1>3, <1>4, <1>5, LenProperties
<1>7. r \in RequestKinds /\ r.line # "PUT"
  BY <1>5, <1>6, ElementOfSeq DEF KnownMethods
<1>8. Stream[1] = Message(r)[1] /\ Stream[2] = Message(r)[2]
  <2>1. \A k \in 1 .. 8 : Stream[8 * (1 - 1) + k] = Message(r)[k]
    BY <1>5, <1>6, StreamIs
  <2>2. \A k \in 1 .. 8 : 8 * (1 - 1) + k = k
    OBVIOUS
  <2> QED
    BY <2>1, <2>2
<1> HIDE DEF r
<1>9. Stream[1] = r.line /\ Stream[2] = "cr" /\ r.line \in RequestLines
  BY <1>7, <1>8, MessageIs
<1>10. r.line # "cr"
  BY <1>9 DEF RequestLines
<1>11. inBuffer_[1] = r.line /\ (consumed >= 2 => inBuffer_[2] = "cr")
  BY <1>3, <1>4, <1>9
<1>12. First("cr") = 2 /\ 2 \in 1 .. Len(inBuffer_)
  <2>1. First("cr") # 1
    BY <1>4, <1>10, <1>11
  <2>2. consumed >= 2
    BY <1>3, <1>4, <2>1
  <2>3. 2 \in 1 .. consumed /\ First("cr") <= 2
    BY <1>3, <1>4, <1>11, <2>2
  <2> QED
    BY <1>3, <1>4, <2>1, <2>3
<1>13. Len(Before(2)) = 1 /\ Before(2)[1] = r.line
  <2>1. 2 - 1 = 1 /\ 1 \in 1 .. 1
    OBVIOUS
  <2>2. /\ Len(Before(2)) = 2 - 1
        /\ \A i \in 1 .. 2 - 1 : Before(2)[i] = inBuffer_[i]
    BY <1>1, <1>12, LineIs
  <2> QED
    BY <1>11, <2>1, <2>2
<1>14. Method(r.line) \in {"GET", "HEAD", "POST"}
  BY <1>7, <1>9 DEF Method, RequestLines
<1> QED
  BY <1>12, <1>13, <1>14

LEMMA ParseUrlAgrees ==
  ASSUME Agreement, UNCHANGED scenario, ParseUrl
  PROVE  Agreement'
<1> DEFINE cr == First("cr")
           line == Before(cr)
<1>1. /\ UNCHANGED <<arrived, consumed, eof, outBuffer_, events_, closed>>
      /\ UNCHANGED <<writeFailed, headtToValue_, answers>> /\ pc = "url"
  BY DEF ParseUrl, net
<1>2. UNCHANGED <<Requests, Stream, KnownMethods, Units, Tokens, Colons>>
  BY SameScenario
<1>3. \/ /\ state_' = "STATE_PARSE_HEADERS" /\ pc' = "headers"
         /\ UNCHANGED <<inBuffer_, sent, method_, url_, error_>>
      \/ /\ cr # 0 /\ line # <<>> /\ Last(line) \in TwoBlanks
         /\ inBuffer_' = After(cr + 1)
         /\ method_' = (IF Len(line) = 1 THEN Method(line[1]) ELSE method_)
         /\ url_' = Url(Last(line))
         /\ state_' = "STATE_PARSE_HEADERS" /\ pc' = "headers"
         /\ UNCHANGED <<sent, error_>>
      \/ /\ inBuffer_' = <<>>
         /\ WritenPage("400") /\ error_' = TRUE /\ pc' = "end"
         /\ UNCHANGED <<method_, url_, state_>>
  BY DEF ParseUrl, ErrorPage
<1>4. /\ state_ = "STATE_PARSE_URL" /\ inBuffer_ \in Seq(Tokens) /\ ~error_
      /\ sent \in Seq(Units) /\ \A i \in DOMAIN sent : sent[i][1] # 0
      /\ outBuffer_ \in Seq(Units) /\ consumed \in 0 .. arrived
      /\ answers \in Nat /\ TypeOK
  BY <1>1, Parsing DEF Agreement, StagesAgree, TypeOK
<1>5. /\ sent' \in Seq(Units) /\ ErrorIsLast' /\ error_' \in BOOLEAN
      /\ error_' => pc' = "end"
      /\ ~error_' => UNCHANGED sent
  <2>1. CASE WritenPage("400") /\ error_' = TRUE /\ pc' = "end"
    BY <1>4, <2>1, PageIs
  <2>2. CASE UNCHANGED <<sent, error_>>
    <3>1. ErrorIsLast /\ sent' = sent
      BY <2>2 DEF Agreement
    <3>2. ErrorIsLast'
      BY <3>1 DEF ErrorIsLast
    <3>3. error_' \in BOOLEAN
      BY <2>2, AgreementType
    <3> QED
      BY <1>4, <2>2, <3>2, <3>3
  <2> QED
    BY <1>3, <2>1, <2>2
<1>6. CASE cr # 0 /\ line # <<>> /\ Last(line) \in TwoBlanks
           /\ inBuffer_' = After(cr + 1)
           /\ method_' = (IF Len(line) = 1 THEN Method(line[1]) ELSE method_)
           /\ url_' = Url(Last(line))
           /\ state_' = "STATE_PARSE_HEADERS" /\ pc' = "headers"
           /\ UNCHANGED <<sent, error_>>
  <2>1. cr \in 1 .. Len(inBuffer_)
    <3>1. cr \in 0 .. Len(inBuffer_) /\ Len(inBuffer_) \in Nat
      BY <1>4, FirstFound, LenProperties
    <3> QED
      BY <1>6, <3>1
  <2>2. cr - 1 \in 1 .. cr + 1 /\ cr - 1 \in LinesIn(inBuffer_)
    <3> HIDE DEF cr
    <3> QED
      BY <1>4, <1>6, <2>1, LineIs DEF LinesIn
  <2>3. KnownMethods => method_' # "garbage"
    <3>1. CASE method_ = "garbage" /\ KnownMethods
      <4>1. /\ cr = 2 /\ Len(Before(2)) = 1
            /\ Method(Before(2)[1]) \in {"GET", "HEAD", "POST"}
        BY <1>1, <1>6, <3>1, FirstLineIs
      <4> QED
        BY <1>6, <4>1
    <3>2. CASE method_ # "garbage"
      BY <1>6, <3>2 DEF Method
    <3> QED
      BY <3>1, <3>2
  <2>4. /\ method_' \in {"garbage", "GET", "HEAD", "POST"}
        /\ url_' \in {"file", "no file", "empty file"}
    <3>1. method_ \in {"garbage", "GET", "HEAD", "POST"}
      BY <1>4 DEF TypeOK
    <3>2. Method(line[1]) \in {"garbage", "GET", "HEAD", "POST"}
      BY <3>1 DEF Method
    <3>3. Url(Last(line)) \in {"file", "no file", "empty file"}
      BY DEF Url
    <3> QED
      BY <1>6, <3>1, <3>2, <3>3
  <2>5. /\ inBuffer_' \in Seq(Tokens)
        /\ Lines(inBuffer_') \in Nat /\ Lines(inBuffer_) \in Nat
        /\ Lines(inBuffer_') + 1 <= Lines(inBuffer_)
    <3>1. cr + 1 \in Nat
      BY <2>1
    <3> HIDE DEF cr
    <3> QED
      BY <1>4, <1>6, <2>2, <3>1, AfterIs
  <2>6. TypeOK'
    BY <1>1, <1>4, <1>5, <1>6, <2>4, <2>5, ParsingType DEF TypeOK
  <2>7. StagesAgree' /\ ErrorsAgree' /\ MethodAgrees'
    BY <1>1, <1>2, <1>4, <1>5, <1>6, <2>3, Parsing
       DEF Agreement, StagesAgree, ErrorsAgree, MethodAgrees
  <2>8. LinesAgree'
    <3>1. /\ answers \in Nat /\ InHand \in 0 .. 1
          /\ Lines(SubSeq(Stream, 1, consumed)) \in Nat
          /\ answers + InHand + Lines(inBuffer_)
               <= Lines(SubSeq(Stream, 1, consumed))
      BY <1>1, Parsing
    <3>2. answers + 1 + Lines(inBuffer_')
            <= Lines(SubSeq(Stream, 1, consumed))
      BY <2>5, <3>1
    <3>3. InHand' = 1
      BY <1>6, <2>4 DEF InHand
    <3> QED
      BY <1>1, <1>2, <3>2, <3>3 DEF LinesAgree, Lines, TwoBlanks
  <2> QED
    BY <1>5, <2>6, <2>7, <2>8 DEF Agreement
<1>7. CASE UNCHANGED <<method_, url_>>
           /\ \/ UNCHANGED inBuffer_ /\ state_' = "STATE_PARSE_HEADERS"
                 /\ pc' = "headers"
              \/ inBuffer_' = <<>> /\ pc' = "end" /\ UNCHANGED state_
                 /\ error_' = TRUE
  <2>1. inBuffer_' \in Seq(Tokens)
    BY <1>4, <1>7, EmptySeq
  <2>2. /\ state_' \in {"STATE_PARSE_URL", "STATE_PARSE_HEADERS"}
        /\ pc' \in {"headers", "end"}
        /\ pc' = "headers" => state_' = "STATE_PARSE_HEADERS"
    BY <1>4, <1>7
  <2>3. TypeOK'
    BY <1>1, <1>4, <1>5, <1>7, <2>1, <2>2, ParsingType DEF TypeOK
  <2>4. StagesAgree' /\ ErrorsAgree'
    BY <1>1, <1>4, <1>5, <2>2, Parsing DEF Agreement, StagesAgree, ErrorsAgree
  <2>5. MethodAgrees'
    BY <1>1, <1>2, <1>4, <1>7, <2>2 DEF Agreement, MethodAgrees
  <2>6. LinesAgree'
    <3>1. /\ answers \in Nat /\ InHand \in 0 .. 1 /\ Lines(inBuffer_) \in Nat
          /\ Lines(SubSeq(Stream, 1, consumed)) \in Nat
          /\ answers + InHand + Lines(inBuffer_)
               <= Lines(SubSeq(Stream, 1, consumed))
      BY <1>1, Parsing
    <3>2. Lines(inBuffer_') \in Nat /\ Lines(inBuffer_') <= Lines(inBuffer_)
      BY <1>7, <3>1, LinesEmpty
    <3>3. InHand' = InHand
      BY <1>4, <1>7, <2>2 DEF InHand
    <3>4. answers + InHand + Lines(inBuffer_')
            <= Lines(SubSeq(Stream, 1, consumed))
      BY <3>1, <3>2
    <3> QED
      BY <1>1, <1>2, <3>3, <3>4 DEF LinesAgree, Lines, TwoBlanks
  <2> QED
    BY <1>5, <2>3, <2>4, <2>5, <2>6 DEF Agreement
<1> QED
  BY <1>3, <1>6, <1>7

LEMMA ParseHeadersAgrees ==
  ASSUME Agreement, UNCHANGED scenario, ParseHeaders
  PROVE  Agreement'
<1> DEFINE lf == First("lf")
           headers == ToSet(Before(lf)) \cap Colons
<1>1. /\ UNCHANGED <<arrived, consumed, eof, outBuffer_, events_, closed>>
      /\ UNCHANGED <<writeFailed, method_, url_, answers>> /\ pc = "headers"
  BY DEF ParseHeaders, net
<1>2. UNCHANGED <<Requests, Stream, KnownMethods, Units, Tokens, Colons>>
  BY SameScenario
<1>3. \/ /\ pc' = "end"
         /\ UNCHANGED <<inBuffer_, sent, state_, error_, headtToValue_>>
      \/ /\ inBuffer_' = After(2)
         /\ state_' \in {"STATE_RECV_BODY", "STATE_ANALYSIS"}
         /\ pc' \in {"end", "analysis"}
         /\ pc' = "analysis" => state_' = "STATE_ANALYSIS"
         /\ UNCHANGED <<sent, error_, headtToValue_>>
      \/ /\ inBuffer_' = After(lf)
         /\ \/ /\ headtToValue_' = headtToValue_ \cup headers
               /\ UNCHANGED <<sent, error_, pc>>
            \/ /\ UNCHANGED <<sent, error_, headtToValue_>>
               /\ pc' = "crashed"
            \/ /\ WritenPage("400") /\ error_' = TRUE /\ pc' = "end"
               /\ UNCHANGED headtToValue_
         /\ UNCHANGED state_
  BY DEF ParseHeaders, ErrorPage
<1>4. /\ state_ = "STATE_PARSE_HEADERS" /\ inBuffer_ \in Seq(Tokens) /\ ~error_
      /\ sent \in Seq(Units) /\ \A i \in DOMAIN sent : sent[i][1] # 0
      /\ outBuffer_ \in Seq(Units) /\ consumed \in 0 .. arrived
      /\ answers \in Nat /\ TypeOK
  BY <1>1, Parsing DEF Agreement, StagesAgree, TypeOK
<1>5. /\ sent' \in Seq(Units) /\ ErrorIsLast' /\ error_' \in BOOLEAN
      /\ error_' => pc' = "end"
      /\ ~error_' => UNCHANGED sent
  <2>1. CASE WritenPage("400") /\ error_' = TRUE /\ pc' = "end"
    BY <1>4, <2>1, PageIs
  <2>2. CASE UNCHANGED <<sent, error_>>
    <3>1. ErrorIsLast /\ sent' = sent
      BY <2>2 DEF Agreement
    <3>2. ErrorIsLast'
      BY <3>1 DEF ErrorIsLast
    <3>3. error_' \in BOOLEAN
      BY <2>2, AgreementType
    <3> QED
      BY <1>4, <2>2, <3>2, <3>3
  <2> QED
    BY <1>3, <2>1, <2>2
<1>6. /\ inBuffer_' \in Seq(Tokens) /\ Lines(inBuffer_) \in Nat
      /\ Lines(inBuffer_') \in Nat /\ Lines(inBuffer_') <= Lines(inBuffer_)
  <2>1. lf \in Nat /\ Lines(inBuffer_) \in Nat
    <3>1. lf \in 0 .. Len(inBuffer_) /\ Len(inBuffer_) \in Nat
      BY <1>4, FirstFound, LenProperties
    <3>2. Lines(inBuffer_) \in Nat
      BY <1>4, LinesType
    <3> QED
      BY <3>1, <3>2
  <2> HIDE DEF lf
  <2>2. CASE inBuffer_' = inBuffer_
    BY <1>4, <2>1, <2>2
  <2>3. CASE inBuffer_' = After(2)
    BY <1>4, <2>3, AfterIs
  <2>4. CASE inBuffer_' = After(lf)
    BY <1>4, <2>1, <2>4, AfterIs
  <2> QED
    BY <1>3, <2>2, <2>3, <2>4
<1>7. /\ state_' \in {"STATE_PARSE_HEADERS", "STATE_RECV_BODY",
                      "STATE_ANALYSIS"}
      /\ pc' \in {"headers", "end", "analysis", "crashed"}
      /\ pc' = "headers" => state_' = "STATE_PARSE_HEADERS"
      /\ pc' = "analysis" => state_' = "STATE_ANALYSIS"
  BY <1>1, <1>3, <1>4
<1>8. TypeOK'
  <2>1. headtToValue_' \in SUBSET Colons
    BY <1>3, <1>4 DEF TypeOK
  <2> QED
    BY <1>1, <1>4, <1>5, <1>6, <1>7, <2>1, ParsingType DEF TypeOK
<1>9. StagesAgree' /\ ErrorsAgree'
  BY <1>1, <1>4, <1>5, <1>7, Parsing DEF Agreement, StagesAgree, ErrorsAgree
<1>10. MethodAgrees'
  BY <1>1, <1>2, <1>7 DEF Agreement, MethodAgrees
<1>11. LinesAgree'
  <2>1. /\ answers \in Nat /\ InHand \in 0 .. 1
        /\ Lines(SubSeq(Stream, 1, consumed)) \in Nat
        /\ answers + InHand + Lines(inBuffer_)
             <= Lines(SubSeq(Stream, 1, consumed))
    BY <1>1, Parsing
  <2>2. InHand' = InHand
    BY <1>1, <1>4, <1>7 DEF InHand
  <2>3. answers + InHand + Lines(inBuffer_')
          <= Lines(SubSeq(Stream, 1, consumed))
    BY <1>6, <2>1
  <2> QED
    BY <1>1, <1>2, <2>2, <2>3 DEF LinesAgree, Lines, TwoBlanks
<1> QED
  BY <1>5, <1>8, <1>9, <1>10, <1>11 DEF Agreement

(* A response is numbered by the request it answers.                       *)
LEMMA ResponseIs ==
  ASSUME NEW n \in Nat \ {0}, NEW method
  PROVE  /\ Response(n, method) \in Seq(Units)
         /\ \A i \in DOMAIN Response(n, method) : Response(n, method)[i][1] = n
<1>1. StatusHead(n) \in Units /\ <<n, "body">> \in Units
  BY DEF StatusHead, Units
<1>2. StatusHead(n)[1] = n /\ <<n, "body">>[1] = n
  BY DEF StatusHead
<1> DEFINE h == StatusHead(n)
           b == <<n, "body">>
           t == Response(n, method)
<1>3. t = <<h>> \/ t = <<h, b>>
  BY DEF Response
<1> HIDE DEF h, b, t
<1>4. /\ h \in Units /\ b \in Units /\ h[1] = n /\ b[1] = n
  BY <1>1, <1>2 DEF h, b
<1>5. CASE t = <<h>>
  BY <1>4, <1>5 DEF t
<1>6. CASE t = <<h, b>>
  BY <1>4, <1>6 DEF t
<1> QED
  BY <1>3, <1>5, <1>6

LEMMA CleanConcat ==
  ASSUME NEW s \in Seq(Units), NEW t \in Seq(Units),
         \A i \in DOMAIN s : s[i][1] # 0, \A i \in DOMAIN t : t[i][1] # 0
  PROVE  s \o t \in Seq(Units) /\ \A i \in DOMAIN (s \o t) : (s \o t)[i][1] # 0
<1>1. /\ Len(s) \in Nat /\ Len(t) \in Nat
      /\ DOMAIN s = 1 .. Len(s) /\ DOMAIN t = 1 .. Len(t)
  BY LenProperties
<1>2. /\ s \o t \in Seq(Units) /\ Len(s \o t) = Len(s) + Len(t)
      /\ \A i \in 1 .. Len(s) + Len(t) :
           (s \o t)[i] = IF i <= Len(s) THEN s[i] ELSE t[i - Len(s)]
  BY ConcatProperties
<1>3. DOMAIN (s \o t) = 1 .. Len(s) + Len(t)
  BY <1>2, LenProperties
<1>4. ASSUME NEW i \in 1 .. Len(s) + Len(t) PROVE (s \o t)[i][1] # 0
  <2>1. CASE i <= Len(s)
    <3>1. i \in DOMAIN s /\ (s \o t)[i] = s[i]
      BY <1>1, <1>2, <2>1
    <3> QED
      BY <3>1
  <2>2. CASE ~(i <= Len(s))
    <3>1. i - Len(s) \in DOMAIN t /\ (s \o t)[i] = t[i - Len(s)]
      BY <1>1, <1>2, <2>2
    <3> QED
      BY <3>1
  <2> QED
    BY <2>1, <2>2
<1> QED
  BY <1>2, <1>3, <1>4

LEMMA AnalyseAgrees ==
  ASSUME Agreement, UNCHANGED scenario, Analyse
  PROVE  Agreement'
<1>1. /\ UNCHANGED <<arrived, consumed, eof, inBuffer_, events_, closed>>
      /\ UNCHANGED <<writeFailed, method_, url_, headtToValue_>>
      /\ pc = "analysis" /\ pc' = "end"
  BY DEF Analyse, net, ErrorPage
<1>2. UNCHANGED <<Requests, Stream, KnownMethods, Units, Tokens, Colons>>
  BY SameScenario
<1>3. \/ /\ url_ # ""
         /\ answers' = answers + 1
         /\ \E method :
              outBuffer_' = outBuffer_ \o Response(answers + 1, method)
         /\ state_' = "STATE_FINISH"
         /\ UNCHANGED <<sent, error_>>
      \/ /\ outBuffer_' = <<>> \/ outBuffer_' = outBuffer_
         /\ WritenPage("404") \/ UNCHANGED sent
         /\ error_' = TRUE
         /\ UNCHANGED <<answers, state_>>
  BY DEF Analyse, ErrorPage
<1>4. /\ state_ = "STATE_ANALYSIS" /\ inBuffer_ \in Seq(Tokens) /\ ~error_
      /\ sent \in Seq(Units) /\ \A i \in DOMAIN sent : sent[i][1] # 0
      /\ outBuffer_ \in Seq(Units) /\ consumed \in 0 .. arrived
      /\ \A i \in DOMAIN outBuffer_ : outBuffer_[i][1] # 0
      /\ answers \in Nat /\ TypeOK
  BY <1>1, Parsing DEF Agreement, StagesAgree, ErrorsAgree, TypeOK
<1>5. CASE /\ url_ # ""
           /\ answers' = answers + 1
           /\ \E method :
              outBuffer_' = outBuffer_ \o Response(answers + 1, method)
           /\ state_' = "STATE_FINISH"
           /\ UNCHANGED <<sent, error_>>
  <2>1. InHand = 1 /\ InHand' = 0
    BY <1>4, <1>5 DEF InHand
  <2>2. answers + 1 \in Nat \ {0}
    BY <1>4
  <2>3. PICK method : outBuffer_' = outBuffer_ \o Response(answers + 1, method)
    BY <1>5
  <2> DEFINE r == Response(answers + 1, method)
  <2>4. r \in Seq(Units) /\ \A i \in DOMAIN r : r[i][1] # 0
    <3>1. /\ r \in Seq(Units)
          /\ \A i \in DOMAIN r : r[i][1] = answers + 1
      BY <2>2, ResponseIs
    <3>2. answers + 1 # 0
      BY <2>2
    <3> QED
      BY <3>1, <3>2
  <2>5. /\ outBuffer_' \in Seq(Units)
        /\ \A i \in DOMAIN outBuffer_' : outBuffer_'[i][1] # 0
    <3>1. outBuffer_' = outBuffer_ \o r
      BY <2>3
    <3> HIDE DEF r
    <3> QED
      BY <1>4, <2>4, <3>1, CleanConcat
  <2>6. /\ answers' \in Nat /\ error_' \in BOOLEAN
        /\ ErrorIsLast'
    <3>1. answers' \in Nat
      BY <1>5, <2>2
    <3>2. ErrorIsLast /\ sent' = sent
      BY <1>5 DEF Agreement
    <3>3. ErrorIsLast'
      BY <3>2 DEF ErrorIsLast
    <3>4. error_' \in BOOLEAN
      BY <1>5, AgreementType
    <3> QED
      BY <3>1, <3>3, <3>4
  <2>7. TypeOK'
    BY <1>1, <1>4, <1>5, <2>5, <2>6, ParsingType DEF TypeOK
  <2>8. StagesAgree' /\ ErrorsAgree' /\ MethodAgrees'
    BY <1>1, <1>2, <1>4, <1>5, <2>5, Parsing
       DEF Agreement, StagesAgree, ErrorsAgree, MethodAgrees
  <2>9. LinesAgree'
    <3>1. /\ answers \in Nat
          /\ answers + 1 + Lines(inBuffer_)
               <= Lines(SubSeq(Stream, 1, consumed))
      BY <1>1, <2>1, Parsing
    <3>2. answers' + 0 + Lines(inBuffer_)
            <= Lines(SubSeq(Stream, 1, consumed))
      <4>1. answers' = answers + 1
        BY <1>5
      <4> QED
        BY ONLY <3>1, <4>1
    <3> QED
      BY <1>1, <1>2, <2>1, <3>2 DEF LinesAgree, Lines, TwoBlanks
  <2> QED
    BY <2>6, <2>7, <2>8, <2>9 DEF Agreement
<1>6. CASE /\ outBuffer_' = <<>> \/ outBuffer_' = outBuffer_
           /\ WritenPage("404") \/ UNCHANGED sent
           /\ error_' = TRUE
           /\ UNCHANGED <<answers, state_>>
  <2>1. sent' \in Seq(Units) /\ ErrorIsLast'
    <3>1. CASE WritenPage("404")
      BY <1>4, <3>1, PageIs
    <3>2. CASE sent' = sent
      BY <1>4, <3>2 DEF Agreement, ErrorIsLast
    <3> QED
      BY <1>6, <3>1, <3>2
  <2>2. /\ outBuffer_' \in Seq(Units)
        /\ \A i \in DOMAIN outBuffer_' : outBuffer_'[i][1] # 0
    <3>1. <<>> \in Seq(Units) /\ DOMAIN <<>> = {}
      BY EmptySeq
    <3> QED
      BY <1>4, <1>6, <3>1
  <2>3. TypeOK'
    BY <1>1, <1>4, <1>6, <2>1, <2>2, ParsingType DEF TypeOK
  <2>4. StagesAgree' /\ ErrorsAgree' /\ MethodAgrees'
    BY <1>1, <1>2, <1>4, <1>6, <2>2, Parsing
       DEF Agreement, StagesAgree, ErrorsAgree, MethodAgrees
  <2>5. LinesAgree'
    BY <1>1, <1>2, <1>6 DEF Agreement, LinesAgree, InHand, Lines, TwoBlanks
  <2> QED
    BY <2>1, <2>3, <2>4, <2>5 DEF Agreement
<1> QED
  BY <1>3, <1>5, <1>6

(* What handleWrite makes of sent and of outBuffer_.                       *)
LEMMA WriteOutIs ==
  ASSUME Agreement, ~error_, NEW n \in 0 .. Len(outBuffer_), WriteOut(n)
  PROVE  /\ sent' \in Seq(Units) /\ outBuffer_' \in Seq(Units)
         /\ \A i \in DOMAIN sent' : sent'[i][1] # 0
         /\ \A i \in DOMAIN outBuffer_' : outBuffer_'[i][1] # 0
         /\ outBuffer_ = <<>> => outBuffer_' = <<>>
         /\ writeFailed' \in BOOLEAN
<1> DEFINE part == SubSeq(outBuffer_, 1, n)
           rest == SubSeq(outBuffer_, n + 1, Len(outBuffer_))
<1>1. /\ outBuffer_ \in Seq(Units) /\ sent \in Seq(Units)
      /\ \A i \in DOMAIN sent : sent[i][1] # 0
      /\ \A i \in DOMAIN outBuffer_ : outBuffer_[i][1] # 0
      /\ writeFailed \in BOOLEAN
  BY DEF Agreement, TypeOK, ErrorsAgree
<1>2. /\ Len(outBuffer_) \in Nat /\ n \in Nat
      /\ DOMAIN outBuffer_ = 1 .. Len(outBuffer_)
  BY <1>1, LenProperties
<1>3. /\ part \in Seq(Units) /\ \A i \in DOMAIN part : part[i][1] # 0
  <2>1. 0 \in Nat /\ 0 + 1 = 1 /\ n - 0 = n
    BY <1>2
  <2>2. /\ SubSeq(outBuffer_, 0 + 1, n) \in Seq(Units)
        /\ Len(SubSeq(outBuffer_, 0 + 1, n)) = IF 0 <= n THEN n - 0 ELSE 0
        /\ \A i \in 1 .. n - 0 :
             SubSeq(outBuffer_, 0 + 1, n)[i] = outBuffer_[0 + i]
    BY <1>1, <2>1, PartOf
  <2>3. /\ part \in Seq(Units) /\ Len(part) = n
        /\ \A i \in 1 .. n : part[i] = outBuffer_[i]
    BY <1>2, <2>1, <2>2
  <2>4. DOMAIN part = 1 .. n
    BY <2>3, LenProperties
  <2> QED
    BY <1>1, <1>2, <2>3, <2>4
<1>4. /\ rest \in Seq(Units) /\ \A i \in DOMAIN rest : rest[i][1] # 0
  <2>1. Len(outBuffer_) \in 0 .. Len(outBuffer_)
    BY <1>2
  <2>2. /\ rest \in Seq(Units)
        /\ Len(rest) = IF n <= Len(outBuffer_) THEN Len(outBuffer_) - n ELSE 0
        /\ \A i \in 1 .. Len(outBuffer_) - n : rest[i] = outBuffer_[n + i]
    BY <1>1, <1>2, <2>1, PartOf
  <2>3. DOMAIN rest = 1 .. Len(outBuffer_) - n
    <3>1. Len(rest) = Len(outBuffer_) - n
      BY <1>2, <2>2
    <3> QED
      BY <2>2, <3>1, LenProperties
  <2> HIDE DEF rest
  <2>4. \A i \in 1 .. Len(outBuffer_) - n : n + i \in DOMAIN outBuffer_
    BY <1>2
  <2> QED
    BY <1>1, <2>2, <2>3, <2>4, Zenon
<1>5. /\ sent' = sent \o part
      /\ \/ outBuffer_' = <<>> /\ UNCHANGED writeFailed
         \/ outBuffer_' = rest /\ UNCHANGED writeFailed
            /\ n < Len(outBuffer_)
         \/ outBuffer_' = outBuffer_ /\ writeFailed' = TRUE
  BY DEF WriteOut
<1> HIDE DEF part, rest
<1>6. /\ sent' \in Seq(Units) /\ \A i \in DOMAIN sent' : sent'[i][1] # 0
  BY <1>1, <1>3, <1>5, CleanConcat
<1>7. /\ outBuffer_' \in Seq(Units)
      /\ \A i \in DOMAIN outBuffer_' : outBuffer_'[i][1] # 0
  <2>1. <<>> \in Seq(Units) /\ DOMAIN <<>> = {}
    BY EmptySeq
  <2> QED
    BY <1>1, <1>4, <1>5, <2>1
<1>8. outBuffer_ = <<>> => outBuffer_' = <<>>
  <2>1. outBuffer_ = <<>> => ~(n < Len(outBuffer_))
    BY <1>1, <1>2, EmptySeq
  <2> QED
    BY <1>5, <2>1
<1>9. writeFailed' \in BOOLEAN
  BY <1>1, <1>5
<1> QED
  BY <1>6, <1>7, <1>8, <1>9

LEMMA WrittenIs ==
  ASSUME Agreement, ~writeFailed, NEW n \in 0 .. Len(outBuffer_), WriteOut(n)
  PROVE  \E rest \in Seq(Units) :
           /\ sent \o outBuffer_ = sent' \o rest
           /\ ~writeFailed' => outBuffer_' = rest
<1> DEFINE part == SubSeq(outBuffer_, 1, n)
           rest == SubSeq(outBuffer_, n + 1, Len(outBuffer_))
<1>1. outBuffer_ \in Seq(Units) /\ sent \in Seq(Units)
  BY DEF Agreement, TypeOK
<1>2. /\ Len(outBuffer_) \in Nat /\ n \in Nat /\ 0 \in Nat /\ 0 + 1 = 1
      /\ Len(outBuffer_) \in 0 .. Len(outBuffer_)
  BY <1>1, LenProperties
<1>3. part \in Seq(Units) /\ rest \in Seq(Units)
  <2>1. SubSeq(outBuffer_, 0 + 1, n) \in Seq(Units)
    BY <1>1, <1>2, PartOf
  <2>2. rest \in Seq(Units)
    BY <1>1, <1>2, PartOf
  <2> QED
    BY <1>2, <2>1, <2>2
<1>4. part \o rest = outBuffer_
  <2>1. /\ 1 \in 1 .. Len(outBuffer_) + 1 /\ n \in 1 - 1 .. Len(outBuffer_)
        /\ Len(outBuffer_) \in n .. Len(outBuffer_)
    BY <1>2
  <2>2. part \o rest = SubSeq(outBuffer_, 1, Len(outBuffer_))
    BY <1>1, <2>1, ConcatAdjacentSubSeq
  <2> QED
    BY <1>1, <2>2, SubSeqFull
<1>5. n = Len(outBuffer_) => rest = <<>>
  <2>1. /\ n \in 0 .. Len(outBuffer_)
        /\ Len(rest) = IF n <= Len(outBuffer_) THEN Len(outBuffer_) - n ELSE 0
    BY <1>1, <1>2, PartOf
  <2> HIDE DEF rest
  <2>2. n = Len(outBuffer_) => Len(rest) = 0
    BY <1>2, <2>1
  <2> QED
    BY <1>3, <2>2, EmptySeq
<1>6. /\ sent' = sent \o part
      /\ ~writeFailed' =>
           \/ n = Len(outBuffer_) /\ outBuffer_' = <<>>
           \/ outBuffer_' = rest
  BY DEF WriteOut
<1> HIDE DEF part, rest
<1>7. sent \o (part \o rest) = (sent \o part) \o rest
  <2>1. \A s, t, u \in Seq(Units) : (s \o t) \o u = s \o (t \o u)
    BY ConcatAssociative, SMTT(30)
  <2> QED
    BY <1>1, <1>3, <2>1, Zenon
<1>8. sent \o outBuffer_ = sent' \o rest
  BY <1>4, <1>6, <1>7
<1> QED
  BY <1>3, <1>5, <1>6, <1>8

LEMMA EndAgrees ==
  ASSUME Agreement, UNCHANGED scenario, End
  PROVE  Agreement'
<1>1. /\ UNCHANGED <<arrived, consumed, eof, error_, closed, answers>>
      /\ pc = "end"
  BY DEF End, net
<1>2. UNCHANGED <<Requests, Stream, KnownMethods, Units, Tokens, Colons>>
  BY SameScenario
<1>3. CASE error_
  <2>1. /\ UNCHANGED <<buffers, parser, events_, writeFailed>> /\ pc' = "conn"
    BY <1>3 DEF End
  <2>2. UNCHANGED <<inBuffer_, outBuffer_, method_, url_, state_>>
    BY <2>1 DEF buffers, parser
  <2>3. StagesAgree'
    BY <1>1, <1>3, <2>1, <2>2 DEF Agreement, StagesAgree
  <2>4. MethodAgrees'
    BY <1>1, <1>2, <1>3, <2>1, <2>2 DEF Agreement, MethodAgrees
  <2>5. closed' => pc' = "idle"
    BY <1>1, AgreementType
  <2> QED
    BY <1>1, <1>3, <2>1, <2>3, <2>4, <2>5, AgreementType, QuietAgrees
<1>4. CASE ~error_
  <2>1. PICK n \in 0 .. Len(outBuffer_) : WriteOut(n)
    BY <1>4 DEF End
  <2>2. /\ UNCHANGED inBuffer_
        /\ \/ /\ state_ = "STATE_FINISH" /\ method_' = "GET" /\ url_' = ""
              /\ headtToValue_' = {} /\ state_' = "STATE_PARSE_URL"
              /\ pc' \in {"conn", "read"} /\ events_' = AfterWrite
           \/ /\ state_ # "STATE_FINISH" /\ pc' = "conn"
              /\ events_' = AfterWrite \cup {"IN"}
              /\ UNCHANGED <<method_, url_, state_, headtToValue_>>
    BY <1>4 DEF End, Reset, NextRequest, parser
  <2>3. /\ sent' \in Seq(Units) /\ outBuffer_' \in Seq(Units)
        /\ \A i \in DOMAIN sent' : sent'[i][1] # 0
        /\ \A i \in DOMAIN outBuffer_' : outBuffer_'[i][1] # 0
        /\ outBuffer_ = <<>> => outBuffer_' = <<>>
        /\ writeFailed' \in BOOLEAN
    BY <1>4, <2>1, WriteOutIs
  <2>4. events_' \in SUBSET {"IN", "OUT"}
    <3>1. events_ \in SUBSET {"IN", "OUT"}
      BY AgreementType
    <3>2. AfterWrite \in SUBSET {"IN", "OUT"}
      BY <3>1 DEF AfterWrite
    <3> QED
      BY <2>2, <3>2
  <2>5. TypeOK'
    <3>1. TypeOK
      BY DEF Agreement
    <3>2. /\ scenario' \in Scenarios /\ arrived' \in 0 .. Len(Stream)'
          /\ consumed' \in 0 .. arrived' /\ answers' \in Nat
          /\ eof' \in BOOLEAN /\ closed' \in BOOLEAN /\ error_' \in BOOLEAN
      BY <1>1, <1>2, <3>1 DEF TypeOK
    <3>3. /\ inBuffer_' \in Seq(Tokens)
          /\ method_' \in {"garbage", "GET", "HEAD", "POST"}
          /\ url_' \in {"", "file", "no file", "empty file"}
          /\ headtToValue_' \subseteq Colons
          /\ state_' \in {"STATE_PARSE_URL", "STATE_PARSE_HEADERS",
                          "STATE_RECV_BODY", "STATE_ANALYSIS", "STATE_FINISH"}
          /\ pc' \in {"conn", "read"}
      BY <2>2, <3>1 DEF TypeOK
    <3> QED
      BY <1>2, <2>3, <2>4, <3>2, <3>3 DEF TypeOK
  <2>6. StagesAgree' /\ ErrorsAgree' /\ ErrorIsLast'
    <3>1. closed' => pc' = "idle"
      BY <1>1, AgreementType
    <3>2. StagesAgree'
      BY <2>2 DEF StagesAgree
    <3>3. ErrorsAgree'
      BY <1>1, <1>4, <2>3, <3>1 DEF ErrorsAgree
    <3>4. ErrorIsLast'
      BY <2>3 DEF ErrorIsLast
    <3> QED
      BY <3>2, <3>3, <3>4
  <2>7. MethodAgrees'
    BY <1>1, <1>2, <1>4, <2>2 DEF Agreement, MethodAgrees
  <2>8. LinesAgree'
    <3>1. InHand' = InHand
      BY <2>2 DEF InHand
    <3>2. UNCHANGED inBuffer_
      BY <2>2
    <3> QED
      BY <1>1, <1>2, <3>1, <3>2
         DEF Agreement, LinesAgree, Lines, TwoBlanks
  <2> QED
    BY <2>5, <2>6, <2>7, <2>8 DEF Agreement
<1> QED
  BY <1>3, <1>4

LEMMA StutterAgrees == ASSUME Agreement, UNCHANGED vars PROVE Agreement'
<1>1. /\ UNCHANGED <<scenario, net, buffers, parser, error_, events_, pc>>
      /\ UNCHANGED <<closed, answers, writeFailed>>
  BY DEF vars
<1>2. UNCHANGED <<consumed, arrived, eof>>
  BY <1>1 DEF net
<1>3. StagesAgree'
  BY <1>1 DEF Agreement, StagesAgree, parser
<1>4. MethodAgrees'
  <2>1. UNCHANGED <<inBuffer_, method_, url_, state_, Stream, KnownMethods>>
    BY <1>1, SameScenario DEF buffers, parser
  <2> QED
    BY <1>1, <1>2, <2>1 DEF Agreement, MethodAgrees
<1> QED
  BY <1>1, <1>2, <1>3, <1>4, AgreementType, QuietAgrees

LEMMA NextAgrees == ASSUME Agreement, [Next]_vars PROVE Agreement'
<1>1. CASE Handler
  BY <1>1, EventAgrees, ReadAgrees, ParseUrlAgrees, ParseHeadersAgrees,
     AnalyseAgrees, EndAgrees, ConnAgrees DEF Handler
<1>2. CASE Peer
  BY <1>2, ArriveAgrees DEF Peer
<1>3. CASE (PeerCloses \/ Expires) /\ UNCHANGED scenario
  BY <1>3, PeerClosesAgrees, ExpiresAgrees
<1>4. CASE UNCHANGED vars
  BY <1>4, StutterAgrees
<1> QED
  BY <1>1, <1>2, <1>3, <1>4 DEF Next

-----------------------------------------------------------------------------
(***************************************************************************)
(* Requests that come whole are parsed and answered in turn.  Each step is *)
(* shown to preserve Turns, and Calm if nothing disturbs the session.      *)
(***************************************************************************)
LEMMA TurnSame ==
  ASSUME UNCHANGED <<scenario, answers>>
  PROVE  UNCHANGED <<Replies, Current>>
BY SameScenario DEF Replies, Current

LEMMA TurnsType ==
  ASSUME Agreement, Turns
  PROVE  /\ Len(Requests) \in Nat /\ answers \in 0 .. Len(Requests)
         /\ answers \in Nat /\ answers <= Len(Requests)
         /\ Requests \in Seq(RequestKinds) /\ Stream \in Seq(Tokens)
         /\ Len(Stream) = 8 * Len(Requests) /\ Len(Stream) \in Nat
         /\ consumed \in Nat /\ arrived \in Nat /\ consumed <= arrived
         /\ arrived <= Len(Stream) /\ inBuffer_ \in Seq(Tokens)
         /\ outBuffer_ \in Seq(Units) /\ sent \in Seq(Units)
         /\ events_ \in SUBSET {"IN", "OUT"} /\ error_ \in BOOLEAN
         /\ writeFailed \in BOOLEAN /\ eof \in BOOLEAN
<1>1. TypeOK
  BY DEF Agreement
<1>2. /\ Requests \in Seq(RequestKinds) /\ Stream \in Seq(Tokens)
      /\ Len(Stream) = 8 * Len(Requests) /\ Len(Requests) \in Nat
  BY <1>1, RequestsType DEF TypeOK
<1>3. /\ arrived \in 0 .. Len(Stream) /\ consumed \in 0 .. arrived
      /\ answers \in Nat /\ answers <= Len(Requests)
      /\ inBuffer_ \in Seq(Tokens) /\ outBuffer_ \in Seq(Units)
      /\ sent \in Seq(Units) /\ events_ \in SUBSET {"IN", "OUT"}
      /\ error_ \in BOOLEAN /\ writeFailed \in BOOLEAN /\ eof \in BOOLEAN
  BY <1>1 DEF TypeOK, Turns
<1>4. /\ consumed \in Nat /\ arrived \in Nat /\ consumed <= arrived
      /\ arrived <= Len(Stream) /\ Len(Stream) \in Nat
      /\ answers \in 0 .. Len(Requests)
  BY <1>2, <1>3
<1> QED
  BY <1>2, <1>3, <1>4

(* Steps that neither read, parse nor write.                               *)
LEMMA QuietTurns ==
  ASSUME Turns, UNCHANGED <<scenario, consumed, buffers, parser, error_>>,
         UNCHANGED <<answers, writeFailed>>,
         WholeRequests(arrived)', "OUT" \in events_' => "OUT" \in events_,
         ~error_ /\ writeFailed => pc' \in {"read", "conn", "idle"},
         ~error_ /\ Progress => Progress'
  PROVE  Turns'
<1>1. UNCHANGED <<Requests, Replies, Current>>
  BY SameScenario, TurnSame
<1>2. UNCHANGED <<outBuffer_, sent, state_, method_>>
  BY DEF buffers, parser
<1>3. WholeRequests(consumed)'
  BY <1>1 DEF Turns, WholeRequests
<1>4. PagesAfter(Replies) => PagesAfter(Replies)'
  BY <1>1, <1>2 DEF PagesAfter
<1>5. /\ answers' <= Len(Requests')
      /\ \A j \in 1 .. answers' : Requests'[j].line \in Served
      /\ outBuffer_' # <<>> \/ "OUT" \in events_' => answers' > 0
      /\ method_' = "garbage" =>
           state_' \in {"STATE_PARSE_URL", "STATE_PARSE_HEADERS"}
  BY <1>1, <1>2 DEF Turns
<1>6. IF error_' THEN PagesAfter(Replies)'
      ELSE /\ IF writeFailed' THEN IsPrefix(sent', Replies')
                              ELSE sent' \o outBuffer_' = Replies'
           /\ writeFailed' => pc' \in {"read", "conn", "idle"}
           /\ Progress'
  BY <1>1, <1>2, <1>4 DEF Turns
<1> QED
  BY <1>3, <1>5, <1>6 DEF Turns, Served

LEMMA QuietCalm ==
  ASSUME Calm, UNCHANGED <<scenario, consumed, buffers, parser, error_>>,
         UNCHANGED <<answers, writeFailed, eof>>, "OUT" \notin events_',
         outBuffer_ # <<>> => pc' = "end",
         pc' = "read" => consumed < arrived' \/ inBuffer_ # <<>>,
         pc' \in {"url", "headers", "analysis"} => pc' = pc
  PROVE  Calm'
<1>1. UNCHANGED <<Requests, Replies, Current>>
  BY SameScenario, TurnSame
<1>2. UNCHANGED <<inBuffer_, outBuffer_, sent, state_, url_>>
  BY DEF buffers, parser
<1> QED
  BY <1>1, <1>2 DEF Calm

LEMMA SameProgress ==
  ASSUME UNCHANGED <<scenario, consumed, buffers, parser, answers, eof>>
  PROVE  /\ UNCHANGED <<Requests, Current, Fresh, Understood>>
         /\ UNCHANGED <<Unparsed(0), Unparsed(3), Unparsed(6), Unparsed(8)>>
         /\ UNCHANGED <<inBuffer_, outBuffer_, state_, method_, url_>>
         /\ UNCHANGED headtToValue_
<1>1. UNCHANGED <<Requests, Stream, Current>>
  BY SameScenario, TurnSame
<1>2. /\ UNCHANGED <<inBuffer_, outBuffer_, state_, method_, url_>>
      /\ UNCHANGED headtToValue_
  BY DEF buffers, parser
<1>3. UNCHANGED <<Unparsed(0), Unparsed(3), Unparsed(6), Unparsed(8)>>
  BY <1>1, <1>2 DEF Unparsed
<1>4. UNCHANGED <<Fresh, Understood>>
  BY <1>1, <1>2, <1>3 DEF Fresh, Understood, Method, Url
<1> QED
  BY <1>1, <1>2, <1>3, <1>4

LEMMA ArriveTurns ==
  ASSUME Agreement, Whole, Turns, UNCHANGED scenario,
         NEW n \in SegmentEnds, Arrive(n)
  PROVE  Turns' /\ (Calm => Calm')
<1>1. /\ UNCHANGED <<consumed, buffers, parser, error_, answers, eof>>
      /\ UNCHANGED <<events_, pc, closed, writeFailed>>
      /\ n > arrived /\ arrived' = n
  BY DEF Arrive
<1>2. /\ UNCHANGED <<Requests, Current, Fresh, Understood>>
      /\ UNCHANGED <<Unparsed(0), Unparsed(3), Unparsed(6), Unparsed(8)>>
      /\ UNCHANGED <<inBuffer_, outBuffer_, state_, method_, url_>>
      /\ UNCHANGED headtToValue_
  BY <1>1, SameProgress
<1>3. WholeRequests(arrived)'
  <2>1. DOMAIN Requests = 1 .. Len(Requests) /\ Len(Requests) \in Nat
    BY TurnsType, LenProperties
  <2>2. PICK i \in 1 .. Len(Requests) : n = 8 * i
    BY <2>1 DEF SegmentEnds, Whole
  <2>3. i \in 0 .. Len(Requests)
    BY <2>1
  <2> QED
    BY <1>1, <1>2, <2>2, <2>3 DEF WholeRequests
<1>4. consumed < arrived => consumed < arrived'
  <2>1. n \in 0 .. Len(Stream) /\ Len(Stream) \in Nat
    BY SegmentsEnd, TurnsType DEF Agreement, TypeOK
  <2> QED
    BY <1>1, <2>1, TurnsType
<1>5. Progress => Progress'
  BY <1>1, <1>2, <1>4 DEF Progress
<1>6. Turns'
  BY <1>1, <1>3, <1>5, QuietTurns DEF Turns
<1>7. Calm => Calm'
  BY <1>1, <1>4, QuietCalm DEF Calm
<1> QED
  BY <1>6, <1>7

LEMMA PeerClosesTurns ==
  ASSUME Agreement, Turns, UNCHANGED scenario, PeerCloses
  PROVE  Turns'
<1>1. /\ UNCHANGED <<consumed, buffers, parser, error_, answers, arrived>>
      /\ UNCHANGED <<events_, pc, closed, writeFailed>> /\ eof' = TRUE
  BY DEF PeerCloses
<1>2. /\ UNCHANGED <<Requests, Stream, Current>>
      /\ UNCHANGED <<inBuffer_, outBuffer_, state_, method_, url_>>
      /\ UNCHANGED headtToValue_
  BY <1>1, SameScenario, TurnSame DEF buffers, parser
<1>3. WholeRequests(arrived)'
  BY <1>1, <1>2 DEF Turns, WholeRequests
<1>4. UNCHANGED <<Unparsed(0), Unparsed(3), Unparsed(6), Unparsed(8)>>
  BY <1>1, <1>2 DEF Unparsed
<1>5. UNCHANGED <<Fresh, Understood>>
  BY <1>1, <1>2, <1>4 DEF Fresh, Understood, Method, Url
<1>6. Progress => Progress'
  BY <1>1, <1>2, <1>4, <1>5 DEF Progress
<1> QED
  BY <1>1, <1>3, <1>6, QuietTurns DEF Turns

LEMMA ExpiresTurns ==
  ASSUME Agreement, Turns, UNCHANGED scenario, Expires
  PROVE  Turns'
<1>1. /\ UNCHANGED <<net, buffers, parser, error_, answers>>
      /\ UNCHANGED <<events_, pc, writeFailed>>
  BY DEF Expires
<1>2. UNCHANGED <<arrived, consumed, eof>>
  BY <1>1 DEF net
<1>3. /\ UNCHANGED <<Requests, Current, Fresh, Understood>>
      /\ UNCHANGED <<Unparsed(0), Unparsed(3), Unparsed(6), Unparsed(8)>>
      /\ UNCHANGED <<inBuffer_, outBuffer_, state_, method_, url_>>
      /\ UNCHANGED headtToValue_
  BY <1>1, <1>2, SameProgress
<1>4. WholeRequests(arrived)'
  BY <1>2, <1>3 DEF Turns, WholeRequests
<1>5. Progress => Progress'
  BY <1>1, <1>2, <1>3 DEF Progress
<1> QED
  BY <1>1, <1>2, <1>4, <1>5, QuietTurns DEF Turns

LEMMA EventTurns ==
  ASSUME Agreement, Turns, UNCHANGED scenario, Event
  PROVE  Turns' /\ (Calm => Calm')
<1>1. /\ UNCHANGED <<net, buffers, parser, error_, answers>>
      /\ UNCHANGED <<events_, closed, writeFailed>> /\ pc' = "read"
      /\ pc = "idle" /\ (Readable \/ Writable)
  BY DEF Event
<1>2. UNCHANGED <<arrived, consumed, eof>>
  BY <1>1 DEF net
<1>3. /\ UNCHANGED <<Requests, Current, Fresh, Understood>>
      /\ UNCHANGED <<Unparsed(0), Unparsed(3), Unparsed(6), Unparsed(8)>>
      /\ UNCHANGED <<inBuffer_, outBuffer_, state_, method_, url_>>
      /\ UNCHANGED headtToValue_
  BY <1>1, <1>2, SameProgress
<1>4. WholeRequests(arrived)'
  BY <1>2, <1>3 DEF Turns, WholeRequests
<1>5. consumed < arrived \/ eof \/ answers > 0
  BY <1>1 DEF Turns, Readable, Writable
<1>6. Progress => Progress'
  BY <1>1, <1>2, <1>3, <1>5 DEF Progress
<1>7. Turns'
  BY <1>1, <1>2, <1>4, <1>6, QuietTurns DEF Turns
<1>8. ASSUME Calm PROVE Calm'
  <2>1. consumed < arrived'
    BY <1>1, <1>2, <1>8 DEF Calm, Readable, Writable
  <2>2. outBuffer_ = <<>> /\ "OUT" \notin events_'
    BY <1>1, <1>8 DEF Calm
  <2> QED
    BY <1>1, <1>2, <1>8, <2>1, <2>2, QuietCalm
<1> QED
  BY <1>7, <1>8

LEMMA ConnTurns ==
  ASSUME Agreement, Turns, UNCHANGED scenario, Conn
  PROVE  Turns' /\ (Calm => Calm')
<1>1. /\ UNCHANGED <<net, buffers, parser, error_, answers, writeFailed>>
      /\ pc' = "idle" /\ pc = "conn"
  BY DEF Conn
<1>2. UNCHANGED <<arrived, consumed, eof>>
  BY <1>1 DEF net
<1>3. /\ UNCHANGED <<Requests, Current, Fresh, Understood>>
      /\ UNCHANGED <<Unparsed(0), Unparsed(3), Unparsed(6), Unparsed(8)>>
      /\ UNCHANGED <<inBuffer_, outBuffer_, state_, method_, url_>>
      /\ UNCHANGED headtToValue_
  BY <1>1, <1>2, SameProgress
<1>4. "OUT" \in events_' => "OUT" \in events_
  BY DEF Conn
<1>5. WholeRequests(arrived)'
  BY <1>2, <1>3 DEF Turns, WholeRequests
<1>6. Progress => Progress'
  BY <1>1, <1>2, <1>3 DEF Progress
<1>7. Turns'
  BY <1>1, <1>2, <1>4, <1>5, <1>6, QuietTurns DEF Turns
<1>8. Calm => Calm'
  BY <1>1, <1>2, <1>4, QuietCalm DEF Calm
<1> QED
  BY <1>7, <1>8

-----------------------------------------------------------------------------
(***************************************************************************)
(* Replies, and what is sent of them.                                      *)
(***************************************************************************)
LEMMA PrefixOfConcat ==
  ASSUME NEW S, NEW s \in Seq(S), NEW t \in Seq(S)
  PROVE  IsPrefix(s, s \o t) /\ SubSeq(s \o t, 1, Len(s)) = s
<1> DEFINE u == SubSeq(s \o t, 1, Len(s))
<1>1. /\ Len(s) \in Nat /\ Len(t) \in Nat
      /\ s \o t \in Seq(S) /\ Len(s \o t) = Len(s) + Len(t)
      /\ \A i \in 1 .. Len(s) + Len(t) :
           (s \o t)[i] = IF i <= Len(s) THEN s[i] ELSE t[i - Len(s)]
  BY ConcatProperties, LenProperties
<1>2. /\ Len(s) \in 0 .. Len(s \o t) /\ 0 \in Nat /\ 0 + 1 = 1
      /\ Len(s) - 0 = Len(s) /\ 0 <= Len(s)
      /\ \A i \in 1 .. Len(s) : 0 + i = i
  BY <1>1
<1>3. /\ u \in Seq(S) /\ Len(u) = Len(s)
      /\ \A i \in 1 .. Len(s) : u[i] = (s \o t)[i]
  <2> DEFINE w == s \o t
  <2> HIDE DEF w
  <2>1. w \in Seq(S) /\ Len(s) \in 0 .. Len(w)
    BY <1>1, <1>2 DEF w
  <2>2. /\ SubSeq(w, 0 + 1, Len(s)) \in Seq(S)
        /\ Len(SubSeq(w, 0 + 1, Len(s)))
             = IF 0 <= Len(s) THEN Len(s) - 0 ELSE 0
        /\ \A i \in 1 .. Len(s) - 0 :
             SubSeq(w, 0 + 1, Len(s))[i] = w[0 + i]
    BY <1>2, <2>1, PartOf
  <2> QED
    BY <1>2, <2>2 DEF w
<1> HIDE DEF u
<1>4. \A i \in 1 .. Len(s) : u[i] = s[i]
  BY <1>1, <1>3
<1>5. u = s
  BY <1>3, <1>4, SeqEqual
<1>6. SubSeq(s, 1, Len(s)) = s
  BY SubSeqFull
<1>7. Len(s) <= Len(s \o t)
  BY <1>1
<1> QED
  BY <1>5, <1>6, <1>7 DEF IsPrefix, u

(* What is owed for the first n requests.                                  *)
RepliesTo(n) == FlattenSeq([i \in 1 .. n |-> Reply(i)])

LEMMA ReplyType ==
  ASSUME Requests \in Seq(RequestKinds), NEW i \in 1 .. Len(Requests)
  PROVE  Reply(i) \in Seq(Units)
<1>1. /\ <<i, "head">> \in Units /\ <<i, "kept">> \in Units
      /\ <<i, "body">> \in Units
      /\ <<0, "404">> \in Units /\ <<0, "page">> \in Units
  BY DEF Units
<1> DEFINE h == ReplyHead(i)
           b == <<i, "body">>
           e == <<0, "404">>
           p == <<0, "page">>
<1>2. h \in Units
  BY <1>1 DEF ReplyHead
<1>3. Reply(i) \in {<<h, b>>, <<h>>, <<>>, <<e, p>>}
  BY DEF Reply
<1> HIDE DEF h, b, e, p
<1>4. b \in Units /\ e \in Units /\ p \in Units
  BY <1>1 DEF b, e, p
<1>5. /\ <<h, b>> \in Seq(Units) /\ <<h>> \in Seq(Units)
      /\ <<>> \in Seq(Units) /\ <<e, p>> \in Seq(Units)
  BY <1>2, <1>4, EmptySeq
<1> QED
  BY <1>3, <1>5

LEMMA RepliesStep ==
  ASSUME Requests \in Seq(RequestKinds), NEW n \in Nat, n < Len(Requests)
  PROVE  /\ RepliesTo(n) \in Seq(Units) /\ RepliesTo(n + 1) \in Seq(Units)
         /\ RepliesTo(n + 1) = RepliesTo(n) \o Reply(n + 1)
<1> DEFINE s == [i \in 1 .. n |-> Reply(i)]
           t == [i \in 1 .. n + 1 |-> Reply(i)]
           e == Reply(n + 1)
<1>1. Len(Requests) \in Nat
  BY LenProperties
<1>2. \A i \in 1 .. n + 1 : i \in 1 .. Len(Requests)
  BY <1>1
<1>3. \A i \in 1 .. n + 1 : Reply(i) \in Seq(Units)
  BY <1>2, ReplyType
<1>4. n + 1 \in Nat /\ n + 1 \in 1 .. n + 1
      /\ \A i \in 1 .. n : i \in 1 .. n + 1
  OBVIOUS
<1> HIDE DEF Reply
<1>5. s \in Seq(Seq(Units)) /\ Len(s) = n
  <2>1. \A i \in 1 .. n : Reply(i) \in Seq(Units)
    BY <1>3, <1>4
  <2>2. s \in Seq(Seq(Units))
    BY <2>1, IsASeq
  <2>3. DOMAIN s = 1 .. n
    OBVIOUS
  <2> QED
    BY <2>2, <2>3, LenProperties
<1>6. t \in Seq(Seq(Units)) /\ Len(t) = n + 1
  <2>1. t \in Seq(Seq(Units))
    BY <1>3, <1>4, IsASeq
  <2>2. DOMAIN t = 1 .. n + 1
    OBVIOUS
  <2> QED
    BY <1>4, <2>1, <2>2, LenProperties
<1>7. e \in Seq(Units)
  BY <1>3, <1>4
<1>8. /\ \A i \in 1 .. n : s[i] = t[i]
      /\ t[n + 1] = e
  BY <1>4
<1> HIDE DEF s, t, e
<1>9. t = Append(s, e)
  <2> DEFINE u == Append(s, e)
  <2>1. /\ u \in Seq(Seq(Units)) /\ Len(u) = n + 1 /\ u[n + 1] = e
        /\ \A i \in 1 .. n : u[i] = s[i]
    BY <1>5, <1>7, AppendProperties
  <2> HIDE DEF u
  <2>2. \A i \in 1 .. n + 1 : t[i] = u[i]
    <3>1. \A i \in 1 .. n + 1 : i \in 1 .. n \/ i = n + 1
      OBVIOUS
    <3> QED
      BY <1>8, <2>1, <3>1
  <2>3. t = u
    BY <1>6, <2>1, <2>2, SeqEqual
  <2> QED
    BY <2>3 DEF u
<1>10. FlattenSeq(t) = FlattenSeq(s) \o e
  BY <1>5, <1>7, <1>9, FlattenAppend
<1>11. FlattenSeq(s) \in Seq(Units) /\ FlattenSeq(t) \in Seq(Units)
  BY <1>5, <1>6, FlattenType
<1> QED
  BY <1>10, <1>11 DEF RepliesTo, s, t, e

LEMMA RepliesZero == RepliesTo(0) = <<>>
<1>1. [i \in 1 .. 0 |-> Reply(i)] = <<>>
  BY DEF Reply, ReplyHead
<1> QED
  BY <1>1, FlattenEmpty DEF RepliesTo

LEMMA RepliesToType ==
  ASSUME Requests \in Seq(RequestKinds), NEW n \in 0 .. Len(Requests)
  PROVE  RepliesTo(n) \in Seq(Units)
<1>1. Len(Requests) \in Nat
  BY LenProperties
<1>2. CASE n = 0
  BY <1>2, RepliesZero, EmptySeq
<1>3. CASE n # 0
  <2>1. n - 1 \in Nat /\ n - 1 < Len(Requests) /\ (n - 1) + 1 = n
    BY <1>1, <1>3
  <2>2. RepliesTo((n - 1) + 1) \in Seq(Units)
    BY <2>1, RepliesStep
  <2> QED
    BY <2>1, <2>2
<1> QED
  BY <1>2, <1>3

LEMMA RepliesAre == Replies = RepliesTo(answers)
BY DEF Replies, RepliesTo

LEMMA RepliesType ==
  ASSUME Agreement, Turns PROVE Replies \in Seq(Units)
BY TurnsType, RepliesToType, RepliesAre

(* Of what is sent, the beginning of the replies comes before an error     *)
(* page, or nothing else was sent yet.                                     *)
LEMMA SentIs ==
  ASSUME Agreement, Turns, ~error_
  PROVE  IsPrefix(sent, Replies)
<1>1. CASE writeFailed
  BY <1>1 DEF Turns
<1>2. CASE ~writeFailed
  <2>1. sent \o outBuffer_ = Replies
    BY <1>2 DEF Turns
  <2> QED
    BY <2>1, TurnsType, PrefixOfConcat
<1> QED
  BY <1>1, <1>2

LEMMA PageLast ==
  ASSUME Agreement, Turns, ~error_, UNCHANGED <<scenario, answers>>,
         NEW code \in {"400", "404"}, WritenPage(code)
  PROVE  PagesAfter(Replies)'
<1>1. sent \in Seq(Units) /\ IsPrefix(sent, Replies)
  BY SentIs, TurnsType
<1>2. PICK p \in Seq(Units) : /\ sent' = sent \o p
                              /\ \A i \in 1 .. Len(p) : p[i][1] = 0
  BY <1>1, PageIs
<1> DEFINE n == Len(sent)
<1>3. /\ n \in Nat /\ Len(p) \in Nat /\ Len(sent') = n + Len(p)
      /\ \A i \in 1 .. n + Len(p) :
           sent'[i] = IF i <= n THEN sent[i] ELSE p[i - n]
  BY <1>1, <1>2, ConcatProperties, LenProperties
<1>4. SubSeq(sent', 1, n) = sent
  BY <1>1, <1>2, PrefixOfConcat
<1> HIDE DEF n
<1>5. ASSUME NEW i \in n + 1 .. Len(sent') PROVE sent'[i][1] = 0
  <2>1. /\ i \in 1 .. n + Len(p) /\ ~(i <= n) /\ i - n \in 1 .. Len(p)
    BY <1>3
  <2>2. sent'[i] = p[i - n]
    BY <1>3, <2>1
  <2> QED
    BY <1>2, <2>1, <2>2
<1>6. n \in 0 .. Len(sent') /\ Replies' = Replies
  BY <1>3, TurnSame
<1> QED
  BY <1>1, <1>4, <1>5, <1>6 DEF PagesAfter

(* Reading makes inBuffer_ what was sent after the same place.             *)
LEMMA ReadTokens ==
  ASSUME Agreement, Turns, pc = "read", Readn, NEW k \in Nat, k <= consumed,
         inBuffer_ = SubSeq(Stream, k + 1, consumed)
  PROVE  /\ k <= arrived /\ inBuffer_' = SubSeq(Stream, k + 1, arrived)
         /\ consumed < arrived \/ inBuffer_ # <<>> => inBuffer_' # <<>>
<1>1. k \in 0 .. consumed
  BY TurnsType
<1>2. inBuffer_' = SubSeq(Stream, k + 1, arrived)
  BY <1>1, ReadnIs
<1>3. /\ k <= arrived /\ arrived \in Nat /\ arrived \in 0 .. Len(Stream)
      /\ Stream \in Seq(Tokens) /\ consumed \in 0 .. Len(Stream)
      /\ consumed \in Nat /\ consumed <= arrived
  BY TurnsType
<1> DEFINE s == SubSeq(Stream, k + 1, consumed)
           t == SubSeq(Stream, k + 1, arrived)
<1>4. /\ t \in Seq(Tokens) /\ Len(t) = IF k <= arrived THEN arrived - k ELSE 0
      /\ s \in Seq(Tokens)
      /\ Len(s) = IF k <= consumed THEN consumed - k ELSE 0
  BY <1>3, PartOf
<1> HIDE DEF s, t
<1>5. ASSUME consumed < arrived \/ s # <<>> PROVE t # <<>>
  <2>1. consumed < arrived \/ Len(s) # 0
    BY <1>4, <1>5, EmptySeq
  <2>2. Len(t) # 0
    BY <1>3, <1>4, <2>1
  <2> QED
    BY <2>2, EmptySeq
<1> QED
  BY <1>2, <1>3, <1>5 DEF s, t

LEMMA ReadTurns ==
  ASSUME Agreement, Turns, UNCHANGED scenario, Read
  PROVE  Turns' /\ (Calm => Calm')
<1>1. /\ UNCHANGED <<arrived, eof, outBuffer_, events_, closed, answers>>
      /\ UNCHANGED <<writeFailed, method_, url_, state_, headtToValue_>>
      /\ pc = "read" /\ consumed' = arrived /\ Readn
  BY DEF Read, parser, Readn
<1>2. UNCHANGED <<Requests, Stream, Replies, Current>>
  BY <1>1, SameScenario, TurnSame
<1>3. ~error_
  BY <1>1, Parsing
<1>4. WholeRequests(arrived)' /\ WholeRequests(consumed)'
  BY <1>1, <1>2 DEF Turns, WholeRequests
<1>5. /\ answers' <= Len(Requests')
      /\ \A j \in 1 .. answers' : Requests'[j].line \in Served
      /\ outBuffer_' # <<>> \/ "OUT" \in events_' => answers' > 0
      /\ method_' = "garbage" =>
           state_' \in {"STATE_PARSE_URL", "STATE_PARSE_HEADERS"}
  BY <1>1, <1>2 DEF Turns
<1>6. CASE ReadnFails
  <2>1. error_' = TRUE /\ WritenPage("400")
    BY <1>6 DEF Read, ErrorPage
  <2>2. PagesAfter(Replies)'
    BY <1>1, <1>3, <2>1, PageLast
  <2>3. Turns'
    BY <1>4, <1>5, <2>1, <2>2 DEF Turns, Served
  <2>4. ~Calm
    BY <1>6 DEF Calm, ReadnFails
  <2> QED
    BY <2>3, <2>4
<1>7. CASE ~ReadnFails
  <2>1. /\ UNCHANGED <<sent, error_>>
        /\ pc' = CASE state_ = "STATE_PARSE_URL" -> "url"
                   [] state_ = "STATE_PARSE_HEADERS" -> "headers"
                   [] state_ = "STATE_ANALYSIS" -> "analysis"
                   [] OTHER -> "end"
    BY <1>7 DEF Read
  <2>2. ~eof /\ ~writeFailed
    BY <1>7 DEF ReadnFails
  <2>3. sent \o outBuffer_ = Replies /\ Progress
    BY <1>3, <2>2 DEF Turns
  <2>4. CASE /\ state_ = "STATE_PARSE_URL" /\ Fresh
             /\ consumed < arrived \/ inBuffer_ # <<>> \/ answers > 0
    <3> DEFINE k == 8 * answers
    <3>1. k \in Nat /\ k + 0 = k /\ k + 0 + 1 = k + 1
      BY TurnsType
    <3>2. k <= consumed /\ inBuffer_ = SubSeq(Stream, k + 1, consumed)
      BY <2>4, <3>1 DEF Fresh, Unparsed
    <3> HIDE DEF k
    <3>3. /\ k <= arrived /\ inBuffer_' = SubSeq(Stream, k + 1, arrived)
          /\ consumed < arrived \/ inBuffer_ # <<>> => inBuffer_' # <<>>
      BY <1>1, <3>1, <3>2, ReadTokens
    <3>4. Unparsed(0)'
      BY <1>1, <1>2, <3>1, <3>3 DEF Unparsed, k
    <3>5. Fresh'
      BY <1>1, <2>4, <3>4 DEF Fresh
    <3>6. Progress'
      BY <1>1, <2>1, <2>4, <3>3, <3>5 DEF Progress
    <3>7. Turns'
      BY <1>1, <1>2, <1>3, <1>4, <1>5, <2>1, <2>2, <2>3, <3>6
         DEF Turns, Served
    <3>8. ASSUME Calm PROVE Calm'
      <4>1. inBuffer_' # <<>> /\ pc' = "url"
        BY <1>1, <2>1, <2>4, <3>3, <3>8 DEF Calm
      <4>2. outBuffer_' = <<>> /\ "OUT" \notin events_'
        BY <1>1, <3>8 DEF Calm
      <4> QED
        BY <1>1, <1>3, <2>1, <2>2, <4>1, <4>2 DEF Calm
    <3> QED
      BY <3>7, <3>8
  <2>5. CASE /\ state_ = "STATE_RECV_BODY"
             /\ answers < Len(Requests) /\ Current.line = "POST"
    <3>1. pc' = "end" /\ Progress'
      BY <1>1, <1>2, <2>1, <2>5 DEF Progress
    <3>2. Turns'
      BY <1>1, <1>2, <1>3, <1>4, <1>5, <2>1, <2>2, <2>3, <3>1
         DEF Turns, Served
    <3>3. ASSUME Calm PROVE Calm'
      <4>1. outBuffer_' = <<>> /\ "OUT" \notin events_'
        BY <1>1, <3>3 DEF Calm
      <4> QED
        BY <1>1, <1>3, <2>1, <2>2, <3>1, <4>1 DEF Calm
    <3> QED
      BY <3>2, <3>3
  <2> QED
    BY <1>1, <2>2, <2>3, <2>4, <2>5 DEF Progress
<1> QED
  BY <1>6, <1>7

(* When whole requests were read and one is being parsed, it was read.     *)
LEMMA WholeRead ==
  ASSUME Agreement, Turns, 8 * answers < consumed
  PROVE  /\ 8 * answers + 8 <= consumed /\ answers < Len(Requests)
         /\ answers + 1 \in 1 .. Len(Requests) /\ Current \in RequestKinds
<1>1. PICK m \in 0 .. Len(Requests) : consumed = 8 * m
  BY DEF Turns, WholeRequests
<1>2. Len(Requests) \in Nat /\ answers \in Nat
  BY TurnsType
<1>3. 8 * answers + 8 <= consumed /\ answers + 1 \in 1 .. Len(Requests)
  BY <1>1, <1>2
<1>4. Current \in RequestKinds
  BY <1>3, TurnsType, ElementOfSeq DEF Current
<1> QED
  BY <1>2, <1>3, <1>4

(* The tokens in hand.                                                     *)
LEMMA TokensInHand ==
  ASSUME Agreement, Turns, NEW k \in 0 .. 8, Unparsed(k),
         8 * answers + 8 <= consumed
  PROVE  /\ Len(inBuffer_) \in Nat /\ 8 - k <= Len(inBuffer_)
         /\ \A i \in 1 .. 8 - k : inBuffer_[i] = Message(Current)[k + i]
         /\ \A j \in 0 .. 8 - k :
              /\ After(j) \in Seq(Tokens)
              /\ After(j) = SubSeq(Stream, 8 * answers + (k + j) + 1, consumed)
<1> DEFINE m == 8 * answers + k
<1>1. /\ answers \in Nat /\ m \in Nat /\ m <= consumed /\ consumed \in Nat
      /\ consumed \in 0 .. Len(Stream) /\ Stream \in Seq(Tokens)
      /\ inBuffer_ \in Seq(Tokens) /\ Len(Requests) \in Nat
      /\ answers + 1 \in 1 .. Len(Requests)
      /\ Requests \in Seq(RequestKinds)
  <2>1. 8 * answers < consumed
    BY TurnsType
  <2> QED
    BY <2>1, TurnsType, WholeRead, SMTT(30)
<1>2. inBuffer_ = SubSeq(Stream, m + 1, consumed)
  BY DEF Unparsed
<1>3. m + (8 - k) <= consumed /\ m = 8 * answers + k
  BY <1>1
<1>4. \A i \in 1 .. 8 - k : m + i = 8 * ((answers + 1) - 1) + (k + i)
  BY <1>1
<1> HIDE DEF m
<1>5. /\ Len(inBuffer_) = IF m <= consumed THEN consumed - m ELSE 0
      /\ \A i \in 1 .. consumed - m : inBuffer_[i] = Stream[m + i]
  BY <1>1, <1>2, PartOf
<1>6. Len(inBuffer_) \in Nat /\ 8 - k <= Len(inBuffer_)
  BY <1>1, <1>3, <1>5
<1>7. ASSUME NEW i \in 1 .. 8 - k
      PROVE  inBuffer_[i] = Message(Current)[k + i]
  <2>1. k + i \in 1 .. 8 /\ i \in 1 .. consumed - m
    BY <1>1, <1>3
  <2>2. inBuffer_[i] = Stream[m + i]
    BY <1>5, <2>1
  <2>3. Stream[8 * ((answers + 1) - 1) + (k + i)]
          = Message(Requests[answers + 1])[k + i]
    BY <1>1, <2>1, StreamIs
  <2> QED
    BY <1>4, <2>2, <2>3 DEF Current
<1>8. ASSUME NEW j \in 0 .. 8 - k
      PROVE  /\ After(j) \in Seq(Tokens)
             /\ After(j) = SubSeq(Stream, 8 * answers + (k + j) + 1, consumed)
  <2>1. j \in Nat /\ m + j <= consumed
    BY <1>1, <1>3
  <2>2. After(j) = SubSeq(Stream, m + j + 1, consumed)
    BY <1>1, <1>2, <2>1, PartOfPart DEF After
  <2>3. m + j + 1 = 8 * answers + (k + j) + 1
    BY <1>1, <1>3
  <2> QED
    BY <1>1, <2>1, <2>2, <2>3, AfterIs
<1> QED
  BY <1>6, <1>7, <1>8

LEMMA FirstIs ==
  ASSUME inBuffer_ \in Seq(Tokens), NEW token, NEW n \in 1 .. Len(inBuffer_),
         inBuffer_[n] = token, \A i \in 1 .. n - 1 : inBuffer_[i] # token
  PROVE  First(token) = n
<1>1. Len(inBuffer_) \in Nat
  BY LenProperties
<1>2. /\ First(token) \in 0 .. Len(inBuffer_)
      /\ First(token) # 0 => inBuffer_[First(token)] = token
      /\ First(token) # 0 /\ First(token) <= n
  BY FirstFound
<1> QED
  BY <1>1, <1>2

LEMMA BeforeIs ==
  ASSUME inBuffer_ \in Seq(Tokens)
  PROVE  /\ 1 <= Len(inBuffer_) => Before(2) = <<inBuffer_[1]>>
         /\ 2 <= Len(inBuffer_)
              => ToSet(Before(3)) = {inBuffer_[1], inBuffer_[2]}
<1>1. Len(inBuffer_) \in Nat
  BY LenProperties
<1>2. ASSUME 1 <= Len(inBuffer_) PROVE Before(2) = <<inBuffer_[1]>>
  <2> DEFINE s == SubSeq(inBuffer_, 1, 1)
             t == <<inBuffer_[1]>>
  <2>1. 1 \in 1 .. Len(inBuffer_)
    BY <1>1, <1>2
  <2>2. s \in Seq(Tokens) /\ Len(s) = 1 /\ s[1] = inBuffer_[1]
    BY <2>1
  <2>3. inBuffer_[1] \in Tokens
    BY <2>1, ElementOfSeq
  <2>4. t \in Seq(Tokens) /\ Len(t) = 1 /\ t[1] = inBuffer_[1]
    BY <2>3
  <2>5. Before(2) = s
    BY DEF Before
  <2> HIDE DEF s, t
  <2>6. s = t
    BY <2>2, <2>4, SeqEqual
  <2> QED
    BY <2>5, <2>6 DEF t
<1>3. ASSUME 2 <= Len(inBuffer_)
      PROVE  ToSet(Before(3)) = {inBuffer_[1], inBuffer_[2]}
  <2> DEFINE s == SubSeq(inBuffer_, 1, 2)
  <2>1. /\ s \in Seq(Tokens) /\ Len(s) = 2
        /\ \A i \in 1 .. 2 : s[i] = inBuffer_[i]
    BY <1>1, <1>3
  <2>2. Before(3) = s
    BY DEF Before
  <2> HIDE DEF s
  <2>3. DOMAIN s = 1 .. 2
    BY <2>1, LenProperties
  <2> QED
    BY <2>1, <2>2, <2>3 DEF ToSet
<1> QED
  BY <1>2, <1>3

LEMMA ParseUrlTurns ==
  ASSUME Agreement, Whole, Turns, UNCHANGED scenario, ParseUrl
  PROVE  Turns' /\ (Calm => Calm')
<1>1. /\ UNCHANGED <<arrived, consumed, eof, outBuffer_, events_, closed>>
      /\ UNCHANGED <<writeFailed, headtToValue_, answers>> /\ pc = "url"
  BY DEF ParseUrl, net
<1>2. UNCHANGED <<Requests, Stream, Replies, Current>>
  BY <1>1, SameScenario, TurnSame
<1>3. ~error_ /\ inBuffer_ \in Seq(Tokens) /\ answers \in Nat
      /\ consumed \in Nat
  BY <1>1, Parsing, TurnsType
<1>4. ~writeFailed /\ sent \o outBuffer_ = Replies /\ Progress
  BY <1>1, <1>3 DEF Turns
<1>5. Fresh /\ Unparsed(0) /\ (inBuffer_ # <<>> \/ answers > 0)
  BY <1>1, <1>4, Parsing DEF Progress, Agreement, StagesAgree, Fresh
<1>6. WholeRequests(arrived)' /\ WholeRequests(consumed)'
  BY <1>1, <1>2 DEF Turns, WholeRequests
<1>7. ASSUME state_' = "STATE_PARSE_HEADERS", UNCHANGED <<sent, error_>>,
             Progress'
      PROVE  Turns'
  <2>1. /\ answers' <= Len(Requests')
        /\ \A j \in 1 .. answers' : Requests'[j].line \in Served
        /\ outBuffer_' # <<>> \/ "OUT" \in events_' => answers' > 0
    BY <1>1, <1>2 DEF Turns
  <2> QED
    BY <1>1, <1>2, <1>3, <1>4, <1>6, <1>7, <2>1 DEF Turns, Served
<1>8. CASE inBuffer_ = <<>>
  <2>1. First("cr") = 0
    <3>1. First("cr") \in 0 .. Len(inBuffer_) /\ Len(inBuffer_) = 0
      BY <1>3, <1>8, FirstFound, EmptySeq
    <3> QED
      BY <3>1
  <2>2. /\ state_' = "STATE_PARSE_HEADERS" /\ pc' = "headers"
        /\ UNCHANGED <<inBuffer_, sent, method_, url_, error_>>
    BY <2>1 DEF ParseUrl
  <2>3. Unparsed(0)'
    BY <1>1, <1>2, <1>5, <2>2 DEF Unparsed
  <2>4. Fresh'
    BY <1>1, <1>5, <2>2, <2>3 DEF Fresh
  <2>5. Progress'
    BY <1>1, <1>5, <1>8, <2>2, <2>4 DEF Progress
  <2>6. ~Calm
    BY <1>1, <1>8 DEF Calm
  <2> QED
    BY <1>7, <2>2, <2>5, <2>6
<1>9. CASE inBuffer_ # <<>>
  <2>1. 8 * answers + 8 <= consumed /\ Current \in RequestKinds
    <3> DEFINE m == 8 * answers
    <3>1. /\ m \in Nat /\ m + 0 = m /\ m + 0 <= consumed
          /\ inBuffer_ = SubSeq(Stream, m + 0 + 1, consumed)
      BY <1>3, <1>5 DEF Unparsed
    <3>2. consumed \in 0 .. Len(Stream) /\ Stream \in Seq(Tokens)
      BY TurnsType
    <3>3. m < consumed
      <4> HIDE DEF m
      <4>1. Len(inBuffer_) = IF m <= consumed THEN consumed - m ELSE 0
        BY <3>1, <3>2, PartOf
      <4>2. Len(inBuffer_) # 0
        BY <1>3, <1>9, EmptySeq
      <4> QED
        BY <1>3, <3>1, <4>1, <4>2
    <3> QED
      BY <3>3, WholeRead
  <2>2. /\ 8 <= Len(inBuffer_) /\ Len(inBuffer_) \in Nat
        /\ \A i \in 1 .. 8 : inBuffer_[i] = Message(Current)[i]
        /\ After(3) = SubSeq(Stream, 8 * answers + 3 + 1, consumed)
        /\ After(3) \in Seq(Tokens)
    <3>1. /\ 0 \in 0 .. 8 /\ 8 - 0 = 8 /\ 3 \in 0 .. 8 - 0 /\ 0 + 3 = 3
          /\ \A i \in 1 .. 8 : 0 + i = i
      OBVIOUS
    <3>2. /\ Len(inBuffer_) \in Nat /\ 8 - 0 <= Len(inBuffer_)
          /\ \A i \in 1 .. 8 - 0 : inBuffer_[i] = Message(Current)[0 + i]
          /\ After(3) \in Seq(Tokens)
          /\ After(3) = SubSeq(Stream, 8 * answers + (0 + 3) + 1, consumed)
      BY <1>5, <2>1, <3>1, TokensInHand
    <3> QED
      BY <3>1, <3>2
  <2> DEFINE l == Current.line
  <2>3. /\ inBuffer_[1] = l /\ inBuffer_[2] = "cr" /\ l \in RequestLines
    <3>1. /\ Message(Current)[1] = l /\ Message(Current)[2] = "cr"
          /\ l \in RequestLines
      BY <2>1, MessageIs
    <3> QED
      BY <2>2, <3>1
  <2>4. l # "PUT"
    <3>1. answers + 1 \in DOMAIN Requests
      <4>1. 8 * answers < consumed
        BY <1>3, <2>1
      <4> QED
        BY <4>1, WholeRead, TurnsType, LenProperties
    <3> QED
      BY <3>1 DEF Whole, KnownMethods, Current
  <2> HIDE DEF l
  <2>5. First("cr") = 2
    <3>1. 2 \in 1 .. Len(inBuffer_)
      BY <2>2
    <3>2. \A i \in 1 .. 2 - 1 : inBuffer_[i] # "cr"
      <4>1. "cr" \notin RequestLines
        BY DEF RequestLines
      <4>2. \A i \in 1 .. 2 - 1 : i = 1
        OBVIOUS
      <4> QED
        BY <2>3, <4>1, <4>2
    <3> QED
      BY <1>3, <2>3, <3>1, <3>2, FirstIs
  <2>6. Before(2) = <<l>>
    <3>1. 1 <= Len(inBuffer_)
      BY <2>2
    <3> QED
      BY <1>3, <2>3, <3>1, BeforeIs
  <2>7. /\ <<l>> # <<>> /\ Last(<<l>>) = l /\ Len(<<l>>) = 1 /\ <<l>>[1] = l
        /\ l \in TwoBlanks /\ 2 # 0 /\ 2 + 1 = 3
    <3>1. l \in TwoBlanks
      BY <2>3 DEF TwoBlanks
    <3>2. Len(<<l>>) = 1 /\ <<l>>[1] = l
      OBVIOUS
    <3> QED
      BY <3>1, <3>2 DEF Last
  <2>8. /\ inBuffer_' = After(3) /\ state_' = "STATE_PARSE_HEADERS"
        /\ method_' = Method(l) /\ url_' = Url(l)
        /\ pc' = "headers" /\ UNCHANGED <<sent, error_>>
    BY <2>5, <2>6, <2>7 DEF ParseUrl
  <2>9. url_' # ""
    BY <2>8 DEF Url
  <2>10. Understood'
    <3>1. method_' = Method(Current.line)' /\ url_' = Url(Current.line)'
      <4>1. l \in {"GET", "GET :", "GET no file", "GET empty file", "HEAD",
                   "POST"}
        BY <2>3, <2>4 DEF RequestLines
      <4>2. Current.line' = l
        BY <1>2 DEF l
      <4> QED
        BY <2>8, <4>1, <4>2 DEF Method, Url
    <3>2. 8 * answers' + 8 <= consumed'
      BY <1>1, <2>1
    <3> QED
      BY <3>1, <3>2 DEF Understood
  <2>11. Unparsed(3)'
    <3>1. 8 * answers + 3 <= consumed
      BY <1>3, <2>1
    <3> QED
      BY <1>1, <1>2, <2>2, <2>8, <3>1 DEF Unparsed
  <2>12. headtToValue_' = {}
    BY <1>1, <1>5 DEF Fresh
  <2>13. Progress'
    BY <2>8, <2>10, <2>11, <2>12 DEF Progress
  <2>14. Turns'
    BY <1>7, <2>8, <2>13
  <2>15. Calm => Calm'
    BY <1>1, <1>3, <2>8, <2>9 DEF Calm
  <2> QED
    BY <2>14, <2>15
<1> QED
  BY <1>8, <1>9

(* The header of the current request, and the end of its headers.          *)
LEMMA HeaderStep ==
  ASSUME Agreement, Turns, pc = "headers", Understood, Unparsed(3)
  PROVE  /\ First("lf") = 3 /\ inBuffer_ # <<>>
         /\ ~IsPrefix(<<"cr">>, inBuffer_)
         /\ ToSet(Before(3)) \cap Colons = {Current.header}
         /\ After(3) \in Seq(Tokens)
         /\ After(3) = SubSeq(Stream, 8 * answers + 6 + 1, consumed)
<1>1. /\ 8 * answers + 8 <= consumed /\ Current \in RequestKinds
      /\ inBuffer_ \in Seq(Tokens)
  <2>1. 8 * answers < consumed
    BY TurnsType DEF Understood
  <2> QED
    BY <2>1, TurnsType, WholeRead
<1>2. /\ 5 <= Len(inBuffer_) /\ Len(inBuffer_) \in Nat
      /\ inBuffer_[1] = Message(Current)[4]
      /\ inBuffer_[2] = Message(Current)[5]
      /\ inBuffer_[3] = Message(Current)[6]
      /\ After(3) = SubSeq(Stream, 8 * answers + 6 + 1, consumed)
      /\ After(3) \in Seq(Tokens)
  <2>1. /\ 3 \in 0 .. 8 /\ 8 - 3 = 5 /\ 3 \in 0 .. 8 - 3 /\ 3 + 3 = 6
        /\ 1 \in 1 .. 5 /\ 2 \in 1 .. 5 /\ 3 \in 1 .. 5
        /\ 3 + 1 = 4 /\ 3 + 2 = 5
    OBVIOUS
  <2>2. /\ Len(inBuffer_) \in Nat /\ 8 - 3 <= Len(inBuffer_)
        /\ \A i \in 1 .. 8 - 3 : inBuffer_[i] = Message(Current)[3 + i]
        /\ After(3) \in Seq(Tokens)
        /\ After(3) = SubSeq(Stream, 8 * answers + (3 + 3) + 1, consumed)
    BY <1>1, <2>1, TokensInHand
  <2>3. /\ inBuffer_[1] = Message(Current)[3 + 1]
        /\ inBuffer_[2] = Message(Current)[3 + 2]
        /\ inBuffer_[3] = Message(Current)[3 + 3]
    BY <2>1, <2>2
  <2> QED
    BY <2>1, <2>2, <2>3
<1>3. /\ inBuffer_[1] = Current.header /\ Current.header \in HeaderLines
      /\ inBuffer_[2] = "cr" /\ inBuffer_[3] = "lf"
  <2>1. /\ Message(Current)[4] = Current.header
        /\ Message(Current)[5] = "cr" /\ Message(Current)[6] = "lf"
        /\ Current.header \in HeaderLines
    BY <1>1, MessageIs
  <2> QED
    BY <1>2, <2>1
<1>4. /\ inBuffer_[1] \in {"h", "k", "h file", "h no file", "h empty"}
      /\ inBuffer_[1] \in Colons
  BY <1>3 DEF Colons, HeaderLines
<1>5. First("lf") = 3
  <2>1. 3 \in 1 .. Len(inBuffer_)
    BY <1>2
  <2>2. \A i \in 1 .. 3 - 1 : inBuffer_[i] # "lf"
    <3>1. \A i \in 1 .. 3 - 1 : i = 1 \/ i = 2
      OBVIOUS
    <3>2. inBuffer_[1] # "lf" /\ inBuffer_[2] # "lf"
      BY <1>3, <1>4
    <3> QED
      BY <3>1, <3>2
  <2> QED
    BY <1>1, <1>3, <2>1, <2>2, FirstIs
<1>6. ~IsPrefix(<<"cr">>, inBuffer_)
  <2> SUFFICES ASSUME IsPrefix(<<"cr">>, inBuffer_) PROVE FALSE
    OBVIOUS
  <2>1. Len(<<"cr">>) = 1 /\ SubSeq(<<"cr">>, 1, 1)[1] = "cr"
    OBVIOUS
  <2>2. SubSeq(<<"cr">>, 1, 1) = SubSeq(inBuffer_, 1, 1)
    BY <2>1 DEF IsPrefix
  <2>3. SubSeq(inBuffer_, 1, 1)[1] = inBuffer_[1]
    <3>1. 1 \in 1 .. Len(inBuffer_)
      BY <1>2
    <3> QED
      BY <1>1, <3>1
  <2> QED
    BY <1>4, <2>1, <2>2, <2>3
<1>7. ToSet(Before(3)) \cap Colons = {Current.header}
  <2>1. ToSet(Before(3)) = {inBuffer_[1], inBuffer_[2]}
    <3>1. 2 <= Len(inBuffer_)
      BY <1>2
    <3> QED
      BY <1>1, <3>1, BeforeIs
  <2>2. "cr" \notin Colons
    BY DEF Colons, HeaderLines
  <2> QED
    BY <1>3, <1>4, <2>1, <2>2
<1>8. inBuffer_ # <<>>
  BY <1>1, <1>2, EmptySeq
<1> QED
  BY <1>2, <1>5, <1>6, <1>7, <1>8

LEMMA HeadersEnd ==
  ASSUME Agreement, Turns, pc = "headers", Understood, Unparsed(6)
  PROVE  /\ First("lf") # 0 /\ inBuffer_ # <<>>
         /\ IsPrefix(<<"cr">>, inBuffer_)
         /\ After(2) \in Seq(Tokens)
         /\ After(2) = SubSeq(Stream, 8 * answers + 8 + 1, consumed)
<1>1. /\ 8 * answers + 8 <= consumed /\ Current \in RequestKinds
      /\ inBuffer_ \in Seq(Tokens)
  <2>1. 8 * answers < consumed
    BY TurnsType DEF Understood
  <2> QED
    BY <2>1, TurnsType, WholeRead
<1>2. /\ 2 <= Len(inBuffer_) /\ Len(inBuffer_) \in Nat
      /\ inBuffer_[1] = Message(Current)[7]
      /\ inBuffer_[2] = Message(Current)[8]
      /\ After(2) = SubSeq(Stream, 8 * answers + 8 + 1, consumed)
      /\ After(2) \in Seq(Tokens)
  <2>1. /\ 6 \in 0 .. 8 /\ 8 - 6 = 2 /\ 2 \in 0 .. 8 - 6 /\ 6 + 2 = 8
        /\ 1 \in 1 .. 2 /\ 2 \in 1 .. 2 /\ 6 + 1 = 7
    OBVIOUS
  <2>2. /\ Len(inBuffer_) \in Nat /\ 8 - 6 <= Len(inBuffer_)
        /\ \A i \in 1 .. 8 - 6 : inBuffer_[i] = Message(Current)[6 + i]
        /\ After(2) \in Seq(Tokens)
        /\ After(2) = SubSeq(Stream, 8 * answers + (6 + 2) + 1, consumed)
    BY <1>1, <2>1, TokensInHand
  <2>3. /\ inBuffer_[1] = Message(Current)[6 + 1]
        /\ inBuffer_[2] = Message(Current)[6 + 2]
    BY <2>1, <2>2
  <2> QED
    BY <2>1, <2>2, <2>3
<1>3. inBuffer_[1] = "cr" /\ inBuffer_[2] = "lf"
  <2>1. Message(Current)[7] = "cr" /\ Message(Current)[8] = "lf"
    BY <1>1, MessageIs, Zenon
  <2> QED
    BY <1>2, <2>1
<1>4. First("lf") # 0
  <2>1. 2 \in 1 .. Len(inBuffer_)
    BY <1>2
  <2> QED
    BY <1>1, <1>3, <2>1, FirstFound
<1>5. IsPrefix(<<"cr">>, inBuffer_)
  <2> DEFINE s == SubSeq(inBuffer_, 1, 1)
             t == SubSeq(<<"cr">>, 1, 1)
  <2>1. 1 \in 1 .. Len(inBuffer_) /\ 1 <= Len(inBuffer_)
    BY <1>2
  <2>2. s \in Seq(Tokens) /\ Len(s) = 1 /\ s[1] = "cr"
    BY <1>1, <1>3, <2>1
  <2>3. "cr" \in Tokens
    BY DEF Tokens
  <2>4. t \in Seq(Tokens) /\ Len(t) = 1 /\ t[1] = "cr" /\ Len(<<"cr">>) = 1
    BY <2>3
  <2> HIDE DEF s, t
  <2>5. s = t
    BY <2>2, <2>4, SeqEqual
  <2> QED
    BY <2>1, <2>4, <2>5 DEF IsPrefix, s, t
<1>6. inBuffer_ # <<>>
  BY <1>1, <1>2, EmptySeq
<1> QED
  BY <1>2, <1>4, <1>5, <1>6

LEMMA ParseHeadersTurns ==
  ASSUME Agreement, Whole, Turns, UNCHANGED scenario, ParseHeaders
  PROVE  Turns' /\ (Calm => Calm')
<1>1. /\ UNCHANGED <<arrived, consumed, eof, outBuffer_, events_, closed>>
      /\ UNCHANGED <<writeFailed, method_, url_, answers>> /\ pc = "headers"
  BY DEF ParseHeaders, net
<1>2. UNCHANGED <<Requests, Stream, Replies, Current>>
  BY <1>1, SameScenario, TurnSame
<1>3. /\ ~error_ /\ state_ = "STATE_PARSE_HEADERS" /\ answers \in Nat
      /\ consumed \in Nat /\ inBuffer_ \in Seq(Tokens)
  BY <1>1, Parsing, TurnsType DEF Agreement, StagesAgree
<1>4. ~writeFailed /\ sent \o outBuffer_ = Replies /\ Progress
  BY <1>1, <1>3 DEF Turns
<1>5. WholeRequests(arrived)' /\ WholeRequests(consumed)'
  BY <1>1, <1>2 DEF Turns, WholeRequests
<1>6. ASSUME UNCHANGED <<sent, error_>>, Progress',
             method_ = "garbage"
               => state_' \in {"STATE_PARSE_URL", "STATE_PARSE_HEADERS"}
      PROVE  Turns'
  <2>1. /\ answers' <= Len(Requests')
        /\ \A j \in 1 .. answers' : Requests'[j].line \in Served
        /\ outBuffer_' # <<>> \/ "OUT" \in events_' => answers' > 0
    BY <1>1, <1>2 DEF Turns
  <2> QED
    BY <1>1, <1>2, <1>3, <1>4, <1>5, <1>6, <2>1 DEF Turns, Served
<1>7. ASSUME Calm, UNCHANGED <<sent, error_>>,
             pc' \in {"headers", "analysis", "end", "crashed"}
      PROVE  Calm'
  <2>1. outBuffer_' = <<>> /\ url_' # ""
    BY <1>1, <1>7 DEF Calm
  <2> QED
    BY <1>1, <1>3, <1>7, <2>1 DEF Calm
<1>8. CASE Fresh /\ inBuffer_ = <<>> /\ answers > 0
  <2>1. method_ = "GET" /\ MethodRead = {"GET"}
    BY <1>8 DEF Fresh, MethodRead
  <2>2. First("lf") = 0
    <3>1. First("lf") \in 0 .. Len(inBuffer_) /\ Len(inBuffer_) = 0
      BY <1>3, <1>8, FirstFound, EmptySeq
    <3> QED
      BY <3>1
  <2>3. /\ inBuffer_' = After(2) /\ state_' = "STATE_ANALYSIS"
        /\ pc' = "analysis" /\ UNCHANGED <<sent, error_, headtToValue_>>
    BY <1>8, <2>1, <2>2 DEF ParseHeaders
  <2>4. After(2) = <<>>
    <3>1. Len(inBuffer_) = 0 /\ 0 \in 0 .. Len(inBuffer_)
      BY <1>8, EmptySeq
    <3>2. /\ SubSeq(inBuffer_, 2 + 1, 0) \in Seq(Tokens)
          /\ Len(SubSeq(inBuffer_, 2 + 1, 0)) = IF 2 <= 0 THEN 0 - 2 ELSE 0
      BY <1>3, <3>1, PartOf
    <3>3. After(2) \in Seq(Tokens) /\ Len(After(2)) = 0
      BY <3>1, <3>2 DEF After
    <3> HIDE DEF After
    <3> QED
      BY <3>3, EmptySeq
  <2>5. Unparsed(0)'
    BY <1>1, <1>2, <1>8, <2>3, <2>4 DEF Fresh, Unparsed
  <2>6. Fresh'
    BY <1>1, <1>8, <2>3, <2>5 DEF Fresh
  <2>7. Progress'
    BY <1>1, <1>8, <2>3, <2>4, <2>6 DEF Progress
  <2>8. ~Calm
    BY <1>1, <1>8 DEF Calm, Fresh
  <2> QED
    BY <1>6, <2>1, <2>3, <2>7, <2>8
<1>9. CASE Understood /\ Unparsed(3) /\ headtToValue_ = {}
  <2> DEFINE h == Current.header
  <2>1. /\ First("lf") = 3 /\ inBuffer_ # <<>>
        /\ ~IsPrefix(<<"cr">>, inBuffer_)
        /\ ToSet(Before(3)) \cap Colons = {h}
        /\ After(3) = SubSeq(Stream, 8 * answers + 6 + 1, consumed)
    BY <1>1, <1>9, HeaderStep
  <2> HIDE DEF h
  <2>2. /\ inBuffer_' = After(3) /\ UNCHANGED <<sent, error_, state_>>
        /\ \/ pc' = "crashed"
           \/ pc' = "headers" /\ headtToValue_' = {h}
    <3> DEFINE hs == ToSet(Before(3)) \cap Colons
    <3>1. /\ inBuffer_' = After(3) /\ UNCHANGED <<sent, error_, state_>>
          /\ \/ pc' = "crashed"
             \/ UNCHANGED pc /\ headtToValue_' = headtToValue_ \cup hs
      <4>1. hs = {h}
        BY <2>1
      <4> HIDE DEF hs
      <4>2. hs # {} /\ 3 # 0
        BY <4>1
      <4> QED
        BY <2>1, <4>2 DEF ParseHeaders, hs
    <3>2. headtToValue_ \cup hs = {h}
      BY <1>9, <2>1
    <3> QED
      BY <1>1, <3>1, <3>2
  <2>3. Progress'
    <3>1. CASE pc' = "crashed"
      BY <3>1 DEF Progress
    <3>2. CASE pc' = "headers" /\ headtToValue_' = {h}
      <4>1. Understood'
        BY <1>1, <1>2, <1>9 DEF Understood, Method, Url
      <4>2. Unparsed(6)'
        <5>1. 8 * answers + 6 <= consumed
          BY <1>3, <1>9 DEF Understood
        <5> QED
          BY <1>1, <1>2, <2>1, <2>2, <5>1 DEF Unparsed
      <4>3. headtToValue_' = {Current.header'}
        BY <1>2, <3>2 DEF h
      <4> QED
        BY <3>2, <4>1, <4>2, <4>3 DEF Progress
    <3> QED
      BY <2>2, <3>1, <3>2
  <2> QED
    BY <1>3, <1>6, <1>7, <2>2, <2>3
<1>10. CASE Understood /\ Unparsed(6) /\ headtToValue_ = {Current.header}
  <2>1. /\ First("lf") # 0 /\ inBuffer_ # <<>>
        /\ IsPrefix(<<"cr">>, inBuffer_)
        /\ After(2) = SubSeq(Stream, 8 * answers + 8 + 1, consumed)
    BY <1>1, <1>10, HeadersEnd
  <2>2. /\ answers < Len(Requests) /\ method_ = Method(Current.line)
        /\ Current.line \in {"GET", "GET :", "GET no file", "GET empty file",
                             "HEAD", "POST"}
    <3>1. 8 * answers < consumed
      BY <1>3, <1>10 DEF Understood
    <3>2. answers < Len(Requests) /\ answers + 1 \in DOMAIN Requests
      BY <3>1, WholeRead, TurnsType, LenProperties
    <3>3. Current.line \in RequestLines
      BY <3>1, WholeRead, MessageIs
    <3>4. Current.line # "PUT"
      BY <3>2 DEF Whole, KnownMethods, Current
    <3> QED
      BY <1>10, <3>2, <3>3, <3>4 DEF Understood, RequestLines
  <2>3. method_ # "garbage" /\ MethodRead = {method_}
    <3>1. method_ # "garbage"
      BY <2>2 DEF Method
    <3> QED
      BY <3>1 DEF MethodRead
  <2>4. /\ inBuffer_' = After(2)
        /\ state_' = IF method_ = "POST" THEN "STATE_RECV_BODY"
                                         ELSE "STATE_ANALYSIS"
        /\ pc' = IF method_ = "POST" THEN "end" ELSE "analysis"
        /\ UNCHANGED <<sent, error_, headtToValue_>>
    BY <2>1, <2>3 DEF ParseHeaders
  <2>5. Progress'
    <3>1. CASE method_ = "POST"
      <4>1. Current.line = "POST"
        BY <2>2, <3>1 DEF Method
      <4> QED
        BY <1>1, <1>2, <2>2, <2>4, <3>1, <4>1 DEF Progress
    <3>2. CASE method_ # "POST"
      <4>1. Understood'
        BY <1>1, <1>2, <1>10 DEF Understood, Method, Url
      <4>2. Unparsed(8)'
        <5>1. 8 * answers + 8 <= consumed
          BY <1>10 DEF Understood
        <5> QED
          BY <1>1, <1>2, <2>1, <2>4, <5>1 DEF Unparsed
      <4> QED
        BY <1>1, <1>2, <1>10, <2>4, <3>2, <4>1, <4>2 DEF Progress
    <3> QED
      BY <3>1, <3>2
  <2>6. pc' \in {"end", "analysis"}
    BY <2>4
  <2> QED
    BY <1>6, <1>7, <2>3, <2>4, <2>5, <2>6
<1> QED
  BY <1>1, <1>3, <1>4, <1>8, <1>9, <1>10 DEF Progress

LEMMA AnalyseTurns ==
  ASSUME Agreement, Whole, Turns, UNCHANGED scenario, Analyse
  PROVE  Turns' /\ (Undisturbed /\ Calm => Calm')
<1>1. /\ UNCHANGED <<arrived, consumed, eof, inBuffer_, events_, closed>>
      /\ UNCHANGED <<writeFailed, method_, url_, headtToValue_>>
      /\ pc = "analysis" /\ pc' = "end"
  BY DEF Analyse, net, ErrorPage
<1>2. UNCHANGED <<Requests, Stream>> /\ \A i : Reply(i)' = Reply(i)
  BY SameScenario
<1>3. /\ ~error_ /\ state_ = "STATE_ANALYSIS" /\ answers \in Nat
      /\ consumed \in Nat /\ sent \in Seq(Units) /\ outBuffer_ \in Seq(Units)
      /\ Requests \in Seq(RequestKinds) /\ Len(Requests) \in Nat
  BY <1>1, Parsing, TurnsType DEF Agreement, StagesAgree
<1>4. ~writeFailed /\ sent \o outBuffer_ = Replies /\ Progress
  BY <1>1, <1>3 DEF Turns
<1>5. WholeRequests(arrived)' /\ WholeRequests(consumed)'
  BY <1>1, <1>2 DEF Turns, WholeRequests
<1>6. method_ # "garbage" /\ MethodRead = {method_}
  <2>1. method_ # "garbage"
    BY <1>3 DEF Turns
  <2> QED
    BY <2>1 DEF MethodRead
<1>7. ASSUME error_' = TRUE, WritenPage("404"), UNCHANGED <<answers, state_>>,
             outBuffer_' = <<>> \/ outBuffer_' = outBuffer_
      PROVE  Turns'
  <2>1. PagesAfter(Replies)'
    BY <1>3, <1>7, PageLast
  <2>2. /\ answers' <= Len(Requests')
        /\ \A j \in 1 .. answers' : Requests'[j].line \in Served
        /\ outBuffer_' # <<>> \/ "OUT" \in events_' => answers' > 0
    BY <1>1, <1>2, <1>7 DEF Turns
  <2> QED
    BY <1>1, <1>5, <1>6, <1>7, <2>1, <2>2 DEF Turns, Served
<1>8. CASE Fresh /\ inBuffer_ = <<>> /\ answers > 0
  <2>1. method_ = "GET" /\ url_ = ""
    BY <1>8 DEF Fresh
  <2>2. /\ UNCHANGED <<outBuffer_, answers, state_>> /\ WritenPage("404")
        /\ error_' = TRUE
    BY <1>6, <2>1 DEF Analyse, ErrorPage
  <2>3. ~Calm
    BY <1>1, <2>1 DEF Calm
  <2> QED
    BY <1>7, <2>2, <2>3
<1>9. CASE /\ Understood /\ Unparsed(8) /\ headtToValue_ = {Current.header}
           /\ method_ # "POST"
  <2>1. /\ Current \in RequestKinds /\ answers < Len(Requests)
        /\ answers + 1 \in 1 .. Len(Requests) /\ Current.line \in RequestLines
        /\ answers + 1 \in DOMAIN Requests
    <3>1. 8 * answers < consumed
      BY <1>3, <1>9 DEF Understood
    <3> QED
      BY <3>1, WholeRead, MessageIs, TurnsType, LenProperties
  <2>2. method_ = Method(Current.line) /\ url_ = Url(Current.line)
    BY <1>9 DEF Understood
  <2>3. Current.line # "PUT"
    BY <2>1 DEF Whole, KnownMethods, Current
  <2>4. CASE Current.line \in Served
    <3>1. method_ \in {"GET", "HEAD"} /\ url_ = "file"
      BY <2>2, <2>4 DEF Method, Url, Served
    <3> DEFINE r == Reply(answers + 1)
    <3>2. /\ answers' = answers + 1
          /\ outBuffer_' = outBuffer_ \o Response(answers + 1, method_)
          /\ state_' = "STATE_FINISH"
          /\ UNCHANGED <<sent, error_>>
      BY <1>6, <3>1 DEF Analyse
    <3>3. Response(answers + 1, method_) = r
      <4>1. StatusHead(answers + 1) = ReplyHead(answers + 1)
        <5>1. ("k" \in headtToValue_) <=> (Current.header = "k")
          BY <1>9
        <5> QED
          BY <5>1 DEF StatusHead, ReplyHead, Current
      <4>2. Current.line = Requests[answers + 1].line
        BY DEF Current
      <4> HIDE DEF Current
      <4> DEFINE line == Requests[answers + 1].line
                 h == ReplyHead(answers + 1)
                 b == <<answers + 1, "body">>
      <4>3. r = CASE line \in {"GET", "GET :"} -> <<h, b>>
                  [] line = "HEAD" -> <<h>>
                  [] line = "POST" -> <<>>
                  [] OTHER -> <<<<0, "404">>, <<0, "page">>>>
        BY DEF Reply
      <4>4. Response(answers + 1, method_)
              = IF method_ = "HEAD" THEN <<h>> ELSE <<h, b>>
        BY <4>1 DEF Response
      <4>5. /\ line \in {"GET", "GET :", "HEAD"}
            /\ method_ = IF line = "HEAD" THEN "HEAD" ELSE "GET"
        BY <2>2, <2>4, <4>2 DEF Served, Method
      <4> HIDE DEF r, line, h, b
      <4> QED
        BY <4>3, <4>4, <4>5
    <3>4. r \in Seq(Units)
      BY <1>3, <2>1, ReplyType
    <3>5. RepliesTo(answers + 1) = RepliesTo(answers) \o r
      BY <1>3, <2>1, RepliesStep
    <3>6. Replies' = RepliesTo(answers + 1)
      BY <1>2, <3>2 DEF Replies, RepliesTo
    <3> HIDE DEF r
    <3>7. sent' \o outBuffer_' = Replies'
      <4>1. (sent \o outBuffer_) \o r = sent \o (outBuffer_ \o r)
        BY <1>3, <3>4, ConcatAssociative, SMTT(30)
      <4> QED
        BY <1>4, <3>2, <3>3, <3>5, <3>6, <4>1, RepliesAre
    <3>8. Progress'
      <4>1. 8 * (answers + 1) + 0 = 8 * answers + 8
        BY <1>3
      <4>2. Unparsed(0)' /\ answers' > 0
        BY <1>1, <1>2, <1>3, <1>9, <3>2, <4>1 DEF Unparsed
      <4> QED
        BY <1>1, <3>2, <4>2 DEF Progress
    <3>9. /\ answers' <= Len(Requests') /\ answers' > 0
          /\ \A j \in 1 .. answers' : Requests'[j].line \in Served
      <4>1. \A j \in 1 .. answers + 1 : j \in 1 .. answers \/ j = answers + 1
        BY <1>3
      <4>2. \A j \in 1 .. answers : Requests[j].line \in Served
        BY DEF Turns
      <4> QED
        BY <1>2, <1>3, <2>1, <2>4, <3>2, <4>1, <4>2 DEF Current
    <3>10. Turns'
      BY <1>1, <1>3, <1>4, <1>5, <1>6, <3>2, <3>7, <3>8, <3>9
         DEF Turns, Served
    <3>11. Calm => Calm'
      BY <1>1, <1>3, <3>2 DEF Calm
    <3> QED
      BY <3>10, <3>11
  <2>5. CASE Current.line \in {"GET no file", "GET empty file"}
    <3>1. method_ = "GET" /\ url_ \in {"no file", "empty file"}
      BY <2>2, <2>5 DEF Method, Url
    <3>2. /\ outBuffer_' = <<>> \/ outBuffer_' = outBuffer_
          /\ WritenPage("404") /\ error_' = TRUE
          /\ UNCHANGED <<answers, state_>>
      BY <1>6, <3>1 DEF Analyse, ErrorPage
    <3>3. Turns'
      BY <1>7, <3>2
    <3>4. ASSUME Undisturbed, Calm PROVE Calm'
      <4>1. outBuffer_ = <<>>
        BY <1>1, <3>4 DEF Calm
      <4>2. sent = Replies
        BY <1>3, <1>4, <4>1, ConcatEmptySeq
      <4>3. sent' = sent \o <<<<0, "404">>, <<0, "page">>>>
        BY <1>3, <1>4, <3>2, <3>4, PageIs DEF Undisturbed
      <4>4. UNCHANGED <<Replies, Current>>
        BY <3>2, TurnSame
      <4> QED
        BY <1>1, <1>2, <2>1, <2>5, <3>2, <3>4, <4>1, <4>2, <4>3, <4>4
           DEF Calm
    <3> QED
      BY <3>3, <3>4
  <2>6. Current.line # "POST"
    BY <1>9, <2>2 DEF Method
  <2> QED
    BY <2>1, <2>3, <2>4, <2>5, <2>6 DEF RequestLines, Served
<1> QED
  BY <1>1, <1>3, <1>4, <1>8, <1>9 DEF Progress

(* Undisturbed, handleWrite gets rid of all of it.                         *)
LEMMA CalmEnd ==
  ASSUME Undisturbed, Calm, ~error_, ~error_', NEW n \in 0 .. Len(outBuffer_),
         WriteOut(n), UNCHANGED eof,
         events_' = AfterWrite \/ events_' = AfterWrite \cup {"IN"},
         pc' \in {"conn", "read"}, pc' = "read" => inBuffer_' # <<>>
  PROVE  Calm'
<1>1. outBuffer_' = <<>> /\ UNCHANGED writeFailed
  <2>1. "short" \notin Trouble /\ "reset" \notin Trouble
    BY DEF Undisturbed
  <2> QED
    BY <2>1 DEF WriteOut
<1>2. "OUT" \notin events_'
  <2>1. "OUT" \notin events_
    BY DEF Calm
  <2>2. AfterWrite = events_ \/ AfterWrite = {}
    BY <1>1 DEF AfterWrite
  <2> QED
    BY ONLY <2>1, <2>2,
       events_' = AfterWrite \/ events_' = AfterWrite \cup {"IN"}
<1> QED
  BY <1>1, <1>2 DEF Calm

LEMMA EndTurns ==
  ASSUME Agreement, Whole, Turns, UNCHANGED scenario, End
  PROVE  Turns' /\ (Undisturbed /\ Calm => Calm')
<1>1. /\ UNCHANGED <<arrived, consumed, eof, error_, closed, answers>>
      /\ pc = "end"
  BY DEF End, net
<1>2. UNCHANGED <<Requests, Stream, Replies, Current>>
  BY <1>1, SameScenario, TurnSame
<1>3. WholeRequests(arrived)' /\ WholeRequests(consumed)'
  BY <1>1, <1>2 DEF Turns, WholeRequests
<1>4. /\ answers' <= Len(Requests')
      /\ \A j \in 1 .. answers' : Requests'[j].line \in Served
  BY <1>1, <1>2 DEF Turns
<1>5. CASE error_
  <2>1. /\ UNCHANGED <<inBuffer_, outBuffer_, sent, state_, events_>>
        /\ UNCHANGED <<method_, url_, writeFailed>> /\ pc' = "conn"
    BY <1>5 DEF End, buffers, parser
  <2>2. PagesAfter(Replies)'
    BY <1>2, <1>5, <2>1 DEF Turns, PagesAfter
  <2>3. /\ outBuffer_' # <<>> \/ "OUT" \in events_' => answers' > 0
        /\ method_' = "garbage" =>
             state_' \in {"STATE_PARSE_URL", "STATE_PARSE_HEADERS"}
    BY <1>1, <2>1 DEF Turns
  <2>4. Turns'
    BY <1>1, <1>3, <1>4, <1>5, <2>2, <2>3 DEF Turns, Served
  <2>5. ASSUME Calm PROVE Calm'
    <3>1. outBuffer_ = <<>>
      BY <1>1, <1>5, <2>5 DEF Calm, Agreement, StagesAgree
    <3> QED
      BY <1>1, <1>2, <2>1, <2>5, <3>1 DEF Calm
  <2> QED
    BY <2>4, <2>5
<1>6. CASE ~error_
  <2>1. PICK n \in 0 .. Len(outBuffer_) : WriteOut(n)
    BY <1>6 DEF End
  <2>2. /\ UNCHANGED inBuffer_
        /\ \/ /\ state_ = "STATE_FINISH" /\ method_' = "GET" /\ url_' = ""
              /\ headtToValue_' = {} /\ state_' = "STATE_PARSE_URL"
              /\ pc' = NextRequest /\ events_' = AfterWrite
           \/ /\ state_ # "STATE_FINISH" /\ pc' = "conn"
              /\ events_' = AfterWrite \cup {"IN"}
              /\ UNCHANGED <<method_, url_, state_, headtToValue_>>
    BY <1>6 DEF End, Reset, parser
  <2>3. /\ ~writeFailed /\ sent \o outBuffer_ = Replies /\ Progress
        /\ sent \in Seq(Units) /\ outBuffer_ \in Seq(Units)
    BY <1>1, <1>6, TurnsType DEF Turns
  <2>4. PICK rest \in Seq(Units) : /\ sent \o outBuffer_ = sent' \o rest
                                   /\ ~writeFailed' => outBuffer_' = rest
    BY <2>1, <2>3, WrittenIs
  <2>5. /\ sent' \in Seq(Units) /\ outBuffer_' \in Seq(Units)
        /\ outBuffer_ = <<>> => outBuffer_' = <<>>
        /\ writeFailed' \in BOOLEAN
    BY <1>6, <2>1, WriteOutIs
  <2>6. IF writeFailed' THEN IsPrefix(sent', Replies')
                        ELSE sent' \o outBuffer_' = Replies'
    <3>1. Replies' = sent' \o rest
      BY <1>2, <2>3, <2>4
    <3>2. IsPrefix(sent', sent' \o rest)
      BY <2>4, <2>5, PrefixOfConcat
    <3> QED
      BY <2>4, <3>1, <3>2
  <2>7. outBuffer_' # <<>> \/ "OUT" \in events_' => answers' > 0
    <3>1. outBuffer_ # <<>> \/ "OUT" \in events_ => answers > 0
      BY DEF Turns
    <3>2. AfterWrite = (IF outBuffer_ = <<>> THEN events_
                        ELSE IF outBuffer_' = <<>> THEN {}
                        ELSE events_ \cup {"OUT"})
      BY DEF AfterWrite
    <3>3. events_' = AfterWrite \/ events_' = AfterWrite \cup {"IN"}
      BY <2>2
    <3>4. "OUT" \in events_' => outBuffer_ # <<>> \/ "OUT" \in events_
      BY ONLY <3>2, <3>3
    <3> QED
      BY <1>1, <2>5, <3>1, <3>4
  <2>8. Unparsed(0) => Unparsed(0)'
    BY <1>1, <1>2, <2>2 DEF Unparsed
  <2>9. CASE state_ = "STATE_FINISH"
    <3>1. Unparsed(0) /\ answers > 0
      BY <1>1, <2>3, <2>9 DEF Progress
    <3>2. /\ state_' = "STATE_PARSE_URL" /\ pc' \in {"conn", "read"}
          /\ pc' = "read" => inBuffer_' # <<>>
          /\ method_' = "GET"
      BY <2>2, <2>9 DEF NextRequest
    <3>3. Fresh'
      BY <2>2, <2>8, <2>9, <3>1 DEF Fresh
    <3>4. Progress'
      BY <1>1, <3>1, <3>2, <3>3 DEF Progress
    <3>5. Turns'
      BY <1>1, <1>3, <1>4, <1>6, <2>6, <2>7, <3>2, <3>4 DEF Turns, Served
    <3>6. events_' = AfterWrite \/ events_' = AfterWrite \cup {"IN"}
      BY <2>2
    <3>7. pc' \in {"conn", "read"} /\ (pc' = "read" => inBuffer_' # <<>>)
      BY <3>2
    <3>8. Undisturbed /\ Calm => Calm'
      BY <1>1, <1>6, <2>1, <3>6, <3>7, CalmEnd
    <3> QED
      BY <3>5, <3>8
  <2>10. CASE state_ # "STATE_FINISH"
    <3>1. /\ state_ = "STATE_RECV_BODY"
          /\ answers < Len(Requests) /\ Current.line = "POST"
      BY <1>1, <2>3, <2>10 DEF Progress
    <3>2. /\ pc' = "conn" /\ UNCHANGED <<method_, state_, url_>>
      BY <2>2, <2>10
    <3>3. Progress'
      BY <1>1, <1>2, <3>1, <3>2 DEF Progress
    <3>4. method_' # "garbage"
      BY <3>1, <3>2 DEF Turns
    <3>5. Turns'
      BY <1>1, <1>3, <1>4, <1>6, <2>6, <2>7, <3>2, <3>3, <3>4
         DEF Turns, Served
    <3>6. events_' = AfterWrite \/ events_' = AfterWrite \cup {"IN"}
      BY <2>2
    <3>7. pc' \in {"conn", "read"} /\ (pc' = "read" => inBuffer_' # <<>>)
      BY <3>2
    <3>8. Undisturbed /\ Calm => Calm'
      BY <1>1, <1>6, <2>1, <3>6, <3>7, CalmEnd
    <3> QED
      BY <3>5, <3>8
  <2> QED
    BY <2>9, <2>10
<1> QED
  BY <1>5, <1>6, TurnsType

LEMMA StutterTurns ==
  ASSUME Turns, UNCHANGED vars
  PROVE  Turns' /\ (Calm => Calm')
<1>1. /\ UNCHANGED <<scenario, net, buffers, parser, error_, events_, pc>>
      /\ UNCHANGED <<closed, answers, writeFailed>>
  BY DEF vars
<1>2. UNCHANGED <<arrived, consumed, eof>>
  BY <1>1 DEF net
<1>3. /\ UNCHANGED <<Requests, Current, Fresh, Understood>>
      /\ UNCHANGED <<Unparsed(0), Unparsed(3), Unparsed(6), Unparsed(8)>>
      /\ UNCHANGED <<inBuffer_, outBuffer_, state_, method_, url_>>
      /\ UNCHANGED headtToValue_
  BY <1>1, <1>2, SameProgress
<1>4. WholeRequests(arrived)'
  BY <1>2, <1>3 DEF Turns, WholeRequests
<1>5. Progress => Progress'
  BY <1>1, <1>2, <1>3 DEF Progress
<1>6. Turns'
  BY <1>1, <1>2, <1>4, <1>5, QuietTurns DEF Turns
<1>7. UNCHANGED <<Replies, Current>>
  BY <1>1, TurnSame
<1>8. UNCHANGED sent
  BY <1>1 DEF buffers
<1>9. Calm => Calm'
  BY <1>1, <1>2, <1>3, <1>7, <1>8 DEF Calm
<1> QED
  BY <1>6, <1>9

LEMMA InitTurns == Init => Turns /\ Calm
<1> SUFFICES ASSUME Init PROVE Turns /\ Calm
  OBVIOUS
<1>1. Len(Requests) \in Nat /\ Stream \in Seq(Tokens)
  BY RequestsType DEF Init
<1>2. /\ arrived = 0 /\ consumed = 0 /\ answers = 0 /\ ~eof /\ ~writeFailed
      /\ inBuffer_ = <<>> /\ outBuffer_ = <<>> /\ sent = <<>>
      /\ ~error_ /\ events_ = {"IN"} /\ state_ = "STATE_PARSE_URL"
      /\ pc = "idle" /\ headtToValue_ = {}
  BY DEF Init
<1>3. url_ = ""
  BY DEF Init
<1>4. WholeRequests(arrived) /\ WholeRequests(consumed)
  <2>1. 0 \in 0 .. Len(Requests) /\ 0 = 8 * 0
    BY <1>1
  <2> QED
    BY <1>2, <2>1 DEF WholeRequests
<1>5. Replies = <<>>
  BY <1>2, RepliesZero, RepliesAre
<1>6. Progress
  <2>1. SubSeq(Stream, 8 * 0 + 0 + 1, 0) = <<>>
    <3>1. 8 * 0 + 0 + 1 = 1 /\ SubSeq(Stream, 1, 0) = <<>>
      BY SubSeqEmpty
    <3> QED
      BY <3>1
  <2>2. 8 * 0 + 0 <= 0
    OBVIOUS
  <2>3. Unparsed(0)
    BY <1>2, <2>1, <2>2 DEF Unparsed
  <2>4. Fresh
    <3>1. ~(answers > 0)
      BY <1>2
    <3> QED
      BY <1>2, <1>3, <2>3, <3>1 DEF Fresh
  <2> QED
    BY <1>2, <2>4 DEF Progress
<1>7. sent \o outBuffer_ = Replies
  <2>1. <<>> \o <<>> = <<>>
    BY EmptySeq, ConcatEmptySeq
  <2> QED
    BY <1>2, <1>5, <2>1
<1>8. answers <= Len(Requests)
  BY <1>1, <1>2
<1>9. \A j \in 1 .. answers : Requests[j].line \in Served
  BY <1>2
<1>10. Turns
  BY <1>2, <1>4, <1>6, <1>7, <1>8, <1>9 DEF Turns
<1>11. Calm
  BY <1>2, <1>3 DEF Calm
<1> QED
  BY <1>10, <1>11

LEMMA NextTurns ==
  ASSUME Agreement, InTurn, [Next]_vars
  PROVE  InTurn'
<1>1. UNCHANGED scenario
  BY DEF Next, Handler, Peer, vars
<1>2. UNCHANGED <<Whole, Undisturbed>>
  BY <1>1, SameScenario
<1> SUFFICES ASSUME Whole PROVE Turns' /\ (Undisturbed => Calm')
  BY <1>2 DEF InTurn, Undisturbed
<1>3. Turns /\ (Undisturbed => Calm)
  BY DEF InTurn
<1>4. CASE Handler
  <2>1. CASE Event
    BY <1>1, <1>3, <2>1, EventTurns
  <2>2. CASE Read
    BY <1>1, <1>3, <2>2, ReadTurns
  <2>3. CASE ParseUrl
    BY <1>1, <1>3, <2>3, ParseUrlTurns
  <2>4. CASE ParseHeaders
    BY <1>1, <1>3, <2>4, ParseHeadersTurns
  <2>5. CASE Analyse
    BY <1>1, <1>3, <2>5, AnalyseTurns
  <2>6. CASE End
    BY <1>1, <1>3, <2>6, EndTurns
  <2>7. CASE Conn
    BY <1>1, <1>3, <2>7, ConnTurns
  <2> QED
    BY <1>4, <2>1, <2>2, <2>3, <2>4, <2>5, <2>6, <2>7 DEF Handler
<1>5. CASE Peer
  BY <1>1, <1>3, <1>5, ArriveTurns DEF Peer
<1>6. CASE PeerCloses
  <2>1. ~Undisturbed
    BY <1>6 DEF Undisturbed, PeerCloses
  <2> QED
    BY <1>1, <1>3, <1>6, <2>1, PeerClosesTurns
<1>7. CASE Expires
  <2>1. ~Undisturbed
    BY <1>7 DEF Undisturbed, Expires
  <2> QED
    BY <1>1, <1>3, <1>7, <2>1, ExpiresTurns
<1>8. CASE UNCHANGED vars
  BY <1>3, <1>8, StutterTurns
<1> QED
  BY <1>4, <1>5, <1>6, <1>7, <1>8 DEF Next
-----------------------------------------------------------------------------
(***************************************************************************)
(* What the replies so far are of what is owed: a prefix.                  *)
(***************************************************************************)
Continues(n, d) ==
  n + d <= Len(Requests) =>
    \E t \in Seq(Units) : RepliesTo(n + d) = RepliesTo(n) \o t

LEMMA RepliesContinue ==
  ASSUME Requests \in Seq(RequestKinds), NEW n \in Nat, NEW m \in Nat,
         n <= m, m <= Len(Requests)
  PROVE  \E t \in Seq(Units) : RepliesTo(m) = RepliesTo(n) \o t
<1> DEFINE I == {d \in Nat : Continues(n, d)}
<1>1. Len(Requests) \in Nat /\ n \in 0 .. Len(Requests)
  BY LenProperties
<1>2. RepliesTo(n) \in Seq(Units)
  BY <1>1, RepliesToType
<1>3. 0 \in I
  <2>1. RepliesTo(n) \o <<>> = RepliesTo(n) /\ <<>> \in Seq(Units)
    BY <1>2, ConcatEmptySeq, EmptySeq
  <2>2. n + 0 = n
    OBVIOUS
  <2>3. Continues(n, 0)
    BY <2>1, <2>2 DEF Continues
  <2> QED
    BY <2>3
<1>4. ASSUME NEW d \in I PROVE d + 1 \in I
  <2>1. d \in Nat /\ Continues(n, d)
    OBVIOUS
  <2>2. Continues(n, d + 1)
    <3> SUFFICES ASSUME n + (d + 1) <= Len(Requests)
                 PROVE  \E t \in Seq(Units) :
                          RepliesTo(n + (d + 1)) = RepliesTo(n) \o t
      BY DEF Continues
    <3> DEFINE k == n + d
    <3>1. /\ k \in Nat /\ k < Len(Requests) /\ n + (d + 1) = k + 1
          /\ k + 1 \in 1 .. Len(Requests)
      BY <1>1, <2>1
    <3>2. PICK t \in Seq(Units) : RepliesTo(k) = RepliesTo(n) \o t
      BY <1>1, <2>1, <3>1, SMTT(30) DEF Continues
    <3> HIDE DEF k
    <3>3. /\ RepliesTo(k + 1) = RepliesTo(k) \o Reply(k + 1)
          /\ Reply(k + 1) \in Seq(Units)
      BY <3>1, RepliesStep, ReplyType
    <3>4. (RepliesTo(n) \o t) \o Reply(k + 1)
            = RepliesTo(n) \o (t \o Reply(k + 1))
      <4>1. /\ RepliesTo(n) \in Seq(Units) /\ t \in Seq(Units)
            /\ Reply(k + 1) \in Seq(Units)
        BY <1>2, <3>3
      <4> QED
        BY ONLY <4>1, ConcatAssociative, SMTT(30)
    <3>5. t \o Reply(k + 1) \in Seq(Units)
      BY <3>3, ConcatProperties
    <3> QED
      BY <3>1, <3>2, <3>3, <3>4, <3>5
  <2>3. d + 1 \in Nat
    BY <2>1
  <2> QED
    BY <2>2, <2>3
<1> HIDE DEF I
<1>5. I = Nat
  <2>1. I \in SUBSET Nat
    BY DEF I
  <2> QED
    BY <1>3, <1>4, <2>1, SetInduction
<1>6. m - n \in Nat /\ n + (m - n) = m
  OBVIOUS
<1>7. Continues(n, m - n)
  BY <1>5, <1>6 DEF I
<1> QED
  BY <1>6, <1>7 DEF Continues

(* The requests that can be answered come first.                           *)
LEMMA AnswerableIs ==
  ASSUME Requests \in Seq(RequestKinds)
  PROVE  /\ Cardinality(Answerable) \in Nat
         /\ Cardinality(Answerable) <= Len(Requests)
         /\ Answerable = 1 .. Cardinality(Answerable)
<1> DEFINE L == Len(Requests)
           Good == Served
           B == {i \in 1 .. L : Requests[i].line \notin Good}
<1>1. L \in Nat /\ DOMAIN Requests = 1 .. L
  BY LenProperties
<1>2. Answerable =
        {i \in 1 .. L : \A j \in 1 .. i - 1 : Requests[j].line \in Good}
  BY <1>1 DEF Answerable
<1>3. \E k \in 0 .. L : Answerable = 1 .. k
  <2> HIDE DEF Good, L
  <2>1. CASE B = {}
    <3>1. \A i \in 1 .. L : \A j \in 1 .. i - 1 : j \in 1 .. L
      BY <1>1
    <3>2. Answerable = 1 .. L
      BY <1>2, <2>1, <3>1
    <3> QED
      BY <1>1, <3>2
  <2>2. CASE B # {}
    <3>1. PICK b \in B : \A k \in B : b <= k
      <4>1. B \in SUBSET Nat
        OBVIOUS
      <4> QED
        BY <2>2, <4>1, LeastNumber
    <3>2. b \in 1 .. L /\ Requests[b].line \notin Good
      OBVIOUS
    <3>3. \A j \in 1 .. L : j < b => Requests[j].line \in Good
      BY <3>1, <3>2
    <3>4. ASSUME NEW i \in 1 .. b PROVE i \in Answerable
      <4>1. i \in 1 .. L
        BY <1>1, <3>2
      <4>2. \A j \in 1 .. i - 1 : j \in 1 .. L /\ j < b
        BY <1>1, <3>2
      <4> QED
        BY <1>2, <3>3, <4>1, <4>2
    <3>5. ASSUME NEW i \in Answerable PROVE i \in 1 .. b
      <4>1. i \in 1 .. L /\ \A j \in 1 .. i - 1 : Requests[j].line \in Good
        BY <1>2
      <4>2. ~(b < i)
        <5>1. b < i => b \in 1 .. i - 1
          BY <3>2, <4>1
        <5> QED
          BY <3>2, <4>1, <5>1
      <4> QED
        BY <3>2, <4>1, <4>2
    <3>6. Answerable = 1 .. b
      BY <3>4, <3>5
    <3>7. b \in 0 .. L
      BY <3>2
    <3> QED
      BY <3>6, <3>7
  <2> QED
    BY <2>1, <2>2
<1>4. PICK k \in 0 .. L : Answerable = 1 .. k
  BY <1>3
<1>5. Cardinality(1 .. k) = k
  BY <1>1, <1>4, FS_Interval
<1> QED
  BY <1>1, <1>4, <1>5

LEMMA PrefixOfOwed ==
  ASSUME Requests \in Seq(RequestKinds), NEW n \in 0 .. Len(Requests),
         \A i \in 1 .. n : i \in Answerable
  PROVE  \E t \in Seq(Units) : Owed = RepliesTo(n) \o t
<1> DEFINE m == Cardinality(Answerable)
<1>1. /\ m \in Nat /\ m <= Len(Requests) /\ Answerable = 1 .. m
  BY AnswerableIs
<1>2. n \in Nat /\ n <= m
  <2>1. n \in Nat
    OBVIOUS
  <2>2. n = 0 \/ n \in 1 .. n
    OBVIOUS
  <2> HIDE DEF m
  <2> QED
    BY <1>1, <2>1, <2>2
<1>3. Owed = RepliesTo(m)
  BY DEF Owed, RepliesTo
<1> HIDE DEF m
<1> QED
  BY <1>1, <1>2, <1>3, RepliesContinue

LEMMA OwedAfterReplies ==
  ASSUME Agreement, Turns, NEW n \in 0 .. Len(Requests), n <= answers + 1
  PROVE  /\ RepliesTo(n) \in Seq(Units)
         /\ \E t \in Seq(Units) : Owed = RepliesTo(n) \o t
<1>1. /\ Requests \in Seq(RequestKinds) /\ Len(Requests) \in Nat
      /\ answers \in Nat /\ DOMAIN Requests = 1 .. Len(Requests)
  BY TurnsType, LenProperties
<1>2. \A j \in 1 .. answers : Requests[j].line \in Served
  BY DEF Turns
<1>3. ASSUME NEW i \in 1 .. n PROVE i \in Answerable
  <2>1. i \in 1 .. Len(Requests)
    BY <1>1
  <2>2. \A j \in 1 .. i - 1 : j \in 1 .. answers
    BY <1>1
  <2> QED
    BY <1>1, <1>2, <2>1, <2>2 DEF Answerable
<1> QED
  BY <1>1, <1>3, PrefixOfOwed, RepliesToType

(* A prefix of a prefix is one.                                            *)
LEMMA PrefixOfPrefix ==
  ASSUME NEW S, NEW s \in Seq(S), NEW t \in Seq(S), NEW r \in Seq(S),
         IsPrefix(s, t)
  PROVE  IsPrefix(s, t \o r)
<1> DEFINE u == t \o r
<1>1. /\ Len(s) \in Nat /\ Len(t) \in Nat /\ Len(s) <= Len(t)
      /\ SubSeq(s, 1, Len(s)) = SubSeq(t, 1, Len(s))
  BY LenProperties DEF IsPrefix
<1>2. /\ u \in Seq(S) /\ Len(u) \in Nat /\ Len(u) = Len(t) + Len(r)
      /\ Len(r) \in Nat
      /\ \A i \in 1 .. Len(t) : u[i] = t[i]
  BY ConcatProperties, LenProperties
<1> HIDE DEF u
<1>3. Len(s) <= Len(u)
  BY <1>1, <1>2
<1>4. SubSeq(t, 1, Len(s)) = SubSeq(u, 1, Len(s))
  <2> DEFINE v == SubSeq(t, 1, Len(s))
             w == SubSeq(u, 1, Len(s))
  <2>1. /\ v \in Seq(S) /\ Len(v) = Len(s)
        /\ \A i \in 1 .. Len(s) : v[i] = t[i]
    BY <1>1, SubSeqProperties
  <2>2. /\ w \in Seq(S) /\ Len(w) = Len(s)
        /\ \A i \in 1 .. Len(s) : w[i] = u[i]
    BY <1>1, <1>2, <1>3, SubSeqProperties
  <2>3. \A i \in 1 .. Len(s) : i \in 1 .. Len(t)
    BY <1>1
  <2> HIDE DEF v, w
  <2>4. v = w
    BY <1>2, <2>1, <2>2, <2>3, SeqEqual
  <2> QED
    BY <2>4 DEF v, w
<1> QED
  BY <1>1, <1>3, <1>4 DEF IsPrefix, u

(* What a peer got of its replies is of what it is owed.                   *)
LEMMA RepliesAreOwed ==
  ASSUME Agreement, Turns, NEW s \in Seq(Units), IsPrefix(s, Replies)
  PROVE  IsPrefix(s, Owed)
<1>1. answers \in 0 .. Len(Requests) /\ answers <= answers + 1
  BY TurnsType
<1>2. PICK t \in Seq(Units) : Owed = Replies \o t
  BY <1>1, OwedAfterReplies, RepliesAre
<1> QED
  BY <1>2, RepliesType, PrefixOfPrefix

LEMMA CalmAnswersInTurn ==
  ASSUME Agreement, Turns, Calm
  PROVE  AnswersInTurn
<1>1. CASE ~error_
  BY <1>1, SentIs, TurnsType, RepliesAreOwed DEF AnswersInTurn
<1>2. CASE error_
  <2>1. /\ answers < Len(Requests)
        /\ Current.line \in {"GET no file", "GET empty file"}
        /\ sent = Replies \o <<<<0, "404">>, <<0, "page">>>>
    BY <1>2 DEF Calm
  <2>2. Reply(answers + 1) = <<<<0, "404">>, <<0, "page">>>>
    BY <2>1 DEF Reply, Current
  <2>3. /\ answers \in Nat /\ answers + 1 \in 0 .. Len(Requests)
        /\ answers + 1 <= answers + 1 /\ Requests \in Seq(RequestKinds)
    <3>1. /\ answers \in Nat /\ Len(Requests) \in Nat
          /\ answers < Len(Requests) /\ Requests \in Seq(RequestKinds)
      BY <2>1, TurnsType
    <3> QED
      BY ONLY <3>1
  <2>4. sent = RepliesTo(answers + 1)
    <3>1. RepliesTo(answers + 1) = RepliesTo(answers) \o Reply(answers + 1)
      BY <2>1, <2>3, RepliesStep
    <3> QED
      BY <2>1, <2>2, <3>1, RepliesAre
  <2>5. PICK t \in Seq(Units) : Owed = RepliesTo(answers + 1) \o t
    BY <2>3, OwedAfterReplies
  <2> QED
    BY <2>4, <2>5, TurnsType, PrefixOfConcat DEF AnswersInTurn
<1> QED
  BY <1>1, <1>2

LEMMA TurnsOwn ==
  ASSUME Agreement, Turns
  PROVE  PagesAfter(Owed)
<1>1. sent \in Seq(Units) /\ Len(sent) \in Nat
  BY TurnsType, LenProperties
<1>2. CASE error_
  <2>1. PICK n \in 0 .. Len(sent) :
          /\ IsPrefix(SubSeq(sent, 1, n), Replies)
          /\ \A i \in n + 1 .. Len(sent) : sent[i][1] = 0
    BY <1>2 DEF Turns, PagesAfter
  <2>2. SubSeq(sent, 0 + 1, n) \in Seq(Units) /\ 0 + 1 = 1
    BY <1>1, PartOf
  <2>3. IsPrefix(SubSeq(sent, 1, n), Owed)
    BY <2>1, <2>2, RepliesAreOwed
  <2> QED
    BY <2>1, <2>3 DEF PagesAfter
<1>3. CASE ~error_
  <2>1. IsPrefix(sent, Owed)
    BY <1>1, <1>3, SentIs, RepliesAreOwed
  <2>2. SubSeq(sent, 1, Len(sent)) = sent
    BY <1>1, SubSeqFull
  <2>3. Len(sent) \in 0 .. Len(sent)
    BY <1>1
  <2>4. \A i \in Len(sent) + 1 .. Len(sent) : sent[i][1] = 0
    BY <1>1
  <2> QED
    BY <2>1, <2>2, <2>3, <2>4 DEF PagesAfter
<1> QED
  BY <1>2, <1>3
-----------------------------------------------------------------------------
(***************************************************************************)
(* The theorems.                                                           *)
(***************************************************************************)

(* The inductive invariant: HttpData's stages, error_, method_ and buffers *)
(* agree with what the peer has sent, whatever the requests, segments,     *)
(* writes and interruptions are; whole requests are parsed and answered in *)
(* turn, and those of an undisturbed session without an error of their own *)
(* (handleRead).                                                           *)
THEOREM SessionInvariant == Spec => []IInv
<1>1. Init => IInv
  BY InitAgrees, InitTurns DEF IInv, InTurn
<1>2. IInv /\ [Next]_vars => IInv'
  BY NextAgrees, NextTurns DEF IInv
<1> QED
  BY <1>1, <1>2, PTL DEF Spec

(* Every variable of a connection keeps its type (HttpData's constructor   *)
(* and handlers).                                                          *)
THEOREM TypeCorrect == Spec => []TypeOK
<1>1. IInv => TypeOK
  BY DEF IInv, Agreement
<1> QED
  BY <1>1, SessionInvariant, PTL

(* handleRead answers a peer that is not disturbed with what it is owed,   *)
(* in turn, however its requests are pipelined (handleRead, reset).        *)
THEOREM RightAnswersHolds == Spec => []RightAnswers
<1>1. IInv => RightAnswers
  BY CalmAnswersInTurn DEF IInv, InTurn, RightAnswers, Undisturbed
<1> QED
  BY <1>1, SessionInvariant, PTL

(* A peer that sends whole requests gets the beginning of what it is owed, *)
(* and then at most an error page, whatever goes wrong (handleWrite,       *)
(* writen, reset, handleError).                                            *)
THEOREM OwnAnswersHolds == Spec => []OwnAnswers
<1>1. IInv => OwnAnswers
  BY TurnsOwn DEF IInv, InTurn, OwnAnswers
<1> QED
  BY <1>1, SessionInvariant, PTL

(* Nothing follows an error page (handleError, handleConn).                *)
THEOREM ErrorIsLastHolds == Spec => []ErrorIsLast
<1>1. IInv => ErrorIsLast
  BY DEF IInv, Agreement
<1> QED
  BY <1>1, SessionInvariant, PTL

(* For each answer a line with two blanks was read, wherever the segments  *)
(* end (parseURL, analysisRequest, reset).                                 *)
THEOREM LinePerAnswerHolds == Spec => []LinePerAnswer
<1>1. ASSUME IInv PROVE LinePerAnswer
  <2>1. /\ Stream \in Seq(Tokens) /\ Len(Stream) \in Nat
        /\ inBuffer_ \in Seq(Tokens) /\ Len(Requests) \in Nat
        /\ arrived \in 0 .. Len(Stream) /\ consumed \in 0 .. arrived
        /\ answers \in Nat
    BY <1>1, RequestsType, LenProperties DEF IInv, Agreement, TypeOK
  <2>2. consumed \in 0 .. Len(Stream) /\ answers \in Nat
    BY <2>1
  <2>3. /\ Lines(SubSeq(Stream, 1, consumed)) \in Nat
        /\ Lines(SubSeq(Stream, 1, consumed)) =
             Cardinality({i \in 1 .. consumed : Stream[i] \in TwoBlanks})
        /\ Lines(inBuffer_) \in Nat
    BY <2>1, <2>2, LinesPart, LinesType
  <2>4. answers + InHand + Lines(inBuffer_)
          <= Lines(SubSeq(Stream, 1, consumed))
    BY <1>1 DEF IInv, Agreement, LinesAgree
  <2>5. InHand \in 0 .. 1
    BY DEF InHand
  <2>6. answers <= Lines(SubSeq(Stream, 1, consumed))
    BY <2>2, <2>3, <2>4, <2>5
  <2> QED
    BY <2>3, <2>6 DEF LinePerAnswer
<1> QED
  BY <1>1, SessionInvariant, PTL

(* With methods the parser knows, no file is served on a method_ that was  *)
(* never assigned, wherever segments end; and if they hold whole requests, *)
(* nothing is decided on it (parseURL, parseHeaders, analysisRequest).     *)
THEOREM MethodAssignedHolds == Spec => []MethodAssigned
<1>1. ASSUME IInv, KnownMethods, method_ = "garbage"
      PROVE  answers = 0
  BY <1>1 DEF IInv, Agreement, MethodAgrees
<1>2. ASSUME IInv, KnownMethods, method_ = "garbage", ~scenario.cut
      PROVE  state_ \in {"STATE_PARSE_URL", "STATE_PARSE_HEADERS"}
  BY <1>2 DEF IInv, InTurn, Whole, Turns
<1>3. IInv => MethodAssigned
  BY <1>1, <1>2 DEF MethodAssigned
<1> QED
  BY <1>3, SessionInvariant, PTL
=============================================================================
