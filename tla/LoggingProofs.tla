--------------------------- MODULE LoggingProofs ---------------------------
(***************************************************************************)
(* Proofs about Logging: what AsyncLoggingProofs shows of any messages for *)
(* the log statements of the program, and that the lines these build are   *)
(* sound (LinesSound).                                                     *)
(*                                                                         *)
(* FoldLeft, by which a line is built, goes over a set of indices, always  *)
(* taking out the last: the first lemmas say what it does to a sequence,   *)
(* piece by piece.  Their inductions are over the set of the numbers of    *)
(* which something holds (FlattenFacts).                                   *)
(***************************************************************************)
EXTENDS Logging, AsyncLoggingProofs

LEMMA MaxIs ==
  ASSUME NEW n \in Nat, NEW t \in SUBSET (1 .. n + 1), n + 1 \in t
  PROVE  Max(t) = n + 1
<1>1. n + 1 \in t /\ \A y \in t : n + 1 >= y
  OBVIOUS
<1>2. ASSUME NEW x \in t, \A y \in t : x >= y
      PROVE  x = n + 1
  BY <1>2
<1> QED
  BY <1>1, <1>2 DEF Max

(* g is the function that a fold over 1 .. n defines, or would define, if  *)
(* step[i] is what the i-th element does to a value.                       *)
Folding(n, base, step, g) ==
  g = [t \in SUBSET (1 .. n) |->
         IF t = {} THEN base ELSE step[Max(t)][g[t \ {Max(t)}]]]

(* The subsets that do not have the last element are those there were.     *)
LEMMA SubsetsWithout ==
  ASSUME NEW n \in Nat, NEW t \in SUBSET (1 .. n + 1), n + 1 \notin t
  PROVE  t \in SUBSET (1 .. n)
<1>1. ASSUME NEW x \in t PROVE x \in 1 .. n
  BY <1>1
<1> QED
  BY <1>1

LEMMA FoldingLonger ==
  ASSUME NEW V, NEW base \in V, NEW step \in [Nat -> [V -> V]], NEW n \in Nat,
         NEW h \in [SUBSET (1 .. n) -> V], Folding(n, base, step, h)
  PROVE  \E g \in [SUBSET (1 .. n + 1) -> V] : Folding(n + 1, base, step, g)
<1> DEFINE D == SUBSET (1 .. n + 1)
           g == [t \in D |-> IF n + 1 \in t THEN step[n + 1][h[t \ {n + 1}]]
                                            ELSE h[t]]
           value(t) == IF t = {} THEN base ELSE step[Max(t)][g[t \ {Max(t)}]]
<1>1. ASSUME NEW t \in D PROVE g[t] \in V /\ g[t] = value(t)
  <2>1. CASE n + 1 \in t
    <3>1. /\ Max(t) = n + 1 /\ t # {} /\ t \ {n + 1} \in D
          /\ t \ {n + 1} \in SUBSET (1 .. n)
      BY <2>1, MaxIs, SubsetsWithout
    <3>2. g[t] = step[n + 1][h[t \ {n + 1}]]
      BY <2>1
    <3>3. g[t \ {n + 1}] = h[t \ {n + 1}]
      BY <3>1
    <3>4. h[t \ {n + 1}] \in V /\ step[n + 1] \in [V -> V]
      BY <3>1
    <3> HIDE DEF g
    <3> QED
      BY <3>1, <3>2, <3>3, <3>4
  <2>2. CASE n + 1 \notin t
    <3>1. t \in SUBSET (1 .. n) /\ g[t] = h[t]
      BY <2>2, SubsetsWithout
    <3>2. h[t] = IF t = {} THEN base ELSE step[Max(t)][h[t \ {Max(t)}]]
      BY <3>1 DEF Folding
    <3>3. /\ t \ {Max(t)} \in SUBSET (1 .. n) /\ t \ {Max(t)} \in D
          /\ n + 1 \notin t \ {Max(t)}
      BY <2>2, <3>1
    <3>4. g[t \ {Max(t)}] = h[t \ {Max(t)}]
      BY <3>3
    <3> HIDE DEF g
    <3> QED
      BY <3>1, <3>2, <3>4
  <2> QED
    BY <2>1, <2>2
<1>2. g = [t \in D |-> value(t)]
  <2>1. g = [t \in D |-> g[t]]
    OBVIOUS
  <2> HIDE DEF g
  <2> QED
    BY <1>1, <2>1
<1>3. g \in [D -> V]
  BY <1>1
<1> HIDE DEF g
<1> QED
  BY <1>2, <1>3 DEF Folding

LEMMA FoldingExists ==
  ASSUME NEW V, NEW base \in V, NEW step \in [Nat -> [V -> V]], NEW n \in Nat
  PROVE  \E g \in [SUBSET (1 .. n) -> V] : Folding(n, base, step, g)
<1> DEFINE I == {k \in Nat : \E g \in [SUBSET (1 .. k) -> V] :
                               Folding(k, base, step, g)}
<1>1. 0 \in I
  <2> DEFINE g == [t \in SUBSET (1 .. 0) |-> base]
  <2>1. \A t \in SUBSET (1 .. 0) : t = {}
    OBVIOUS
  <2>2. g \in [SUBSET (1 .. 0) -> V] /\ Folding(0, base, step, g)
    BY <2>1 DEF Folding
  <2> QED
    BY <2>2
<1>2. ASSUME NEW k \in I PROVE k + 1 \in I
  <2>1. PICK h \in [SUBSET (1 .. k) -> V] : Folding(k, base, step, h)
    OBVIOUS
  <2>2. k \in Nat
    OBVIOUS
  <2>3. \E g \in [SUBSET (1 .. k + 1) -> V] : Folding(k + 1, base, step, g)
    BY <2>1, <2>2, FoldingLonger
  <2> QED
    BY <2>2, <2>3
<1> HIDE DEF I
<1>3. I = Nat
  <2>1. I \in SUBSET Nat
    BY DEF I
  <2> QED
    BY <1>1, <1>2, <2>1, SetInduction
<1> QED
  BY <1>3 DEF I

(* The fold takes the last out of 1 .. k, down to 1 .. 0.                  *)
LEMMA InitialSets ==
  ASSUME NEW n \in Nat
  PROVE  /\ 1 .. 0 = {} /\ 1 .. 0 \in SUBSET (1 .. n)
         /\ \A k \in 1 .. n :
              /\ 1 .. k \in SUBSET (1 .. n) /\ 1 .. k # {}
              /\ Max(1 .. k) = k /\ (1 .. k) \ {k} = 1 .. k - 1
<1>1. ASSUME NEW k \in 1 .. n
      PROVE  /\ 1 .. k \in SUBSET (1 .. n) /\ 1 .. k # {}
             /\ Max(1 .. k) = k /\ (1 .. k) \ {k} = 1 .. k - 1
  <2>1. 1 .. k \in SUBSET (1 .. n) /\ k \in 1 .. k
    BY <1>1
  <2>2. (1 .. k) \ {k} = 1 .. k - 1
    BY <1>1
  <2>3. k - 1 \in Nat /\ (k - 1) + 1 = k
    BY <1>1
  <2>4. Max(1 .. k) = k
    BY <2>1, <2>3, MaxIs
  <2> QED
    BY <2>1, <2>2, <2>4
<1> QED
  BY <1>1

LEMMA MaxInSet ==
  ASSUME NEW n \in Nat, NEW t \in SUBSET (1 .. n), t # {}
  PROVE  Max(t) \in t
<1> DEFINE below == {n - x : x \in t}
<1>1. below \in SUBSET Nat /\ below # {}
  <2>1. ASSUME NEW x \in t PROVE n - x \in Nat
    BY <2>1
  <2> QED
    BY <2>1
<1>2. PICK m \in below : \A k \in below : m <= k
  BY <1>1, LeastNumber
<1>3. PICK x \in t : m = n - x
  BY <1>2
<1>4. ASSUME NEW y \in t PROVE x >= y
  <2>1. n - y \in below
    OBVIOUS
  <2>2. m <= n - y
    BY <1>2, <2>1
  <2> QED
    BY <1>3, <2>2
<1> QED
  BY <1>4 DEF Max
-----------------------------------------------------------------------------
LineBuffers == [data : Seq(Addable), cur : Nat]

LEMMA PieceIs ==
  ASSUME NEW p \in Addable
  PROVE  /\ p.len \in Nat
         /\ p.kind = "double" => p.len < NumericSize
         /\ SmallBuffer \in Nat /\ NumericSize \in 1 .. SmallBuffer
BY StreamAssumption DEF Addable

LEMMA EmptyLine == LB!Empty \in LineBuffers /\ LB!Empty.cur = 0
                   /\ LB!Empty.data = <<>>
BY EmptySeq DEF LB!Empty, LineBuffers

(* What one piece does to a line: it is added at the end, or left out.     *)
LEMMA AddIs ==
  ASSUME NEW b \in LineBuffers, NEW p \in Addable
  PROVE  /\ LB!Add(b, p, p.len) \in LineBuffers
         /\ LB!Add(b, p, p.len).cur = b.cur + p.len
         /\ LB!Add(b, p, p.len).data = Append(b.data, p)
BY PieceIs, AppendProperties DEF LB!Add, LineBuffers

LEMMA InsertIs ==
  ASSUME NEW b \in LineBuffers, NEW p \in Addable
  PROVE  /\ Insert(b, p) \in {b, LB!Add(b, p, p.len)}
         /\ b.cur < SmallBuffer => Insert(b, p).cur < SmallBuffer
         /\ b.cur + p.len + NumericSize <= SmallBuffer
              => Insert(b, p) = LB!Add(b, p, p.len)
         /\ p = Newline /\ b.cur < SmallBuffer /\ Insert(b, p) = b
              => LB!Avail(b) = 1
<1>1. /\ b.cur \in Nat /\ p.len \in Nat
      /\ p.kind = "double" => p.len < NumericSize
      /\ SmallBuffer \in Nat /\ NumericSize \in 1 .. SmallBuffer
  BY PieceIs DEF LineBuffers
<1>2. LB!Avail(b) = SmallBuffer - b.cur
  BY DEF LB!Avail
<1>3. LB!Add(b, p, p.len).cur = b.cur + p.len
  BY DEF LB!Add
<1>4. LB!Add(b, p, p.len) # b \/ p.len = 0
  BY <1>1, <1>3
<1>5. Newline.len = 1 /\ Newline.kind = "newline"
  BY DEF Newline, Char
<1> QED
  BY <1>1, <1>2, <1>3, <1>4, <1>5 DEF Insert, NumberFits, LB!Put

(* The line of a sequence of pieces, after each of them.                   *)
LEMMA LineSteps ==
  ASSUME NEW s \in Seq(Addable)
  PROVE  \E B \in [0 .. Len(s) -> LineBuffers] :
           /\ B[0] = LB!Empty
           /\ \A k \in 1 .. Len(s) : B[k] = Insert(B[k - 1], s[k])
           /\ FoldLeft(Insert, LB!Empty, s) = B[Len(s)]
<1> DEFINE n == Len(s)
           step == [i \in Nat |-> [b \in LineBuffers |->
                      IF i \in 1 .. n THEN Insert(b, s[i]) ELSE b]]
           value(f, t) == IF t = {} THEN LB!Empty
                          ELSE Insert(f[t \ {Max(t)}], s[Max(t)])
<1>1. n \in Nat /\ DOMAIN s = 1 .. n /\ \A i \in 1 .. n : s[i] \in Addable
  BY LenProperties, ElementOfSeq
<1>2. ASSUME NEW i \in 1 .. n, NEW b \in LineBuffers
      PROVE  Insert(b, s[i]) \in LineBuffers
  BY <1>1, InsertIs, AddIs
<1>3. step \in [Nat -> [LineBuffers -> LineBuffers]]
  <2>1. ASSUME NEW i \in Nat, NEW b \in LineBuffers
        PROVE  (IF i \in 1 .. n THEN Insert(b, s[i]) ELSE b) \in LineBuffers
    BY <1>2
  <2> QED
    BY <2>1
<1>4. \E g : g = [t \in SUBSET DOMAIN s |-> value(g, t)]
  <2>0. LB!Empty \in LineBuffers
    BY EmptyLine
  <2> HIDE DEF n, step
  <2>1. PICK g \in [SUBSET (1 .. n) -> LineBuffers] :
               Folding(n, LB!Empty, step, g)
    BY <1>1, <1>3, <2>0, FoldingExists, ZenonT(30)
  <2> USE DEF n, step
  <2>2. ASSUME NEW t \in SUBSET (1 .. n), t # {}
        PROVE  step[Max(t)][g[t \ {Max(t)}]]
                 = Insert(g[t \ {Max(t)}], s[Max(t)])
    <3>1. Max(t) \in 1 .. n /\ t \ {Max(t)} \in SUBSET (1 .. n)
      BY <1>1, <2>2, MaxInSet
    <3>2. g[t \ {Max(t)}] \in LineBuffers
      BY <3>1
    <3> QED
      BY <3>1, <3>2
  <2> HIDE DEF step
  <2>3. g = [t \in SUBSET (1 .. n) |->
               IF t = {} THEN LB!Empty ELSE step[Max(t)][g[t \ {Max(t)}]]]
    BY <2>1 DEF Folding
  <2>4. ASSUME NEW t \in SUBSET (1 .. n)
        PROVE  (IF t = {} THEN LB!Empty ELSE step[Max(t)][g[t \ {Max(t)}]])
                 = value(g, t)
    BY <2>2
  <2> HIDE DEF value
  <2>5. g = [t \in SUBSET (1 .. n) |-> value(g, t)]
    BY ONLY <2>3, <2>4
  <2> QED
    BY <1>1, <2>5
<1>5. \E f : /\ f = [t \in SUBSET DOMAIN s |-> value(f, t)]
            /\ FoldLeft(Insert, LB!Empty, s) = f[DOMAIN s]
  BY <1>4 DEF FoldLeft, MapThenFoldSet
<1> HIDE DEF step
<1>6. PICK f : /\ f = [t \in SUBSET DOMAIN s |-> value(f, t)]
               /\ FoldLeft(Insert, LB!Empty, s) = f[DOMAIN s]
  BY <1>5
<1>7. /\ f[1 .. 0] = LB!Empty
      /\ \A k \in 1 .. n : f[1 .. k] = Insert(f[1 .. k - 1], s[k])
  <2>1. ASSUME NEW t \in SUBSET (1 .. n) PROVE f[t] = value(f, t)
    <3> HIDE DEF value
    <3> QED
      BY <1>1, <1>6
  <2>2. f[1 .. 0] = LB!Empty
    BY <1>1, <2>1, InitialSets
  <2>3. ASSUME NEW k \in 1 .. n PROVE f[1 .. k] = Insert(f[1 .. k - 1], s[k])
    <3>1. /\ 1 .. k \in SUBSET (1 .. n) /\ 1 .. k # {}
          /\ Max(1 .. k) = k /\ (1 .. k) \ {k} = 1 .. k - 1
      BY <1>1, InitialSets
    <3> QED
      BY <2>1, <3>1
  <2> QED
    BY <2>2, <2>3
<1> HIDE DEF value
<1> DEFINE I == {k \in Nat : k <= n => f[1 .. k] \in LineBuffers}
<1>8. I = Nat
  <2>1. 0 \in I
    BY <1>7, EmptyLine
  <2>2. ASSUME NEW k \in I PROVE k + 1 \in I
    <3>1. CASE k + 1 <= n
      <4>1. k + 1 \in 1 .. n /\ (k + 1) - 1 = k /\ k <= n
        BY <1>1, <3>1
      <4>2. f[1 .. k + 1] = Insert(f[1 .. k], s[k + 1])
        BY <1>7, <4>1
      <4> QED
        BY <1>2, <4>1, <4>2
    <3> QED
      BY <1>1, <3>1
  <2>3. I \in SUBSET Nat
    OBVIOUS
  <2> HIDE DEF I
  <2> QED
    BY <2>1, <2>2, <2>3, SetInduction
<1> DEFINE B == [k \in 0 .. n |-> f[1 .. k]]
<1>9. ASSUME NEW k \in 0 .. n PROVE f[1 .. k] \in LineBuffers
  BY <1>1, <1>8
<1>10. B \in [0 .. n -> LineBuffers]
  BY <1>9
<1>11. B[0] = LB!Empty /\ B[n] = f[DOMAIN s]
  BY <1>1, <1>7
<1>12. ASSUME NEW k \in 1 .. n PROVE B[k] = Insert(B[k - 1], s[k])
  <2>1. k \in 0 .. n /\ k - 1 \in 0 .. n
    BY <1>1
  <2> QED
    BY <1>7, <2>1
<1> HIDE DEF B
<1> QED
  BY <1>6, <1>10, <1>11, <1>12
(* The total length of a sequence of pieces, after each of them.           *)
LEMMA LengthSteps ==
  ASSUME NEW s \in Seq(Addable)
  PROVE  \E T \in [0 .. Len(s) -> Nat] :
           /\ T[0] = 0
           /\ \A k \in 1 .. Len(s) : T[k] = T[k - 1] + s[k].len
           /\ TotalLength(s) = T[Len(s)]
<1> DEFINE n == Len(s)
           step == [i \in Nat |-> [b \in Nat |->
                      IF i \in 1 .. n THEN b + s[i].len ELSE b]]
           value(f, t) == IF t = {} THEN 0
                          ELSE f[t \ {Max(t)}] + s[Max(t)].len
<1>1. n \in Nat /\ DOMAIN s = 1 .. n /\ \A i \in 1 .. n : s[i] \in Addable
  BY LenProperties, ElementOfSeq
<1>2. ASSUME NEW i \in 1 .. n, NEW b \in Nat
      PROVE  b + s[i].len \in Nat
  BY <1>1, PieceIs
<1>3. step \in [Nat -> [Nat -> Nat]]
  <2>1. ASSUME NEW i \in Nat, NEW b \in Nat
        PROVE  (IF i \in 1 .. n THEN b + s[i].len ELSE b) \in Nat
    BY <1>2
  <2> QED
    BY <2>1
<1>4. \E g : g = [t \in SUBSET DOMAIN s |-> value(g, t)]
  <2>1. PICK g \in [SUBSET (1 .. n) -> Nat] :
               Folding(n, 0, step, g)
    BY <1>1, <1>3, FoldingExists
  <2>2. ASSUME NEW t \in SUBSET (1 .. n), t # {}
        PROVE  step[Max(t)][g[t \ {Max(t)}]] = g[t \ {Max(t)}] + s[Max(t)].len
    <3>1. Max(t) \in 1 .. n /\ t \ {Max(t)} \in SUBSET (1 .. n)
      BY <1>1, <2>2, MaxInSet
    <3>2. g[t \ {Max(t)}] \in Nat
      BY <3>1
    <3> QED
      BY <3>1, <3>2
  <2> HIDE DEF step
  <2>3. g = [t \in SUBSET (1 .. n) |->
               IF t = {} THEN 0 ELSE step[Max(t)][g[t \ {Max(t)}]]]
    BY <2>1 DEF Folding
  <2>4. ASSUME NEW t \in SUBSET (1 .. n)
        PROVE  (IF t = {} THEN 0 ELSE step[Max(t)][g[t \ {Max(t)}]])
                 = value(g, t)
    BY <2>2
  <2> HIDE DEF value
  <2>5. g = [t \in SUBSET (1 .. n) |-> value(g, t)]
    BY ONLY <2>3, <2>4
  <2> QED
    BY <1>1, <2>5
<1>5. \E f : /\ f = [t \in SUBSET DOMAIN s |-> value(f, t)]
            /\ TotalLength(s) = f[DOMAIN s]
  BY <1>4 DEF TotalLength, FoldLeft, MapThenFoldSet
<1> HIDE DEF step
<1>6. PICK f : /\ f = [t \in SUBSET DOMAIN s |-> value(f, t)]
               /\ TotalLength(s) = f[DOMAIN s]
  BY <1>5
<1>7. /\ f[1 .. 0] = 0
      /\ \A k \in 1 .. n : f[1 .. k] = f[1 .. k - 1] + s[k].len
  <2>1. ASSUME NEW t \in SUBSET (1 .. n) PROVE f[t] = value(f, t)
    <3> HIDE DEF value
    <3> QED
      BY <1>1, <1>6
  <2>2. f[1 .. 0] = 0
    BY <1>1, <2>1, InitialSets
  <2>3. ASSUME NEW k \in 1 .. n PROVE f[1 .. k] = f[1 .. k - 1] + s[k].len
    <3>1. /\ 1 .. k \in SUBSET (1 .. n) /\ 1 .. k # {}
          /\ Max(1 .. k) = k /\ (1 .. k) \ {k} = 1 .. k - 1
      BY <1>1, InitialSets
    <3> QED
      BY <2>1, <3>1
  <2> QED
    BY <2>2, <2>3
<1> HIDE DEF value
<1> DEFINE I == {k \in Nat : k <= n => f[1 .. k] \in Nat}
<1>8. I = Nat
  <2>1. 0 \in I
    BY <1>7
  <2>2. ASSUME NEW k \in I PROVE k + 1 \in I
    <3>1. CASE k + 1 <= n
      <4>1. k + 1 \in 1 .. n /\ (k + 1) - 1 = k /\ k <= n
        BY <1>1, <3>1
      <4>2. f[1 .. k + 1] = f[1 .. k] + s[k + 1].len
        BY <1>7, <4>1
      <4>3. f[1 .. k] \in Nat
        BY <4>1
      <4>4. f[1 .. k] + s[k + 1].len \in Nat
        BY <1>2, <4>1, <4>3
      <4> QED
        BY ONLY <2>2, <4>2, <4>4
    <3> QED
      BY <1>1, <3>1
  <2>3. I \in SUBSET Nat
    OBVIOUS
  <2> HIDE DEF I
  <2> QED
    BY <2>1, <2>2, <2>3, SetInduction
<1> DEFINE T == [k \in 0 .. n |-> f[1 .. k]]
<1>9. ASSUME NEW k \in 0 .. n PROVE f[1 .. k] \in Nat
  BY <1>1, <1>8
<1>10. T \in [0 .. n -> Nat]
  BY <1>9
<1>11. T[0] = 0 /\ T[n] = f[DOMAIN s]
  BY <1>1, <1>7
<1>12. ASSUME NEW k \in 1 .. n PROVE T[k] = T[k - 1] + s[k].len
  <2>1. k \in 0 .. n /\ k - 1 \in 0 .. n
    BY <1>1
  <2> QED
    BY <1>7, <2>1
<1> HIDE DEF T
<1> QED
  BY <1>6, <1>10, <1>11, <1>12
-----------------------------------------------------------------------------
(* A line ends within its buffer, whatever it is made of.                  *)
LEMMA LineFits ==
  ASSUME NEW s \in Seq(Addable), NEW B \in [0 .. Len(s) -> LineBuffers],
         B[0] = LB!Empty, \A k \in 1 .. Len(s) : B[k] = Insert(B[k - 1], s[k])
  PROVE  \A k \in 0 .. Len(s) : B[k].cur < SmallBuffer
<1> DEFINE n == Len(s)
           I == {k \in Nat : k <= n => B[k].cur < SmallBuffer}
<1>1. n \in Nat /\ \A i \in 1 .. n : s[i] \in Addable
  BY LenProperties, ElementOfSeq
<1>2. 0 \in I
  <2>1. B[0].cur = 0 /\ 0 < SmallBuffer
    BY EmptyLine, StreamAssumption
  <2> QED
    BY <2>1
<1>3. ASSUME NEW k \in I PROVE k + 1 \in I
  <2>1. CASE k + 1 <= n
    <3>1. /\ k \in Nat /\ k + 1 \in 1 .. n /\ (k + 1) - 1 = k
          /\ k \in 0 .. n
      BY <1>1, <2>1
    <3>2. B[k] \in LineBuffers /\ B[k].cur < SmallBuffer
      BY <3>1
    <3>3. B[k + 1] = Insert(B[k], s[k + 1]) /\ s[k + 1] \in Addable
      BY <1>1, <3>1
    <3>4. B[k + 1].cur < SmallBuffer
      BY <3>2, <3>3, InsertIs
    <3> QED
      BY <3>1, <3>4
  <2> QED
    BY <1>1, <2>1
<1>4. I \in SUBSET Nat
  OBVIOUS
<1>5. I = Nat
  <2> HIDE DEF I
  <2> QED
    BY <1>2, <1>3, <1>4, SetInduction
<1> QED
  BY <1>1, <1>5

(* A total never exceeds a later one.                                      *)
LEMMA TotalsGrow ==
  ASSUME NEW s \in Seq(Addable), NEW T \in [0 .. Len(s) -> Nat],
         \A k \in 1 .. Len(s) : T[k] = T[k - 1] + s[k].len,
         NEW k \in 0 .. Len(s)
  PROVE  T[k] <= T[Len(s)]
<1> DEFINE n == Len(s)
           I == {d \in Nat : d <= n => T[n - d] <= T[n]}
<1>1. n \in Nat /\ \A i \in 1 .. n : s[i] \in Addable
  BY LenProperties, ElementOfSeq
<1>2. 0 \in I
  <2>1. T[n] \in Nat /\ n - 0 = n
    BY <1>1
  <2> QED
    BY <2>1
<1>3. ASSUME NEW d \in I PROVE d + 1 \in I
  <2>1. CASE d + 1 <= n
    <3> DEFINE a == n - d
    <3>1. /\ d \in Nat /\ d <= n /\ a \in 1 .. n /\ a \in 0 .. n
          /\ n - (d + 1) = a - 1 /\ a - 1 \in 0 .. n /\ n \in 0 .. n
      BY <1>1, <2>1
    <3>2. T[a] <= T[n]
      BY <3>1
    <3>3. T[a] = T[a - 1] + s[a].len /\ s[a].len \in Nat
      BY <1>1, <3>1, PieceIs
    <3>4. T[a] \in Nat /\ T[a - 1] \in Nat /\ T[n] \in Nat
      BY <3>1
    <3> HIDE DEF a
    <3>5. T[a - 1] <= T[n]
      BY ONLY <3>2, <3>3, <3>4
    <3> QED
      BY <3>1, <3>5
  <2> QED
    BY <1>1, <2>1
<1>4. I \in SUBSET Nat
  OBVIOUS
<1>5. I = Nat
  <2> HIDE DEF I
  <2> QED
    BY <1>2, <1>3, <1>4, SetInduction
<1>6. n - k \in Nat /\ n - k <= n /\ n - (n - k) = k
  BY <1>1
<1>7. n - k \in I
  BY <1>5, <1>6
<1> QED
  BY <1>6, <1>7

(* Pieces that leave room for the widest number are all in their line.     *)
LEMMA LineWhole ==
  ASSUME NEW s \in Seq(Addable), NEW B \in [0 .. Len(s) -> LineBuffers],
         B[0] = LB!Empty, \A k \in 1 .. Len(s) : B[k] = Insert(B[k - 1], s[k]),
         TotalLength(s) + NumericSize <= SmallBuffer
  PROVE  B[Len(s)].data = s
<1> DEFINE n == Len(s)
<1>1. n \in Nat /\ \A i \in 1 .. n : s[i] \in Addable
  BY LenProperties, ElementOfSeq
<1>2. PICK T \in [0 .. n -> Nat] :
             /\ T[0] = 0
             /\ \A k \in 1 .. n : T[k] = T[k - 1] + s[k].len
             /\ TotalLength(s) = T[n]
  BY LengthSteps
<1> DEFINE holds(k) == /\ B[k].cur = T[k]
                       /\ Len(B[k].data) = k
                       /\ \A i \in 1 .. k : B[k].data[i] = s[i]
           I == {k \in Nat : k <= n => holds(k)}
<1>3. 0 \in I
  <2>1. B[0].cur = 0 /\ B[0].data = <<>> /\ T[0] = 0
    BY <1>2, EmptyLine
  <2>2. holds(0)
    BY <2>1
  <2> QED
    BY <2>2
<1>4. ASSUME NEW k \in I PROVE k + 1 \in I
  <2>1. CASE k + 1 <= n
    <3>1. /\ k \in Nat /\ k <= n /\ k + 1 \in 1 .. n /\ (k + 1) - 1 = k
          /\ k \in 0 .. n /\ k + 1 \in 0 .. n /\ n \in 0 .. n
      BY <1>1, <2>1
    <3>2. holds(k) /\ B[k] \in LineBuffers /\ s[k + 1] \in Addable
      BY <1>1, <3>1
    <3> DEFINE p == s[k + 1]
               b == B[k]
    <3>3. T[k + 1] = T[k] + p.len
      BY <1>2, <3>1
    <3>4. T[k + 1] + NumericSize <= SmallBuffer
      <4>1. T[k + 1] <= T[n]
        BY <1>2, <3>1, TotalsGrow
      <4>2. /\ T[k + 1] \in Nat /\ T[n] \in Nat
            /\ T[n] + NumericSize <= SmallBuffer
        BY <1>2, <3>1
      <4> QED
        BY ONLY <4>1, <4>2, StreamAssumption
    <3>5. B[k + 1] = Insert(b, p)
      BY <3>1
    <3>6. b.cur + p.len + NumericSize <= SmallBuffer
      BY <3>2, <3>3, <3>4
    <3> HIDE DEF b, p
    <3>7. b \in LineBuffers /\ p \in Addable
      BY <3>2 DEF b, p
    <3>8. B[k + 1] = LB!Add(b, p, p.len)
      BY <3>5, <3>6, <3>7, InsertIs
    <3>9. /\ B[k + 1].cur = b.cur + p.len
          /\ B[k + 1].data = Append(b.data, p) /\ b.data \in Seq(Addable)
      BY <3>7, <3>8, AddIs DEF LineBuffers
    <3>10. /\ Len(B[k + 1].data) = Len(b.data) + 1
           /\ B[k + 1].data[Len(b.data) + 1] = p
           /\ \A i \in 1 .. Len(b.data) : B[k + 1].data[i] = b.data[i]
      BY <3>7, <3>9, AppendProperties
    <3>11. Len(b.data) = k /\ \A i \in 1 .. k : b.data[i] = s[i]
      BY <3>2 DEF b
    <3>12. B[k + 1].cur = T[k + 1]
      BY <3>2, <3>3, <3>9 DEF b
    <3>13. ASSUME NEW i \in 1 .. k + 1 PROVE B[k + 1].data[i] = s[i]
      <4>1. CASE i = k + 1
        BY <3>10, <3>11, <4>1 DEF p
      <4>2. CASE i # k + 1
        <5>1. i \in 1 .. k
          BY <3>1, <4>2
        <5> QED
          BY <3>10, <3>11, <5>1
      <4> QED
        BY <4>1, <4>2
    <3>14. holds(k + 1)
      BY <3>10, <3>11, <3>12, <3>13
    <3> HIDE DEF holds
    <3> QED
      BY <3>1, <3>14
  <2> QED
    BY <1>1, <2>1
<1>5. I \in SUBSET Nat
  OBVIOUS
<1>6. I = Nat
  <2> HIDE DEF I
  <2> QED
    BY <1>3, <1>4, <1>5, SetInduction
<1>7. holds(n) /\ n \in 0 .. n
  BY <1>1, <1>6
<1>8. B[n].data \in Seq(Addable)
  BY <1>7 DEF LineBuffers
<1> QED
  BY <1>1, <1>7, <1>8, SeqEqual

LEMMA PiecesAre ==
  ASSUME NEW statement \in Statements
  PROVE  /\ Pieces(statement) \in Seq(Addable)
         /\ Len(Pieces(statement)) \in Nat \ {0}
         /\ Pieces(statement)[Len(Pieces(statement))] = Newline
<1> DEFINE h == Header(statement.level)
           t == Trailer(statement)
           b == statement.body
<1>1. b \in Seq(Addable) /\ statement.file \in Nat /\ statement.digits \in Nat
  BY DEF Statements
<1>2. ASSUME NEW len \in Nat
      PROVE  Text(len) \in Addable /\ Integer(len) \in Addable
  BY DEF Text, Integer, Addable
<1>3. Newline \in Addable /\ Char("colon") \in Addable
  BY DEF Newline, Char, Addable
<1>4. h \in Seq(Addable)
  <2>1. FormatTime \in Addable
    BY <1>2 DEF FormatTime
  <2>2. Tag(statement.level) \in Addable
    BY <1>2 DEF Tag
  <2> QED
    BY <2>1, <2>2 DEF Header
<1>5. t \in Seq(Addable) /\ Len(t) = 5 /\ t[5] = Newline
  <2>1. /\ Text(4) \in Addable /\ Text(statement.file) \in Addable
        /\ Integer(statement.digits) \in Addable
    BY <1>1, <1>2
  <2> QED
    BY <1>3, <2>1 DEF Trailer
<1> HIDE DEF h, t, b
<1>6. h \o b \in Seq(Addable)
  BY <1>1, <1>4, ConcatProperties
<1> DEFINE front == h \o b
<1>7. Pieces(statement) = front \o t
  BY DEF Pieces, h, b, t
<1> HIDE DEF front
<1>8. /\ front \in Seq(Addable) /\ Len(front) \in Nat
      /\ front \o t \in Seq(Addable) /\ Len(front \o t) = Len(front) + Len(t)
      /\ (front \o t)[Len(front) + 5] = t[5]
  <2>1. front \in Seq(Addable) /\ Len(front) \in Nat
    BY <1>6, LenProperties DEF front
  <2>2. /\ front \o t \in Seq(Addable) /\ Len(front \o t) = Len(front) + Len(t)
        /\ \A i \in 1 .. Len(front) + Len(t) :
              (front \o t)[i] = IF i <= Len(front) THEN front[i]
                                ELSE t[i - Len(front)]
    BY <1>5, <2>1, ConcatProperties
  <2>3. /\ Len(front) + 5 \in 1 .. Len(front) + Len(t)
        /\ ~ (Len(front) + 5 <= Len(front))
        /\ (Len(front) + 5) - Len(front) = 5
    BY <1>5, <2>1
  <2> QED
    BY <2>1, <2>2, <2>3
<1> QED
  BY <1>5, <1>7, <1>8

(* What LinesSound says of each line, for any statement.                   *)
LEMMA LineSound ==
  ASSUME NEW statement \in Statements
  PROVE  /\ Line(statement).cur < SmallBuffer
         /\ TotalLength(Pieces(statement)) + NumericSize <= SmallBuffer
              => Line(statement).data = Pieces(statement)
         /\ \/ Last(Line(statement).data) = Newline
            \/ LB!Avail(Line(statement)) = 1
<1> DEFINE s == Pieces(statement)
           n == Len(s)
<1>1. s \in Seq(Addable) /\ n \in Nat \ {0} /\ s[n] = Newline
  BY PiecesAre
<1> HIDE DEF s
<1>2. PICK B \in [0 .. n -> LineBuffers] :
             /\ B[0] = LB!Empty
             /\ \A k \in 1 .. n : B[k] = Insert(B[k - 1], s[k])
             /\ FoldLeft(Insert, LB!Empty, s) = B[n]
  BY <1>1, LineSteps
<1>3. Line(statement) = B[n]
  BY <1>2 DEF Line, s
<1>4. /\ n \in 0 .. n /\ n \in 1 .. n /\ n - 1 \in 0 .. n
      /\ B[n] \in LineBuffers /\ B[n - 1] \in LineBuffers
  BY <1>1
<1>5. B[n].cur < SmallBuffer /\ B[n - 1].cur < SmallBuffer
  BY <1>1, <1>2, <1>4, LineFits
<1>6. TotalLength(s) + NumericSize <= SmallBuffer => B[n].data = s
  BY <1>1, <1>2, LineWhole
<1> DEFINE b == B[n - 1]
<1>7. b \in LineBuffers /\ b.cur < SmallBuffer /\ Newline \in Addable
  BY <1>1, <1>4, <1>5, ElementOfSeq
<1>8. B[n] = Insert(b, Newline)
  BY <1>1, <1>2, <1>4
<1> HIDE DEF b
<1>9. CASE B[n] = b
  BY <1>7, <1>8, <1>9, <1>3, <1>5, <1>6, InsertIs DEF s
<1>10. CASE B[n] # b
  <2>1. B[n] = LB!Add(b, Newline, Newline.len)
    BY <1>7, <1>8, <1>10, InsertIs
  <2>2. B[n].data = Append(b.data, Newline) /\ b.data \in Seq(Addable)
    BY <1>7, <2>1, AddIs DEF LineBuffers
  <2>3. Last(B[n].data) = Newline
    BY <1>7, <2>2, AppendProperties DEF Last
  <2> QED
    BY <1>3, <1>5, <1>6, <2>3 DEF s
<1> QED
  BY <1>9, <1>10
-----------------------------------------------------------------------------
(* Every step is one of AsyncLogging's, or a stop_thread() that comes too  *)
(* early, and appends nothing that is not in the script.                   *)
LEMMA StepCases ==
  ASSUME LogIInv, LogNext
  PROVE  /\ Next \/ StopTooEarly
         /\ script' = script
         /\ \/ UNCHANGED appended
            \/ /\ Len(appended) < Len(script)
               /\ appended' = Append(appended, Len(appended) + 1)
<1>1. script' = script
  BY DEF LogNext
<1>2. CASE ~crashed /\ Output
  <2>1. Len(appended) < Len(script)
    BY <1>2 DEF Output
  <2>2. CASE StartEnter
    <3>1. Next
      BY <2>2, Zenon DEF Next, Start
    <3>2. UNCHANGED appended
      BY <2>2 DEF StartEnter, restVars
    <3> QED
      BY <1>1, <3>1, <3>2
  <2>3. CASE Log(Line(Statement(Len(appended) + 1)).cur)
    <3> DEFINE m == Len(appended) + 1
    <3>1. script \in Seq(Statements) /\ m \in DOMAIN script
      <4>1. script \in Scripts /\ appended \in Seq(Messages)
        BY DEF LogIInv, Logged, IInv, TypeOK
      <4>2. script \in Seq(Statements)
        BY <4>1, ScriptsAssumption
      <4>3. m \in 1 .. Len(script)
        BY <2>1, <4>1, <4>2, LenProperties
      <4> QED
        BY <4>2, <4>3, LenProperties
    <3>2. Line(script[m]).cur \in Lens
      BY <3>1, ScriptsAssumption DEF LogIInv, Logged
    <3>3. \E len \in Lens : Log(len)
      BY <2>3, <3>2 DEF Statement
    <3>4. UNCHANGED appended \/ appended' = Append(appended, m)
      BY <2>3 DEF Log
    <3>5. Next
      BY <3>3, Zenon DEF Next
    <3> QED
      BY <1>1, <2>1, <3>4, <3>5
  <2> QED
    BY <1>2, <2>2, <2>3 DEF Output
<1>3. CASE StopThread
  <2>1. CASE Stop
    <3>1. Next
      BY <2>1, Zenon DEF Next
    <3>2. UNCHANGED appended
      BY <2>1 DEF Stop, restVars
    <3> QED
      BY <1>1, <3>1, <3>2
  <2>2. CASE StopTooEarly
    <3>1. UNCHANGED appended
      BY <2>2 DEF StopTooEarly, callerVars
    <3> QED
      BY <1>1, <2>2, <3>1
  <2> QED
    BY <1>3, <2>1, <2>2 DEF StopThread
<1>4. CASE OnceInit
  <2>1. Next
    BY <1>4, Zenon DEF OnceInit, Next, Start
  <2>2. UNCHANGED appended
    BY <1>4 DEF OnceInit, PthreadCreate, PthreadCreateFails, ThreadStarted,
       StartReturns, restVars
  <2> QED
    BY <1>1, <2>1, <2>2
<1>5. CASE Thread
  <2>1. UNCHANGED appended
    BY <1>5 DEF Thread, RunInThread, EnterThreadFunc, Check, Wait, Swap,
       Backlog, Write, Recycle, Final, FinalWrite, restVars, callerVars
  <2>2. Next
    BY <1>5, Zenon DEF Next
  <2> QED
    BY <1>1, <2>1, <2>2
<1> QED
  BY <1>2, <1>3, <1>4, <1>5 DEF LogNext

LEMMA StopTooEarlyIInv == ASSUME IInv, StopTooEarly PROVE IInv'
<1>1. /\ UNCHANGED <<stage, threadLatch, latch_, appended, lost>>
      /\ UNCHANGED <<currentBuffer_, nextBuffer_, newBuffer1, newBuffer2,
                     bufferPtrs_>>
      /\ UNCHANGED <<buffersWaitToWrite, running_, pc, file, disk>>
      /\ crashed' = TRUE
  BY DEF StopTooEarly, callerVars, startVars, buffers
<1>2. TypeOK' /\ BufferForAppend' /\ Phases'
  BY <1>1 DEF IInv, TypeOK, BufferForAppend, Phases
<1>3. Stored' = Stored
  BY <1>1, SameStored
<1> QED
  BY <1>1, <1>2, <1>3, IInvParts, KeptWhenMoved DEF IInv, Kept

LEMMA LogNextIInv == LogIInv /\ [LogNext]_<<vars, script>> => LogIInv'
<1> SUFFICES ASSUME LogIInv, [LogNext]_<<vars, script>> PROVE LogIInv'
  OBVIOUS
<1>1. IInv /\ script \in Scripts /\ Len(appended) <= Len(script)
  BY DEF LogIInv, Logged
<1>2. CASE UNCHANGED <<vars, script>>
  <2>1. UNCHANGED vars /\ UNCHANGED script
    BY <1>2
  <2>2. IInv'
    BY <1>1, <2>1, NextIInv
  <2>3. UNCHANGED appended
    BY <2>1 DEF vars, callerVars
  <2> QED
    BY <1>1, <2>1, <2>2, <2>3 DEF LogIInv, Logged
<1>3. CASE LogNext
  <2>1. /\ Next \/ StopTooEarly
        /\ script' = script
        /\ \/ UNCHANGED appended
           \/ /\ Len(appended) < Len(script)
              /\ appended' = Append(appended, Len(appended) + 1)
    BY <1>3, StepCases
  <2>2. IInv'
    BY <1>1, <2>1, NextIInv, StopTooEarlyIInv
  <2>3. Len(appended)' <= Len(script)
    <3>1. appended \in Seq(Messages) /\ appended' \in Seq(Messages)
      BY <1>1, <2>2 DEF IInv, TypeOK
    <3>2. Len(Append(appended, Len(appended) + 1)) = Len(appended) + 1
      BY <3>1
    <3>3. script \in Seq(Statements)
      BY <1>1, ScriptsAssumption
    <3>4. Len(appended) \in Nat /\ Len(script) \in Nat
      BY <3>1, <3>3, LenProperties
    <3> QED
      BY <1>1, <2>1, <3>2, <3>4
  <2> QED
    BY <1>1, <2>1, <2>2, <2>3 DEF LogIInv, Logged
<1> QED
  BY <1>2, <1>3

LEMMA InitLogIInv == LogInit => LogIInv
<1> SUFFICES ASSUME LogInit PROVE LogIInv
  OBVIOUS
<1>1. IInv /\ script \in Scripts /\ appended = <<>>
  BY InitIInv DEF LogInit, Init
<1>2. script \in Seq(Statements)
  BY <1>1, ScriptsAssumption
<1>3. Len(script) \in Nat /\ Len(appended) = 0
  BY <1>1, <1>2, LenProperties
<1> QED
  BY <1>1, <1>3 DEF LogIInv, Logged

(* AsyncLogging's inductive invariant also holds of the program's logging: *)
(* whatever is logged, and if stop_thread() comes before the first output, *)
(* only statements of the program are ever appended (Logging.cpp).         *)
THEOREM LoggingInvariant == LogSpec => []LogIInv
BY InitLogIInv, LogNextIInv, PTL DEF LogSpec

(* As long as the logger runs, the program's log statements find a buffer  *)
(* (append, threadFunc).                                                   *)
THEOREM LoggingBufferForAppend == LogSpec => []BufferForAppend
<1>1. LogIInv => BufferForAppend
  BY DEF LogIInv, IInv
<1> QED
  BY <1>1, LoggingInvariant, PTL

(* Until something is dropped, the file and the buffers hold exactly what  *)
(* the program has logged, in order (append, threadFunc).                  *)
THEOREM LoggingNothingLost == LogSpec => []NothingLost
<1>1. LogIInv => NothingLost
  BY DEF LogIInv, IInv
<1> QED
  BY <1>1, LoggingInvariant, PTL

(* The lines that reach the disk are sound: within their buffer, whole if  *)
(* they leave room for the widest number, and ended, unless they fill the  *)
(* buffer (LogStream::operator<<, FixedBuffer::append, ~Logger).           *)
THEOREM LinesSoundHolds == LogSpec => []LinesSound
<1>1. ASSUME LogIInv PROVE LinesSound
  <2>1. /\ IInv /\ script \in Seq(Statements)
        /\ Len(appended) \in Nat /\ Len(appended) <= Len(script)
    BY <1>1, ScriptsAssumption, LenProperties DEF LogIInv, Logged, IInv, TypeOK
  <2>2. ASSUME NEW m \in ToSet(OnDisk)
        PROVE  Statement(m) \in Statements
    <3>1. PICK i \in DOMAIN OnDisk : m = OnDisk[i]
      BY DEF ToSet
    <3>2. m \in 1 .. Len(appended)
      BY <2>1, <3>1, IInvDisk DEF DiskInOrder
    <3>3. m \in 1 .. Len(script)
      BY <2>1, <3>2, LenProperties
    <3> QED
      BY <2>1, <3>3, ElementOfSeq DEF Statement
  <2> QED
    BY <2>2, LineSound DEF LinesSound
<1> QED
  BY <1>1, LoggingInvariant, PTL

LEMMA LogNextPipe ==
  ASSUME LogIInv, LogIInv', [LogNext]_<<vars, script>>
  PROVE  [LP!Next]_LP!vars
<1>1. IInv /\ IInv'
  BY DEF LogIInv
<1>2. CASE UNCHANGED <<vars, script>>
  BY <1>1, <1>2, NextPipe
<1>3. CASE LogNext
  <2>1. Next \/ StopTooEarly
    BY <1>3, StepCases
  <2>2. CASE Next
    BY <1>1, <2>2, NextPipe
  <2>3. CASE StopTooEarly
    <3>1. UNCHANGED <<appended, file, disk, lost, pc>>
      BY <2>3 DEF StopTooEarly, callerVars
    <3> QED
      BY <3>1 DEF LP!vars, OnDisk
  <2> QED
    BY <2>1, <2>2, <2>3
<1> QED
  BY <1>2, <1>3

(* The program's log statements, too, see a LogPipe: each of them submits  *)
(* or does nothing that can be seen (Logging.cpp, append, threadFunc).     *)
THEOREM LoggingPipe == LogSpec => ImplementsLogPipe
<1>1. LogInit => LP!Init
  BY InitPipe DEF LogInit
<1> QED
  BY <1>1, LogNextPipe, LoggingInvariant, PTL
     DEF LogSpec, ImplementsLogPipe, LP!Spec
=============================================================================
