------------------------- MODULE AsyncLoggingProofs -------------------------
(***************************************************************************)
(* Proofs about AsyncLogging, for buffers of any size, messages of any     *)
(* length that one can hold, any number of them and any backlog limit.     *)
(*                                                                         *)
(* The argument is about Stored, what the file and the buffers hold in the *)
(* order in which they are to be written.  A step of the logging thread    *)
(* leaves it as it is, or takes something out of it and remembers that in  *)
(* lost; an append adds its message at the end, or remembers that too.     *)
(***************************************************************************)
EXTENDS AsyncLogging, FlattenFacts

(* t is what is left of s when something was taken out.                    *)
Thinned(t, s) ==
  /\ Increasing(s) => Increasing(t)
  /\ \A i \in DOMAIN t : \E j \in DOMAIN s : t[i] = s[j]

LEMMA IncreasingConcat ==
  ASSUME NEW p \in Seq(Nat), NEW q \in Seq(Nat)
  PROVE  Increasing(p \o q) <=>
           /\ Increasing(p) /\ Increasing(q)
           /\ \A i \in DOMAIN p, j \in DOMAIN q : p[i] < q[j]
<1> DEFINE r == p \o q
<1>1. /\ Len(p) \in Nat /\ DOMAIN p = 1 .. Len(p)
      /\ Len(q) \in Nat /\ DOMAIN q = 1 .. Len(q)
      /\ DOMAIN r = 1 .. Len(p) + Len(q)
  BY ConcatProperties, LenProperties
<1>2. /\ \A i \in DOMAIN p : i \in DOMAIN r /\ r[i] = p[i]
      /\ \A j \in DOMAIN q : Len(p) + j \in DOMAIN r /\ r[Len(p) + j] = q[j]
  BY <1>1, ConcatProperties
<1>3. \A k \in DOMAIN r : k \in DOMAIN p \/ k - Len(p) \in DOMAIN q
  BY <1>1
<1> HIDE DEF r
<1>4. ASSUME Increasing(r)
      PROVE  /\ Increasing(p) /\ Increasing(q)
             /\ \A i \in DOMAIN p, j \in DOMAIN q : p[i] < q[j]
  BY <1>1, <1>2, <1>4 DEF Increasing
<1>5. ASSUME Increasing(p), Increasing(q),
             \A i \in DOMAIN p, j \in DOMAIN q : p[i] < q[j]
      PROVE  Increasing(r)
  <2> SUFFICES ASSUME NEW k \in DOMAIN r, NEW l \in DOMAIN r, k < l
               PROVE  r[k] < r[l]
    BY DEF Increasing
  <2>1. CASE l \in DOMAIN p
    BY <1>1, <1>2, <1>5, <2>1, SMTT(30) DEF Increasing
  <2>2. CASE k \in DOMAIN p /\ l - Len(p) \in DOMAIN q
    BY <1>1, <1>2, <1>5, <2>2
  <2>3. CASE k - Len(p) \in DOMAIN q /\ l - Len(p) \in DOMAIN q
    <3>1. r[k] = q[k - Len(p)] /\ r[l] = q[l - Len(p)]
      BY <1>1, <1>2, <2>3
    <3> QED
      BY <1>1, <1>5, <2>3, <3>1 DEF Increasing
  <2> QED
    BY <1>1, <1>3, <2>1, <2>2, <2>3
<1> QED
  BY <1>4, <1>5 DEF r

LEMMA ThinnedConcat ==
  ASSUME NEW p \in Seq(Nat), NEW q \in Seq(Nat),
         NEW s \in Seq(Nat), NEW t \in Seq(Nat), Thinned(p, s), Thinned(q, t)
  PROVE  Thinned(p \o q, s \o t)
<1>1. ASSUME Increasing(s \o t) PROVE Increasing(p \o q)
  <2>1. /\ Increasing(s) /\ Increasing(t)
        /\ \A i \in DOMAIN s, j \in DOMAIN t : s[i] < t[j]
    BY <1>1, IncreasingConcat
  <2>2. /\ Increasing(p) /\ Increasing(q)
        /\ \A i \in DOMAIN p, j \in DOMAIN q : p[i] < q[j]
    BY <2>1 DEF Thinned
  <2> QED
    BY <2>2, IncreasingConcat
<1>2. ASSUME NEW k \in DOMAIN (p \o q)
      PROVE  \E l \in DOMAIN (s \o t) : (p \o q)[k] = (s \o t)[l]
  <2>1. /\ Len(p) \in Nat /\ DOMAIN p = 1 .. Len(p)
        /\ Len(q) \in Nat /\ DOMAIN q = 1 .. Len(q)
        /\ Len(s) \in Nat /\ DOMAIN s = 1 .. Len(s)
        /\ Len(t) \in Nat /\ DOMAIN t = 1 .. Len(t)
        /\ DOMAIN (p \o q) = 1 .. Len(p) + Len(q)
        /\ DOMAIN (s \o t) = 1 .. Len(s) + Len(t)
    BY ConcatProperties, LenProperties
  <2>2. CASE k \in DOMAIN p
    <3>1. (p \o q)[k] = p[k]
      BY <2>1, <2>2, ConcatProperties
    <3>2. PICK l \in DOMAIN s : p[k] = s[l]
      BY <2>2 DEF Thinned
    <3>3. l \in DOMAIN (s \o t) /\ (s \o t)[l] = s[l]
      BY <2>1, <3>2, ConcatProperties
    <3> QED
      BY <3>1, <3>2, <3>3
  <2>3. CASE k \notin DOMAIN p
    <3>1. k - Len(p) \in DOMAIN q /\ (p \o q)[k] = q[k - Len(p)]
      BY <2>1, <2>3, ConcatProperties
    <3>2. PICK l \in DOMAIN t : q[k - Len(p)] = t[l]
      BY <3>1 DEF Thinned
    <3>3. /\ Len(s) + l \in DOMAIN (s \o t)
          /\ (s \o t)[Len(s) + l] = t[l]
      BY <2>1, <3>2, ConcatProperties, SMTT(30)
    <3> QED
      BY <3>1, <3>2, <3>3
  <2> QED
    BY <2>2, <2>3
<1> QED
  BY <1>1, <1>2 DEF Thinned

LEMMA ThinnedSelf == ASSUME NEW s PROVE Thinned(s, s)
BY DEF Thinned

LEMMA ThinnedPrefix ==
  ASSUME NEW s \in Seq(Nat), NEW k \in 0 .. Len(s)
  PROVE  Thinned(SubSeq(s, 1, k), s) /\ SubSeq(s, 1, k) \in Seq(Nat)
<1>1. /\ Len(s) \in Nat /\ DOMAIN s = 1 .. Len(s)
      /\ \A i \in 1 .. k : s[i] \in Nat
  BY LenProperties, ElementOfSeq
<1>2. /\ SubSeq(s, 1, k) \in Seq(Nat) /\ Len(SubSeq(s, 1, k)) = k
      /\ \A i \in 1 .. k : SubSeq(s, 1, k)[i] = s[i]
  BY <1>1, SubSeqProperties
<1>3. DOMAIN SubSeq(s, 1, k) = 1 .. k
  BY <1>2, LenProperties
<1> QED
  BY <1>1, <1>2, <1>3, SMTT(30) DEF Thinned, Increasing

(* What was taken out of something in order leaves it in order.            *)
LEMMA ThinnedInOrder ==
  ASSUME NEW s \in Seq(Nat), NEW t \in Seq(Nat), NEW n \in Nat,
         Thinned(t, s), Increasing(s), \A i \in DOMAIN s : s[i] <= n
  PROVE  Increasing(t) /\ \A i \in DOMAIN t : t[i] <= n
BY DEF Thinned
-----------------------------------------------------------------------------
(* What buffers hold, one buffer at a time.                                *)
Datas(bs) == [i \in DOMAIN bs |-> bs[i].data]

LEMMA DatasType ==
  ASSUME NEW bs \in Seq(Buffers)
  PROVE  /\ Datas(bs) \in Seq(Seq(Messages)) /\ Len(Datas(bs)) = Len(bs)
         /\ \A i \in 1 .. Len(bs) : Datas(bs)[i] = bs[i].data
<1>1. Len(bs) \in Nat /\ DOMAIN bs = 1 .. Len(bs)
  BY LenProperties
<1>2. ASSUME NEW i \in 1 .. Len(bs) PROVE bs[i].data \in Seq(Messages)
  <2>1. bs[i] \in Buffers
    BY ElementOfSeq
  <2> QED
    BY <2>1 DEF Buffers
<1>3. Datas(bs) = [i \in 1 .. Len(bs) |-> bs[i].data]
  BY <1>1 DEF Datas
<1>4. Datas(bs) \in [1 .. Len(bs) -> Seq(Messages)]
  BY <1>2, <1>3
<1>5. Datas(bs) \in Seq(Seq(Messages))
  BY <1>1, <1>4, SeqDef
<1>6. Len(Datas(bs)) = Len(bs)
  BY <1>1, <1>3, <1>5, LenProperties
<1> QED
  BY <1>3, <1>5, <1>6

LEMMA ContentsType ==
  ASSUME NEW bs \in Seq(Buffers)
  PROVE  Contents(bs) \in Seq(Messages)
BY DatasType, FlattenType DEF Contents, Datas

LEMMA ContentsEmpty == Contents(<<>>) = <<>>
<1>1. Datas(<<>>) = <<>>
  BY DEF Datas
<1> QED
  BY <1>1, FlattenEmpty DEF Contents, Datas

(* When a sequence is the concatenation of two.                            *)
LEMMA ConcatIs ==
  ASSUME NEW V, NEW d \in Seq(V), NEW e \in Seq(V), NEW f \in Seq(V),
         Len(f) = Len(d) + Len(e), \A i \in 1 .. Len(d) : f[i] = d[i],
         \A i \in 1 .. Len(e) : f[Len(d) + i] = e[i]
  PROVE  f = d \o e
<1>1. /\ d \o e \in Seq(V) /\ Len(d \o e) = Len(d) + Len(e)
      /\ \A i \in 1 .. Len(d) + Len(e) :
           (d \o e)[i] = IF i <= Len(d) THEN d[i] ELSE e[i - Len(d)]
      /\ Len(d) \in Nat /\ Len(e) \in Nat
  BY ConcatProperties, LenProperties
<1>2. ASSUME NEW i \in 1 .. Len(f) PROVE f[i] = (d \o e)[i]
  <2>1. CASE i <= Len(d)
    BY <1>1, <2>1
  <2>2. CASE ~ (i <= Len(d))
    <3>1. i - Len(d) \in 1 .. Len(e) /\ Len(d) + (i - Len(d)) = i
      BY <1>1, <2>2
    <3> QED
      BY <1>1, <2>2, <3>1
  <2> QED
    BY <2>1, <2>2
<1> QED
  BY <1>1, <1>2, SeqEqual

(* A concatenation, by index.                                              *)
LEMMA AtConcat ==
  ASSUME NEW S, NEW p \in Seq(S), NEW q \in Seq(S)
  PROVE  /\ p \o q \in Seq(S) /\ Len(p \o q) = Len(p) + Len(q)
         /\ Len(p) \in Nat /\ Len(q) \in Nat
         /\ \A i \in 1 .. Len(p) : (p \o q)[i] = p[i]
         /\ \A i \in 1 .. Len(q) : (p \o q)[Len(p) + i] = q[i]
<1>1. /\ p \o q \in Seq(S) /\ Len(p \o q) = Len(p) + Len(q)
      /\ Len(p) \in Nat /\ Len(q) \in Nat
      /\ \A i \in 1 .. Len(p) + Len(q) :
           (p \o q)[i] = IF i <= Len(p) THEN p[i] ELSE q[i - Len(p)]
  BY ConcatProperties, LenProperties
<1> QED
  BY <1>1

LEMMA DatasConcat ==
  ASSUME NEW xs \in Seq(Buffers), NEW bs \in Seq(Buffers)
  PROVE  Datas(xs \o bs) = Datas(xs) \o Datas(bs)
<1> DEFINE cs == xs \o bs
           V == Seq(Messages)
           dx == Datas(xs)
           db == Datas(bs)
           dc == Datas(cs)
<1>1. /\ cs \in Seq(Buffers) /\ Len(cs) = Len(xs) + Len(bs)
      /\ \A i \in 1 .. Len(xs) : cs[i] = xs[i]
      /\ \A i \in 1 .. Len(bs) : cs[Len(xs) + i] = bs[i]
      /\ Len(xs) \in Nat /\ Len(bs) \in Nat
  BY AtConcat
<1>2. /\ dx \in Seq(V) /\ Len(dx) = Len(xs)
      /\ \A i \in 1 .. Len(xs) : dx[i] = xs[i].data
  BY DatasType
<1>3. /\ db \in Seq(V) /\ Len(db) = Len(bs)
      /\ \A i \in 1 .. Len(bs) : db[i] = bs[i].data
  BY DatasType
<1>4. /\ dc \in Seq(V) /\ Len(dc) = Len(cs)
      /\ \A i \in 1 .. Len(cs) : dc[i] = cs[i].data
  BY <1>1, DatasType
<1> HIDE DEF V, dx, db, dc, cs
<1>5. ASSUME NEW i \in 1 .. Len(dx) PROVE dc[i] = dx[i]
  <2>1. i \in 1 .. Len(xs) /\ i \in 1 .. Len(cs)
    BY <1>1, <1>2
  <2> QED
    BY <1>1, <1>2, <1>4, <2>1
<1>6. ASSUME NEW i \in 1 .. Len(db) PROVE dc[Len(dx) + i] = db[i]
  <2>1. i \in 1 .. Len(bs) /\ Len(xs) + i \in 1 .. Len(cs)
    BY <1>1, <1>3
  <2>2. dc[Len(xs) + i] = cs[Len(xs) + i].data /\ db[i] = bs[i].data
    BY <1>3, <1>4, <2>1
  <2> QED
    BY <1>1, <1>2, <2>1, <2>2
<1>7. dc = dx \o db
  <2>1. /\ dc \in Seq(V) /\ dx \in Seq(V) /\ db \in Seq(V)
        /\ Len(dc) = Len(dx) + Len(db)
        /\ \A i \in 1 .. Len(dx) : dc[i] = dx[i]
        /\ \A i \in 1 .. Len(db) : dc[Len(dx) + i] = db[i]
    BY <1>1, <1>2, <1>3, <1>4, <1>5, <1>6
  <2> QED
    BY ONLY <2>1, ConcatIs
<1> QED
  BY <1>7 DEF dx, db, dc, cs

LEMMA ContentsConcat ==
  ASSUME NEW xs \in Seq(Buffers), NEW bs \in Seq(Buffers)
  PROVE  Contents(xs \o bs) = Contents(xs) \o Contents(bs)
<1>1. /\ Datas(xs) \in Seq(Seq(Messages)) /\ Datas(bs) \in Seq(Seq(Messages))
      /\ Datas(xs \o bs) = Datas(xs) \o Datas(bs)
  BY DatasType, DatasConcat
<1>2. FlattenSeq(Datas(xs) \o Datas(bs)) =
        FlattenSeq(Datas(xs)) \o FlattenSeq(Datas(bs))
  BY <1>1, FlattenConcat
<1> QED
  BY <1>1, <1>2 DEF Contents, Datas

LEMMA ContentsOne ==
  ASSUME NEW b \in Buffers
  PROVE  Contents(<<b>>) = b.data
<1>1. b.data \in Seq(Messages)
  BY DEF Buffers
<1>2. Datas(<<b>>) = <<b.data>> /\ <<b.data>> = Append(<<>>, b.data)
  BY DEF Datas
<1>3. FlattenSeq(Append(<<>>, b.data)) = FlattenSeq(<<>>) \o b.data
  BY <1>1, EmptySeq, FlattenAppend
<1>4. <<>> \o b.data = b.data
  BY <1>1, ConcatEmptySeq
<1> QED
  BY <1>2, <1>3, <1>4, FlattenEmpty DEF Contents, Datas

LEMMA ContentsAppend ==
  ASSUME NEW bs \in Seq(Buffers), NEW b \in Buffers
  PROVE  Contents(Append(bs, b)) = Contents(bs) \o b.data
<1>1. <<b>> \in Seq(Buffers) /\ Append(bs, b) = bs \o <<b>>
  BY AppendIsConcat
<1> QED
  BY <1>1, ContentsConcat, ContentsOne

(* A sequence around one of its elements.                                  *)
LEMMA AroundIndex ==
  ASSUME NEW S, NEW s \in Seq(S), NEW i \in 1 .. Len(s),
         NEW p \in Seq(S), Len(p) = i - 1, \A j \in 1 .. i - 1 : p[j] = s[j],
         NEW q \in Seq(S), Len(q) = Len(s) - i,
         \A j \in 1 .. Len(s) - i : q[j] = s[i + j]
  PROVE  s = Append(p, s[i]) \o q
<1>1. s[i] \in S /\ Len(s) \in Nat
  BY LenProperties, ElementOfSeq
<1>2. /\ Append(p, s[i]) \in Seq(S) /\ Len(Append(p, s[i])) = i
      /\ Append(p, s[i])[i] = s[i]
      /\ \A j \in 1 .. i - 1 : Append(p, s[i])[j] = p[j]
  BY <1>1, AppendProperties
<1>3. \A j \in 1 .. i : s[j] = Append(p, s[i])[j]
  BY <1>1, <1>2
<1>4. Len(s) = i + Len(q) /\ \A j \in 1 .. Len(q) : s[i + j] = q[j]
  BY <1>1
<1>5. /\ s \in Seq(S) /\ Append(p, s[i]) \in Seq(S) /\ q \in Seq(S)
      /\ Len(s) = Len(Append(p, s[i])) + Len(q)
      /\ \A j \in 1 .. Len(Append(p, s[i])) : s[j] = Append(p, s[i])[j]
      /\ \A j \in 1 .. Len(q) : s[Len(Append(p, s[i])) + j] = q[j]
  BY <1>2, <1>3, <1>4
<1> QED
  BY ONLY <1>5, ConcatIs

(* A buffer of which the end is dropped.                                   *)
LEMMA ContentsThinned ==
  ASSUME NEW bs \in Seq(Buffers), NEW i \in DOMAIN bs,
         NEW k \in 0 .. Len(bs[i].data) - 1
  PROVE  LET cs == [bs EXCEPT ![i].data = SubSeq(@, 1, k)]
         IN  /\ cs \in Seq(Buffers)
             /\ Thinned(Contents(cs), Contents(bs))
<1> DEFINE c == [bs[i] EXCEPT !.data = SubSeq(@, 1, k)]
           cs == [bs EXCEPT ![i] = c]
           xs == SubSeq(bs, 1, i - 1)
           ds == SubSeq(bs, i + 1, Len(bs))
<1>1. i \in 1 .. Len(bs) /\ Len(bs) \in Nat /\ bs[i] \in Buffers
  BY LenProperties, ElementOfSeq
<1>2. bs[i].data \in Seq(Nat) /\ bs[i].data \in Seq(Messages)
  <2>1. bs[i].data \in Seq(Messages) /\ Messages \subseteq Nat
    BY <1>1 DEF Buffers, Messages
  <2> QED
    BY <2>1, SeqMonotonic
<1>3. /\ Thinned(SubSeq(bs[i].data, 1, k), bs[i].data)
      /\ SubSeq(bs[i].data, 1, k) \in Seq(Messages)
  <2>1. k \in 0 .. Len(bs[i].data) /\ k \in Int
    BY <1>2, LenProperties
  <2>2. \A j \in 1 .. k : bs[i].data[j] \in Messages
    BY <1>2, <2>1, ElementOfSeq, LenProperties
  <2> QED
    BY <1>2, <2>1, <2>2, ThinnedPrefix, SubSeqProperties
<1>4. c \in Buffers /\ c.data = SubSeq(bs[i].data, 1, k)
  BY <1>1, <1>3 DEF Buffers
<1>5. cs \in Seq(Buffers)
  BY <1>1, <1>4, ExceptSeq
<1>6. /\ xs \in Seq(Buffers) /\ Len(xs) = i - 1
      /\ \A j \in 1 .. i - 1 : xs[j] = bs[j]
  <2>1. \A j \in 1 .. i - 1 : bs[j] \in Buffers
    BY <1>1, ElementOfSeq
  <2> QED
    BY <1>1, <2>1, SubSeqProperties
<1>7. /\ ds \in Seq(Buffers) /\ Len(ds) = Len(bs) - i
      /\ \A j \in 1 .. Len(bs) - i : ds[j] = bs[i + j]
  <2>1. \A j \in i + 1 .. Len(bs) : bs[j] \in Buffers
    BY <1>1, ElementOfSeq
  <2> QED
    BY <1>1, <2>1, SubSeqProperties
<1> HIDE DEF xs, ds, c
<1>8. bs = Append(xs, bs[i]) \o ds
  BY <1>1, <1>6, <1>7, AroundIndex
<1>9. cs = Append(xs, c) \o ds
  <2>1. /\ Len(cs) = Len(bs) /\ cs[i] = c
        /\ \A j \in 1 .. Len(bs) : j # i => cs[j] = bs[j]
    BY <1>1, <1>4, ExceptSeq
  <2> HIDE DEF cs
  <2>2. \A j \in 1 .. i - 1 : xs[j] = cs[j]
    BY <1>1, <1>6, <2>1
  <2>3. ASSUME NEW j \in 1 .. Len(bs) - i PROVE ds[j] = cs[i + j]
    <3>1. i + j \in 1 .. Len(bs) /\ i + j # i
      BY <1>1
    <3> QED
      BY <1>7, <2>1, <3>1
  <2>4. /\ cs \in Seq(Buffers) /\ i \in 1 .. Len(cs)
        /\ xs \in Seq(Buffers) /\ Len(xs) = i - 1
        /\ \A j \in 1 .. i - 1 : xs[j] = cs[j]
        /\ ds \in Seq(Buffers) /\ Len(ds) = Len(cs) - i
        /\ \A j \in 1 .. Len(cs) - i : ds[j] = cs[i + j]
    BY <1>1, <1>5, <1>6, <1>7, <2>1, <2>2, <2>3
  <2>5. cs = Append(xs, cs[i]) \o ds
    BY ONLY <2>4, AroundIndex
  <2> QED
    BY <2>1, <2>5
<1> HIDE DEF cs
<1>10. ASSUME NEW b \in Buffers
       PROVE  Contents(Append(xs, b) \o ds)
                = (Contents(xs) \o b.data) \o Contents(ds)
  <2>1. Append(xs, b) \in Seq(Buffers)
    BY ONLY <1>6, b \in Buffers, AppendProperties
  <2>2. Contents(Append(xs, b) \o ds) = Contents(Append(xs, b)) \o Contents(ds)
    BY ONLY <1>7, <2>1, ContentsConcat
  <2>3. Contents(Append(xs, b)) = Contents(xs) \o b.data
    BY ONLY <1>6, b \in Buffers, ContentsAppend
  <2> QED
    BY <2>2, <2>3
<1>11. /\ Contents(xs) \in Seq(Nat) /\ Contents(ds) \in Seq(Nat)
       /\ c.data \in Seq(Nat)
  <2>1. /\ Contents(xs) \in Seq(Messages) /\ Contents(ds) \in Seq(Messages)
        /\ Messages \subseteq Nat
    BY <1>6, <1>7, ContentsType DEF Messages
  <2> QED
    BY <1>3, <1>4, <2>1, SeqMonotonic
<1>12. Thinned(Contents(xs) \o c.data, Contents(xs) \o bs[i].data)
  BY <1>2, <1>3, <1>4, <1>11, ThinnedSelf, ThinnedConcat
<1>13. Thinned((Contents(xs) \o c.data) \o Contents(ds),
               (Contents(xs) \o bs[i].data) \o Contents(ds))
  BY <1>2, <1>11, <1>12, ThinnedSelf, ThinnedConcat, ConcatProperties
<1>14. Thinned(Contents(cs), Contents(bs))
  BY <1>1, <1>4, <1>8, <1>9, <1>10, <1>13
<1> QED
  BY <1>5, <1>14 DEF c, cs

(* A sequence of buffers of which the last ones are dropped.               *)
LEMMA ContentsPrefix ==
  ASSUME NEW bs \in Seq(Buffers), NEW k \in 1 .. Len(bs)
  PROVE  /\ SubSeq(bs, 1, k) \in Seq(Buffers)
         /\ Thinned(Contents(SubSeq(bs, 1, k)), Contents(bs))
<1> DEFINE xs == SubSeq(bs, 1, k)
           ds == SubSeq(bs, k + 1, Len(bs))
<1>1. Len(bs) \in Nat /\ \A j \in 1 .. Len(bs) : bs[j] \in Buffers
  BY LenProperties, ElementOfSeq
<1>2. xs \in Seq(Buffers) /\ ds \in Seq(Buffers)
  BY <1>1, SubSeqProperties
<1>3. bs = xs \o ds
  <2>1. xs \o ds = SubSeq(bs, 1, Len(bs))
    BY <1>1, ConcatAdjacentSubSeq
  <2> QED
    BY <2>1, SubSeqFull
<1> HIDE DEF xs, ds
<1>4. Contents(bs) = Contents(xs) \o Contents(ds)
  BY <1>2, <1>3, ContentsConcat
<1>5. Contents(xs) \in Seq(Nat) /\ Contents(ds) \in Seq(Nat)
  <2>1. /\ Contents(xs) \in Seq(Messages) /\ Contents(ds) \in Seq(Messages)
        /\ Messages \subseteq Nat
    BY <1>2, ContentsType DEF Messages
  <2> QED
    BY <2>1, SeqMonotonic
<1>6. Thinned(Contents(xs) \o <<>>, Contents(xs) \o Contents(ds))
  <2>1. <<>> \in Seq(Nat) /\ Thinned(<<>>, Contents(ds))
    BY EmptySeq DEF Thinned, Increasing
  <2> QED
    BY <1>5, <2>1, ThinnedSelf, ThinnedConcat
<1>7. Contents(xs) \o <<>> = Contents(xs)
  BY <1>5, ConcatEmptySeq
<1> QED
  BY <1>2, <1>4, <1>6, <1>7 DEF xs
-----------------------------------------------------------------------------
(* The invariant in its parts: what is stored, and the rest of it.         *)
Kept == NothingLost /\ Numbered /\ InOrder

LEMMA IInvParts == IInv <=> TypeOK /\ BufferForAppend /\ Phases /\ Kept
BY DEF IInv, Kept

LEMMA BufferTypes ==
  /\ Null \notin Buffers /\ FB!Empty \in Buffers
  /\ \A b \in Buffers, m \in Messages, len \in Lens :
       FB!Put(b, m, len) \in Buffers
<1>1. Null \notin Buffers
  <2>1. Buffers \subseteq [data : Seq(Nat), cur : Nat]
    <3> SUFFICES ASSUME NEW b \in Buffers
                 PROVE  b \in [data : Seq(Nat), cur : Nat]
      OBVIOUS
    <3>1. b.data \in Seq(Messages) /\ Messages \subseteq Nat /\ b.cur \in Nat
      BY DEF Buffers, Messages
    <3>2. b.data \in Seq(Nat) /\ b = [data |-> b.data, cur |-> b.cur]
      BY <3>1, SeqMonotonic DEF Buffers
    <3> QED
      BY <3>1, <3>2
  <2> QED
    BY <2>1, LoggingAssumption
<1>2. FB!Empty \in Buffers
  BY LoggingAssumption, EmptySeq DEF FB!Empty, Buffers
<1>3. ASSUME NEW b \in Buffers, NEW m \in Messages, NEW len \in Lens
      PROVE  FB!Put(b, m, len) \in Buffers
  <2>1. /\ b.data \in Seq(Messages) /\ b.cur \in 0 .. Capacity - 1
        /\ len \in Nat /\ Capacity \in Nat
    BY LoggingAssumption DEF Buffers
  <2>2. Append(b.data, m) \in Seq(Messages)
    BY <2>1, AppendProperties
  <2>3. CASE FB!Avail(b) > len
    BY <2>1, <2>2, <2>3 DEF FB!Put, FB!Add, FB!Avail, Buffers
  <2>4. CASE ~ (FB!Avail(b) > len)
    BY <2>4 DEF FB!Put
  <2> QED
    BY <2>3, <2>4
<1> QED
  BY <1>1, <1>2, <1>3

(* The types of what is stored.                                            *)
LEMMA StoredType ==
  ASSUME TypeOK
  PROVE  /\ Stored \in Seq(Messages) /\ Stored \in Seq(Nat)
         /\ Unwritten \in Seq(Messages) /\ Current \in Seq(Messages)
         /\ Contents(bufferPtrs_) \in Seq(Messages)
         /\ Contents(buffersWaitToWrite) \in Seq(Messages)
         /\ file \o Unwritten \in Seq(Messages)
         /\ (file \o Unwritten) \o Contents(bufferPtrs_) \in Seq(Messages)
<1>1. /\ file \in Seq(Messages) /\ Contents(bufferPtrs_) \in Seq(Messages)
      /\ Contents(buffersWaitToWrite) \in Seq(Messages)
  BY ContentsType DEF TypeOK
<1>2. Unwritten \in Seq(Messages)
  BY <1>1, EmptySeq DEF Unwritten
<1>3. Current \in Seq(Messages)
  <2>1. ASSUME currentBuffer_ # Null
        PROVE  currentBuffer_.data \in Seq(Messages)
    BY <2>1 DEF TypeOK, Buffers
  <2> QED
    BY <2>1, EmptySeq DEF Current
<1>4. file \o Unwritten \in Seq(Messages)
  BY <1>1, <1>2, ConcatProperties
<1>5. (file \o Unwritten) \o Contents(bufferPtrs_) \in Seq(Messages)
  BY <1>1, <1>4, ConcatProperties
<1>6. Stored \in Seq(Messages)
  BY <1>3, <1>5, ConcatProperties DEF Stored
<1>7. Stored \in Seq(Nat)
  <2>1. Messages \subseteq Nat
    BY DEF Messages
  <2> QED
    BY <1>6, <2>1, SeqMonotonic
<1> QED
  BY <1>1, <1>2, <1>3, <1>4, <1>5, <1>6, <1>7

(* The steps that only move what is stored.                                *)
LEMMA KeptWhenMoved ==
  ASSUME Kept, Stored' = Stored, appended' = appended,
         lost => lost', crashed => crashed'
  PROVE  Kept'
BY DEF Kept, NothingLost, Numbered, InOrder

(* The steps that lose something, and know it.                             *)
LEMMA KeptWhenThinned ==
  ASSUME TypeOK, Kept, Stored' \in Seq(Nat), Thinned(Stored', Stored),
         appended' = appended, lost' \/ crashed'
  PROVE  Kept'
<1>1. Numbered' /\ NothingLost'
  BY DEF Kept, NothingLost, Numbered
<1>2. Stored \in Seq(Nat) /\ Len(appended) \in Nat
  BY StoredType, LenProperties DEF TypeOK
<1>3. Increasing(Stored) /\ \A i \in DOMAIN Stored : Stored[i] <= Len(appended)
  BY DEF Kept, InOrder
<1>4. /\ Increasing(Stored')
      /\ \A i \in DOMAIN Stored' : Stored'[i] <= Len(appended)
  BY <1>2, <1>3, ThinnedInOrder
<1> QED
  BY <1>1, <1>4 DEF Kept, InOrder

(* The steps that store one more message, or drop it.                      *)
LEMMA KeptWhenAppended ==
  ASSUME TypeOK, Kept, Len(appended) + 1 \in Messages,
         appended' = Append(appended, Len(appended) + 1),
         \/ Stored' = Stored \o <<Len(appended) + 1>>
         \/ Stored' = Stored /\ lost' = TRUE,
         lost => lost', crashed' = crashed
  PROVE  Kept'
<1> DEFINE m == Len(appended) + 1
<1>1. /\ Stored \in Seq(Messages) /\ Stored \in Seq(Nat)
      /\ appended \in Seq(Messages) /\ Len(appended) \in Nat
  BY StoredType, LenProperties DEF TypeOK
<1>2. /\ Len(appended') = m /\ appended'[m] = m
      /\ \A i \in 1 .. Len(appended) : appended'[i] = appended[i]
      /\ appended' \in Seq(Messages) /\ appended' = appended \o <<m>>
  BY <1>1, AppendProperties, AppendIsConcat
<1>3. DOMAIN appended = 1 .. Len(appended) /\ DOMAIN appended' = 1 .. m
  BY <1>1, <1>2, LenProperties
<1>4. Numbered'
  BY <1>1, <1>2, <1>3 DEF Kept, Numbered
<1>5. NothingLost'
  BY <1>2 DEF Kept, NothingLost
<1>6. Increasing(Stored) /\ \A i \in DOMAIN Stored : Stored[i] < m
  <2>1. \A i \in DOMAIN Stored : Stored[i] \in Nat
    BY <1>1, LenProperties, ElementOfSeq
  <2> QED
    BY <1>1, <2>1 DEF Kept, InOrder
<1>7. /\ Increasing(Stored \o <<m>>)
      /\ \A i \in DOMAIN (Stored \o <<m>>) : (Stored \o <<m>>)[i] <= m
  <2>1. /\ <<m>> \in Seq(Nat) /\ Len(<<m>>) = 1 /\ <<m>>[1] = m
        /\ DOMAIN <<m>> = 1 .. 1 /\ DOMAIN Stored = 1 .. Len(Stored)
    BY <1>1, LenProperties
  <2>2. Increasing(<<m>>)
    BY <2>1 DEF Increasing
  <2>3. Increasing(Stored \o <<m>>)
    <3>1. \A i \in DOMAIN Stored, j \in DOMAIN <<m>> : Stored[i] < <<m>>[j]
      <4>1. \A j \in DOMAIN <<m>> : <<m>>[j] = m
        BY <2>1
      <4> QED
        BY <1>6, <4>1
    <3> QED
      BY <1>1, <1>6, <2>1, <2>2, <3>1, IncreasingConcat
  <2>4. /\ DOMAIN (Stored \o <<m>>) = 1 .. Len(Stored) + 1
        /\ Len(Stored) \in Nat /\ (Stored \o <<m>>)[Len(Stored) + 1] = m
        /\ \A i \in 1 .. Len(Stored) : (Stored \o <<m>>)[i] = Stored[i]
    BY <1>1, <2>1, AtConcat, LenProperties
  <2>5. ASSUME NEW i \in 1 .. Len(Stored) + 1
        PROVE  (Stored \o <<m>>)[i] <= m
    <3>1. CASE i \in 1 .. Len(Stored)
      <4>1. Stored[i] < m /\ Stored[i] \in Nat
        BY <1>1, <1>6, <2>1, <3>1, ElementOfSeq
      <4> QED
        BY <1>1, <2>4, <3>1, <4>1
    <3>2. CASE i = Len(Stored) + 1
      BY <1>1, <2>4, <3>2
    <3> QED
      BY <2>4, <3>1, <3>2
  <2> QED
    BY <2>3, <2>4, <2>5
<1>8. InOrder'
  <2>1. CASE Stored' = Stored \o <<m>>
    BY <1>2, <1>7, <2>1 DEF InOrder
  <2>2. CASE Stored' = Stored
    <3>1. \A i \in DOMAIN Stored : Stored[i] <= m
      <4>1. \A i \in DOMAIN Stored : Stored[i] \in Nat
        BY <1>1, LenProperties, ElementOfSeq
      <4> QED
        BY <1>1, <1>6, <4>1
    <3> QED
      BY <1>2, <1>6, <2>2, <3>1 DEF InOrder
  <2> QED
    BY <2>1, <2>2
<1> QED
  BY <1>4, <1>5, <1>8 DEF Kept
-----------------------------------------------------------------------------
(* Stored stays as it is when what it is made of does.                     *)
LEMMA SameStored ==
  ASSUME UNCHANGED <<file, bufferPtrs_, currentBuffer_, buffersWaitToWrite>>,
         pc' \in {"backlog", "write"} <=> pc \in {"backlog", "write"}
  PROVE  Stored' = Stored
BY DEF Stored, Unwritten, Current

LEMMA InitIInv == Init => IInv
<1> SUFFICES ASSUME Init PROVE IInv
  OBVIOUS
<1>1. <<>> \in Seq(Buffers) /\ <<>> \in Seq(Messages) /\ Len(<<>>) = 0
  BY EmptySeq
<1>2. TypeOK
  <2>1. /\ bufferPtrs_ \in Seq(Buffers) /\ buffersWaitToWrite \in Seq(Buffers)
        /\ file \in Seq(Messages) /\ appended \in Seq(Messages)
        /\ disk \in 0 .. Len(file) /\ currentBuffer_ \in Buffers
    BY <1>1, BufferTypes DEF Init
  <2>2. /\ lost \in BOOLEAN /\ running_ \in BOOLEAN /\ crashed \in BOOLEAN
        /\ nextBuffer_ \in BOOLEAN
        /\ newBuffer1 \in BOOLEAN /\ newBuffer2 \in BOOLEAN
    BY DEF Init
  <2>3. /\ stage = "new" /\ pc = "none"
        /\ threadLatch \in 0 .. 1 /\ latch_ \in 0 .. 1
    BY DEF Init
  <2> QED
    BY <2>1, <2>2, <2>3 DEF TypeOK
<1>3. BufferForAppend /\ Phases
  BY BufferTypes DEF Init, BufferForAppend, Phases
<1>4. Stored = <<>>
  <2>1. Unwritten = <<>> /\ Current = <<>> /\ file = <<>>
        /\ Contents(bufferPtrs_) = <<>>
    BY BufferTypes, ContentsEmpty DEF Init, Unwritten, Current, FB!Empty
  <2>2. <<>> \o <<>> = <<>>
    BY <1>1, ConcatEmptySeq
  <2> QED
    BY <2>1, <2>2 DEF Stored
<1>5. Kept
  <2>1. \A s : s = <<>> => DOMAIN s = {}
    OBVIOUS
  <2> QED
    BY <1>4, <2>1 DEF Init, Kept, NothingLost, Numbered, InOrder, Increasing
<1> QED
  BY <1>2, <1>3, <1>5, IInvParts

LEMMA StartEnterIInv == ASSUME IInv, StartEnter PROVE IInv'
<1>1. TypeOK'
  BY DEF IInv, StartEnter, TypeOK, restVars, buffers
<1>2. BufferForAppend' /\ Phases'
  BY DEF IInv, StartEnter, TypeOK, BufferForAppend, Phases, restVars,
     buffers
<1>3. Kept'
  <2>1. Stored' = Stored
    BY SameStored DEF StartEnter, restVars, buffers
  <2> QED
    BY <2>1, IInvParts, KeptWhenMoved DEF StartEnter, restVars, buffers
<1> QED
  BY <1>1, <1>2, <1>3 DEF IInv, Kept

LEMMA PthreadCreateIInv == ASSUME IInv, PthreadCreate PROVE IInv'
<1>1. TypeOK'
  BY DEF IInv, PthreadCreate, TypeOK, restVars, buffers
<1>2. BufferForAppend' /\ Phases'
  BY DEF IInv, PthreadCreate, TypeOK, BufferForAppend, Phases, restVars,
     buffers
<1>3. Kept'
  <2>1. Stored' = Stored
    BY SameStored DEF IInv, Phases, PthreadCreate, restVars, buffers
  <2> QED
    BY <2>1, IInvParts, KeptWhenMoved DEF PthreadCreate, restVars, buffers
<1> QED
  BY <1>1, <1>2, <1>3 DEF IInv, Kept

LEMMA PthreadCreateFailsIInv == ASSUME IInv, PthreadCreateFails PROVE IInv'
<1>1. TypeOK'
  BY DEF IInv, PthreadCreateFails, TypeOK, restVars, buffers
<1>2. BufferForAppend' /\ Phases'
  BY DEF IInv, PthreadCreateFails, TypeOK, BufferForAppend, Phases, restVars,
     buffers
<1>3. Kept'
  <2>1. Stored' = Stored
    BY SameStored DEF PthreadCreateFails, restVars, buffers
  <2> QED
    BY <2>1, IInvParts, KeptWhenMoved DEF PthreadCreateFails, restVars, buffers
<1> QED
  BY <1>1, <1>2, <1>3 DEF IInv, Kept

LEMMA ThreadStartedIInv == ASSUME IInv, ThreadStarted PROVE IInv'
<1>1. TypeOK'
  BY DEF IInv, ThreadStarted, TypeOK, restVars, buffers
<1>2. BufferForAppend' /\ Phases'
  BY DEF IInv, ThreadStarted, TypeOK, BufferForAppend, Phases, restVars,
     buffers
<1>3. Kept'
  <2>1. Stored' = Stored
    BY SameStored DEF ThreadStarted, restVars, buffers
  <2> QED
    BY <2>1, IInvParts, KeptWhenMoved DEF ThreadStarted, restVars, buffers
<1> QED
  BY <1>1, <1>2, <1>3 DEF IInv, Kept

LEMMA StartReturnsIInv == ASSUME IInv, StartReturns PROVE IInv'
<1>1. TypeOK'
  BY DEF IInv, StartReturns, TypeOK, restVars, buffers
<1>2. BufferForAppend' /\ Phases'
  BY DEF IInv, StartReturns, TypeOK, BufferForAppend, Phases, restVars,
     buffers
<1>3. Kept'
  <2>1. Stored' = Stored
    BY SameStored DEF StartReturns, restVars, buffers
  <2> QED
    BY <2>1, IInvParts, KeptWhenMoved DEF StartReturns, restVars, buffers
<1> QED
  BY <1>1, <1>2, <1>3 DEF IInv, Kept

LEMMA RunInThreadIInv == ASSUME IInv, RunInThread PROVE IInv'
<1>1. TypeOK'
  BY DEF IInv, Phases, RunInThread, TypeOK, restVars, buffers
<1>2. BufferForAppend' /\ Phases'
  BY DEF IInv, RunInThread, TypeOK, BufferForAppend, Phases, restVars,
     buffers
<1>3. Kept'
  <2>1. Stored' = Stored
    BY SameStored DEF RunInThread, restVars, buffers
  <2> QED
    BY <2>1, IInvParts, KeptWhenMoved DEF RunInThread, restVars, buffers
<1> QED
  BY <1>1, <1>2, <1>3 DEF IInv, Kept

LEMMA EnterThreadFuncIInv == ASSUME IInv, EnterThreadFunc PROVE IInv'
<1>1. TypeOK'
  BY DEF IInv, Phases, EnterThreadFunc, TypeOK, restVars, buffers
<1>2. BufferForAppend' /\ Phases'
  BY DEF IInv, EnterThreadFunc, TypeOK, BufferForAppend, Phases, restVars,
     buffers
<1>3. Kept'
  <2>1. Stored' = Stored
    BY SameStored DEF EnterThreadFunc, restVars, buffers
  <2> QED
    BY <2>1, IInvParts, KeptWhenMoved DEF EnterThreadFunc, restVars, buffers
<1> QED
  BY <1>1, <1>2, <1>3 DEF IInv, Kept

LEMMA StopIInv == ASSUME IInv, Stop PROVE IInv'
<1>1. TypeOK'
  BY DEF IInv, Stop, TypeOK, restVars, buffers, startVars
<1>2. BufferForAppend' /\ Phases'
  BY DEF IInv, Stop, TypeOK, BufferForAppend, Phases, restVars, buffers,
     startVars
<1>3. Kept'
  <2>1. Stored' = Stored
    BY SameStored DEF Stop, restVars, buffers, startVars
  <2> QED
    BY <2>1, IInvParts, KeptWhenMoved DEF Stop, restVars, buffers, startVars
<1> QED
  BY <1>1, <1>2, <1>3 DEF IInv, Kept

LEMMA CheckIInv == ASSUME IInv, Check PROVE IInv'
<1>1. TypeOK'
  BY DEF IInv, Check, TypeOK, callerVars, startVars, buffers
<1>2. BufferForAppend' /\ Phases'
  BY DEF IInv, Check, TypeOK, BufferForAppend, Phases, callerVars, startVars,
     buffers
<1>3. Kept'
  <2>1. Stored' = Stored
    BY SameStored DEF Check, callerVars, startVars, buffers
  <2> QED
    BY <2>1, IInvParts, KeptWhenMoved DEF Check, callerVars, startVars, buffers
<1> QED
  BY <1>1, <1>2, <1>3 DEF IInv, Kept

LEMMA WaitIInv == ASSUME IInv, Wait PROVE IInv'
<1>1. TypeOK'
  BY DEF IInv, Wait, TypeOK, callerVars, startVars, buffers
<1>2. BufferForAppend' /\ Phases'
  BY DEF IInv, Wait, TypeOK, BufferForAppend, Phases, callerVars, startVars,
     buffers
<1>3. Kept'
  <2>1. Stored' = Stored
    BY SameStored DEF Wait, callerVars, startVars, buffers
  <2> QED
    BY <2>1, IInvParts, KeptWhenMoved DEF Wait, callerVars, startVars, buffers
<1> QED
  BY <1>1, <1>2, <1>3 DEF IInv, Kept

(* What an append stores comes last: in the current buffer, or behind it.  *)
LEMMA LogStores ==
  ASSUME TypeOK, NEW len \in Lens, NEW m \in Messages, currentBuffer_ # Null,
         UNCHANGED <<file, buffersWaitToWrite, pc>>,
         \/ Fits(len) /\ Store(m, len)
         \/ ~Fits(len) /\ Rotate(m, len)
  PROVE  /\ currentBuffer_' \in Buffers /\ bufferPtrs_' \in Seq(Buffers)
         /\ \/ Stored' = Stored \o <<m>>
            \/ Stored' = Stored /\ currentBuffer_' = currentBuffer_
<1> DEFINE F == file \o Unwritten
           C == Contents(bufferPtrs_)
           d == currentBuffer_.data
<1>1. /\ bufferPtrs_ \in Seq(Buffers) /\ currentBuffer_ \in Buffers
      /\ d \in Seq(Messages) /\ Current = d
  BY DEF TypeOK, Buffers, Current
<1>2. /\ F \in Seq(Messages) /\ C \in Seq(Messages)
      /\ F \o C \in Seq(Messages) /\ <<m>> \in Seq(Messages)
  BY StoredType
<1>3. /\ Unwritten' = Unwritten /\ file' = file
      /\ Stored = (F \o C) \o d
  BY <1>1 DEF Unwritten, Stored
<1> HIDE DEF F, C, d
<1>4. CASE Store(m, len)
  <2>1. /\ currentBuffer_' = FB!Put(currentBuffer_, m, len)
        /\ bufferPtrs_' = bufferPtrs_
    BY <1>4 DEF Store
  <2>2. currentBuffer_' \in Buffers /\ currentBuffer_' # Null
    BY <1>1, <2>1, BufferTypes
  <2>3. Stored' = (F \o C) \o currentBuffer_'.data
    BY <1>3, <2>1, <2>2 DEF Stored, Current, F, C
  <2>4. CASE FB!Avail(currentBuffer_) > len
    <3>1. currentBuffer_'.data = d \o <<m>>
      BY <1>1, <2>1, <2>4, AppendIsConcat DEF FB!Put, FB!Add, d
    <3>2. Stored' = Stored \o <<m>>
      <4>1. ((F \o C) \o d) \o <<m>> = (F \o C) \o (d \o <<m>>)
        BY <1>1, <1>2, ConcatAssociative, SMTT(30)
      <4> QED
        BY <1>3, <2>3, <3>1, <4>1
    <3> QED
      BY <1>1, <2>1, <2>2, <3>2
  <2>5. CASE ~ (FB!Avail(currentBuffer_) > len)
    <3>1. currentBuffer_' = currentBuffer_
      BY <2>1, <2>5 DEF FB!Put
    <3> QED
      BY <1>1, <1>3, <2>1, <2>3, <3>1 DEF d
  <2> QED
    BY <2>4, <2>5
<1>5. CASE Rotate(m, len)
  <2>1. /\ currentBuffer_' = FB!Put(FB!Empty, m, len)
        /\ bufferPtrs_' = Append(bufferPtrs_, currentBuffer_)
    BY <1>5 DEF Rotate, Refill
  <2>2. currentBuffer_' \in Buffers /\ currentBuffer_' # Null
    BY <2>1, BufferTypes
  <2>3. /\ bufferPtrs_' \in Seq(Buffers)
        /\ Contents(bufferPtrs_') = C \o d
    BY <1>1, <2>1, AppendProperties, ContentsAppend DEF C, d
  <2>4. currentBuffer_'.data = <<m>>
    <3>1. FB!Avail(FB!Empty) > len
      BY LoggingAssumption DEF FB!Avail, FB!Empty
    <3>2. currentBuffer_' = FB!Add(FB!Empty, m, len)
      BY <2>1, <3>1 DEF FB!Put
    <3> QED
      BY <3>2 DEF FB!Add, FB!Empty
  <2>5. Stored' = (F \o (C \o d)) \o <<m>>
    BY <1>3, <2>2, <2>3, <2>4 DEF Stored, Current, F
  <2>6. Stored' = Stored \o <<m>>
    <3>1. (F \o C) \o d = F \o (C \o d)
      BY <1>1, <1>2, ConcatAssociative
    <3> QED
      BY <1>3, <2>5, <3>1
  <2> QED
    BY <2>2, <2>3, <2>6
<1> QED
  BY <1>4, <1>5

(* A message that did not go into its buffer is not there.                 *)
LEMMA NewIsNotThere ==
  ASSUME TypeOK, Kept, currentBuffer_ # Null
  PROVE  Len(appended) + 1 \notin ToSet(currentBuffer_.data)
<1> DEFINE F == (file \o Unwritten) \o Contents(bufferPtrs_)
           d == currentBuffer_.data
<1>1. /\ F \in Seq(Messages) /\ d \in Seq(Messages)
      /\ Stored = F \o d /\ Len(appended) \in Nat
  BY StoredType, LenProperties DEF TypeOK, Buffers, Stored, Current
<1>2. ASSUME NEW i \in DOMAIN d PROVE d[i] <= Len(appended)
  <2> HIDE DEF F, d
  <2>1. /\ i \in 1 .. Len(d) /\ Len(F) \in Nat /\ Len(d) \in Nat
        /\ Len(F \o d) = Len(F) + Len(d)
    BY <1>1, AtConcat, LenProperties
  <2>2. (F \o d)[Len(F) + i] = d[i]
    BY <1>1, <2>1, AtConcat
  <2>3. DOMAIN (F \o d) = 1 .. Len(F) + Len(d)
    BY <1>1, <2>1, ConcatProperties, LenProperties
  <2>4. Len(F) + i \in DOMAIN Stored /\ Stored[Len(F) + i] = d[i]
    BY <1>1, <2>1, <2>2, <2>3
  <2> QED
    BY <2>4 DEF Kept, InOrder
<1> QED
  BY <1>1, <1>2 DEF ToSet

LEMMA AppendIInv == ASSUME IInv, NEW len \in Lens, Log(len) PROVE IInv'
<1> DEFINE m == Len(appended) + 1
<1>1. /\ TypeOK /\ Kept /\ BufferForAppend /\ Phases
      /\ MaxAppends \in Nat
  BY LoggingAssumption, IInvParts
<1>2. /\ UNCHANGED <<stage, threadLatch, latch_, newBuffer1, newBuffer2,
                     buffersWaitToWrite, running_, pc, file, disk>>
      /\ m <= MaxAppends
  BY DEF Log, startVars
<1>3. m \in Messages /\ appended \in Seq(Messages)
  BY <1>1, <1>2, LenProperties DEF Messages, TypeOK
<1>4. CASE /\ crashed' = TRUE
           /\ UNCHANGED <<appended, currentBuffer_, nextBuffer_, bufferPtrs_,
                          lost>>
  <2>1. TypeOK'
    BY <1>1, <1>2, <1>4 DEF TypeOK
  <2>2. BufferForAppend' /\ Phases'
    BY <1>1, <1>2, <1>4 DEF BufferForAppend, Phases
  <2>3. Stored' = Stored
    BY <1>2, <1>4, SameStored
  <2>4. Kept'
    BY <1>1, <1>4, <2>3, KeptWhenMoved
  <2> QED
    BY <2>1, <2>2, <2>4 DEF IInv, Kept
<1>5. CASE /\ currentBuffer_ # Null
           /\ \/ Fits(len) /\ Store(m, len)
              \/ ~Fits(len) /\ Rotate(m, len)
           /\ appended' = Append(appended, m)
           /\ lost' = (lost \/ m \notin ToSet(currentBuffer_'.data))
           /\ UNCHANGED crashed
  <2>1. /\ currentBuffer_' \in Buffers /\ bufferPtrs_' \in Seq(Buffers)
        /\ \/ Stored' = Stored \o <<m>>
           \/ Stored' = Stored /\ currentBuffer_' = currentBuffer_
    BY <1>1, <1>2, <1>3, <1>5, LogStores
  <2>2. nextBuffer_' \in BOOLEAN
    BY <1>1, <1>5 DEF TypeOK, Store, Rotate, Refill
  <2>3. lost' \in BOOLEAN
    BY <1>5, Zenon
  <2>4. appended' \in Seq(Messages)
    BY <1>3, <1>5, AppendProperties
  <2>5. TypeOK'
    BY <1>1, <1>2, <1>5, <2>1, <2>2, <2>3, <2>4 DEF TypeOK
  <2>6. BufferForAppend' /\ Phases'
    <3>1. currentBuffer_' # Null
      BY <2>1, BufferTypes
    <3>2. pc # "done"
      BY <1>1, <1>5 DEF Phases
    <3> QED
      BY <1>1, <1>2, <1>5, <3>1, <3>2 DEF BufferForAppend, Phases
  <2>7. Kept'
    <3>1. \/ Stored' = Stored \o <<m>>
          \/ Stored' = Stored /\ lost' = TRUE
      <4>1. CASE Stored' = Stored /\ currentBuffer_' = currentBuffer_
        <5>1. m \notin ToSet(currentBuffer_'.data)
          BY <1>1, <1>5, <4>1, NewIsNotThere
        <5> QED
          BY <1>5, <4>1, <5>1
      <4>2. CASE Stored' = Stored \o <<m>>
        BY <4>2
      <4> QED
        BY <2>1, <4>1, <4>2
    <3> QED
      BY <1>1, <1>3, <1>5, <3>1, KeptWhenAppended
  <2> QED
    BY <2>5, <2>6, <2>7 DEF IInv, Kept
<1> QED
  BY <1>4, <1>5 DEF Log
-----------------------------------------------------------------------------
(* The types of what the thread moves.                                     *)
LEMMA MovedTypes ==
  ASSUME TypeOK
  PROVE  /\ file \in Seq(Messages) /\ Len(file) \in Nat
         /\ bufferPtrs_ \in Seq(Buffers) /\ buffersWaitToWrite \in Seq(Buffers)
         /\ Contents(bufferPtrs_) \in Seq(Messages)
         /\ Contents(buffersWaitToWrite) \in Seq(Messages)
         /\ Current \in Seq(Messages)
         /\ currentBuffer_ # Null => /\ currentBuffer_ \in Buffers
                                     /\ Current = currentBuffer_.data
         /\ file \o <<>> = file
BY StoredType, LenProperties, ConcatEmptySeq DEF TypeOK, Current

LEMMA SwapIInv == ASSUME IInv, Swap PROVE IInv'
<1> DEFINE C == Contents(bufferPtrs_)
           d == currentBuffer_.data
<1>1. TypeOK /\ Kept /\ BufferForAppend /\ Phases
  BY IInvParts
<1>2. /\ pc \in {"waiting", "lock"} /\ newBuffer1 /\ currentBuffer_ # Null
      /\ UNCHANGED <<stage, threadLatch, latch_, appended, lost, running_,
                     file, disk, crashed>>
      /\ pc' = "backlog" /\ bufferPtrs_' = <<>>
      /\ buffersWaitToWrite' = Append(bufferPtrs_, currentBuffer_)
      /\ currentBuffer_' = FB!Empty
  BY <1>1 DEF Swap, Phases, Replace, Taken, callerVars, startVars
<1>3. /\ currentBuffer_ \in Buffers /\ bufferPtrs_ \in Seq(Buffers)
      /\ currentBuffer_' \in Buffers /\ currentBuffer_' # Null
      /\ bufferPtrs_' \in Seq(Buffers) /\ buffersWaitToWrite' \in Seq(Buffers)
  BY <1>1, <1>2, MovedTypes, BufferTypes, EmptySeq, AppendProperties
<1>4. TypeOK'
  <2>1. /\ nextBuffer_' \in BOOLEAN /\ newBuffer1' \in BOOLEAN
        /\ newBuffer2' \in BOOLEAN
    BY Zenon DEF Swap, Replace
  <2> QED
    BY <1>1, <1>2, <1>3, <2>1 DEF TypeOK
<1>5. BufferForAppend' /\ Phases'
  BY <1>1, <1>2, <1>3 DEF BufferForAppend, Phases
<1>6. Stored' = Stored
  <2>1. /\ file \in Seq(Messages) /\ C \in Seq(Messages) /\ d \in Seq(Messages)
        /\ file \o <<>> = file /\ Current = d
    BY <1>1, <1>2, MovedTypes
  <2>2. Unwritten = <<>> /\ Unwritten' = C \o d
    BY <1>2, <1>3, ContentsAppend DEF Unwritten
  <2>3. Current' = <<>> /\ Contents(bufferPtrs_)' = <<>>
    BY <1>2, <1>3, ContentsEmpty DEF Current, FB!Empty
  <2>4. Stored = (file \o C) \o d
    BY <2>1, <2>2 DEF Stored
  <2>5. Stored' = ((file \o (C \o d)) \o <<>>) \o <<>>
    BY <1>2, <2>2, <2>3 DEF Stored
  <2> HIDE DEF C, d
  <2>6. (file \o C) \o d = file \o (C \o d)
    BY <2>1, ConcatAssociative, SMTT(30)
  <2>7. /\ file \o (C \o d) \in Seq(Messages)
        /\ (file \o (C \o d)) \o <<>> = file \o (C \o d)
    BY <2>1, ConcatProperties, ConcatEmptySeq
  <2> QED
    BY <2>4, <2>5, <2>6, <2>7
<1>7. Kept'
  BY <1>1, <1>2, <1>6, KeptWhenMoved
<1> QED
  BY <1>4, <1>5, <1>7, IInvParts DEF IInv, Kept

(* Erasing the buffers of a round from the third one on thins what is      *)
(* stored, even when nobody can tell how many of them there are.           *)
LEMMA BacklogIInv == ASSUME IInv, Backlog PROVE IInv'
<1> DEFINE C == Contents(bufferPtrs_)
           W == Contents(buffersWaitToWrite)
<1>1. TypeOK /\ Kept /\ BufferForAppend /\ Phases
  BY IInvParts
<1>2. /\ UNCHANGED <<stage, threadLatch, latch_, appended, currentBuffer_,
                     nextBuffer_, newBuffer1, newBuffer2, bufferPtrs_,
                     running_, file, disk>>
      /\ pc = "backlog" /\ pc' = "write"
      /\ \/ UNCHANGED <<buffersWaitToWrite, lost, crashed>>
         \/ /\ Len(buffersWaitToWrite) >= 2
            /\ buffersWaitToWrite' = SubSeq(buffersWaitToWrite, 1, 2)
            /\ lost' = (lost \/ Len(buffersWaitToWrite) > 2)
            /\ UNCHANGED crashed
         \/ crashed' = TRUE /\ UNCHANGED <<buffersWaitToWrite, lost>>
  BY DEF Backlog, callerVars, startVars, buffers
<1>3. buffersWaitToWrite \in Seq(Buffers) /\ Len(buffersWaitToWrite) \in Nat
  BY <1>1, LenProperties DEF TypeOK
<1>4. BufferForAppend' /\ Phases'
  BY <1>1, <1>2 DEF BufferForAppend, Phases
<1>5. CASE UNCHANGED buffersWaitToWrite /\ UNCHANGED lost
           /\ (crashed' = TRUE \/ UNCHANGED crashed)
  <2>1. TypeOK'
    <3>1. crashed' \in BOOLEAN
      BY <1>1, <1>5, Zenon DEF TypeOK
    <3>2. /\ UNCHANGED <<stage, threadLatch, latch_, appended, currentBuffer_,
                         nextBuffer_, newBuffer1, newBuffer2, bufferPtrs_,
                         running_, file, disk, buffersWaitToWrite, lost>>
          /\ pc' = "write"
      BY <1>2, <1>5
    <3> QED
      BY ONLY <1>1, <3>1, <3>2, SMTT(30) DEF TypeOK
  <2>2. Stored' = Stored
    BY <1>2, <1>5, SameStored
  <2>3. Kept'
    BY <1>1, <1>2, <1>5, <2>2, KeptWhenMoved
  <2> QED
    BY <1>4, <2>1, <2>3 DEF IInv, Kept
<1>6. CASE /\ Len(buffersWaitToWrite) >= 2
           /\ buffersWaitToWrite' = SubSeq(buffersWaitToWrite, 1, 2)
           /\ lost' = (lost \/ Len(buffersWaitToWrite) > 2)
           /\ UNCHANGED crashed
  <2>1. /\ buffersWaitToWrite' \in Seq(Buffers)
        /\ Thinned(Contents(buffersWaitToWrite'), W)
    BY <1>3, <1>6, ContentsPrefix
  <2>2. lost' \in BOOLEAN
    BY <1>6, Zenon
  <2>3. TypeOK'
    BY <1>1, <1>2, <1>6, <2>1, <2>2 DEF TypeOK
  <2>4. CASE Len(buffersWaitToWrite) = 2
    <3>1. buffersWaitToWrite' = buffersWaitToWrite
      BY <1>3, <1>6, <2>4, SubSeqFull
    <3>2. Stored' = Stored
      BY <1>2, <3>1, SameStored
    <3>3. lost => lost'
      BY <1>6, Zenon
    <3> QED
      BY <1>1, <1>2, <1>4, <1>6, <2>3, <3>2, <3>3, KeptWhenMoved
         DEF IInv, Kept
  <2>5. CASE Len(buffersWaitToWrite) # 2
    <3>1. lost'
      <4>1. Len(buffersWaitToWrite) > 2
        BY <1>3, <1>6, <2>5
      <4> QED
        BY <1>6, <4>1, Zenon
    <3>2. Thinned(Stored', Stored) /\ Stored' \in Seq(Nat)
      <4> DEFINE V == Contents(buffersWaitToWrite')
      <4>1. /\ file \in Seq(Nat) /\ C \in Seq(Nat) /\ Current \in Seq(Nat)
            /\ W \in Seq(Nat) /\ V \in Seq(Nat)
        <5>1. /\ file \in Seq(Messages) /\ C \in Seq(Messages)
              /\ Current \in Seq(Messages) /\ W \in Seq(Messages)
              /\ V \in Seq(Messages)
          BY <1>1, <2>1, MovedTypes, ContentsType
        <5>2. Messages \subseteq Nat
          BY DEF Messages
        <5> QED
          BY <5>1, <5>2, SeqMonotonic
      <4>2. /\ Stored = ((file \o W) \o C) \o Current
            /\ Stored' = ((file \o V) \o C) \o Current
        BY <1>2 DEF Stored, Unwritten, Current
      <4>3. Thinned(V, W)
        BY <2>1
      <4> HIDE DEF V, W, C
      <4>4. /\ Thinned(file \o V, file \o W)
            /\ file \o V \in Seq(Nat) /\ file \o W \in Seq(Nat)
        BY <4>1, <4>3, ThinnedSelf, ThinnedConcat, ConcatProperties
      <4>5. /\ Thinned((file \o V) \o C, (file \o W) \o C)
            /\ (file \o V) \o C \in Seq(Nat) /\ (file \o W) \o C \in Seq(Nat)
        BY <4>1, <4>4, ThinnedSelf, ThinnedConcat, ConcatProperties
      <4> QED
        BY <4>1, <4>2, <4>5, ThinnedSelf, ThinnedConcat, ConcatProperties
    <3>3. Kept'
      BY <1>1, <1>2, <3>1, <3>2, KeptWhenThinned
    <3> QED
      BY <1>4, <2>3, <3>3 DEF IInv, Kept
  <2> QED
    BY <2>4, <2>5
<1> QED
  BY <1>2, <1>5, <1>6

(* What a write adds to the file.                                          *)
LEMMA Written ==
  ASSUME TypeOK, NEW bs \in Seq(Buffers), WriteAll(bs) \/ WriteFails(bs)
  PROVE  \E w \in Seq(Messages) :
           /\ file' = file \o w /\ lost' \in BOOLEAN
           /\ \/ w = Contents(bs) /\ lost' = lost
              \/ Thinned(w, Contents(bs)) /\ lost' = TRUE
<1>1. CASE WriteAll(bs)
  <2>1. Contents(bs) \in Seq(Messages)
    BY ContentsType
  <2>2. lost' = lost /\ lost \in BOOLEAN
    BY <1>1 DEF WriteAll, TypeOK
  <2> QED
    BY <1>1, <2>1, <2>2 DEF WriteAll
<1>2. CASE WriteFails(bs)
  <2>1. PICK i \in DOMAIN bs : \E k \in 0 .. Len(bs[i].data) - 1 :
          /\ file' = file \o Contents([bs EXCEPT ![i].data = SubSeq(@, 1, k)])
          /\ lost' = TRUE
    BY <1>2 DEF WriteFails
  <2>2. PICK k \in 0 .. Len(bs[i].data) - 1 :
          /\ file' = file \o Contents([bs EXCEPT ![i].data = SubSeq(@, 1, k)])
          /\ lost' = TRUE
    BY <2>1
  <2> DEFINE cs == [bs EXCEPT ![i].data = SubSeq(@, 1, k)]
  <2>3. cs \in Seq(Buffers) /\ Thinned(Contents(cs), Contents(bs))
    BY ContentsThinned
  <2> HIDE DEF cs
  <2>4. file' = file \o Contents(cs) /\ lost' = TRUE /\ lost' \in BOOLEAN
    BY <2>2 DEF cs
  <2>5. Contents(cs) \in Seq(Messages)
    BY <2>3, ContentsType
  <2> QED
    BY <2>3, <2>4, <2>5
<1> QED
  BY <1>1, <1>2

LEMMA WriteIInv == ASSUME IInv, Write PROVE IInv'
<1> DEFINE C == Contents(bufferPtrs_)
           W == Contents(buffersWaitToWrite)
<1>1. TypeOK /\ Kept /\ BufferForAppend /\ Phases
  BY IInvParts
<1>2. /\ UNCHANGED <<stage, threadLatch, latch_, appended, currentBuffer_,
                     nextBuffer_, newBuffer1, newBuffer2, bufferPtrs_,
                     buffersWaitToWrite, running_, crashed>>
      /\ pc = "write" /\ pc' = "recycle" /\ disk' \in disk .. Len(file')
  BY DEF Write, callerVars, startVars, buffers
<1>3. PICK w \in Seq(Messages) :
           /\ file' = file \o w /\ lost' \in BOOLEAN
           /\ \/ w = W /\ lost' = lost
              \/ Thinned(w, W) /\ lost' = TRUE
  <2>1. /\ buffersWaitToWrite \in Seq(Buffers)
        /\ WriteAll(buffersWaitToWrite) \/ WriteFails(buffersWaitToWrite)
    BY <1>1 DEF TypeOK, Write
  <2> QED
    BY <1>1, <2>1, Written
<1>4. /\ file \in Seq(Messages) /\ C \in Seq(Messages) /\ W \in Seq(Messages)
      /\ Current \in Seq(Messages) /\ file' \in Seq(Messages)
  BY <1>1, <1>3, MovedTypes, ConcatProperties
<1>5. TypeOK'
  <2>1. disk' \in 0 .. Len(file')
    BY <1>1, <1>2, <1>4, LenProperties DEF TypeOK
  <2> QED
    BY <1>1, <1>2, <1>3, <1>4, <2>1 DEF TypeOK
<1>6. BufferForAppend' /\ Phases'
  BY <1>1, <1>2 DEF BufferForAppend, Phases
<1>7. /\ Stored = ((file \o W) \o C) \o Current
      /\ Stored' = ((file \o w) \o C) \o Current
  <2>1. (file \o w) \o <<>> = file \o w
    BY <1>3, <1>4, ConcatEmptySeq
  <2> QED
    BY <1>2, <1>3, <2>1 DEF Stored, Unwritten, Current
<1> HIDE DEF C, W
<1>8. CASE w = W /\ lost' = lost
  BY <1>1, <1>2, <1>5, <1>6, <1>7, <1>8, KeptWhenMoved DEF IInv, Kept
<1>9. CASE Thinned(w, W) /\ lost' = TRUE
  <2>1. /\ file \in Seq(Nat) /\ C \in Seq(Nat) /\ Current \in Seq(Nat)
        /\ w \in Seq(Nat) /\ W \in Seq(Nat)
    <3>1. Messages \subseteq Nat
      BY DEF Messages
    <3> QED
      BY <1>3, <1>4, <3>1, SeqMonotonic
  <2>2. /\ Thinned(file \o w, file \o W)
        /\ file \o w \in Seq(Nat) /\ file \o W \in Seq(Nat)
    BY <1>9, <2>1, ThinnedSelf, ThinnedConcat, ConcatProperties
  <2>3. /\ Thinned((file \o w) \o C, (file \o W) \o C)
        /\ (file \o w) \o C \in Seq(Nat) /\ (file \o W) \o C \in Seq(Nat)
    BY <2>1, <2>2, ThinnedSelf, ThinnedConcat, ConcatProperties
  <2>4. Thinned(Stored', Stored) /\ Stored' \in Seq(Nat)
    BY <1>7, <2>1, <2>3, ThinnedSelf, ThinnedConcat, ConcatProperties
  <2>5. Kept'
    BY <1>1, <1>2, <1>9, <2>4, KeptWhenThinned
  <2> QED
    BY <1>5, <1>6, <2>5 DEF IInv, Kept
<1> QED
  BY <1>3, <1>8, <1>9

LEMMA RecycleIInv == ASSUME IInv, Recycle PROVE IInv'
<1>1. TypeOK /\ Kept /\ BufferForAppend /\ Phases
  BY IInvParts
<1>2. /\ UNCHANGED <<stage, threadLatch, latch_, appended, lost,
                     currentBuffer_, nextBuffer_, newBuffer2, bufferPtrs_,
                     running_, file>>
      /\ pc = "recycle" /\ pc' = "check" /\ newBuffer1' = TRUE
      /\ buffersWaitToWrite' = <<>> /\ ~crashed
      /\ disk' = Len(file') \/ disk' = disk
  BY DEF Recycle, Flush, callerVars, startVars
<1>3. crashed' \in BOOLEAN
  BY <1>1, Zenon DEF Recycle, TypeOK
<1>4. TypeOK'
  <2>1. /\ buffersWaitToWrite' \in Seq(Buffers) /\ newBuffer1' \in BOOLEAN
        /\ disk' \in 0 .. Len(file')
    BY <1>1, <1>2, EmptySeq, LenProperties DEF TypeOK
  <2> QED
    BY <1>1, <1>2, <1>3, <2>1 DEF TypeOK
<1>5. BufferForAppend' /\ Phases'
  BY <1>1, <1>2 DEF BufferForAppend, Phases
<1>6. Stored' = Stored
  BY <1>2 DEF Stored, Unwritten, Current
<1>7. Kept'
  BY <1>1, <1>2, <1>6, KeptWhenMoved
<1> QED
  BY <1>4, <1>5, <1>7 DEF IInv, Kept

LEMMA FinalIInv == ASSUME IInv, Final PROVE IInv'
<1> DEFINE C == Contents(bufferPtrs_)
           d == currentBuffer_.data
<1>1. TypeOK /\ Kept /\ BufferForAppend /\ Phases
  BY IInvParts
<1>2. /\ UNCHANGED <<stage, threadLatch, latch_, appended, lost, nextBuffer_,
                     newBuffer1, newBuffer2, buffersWaitToWrite, running_,
                     file, disk, crashed>>
      /\ pc = "final" /\ pc' = "finalWrite" /\ currentBuffer_' = Null
      /\ bufferPtrs_' = Append(bufferPtrs_, currentBuffer_)
  BY DEF Final, callerVars, startVars
<1>3. currentBuffer_ # Null /\ ~running_
  BY <1>1, <1>2 DEF Phases
<1>4. /\ bufferPtrs_ \in Seq(Buffers) /\ currentBuffer_ \in Buffers
      /\ bufferPtrs_' \in Seq(Buffers) /\ Contents(bufferPtrs_') = C \o d
      /\ file \in Seq(Messages) /\ C \in Seq(Messages) /\ d \in Seq(Messages)
      /\ file \o <<>> = file /\ Current = d
  BY <1>1, <1>2, <1>3, MovedTypes, AppendProperties, ContentsAppend
<1>5. TypeOK'
  BY <1>1, <1>2, <1>4 DEF TypeOK
<1>6. BufferForAppend' /\ Phases'
  BY <1>1, <1>2, <1>3 DEF BufferForAppend, Phases
<1>7. /\ Stored = (file \o C) \o d
      /\ Stored' = (file \o (C \o d)) \o <<>>
  <2>1. Unwritten = <<>> /\ Unwritten' = <<>> /\ Current' = <<>>
    BY <1>2 DEF Unwritten, Current
  <2> QED
    BY <1>2, <1>4, <2>1 DEF Stored
<1> HIDE DEF C, d
<1>8. Stored' = Stored
  <2>1. (file \o C) \o d = file \o (C \o d)
    BY <1>4, ConcatAssociative, SMTT(30)
  <2>2. (file \o (C \o d)) \o <<>> = file \o (C \o d)
    BY <1>4, ConcatProperties, ConcatEmptySeq
  <2> QED
    BY <1>7, <2>1, <2>2
<1>9. Kept'
  BY <1>1, <1>2, <1>8, KeptWhenMoved
<1> QED
  BY <1>5, <1>6, <1>9 DEF IInv, Kept

LEMMA FinalWriteIInv == ASSUME IInv, FinalWrite PROVE IInv'
<1> DEFINE C == Contents(bufferPtrs_)
<1>1. TypeOK /\ Kept /\ BufferForAppend /\ Phases
  BY IInvParts
<1>2. /\ UNCHANGED <<stage, threadLatch, latch_, appended, currentBuffer_,
                     nextBuffer_, newBuffer1, newBuffer2, buffersWaitToWrite,
                     running_, crashed>>
      /\ pc = "finalWrite" /\ pc' = "done" /\ bufferPtrs_' = <<>>
      /\ disk' = Len(file')
  BY DEF FinalWrite, Flush, callerVars, startVars
<1>3. PICK w \in Seq(Messages) :
           /\ file' = file \o w /\ lost' \in BOOLEAN
           /\ \/ w = C /\ lost' = lost
              \/ Thinned(w, C) /\ lost' = TRUE
  <2>1. /\ bufferPtrs_ \in Seq(Buffers)
        /\ WriteAll(bufferPtrs_) \/ WriteFails(bufferPtrs_)
    BY <1>1 DEF TypeOK, FinalWrite
  <2> QED
    BY <1>1, <2>1, Written
<1>4. /\ file \in Seq(Messages) /\ C \in Seq(Messages)
      /\ file' \in Seq(Messages) /\ file \o <<>> = file
      /\ currentBuffer_ = Null /\ ~running_
  BY <1>1, <1>2, <1>3, MovedTypes, ConcatProperties DEF Phases
<1>5. TypeOK'
  <2>1. bufferPtrs_' \in Seq(Buffers) /\ disk' \in 0 .. Len(file')
    BY <1>2, <1>4, EmptySeq, LenProperties
  <2> QED
    BY <1>1, <1>2, <1>3, <1>4, <2>1 DEF TypeOK
<1>6. BufferForAppend' /\ Phases'
  BY <1>1, <1>2, <1>4 DEF BufferForAppend, Phases
<1>7. Stored = file \o C /\ Stored' = file \o w
  <2>1. /\ Unwritten = <<>> /\ Current = <<>> /\ Unwritten' = <<>>
        /\ Current' = <<>> /\ Contents(bufferPtrs_)' = <<>>
    BY <1>2, <1>4, ContentsEmpty DEF Unwritten, Current
  <2>2. /\ Stored = (file \o C) \o <<>>
        /\ Stored' = (((file \o w) \o <<>>) \o <<>>) \o <<>>
    BY <1>3, <1>4, <2>1 DEF Stored
  <2> HIDE DEF C
  <2>3. /\ (file \o C) \o <<>> = file \o C
        /\ (file \o w) \o <<>> = file \o w
    BY <1>3, <1>4, ConcatProperties, ConcatEmptySeq
  <2> QED
    BY <2>2, <2>3
<1> HIDE DEF C
<1>8. CASE w = C /\ lost' = lost
  BY <1>1, <1>2, <1>5, <1>6, <1>7, <1>8, KeptWhenMoved DEF IInv, Kept
<1>9. CASE Thinned(w, C) /\ lost' = TRUE
  <2>1. file \in Seq(Nat) /\ C \in Seq(Nat) /\ w \in Seq(Nat)
    <3>1. Messages \subseteq Nat
      BY DEF Messages
    <3> QED
      BY <1>3, <1>4, <3>1, SeqMonotonic
  <2>2. Thinned(Stored', Stored) /\ Stored' \in Seq(Nat)
    BY <1>7, <1>9, <2>1, ThinnedSelf, ThinnedConcat, ConcatProperties
  <2>3. Kept'
    BY <1>1, <1>2, <1>9, <2>2, KeptWhenThinned
  <2> QED
    BY <1>5, <1>6, <2>3 DEF IInv, Kept
<1> QED
  BY <1>3, <1>8, <1>9

LEMMA NextIInv == IInv /\ [Next]_vars => IInv'
<1> SUFFICES ASSUME IInv, [Next]_vars PROVE IInv'
  OBVIOUS
<1>1. CASE UNCHANGED vars
  <2>1. /\ UNCHANGED <<stage, threadLatch, latch_, appended, lost>>
        /\ UNCHANGED <<currentBuffer_, nextBuffer_, newBuffer1, newBuffer2,
                       bufferPtrs_>>
        /\ UNCHANGED <<buffersWaitToWrite, running_, pc, file, disk, crashed>>
    BY <1>1 DEF vars, callerVars, startVars, buffers
  <2>2. TypeOK' /\ BufferForAppend' /\ Phases'
    BY <2>1 DEF IInv, TypeOK, BufferForAppend, Phases
  <2>3. Stored' = Stored
    BY <2>1, SameStored
  <2> QED
    BY <2>1, <2>2, <2>3, IInvParts, KeptWhenMoved DEF IInv, Kept
<1>2. CASE Start
  BY <1>2, StartEnterIInv, PthreadCreateIInv, PthreadCreateFailsIInv,
     ThreadStartedIInv, StartReturnsIInv DEF Start
<1>3. CASE \E len \in Lens : Log(len)
  BY <1>3, AppendIInv
<1>4. CASE Stop
  BY <1>4, StopIInv
<1>5. CASE Thread
  BY <1>5, RunInThreadIInv, EnterThreadFuncIInv, CheckIInv, WaitIInv,
     SwapIInv, BacklogIInv, WriteIInv, RecycleIInv, FinalIInv,
     FinalWriteIInv DEF Thread
<1> QED
  BY <1>1, <1>2, <1>3, <1>4, <1>5 DEF Next

(* The strengthening is invariant. *)
THEOREM LogInvariant == Spec => []IInv
BY InitIInv, NextIInv, PTL DEF Spec

(* Every variable keeps its type (all of AsyncLogging). *)
THEOREM TypeCorrect == Spec => []TypeOK
<1>1. IInv => TypeOK
  BY DEF IInv
<1> QED
  BY <1>1, LogInvariant, PTL

(* As long as the logger runs, append finds a buffer (append, threadFunc). *)
THEOREM BufferForAppendHolds == Spec => []BufferForAppend
<1>1. IInv => BufferForAppend
  BY DEF IInv
<1> QED
  BY <1>1, LogInvariant, PTL

(* Until something is dropped, the file and the buffers hold exactly what  *)
(* was appended, in order (append, threadFunc).                            *)
THEOREM NothingLostHolds == Spec => []NothingLost
<1>1. IInv => NothingLost
  BY DEF IInv
<1> QED
  BY <1>1, LogInvariant, PTL
-----------------------------------------------------------------------------
(* What is on disk, at any moment, is as a LogPipe wants it.               *)
DiskInOrder ==
  \A i \in DOMAIN OnDisk :
    /\ OnDisk[i] \in 1 .. Len(appended)
    /\ i > 1 => OnDisk[i - 1] < OnDisk[i]
    /\ ~crashed /\ ~lost => OnDisk[i] = i

LEMMA IInvDisk == IInv => DiskInOrder
<1> SUFFICES ASSUME IInv, NEW i \in DOMAIN OnDisk
             PROVE  /\ OnDisk[i] \in 1 .. Len(appended)
                    /\ i > 1 => OnDisk[i - 1] < OnDisk[i]
                    /\ ~crashed /\ ~lost => OnDisk[i] = i
  BY DEF DiskInOrder
<1> DEFINE rest == Unwritten \o (Contents(bufferPtrs_) \o Current)
<1>1. /\ file \in Seq(Messages) /\ Len(file) \in Nat /\ disk \in 0 .. Len(file)
      /\ Stored \in Seq(Messages) /\ DOMAIN Stored = 1 .. Len(Stored)
      /\ Kept /\ TypeOK /\ Len(appended) \in Nat
  BY IInvParts, StoredType, LenProperties DEF TypeOK
<1>2. /\ DOMAIN OnDisk = 1 .. disk
      /\ \A j \in 1 .. disk : OnDisk[j] = file[j]
  <2>1. \A j \in 1 .. disk : file[j] \in Messages
    BY <1>1, ElementOfSeq
  <2>2. /\ OnDisk \in Seq(Messages) /\ Len(OnDisk) = disk
        /\ \A j \in 1 .. disk : OnDisk[j] = file[j]
    BY <1>1, <2>1, SubSeqProperties DEF OnDisk
  <2> QED
    BY <2>2, LenProperties
<1>3. Stored = file \o rest /\ rest \in Seq(Messages)
  <2> DEFINE u == Unwritten
             v == Contents(bufferPtrs_)
             w == Current
  <2>1. /\ file \in Seq(Messages) /\ u \in Seq(Messages)
        /\ v \in Seq(Messages) /\ w \in Seq(Messages)
    BY <1>1, StoredType
  <2> HIDE DEF u, v, w
  <2> DEFINE a == file \o u
             b == v \o w
  <2>2. a \in Seq(Messages) /\ b \in Seq(Messages)
    BY <2>1, ConcatProperties
  <2> HIDE DEF a, b
  <2>3. (a \o v) \o w = a \o (v \o w)
    BY <2>1, <2>2, ConcatAssociative, SMTT(30)
  <2>4. (file \o u) \o b = file \o (u \o b)
    BY <2>1, <2>2, ConcatAssociative, SMTT(30)
  <2>5. u \o b \in Seq(Messages)
    BY <2>1, <2>2, ConcatProperties
  <2> QED
    BY ONLY <2>3, <2>4, <2>5, Zenon DEF Stored, a, b, u, v, w
<1> HIDE DEF rest
<1>4. /\ Len(Stored) = Len(file) + Len(rest) /\ Len(rest) \in Nat
      /\ \A j \in 1 .. Len(file) : Stored[j] = file[j]
  BY <1>1, <1>3, AtConcat
<1>5. \A j \in 1 .. disk : j \in DOMAIN Stored /\ Stored[j] = OnDisk[j]
  BY <1>1, <1>2, <1>4
<1>6. i \in 1 .. disk /\ OnDisk[i] = Stored[i] /\ i \in DOMAIN Stored
  BY <1>2, <1>5
<1>7. OnDisk[i] \in 1 .. Len(appended)
  <2>1. Stored[i] \in 1 .. MaxAppends
    BY <1>1, <1>6, ElementOfSeq DEF Messages
  <2>2. Stored[i] <= Len(appended)
    BY <1>1, <1>6 DEF Kept, InOrder
  <2> QED
    BY <1>1, <1>6, <2>1, <2>2, LoggingAssumption
<1>8. ASSUME i > 1 PROVE OnDisk[i - 1] < OnDisk[i]
  <2>1. i - 1 \in 1 .. disk /\ i - 1 < i
    BY <1>1, <1>6, <1>8
  <2> QED
    BY <1>1, <1>5, <1>6, <2>1 DEF Kept, InOrder, Increasing
<1>9. ASSUME ~crashed, ~lost PROVE OnDisk[i] = i
  BY <1>1, <1>6, <1>9 DEF Kept, NothingLost, Numbered
<1> QED
  BY <1>7, <1>8, <1>9

(* A step after which more of a longer file is on disk.                    *)
LEMMA PrefixGrows ==
  ASSUME NEW S, NEW f \in Seq(S), NEW g \in Seq(S), Len(f) <= Len(g),
         \A i \in 1 .. Len(f) : g[i] = f[i],
         NEW m \in 0 .. Len(f), NEW n \in m .. Len(g)
  PROVE  IsPrefix(SubSeq(f, 1, m), SubSeq(g, 1, n))
<1> DEFINE a == SubSeq(f, 1, m)
           b == SubSeq(g, 1, n)
<1>1. /\ Len(f) \in Nat /\ Len(g) \in Nat /\ m \in Nat /\ n \in Nat
      /\ m <= n /\ m <= Len(f) /\ n <= Len(g)
  BY LenProperties
<1>2. /\ \A i \in 1 .. m : f[i] \in S
      /\ \A i \in 1 .. n : g[i] \in S
  BY <1>1, ElementOfSeq
<1>3. /\ a \in Seq(S) /\ Len(a) = m
      /\ \A i \in 1 .. m : a[i] = f[i]
  BY <1>1, <1>2, SubSeqProperties
<1>4. /\ b \in Seq(S) /\ Len(b) = n
      /\ \A i \in 1 .. n : b[i] = g[i]
  BY <1>1, <1>2, SubSeqProperties
<1> HIDE DEF a, b
<1> DEFINE c == SubSeq(b, 1, m)
<1>5. /\ c \in Seq(S) /\ Len(c) = m
      /\ \A i \in 1 .. m : c[i] = b[i]
  <2>1. \A i \in 1 .. m : b[i] \in S
    BY <1>1, <1>2, <1>4
  <2> QED
    BY <1>1, <2>1, SubSeqProperties
<1>6. SubSeq(a, 1, m) = a
  BY <1>3, SubSeqFull
<1> HIDE DEF c
<1>7. \A i \in 1 .. Len(a) : a[i] = c[i]
  BY <1>1, <1>3, <1>4, <1>5, SMTT(90)
<1>8. a = c
  BY <1>3, <1>5, <1>7, SeqEqual
<1> QED
  BY <1>1, <1>3, <1>4, <1>6, <1>8 DEF IsPrefix, a, b, c

LEMMA SyncGrows ==
  ASSUME IInv, IInv', NEW w \in Seq(Messages), file' = file \o w,
         disk' \in disk .. Len(file'), UNCHANGED appended,
         lost' \in {lost, TRUE}, ~crashed'
  PROVE  LP!Grows
<1>1. /\ file \in Seq(Messages) /\ disk \in 0 .. Len(file)
      /\ Len(file) \in Nat /\ Len(w) \in Nat
  BY LenProperties DEF IInv, TypeOK
<1>2. /\ file' \in Seq(Messages) /\ Len(file') = Len(file) + Len(w)
      /\ \A i \in 1 .. Len(file) : file'[i] = file[i]
  BY <1>1, AtConcat
<1>3. Len(file) <= Len(file')
  BY <1>1, <1>2
<1>4. IsPrefix(OnDisk, OnDisk')
  BY <1>1, <1>2, <1>3, PrefixGrows DEF OnDisk
<1>5. DiskInOrder'
  BY IInvDisk, PTL
<1>6. ASSUME NEW i \in DOMAIN OnDisk'
      PROVE  /\ OnDisk'[i] \in 1 .. Len(appended)
             /\ i > 1 => OnDisk'[i - 1] < OnDisk'[i]
             /\ ~lost' => OnDisk'[i] = i
  BY <1>5 DEF DiskInOrder
<1>7. Len(appended)' = Len(appended)
  OBVIOUS
<1>8. LP!IsPrefix(OnDisk, OnDisk')
  BY <1>4 DEF IsPrefix, LP!IsPrefix
<1> QED
  BY <1>6, <1>7, <1>8 DEF LP!Grows

LEMMA InitPipe == Init => LP!Init
<1> SUFFICES ASSUME Init PROVE LP!Init
  OBVIOUS
<1>1. OnDisk = <<>> /\ Len(appended) = 0
  BY SubSeqEmpty, EmptySeq DEF Init, OnDisk
<1> QED
  BY <1>1 DEF Init, LP!Init

(* Each step is one of the LogPipe's, or none: an append submits, a write  *)
(* or a flush syncs, erasing buffers gives up, the last write closes.      *)
LEMMA NextPipe ==
  ASSUME IInv, IInv', [Next]_vars
  PROVE  [LP!Next]_LP!vars
<1>1. /\ TypeOK /\ TypeOK' /\ file \in Seq(Messages) /\ disk \in 0 .. Len(file)
      /\ appended \in Seq(Messages) /\ Len(appended) \in Nat
      /\ Len(file) \in Nat /\ file \o <<>> = file /\ <<>> \in Seq(Messages)
  BY LenProperties, ConcatEmptySeq, EmptySeq DEF IInv, TypeOK
<1>2. CASE /\ UNCHANGED <<appended, file, disk, lost>>
           /\ pc # "done" /\ pc' # "done"
  BY <1>2 DEF OnDisk, LP!vars
<1>3. CASE UNCHANGED vars
  BY <1>3 DEF vars, callerVars, OnDisk, LP!vars
<1>4. CASE Start \/ Stop
  <2>1. UNCHANGED <<appended, file, disk, lost>>
    BY <1>4 DEF Start, StartEnter, PthreadCreate, PthreadCreateFails,
       ThreadStarted, StartReturns, Stop, restVars
  <2>2. pc' = "done" <=> pc = "done"
    BY <1>4 DEF Start, StartEnter, PthreadCreate, PthreadCreateFails,
       ThreadStarted, StartReturns, Stop, IInv, Phases
  <2> QED
    BY <2>1, <2>2 DEF OnDisk, LP!vars
<1>5. CASE \E len \in Lens : Log(len)
  <2>1. PICK len \in Lens : Log(len)
    BY <1>5
  <2>2. UNCHANGED <<file, disk, pc>>
    BY <2>1 DEF Log
  <2>3. CASE UNCHANGED <<appended, lost>>
    BY <2>2, <2>3 DEF OnDisk, LP!vars
  <2>4. CASE /\ currentBuffer_ # Null
             /\ appended' = Append(appended, Len(appended) + 1)
             /\ lost' = (lost \/ Len(appended) + 1
                                   \notin ToSet(currentBuffer_'.data))
    <3>1. pc # "done"
      BY <2>4 DEF IInv, Phases
    <3>2. Len(appended') = Len(appended) + 1
      BY <1>1, <2>4, AppendProperties DEF IInv, TypeOK
    <3>3. lost' \in {lost, TRUE}
      BY <1>1, <2>4, Zenon DEF TypeOK
    <3> QED
      BY <2>2, <3>1, <3>2, <3>3 DEF OnDisk, LP!Next, LP!Submit
  <2> QED
    BY <2>1, <2>3, <2>4 DEF Log
<1>6. CASE RunInThread \/ EnterThreadFunc \/ Check \/ Wait \/ Swap \/ Final
  <2>1. UNCHANGED <<appended, file, disk, lost>>
    BY <1>6 DEF RunInThread, EnterThreadFunc, Check, Wait, Swap, Final,
       restVars, callerVars
  <2>2. pc' # "done" /\ pc # "done"
    BY <1>6 DEF RunInThread, EnterThreadFunc, Check, Wait, Swap, Final
  <2> QED
    BY <1>2, <2>1, <2>2
<1>7. CASE Backlog
  <2>1. UNCHANGED <<appended, file, disk>> /\ pc = "backlog" /\ pc' = "write"
    BY <1>7 DEF Backlog, callerVars
  <2>2. lost' = lost \/ lost' = TRUE
    <3>1. lost' = lost \/ lost' = (lost \/ Len(buffersWaitToWrite) > 2)
      BY <1>7 DEF Backlog
    <3> QED
      BY <1>1, <3>1, Zenon DEF TypeOK
  <2> QED
    BY <2>1, <2>2 DEF OnDisk, LP!vars, LP!Next, LP!GiveUp
<1>8. CASE Write
  <2>1. /\ UNCHANGED appended /\ disk' \in disk .. Len(file') /\ ~crashed'
        /\ pc = "write" /\ pc' = "recycle"
        /\ buffersWaitToWrite \in Seq(Buffers)
        /\ WriteAll(buffersWaitToWrite) \/ WriteFails(buffersWaitToWrite)
    BY <1>1, <1>8 DEF Write, callerVars, TypeOK
  <2>2. PICK w \in Seq(Messages) :
          file' = file \o w /\ (lost' = lost \/ lost' = TRUE)
    BY <1>1, <2>1, Written
  <2>3. LP!Grows
    BY <2>1, <2>2, SyncGrows
  <2> QED
    BY <2>1, <2>3 DEF LP!Next, LP!Sync
<1>9. CASE Recycle
  <2>1. /\ UNCHANGED <<appended, file, lost>> /\ ~crashed
        /\ pc = "recycle" /\ pc' = "check"
        /\ \/ disk' = Len(file') /\ ~crashed'
           \/ UNCHANGED disk
    BY <1>9 DEF Recycle, Flush, callerVars
  <2>2. CASE UNCHANGED disk
    BY <1>2, <2>1, <2>2
  <2>3. CASE disk' = Len(file') /\ ~crashed'
    <3>1. file' = file \o <<>> /\ disk' \in disk .. Len(file')
      BY <1>1, <2>1, <2>3
    <3>2. LP!Grows
      BY <1>1, <2>1, <2>3, <3>1, SyncGrows
    <3> QED
      BY <2>1, <3>2 DEF LP!Next, LP!Sync
  <2> QED
    BY <2>1, <2>2, <2>3
<1>10. CASE FinalWrite
  <2>1. /\ UNCHANGED appended /\ disk' = Len(file') /\ ~crashed /\ ~crashed'
        /\ pc = "finalWrite" /\ pc' = "done" /\ bufferPtrs_' = <<>>
        /\ bufferPtrs_ \in Seq(Buffers) /\ UNCHANGED currentBuffer_
        /\ WriteAll(bufferPtrs_) \/ WriteFails(bufferPtrs_)
    BY <1>1, <1>10 DEF FinalWrite, Flush, callerVars, TypeOK
  <2>2. PICK w \in Seq(Messages) :
          file' = file \o w /\ (lost' = lost \/ lost' = TRUE)
    BY <1>1, <2>1, Written
  <2>3. disk' \in disk .. Len(file') /\ file' \in Seq(Messages)
    BY <1>1, <2>1, <2>2, AtConcat
  <2>4. LP!Grows
    BY <2>1, <2>2, <2>3, SyncGrows
  <2>5. OnDisk' = file'
    BY <2>1, <2>3, SubSeqFull DEF OnDisk
  <2>6. ASSUME ~lost' PROVE Len(OnDisk') = Len(appended)
    <3>1. Unwritten' = <<>> /\ Current' = <<>> /\ Contents(bufferPtrs_)' = <<>>
      <4>1. currentBuffer_' = Null
        BY <2>1 DEF IInv, Phases
      <4> QED
        BY <2>1, <4>1, ContentsEmpty DEF Unwritten, Current
    <3>2. Stored' = file'
      BY <2>3, <3>1, ConcatEmptySeq DEF Stored
    <3> QED
      BY <2>1, <2>5, <2>6, <3>2 DEF IInv, NothingLost
  <2> QED
    BY <2>1, <2>4, <2>6 DEF LP!Next, LP!Close
<1> QED
  BY <1>3, <1>4, <1>5, <1>6, <1>7, <1>8, <1>9, <1>10 DEF Next, Thread

(* What callers see is a LogPipe: what is on disk is in the order of the   *)
(* appends, without a gap as long as nothing was given up, and all of it   *)
(* once the thread has ended (append, threadFunc, stop).                   *)
THEOREM PipeImplemented == Spec => ImplementsLogPipe
BY InitPipe, NextPipe, LogInvariant, PTL DEF Spec, ImplementsLogPipe, LP!Spec
=============================================================================
