------------------------------ MODULE DataProofs ------------------------------
(***************************************************************************)
(* What is written: BufferHolds, the buffers of bson.c are large enough for *)
(* whatever is appended at whatever depth, count their bytes right and are  *)
(* freed once, for any sizes of the structures and any limit; and            *)
(* SentOnceInOrder and OutcomeHonest, a bulk operation sends every operation *)
(* once and in order and reports what the server did, for any number of      *)
(* operations, any room in a message and whichever messages are lost.        *)
(***************************************************************************)
EXTENDS BsonBuilder, BulkWrite, SequenceTheorems, FiniteSetTheorems, WellFoundedInduction, TLAPS

-----------------------------------------------------------------------------
(* BsonBuilder.                                                             *)

DocType == [offset: Nat, len: Nat, enc: Nat, depth: Nat]

\* What binds the open documents ds, to which us bytes were appended, together:
\* each counts what was appended to it, and each child begins where its parent
\* put an empty document, before the parent's final byte.
Nested(ds, us) ==
  /\ \A i \in 1..Len(ds) : /\ ds[i].depth = i - 1
                           /\ ds[i].len = EmptySize + us[i]
                           /\ ds[i].enc = ds[i].len
  /\ ds[1].offset = 0
  /\ \A i \in 2..Len(ds) : ds[i].offset + EmptySize + 1 = ds[i - 1].offset + ds[i - 1].len

Documents(ds, us) ==
  /\ ds \in Seq(DocType)
  /\ us \in Seq(Nat)
  /\ Len(ds) \in 1..MaxDepth
  /\ Len(us) = Len(ds)
  /\ Nested(ds, us)

\* There is room for the innermost document and for one final byte of each of
\* those around it.
Room(ds, c) == ds[Len(ds)].offset + ds[Len(ds)].len + ds[Len(ds)].depth <= c

BufferKinds == {"inline", "alloc", "lent", "rdonly", "gone"}

\* The inductive invariant.
BuilderInv ==
  /\ kind \in BufferKinds
  /\ cap \in 1..next_power_of_two(MaxSize)
  /\ Documents(docs, asked)
  /\ Room(docs, cap)
  /\ kind = "inline" => Len(docs) = 1 /\ cap = InlineSize
  /\ overrun = FALSE
  /\ OwnedOnce

-----------------------------------------------------------------------------
(* Sizes.                                                                   *)

\* The numbers among the constants.
LEMMA Sizes ==
  /\ InlineSize \in Nat /\ StructSize \in Nat /\ EmptySize \in Nat /\ MaxSize \in Nat
  /\ MaxDepth \in Nat
  /\ 1 <= EmptySize /\ EmptySize <= InlineSize /\ InlineSize < StructSize
  /\ StructSize <= MaxSize /\ 1 <= MaxDepth
  /\ Powers \subseteq Nat /\ StructSize \in Powers
BY BuilderConstants, PowersAssumption

\* An empty document has its length and its final byte.
LEMMA Empty == EmptySize \in Nat /\ 1 <= EmptySize
BY Sizes

\* Any numbers have a least one.
LEMMA LeastNumber ==
  ASSUME NEW S, S \subseteq Nat, S # {}
  PROVE  \E x \in S : \A y \in S : x <= y
<1> DEFINE below == {ss \in Nat \X Nat : ss[1] < ss[2]}
<1>1. IsWellFoundedOn(below, Nat)
  BY NatLessThanWellFounded, Zenon DEF OpToRel
<1>2. PICK x \in S : \A y \in S : ~ (<<y, x>> \in below)
  <2> HIDE DEF below
  <2>1. QED
    BY <1>1, WFMin
<1>3. \A y \in S : x \in Nat /\ y \in Nat /\ ~ (y < x)
  BY <1>2
<1>4. QED
  BY <1>3

\* bson_next_power_of_two rounds up, and no further than necessary.
LEMMA PowerOfTwo ==
  ASSUME NEW n \in Nat, NEW r \in Powers, n <= r
  PROVE  /\ next_power_of_two(n) \in Powers
         /\ next_power_of_two(n) \in Nat
         /\ n <= next_power_of_two(n)
         /\ \A q \in Powers : n <= q => next_power_of_two(n) <= q
<1> DEFINE S == {p \in Powers : n <= p}
<1>1. S \subseteq Nat /\ S # {}
  BY Sizes
<1>2. PICK x \in S : \A y \in S : x <= y
  BY <1>1, LeastNumber
<1>3. \E p \in Powers : n <= p /\ \A q \in Powers : n <= q => p <= q
  BY <1>2
<1>4. next_power_of_two(n) \in Powers /\ n <= next_power_of_two(n)
      /\ \A q \in Powers : n <= q => next_power_of_two(n) <= q
  BY <1>3, Zenon DEF next_power_of_two
<1>5. QED
  BY <1>4, Sizes

\* Up to the limit there is a power to round up to.
LEMMA PowerBelow ==
  ASSUME NEW n \in Nat, 1 <= n, n <= MaxSize + 1
  PROVE  /\ next_power_of_two(n) \in Powers
         /\ next_power_of_two(n) \in Nat
         /\ n <= next_power_of_two(n)
         /\ \A q \in Powers : n <= q => next_power_of_two(n) <= q
<1>1. n \in 1..(MaxSize + 1)
  BY Sizes
<1>2. PICK r \in Powers : n <= r
  BY <1>1, BuilderConstants, Zenon
<1>3. QED
  BY <1>2, PowerOfTwo

\* The largest buffer of all.
LEMMA Largest ==
  /\ next_power_of_two(MaxSize) \in Powers
  /\ next_power_of_two(MaxSize) \in Nat
  /\ MaxSize <= next_power_of_two(MaxSize)
<1>1. MaxSize \in Nat /\ 1 <= MaxSize /\ MaxSize <= MaxSize + 1
  BY Sizes
<1>2. QED
  BY <1>1, PowerBelow

-----------------------------------------------------------------------------
(* Documents in one another.                                                *)

\* A document by itself.
LEMMA OneDocument ==
  ASSUME NEW l \in Nat, EmptySize <= l
  PROVE  LET ds == <<[NewDoc(0, 0) EXCEPT !.len = l, !.enc = l]>>
         IN  /\ Documents(ds, <<l - EmptySize>>)
             /\ Len(ds) = 1
             /\ \A c \in Nat : l <= c => Room(ds, c)
<1> DEFINE d == [NewDoc(0, 0) EXCEPT !.len = l, !.enc = l]
           a == l - EmptySize
<1>1. d \in DocType /\ d.offset = 0 /\ d.len = l /\ d.enc = l /\ d.depth = 0
  BY Sizes DEF NewDoc, DocType
<1>2. a \in Nat /\ l = EmptySize + a
  BY Sizes
<1> HIDE DEF d, a
<1>3. /\ <<d>> \in Seq(DocType) /\ Len(<<d>>) = 1 /\ <<d>>[1] = d
      /\ <<a>> \in Seq(Nat) /\ Len(<<a>>) = 1 /\ <<a>>[1] = a
  BY <1>1, <1>2
<1>4. Nested(<<d>>, <<a>>)
  BY <1>1, <1>2, <1>3 DEF Nested
<1>5. Documents(<<d>>, <<a>>)
  BY <1>3, <1>4, Sizes DEF Documents
<1>6. \A c \in Nat : l <= c => Room(<<d>>, c)
  BY <1>1, <1>3 DEF Room
<1>7. QED
  BY <1>3, <1>5, <1>6 DEF d, a

\* An empty document.
LEMMA EmptyDocument ==
  /\ Documents(<<NewDoc(0, 0)>>, <<0>>)
  /\ Len(<<NewDoc(0, 0)>>) = 1
  /\ \A c \in Nat : EmptySize <= c => Room(<<NewDoc(0, 0)>>, c)
<1>1. [NewDoc(0, 0) EXCEPT !.len = EmptySize, !.enc = EmptySize] = NewDoc(0, 0)
  <2> DEFINE d == NewDoc(0, 0)
  <2>1. d.len = EmptySize /\ d.enc = EmptySize /\ d \in DocType
    BY Empty DEF NewDoc, DocType
  <2> HIDE DEF d
  <2>2. [d EXCEPT !.len = EmptySize, !.enc = EmptySize] = d
    BY <2>1 DEF DocType
  <2>3. QED
    BY <2>2 DEF d
<1>2. EmptySize - EmptySize = 0 /\ EmptySize \in Nat /\ EmptySize <= EmptySize
  BY Sizes
<1>3. QED
  BY <1>1, <1>2, OneDocument

\* The fields of an open document.
LEMMA OpenDocument ==
  ASSUME NEW ds, NEW us, Documents(ds, us), NEW i \in 1..Len(ds)
  PROVE  /\ ds[i] \in DocType
         /\ ds[i].offset \in Nat /\ ds[i].len \in Nat /\ ds[i].enc \in Nat /\ ds[i].depth \in Nat
         /\ us[i] \in Nat
         /\ EmptySize <= ds[i].len
         /\ ds[i].depth = i - 1
         /\ ds[i].len = EmptySize + us[i]
         /\ ds[i].enc = ds[i].len
<1>1. /\ ds \in Seq(DocType) /\ us \in Seq(Nat) /\ Len(us) = Len(ds)
      /\ ds[i].depth = i - 1 /\ ds[i].len = EmptySize + us[i] /\ ds[i].enc = ds[i].len
  BY DEF Documents, Nested
<1>2. ds[i] \in DocType /\ us[i] \in Nat
  BY ONLY <1>1, i \in 1..Len(ds), ElementOfSeq
<1>3. ds[i].offset \in Nat /\ ds[i].len \in Nat /\ ds[i].enc \in Nat /\ ds[i].depth \in Nat
  BY <1>2 DEF DocType
<1>4. EmptySize <= EmptySize + us[i]
  <2> DEFINE a == us[i]
  <2> HIDE DEF a
  <2>1. a \in Nat
    BY <1>2 DEF a
  <2>2. EmptySize <= EmptySize + a
    BY ONLY <2>1, Empty
  <2>3. QED
    BY <2>2 DEF a
<1>5. QED
  BY <1>1, <1>2, <1>3, <1>4

\* What a path of open documents consists of.
LEMMA Path ==
  ASSUME NEW ds, NEW us, Documents(ds, us)
  PROVE  /\ ds \in Seq(DocType) /\ us \in Seq(Nat)
         /\ Len(ds) \in Nat /\ 1 <= Len(ds) /\ Len(ds) <= MaxDepth /\ Len(us) = Len(ds)
         /\ Len(ds) \in 1..Len(ds) /\ 1 \in 1..Len(ds)
         /\ ds[1].offset = 0
         /\ \A i \in 2..Len(ds) : ds[i].offset + EmptySize + 1 = ds[i - 1].offset + ds[i - 1].len
<1>1. /\ ds \in Seq(DocType) /\ us \in Seq(Nat) /\ Len(us) = Len(ds) /\ Len(ds) \in 1..MaxDepth
      /\ ds[1].offset = 0
      /\ \A i \in 2..Len(ds) : ds[i].offset + EmptySize + 1 = ds[i - 1].offset + ds[i - 1].len
  BY Zenon DEF Documents, Nested
<1>2. Len(ds) \in Nat
  BY <1>1, LenProperties
<1> DEFINE n == Len(ds)
<1> HIDE DEF n
<1>3. n \in Nat /\ n \in 1..MaxDepth /\ MaxDepth \in Nat
  BY <1>1, <1>2, Sizes DEF n
<1>4. 1 <= n /\ n <= MaxDepth /\ n \in 1..n /\ 1 \in 1..n
  BY ONLY <1>3
<1>5. QED
  BY <1>1, <1>2, <1>4, Zenon DEF n

\* The path es is ds up to the n-th document, of which only the length is new.
UpTo(ds, us, n, es, bs) ==
  /\ n \in 1..Len(ds)
  /\ es \in Seq(DocType) /\ bs \in Seq(Nat) /\ Len(es) = n /\ Len(bs) = n
  /\ \A i \in 1..n : i # n => es[i] = ds[i] /\ bs[i] = us[i]
  /\ es[n].offset = ds[n].offset /\ es[n].depth = ds[n].depth
  /\ es[n].len = EmptySize + bs[n] /\ es[n].enc = es[n].len

\* Such a path nests as the longer one did.
LEMMA Replaced ==
  ASSUME NEW ds, NEW us, NEW n, NEW es, NEW bs,
         Documents(ds, us), UpTo(ds, us, n, es, bs)
  PROVE  Documents(es, bs)
<1> USE DEF UpTo
<1>1. /\ Len(ds) \in Nat /\ Len(ds) <= MaxDepth
      /\ ds[1].offset = 0
      /\ \A i \in 2..Len(ds) : ds[i].offset + EmptySize + 1 = ds[i - 1].offset + ds[i - 1].len
  BY Path, Zenon
<1>2. n \in Nat /\ 1 <= n /\ n <= MaxDepth /\ n \in 1..MaxDepth /\ n \in 1..n /\ 1 \in 1..n
  <2> DEFINE l == Len(ds)
  <2> HIDE DEF l
  <2>1. l \in Nat /\ n \in 1..l /\ l <= MaxDepth /\ MaxDepth \in Nat
    BY <1>1, Sizes DEF l
  <2>2. QED
    BY ONLY <2>1
<1>3. \A i \in 1..n : i \in 1..Len(ds)
  BY <1>1, <1>2
<1>4. \A i \in 1..n : es[i].offset = ds[i].offset
  BY Zenon
<1>5. ASSUME NEW i \in 1..n
      PROVE  es[i].depth = i - 1 /\ es[i].len = EmptySize + bs[i] /\ es[i].enc = es[i].len
  <2>1. ds[i].depth = i - 1 /\ ds[i].len = EmptySize + us[i] /\ ds[i].enc = ds[i].len
    BY <1>3, OpenDocument, Zenon
  <2>2. CASE i = n
    BY <2>1, <2>2, Zenon
  <2>3. CASE i # n
    BY <2>1, <2>3, Zenon
  <2>4. QED
    BY <2>2, <2>3
<1>6. es[1].offset = 0
  BY <1>1, <1>2, <1>4, Zenon
<1>7. ASSUME NEW i \in 2..n
      PROVE  es[i].offset + EmptySize + 1 = es[i - 1].offset + es[i - 1].len
  <2>1. i \in 1..n /\ i - 1 \in 1..n /\ i - 1 # n /\ i \in 2..Len(ds)
    BY <1>1, <1>2
  <2>2. es[i].offset = ds[i].offset /\ es[i - 1] = ds[i - 1]
    BY <1>4, <2>1, Zenon
  <2>3. ds[i].offset + EmptySize + 1 = ds[i - 1].offset + ds[i - 1].len
    BY <1>1, <2>1, Zenon
  <2>4. QED
    BY <2>2, <2>3, Zenon
<1>8. Nested(es, bs)
  BY <1>5, <1>6, <1>7, Zenon DEF Nested
<1>9. QED
  BY <1>2, <1>8, Zenon DEF Documents

\* A document that grew by m bytes.
LEMMA GrownDocument ==
  ASSUME NEW c \in DocType, NEW m \in Nat
  PROVE  LET d == Longer(c, m)
         IN  /\ d \in DocType /\ d.offset = c.offset /\ d.depth = c.depth
             /\ d.len = c.len + m /\ d.enc = d.len
<1> DEFINE l == c.len + m
           d == Longer(c, m)
<1>1. l \in Nat /\ d = [c EXCEPT !.len = l, !.enc = l]
  BY DEF Longer, DocType
<1> HIDE DEF l, d
<1>2. /\ d \in DocType /\ d.offset = c.offset /\ d.depth = c.depth
      /\ d.len = l /\ d.enc = l
  BY <1>1 DEF DocType
<1>3. QED
  BY <1>2, Zenon DEF l, d

\* One element of a sequence is replaced.
LEMMA ElementReplaced ==
  ASSUME NEW T, NEW s \in Seq(T), NEW n \in 1..Len(s), NEW x \in T,
         NEW t, t = [s EXCEPT ![n] = x]
  PROVE  /\ t \in Seq(T) /\ Len(t) = Len(s) /\ t[n] = x
         /\ \A i \in 1..Len(s) : i # n => t[i] = s[i]
<1>1. /\ t \in Seq(T) /\ Len(t) = Len(s)
      /\ \A i \in 1..Len(s) : t[i] = IF i = n THEN x ELSE s[i]
  BY ExceptSeq
<1>2. QED
  BY <1>1, Zenon

\* The path es is ds with size bytes more in the innermost document.
LongerBy(ds, us, size, es, bs) ==
  /\ es = [ds EXCEPT ![Len(ds)] = Longer(ds[Len(ds)], size)]
  /\ bs = [us EXCEPT ![Len(ds)] = us[Len(ds)] + size]

\* Where the innermost document then is.
LastGrew(ds, size, es) ==
  /\ Len(es) = Len(ds)
  /\ es[Len(ds)].offset = ds[Len(ds)].offset /\ es[Len(ds)].depth = ds[Len(ds)].depth
  /\ es[Len(ds)].len = ds[Len(ds)].len + size

\* _bson_append_va: the innermost document grows.
LEMMA Lengthened ==
  ASSUME NEW ds, NEW us, NEW size \in Nat, NEW es, NEW bs,
         Documents(ds, us), LongerBy(ds, us, size, es, bs)
  PROVE  Documents(es, bs) /\ LastGrew(ds, size, es)
<1> DEFINE n == Len(ds)
           c == ds[n]
           a == us[n]
           d == Longer(c, size)
           b == a + size
<1>1. /\ ds \in Seq(DocType) /\ us \in Seq(Nat) /\ Len(us) = Len(ds)
      /\ n \in 1..Len(ds) /\ n \in 1..Len(us)
  BY Path, Zenon
<1>2. c \in DocType /\ a \in Nat /\ c.len = EmptySize + a
  BY <1>1, OpenDocument, Zenon
<1>3. es = [ds EXCEPT ![n] = d] /\ bs = [us EXCEPT ![n] = b]
  BY Zenon DEF LongerBy
<1> HIDE DEF c, a, d, b
<1>4. /\ d \in DocType /\ d.offset = c.offset /\ d.depth = c.depth
      /\ d.len = c.len + size /\ d.enc = d.len
  BY <1>2, GrownDocument DEF d
<1>5. b \in Nat /\ EmptySize + a + size = EmptySize + b
  BY <1>2, Empty DEF b
<1>6. d.len = EmptySize + b
  BY <1>2, <1>4, <1>5, Zenon
<1>7. /\ es \in Seq(DocType) /\ Len(es) = Len(ds) /\ es[n] = d
      /\ \A i \in 1..Len(ds) : i # n => es[i] = ds[i]
  BY <1>1, <1>3, <1>4, ElementReplaced
<1>8. /\ bs \in Seq(Nat) /\ Len(bs) = Len(ds) /\ bs[n] = b
      /\ \A i \in 1..Len(ds) : i # n => bs[i] = us[i]
  <2>1. /\ bs \in Seq(Nat) /\ Len(bs) = Len(us) /\ bs[n] = b
        /\ \A i \in 1..Len(us) : i # n => bs[i] = us[i]
    BY <1>1, <1>3, <1>5, ElementReplaced
  <2>2. QED
    BY <1>1, <2>1, Zenon
<1>9. Documents(es, bs)
  <2>1. /\ es[n].offset = ds[n].offset /\ es[n].depth = ds[n].depth
        /\ es[n].len = EmptySize + bs[n] /\ es[n].enc = es[n].len
    BY <1>4, <1>6, <1>7, <1>8, Zenon DEF c
  <2>2. Len(es) = n /\ Len(bs) = n /\ n = Len(ds)
    BY <1>7, <1>8, Zenon
  <2>3. \A i \in 1..n : i # n => es[i] = ds[i] /\ bs[i] = us[i]
    BY <1>7, <1>8, <2>2, Zenon
  <2>4. UpTo(ds, us, n, es, bs)
    BY <1>1, <1>7, <1>8, <2>1, <2>2, <2>3, Zenon DEF UpTo
  <2>5. QED
    BY <2>4, Replaced, Zenon
<1>10. QED
  BY <1>4, <1>7, <1>9, Zenon DEF c, LastGrew

\* The first elements of a sequence.
LEMMA FirstPart ==
  ASSUME NEW T, NEW s \in Seq(T), NEW n \in 1..Len(s)
  PROVE  /\ SubSeq(s, 1, n) \in Seq(T) /\ Len(SubSeq(s, 1, n)) = n
         /\ \A i \in 1..n : SubSeq(s, 1, n)[i] = s[i]
<1>1. Len(s) \in Nat /\ n \in Nat /\ 1 <= n /\ n <= Len(s)
  BY LenProperties
<1>2. 1 \in 1..(Len(s) + 1) /\ n \in 0..Len(s) /\ n \in 1-1..Len(s) /\ n - 1 + 1 = n
  BY <1>1
<1>3. QED
  BY <1>1, <1>2, SubSeqProperties

\* The path es is ds with a child at o, before the final byte of the innermost.
ChildAt(ds, us, o, es, bs) ==
  /\ Len(ds) < MaxDepth
  /\ o + EmptySize + 1 = ds[Len(ds)].offset + ds[Len(ds)].len
  /\ es = Append(ds, NewDoc(o, Len(ds)))
  /\ bs = Append(us, 0)

LastIsNew(ds, o, es) == Len(es) = Len(ds) + 1 /\ es[Len(es)] = NewDoc(o, Len(ds))

\* _bson_append_bson_begin: a child begins in the innermost document.
LEMMA Opened ==
  ASSUME NEW ds, NEW us, NEW o \in Nat, NEW es, NEW bs,
         Documents(ds, us), ChildAt(ds, us, o, es, bs)
  PROVE  Documents(es, bs) /\ LastIsNew(ds, o, es)
<1> USE DEF ChildAt
<1> DEFINE n == Len(ds)
           d == NewDoc(o, n)
<1>1. /\ ds \in Seq(DocType) /\ us \in Seq(Nat) /\ Len(us) = n
      /\ n \in Nat /\ 1 <= n /\ 1 \in 1..n /\ n \in 1..n
      /\ ds[1].offset = 0
      /\ \A i \in 2..n : ds[i].offset + EmptySize + 1 = ds[i - 1].offset + ds[i - 1].len
  BY Path, Zenon
<1>2. d \in DocType /\ d.offset = o /\ d.depth = n /\ d.len = EmptySize /\ d.enc = EmptySize
  BY <1>1, Empty DEF NewDoc, DocType
<1>3. es = Append(ds, d)
  OBVIOUS
<1>4. o + EmptySize + 1 = ds[n].offset + ds[n].len
  OBVIOUS
<1>5. n + 1 <= MaxDepth
  BY <1>1, Sizes
<1> HIDE DEF d
<1>6. /\ es \in Seq(DocType) /\ Len(es) = n + 1 /\ es[n + 1] = d
      /\ \A i \in 1..n : es[i] = ds[i]
  BY <1>1, <1>2, <1>3, AppendProperties
<1>7. /\ bs \in Seq(Nat) /\ Len(bs) = n + 1 /\ bs[n + 1] = 0
      /\ \A i \in 1..n : bs[i] = us[i]
  <2>1. 0 \in Nat
    OBVIOUS
  <2>2. /\ bs \in Seq(Nat) /\ Len(bs) = Len(us) + 1 /\ bs[Len(us) + 1] = 0
        /\ \A i \in 1..Len(us) : bs[i] = us[i]
    BY <1>1, <2>1, AppendProperties
  <2>3. QED
    BY <1>1, <2>2, Zenon
<1>8. \A i \in 1..n : ds[i].depth = i - 1 /\ ds[i].len = EmptySize + us[i] /\ ds[i].enc = ds[i].len
  BY OpenDocument, Zenon
<1>9. n + 1 \in 1..MaxDepth /\ n + 1 - 1 = n /\ EmptySize + 0 = EmptySize
  BY <1>1, <1>5, Empty, Sizes
<1> HIDE DEF n
<1>10. \A i \in 1..(n + 1) : i \in 1..n \/ i = n + 1
  BY <1>1
<1>11. \A i \in 2..(n + 1) : /\ i - 1 \in 1..n
                             /\ (i \in 2..n /\ i \in 1..n) \/ (i = n + 1 /\ i - 1 = n)
  BY <1>1
<1>12. ASSUME NEW i \in 1..(n + 1)
       PROVE  es[i].depth = i - 1 /\ es[i].len = EmptySize + bs[i] /\ es[i].enc = es[i].len
  <2>1. CASE i \in 1..n
    BY <1>6, <1>7, <1>8, <2>1, Zenon
  <2>2. CASE i = n + 1
    <3>1. es[i] = d /\ bs[i] = 0
      BY <1>6, <1>7, <2>2, Zenon
    <3>2. i - 1 = n
      BY <1>1, <2>2
    <3>3. d.depth = i - 1 /\ d.len = EmptySize + bs[i] /\ d.enc = d.len
      BY <1>2, <1>9, <3>1, <3>2, Zenon
    <3>4. QED
      BY <3>1, <3>3, Zenon
  <2>3. QED
    BY <1>10, <2>1, <2>2
<1>13. ASSUME NEW i \in 2..(n + 1)
       PROVE  es[i].offset + EmptySize + 1 = es[i - 1].offset + es[i - 1].len
  <2>1. CASE i \in 2..n /\ i \in 1..n
    BY <1>1, <1>6, <1>11, <2>1, Zenon
  <2>2. CASE i = n + 1 /\ i - 1 = n
    BY <1>1, <1>2, <1>4, <1>6, <2>2, Zenon
  <2>3. QED
    BY <1>11, <2>1, <2>2
<1>14. Nested(es, bs)
  BY <1>1, <1>6, <1>12, <1>13, Zenon DEF Nested
<1>15. Documents(es, bs)
  BY <1>6, <1>7, <1>9, <1>14, Zenon DEF Documents
<1>16. QED
  BY <1>6, <1>15, Zenon DEF n, d, LastIsNew

\* The path es is ds without its innermost document, the length of which the
\* n-th, its parent, takes over, to become l bytes.
WithoutChild(ds, us, n, l, es, bs) ==
  /\ 1 <= n /\ Len(ds) = n + 1
  /\ l = ds[n].len + ds[n + 1].len - EmptySize
  /\ es = [SubSeq(ds, 1, n) EXCEPT ![n] = [ds[n] EXCEPT !.len = l, !.enc = l]]
  /\ bs = [SubSeq(us, 1, n) EXCEPT ![n] = us[n] + us[n + 1]]

\* The parent ends one byte after the child.
EndsBehind(ds, n, l, es) ==
  /\ Len(es) = n
  /\ es[n].offset = ds[n].offset /\ es[n].len = l
  /\ es[n].offset + es[n].len = ds[n + 1].offset + ds[n + 1].len + 1
  /\ es[n].depth + 1 = ds[n + 1].depth

\* _bson_append_bson_end.
LEMMA Closed ==
  ASSUME NEW ds, NEW us, NEW n \in Nat, NEW l, NEW es, NEW bs,
         Documents(ds, us), WithoutChild(ds, us, n, l, es, bs)
  PROVE  Documents(es, bs) /\ EndsBehind(ds, n, l, es)
<1> USE DEF WithoutChild
<1> DEFINE p == ds[n]
           c == ds[n + 1]
           a == us[n]
           b == us[n + 1]
           d == [p EXCEPT !.len = l, !.enc = l]
           s == SubSeq(ds, 1, n)
           u == SubSeq(us, 1, n)
<1>1. /\ ds \in Seq(DocType) /\ us \in Seq(Nat) /\ Len(us) = Len(ds)
      /\ \A i \in 2..Len(ds) : ds[i].offset + EmptySize + 1 = ds[i - 1].offset + ds[i - 1].len
  BY Path, Zenon
<1>2. n \in 1..Len(ds) /\ n + 1 \in 1..Len(ds) /\ n + 1 \in 2..Len(ds) /\ n + 1 - 1 = n /\ n \in 1..n
  OBVIOUS
<1>3. /\ p \in DocType /\ a \in Nat /\ p.offset \in Nat /\ p.len = EmptySize + a /\ p.depth = n - 1
      /\ c \in DocType /\ b \in Nat /\ c.offset \in Nat /\ c.len = EmptySize + b /\ c.depth = n
  <2>1. /\ p \in DocType /\ a \in Nat /\ p.offset \in Nat /\ p.len = EmptySize + a /\ p.depth = n - 1
    BY <1>2, OpenDocument, Zenon
  <2>2. /\ c \in DocType /\ b \in Nat /\ c.offset \in Nat /\ c.len = EmptySize + b /\ c.depth = n
    <3> DEFINE m == n + 1
    <3>1. m - 1 = n /\ m \in 1..Len(ds)
      BY <1>2
    <3> HIDE DEF m
    <3>2. /\ ds[m] \in DocType /\ us[m] \in Nat /\ ds[m].offset \in Nat
          /\ ds[m].len = EmptySize + us[m] /\ ds[m].depth = m - 1
      BY <3>1, OpenDocument, Zenon
    <3>3. QED
      BY <3>1, <3>2, Zenon DEF m
  <2>3. QED
    BY <1>2, <2>1, <2>2, Zenon
<1>4. c.offset + EmptySize + 1 = p.offset + p.len
  <2> DEFINE m == n + 1
  <2>1. m - 1 = n /\ m \in 2..Len(ds)
    BY <1>2
  <2> HIDE DEF m
  <2>2. ds[m].offset + EmptySize + 1 = ds[m - 1].offset + ds[m - 1].len
    BY <1>1, <2>1, Zenon
  <2>3. QED
    BY <2>1, <2>2, Zenon DEF m
<1>5. es = [s EXCEPT ![n] = d] /\ bs = [u EXCEPT ![n] = a + b] /\ l = p.len + c.len - EmptySize
  OBVIOUS
<1>6. /\ s \in Seq(DocType) /\ Len(s) = n /\ \A i \in 1..n : s[i] = ds[i]
      /\ u \in Seq(Nat) /\ Len(u) = n /\ \A i \in 1..n : u[i] = us[i]
  <2>1. s \in Seq(DocType) /\ Len(s) = n /\ \A i \in 1..n : s[i] = ds[i]
    BY <1>1, <1>2, FirstPart, Zenon
  <2>2. n \in 1..Len(us)
    BY <1>1, <1>2, Zenon
  <2>3. u \in Seq(Nat) /\ Len(u) = n /\ \A i \in 1..n : u[i] = us[i]
    BY <1>1, <2>2, FirstPart, Zenon
  <2>4. QED
    BY <2>1, <2>3
<1> HIDE DEF p, c, a, b, d, s, u
<1>7. l \in Nat /\ a + b \in Nat /\ l = EmptySize + (a + b)
  BY <1>3, <1>5, Empty
<1>8. d \in DocType /\ d.offset = p.offset /\ d.depth = p.depth /\ d.len = l /\ d.enc = l
  BY <1>3, <1>7 DEF d, DocType
<1>9. /\ es \in Seq(DocType) /\ Len(es) = n /\ es[n] = d
      /\ \A i \in 1..n : i # n => es[i] = s[i]
  <2>1. n \in 1..Len(s)
    BY <1>2, <1>6, Zenon
  <2>2. /\ es \in Seq(DocType) /\ Len(es) = Len(s) /\ es[n] = d
        /\ \A i \in 1..Len(s) : i # n => es[i] = s[i]
    BY <1>5, <1>6, <1>8, <2>1, ElementReplaced
  <2>3. QED
    BY <1>6, <2>2, Zenon
<1>10. /\ bs \in Seq(Nat) /\ Len(bs) = n /\ bs[n] = a + b
       /\ \A i \in 1..n : i # n => bs[i] = u[i]
  <2>1. n \in 1..Len(u)
    BY <1>2, <1>6, Zenon
  <2>2. /\ bs \in Seq(Nat) /\ Len(bs) = Len(u) /\ bs[n] = a + b
        /\ \A i \in 1..Len(u) : i # n => bs[i] = u[i]
    <3> DEFINE x == a + b
    <3> HIDE DEF x
    <3>1. x \in Nat /\ u \in Seq(Nat) /\ n \in 1..Len(u) /\ bs = [u EXCEPT ![n] = x]
      BY <1>5, <1>6, <1>7, <2>1, Zenon DEF x
    <3>2. /\ bs \in Seq(Nat) /\ Len(bs) = Len(u) /\ bs[n] = x
          /\ \A i \in 1..Len(u) : i # n => bs[i] = u[i]
      BY ONLY <3>1, ElementReplaced
    <3>3. QED
      BY <3>2 DEF x
  <2>3. QED
    BY <1>6, <2>2, Zenon
<1>11. UpTo(ds, us, n, es, bs)
  <2>1. /\ es[n].offset = ds[n].offset /\ es[n].depth = ds[n].depth
        /\ es[n].len = EmptySize + bs[n] /\ es[n].enc = es[n].len
    BY <1>7, <1>8, <1>9, <1>10, Zenon DEF p
  <2>2. \A i \in 1..n : i # n => es[i] = ds[i] /\ bs[i] = us[i]
    BY <1>6, <1>9, <1>10, Zenon
  <2>3. QED
    BY <1>2, <1>9, <1>10, <2>1, <2>2, Zenon DEF UpTo
<1>12. Documents(es, bs)
  BY <1>11, Replaced, Zenon
<1>13. d.offset + d.len = c.offset + c.len + 1 /\ d.depth + 1 = c.depth
  <2> DEFINE po == p.offset
             co == c.offset
             cl == c.len
  <2>1. /\ po \in Nat /\ co \in Nat /\ cl = EmptySize + b /\ co + EmptySize + 1 = po + (EmptySize + a)
        /\ d.offset = po /\ d.len = l /\ d.depth = n - 1 /\ c.depth = n
    BY <1>3, <1>4, <1>8, Zenon
  <2> HIDE DEF po, co, cl
  <2>2. po + l = co + cl + 1 /\ n - 1 + 1 = n
    BY ONLY <2>1, <1>3, <1>7, Empty, n \in Nat
  <2>3. QED
    BY <2>1, <2>2, Zenon DEF po, co, cl
<1>14. QED
  BY <1>8, <1>9, <1>12, <1>13, Zenon DEF p, c, EndsBehind

-----------------------------------------------------------------------------
(* Growing.                                                                 *)

\* The innermost document in a state of the invariant: where it ends, and the
\* final bytes that are to follow.
LEMMA InnermostDocument ==
  ASSUME BuilderInv
  PROVE  /\ Len(docs) \in Nat /\ 1 <= Len(docs) /\ Len(docs) \in 1..Len(docs)
         /\ Innermost \in DocType
         /\ Innermost.offset \in Nat /\ Innermost.len \in Nat /\ Innermost.depth \in Nat
         /\ EmptySize <= Innermost.len
         /\ Innermost.depth = Len(docs) - 1
         /\ End(Innermost) = Innermost.offset + Innermost.len
         /\ End(Innermost) \in Nat
         /\ cap \in Nat /\ 1 <= cap /\ cap <= next_power_of_two(MaxSize)
         /\ End(Innermost) + Innermost.depth <= cap
         /\ kind = "inline" => /\ Len(docs) = 1 /\ cap = InlineSize /\ docs[1] = Innermost
                               /\ Innermost.offset = 0 /\ Innermost.depth = 0
<1>1. /\ Documents(docs, asked) /\ Room(docs, cap) /\ cap \in 1..next_power_of_two(MaxSize)
      /\ kind = "inline" => Len(docs) = 1 /\ cap = InlineSize
  BY Zenon DEF BuilderInv
<1>2. /\ Len(docs) \in Nat /\ 1 <= Len(docs) /\ Len(docs) \in 1..Len(docs) /\ docs[1].offset = 0
  BY <1>1, Path, Zenon
<1>3. /\ Innermost \in DocType
      /\ Innermost.offset \in Nat /\ Innermost.len \in Nat /\ Innermost.depth \in Nat
      /\ EmptySize <= Innermost.len
      /\ Innermost.depth = Len(docs) - 1
  BY <1>1, <1>2, OpenDocument, Zenon DEF Innermost
<1>4. End(Innermost) = Innermost.offset + Innermost.len
  BY Zenon DEF End
<1>5. End(Innermost) \in Nat
  BY <1>3, <1>4
<1>6. End(Innermost) + Innermost.depth <= cap
  BY <1>1, Zenon DEF Room, End, Innermost
<1>7. cap \in Nat /\ 1 <= cap /\ cap <= next_power_of_two(MaxSize)
  BY <1>1, Largest
<1>8. ASSUME kind = "inline"
      PROVE  /\ Len(docs) = 1 /\ cap = InlineSize /\ docs[1] = Innermost
             /\ Innermost.offset = 0 /\ Innermost.depth = 0
  <2>1. Len(docs) = 1 /\ cap = InlineSize
    BY <1>1, <1>8
  <2>2. docs[1] = Innermost
    BY <2>1, Zenon DEF Innermost
  <2>3. Innermost.offset = 0
    BY <1>2, <2>2, Zenon
  <2>4. Innermost.depth = 0
    BY <1>3, <2>1
  <2>5. QED
    BY <2>1, <2>2, <2>3, <2>4
<1>9. QED
  BY <1>2, <1>3, <1>4, <1>5, <1>6, <1>7, <1>8, Zenon

\* A buffer g that is large enough for room bytes, and counted.
Holds(g, room) ==
  /\ g.kind \in {"inline", "alloc", "lent"}
  /\ g.cap \in 1..next_power_of_two(MaxSize)
  /\ room <= g.cap
  /\ g.kind = "inline" => kind = "inline" /\ g.cap = InlineSize
  /\ g.heap = IF g.kind = "alloc" THEN 1 ELSE 0

\* The buffer of a writable document, as it is.
LEMMA SameHolds ==
  ASSUME BuilderInv, Writable, NEW ok, NEW room \in Nat, room <= cap
  PROVE  /\ Same(ok).kind = kind /\ Same(ok).cap = cap /\ Same(ok).ok = ok
         /\ Holds(Same(ok), room)
<1>1. cap \in 1..next_power_of_two(MaxSize)
  BY Zenon DEF BuilderInv
<1>2. /\ kind = "inline" => cap = InlineSize
      /\ heap = IF kind = "alloc" THEN 1 ELSE 0
  BY Zenon DEF BuilderInv, OwnedOnce
<1>3. Same(ok).kind = kind /\ Same(ok).cap = cap /\ Same(ok).ok = ok /\ Same(ok).heap = heap
  BY DEF Same, Grown
<1>4. Holds(Same(ok), room)
  BY <1>1, <1>2, <1>3, Zenon DEF Holds, Writable
<1>5. QED
  BY <1>3, <1>4

\* _bson_impl_inline_grow, up to a size that the format can count.
LEMMA InlineGrows ==
  ASSUME BuilderInv, kind = "inline", NEW size \in Nat, Innermost.len + size <= MaxSize,
         inline_grow(size).ok
  PROVE  /\ Holds(inline_grow(size), Innermost.len + size)
         /\ Innermost.len + size > InlineSize => inline_grow(size).kind = "alloc"
<1> DEFINE t == Innermost.len + size
           req == next_power_of_two(t)
<1>1. /\ docs[1] = Innermost /\ Innermost.len \in Nat /\ EmptySize <= Innermost.len
      /\ cap = InlineSize
  BY InnermostDocument, Zenon
<1>2. t \in Nat /\ 1 <= t /\ t <= MaxSize + 1 /\ t <= MaxSize
  BY <1>1, Sizes
<1>3. Writable /\ heap = 0
  BY DEF Writable, BuilderInv, OwnedOnce
<1>4. inline_grow(size) = IF t <= InlineSize THEN Same(TRUE)
                          ELSE IF req <= MaxSize THEN Grown(TRUE, "alloc", req, heap + 1) ELSE Same(FALSE)
  BY <1>1, Zenon DEF inline_grow
<1> HIDE DEF t
<1>5. req \in Nat /\ t <= req
  BY <1>2, PowerBelow
<1> HIDE DEF req
<1>6. CASE t <= InlineSize
  <2>1. Holds(Same(TRUE), t)
    BY <1>1, <1>2, <1>3, <1>6, SameHolds
  <2>2. inline_grow(size) = Same(TRUE) /\ ~ (t > InlineSize)
    BY <1>2, <1>4, <1>6, Sizes
  <2>3. QED
    BY <2>1, <2>2 DEF t
<1>7. CASE ~ (t <= InlineSize)
  <2>1. req <= MaxSize
    <3>1. CASE ~ (req <= MaxSize)
      <4>1. inline_grow(size) = Same(FALSE)
        BY <1>4, <1>7, <3>1, Zenon
      <4>2. ~ Same(FALSE).ok
        BY DEF Same, Grown
      <4>3. QED
        BY <4>1, <4>2
    <3>2. QED
      BY <3>1
  <2> DEFINE g == Grown(TRUE, "alloc", req, heap + 1)
  <2>2. inline_grow(size) = g
    BY <1>4, <1>7, <2>1, Zenon
  <2>3. g.kind = "alloc" /\ g.cap = req /\ g.heap = 1
    BY <1>3 DEF Grown
  <2> HIDE DEF g
  <2>4. req \in 1..next_power_of_two(MaxSize)
    BY <1>2, <1>5, <2>1, Largest, Sizes
  <2>5. Holds(g, t)
    BY <1>5, <2>3, <2>4, Zenon DEF Holds
  <2>6. QED
    BY <2>2, <2>3, <2>5 DEF t
<1>8. QED
  BY <1>6, <1>7

\* _bson_impl_alloc_grow.
LEMMA AllocGrows ==
  ASSUME BuilderInv, Writable, NEW size \in Nat, alloc_grow(size).ok, kind # "inline"
  PROVE  Holds(alloc_grow(size), End(Innermost) + size + Innermost.depth)
<1> DEFINE e == End(Innermost)
           dp == Innermost.depth
           req == e + size + dp
           pw == next_power_of_two(req)
<1>1. /\ e \in Nat /\ dp \in Nat /\ cap \in Nat /\ 1 <= cap
      /\ e = Innermost.offset + Innermost.len
      /\ e + dp <= cap
  BY InnermostDocument, Zenon
<1>2. alloc_grow(size) = IF req <= cap THEN Same(TRUE)
                         ELSE IF req <= MaxSize + 1 /\ pw <= MaxSize
                              THEN Grown(TRUE, kind, pw, heap) ELSE Same(FALSE)
  BY <1>1, Zenon DEF alloc_grow
<1> HIDE DEF e, dp
<1>3. req \in Nat
  BY <1>1
<1>4. ~ (req <= cap) => 1 <= req
  BY <1>1
<1>5. ~ Same(FALSE).ok
  BY DEF Same, Grown
<1> HIDE DEF req, pw
<1>6. CASE req <= cap
  <2>1. Holds(Same(TRUE), req)
    BY <1>3, <1>6, SameHolds
  <2>2. QED
    BY <1>2, <1>6, <2>1 DEF req, e, dp
<1>7. CASE ~ (req <= cap)
  <2>1. req <= MaxSize + 1 /\ pw <= MaxSize
    BY <1>2, <1>5, <1>7, Zenon
  <2> DEFINE g == Grown(TRUE, kind, pw, heap)
  <2>2. alloc_grow(size) = g
    BY <1>2, <1>7, <2>1, Zenon
  <2>3. g.kind = kind /\ g.cap = pw /\ g.heap = heap
    BY DEF Grown
  <2> HIDE DEF g
  <2>4. pw \in Nat /\ req <= pw
    BY <1>3, <1>4, <1>7, <2>1, PowerBelow DEF pw
  <2>5. pw \in 1..next_power_of_two(MaxSize)
    BY <1>3, <1>4, <1>7, <2>1, <2>4, Largest, Sizes
  <2>6. heap = IF kind = "alloc" THEN 1 ELSE 0
    BY Zenon DEF BuilderInv, OwnedOnce
  <2>7. Holds(g, req)
    BY <2>3, <2>4, <2>5, <2>6, Zenon DEF Holds, Writable
  <2>8. QED
    BY <2>2, <2>7, Zenon DEF req, e, dp
<1>8. QED
  BY <1>6, <1>7

\* _bson_grow.
LEMMA Grows ==
  ASSUME BuilderInv, Writable, NEW size \in Nat, size <= MaxSize - Innermost.len, grow(size).ok
  PROVE  Holds(grow(size), End(Innermost) + size + Innermost.depth)
<1>1. CASE kind = "inline"
  <2>1. /\ Innermost.len \in Nat /\ Innermost.offset = 0 /\ Innermost.depth = 0
        /\ End(Innermost) = Innermost.offset + Innermost.len
    BY <1>1, InnermostDocument, Zenon
  <2> DEFINE l == Innermost.len
  <2> HIDE DEF l
  <2>2. l \in Nat /\ End(Innermost) = 0 + l /\ size <= MaxSize - l
    BY <2>1, Zenon DEF l
  <2>3. 0 + l = l /\ l + size <= MaxSize /\ l + size + 0 = l + size
    BY ONLY <2>2, size \in Nat, Sizes
  <2>4. grow(size) = inline_grow(size)
    BY <1>1, Zenon DEF grow
  <2>5. Holds(inline_grow(size), l + size)
    BY <1>1, <2>3, <2>4, InlineGrows, Zenon DEF l
  <2>6. End(Innermost) + size + Innermost.depth = l + size
    BY <2>1, <2>2, <2>3, Zenon
  <2>7. QED
    BY <2>4, <2>5, <2>6, Zenon
<1>2. CASE kind # "inline"
  <2>1. grow(size) = alloc_grow(size)
    BY <1>2, Zenon DEF grow
  <2>2. QED
    BY <1>2, <2>1, AllocGrows, Zenon
<1>3. QED
  BY <1>1, <1>2

-----------------------------------------------------------------------------
(* The operations.                                                          *)

\* A step to a buffer g that holds what the new documents need.
LEMMA Kept ==
  ASSUME NEW g, NEW room, Holds(g, room), Buffer(g),
         Documents(docs', asked'),
         docs'[Len(docs')].offset + docs'[Len(docs')].len + docs'[Len(docs')].depth = room,
         g.kind = "inline" => Len(docs') = 1,
         overrun' = FALSE
  PROVE  BuilderInv'
<1>1. kind' = g.kind /\ cap' = g.cap /\ heap' = g.heap
  BY Zenon DEF Buffer
<1>2. /\ g.kind \in {"inline", "alloc", "lent"} /\ g.cap \in 1..next_power_of_two(MaxSize) /\ room <= g.cap
      /\ g.kind = "inline" => g.cap = InlineSize
      /\ g.heap = IF g.kind = "alloc" THEN 1 ELSE 0
  BY Zenon DEF Holds
<1>3. kind' \in BufferKinds
  BY <1>1, <1>2 DEF BufferKinds
<1>4. Room(docs', cap')
  BY <1>1, <1>2, Zenon DEF Room
<1>5. OwnedOnce'
  BY <1>1, <1>2, Zenon DEF OwnedOnce
<1>6. QED
  BY <1>1, <1>2, <1>3, <1>4, <1>5, Zenon DEF BuilderInv

\* A step that changes nothing.
LEMMA Unchanged ==
  ASSUME BuilderInv, UNCHANGED builderVars
  PROVE  BuilderInv'
BY DEF BuilderInv, builderVars, OwnedOnce

\* _bson_append.
LEMMA AppendKeeps ==
  ASSUME BuilderInv, NEW size \in Nat, append_bytes(size)
  PROVE  BuilderInv'
<1> DEFINE g == grow(size)
           n == Len(docs)
           e == End(Innermost)
           dp == Innermost.depth
<1>1. CASE size <= MaxSize - Innermost.len /\ g.ok
  <2>1. /\ Writable /\ Buffer(g) /\ Wrote(g, size)
        /\ docs' = [docs EXCEPT ![Len(docs)] = Longer(docs[Len(docs)], size)]
        /\ asked' = [asked EXCEPT ![Len(docs)] = asked[Len(docs)] + size]
    BY <1>1 DEF append_bytes, Innermost
  <2>2. Holds(g, e + size + dp)
    BY <1>1, <2>1, Grows, Zenon
  <2>3. /\ e \in Nat /\ dp \in Nat /\ e = Innermost.offset + Innermost.len
        /\ Innermost.offset \in Nat /\ Innermost.len \in Nat
        /\ kind = "inline" => n = 1
    BY InnermostDocument, Zenon
  <2>4. Documents(docs, asked)
    BY Zenon DEF BuilderInv
  <2>5. /\ Documents(docs', asked') /\ Len(docs') = n
        /\ docs'[n].offset = Innermost.offset /\ docs'[n].depth = dp
        /\ docs'[n].len = Innermost.len + size
    <3>1. LongerBy(docs, asked, size, docs', asked')
      BY <2>1, Zenon DEF LongerBy
    <3>2. Documents(docs', asked') /\ LastGrew(docs, size, docs')
      BY <2>4, <3>1, Lengthened, Zenon
    <3>3. QED
      BY <3>2, Zenon DEF Innermost, LastGrew
  <2>6. /\ g.cap \in 1..next_power_of_two(MaxSize) /\ e + size + dp <= g.cap
        /\ g.kind = "inline" => kind = "inline"
    BY <2>2, Zenon DEF Holds
  <2>7. overrun' = FALSE
    <3> DEFINE gc == g.cap
    <3>1. overrun = FALSE /\ overrun' = (overrun \/ e + size > gc)
      BY <2>1 DEF BuilderInv, Wrote
    <3>2. gc \in 1..next_power_of_two(MaxSize) /\ e + size + dp <= gc
      BY <2>6, Zenon
    <3> HIDE DEF e, dp, gc
    <3>3. ~ (e + size > gc)
      BY <2>3, <3>2, Largest
    <3>4. QED
      BY <3>1, <3>3
  <2>8. docs'[n].offset + docs'[n].len + docs'[n].depth = e + size + dp
    <3> DEFINE o == Innermost.offset
               l == Innermost.len
    <3>1. docs'[n].offset + docs'[n].len + docs'[n].depth = o + (l + size) + dp
      BY <2>5, Zenon
    <3>2. o \in Nat /\ l \in Nat /\ e = o + l
      BY <2>3, Zenon
    <3> HIDE DEF o, l, e, dp
    <3>3. o + (l + size) + dp = e + size + dp
      BY <2>3, <3>2
    <3>4. QED
      BY <3>1, <3>3, Zenon
  <2>9. g.kind = "inline" => Len(docs') = 1
    BY <2>3, <2>5, <2>6, Zenon
  <2>10. QED
    BY <2>1, <2>2, <2>5, <2>7, <2>8, <2>9, Kept, Zenon
<1>2. CASE ~ (size <= MaxSize - Innermost.len /\ g.ok)
  <2>1. UNCHANGED builderVars
    BY <1>2 DEF append_bytes
  <2>2. QED
    BY <2>1, Unchanged
<1>3. QED
  BY <1>1, <1>2

\* The buffer of a document that is about to get a child: an inline document
\* has moved out of the structure.
Moved == IF kind = "inline" THEN inline_grow(StructSize - docs[1].len) ELSE Same(TRUE)

\* It holds what the document needs so far and is not the structure.
LEMMA MovedHolds ==
  ASSUME BuilderInv, Writable
  PROVE  /\ Holds(Moved, End(Innermost) + Innermost.depth)
         /\ Moved.kind # "inline"
<1> DEFINE room == End(Innermost) + Innermost.depth
<1>1. /\ room \in Nat /\ room <= cap
  BY InnermostDocument
<1>2. CASE kind # "inline"
  <2>1. Moved = Same(TRUE)
    BY <1>2, Zenon DEF Moved
  <2> HIDE DEF room
  <2>2. Same(TRUE).kind = kind /\ Holds(Same(TRUE), room)
    BY <1>1, SameHolds, Zenon
  <2>3. QED
    BY <1>2, <2>1, <2>2, Zenon DEF room
<1>3. CASE kind = "inline"
  <2> DEFINE l == Innermost.len
             m == StructSize - l
             pw == next_power_of_two(StructSize)
  <2>1. /\ l \in Nat /\ Innermost.offset = 0 /\ Innermost.depth = 0 /\ cap = InlineSize
        /\ End(Innermost) = Innermost.offset + l /\ docs[1] = Innermost
    BY <1>3, InnermostDocument, Zenon
  <2>2. End(Innermost) = 0 + l /\ room = 0 + l + 0
    BY <2>1, Zenon
  <2>3. Moved = inline_grow(m)
    BY <1>3, <2>1, Zenon DEF Moved
  <2> HIDE DEF l, room
  <2>4. room = l /\ l <= InlineSize
    BY <1>1, <2>1, <2>2
  <2>5. m \in Nat /\ l + m = StructSize /\ l + m <= MaxSize /\ l + m > InlineSize
    BY <2>1, <2>4, Sizes
  <2>6. pw <= MaxSize
    <3>1. StructSize \in Powers /\ StructSize \in Nat /\ StructSize <= StructSize /\ StructSize <= MaxSize
          /\ MaxSize \in Nat
      BY Sizes
    <3>2. pw \in Nat /\ pw <= StructSize
      BY <3>1, PowerOfTwo
    <3>3. QED
      BY <3>1, <3>2
  <2> HIDE DEF m
  <2>7. inline_grow(m).ok
    <3>1. ~ (docs[1].len + m <= InlineSize) /\ docs[1].len + m = StructSize
      <4>1. docs[1].len = l
        BY <2>1, Zenon DEF l
      <4>2. ~ (l + m <= InlineSize)
        BY <2>5, Sizes
      <4>3. QED
        BY <2>5, <4>1, <4>2, Zenon
    <3>2. inline_grow(m) = Grown(TRUE, "alloc", pw, heap + 1)
      BY <2>6, <3>1, Zenon DEF inline_grow
    <3>3. QED
      BY <3>2 DEF Grown
  <2>8. Holds(inline_grow(m), l + m) /\ inline_grow(m).kind = "alloc"
    <3>1. Holds(inline_grow(m), Innermost.len + m)
          /\ (Innermost.len + m > InlineSize => inline_grow(m).kind = "alloc")
      BY <1>3, <2>5, <2>7, InlineGrows, Zenon DEF l
    <3>2. QED
      BY <2>5, <3>1, Zenon DEF l
  <2>9. Holds(inline_grow(m), room)
    <3> DEFINE gc == inline_grow(m).cap
    <3>1. gc \in 1..next_power_of_two(MaxSize) /\ l + m <= gc
      BY <2>8, Zenon DEF Holds
    <3> HIDE DEF gc
    <3>2. room <= gc
      BY <2>1, <2>4, <2>5, <3>1, Largest
    <3>3. QED
      BY <2>8, <3>2, Zenon DEF Holds, gc
  <2>10. QED
    BY <2>3, <2>8, <2>9 DEF room
<1>4. QED
  BY <1>2, <1>3

\* What _bson_grow yields is a buffer.
LEMMA MovedRecord ==
  Moved = [ok |-> Moved.ok, kind |-> Moved.kind, cap |-> Moved.cap, heap |-> Moved.heap]
<1>1. \A a, b, c, d : LET g == Grown(a, b, c, d)
                      IN  g = [ok |-> g.ok, kind |-> g.kind, cap |-> g.cap, heap |-> g.heap]
  BY DEF Grown
<1>2. \E a, b, c, d : Moved = Grown(a, b, c, d)
  BY Zenon DEF Moved, inline_grow, Same
<1>3. QED
  BY <1>1, <1>2, Zenon

\* _bson_append_bson_begin.
LEMMA BeginKeeps ==
  ASSUME BuilderInv, NEW size \in Nat, 1 <= size, append_bson_begin(size)
  PROVE  BuilderInv'
<1> DEFINE n == Len(docs)
           e == End(Innermost)
           dp == Innermost.depth
           all == size + EmptySize
           req == Innermost.offset + Innermost.len + all + Innermost.depth
           fits == req <= Moved.cap
           g == IF fits THEN Moved ELSE [Moved EXCEPT !.cap = next_power_of_two(req)]
           o == e + size - 1
<1>1. /\ n \in Nat /\ 1 <= n /\ e \in Nat /\ dp \in Nat /\ dp = n - 1
      /\ EmptySize <= Innermost.len /\ Innermost.len \in Nat /\ Innermost.offset \in Nat
      /\ e = Innermost.offset + Innermost.len /\ overrun = FALSE /\ Documents(docs, asked)
  BY InnermostDocument, Zenon DEF BuilderInv
<1>2. Writable /\ Len(docs) < MaxDepth
  BY DEF append_bson_begin
<1>3. Holds(Moved, e + dp) /\ Moved.kind # "inline"
  BY <1>2, MovedHolds, Zenon
<1>4. CASE /\ all <= MaxSize - Innermost.len
           /\ fits \/ (req <= MaxSize + 1 /\ next_power_of_two(req) <= MaxSize)
  <2>1. /\ Buffer(g) /\ Wrote(g, all)
        /\ docs' = Append([docs EXCEPT ![Len(docs)] = Longer(docs[Len(docs)], all)], NewDoc(o, Len(docs)))
        /\ asked' = Append([asked EXCEPT ![Len(docs)] = asked[Len(docs)] + all], 0)
    BY <1>4 DEF append_bson_begin, Moved, Innermost
  <2>2. all \in Nat /\ req = e + all + dp /\ req \in Nat /\ 1 <= req /\ e + all <= req
    BY <1>1, Empty
  <2> DEFINE gc == g.cap
  <2>3. Holds(g, req) /\ g.kind # "inline" /\ gc \in Nat /\ req <= gc
    <3>1. CASE fits
      <4>1. g = Moved
        BY <3>1, Zenon
      <4>2. Holds(g, req)
        BY <1>3, <3>1, <4>1, Zenon DEF Holds
      <4>3. gc \in 1..next_power_of_two(MaxSize) /\ req <= gc
        BY <4>2, Zenon DEF Holds
      <4> HIDE DEF gc, req
      <4>4. gc \in Nat
        BY <4>3, Largest
      <4>5. QED
        BY <1>3, <4>1, <4>2, <4>3, <4>4, Zenon
    <3>2. CASE ~ fits
      <4> DEFINE pw == next_power_of_two(req)
                 mv == Moved
                 h == [mv EXCEPT !.cap = pw]
      <4>1. g = h /\ req <= MaxSize + 1 /\ pw <= MaxSize
        BY <1>4, <3>2, Zenon
      <4> HIDE DEF req
      <4>2. pw \in Nat /\ req <= pw
        BY <2>2, <4>1, PowerBelow
      <4> HIDE DEF pw
      <4>3. pw \in 1..next_power_of_two(MaxSize)
        BY <2>2, <4>1, <4>2, Largest, Sizes
      <4>4. mv = [ok |-> mv.ok, kind |-> mv.kind, cap |-> mv.cap, heap |-> mv.heap]
        BY Zenon, MovedRecord
      <4> HIDE DEF mv
      <4>5. h.kind = mv.kind /\ h.cap = pw /\ h.heap = mv.heap
        BY <4>4
      <4> HIDE DEF h
      <4>6. Holds(h, req) /\ h.kind # "inline"
        BY <1>3, <4>2, <4>3, <4>5, Zenon DEF Holds, mv
      <4> HIDE DEF g
      <4>7. gc = pw
        BY <4>1, <4>5
      <4>8. QED
        BY <4>1, <4>2, <4>6, <4>7, Zenon
    <3>3. QED
      BY <3>1, <3>2
  <2> DEFINE ds == [docs EXCEPT ![Len(docs)] = Longer(docs[Len(docs)], all)]
             us == [asked EXCEPT ![Len(docs)] = asked[Len(docs)] + all]
  <2>4. LongerBy(docs, asked, all, ds, us)
    BY Zenon DEF LongerBy
  <2> HIDE DEF ds, us, all, g, gc
  <2>5. Documents(ds, us) /\ LastGrew(docs, all, ds)
    BY <1>1, <2>2, <2>4, Lengthened, Zenon
  <2>6. /\ Len(ds) = n /\ ds[n].offset = Innermost.offset /\ ds[n].depth = dp
        /\ ds[n].len = Innermost.len + all
    BY <2>5, Zenon DEF LastGrew, Innermost
  <2> HIDE DEF n
  <2>7. o \in Nat /\ o + EmptySize + 1 = ds[Len(ds)].offset + ds[Len(ds)].len
    <3> DEFINE io == Innermost.offset
               il == Innermost.len
    <3>1. ds[Len(ds)].offset + ds[Len(ds)].len = io + (il + all)
      BY <2>6, Zenon
    <3>2. io \in Nat /\ il \in Nat /\ e = io + il
      BY <1>1, Zenon
    <3> HIDE DEF io, il, e
    <3>3. o \in Nat /\ o + EmptySize + 1 = io + (il + all)
      BY <1>1, <3>2, Empty DEF all
    <3>4. QED
      BY <3>1, <3>3, Zenon
  <2>8. ChildAt(ds, us, o, docs', asked')
    <3>1. Len(ds) < MaxDepth /\ docs' = Append(ds, NewDoc(o, Len(ds))) /\ asked' = Append(us, 0)
      BY <1>2, <2>1, <2>6, Zenon DEF n, ds, us
    <3>2. QED
      BY <2>7, <3>1, Zenon DEF ChildAt
  <2>9. Documents(docs', asked') /\ LastIsNew(ds, o, docs')
    BY <2>5, <2>7, <2>8, Opened, Zenon
  <2>10. docs'[Len(docs')] = NewDoc(o, n)
    BY <2>6, <2>9, Zenon DEF LastIsNew
  <2>11. docs'[Len(docs')].offset + docs'[Len(docs')].len + docs'[Len(docs')].depth = req
    <3>1. NewDoc(o, n).offset = o /\ NewDoc(o, n).len = EmptySize /\ NewDoc(o, n).depth = n
      BY DEF NewDoc
    <3> HIDE DEF req, e, dp
    <3>2. o + EmptySize + n = req
      BY <1>1, <2>2, Empty DEF all
    <3>3. QED
      BY <2>10, <3>1, <3>2, Zenon
  <2>12. overrun' = FALSE
    <3>1. overrun' = (overrun \/ e + all > gc)
      BY <2>1 DEF Wrote, gc
    <3> HIDE DEF req, e
    <3>2. ~ (e + all > gc)
      BY <1>1, <2>2, <2>3
    <3>3. QED
      BY <1>1, <3>1, <3>2
  <2>13. QED
    BY <2>1, <2>3, <2>9, <2>11, <2>12, Kept, Zenon
<1>5. CASE ~ /\ all <= MaxSize - Innermost.len
             /\ fits \/ (req <= MaxSize + 1 /\ next_power_of_two(req) <= MaxSize)
  <2>1. Buffer(Moved) /\ UNCHANGED <<docs, asked, overrun>>
    BY <1>5 DEF append_bson_begin, Moved
  <2>2. docs' = docs /\ asked' = asked /\ overrun' = FALSE
    BY <1>1, <2>1
  <2>3. docs'[Len(docs')].offset + docs'[Len(docs')].len + docs'[Len(docs')].depth = e + dp
    BY <1>1, <2>2, Zenon DEF Innermost
  <2>4. QED
    BY <1>1, <1>3, <2>1, <2>2, <2>3, Kept, Zenon
<1>6. QED
  BY <1>4, <1>5

\* _bson_append_bson_end.
LEMMA EndKeeps ==
  ASSUME BuilderInv, append_bson_end
  PROVE  BuilderInv'
<1> DEFINE n == Len(docs) - 1
           l == docs[n].len + docs[n + 1].len - EmptySize
           e == End(Innermost)
           dp == Innermost.depth
<1>1. /\ Len(docs) \in Nat /\ e \in Nat /\ dp \in Nat /\ e = Innermost.offset + Innermost.len
      /\ cap \in Nat /\ e + dp <= cap
  BY InnermostDocument, Zenon
<1>2. Documents(docs, asked) /\ overrun = FALSE
  BY Zenon DEF BuilderInv
<1>3. Writable /\ Len(docs) > 1 /\ UNCHANGED <<kind, cap, heap>>
  BY DEF append_bson_end
<1>4. n \in Nat /\ 1 <= n /\ n + 1 = Len(docs) /\ Len(docs) # 1
  <2> DEFINE k == Len(docs)
  <2>1. k \in Nat /\ k > 1 /\ n = k - 1
    BY <1>1, <1>3
  <2> HIDE DEF k, n
  <2>2. n \in Nat /\ 1 <= n /\ n + 1 = k /\ k # 1
    BY ONLY <2>1
  <2>3. QED
    BY <2>2 DEF k
<1>5. kind # "inline"
  BY <1>4, InnermostDocument, Zenon
<1>6. Parent = docs[n] /\ Innermost = docs[n + 1]
  BY <1>4, Zenon DEF Parent, Innermost
<1>7. /\ docs' = [SubSeq(docs, 1, n) EXCEPT ![n] = [docs[n] EXCEPT !.len = l, !.enc = l]]
      /\ asked' = [SubSeq(asked, 1, n) EXCEPT ![n] = SubSeq(asked, 1, n)[n] + asked[Len(docs)]]
      /\ overrun' = (overrun \/ docs[n].offset + l > cap)
  BY <1>6 DEF append_bson_end
<1>8. SubSeq(asked, 1, n)[n] = asked[n]
  <2>1. asked \in Seq(Nat) /\ Len(asked) = Len(docs)
    BY <1>2, Path, Zenon
  <2>2. n \in 1..Len(asked) /\ n \in 1..n
    BY <1>4, <2>1
  <2> HIDE DEF n
  <2>3. QED
    BY <2>1, <2>2, FirstPart, Zenon
<1> HIDE DEF n
<1>9. WithoutChild(docs, asked, n, l, docs', asked')
  BY <1>4, <1>7, <1>8, Zenon DEF WithoutChild
<1> HIDE DEF l
<1>10. Documents(docs', asked') /\ EndsBehind(docs, n, l, docs')
  BY <1>2, <1>4, <1>9, Closed, Zenon
<1> DEFINE p == docs'[n]
           po == p.offset
           pd == p.depth
<1>11. /\ Len(docs') = n /\ po = docs[n].offset /\ p.len = l
       /\ po + l = e + 1 /\ pd + 1 = dp
  BY <1>1, <1>6, <1>10, Zenon DEF EndsBehind
<1>12. po \in Nat /\ pd \in Nat /\ l \in Nat
  <2>1. n \in 1..Len(docs')
    BY <1>4, <1>11
  <2>2. QED
    BY <1>10, <1>11, <2>1, OpenDocument, Zenon
<1>13. overrun' = FALSE
  <2>1. overrun' = (overrun \/ po + l > cap)
    BY <1>7, <1>11, Zenon
  <2> HIDE DEF po, e, dp, pd
  <2>2. ~ (po + l > cap)
    BY <1>1, <1>11, <1>12
  <2>3. QED
    BY <1>2, <2>1, <2>2
<1>14. Room(docs', cap')
  <2>1. cap' = cap
    BY <1>3
  <2>2. po + l + pd <= cap
    <3>1. po + l = e + 1 /\ pd + 1 = dp /\ e \in Nat /\ dp \in Nat /\ e + dp <= cap /\ cap \in Nat
      BY <1>1, <1>11, Zenon
    <3> HIDE DEF po, e, dp, pd
    <3>2. QED
      BY ONLY <1>12, <3>1
  <2>3. QED
    BY <1>11, <2>1, <2>2, Zenon DEF Room
<1>15. kind' = kind /\ cap' = cap /\ heap' = heap
  BY <1>3
<1>16. /\ kind' \in BufferKinds /\ cap' \in 1..next_power_of_two(MaxSize) /\ kind' # "inline"
       /\ OwnedOnce'
  BY <1>5, <1>15, Zenon DEF BuilderInv, OwnedOnce
<1>17. QED
  BY <1>10, <1>13, <1>14, <1>16, Zenon DEF BuilderInv

\* A document by itself in a new or kept buffer.
LEMMA AloneKeeps ==
  ASSUME NEW l \in Nat, EmptySize <= l,
         kind' \in BufferKinds, cap' \in 1..next_power_of_two(MaxSize), l <= cap',
         kind' = "inline" => cap' = InlineSize,
         docs' = <<[NewDoc(0, 0) EXCEPT !.len = l, !.enc = l]>>,
         asked' = <<l - EmptySize>>,
         overrun' = FALSE, OwnedOnce'
  PROVE  BuilderInv'
<1>1. cap' \in Nat
  BY Largest
<1>2. Documents(docs', asked') /\ Len(docs') = 1 /\ Room(docs', cap')
  BY <1>1, OneDocument
<1>3. QED
  BY <1>2, Zenon DEF BuilderInv

\* The same for an empty one.
LEMMA EmptyKeeps ==
  ASSUME kind' \in BufferKinds, cap' \in 1..next_power_of_two(MaxSize), EmptySize <= cap',
         kind' = "inline" => cap' = InlineSize,
         docs' = <<NewDoc(0, 0)>>, asked' = << 0 >>,
         overrun' = FALSE, OwnedOnce'
  PROVE  BuilderInv'
<1>1. cap' \in Nat
  BY Largest
<1>2. Documents(docs', asked') /\ Len(docs') = 1 /\ Room(docs', cap')
  BY <1>1, EmptyDocument
<1>3. QED
  BY <1>2, Zenon DEF BuilderInv

\* The sizes of buffers that bson.c begins with.
LEMMA BeginningSizes ==
  /\ InlineSize \in 1..next_power_of_two(MaxSize)
  /\ InlineSize + 1 \in 1..next_power_of_two(MaxSize)
  /\ EmptySize \in 1..next_power_of_two(MaxSize)
  /\ EmptySize <= InlineSize /\ EmptySize <= InlineSize + 1 /\ EmptySize <= EmptySize
  /\ InlineSize \in Nat /\ InlineSize + 1 \in Nat /\ EmptySize \in Nat
BY Sizes, Largest

\* bson_init.
LEMMA InitKeeps == BuilderInit => BuilderInv
<1> SUFFICES ASSUME BuilderInit PROVE BuilderInv
  OBVIOUS
<1>1. /\ kind = "inline" /\ cap = InlineSize /\ docs = <<NewDoc(0, 0)>> /\ asked = <<0>>
      /\ overrun = FALSE /\ heap = 0
  BY DEF BuilderInit
<1>2. kind \in BufferKinds /\ OwnedOnce
  BY <1>1 DEF BufferKinds, OwnedOnce
<1>3. cap \in 1..next_power_of_two(MaxSize) /\ cap \in Nat /\ EmptySize <= cap
  BY <1>1, BeginningSizes, Zenon
<1>4. Documents(docs, asked) /\ Len(docs) = 1 /\ Room(docs, cap)
  BY <1>1, <1>3, EmptyDocument
<1>5. QED
  BY <1>1, <1>2, <1>3, <1>4, Zenon DEF BuilderInv

\* bson_reinit.
LEMMA ReinitKeeps ==
  ASSUME BuilderInv, reinit
  PROVE  BuilderInv'
<1>1. /\ kind' = kind /\ cap' = cap /\ overrun' = overrun /\ heap' = heap
      /\ docs' = <<NewDoc(0, 0)>> /\ asked' = <<0>>
  BY DEF reinit
<1>2. /\ kind \in BufferKinds /\ cap \in 1..next_power_of_two(MaxSize) /\ overrun = FALSE /\ OwnedOnce
      /\ (kind = "inline" => cap = InlineSize)
  BY Zenon DEF BuilderInv
<1>3. EmptySize <= cap
  <2> DEFINE e == End(Innermost)
             l == Innermost.len
             o == Innermost.offset
             dp == Innermost.depth
  <2>1. /\ e = o + l /\ o \in Nat /\ l \in Nat /\ dp \in Nat /\ EmptySize <= l /\ e + dp <= cap
        /\ cap \in Nat
    BY InnermostDocument, Zenon
  <2> HIDE DEF e, l, o, dp
  <2>2. QED
    BY <2>1, Empty
<1>4. OwnedOnce'
  BY <1>1, <1>2, Zenon DEF OwnedOnce
<1>5. QED
  BY <1>1, <1>2, <1>3, <1>4, EmptyKeeps, Zenon

\* bson_destroy frees what the document owns.
LEMMA NothingOwned ==
  ASSUME BuilderInv
  PROVE  Freed(kind) = 0
BY DEF BuilderInv, OwnedOnce, Freed

\* bson_destroy and bson_destroy_with_steal.
LEMMA DestroyKeeps ==
  ASSUME BuilderInv, destroy \/ destroy_with_steal
  PROVE  BuilderInv'
<1>1. kind' = "gone" /\ cap' = cap /\ docs' = docs /\ asked' = asked /\ overrun' = overrun
  BY DEF destroy, destroy_with_steal
<1>2. heap' = Freed(kind)
  BY DEF destroy, destroy_with_steal, Freed
<1>3. OwnedOnce'
  BY <1>1, <1>2, NothingOwned DEF OwnedOnce
<1>4. kind' \in BufferKinds /\ kind' # "inline"
  BY <1>1 DEF BufferKinds
<1>5. /\ cap \in 1..next_power_of_two(MaxSize) /\ overrun = FALSE
      /\ Documents(docs, asked) /\ Room(docs, cap)
  BY Zenon DEF BuilderInv
<1>6. QED
  BY <1>1, <1>3, <1>4, <1>5, Zenon DEF BuilderInv

\* bson_sized_new.
LEMMA SizedKeeps ==
  ASSUME BuilderInv, NEW size \in {EmptySize, InlineSize + 1}, sized_new(size)
  PROVE  BuilderInv'
<1>1. kind = "gone" /\ heap = 0
  BY DEF sized_new, Again, BuilderInv, OwnedOnce
<1>2. CASE size <= InlineSize
  <2>1. /\ kind' = "inline" /\ cap' = InlineSize /\ heap' = 0 /\ overrun' = FALSE
        /\ docs' = <<NewDoc(0, 0)>> /\ asked' = <<0>>
    BY <1>1, <1>2 DEF sized_new, Fresh
  <2>2. kind' \in BufferKinds /\ OwnedOnce'
    BY <2>1 DEF BufferKinds, OwnedOnce
  <2>3. cap' \in 1..next_power_of_two(MaxSize) /\ EmptySize <= cap'
    BY <2>1, BeginningSizes, Zenon
  <2>4. QED
    BY <2>1, <2>2, <2>3, EmptyKeeps, Zenon
<1>3. CASE ~ (size <= InlineSize)
  <2>1. /\ kind' = "alloc" /\ cap' = Max2(EmptySize, size) /\ heap' = 1 /\ overrun' = FALSE
        /\ docs' = <<NewDoc(0, 0)>> /\ asked' = <<0>>
    BY <1>1, <1>3 DEF sized_new, Fresh
  <2>2. kind' \in BufferKinds /\ OwnedOnce' /\ kind' # "inline"
    BY <2>1 DEF BufferKinds, OwnedOnce
  <2>3. size = InlineSize + 1
    BY <1>3, BeginningSizes
  <2>4. Max2(EmptySize, size) = InlineSize + 1
    BY <2>3, BeginningSizes DEF Max2
  <2>5. cap' \in 1..next_power_of_two(MaxSize) /\ EmptySize <= cap'
    BY <2>1, <2>4, BeginningSizes, Zenon
  <2>6. QED
    BY <2>1, <2>2, <2>5, EmptyKeeps, Zenon
<1>4. QED
  BY <1>2, <1>3

\* bson_new_from_buffer.
LEMMA LentKeeps ==
  ASSUME BuilderInv, new_from_buffer
  PROVE  BuilderInv'
<1>1. /\ kind' = "lent" /\ cap' = EmptySize /\ heap' = 0 /\ overrun' = FALSE
      /\ docs' = <<NewDoc(0, 0)>> /\ asked' = <<0>>
  BY DEF new_from_buffer, Fresh, Again, BuilderInv, OwnedOnce
<1>2. kind' \in BufferKinds /\ OwnedOnce' /\ kind' # "inline"
  BY <1>1 DEF BufferKinds, OwnedOnce
<1>3. cap' \in 1..next_power_of_two(MaxSize) /\ EmptySize <= cap'
  BY <1>1, BeginningSizes, Zenon
<1>4. QED
  BY <1>1, <1>2, <1>3, EmptyKeeps, Zenon

\* A document of l bytes that is set up in a buffer of c bytes, with the buffers
\* that are then allocated.
LEMMA ReinitialisedKeeps ==
  ASSUME NEW k \in BufferKinds, NEW c \in 1..next_power_of_two(MaxSize), NEW l \in Nat,
         EmptySize <= l, l <= c, k = "inline" => c = InlineSize,
         Reinitialised(k, c, l), heap' = IF k = "alloc" THEN 1 ELSE 0
  PROVE  BuilderInv'
<1>1. /\ kind' = k /\ cap' = c /\ asked' = <<l - EmptySize>>
      /\ docs' = <<[NewDoc(0, 0) EXCEPT !.len = l, !.enc = l]>>
      /\ overrun' = (l > c)
  BY Zenon DEF Reinitialised
<1>2. overrun' = FALSE
  <2>1. ~ (l > c)
    BY Largest
  <2>2. overrun' = (l > c)
    BY <1>1, Zenon
  <2>3. (l > c) = FALSE
    BY <2>1
  <2>4. QED
    BY <2>2, <2>3, Zenon
<1>3. OwnedOnce'
  BY <1>1, Zenon DEF OwnedOnce
<1>4. QED
  BY <1>1, <1>2, <1>3, AloneKeeps, Zenon

\* bson_init_static.
LEMMA StaticKeeps ==
  ASSUME BuilderInv, NEW len, static_document(len)
  PROVE  BuilderInv'
<1>1. /\ heap' = 0 /\ len \in EmptySize..MaxSize /\ Reinitialised("rdonly", len, len)
  BY DEF static_document, Again, BuilderInv, OwnedOnce
<1>2. /\ len \in Nat /\ EmptySize <= len /\ len <= len /\ len \in 1..next_power_of_two(MaxSize)
  BY <1>1, Sizes, Largest
<1>3. "rdonly" \in BufferKinds /\ "rdonly" # "inline" /\ heap' = IF "rdonly" = "alloc" THEN 1 ELSE 0
  BY <1>1 DEF BufferKinds
<1>4. QED
  BY <1>1, <1>2, <1>3, ReinitialisedKeeps, Zenon

\* bson_copy and bson_copy_to.
LEMMA CopyKeeps ==
  ASSUME BuilderInv, copy \/ copy_to
  PROVE  BuilderInv'
<1> DEFINE l == docs[1].len
           pw == next_power_of_two(l)
<1>1. Documents(docs, asked) /\ AllClosed
  BY DEF BuilderInv, copy, copy_to
<1>2. 1 \in 1..Len(docs) /\ docs[1] = Innermost
  <2>1. 1 \in 1..Len(docs)
    BY <1>1, Path, Zenon
  <2>2. QED
    BY <1>1, <2>1, Zenon DEF AllClosed, Innermost
<1>3. l \in Nat /\ EmptySize <= l
  BY <1>1, <1>2, OpenDocument, Zenon
<1>4. l <= cap /\ cap \in Nat /\ cap <= next_power_of_two(MaxSize)
  <2> DEFINE e == End(Innermost)
             o == Innermost.offset
             dp == Innermost.depth
  <2>1. e = o + l /\ o \in Nat /\ dp \in Nat /\ e + dp <= cap /\ cap \in Nat
        /\ cap <= next_power_of_two(MaxSize)
    BY <1>2, InnermostDocument, Zenon
  <2> HIDE DEF l, e, o, dp
  <2>2. l <= cap
    BY ONLY <1>3, <2>1
  <2>3. QED
    BY <2>1, <2>2
<1>5. l \in 1..next_power_of_two(MaxSize) /\ l <= l
  <2> HIDE DEF l
  <2>1. QED
    BY <1>3, <1>4, Empty, Largest
<1>6. CASE copy
  <2>1. CASE l <= InlineSize
    <3>1. Reinitialised("inline", InlineSize, l) /\ heap' = 0
      BY <1>6, <2>1, NothingOwned DEF copy
    <3>2. "inline" \in BufferKinds /\ heap' = IF "inline" = "alloc" THEN 1 ELSE 0
      BY <3>1 DEF BufferKinds
    <3> HIDE DEF l
    <3>3. QED
      BY <1>3, <2>1, <3>1, <3>2, BeginningSizes, ReinitialisedKeeps, Zenon
  <2>2. CASE ~ (l <= InlineSize)
    <3>1. Reinitialised("alloc", l, l) /\ heap' = 1
      BY <1>6, <2>2, NothingOwned DEF copy
    <3>2. "alloc" \in BufferKinds /\ "alloc" # "inline" /\ heap' = IF "alloc" = "alloc" THEN 1 ELSE 0
      BY <3>1 DEF BufferKinds
    <3> HIDE DEF l
    <3>3. QED
      BY <1>3, <1>5, <3>1, <3>2, ReinitialisedKeeps, Zenon
  <2>3. QED
    BY <2>1, <2>2
<1>7. CASE copy_to
  <2>1. CASE kind = "inline"
    <3>1. Reinitialised("inline", InlineSize, l) /\ heap' = heap
      BY <1>7, <2>1 DEF copy_to
    <3>2. "inline" \in BufferKinds /\ heap' = IF "inline" = "alloc" THEN 1 ELSE 0
      BY <2>1, <3>1 DEF BufferKinds, BuilderInv, OwnedOnce
    <3>3. l <= InlineSize
      BY <1>4, <2>1, InnermostDocument, Zenon
    <3> HIDE DEF l
    <3>4. QED
      BY <1>3, <3>1, <3>2, <3>3, BeginningSizes, ReinitialisedKeeps, Zenon
  <2>2. CASE kind # "inline"
    <3>1. Reinitialised("alloc", pw, l) /\ heap' = 1
      BY <1>7, <2>2, NothingOwned DEF copy_to
    <3>2. "alloc" \in BufferKinds /\ "alloc" # "inline" /\ heap' = IF "alloc" = "alloc" THEN 1 ELSE 0
      BY <3>1 DEF BufferKinds
    <3> HIDE DEF l
    <3>3. l <= next_power_of_two(MaxSize)
      BY <1>5, Largest
    <3>4. pw \in Nat /\ l <= pw /\ pw <= next_power_of_two(MaxSize)
      BY <1>3, <3>3, Largest, PowerOfTwo
    <3>5. pw \in 1..next_power_of_two(MaxSize)
      BY <1>5, <3>4, Largest
    <3> HIDE DEF pw
    <3>6. QED
      BY <1>3, <3>1, <3>2, <3>4, <3>5, ReinitialisedKeeps, Zenon
  <2>3. QED
    BY <2>1, <2>2
<1>8. QED
  BY <1>6, <1>7

-----------------------------------------------------------------------------

\* The invariant in the words of BsonBuilder.
LEMMA InvImpliesBufferHolds == BuilderInv => BufferHolds
<1> SUFFICES ASSUME BuilderInv PROVE BufferHolds
  OBVIOUS
<1>1. /\ Documents(docs, asked) /\ kind \in BufferKinds /\ cap \in 1..next_power_of_two(MaxSize)
      /\ overrun = FALSE /\ OwnedOnce
  BY Zenon DEF BuilderInv
<1>2. /\ docs \in Seq(DocType) /\ Len(docs) \in 1..MaxDepth /\ Len(asked) = Len(docs)
      /\ \A i \in 1..Len(docs) : docs[i].depth = i - 1
  BY <1>1, Zenon DEF Documents, Nested
<1>3. BuilderTypeOK
  BY <1>1, <1>2 DEF BuilderTypeOK, DocType, BufferKinds
<1>4. Len(docs) \in 1..Len(docs)
  BY <1>1, Path, Zenon
<1>5. LengthsAdd
  BY <1>1, <1>4, OpenDocument, Zenon DEF LengthsAdd, Innermost
<1>6. QED
  BY <1>1, <1>3, <1>5 DEF BufferHolds, InBuffer

\* The buffers of bson.c: whatever is appended to documents in documents, however
\* they are opened, closed, emptied, copied, stolen and destroyed, no byte is
\* written outside of the buffer (the room that _bson_impl_alloc_grow adds for
\* the depth is enough), the length of the innermost document is what was
\* appended to it, and each buffer that was allocated has one owner.
THEOREM BufferHoldsAlways == BuilderSpec => []BufferHolds
<1>1. BuilderInit => BuilderInv
  BY InitKeeps
<1>2. ASSUME BuilderInv, [BuilderNext]_builderVars
      PROVE  BuilderInv'
  <2>1. ASSUME NEW size \in Pieces, append_bytes(size) \/ append_bson_begin(size)
        PROVE  BuilderInv'
    <3>1. size \in Nat /\ 1 <= size
      BY BuilderConstants
    <3>2. QED
      BY <1>2, <2>1, <3>1, AppendKeeps, BeginKeeps, Zenon
  <2>2. CASE append_bson_end
    BY <1>2, <2>2, EndKeeps
  <2>3. CASE reinit
    BY <1>2, <2>3, ReinitKeeps
  <2>4. CASE destroy \/ destroy_with_steal
    BY <1>2, <2>4, DestroyKeeps
  <2>5. CASE copy \/ copy_to
    BY <1>2, <2>5, CopyKeeps
  <2>6. CASE new_from_buffer
    BY <1>2, <2>6, LentKeeps
  <2>7. ASSUME NEW size \in {EmptySize, InlineSize + 1}, sized_new(size)
        PROVE  BuilderInv'
    BY <1>2, <2>7, SizedKeeps
  <2>8. ASSUME NEW len, static_document(len)
        PROVE  BuilderInv'
    BY <1>2, <2>8, StaticKeeps
  <2>9. CASE UNCHANGED builderVars
    BY <1>2, <2>9, Unchanged
  <2>10. QED
    BY <1>2, <2>1, <2>2, <2>3, <2>4, <2>5, <2>6, <2>7, <2>8, <2>9, Zenon DEF BuilderNext
<1>3. BuilderInv => BufferHolds
  BY InvImpliesBufferHolds
<1>4. QED
  BY <1>1, <1>2, <1>3, PTL DEF BuilderSpec

-----------------------------------------------------------------------------
(* BulkWrite.                                                               *)

KnownKinds ==
  {"insert", "duplicate", "large", "update", "updateTwo", "upsert", "updateFails", "remove",
   "removeTwo"}

\* The operations of a command.
Span(c) == commands[c].first .. (commands[c].first + commands[c].n - 1)

\* The commands lie one behind the other over the operations, each over
\* operations of its type; only inserts are merged.
CommandsTile ==
  /\ ops \in Seq(KnownKinds)
  /\ commands \in Seq([type: {"insert", "update", "delete"}, first: Nat \ {0}, n: Nat \ {0}, n_merged: Nat])
  /\ commands # <<>> => commands[1].first = 1
  /\ commands = <<>> => ops = <<>>
  /\ commands # <<>> => commands[Len(commands)].first + commands[Len(commands)].n = Len(ops) + 1
  /\ \A c \in 1 .. Len(commands) - 1 : commands[c + 1].first = commands[c].first + commands[c].n
  /\ \A c, d \in 1 .. Len(commands) : c < d => commands[c].first + commands[c].n <= commands[d].first
  /\ \A c \in 1 .. Len(commands) :
       /\ commands[c].first + commands[c].n <= Len(ops) + 1
       /\ \A i \in Span(c) : i \in 1 .. Len(ops) /\ Type(ops[i]) = commands[c].type
       /\ commands[c].type # "insert" => commands[c].n = 1

IsSequence(s) == Len(s) \in Nat /\ s = [k \in 1 .. Len(s) |-> s[k]]

ResultFields ==
  {"failed", "error", "nInserted", "nMatched", "nUpserted", "nRemoved", "offset", "n_commands",
   "writeErrors", "upserted"}

ResultOK(r) ==
  /\ DOMAIN r = ResultFields
  /\ r.failed \in BOOLEAN /\ r.error \in BOOLEAN
  /\ r.nInserted \in Nat /\ r.nMatched \in Nat /\ r.nUpserted \in Nat /\ r.nRemoved \in Nat
  /\ IsSequence(r.writeErrors)

\* The first operation that was not sent yet.
Frontier == IF cur <= Len(commands) THEN commands[cur].first + pos ELSE Len(ops) + 1

\* Where an execution is: between two messages of a command only if that is an
\* insert that is split.
Position ==
  /\ input.ordered \in BOOLEAN /\ input.ack \in BOOLEAN /\ input.client \in BOOLEAN
  /\ trouble \in BOOLEAN
  /\ cur \in 1 .. Len(commands) + 1 /\ pos \in Nat
  /\ pos > 0 =>
       /\ cur <= Len(commands) /\ pos < Cmd.n /\ Cmd.type = "insert"
       /\ IsLegacy \/ ~AtOnce

\* Before it begins nothing has happened; afterwards the result was reported.
Phases ==
  /\ phase \in {"build", "run", "done"}
  /\ phase = "build" =>
       /\ cur = 1 /\ pos = 0 /\ sent = <<>> /\ applied = {} /\ refused = {}
       /\ result = NoResult /\ trouble = FALSE /\ returned = NotReturned
  /\ phase = "run" => commands # <<>>
  /\ phase = "done" =>
       \/ returned.success = FALSE /\ returned.error = TRUE /\ (input.client = FALSE \/ commands = <<>>)
       \/ cur = Len(commands) + 1 /\ returned = result_complete(result)

\* What the server has executed lies below the frontier.
BelowFrontier ==
  /\ applied \subseteq 1 .. Frontier - 1 /\ refused \subseteq 1 .. Frontier - 1

\* Everything below the frontier was sent, unless the execution was given up;
\* and executed, unless there was trouble or something failed in order.
SentSoFar ==
  /\ Len(sent) \in Nat /\ sent = [k \in 1 .. Len(sent) |-> k]
  /\ \/ Len(sent) = Frontier - 1
     \/ cur = Len(commands) + 1 /\ input.ordered = TRUE /\ result.failed = TRUE
  /\ trouble = FALSE =>
    /\ input.ordered = FALSE \/ refused = {} => applied \cup refused = 1 .. Frontier - 1
    /\ refused = {} => result.failed = FALSE

\* A write command that had a failure is recorded as failed, and in order
\* it is the current one.
FailureSeen ==
  /\ ResultOK(result)
  /\ ~IsLegacy =>
       /\ refused # {} => result.failed = TRUE
       /\ result.failed = FALSE => applied = 1 .. Frontier - 1
       /\ input.ordered = TRUE /\ cur <= Len(commands) => \A i \in refused : Cmd.first <= i
  /\ result.failed = TRUE => result.error = TRUE \/ result.writeErrors # <<>>

\* The counts so far.
CountsSoFar ==
  ~IsLegacy /\ trouble = FALSE =>
    /\ result.nInserted = Cardinality(Of("insert"))
    /\ result.nRemoved = AffectedBy(Of("delete"))
    /\ result.nUpserted = Cardinality({i \in applied : ops[i] = "upsert"})
    /\ result.nMatched + result.nUpserted = AffectedBy(Of("update"))

\* The inductive invariant.
BulkInv ==
  /\ CommandsTile /\ Position /\ Phases
  /\ BelowFrontier /\ SentSoFar /\ FailureSeen /\ CommandsStop /\ CountsSoFar

LEMMA LowestOf ==
  ASSUME NEW S, S \subseteq Nat, S # {}
  PROVE  \E x \in S : \A y \in S : x <= y
<1> DEFINE below == {ss \in Nat \X Nat : ss[1] < ss[2]}
<1>1. IsWellFoundedOn(below, Nat)
  BY NatLessThanWellFounded, Zenon DEF OpToRel
<1>2. PICK x \in S : \A y \in S : ~ (<<y, x>> \in below)
  <2> HIDE DEF below
  <2>1. QED
    BY <1>1, WFMin
<1>3. \A y \in S : x \in Nat /\ y \in Nat /\ ~ (y < x)
  BY <1>2
<1>4. QED
  BY <1>3

(* Sequences and sets.                                                      *)

LEMMA Appended ==
  ASSUME NEW s, NEW t, IsSequence(s), IsSequence(t)
  PROVE  /\ IsSequence(s \o t) /\ Len(s \o t) = Len(s) + Len(t)
         /\ s \o t = <<>> <=> s = <<>> /\ t = <<>>
<1> DEFINE S == {s[k] : k \in 1 .. Len(s)} \cup {t[k] : k \in 1 .. Len(t)}
<1>1. Len(s) \in Nat /\ Len(t) \in Nat
  BY DEF IsSequence
<1>2. s \in Seq(S)
  <2>1. \A k \in 1 .. Len(s) : s[k] \in S
    OBVIOUS
  <2> HIDE DEF S
  <2>2. QED
    BY <1>1, <2>1 DEF IsSequence
<1>3. t \in Seq(S)
  <2>1. \A k \in 1 .. Len(t) : t[k] \in S
    OBVIOUS
  <2> HIDE DEF S
  <2>2. QED
    BY <1>1, <2>1 DEF IsSequence
<1> HIDE DEF S
<1>4. s \o t \in Seq(S) /\ Len(s \o t) = Len(s) + Len(t)
  BY <1>2, <1>3, ConcatProperties
<1>5. IsSequence(s \o t)
  <2>1. \A q \in Seq(S) : Len(q) \in Nat /\ q = [k \in 1 .. Len(q) |-> q[k]]
    OBVIOUS
  <2>2. QED
    BY <1>4, <2>1 DEF IsSequence
<1>6. \A q \in Seq(S) : q = <<>> <=> Len(q) = 0
  OBVIOUS
<1>7. s \o t = <<>> <=> s = <<>> /\ t = <<>>
  BY <1>1, <1>2, <1>3, <1>4, <1>6
<1>8. QED
  BY <1>4, <1>5, <1>7

\* An interval of places.
LEMMA Places ==
  ASSUME NEW a \in Nat, NEW k \in Nat
  PROVE  /\ IsFiniteSet(a .. a + k - 1) /\ Cardinality(a .. a + k - 1) = k
         /\ k # 0 => Min(a .. a + k - 1) = a
<1>1. a \in Int /\ a + k - 1 \in Int /\ (a > a + k - 1 => k = 0) /\ a + k - 1 - a + 1 = k
  OBVIOUS
<1>2. IsFiniteSet(a .. a + k - 1) /\ Cardinality(a .. a + k - 1) = k
  BY <1>1, FS_Interval
<1> SUFFICES ASSUME k # 0 PROVE Min(a .. a + k - 1) = a
  BY <1>2
<1>3. \A x \in a .. a + k - 1 : (\A y \in a .. a + k - 1 : x <= y) <=> x = a
  BY <1>1
<1>4. a \in a .. a + k - 1
  BY <1>1
<1>5. Min(a .. a + k - 1) = a
  BY <1>3, <1>4 DEF Min
<1>6. QED
  BY <1>2, <1>5

LEMMA MinOf ==
  ASSUME NEW S, S \subseteq Nat, S # {}
  PROVE  Min(S) \in S /\ \A y \in S : Min(S) <= y
<1>1. \E x \in S : \A y \in S : x <= y
  BY LowestOf
<1>2. QED
  BY <1>1 DEF Min

LEMMA AddedCardinality ==
  ASSUME NEW S, NEW T, IsFiniteSet(S), IsFiniteSet(T), S \cap T = {}
  PROVE  /\ IsFiniteSet(S \cup T) /\ Cardinality(S \cup T) = Cardinality(S) + Cardinality(T)
         /\ Cardinality(S) \in Nat /\ Cardinality(T) \in Nat
<1>1. Cardinality(S \cap T) = 0
  BY FS_EmptySet
<1>2. Cardinality(S) \in Nat /\ Cardinality(T) \in Nat
  BY FS_CardinalityType
<1>3. /\ IsFiniteSet(S \cup T)
      /\ Cardinality(S \cup T) = Cardinality(S) + Cardinality(T) - Cardinality(S \cap T)
  BY FS_Union
<1>4. QED
  BY <1>1, <1>2, <1>3

(* Counting documents.                                                      *)

Docs(set) == {doc \in set \X (1 .. 2) : doc[2] <= Affected(ops[doc[1]])}

LEMMA DocsFinite ==
  ASSUME NEW S, IsFiniteSet(S)
  PROVE  IsFiniteSet(Docs(S)) /\ AffectedBy(S) = Cardinality(Docs(S)) /\ AffectedBy(S) \in Nat
<1>1. IsFiniteSet(1 .. 2)
  <2>1. 1 \in Int /\ 2 \in Int
    OBVIOUS
  <2>2. QED
    BY <2>1, FS_Interval
<1>2. IsFiniteSet(S \X (1 .. 2))
  BY <1>1, FS_Product
<1>3. IsFiniteSet(Docs(S))
  BY <1>2, FS_Subset DEF Docs
<1>4. AffectedBy(S) = Cardinality(Docs(S))
  BY DEF AffectedBy, Docs
<1>5. QED
  BY <1>3, <1>4, FS_CardinalityType

LEMMA AffectedAdds ==
  ASSUME NEW S, NEW T, IsFiniteSet(S), IsFiniteSet(T), S \cap T = {}
  PROVE  /\ AffectedBy(S \cup T) = AffectedBy(S) + AffectedBy(T)
         /\ AffectedBy(S) \in Nat /\ AffectedBy(T) \in Nat
<1>1. Docs(S \cup T) = Docs(S) \cup Docs(T) /\ Docs(S) \cap Docs(T) = {}
  BY DEF Docs
<1>2. IsFiniteSet(S \cup T)
  BY FS_Union
<1>3. IsFiniteSet(Docs(S)) /\ AffectedBy(S) = Cardinality(Docs(S)) /\ AffectedBy(S) \in Nat
  BY DocsFinite
<1>4. IsFiniteSet(Docs(T)) /\ AffectedBy(T) = Cardinality(Docs(T)) /\ AffectedBy(T) \in Nat
  BY DocsFinite
<1>5. AffectedBy(S \cup T) = Cardinality(Docs(S \cup T))
  BY <1>2, DocsFinite
<1>6. Cardinality(Docs(S) \cup Docs(T)) = Cardinality(Docs(S)) + Cardinality(Docs(T))
  BY <1>1, <1>3, <1>4, AddedCardinality
<1>7. QED
  BY <1>1, <1>3, <1>4, <1>5, <1>6

LEMMA AffectedNone == AffectedBy({}) = 0
<1>1. Docs({}) = {}
  BY DEF Docs
<1>2. QED
  BY <1>1, FS_EmptySet DEF AffectedBy, Docs

\* Each insert stores one document.
LEMMA InsertsAffect ==
  ASSUME NEW S, IsFiniteSet(S), \A i \in S : ops[i] \in {"insert", "large"}
  PROVE  AffectedBy(S) = Cardinality(S)
<1>1. \A i \in S : Affected(ops[i]) = 1
  BY DEF Affected, Fails
<1>2. Docs(S) = {<<i, 1>> : i \in S}
  <2>1. \A doc \in Docs(S) : doc = <<doc[1], 1>> /\ doc[1] \in S
    BY <1>1 DEF Docs
  <2>2. \A i \in S : <<i, 1>> \in Docs(S)
    BY <1>1 DEF Docs
  <2>3. QED
    BY <2>1, <2>2
<1> DEFINE f == [i \in S |-> <<i, 1>>]
<1>3. f \in Bijection(S, Docs(S))
  <2>1. f \in [S -> Docs(S)]
    BY <1>2
  <2>2. \A i, j \in S : f[i] = f[j] => i = j
    OBVIOUS
  <2>3. \A doc \in Docs(S) : \E i \in S : f[i] = doc
    BY <1>2
  <2>4. QED
    BY <2>1, <2>2, <2>3 DEF Bijection, Injection, Surjection, IsInjective
<1>4. ExistsBijection(S, Docs(S))
  BY <1>3 DEF ExistsBijection
<1>5. QED
  BY <1>4, FS_Bijection, DocsFinite

\* An upsert affects a document.
LEMMA UpsertsAffect ==
  ASSUME NEW S, IsFiniteSet(S)
  PROVE  LET U == {i \in S : ops[i] = "upsert"}
         IN  IsFiniteSet(U) /\ Cardinality(U) \in Nat /\ Cardinality(U) <= AffectedBy(S)
<1> DEFINE U == {i \in S : ops[i] = "upsert"}
<1>1. Affected("upsert") = 1
  BY DEF Affected, Fails
<1> DEFINE f == [i \in U |-> <<i, 1>>]
<1>2. IsFiniteSet(U)
  BY FS_Subset
<1>3. f \in Injection(U, Docs(S))
  <2>1. f \in [U -> Docs(S)]
    BY <1>1 DEF Docs
  <2>2. \A i, j \in U : f[i] = f[j] => i = j
    OBVIOUS
  <2>3. QED
    BY <2>1, <2>2 DEF Injection, IsInjective
<1> HIDE DEF f
<1>4. Cardinality(U) <= Cardinality(Docs(S))
  BY <1>3, DocsFinite, FS_Injection
<1>5. QED
  BY <1>2, <1>4, DocsFinite, FS_CardinalityType

(* The server and its replies.                                              *)

\* What executing a message leaves done and failed.
ExecutedWell(msg, ex) ==
  /\ ex.done \subseteq msg /\ ex.bad \subseteq msg /\ ex.done \cap ex.bad = {}
  /\ IsFiniteSet(ex.done) /\ IsFiniteSet(ex.bad)
  /\ \A i \in ex.done : Fails(ops[i]) = FALSE
  /\ ex.bad = {} => ex.done = msg
  /\ input.ordered = FALSE => ex.done \cup ex.bad = msg

LEMMA ExecutedIsWell ==
  ASSUME Position, NEW msg, msg \subseteq Nat, IsFiniteSet(msg)
  PROVE  ExecutedWell(msg, Executed(msg))
<1> DEFINE bad == {i \in msg : Fails(ops[i])}
<1> DEFINE tried == IF input.ordered /\ bad # {} THEN {i \in msg : i <= Min(bad)} ELSE msg
<1>1. Executed(msg).done = tried \ bad /\ Executed(msg).bad = tried \cap bad
  BY DEF Executed
<1>2. tried \subseteq msg /\ bad \subseteq msg
  OBVIOUS
<1>3. IsFiniteSet(tried \ bad) /\ IsFiniteSet(tried \cap bad)
  BY <1>2, FS_Subset
<1>4. \A i \in tried \ bad : Fails(ops[i]) = FALSE
  BY <1>2 DEF Fails
<1>5. tried \cap bad = {} => tried \ bad = msg
  <2>1. CASE bad = {}
    BY <2>1
  <2>2. CASE bad # {}
    <3>1. Min(bad) \in bad /\ \A y \in bad : Min(bad) <= y
      <4>1. bad \subseteq Nat
        BY <1>2
      <4> HIDE DEF bad
      <4>2. QED
        BY <2>2, <4>1, MinOf
    <3>2. Min(bad) \in msg /\ Min(bad) <= Min(bad)
      BY <1>2, <3>1
    <3> HIDE DEF bad
    <3>3. Min(bad) \in tried
      BY <3>2
    <3>4. QED
      BY <3>1, <3>3
  <2>3. QED
    BY <2>1, <2>2
<1>6. input.ordered = FALSE => (tried \ bad) \cup (tried \cap bad) = msg
  OBVIOUS
<1> HIDE DEF bad, tried
<1>7. QED
  BY <1>1, <1>2, <1>3, <1>4, <1>5, <1>6 DEF ExecutedWell

LEMMA ReplyTells ==
  ASSUME NEW first, NEW msg, NEW ex, ExecutedWell(msg, ex)
  PROVE  /\ Reply(first, ex).n = AffectedBy(ex.done) /\ Reply(first, ex).n \in Nat
         /\ Reply(first, ex).up = Cardinality({i \in ex.done : ops[i] = "upsert"})
         /\ Reply(first, ex).up \in Nat
         /\ IsSequence(Reply(first, ex).errs)
         /\ Reply(first, ex).errs = <<>> <=> ex.bad = {}
<1> DEFINE e(k) == (CHOOSE i \in ex.bad : Cardinality({j \in ex.bad : j <= i}) = k) - first
<1> DEFINE m == Cardinality(ex.bad)
<1>1. IsFiniteSet(ex.done) /\ IsFiniteSet(ex.bad)
  BY DEF ExecutedWell
<1>2. m \in Nat /\ (m = 0 <=> ex.bad = {})
  BY <1>1, FS_CardinalityType, FS_EmptySet
<1>3. /\ Reply(first, ex).n = AffectedBy(ex.done)
      /\ Reply(first, ex).up = Cardinality({i \in ex.done : ops[i] = "upsert"})
      /\ Reply(first, ex).errs = [k \in 1 .. m |-> e(k)]
  BY DEF Reply
<1> HIDE DEF e, m
<1>4. Len([k \in 1 .. m |-> e(k)]) = m
  BY <1>2
<1>5. IsSequence([k \in 1 .. m |-> e(k)]) /\ ([k \in 1 .. m |-> e(k)] = <<>> <=> m = 0)
  BY <1>2, <1>4 DEF IsSequence
<1>6. AffectedBy(ex.done) \in Nat /\ Cardinality({i \in ex.done : ops[i] = "upsert"}) \in Nat
  BY <1>1, DocsFinite, UpsertsAffect
<1>7. QED
  BY <1>2, <1>3, <1>5, <1>6

ReplyOK(rep) == rep.n \in Nat /\ rep.up \in Nat /\ IsSequence(rep.errs)

\* What merging a reply to a write command changes.
Merged(r, c, rep, q) ==
  /\ ResultOK(q)
  /\ q.failed = TRUE <=> r.failed = TRUE \/ rep.errs # <<>>
  /\ q.error = r.error
  /\ q.writeErrors = <<>> <=> r.writeErrors = <<>> /\ rep.errs = <<>>
  /\ q.nInserted = IF c.type = "insert" THEN r.nInserted + rep.n ELSE r.nInserted
  /\ q.nRemoved = IF c.type = "delete" THEN r.nRemoved + rep.n ELSE r.nRemoved
  /\ q.nUpserted = IF c.type = "update" THEN r.nUpserted + rep.up ELSE r.nUpserted
  /\ q.nMatched = IF c.type = "update" /\ rep.n > rep.up THEN r.nMatched + (rep.n - rep.up) ELSE r.nMatched

LEMMA CountChanges ==
  ASSUME NEW r, ResultOK(r), NEW type, NEW n \in Nat, NEW up \in Nat, NEW matched \in Nat
  PROVE  LET q == Count(r, type, n, up, matched)
         IN  /\ DOMAIN q = ResultFields
             /\ q.failed = r.failed /\ q.error = r.error /\ q.writeErrors = r.writeErrors
             /\ q.nInserted = IF type = "insert" THEN r.nInserted + n ELSE r.nInserted
             /\ q.nRemoved = IF type = "delete" THEN r.nRemoved + n ELSE r.nRemoved
             /\ q.nUpserted = IF type = "update" THEN r.nUpserted + up ELSE r.nUpserted
             /\ q.nMatched = IF type = "update" THEN r.nMatched + matched ELSE r.nMatched
             /\ q.nInserted \in Nat /\ q.nRemoved \in Nat /\ q.nUpserted \in Nat /\ q.nMatched \in Nat
<1> DEFINE q == Count(r, type, n, up, matched)
<1>1. DOMAIN r = ResultFields
  BY DEF ResultOK
<1>2. /\ DOMAIN q = ResultFields
      /\ q.failed = r.failed /\ q.error = r.error /\ q.writeErrors = r.writeErrors
      /\ q.nInserted = IF type = "insert" THEN r.nInserted + n ELSE r.nInserted
      /\ q.nRemoved = IF type = "delete" THEN r.nRemoved + n ELSE r.nRemoved
      /\ q.nUpserted = IF type = "update" THEN r.nUpserted + up ELSE r.nUpserted
      /\ q.nMatched = IF type = "update" THEN r.nMatched + matched ELSE r.nMatched
  BY <1>1 DEF Count, ResultFields
<1> HIDE DEF q
<1>3. r.nInserted \in Nat /\ r.nRemoved \in Nat /\ r.nUpserted \in Nat /\ r.nMatched \in Nat
  BY DEF ResultOK
<1>4. q.nInserted \in Nat /\ q.nRemoved \in Nat /\ q.nUpserted \in Nat /\ q.nMatched \in Nat
  BY <1>2, <1>3
<1>5. QED
  BY <1>2, <1>4 DEF q

\* What merging errors changes.
ErrorsAdded(r, errs, q) ==
  /\ DOMAIN q = ResultFields
  /\ IsSequence(q.writeErrors)
  /\ q.writeErrors = <<>> <=> r.writeErrors = <<>> /\ errs = <<>>
  /\ q.failed = r.failed /\ q.error = r.error
  /\ q.nInserted = r.nInserted /\ q.nRemoved = r.nRemoved
  /\ q.nUpserted = r.nUpserted /\ q.nMatched = r.nMatched

LEMMA ErrorsMerged ==
  ASSUME NEW r, DOMAIN r = ResultFields, IsSequence(r.writeErrors), NEW errs, IsSequence(errs)
  PROVE  ErrorsAdded(r, errs, merge_arrays(r, errs))
<1> DEFINE more == [k \in 1 .. Len(errs) |-> errs[k] + r.offset]
<1> DEFINE q == merge_arrays(r, errs)
<1>1. q = [r EXCEPT !.writeErrors = r.writeErrors \o more]
  BY DEF merge_arrays
<1>2. Len(errs) \in Nat /\ (errs = <<>> <=> Len(errs) = 0)
  BY DEF IsSequence
<1>3. IsSequence(more) /\ (more = <<>> <=> errs = <<>>)
  <2> DEFINE m == Len(errs)
  <2> DEFINE e(k) == errs[k] + r.offset
  <2>1. more = [k \in 1 .. m |-> e(k)]
    OBVIOUS
  <2>2. m \in Nat /\ (errs = <<>> <=> m = 0)
    BY <1>2
  <2> HIDE DEF m, e, more
  <2>3. Len([k \in 1 .. m |-> e(k)]) = m
    BY <2>2
  <2>4. IsSequence([k \in 1 .. m |-> e(k)]) /\ ([k \in 1 .. m |-> e(k)] = <<>> <=> m = 0)
    BY <2>2, <2>3 DEF IsSequence
  <2>5. QED
    BY <2>1, <2>2, <2>4
<1> HIDE DEF more, q
<1>4. /\ IsSequence(r.writeErrors \o more)
      /\ r.writeErrors \o more = <<>> <=> r.writeErrors = <<>> /\ more = <<>>
  BY <1>3, Appended
<1>5. /\ DOMAIN q = ResultFields /\ q.writeErrors = r.writeErrors \o more
      /\ q.failed = r.failed /\ q.error = r.error
      /\ q.nInserted = r.nInserted /\ q.nRemoved = r.nRemoved
      /\ q.nUpserted = r.nUpserted /\ q.nMatched = r.nMatched
  BY <1>1 DEF ResultFields
<1>6. QED
  BY <1>3, <1>4, <1>5 DEF q, ErrorsAdded

LEMMA OnwardKeeps ==
  ASSUME NEW r, DOMAIN r = ResultFields, NEW c, NEW by
  PROVE  LET q == Onward(r, c, by)
         IN  /\ DOMAIN q = ResultFields /\ q.writeErrors = r.writeErrors
             /\ q.failed = r.failed /\ q.error = r.error
             /\ q.nInserted = r.nInserted /\ q.nRemoved = r.nRemoved
             /\ q.nUpserted = r.nUpserted /\ q.nMatched = r.nMatched
BY DEF Onward, ResultFields

\* _mongoc_write_result_merge
LEMMA MergesWell ==
  ASSUME NEW r, ResultOK(r), NEW c, NEW rep, ReplyOK(rep), NEW m
  PROVE  Merged(r, c, rep, result_merge(r, c, rep, m))
<1> DEFINE matched == IF rep.n > rep.up THEN rep.n - rep.up ELSE 0
<1> DEFINE counted == Count(r, c.type, rep.n, rep.up, matched)
<1> DEFINE failed == [counted EXCEPT !.failed = counted.failed \/ rep.errs # <<>>]
<1> DEFINE merged == merge_arrays(failed, rep.errs)
<1> DEFINE by == IF c.type = "insert" THEN m ELSE rep.n
<1> DEFINE q == Onward(merged, c, by)
<1>1. result_merge(r, c, rep, m) = q
  BY DEF result_merge
<1>2. rep.n \in Nat /\ rep.up \in Nat /\ IsSequence(rep.errs) /\ matched \in Nat
  BY DEF ReplyOK
<1>3. matched = IF rep.n > rep.up THEN rep.n - rep.up ELSE 0
  OBVIOUS
<1> HIDE DEF matched
<1>4. /\ DOMAIN counted = ResultFields
      /\ counted.failed = r.failed /\ counted.error = r.error /\ counted.writeErrors = r.writeErrors
      /\ counted.nInserted = IF c.type = "insert" THEN r.nInserted + rep.n ELSE r.nInserted
      /\ counted.nRemoved = IF c.type = "delete" THEN r.nRemoved + rep.n ELSE r.nRemoved
      /\ counted.nUpserted = IF c.type = "update" THEN r.nUpserted + rep.up ELSE r.nUpserted
      /\ counted.nMatched = IF c.type = "update" THEN r.nMatched + matched ELSE r.nMatched
      /\ counted.nInserted \in Nat /\ counted.nRemoved \in Nat
      /\ counted.nUpserted \in Nat /\ counted.nMatched \in Nat
  BY <1>2, CountChanges
<1> HIDE DEF counted
<1>5. /\ DOMAIN failed = ResultFields
      /\ failed.failed = (counted.failed \/ rep.errs # <<>>)
      /\ failed.error = counted.error /\ failed.writeErrors = counted.writeErrors
      /\ failed.nInserted = counted.nInserted /\ failed.nRemoved = counted.nRemoved
      /\ failed.nUpserted = counted.nUpserted /\ failed.nMatched = counted.nMatched
  BY <1>4 DEF ResultFields
<1> HIDE DEF failed
<1>6. IsSequence(failed.writeErrors)
  BY <1>4, <1>5 DEF ResultOK
<1>7. /\ DOMAIN merged = ResultFields /\ IsSequence(merged.writeErrors)
      /\ merged.writeErrors = <<>> <=> failed.writeErrors = <<>> /\ rep.errs = <<>>
      /\ merged.failed = failed.failed /\ merged.error = failed.error
      /\ merged.nInserted = failed.nInserted /\ merged.nRemoved = failed.nRemoved
      /\ merged.nUpserted = failed.nUpserted /\ merged.nMatched = failed.nMatched
  <2>1. ErrorsAdded(failed, rep.errs, merged)
    BY <1>2, <1>5, <1>6, ErrorsMerged
  <2>2. QED
    BY <2>1 DEF ErrorsAdded
<1> HIDE DEF merged, by
<1>8. /\ DOMAIN q = ResultFields /\ q.writeErrors = merged.writeErrors
      /\ q.failed = merged.failed /\ q.error = merged.error
      /\ q.nInserted = merged.nInserted /\ q.nRemoved = merged.nRemoved
      /\ q.nUpserted = merged.nUpserted /\ q.nMatched = merged.nMatched
  BY <1>7, OnwardKeeps
<1> HIDE DEF q
<1>9. r.failed \in BOOLEAN /\ r.error \in BOOLEAN
  BY DEF ResultOK
<1>10. q.failed = (r.failed \/ rep.errs # <<>>) /\ q.error = r.error
  BY <1>4, <1>5, <1>7, <1>8
<1>11. q.failed \in BOOLEAN /\ (q.failed = TRUE <=> r.failed = TRUE \/ rep.errs # <<>>)
  BY <1>9, <1>10
<1>12. ResultOK(q)
  BY <1>4, <1>5, <1>7, <1>8, <1>9, <1>10, <1>11 DEF ResultOK
<1>13. q.writeErrors = <<>> <=> r.writeErrors = <<>> /\ rep.errs = <<>>
  BY <1>4, <1>5, <1>7, <1>8
<1>14. q.nMatched = IF c.type = "update" /\ rep.n > rep.up THEN r.nMatched + (rep.n - rep.up) ELSE r.nMatched
  <2>1. q.nMatched = IF c.type = "update" THEN r.nMatched + matched ELSE r.nMatched
    BY <1>4, <1>5, <1>7, <1>8
  <2>2. r.nMatched \in Nat
    BY DEF ResultOK
  <2>3. QED
    BY <1>3, <2>1, <2>2
<1>15. /\ q.nInserted = IF c.type = "insert" THEN r.nInserted + rep.n ELSE r.nInserted
       /\ q.nRemoved = IF c.type = "delete" THEN r.nRemoved + rep.n ELSE r.nRemoved
       /\ q.nUpserted = IF c.type = "update" THEN r.nUpserted + rep.up ELSE r.nUpserted
  BY <1>4, <1>5, <1>7, <1>8
<1>16. QED
  BY <1>1, <1>10, <1>11, <1>12, <1>13, <1>14, <1>15 DEF Merged

\* _mongoc_write_result_merge_legacy: an error of getlasterror is also the
\* error of the result.
LegacyMerged(r, rep, q) ==
  /\ ResultOK(q)
  /\ q.failed = TRUE <=> r.failed = TRUE \/ rep.errs # <<>>
  /\ q.error = TRUE <=> r.error = TRUE \/ rep.errs # <<>>
  /\ r.writeErrors # <<>> => q.writeErrors # <<>>

LEMMA MergesLegacy ==
  ASSUME NEW r, ResultOK(r), NEW c, NEW rep, ReplyOK(rep), NEW m
  PROVE  LegacyMerged(r, rep, merge_legacy(r, c, rep, m))
<1> DEFINE matched == IF rep.up > 0 THEN 0 ELSE rep.n
<1> DEFINE counted == Count(r, c.type, rep.n, rep.up, matched)
<1> DEFINE err == rep.errs # <<>>
<1> DEFINE failed == [counted EXCEPT !.failed = counted.failed \/ err, !.error = counted.error \/ err]
<1> DEFINE one == << 0 >>
<1> DEFINE merged == IF err THEN merge_arrays(failed, one) ELSE failed
<1> DEFINE by == IF c.type = "insert" THEN m ELSE 1
<1> DEFINE q == Onward(merged, c, by)
<1>1. merge_legacy(r, c, rep, m) = q
  BY DEF merge_legacy
<1>2. rep.n \in Nat /\ rep.up \in Nat /\ matched \in Nat /\ err \in BOOLEAN
  BY DEF ReplyOK
<1> HIDE DEF matched, err
<1>3. /\ DOMAIN counted = ResultFields
      /\ counted.failed = r.failed /\ counted.error = r.error /\ counted.writeErrors = r.writeErrors
      /\ counted.nInserted \in Nat /\ counted.nRemoved \in Nat
      /\ counted.nUpserted \in Nat /\ counted.nMatched \in Nat
  BY <1>2, CountChanges
<1> HIDE DEF counted
<1>4. /\ DOMAIN failed = ResultFields
      /\ failed.failed = (counted.failed \/ err) /\ failed.error = (counted.error \/ err)
      /\ failed.writeErrors = counted.writeErrors
      /\ failed.nInserted = counted.nInserted /\ failed.nRemoved = counted.nRemoved
      /\ failed.nUpserted = counted.nUpserted /\ failed.nMatched = counted.nMatched
  BY <1>3 DEF ResultFields
<1> HIDE DEF failed
<1>5. IsSequence(failed.writeErrors)
  BY <1>3, <1>4 DEF ResultOK
<1>6. IsSequence(one) /\ one # <<>>
  BY DEF IsSequence
<1> HIDE DEF one
<1> DEFINE p == merge_arrays(failed, one)
<1>7. /\ DOMAIN p = ResultFields /\ IsSequence(p.writeErrors)
      /\ p.writeErrors = <<>> <=> failed.writeErrors = <<>> /\ one = <<>>
      /\ p.failed = failed.failed /\ p.error = failed.error
      /\ p.nInserted = failed.nInserted /\ p.nRemoved = failed.nRemoved
      /\ p.nUpserted = failed.nUpserted /\ p.nMatched = failed.nMatched
  <2>1. DOMAIN failed = ResultFields
    BY <1>4
  <2>2. IsSequence(one)
    BY <1>6
  <2>3. ErrorsAdded(failed, one, p)
    BY <1>5, <2>1, <2>2, ErrorsMerged
  <2> HIDE DEF p
  <2>4. QED
    BY <2>3 DEF ErrorsAdded
<1>8. /\ DOMAIN merged = ResultFields /\ IsSequence(merged.writeErrors)
      /\ failed.writeErrors # <<>> => merged.writeErrors # <<>>
      /\ merged.failed = failed.failed /\ merged.error = failed.error
      /\ merged.nInserted = failed.nInserted /\ merged.nRemoved = failed.nRemoved
      /\ merged.nUpserted = failed.nUpserted /\ merged.nMatched = failed.nMatched
  <2>1. CASE err
    BY <1>6, <1>7, <2>1
  <2>2. CASE ~err
    BY <1>4, <1>5, <2>2
  <2>3. QED
    BY <2>1, <2>2
<1> HIDE DEF merged, by
<1>9. /\ DOMAIN q = ResultFields /\ q.writeErrors = merged.writeErrors
      /\ q.failed = merged.failed /\ q.error = merged.error
      /\ q.nInserted = merged.nInserted /\ q.nRemoved = merged.nRemoved
      /\ q.nUpserted = merged.nUpserted /\ q.nMatched = merged.nMatched
  BY <1>8, OnwardKeeps
<1> HIDE DEF q
<1>10. r.failed \in BOOLEAN /\ r.error \in BOOLEAN
  BY DEF ResultOK
<1>11. q.failed = (r.failed \/ err) /\ q.error = (r.error \/ err)
  BY <1>3, <1>4, <1>8, <1>9
<1>12. /\ q.failed \in BOOLEAN /\ (q.failed = TRUE <=> r.failed = TRUE \/ err)
       /\ q.error \in BOOLEAN /\ (q.error = TRUE <=> r.error = TRUE \/ err)
  BY <1>2, <1>10, <1>11
<1>13. ResultOK(q)
  BY <1>3, <1>4, <1>8, <1>9, <1>12 DEF ResultOK
<1>14. r.writeErrors # <<>> => q.writeErrors # <<>>
  BY <1>3, <1>4, <1>8, <1>9
<1>15. QED
  BY <1>1, <1>12, <1>13, <1>14 DEF err, LegacyMerged

LEMMA FailureMarked ==
  ASSUME NEW r, ResultOK(r)
  PROVE  LET q == BulkFailure(r)
         IN  /\ ResultOK(q) /\ q.failed = TRUE /\ q.error = TRUE
             /\ q.writeErrors = r.writeErrors
             /\ q.nInserted = r.nInserted /\ q.nRemoved = r.nRemoved
             /\ q.nUpserted = r.nUpserted /\ q.nMatched = r.nMatched
BY DEF BulkFailure, ResultOK, ResultFields

(* One message.                                                             *)

MessageIs(k, msg) ==
  /\ msg.msg = Frontier .. Frontier + k - 1
  /\ Frontier + k <= Cmd.first + Cmd.n
  /\ msg.i \in Nat /\ msg.more \in BOOLEAN
  /\ msg.more = TRUE =>
       /\ msg.next = pos + k /\ pos + k < Cmd.n
       /\ Cmd.type = "insert" /\ (IsLegacy \/ ~AtOnce)
  /\ msg.more = FALSE => Frontier + k = Cmd.first + Cmd.n

LEMMA CommandIs ==
  ASSUME CommandsTile, Position, cur <= Len(commands)
  PROVE  /\ cur \in 1 .. Len(commands) /\ Cmd = commands[cur]
         /\ Cmd.first \in Nat \ {0} /\ Cmd.n \in Nat \ {0}
         /\ Cmd.type \in {"insert", "update", "delete"}
         /\ pos \in Nat /\ pos < Cmd.n /\ Frontier = Cmd.first + pos
         /\ Cmd.first + Cmd.n <= Len(ops) + 1 /\ Len(ops) \in Nat
         /\ \A i \in Cmd.first .. Cmd.first + Cmd.n - 1 : i \in 1 .. Len(ops) /\ Type(ops[i]) = Cmd.type
<1>1. cur \in 1 .. Len(commands) /\ Cmd = commands[cur]
  BY DEF Cmd, Position, CommandsTile
<1>2. /\ Cmd.first \in Nat \ {0} /\ Cmd.n \in Nat \ {0}
      /\ Cmd.type \in {"insert", "update", "delete"}
  <2>1. \A c \in 1 .. Len(commands) :
          /\ commands[c].first \in Nat \ {0} /\ commands[c].n \in Nat \ {0}
          /\ commands[c].type \in {"insert", "update", "delete"}
    <3> DEFINE R == [type: {"insert", "update", "delete"}, first: Nat \ {0}, n: Nat \ {0}, n_merged: Nat]
    <3>1. commands \in Seq(R)
      BY DEF CommandsTile
    <3>2. \A x \in R : /\ x.first \in Nat \ {0} /\ x.n \in Nat \ {0}
                       /\ x.type \in {"insert", "update", "delete"}
      OBVIOUS
    <3> HIDE DEF R
    <3>3. \A c \in 1 .. Len(commands) : commands[c] \in R
      BY <3>1
    <3>4. QED
      BY <3>2, <3>3
  <2>2. QED
    BY <1>1, <2>1
<1>3. pos \in Nat /\ pos < Cmd.n
  BY <1>2 DEF Position
<1>4. Frontier = Cmd.first + pos
  BY <1>1 DEF Frontier
<1>5. /\ Cmd.first + Cmd.n <= Len(ops) + 1 /\ Len(ops) \in Nat
      /\ \A i \in Cmd.first .. Cmd.first + Cmd.n - 1 : i \in 1 .. Len(ops) /\ Type(ops[i]) = Cmd.type
  <2>1. Span(cur) = Cmd.first .. Cmd.first + Cmd.n - 1
    BY <1>1 DEF Span
  <2>2. Len(ops) \in Nat
    BY DEF CommandsTile
  <2>3. QED
    BY <1>1, <2>1, <2>2 DEF CommandsTile
<1>6. QED
  BY <1>1, <1>2, <1>3, <1>4, <1>5

\* A message with the next k documents of an insert.
LEMMA TakenIs ==
  ASSUME CommandsTile, Position, cur <= Len(commands), Cmd.type = "insert", IsLegacy \/ ~AtOnce,
         NEW k \in Nat, k <= Cmd.n - pos
  PROVE  MessageIs(k, Taken(k))
<1>1. /\ Cmd.first \in Nat \ {0} /\ Cmd.n \in Nat \ {0}
      /\ pos \in Nat /\ pos < Cmd.n /\ Frontier = Cmd.first + pos
  BY CommandIs
<1> DEFINE a == Cmd.first
           n == Cmd.n
<1>2. /\ Taken(k).msg = (a + pos) .. (a + pos + k - 1)
      /\ Taken(k).next = pos + k /\ Taken(k).i = k
      /\ Taken(k).more = (pos + k < n)
  BY DEF Taken
<1>3. a \in Nat /\ n \in Nat /\ pos \in Nat /\ k <= n - pos /\ Frontier = a + pos
  BY <1>1
<1> HIDE DEF a, n
<1>4. Frontier + k <= a + n /\ (~ (pos + k < n) => Frontier + k = a + n)
  BY <1>3
<1>5. (pos + k < n) \in BOOLEAN
  BY <1>3
<1>6. Taken(k).msg = Frontier .. Frontier + k - 1
  BY <1>2, <1>3
<1>7. QED
  BY <1>2, <1>4, <1>5, <1>6 DEF MessageIs, a, n

\* Where the loops over documents may stop.
LEMMA UntilIs ==
  ASSUME CommandsTile, Position, cur <= Len(commands), Cmd.type = "insert", IsLegacy \/ ~AtOnce,
         NEW S, S \subseteq 0 .. (Cmd.n - pos), Cmd.n - pos \in S
  PROVE  \E k \in Nat : MessageIs(k, Taken(Min(S)))
<1>1. Cmd.n \in Nat /\ pos \in Nat /\ pos < Cmd.n
  BY CommandIs
<1> DEFINE left == Cmd.n - pos
<1>2. left \in Nat /\ S \subseteq 0 .. left /\ left \in S
  BY <1>1
<1> HIDE DEF left
<1>3. Min(S) \in Nat /\ Min(S) <= left
  <2>1. S \subseteq Nat /\ S # {}
    BY <1>2
  <2>2. Min(S) \in S
    BY <2>1, MinOf
  <2>3. Min(S) \in 0 .. left
    BY <1>2, <2>2, Zenon
  <2>4. QED
    BY <1>2, <2>3
<1>4. QED
  BY <1>3, TakenIs DEF left

LEMMA WholeIs ==
  ASSUME CommandsTile, Position, cur <= Len(commands), pos = 0
  PROVE  \E k \in Nat : MessageIs(k, Whole)
<1>1. /\ Cmd.first \in Nat \ {0} /\ Cmd.n \in Nat \ {0} /\ Frontier = Cmd.first
  BY CommandIs
<1>2. Whole.msg = Cmd.first .. (Cmd.first + Cmd.n - 1) /\ Whole.more = FALSE /\ Whole.i = 0
  BY DEF Whole
<1>3. MessageIs(Cmd.n, Whole)
  <2>1. Whole.msg = Frontier .. Frontier + Cmd.n - 1
    BY <1>1, <1>2
  <2>2. Frontier + Cmd.n <= Cmd.first + Cmd.n /\ Frontier + Cmd.n = Cmd.first + Cmd.n
    BY <1>1
  <2>3. Whole.i \in Nat
    <3>1. Whole.i = 0
      BY <1>2
    <3>2. QED
      BY <3>1
  <2>4. Whole.more \in BOOLEAN /\ Whole.more # TRUE
    <3>1. Whole.more = FALSE
      BY <1>2
    <3>2. QED
      BY <3>1
  <2>5. QED
    BY <2>1, <2>2, <2>3, <2>4 DEF MessageIs
<1>4. QED
  BY <1>1, <1>3

\* A message holds the next operations of the current command.
LEMMA MessageFits ==
  ASSUME CommandsTile, Position, cur <= Len(commands)
  PROVE  \E k \in Nat : MessageIs(k, Message)
<1>1. Cmd.type \in {"insert", "update", "delete"} /\ Cmd.n \in Nat /\ pos \in Nat /\ pos < Cmd.n
  BY CommandIs
<1>2. Cmd.n - pos \in 0 .. (Cmd.n - pos)
  BY <1>1
<1>3. CASE Cmd.type # "insert"
  <2>1. Message = Whole
    BY <1>3 DEF Message
  <2>2. pos = 0
    BY <1>1, <1>3 DEF Position
  <2>3. QED
    BY <2>1, <2>2, WholeIs
<1>4. CASE Cmd.type = "insert" /\ IsLegacy
  <2> DEFINE max_docs == IF input.ordered \/ input.ack THEN 1 ELSE MaxBatch
             S == {k \in 0 .. (Cmd.n - pos) :
                     \/ k = Cmd.n - pos
                     \/ k = max_docs
                     \/ /\ Document(k) # "large"
                        /\ k >= input.room \/ \E j \in 0 .. (k - 1) : Document(j) = "large"}
  <2>1. Message = Taken(Min(S))
    BY <1>4 DEF Message, legacy_message, TakenUntil
  <2>2. S \subseteq 0 .. (Cmd.n - pos) /\ Cmd.n - pos \in S
    BY <1>2
  <2> HIDE DEF S
  <2>3. QED
    BY <1>4, <2>1, <2>2, UntilIs
<1>5. CASE Cmd.type = "insert" /\ ~IsLegacy /\ AtOnce
  <2>1. Message = Whole
    BY <1>5 DEF Message, insert_message
  <2>2. pos = 0
    BY <1>1, <1>5 DEF Position
  <2>3. QED
    BY <2>1, <2>2, WholeIs
<1>6. CASE Cmd.type = "insert" /\ ~IsLegacy /\ ~AtOnce
  <2> DEFINE S == {k \in 0 .. (Cmd.n - pos) :
                     k = Cmd.n - pos \/ (k = MaxBatch \/ input.room = 0 \/ Document(k) = "large")}
  <2>1. Message = Taken(Min(S))
    BY <1>6 DEF Message, insert_message, TakenUntil
  <2>2. S \subseteq 0 .. (Cmd.n - pos) /\ Cmd.n - pos \in S
    BY <1>2
  <2> HIDE DEF S
  <2>3. QED
    BY <1>6, <2>1, <2>2, UntilIs
<1>7. QED
  BY <1>3, <1>4, <1>5, <1>6

\* Where the execution goes on.
MovesOn(k) ==
  \/ /\ cur' = cur /\ pos' = pos + k /\ pos + k < Cmd.n
     /\ Cmd.type = "insert" /\ (IsLegacy \/ ~AtOnce)
  \/ cur' = Len(commands) + 1 /\ pos' = 0 /\ input.ordered = TRUE /\ result'.failed = TRUE
  \/ /\ cur' = cur + 1 /\ pos' = 0 /\ Frontier + k = Cmd.first + Cmd.n
     /\ input.ordered = FALSE \/ result'.failed = FALSE

\* The counts r of a result to which a reply to ex was added.
Counted(r, ex) ==
  LET n == AffectedBy(ex.done)
      up == Cardinality({i \in ex.done : ops[i] = "upsert"})
  IN  /\ r.nInserted = IF Cmd.type = "insert" THEN result.nInserted + n ELSE result.nInserted
      /\ r.nRemoved = IF Cmd.type = "delete" THEN result.nRemoved + n ELSE result.nRemoved
      /\ r.nUpserted = IF Cmd.type = "update" THEN result.nUpserted + up ELSE result.nUpserted
      /\ r.nMatched = IF Cmd.type = "update" /\ n > up THEN result.nMatched + (n - up) ELSE result.nMatched

\* What a message did to the server; reached says whether it was executed.
MessageDid(k, ex, reached) ==
  /\ ExecutedWell(Frontier .. Frontier + k - 1, ex)
  /\ applied' = IF reached = TRUE THEN applied \cup ex.done ELSE applied
  /\ refused' = IF reached = TRUE THEN refused \cup ex.bad ELSE refused
  /\ trouble' \in BOOLEAN
  /\ sent' = sent \o [j \in 1 .. k |-> Frontier + j - 1]
  /\ trouble' = FALSE => trouble = FALSE /\ reached = TRUE

\* What a message did to the result; ok says whether it was answered.
ResultTells(r, ex, ok) ==
  /\ ResultOK(r)
  /\ r.failed = TRUE => r.error = TRUE \/ r.writeErrors # <<>>
  /\ ok = TRUE /\ r.failed = TRUE => result.failed = TRUE \/ ex.bad # {}
  /\ ~IsLegacy /\ r.failed = FALSE => result.failed = FALSE /\ ok = TRUE /\ ex.bad = {}
  /\ ~IsLegacy /\ ok = TRUE => Counted(r, ex)

Outcomes4 == {"replied", "lost", "unsent", "refused"}

LEMMA NoReplyOK == ReplyOK(NoReply) /\ NoReply.errs = <<>> /\ NoReply.n = 0 /\ NoReply.up = 0
<1>1. NoReply.errs = <<>> /\ NoReply.n = 0 /\ NoReply.up = 0
  BY DEF NoReply
<1>2. IsSequence(<<>>)
  BY DEF IsSequence
<1>3. QED
  BY <1>1, <1>2 DEF ReplyOK

\* _mongoc_write_command_execute with write commands.
LEMMA WriteCommandTells ==
  ASSUME NEW msg, NEW outcome, ResultOK(result), msg.more \in BOOLEAN, input.ordered \in BOOLEAN,
         ExecutedWell(msg.msg, Executed(msg.msg)), ~IsLegacy,
         result.failed = TRUE => result.error = TRUE \/ result.writeErrors # <<>>
  PROVE  LET x == write_command(msg, outcome)
         IN  /\ ResultTells(x.r, Executed(msg.msg), outcome = "replied")
             /\ x.again \in BOOLEAN /\ (x.again = TRUE => msg.more = TRUE)
             /\ msg.more = TRUE /\ x.again = FALSE => input.ordered = TRUE /\ x.r.failed = TRUE
<1> DEFINE x == write_command(msg, outcome)
<1> DEFINE ex == Executed(msg.msg)
<1>1. CASE outcome = "replied"
  <2> DEFINE rep == Reply(Min(msg.msg), ex)
  <2>1. x.r = result_merge(result, Cmd, rep, msg.i) /\ x.again = (msg.more /\ (outcome = "replied" \/ ~input.ordered))
    BY <1>1 DEF write_command
  <2>2. /\ ReplyOK(rep) /\ rep.n = AffectedBy(ex.done)
        /\ rep.up = Cardinality({i \in ex.done : ops[i] = "upsert"})
        /\ rep.errs = <<>> <=> ex.bad = {}
    BY ReplyTells DEF ReplyOK
  <2> HIDE DEF rep, x, ex
  <2>3. Merged(result, Cmd, rep, x.r)
    BY <2>1, <2>2, MergesWell
  <2>4. ResultOK(x.r) /\ (x.r.failed = TRUE <=> result.failed = TRUE \/ ex.bad # {})
    BY <2>2, <2>3 DEF Merged
  <2>5. x.r.failed = TRUE => x.r.error = TRUE \/ x.r.writeErrors # <<>>
    BY <2>3 DEF Merged
  <2>6. Counted(x.r, ex)
    BY <2>2, <2>3 DEF Merged, Counted
  <2>7. x.r.failed = FALSE => result.failed = FALSE /\ ex.bad = {}
    BY <2>4 DEF ResultOK
  <2>8. ResultTells(x.r, ex, outcome = "replied")
    BY <1>1, <2>4, <2>5, <2>6, <2>7 DEF ResultTells
  <2>9. x.again = msg.more
    BY <1>1, <2>1
  <2>10. QED
    BY <2>8, <2>9 DEF x, ex
<1>2. CASE outcome # "replied"
  <2> DEFINE r == BulkFailure(result)
  <2>1. x.r = result_merge(r, Cmd, NoReply, msg.i) /\ x.again = (msg.more /\ (outcome = "replied" \/ ~input.ordered))
    BY <1>2 DEF write_command
  <2>2. ResultOK(r) /\ r.failed = TRUE /\ r.error = TRUE
    BY FailureMarked
  <2> HIDE DEF r, x, ex
  <2>3. Merged(r, Cmd, NoReply, x.r)
    BY <2>1, <2>2, NoReplyOK, MergesWell
  <2>4. ResultOK(x.r) /\ x.r.failed = TRUE /\ x.r.error = TRUE
    BY <2>2, <2>3 DEF Merged
  <2>5. (outcome = "replied") # TRUE
    BY <1>2
  <2>6. ResultTells(x.r, ex, outcome = "replied")
    BY <2>4, <2>5 DEF ResultTells
  <2>7. x.again = (msg.more /\ ~input.ordered)
    BY <1>2, <2>1
  <2>8. QED
    BY <2>4, <2>6, <2>7 DEF x, ex
<1>3. QED
  BY <1>1, <1>2

\* The legacy opcodes.
LEMMA LegacyTells ==
  ASSUME NEW msg, NEW outcome \in Outcomes4, ResultOK(result), msg.more \in BOOLEAN, msg.i \in Nat,
         input.ack \in BOOLEAN,
         ExecutedWell(msg.msg, Executed(msg.msg)), IsLegacy,
         result.failed = TRUE => result.error = TRUE \/ result.writeErrors # <<>>
  PROVE  LET x == legacy_command(msg, outcome)
         IN  ResultTells(x.r, Executed(msg.msg), outcome = "replied") /\ x.again = msg.more
<1> DEFINE x == legacy_command(msg, outcome)
<1> DEFINE ex == Executed(msg.msg)
<1> DEFINE rep == gle_reply(msg)
<1>1. x.again = msg.more
  BY DEF legacy_command
<1>2. ReplyOK(rep) /\ (rep.errs = <<>> <=> ex.bad = {})
  <2> DEFINE full == Reply(Min(msg.msg), ex)
  <2>1. ReplyOK(full) /\ (full.errs = <<>> <=> ex.bad = {})
    BY ReplyTells DEF ReplyOK
  <2>2. full = [n |-> full.n, up |-> full.up, errs |-> full.errs]
    BY DEF Reply
  <2>3. rep = IF Cmd.type = "insert" THEN [full EXCEPT !.n = msg.i] ELSE full
    BY DEF gle_reply
  <2> HIDE DEF full, rep
  <2>4. rep.up = full.up /\ rep.errs = full.errs /\ (rep.n = msg.i \/ rep.n = full.n)
    BY <2>2, <2>3
  <2>5. QED
    BY <2>1, <2>4 DEF ReplyOK
<1>3. CASE outcome = "unsent"
  <2>1. x.r = BulkFailure(result)
    BY <1>3 DEF legacy_command, recv_gle
  <2>2. ResultOK(x.r) /\ x.r.failed = TRUE /\ x.r.error = TRUE
    BY <2>1, FailureMarked
  <2> HIDE DEF x, ex
  <2>3. ResultTells(x.r, ex, outcome = "replied")
    BY <1>3, <2>2 DEF ResultTells
  <2>4. QED
    BY <1>1, <2>3 DEF x, ex
<1>4. CASE outcome # "unsent" /\ input.ack = FALSE
  <2>1. x.r = result
    BY <1>4 DEF legacy_command, recv_gle
  <2> HIDE DEF x, ex
  <2>2. ResultTells(x.r, ex, outcome = "replied")
    BY <2>1 DEF ResultTells
  <2>3. QED
    BY <1>1, <2>2 DEF x, ex
<1>5. CASE outcome = "lost" /\ input.ack = TRUE
  <2>1. x.r = BulkFailure(result)
    BY <1>5 DEF legacy_command, recv_gle
  <2>2. ResultOK(x.r) /\ x.r.failed = TRUE /\ x.r.error = TRUE
    BY <2>1, FailureMarked
  <2> HIDE DEF x, ex
  <2>3. ResultTells(x.r, ex, outcome = "replied")
    BY <1>5, <2>2 DEF ResultTells
  <2>4. QED
    BY <1>1, <2>3 DEF x, ex
<1>6. CASE outcome = "refused" /\ input.ack = TRUE
  <2> DEFINE r == [result EXCEPT !.error = TRUE]
  <2>1. x.r = merge_legacy(r, Cmd, NoReply, msg.i)
    BY <1>6 DEF legacy_command, recv_gle
  <2>2. ResultOK(r) /\ r.error = TRUE /\ r.failed = result.failed
    BY DEF ResultOK, ResultFields
  <2> HIDE DEF r, x, ex
  <2>3. /\ ResultOK(x.r) /\ (x.r.failed = TRUE <=> r.failed = TRUE \/ NoReply.errs # <<>>)
        /\ (x.r.error = TRUE <=> r.error = TRUE \/ NoReply.errs # <<>>)
    <3>1. LegacyMerged(r, NoReply, x.r)
      BY <2>1, <2>2, NoReplyOK, MergesLegacy
    <3>2. QED
      BY <3>1 DEF LegacyMerged
  <2>4. ResultTells(x.r, ex, outcome = "replied")
    BY <1>6, <2>2, <2>3 DEF ResultTells
  <2>5. QED
    BY <1>1, <2>4 DEF x, ex
<1>7. CASE outcome = "replied" /\ input.ack = TRUE
  <2>1. x.r = merge_legacy(result, Cmd, rep, msg.i)
    BY <1>7 DEF legacy_command, recv_gle
  <2> HIDE DEF x, ex, rep
  <2>2. /\ ResultOK(x.r) /\ (x.r.failed = TRUE <=> result.failed = TRUE \/ rep.errs # <<>>)
        /\ (x.r.error = TRUE <=> result.error = TRUE \/ rep.errs # <<>>)
        /\ (result.writeErrors # <<>> => x.r.writeErrors # <<>>)
    <3>1. LegacyMerged(result, rep, x.r)
      BY <1>2, <2>1, MergesLegacy
    <3>2. QED
      BY <3>1 DEF LegacyMerged
  <2>3. ResultTells(x.r, ex, outcome = "replied")
    BY <1>2, <2>2 DEF ResultTells
  <2>4. QED
    BY <1>1, <2>3 DEF x, ex
<1>8. QED
  BY <1>3, <1>4, <1>5, <1>6, <1>7 DEF Outcomes4

\* A message of k operations that left ex at the server; it was executed if
\* reached, and answered if ok.
StepDid(k, ex, reached, ok) ==
  /\ Frontier + k <= Cmd.first + Cmd.n
  /\ MessageDid(k, ex, reached) /\ ResultTells(result', ex, ok) /\ MovesOn(k)
  /\ trouble' = FALSE => ok = TRUE
  /\ ok = TRUE => reached = TRUE

LEMMA StepIs ==
  ASSUME BulkInv, execute_step
  PROVE  /\ phase = "run" /\ cur <= Len(commands)
         /\ UNCHANGED <<ops, commands, input, phase, returned>>
         /\ \E k \in Nat : \E ex : \E reached, ok \in BOOLEAN : StepDid(k, ex, reached, ok)
<1>1. phase = "run" /\ cur <= Len(commands)
  BY DEF execute_step
<1>2. UNCHANGED <<ops, commands, input, phase, returned>>
  BY DEF execute_step
<1>3. PICK outcome \in OutcomesOf(Message) :
        LET x == IF IsLegacy THEN legacy_command(Message, outcome) ELSE write_command(Message, outcome)
        IN  /\ ReplySeen(Message, outcome)
            /\ result' = x.r
            /\ pos' = IF x.again THEN Message.next ELSE 0
            /\ cur' = IF x.again THEN cur ELSE IF stops(x.r) THEN Len(commands) + 1 ELSE cur + 1
  BY DEF execute_step
<1> DEFINE msg == Message
<1> DEFINE x == IF IsLegacy THEN legacy_command(msg, outcome) ELSE write_command(msg, outcome)
<1> DEFINE ex == Executed(msg.msg)
<1> DEFINE reached == outcome \in {"replied", "lost"} \/ (IsLegacy /\ outcome = "refused")
<1>4. outcome \in Outcomes4
  BY BulkAssumption DEF Outcomes4, OutcomesOf
<1>5. CommandsTile /\ Position /\ FailureSeen /\ BelowFrontier
  BY DEF BulkInv
<1>6. PICK k \in Nat : MessageIs(k, Message)
  BY <1>1, <1>5, MessageFits
<1>7. /\ Frontier \in Nat /\ Cmd.first \in Nat /\ Cmd.n \in Nat /\ Cmd.type \in {"insert", "update", "delete"}
  BY <1>1, <1>5, CommandIs
<1>8. /\ msg.msg = Frontier .. Frontier + k - 1 /\ Frontier + k <= Cmd.first + Cmd.n
      /\ msg.i \in Nat /\ msg.more \in BOOLEAN
      /\ msg.more = TRUE => /\ msg.next = pos + k /\ pos + k < Cmd.n
                            /\ Cmd.type = "insert" /\ (IsLegacy \/ ~AtOnce)
      /\ msg.more = FALSE => Frontier + k = Cmd.first + Cmd.n
  BY <1>6 DEF MessageIs
<1>9. /\ IsFiniteSet(msg.msg) /\ Cardinality(msg.msg) = k /\ (k # 0 => Min(msg.msg) = Frontier)
      /\ msg.msg \subseteq Nat
  <2>1. /\ IsFiniteSet(Frontier .. Frontier + k - 1) /\ Cardinality(Frontier .. Frontier + k - 1) = k
        /\ k # 0 => Min(Frontier .. Frontier + k - 1) = Frontier
    BY <1>6, <1>7, Places
  <2>2. Frontier .. Frontier + k - 1 \subseteq Nat
    BY <1>6, <1>7
  <2>3. QED
    BY <1>8, <2>1, <2>2
<1>10. ExecutedWell(msg.msg, ex)
  BY <1>5, <1>9, ExecutedIsWell
<1>11. /\ ResultOK(result) /\ (result.failed = TRUE => result.error = TRUE \/ result.writeErrors # <<>>)
       /\ input.ordered \in BOOLEAN /\ input.ack \in BOOLEAN /\ trouble \in BOOLEAN
  BY <1>5 DEF FailureSeen, Position
<1>12. /\ ResultTells(x.r, ex, outcome = "replied") /\ x.again \in BOOLEAN
       /\ x.again = TRUE => msg.more = TRUE
       /\ msg.more = TRUE /\ x.again = FALSE => input.ordered = TRUE /\ x.r.failed = TRUE
  <2> HIDE DEF msg
  <2>1. CASE IsLegacy
    <3> DEFINE y == legacy_command(msg, outcome)
    <3>1. x = y
      BY <2>1
    <3>2. ResultTells(y.r, ex, outcome = "replied") /\ y.again = msg.more
      BY <1>4, <1>8, <1>10, <1>11, <2>1, LegacyTells
    <3> HIDE DEF x, y, ex
    <3>3. x.again = msg.more
      BY <3>1, <3>2
    <3>4. QED
      BY <1>8, <3>1, <3>2, <3>3
  <2>2. CASE ~IsLegacy
    <3> DEFINE y == write_command(msg, outcome)
    <3>1. x = y
      BY <2>2
    <3>2. /\ ResultTells(y.r, ex, outcome = "replied") /\ y.again \in BOOLEAN
          /\ y.again = TRUE => msg.more = TRUE
          /\ msg.more = TRUE /\ y.again = FALSE => input.ordered = TRUE /\ y.r.failed = TRUE
      BY <1>8, <1>10, <1>11, <2>2, WriteCommandTells
    <3> HIDE DEF x, y, ex
    <3>3. QED
      BY <3>1, <3>2
  <2>3. QED
    BY <2>1, <2>2
<1>13. /\ ReplySeen(msg, outcome) /\ result' = x.r
       /\ pos' = IF x.again THEN msg.next ELSE 0
       /\ cur' = IF x.again THEN cur ELSE IF stops(x.r) THEN Len(commands) + 1 ELSE cur + 1
  BY <1>3
<1>14. MessageDid(k, ex, reached)
  <2>1. /\ sent' = sent \o [j \in 1 .. Cardinality(msg.msg) |-> Min(msg.msg) + j - 1]
        /\ applied' = IF reached THEN applied \cup ex.done ELSE applied
        /\ refused' = IF reached THEN refused \cup ex.bad ELSE refused
        /\ trouble' = (trouble \/ outcome # "replied")
    BY <1>13 DEF ReplySeen
  <2>2. reached \in BOOLEAN
    OBVIOUS
  <2>3. trouble' \in BOOLEAN
    BY <2>1
  <2>4. trouble' = FALSE => trouble = FALSE /\ outcome = "replied"
    BY <1>11, <2>1
  <2>5. outcome = "replied" => reached = TRUE
    OBVIOUS
  <2> HIDE DEF msg, ex, reached
  <2>6. sent' = sent \o [j \in 1 .. k |-> Frontier + j - 1]
    <3>1. [j \in 1 .. k |-> Min(msg.msg) + j - 1] = [j \in 1 .. k |-> Frontier + j - 1]
      <4>1. CASE k = 0
        <5>1. 1 .. k = {}
          BY <4>1
        <5>2. QED
          BY <5>1
      <4>2. CASE k # 0
        BY <1>9, <4>2
      <4>3. QED
        BY <4>1, <4>2
    <3>2. QED
      BY <1>9, <2>1, <3>1
  <2>7. ExecutedWell(Frontier .. Frontier + k - 1, ex)
    BY <1>8, <1>10
  <2>8. /\ applied' = IF reached = TRUE THEN applied \cup ex.done ELSE applied
        /\ refused' = IF reached = TRUE THEN refused \cup ex.bad ELSE refused
    BY <2>1, <2>2
  <2>9. QED
    BY <2>3, <2>4, <2>5, <2>6, <2>7, <2>8 DEF MessageDid
<1>15. MovesOn(k)
  <2> HIDE DEF msg, x
  <2>1. CASE x.again = TRUE
    <3>1. pos' = pos + k /\ cur' = cur /\ pos + k < Cmd.n
      BY <1>8, <1>12, <1>13, <2>1
    <3>2. Cmd.type = "insert" /\ (IsLegacy \/ ~AtOnce)
      BY <1>8, <1>12, <2>1
    <3>3. QED
      BY <3>1, <3>2 DEF MovesOn
  <2>2. CASE x.again = FALSE /\ x.r.failed = TRUE /\ input.ordered = TRUE
    <3>1. cur' = Len(commands) + 1 /\ pos' = 0 /\ result'.failed = TRUE
      BY <1>13, <2>2 DEF stops
    <3>2. QED
      BY <2>2, <3>1 DEF MovesOn
  <2>3. CASE x.again = FALSE /\ (x.r.failed = FALSE \/ input.ordered = FALSE)
    <3>1. cur' = cur + 1 /\ pos' = 0
      BY <1>13, <2>3 DEF stops
    <3>2. msg.more = FALSE
      BY <1>8, <1>12, <2>3
    <3>3. QED
      BY <1>8, <1>13, <2>3, <3>1, <3>2 DEF MovesOn
  <2>4. x.r.failed \in BOOLEAN
    BY <1>12 DEF ResultTells, ResultOK
  <2>5. QED
    BY <1>11, <1>12, <2>1, <2>2, <2>3, <2>4
<1>16. /\ trouble' = FALSE => (outcome = "replied") = TRUE
       /\ (outcome = "replied") = TRUE => reached = TRUE
  BY <1>13 DEF ReplySeen
<1>17. ResultTells(result', ex, outcome = "replied")
  BY <1>12, <1>13
<1> HIDE DEF msg, x, ex, reached
<1> DEFINE ok == outcome = "replied"
<1>18. ok \in BOOLEAN /\ reached \in BOOLEAN
  BY DEF reached
<1>19. ResultTells(result', ex, ok) /\ (trouble' = FALSE => ok = TRUE) /\ (ok = TRUE => reached = TRUE)
  BY <1>16, <1>17
<1> HIDE DEF ok
<1>20. StepDid(k, ex, reached, ok)
  BY <1>8, <1>14, <1>15, <1>19 DEF StepDid
<1>21. QED
  BY <1>1, <1>2, <1>6, <1>18, <1>20

\* The frontier moves over the message, or to the end after a failure.
LEMMA FrontierMoves ==
  ASSUME CommandsTile, Position, cur <= Len(commands), UNCHANGED <<ops, commands, input>>,
         NEW k \in Nat, Frontier + k <= Cmd.first + Cmd.n, MovesOn(k)
  PROVE  /\ Frontier \in Nat \ {0} /\ Frontier' \in Nat /\ Frontier + k <= Frontier'
         /\ cur' <= Len(commands) => Frontier' = Frontier + k
         /\ \/ Frontier' = Frontier + k
            \/ cur' = Len(commands) + 1 /\ input.ordered = TRUE /\ result'.failed = TRUE
         /\ \/ cur' = cur
            \/ cur' = Len(commands) + 1 /\ input.ordered = TRUE /\ result'.failed = TRUE
            \/ cur' = cur + 1 /\ (input.ordered = FALSE \/ result'.failed = FALSE)
<1>1. /\ cur \in 1 .. Len(commands) /\ Cmd = commands[cur]
      /\ Cmd.first \in Nat \ {0} /\ Cmd.n \in Nat \ {0}
      /\ pos \in Nat /\ pos < Cmd.n /\ Frontier = Cmd.first + pos
      /\ Cmd.first + Cmd.n <= Len(ops) + 1 /\ Len(ops) \in Nat
  BY CommandIs
<1>0. Frontier \in Nat \ {0}
  <2>1. \A a \in Nat \ {0}, b \in Nat : a + b \in Nat \ {0}
    OBVIOUS
  <2>2. QED
    BY <1>1, <2>1
<1>2. Len(commands) \in Nat
  BY DEF CommandsTile
<1>3. Frontier' = IF cur' <= Len(commands) THEN commands[cur'].first + pos' ELSE Len(ops) + 1
  BY DEF Frontier
<1>4. CASE cur' = cur /\ pos' = pos + k
  <2>1. Frontier' = commands[cur].first + (pos + k)
    BY <1>1, <1>3, <1>4
  <2>2. Frontier' = Frontier + k
    <3>1. Cmd.first \in Nat /\ pos \in Nat /\ Frontier = Cmd.first + pos /\ Frontier' = Cmd.first + (pos + k)
      BY <1>1, <2>1
    <3>2. \A a, b \in Nat : a + (b + k) = (a + b) + k
      OBVIOUS
    <3>3. QED
      BY <3>1, <3>2
  <2>3. Frontier' \in Nat /\ Frontier + k <= Frontier'
    BY <1>0, <2>2
  <2>4. QED
    BY <1>0, <1>4, <2>2, <2>3
<1>5. CASE cur' = Len(commands) + 1 /\ input.ordered = TRUE /\ result'.failed = TRUE
  <2>1. Frontier' = Len(ops) + 1 /\ ~ (cur' <= Len(commands))
    BY <1>2, <1>3, <1>5
  <2>2. Frontier + k <= Len(ops) + 1
    <3>1. Cmd.first + Cmd.n <= Len(ops) + 1 /\ Cmd.first + Cmd.n \in Nat /\ Frontier + k \in Nat
      BY <1>0, <1>1, SMTT(30)
    <3>2. QED
      BY <1>1, <3>1
  <2>3. Frontier' \in Nat /\ Frontier + k <= Frontier'
    BY <1>1, <2>1, <2>2
  <2>4. QED
    BY <1>0, <1>5, <2>1, <2>2, <2>3
<1>6. CASE /\ cur' = cur + 1 /\ pos' = 0 /\ Frontier + k = Cmd.first + Cmd.n
           /\ input.ordered = FALSE \/ result'.failed = FALSE
  <2>1. CASE cur + 1 <= Len(commands)
    <3>1. commands[cur + 1].first = commands[cur].first + commands[cur].n
      <4>1. cur \in 1 .. Len(commands) - 1
        BY <1>1, <1>2, <2>1
      <4>2. QED
        BY <4>1 DEF CommandsTile
    <3>2. Frontier' = commands[cur + 1].first + 0
      BY <1>3, <1>6, <2>1
    <3>3. Frontier' = Frontier + k
      BY <1>1, <1>6, <3>1, <3>2
    <3>4. QED
      BY <1>1, <1>6, <3>3, SMTT(30)
  <2>2. CASE ~ (cur + 1 <= Len(commands))
    <3>1. cur = Len(commands) /\ commands # <<>>
      BY <1>1, <1>2, <2>2
    <3>2. commands[cur].first + commands[cur].n = Len(ops) + 1
      BY <3>1 DEF CommandsTile
    <3>3. Frontier' = Len(ops) + 1
      BY <1>3, <1>6, <2>2
    <3>4. Frontier' = Frontier + k
      BY <1>1, <1>6, <3>2, <3>3
    <3>5. QED
      BY <1>1, <1>6, <3>4, SMTT(30)
  <2>3. QED
    BY <2>1, <2>2
<1>7. QED
  BY <1>4, <1>5, <1>6 DEF MovesOn

LEMMA StepPosition ==
  ASSUME CommandsTile, Position, cur <= Len(commands), UNCHANGED <<ops, commands, input>>,
         NEW k \in Nat, trouble' \in BOOLEAN, MovesOn(k)
  PROVE  Position'
<1>1. cur \in 1 .. Len(commands) /\ Cmd.n \in Nat \ {0} /\ pos \in Nat /\ Len(commands) \in Nat
  <2>1. Len(commands) \in Nat
    BY DEF CommandsTile
  <2>2. QED
    BY <2>1, CommandIs
<1>2. IsLegacy' = IsLegacy /\ (cur' = cur => AtOnce' = AtOnce)
  BY DEF IsLegacy, AtOnce, Cmd
<1>3. CASE /\ cur' = cur /\ pos' = pos + k /\ pos + k < Cmd.n
           /\ Cmd.type = "insert" /\ (IsLegacy \/ ~AtOnce)
  <2>1. Cmd' = Cmd
    BY <1>3 DEF Cmd
  <2>2. QED
    BY <1>1, <1>2, <1>3, <2>1 DEF Position
<1>4. CASE pos' = 0 /\ (cur' = Len(commands) + 1 \/ cur' = cur + 1)
  <2>1. cur' \in 1 .. Len(commands) + 1 /\ ~ (pos' > 0) /\ pos' \in Nat
    BY <1>1, <1>4
  <2>2. QED
    BY <1>4, <2>1 DEF Position
<1>5. QED
  BY <1>3, <1>4 DEF MovesOn

OfType(S, type) == {i \in S : Type(ops[i]) = type}
Upserts(S) == {i \in S : ops[i] = "upsert"}

\* The counts of r are those of the operations S.
CountsAre(S, r) ==
  /\ r.nInserted = Cardinality(OfType(S, "insert"))
  /\ r.nRemoved = AffectedBy(OfType(S, "delete"))
  /\ r.nUpserted = Cardinality(Upserts(S))
  /\ r.nMatched + r.nUpserted = AffectedBy(OfType(S, "update"))

\* What is added to the counts is what the message did.
LEMMA CountsGrow ==
  ASSUME CommandsTile, Position, cur <= Len(commands), ResultOK(result),
         NEW S, S \subseteq 1 .. Frontier - 1, CountsAre(S, result),
         NEW k \in Nat, Frontier + k <= Cmd.first + Cmd.n,
         NEW ex, ExecutedWell(Frontier .. Frontier + k - 1, ex),
         NEW r, Counted(r, ex), ResultOK(r)
  PROVE  CountsAre(S \cup ex.done, r)
<1> DEFINE D == ex.done
<1>1. /\ cur \in 1 .. Len(commands) /\ Frontier \in Nat /\ Cmd.first \in Nat /\ Cmd.n \in Nat
      /\ Cmd.type \in {"insert", "update", "delete"}
      /\ pos \in Nat /\ Frontier = Cmd.first + pos
      /\ \A i \in Cmd.first .. Cmd.first + Cmd.n - 1 : i \in 1 .. Len(ops) /\ Type(ops[i]) = Cmd.type
  BY CommandIs, SMTT(30)
<1>2. D \subseteq Frontier .. Frontier + k - 1 /\ IsFiniteSet(D) /\ \A i \in D : Fails(ops[i]) = FALSE
  BY DEF ExecutedWell
<1>3. IsFiniteSet(S) /\ S \cap D = {}
  <2>1. 1 \in Int /\ Frontier - 1 \in Int
    BY <1>1
  <2>2. IsFiniteSet(1 .. Frontier - 1)
    BY <2>1, FS_Interval
  <2> HIDE DEF D
  <2>3. S \cap D = {}
    BY <1>1, <1>2
  <2>4. QED
    BY <2>2, <2>3, FS_Subset
<1> HIDE DEF D
<1>4. \A i \in D : Type(ops[i]) = Cmd.type /\ ops[i] \in KnownKinds /\ Fails(ops[i]) = FALSE
  <2>1. \A i \in D : i \in Cmd.first .. Cmd.first + Cmd.n - 1
    <3>1. Cmd.first <= Frontier /\ Frontier + k <= Cmd.first + Cmd.n
      <4>1. Cmd.first \in Nat /\ pos \in Nat /\ Frontier = Cmd.first + pos
        BY <1>1
      <4>2. \A a, b \in Nat : a <= a + b
        OBVIOUS
      <4>3. QED
        BY <4>1, <4>2
    <3>2. \A i \in Frontier .. Frontier + k - 1 : i \in Int /\ Cmd.first <= i /\ i <= Cmd.first + Cmd.n - 1
      <4>1. \A a, b, n \in Nat : a <= b /\ b + k <= a + n =>
              \A i \in b .. b + k - 1 : i \in Int /\ a <= i /\ i <= a + n - 1
        OBVIOUS
      <4>2. Frontier \in Nat /\ Cmd.first \in Nat /\ Cmd.n \in Nat
        BY <1>1
      <4>3. QED
        BY <3>1, <4>1, <4>2
    <3>3. QED
      BY <1>1, <1>2, <3>2
  <2>2. \A i \in 1 .. Len(ops) : ops[i] \in KnownKinds
    BY DEF CommandsTile
  <2>3. QED
    BY <1>1, <1>2, <2>1, <2>2
<1>5. \A t : /\ OfType(S \cup D, t) = OfType(S, t) \cup OfType(D, t)
             /\ OfType(S, t) \cap OfType(D, t) = {}
             /\ OfType(S, t) \subseteq S /\ OfType(D, t) \subseteq D
             /\ OfType(D, t) = IF t = Cmd.type THEN D ELSE {}
  BY <1>3, <1>4 DEF OfType
<1>6. \A t : IsFiniteSet(OfType(S, t)) /\ IsFiniteSet(OfType(D, t))
  BY <1>2, <1>3, <1>5, FS_Subset
<1>7. \A t : /\ AffectedBy(OfType(S \cup D, t)) = AffectedBy(OfType(S, t)) + AffectedBy(OfType(D, t))
             /\ AffectedBy(OfType(S, t)) \in Nat
             /\ Cardinality(OfType(S \cup D, t)) = Cardinality(OfType(S, t)) + Cardinality(OfType(D, t))
             /\ Cardinality(OfType(S, t)) \in Nat
  <2> TAKE t
  <2>1. /\ AffectedBy(OfType(S, t) \cup OfType(D, t)) = AffectedBy(OfType(S, t)) + AffectedBy(OfType(D, t))
        /\ AffectedBy(OfType(S, t)) \in Nat
    BY <1>5, <1>6, AffectedAdds
  <2>2. /\ Cardinality(OfType(S, t) \cup OfType(D, t)) = Cardinality(OfType(S, t)) + Cardinality(OfType(D, t))
        /\ Cardinality(OfType(S, t)) \in Nat
    BY <1>5, <1>6, AddedCardinality
  <2>3. QED
    BY <1>5, <2>1, <2>2
<1>8. \A t : t # Cmd.type => /\ AffectedBy(OfType(S \cup D, t)) = AffectedBy(OfType(S, t))
                             /\ Cardinality(OfType(S \cup D, t)) = Cardinality(OfType(S, t))
  <2> TAKE t
  <2>1. OfType(D, t) = {} => OfType(S \cup D, t) = OfType(S, t)
    BY <1>5
  <2>2. QED
    BY <1>5, <2>1
<1>9. /\ Upserts(S \cup D) = Upserts(S) \cup Upserts(D) /\ Upserts(S) \cap Upserts(D) = {}
      /\ Upserts(S) \subseteq S /\ Upserts(D) \subseteq D
  BY <1>3 DEF Upserts
<1>10. /\ Cardinality(Upserts(S \cup D)) = Cardinality(Upserts(S)) + Cardinality(Upserts(D))
       /\ Cardinality(Upserts(D)) \in Nat
  BY <1>2, <1>3, <1>9, FS_Subset, AddedCardinality
<1>11. Cmd.type # "update" => Upserts(S \cup D) = Upserts(S)
  <2>1. Type("upsert") = "update"
    BY DEF Type
  <2>2. Cmd.type # "update" => Upserts(D) = {}
    BY <1>4, <2>1 DEF Upserts
  <2>3. QED
    BY <1>9, <2>2
<1>12. Counted(r, ex) /\ D = ex.done
  BY DEF D
<1>13. /\ r.nInserted = IF Cmd.type = "insert" THEN result.nInserted + AffectedBy(D) ELSE result.nInserted
       /\ r.nRemoved = IF Cmd.type = "delete" THEN result.nRemoved + AffectedBy(D) ELSE result.nRemoved
       /\ r.nUpserted = IF Cmd.type = "update" THEN result.nUpserted + Cardinality(Upserts(D)) ELSE result.nUpserted
       /\ r.nMatched = IF Cmd.type = "update" /\ AffectedBy(D) > Cardinality(Upserts(D))
                       THEN result.nMatched + (AffectedBy(D) - Cardinality(Upserts(D))) ELSE result.nMatched
  BY <1>12 DEF Counted, Upserts
<1>14. /\ result.nInserted \in Nat /\ result.nRemoved \in Nat /\ result.nUpserted \in Nat /\ result.nMatched \in Nat
  BY DEF ResultOK
<1>15. AffectedBy(D) \in Nat /\ Cardinality(Upserts(D)) \in Nat /\ Cardinality(Upserts(D)) <= AffectedBy(D)
  BY <1>2, DocsFinite, UpsertsAffect DEF Upserts
<1>16. CASE Cmd.type = "insert"
  <2>1. Cardinality(D) = AffectedBy(D)
    <3>1. \A op \in KnownKinds : Type(op) = "insert" /\ Fails(op) = FALSE => op \in {"insert", "large"}
      BY DEF KnownKinds, Type, Fails
    <3>2. \A i \in D : ops[i] \in {"insert", "large"}
      BY <1>4, <1>16, <3>1
    <3>3. QED
      BY <1>2, <3>2, InsertsAffect
  <2>2. OfType(D, "insert") = D
    BY <1>5, <1>16
  <2>3. r.nInserted = Cardinality(OfType(S \cup D, "insert"))
    <3>1. Cardinality(OfType(S \cup D, "insert")) = Cardinality(OfType(S, "insert")) + AffectedBy(D)
      BY <1>7, <2>1, <2>2
    <3>2. QED
      BY <1>13, <1>16, <3>1 DEF CountsAre
  <2>4. r.nRemoved = result.nRemoved /\ r.nUpserted = result.nUpserted /\ r.nMatched = result.nMatched
    BY <1>13, <1>16
  <2>5. QED
    BY <1>8, <1>11, <1>16, <2>3, <2>4, <1>12 DEF CountsAre
<1>17. CASE Cmd.type = "delete"
  <2>1. OfType(D, "delete") = D
    BY <1>5, <1>17
  <2>2. AffectedBy(OfType(S \cup D, "delete")) = AffectedBy(OfType(S, "delete")) + AffectedBy(D)
    BY <1>7, <2>1
  <2>3. r.nRemoved = AffectedBy(OfType(S \cup D, "delete"))
    BY <1>13, <1>17, <2>2 DEF CountsAre
  <2>4. r.nInserted = result.nInserted /\ r.nUpserted = result.nUpserted /\ r.nMatched = result.nMatched
    BY <1>13, <1>17
  <2>5. QED
    BY <1>8, <1>11, <1>17, <2>3, <2>4, <1>12 DEF CountsAre
<1>18. CASE Cmd.type = "update"
  <2>1. OfType(D, "update") = D
    BY <1>5, <1>18
  <2>2. AffectedBy(OfType(S \cup D, "update")) = AffectedBy(OfType(S, "update")) + AffectedBy(D)
    BY <1>7, <2>1
  <2>3. r.nUpserted = Cardinality(Upserts(S \cup D))
    BY <1>10, <1>13, <1>18 DEF CountsAre
  <2>4. r.nMatched + r.nUpserted = result.nMatched + result.nUpserted + AffectedBy(D)
    <3>1. r.nUpserted = result.nUpserted + Cardinality(Upserts(D))
      BY <1>13, <1>18
    <3>2. CASE AffectedBy(D) > Cardinality(Upserts(D))
      <4>1. r.nMatched = result.nMatched + (AffectedBy(D) - Cardinality(Upserts(D)))
        BY <1>13, <1>18, <3>2
      <4>2. QED
        BY <1>14, <1>15, <3>1, <4>1
    <3>3. CASE ~ (AffectedBy(D) > Cardinality(Upserts(D)))
      <4>1. r.nMatched = result.nMatched
        BY <1>13, <1>18, <3>3
      <4>2. AffectedBy(D) = Cardinality(Upserts(D))
        BY <1>15, <3>3
      <4>3. QED
        BY <1>14, <1>15, <3>1, <4>1, <4>2
    <3>4. QED
      BY <3>2, <3>3
  <2>5. r.nMatched + r.nUpserted = AffectedBy(OfType(S \cup D, "update"))
    BY <2>2, <2>4 DEF CountsAre
  <2>6. r.nInserted = result.nInserted /\ r.nRemoved = result.nRemoved
    BY <1>13, <1>18
  <2>7. QED
    BY <1>8, <1>18, <2>3, <2>5, <2>6, <1>12 DEF CountsAre
<1>19. QED
  BY <1>1, <1>16, <1>17, <1>18

LEMMA StepSends ==
  ASSUME CommandsTile, Position, BelowFrontier, SentSoFar, cur <= Len(commands),
         UNCHANGED <<ops, commands, input>>,
         NEW k \in Nat, NEW ex, NEW reached, NEW ok, StepDid(k, ex, reached, ok)
  PROVE  /\ BelowFrontier' /\ SentSoFar'
         /\ trouble' \in BOOLEAN
<1>1. /\ Frontier + k <= Cmd.first + Cmd.n
      /\ MessageDid(k, ex, reached) /\ ResultTells(result', ex, ok) /\ MovesOn(k)
      /\ trouble' = FALSE => ok = TRUE
  BY DEF StepDid
<1>2. /\ Frontier \in Nat \ {0} /\ Frontier' \in Nat /\ Frontier + k <= Frontier'
      /\ cur' <= Len(commands) => Frontier' = Frontier + k
      /\ \/ Frontier' = Frontier + k
         \/ cur' = Len(commands) + 1 /\ input.ordered = TRUE /\ result'.failed = TRUE
  BY <1>1, FrontierMoves
<1>3. /\ ExecutedWell(Frontier .. Frontier + k - 1, ex)
      /\ applied' = IF reached = TRUE THEN applied \cup ex.done ELSE applied
      /\ refused' = IF reached = TRUE THEN refused \cup ex.bad ELSE refused
      /\ trouble' \in BOOLEAN
      /\ sent' = sent \o [j \in 1 .. k |-> Frontier + j - 1]
      /\ trouble' = FALSE => trouble = FALSE /\ reached = TRUE
  BY <1>1 DEF MessageDid
<1>4. /\ ex.done \subseteq Frontier .. Frontier + k - 1 /\ ex.bad \subseteq Frontier .. Frontier + k - 1
      /\ ex.bad = {} => ex.done = Frontier .. Frontier + k - 1
      /\ input.ordered = FALSE => ex.done \cup ex.bad = Frontier .. Frontier + k - 1
  BY <1>3 DEF ExecutedWell
<1>5. /\ 1 .. Frontier - 1 \subseteq 1 .. Frontier' - 1
      /\ Frontier .. Frontier + k - 1 \subseteq 1 .. Frontier' - 1
      /\ (1 .. Frontier - 1) \cup (Frontier .. Frontier + k - 1) = 1 .. Frontier + k - 1
  <2>1. /\ Frontier \in Nat \ {0} /\ Frontier' \in Nat /\ Frontier + k <= Frontier' /\ k \in Nat
    BY <1>2
  <2>2. \A a \in Nat \ {0}, b \in Nat, c \in Nat : a + c <= b =>
          /\ 1 .. a - 1 \subseteq 1 .. b - 1 /\ a .. a + c - 1 \subseteq 1 .. b - 1
    OBVIOUS
  <2>3. \A a \in Nat \ {0}, c \in Nat : (1 .. a - 1) \cup (a .. a + c - 1) = 1 .. a + c - 1
    OBVIOUS
  <2>4. QED
    BY <2>1, <2>2, <2>3
<1>6. BelowFrontier'
  <2>1. applied \subseteq 1 .. Frontier - 1 /\ refused \subseteq 1 .. Frontier - 1
    BY DEF BelowFrontier
  <2>2. applied' \subseteq 1 .. Frontier' - 1 /\ refused' \subseteq 1 .. Frontier' - 1
    BY <1>3, <1>4, <1>5, <2>1
  <2>3. QED
    BY <2>2 DEF BelowFrontier
<1>7. SentSoFar'
  <2>1. trouble' = FALSE => trouble = FALSE /\ reached = TRUE /\ ok = TRUE
    BY <1>1, <1>3
  <2>2. /\ sent = [j \in 1 .. Len(sent) |-> j] /\ Len(sent) = Frontier - 1
        /\ trouble' = FALSE =>
             /\ input.ordered = FALSE \/ refused = {} => applied \cup refused = 1 .. Frontier - 1
             /\ refused = {} => result.failed = FALSE
    <3>1. cur # Len(commands) + 1
      <4>1. Len(commands) \in Nat /\ cur \in Nat
        BY DEF CommandsTile, Position
      <4>2. QED
        BY <4>1
    <3>2. QED
      BY <2>1, <3>1 DEF SentSoFar
  <2>3. /\ Len(sent') = Frontier + k - 1 /\ sent' = [j \in 1 .. Frontier + k - 1 |-> j]
    <3> DEFINE more == [j \in 1 .. k |-> Frontier + j - 1]
    <3>1. sent \in Seq(Nat) /\ more \in Seq(Nat) /\ Len(more) = k
      <4>1. \A j \in 1 .. k : Frontier + j - 1 \in Nat
        BY <1>2
      <4>2. more \in Seq(Nat) /\ Len(more) = k
        BY <4>1
      <4>3. Frontier - 1 \in Nat /\ sent = [j \in 1 .. Frontier - 1 |-> j]
        BY <1>2, <2>2
      <4>4. sent \in Seq(Nat)
        BY <4>3
      <4>5. QED
        BY <4>2, <4>4
    <3>2. \A j \in 1 .. Len(sent) : sent[j] = j
      BY <2>2
    <3>3. \A j \in 1 .. k : more[j] = Frontier + j - 1
      OBVIOUS
    <3> HIDE DEF more
    <3>4. /\ sent \o more \in Seq(Nat) /\ Len(sent \o more) = Len(sent) + Len(more)
          /\ \A j \in 1 .. Len(sent) + Len(more) :
               (sent \o more)[j] = IF j <= Len(sent) THEN sent[j] ELSE more[j - Len(sent)]
      BY <3>1, ConcatProperties
    <3>5. sent' = sent \o more
      BY <1>3 DEF more
    <3>6. Len(sent) + Len(more) = Frontier + k - 1
      BY <1>2, <2>2, <3>1
    <3>7. \A j \in 1 .. Frontier + k - 1 : sent'[j] = j
      <4> TAKE j \in 1 .. Frontier + k - 1
      <4>1. sent'[j] = IF j <= Len(sent) THEN sent[j] ELSE more[j - Len(sent)]
        BY <3>4, <3>5, <3>6
      <4>2. CASE j <= Len(sent)
        BY <1>2, <2>2, <3>2, <4>1, <4>2
      <4>3. CASE ~ (j <= Len(sent))
        <5>1. j - Len(sent) \in 1 .. k /\ Frontier + (j - Len(sent)) - 1 = j
          BY <1>2, <2>2, <4>3
        <5>2. QED
          BY <3>3, <4>1, <4>3, <5>1
      <4>4. QED
        BY <4>2, <4>3
    <3>8. sent' \in Seq(Nat) /\ Len(sent') = Frontier + k - 1
      BY <3>4, <3>5, <3>6
    <3>9. QED
      BY <3>7, <3>8
  <2>4. Frontier + k - 1 \in Nat
    BY <1>2
  <2>5. trouble' = FALSE /\ refused' = {} => ex.bad = {} /\ refused = {} /\ result'.failed = FALSE
    <3>1. trouble' = FALSE /\ refused' = {} => ex.bad = {} /\ refused = {}
      BY <1>3, <2>1
    <3>2. /\ result'.failed \in BOOLEAN
          /\ trouble' = FALSE => (result'.failed = TRUE => result.failed = TRUE \/ ex.bad # {})
      BY <1>1, <2>1 DEF ResultTells, ResultOK
    <3>3. QED
      BY <2>2, <3>1, <3>2
  <2>6. trouble' = FALSE /\ (input.ordered = FALSE \/ refused' = {}) => Frontier' = Frontier + k
    BY <1>2, <2>5
  <2>7. trouble' = FALSE /\ (input.ordered = FALSE \/ refused' = {}) =>
          applied' \cup refused' = 1 .. Frontier + k - 1
    <3> SUFFICES ASSUME trouble' = FALSE
                 PROVE  input.ordered = FALSE \/ refused' = {} =>
                          applied' \cup refused' = 1 .. Frontier + k - 1
      OBVIOUS
    <3>1. applied' = applied \cup ex.done /\ refused' = refused \cup ex.bad
      BY <1>3, <2>1
    <3>2. input.ordered = FALSE \/ refused' = {} => ex.done \cup ex.bad = Frontier .. Frontier + k - 1
      BY <1>4, <2>5
    <3>3. input.ordered = FALSE \/ refused' = {} => applied \cup refused = 1 .. Frontier - 1
      BY <2>2, <2>5
    <3>4. applied' \cup refused' = (applied \cup refused) \cup (ex.done \cup ex.bad)
      BY <3>1
    <3>5. QED
      BY <1>5, <3>2, <3>3, <3>4
  <2>8. \/ Len(sent') = Frontier' - 1
        \/ cur' = Len(commands) + 1 /\ input.ordered = TRUE /\ result'.failed = TRUE
    <3>1. Frontier' = Frontier + k => Frontier' - 1 = Frontier + k - 1
      BY <1>2
    <3>2. Len(sent') = Frontier + k - 1
      BY <2>3
    <3>3. QED
      BY <1>2, <3>1, <3>2, Zenon
  <2>9. Len(sent') \in Nat /\ sent' = [j \in 1 .. Len(sent') |-> j]
    <3> DEFINE m == Frontier + k - 1
    <3>1. Len(sent') = m /\ sent' = [j \in 1 .. m |-> j] /\ m \in Nat
      BY <2>3, <2>4
    <3> HIDE DEF m
    <3>2. QED
      BY <3>1
  <2>10. trouble' = FALSE /\ (input.ordered = FALSE \/ refused' = {}) =>
           applied' \cup refused' = 1 .. Frontier' - 1
    <3>1. Frontier' = Frontier + k => Frontier' - 1 = Frontier + k - 1
      BY <1>2
    <3>2. QED
      BY <2>6, <2>7, <3>1
  <2>11. QED
    BY <2>5, <2>8, <2>9, <2>10 DEF SentSoFar
<1>8. QED
  BY <1>3, <1>6, <1>7

LEMMA StepFailures ==
  ASSUME CommandsTile, Position, BelowFrontier, FailureSeen, CommandsStop, cur <= Len(commands),
         UNCHANGED <<ops, commands, input>>,
         NEW k \in Nat, NEW ex, NEW reached, NEW ok, StepDid(k, ex, reached, ok)
  PROVE  FailureSeen' /\ CommandsStop'
<1>1. /\ Frontier + k <= Cmd.first + Cmd.n
      /\ MessageDid(k, ex, reached) /\ ResultTells(result', ex, ok) /\ MovesOn(k)
      /\ ok = TRUE => reached = TRUE
  BY DEF StepDid
<1>2. /\ Frontier \in Nat \ {0} /\ Frontier' \in Nat
      /\ \/ Frontier' = Frontier + k
         \/ cur' = Len(commands) + 1 /\ input.ordered = TRUE /\ result'.failed = TRUE
      /\ \/ cur' = cur
         \/ cur' = Len(commands) + 1 /\ input.ordered = TRUE /\ result'.failed = TRUE
         \/ cur' = cur + 1 /\ (input.ordered = FALSE \/ result'.failed = FALSE)
  BY <1>1, FrontierMoves
<1>3. /\ ExecutedWell(Frontier .. Frontier + k - 1, ex)
      /\ applied' = IF reached = TRUE THEN applied \cup ex.done ELSE applied
      /\ refused' = IF reached = TRUE THEN refused \cup ex.bad ELSE refused
  BY <1>1 DEF MessageDid
<1>4. /\ ex.done \subseteq Frontier .. Frontier + k - 1 /\ ex.bad \subseteq Frontier .. Frontier + k - 1
      /\ ex.bad = {} => ex.done = Frontier .. Frontier + k - 1
  BY <1>3 DEF ExecutedWell
<1>5. /\ ResultOK(result')
      /\ result'.failed = TRUE => result'.error = TRUE \/ result'.writeErrors # <<>>
      /\ ~IsLegacy /\ result'.failed = FALSE => result.failed = FALSE /\ ok = TRUE /\ ex.bad = {}
  BY <1>1 DEF ResultTells
<1>6. result.failed \in BOOLEAN /\ result'.failed \in BOOLEAN
  BY <1>5 DEF ResultOK, FailureSeen
<1>7. IsLegacy' = IsLegacy
  BY DEF IsLegacy
<1>8. /\ cur \in 1 .. Len(commands) /\ Cmd = commands[cur] /\ Cmd.first \in Nat /\ Cmd.n \in Nat
      /\ pos \in Nat /\ Frontier = Cmd.first + pos /\ Len(commands) \in Nat
  <2>1. Len(commands) \in Nat
    BY DEF CommandsTile
  <2>2. QED
    BY <2>1, CommandIs
<1>9. Cmd.first <= Frontier
  <2>1. \A a, b \in Nat : a <= a + b
    OBVIOUS
  <2>2. QED
    BY <1>8, <2>1
<1>10. applied \subseteq 1 .. Frontier - 1 /\ refused \subseteq 1 .. Frontier - 1
  BY DEF BelowFrontier
<1>11. ~IsLegacy /\ result'.failed = FALSE => refused' = {} /\ applied' = 1 .. Frontier' - 1
  <2> SUFFICES ASSUME ~IsLegacy, result'.failed = FALSE PROVE refused' = {} /\ applied' = 1 .. Frontier' - 1
    OBVIOUS
  <2>1. result.failed = FALSE /\ ex.bad = {} /\ reached = TRUE
    BY <1>1, <1>5
  <2>2. refused = {} /\ applied = 1 .. Frontier - 1
    BY <2>1 DEF FailureSeen
  <2>3. refused' = {} /\ applied' = (1 .. Frontier - 1) \cup (Frontier .. Frontier + k - 1)
    BY <1>3, <1>4, <2>1, <2>2
  <2>4. \A a \in Nat \ {0}, c \in Nat : (1 .. a - 1) \cup (a .. a + c - 1) = 1 .. a + c - 1
    OBVIOUS
  <2>5. Frontier' = Frontier + k
    BY <1>2
  <2>6. Frontier' - 1 = Frontier + k - 1
    BY <1>2, <2>5
  <2>7. QED
    BY <1>2, <2>3, <2>4, <2>6
<1>12. ~IsLegacy /\ refused' # {} => result'.failed = TRUE
  BY <1>6, <1>11
\* A failure in order is one of the current command.
<1>13. ~IsLegacy /\ input.ordered = TRUE => \A i \in refused' : i \in Int /\ Cmd.first <= i
  <2> SUFFICES ASSUME ~IsLegacy, input.ordered = TRUE, NEW i \in refused' PROVE i \in Int /\ Cmd.first <= i
    OBVIOUS
  <2>1. CASE i \in refused
    <3>1. \A j \in refused : Cmd.first <= j
      BY <1>8 DEF FailureSeen
    <3>2. i \in 1 .. Frontier - 1
      BY <1>10, <2>1
    <3>3. QED
      BY <2>1, <3>1, <3>2
  <2>2. CASE i \in ex.bad
    <3>1. i \in Int /\ Frontier <= i
      BY <1>2, <1>4, <2>2
    <3>2. QED
      BY <1>2, <1>8, <1>9, <3>1
  <2>3. QED
    BY <1>3, <2>1, <2>2
<1>14. ~IsLegacy /\ input.ordered = TRUE /\ cur' <= Len(commands) => \A i \in refused' : Cmd'.first <= i
  <2>1. CASE cur' = cur
    <3>1. Cmd' = Cmd
      BY <2>1 DEF Cmd
    <3>2. QED
      BY <1>13, <3>1
  <2>2. CASE cur' = Len(commands) + 1
    BY <1>8, <2>2
  <2>3. CASE cur' = cur + 1 /\ (input.ordered = FALSE \/ result'.failed = FALSE)
    BY <1>11, <2>3
  <2>4. QED
    BY <1>2, <2>1, <2>2, <2>3
<1>15. FailureSeen'
  BY <1>5, <1>6, <1>7, <1>11, <1>12, <1>14 DEF FailureSeen
\* The failure is not before the current command, what took effect not after it.
<1>16. CommandsStop'
  <2> SUFFICES ASSUME input.ordered, ~IsLegacy,
                      NEW c \in 1 .. Len(commands), NEW d \in 1 .. Len(commands), c < d,
                      NEW i \in refused', i \in commands[c].first .. commands[c].first + commands[c].n - 1,
                      NEW j \in applied', j \in commands[d].first .. commands[d].first + commands[d].n - 1
               PROVE  FALSE
    BY <1>7 DEF CommandsStop
  <2>1. \A e \in 1 .. Len(commands) : commands[e].first \in Nat /\ commands[e].n \in Nat
    <3> DEFINE R == [type: {"insert", "update", "delete"}, first: Nat \ {0}, n: Nat \ {0}, n_merged: Nat]
    <3>1. commands \in Seq(R)
      BY DEF CommandsTile
    <3>2. \A x \in R : x.first \in Nat /\ x.n \in Nat
      OBVIOUS
    <3> HIDE DEF R
    <3>3. \A e \in 1 .. Len(commands) : commands[e] \in R
      BY <3>1
    <3>4. QED
      BY <3>2, <3>3
  <2>12. \A a, b \in Nat : \A x \in a .. a + b - 1 : x \in Int /\ a <= x /\ x < a + b
    OBVIOUS
  <2>13. i < commands[c].first + commands[c].n /\ commands[d].first <= j /\ j \in Int
    BY <2>1, <2>12
  <2>2. \A e, f \in 1 .. Len(commands) : e < f => commands[e].first + commands[e].n <= commands[f].first
    BY DEF CommandsTile
  <2>3. input.ordered = TRUE
    BY DEF Position
  <2>4. i \in Int /\ commands[cur].first <= i
    BY <1>8, <1>13, <2>3
  <2>5. ~ (c < cur)
    <3> SUFFICES ASSUME c < cur PROVE FALSE
      OBVIOUS
    <3>1. commands[c].first + commands[c].n <= commands[cur].first
      BY <1>8, <2>2
    <3>2. commands[c].first \in Nat /\ commands[c].n \in Nat /\ commands[cur].first \in Nat
      BY <1>8, <2>1
    <3> DEFINE a == commands[c].first
               b == commands[c].n
               x == commands[cur].first
    <3>3. a + b <= x /\ x <= i /\ i < a + b /\ a \in Nat /\ b \in Nat /\ x \in Nat /\ i \in Int
      BY <2>4, <2>13, <3>1, <3>2
    <3> HIDE DEF a, b, x
    <3>4. QED
      BY <3>3
  <2>6. commands[cur].first + commands[cur].n <= commands[d].first
    <3>1. cur < d
      BY <1>8, <2>5
    <3>2. QED
      BY <1>8, <2>2, <3>1
  <2>7. j \in Int /\ j <= Frontier + k - 1
    <3>1. j \in 1 .. Frontier - 1 \/ j \in Frontier .. Frontier + k - 1
      BY <1>3, <1>4, <1>10
    <3>2. QED
      BY <1>2, <3>1
  <2>8. Frontier + k <= commands[cur].first + commands[cur].n
    BY <1>1, <1>8
  <2>9. commands[d].first \in Nat /\ commands[cur].first \in Nat /\ commands[cur].n \in Nat
    BY <1>8, <2>1
  <2> DEFINE a == commands[cur].first
             b == commands[cur].n
             x == commands[d].first
  <2>10. /\ a + b <= x /\ j \in Int /\ j <= Frontier + k - 1 /\ Frontier + k <= a + b /\ x <= j
         /\ a \in Nat /\ b \in Nat /\ x \in Nat /\ Frontier \in Nat
    BY <1>2, <2>6, <2>7, <2>8, <2>9, <2>13
  <2> HIDE DEF a, b, x
  <2>11. QED
    BY <2>10
<1>17. QED
  BY <1>15, <1>16

LEMMA StepCounts ==
  ASSUME CommandsTile, Position, BelowFrontier, FailureSeen, CountsSoFar, cur <= Len(commands),
         UNCHANGED <<ops, commands, input>>,
         NEW k \in Nat, NEW ex, NEW reached, NEW ok, StepDid(k, ex, reached, ok)
  PROVE  CountsSoFar'
<1>1. IsLegacy' = IsLegacy /\ ops' = ops
  BY DEF IsLegacy
<1>2. SUFFICES ASSUME ~IsLegacy, trouble' = FALSE PROVE CountsAre(applied', result')
  <2>1. CountsAre(applied', result') =>
          /\ result'.nInserted = Cardinality({i \in applied' : Type(ops[i]) = "insert"})
          /\ result'.nRemoved = AffectedBy({i \in applied' : Type(ops[i]) = "delete"})
          /\ result'.nUpserted = Cardinality({i \in applied' : ops[i] = "upsert"})
          /\ result'.nMatched + result'.nUpserted = AffectedBy({i \in applied' : Type(ops[i]) = "update"})
    BY DEF CountsAre, OfType, Upserts
  <2>2. \A set : AffectedBy(set) = Cardinality({doc \in set \X (1 .. 2) : doc[2] <= Affected(ops'[doc[1]])})
    BY <1>1 DEF AffectedBy
  <2>3. Of("delete")' = {i \in applied' : Type(ops[i]) = "delete"} /\ Of("update")' = {i \in applied' : Type(ops[i]) = "update"}
    BY <1>1 DEF Of
  <2>4. AffectedBy(Of("delete"))' = AffectedBy(Of("delete")') /\ AffectedBy(Of("update"))' = AffectedBy(Of("update")')
    BY <1>1 DEF AffectedBy
  <2>5. Of("insert")' = {i \in applied' : Type(ops[i]) = "insert"}
    BY <1>1 DEF Of
  <2>6. {i \in applied : ops[i] = "upsert"}' = {i \in applied' : ops[i] = "upsert"}
    BY <1>1
  <2>7. QED
    BY <1>1, <2>1, <2>3, <2>4, <2>5, <2>6 DEF CountsSoFar
<1>3. /\ Frontier + k <= Cmd.first + Cmd.n
      /\ MessageDid(k, ex, reached) /\ ResultTells(result', ex, ok)
      /\ ok = TRUE
  BY <1>2 DEF StepDid
<1>4. /\ ExecutedWell(Frontier .. Frontier + k - 1, ex)
      /\ applied' = applied \cup ex.done /\ trouble = FALSE
  BY <1>2, <1>3 DEF MessageDid
<1>5. ResultOK(result') /\ Counted(result', ex)
  BY <1>2, <1>3 DEF ResultTells
<1>6. CountsAre(applied, result)
  BY <1>2, <1>4 DEF CountsSoFar, CountsAre, Of, OfType, Upserts
<1>7. ResultOK(result) /\ applied \subseteq 1 .. Frontier - 1
  BY DEF FailureSeen, BelowFrontier
<1>8. QED
  BY <1>3, <1>4, <1>5, <1>6, <1>7, CountsGrow

\* One message keeps the invariant.
LEMMA StepKeeps ==
  ASSUME BulkInv, execute_step
  PROVE  BulkInv'
<1>1. /\ phase = "run" /\ cur <= Len(commands)
      /\ UNCHANGED <<ops, commands, input, phase, returned>>
      /\ \E k \in Nat : \E ex : \E reached, ok \in BOOLEAN : StepDid(k, ex, reached, ok)
  BY StepIs
<1>2. PICK k \in Nat : \E ex : \E reached, ok \in BOOLEAN : StepDid(k, ex, reached, ok)
  BY <1>1
<1>3. PICK ex : \E reached, ok \in BOOLEAN : StepDid(k, ex, reached, ok)
  BY <1>2
<1>4. PICK reached, ok \in BOOLEAN : StepDid(k, ex, reached, ok)
  BY <1>3
<1>5. /\ CommandsTile /\ Position /\ Phases /\ BelowFrontier /\ SentSoFar /\ FailureSeen
      /\ CommandsStop /\ CountsSoFar
  BY DEF BulkInv
<1>6. BelowFrontier' /\ SentSoFar' /\ trouble' \in BOOLEAN
  BY <1>1, <1>4, <1>5, StepSends
<1>7. FailureSeen' /\ CommandsStop'
  BY <1>1, <1>4, <1>5, StepFailures
<1>8. CountsSoFar'
  BY <1>1, <1>4, <1>5, StepCounts
<1>9. Position'
  <2>1. MovesOn(k)
    BY <1>4 DEF StepDid
  <2>2. QED
    BY <1>1, <1>5, <1>6, <2>1, StepPosition
<1>10. Phases'
  BY <1>1, <1>5 DEF Phases
<1>11. CommandsTile'
  BY <1>1, <1>5 DEF CommandsTile, Span
<1>12. QED
  BY <1>6, <1>7, <1>8, <1>9, <1>10, <1>11 DEF BulkInv

(* Adding operations.                                                       *)

CommandRecord == [type: {"insert", "update", "delete"}, first: Nat \ {0}, n: Nat \ {0}, n_merged: Nat]

LEMMA TypeIs == \A op \in KnownKinds : Type(op) \in {"insert", "update", "delete"}
BY DEF KnownKinds, Type

LEMMA CommandsAre ==
  ASSUME CommandsTile
  PROVE  /\ commands \in Seq(CommandRecord) /\ Len(commands) \in Nat /\ Len(ops) \in Nat
         /\ \A c \in 1 .. Len(commands) :
              /\ commands[c] \in CommandRecord
              /\ commands[c].first \in Nat \ {0} /\ commands[c].n \in Nat \ {0}
              /\ commands[c].n_merged \in Nat /\ commands[c].type \in {"insert", "update", "delete"}
              /\ commands[c] = [type |-> commands[c].type, first |-> commands[c].first,
                                n |-> commands[c].n, n_merged |-> commands[c].n_merged]
              /\ commands[c].first + commands[c].n <= Len(ops) + 1
<1>1. commands \in Seq(CommandRecord) /\ Len(ops) \in Nat
  BY DEF CommandsTile, CommandRecord
<1>2. \A x \in CommandRecord :
        /\ x.first \in Nat \ {0} /\ x.n \in Nat \ {0}
        /\ x.n_merged \in Nat /\ x.type \in {"insert", "update", "delete"}
        /\ x = [type |-> x.type, first |-> x.first, n |-> x.n, n_merged |-> x.n_merged]
  BY DEF CommandRecord
<1>3. \A c \in 1 .. Len(commands) : commands[c] \in CommandRecord
  BY <1>1
<1>4. \A c \in 1 .. Len(commands) : commands[c].first + commands[c].n <= Len(ops) + 1
  BY DEF CommandsTile
<1>5. QED
  BY <1>1, <1>2, <1>3, <1>4

\* A command for the operation.
LEMMA AppendTiles ==
  ASSUME CommandsTile, NEW op \in KnownKinds, ops' = Append(ops, op),
         commands' = Append(commands, Command(Type(op)))
  PROVE  CommandsTile'
<1> DEFINE n == Len(commands)
           m == Len(ops)
           new == Command(Type(op))
<1>1. /\ commands \in Seq(CommandRecord) /\ n \in Nat /\ m \in Nat
      /\ \A c \in 1 .. n : /\ commands[c].first \in Nat \ {0} /\ commands[c].n \in Nat \ {0}
                           /\ commands[c].first + commands[c].n <= m + 1
  BY CommandsAre
<1>2. /\ new.type = Type(op) /\ new.first = m + 1 /\ new.n = 1 /\ new \in CommandRecord
  <2>1. new = [type |-> Type(op), first |-> m + 1, n |-> 1, n_merged |-> 0]
    BY DEF Command
  <2>2. m + 1 \in Nat \ {0} /\ Type(op) \in {"insert", "update", "delete"}
    BY <1>1, TypeIs
  <2> HIDE DEF new, m
  <2>3. QED
    BY <2>1, <2>2 DEF CommandRecord
<1> HIDE DEF new
<1>3. /\ ops' \in Seq(KnownKinds) /\ Len(ops') = m + 1 /\ ops'[m + 1] = op
      /\ \A i \in 1 .. m : ops'[i] = ops[i]
  <2>1. ops \in Seq(KnownKinds)
    BY DEF CommandsTile
  <2>2. QED
    BY <2>1
<1>4. /\ commands' \in Seq(CommandRecord) /\ Len(commands') = n + 1 /\ commands'[n + 1] = new
      /\ \A c \in 1 .. n : commands'[c] = commands[c]
  <2>1. commands' = Append(commands, new)
    BY DEF new
  <2> HIDE DEF CommandRecord
  <2>2. QED
    BY <1>1, <1>2, <2>1
<1>5. commands' # <<>>
  BY <1>1, <1>4
<1>6. commands'[1].first = 1
  <2>1. CASE n = 0
    <3>1. commands = <<>> /\ ops = <<>>
      BY <1>1, <2>1 DEF CommandsTile
    <3>2. m = 0
      BY <3>1
    <3>3. QED
      BY <1>2, <1>4, <2>1, <3>2
  <2>2. CASE n # 0
    <3>1. 1 \in 1 .. n /\ commands # <<>>
      BY <1>1, <2>2
    <3>2. QED
      BY <1>4, <3>1 DEF CommandsTile
  <2>3. QED
    BY <2>1, <2>2
<1>7. commands'[Len(commands')].first + commands'[Len(commands')].n = Len(ops') + 1
  <2>1. commands'[Len(commands')].first = m + 1 /\ commands'[Len(commands')].n = 1
    BY <1>2, <1>4
  <2>2. QED
    BY <1>1, <1>3, <2>1
<1>8. \A c \in 1 .. Len(commands') - 1 : commands'[c + 1].first = commands'[c].first + commands'[c].n
  <2> TAKE c \in 1 .. Len(commands') - 1
  <2>1. c \in 1 .. n
    BY <1>1, <1>4
  <2>2. CASE c = n
    <3>1. commands # <<>> /\ commands[n].first + commands[n].n = m + 1
      BY <1>1, <2>1, <2>2 DEF CommandsTile
    <3>2. commands'[c + 1].first = m + 1 /\ commands'[c] = commands[n]
      BY <1>2, <1>4, <2>1, <2>2
    <3>3. QED
      BY <3>1, <3>2
  <2>3. CASE c # n
    <3>1. c \in 1 .. n - 1 /\ c + 1 \in 1 .. n
      BY <1>1, <2>1, <2>3
    <3>2. commands[c + 1].first = commands[c].first + commands[c].n
      BY <3>1 DEF CommandsTile
    <3>3. commands'[c + 1] = commands[c + 1] /\ commands'[c] = commands[c]
      BY <1>4, <2>1, <3>1
    <3>4. QED
      BY <3>2, <3>3
  <2>4. QED
    BY <2>2, <2>3
<1>9. \A c, d \in 1 .. Len(commands') : c < d => commands'[c].first + commands'[c].n <= commands'[d].first
  <2> SUFFICES ASSUME NEW c \in 1 .. n + 1, NEW d \in 1 .. n + 1, c < d
               PROVE  commands'[c].first + commands'[c].n <= commands'[d].first
    BY <1>4
  <2>1. c \in 1 .. n /\ commands'[c] = commands[c]
    BY <1>1, <1>4
  <2>2. CASE d = n + 1
    <3>1. commands'[d].first = m + 1
      BY <1>2, <1>4, <2>2
    <3>2. commands[c].first + commands[c].n <= m + 1
      BY <1>1, <2>1
    <3>3. QED
      BY <2>1, <3>1, <3>2
  <2>3. CASE d # n + 1
    <3>1. d \in 1 .. n /\ commands'[d] = commands[d]
      <4>1. n \in Nat
        BY <1>1
      <4> HIDE DEF n
      <4>2. d \in 1 .. n
        BY <2>3, <4>1
      <4>3. QED
        BY <1>4, <4>2
    <3>2. commands[c].first + commands[c].n <= commands[d].first
      BY <2>1, <3>1 DEF CommandsTile
    <3>3. QED
      BY <2>1, <3>1, <3>2
  <2>4. QED
    BY <2>2, <2>3
<1>10. \A c \in 1 .. Len(commands') :
         /\ commands'[c].first + commands'[c].n <= Len(ops') + 1
         /\ \A i \in commands'[c].first .. commands'[c].first + commands'[c].n - 1 :
              i \in 1 .. Len(ops') /\ Type(ops'[i]) = commands'[c].type
         /\ commands'[c].type # "insert" => commands'[c].n = 1
  <2> TAKE c \in 1 .. Len(commands')
  <2>1. CASE c = n + 1
    <3>1. commands'[c] = new
      BY <1>4, <2>1
    <3>2. new.first + new.n <= Len(ops') + 1 /\ new.first .. new.first + new.n - 1 = {m + 1}
      BY <1>1, <1>2, <1>3
    <3>3. m + 1 \in 1 .. Len(ops') /\ Type(ops'[m + 1]) = new.type
      BY <1>1, <1>2, <1>3
    <3>4. QED
      BY <1>2, <3>1, <3>2, <3>3
  <2>2. CASE c # n + 1
    <3>1. c \in 1 .. n /\ commands'[c] = commands[c]
      BY <1>1, <1>4, <2>2
    <3>2. /\ commands[c].first + commands[c].n <= m + 1
          /\ \A i \in commands[c].first .. commands[c].first + commands[c].n - 1 :
               i \in 1 .. m /\ Type(ops[i]) = commands[c].type
          /\ commands[c].type # "insert" => commands[c].n = 1
      BY <3>1 DEF CommandsTile, Span
    <3>3. commands[c].first + commands[c].n <= Len(ops') + 1
      <4>1. commands[c].first + commands[c].n \in Nat
        BY <1>1, <3>1
      <4>2. QED
        BY <1>1, <1>3, <3>2, <4>1
    <3>4. \A i \in 1 .. m : i \in 1 .. Len(ops') /\ ops'[i] = ops[i]
      BY <1>1, <1>3
    <3>5. QED
      BY <3>1, <3>2, <3>3, <3>4
  <2>3. QED
    BY <2>1, <2>2
<1>11. QED
  BY <1>3, <1>4, <1>5, <1>6, <1>7, <1>8, <1>9, <1>10 DEF CommandsTile, Span, CommandRecord

\* Another insert in the last command.
LEMMA MergedTiles ==
  ASSUME CommandsTile, NEW op \in KnownKinds, Type(op) = "insert", Len(commands) > 0,
         commands[Len(commands)].type = "insert", ops' = Append(ops, op),
         commands' = [commands EXCEPT ![Len(commands)] = insert_append(@)]
  PROVE  CommandsTile'
<1> DEFINE n == Len(commands)
           m == Len(ops)
           new == insert_append(commands[n])
<1>1. /\ commands \in Seq(CommandRecord) /\ n \in Nat /\ m \in Nat
      /\ \A c \in 1 .. n : /\ commands[c].first \in Nat \ {0} /\ commands[c].n \in Nat \ {0}
                           /\ commands[c].first + commands[c].n <= m + 1
  BY CommandsAre
<1>2. n \in 1 .. n /\ n > 0
  BY <1>1
<1>3. commands[n].first + commands[n].n = m + 1
  BY <1>1, <1>2 DEF CommandsTile
<1>4. /\ new.type = "insert" /\ new.first = commands[n].first /\ new.n = commands[n].n + 1
      /\ new \in CommandRecord
  <2> DEFINE last == commands[n]
  <2>1. /\ last.first \in Nat \ {0} /\ last.n \in Nat \ {0} /\ last.n_merged \in Nat /\ last.type = "insert"
        /\ last = [type |-> last.type, first |-> last.first, n |-> last.n, n_merged |-> last.n_merged]
    BY <1>2, CommandsAre
  <2>2. new = [last EXCEPT !.n = @ + 1, !.n_merged = @ + 1]
    BY DEF insert_append
  <2> HIDE DEF last, new
  <2>3. new = [type |-> "insert", first |-> last.first, n |-> last.n + 1, n_merged |-> last.n_merged + 1]
    BY <2>1, <2>2
  <2>4. last.n + 1 \in Nat \ {0} /\ last.n_merged + 1 \in Nat
    BY <2>1
  <2>5. new.type = "insert" /\ new.first = last.first /\ new.n = last.n + 1 /\ new \in CommandRecord
    BY <2>1, <2>3, <2>4 DEF CommandRecord
  <2>6. QED
    BY <2>5 DEF last
<1> HIDE DEF new
<1>5. /\ ops' \in Seq(KnownKinds) /\ Len(ops') = m + 1 /\ ops'[m + 1] = op
      /\ \A i \in 1 .. m : ops'[i] = ops[i]
  <2>1. ops \in Seq(KnownKinds)
    BY DEF CommandsTile
  <2>2. QED
    BY <2>1
<1>6. /\ commands' \in Seq(CommandRecord) /\ Len(commands') = n /\ commands'[n] = new
      /\ \A c \in 1 .. n : c # n => commands'[c] = commands[c]
  <2>1. commands' = [commands EXCEPT ![n] = new]
    BY DEF new
  <2> HIDE DEF CommandRecord
  <2>2. QED
    BY <1>1, <1>2, <1>4, <2>1
<1>7. commands' # <<>> /\ commands # <<>>
  <2>1. Len(commands') > 0 /\ Len(commands) > 0 /\ Len(<<>>) = 0
    BY <1>2, <1>6
  <2>2. QED
    BY <2>1
<1>8. \A c \in 1 .. n : /\ commands'[c].first = commands[c].first /\ commands'[c].type = commands[c].type
                        /\ c # n => commands'[c].n = commands[c].n
  <2> TAKE c \in 1 .. n
  <2>1. CASE c = n
    BY <1>4, <1>6, <2>1
  <2>2. CASE c # n
    BY <1>6, <2>2
  <2>3. QED
    BY <2>1, <2>2
<1>9. commands'[n].n = commands[n].n + 1
  BY <1>4, <1>6
<1>10. commands'[1].first = 1
  <2>1. 1 \in 1 .. n
    BY <1>1, <1>2
  <2>2. QED
    BY <1>7, <1>8, <2>1 DEF CommandsTile
<1>11. commands'[Len(commands')].first + commands'[Len(commands')].n = Len(ops') + 1
  <2>1. commands'[n].first + commands'[n].n = commands[n].first + (commands[n].n + 1)
    BY <1>2, <1>8, <1>9
  <2>2. commands[n].first \in Nat /\ commands[n].n \in Nat
    BY <1>1, <1>2
  <2>3. \A a, b, c \in Nat : a + b = c => a + (b + 1) = c + 1
    OBVIOUS
  <2>5. m + 1 \in Nat
    BY <1>1
  <2>6. commands[n].first + (commands[n].n + 1) = m + 1 + 1
    BY <1>3, <2>2, <2>3, <2>5
  <2>7. Len(commands') = n /\ Len(ops') + 1 = m + 1 + 1
    BY <1>5, <1>6
  <2>8. QED
    BY <2>1, <2>6, <2>7
<1>12. \A c \in 1 .. Len(commands') - 1 : commands'[c + 1].first = commands'[c].first + commands'[c].n
  <2> TAKE c \in 1 .. Len(commands') - 1
  <2>1. c \in 1 .. n - 1 /\ c \in 1 .. n /\ c + 1 \in 1 .. n /\ c # n
    <3>1. n \in Nat /\ Len(commands') = n
      BY <1>1, <1>6
    <3> HIDE DEF n
    <3>2. QED
      BY <3>1
  <2>2. commands[c + 1].first = commands[c].first + commands[c].n
    BY <2>1 DEF CommandsTile
  <2>3. commands'[c + 1].first = commands[c + 1].first /\ commands'[c] = commands[c]
    BY <1>6, <1>8, <2>1
  <2>4. QED
    BY <2>2, <2>3
<1>13. \A c, d \in 1 .. Len(commands') : c < d => commands'[c].first + commands'[c].n <= commands'[d].first
  <2> SUFFICES ASSUME NEW c \in 1 .. n, NEW d \in 1 .. n, c < d
               PROVE  commands'[c].first + commands'[c].n <= commands'[d].first
    BY <1>6
  <2>1. c # n
    BY <1>1
  <2>2. commands[c].first + commands[c].n <= commands[d].first
    BY DEF CommandsTile
  <2>3. commands'[c] = commands[c] /\ commands'[d].first = commands[d].first
    BY <1>6, <1>8, <2>1
  <2>4. QED
    BY <2>2, <2>3
<1>14. \A c \in 1 .. Len(commands') :
         /\ commands'[c].first + commands'[c].n <= Len(ops') + 1
         /\ \A i \in commands'[c].first .. commands'[c].first + commands'[c].n - 1 :
              i \in 1 .. Len(ops') /\ Type(ops'[i]) = commands'[c].type
         /\ commands'[c].type # "insert" => commands'[c].n = 1
  <2> TAKE c \in 1 .. Len(commands')
  <2>1. c \in 1 .. n
    BY <1>6
  <2>2. /\ commands[c].first + commands[c].n <= m + 1
        /\ \A i \in commands[c].first .. commands[c].first + commands[c].n - 1 :
             i \in 1 .. m /\ Type(ops[i]) = commands[c].type
        /\ commands[c].type # "insert" => commands[c].n = 1
    BY <2>1 DEF CommandsTile, Span
  <2>3. \A i \in 1 .. m : i \in 1 .. Len(ops') /\ ops'[i] = ops[i]
    BY <1>1, <1>5
  <2>4. CASE c = n
    <3>1. commands'[c].first + commands'[c].n = Len(ops') + 1 /\ Len(ops') \in Nat
      <4>1. Len(commands') = c
        BY <1>6, <2>4
      <4>2. Len(ops') \in Nat
        BY <1>1, <1>5
      <4>3. QED
        BY <1>11, <4>1, <4>2
    <3>2. commands'[c].first = commands[c].first /\ commands'[c].n = commands[c].n + 1
      BY <1>8, <1>9, <2>1, <2>4
    <3>3. commands'[c].type = "insert" /\ commands[c].type = "insert"
      BY <1>8, <2>1, <2>4
    <3>4. m + 1 \in 1 .. Len(ops') /\ Type(ops'[m + 1]) = "insert"
      BY <1>1, <1>5
    <3>5. commands[c].first \in Nat /\ commands[c].n \in Nat
      BY <1>1, <2>1
    <3>6. \A i \in commands[c].first .. commands[c].first + commands[c].n :
            i \in commands[c].first .. commands[c].first + commands[c].n - 1 \/ i = m + 1
      <4> DEFINE a == commands[c].first
                 b == commands[c].n
      <4>1. a \in Nat /\ b \in Nat /\ a + b = m + 1
        BY <1>3, <2>4, <3>5
      <4> HIDE DEF a, b
      <4>2. \A i \in a .. a + b : i \in a .. a + b - 1 \/ i = m + 1
        BY <4>1
      <4>3. QED
        BY <4>2 DEF a, b
    <3>7. commands'[c].first + commands'[c].n - 1 = commands[c].first + commands[c].n
      BY <3>2, <3>5
    <3>8. \A i \in commands'[c].first .. commands'[c].first + commands'[c].n - 1 :
            i \in 1 .. Len(ops') /\ Type(ops'[i]) = commands'[c].type
      BY <2>2, <2>3, <3>2, <3>3, <3>4, <3>6, <3>7
    <3>9. commands'[c].first + commands'[c].n <= Len(ops') + 1
      BY <3>1
    <3>10. QED
      BY <3>3, <3>8, <3>9
  <2>5. CASE c # n
    <3>1. commands'[c] = commands[c]
      BY <1>6, <2>1, <2>5
    <3>2. commands[c].first + commands[c].n <= Len(ops') + 1
      <4>1. commands[c].first + commands[c].n \in Nat
        BY <1>1, <2>1
      <4>2. QED
        BY <1>1, <1>5, <2>2, <4>1
    <3>3. QED
      BY <2>2, <2>3, <3>1, <3>2
  <2>6. QED
    BY <2>4, <2>5
<1>15. QED
  BY <1>5, <1>6, <1>7, <1>10, <1>11, <1>12, <1>13, <1>14 DEF CommandsTile, Span, CommandRecord

(* The steps.                                                               *)

\* Nothing was executed yet.
NothingSent ==
  /\ CommandsTile
  /\ input.ordered \in BOOLEAN /\ input.ack \in BOOLEAN /\ input.client \in BOOLEAN
  /\ cur = 1 /\ pos = 0 /\ sent = <<>> /\ applied = {} /\ refused = {}
  /\ result = NoResult /\ trouble = FALSE

LEMMA FreshHolds == NothingSent /\ Phases => BulkInv
<1> SUFFICES ASSUME NothingSent, Phases PROVE BulkInv
  OBVIOUS
<1>1. /\ Len(commands) \in Nat /\ \A c \in 1 .. Len(commands) : commands[c].first \in Nat
      /\ commands # <<>> => commands[1].first = 1
      /\ commands = <<>> => ops = <<>>
  BY CommandsAre DEF NothingSent, CommandsTile
<1>2. Frontier = 1
  <2>1. CASE 1 <= Len(commands)
    <3>1. commands # <<>> /\ commands[1].first = 1
      BY <1>1, <2>1
    <3>2. QED
      BY <2>1, <3>1 DEF NothingSent, Frontier
  <2>2. CASE ~ (1 <= Len(commands))
    <3>1. Len(commands) = 0
      BY <1>1, <2>2
    <3>2. commands = <<>>
      BY <3>1 DEF NothingSent, CommandsTile
    <3>3. Len(ops) = 0
      BY <1>1, <3>2
    <3>4. QED
      BY <2>2, <3>3 DEF NothingSent, Frontier
  <2>3. QED
    BY <2>1, <2>2
<1>3. 1 .. Frontier - 1 = {} /\ Len(sent) = 0 /\ sent = [k \in 1 .. 0 |-> k] /\ Frontier - 1 = 0
  BY <1>2 DEF NothingSent
<1>4. result.failed = FALSE /\ ResultOK(result) /\ result.nInserted = 0 /\ result.nRemoved = 0
      /\ result.nUpserted = 0 /\ result.nMatched = 0
  <2>1. IsSequence(<<>>)
    BY DEF IsSequence
  <2>2. QED
    BY <2>1 DEF NothingSent, NoResult, ResultOK, ResultFields
<1>5. Position
  <2>1. cur \in 1 .. Len(commands) + 1
    BY <1>1 DEF NothingSent
  <2>2. pos \in Nat /\ ~ (pos > 0) /\ trouble \in BOOLEAN
    <3>1. pos = 0
      BY DEF NothingSent
    <3>2. pos \in Nat /\ ~ (pos > 0)
      BY <3>1
    <3>3. trouble = FALSE
      BY DEF NothingSent
    <3>4. trouble \in BOOLEAN
      BY <3>3
    <3>5. QED
      BY <3>2, <3>4
  <2>3. QED
    BY <2>1, <2>2 DEF NothingSent, Position
<1>6. BelowFrontier
  BY DEF NothingSent, BelowFrontier
<1>7. SentSoFar
  BY <1>3, <1>4 DEF NothingSent, SentSoFar
<1>8. FailureSeen
  BY <1>3, <1>4 DEF NothingSent, FailureSeen
<1>9. CommandsStop
  BY DEF NothingSent, CommandsStop
<1>10. CountsSoFar
  <2>1. Of("insert") = {} /\ Of("delete") = {} /\ Of("update") = {} /\ {i \in applied : ops[i] = "upsert"} = {}
    BY DEF NothingSent, Of
  <2>2. Cardinality({}) = 0
    BY FS_EmptySet
  <2>3. AffectedBy({}) = 0
    BY AffectedNone
  <2>4. QED
    BY <1>4, <2>1, <2>2, <2>3 DEF CountsSoFar
<1>11. QED
  BY <1>5, <1>6, <1>7, <1>8, <1>9, <1>10 DEF NothingSent, BulkInv

LEMMA FreshNext == NothingSent' /\ Phases' => BulkInv'
<1>1. (NothingSent /\ Phases => BulkInv)'
  BY FreshHolds, PTL
<1>2. QED
  BY <1>1

LEMMA BulkInitHolds == BulkInit => BulkInv
<1> SUFFICES ASSUME BulkInit PROVE BulkInv
  OBVIOUS
<1>1. CommandsTile
  BY DEF BulkInit, CommandsTile
<1>2. input.ordered \in BOOLEAN /\ input.ack \in BOOLEAN /\ input.client \in BOOLEAN
  BY BulkAssumption DEF BulkInit
<1>3. NothingSent
  BY <1>1, <1>2 DEF BulkInit, NothingSent
<1>4. Phases
  BY DEF BulkInit, Phases
<1>5. QED
  BY <1>3, <1>4, FreshHolds

\* In the first phase nothing was executed yet.
LEMMA BuildIsFresh ==
  ASSUME BulkInv, phase = "build"
  PROVE  NothingSent
BY DEF BulkInv, Position, Phases, NothingSent

LEMMA AddedKeeps ==
  ASSUME BulkInv, phase = "build", CommandsTile',
         UNCHANGED <<input, phase, cur, pos, sent, applied, refused, result, trouble, returned>>
  PROVE  BulkInv'
<1>1. NothingSent'
  BY BuildIsFresh DEF NothingSent
<1>2. Phases'
  BY DEF BulkInv, Phases
<1>3. QED
  BY <1>1, <1>2, FreshNext

\* A step that changes nothing but the phase.
LEMMA SameKeeps ==
  ASSUME BulkInv, Phases',
         UNCHANGED <<ops, commands, input, cur, pos, sent, applied, refused, result, trouble>>
  PROVE  BulkInv'
<1>1. Frontier' = Frontier /\ IsLegacy' = IsLegacy /\ AtOnce' = AtOnce /\ Cmd' = Cmd
  BY DEF Frontier, IsLegacy, AtOnce, Cmd
<1>2. CommandsTile'
  BY DEF BulkInv, CommandsTile, Span
<1>3. Position'
  BY <1>1 DEF BulkInv, Position
<1>4. BelowFrontier' /\ SentSoFar'
  BY <1>1 DEF BulkInv, BelowFrontier, SentSoFar
<1>5. FailureSeen'
  BY <1>1 DEF BulkInv, FailureSeen
<1>6. CommandsStop'
  BY <1>1 DEF BulkInv, CommandsStop
<1>7. CountsSoFar'
  <2>1. /\ Of("insert")' = Of("insert")
        /\ AffectedBy(Of("delete"))' = AffectedBy(Of("delete"))
        /\ AffectedBy(Of("update"))' = AffectedBy(Of("update"))
    BY DEF Of, AffectedBy
  <2>2. QED
    BY <1>1, <2>1 DEF BulkInv, CountsSoFar
<1>8. QED
  BY <1>2, <1>3, <1>4, <1>5, <1>6, <1>7 DEF BulkInv

LEMMA BulkNextHolds == BulkInv /\ [BulkNext]_bulkVars => BulkInv'
<1> SUFFICES ASSUME BulkInv, [BulkNext]_bulkVars PROVE BulkInv'
  OBVIOUS
<1>1. ASSUME NEW op \in Kinds, bulk_insert(op) PROVE BulkInv'
  <2>1. op \in KnownKinds /\ Type(op) = "insert" /\ CommandsTile
    BY <1>1, BulkAssumption DEF KnownKinds, bulk_insert, BulkInv
  <2>2. /\ phase = "build" /\ ops' = Append(ops, op)
        /\ commands' = IF Len(commands) > 0 /\ commands[Len(commands)].type = "insert"
                       THEN [commands EXCEPT ![Len(commands)] = insert_append(@)]
                       ELSE Append(commands, Command("insert"))
        /\ UNCHANGED <<input, phase, cur, pos, sent, applied, refused, result, trouble, returned>>
    BY <1>1 DEF bulk_insert, Added
  <2>3. CASE Len(commands) > 0 /\ commands[Len(commands)].type = "insert"
    <3>1. commands' = [commands EXCEPT ![Len(commands)] = insert_append(@)]
      BY <2>2, <2>3
    <3>2. CommandsTile'
      BY <2>1, <2>2, <2>3, <3>1, MergedTiles
    <3>3. QED
      BY <2>2, <3>2, AddedKeeps
  <2>4. CASE ~ (Len(commands) > 0 /\ commands[Len(commands)].type = "insert")
    <3>1. commands' = Append(commands, Command(Type(op)))
      BY <2>1, <2>2, <2>4
    <3>2. CommandsTile'
      BY <2>1, <2>2, <3>1, AppendTiles
    <3>3. QED
      BY <2>2, <3>2, AddedKeeps
  <2>5. QED
    BY <2>3, <2>4
<1>2. ASSUME NEW op \in Kinds, bulk_update(op) \/ bulk_remove(op) PROVE BulkInv'
  <2>1. op \in KnownKinds /\ CommandsTile
    BY BulkAssumption DEF KnownKinds, BulkInv
  <2>2. /\ phase = "build" /\ ops' = Append(ops, op)
        /\ commands' = Append(commands, Command(Type(op)))
        /\ UNCHANGED <<input, phase, cur, pos, sent, applied, refused, result, trouble, returned>>
    BY <1>2 DEF bulk_update, bulk_remove, Added
  <2>3. CommandsTile'
    BY <2>1, <2>2, AppendTiles
  <2>4. QED
    BY <2>2, <2>3, AddedKeeps
<1>3. CASE execute
  <2>1. /\ phase = "build"
        /\ UNCHANGED <<ops, commands, input, cur, pos, sent, applied, refused, result, trouble>>
    BY <1>3 DEF execute
  <2>2. NothingSent'
    BY <2>1, BuildIsFresh DEF NothingSent, CommandsTile, Span
  <2>3. Phases'
    <3>1. CASE ~input.client
      <4>1. phase' = "done" /\ returned' = [success |-> FALSE, error |-> TRUE, reply |-> FALSE]
        BY <1>3, <3>1 DEF execute
      <4>2. returned'.success = FALSE /\ returned'.error = TRUE
        BY <4>1
      <4>3. input.client = FALSE
        BY <3>1 DEF BulkInv, Position
      <4>4. QED
        BY <2>1, <4>1, <4>2, <4>3 DEF Phases
    <3>2. CASE input.client /\ commands = <<>>
      <4>1. phase' = "done" /\ returned' = [success |-> FALSE, error |-> TRUE, reply |-> TRUE]
        BY <1>3, <3>2 DEF execute
      <4>2. returned'.success = FALSE /\ returned'.error = TRUE
        BY <4>1
      <4>3. QED
        BY <2>1, <3>2, <4>1, <4>2 DEF Phases
    <3>3. CASE input.client /\ commands # <<>>
      <4>1. phase' = "run"
        BY <1>3, <3>3 DEF execute
      <4>2. QED
        BY <2>1, <3>3, <4>1 DEF Phases
    <3>4. QED
      BY <3>1, <3>2, <3>3
  <2>4. QED
    BY <2>2, <2>3, FreshNext
<1>4. CASE execute_step
  BY <1>4, StepKeeps
<1>5. CASE execute_end
  <2>1. /\ phase = "run" /\ cur > Len(commands) /\ phase' = "done" /\ returned' = result_complete(result)
        /\ UNCHANGED <<ops, commands, input, cur, pos, sent, applied, refused, result, trouble>>
    BY <1>5 DEF execute_end
  <2>2. cur = Len(commands) + 1
    <3>1. cur \in 1 .. Len(commands) + 1 /\ Len(commands) \in Nat
      BY DEF BulkInv, Position, CommandsTile
    <3>2. QED
      BY <2>1, <3>1
  <2>3. Phases'
    BY <2>1, <2>2 DEF Phases, result_complete
  <2>4. QED
    BY <2>1, <2>3, SameKeeps
<1>6. CASE UNCHANGED bulkVars
  <2>1. UNCHANGED <<ops, commands, input, cur, pos, sent, applied, refused, result, trouble>>
    BY <1>6 DEF bulkVars
  <2>2. Phases'
    BY <1>6 DEF bulkVars, BulkInv, Phases, result_complete
  <2>3. QED
    BY <2>1, <2>2, SameKeeps
<1>7. QED
  BY <1>1, <1>2, <1>3, <1>4, <1>5, <1>6 DEF BulkNext

\* The invariant gives what is promised: at the end everything was sent.
LEMMA SentFollows ==
  ASSUME BulkInv
  PROVE  SentOnceInOrder
<1>1. /\ CommandsTile /\ Position /\ Phases /\ BelowFrontier /\ SentSoFar /\ CommandsStop
  BY DEF BulkInv
<1>2. SentInOrder
  BY <1>1 DEF Position, SentSoFar, SentInOrder
<1>3. AllTried
  <2> SUFFICES ASSUME Done
               PROVE  /\ input.ordered = FALSE \/ result.failed = FALSE => Len(sent) = Len(ops)
                      /\ trouble = FALSE /\ (input.ordered = FALSE \/ refused = {}) =>
                           applied \cup refused = 1 .. Len(ops)
    <3>1. result.failed \in BOOLEAN
      BY DEF BulkInv, FailureSeen, ResultOK
    <3>2. QED
      BY <1>1, <3>1 DEF AllTried, Position
  <2>1. cur = Len(commands) + 1
    <3>1. input.client # FALSE /\ commands # <<>>
      BY <1>1 DEF Done, CommandsTile
    <3>2. QED
      BY <1>1, <3>1 DEF Done, Phases
  <2>2. Frontier = Len(ops) + 1 /\ Len(ops) \in Nat
    <3>1. Len(commands) \in Nat /\ Len(ops) \in Nat
      BY <1>1 DEF CommandsTile
    <3>2. QED
      BY <2>1, <3>1 DEF Frontier
  <2>3. Frontier - 1 = Len(ops)
    BY <2>2
  <2>4. trouble = FALSE /\ (input.ordered = FALSE \/ refused = {}) =>
          applied \cup refused = 1 .. Frontier - 1
    BY <1>1 DEF SentSoFar
  <2>5. input.ordered = FALSE \/ result.failed = FALSE => Len(sent) = Frontier - 1
    BY <1>1 DEF SentSoFar
  <2>6. QED
    BY <2>3, <2>4, <2>5
<1>4. QED
  BY <1>1, <1>2, <1>3 DEF SentOnceInOrder

LEMMA OutcomeFollows ==
  ASSUME BulkInv
  PROVE  OutcomeHonest
<1>1. /\ CommandsTile /\ Position /\ Phases /\ FailureSeen /\ CountsSoFar
  BY DEF BulkInv
<1>2. /\ result.failed \in BOOLEAN /\ result.error \in BOOLEAN
      /\ result.failed = TRUE => result.error = TRUE \/ result.writeErrors # <<>>
  BY <1>1 DEF FailureSeen, ResultOK
<1>3. Done => cur = Len(commands) + 1 /\ returned = result_complete(result)
  <2>1. Done => input.client # FALSE /\ commands # <<>>
    BY <1>1 DEF Done, CommandsTile
  <2>2. QED
    BY <1>1, <2>1 DEF Done, Phases
<1>4. /\ result_complete(result).success = (~result.failed /\ result.writeErrors = <<>>)
      /\ result_complete(result).error =
           (result.error \/ (~(~result.failed /\ result.writeErrors = <<>>) /\ result.writeErrors # <<>>))
  BY DEF result_complete
<1>5. SuccessMeansAll
  <2> SUFFICES ASSUME Done, ~IsLegacy, returned.success PROVE applied = 1 .. Len(ops)
    BY DEF SuccessMeansAll
  <2>1. result.failed = FALSE
    BY <1>2, <1>3, <1>4
  <2>2. applied = 1 .. Frontier - 1
    BY <1>1, <2>1 DEF FailureSeen
  <2>3. Frontier = Len(ops) + 1 /\ Len(ops) \in Nat
    <3>1. Len(commands) \in Nat /\ Len(ops) \in Nat
      BY <1>1 DEF CommandsTile
    <3>2. QED
      BY <1>3, <3>1 DEF Frontier
  <2>4. Frontier - 1 = Len(ops)
    BY <2>3
  <2>5. QED
    BY <2>2, <2>4
<1>6. FailureHasError
  <2> SUFFICES ASSUME phase = "done", ~returned.success PROVE returned.error
    BY DEF FailureHasError
  <2>1. CASE returned.error = TRUE
    BY <2>1
  <2>2. CASE returned = result_complete(result)
    BY <1>2, <1>4, <2>2
  <2>3. QED
    BY <1>1, <2>1, <2>2 DEF Phases
<1>7. CountsExact
  BY <1>1 DEF CountsExact, CountsSoFar, Position
<1>8. QED
  BY <1>5, <1>6, <1>7 DEF OutcomeHonest

\* BulkWrite: whatever is added, wherever messages are full, also for documents
\* that fit in none, and whichever messages are lost, the client tries to send
\* the operations once and in the order in which they were added, all of them
\* when it returns unless it failed in order, and no command is executed after
\* one that failed (mongoc_bulk_operation_execute).
THEOREM SentOnceInOrderAlways == BulkSpec => []SentOnceInOrder
<1>1. BulkSpec => []BulkInv
  BY BulkInitHolds, BulkNextHolds, PTL DEF BulkSpec
<1>2. QED
  BY <1>1, SentFollows, PTL

\* BulkWrite: success is reported only if every operation took effect, a failure
\* comes with an error, and the counts are those of the server
\* (_mongoc_write_result_merge, _mongoc_write_result_complete).
THEOREM OutcomeHonestAlways == BulkSpec => []OutcomeHonest
<1>1. BulkSpec => []BulkInv
  BY BulkInitHolds, BulkNextHolds, PTL DEF BulkSpec
<1>2. QED
  BY <1>1, OutcomeFollows, PTL
=============================================================================
