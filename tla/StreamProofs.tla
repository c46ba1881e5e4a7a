---------------------------- MODULE StreamProofs ----------------------------
(* What holds of bytes on their way through buffers, for every length, every  *)
(* number of pieces and every way they are delivered: the reads of a stream,  *)
(* the iovec of a socket that is sent, the buffer of a BSON writer and the    *)
(* source of a BSON reader.                                                   *)
EXTENDS StreamRead, SocketSend, BsonReader, BsonWriter, SumProofs,
        FiniteSetTheorems, SequenceTheorems, TLAPS

(* StreamRead.                                                               *)

\* A buffer: its memory, and its contents within it.
Memory == UNION {[0 .. n - 1 -> ByteNumbers] : n \in Nat}
BufferType == [data : Memory, datalen : Nat \ {0}, off : Nat, len : Nat]
BufferOK(bf) ==
  /\ bf \in BufferType
  /\ bf.data \in [0 .. bf.datalen - 1 -> ByteNumbers]
  /\ bf.off + bf.len <= bf.datalen

\* Byte i of the contents, from 1.
At(bf, i) == bf.data[bf.off + i - 1]

\* Two buffers with the same contents.
SameContents(bf, cf) ==
  /\ bf.len = cf.len
  /\ \A i \in 1 .. cf.len : At(bf, i) = At(cf, i)

\* The contents are these bytes.
Holds(bf, s) ==
  /\ s \in Seq(ByteNumbers) /\ Len(s) = bf.len
  /\ \A i \in 1 .. bf.len : At(bf, i) = s[i]

\* What the caller has, and what waits in the buffer behind it, is the first
\* n bytes of the peer.
FirstBytes(bf, n) ==
  /\ Len(read) + bf.len = n
  /\ \A i \in 1 .. Len(read) : read[i] = i
  /\ \A i \in 1 .. bf.len : At(bf, i) = Len(read) + i

NetType == [delivered : 0 .. Total, closed : BOOLEAN, reset : BOOLEAN, taken : 0 .. Total,
            open : BOOLEAN]
NetOK(nt) == nt \in NetType /\ nt.taken <= nt.delivered

PendingType ==
  [op : {"idle", "append", "readv", "aborted"}, size : Nat, min : Nat, got : Seq(ByteNumbers),
   timeout : {"forever", "finite"}, past : BOOLEAN, ret : Int]

\* These are the last bytes taken.
LastTaken(got, taken) ==
  /\ Len(got) <= taken
  /\ \A i \in 1 .. Len(got) : got[i] = taken - Len(got) + i

\* A call under way: its buffer starts at the front and has room for what is
\* missing, and what recv() has given so far are the last bytes taken.
FillUnderWay ==
  /\ pending.size \in Sizes /\ buf.off = 0
  /\ pending.min = pending.size - buf.len /\ 0 < pending.min
  /\ pending.min <= buf.datalen - buf.len
  /\ Len(pending.got) < pending.min
  /\ kind = "file" => pending.got = <<>>
  /\ LastTaken(pending.got, net.taken)

StreamInv ==
  /\ kind \in StreamKinds
  /\ NetOK(net)
  /\ BufferOK(buf) /\ BufferOK(rpc) /\ failed \in BOOLEAN
  /\ pending \in PendingType /\ read \in Seq(ByteNumbers)
  /\ Holds(rpc, reply) /\ Len(reply) <= Len(read)
  /\ Len(read) + buf.len + Len(pending.got) <= net.taken
  /\ pending.op \in {"append", "readv"} => FillUnderWay
  /\ pending.op # "aborted" /\ ~failed => FirstBytes(buf, net.taken - Len(pending.got))
  /\ pending.op = "idle" => pending.got = <<>>
  /\ AssertionHolds

\* The buffers grow to a power that is large enough.
LEMMA NextPower ==
  ASSUME NEW v \in Nat, NEW r \in Powers, v <= r
  PROVE  next_power_of_two(v) \in Nat \ {0} /\ v <= next_power_of_two(v)
<1> DEFINE S == {p \in Powers : v <= p}
<1>1. S \subseteq Nat /\ S # {} /\ Powers \subseteq Nat \ {0}
  BY PowersAssumption
<1>2. PICK x \in S : \A y \in S : x <= y
  BY <1>1, WellOrdered
<1>3. \E p \in Powers : v <= p /\ \A q \in Powers : v <= q => p <= q
  BY <1>2
<1>4. next_power_of_two(v) \in Powers /\ v <= next_power_of_two(v)
  BY <1>3, Zenon DEF next_power_of_two
<1>5. QED
  BY <1>1, <1>4

LEMMA MemoryOf ==
  ASSUME NEW n \in Nat, NEW d \in [0 .. n - 1 -> ByteNumbers]
  PROVE  d \in Memory
  BY DEF Memory

LEMMA BufferFields ==
  ASSUME NEW bf, BufferOK(bf)
  PROVE  /\ bf.datalen \in Nat \ {0} /\ bf.off \in Nat /\ bf.len \in Nat
         /\ bf.data \in [0 .. bf.datalen - 1 -> ByteNumbers]
         /\ bf.off + bf.len <= bf.datalen
<1>1. bf \in BufferType
  BY DEF BufferOK
<1>2. bf.datalen \in Nat \ {0} /\ bf.off \in Nat /\ bf.len \in Nat
  BY <1>1 DEF BufferType
<1>3. QED
  BY <1>2 DEF BufferOK

\* A new buffer is empty.
LEMMA InitBuffer ==
  ASSUME NEW size \in Nat \ {0}
  PROVE  BufferOK(buffer_init(size)) /\ Holds(buffer_init(size), <<>>)
<1> DEFINE zeros == [i \in 0 .. size - 1 |-> 0]
<1>1. zeros \in [0 .. size - 1 -> ByteNumbers]
  BY StreamAssumption DEF ByteNumbers
<1>2. buffer_init(size) = [data |-> zeros, datalen |-> size, off |-> 0, len |-> 0]
  BY DEF buffer_init
<1>3. zeros \in Memory
  BY <1>1, MemoryOf
<1> HIDE DEF zeros
<1>4. BufferOK(buffer_init(size))
  BY <1>1, <1>2, <1>3 DEF BufferOK, BufferType
<1>5. QED
  BY <1>2, <1>4 DEF Holds

\* The memory gets other bytes, and the contents another offset; or it gets
\* another size.
Rewritten(bf, e, o) == [bf EXCEPT !.data = e, !.off = o]
Reallocated(bf, n, e) == [bf EXCEPT !.datalen = n, !.data = e]

LEMMA RewrittenBuffer ==
  ASSUME NEW bf, BufferOK(bf), NEW o \in Nat, o + bf.len <= bf.datalen,
         NEW e \in [0 .. bf.datalen - 1 -> ByteNumbers]
  PROVE  /\ BufferOK(Rewritten(bf, e, o))
         /\ Rewritten(bf, e, o).data = e /\ Rewritten(bf, e, o).off = o
         /\ Rewritten(bf, e, o).len = bf.len /\ Rewritten(bf, e, o).datalen = bf.datalen
<1>1. e \in Memory
  BY BufferFields, MemoryOf
<1>2. bf \in BufferType
  BY DEF BufferOK
<1> DEFINE c == Rewritten(bf, e, o)
<1>3. c \in BufferType /\ c.data = e /\ c.off = o /\ c.len = bf.len /\ c.datalen = bf.datalen
  BY <1>1, <1>2 DEF BufferType, Rewritten
<1> HIDE DEF c
<1>4. BufferOK(c)
  BY <1>3 DEF BufferOK
<1>5. QED
  BY <1>3, <1>4 DEF c

LEMMA ReallocatedBuffer ==
  ASSUME NEW bf, BufferOK(bf), NEW n \in Nat \ {0}, bf.off + bf.len <= n,
         NEW e \in [0 .. n - 1 -> ByteNumbers]
  PROVE  /\ BufferOK(Reallocated(bf, n, e))
         /\ Reallocated(bf, n, e).data = e /\ Reallocated(bf, n, e).off = bf.off
         /\ Reallocated(bf, n, e).len = bf.len /\ Reallocated(bf, n, e).datalen = n
<1>1. e \in Memory
  BY MemoryOf
<1>2. bf \in BufferType
  BY DEF BufferOK
<1> DEFINE c == Reallocated(bf, n, e)
<1>3. c \in BufferType /\ c.data = e /\ c.off = bf.off /\ c.len = bf.len /\ c.datalen = n
  BY <1>1, <1>2 DEF BufferType, Reallocated
<1> HIDE DEF c
<1>4. BufferOK(c)
  BY <1>3 DEF BufferOK
<1>5. QED
  BY <1>3, <1>4 DEF c

\* memmove keeps the contents.
LEMMA CompactedKeeps ==
  ASSUME NEW bf, BufferOK(bf)
  PROVE  /\ BufferOK(Compacted(bf)) /\ SameContents(Compacted(bf), bf)
         /\ Compacted(bf).off = 0 /\ Compacted(bf).len = bf.len
         /\ Compacted(bf).datalen = bf.datalen
<1> DEFINE moved == [i \in DOMAIN bf.data |-> IF i < bf.len THEN bf.data[bf.off + i] ELSE bf.data[i]]
           c == Rewritten(bf, moved, 0)
<1>0. /\ bf.datalen \in Nat \ {0} /\ bf.off \in Nat /\ bf.len \in Nat
      /\ bf.data \in [0 .. bf.datalen - 1 -> ByteNumbers]
      /\ bf.off + bf.len <= bf.datalen
  BY BufferFields
<1>1. Compacted(bf) = c
  BY DEF Compacted, Rewritten
<1>2. moved \in [0 .. bf.datalen - 1 -> ByteNumbers]
  <2>1. DOMAIN bf.data = 0 .. bf.datalen - 1
    BY <1>0
  <2>2. \A i \in 0 .. bf.datalen - 1 : i < bf.len => bf.off + i \in 0 .. bf.datalen - 1
    BY <1>0
  <2>3. \A i \in 0 .. bf.datalen - 1 : moved[i] \in ByteNumbers
    BY <1>0, <2>1, <2>2
  <2>4. QED
    BY <2>1, <2>3
<1>3. \A i \in 1 .. bf.len : moved[0 + i - 1] = bf.data[bf.off + i - 1]
  BY <1>0
<1> HIDE DEF moved
<1>4. 0 \in Nat /\ 0 + bf.len <= bf.datalen
  BY <1>0
<1>5. BufferOK(c) /\ c.data = moved /\ c.off = 0 /\ c.len = bf.len /\ c.datalen = bf.datalen
  BY <1>2, <1>4, RewrittenBuffer
<1> HIDE DEF c
<1>6. SameContents(c, bf)
  BY <1>3, <1>5, Zenon DEF SameContents, At
<1>7. QED
  BY <1>1, <1>5, <1>6

\* So does realloc.
LEMMA ResizedKeeps ==
  ASSUME NEW bf, BufferOK(bf), NEW size \in Nat \ {0}, bf.off + bf.len <= size
  PROVE  /\ BufferOK(Resized(bf, size)) /\ SameContents(Resized(bf, size), bf)
         /\ Resized(bf, size).off = bf.off /\ Resized(bf, size).len = bf.len
         /\ Resized(bf, size).datalen = size
<1> DEFINE grown == [i \in 0 .. size - 1 |-> IF i < bf.datalen THEN bf.data[i] ELSE 0]
           c == Reallocated(bf, size, grown)
<1>0. /\ bf.datalen \in Nat \ {0} /\ bf.off \in Nat /\ bf.len \in Nat
      /\ bf.data \in [0 .. bf.datalen - 1 -> ByteNumbers]
      /\ bf.off + bf.len <= bf.datalen
  BY BufferFields
<1>1. Resized(bf, size) = c
  BY DEF Resized, Reallocated
<1>2. grown \in [0 .. size - 1 -> ByteNumbers]
  <2>1. 0 \in ByteNumbers
    BY StreamAssumption DEF ByteNumbers
  <2>2. QED
    BY <1>0, <2>1
<1>3. \A i \in 1 .. bf.len : grown[bf.off + i - 1] = bf.data[bf.off + i - 1]
  BY <1>0
<1> HIDE DEF grown
<1>5. BufferOK(c) /\ c.data = grown /\ c.off = bf.off /\ c.len = bf.len /\ c.datalen = size
  BY <1>2, ReallocatedBuffer
<1> HIDE DEF c
<1>6. SameContents(c, bf)
  BY <1>3, <1>5, Zenon DEF SameContents, At
<1>7. QED
  BY <1>1, <1>5, <1>6

LEMMA SameTwice ==
  ASSUME NEW bf, NEW cf, NEW df, SameContents(bf, cf), SameContents(cf, df)
  PROVE  SameContents(bf, df)
  BY DEF SameContents

\* mongoc_buffer_append_from_stream and _mongoc_buffer_fill make room and keep
\* the contents.
LEMMA AppendRoom ==
  ASSUME NEW bf, BufferOK(bf), NEW size \in Nat, NEW r \in Powers, size + bf.len <= r
  PROVE  /\ BufferOK(append_room(bf, size)) /\ SameContents(append_room(bf, size), bf)
         /\ SPACE_FOR(append_room(bf, size), size)
<1> DEFINE c == Compacted(bf)
           p == next_power_of_two(size + c.len + c.off)
<1>1. /\ BufferOK(c) /\ SameContents(c, bf)
      /\ c.off = 0 /\ c.len = bf.len /\ c.datalen = bf.datalen /\ c.len \in Nat
  BY CompactedKeeps, BufferFields
<1>2. append_room(bf, size) = IF SPACE_FOR(bf, size) THEN bf
                              ELSE IF SPACE_FOR(c, size) THEN c ELSE Resized(c, p)
  BY DEF append_room
<1> HIDE DEF c
<1>3. size + c.len + c.off = size + bf.len /\ size + bf.len \in Nat
  BY <1>1
<1>4. p \in Nat \ {0} /\ size + c.len + c.off <= p
  BY <1>3, NextPower
<1> HIDE DEF p
<1>5. CASE SPACE_FOR(bf, size)
  BY <1>2, <1>5 DEF SameContents
<1>6. CASE ~ SPACE_FOR(bf, size) /\ SPACE_FOR(c, size)
  BY <1>1, <1>2, <1>6
<1>7. CASE ~ SPACE_FOR(bf, size) /\ ~ SPACE_FOR(c, size)
  <2>1. c.off + c.len <= p
    BY <1>1, <1>4
  <2>2. /\ BufferOK(Resized(c, p)) /\ SameContents(Resized(c, p), c)
        /\ Resized(c, p).off = c.off /\ Resized(c, p).len = c.len
        /\ Resized(c, p).datalen = p
    BY <1>1, <1>4, <2>1, ResizedKeeps
  <2>3. SPACE_FOR(Resized(c, p), size)
    BY <1>1, <1>4, <2>2 DEF SPACE_FOR
  <2>4. QED
    BY <1>1, <1>2, <1>7, <2>2, <2>3, SameTwice
<1>8. QED
  BY <1>5, <1>6, <1>7

LEMMA FillRoom ==
  ASSUME NEW bf, BufferOK(bf), NEW min \in Nat, NEW r \in Powers, min + bf.len <= r
  PROVE  /\ BufferOK(fill_room(bf, min)) /\ SameContents(fill_room(bf, min), bf)
         /\ fill_room(bf, min).off = 0 /\ fill_room(bf, min).len = bf.len
         /\ min <= fill_room(bf, min).datalen - bf.len
<1> DEFINE c == Compacted(bf)
           p == next_power_of_two(c.len + min)
<1>1. /\ BufferOK(c) /\ SameContents(c, bf)
      /\ c.off = 0 /\ c.len = bf.len /\ c.datalen = bf.datalen /\ c.len \in Nat /\ c.datalen \in Nat
  BY CompactedKeeps, BufferFields
<1>2. fill_room(bf, min) = IF SPACE_FOR(c, min) THEN c ELSE Resized(c, p)
  BY DEF fill_room
<1> HIDE DEF c
<1>3. c.len + min = min + bf.len /\ min + bf.len \in Nat
  BY <1>1
<1>4. p \in Nat \ {0} /\ c.len + min <= p
  BY <1>3, NextPower
<1> HIDE DEF p
<1>6. CASE SPACE_FOR(c, min)
  BY <1>1, <1>2, <1>6 DEF SPACE_FOR
<1>7. CASE ~ SPACE_FOR(c, min)
  <2>1. c.off + c.len <= p
    BY <1>1, <1>4
  <2>2. /\ BufferOK(Resized(c, p)) /\ SameContents(Resized(c, p), c)
        /\ Resized(c, p).off = c.off /\ Resized(c, p).len = c.len
        /\ Resized(c, p).datalen = p
    BY <1>1, <1>4, <2>1, ResizedKeeps
  <2>3. min <= p - bf.len
    BY <1>1, <1>4
  <2>4. QED
    BY <1>1, <1>2, <1>7, <2>2, <2>3, SameTwice
<1>8. QED
  BY <1>6, <1>7

\* Bytes written behind the contents, which become part of them.
LEMMA AppendedBuffer ==
  ASSUME NEW bf, BufferOK(bf), NEW s \in Seq(ByteNumbers), SPACE_FOR(bf, Len(s))
  PROVE  /\ BufferOK(Appended(bf, s)) /\ SameContents(Appended(bf, s), bf)
         /\ Appended(bf, s).off = bf.off /\ Appended(bf, s).len = bf.len
         /\ Appended(bf, s).datalen = bf.datalen
         /\ \A i \in 1 .. Len(s) : Appended(bf, s).data[bf.off + bf.len + i - 1] = s[i]
<1> DEFINE e == [i \in DOMAIN bf.data |-> IF i - bf.off - bf.len \in 0 .. Len(s) - 1
                                         THEN s[i - bf.off - bf.len + 1] ELSE bf.data[i]]
           c == Appended(bf, s)
<1>0. /\ bf.datalen \in Nat \ {0} /\ bf.off \in Nat /\ bf.len \in Nat
      /\ bf.data \in [0 .. bf.datalen - 1 -> ByteNumbers]
      /\ bf.off + bf.len <= bf.datalen
  BY BufferFields
<1>1. Len(s) \in Nat /\ \A i \in 1 .. Len(s) : s[i] \in ByteNumbers
  OBVIOUS
<1>2. bf.off + bf.len + Len(s) <= bf.datalen
  BY <1>0, <1>1 DEF SPACE_FOR
<1>3. DOMAIN bf.data = 0 .. bf.datalen - 1
  BY <1>0
<1>4. e \in [0 .. bf.datalen - 1 -> ByteNumbers]
  <2>1. \A i \in 0 .. bf.datalen - 1 : e[i] \in ByteNumbers
    <3> SUFFICES ASSUME NEW i \in 0 .. bf.datalen - 1 PROVE e[i] \in ByteNumbers
      OBVIOUS
    <3>1. CASE i - bf.off - bf.len \in 0 .. Len(s) - 1
      <4>1. i - bf.off - bf.len + 1 \in 1 .. Len(s)
        BY <1>0, <1>1, <3>1
      <4>2. QED
        BY <1>1, <1>3, <3>1, <4>1
    <3>2. CASE i - bf.off - bf.len \notin 0 .. Len(s) - 1
      BY <1>0, <1>3, <3>2
    <3>3. QED
      BY <3>1, <3>2
  <2>2. QED
    BY <1>3, <2>1
<1>5. \A i \in 1 .. bf.len : e[bf.off + i - 1] = bf.data[bf.off + i - 1]
  <2> SUFFICES ASSUME NEW i \in 1 .. bf.len PROVE e[bf.off + i - 1] = bf.data[bf.off + i - 1]
    OBVIOUS
  <2> DEFINE j == bf.off + i - 1
  <2>1. j \in 0 .. bf.datalen - 1 /\ j - bf.off - bf.len \notin 0 .. Len(s) - 1
    BY <1>0, <1>1, <1>2, SMTT(30)
  <2> HIDE DEF j
  <2>2. e[j] = bf.data[j]
    BY <1>3, <2>1
  <2>3. QED
    BY <2>2 DEF j
<1>6. \A i \in 1 .. Len(s) : e[bf.off + bf.len + i - 1] = s[i]
  <2> SUFFICES ASSUME NEW i \in 1 .. Len(s) PROVE e[bf.off + bf.len + i - 1] = s[i]
    OBVIOUS
  <2> DEFINE j == bf.off + bf.len + i - 1
  <2>1. j \in 0 .. bf.datalen - 1 /\ j - bf.off - bf.len \in 0 .. Len(s) - 1
        /\ j - bf.off - bf.len + 1 = i
    BY <1>0, <1>1, <1>2, SMTT(30)
  <2> HIDE DEF j
  <2>2. e[j] = s[i]
    BY <1>3, <2>1
  <2>3. QED
    BY <2>2 DEF j
<1>7. c = [bf EXCEPT !.data = e]
  BY DEF Appended
<1> HIDE DEF e
<1>8. e \in Memory /\ bf \in BufferType
  BY <1>0, <1>4, MemoryOf DEF BufferOK
<1>9. c \in BufferType /\ c.data = e /\ c.off = bf.off /\ c.len = bf.len /\ c.datalen = bf.datalen
  BY <1>7, <1>8 DEF BufferType
<1> HIDE DEF c
<1>10. BufferOK(c)
  BY <1>0, <1>4, <1>9 DEF BufferOK
<1>11. SameContents(c, bf)
  <2>1. \A i \in 1 .. bf.len : At(c, i) = At(bf, i)
    BY <1>5, <1>9 DEF At
  <2>2. QED
    BY <1>9, <2>1 DEF SameContents
<1>12. QED
  BY <1>6, <1>9, <1>10, <1>11 DEF c

LEMMA LongerBuffer ==
  ASSUME NEW bf, BufferOK(bf), NEW n \in Nat, bf.off + bf.len + n <= bf.datalen
  PROVE  /\ BufferOK(Longer(bf, n)) /\ Longer(bf, n).len = bf.len + n
         /\ Longer(bf, n).data = bf.data /\ Longer(bf, n).off = bf.off
         /\ Longer(bf, n).datalen = bf.datalen
<1> DEFINE c == Longer(bf, n)
<1>1. bf \in BufferType /\ bf.len \in Nat /\ bf.off \in Nat /\ bf.datalen \in Nat
  BY BufferFields DEF BufferOK
<1>2. c \in BufferType /\ c.data = bf.data /\ c.off = bf.off /\ c.len = bf.len + n
      /\ c.datalen = bf.datalen
  BY <1>1 DEF BufferType, Longer
<1> HIDE DEF c
<1>3. BufferOK(c)
  BY <1>1, <1>2, BufferFields DEF BufferOK
<1>4. QED
  BY <1>2, <1>3 DEF c

\* The bytes of s behind the contents of bf.
Behind(cf, bf, s) ==
  /\ cf.len = bf.len + Len(s)
  /\ \A i \in 1 .. bf.len : At(cf, i) = At(bf, i)
  /\ \A i \in 1 .. Len(s) : At(cf, bf.len + i) = s[i]

LEMMA AppendedLonger ==
  ASSUME NEW bf, BufferOK(bf), NEW s \in Seq(ByteNumbers), SPACE_FOR(bf, Len(s))
  PROVE  LET cf == Longer(Appended(bf, s), Len(s))
         IN  BufferOK(cf) /\ Behind(cf, bf, s) /\ cf.off = bf.off /\ cf.datalen = bf.datalen
<1> DEFINE af == Appended(bf, s)
           cf == Longer(af, Len(s))
<1>0. bf.off \in Nat /\ bf.len \in Nat /\ bf.datalen \in Nat /\ Len(s) \in Nat
  BY BufferFields
<1>1. /\ BufferOK(af) /\ SameContents(af, bf)
      /\ af.off = bf.off /\ af.len = bf.len /\ af.datalen = bf.datalen
      /\ \A i \in 1 .. Len(s) : af.data[bf.off + bf.len + i - 1] = s[i]
  BY AppendedBuffer
<1> HIDE DEF af
<1>2. af.off + af.len + Len(s) <= af.datalen
  BY <1>0, <1>1 DEF SPACE_FOR
<1>3. /\ BufferOK(cf) /\ cf.len = af.len + Len(s) /\ cf.data = af.data
      /\ cf.off = af.off /\ cf.datalen = af.datalen
  BY <1>0, <1>1, <1>2, LongerBuffer
<1> HIDE DEF cf
<1>4. \A i \in 1 .. bf.len : At(cf, i) = At(bf, i)
  BY <1>1, <1>3, Zenon DEF SameContents, At
<1>5. \A i \in 1 .. Len(s) : At(cf, bf.len + i) = s[i]
  <2> SUFFICES ASSUME NEW i \in 1 .. Len(s) PROVE At(cf, bf.len + i) = s[i]
    OBVIOUS
  <2>1. cf.off + (bf.len + i) - 1 = bf.off + bf.len + i - 1
    BY <1>0, <1>1, <1>3
  <2>2. QED
    BY <1>1, <1>3, <2>1 DEF At
<1>6. QED
  BY <1>1, <1>3, <1>4, <1>5 DEF Behind, af, cf

LEMMA TakenBuffer ==
  ASSUME NEW bf, BufferOK(bf), NEW n \in Nat, n <= bf.len
  PROVE  /\ BufferOK(Taken(bf, n)) /\ Taken(bf, n).len = bf.len - n
         /\ \A i \in 1 .. Taken(bf, n).len : At(Taken(bf, n), i) = At(bf, n + i)
<1> DEFINE c == Taken(bf, n)
<1>1. bf \in BufferType /\ bf.len \in Nat /\ bf.off \in Nat /\ bf.datalen \in Nat
  BY BufferFields DEF BufferOK
<1>2. c \in BufferType /\ c.data = bf.data /\ c.off = bf.off + n /\ c.len = bf.len - n
      /\ c.datalen = bf.datalen
  <2>1. bf.off + n \in Nat /\ bf.len - n \in Nat
    BY <1>1
  <2>2. QED
    BY <1>1, <2>1 DEF BufferType, Taken
<1> HIDE DEF c
<1>3. BufferOK(c)
  BY <1>1, <1>2, BufferFields DEF BufferOK
<1>4. \A i \in 1 .. c.len : At(c, i) = At(bf, n + i)
  <2> SUFFICES ASSUME NEW i \in 1 .. c.len PROVE At(c, i) = At(bf, n + i)
    OBVIOUS
  <2>1. c.off + i - 1 = bf.off + (n + i) - 1
    BY <1>1, <1>2
  <2>2. QED
    BY <1>2, <2>1 DEF At
<1>5. QED
  BY <1>2, <1>3, <1>4 DEF c

LEMMA ClearedBuffer ==
  ASSUME NEW bf, BufferOK(bf)
  PROVE  BufferOK(buffer_clear(bf)) /\ Holds(buffer_clear(bf), <<>>)
<1> DEFINE c == buffer_clear(bf)
<1>1. bf \in BufferType /\ bf.datalen \in Nat
  BY BufferFields DEF BufferOK
<1>2. c \in BufferType /\ c.data = bf.data /\ c.off = 0 /\ c.len = 0 /\ c.datalen = bf.datalen
  BY <1>1 DEF BufferType, buffer_clear
<1> HIDE DEF c
<1>3. BufferOK(c)
  BY <1>1, <1>2, BufferFields DEF BufferOK
<1>4. QED
  BY <1>2, <1>3 DEF Holds, c

\* One sequence behind another.
LEMMA Joined ==
  ASSUME NEW S, NEW s \in Seq(S), NEW t \in Seq(S)
  PROVE  /\ s \o t \in Seq(S) /\ Len(s \o t) = Len(s) + Len(t)
         /\ \A i \in 1 .. Len(s) : (s \o t)[i] = s[i]
         /\ \A i \in 1 .. Len(t) : (s \o t)[Len(s) + i] = t[i]
<1>1. Len(s) \in Nat /\ Len(t) \in Nat
  OBVIOUS
<1>2. \A i \in 1 .. Len(s) + Len(t) : (s \o t)[i] = IF i <= Len(s) THEN s[i] ELSE t[i - Len(s)]
  BY ConcatProperties
<1>3. \A i \in 1 .. Len(t) : (s \o t)[Len(s) + i] = t[i]
  <2> SUFFICES ASSUME NEW i \in 1 .. Len(t) PROVE (s \o t)[Len(s) + i] = t[i]
    OBVIOUS
  <2>1. Len(s) + i \in 1 .. Len(s) + Len(t) /\ ~ (Len(s) + i <= Len(s)) /\ Len(s) + i - Len(s) = i
    BY <1>1
  <2>2. QED
    BY <1>2, <2>1
<1>4. \A i \in 1 .. Len(s) : (s \o t)[i] = s[i]
  BY <1>1, <1>2
<1>5. QED
  BY <1>3, <1>4, ConcatProperties

LEMMA NothingPending ==
  ASSUME NEW r \in Int
  PROVE  NoRead(r) \in PendingType /\ NoRead(r).op = "idle" /\ NoRead(r).got = <<>>
  BY DEF NoRead, PendingType

\* Bytes of the contents, as a sequence.
LEMMA ContentBytes ==
  ASSUME NEW bf, BufferOK(bf), NEW i \in 1 .. bf.len
  PROVE  At(bf, i) \in ByteNumbers
<1>1. bf.off + i - 1 \in 0 .. bf.datalen - 1
  BY BufferFields
<1>2. QED
  BY <1>1, BufferFields DEF At

\* Before the first call nothing was read.
LEMMA StreamInitial == StreamInit => StreamInv
<1> SUFFICES ASSUME StreamInit PROVE StreamInv
  OBVIOUS
<1>1. BufferSize \in Nat \ {0} /\ RpcSize \in Nat \ {0} /\ Total \in Nat
  BY StreamAssumption
<1>2. /\ kind \in StreamKinds /\ NetOK(net) /\ net.taken = 0
      /\ buf = buffer_init(BufferSize) /\ rpc = buffer_init(RpcSize)
      /\ pending = NoRead(0) /\ read = <<>> /\ reply = <<>> /\ failed = FALSE
  <2>1. kind \in StreamKinds /\ net \in NetType /\ net.taken = 0
    <3>1. CASE kind = "file"
      <4>1. net \in [delivered : 0 .. Total, closed : {TRUE}, reset : {FALSE},
                     taken : {0}, open : {TRUE}]
        BY <3>1 DEF StreamInit
      <4>2. {0} \subseteq 0 .. Total /\ {TRUE} \subseteq BOOLEAN /\ {FALSE} \subseteq BOOLEAN
        BY <1>1
      <4>3. net.taken \in {0} /\ net \in NetType
        BY <4>1, <4>2 DEF NetType
      <4>4. QED
        BY <4>3 DEF StreamInit
    <3>2. CASE kind # "file"
      <4>1. net = [delivered |-> 0, closed |-> FALSE, reset |-> FALSE, taken |-> 0, open |-> TRUE]
        BY <3>2 DEF StreamInit
      <4>2. QED
        BY <1>1, <4>1 DEF StreamInit, NetType
    <3>3. QED
      BY <3>1, <3>2
  <2>2. net.delivered \in Nat
    BY <1>1, <2>1 DEF NetType
  <2>3. QED
    BY <2>1, <2>2 DEF StreamInit, NetOK
<1>3. BufferOK(buf) /\ Holds(buf, <<>>) /\ BufferOK(rpc) /\ Holds(rpc, <<>>)
  BY <1>1, <1>2, InitBuffer
<1>4. pending \in PendingType /\ pending.op = "idle" /\ pending.got = <<>>
  BY <1>2, NothingPending
<1>5. buf.len = 0 /\ read \in Seq(ByteNumbers) /\ Len(read) = 0 /\ Len(pending.got) = 0
  BY <1>2, <1>3, <1>4 DEF Holds
<1>6. FirstBytes(buf, net.taken - Len(pending.got))
  BY <1>2, <1>5 DEF FirstBytes
<1>7. Len(reply) <= Len(read) /\ Len(read) + buf.len + Len(pending.got) <= net.taken
  BY <1>2, <1>5
<1>8. Holds(rpc, reply) /\ failed \in BOOLEAN
  BY <1>2, <1>3
<1>9. QED
  BY <1>2, <1>3, <1>4, <1>5, <1>6, <1>7, <1>8 DEF StreamInv, AssertionHolds

\* What a call leaves behind when it returns.
LEMMA IdleAgain ==
  ASSUME StreamInv, UNCHANGED kind, NetOK(net'), NEW r \in Int, pending' = NoRead(r),
         BufferOK(buf'), BufferOK(rpc'), failed' \in BOOLEAN,
         read' \in Seq(ByteNumbers), Holds(rpc', reply'), Len(reply') <= Len(read'),
         Len(read') + buf'.len <= net'.taken,
         ~failed' => FirstBytes(buf, net.taken)'
  PROVE  StreamInv'
<1>1. pending' \in PendingType /\ pending'.op = "idle" /\ pending'.got = <<>>
  BY NothingPending
<1>2. Len(pending'.got) = 0
  BY <1>1
<1>3. net'.taken \in Nat /\ Len(read') + buf'.len \in Nat
  BY StreamAssumption, BufferFields DEF NetOK, NetType
<1>4. net'.taken - Len(pending'.got) = net'.taken
  BY <1>2, <1>3
<1>5. Len(read') + buf'.len + Len(pending'.got) <= net'.taken
  BY <1>2, <1>3
<1>6. ~failed' => FirstBytes(buf, net.taken - Len(pending.got))'
  <2>1. SUFFICES ASSUME ~failed' PROVE FirstBytes(buf, net.taken - Len(pending.got))'
    OBVIOUS
  <2>2. QED
    BY <1>4, <2>1 DEF FirstBytes
<1>7. QED
  BY <1>1, <1>5, <1>6 DEF StreamInv, AssertionHolds

\* mongoc_stream_buffered_readv copies what it was asked for, and
\* mongoc_buffer_append_from_stream puts it behind what the caller has.
LEMMA HandedKeeps ==
  ASSUME StreamInv, NEW op, NEW w, BufferOK(w), NEW n \in Sizes, n <= w.len,
         Handed(op, w, n), NetOK(net'),
         Len(read) + w.len <= net'.taken, ~failed => FirstBytes(w, net'.taken)
  PROVE  StreamInv'
<1> DEFINE s == [i \in 1 .. n |-> w.data[w.off + i - 1]]
<1>1. n \in Nat \ {0} /\ Total \in Nat
  BY StreamAssumption
<1>2. /\ buf' = Taken(w, n) /\ read' = read \o s
      /\ rpc' = IF op = "append" THEN Longer(Appended(append_room(rpc, n), s), n) ELSE rpc
      /\ reply' = IF op = "append" THEN reply \o s ELSE reply
      /\ pending' = NoRead(n) /\ UNCHANGED <<kind, failed>>
  BY DEF Handed
<1>3. s \in Seq(ByteNumbers) /\ Len(s) = n /\ \A i \in 1 .. n : s[i] = At(w, i)
  <2>1. \A i \in 1 .. n : w.data[w.off + i - 1] \in ByteNumbers
    <3> SUFFICES ASSUME NEW i \in 1 .. n PROVE At(w, i) \in ByteNumbers
      BY DEF At
    <3>1. i \in 1 .. w.len
      BY <1>1, BufferFields
    <3>2. QED
      BY <3>1, ContentBytes
  <2>2. s \in [1 .. n -> ByteNumbers]
    BY <2>1
  <2>3. QED
    BY <1>1, <2>2 DEF At
<1> HIDE DEF s
<1>4. /\ read \in Seq(ByteNumbers) /\ BufferOK(rpc) /\ Holds(rpc, reply)
      /\ Len(reply) <= Len(read) /\ failed \in BOOLEAN
  BY DEF StreamInv
<1>5. /\ BufferOK(buf') /\ buf'.len = w.len - n
      /\ \A i \in 1 .. buf'.len : At(buf', i) = At(w, n + i)
  BY <1>1, <1>2, TakenBuffer
<1>6. /\ read' \in Seq(ByteNumbers) /\ Len(read') = Len(read) + n
      /\ \A i \in 1 .. Len(read) : read'[i] = read[i]
      /\ \A i \in 1 .. n : read'[Len(read) + i] = At(w, i)
  <2>0. read \in Seq(ByteNumbers) /\ s \in Seq(ByteNumbers)
    BY <1>3, <1>4
  <2>1. /\ read \o s \in Seq(ByteNumbers) /\ Len(read \o s) = Len(read) + Len(s)
        /\ \A i \in 1 .. Len(read) : (read \o s)[i] = read[i]
        /\ \A i \in 1 .. Len(s) : (read \o s)[Len(read) + i] = s[i]
    BY <2>0, Joined
  <2>2. QED
    BY <1>2, <1>3, <2>1
<1>7. w.len \in Nat /\ net'.taken \in Nat /\ net'.taken <= Total
  BY <1>1, BufferFields DEF NetOK, NetType
<1>8. Len(read') + buf'.len = Len(read) + w.len
  BY <1>1, <1>4, <1>5, <1>6, <1>7
<1>9. ~failed' => FirstBytes(buf, net.taken)'
  <2> SUFFICES ASSUME ~failed' PROVE FirstBytes(buf, net.taken)'
    OBVIOUS
  <2>1. FirstBytes(w, net'.taken)
    BY <1>2
  <2>2. Len(read') + buf'.len = net'.taken
    BY <1>8, <2>1 DEF FirstBytes
  <2>3. \A i \in 1 .. Len(read') : read'[i] = i
    <3> SUFFICES ASSUME NEW i \in 1 .. Len(read') PROVE read'[i] = i
      OBVIOUS
    <3>1. CASE i <= Len(read)
      BY <1>4, <1>6, <2>1, <3>1 DEF FirstBytes
    <3>2. CASE i > Len(read)
      <4>1. i - Len(read) \in 1 .. n /\ i = Len(read) + (i - Len(read))
        BY <1>1, <1>4, <1>6, <3>2
      <4>2. i - Len(read) \in 1 .. w.len
        BY <1>1, <1>7, <4>1
      <4>3. read'[Len(read) + (i - Len(read))] = At(w, i - Len(read))
        BY <1>6, <4>1
      <4>4. At(w, i - Len(read)) = Len(read) + (i - Len(read))
        BY <2>1, <4>2 DEF FirstBytes
      <4>5. QED
        BY <4>1, <4>3, <4>4
    <3>3. QED
      BY <1>4, <3>1, <3>2
  <2>4. \A i \in 1 .. buf'.len : At(buf', i) = Len(read') + i
    <3> SUFFICES ASSUME NEW i \in 1 .. buf'.len PROVE At(buf', i) = Len(read') + i
      OBVIOUS
    <3>1. At(buf', i) = At(w, n + i)
      BY <1>5
    <3>2. n + i \in 1 .. w.len
      BY <1>1, <1>5, <1>7
    <3>3. At(w, n + i) = Len(read) + (n + i)
      BY <2>1, <3>2 DEF FirstBytes
    <3>4. QED
      BY <1>1, <1>4, <1>6, <3>1, <3>3
  <2>5. QED
    BY <2>2, <2>3, <2>4 DEF FirstBytes
<1>10. BufferOK(rpc') /\ Holds(rpc', reply') /\ Len(reply') <= Len(read')
  <2>1. reply \in Seq(ByteNumbers) /\ Len(reply) = rpc.len
        /\ \A i \in 1 .. rpc.len : At(rpc, i) = reply[i]
    BY <1>4 DEF Holds
  <2>2. CASE op # "append"
    BY <1>1, <1>2, <1>4, <1>6, <2>1, <2>2
  <2>3. CASE op = "append"
    <3>1. PICK r \in Powers : Total + n <= r
      BY StreamAssumption
    <3>2. n + rpc.len <= r
      BY <1>1, <1>4, <1>7, <2>1, <3>1, StreamAssumption, PowersAssumption, BufferFields
    <3> DEFINE c == append_room(rpc, n)
    <3>3. BufferOK(c) /\ SameContents(c, rpc) /\ SPACE_FOR(c, n)
      BY <1>1, <1>4, <3>2, AppendRoom
    <3> HIDE DEF c
    <3>4. BufferOK(Longer(Appended(c, s), Len(s))) /\ Behind(Longer(Appended(c, s), Len(s)), c, s)
      BY <1>3, <3>3, AppendedLonger
    <3>5. BufferOK(rpc') /\ Behind(rpc', c, s)
      BY <1>2, <1>3, <2>3, <3>4 DEF c
    <3>6. reply' = reply \o s /\ reply' \in Seq(ByteNumbers) /\ Len(reply') = Len(reply) + n
          /\ (\A i \in 1 .. Len(reply) : reply'[i] = reply[i])
          /\ \A i \in 1 .. n : reply'[Len(reply) + i] = s[i]
      <4>0. reply \in Seq(ByteNumbers) /\ s \in Seq(ByteNumbers)
        BY <1>3, <2>1
      <4>1. /\ reply \o s \in Seq(ByteNumbers) /\ Len(reply \o s) = Len(reply) + Len(s)
            /\ \A i \in 1 .. Len(reply) : (reply \o s)[i] = reply[i]
            /\ \A i \in 1 .. Len(s) : (reply \o s)[Len(reply) + i] = s[i]
        BY <4>0, Joined
      <4>2. QED
        BY <1>2, <1>3, <2>3, <4>1
    <3>7. c.len = Len(reply) /\ \A i \in 1 .. Len(reply) : At(c, i) = reply[i]
      BY <2>1, <3>3 DEF SameContents
    <3>8. rpc'.len = Len(reply')
      BY <1>3, <3>5, <3>6, <3>7 DEF Behind
    <3>9. \A i \in 1 .. rpc'.len : At(rpc', i) = reply'[i]
      <4> SUFFICES ASSUME NEW i \in 1 .. rpc'.len PROVE At(rpc', i) = reply'[i]
        OBVIOUS
      <4>1. CASE i <= Len(reply)
        BY <2>1, <3>5, <3>6, <3>7, <3>8, <4>1 DEF Behind
      <4>2. CASE i > Len(reply)
        <5>1. i - Len(reply) \in 1 .. n /\ i = Len(reply) + (i - Len(reply))
          BY <1>1, <2>1, <3>6, <3>8, <4>2
        <5>2. At(rpc', c.len + (i - Len(reply))) = s[i - Len(reply)]
          BY <1>3, <3>5, <5>1 DEF Behind
        <5>3. QED
          BY <3>6, <3>7, <5>1, <5>2
      <4>3. QED
        BY <2>1, <4>1, <4>2
    <3>10. QED
      BY <1>1, <1>4, <1>6, <2>1, <3>5, <3>6, <3>8, <3>9, SMTT(30) DEF Holds
  <2>4. QED
    BY <2>2, <2>3
<1>11. QED
  BY <1>1, <1>2, <1>4, <1>5, <1>6, <1>8, <1>9, <1>10, IdleAgain

\* Another memory with the same contents holds the same bytes.
LEMMA SameHolds ==
  ASSUME NEW bf, NEW cf, NEW s, SameContents(cf, bf), Holds(bf, s)
  PROVE  Holds(cf, s)
  BY DEF SameContents, Holds

\* A call that fails.
LEMMA ReadFailsKeeps ==
  ASSUME StreamInv, NEW op, NEW w, BufferOK(w), NEW n \in Sizes, ReadFails(op, w, n),
         NetOK(net'), Len(read) + w.len <= net'.taken
  PROVE  StreamInv'
<1>1. n \in Nat /\ Total \in Nat
  BY StreamAssumption
<1>2. /\ buf' = w /\ rpc' = IF op = "append" THEN append_room(rpc, n) ELSE rpc
      /\ pending' = NoRead(-1) /\ failed' = TRUE /\ UNCHANGED <<kind, read, reply>>
  BY DEF ReadFails
<1>3. /\ BufferOK(rpc) /\ Holds(rpc, reply) /\ read \in Seq(ByteNumbers) /\ Len(reply) <= Len(read)
  BY DEF StreamInv
<1>4. rpc.len \in Nat /\ rpc.len = Len(reply) /\ w.len \in Nat
  BY <1>3, BufferFields DEF Holds
<1>5. net'.taken \in Nat /\ net'.taken <= Total
  BY <1>1 DEF NetOK, NetType
<1>6. PICK r \in Powers : Total + n <= r
  BY StreamAssumption
<1>7. n + rpc.len <= r
  BY <1>1, <1>3, <1>4, <1>5, <1>6, StreamAssumption, PowersAssumption
<1>8. BufferOK(append_room(rpc, n)) /\ SameContents(append_room(rpc, n), rpc)
  BY <1>1, <1>3, <1>7, AppendRoom
<1>9. BufferOK(rpc') /\ Holds(rpc', reply)
  BY <1>2, <1>3, <1>8, SameHolds
<1>10. QED
  BY <1>2, <1>3, <1>9, IdleAgain

\* The assertion, which only a file reaches.
LEMMA AbortsKeeps ==
  ASSUME StreamInv, Aborts, kind = "file", NetOK(net'), net.taken <= net'.taken
  PROVE  StreamInv'
<1>1. pending' = [NoRead(-1) EXCEPT !.op = "aborted"] /\ UNCHANGED <<kind, buf, rpc, read, reply, failed>>
  BY DEF Aborts
<1>2. pending' \in PendingType /\ pending'.op = "aborted" /\ pending'.got = <<>>
  <2>1. NoRead(-1) \in PendingType
    BY NothingPending
  <2>2. NoRead(-1).got = <<>>
    BY NothingPending
  <2>3. QED
    BY <1>1, <2>1, <2>2 DEF PendingType
<1>3. Len(pending'.got) = 0
  BY <1>2
<1>4. Len(read) \in Nat /\ buf.len \in Nat /\ net.taken \in Nat /\ net'.taken \in Nat
      /\ Len(pending.got) \in Nat
  BY BufferFields, StreamAssumption, SMTT(30) DEF StreamInv, NetOK, NetType, PendingType
<1>5. Len(read) + buf.len + Len(pending'.got) <= net'.taken
  BY <1>3, <1>4 DEF StreamInv
<1>6. QED
  BY <1>1, <1>2, <1>5 DEF StreamInv, AssertionHolds, Holds, At, BufferOK

\* What the base stream gave, whether it is enough or not (_mongoc_buffer_fill).
LEMMA FillKeeps ==
  ASSUME StreamInv, Reading, NEW r \in Int, NEW got \in Seq(ByteNumbers), buffer_fill(r, got),
         NetOK(net'), net.taken <= net'.taken, LastTaken(got, net'.taken),
         net'.taken - Len(got) = net.taken - Len(pending.got),
         Len(got) <= buf.datalen - buf.len, r \in {-1, Len(got)},
         kind = "file" \/ r = -1 \/ pending.min <= r
  PROVE  StreamInv'
<1> DEFINE n == pending.size
           stored == Appended(buf, got)
           w == Longer(stored, r)
<1>1. BufferOK(buf) /\ FillUnderWay /\ NetOK(net) /\ pending \in PendingType
      /\ read \in Seq(ByteNumbers)
      /\ Len(read) + buf.len + Len(pending.got) <= net.taken
      /\ (~failed => FirstBytes(buf, net.taken - Len(pending.got)))
  BY DEF StreamInv, Reading
<1>2. /\ n \in Sizes /\ buf.off = 0 /\ pending.min = n - buf.len /\ 0 < pending.min
  BY <1>1 DEF FillUnderWay
<1>3. /\ n \in Nat /\ Len(got) \in Nat /\ Len(read) \in Nat /\ Len(pending.got) \in Nat
      /\ buf.len \in Nat /\ buf.datalen \in Nat
  <2>1. pending.got \in Seq(ByteNumbers)
    BY <1>1 DEF PendingType
  <2>2. buf.len \in Nat /\ buf.datalen \in Nat
    BY <1>1, BufferFields
  <2>3. n \in Nat
    BY <1>2, StreamAssumption
  <2>4. Len(got) \in Nat /\ Len(read) \in Nat /\ Len(pending.got) \in Nat
    BY <1>1, <2>1
  <2>5. QED
    BY <2>2, <2>3, <2>4
<1>4. net.taken \in Nat /\ net'.taken \in Nat
  BY <1>1, StreamAssumption DEF NetOK, NetType
<1>12. /\ Len(read) + buf.len + Len(pending.got) <= net.taken
            => Len(read) + (buf.len + Len(got)) <= net'.taken
       /\ Len(read) + buf.len = net.taken - Len(pending.got)
            => Len(read) + (buf.len + Len(got)) = net'.taken
  <2> DEFINE rd == Len(read)
             bl == buf.len
             pg == Len(pending.got)
             gl == Len(got)
             t == net.taken
             u == net'.taken
  <2>1. rd \in Nat /\ bl \in Nat /\ pg \in Nat /\ gl \in Nat /\ t \in Nat /\ u \in Nat
        /\ u - gl = t - pg
    BY <1>3, <1>4
  <2> HIDE DEF rd, bl, pg, gl, t, u
  <2>2. (rd + bl + pg <= t => rd + (bl + gl) <= u) /\ (rd + bl = t - pg => rd + (bl + gl) = u)
    BY <2>1
  <2>3. QED
    BY <2>2 DEF rd, bl, pg, gl, t, u
<1>5. SPACE_FOR(buf, Len(got))
  BY <1>2, <1>3 DEF SPACE_FOR
<1>6. BufferOK(stored) /\ SameContents(stored, buf) /\ stored.len = buf.len
  BY <1>1, <1>5, AppendedBuffer
<1>7. buffer_fill(r, got) <=>
        IF r = -1 THEN ReadFails(pending.op, stored, n)
        ELSE IF w.len < pending.min THEN ReadFails(pending.op, w, n)
        ELSE IF w.len < n THEN Aborts
        ELSE Handed(pending.op, w, n)
  BY DEF buffer_fill
<1> HIDE DEF stored
<1>8. CASE r = -1
  <2>1. ReadFails(pending.op, stored, n)
    BY <1>7, <1>8
  <2>2. Len(read) + stored.len <= net'.taken
    BY <1>1, <1>3, <1>4, <1>6, SMTT(30)
  <2>3. QED
    BY <1>2, <1>6, <2>1, <2>2, ReadFailsKeeps
<1>9. CASE r # -1
  <2>1. r = Len(got)
    BY <1>9
  <2>2. BufferOK(w) /\ Behind(w, buf, got)
    <3>1. BufferOK(Longer(Appended(buf, got), Len(got))) /\ Behind(Longer(Appended(buf, got), Len(got)), buf, got)
      BY <1>1, <1>5, AppendedLonger
    <3>2. QED
      BY <2>1, <3>1 DEF stored
  <2>3. w.len = buf.len + Len(got)
    BY <2>2 DEF Behind
  <2> HIDE DEF w
  <2>4. Len(read) + w.len <= net'.taken
    BY <1>1, <1>12, <2>3
  <2>5. ~failed => FirstBytes(w, net'.taken)
    <3> SUFFICES ASSUME ~failed PROVE FirstBytes(w, net'.taken)
      OBVIOUS
    <3>1. FirstBytes(buf, net.taken - Len(pending.got))
      BY <1>1
    <3>2. Len(read) + buf.len = net.taken - Len(pending.got)
      BY <3>1 DEF FirstBytes
    <3>3. Len(read) + w.len = net'.taken
      BY <1>12, <2>3, <3>2
    <3>4. \A i \in 1 .. w.len : At(w, i) = Len(read) + i
      <4> SUFFICES ASSUME NEW i \in 1 .. w.len PROVE At(w, i) = Len(read) + i
        OBVIOUS
      <4>1. CASE i <= buf.len
        <5>1. i \in 1 .. buf.len
          BY <1>3, <4>1
        <5>2. At(w, i) = At(buf, i)
          BY <2>2, <5>1 DEF Behind
        <5>3. QED
          BY <3>1, <5>1, <5>2 DEF FirstBytes
      <4>2. CASE i > buf.len
        <5>1. i - buf.len \in 1 .. Len(got) /\ buf.len + (i - buf.len) = i
          BY <1>3, <2>3, <4>2
        <5>2. At(w, buf.len + (i - buf.len)) = got[i - buf.len]
          BY <2>2, <5>1 DEF Behind
        <5>3. got[i - buf.len] = net'.taken - Len(got) + (i - buf.len)
          BY <5>1 DEF LastTaken
        <5>4. net'.taken - Len(got) + (i - buf.len) = Len(read) + i
          BY <1>3, <1>4, <3>2
        <5>5. QED
          BY <5>1, <5>2, <5>3, <5>4
      <4>3. QED
        BY <1>3, <4>1, <4>2
    <3>5. QED
      BY <3>1, <3>3, <3>4 DEF FirstBytes
  <2>6. w.len \in Nat
    BY <1>3, <2>3
  <2>7. CASE w.len < pending.min
    BY <1>2, <1>7, <1>9, <2>2, <2>4, <2>7, ReadFailsKeeps
  <2>8. CASE ~ (w.len < pending.min) /\ w.len < n
    <3>1. Aborts
      BY <1>7, <1>9, <2>8
    <3>2. ~ (pending.min <= r)
      BY <1>2, <1>3, <2>1, <2>3, <2>8
    <3>3. kind = "file"
      BY <1>9, <3>2
    <3>4. QED
      BY <3>1, <3>3, AbortsKeeps
  <2>9. CASE ~ (w.len < pending.min) /\ ~ (w.len < n)
    <3>1. Handed(pending.op, w, n)
      BY <1>7, <1>9, <2>9
    <3>2. n <= w.len
      BY <1>3, <2>6, <2>9
    <3>3. QED
      BY <1>2, <2>2, <2>4, <2>5, <3>1, <3>2, HandedKeeps
  <2>10. QED
    BY <2>7, <2>8, <2>9
<1>10. QED
  BY <1>8, <1>9

\* A call under way after the environment moved: what was taken stays.
LEMMA UnderWayKept ==
  ASSUME StreamInv, UNCHANGED <<kind, buf, rpc, read, reply, failed>>, NetOK(net'),
         net'.taken = net.taken, pending' \in PendingType, pending'.op = pending.op,
         pending'.size = pending.size, pending'.min = pending.min, pending'.got = pending.got
  PROVE  StreamInv'
<1>1. /\ kind \in StreamKinds /\ BufferOK(buf) /\ BufferOK(rpc) /\ failed \in BOOLEAN
      /\ read \in Seq(ByteNumbers) /\ Holds(rpc, reply) /\ Len(reply) <= Len(read)
      /\ Len(read) + buf.len + Len(pending.got) <= net.taken
      /\ (pending.op \in {"append", "readv"} => FillUnderWay)
      /\ (pending.op # "aborted" /\ ~failed => FirstBytes(buf, net.taken - Len(pending.got)))
      /\ (pending.op = "idle" => pending.got = <<>>) /\ AssertionHolds
  BY DEF StreamInv
<1>2. BufferOK(buf)' /\ BufferOK(rpc)' /\ Holds(rpc, reply)'
  BY <1>1 DEF BufferOK, Holds, At
<1>3. (pending.op \in {"append", "readv"} => FillUnderWay)'
  BY <1>1 DEF FillUnderWay, LastTaken
<1>4. (pending.op # "aborted" /\ ~failed => FirstBytes(buf, net.taken - Len(pending.got)))'
  BY <1>1 DEF FirstBytes, At
<1>5. QED
  BY <1>1, <1>2, <1>3, <1>4 DEF StreamInv, AssertionHolds

\* k bytes come out of the kernel: they are the last ones taken.
LEMMA GotMore ==
  ASSUME StreamInv, Reading, NEW k \in 1 .. Want, k <= Available, Receives(k),
         NEW got, got = Got(k)
  PROVE  /\ NetOK(net') /\ net'.taken = net.taken + k
         /\ got \in Seq(ByteNumbers) /\ Len(got) = Len(pending.got) + k
         /\ LastTaken(got, net'.taken) /\ Len(got) <= buf.datalen - buf.len
<1>1. NetOK(net) /\ FillUnderWay /\ pending \in PendingType /\ BufferOK(buf)
  BY DEF StreamInv, Reading
<1>2. Total \in Nat
  BY StreamAssumption
<1>3. net \in NetType /\ net.taken \in Nat /\ net.delivered \in Nat /\ net.delivered <= Total
      /\ net.taken <= net.delivered
  BY <1>1, <1>2 DEF NetOK, NetType
<1>4. pending.got \in Seq(ByteNumbers) /\ Len(pending.got) \in Nat
  <2>1. pending.got \in Seq(ByteNumbers)
    BY <1>1 DEF PendingType
  <2>2. QED
    BY <2>1
<1>5. buf.len \in Nat /\ buf.datalen \in Nat
  BY <1>1, BufferFields
<1>6. k \in Nat \ {0} /\ k <= net.delivered - net.taken
      /\ k <= buf.datalen - buf.len - Len(pending.got)
  BY <1>3, <1>4, <1>5 DEF Want, Available
<1>7. net' = [net EXCEPT !.taken = @ + k]
  BY DEF Receives
<1>8. net.taken + k \in 0 .. Total /\ net.taken + k <= net.delivered
  BY <1>2, <1>3, <1>6
<1>9. net' \in NetType /\ net'.taken = net.taken + k /\ net'.delivered = net.delivered
  BY <1>3, <1>7, <1>8 DEF NetType
<1> DEFINE t == [i \in 1 .. k |-> net.taken + i]
<1>10. t \in Seq(ByteNumbers) /\ Len(t) = k /\ \A i \in 1 .. k : t[i] = net.taken + i
  <2>1. \A i \in 1 .. k : net.taken + i \in ByteNumbers
    BY <1>2, <1>3, <1>6, <1>8 DEF ByteNumbers
  <2>2. t \in [1 .. k -> ByteNumbers]
    BY <2>1
  <2>3. QED
    BY <1>6, <2>2
<1>11. got = pending.got \o t
  BY DEF Got
<1> HIDE DEF t
<1>12. /\ got \in Seq(ByteNumbers) /\ Len(got) = Len(pending.got) + k
       /\ \A i \in 1 .. Len(pending.got) : got[i] = pending.got[i]
       /\ \A i \in 1 .. k : got[Len(pending.got) + i] = net.taken + i
  <2>0. pending.got \in Seq(ByteNumbers) /\ t \in Seq(ByteNumbers)
    BY <1>4, <1>10
  <2>1. /\ pending.got \o t \in Seq(ByteNumbers) /\ Len(pending.got \o t) = Len(pending.got) + Len(t)
        /\ \A i \in 1 .. Len(pending.got) : (pending.got \o t)[i] = pending.got[i]
        /\ \A i \in 1 .. Len(t) : (pending.got \o t)[Len(pending.got) + i] = t[i]
    BY <2>0, Joined
  <2>2. QED
    BY <1>10, <1>11, <2>1
<1>13. LastTaken(pending.got, net.taken)
  BY <1>1 DEF FillUnderWay
<1> DEFINE pg == Len(pending.got)
<1>14. pg \in Nat /\ pg <= net.taken
  BY <1>4, <1>13 DEF LastTaken
<1>15. LastTaken(got, net'.taken)
  <2>1. Len(got) <= net'.taken
    BY <1>3, <1>6, <1>9, <1>12, <1>14
  <2>2. \A i \in 1 .. Len(got) : got[i] = net'.taken - Len(got) + i
    <3> SUFFICES ASSUME NEW i \in 1 .. Len(got) PROVE got[i] = net'.taken - Len(got) + i
      OBVIOUS
    <3> HIDE DEF pg
    <3>0. net'.taken - Len(got) + i = net.taken - pg + i
      BY <1>3, <1>6, <1>9, <1>12, <1>14 DEF pg
    <3>1. CASE i <= pg
      <4>1. i \in 1 .. Len(pending.got)
        BY <1>14, <3>1 DEF pg
      <4>2. pending.got[i] = net.taken - pg + i
        BY <1>13, <4>1 DEF LastTaken, pg
      <4>3. QED
        BY <1>12, <3>0, <4>1, <4>2
    <3>2. CASE i > pg
      <4> DEFINE j == i - pg
      <4>1. j \in 1 .. k /\ pg + j = i /\ net.taken + j = net.taken - pg + i
        BY <1>3, <1>6, <1>12, <1>14, <3>2 DEF pg
      <4> HIDE DEF j
      <4>2. got[pg + j] = net.taken + j
        BY <1>12, <4>1 DEF pg
      <4>3. QED
        BY <3>0, <4>1, <4>2
    <3>3. QED
      BY <1>14, <3>1, <3>2
  <2>3. QED
    BY <2>1, <2>2 DEF LastTaken
<1>16. Len(got) <= buf.datalen - buf.len
  BY <1>4, <1>5, <1>6, <1>12
<1>17. QED
  BY <1>8, <1>9, <1>12, <1>15, <1>16 DEF NetOK

\* The bytes are kept for the next turn, as long as they are too few.
LEMMA ContinuesKeeps ==
  ASSUME StreamInv, Reading, kind # "file", NEW k \in 1 .. Want, k <= Available, Receives(k),
         Len(Got(k)) < pending.min, Continues(Got(k))
  PROVE  StreamInv'
<1> DEFINE got == Got(k)
<1>1. /\ NetOK(net') /\ net'.taken = net.taken + k
      /\ got \in Seq(ByteNumbers) /\ Len(got) = Len(pending.got) + k
      /\ LastTaken(got, net'.taken) /\ Len(got) <= buf.datalen - buf.len
  BY GotMore
<1>2. Len(got) < pending.min /\ pending' = [pending EXCEPT !.got = got]
      /\ UNCHANGED <<kind, buf, rpc, read, reply, failed>>
  BY DEF Continues
<1> HIDE DEF got
<1>3. /\ kind \in StreamKinds /\ BufferOK(buf) /\ BufferOK(rpc) /\ failed \in BOOLEAN
      /\ pending \in PendingType
      /\ read \in Seq(ByteNumbers) /\ Holds(rpc, reply) /\ Len(reply) <= Len(read)
      /\ Len(read) + buf.len + Len(pending.got) <= net.taken /\ FillUnderWay
      /\ (~failed => FirstBytes(buf, net.taken - Len(pending.got)))
      /\ pending.op # "idle" /\ pending.op # "aborted" /\ NetOK(net)
  BY DEF StreamInv, Reading
<1>4. /\ pending' \in PendingType /\ pending'.op = pending.op /\ pending'.size = pending.size
      /\ pending'.min = pending.min /\ pending'.got = got
  BY <1>1, <1>2, <1>3 DEF PendingType
<1>5. BufferOK(buf)' /\ BufferOK(rpc)' /\ Holds(rpc, reply)'
  BY <1>2, <1>3 DEF BufferOK, Holds, At
<1>6. FillUnderWay'
  BY <1>1, <1>2, <1>3, <1>4 DEF FillUnderWay
<1>7. net.taken \in Nat /\ k \in Nat
  BY <1>3, StreamAssumption DEF NetOK, NetType
<1>8. Len(pending.got) \in Nat
  <2>1. pending.got \in Seq(ByteNumbers)
    BY <1>3 DEF PendingType
  <2>2. QED
    BY <2>1
<1>9. net'.taken - Len(pending'.got) = net.taken - Len(pending.got)
  BY <1>1, <1>4, <1>7, <1>8
<1>10. ~failed' => FirstBytes(buf, net.taken - Len(pending.got))'
  <2> SUFFICES ASSUME ~failed' PROVE FirstBytes(buf, net.taken - Len(pending.got))'
    OBVIOUS
  <2>1. FirstBytes(buf, net.taken - Len(pending.got))
    BY <1>2, <1>3
  <2>2. QED
    BY <1>2, <1>9, <2>1 DEF FirstBytes, At
<1>11. Len(read) + buf.len \in Nat
  BY <1>3, BufferFields
<1>12. (Len(read) + buf.len + Len(pending.got) <= net.taken)'
  BY <1>1, <1>2, <1>3, <1>4, <1>7, <1>8, <1>11, SMTT(30)
<1>13. QED
  BY <1>1, <1>2, <1>3, <1>4, <1>5, <1>6, <1>10, <1>12 DEF StreamInv, AssertionHolds

\* A read that found nothing more ends the call with what it has, or with -1.
LEMMA NothingMoreKeeps ==
  ASSUME StreamInv, Reading, UNCHANGED net, NEW r \in {-1, Len(pending.got)},
         buffer_fill(r, pending.got), kind = "file" \/ r = -1 \/ pending.min <= r
  PROVE  StreamInv'
<1>1. NetOK(net) /\ FillUnderWay /\ pending \in PendingType /\ BufferOK(buf)
  BY DEF StreamInv, Reading
<1>2. pending.got \in Seq(ByteNumbers) /\ Len(pending.got) \in Nat
  <2>1. pending.got \in Seq(ByteNumbers)
    BY <1>1 DEF PendingType
  <2>2. QED
    BY <2>1
<1>3. NetOK(net') /\ net.taken \in Nat /\ net'.taken = net.taken
  BY <1>1, StreamAssumption DEF NetOK, NetType
<1>4. LastTaken(pending.got, net'.taken) /\ pending.min <= buf.datalen - buf.len
      /\ Len(pending.got) < pending.min
  BY <1>1, <1>3 DEF FillUnderWay
<1>5. pending.min \in Nat /\ buf.datalen \in Nat /\ buf.len \in Nat
  BY <1>1, BufferFields DEF PendingType
<1>6. Len(pending.got) <= buf.datalen - buf.len
  BY <1>2, <1>4, <1>5
<1>7. r \in Int
  BY <1>2
<1>8. QED
  BY <1>2, <1>3, <1>4, <1>6, <1>7, FillKeeps

\* A turn whose bytes complete what was missing, or do not.
LEMMA EnoughKeeps ==
  ASSUME StreamInv, Reading, NEW k \in 1 .. Want, k <= Available, Receives(k),
         NEW r, r = Len(Got(k)), kind = "file" \/ pending.min <= r, buffer_fill(r, Got(k))
  PROVE  StreamInv'
<1> DEFINE got == Got(k)
<1>1. /\ NetOK(net') /\ net'.taken = net.taken + k
      /\ got \in Seq(ByteNumbers) /\ Len(got) = Len(pending.got) + k
      /\ LastTaken(got, net'.taken) /\ Len(got) <= buf.datalen - buf.len
  BY GotMore
<1> HIDE DEF got
<1>2. NetOK(net) /\ pending \in PendingType
  BY DEF StreamInv
<1>3. net.taken \in Nat /\ k \in Nat
  BY <1>2, StreamAssumption DEF NetOK, NetType
<1>4. Len(pending.got) \in Nat
  <2>1. pending.got \in Seq(ByteNumbers)
    BY <1>2 DEF PendingType
  <2>2. QED
    BY <2>1
<1>5. net'.taken - Len(got) = net.taken - Len(pending.got) /\ net.taken <= net'.taken
  BY <1>1, <1>3, <1>4
<1>6. r \in Int /\ r = Len(got) /\ buffer_fill(r, got)
  BY <1>1 DEF got
<1>7. QED
  BY <1>1, <1>5, <1>6, FillKeeps

LEMMA TurnKeeps ==
  ASSUME StreamInv, Reading, kind # "file",
         \E k \in 1 .. Want :
            /\ k <= Available /\ Receives(k)
            /\ IF Len(Got(k)) >= pending.min THEN buffer_fill(Len(Got(k)), Got(k))
               ELSE Continues(Got(k))
  PROVE  StreamInv'
<1>1. PICK k \in 1 .. Want :
            /\ k <= Available /\ Receives(k)
            /\ IF Len(Got(k)) >= pending.min THEN buffer_fill(Len(Got(k)), Got(k))
               ELSE Continues(Got(k))
  OBVIOUS
<1>2. Got(k) \in Seq(ByteNumbers)
  BY <1>1, GotMore
<1>3. Len(Got(k)) \in Nat /\ pending.min \in Nat
  BY <1>2 DEF StreamInv, PendingType
<1>4. CASE Len(Got(k)) >= pending.min
  <2>1. buffer_fill(Len(Got(k)), Got(k)) /\ pending.min <= Len(Got(k))
    BY <1>1, <1>3, <1>4
  <2>2. QED
    BY <1>1, <2>1, EnoughKeeps
<1>5. CASE ~ (Len(Got(k)) >= pending.min)
  <2>1. Continues(Got(k)) /\ Len(Got(k)) < pending.min
    BY <1>1, <1>3, <1>5
  <2>2. QED
    BY <1>1, <2>1, ContinuesKeeps
<1>6. QED
  BY <1>4, <1>5

\* Nothing happens.
LEMMA StreamStutters ==
  ASSUME StreamInv, UNCHANGED streamVars
  PROVE  StreamInv'
<1>1. NetOK(net') /\ net'.taken = net.taken /\ pending' \in PendingType /\ pending' = pending
      /\ UNCHANGED <<kind, buf, rpc, read, reply, failed>>
  BY DEF StreamInv, streamVars
<1>2. QED
  BY <1>1, UnderWayKept

LEMMA SocketReadvKeeps ==
  ASSUME StreamInv, Reading, socket_readv
  PROVE  StreamInv'
<1>1. kind = "socket"
  BY DEF socket_readv
<1>2. CASE \E k \in 1 .. Want :
            /\ k <= Available /\ Receives(k)
            /\ IF Len(Got(k)) >= pending.min THEN buffer_fill(Len(Got(k)), Got(k))
               ELSE Continues(Got(k))
  BY <1>1, <1>2, TurnKeeps
<1>3. CASE /\ NoByte
           /\ buffer_fill(IF Len(pending.got) >= pending.min THEN Len(pending.got) ELSE -1, pending.got)
  <2> DEFINE r == IF Len(pending.got) >= pending.min THEN Len(pending.got) ELSE -1
  <2>1. r \in {-1, Len(pending.got)} /\ (r = -1 \/ pending.min <= r)
    OBVIOUS
  <2>2. UNCHANGED net /\ buffer_fill(r, pending.got)
    BY <1>3 DEF NoByte
  <2>3. QED
    BY <2>1, <2>2, NothingMoreKeeps
<1>4. QED
  BY <1>2, <1>3 DEF socket_readv

LEMMA TlsReadvKeeps ==
  ASSUME StreamInv, Reading, tls_readv
  PROVE  StreamInv'
<1>1. kind = "tls"
  BY DEF tls_readv
<1>2. CASE \E k \in 1 .. Want :
            /\ k <= Available /\ Receives(k)
            /\ IF Len(Got(k)) >= pending.min THEN buffer_fill(Len(Got(k)), Got(k))
               ELSE Continues(Got(k))
  BY <1>1, <1>2, TurnKeeps
<1>3. CASE bio_read_zero /\ pending.past /\ buffer_fill(-1, pending.got)
  BY <1>3, NothingMoreKeeps DEF bio_read_zero, NoByte
<1>4. CASE bio_read_zero /\ ~pending.past /\ UNCHANGED streamVars
  BY <1>4, StreamStutters
<1>5. QED
  BY <1>2, <1>3, <1>4 DEF tls_readv

LEMMA FileReadvKeeps ==
  ASSUME StreamInv, Reading, file_readv
  PROVE  StreamInv'
<1>1. kind = "file" /\ pending.got = <<>> /\ Len(pending.got) = 0
  BY DEF file_readv, StreamInv, Reading, FillUnderWay
<1>2. CASE \E k \in 1 .. Want : k <= Available /\ Receives(k) /\ buffer_fill(k, Got(k))
  <2>1. PICK k \in 1 .. Want : k <= Available /\ Receives(k) /\ buffer_fill(k, Got(k))
    BY <1>2
  <2>2. Len(Got(k)) = Len(pending.got) + k
    BY <2>1, GotMore
  <2>3. k = Len(Got(k))
    BY <1>1, <2>2
  <2>4. QED
    BY <1>1, <2>1, <2>3, EnoughKeeps
<1>3. CASE Available = 0 /\ net.open /\ UNCHANGED net /\ buffer_fill(0, <<>>)
  <2>1. buffer_fill(0, pending.got) /\ 0 \in {-1, Len(pending.got)}
    BY <1>1, <1>3
  <2>2. QED
    BY <1>1, <1>3, <2>1, NothingMoreKeeps
<1>4. CASE UNCHANGED net /\ buffer_fill(-1, <<>>)
  <2>1. buffer_fill(-1, pending.got)
    BY <1>1, <1>4
  <2>2. QED
    BY <1>4, <2>1, NothingMoreKeeps
<1>5. QED
  BY <1>2, <1>3, <1>4 DEF file_readv

\* A call begins: it is served from the buffer, or makes room for what is
\* missing.
LEMMA StartKeeps ==
  ASSUME StreamInv, NEW op \in {"append", "readv"}, NEW n \in Sizes, NEW timeout \in Timeouts,
         Start(op, n, timeout)
  PROVE  StreamInv'
<1>1. /\ kind \in StreamKinds /\ BufferOK(buf) /\ BufferOK(rpc) /\ failed \in BOOLEAN
      /\ NetOK(net) /\ read \in Seq(ByteNumbers) /\ Holds(rpc, reply) /\ Len(reply) <= Len(read)
      /\ Len(read) + buf.len + Len(pending.got) <= net.taken
      /\ (~failed => FirstBytes(buf, net.taken - Len(pending.got)))
      /\ pending.op = "idle" /\ pending.got = <<>> /\ net' = net
  BY DEF StreamInv, Start
<1>2. n \in Nat \ {0} /\ Total \in Nat
  BY StreamAssumption
<1>3. net.taken \in Nat /\ net.taken <= Total /\ NetOK(net') /\ net'.taken = net.taken
  BY <1>1, <1>2 DEF NetOK, NetType
<1>4. Len(pending.got) = 0 /\ net.taken - Len(pending.got) = net.taken
  BY <1>1, <1>3
<1>5. buf.len \in Nat /\ Len(read) \in Nat
  BY <1>1, BufferFields
<1>6. Len(read) + buf.len <= net.taken /\ (~failed => FirstBytes(buf, net.taken))
  <2>1. Len(read) + buf.len <= net.taken
    BY <1>1, <1>4, <1>5
  <2>2. QED
    BY <1>1, <1>4, <2>1
<1>7. CASE n <= buf.len
  <2>1. Handed(op, buf, n)
    BY <1>7 DEF Start
  <2>2. QED
    BY <1>1, <1>3, <1>6, <1>7, <2>1, HandedKeeps
<1>8. CASE ~ (n <= buf.len)
  <2> DEFINE min == n - buf.len
             w == fill_room(buf, min)
  <2>1. /\ buf' = w
        /\ pending' = [op |-> op, size |-> n, min |-> min, got |-> <<>>,
                       timeout |-> timeout, past |-> FALSE, ret |-> 0]
        /\ UNCHANGED <<kind, rpc, read, reply, failed>>
    BY <1>8 DEF Start
  <2>2. PICK r \in Powers : Total + n <= r
    BY StreamAssumption
  <2>3. min \in Nat /\ 0 < min /\ min + buf.len = n
    BY <1>2, <1>5, <1>8
  <2>4. r \in Nat
    BY PowersAssumption
  <2>5. min + buf.len <= r
    BY <1>2, <2>2, <2>3, <2>4
  <2> HIDE DEF min
  <2>6. /\ BufferOK(w) /\ SameContents(w, buf) /\ w.off = 0 /\ w.len = buf.len
        /\ min <= w.datalen - buf.len
    BY <1>1, <2>3, <2>5, FillRoom
  <2> HIDE DEF w
  <2>7. /\ pending' \in PendingType /\ pending'.op = op /\ pending'.size = n
        /\ pending'.min = min /\ pending'.got = <<>> /\ Len(pending'.got) = 0
    <3>1. timeout \in {"forever", "finite"} /\ <<>> \in Seq(ByteNumbers)
      BY StreamAssumption
    <3>2. QED
      BY <1>2, <2>1, <2>3, <3>1 DEF PendingType
  <2>8. LastTaken(pending'.got, net'.taken)
    BY <1>3, <2>7 DEF LastTaken
  <2>9. FillUnderWay'
    <3>1. min = n - buf.len
      BY DEF min
    <3>2. Len(pending'.got) < pending'.min
      BY <2>3, <2>7
    <3>3. QED
      BY <2>1, <2>3, <2>6, <2>7, <2>8, <3>1, <3>2 DEF FillUnderWay
  <2>10. ~failed' => FirstBytes(buf, net.taken - Len(pending.got))'
    <3> SUFFICES ASSUME ~failed' PROVE FirstBytes(buf, net.taken - Len(pending.got))'
      OBVIOUS
    <3>1. FirstBytes(buf, net.taken)
      BY <1>6, <2>1
    <3>2. net'.taken - Len(pending'.got) = net.taken
      BY <1>3, <2>7
    <3>3. \A i \in 1 .. w.len : At(w, i) = Len(read) + i
      BY <2>6, <3>1 DEF FirstBytes, SameContents
    <3>4. Len(read) + w.len = net.taken /\ \A i \in 1 .. Len(read) : read[i] = i
      BY <2>6, <3>1 DEF FirstBytes
    <3>5. QED
      BY <2>1, <3>2, <3>3, <3>4 DEF FirstBytes, At
  <2>11. BufferOK(buf') /\ BufferOK(rpc)' /\ Holds(rpc, reply)'
    BY <1>1, <2>1, <2>6 DEF BufferOK, Holds, At
  <2>12. Len(read') + buf'.len + Len(pending'.got) <= net'.taken
    BY <1>3, <1>5, <1>6, <2>1, <2>6, <2>7
  <2>13. pending'.op \in {"append", "readv"}
    BY <2>7
  <2>14. QED
    BY <1>1, <1>3, <2>1, <2>7, <2>9, <2>10, <2>11, <2>12, <2>13 DEF StreamInv, AssertionHolds
<1>9. QED
  BY <1>7, <1>8

LEMMA ClearKeeps ==
  ASSUME StreamInv, clear
  PROVE  StreamInv'
<1>1. /\ kind \in StreamKinds /\ BufferOK(buf) /\ BufferOK(rpc) /\ failed \in BOOLEAN
      /\ NetOK(net) /\ read \in Seq(ByteNumbers) /\ pending \in PendingType
      /\ Len(read) + buf.len + Len(pending.got) <= net.taken
      /\ (~failed => FirstBytes(buf, net.taken - Len(pending.got)))
      /\ pending.op = "idle" /\ pending.got = <<>>
  BY DEF StreamInv, clear
<1>2. rpc' = buffer_clear(rpc) /\ reply' = <<>> /\ UNCHANGED <<kind, net, buf, pending, read, failed>>
  BY DEF clear
<1>3. BufferOK(rpc') /\ Holds(rpc', reply')
  BY <1>1, <1>2, ClearedBuffer
<1>4. Len(reply') <= Len(read')
  <2>1. Len(reply') = 0 /\ Len(read') \in Nat
    BY <1>1, <1>2
  <2>2. QED
    BY <2>1
<1>5. BufferOK(buf)' /\ NetOK(net)' /\ (~failed => FirstBytes(buf, net.taken - Len(pending.got)))'
  BY <1>1, <1>2 DEF FirstBytes, At, BufferOK, NetOK
<1>6. QED
  BY <1>1, <1>2, <1>3, <1>4, <1>5 DEF StreamInv, AssertionHolds

\* The environment, and the end of the base stream.
LEMMA EnvironmentKeeps ==
  ASSUME StreamInv, Arrive \/ PeerCloses \/ buffered_close \/ TimeoutPasses
  PROVE  StreamInv'
<1>1. NetOK(net) /\ pending \in PendingType
  BY DEF StreamInv
<1>2. net \in NetType /\ net.delivered \in 0 .. Total /\ net.taken \in 0 .. Total
      /\ net.taken <= net.delivered
  BY <1>1 DEF NetOK, NetType
<1>3. CASE Arrive
  <2>1. net.delivered + 1 \in 0 .. Total /\ net.taken <= net.delivered + 1
    BY <1>2, <1>3, StreamAssumption DEF Arrive
  <2>2. net' \in NetType /\ net'.taken = net.taken /\ net'.delivered = net.delivered + 1
    BY <1>2, <1>3, <2>1 DEF Arrive, NetType
  <2>3. NetOK(net')
    BY <2>1, <2>2 DEF NetOK
  <2>4. UNCHANGED <<kind, buf, rpc, pending, read, reply, failed>>
    BY <1>3 DEF Arrive
  <2>5. QED
    BY <1>1, <2>2, <2>3, <2>4, UnderWayKept
<1>4. CASE PeerCloses \/ buffered_close
  <2>1. UNCHANGED <<kind, buf, rpc, pending, read, reply, failed>>
    BY <1>4 DEF PeerCloses, buffered_close
  <2>2. net' \in NetType /\ net'.taken = net.taken /\ net'.delivered = net.delivered
    BY <1>2, <1>4 DEF PeerCloses, buffered_close, NetType
  <2>3. NetOK(net')
    BY <1>2, <2>2 DEF NetOK
  <2>4. QED
    BY <1>1, <2>1, <2>2, <2>3, UnderWayKept
<1>5. CASE TimeoutPasses
  <2>1. UNCHANGED <<kind, net, buf, rpc, read, reply, failed>> /\ pending' = [pending EXCEPT !.past = TRUE]
    BY <1>5 DEF TimeoutPasses
  <2>2. /\ pending' \in PendingType /\ pending'.op = pending.op /\ pending'.size = pending.size
        /\ pending'.min = pending.min /\ pending'.got = pending.got
    BY <1>1, <2>1 DEF PendingType
  <2>3. NetOK(net') /\ net'.taken = net.taken
    BY <1>1, <2>1
  <2>4. QED
    BY <2>1, <2>2, <2>3, UnderWayKept
<1>6. QED
  BY <1>3, <1>4, <1>5

LEMMA StreamStep == StreamInv /\ [StreamNext]_streamVars => StreamInv'
<1> SUFFICES ASSUME StreamInv, [StreamNext]_streamVars PROVE StreamInv'
  OBVIOUS
<1>1. CASE Arrive \/ PeerCloses \/ buffered_close \/ TimeoutPasses
  BY <1>1, EnvironmentKeeps
<1>2. CASE \E n \in Sizes, t \in Timeouts : append_from_stream(n, t) \/ buffered_readv(n, t)
  <2>1. PICK n \in Sizes, t \in Timeouts : Start("append", n, t) \/ Start("readv", n, t)
    BY <1>2 DEF append_from_stream, buffered_readv
  <2>2. QED
    BY <2>1, StartKeeps
<1>3. CASE clear
  BY <1>3, ClearKeeps
<1>4. CASE StreamTurn
  BY <1>4, SocketReadvKeeps, FileReadvKeeps, TlsReadvKeeps DEF StreamTurn
<1>5. CASE ProtocolError
  BY <1>5, NothingMoreKeeps DEF ProtocolError
<1>6. CASE UNCHANGED streamVars
  BY <1>6, StreamStutters
<1>7. QED
  BY <1>1, <1>2, <1>3, <1>4, <1>5, <1>6 DEF StreamNext

\* What the invariant says of the run's property.
LEMMA InOrderHere == StreamInv => BytesInOrder
<1> SUFFICES ASSUME StreamInv PROVE BytesInOrder
  OBVIOUS
<1>1. /\ kind \in StreamKinds /\ BufferOK(buf) /\ BufferOK(rpc) /\ failed \in BOOLEAN
      /\ NetOK(net) /\ read \in Seq(ByteNumbers) /\ Holds(rpc, reply) /\ pending \in PendingType
      /\ (pending.op # "aborted" /\ ~failed => FirstBytes(buf, net.taken - Len(pending.got)))
      /\ (pending.op = "idle" => pending.got = <<>>) /\ AssertionHolds
  BY DEF StreamInv
<1>2. BufferTypeOK(buf) /\ BufferTypeOK(rpc) /\ ContentsFit
  BY <1>1, BufferFields DEF BufferTypeOK, ContentsFit
<1>3. StreamTypeOK
  BY <1>1, <1>2 DEF StreamTypeOK, NetOK, NetType, PendingType
<1>4. ReplyIntact
  <2>1. rpc.len \in Nat /\ reply \in Seq(ByteNumbers) /\ Len(reply) = rpc.len
        /\ \A i \in 1 .. rpc.len : rpc.data[rpc.off + i - 1] = reply[i]
    BY <1>1, BufferFields DEF Holds, At
  <2>2. DOMAIN reply = 1 .. rpc.len /\ reply = [i \in DOMAIN reply |-> reply[i]]
    BY <2>1
  <2>3. QED
    BY <2>1, <2>2 DEF ReplyIntact, Contents
<1>5. NothingLostOrRepeated
  <2> SUFFICES ASSUME pending.op = "idle", ~failed
               PROVE  read \o Contents(buf) = [i \in 1 .. net.taken |-> i]
    BY DEF NothingLostOrRepeated
  <2>1. net.taken \in Nat /\ pending.got = <<>> /\ Len(pending.got) = 0
    BY <1>1, StreamAssumption DEF NetOK, NetType
  <2>2. FirstBytes(buf, net.taken)
    <3>1. net.taken - Len(pending.got) = net.taken
      BY <2>1
    <3>2. QED
      BY <1>1, <3>1
  <2>3. buf.len \in Nat /\ Len(read) \in Nat
    BY <1>1, BufferFields
  <2> DEFINE s == Contents(buf)
  <2>4. s \in Seq(ByteNumbers) /\ Len(s) = buf.len /\ \A i \in 1 .. buf.len : s[i] = At(buf, i)
    <3>1. s = [i \in 1 .. buf.len |-> At(buf, i)]
      BY DEF Contents, At
    <3>2. s \in [1 .. buf.len -> ByteNumbers]
      BY <1>1, <3>1, ContentBytes
    <3>3. QED
      BY <2>3, <3>1, <3>2
  <2> HIDE DEF s
  <2> DEFINE whole == read \o s
  <2>5. /\ whole \in Seq(ByteNumbers) /\ Len(whole) = Len(read) + buf.len
        /\ (\A i \in 1 .. Len(read) : whole[i] = read[i])
        /\ \A i \in 1 .. buf.len : whole[Len(read) + i] = s[i]
    <3>0. read \in Seq(ByteNumbers) /\ s \in Seq(ByteNumbers)
      BY <1>1, <2>4
    <3>1. /\ read \o s \in Seq(ByteNumbers) /\ Len(read \o s) = Len(read) + Len(s)
          /\ \A i \in 1 .. Len(read) : (read \o s)[i] = read[i]
          /\ \A i \in 1 .. Len(s) : (read \o s)[Len(read) + i] = s[i]
      BY <3>0, Joined
    <3>2. QED
      BY <2>4, <3>1
  <2> HIDE DEF whole
  <2>6. Len(whole) = net.taken
    BY <2>2, <2>5 DEF FirstBytes
  <2>7. \A i \in 1 .. net.taken : whole[i] = i
    <3> SUFFICES ASSUME NEW i \in 1 .. net.taken PROVE whole[i] = i
      OBVIOUS
    <3>1. CASE i <= Len(read)
      <4>1. i \in 1 .. Len(read)
        BY <2>1, <2>3, <3>1
      <4>2. QED
        BY <2>2, <2>5, <4>1 DEF FirstBytes
    <3>2. CASE i > Len(read)
      <4> DEFINE j == i - Len(read)
      <4>1. j \in 1 .. buf.len /\ Len(read) + j = i
        BY <2>1, <2>3, <2>5, <2>6, <3>2
      <4> HIDE DEF j
      <4>2. whole[Len(read) + j] = At(buf, j) /\ At(buf, j) = Len(read) + j
        BY <2>2, <2>4, <2>5, <4>1 DEF FirstBytes
      <4>3. QED
        BY <4>1, <4>2
    <3>3. QED
      BY <2>1, <2>3, <3>1, <3>2
  <2>8. whole = [i \in 1 .. net.taken |-> i]
    <3>1. DOMAIN whole = 1 .. net.taken /\ whole = [i \in DOMAIN whole |-> whole[i]]
      BY <2>1, <2>5, <2>6
    <3>2. QED
      BY <2>7, <3>1
  <2>9. QED
    BY <2>8 DEF whole, s
<1>6. QED
  BY <1>1, <1>2, <1>3, <1>4, <1>5 DEF BytesInOrder

\* Nothing is lost, repeated, reordered or outside a buffer, whatever the sizes
\* and in whatever portions the bytes come (mongoc-buffer.c,
\* mongoc_stream_buffered_readv).
THEOREM BytesInOrderAlways == StreamSpec => []BytesInOrder
<1>1. StreamInit => StreamInv
  BY StreamInitial
<1>2. StreamInv /\ [StreamNext]_streamVars => StreamInv'
  BY StreamStep
<1>3. StreamInv => BytesInOrder
  BY InOrderHere
<1>4. QED
  BY <1>1, <1>2, <1>3, PTL DEF StreamSpec

-----------------------------------------------------------------------------
(* SocketSend.                                                               *)

\* The bytes of the message, and where buffer i ends in it.
Bytes == SumOf(msg)
Ends(i) == IF i = Len(msg) THEN Bytes ELSE iov[i + 1].base

\* The iovec is the message, and the buffers not yet sent lie one behind the
\* other, from the bytes counted so far to its end.
IovecInv ==
  /\ msg \in Seq(Nat) /\ Len(msg) > 0 /\ Bytes \in Nat
  /\ iov \in Seq([base : Nat, len : Nat]) /\ Len(iov) = Len(msg)
  /\ cur \in 1 .. Len(msg) + 1 /\ ret \in 0 .. Bytes
  /\ \A i \in cur .. Len(msg) : iov[i].base + iov[i].len = Ends(i)
  /\ ret = IF cur > Len(msg) THEN Bytes ELSE iov[cur].base

SendInv ==
  /\ IovecInv
  /\ sending \in {"try", "slow", "wait", "done"}
  /\ sending # "done" => cur <= Len(msg)
  /\ slow \in [times : Nat, i : Nat] /\ (sending = "slow" => slow.times > 0)
  /\ slow.times = 0 => wire = Piece(0, ret)
  /\ result \in -1 .. Bytes
  /\ sending = "done" /\ slow.times = 0 => result = IF ret = 0 THEN -1 ELSE ret
  /\ BrokenEnds

\* The facts about the iovec that the arithmetic needs.
LEMMA IovecFacts ==
  ASSUME IovecInv
  PROVE  /\ Len(msg) \in Nat \ {0} /\ Bytes \in Nat /\ ret \in Nat /\ ret <= Bytes /\ cur \in Nat
         /\ \A i \in 1 .. Len(msg) : iov[i].base \in Nat /\ iov[i].len \in Nat
         /\ \A i \in cur .. Len(msg) : Ends(i) \in Nat
<1>1. Len(msg) \in Nat \ {0} /\ Bytes \in Nat /\ ret \in Nat /\ ret <= Bytes /\ cur \in 1 .. Len(msg) + 1
  BY DEF IovecInv
<1>2. \A i \in 1 .. Len(msg) : iov[i].base \in Nat /\ iov[i].len \in Nat
  <2> SUFFICES ASSUME NEW i \in 1 .. Len(msg) PROVE iov[i].base \in Nat /\ iov[i].len \in Nat
    OBVIOUS
  <2>0. iov \in Seq([base : Nat, len : Nat]) /\ Len(iov) = Len(msg)
    BY DEF IovecInv
  <2>1. i \in 1 .. Len(iov)
    BY <2>0
  <2>2. iov[i] \in [base : Nat, len : Nat]
    BY <2>0, <2>1, ElementOfSeq
  <2>3. QED
    BY <2>2
<1>3. \A i \in cur .. Len(msg) : Ends(i) \in Nat
  <2> SUFFICES ASSUME NEW i \in cur .. Len(msg) PROVE Ends(i) \in Nat
    OBVIOUS
  <2>1. i \in 1 .. Len(msg) /\ iov[i].base + iov[i].len = Ends(i)
    BY <1>1 DEF IovecInv
  <2>2. QED
    BY <1>2, <2>1
<1>4. QED
  BY <1>1, <1>2, <1>3

\* The bytes up to the end of a buffer are those between what was counted and
\* where it ends.
LEMMA SentUpTo ==
  ASSUME IovecInv, cur <= Len(msg)
  PROVE  /\ Lens \in Seq(Nat) /\ Len(Lens) = Len(msg) - cur + 1
         /\ Sent(cur - 1) = 0
         /\ \A i \in cur .. Len(msg) : Sent(i) = Ends(i) - ret
         /\ SumOf(Lens) = Bytes - ret
<1>1. /\ Len(msg) \in Nat \ {0} /\ Bytes \in Nat /\ ret \in Nat /\ ret <= Bytes /\ cur \in Nat
      /\ \A i \in 1 .. Len(msg) : iov[i].base \in Nat /\ iov[i].len \in Nat
      /\ \A i \in cur .. Len(msg) : Ends(i) \in Nat
  BY IovecFacts
<1>2. /\ cur \in 1 .. Len(msg) /\ Len(iov) = Len(msg) /\ ret = iov[cur].base
      /\ \A i \in cur .. Len(msg) : iov[i].base + iov[i].len = Ends(i)
  <2>1. cur \in 1 .. Len(msg)
    BY <1>1 DEF IovecInv
  <2>2. Len(iov) = Len(msg)
    BY DEF IovecInv
  <2>3. ret = iov[cur].base
    BY <1>1 DEF IovecInv
  <2>4. \A i \in cur .. Len(msg) : iov[i].base + iov[i].len = Ends(i)
    BY DEF IovecInv
  <2>5. QED
    BY <2>1, <2>2, <2>3, <2>4
<1> DEFINE k == Len(msg) - cur + 1
           f == [j \in 0 .. k |-> IF j = 0 THEN 0 ELSE Ends(cur + j - 1) - ret]
<1>3. k \in Nat \ {0} /\ \A j \in 1 .. k : cur + j - 1 \in cur .. Len(msg) /\ cur + j - 1 \in 1 .. Len(msg)
  BY <1>1, <1>2
<1>4. Lens = [j \in 1 .. k |-> iov[cur + j - 1].len]
  BY <1>2 DEF Lens
<1>5. Lens \in Seq(Nat) /\ Lens \in Seq(Int) /\ Len(Lens) = k
  <2>1. \A j \in 1 .. k : iov[cur + j - 1].len \in Nat
    BY <1>1, <1>3
  <2> HIDE DEF k
  <2>2. Lens \in [1 .. k -> Nat]
    BY <1>4, <2>1
  <2>3. Lens \in Seq(Nat) /\ Len(Lens) = k
    BY <1>3, <2>2
  <2>4. QED
    BY <2>3
<1>6. AddsUp(f, Lens)
  <2>1. \A j \in 1 .. k : f[j] = Ends(cur + j - 1) - ret /\ f[j] \in Int
    <3> HIDE DEF k
    <3> SUFFICES ASSUME NEW j \in 1 .. k PROVE f[j] = Ends(cur + j - 1) - ret /\ f[j] \in Int
      OBVIOUS
    <3>1. j \in 0 .. k /\ j # 0 /\ Ends(cur + j - 1) \in Nat
      BY <1>1, <1>3
    <3>2. f[j] = Ends(cur + j - 1) - ret
      BY <3>1
    <3> HIDE DEF f
    <3>3. QED
      BY <1>1, <3>1, <3>2
  <2>2. f[0] = 0
    BY <1>3
  <2>3. f \in [0 .. k -> Int]
    BY <1>1, <1>3
  <2>4. \A j \in 1 .. k : f[j] = f[j - 1] + Lens[j]
    <3> SUFFICES ASSUME NEW j \in 1 .. k PROVE f[j] = f[j - 1] + Lens[j]
      OBVIOUS
    <3> DEFINE i == cur + j - 1
    <3>1. i \in cur .. Len(msg) /\ i \in 1 .. Len(msg) /\ j \in Nat /\ j >= 1
      BY <1>3
    <3>2. Lens[j] = iov[i].len /\ iov[i].base + iov[i].len = Ends(i)
          /\ iov[i].base \in Nat /\ iov[i].len \in Nat /\ Ends(i) \in Nat
      BY <1>1, <1>2, <1>4, <3>1
    <3>3. f[j] = Ends(i) - ret
      BY <2>1
    <3>4. CASE j = 1
      <4>1. f[j - 1] = 0 /\ i = cur
        BY <1>1, <2>2, <3>4
      <4> HIDE DEF f, i
      <4>2. QED
        BY <1>1, <1>2, <3>2, <3>3, <4>1, SMTT(30)
    <3>5. CASE j # 1
      <4>1. j - 1 \in 1 .. k /\ cur + (j - 1) - 1 = i - 1 /\ i - 1 \in cur .. Len(msg)
            /\ i - 1 # Len(msg) /\ i - 1 + 1 = i
        BY <1>1, <1>3, <3>1, <3>5
      <4>2. f[j - 1] = Ends(i - 1) - ret
        BY <2>1, <4>1
      <4> HIDE DEF f, i
      <4>3. Ends(i - 1) = iov[i].base
        BY <4>1 DEF Ends
      <4>4. QED
        BY <1>1, <3>2, <3>3, <4>2, <4>3, SMTT(30)
    <3>6. QED
      BY <3>4, <3>5
  <2> HIDE DEF f
  <2>5. QED
    BY <1>5, <2>2, <2>3, <2>4 DEF AddsUp
<1>7. SumsOf(Lens) = f /\ SumOf(Lens) = f[k]
  BY <1>5, <1>6, SumsOfUnique
<1>8. Sent(cur - 1) = 0
  <2>1. cur - 1 - cur + 1 = 0
    BY <1>1
  <2>2. QED
    BY <1>3, <1>7, <2>1 DEF Sent
<1>9. \A i \in cur .. Len(msg) : Sent(i) = Ends(i) - ret
  <2> SUFFICES ASSUME NEW i \in cur .. Len(msg) PROVE Sent(i) = Ends(i) - ret
    OBVIOUS
  <2>1. i - cur + 1 \in 1 .. k /\ cur + (i - cur + 1) - 1 = i /\ i - cur + 1 # 0
    BY <1>1
  <2>2. QED
    BY <1>3, <1>7, <2>1 DEF Sent
<1>10. SumOf(Lens) = Bytes - ret
  <2>1. cur + k - 1 = Len(msg) /\ k # 0 /\ k \in 0 .. k
    BY <1>1, <1>3
  <2>2. QED
    BY <1>7, <2>1 DEF Ends
<1>11. QED
  BY <1>5, <1>8, <1>9, <1>10

LEMMA LeastMember ==
  ASSUME NEW S, S \subseteq Nat, S # {}
  PROVE  Min(S) \in S /\ \A y \in S : Min(S) <= y
<1>1. \E x \in S : \A y \in S : x <= y
  BY WellOrdered
<1>2. QED
  BY <1>1, Zenon DEF Min

\* What comes before buffer i, of those not yet sent.
LEMMA SentBefore ==
  ASSUME IovecInv, NEW i \in cur .. Len(msg)
  PROVE  Sent(i - 1) \in Nat /\ iov[i].base = ret + Sent(i - 1)
<1>1. /\ Len(msg) \in Nat \ {0} /\ Bytes \in Nat /\ ret \in Nat /\ cur \in Nat
      /\ \A j \in 1 .. Len(msg) : iov[j].base \in Nat /\ iov[j].len \in Nat
      /\ \A j \in cur .. Len(msg) : Ends(j) \in Nat
  BY IovecFacts
<1>2. cur \in 1 .. Len(msg) /\ ret = iov[cur].base
      /\ \A j \in cur .. Len(msg) : iov[j].base + iov[j].len = Ends(j)
  BY <1>1, SMTT(30) DEF IovecInv
<1>3. Lens \in Seq(Nat) /\ Len(Lens) = Len(msg) - cur + 1
      /\ Sent(cur - 1) = 0 /\ \A j \in cur .. Len(msg) : Sent(j) = Ends(j) - ret
  BY <1>1, <1>2, SentUpTo
<1>4. i - 1 - cur + 1 \in 0 .. Len(Lens) /\ i \in 1 .. Len(msg)
  BY <1>1, <1>2, <1>3
<1>5. Sent(i - 1) \in Nat
  BY <1>3, <1>4, SumsGrow DEF Sent
<1>6. CASE i = cur
  BY <1>1, <1>2, <1>3, <1>6
<1>7. CASE i # cur
  <2>1. i - 1 \in cur .. Len(msg) /\ i - 1 # Len(msg) /\ i - 1 + 1 = i
    BY <1>1, <1>7
  <2>2. Sent(i - 1) = iov[i].base - ret
    BY <1>3, <2>1 DEF Ends
  <2>3. QED
    BY <1>1, <1>4, <1>5, <2>2
<1>8. QED
  BY <1>5, <1>6, <1>7

\* What is left of the iovec is the rest of the message.
LEMMA LeftIsRest ==
  ASSUME IovecInv, cur <= Len(msg)
  PROVE  Left = Piece(ret, Bytes - ret)
<1>1. /\ Len(msg) \in Nat \ {0} /\ Bytes \in Nat /\ ret \in Nat /\ ret <= Bytes /\ cur \in Nat
      /\ \A j \in 1 .. Len(msg) : iov[j].base \in Nat /\ iov[j].len \in Nat
  BY IovecFacts
<1>2. cur \in 1 .. Len(msg) /\ Len(iov) = Len(msg)
  BY <1>1 DEF IovecInv
<1>3. /\ \A j \in cur .. Len(msg) : Sent(j) = Ends(j) - ret
      /\ SumOf(Lens) = Bytes - ret
  BY SentUpTo
<1> DEFINE at(j) == Min({k \in cur .. Len(iov) : Sent(k) >= j})
<1>4. ASSUME NEW j \in 1 .. Bytes - ret
      PROVE  iov[at(j)].base + j - Sent(at(j) - 1) = ret + j
  <2> DEFINE S == {k \in cur .. Len(iov) : Sent(k) >= j}
  <2>1. Len(msg) \in S
    <3>1. Len(msg) \in cur .. Len(msg)
      BY <1>1, <1>2
    <3>2. Sent(Len(msg)) = Bytes - ret
      BY <1>3, <3>1 DEF Ends
    <3>3. QED
      BY <1>1, <1>2, <3>1, <3>2
  <2>2. S \subseteq Nat
    BY <1>1, <1>2
  <2> DEFINE i == at(j)
  <2>3. i \in S
    BY <2>1, <2>2, LeastMember
  <2>4. i \in cur .. Len(msg)
    BY <1>2, <2>3
  <2> HIDE DEF i
  <2>5. Sent(i - 1) \in Nat /\ iov[i].base = ret + Sent(i - 1)
    BY <2>4, SentBefore
  <2>6. j \in Nat
    BY <1>1
  <2>7. iov[i].base + j - Sent(i - 1) = ret + j
    BY <1>1, <2>5, <2>6
  <2>8. QED
    BY <2>7 DEF i
<1>5. Left = [j \in 1 .. Bytes - ret |-> iov[at(j)].base + j - Sent(at(j) - 1)]
  BY <1>3 DEF Left
<1> HIDE DEF at
<1>6. QED
  BY <1>4, <1>5 DEF Piece

\* The loop steps over the buffers that were sent and shortens the next one.
LEMMA AdvanceKeeps ==
  ASSUME IovecInv, cur <= Len(msg), NEW n \in 1 .. Bytes - ret, Advance(n), UNCHANGED msg
  PROVE  IovecInv' /\ ret' = ret + n /\ n \in Nat \ {0}
<1>1. /\ Len(msg) \in Nat \ {0} /\ Bytes \in Nat /\ ret \in Nat /\ ret <= Bytes /\ cur \in Nat
      /\ \A j \in 1 .. Len(msg) : iov[j].base \in Nat /\ iov[j].len \in Nat
      /\ \A j \in cur .. Len(msg) : Ends(j) \in Nat
  BY IovecFacts
<1>2. /\ cur \in 1 .. Len(msg) /\ Len(iov) = Len(msg) /\ iov \in Seq([base : Nat, len : Nat])
      /\ msg \in Seq(Nat) /\ \A j \in cur .. Len(msg) : iov[j].base + iov[j].len = Ends(j)
  BY <1>1 DEF IovecInv
<1>3. \A j \in cur .. Len(msg) : Sent(j) = Ends(j) - ret
  BY SentUpTo
<1>4. n \in Nat \ {0} /\ n <= Bytes - ret
  BY <1>1
<1> DEFINE S == {i \in cur .. Len(iov) : Sent(i) > n} \cup {Len(iov) + 1}
           next == Min(S)
           rest == n - Sent(next - 1)
<1>5. /\ cur' = next /\ ret' = ret + n
      /\ iov' = IF next > Len(iov) THEN iov
                ELSE [iov EXCEPT ![next] = [base |-> @.base + rest, len |-> @.len - rest]]
  BY DEF Advance
<1>6. next \in S /\ \A i \in S : next <= i
  <2>1. S \subseteq Nat /\ S # {}
    BY <1>1, <1>2
  <2> HIDE DEF S
  <2>2. QED
    BY <2>1, LeastMember
<1>7. next \in cur .. Len(msg) + 1 /\ (next <= Len(msg) => Sent(next) > n)
      /\ \A i \in cur .. Len(msg) : i < next => ~ (Sent(i) > n)
  <2>1. next \in cur .. Len(msg) + 1 /\ (next <= Len(msg) => Sent(next) > n)
    BY <1>1, <1>2, <1>6
  <2>2. ASSUME NEW i \in cur .. Len(msg), i < next PROVE ~ (Sent(i) > n)
    <3>1. next \in Nat /\ i \in Nat
      BY <1>1, <1>2, <2>1
    <3>2. i \notin S
      BY <1>6, <2>2, <3>1
    <3>3. QED
      BY <1>2, <3>2
  <2>3. QED
    BY <2>1, <2>2
<1> HIDE DEF next, S, rest
<1>8. ret' \in 0 .. Bytes /\ Bytes' = Bytes /\ Len(msg') = Len(msg)
  BY <1>1, <1>4, <1>5 DEF Bytes
<1>9. CASE next > Len(msg)
  <2>1. next = Len(msg) + 1 /\ iov' = iov
    BY <1>1, <1>2, <1>5, <1>7, <1>9
  <2>2. Len(msg) \in cur .. Len(msg) /\ Len(msg) < next
    BY <1>1, <1>2, <2>1
  <2>3. Sent(Len(msg)) = Bytes - ret /\ ~ (Sent(Len(msg)) > n)
    BY <1>3, <1>7, <2>2 DEF Ends
  <2>4. ret' = Bytes
    BY <1>1, <1>4, <1>5, <2>3
  <2>5. \A i \in cur' .. Len(msg') : FALSE
    BY <1>1, <1>5, <1>8, <2>1
  <2>6. cur' \in 1 .. Len(msg') + 1 /\ cur' > Len(msg')
    BY <1>1, <1>5, <1>8, <2>1
  <2>7. QED
    BY <1>1, <1>2, <1>4, <1>5, <1>8, <2>1, <2>4, <2>5, <2>6 DEF IovecInv
<1>10. CASE ~ (next > Len(msg))
  <2>1. next \in cur .. Len(msg) /\ next \in 1 .. Len(msg) /\ next \in Nat
    BY <1>1, <1>2, <1>7, <1>10, SMTT(30)
  <2>2. Sent(next - 1) \in Nat /\ iov[next].base = ret + Sent(next - 1)
    BY <2>1, SentBefore
  <2>3. iov[next].base \in Nat /\ iov[next].len \in Nat /\ Ends(next) \in Nat
        /\ iov[next].base + iov[next].len = Ends(next)
    BY <1>1, <1>2, <2>1
  <2>4. Sent(next) = Ends(next) - ret /\ Sent(next) > n
    BY <1>3, <1>7, <2>1
  <2>5. Sent(next - 1) <= n
    <3>1. CASE next = cur
      <4>1. Sent(cur - 1) = 0
        BY SentUpTo
      <4>2. QED
        BY <1>4, <3>1, <4>1
    <3>2. CASE next # cur
      <4>1. next - 1 \in cur .. Len(msg) /\ next - 1 < next
        BY <1>1, <2>1, <3>2
      <4>2. ~ (Sent(next - 1) > n)
        BY <1>7, <4>1
      <4>3. QED
        BY <1>4, <2>2, <4>2
    <3>3. QED
      BY <3>1, <3>2
  <2>6. rest \in Nat /\ rest <= iov[next].len
    <3> DEFINE behind == Sent(next - 1)
               base == iov[next].base
               len == iov[next].len
    <3>1. /\ behind \in Nat /\ base \in Nat /\ len \in Nat /\ n \in Nat /\ ret \in Nat
          /\ base = ret + behind /\ base + len - ret > n /\ behind <= n /\ rest = n - behind
      BY <1>1, <1>4, <2>2, <2>3, <2>4, <2>5, SMTT(30) DEF rest
    <3> HIDE DEF behind, base, len
    <3>2. rest \in Nat /\ rest <= len
      BY <3>1
    <3>3. QED
      BY <3>2 DEF len
  <2>7. iov[next].base + rest = ret + n
    BY <1>1, <1>4, <2>2, <2>3 DEF rest
  <2> DEFINE left == [base |-> iov[next].base + rest, len |-> iov[next].len - rest]
  <2>9. left \in [base : Nat, len : Nat]
    BY <2>3, <2>6
  <2>10. iov' = [iov EXCEPT ![next] = left]
    BY <1>2, <1>5, <1>10
  <2> HIDE DEF left
  <2>11. /\ iov' \in Seq([base : Nat, len : Nat]) /\ Len(iov') = Len(msg)
         /\ iov'[next] = left /\ \A i \in 1 .. Len(msg) : i # next => iov'[i] = iov[i]
    BY <1>2, <2>1, <2>9, <2>10
  <2>12. left.base = ret' /\ left.base + left.len = Ends(next)
    BY <1>5, <2>3, <2>6, <2>7, SMTT(30) DEF left
  <2>13. \A i \in next .. Len(msg) : iov'[i].base + iov'[i].len = Ends(i)'
    <3> SUFFICES ASSUME NEW i \in next .. Len(msg) PROVE iov'[i].base + iov'[i].len = Ends(i)'
      OBVIOUS
    <3>1. i \in cur .. Len(msg) /\ i \in 1 .. Len(msg)
      BY <1>1, <1>2, <2>1
    <3>2. Ends(i)' = Ends(i)
      <4>1. CASE i = Len(msg)
        BY <1>8, <4>1 DEF Ends
      <4>2. CASE i # Len(msg)
        <5>1. i + 1 \in 1 .. Len(msg) /\ i + 1 # next
          BY <1>1, <2>1, <3>1, <4>2
        <5>2. QED
          BY <1>8, <2>11, <4>2, <5>1 DEF Ends
      <4>3. QED
        BY <4>1, <4>2
    <3>3. CASE i = next
      BY <2>11, <2>12, <3>2, <3>3
    <3>4. CASE i # next
      BY <1>2, <2>11, <3>1, <3>2, <3>4
    <3>5. QED
      BY <3>3, <3>4
  <2>14. cur' = next /\ ~ (cur' > Len(msg')) /\ cur' \in 1 .. Len(msg') + 1
    BY <1>1, <1>5, <1>8, <1>10, <2>1
  <2>15. QED
    BY <1>1, <1>2, <1>4, <1>5, <1>8, <2>11, <2>12, <2>13, <2>14 DEF IovecInv
<1>11. QED
  BY <1>9, <1>10

LEMMA PieceSeq ==
  ASSUME NEW base \in Nat, NEW len \in Nat
  PROVE  /\ Piece(base, len) \in Seq(Nat) /\ Len(Piece(base, len)) = len
         /\ \A i \in 1 .. len : Piece(base, len)[i] = base + i
<1>1. Piece(base, len) = [i \in 1 .. len |-> base + i]
  BY DEF Piece
<1>2. Piece(base, len) \in [1 .. len -> Nat]
  BY <1>1
<1>3. QED
  BY <1>1, <1>2

\* A piece and the first bytes of the next one.
LEMMA PiecesJoin ==
  ASSUME NEW a \in Nat, NEW k \in Nat, NEW n \in 1 .. k
  PROVE  Piece(0, a) \o SubSeq(Piece(a, k), 1, n) = Piece(0, a + n)
<1> DEFINE p == Piece(0, a)
           q == Piece(a, k)
           s == SubSeq(q, 1, n)
           w == p \o s
<1>1. p \in Seq(Nat) /\ Len(p) = a /\ \A i \in 1 .. a : p[i] = 0 + i
  BY PieceSeq
<1>2. q \in Seq(Nat) /\ Len(q) = k /\ \A i \in 1 .. k : q[i] = a + i
  BY PieceSeq
<1> HIDE DEF p, q
<1>3. s \in Seq(Nat) /\ Len(s) = n /\ \A i \in 1 .. n : s[i] = a + i
  <2>1. 1 \in 1 .. Len(q) + 1 /\ n \in 1 - 1 .. Len(q) /\ n \in Nat
    BY <1>2
  <2>2. /\ SubSeq(q, 1, n) \in Seq(Nat) /\ Len(SubSeq(q, 1, n)) = n - 1 + 1
        /\ \A i \in 1 .. n - 1 + 1 : SubSeq(q, 1, n)[i] = q[1 + i - 1]
    BY <1>2, <2>1, SubSeqProperties
  <2>3. \A i \in 1 .. n : 1 + i - 1 = i /\ i \in 1 .. k
    BY <2>1
  <2>4. QED
    BY <1>2, <2>1, <2>2, <2>3
<1> HIDE DEF s
<1>4. /\ w \in Seq(Nat) /\ Len(w) = Len(p) + Len(s)
      /\ \A i \in 1 .. Len(p) : w[i] = p[i]
      /\ \A i \in 1 .. Len(s) : w[Len(p) + i] = s[i]
  <2>0. p \in Seq(Nat) /\ s \in Seq(Nat)
    BY <1>1, <1>3
  <2>1. QED
    BY <2>0, Joined
<1> HIDE DEF w
<1>5. n \in Nat /\ Len(w) = a + n
  BY <1>1, <1>3, <1>4
<1>6. \A i \in 1 .. a + n : w[i] = 0 + i
  <2> SUFFICES ASSUME NEW i \in 1 .. a + n PROVE w[i] = 0 + i
    OBVIOUS
  <2>1. CASE i <= a
    BY <1>1, <1>4, <2>1
  <2>2. CASE i > a
    <3> DEFINE j == i - a
    <3>1. j \in 1 .. n /\ a + j = i
      BY <1>5, <2>2
    <3> HIDE DEF j
    <3>2. w[a + j] = a + j
      BY <1>1, <1>3, <1>4, <3>1
    <3>3. QED
      BY <3>1, <3>2
  <2>3. QED
    BY <1>5, <2>1, <2>2
<1>7. w = [i \in 1 .. a + n |-> 0 + i]
  <2>1. DOMAIN w = 1 .. a + n /\ w = [i \in DOMAIN w |-> w[i]]
    BY <1>4, <1>5
  <2>2. QED
    BY <1>6, <2>1
<1>8. QED
  BY <1>7 DEF w, p, s, q, Piece

LEMMA SendInitial == SendInit => SendInv
<1> SUFFICES ASSUME SendInit PROVE SendInv
  OBVIOUS
<1>1. MaxBuffers \in Nat \ {0} /\ MaxLength \in Nat
  BY SendAssumption
<1>2. /\ msg \in Messages /\ iov = Buffers(msg) /\ cur = 1 /\ ret = 0 /\ wire = <<>> /\ errno = "none"
      /\ sending = "try" /\ slow = [times |-> 0, i |-> 1] /\ result = 0
  BY DEF SendInit
<1>3. PICK k \in 1 .. MaxBuffers : msg \in [1 .. k -> 0 .. MaxLength]
  BY <1>2 DEF Messages
<1>4. msg \in Seq(Nat) /\ msg \in Seq(Int) /\ Len(msg) = k /\ k \in Nat \ {0}
      /\ \A i \in 1 .. k : msg[i] \in Nat
  <2>1. k \in Nat \ {0} /\ \A i \in 1 .. k : msg[i] \in Nat
    BY <1>1, <1>3
  <2>2. msg \in [1 .. k -> Nat]
    BY <1>3, <2>1
  <2>3. QED
    BY <2>1, <2>2
<1> DEFINE f == SumsOf(msg)
<1>5. AddsUp(f, msg)
  BY <1>4, SumsAddUp
<1>6. \A i \in 0 .. k : f[i] \in Nat
  <2> SUFFICES ASSUME NEW i \in 0 .. k PROVE f[i] \in Nat
    OBVIOUS
  <2>1. i \in 0 .. Len(msg) /\ i <= i
    BY <1>4
  <2>2. QED
    BY <1>4, <2>1, SumsGrow
<1>7. Bytes = f[k] /\ Bytes \in Nat
  BY <1>4, <1>6 DEF Bytes, SumOf
<1>8. iov = [i \in 1 .. k |-> [base |-> f[i - 1], len |-> msg[i]]]
  <2>1. DOMAIN msg = 1 .. k
    BY <1>3
  <2>2. QED
    BY <1>2, <2>1 DEF Buffers
<1> HIDE DEF f
<1>9. \A i \in 1 .. k : i - 1 \in 0 .. k /\ f[i] = f[i - 1] + msg[i] /\ f[0] = 0
  BY <1>4, <1>5 DEF AddsUp
<1>10. iov \in Seq([base : Nat, len : Nat]) /\ Len(iov) = k
  <2>1. \A i \in 1 .. k : [base |-> f[i - 1], len |-> msg[i]] \in [base : Nat, len : Nat]
    BY <1>4, <1>6, <1>9
  <2> DEFINE R == [base : Nat, len : Nat]
  <2>2. iov \in [1 .. k -> R]
    BY <1>8, <2>1
  <2> HIDE DEF R
  <2>3. iov \in Seq(R) /\ Len(iov) = k
    BY <1>4, <2>2
  <2>4. QED
    BY <2>3 DEF R
<1>11. \A i \in 1 .. k : iov[i].base = f[i - 1] /\ iov[i].len = msg[i]
  BY <1>8
<1>12. \A i \in cur .. Len(msg) : iov[i].base + iov[i].len = Ends(i)
  <2> SUFFICES ASSUME NEW i \in 1 .. k PROVE iov[i].base + iov[i].len = Ends(i)
    BY <1>2, <1>4
  <2>1. iov[i].base + iov[i].len = f[i]
    BY <1>9, <1>11
  <2>2. CASE i = k
    BY <1>4, <1>7, <2>1, <2>2 DEF Ends
  <2>3. CASE i # k
    <3>1. i + 1 \in 1 .. k /\ i + 1 - 1 = i
      BY <1>4, <2>3
    <3>2. QED
      BY <1>4, <1>11, <2>1, <2>3, <3>1 DEF Ends
  <2>4. QED
    BY <2>2, <2>3
<1>13. iov[1].base = 0 /\ ~ (1 > k) /\ 1 \in 1 .. k + 1
  <2>1. 1 \in 1 .. k /\ 1 - 1 = 0
    BY <1>4
  <2>2. iov[1].base = f[0]
    BY <1>11, <2>1
  <2>3. QED
    BY <1>4, <1>9, <2>1, <2>2
<1>14. IovecInv
  BY <1>2, <1>4, <1>7, <1>10, <1>12, <1>13 DEF IovecInv
<1>15. wire = Piece(0, ret)
  BY <1>2 DEF Piece
<1>16. QED
  BY <1>2, <1>4, <1>7, <1>13, <1>14, <1>15 DEF SendInv, BrokenEnds

\* A step that leaves the iovec alone.
LEMMA IovecKept ==
  ASSUME IovecInv, UNCHANGED <<msg, iov, cur, ret>>
  PROVE  IovecInv' /\ Bytes' = Bytes
  BY DEF IovecInv, Ends, Bytes

\* sendmsg() takes some of the bytes.
LEMMA AcceptedKeeps ==
  ASSUME SendInv, sending = "try", NEW n \in 1 .. Len(Left), Accepted(n), UNCHANGED <<msg, expire>>
  PROVE  SendInv'
<1>1. /\ IovecInv /\ cur <= Len(msg) /\ slow \in [times : Nat, i : Nat]
      /\ (slow.times = 0 => wire = Piece(0, ret)) /\ result \in -1 .. Bytes /\ errno # "broken"
  BY DEF SendInv, BrokenEnds
<1>2. Len(msg) \in Nat \ {0} /\ Bytes \in Nat /\ ret \in Nat /\ ret <= Bytes
  BY <1>1, IovecFacts
<1>3. Left = Piece(ret, Bytes - ret) /\ Bytes - ret \in Nat
  BY <1>1, <1>2, LeftIsRest
<1>4. n \in 1 .. Bytes - ret
  BY <1>2, <1>3, PieceSeq
<1>5. /\ wire' = wire \o SubSeq(Left, 1, n) /\ Advance(n)
      /\ IF cur' > Len(iov) THEN SendReturn(ret') ELSE sending' = "wait" /\ UNCHANGED result
      /\ UNCHANGED <<errno, slow>>
  BY DEF Accepted
<1>6. IovecInv' /\ ret' = ret + n /\ n \in Nat \ {0}
  BY <1>1, <1>4, <1>5, AdvanceKeeps
<1>7. Bytes' = Bytes /\ Len(msg') = Len(msg) /\ Len(iov) = Len(msg)
  <2>1. Len(iov) = Len(msg)
    BY <1>1 DEF IovecInv
  <2>2. msg' = msg
    OBVIOUS
  <2>3. QED
    BY <2>1, <2>2 DEF Bytes
<1>8. slow'.times = 0 => wire' = Piece(0, ret')
  <2> SUFFICES ASSUME slow'.times = 0 PROVE wire' = Piece(0, ret')
    OBVIOUS
  <2>1. wire = Piece(0, ret)
    BY <1>1, <1>5
  <2>2. Piece(0, ret) \o SubSeq(Piece(ret, Bytes - ret), 1, n) = Piece(0, ret + n)
    BY <1>2, <1>3, <1>4, PiecesJoin
  <2>3. wire' = Piece(0, ret) \o SubSeq(Piece(ret, Bytes - ret), 1, n)
    BY <1>3, <1>5, <2>1
  <2>4. QED
    BY <1>6, <2>2, <2>3
<1>9. ret' \in 0 .. Bytes /\ ret' # 0
  BY <1>2, <1>4, <1>6
<1>10. cur' \in Nat
  BY <1>6, <1>7, <1>2 DEF IovecInv
<1>11. CASE cur' > Len(iov)
  <2>1. sending' = "done" /\ result' = ret'
    BY <1>5, <1>11 DEF SendReturn
  <2>2. result' \in -1 .. Bytes
    BY <1>2, <1>9, <2>1
  <2>3. QED
    BY <1>1, <1>5, <1>6, <1>7, <1>8, <1>9, <2>1, <2>2 DEF SendInv, BrokenEnds
<1>12. CASE ~ (cur' > Len(iov))
  <2>1. sending' = "wait" /\ result' = result /\ cur' <= Len(msg')
    BY <1>2, <1>5, <1>7, <1>10, <1>12
  <2>2. QED
    BY <1>1, <1>5, <1>6, <1>7, <1>8, <2>1 DEF SendInv, BrokenEnds
<1>13. QED
  BY <1>11, <1>12

\* A step that sends nothing, and ends the call with what was counted or goes on.
LEMMA NothingSent ==
  ASSUME SendInv, sending # "done", UNCHANGED <<msg, iov, cur, ret>>,
         slow' \in [times : Nat, i : Nat], slow'.times = 0 => slow.times = 0 /\ wire' = wire,
         \/ SendReturn(OrFailed(ret))
         \/ /\ sending' \in {"try", "slow", "wait"} /\ UNCHANGED result /\ errno' # "broken"
            /\ sending' = "slow" => slow'.times > 0
  PROVE  SendInv'
<1>1. /\ IovecInv /\ cur <= Len(msg) /\ (slow.times = 0 => wire = Piece(0, ret))
      /\ result \in -1 .. Bytes
  BY DEF SendInv
<1>2. IovecInv' /\ Bytes' = Bytes
  BY <1>1, IovecKept
<1>3. Bytes \in Nat /\ ret \in Nat /\ ret <= Bytes
  BY <1>1, IovecFacts
<1>4. slow'.times = 0 => wire' = Piece(0, ret')
  BY <1>1
<1>5. CASE SendReturn(OrFailed(ret))
  <2>1. sending' = "done" /\ result' = IF ret = 0 THEN -1 ELSE ret
    BY <1>5 DEF SendReturn, OrFailed
  <2>2. result' \in -1 .. Bytes
    BY <1>3, <2>1
  <2>3. QED
    BY <1>2, <1>4, <2>1, <2>2 DEF SendInv, BrokenEnds
<1>6. CASE /\ sending' \in {"try", "slow", "wait"} /\ UNCHANGED result /\ errno' # "broken"
           /\ sending' = "slow" => slow'.times > 0
  <2>1. cur' <= Len(msg')
    BY <1>1
  <2>2. QED
    BY <1>1, <1>2, <1>4, <1>6, <2>1 DEF SendInv, BrokenEnds
<1>7. QED
  BY <1>5, <1>6

LEMMA TrySendvKeeps ==
  ASSUME SendInv, socket_try_sendv
  PROVE  SendInv'
<1>1. sending = "try" /\ errno # "broken" /\ slow \in [times : Nat, i : Nat]
      /\ (sending = "slow" => slow.times > 0)
  BY DEF SendInv, BrokenEnds, socket_try_sendv
<1>2. CASE \E n \in 1 .. Len(Left) : Accepted(n)
  BY <1>1, <1>2, AcceptedKeeps DEF socket_try_sendv
<1>3. ASSUME NEW e, e = "broken" \/ e # "broken", Refused(e) PROVE SendInv'
  <2>1. /\ errno' = IF e # "broken" /\ expire.past THEN "timedout" ELSE e
        /\ IF e = "broken" \/ expire.past THEN SendReturn(OrFailed(ret))
           ELSE sending' = "wait" /\ UNCHANGED result
        /\ UNCHANGED <<iov, cur, ret, wire, slow>> /\ UNCHANGED msg
    BY <1>3 DEF Refused, socket_try_sendv
  <2>2. CASE e = "broken" \/ expire.past
    BY <1>1, <2>1, <2>2, NothingSent
  <2>3. CASE ~ (e = "broken" \/ expire.past)
    <3>1. sending' = "wait" /\ UNCHANGED result /\ errno' # "broken"
      BY <2>1, <2>3
    <3>2. QED
      BY <1>1, <2>1, <3>1, NothingSent
  <2>4. QED
    BY <2>2, <2>3
<1>4. CASE Left = <<>> /\ Refused(errno)
  BY <1>3, <1>4
<1>5. CASE \E e \in {"again", "broken"} : Refused(e)
  BY <1>3, <1>5
<1>6. CASE /\ sending' = "slow" /\ errno' = "size" /\ slow.times < MaxSlow
           /\ slow' = [times |-> slow.times + 1, i |-> cur]
           /\ UNCHANGED <<iov, cur, ret, wire, result>>
  <2>0. cur \in Nat
    BY IovecFacts DEF SendInv
  <2>1. slow' \in [times : Nat, i : Nat] /\ slow'.times > 0 /\ ~ (slow'.times = 0)
    BY <1>1, <1>6, <2>0
  <2>2. UNCHANGED <<msg, iov, cur, ret>> /\ UNCHANGED result /\ errno' # "broken" /\ sending # "done"
    BY <1>1, <1>6 DEF socket_try_sendv
  <2>3. QED
    BY <1>6, <2>1, <2>2, NothingSent
<1>7. QED
  BY <1>2, <1>4, <1>5, <1>6 DEF socket_try_sendv

LEMMA SlowKeeps ==
  ASSUME SendInv, try_sendv_slow
  PROVE  SendInv'
<1>1. sending = "slow" /\ errno # "broken" /\ slow \in [times : Nat, i : Nat]
      /\ slow.times > 0 /\ ~ (slow.times = 0) /\ UNCHANGED <<msg, iov, cur, ret, expire>>
  BY DEF SendInv, BrokenEnds, try_sendv_slow
<1>2. slow'.times = slow.times /\ slow' \in [times : Nat, i : Nat]
  <2>1. slow' = [slow EXCEPT !.i = @ + 1] \/ slow' = slow
    BY DEF try_sendv_slow
  <2>2. QED
    BY <1>1, <2>1
<1>3. \/ SendReturn(OrFailed(ret))
      \/ sending' \in {"slow", "wait"} /\ UNCHANGED result /\ errno' # "broken"
  BY <1>1 DEF try_sendv_slow
<1>4. QED
  BY <1>1, <1>2, <1>3, NothingSent

LEMMA WaitKeeps ==
  ASSUME SendInv, socket_wait
  PROVE  SendInv'
<1>1. sending = "wait" /\ errno # "broken" /\ slow \in [times : Nat, i : Nat]
      /\ UNCHANGED <<msg, iov, cur, ret, wire, expire, slow>>
  BY DEF SendInv, BrokenEnds, socket_wait
<1>2. \/ SendReturn(OrFailed(ret))
      \/ sending' = "try" /\ UNCHANGED result /\ errno' # "broken"
  BY <1>1 DEF socket_wait
<1>3. QED
  BY <1>1, <1>2, NothingSent

LEMMA SendStep == SendInv /\ [SendNext]_sendVars => SendInv'
<1> SUFFICES ASSUME SendInv, [SendNext]_sendVars PROVE SendInv'
  OBVIOUS
<1>1. CASE DeadlinePasses \/ UNCHANGED sendVars
  <2>1. UNCHANGED <<msg, iov, cur, ret, wire, errno, sending, slow, result>>
    BY <1>1 DEF DeadlinePasses, sendVars
  <2>2. IovecInv' /\ Bytes' = Bytes
    BY <2>1, IovecKept DEF SendInv
  <2>3. QED
    BY <2>1, <2>2 DEF SendInv, BrokenEnds
<1>2. QED
  BY <1>1, TrySendvKeeps, SlowKeeps, WaitKeeps DEF SendNext

\* What mongoc_socket_sendv reports is what is on the wire, the message from
\* its start, for every message, wherever the kernel cut it and however it ended.
THEOREM SentAsCountedAlways == SendSpec => []SentAsCounted
<1>1. SendInit => SendInv
  BY SendInitial
<1>2. SendInv /\ [SendNext]_sendVars => SendInv'
  BY SendStep
<1>3. SendInv => SentAsCounted
  <2> SUFFICES ASSUME SendInv PROVE SentAsCounted
    OBVIOUS
  <2>1. IovecInv
    BY DEF SendInv
  <2>2. /\ Len(msg) \in Nat \ {0} /\ Bytes \in Nat /\ ret \in Nat /\ ret <= Bytes
        /\ \A i \in 1 .. Len(msg) : iov[i].base \in Nat /\ iov[i].len \in Nat
    BY <2>1, IovecFacts
  <2>3. DOMAIN iov = 1 .. Len(msg) /\ DOMAIN msg = 1 .. Len(msg) /\ Len(iov) = Len(msg)
    BY <2>1 DEF IovecInv
  <2>4. SendTypeOK
    BY <2>1, <2>2, <2>3 DEF SendTypeOK, SendInv, IovecInv, Bytes
  <2>5. Len(Piece(0, ret)) = ret /\ (Piece(0, ret) = <<>> <=> ret = 0)
    <3>1. Len(Piece(0, ret)) = ret
      BY <2>2, PieceSeq
    <3>2. Piece(0, 0) = <<>>
      BY DEF Piece
    <3>3. QED
      BY <3>1, <3>2
  <2>6. WireIsPrefix
    BY <2>5 DEF WireIsPrefix, SendInv
  <2>7. ResultCounts
    BY <2>5 DEF ResultCounts, SendInv
  <2>8. QED
    BY <2>4, <2>6, <2>7 DEF SentAsCounted, SendInv
<1>4. QED
  BY <1>1, <1>2, <1>3, PTL DEF SendSpec

-----------------------------------------------------------------------------
(* BsonWriter.                                                               *)

LEMMA SumOfAppended ==
  ASSUME NEW s \in Seq(Nat), NEW x \in Nat
  PROVE  SumOf(Append(s, x)) = SumOf(s) + x /\ SumOf(s) \in Nat
<1> DEFINE t == Append(s, x)
           f == SumsOf(s)
           k == Len(s)
           g == [i \in 0 .. k + 1 |-> IF i = k + 1 THEN f[k] + x ELSE f[i]]
<1>1. s \in Seq(Int) /\ k \in Nat /\ \A i \in 1 .. k : s[i] \in Nat
  OBVIOUS
<1>2. AddsUp(f, s)
  BY <1>1, SumsAddUp
<1>3. t \in Seq(Int) /\ Len(t) = k + 1 /\ t[k + 1] = x /\ \A i \in 1 .. k : t[i] = s[i]
  OBVIOUS
<1>4. SumOf(s) = f[k] /\ f[k] \in Nat
  <2>1. k \in 0 .. Len(s) /\ k <= k
    BY <1>1
  <2>2. QED
    BY <2>1, SumsGrow DEF SumOf
<1> HIDE DEF f, t, k
<1>5. /\ \A i \in 0 .. k : f[i] \in Int
      /\ f[0] = 0
      /\ \A i \in 1 .. k : f[i] = f[i - 1] + s[i]
  BY <1>2 DEF AddsUp, k
<1>6. /\ \A i \in 0 .. k : g[i] = f[i]
      /\ g[k + 1] = f[k] + x /\ g \in [0 .. k + 1 -> Int]
  BY <1>1, <1>4, <1>5
<1> HIDE DEF g
<1>7. \A i \in 1 .. k + 1 : g[i] = g[i - 1] + t[i]
  <2> SUFFICES ASSUME NEW i \in 1 .. k + 1 PROVE g[i] = g[i - 1] + t[i]
    OBVIOUS
  <2>1. CASE i = k + 1
    <3>1. i - 1 = k /\ k \in 0 .. k
      BY <1>1, <2>1
    <3>2. QED
      BY <1>3, <1>6, <2>1, <3>1
  <2>2. CASE i # k + 1
    <3>1. i \in 1 .. k /\ i \in 0 .. k /\ i - 1 \in 0 .. k
      BY <1>1, <2>2
    <3>2. QED
      BY <1>3, <1>5, <1>6, <3>1
  <2>3. QED
    BY <2>1, <2>2
<1>8. g[0] = 0
  <2>1. 0 \in 0 .. k
    BY <1>1
  <2>2. QED
    BY <1>5, <1>6, <2>1
<1>9. AddsUp(g, t)
  BY <1>3, <1>6, <1>7, <1>8 DEF AddsUp
<1>10. SumOf(t) = g[k + 1]
  BY <1>3, <1>9, SumsOfUnique
<1>11. QED
  BY <1>4, <1>6, <1>10 DEF t

\* The documents lie one behind the other, within a buffer that is large enough
\* for the one that is open.
WriterInv ==
  /\ {start, buflen, offset, b, top} \subseteq Nat
  /\ answered \in {"none", "true", "false", "crash"} /\ ready \in BOOLEAN
  /\ answered # "crash" => (ready <=> b = 0)
  /\ written \in Seq(Nat) /\ offset = start + SumOf(written)
  /\ answered # "crash" /\ (b > 0 \/ written # <<>>) => offset + b <= buflen
  /\ top <= buflen + 1

\* A product is no smaller than its second factor.
LEMMA ProductGrows ==
  ASSUME NEW x \in Nat \ {0}, NEW k \in Nat
  PROVE  x * k \in Nat /\ x * k >= k
  BY SMT

\* bson_writer_begin doubles the buffer until an empty document fits.
LEMMA DoubledFits ==
  ASSUME NEW n \in Nat, NEW need \in Nat, NEW r \in Powers, need <= r
  PROVE  doubled(n, need) \in Nat /\ doubled(n, need) >= need /\ doubled(n, need) >= n
<1>1. CASE n >= need
  BY <1>1 DEF doubled
<1>2. CASE ~ (n >= need)
  <2> DEFINE first == IF n = 0 THEN FirstLen ELSE n
             S == {k \in Powers : first * k >= need}
             least == Min(S)
  <2>1. first \in Nat \ {0} /\ Powers \subseteq Nat \ {0} /\ r \in Nat
    BY PowersAssumption, WriterAssumption
  <2>2. doubled(n, need) = first * least
    BY <1>2 DEF doubled
  <2> HIDE DEF first
  <2>3. r \in S
    <3>1. first * r \in Nat /\ first * r >= r
      BY <2>1, ProductGrows
    <3>2. first * r >= need
      BY <2>1, <3>1
    <3>3. QED
      BY <3>2
  <2>4. S \subseteq Nat
    BY <2>1
  <2>5. least \in S
    BY <2>3, <2>4, LeastMember
  <2> HIDE DEF least
  <2>6. least \in Nat /\ first * least >= need
    BY <2>1, <2>5
  <2>7. first * least \in Nat
    BY <2>1, <2>6, ProductGrows
  <2> DEFINE d == first * least
  <2>8. d \in Nat /\ d >= need /\ doubled(n, need) = d
    BY <2>2, <2>6, <2>7
  <2> HIDE DEF d
  <2>9. QED
    BY <1>2, <2>8
<1>3. QED
  BY <1>1, <1>2

LEMMA MaxOfTwo ==
  ASSUME NEW x \in Nat, NEW y \in Nat
  PROVE  Max({x, y}) \in Nat /\ Max({x, y}) = IF x >= y THEN x ELSE y
<1> DEFINE big == IF x >= y THEN x ELSE y
<1>1. big \in {x, y} /\ \A z \in {x, y} : big >= z
  OBVIOUS
<1>2. Max({x, y}) \in {x, y} /\ \A z \in {x, y} : Max({x, y}) >= z
  BY <1>1, Zenon DEF Max
<1>3. Max({x, y}) \in Nat /\ Max({x, y}) >= big /\ big >= Max({x, y})
  BY <1>1, <1>2
<1>4. QED
  BY <1>3

LEMMA WriterInitial == WriterInit => WriterInv
<1> SUFFICES ASSUME WriterInit PROVE WriterInv
  OBVIOUS
<1>1. buflen \in Nat /\ start \in Nat /\ offset = start /\ b = 0 /\ ready = TRUE
      /\ written = <<>> /\ top = 0 /\ answered = "none"
  BY WriterAssumption DEF WriterInit
<1> DEFINE none == << >>
           zero == [i \in 0 .. 0 |-> 0]
<1>2. none \in Seq(Int) /\ Len(none) = 0 /\ none \in Seq(Nat)
  OBVIOUS
<1>3. AddsUp(zero, none)
  BY <1>2 DEF AddsUp
<1>4. SumOf(none) = 0
  BY <1>2, <1>3, SumsOfUnique
<1>5. SumOf(written) = 0 /\ written \in Seq(Nat)
  BY <1>1, <1>2, <1>4
<1>6. QED
  BY <1>1, <1>5 DEF WriterInv

LEMMA WriterStep == WriterInv /\ [WriterNext]_writerVars => WriterInv'
<1> SUFFICES ASSUME WriterInv, [WriterNext]_writerVars PROVE WriterInv'
  OBVIOUS
<1>1. /\ start \in Nat /\ buflen \in Nat /\ offset \in Nat /\ b \in Nat /\ top \in Nat
      /\ ready \in BOOLEAN /\ (answered # "crash" => (ready <=> b = 0))
      /\ answered \in {"none", "true", "false", "crash"}
      /\ written \in Seq(Nat) /\ offset = start + SumOf(written)
      /\ (answered # "crash" /\ (b > 0 \/ written # <<>>) => offset + b <= buflen)
      /\ top <= buflen + 1
  BY DEF WriterInv
<1>2. MaxLen \in Nat /\ FieldSizes \subseteq Nat \ {0} /\ Powers \subseteq Nat \ {0}
  BY WriterAssumption, PowersAssumption
<1>3. CASE begin
  <2> DEFINE need == offset + 5
             grown == doubled(buflen, need)
  <2>1. PICK r \in Powers : MaxLen + 5 <= r
    BY WriterAssumption
  <2>2. ready = TRUE /\ answered # "crash" /\ offset < MaxLen /\ b = 0
        /\ UNCHANGED <<can, start, offset, written>>
    BY <1>1, <1>3 DEF begin
  <2>3. need \in Nat /\ need <= r
    BY <1>1, <1>2, <2>1, <2>2
  <2>4. grown \in Nat /\ grown >= need /\ grown >= buflen
    BY <1>1, <2>3, DoubledFits
  <2> DEFINE high == Max({top, cleared(offset)})
  <2>5. high \in Nat /\ high <= grown + 1
    <3>1. cleared(offset) \in Nat /\ cleared(offset) = need + 1
      BY <1>1 DEF cleared
    <3>2. high \in Nat /\ high = IF top >= cleared(offset) THEN top ELSE cleared(offset)
      BY <1>1, <3>1, MaxOfTwo
    <3> HIDE DEF high, grown, need
    <3>3. QED
      BY <1>1, <2>3, <2>4, <3>1, <3>2
  <2>6. \/ answered' = "false" /\ UNCHANGED <<buflen, b, ready, top>>
        \/ answered' = "crash" /\ ready' = FALSE /\ buflen' = grown /\ UNCHANGED <<b, top>>
        \/ answered' = "true" /\ ready' = FALSE /\ b' = 5 /\ buflen' = grown /\ top' = high
    BY <1>3 DEF begin
  <2>7. need = offset + 5
    OBVIOUS
  <2> HIDE DEF need, grown, high
  <2> DEFINE sum == SumOf(written)
  <2>8a. offset' = start' + sum' /\ written' \in Seq(Nat) /\ start' \in Nat /\ offset' \in Nat
    BY <1>1, <2>2
  <2>8. CASE answered' = "false" /\ UNCHANGED <<buflen, b, ready, top>>
    <3>1. (answered' # "crash" => (ready' <=> b' = 0)) /\ ready' \in BOOLEAN /\ b' \in Nat
      BY <1>1, <2>2, <2>8
    <3>2. buflen' \in Nat /\ top' \in Nat /\ top' <= buflen' + 1
      BY <1>1, <2>8
    <3>3. b' > 0 \/ written' # <<>> => offset' + b' <= buflen'
      BY <1>1, <2>2, <2>8
    <3>4. QED
      BY <2>8a, <2>8, <3>1, <3>2, <3>3 DEF WriterInv
  <2>9. CASE answered' = "crash" /\ ready' = FALSE /\ buflen' = grown /\ UNCHANGED <<b, top>>
    <3>1. buflen' \in Nat /\ top' \in Nat /\ top' <= buflen' + 1 /\ b' \in Nat
      BY <1>1, <2>4, <2>9
    <3>2. QED
      BY <2>8a, <2>9, <3>1 DEF WriterInv
  <2>10. CASE answered' = "true" /\ ready' = FALSE /\ b' = 5 /\ buflen' = grown /\ top' = high
    <3>1. buflen' \in Nat /\ top' \in Nat /\ top' <= buflen' + 1 /\ b' \in Nat /\ b' # 0
      BY <2>4, <2>5, <2>10
    <3>2. offset' + b' <= buflen'
      BY <1>1, <2>2, <2>4, <2>7, <2>10
    <3>3. (ready' <=> b' = 0) /\ ready' \in BOOLEAN
      BY <2>10, <3>1
    <3>4. QED
      BY <2>8a, <2>10, <3>1, <3>2, <3>3 DEF WriterInv
  <2>11. QED
    BY <2>6, <2>8, <2>9, <2>10
<1>4. CASE \E n \in FieldSizes : append_field(n)
  <2>1. PICK n \in FieldSizes : append_field(n)
    BY <1>4
  <2> DEFINE req == offset + b + n
             pw == next_power_of_two(req)
             high == Max({top, req})
  <2>2. PICK r \in Powers : MaxLen + n <= r
    BY WriterAssumption
  <2>3. b > 0 /\ offset + b < MaxLen /\ answered # "crash"
        /\ UNCHANGED <<can, start, offset, ready, written>>
    BY <2>1 DEF append_field
  <2>4. n \in Nat /\ r \in Nat /\ req \in Nat /\ req <= r /\ b + n \in Nat /\ b + n > 0
        /\ req = offset + (b + n)
    BY <1>1, <1>2, <2>2, <2>3, SMTT(30)
  <2>5. pw \in Nat /\ req <= pw
    BY <2>4, NextPower
  <2>6. high \in Nat /\ high = IF top >= req THEN top ELSE req
    BY <1>1, <2>4, MaxOfTwo
  <2>7. \/ req <= buflen /\ b' = b + n /\ top' = high /\ UNCHANGED <<buflen, answered>>
        \/ ~ (req <= buflen) /\ b' = b + n /\ top' = high /\ buflen' = pw /\ UNCHANGED answered
        \/ answered' = "crash" /\ UNCHANGED <<buflen, b, top>>
        \/ UNCHANGED <<buflen, b, top, answered>>
    BY <2>1 DEF append_field
  <2> HIDE DEF req, pw, high
  <2>8. CASE req <= buflen /\ b' = b + n /\ top' = high /\ UNCHANGED <<buflen, answered>>
    <3>1. top \in Nat /\ buflen \in Nat /\ top <= buflen + 1
      BY <1>1 DEF WriterInv
    <3>2. buflen' \in Nat /\ top' \in Nat /\ top' <= buflen' + 1 /\ b' \in Nat /\ b' > 0 /\ b' # 0
      BY <2>4, <2>6, <2>8, <3>1
    <3>3. offset' + b' <= buflen'
      BY <2>3, <2>4, <2>8
    <3>4. QED
      BY <1>1, <2>3, <2>8, <3>2, <3>3 DEF WriterInv
  <2>9. CASE ~ (req <= buflen) /\ b' = b + n /\ top' = high /\ buflen' = pw /\ UNCHANGED answered
    <3>1. top \in Nat /\ buflen \in Nat /\ top <= buflen + 1
      BY <1>1 DEF WriterInv
    <3>2. buflen' \in Nat /\ top' \in Nat /\ top' <= buflen' + 1 /\ b' \in Nat /\ b' > 0 /\ b' # 0
      BY <2>4, <2>5, <2>6, <2>9, <3>1
    <3>3. offset' + b' <= buflen'
      BY <2>3, <2>4, <2>5, <2>9
    <3>4. QED
      BY <1>1, <2>3, <2>9, <3>2, <3>3 DEF WriterInv
  <2>10. CASE answered' = "crash" /\ UNCHANGED <<buflen, b, top>>
    BY <1>1, <2>3, <2>10 DEF WriterInv
  <2>11. CASE UNCHANGED <<buflen, b, top, answered>>
    BY <1>1, <2>3, <2>11 DEF WriterInv
  <2>12. QED
    BY <2>7, <2>8, <2>9, <2>10, <2>11
<1>5. CASE end
  <2>1. /\ ~ready /\ answered # "crash" /\ offset' = offset + b /\ b' = 0 /\ ready' = TRUE
        /\ written' = Append(written, b) /\ UNCHANGED <<can, start, buflen, top, answered>>
    BY <1>5 DEF end
  <2>2. b > 0
    BY <1>1, <2>1
  <2>3. written' \in Seq(Nat) /\ SumOf(written') = SumOf(written) + b /\ SumOf(written) \in Nat
    <3>1. written \in Seq(Nat) /\ b \in Nat
      BY <1>1
    <3>2. SumOf(Append(written, b)) = SumOf(written) + b /\ SumOf(written) \in Nat
      BY <3>1, SumOfAppended
    <3>3. Append(written, b) \in Seq(Nat)
      BY <3>1
    <3>4. QED
      BY <2>1, <3>2, <3>3
  <2>4. offset' = start + SumOf(written')
    BY <1>1, <2>1, <2>3
  <2>5. QED
    BY <1>1, <2>1, <2>2, <2>3, <2>4 DEF WriterInv
<1>6. CASE rollback
  <2>1. /\ answered # "crash" /\ b' = 0 /\ ready' = TRUE
        /\ UNCHANGED <<can, start, buflen, offset, written, top, answered>>
    BY <1>6 DEF rollback
  <2>2. QED
    BY <1>1, <2>1 DEF WriterInv
<1>7. CASE UNCHANGED writerVars
  BY <1>1, <1>7 DEF WriterInv, writerVars
<1>8. QED
  BY <1>3, <1>4, <1>5, <1>6, <1>7 DEF WriterNext

\* The documents of a writer adjoin from its first offset and fit its buffer,
\* for all lengths, whatever is begun, extended, ended, rolled back or refused.
THEOREM WrittenPackedAlways == WriterSpec => []WrittenPacked
<1>1. WriterInit => WriterInv
  BY WriterInitial
<1>2. WriterInv /\ [WriterNext]_writerVars => WriterInv'
  BY WriterStep
<1>3. WriterInv => WrittenPacked
  BY DEF WriterInv, WrittenPacked, WriterTypeOK, DocumentsPacked, LengthFits, OneByteAtMost, get_length
<1>4. QED
  BY <1>1, <1>2, <1>3, PTL DEF WriterSpec

-----------------------------------------------------------------------------
(* BsonReader: the documents of a file, however it is delivered.           *)

\* What the code relies on of the source: where its documents lie and that it
\* may be cut short.
FileFacts ==
  /\ source.docs \in Seq(Nat) /\ \A i \in 1 .. Len(source.docs) : source.docs[i] >= 5
  /\ source.starts = [i \in 1 .. Len(source.docs) |-> 1 + SumsOf(source.docs)[i - 1]]
  /\ source.full = SumOf(source.docs)
  /\ source.size \in Nat /\ source.bad \in 0 .. Len(source.docs)

\* The reader's memory as the code declares it.
Readers ==
  [data : Seq(Nat), len : Nat, offset : Nat, end : Nat, bytes_read : Nat,
   done : BOOLEAN, failed : BOOLEAN]

\* The buffer of a handle reader holds the last bytes that were read, in order.
Buffered(f, r) ==
  /\ r \in Readers /\ Len(r.data) = r.len /\ r.len >= 4
  /\ r.offset <= r.end /\ r.end <= r.len /\ r.end <= r.bytes_read /\ r.bytes_read <= f.size
  /\ \A j \in 1 .. r.end : r.data[j] = r.bytes_read - r.end + j

\* The end of a file without damage is met with nothing left over.
EndsWell(f, r, n) ==
  r.done /\ ~ r.failed /\ f.size = f.full => r.bytes_read = 0 \/ n = Len(f.docs)

Returned(i) ==
  /\ out[i] = [at |-> 1 + SumsOf(source.docs)[i - 1], len |-> source.docs[i]]
  /\ i # source.bad /\ SumsOf(source.docs)[i] <= source.size

\* What was returned is the documents up to where the reader stands.
ReaderInv ==
  /\ FileFacts
  /\ flavour \in {"handle", "data"} /\ asking \in {"idle", "reading", "gone"}
  /\ reader \in Readers /\ Len(reader.data) = reader.len
  /\ out \in Seq([at : Nat, len : Nat]) /\ Len(out) <= Len(source.docs)
  /\ \A i \in 1 .. Len(out) : Returned(i)
  /\ tell = SumsOf(source.docs)[Len(out)]
  /\ flavour = "handle" =>
       /\ Buffered(source, reader)
       /\ EndsWell(source, reader, Len(out))
       /\ last.ret = "null" /\ last.eof => reader.done /\ ~ reader.failed
  /\ flavour = "data" /\ last.ret = "null" /\ last.eof => reader.offset = source.size

\* The sums of lengths above 0 name their positions.
LEMMA SumsOnce ==
  ASSUME NEW s \in Seq(Nat), \A k \in 1 .. Len(s) : s[k] >= 5,
         NEW i \in 0 .. Len(s), NEW j \in 0 .. Len(s), i < j
  PROVE  SumsOf(s)[i] + 5 <= SumsOf(s)[j]
<1>1. Len(s) \in Nat /\ j \in 1 .. Len(s) /\ j - 1 \in 0 .. Len(s) /\ i <= j - 1
      /\ s \in Seq(Int) /\ s[j] \in Nat /\ s[j] >= 5
  OBVIOUS
<1>2. SumsOf(s)[i] <= SumsOf(s)[j - 1] /\ SumsOf(s)[i] \in Nat
  BY <1>1, SumsGrow
<1>3. SumsOf(s)[j] = SumsOf(s)[j - 1] + s[j]
  BY <1>1, SumsAddUp DEF AddsUp
<1>4. SumsOf(s)[j - 1] \in Nat
  BY <1>1, SumsGrow, SMTT(30)
<1>5. QED
  BY <1>1, <1>2, <1>3, <1>4

\* Where the documents of the source start and end.
LEMMA SourceSums ==
  ASSUME FileFacts, NEW i \in 0 .. Len(source.docs)
  PROVE  /\ Len(source.docs) \in Nat /\ SumsOf(source.docs)[i] \in Nat
         /\ SumsOf(source.docs)[0] = 0
         /\ SumsOf(source.docs)[i] <= source.full
         /\ source.full = SumsOf(source.docs)[Len(source.docs)]
         /\ i < Len(source.docs) =>
              /\ i + 1 \in 1 .. Len(source.docs) /\ source.docs[i + 1] \in Nat
              /\ source.docs[i + 1] >= 5
              /\ DocAt(source, i + 1) = 1 + SumsOf(source.docs)[i]
              /\ SumsOf(source.docs)[i + 1] = SumsOf(source.docs)[i] + source.docs[i + 1]
<1> DEFINE d == source.docs
           S == SumsOf(d)
<1>1. d \in Seq(Nat) /\ d \in Seq(Int) /\ Len(d) \in Nat /\ source.full = S[Len(d)]
      /\ (\A k \in 1 .. Len(d) : d[k] >= 5 /\ d[k] \in Nat)
      /\ source.starts = [k \in 1 .. Len(d) |-> 1 + S[k - 1]]
  BY DEF FileFacts, SumOf
<1> HIDE DEF d
<1>2. AddsUp(S, d)
  BY <1>1, SumsAddUp
<1>3. S[i] \in Nat /\ S[i] <= S[Len(d)]
  <2>1. i \in 0 .. Len(d) /\ Len(d) \in 0 .. Len(d) /\ i <= Len(d)
    BY <1>1 DEF d
  <2>2. QED
    BY <1>1, <2>1, SumsGrow
<1> HIDE DEF S
<1>4. S[0] = 0 /\ \A k \in 1 .. Len(d) : S[k] = S[k - 1] + d[k]
  BY <1>2 DEF AddsUp
<1>5. ASSUME i < Len(d)
      PROVE  /\ i + 1 \in 1 .. Len(d) /\ d[i + 1] \in Nat /\ d[i + 1] >= 5
             /\ DocAt(source, i + 1) = 1 + S[i] /\ S[i + 1] = S[i] + d[i + 1]
  <2>1. i + 1 \in 1 .. Len(d) /\ i \in Int
    BY <1>1, <1>5 DEF d
  <2>2. (i + 1) - 1 = i
    BY <2>1
  <2>3. DocAt(source, i + 1) = 1 + S[(i + 1) - 1]
    BY <1>1, <2>1 DEF DocAt
  <2>4. S[i + 1] = S[(i + 1) - 1] + d[i + 1]
    BY <1>4, <2>1
  <2>5. QED
    BY <1>1, <2>1, <2>2, <2>3, <2>4
<1>6. QED
  BY <1>1, <1>3, <1>4, <1>5 DEF d, S

\* Four bytes from where a document starts are read as its length; a length
\* of 5 or more is read only there.
LEMMA LengthRead ==
  ASSUME FileFacts, NEW n \in 0 .. Len(source.docs),
         NEW cells, cells = [j \in 1 .. 4 |-> SumsOf(source.docs)[n] + j]
  PROVE  IF n < Len(source.docs) THEN Blen(source, cells) = source.docs[n + 1]
         ELSE Blen(source, cells) = 0
<1> DEFINE d == source.docs
           S == SumsOf(d)
           K == Len(d)
           starts == {i \in DOMAIN d : cells = [j \in 1 .. 4 |-> DocAt(source, i) + j - 1]}
<1>1. d \in Seq(Nat) /\ K \in Nat /\ (\A k \in 1 .. K : d[k] >= 5) /\ DOMAIN d = 1 .. K
  BY DEF FileFacts
<1>2. \A i \in 0 .. K : S[i] \in Nat
  BY <1>1, SourceSums
<1>3. \A i \in 1 .. K : i - 1 \in 0 .. K /\ DocAt(source, i) = 1 + S[i - 1]
  <2>1. TAKE i \in 1 .. K
  <2>2. i - 1 \in 0 .. K /\ i - 1 < K /\ (i - 1) + 1 = i
    BY <1>1
  <2>3. DocAt(source, (i - 1) + 1) = 1 + S[i - 1]
    BY <1>1, <2>2, SourceSums
  <2>4. QED
    BY <2>2, <2>3
<1>4. \A i \in 0 .. K, j \in 0 .. K : i < j => S[i] + 5 <= S[j]
  BY <1>1, SumsOnce
<1> HIDE DEF S
<1>5. \A i \in 1 .. K : cells = [j \in 1 .. 4 |-> DocAt(source, i) + j - 1] => i = n + 1
  <2>1. SUFFICES ASSUME NEW i \in 1 .. K, cells = [j \in 1 .. 4 |-> DocAt(source, i) + j - 1]
                 PROVE  i = n + 1
    OBVIOUS
  <2>2. cells[1] = S[n] + 1
    BY DEF S
  <2>3. cells[1] = DocAt(source, i) + 1 - 1
    BY <2>1
  <2>4. DocAt(source, i) = 1 + S[i - 1] /\ i - 1 \in 0 .. K /\ S[i - 1] \in Nat /\ n \in 0 .. K
        /\ S[n] \in Nat
    BY <1>2, <1>3
  <2>5. S[n] = S[i - 1]
    BY <2>2, <2>3, <2>4
  <2>6. (i - 1 < n => S[i - 1] + 5 <= S[n]) /\ (n < i - 1 => S[n] + 5 <= S[i - 1])
    BY <1>4, <2>4
  <2>7. ~ (i - 1 < n) /\ ~ (n < i - 1)
    BY <2>4, <2>5, <2>6
  <2>8. QED
    BY <1>1, <2>4, <2>7
<1>6. starts \subseteq {n + 1}
  BY <1>1, <1>5
<1>7. ASSUME n < K PROVE n + 1 \in starts
  <2>1. n + 1 \in 1 .. K /\ (n + 1) - 1 = n /\ S[n] \in Nat
    BY <1>1, <1>2, <1>7
  <2>2. DocAt(source, n + 1) = 1 + S[n]
    BY <1>3, <2>1
  <2>3. \A j \in 1 .. 4 : S[n] + j = DocAt(source, n + 1) + j - 1
    BY <2>1, <2>2
  <2>4. cells = [j \in 1 .. 4 |-> S[n] + j]
    BY DEF S
  <2>5. cells = [j \in 1 .. 4 |-> DocAt(source, n + 1) + j - 1]
    BY <2>3, <2>4
  <2>6. QED
    BY <1>1, <2>1, <2>5
<1>8. n + 1 \in starts => n < K
  <2>1. n + 1 \in starts => n + 1 \in 1 .. K
    BY <1>1
  <2>2. QED
    BY <1>1, <2>1
<1>9. Blen(source, cells) = IF starts = {} THEN 0 ELSE d[CHOOSE i \in starts : TRUE]
  BY DEF Blen
<1> HIDE DEF starts
<1>10. CASE n < K
  <2>1. starts = {n + 1}
    BY <1>6, <1>7, <1>10
  <2>2. (CHOOSE i \in starts : TRUE) = n + 1
    BY <2>1
  <2>3. Blen(source, cells) = d[n + 1]
    BY <1>9, <2>1, <2>2
  <2>4. QED
    BY <1>10, <2>3
<1>11. CASE ~ (n < K)
  <2>1. starts = {}
    BY <1>6, <1>8, <1>11
  <2>2. QED
    BY <1>9, <1>11, <2>1
<1>12. QED
  BY <1>10, <1>11

MovedTo(r, x, k) == [r EXCEPT !.data = x, !.end = k, !.offset = 0]

LEMMA MovedFields ==
  ASSUME NEW r \in Readers, NEW x \in Seq(Nat), NEW k \in Nat, NEW q, q = MovedTo(r, x, k)
  PROVE  /\ q \in Readers /\ q.data = x /\ q.end = k /\ q.offset = 0
         /\ q.bytes_read = r.bytes_read /\ q.len = r.len /\ q.done = r.done /\ q.failed = r.failed
  BY DEF Readers, MovedTo

\* Nothing but the buffer and the counters over it is changed when the bytes
\* not yet returned are moved to its front.
LEMMA MovedBuffered ==
  ASSUME NEW f, NEW r, Buffered(f, r), f.size \in Nat, NEW q, q = Moved(r)
  PROVE  /\ Buffered(f, q) /\ q.len = r.len /\ q.bytes_read = r.bytes_read
         /\ q.offset = 0 /\ q.end = r.end - r.offset /\ q.done = r.done /\ q.failed = r.failed
<1> DEFINE o == r.offset
           e == r.end
           n == r.len
           head == SubSeq(r.data, o + 1, e)
           tail == SubSeq(r.data, e - o + 1, n)
           moved == head \o tail
<1>1. r \in Readers /\ r.data \in Seq(Nat) /\ Len(r.data) = n /\ n \in Nat /\ n >= 4 /\ o \in Nat
      /\ e \in Nat /\ r.bytes_read \in Nat /\ o <= e /\ e <= n /\ e <= r.bytes_read
      /\ r.bytes_read <= f.size
  BY DEF Buffered, Readers
<1>2. q = [r EXCEPT !.data = moved, !.end = e - o, !.offset = 0]
  BY DEF Moved
<1>3. head \in Seq(Nat) /\ Len(head) = e - o /\ \A j \in 1 .. e - o : head[j] = r.data[o + j]
  <2> HIDE DEF o, e, n
  <2>1. o + 1 \in 1 .. Len(r.data) + 1 /\ e \in o .. Len(r.data)
    BY <1>1
  <2>2. QED
    BY <1>1, <2>1, SubSeqProperties
<1>4. tail \in Seq(Nat) /\ Len(tail) = n - (e - o)
  <2> HIDE DEF o, e, n
  <2>1. e - o + 1 \in 1 .. Len(r.data) + 1 /\ n \in (e - o) .. Len(r.data)
    BY <1>1
  <2>2. QED
    BY <1>1, <2>1, SubSeqProperties
<1>5. \A j \in 1 .. e : r.data[j] = r.bytes_read - e + j
  BY DEF Buffered
<1>6. moved \in Seq(Nat) /\ Len(moved) = n /\ \A j \in 1 .. e - o : moved[j] = r.bytes_read - (e - o) + j
  <2> HIDE DEF o, e, n, head, tail
  <2>1. moved \in Seq(Nat) /\ Len(moved) = Len(head) + Len(tail)
        /\ \A j \in 1 .. Len(head) : moved[j] = head[j]
    BY <1>3, <1>4, Joined, ZenonT(40)
  <2>2. Len(moved) = n
    BY <1>1, <1>3, <1>4, <2>1, SMTT(30)
  <2>3. ASSUME NEW j \in 1 .. e - o PROVE moved[j] = r.bytes_read - (e - o) + j
    <3>1. o + j \in 1 .. e /\ moved[j] = head[j] /\ head[j] = r.data[o + j]
      BY <1>1, <1>3, <2>1
    <3>2. moved[j] = r.bytes_read - e + (o + j)
      BY <1>5, <3>1
    <3>3. QED
      BY <1>1, <3>2
  <2>4. QED
    BY <2>1, <2>2, <2>3
<1> HIDE DEF moved, head, tail
<1>7. q \in Readers /\ q.data = moved /\ q.end = e - o /\ q.offset = 0
      /\ q.bytes_read = r.bytes_read /\ q.len = n /\ q.done = r.done /\ q.failed = r.failed
  <2> DEFINE left == e - o
  <2>1. left \in Nat
    BY <1>1
  <2>2. q = MovedTo(r, moved, left)
    BY <1>2 DEF MovedTo
  <2> HIDE DEF left
  <2>3. r \in Readers /\ moved \in Seq(Nat)
    BY <1>1, <1>6
  <2>4. q \in Readers /\ q.data = moved /\ q.end = left /\ q.offset = 0
        /\ q.bytes_read = r.bytes_read /\ q.len = r.len /\ q.done = r.done /\ q.failed = r.failed
    BY <2>1, <2>2, <2>3, MovedFields, SMTT(30)
  <2>5. QED
    BY <2>4 DEF left
<1> HIDE DEF o, e, n
<1>8. Buffered(f, q)
  BY <1>1, <1>6, <1>7 DEF Buffered
<1>9. QED
  BY <1>7, <1>8 DEF o, e, n

\* A buffer of twice the length holds the same bytes.
LEMMA GrownBuffered ==
  ASSUME NEW f, NEW r, Buffered(f, r), f.size \in Nat, NEW q, q = grow_buffer(r)
  PROVE  /\ Buffered(f, q) /\ q.len = 2 * r.len /\ q.bytes_read = r.bytes_read
         /\ q.offset = r.offset /\ q.end = r.end /\ q.done = r.done /\ q.failed = r.failed
<1> DEFINE n == r.len
           more == [i \in 1 .. n |-> 0]
           grown == r.data \o more
           twice == 2 * n
<1>1. r \in Readers /\ r.data \in Seq(Nat) /\ Len(r.data) = n /\ n \in Nat /\ n >= 4
      /\ r.offset \in Nat /\ r.end \in Nat /\ r.bytes_read \in Nat
      /\ r.offset <= r.end /\ r.end <= n /\ r.end <= r.bytes_read /\ r.bytes_read <= f.size
  BY DEF Buffered, Readers
<1>2. q = [r EXCEPT !.len = twice, !.data = grown]
  BY DEF grow_buffer
<1>3. more \in Seq(Nat) /\ Len(more) = n
  BY <1>1
<1> HIDE DEF n, more
<1>4. grown \in Seq(Nat) /\ Len(grown) = twice /\ twice \in Nat /\ twice >= n
      /\ \A j \in 1 .. n : grown[j] = r.data[j]
  <2>1. grown \in Seq(Nat) /\ Len(grown) = n + n /\ \A j \in 1 .. n : grown[j] = r.data[j]
    <3>1. r.data \in Seq(Nat) /\ more \in Seq(Nat)
      BY <1>1, <1>3
    <3>2. grown \in Seq(Nat) /\ Len(grown) = Len(r.data) + Len(more)
          /\ \A j \in 1 .. Len(r.data) : grown[j] = r.data[j]
      BY <3>1, Joined
    <3>3. QED
      BY <1>1, <1>3, <3>2
  <2>2. twice = n + n
    BY <1>1
  <2>3. QED
    BY <1>1, <2>1, <2>2
<1> HIDE DEF grown, twice
<1>5. q \in Readers /\ q.data = grown /\ q.len = twice /\ q.bytes_read = r.bytes_read
      /\ q.offset = r.offset /\ q.end = r.end /\ q.done = r.done /\ q.failed = r.failed
  BY <1>1, <1>2, <1>4 DEF Readers
<1>6. \A j \in 1 .. r.end : r.data[j] = r.bytes_read - r.end + j
  BY DEF Buffered
<1>7. \A j \in 1 .. q.end : q.data[j] = q.bytes_read - q.end + j
  BY <1>1, <1>4, <1>5, <1>6
<1>8. Buffered(f, q)
  BY <1>1, <1>4, <1>5, <1>7 DEF Buffered
<1>9. QED
  BY <1>5, <1>8 DEF twice, n

\* The read function adds the next bytes of the file.
LEMMA ReadBuffered ==
  ASSUME NEW f, NEW r, Buffered(f, r), f.size \in Nat, NEW n \in Nat,
         r.end + n <= r.len, r.bytes_read + n <= f.size, NEW q, q = fd_read(r, n)
  PROVE  /\ Buffered(f, q) /\ q.len = r.len /\ q.bytes_read = r.bytes_read + n
         /\ q.offset = r.offset /\ q.end = r.end + n /\ q.done = r.done /\ q.failed = r.failed
<1> DEFINE e == r.end
           k == r.len
           y == r.bytes_read
           head == SubSeq(r.data, 1, e)
           next == [i \in 1 .. n |-> y + i]
           tail == SubSeq(r.data, e + n + 1, k)
           filled == head \o next \o tail
           e2 == e + n
           y2 == y + n
<1>1. r \in Readers /\ r.data \in Seq(Nat) /\ Len(r.data) = k /\ k \in Nat /\ k >= 4
      /\ r.offset \in Nat /\ e \in Nat /\ y \in Nat
      /\ r.offset <= e /\ e <= k /\ e <= y /\ y <= f.size /\ e + n <= k /\ y + n <= f.size
  BY DEF Buffered, Readers
<1>2. q = [r EXCEPT !.data = filled, !.end = e2, !.bytes_read = y2]
  BY <1>1 DEF fd_read, Readers
<1>3. head \in Seq(Nat) /\ Len(head) = e /\ \A j \in 1 .. e : head[j] = r.data[j]
  <2> HIDE DEF e, k, y
  <2>1. 1 \in 1 .. Len(r.data) + 1 /\ e \in 0 .. Len(r.data)
    BY <1>1
  <2>2. QED
    BY <1>1, <2>1, SubSeqProperties, SMTT(30)
<1>4. tail \in Seq(Nat) /\ Len(tail) = k - (e + n)
  <2> HIDE DEF e, k, y
  <2>1. e + n + 1 \in 1 .. Len(r.data) + 1 /\ k \in (e + n) .. Len(r.data)
    BY <1>1
  <2>2. QED
    BY <1>1, <2>1, SubSeqProperties
<1>5. next \in Seq(Nat) /\ Len(next) = n /\ \A j \in 1 .. n : next[j] = y + j
  BY <1>1, SMTT(30)
<1>6. \A j \in 1 .. e : r.data[j] = y - e + j
  BY DEF Buffered
<1> HIDE DEF e, k, y, head, next, tail
<1>7. filled \in Seq(Nat) /\ Len(filled) = k /\ \A j \in 1 .. e2 : filled[j] = y2 - e2 + j
  <2> DEFINE front == head \o next
  <2>1. front \in Seq(Nat) /\ Len(front) = e + n /\ (\A j \in 1 .. e : front[j] = head[j])
        /\ \A j \in 1 .. n : front[e + j] = next[j]
    <3>1. head \in Seq(Nat) /\ next \in Seq(Nat)
      BY <1>3, <1>5
    <3>2. /\ front \in Seq(Nat) /\ Len(front) = Len(head) + Len(next)
          /\ \A j \in 1 .. Len(head) : front[j] = head[j]
          /\ \A j \in 1 .. Len(next) : front[Len(head) + j] = next[j]
      BY <3>1, Joined
    <3>3. QED
      BY <1>3, <1>5, <3>2
  <2> HIDE DEF front
  <2>2. \A j \in 1 .. e + n : front[j] = y - e + j
    <3>1. TAKE j \in 1 .. e + n
    <3>2. CASE j <= e
      <4>1. j \in 1 .. e
        BY <1>1, <3>2
      <4>2. front[j] = head[j] /\ head[j] = r.data[j]
        BY <1>3, <2>1, <4>1
      <4>3. QED
        BY <1>6, <4>1, <4>2
    <3>3. CASE ~ (j <= e)
      <4>1. j - e \in 1 .. n /\ e + (j - e) = j
        BY <1>1, <3>3
      <4>2. front[j] = y + (j - e)
        BY <1>5, <2>1, <4>1
      <4>3. QED
        BY <1>1, <4>2
    <3>4. QED
      BY <3>2, <3>3
  <2>3. filled = front \o tail
    BY DEF front
  <2> HIDE DEF filled
  <2>4. filled \in Seq(Nat) /\ Len(filled) = k /\ \A j \in 1 .. e + n : filled[j] = front[j]
    <3>1. filled \in Seq(Nat) /\ Len(filled) = Len(front) + Len(tail)
          /\ \A j \in 1 .. Len(front) : filled[j] = front[j]
      BY <1>4, <2>1, <2>3, Joined
    <3>2. QED
      BY <1>1, <1>4, <2>1, <3>1
  <2>5. \A j \in 1 .. e + n : y - e + j = (y + n) - (e + n) + j
    BY <1>1
  <2>6. QED
    BY <2>2, <2>4, <2>5
<1> HIDE DEF filled
<1>8. e2 \in Nat /\ y2 \in Nat /\ r.offset <= e2 /\ e2 <= k /\ e2 <= y2 /\ y2 <= f.size
  BY <1>1
<1> HIDE DEF e2, y2
<1>9. q \in Readers /\ q.data = filled /\ q.end = e2 /\ q.bytes_read = y2 /\ q.len = r.len
      /\ q.offset = r.offset /\ q.done = r.done /\ q.failed = r.failed
  BY <1>1, <1>2, <1>7, <1>8 DEF Readers
<1>10. Buffered(f, q)
  BY <1>1, <1>7, <1>8, <1>9 DEF Buffered, k
<1>11. QED
  BY <1>9, <1>10 DEF e2, y2, e, y

\* What a call of the read function makes of the reader.
AfterRead(f, r, noted, q) ==
  /\ Buffered(f, q) /\ q.len = r.len /\ q.offset = r.offset
  /\ q.bytes_read - q.end = r.bytes_read - r.end
  /\ q.done # FALSE =>
       /\ q.bytes_read = r.bytes_read
       /\ q.failed = FALSE => r.bytes_read = f.size \/ r.len = r.end \/ noted = FALSE

LEMMA ReadsBuffered ==
  ASSUME NEW f, NEW r, Buffered(f, r), f.size \in Nat, NEW noted \in BOOLEAN, r.done = FALSE,
         NEW q \in Reads(f, r, noted)
  PROVE  AfterRead(f, r, noted, q)
<1>1. r \in Readers /\ r.len \in Nat /\ r.end \in Nat /\ r.bytes_read \in Nat /\ r.end <= r.len
      /\ r.bytes_read <= f.size /\ r.failed \in BOOLEAN
  BY DEF Buffered, Readers
<1>2. CASE \E n \in 1 .. Min({r.len - r.end, f.size - r.bytes_read}) : q = fd_read(r, n)
  <2> DEFINE room == r.len - r.end
             more == f.size - r.bytes_read
             S == {room, more}
  <2>1. S \subseteq Nat /\ S # {}
    BY <1>1
  <2>2. Min(S) \in Nat /\ Min(S) <= room /\ Min(S) <= more
    BY <2>1, LeastMember
  <2>3. PICK n \in 1 .. Min(S) : q = fd_read(r, n)
    BY <1>2
  <2>4. n \in Nat /\ n <= Min(S)
    BY <2>2
  <2>5. r.end + n <= r.len /\ r.bytes_read + n <= f.size
    BY <1>1, <2>1, <2>2, <2>4
  <2>6. /\ Buffered(f, q) /\ q.len = r.len /\ q.bytes_read = r.bytes_read + n
        /\ q.offset = r.offset /\ q.end = r.end + n /\ q.done = r.done
    BY <2>3, <2>4, <2>5, ReadBuffered
  <2>7. (r.bytes_read + n) - (r.end + n) = r.bytes_read - r.end
    BY <1>1, <2>4
  <2>8. QED
    BY <2>6, <2>7 DEF AfterRead
<1>3. ASSUME q.done = TRUE, q.data = r.data, q.len = r.len, q.offset = r.offset, q.end = r.end,
             q.bytes_read = r.bytes_read, q \in Readers
      PROVE  Buffered(f, q)
  BY <1>3 DEF Buffered
<1>4. CASE q = [r EXCEPT !.done = TRUE] /\ (r.bytes_read = f.size \/ r.len = r.end)
  <2>1. q.done = TRUE /\ q.data = r.data /\ q.len = r.len /\ q.offset = r.offset /\ q.end = r.end
        /\ q.bytes_read = r.bytes_read /\ q \in Readers
    BY <1>1, <1>4 DEF Readers
  <2>2. QED
    BY <1>3, <1>4, <2>1 DEF AfterRead
<1>5. CASE q = [r EXCEPT !.done = TRUE, !.failed = noted]
  <2>1. q.done = TRUE /\ q.data = r.data /\ q.len = r.len /\ q.offset = r.offset /\ q.end = r.end
        /\ q.bytes_read = r.bytes_read /\ q \in Readers /\ q.failed = noted
    BY <1>1, <1>5 DEF Readers
  <2>2. QED
    BY <1>3, <2>1 DEF AfterRead
<1>6. QED
  BY <1>2, <1>4, <1>5 DEF Reads

\* The sources there are.
LEMMA FilesAre == source \in Files => FileFacts
<1> SUFFICES ASSUME source \in Files PROVE FileFacts
  OBVIOUS
<1>1. PICK d \in UNION {[1 .. k -> DocLengths] : k \in 0 .. MaxInFile} :
        source \in {File(d, x, c) : x \in 0 .. Len(d), c \in {0, 1, 4, 5} \cap 0 .. SumOf(d)}
  BY DEF Files
<1>2. PICK k \in 0 .. MaxInFile : d \in [1 .. k -> DocLengths]
  OBVIOUS
<1>3. k \in Nat /\ DocLengths \subseteq {n \in Nat : n >= 5}
  BY ReaderAssumption
<1>4. Len(d) = k /\ DOMAIN d = 1 .. k /\ d \in Seq(Nat) /\ \A i \in 1 .. k : d[i] >= 5
  <2>1. d \in Seq(DocLengths) /\ DOMAIN d = 1 .. k /\ \A i \in 1 .. k : d[i] \in DocLengths
    BY <1>2, <1>3
  <2>2. Len(d) = k
    BY <1>3, <2>1
  <2>3. \A i \in 1 .. k : d[i] \in Nat /\ d[i] >= 5
    BY <1>3, <2>1
  <2>4. d \in Seq(Nat)
    BY <1>2, <1>3, <2>3
  <2>5. QED
    BY <2>1, <2>2, <2>3, <2>4
<1>5. PICK x \in 0 .. Len(d), c \in {0, 1, 4, 5} \cap 0 .. SumOf(d) : source = File(d, x, c)
  BY <1>1
<1>6. source.docs = d /\ source.full = SumOf(d) /\ source.bad = x /\ source.size = SumOf(d) - c
      /\ source.starts = [i \in 1 .. k |-> 1 + SumsOf(d)[i - 1]]
  BY <1>4, <1>5 DEF File
<1>7. SumOf(d) \in Nat
  <2>1. Len(d) \in 0 .. Len(d) /\ Len(d) <= Len(d)
    BY <1>3, <1>4
  <2>2. QED
    BY <1>4, <2>1, SumsGrow DEF SumOf
<1>8. source.size \in Nat
  <2> DEFINE all == SumOf(d)
  <2>1. all \in Nat /\ c \in 0 .. all /\ source.size = all - c
    BY <1>6, <1>7
  <2> HIDE DEF all
  <2>2. QED
    BY <2>1
<1>9. QED
  BY <1>4, <1>5, <1>6, <1>8 DEF FileFacts

\* The buffer a handle reader starts with.
LEMMA NewBuffered ==
  ASSUME NEW f, f.size \in Nat
  PROVE  /\ Buffered(f, NewReader) /\ NewReader.offset = 0 /\ NewReader.end = 0
         /\ NewReader.bytes_read = 0 /\ NewReader.done = FALSE
<1> DEFINE zeros == [i \in 1 .. BufLen |-> 0]
<1>1. BufLen \in Nat /\ BufLen >= 4
  BY ReaderAssumption
<1>2. zeros \in Seq(Nat) /\ Len(zeros) = BufLen
  BY <1>1
<1>3. NewReader = [data |-> zeros, len |-> BufLen, offset |-> 0, end |-> 0, bytes_read |-> 0,
                   done |-> FALSE, failed |-> FALSE]
  BY DEF NewReader
<1> HIDE DEF zeros
<1>4. NewReader \in Readers
  BY <1>1, <1>2, <1>3 DEF Readers
<1>5. QED
  BY <1>1, <1>2, <1>3, <1>4 DEF Buffered

LEMMA ReaderInitial == ReaderInit => ReaderInv
<1> SUFFICES ASSUME ReaderInit PROVE ReaderInv
  OBVIOUS
<1>1. FileFacts
  BY FilesAre DEF ReaderInit
<1>2. asking = "idle" /\ out = << >> /\ last.eof = FALSE
  BY DEF ReaderInit, NoAnswer
<1>3. SumsOf(source.docs)[0] = 0 /\ source.size \in Nat /\ Len(source.docs) \in Nat
  <2>1. Len(source.docs) \in Nat /\ source.size \in Nat
    BY <1>1 DEF FileFacts
  <2>2. 0 \in 0 .. Len(source.docs)
    BY <2>1
  <2>3. QED
    BY <1>1, <2>1, <2>2, SourceSums
<1>4. /\ out \in Seq([at : Nat, len : Nat]) /\ Len(out) = 0 /\ Len(out) <= Len(source.docs)
      /\ \A i \in 1 .. Len(out) : Returned(i)
  BY <1>2, <1>3
<1>5. /\ Buffered(source, NewReader) /\ NewReader.offset = 0 /\ NewReader.end = 0
      /\ NewReader.bytes_read = 0 /\ NewReader.done = FALSE
  BY <1>3, NewBuffered
<1>6. NewReader \in Readers /\ Len(NewReader.data) = NewReader.len
  BY <1>5 DEF Buffered
<1>7. CASE flavour = "handle" /\ reader \in new_from_handle(source)
  <2>1. reader \in Reads(source, NewReader, FALSE)
    BY <1>7 DEF new_from_handle
  <2>2. /\ Buffered(source, reader) /\ reader.offset = 0 /\ reader.bytes_read - reader.end = 0 - 0
        /\ reader.done => reader.bytes_read = 0
    <3>1. PICK noted \in BOOLEAN, r \in {NewReader} : r = NewReader /\ reader \in Reads(source, r, noted)
      BY <2>1, Zenon
    <3>2. /\ Buffered(source, r) /\ r.offset = 0 /\ r.end = 0 /\ r.bytes_read = 0 /\ r.done = FALSE
          /\ source.size \in Nat
      BY <1>3, <1>5, <3>1
    <3>3. /\ Buffered(source, reader) /\ reader.offset = r.offset
          /\ reader.bytes_read - reader.end = r.bytes_read - r.end
          /\ reader.done # FALSE => reader.bytes_read = r.bytes_read
      <4>1. reader \in Reads(source, r, noted)
        BY <3>1
      <4>2. Buffered(source, r) /\ source.size \in Nat /\ r.done = FALSE
        BY <3>2
      <4>3. QED
        <5>1. AfterRead(source, r, noted, reader)
          BY <4>1, <4>2, ReadsBuffered
        <5>2. QED
          BY <5>1, Zenon DEF AfterRead
    <3>4. QED
      BY <3>2, <3>3
  <2>3. EndsWell(source, reader, Len(out))
    BY <2>2 DEF EndsWell
  <2>4. reader \in Readers /\ Len(reader.data) = reader.len
    BY <2>2 DEF Buffered
  <2>5. tell = 0
    BY <1>7, <2>2 DEF tell
  <2>6. QED
    BY <1>1, <1>2, <1>3, <1>4, <1>7, <2>2, <2>3, <2>4, <2>5 DEF ReaderInv
<1>8. CASE flavour = "data" /\ reader = NewReader
  <2>1. tell = 0
    BY <1>5, <1>8 DEF tell
  <2>2. QED
    BY <1>1, <1>2, <1>3, <1>4, <1>6, <1>8, <2>1 DEF ReaderInv
<1>9. QED
  BY <1>7, <1>8 DEF ReaderInit

\* One more document is returned: the next one of the source.
LEMMA OneMore ==
  ASSUME FileFacts, out \in Seq([at : Nat, len : Nat]), Len(out) < Len(source.docs),
         \A i \in 1 .. Len(out) : Returned(i), source' = source,
         out' = Append(out, [at |-> 1 + SumsOf(source.docs)[Len(out)],
                             len |-> source.docs[Len(out) + 1]]),
         Len(out) + 1 # source.bad, SumsOf(source.docs)[Len(out) + 1] <= source.size
  PROVE  /\ FileFacts' /\ out' \in Seq([at : Nat, len : Nat])
         /\ Len(out') = Len(out) + 1 /\ Len(out') <= Len(source'.docs)
         /\ (\A i \in 1 .. Len(out) : Returned(i))'
<1> DEFINE n == Len(out)
           S == SumsOf(source.docs)
           R == [at : Nat, len : Nat]
           next == [at |-> 1 + S[n], len |-> source.docs[n + 1]]
<1>1. n \in Nat /\ Len(source.docs) \in Nat
  BY DEF FileFacts
<1>2. n \in 0 .. Len(source.docs) /\ n < Len(source.docs)
  BY <1>1
<1>3. S[n] \in Nat /\ source.docs[n + 1] \in Nat
  BY <1>2, SourceSums
<1> HIDE DEF S
<1>4. next \in R
  BY <1>3
<1>5. out' = Append(out, next)
  BY DEF S
<1> HIDE DEF next, R
<1>6. out' \in Seq(R) /\ Len(out') = n + 1 /\ out'[n + 1] = next /\ \A i \in 1 .. n : out'[i] = out[i]
  <2>1. out \in Seq(R)
    BY DEF R
  <2>2. QED
    BY <1>4, <1>5, <2>1
<1>7. FileFacts'
  BY DEF FileFacts
<1>8. ASSUME NEW i \in 1 .. n + 1
      PROVE  /\ out'[i] = [at |-> 1 + SumsOf(source.docs)[i - 1], len |-> source.docs[i]]
             /\ i # source.bad /\ SumsOf(source.docs)[i] <= source.size
  <2>1. CASE i = n + 1
    <3>1. i - 1 = n
      BY <1>1, <2>1
    <3>2. out'[i] = next /\ next = [at |-> 1 + SumsOf(source.docs)[n], len |-> source.docs[n + 1]]
      BY <1>6, <2>1 DEF next, S
    <3>3. QED
      BY <2>1, <3>1, <3>2
  <2>2. CASE i # n + 1
    <3>1. i \in 1 .. n
      BY <1>1, <2>2
    <3>2. Returned(i) /\ out'[i] = out[i]
      BY <1>6, <3>1
    <3>3. QED
      BY <3>2 DEF Returned
  <2>3. QED
    BY <2>1, <2>2
<1>9. \A i \in 1 .. Len(out') : (Returned(i))'
  BY <1>6, <1>8 DEF Returned
<1>10. n + 1 <= Len(source.docs)
  BY <1>1
<1>11. QED
  BY <1>6, <1>7, <1>9, <1>10 DEF R

\* What the inductive step has of the state before it.
LEMMA ReaderHas ==
  ASSUME ReaderInv
  PROVE  /\ FileFacts /\ source.size \in Nat /\ source.bad \in 0 .. Len(source.docs)
         /\ Len(out) \in 0 .. Len(source.docs) /\ Len(out) \in Nat /\ Len(source.docs) \in Nat
         /\ SumsOf(source.docs)[Len(out)] \in Nat /\ tell = SumsOf(source.docs)[Len(out)]
         /\ reader \in Readers /\ reader.len \in Nat /\ reader.offset \in Nat
         /\ reader.end \in Nat /\ reader.bytes_read \in Nat
<1>1. FileFacts /\ source.size \in Nat /\ source.bad \in 0 .. Len(source.docs)
      /\ source.docs \in Seq(Nat) /\ out \in Seq([at : Nat, len : Nat])
      /\ Len(out) <= Len(source.docs) /\ tell = SumsOf(source.docs)[Len(out)] /\ reader \in Readers
  BY DEF ReaderInv, FileFacts
<1>2. Len(out) \in Nat /\ Len(source.docs) \in Nat
  BY <1>1
<1>3. Len(out) \in 0 .. Len(source.docs)
  BY <1>1, <1>2
<1>4. reader.len \in Nat /\ reader.offset \in Nat /\ reader.end \in Nat /\ reader.bytes_read \in Nat
  BY <1>1 DEF Readers
<1>5. SumsOf(source.docs)[Len(out)] \in Nat
  BY <1>1, <1>3, SourceSums
<1>6. QED
  BY <1>1, <1>2, <1>3, <1>4, <1>5

\* A read that returns nothing leaves all but its answer as it was.
LEMMA NothingReturned ==
  ASSUME ReaderInv, NEW eof \in BOOLEAN, NoDocument(eof),
         flavour = "handle" /\ eof => reader.done /\ ~ reader.failed,
         flavour = "data" /\ eof => reader.offset = source.size
  PROVE  ReaderInv'
<1>1. UNCHANGED <<source, flavour, reader, out>> /\ asking' = "idle"
      /\ last' = [ret |-> "null", eof |-> eof]
  BY DEF NoDocument, Answers
<1>2. last'.eof = eof
  BY <1>1
<1>3. FileFacts' /\ tell' = tell /\ (\A i \in 1 .. Len(out) : Returned(i))'
  BY <1>1 DEF ReaderInv, FileFacts, tell, Returned
<1>4. flavour' = "handle" =>
        /\ Buffered(source, reader)' /\ EndsWell(source, reader, Len(out))'
        /\ last'.ret = "null" /\ last'.eof => reader'.done /\ ~ reader'.failed
  BY <1>1, <1>2 DEF ReaderInv
<1>5. flavour' = "data" /\ last'.ret = "null" /\ last'.eof => reader'.offset = source'.size
  BY <1>1, <1>2
<1>6. QED
  BY <1>1, <1>3, <1>4, <1>5 DEF ReaderInv

Beyond(r, n) == [r EXCEPT !.offset = @ + n]

LEMMA BehindFields ==
  ASSUME NEW r \in Readers, NEW n \in Nat, NEW q, q = Beyond(r, n)
  PROVE  /\ q \in Readers /\ q.offset = r.offset + n /\ q.data = r.data /\ q.len = r.len
         /\ q.end = r.end /\ q.bytes_read = r.bytes_read /\ q.done = r.done
<1> DEFINE o == r.offset + n
<1>1. o \in Nat
  BY DEF Readers
<1>2. q = [r EXCEPT !.offset = o]
  BY DEF Beyond, Readers
<1> HIDE DEF o
<1>3. /\ q \in Readers /\ q.offset = o /\ q.data = r.data /\ q.len = r.len
      /\ q.end = r.end /\ q.bytes_read = r.bytes_read /\ q.done = r.done
  BY <1>1, <1>2 DEF Readers
<1>4. QED
  BY <1>3 DEF o

\* The next document is returned, and the reader stands behind it.
LEMMA NextReturned ==
  ASSUME ReaderInv, Len(out) < Len(source.docs), NEW n, n = source.docs[Len(out) + 1],
         OneDocument(SumsOf(source.docs)[Len(out)] + 1, n), Len(out) + 1 # source.bad,
         tell + n <= source.size,
         flavour = "handle" => reader.done = FALSE /\ reader.offset + n <= reader.end
  PROVE  ReaderInv'
<1> DEFINE S == SumsOf(source.docs)
           k == Len(out)
<1>1. /\ FileFacts /\ source.size \in Nat /\ k \in 0 .. Len(source.docs) /\ k \in Nat
      /\ S[k] \in Nat /\ tell = S[k] /\ reader \in Readers
      /\ reader.offset \in Nat /\ reader.end \in Nat /\ reader.bytes_read \in Nat
  BY ReaderHas
<1>2. n \in Nat /\ n >= 5 /\ S[k + 1] = S[k] + n
  BY <1>1, SourceSums
<1>3. UNCHANGED <<source, flavour>> /\ asking' = "idle" /\ last' = [ret |-> "doc", eof |-> FALSE]
      /\ reader' = [reader EXCEPT !.offset = @ + n]
      /\ out' = Append(out, [at |-> S[k] + 1, len |-> n])
  BY DEF OneDocument, Answers
<1>4. /\ FileFacts' /\ out' \in Seq([at : Nat, len : Nat])
      /\ Len(out') = k + 1 /\ Len(out') <= Len(source'.docs)
      /\ (\A i \in 1 .. Len(out) : Returned(i))'
  <2>1. S[k] + 1 = 1 + S[k] /\ S[k + 1] <= source.size
    BY <1>1, <1>2
  <2>2. out' = Append(out, [at |-> 1 + S[k], len |-> source.docs[k + 1]])
    BY <1>3, <2>1
  <2>3. out \in Seq([at : Nat, len : Nat]) /\ \A i \in 1 .. Len(out) : Returned(i)
    BY DEF ReaderInv
  <2>4. QED
    BY <1>1, <1>3, <2>1, <2>2, <2>3, OneMore
<1>5. reader' \in Readers /\ reader'.offset = reader.offset + n /\ reader'.data = reader.data
      /\ reader'.len = reader.len /\ reader'.end = reader.end
      /\ reader'.bytes_read = reader.bytes_read /\ reader'.done = reader.done
  <2>1. reader' = Beyond(reader, n)
    BY <1>3 DEF Beyond
  <2>2. reader \in Readers /\ n \in Nat
    BY <1>1, <1>2
  <2>3. QED
    BY <2>1, <2>2, BehindFields, ZenonT(30)
<1>6. Len(reader'.data) = reader'.len
  BY <1>5 DEF ReaderInv
<1>7. tell' = S[k + 1]
  <2>1. tell' = IF flavour = "data" THEN reader.offset + n
                ELSE reader.bytes_read - reader.end + (reader.offset + n)
    BY <1>3, <1>5 DEF tell
  <2>2. tell = IF flavour = "data" THEN reader.offset
               ELSE reader.bytes_read - reader.end + reader.offset
    BY DEF tell
  <2>3. tell' = tell + n
    BY <1>1, <1>2, <2>1, <2>2, SMTT(30)
  <2>4. QED
    BY <1>1, <1>2, <2>3
<1>8. SumsOf(source.docs)' [Len(out')] = S[k + 1]
  BY <1>3, <1>4
<1>9. ASSUME flavour = "handle"
      PROVE  Buffered(source, reader)' /\ EndsWell(source, reader, Len(out))'
  <2>1. Buffered(source, reader)
    BY <1>9 DEF ReaderInv
  <2>2. reader.offset + n <= reader.end /\ reader'.done = FALSE
    BY <1>5, <1>9
  <2>3. Buffered(source, reader)'
    BY <1>3, <1>5, <2>1, <2>2 DEF Buffered
  <2>4. EndsWell(source, reader, Len(out))'
    BY <2>2 DEF EndsWell
  <2>5. QED
    BY <2>3, <2>4
<1>10. last'.ret = "doc" /\ last'.eof = FALSE
  BY <1>3
<1> HIDE DEF S, k
<1>11. QED
  BY <1>3, <1>4, <1>5, <1>6, <1>7, <1>8, <1>9, <1>10 DEF ReaderInv

\* The buffer is filled: no byte that was not returned is lost, and the end of
\* the file is noticed only when there is no more to read.
LEMMA BufferFilled ==
  ASSUME ReaderInv, flavour = "handle", reader.done = FALSE, NEW r, Buffered(source, r), Fills(r),
         r.bytes_read = reader.bytes_read, r.end = reader.end, r.offset = reader.offset,
         r.done = FALSE, r.end - r.offset < r.len,
         reader.bytes_read = source.size /\ source.size = source.full => Len(out) = Len(source.docs)
  PROVE  ReaderInv'
<1>1. /\ source.size \in Nat /\ reader.offset \in Nat /\ reader.end \in Nat
      /\ reader.bytes_read \in Nat /\ tell = SumsOf(source.docs)[Len(out)]
      /\ reader.offset <= reader.end
  BY ReaderHas DEF ReaderInv, Buffered
<1>2. UNCHANGED <<source, flavour, asking, out, last>> /\ reader' \in Reads(source, Moved(r), TRUE)
  <2>1. UNCHANGED <<source, flavour, asking, out, last>>
        /\ reader' \in UNION {Reads(source, q, TRUE) : q \in {Moved(r)}}
    BY DEF Fills, fill_buffer
  <2>2. PICK q \in {Moved(r)} : reader' \in Reads(source, q, TRUE)
    BY <2>1, Zenon
  <2>3. QED
    BY <2>1, <2>2, Zenon
<1>3. PICK noted \in BOOLEAN, q \in {Moved(r)} : q = Moved(r) /\ noted = TRUE /\ reader' \in Reads(source, q, noted)
  BY <1>2, Zenon
<1>4. /\ Buffered(source, q) /\ q.len = r.len /\ q.bytes_read = r.bytes_read
      /\ q.offset = 0 /\ q.end = r.end - r.offset /\ q.done = r.done
  <2>1. source.size \in Nat
    BY <1>1
  <2>2. q = Moved(r)
    BY <1>3
  <2>3. Buffered(source, r)
    OBVIOUS
  <2>4. QED
    BY <2>1, <2>2, <2>3, MovedBuffered
<1>5. /\ Buffered(source, reader') /\ reader'.offset = 0
      /\ reader'.bytes_read - reader'.end = q.bytes_read - q.end
      /\ reader'.done # FALSE =>
           /\ reader'.bytes_read = q.bytes_read
           /\ reader'.failed = FALSE => q.bytes_read = source.size \/ q.len = q.end \/ noted = FALSE
  <2>1. q.done = FALSE
    BY <1>4, Zenon
  <2>2. source.size \in Nat
    BY <1>1
  <2>3. reader' \in Reads(source, q, noted)
    BY <1>3
  <2>4. Buffered(source, q) /\ q.offset = 0
    BY <1>4
  <2>5. QED
    <3>1. AfterRead(source, q, noted, reader')
      BY <2>1, <2>2, <2>3, <2>4, ReadsBuffered
    <3>2. QED
      BY <2>4, <3>1, Zenon DEF AfterRead
<1>6. q.end # q.len /\ q.end \in Nat
  BY <1>1, <1>4 DEF Buffered, Readers
<1>7. FileFacts' /\ (\A i \in 1 .. Len(out) : Returned(i))' /\ Buffered(source, reader)'
  BY <1>2, <1>5 DEF ReaderInv, FileFacts, Returned
<1>8. tell' = tell
  <2>1. tell' = reader'.bytes_read - reader'.end + reader'.offset
    BY <1>2 DEF tell
  <2>2. tell = reader.bytes_read - reader.end + reader.offset
    BY DEF tell
  <2>3. reader'.bytes_read - reader'.end = reader.bytes_read - (reader.end - reader.offset)
    BY <1>4, <1>5
  <2>4. QED
    BY <1>1, <1>5, <2>1, <2>2, <2>3
<1>9. EndsWell(source, reader, Len(out))'
  <2>1. reader'.done /\ ~ reader'.failed => reader.bytes_read = source.size
    BY <1>3, <1>4, <1>5, <1>6
  <2>2. QED
    BY <1>2, <2>1 DEF EndsWell
<1>10. ~ (last.ret = "null" /\ last.eof)
  BY DEF ReaderInv
<1>11. reader' \in Readers /\ Len(reader'.data) = reader'.len
  BY <1>5 DEF Buffered
<1>12. SumsOf(source.docs)' [Len(out')] = SumsOf(source.docs)[Len(out)]
  BY <1>2
<1>13. QED
  BY <1>1, <1>2, <1>7, <1>8, <1>9, <1>10, <1>11, <1>12 DEF ReaderInv

\* A turn of the loop of _bson_reader_handle_read.
LEMMA HandleStep == ReaderInv /\ handle_read => ReaderInv'
<1> SUFFICES ASSUME ReaderInv, handle_read PROVE ReaderInv'
  OBVIOUS
<1> DEFINE S == SumsOf(source.docs)
           n == Len(out)
           K == Len(source.docs)
           left == reader.end - reader.offset
           cells == [j \in 1 .. 4 |-> reader.data[reader.offset + j]]
           blen == Blen(source, cells)
<1>1. /\ FileFacts /\ source.size \in Nat /\ source.bad \in 0 .. K /\ n \in 0 .. K /\ n \in Nat
      /\ K \in Nat /\ S[n] \in Nat /\ tell = S[n] /\ reader \in Readers /\ reader.len \in Nat
      /\ reader.offset \in Nat /\ reader.end \in Nat /\ reader.bytes_read \in Nat
  BY ReaderHas
<1>2. asking = "reading" /\ flavour = "handle"
  BY DEF handle_read
<1>3. /\ Buffered(source, reader) /\ reader.offset <= reader.end /\ reader.end <= reader.len
      /\ reader.end <= reader.bytes_read /\ reader.bytes_read <= source.size /\ reader.len >= 4
      /\ \A j \in 1 .. reader.end : reader.data[j] = reader.bytes_read - reader.end + j
  BY <1>2 DEF ReaderInv, Buffered
<1>4. S[n] = reader.bytes_read - reader.end + reader.offset /\ left \in Nat
      /\ S[n] = reader.bytes_read - left
  <2>1. tell = reader.bytes_read - reader.end + reader.offset
    BY <1>2 DEF tell
  <2> HIDE DEF S
  <2>2. QED
    BY <1>1, <1>3, <2>1
<1>4a. ~ (left < 4) => \A j \in 1 .. 4 : reader.offset + j \in 1 .. reader.end
  <2> DEFINE o == reader.offset
             e == reader.end
  <2>1. o \in Nat /\ e \in Nat /\ left = e - o
    BY <1>1
  <2> HIDE DEF o, e, left
  <2>2. ~ (left < 4) => \A j \in 1 .. 4 : o + j \in 1 .. e
    BY <2>1
  <2>3. QED
    BY <2>2 DEF o, e
<1>5. /\ n < K => /\ source.docs[n + 1] \in Nat /\ source.docs[n + 1] >= 5
                  /\ DocAt(source, n + 1) = 1 + S[n] /\ S[n + 1] = S[n] + source.docs[n + 1]
                  /\ S[n + 1] <= source.full
      /\ S[n] <= source.full
  <2>1. n < K => n + 1 \in 0 .. K
    BY <1>1
  <2>2. n < K => S[n + 1] <= source.full
    BY <1>1, <2>1, SourceSums
  <2>3. QED
    BY <1>1, <2>2, SourceSums
<1>6. \/ reader.done = TRUE /\ NoDocument(~ reader.failed)
      \/ /\ reader.done = FALSE
         /\ \/ left < 4 /\ Fills(reader)
            \/ ~ (left < 4) /\ blen < 5 /\ NoDocument(FALSE)
            \/ ~ (left < 4) /\ ~ (blen < 5) /\ blen > left
               /\ Fills(IF blen > reader.len THEN grow_buffer(reader) ELSE reader)
            \/ ~ (left < 4) /\ ~ (blen < 5) /\ ~ (blen > left) /\ ~ static_ok(source, cells[1])
               /\ NoDocument(FALSE)
            \/ ~ (left < 4) /\ ~ (blen < 5) /\ ~ (blen > left) /\ static_ok(source, cells[1])
               /\ OneDocument(cells[1], blen)
  <2>1. reader.done \in BOOLEAN
    BY <1>1 DEF Readers
  <2> HIDE DEF left, cells, blen
  <2>2. IF reader.done THEN NoDocument(~ reader.failed)
        ELSE IF left < 4 THEN Fills(reader)
        ELSE IF blen < 5 THEN NoDocument(FALSE)
        ELSE IF blen > left
             THEN Fills(IF blen > reader.len THEN grow_buffer(reader) ELSE reader)
        ELSE IF ~ static_ok(source, cells[1]) THEN NoDocument(FALSE)
        ELSE OneDocument(cells[1], blen)
    BY Zenon DEF handle_read, left, cells, blen
  <2>3. QED
    BY <2>1, <2>2, Zenon
<1>7. ~ (left < 4) => IF n < K THEN blen = source.docs[n + 1] ELSE blen = 0
  <2>1. SUFFICES ASSUME ~ (left < 4) PROVE IF n < K THEN blen = source.docs[n + 1] ELSE blen = 0
    OBVIOUS
  <2>2. \A j \in 1 .. 4 : reader.data[reader.offset + j] = S[n] + j
    <3>1. TAKE j \in 1 .. 4
    <3>2. reader.offset + j \in 1 .. reader.end
      BY <1>4a, <2>1
    <3>3. reader.data[reader.offset + j] = reader.bytes_read - reader.end + (reader.offset + j)
      BY <1>3, <3>2
    <3> HIDE DEF S
    <3>4. QED
      BY <1>1, <1>4, <3>3
  <2>3. cells = [j \in 1 .. 4 |-> S[n] + j]
    BY <2>2
  <2> HIDE DEF cells
  <2>4. QED
    BY <1>1, <2>3, LengthRead
<1>8. CASE reader.done = TRUE /\ NoDocument(~ reader.failed)
  <2>1. reader.failed \in BOOLEAN
    BY <1>1 DEF Readers
  <2>2. PICK eof \in BOOLEAN : eof = ~ reader.failed
    BY <2>1
  <2>3. NoDocument(eof)
    BY <1>8, <2>2, Zenon
  <2>4. flavour = "handle" /\ eof => reader.done /\ ~ reader.failed
    BY <1>8, <2>2, Zenon
  <2>5. QED
    BY <1>2, <2>3, <2>4, NothingReturned
<1> HIDE DEF cells, blen
<1>9. CASE reader.done = FALSE /\ left < 4 /\ Fills(reader)
  <2>1. left < reader.len
    BY <1>1, <1>3, <1>4, <1>9
  <2>2. ASSUME reader.bytes_read = source.size, source.size = source.full PROVE n = K
    <3> HIDE DEF S, left
    <3>1. ~ (n < K)
      BY <1>1, <1>4, <1>5, <1>9, <2>2, SMTT(30)
    <3>2. QED
      BY <1>1, <3>1
  <2>3. QED
    BY <1>2, <1>3, <1>9, <2>1, <2>2, BufferFilled
<1>10. CASE NoDocument(FALSE)
  <2>1. PICK eof \in BOOLEAN : eof = FALSE
    OBVIOUS
  <2>2. NoDocument(eof)
    BY <1>10, <2>1, Zenon
  <2>3. ~ eof
    BY <2>1
  <2>4. QED
    BY <2>2, <2>3, NothingReturned
<1>11. CASE /\ reader.done = FALSE /\ ~ (left < 4) /\ ~ (blen < 5) /\ blen > left
            /\ Fills(IF blen > reader.len THEN grow_buffer(reader) ELSE reader)
  <2> DEFINE r == IF blen > reader.len THEN grow_buffer(reader) ELSE reader
  <2>1. n < K /\ blen = source.docs[n + 1] /\ blen \in Nat
    BY <1>5, <1>7, <1>11
  <2>2. /\ Buffered(source, r) /\ r.bytes_read = reader.bytes_read /\ r.end = reader.end
        /\ r.offset = reader.offset /\ r.done = FALSE /\ r.end - r.offset < r.len
    <3>1. CASE blen > reader.len
      <4>1. r = grow_buffer(reader)
        BY <3>1
      <4> HIDE DEF r
      <4>2. /\ Buffered(source, r) /\ r.len = 2 * reader.len /\ r.bytes_read = reader.bytes_read
            /\ r.offset = reader.offset /\ r.end = reader.end /\ r.done = reader.done
        <5>1. source.size \in Nat /\ Buffered(source, reader)
          BY <1>1, <1>3
        <5>2. QED
          BY <4>1, <5>1, GrownBuffered
      <4>3. left < 2 * reader.len
        BY <1>1, <1>3
      <4>4. QED
        BY <1>11, <4>2, <4>3
    <3>2. CASE ~ (blen > reader.len)
      <4>1. left < reader.len
        BY <1>1, <1>4, <1>11, <2>1, <3>2, SMTT(30)
      <4>2. r = reader
        BY <3>2
      <4> HIDE DEF r
      <4>3. QED
        BY <1>3, <1>11, <4>1, <4>2
    <3>3. QED
      BY <3>1, <3>2
  <2>3. Fills(r)
    BY <1>11
  <2>4. ASSUME reader.bytes_read = source.size, source.size = source.full PROVE n = K
    <3> HIDE DEF S, left
    <3>1. FALSE
      BY <1>1, <1>4, <1>5, <1>11, <2>1, <2>4, SMTT(30)
    <3>2. QED
      BY <3>1
  <2> HIDE DEF r
  <2>5. QED
    BY <1>2, <1>11, <2>2, <2>3, <2>4, BufferFilled
<1>12. CASE /\ reader.done = FALSE /\ ~ (left < 4) /\ ~ (blen < 5) /\ ~ (blen > left)
            /\ static_ok(source, cells[1]) /\ OneDocument(cells[1], blen)
  <2>1. n < K /\ blen = source.docs[n + 1] /\ blen \in Nat
    BY <1>5, <1>7, <1>12
  <2>2. cells[1] = S[n] + 1
    <3>1. reader.offset + 1 \in 1 .. reader.end
      <4>1. ~ (left < 4) /\ 1 \in 1 .. 4
        BY <1>12
      <4>2. QED
        BY <1>4a, <4>1
    <3>2. cells[1] = reader.data[reader.offset + 1]
      BY DEF cells
    <3>3. cells[1] = reader.bytes_read - reader.end + (reader.offset + 1)
      BY <1>3, <3>1, <3>2
    <3> HIDE DEF S
    <3>4. QED
      BY <1>1, <1>4, <3>3, SMTT(30)
  <2>3. OneDocument(S[n] + 1, blen) /\ static_ok(source, S[n] + 1)
    BY <1>12, <2>2, Zenon
  <2>4. n + 1 # source.bad
    <3>1. SUFFICES ASSUME n + 1 = source.bad PROVE FALSE
      OBVIOUS
    <3>2. source.bad # 0 /\ DocAt(source, source.bad) = S[n] + 1
      <4>1. DocAt(source, n + 1) = 1 + S[n]
        BY <1>5, <2>1
      <4> HIDE DEF S
      <4>2. 1 + S[n] = S[n] + 1 /\ n + 1 # 0
        BY <1>1
      <4>3. QED
        BY <3>1, <4>1, <4>2
    <3>3. QED
      BY <2>3, <3>2 DEF static_ok
  <2>5. reader.offset + blen <= reader.end /\ tell + blen <= source.size
    <3> DEFINE o == reader.offset
               e == reader.end
               y == reader.bytes_read
    <3>1. o \in Nat /\ e \in Nat /\ y \in Nat /\ tell = y - left /\ left = e - o
          /\ ~ (blen > left) /\ y <= source.size /\ source.size \in Nat
      BY <1>1, <1>3, <1>4, <1>12
    <3> HIDE DEF S, o, e, y, left
    <3>2. o + blen <= e /\ tell + blen <= source.size
      BY <2>1, <3>1, SMTT(30)
    <3>3. QED
      BY <3>2 DEF o, e
  <2>6. QED
    BY <1>2, <1>12, <2>1, <2>3, <2>4, <2>5, NextReturned
<1>13. QED
  BY <1>6, <1>8, <1>9, <1>10, <1>11, <1>12

\* _bson_reader_data_read.
LEMMA DataStep == ReaderInv /\ data_read => ReaderInv'
<1> SUFFICES ASSUME ReaderInv, data_read PROVE ReaderInv'
  OBVIOUS
<1> DEFINE S == SumsOf(source.docs)
           n == Len(out)
           K == Len(source.docs)
           cells == [j \in 1 .. 4 |-> reader.offset + j]
           blen == Blen(source, cells)
           ended == reader.offset = source.size
<1>1. /\ FileFacts /\ source.size \in Nat /\ source.bad \in 0 .. K /\ n \in 0 .. K /\ n \in Nat
      /\ K \in Nat /\ S[n] \in Nat /\ tell = S[n] /\ reader.offset \in Nat
  BY ReaderHas
<1>2. flavour = "data"
  BY DEF data_read
<1>3. S[n] = reader.offset
  BY <1>1, <1>2 DEF tell
<1>4. n < K => /\ source.docs[n + 1] \in Nat /\ DocAt(source, n + 1) = 1 + S[n]
  BY <1>1, SourceSums
<1>5. IF n < K THEN blen = source.docs[n + 1] ELSE blen = 0
  <2>1. cells = [j \in 1 .. 4 |-> S[n] + j]
    BY <1>3
  <2> HIDE DEF cells
  <2>2. QED
    BY <1>1, <2>1, LengthRead
<1>6. cells[1] = S[n] + 1
  BY <1>3
<1> HIDE DEF cells, blen, ended
<1>7. \/ NoDocument(ended)
      \/ NoDocument(FALSE)
      \/ ~ (blen < 5) /\ ~ (blen > source.size - reader.offset) /\ static_ok(source, cells[1])
         /\ OneDocument(cells[1], blen)
  BY Zenon DEF data_read, cells, blen, ended
<1>8. CASE NoDocument(ended)
  <2>1. PICK eof \in BOOLEAN : eof = ended
    BY DEF ended
  <2>2. NoDocument(eof)
    BY <1>8, <2>1, Zenon
  <2>3. eof => reader.offset = source.size
    BY <2>1, Zenon DEF ended
  <2>4. QED
    BY <1>2, <2>2, <2>3, NothingReturned
<1>9. CASE NoDocument(FALSE)
  <2>1. PICK eof \in BOOLEAN : eof = FALSE
    OBVIOUS
  <2>2. NoDocument(eof)
    BY <1>9, <2>1, Zenon
  <2>3. ~ eof
    BY <2>1
  <2>4. QED
    BY <2>2, <2>3, NothingReturned
<1>10. CASE ~ (blen < 5) /\ ~ (blen > source.size - reader.offset) /\ static_ok(source, cells[1])
            /\ OneDocument(cells[1], blen)
  <2>1. n < K /\ blen = source.docs[n + 1] /\ blen \in Nat
    BY <1>4, <1>5, <1>10
  <2>2. OneDocument(S[n] + 1, blen) /\ static_ok(source, S[n] + 1)
    BY <1>6, <1>10, Zenon
  <2>3. n + 1 # source.bad
    <3>1. SUFFICES ASSUME n + 1 = source.bad PROVE FALSE
      OBVIOUS
    <3>2. source.bad # 0 /\ DocAt(source, source.bad) = S[n] + 1
      <4>1. DocAt(source, n + 1) = 1 + S[n]
        BY <1>4, <2>1
      <4> HIDE DEF S
      <4>2. 1 + S[n] = S[n] + 1 /\ n + 1 # 0
        BY <1>1
      <4>3. QED
        BY <3>1, <4>1, <4>2
    <3>3. QED
      BY <2>2, <3>2 DEF static_ok
  <2>4. tell + blen <= source.size
    <3> HIDE DEF S
    <3>1. QED
      BY <1>1, <1>3, <1>10, <2>1
  <2>5. QED
    BY <1>2, <2>1, <2>2, <2>3, <2>4, NextReturned
<1>11. QED
  BY <1>7, <1>8, <1>9, <1>10

LEMMA ReaderStep == ReaderInv /\ [ReaderNext]_readerVars => ReaderInv'
<1> SUFFICES ASSUME ReaderInv, [ReaderNext]_readerVars PROVE ReaderInv'
  OBVIOUS
<1>1. ASSUME UNCHANGED <<source, flavour, reader, out, last>>, asking' \in {"idle", "reading", "gone"}
      PROVE  ReaderInv'
  <2>1. FileFacts' /\ tell' = tell /\ (\A i \in 1 .. Len(out) : Returned(i))'
    BY <1>1 DEF ReaderInv, FileFacts, tell, Returned
  <2>2. flavour' = "handle" =>
          /\ Buffered(source, reader)' /\ EndsWell(source, reader, Len(out))'
          /\ last'.ret = "null" /\ last'.eof => reader'.done /\ ~ reader'.failed
    BY <1>1 DEF ReaderInv
  <2>3. flavour' = "data" /\ last'.ret = "null" /\ last'.eof => reader'.offset = source'.size
    BY <1>1 DEF ReaderInv
  <2>4. QED
    BY <1>1, <2>1, <2>2, <2>3 DEF ReaderInv
<1>2. CASE bson_reader_read
  BY <1>1, <1>2 DEF bson_reader_read
<1>3. CASE ReaderTurn
  BY <1>3, HandleStep, DataStep DEF ReaderTurn
<1>4. CASE reader_destroy
  BY <1>1, <1>4 DEF reader_destroy
<1>5. CASE UNCHANGED readerVars
  <2>1. asking \in {"idle", "reading", "gone"}
    BY DEF ReaderInv
  <2>2. QED
    BY <1>1, <1>5, <2>1 DEF readerVars
<1>6. QED
  BY <1>2, <1>3, <1>4, <1>5 DEF ReaderNext

LEMMA ReaderInvSuffices == ReaderInv => ReaderFaithful
<1> SUFFICES ASSUME ReaderInv PROVE ReaderFaithful
  OBVIOUS
<1> DEFINE S == SumsOf(source.docs)
           n == Len(out)
           K == Len(source.docs)
<1>1. /\ FileFacts /\ source.size \in Nat /\ n \in 0 .. K /\ n \in Nat
      /\ K \in Nat /\ S[n] \in Nat /\ tell = S[n] /\ reader \in Readers
      /\ reader.offset \in Nat /\ reader.end \in Nat /\ reader.bytes_read \in Nat
  BY ReaderHas
<1>2. ReaderTypeOK
  BY <1>1 DEF ReaderTypeOK, ReaderInv, Readers
<1>3. CountersFit
  BY DEF CountersFit, ReaderInv, Buffered
<1>4. \A i \in 1 .. n :
        /\ out[i] = [at |-> 1 + S[i - 1], len |-> source.docs[i]]
        /\ out[i] = [at |-> DocAt(source, i), len |-> source.docs[i]]
        /\ i # source.bad /\ S[i] <= source.size
        /\ out[i].at + out[i].len - 1 = S[i]
  <2>1. TAKE i \in 1 .. n
  <2>2. i - 1 \in 0 .. K /\ i - 1 < K /\ (i - 1) + 1 = i
    BY <1>1
  <2>3. /\ S[i - 1] \in Nat /\ source.docs[i] \in Nat /\ DocAt(source, i) = 1 + S[i - 1]
        /\ S[i] = S[i - 1] + source.docs[i]
    <3>1. /\ S[i - 1] \in Nat /\ source.docs[(i - 1) + 1] \in Nat
          /\ DocAt(source, (i - 1) + 1) = 1 + S[i - 1]
          /\ S[(i - 1) + 1] = S[i - 1] + source.docs[(i - 1) + 1]
      BY <1>1, <2>2, SourceSums
    <3>2. QED
      BY <2>2, <3>1
  <2>4. Returned(i)
    BY DEF ReaderInv
  <2>5. out[i] = [at |-> 1 + S[i - 1], len |-> source.docs[i]] /\ i # source.bad /\ S[i] <= source.size
    BY <2>4 DEF Returned
  <2>6. out[i].at = 1 + S[i - 1] /\ out[i].len = source.docs[i]
    BY <2>5
  <2>7. (1 + S[i - 1]) + source.docs[i] - 1 = S[i]
    <3> DEFINE x == S[i - 1]
               y == source.docs[i]
    <3>1. x \in Nat /\ y \in Nat /\ S[i] = x + y
      BY <2>3
    <3> HIDE DEF x, y, S
    <3>2. (1 + x) + y - 1 = S[i]
      BY <3>1
    <3>3. QED
      BY <3>2 DEF x, y
  <2>8. QED
    BY <2>3, <2>5, <2>6, <2>7
<1>5. DocumentsInOrder
  <2>1. DOMAIN out = 1 .. n
    BY DEF ReaderInv
  <2>2. n <= K
    BY <1>1
  <2>3. ASSUME NEW i \in 1 .. n
        PROVE  /\ out[i] = [at |-> DocAt(source, i), len |-> source.docs[i]] /\ i # source.bad
               /\ out[i].at + out[i].len - 1 <= source.size
    BY <1>4
  <2>4. QED
    BY <2>1, <2>2, <2>3 DEF DocumentsInOrder
<1>6. TellsBoundary
  <2>1. CASE out = << >>
    <3>1. n = 0
      BY <2>1
    <3>2. S[0] = 0
      BY <1>1, SourceSums
    <3>3. QED
      BY <1>1, <2>1, <3>1, <3>2 DEF TellsBoundary
  <2>2. CASE out # << >>
    <3>1. n \in 1 .. n
      <4>1. out \in Seq([at : Nat, len : Nat])
        BY DEF ReaderInv
      <4>2. n # 0
        BY <2>2, <4>1, EmptySeq
      <4>3. QED
        BY <1>1, <4>2
    <3>2. Last(out) = out[n]
      BY DEF Last
    <3>3. out[n].at + out[n].len - 1 = S[n]
      BY <1>4, <3>1
    <3>4. QED
      BY <1>1, <2>2, <3>2, <3>3 DEF TellsBoundary
  <2>3. QED
    BY <2>1, <2>2
<1>7. EofAfterAll
  <2>1. SUFFICES ASSUME last.ret = "null", last.eof, source.size = source.full
                 PROVE  n = K \/ (flavour = "handle" /\ reader.bytes_read = 0)
    BY DEF EofAfterAll
  <2>2. CASE flavour = "handle"
    <3>1. EndsWell(source, reader, n) /\ reader.done /\ ~ reader.failed
      BY <2>1, <2>2 DEF ReaderInv
    <3>2. QED
      BY <2>1, <2>2, <3>1 DEF EndsWell
  <2>3. CASE flavour = "data"
    <3>1. reader.offset = source.full
      BY <2>1, <2>3 DEF ReaderInv
    <3>2. S[n] = source.full
      BY <1>1, <2>3, <3>1 DEF tell
    <3>3. ASSUME n < K PROVE FALSE
      <4>1. /\ n + 1 \in 0 .. K /\ source.docs[n + 1] >= 5 /\ source.docs[n + 1] \in Nat
            /\ S[n + 1] = S[n] + source.docs[n + 1]
        BY <1>1, <3>3, SourceSums
      <4>2. S[n + 1] <= source.full
        BY <1>1, <4>1, SourceSums
      <4> HIDE DEF S
      <4>3. QED
        BY <1>1, <3>2, <4>1, <4>2
    <3>4. QED
      BY <1>1, <3>3
  <2>4. QED
    BY <2>2, <2>3 DEF ReaderInv
<1>8. QED
  BY <1>2, <1>3, <1>5, <1>6, <1>7 DEF ReaderFaithful

\* A reader returns the documents of its source, whole, in order and none after
\* a damaged one, and tells where they end, for every source, every size of the
\* first buffer and however the bytes are delivered to it.
THEOREM ReaderFaithfulAlways == ReaderSpec => []ReaderFaithful
<1>1. ReaderInit => ReaderInv
  BY ReaderInitial
<1>2. ReaderInv /\ [ReaderNext]_readerVars => ReaderInv'
  BY ReaderStep
<1>3. ReaderInv => ReaderFaithful
  BY ReaderInvSuffices
<1>4. QED
  BY <1>1, <1>2, <1>3, PTL DEF ReaderSpec
=============================================================================
