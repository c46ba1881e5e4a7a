--------------------------- MODULE MonaryReadProofs ---------------------------
(* What holds of every call of query, block_query, aggregate and            *)
(* block_aggregate, for every width, size and set of arguments, and of the  *)
(* loaders they call.                                                       *)
EXTENDS MonaryRead, ColumnData, MongocCursorProofs, TLAPS

-----------------------------------------------------------------------------
(* Where the loaders of cmonary.c write: inside the arrays, and, but for the  *)
(* bson loader, inside the item of their row.                                 *)

\* Pointer arithmetic: rows of width w do not overlap, and n of them end at
\* n * w.
LEMMA RowArithmetic ==
  ASSUME NEW w \in Nat \ {0}, NEW r \in Nat, NEW n \in Nat
  PROVE  /\ r * w \in Nat
         /\ n * w \in Nat
         /\ r < n => r * w + w <= n * w
<1>1. r * w \in Nat /\ n * w \in Nat
  BY SMT
<1>2. ASSUME r < n PROVE r * w + w <= n * w
  <2>1. PICK k \in Nat : n = r + 1 + k
    <3>1. n - r - 1 \in Nat /\ n = r + 1 + (n - r - 1)
      BY <1>2, SMT
    <3> QED BY <3>1
  <2>2. n * w = r * w + w + k * w /\ k * w \in Nat
    BY <2>1, SMT
  <2> QED BY <1>1, <2>2, SMT
<1> QED BY <1>1, <1>2

LEMMA Distributes ==
  ASSUME NEW r \in Nat, NEW x \in Nat, NEW y \in Nat
  PROVE  r * (x + y) = r * x + r * y /\ r * x \in Nat /\ r * y \in Nat
  BY SMT

\* Byte i of row r lies in the array, and is one of the first len bytes of row
\* k only if it is byte i < len of the same row.
LEMMA CellArithmetic ==
  ASSUME NEW w \in Nat \ {0}, NEW r \in Nat, NEW k \in Nat, NEW n \in Nat, r < n,
         NEW i \in 0..(w - 1), NEW len \in 0..w
  PROVE  /\ r * w + i \in 0..(n * w - 1)
         /\ r = k => /\ k * w <= r * w + i
                     /\ r * w + i - k * w + 1 = i + 1
                     /\ r * w + i < k * w + len <=> i < len
         /\ r # k => ~(k * w <= r * w + i /\ r * w + i < k * w + len)
<1> DEFINE rw == r * w
           kw == k * w
           nw == n * w
<1>1. /\ rw \in Nat /\ kw \in Nat /\ nw \in Nat
      /\ rw + w <= nw
      /\ r < k => rw + w <= kw
      /\ k < r => kw + w <= rw
      /\ r = k => rw = kw
  BY RowArithmetic
<1> HIDE DEF rw, kw, nw
<1>2. /\ rw + i \in 0..(nw - 1)
      /\ r = k => /\ kw <= rw + i
                  /\ rw + i - kw + 1 = i + 1
                  /\ rw + i < kw + len <=> i < len
      /\ r # k => ~(kw <= rw + i /\ rw + i < kw + len)
  BY <1>1
<1> QED BY <1>2 DEF rw, kw, nw

\* What fits in an int is left alone, and a uint32_t is no larger than the
\* number it should be.
LEMMA CIntegers ==
  ASSUME NEW n \in Nat
  PROVE  /\ CInt(n) \in Int
         /\ n < HalfInt => CInt(n) = n
         /\ CUInt(n) \in 0..n
<1>1. HalfInt \in Nat \ {0}
  BY ColumnConstants
<1> DEFINE word == 2 * HalfInt
<1>2. word \in Nat \ {0} /\ HalfInt < word
  BY <1>1
<1>3. n % word \in Nat /\ n % word <= n /\ (n < word => n % word = n)
  <2> HIDE DEF word
  <2> QED BY <1>2, SMT
<1>4. CInt(n) = (IF n % word < HalfInt THEN n % word ELSE (n % word) - word) /\ CUInt(n) = n % word
  BY DEF CInt, CUInt
<1> HIDE DEF word
<1> QED BY <1>1, <1>2, <1>3, <1>4

\* Row pos of column c starts where its address can say so.
InReach(c, pos) == Kind[c] = "bytes" => pos * Width[c] < HalfInt

LEMMA AddressableRows ==
  ASSUME NEW n \in Nat, Addressable(n), NEW pos \in RowsOf(n), NEW c \in Columns
  PROVE  InReach(c, pos)
<1> DEFINE w == Width[c]
           pw == pos * w
           nw == n * w
<1>1. w \in Nat \ {0} /\ pos \in Nat /\ pos < n /\ HalfInt \in Nat
  BY ColumnConstants DEF RowsOf
<1>2. pw \in Nat /\ nw \in Nat /\ pw + w <= nw
  BY <1>1, RowArithmetic
<1>3. Kind[c] = "bytes" => nw - w < HalfInt
  BY DEF Addressable
<1> HIDE DEF w, pw, nw
<1>4. Kind[c] = "bytes" => pw < HalfInt
  BY <1>1, <1>2, <1>3
<1> QED BY <1>4 DEF InReach, pw, w

\* The bytes a loader copies start within the storage and end within it.
LEMMA LoadExtent ==
  ASSUME NEW c \in Columns, NEW v \in Seq(Byte), NEW pos \in Nat, NEW n \in Nat,
         pos < n
  PROVE  /\ LoadLength(c, v) \in 0..Width[c]
         /\ LoadLength(c, v) <= Len(v)
         /\ LoadAddress(c, pos, v) \in Int
         /\ InReach(c, pos) =>
              /\ LoadAddress(c, pos, v) \in Nat
              /\ LoadAddress(c, pos, v) + LoadLength(c, v) <= n * Width[c]
              /\ Kind[c] # "document" => LoadAddress(c, pos, v) = pos * Width[c]
<1> DEFINE w == Width[c]
           len == LoadLength(c, v)
<1>1. w \in Nat \ {0} /\ Len(v) \in Nat
  BY ColumnConstants
<1>2. len \in 0..w /\ len <= Len(v)
  BY <1>1 DEF LoadLength
<1>3. pos * w \in Nat /\ n * w \in Nat /\ pos * w + w <= n * w
  BY <1>1, RowArithmetic
<1>4. pos * len \in Nat /\ pos * len + len <= pos * w + w
  <2> HIDE DEF w, len
  <2>1. PICK k \in Nat : w = len + k
    <3>1. w - len \in Nat /\ w = len + (w - len)
      BY <1>1, <1>2, SMT
    <3> QED BY <3>1
  <2> DEFINE pw == pos * w
             pl == pos * len
             pk == pos * k
  <2>2. len \in Nat
    BY <1>2
  <2>3. pw = pl + pk /\ pk \in Nat /\ pl \in Nat
    BY <2>1, <2>2, Distributes
  <2> HIDE DEF pw, pl, pk
  <2>4. pl \in Nat /\ pl + len <= pw + w
    BY <1>1, <2>1, <2>2, <2>3
  <2> QED BY <2>4 DEF pw, pl
<1> DEFINE at == LoadAddress(c, pos, v)
           pw == pos * w
           nw == n * w
           pl == pos * len
<1>5. /\ Kind[c] \in Kinds
      /\ Kind[c] = "fixed" => at = pw
      /\ Kind[c] = "bytes" => at = CInt(pw)
      /\ Kind[c] = "document" => at = CUInt(pl)
  <2>1. Kind[c] \in Kinds
    BY ColumnConstants
  <2>2. CASE Kind[c] = "fixed"
    BY <2>1, <2>2 DEF LoadAddress
  <2>3. CASE Kind[c] = "bytes"
    BY <2>1, <2>3 DEF LoadAddress
  <2>4. CASE Kind[c] = "document"
    BY <2>1, <2>4 DEF LoadAddress
  <2> QED BY <2>1, <2>2, <2>3, <2>4 DEF Kinds
<1>6. InReach(c, pos) => (Kind[c] = "bytes" => pw < HalfInt)
  BY DEF InReach
<1> HIDE DEF at, pw, nw, pl
<1>7. pw \in Nat /\ nw \in Nat /\ pl \in Nat /\ pw + w <= nw /\ pl + len <= pw + w
  BY <1>3, <1>4 DEF pw, nw, pl
<1>8. /\ at \in Int
      /\ InReach(c, pos) => at \in Nat /\ at + len <= nw /\ (Kind[c] # "document" => at = pw)
  <2> HIDE DEF w, len
  <2>1. /\ CInt(pw) \in Int
        /\ pw < HalfInt => CInt(pw) = pw
        /\ CUInt(pl) \in 0..pl
    BY <1>7, CIntegers
  <2> QED BY <1>1, <1>2, <1>5, <1>6, <1>7, <2>1 DEF Kinds
<1> QED BY <1>2, <1>8 DEF w, len, at, pw, nw

(***************************************************************************)
(* A document loaded into a row below num_rows is written inside the       *)
(* arrays, in every column, if the rows of strings and binaries start      *)
(* below 2^31: also by monary_load_document_value, which multiplies the    *)
(* row by the wrong length and whose address wraps around (cmonary.c,      *)
(* lines 286 to 666).                                                      *)
(***************************************************************************)
THEOREM LoadInBounds ==
  ASSUME NEW n \in Nat, Addressable(n), NEW pos \in RowsOf(n), NEW d \in Doc
  PROVE  ~OutOfBounds(n, pos, d)
<1>1. pos \in Nat /\ pos < n
  BY DEF RowsOf
<1>2. ASSUME NEW c \in Columns
      PROVE  WrittenBy(c, pos, d) \subseteq Addresses(c, n)
  <2>1. CASE Value[d][c] = NoValue
    BY <2>1 DEF WrittenBy
  <2>2. CASE Value[d][c] # NoValue
    <3> DEFINE v == Value[d][c]
    <3>1. v \in Seq(Byte)
      BY <2>2, ColumnConstants
    <3>2. /\ LoadLength(c, v) \in Int
          /\ LoadAddress(c, pos, v) \in Nat
          /\ LoadAddress(c, pos, v) + LoadLength(c, v) <= n * Width[c]
          /\ n * Width[c] \in Int
      BY <1>1, <3>1, AddressableRows, LoadExtent, ColumnConstants
    <3>3. WrittenBy(c, pos, d)
            = LoadAddress(c, pos, v)..(LoadAddress(c, pos, v) + LoadLength(c, v) - 1)
      BY <2>2 DEF WrittenBy
    <3> HIDE DEF v
    <3> QED BY <3>2, <3>3 DEF Addresses
  <2> QED BY <2>1, <2>2
<1> QED BY <1>2 DEF OutOfBounds

\* NumPy's fresh arrays are well formed.
LEMMA NewArraysWellFormed ==
  ASSUME NEW n \in Nat
  PROVE  WellFormed(NewArrays(n), n)
BY ColumnConstants DEF WellFormed, NewArrays

\* The storage of a column after a row has been loaded.
LEMMA StorageAfterLoad ==
  ASSUME NEW n \in Nat, NEW before, WellFormed(before, n),
         NEW pos \in RowsOf(n), NEW d \in Doc, NEW c \in Columns,
         Value[d][c] # NoValue
  PROVE  LET new  == bson_to_arrays(before, n, pos, d)
             v    == Value[d][c]
             dest == LoadAddress(c, pos, v)
         IN  /\ new.storage[c] \in [Addresses(c, n) -> Byte]
             /\ \A a \in Addresses(c, n) : new.storage[c][a] =
                  IF dest <= a /\ a < dest + LoadLength(c, v) THEN v[a - dest + 1]
                  ELSE before.storage[c][a]
<1> DEFINE v == Value[d][c]
           dest == LoadAddress(c, pos, v)
           len == LoadLength(c, v)
<1>1. pos \in Nat /\ pos < n /\ ~(pos > n)
  BY DEF RowsOf
<1>2. v \in Seq(Byte)
  BY ColumnConstants
<1>3. dest \in Int /\ len \in Nat /\ len <= Len(v)
  BY <1>1, <1>2, LoadExtent, ColumnConstants
<1>4. bson_to_arrays(before, n, pos, d).storage[c]
        = memcpy(before.storage[c], dest, v, len)
  BY <1>1 DEF bson_to_arrays, load_item
<1>5. before.storage[c] \in [Addresses(c, n) -> Byte] /\ Addresses(c, n) \subseteq Int
  BY DEF WellFormed, Addresses
<1> DEFINE mem == before.storage[c]
           S == Addresses(c, n)
<1> HIDE DEF v, dest, len, mem, S
<1>6. /\ memcpy(mem, dest, v, len) \in [S -> Byte]
      /\ \A a \in S : memcpy(mem, dest, v, len)[a] =
           IF dest <= a /\ a < dest + len THEN v[a - dest + 1] ELSE mem[a]
  <2>1. mem \in [S -> Byte] /\ S \subseteq Int
    BY <1>5 DEF mem, S
  <2>2. ASSUME NEW a \in S, dest <= a, a < dest + len
        PROVE  v[a - dest + 1] \in Byte
    <3>1. a - dest + 1 \in 1..Len(v)
      BY <1>2, <1>3, <2>1, <2>2
    <3> QED BY <1>2, <3>1
  <2> QED BY <2>1, <2>2 DEF memcpy
<1> QED BY <1>4, <1>6 DEF v, dest, len, mem, S

\* What monary_bson_to_arrays does to the masks.
LEMMA MasksAfterLoad ==
  ASSUME NEW n \in Nat, NEW before, WellFormed(before, n),
         NEW pos \in RowsOf(n), NEW d \in Doc, NEW c \in Columns
  PROVE  LET new == bson_to_arrays(before, n, pos, d)
         IN  /\ new.mask[c] \in [RowsOf(n) -> BOOLEAN]
             /\ new.mask[c][pos] <=> Value[d][c] = NoValue
             /\ \A r \in RowsOf(n) \ {pos} : new.mask[c][r] = before.mask[c][r]
<1>1. ~(pos > n)
  BY DEF RowsOf
<1>2. bson_to_arrays(before, n, pos, d).mask[c]
        = [before.mask[c] EXCEPT ![pos] = (Value[d][c] = NoValue)]
  BY <1>1 DEF bson_to_arrays
<1>3. before.mask[c] \in [RowsOf(n) -> BOOLEAN]
  BY DEF WellFormed
<1> QED BY <1>2, <1>3

\* monary_bson_to_arrays keeps the shape of the arrays.
LEMMA LoadKeepsShape ==
  ASSUME NEW n \in Nat, NEW before, WellFormed(before, n),
         NEW pos \in RowsOf(n), NEW d \in Doc
  PROVE  WellFormed(bson_to_arrays(before, n, pos, d), n)
<1>1. ASSUME NEW c \in Columns
      PROVE  bson_to_arrays(before, n, pos, d).storage[c] \in [Addresses(c, n) -> Byte]
  <2>1. CASE Value[d][c] # NoValue
    BY <2>1, StorageAfterLoad
  <2>2. CASE Value[d][c] = NoValue
    BY <2>2 DEF bson_to_arrays, RowsOf, WellFormed
  <2> QED BY <2>1, <2>2
<1> QED BY <1>1, MasksAfterLoad DEF WellFormed

\* Loading one row leaves the items of the other rows alone, and puts the
\* value at the start of its own item.
LEMMA CellsAfterLoad ==
  ASSUME NEW n \in Nat, NEW before, WellFormed(before, n),
         NEW pos \in RowsOf(n), NEW d \in Doc, NEW c \in Columns,
         Kind[c] # "document", InReach(c, pos),
         NEW r \in RowsOf(n), NEW i \in 0..(Width[c] - 1)
  PROVE  Cell(bson_to_arrays(before, n, pos, d), c, r)[i] =
           IF r = pos /\ Value[d][c] # NoValue /\ i < LoadLength(c, Value[d][c])
           THEN Value[d][c][i + 1]
           ELSE Cell(before, c, r)[i]
<1> DEFINE w == Width[c]
           v == Value[d][c]
           new == bson_to_arrays(before, n, pos, d)
           a == r * w + i
<1>1. Cell(new, c, r)[i] = new.storage[c][a] /\ Cell(before, c, r)[i] = before.storage[c][a]
  BY DEF Cell
<1>2. CASE v = NoValue
  BY <1>1, <1>2 DEF bson_to_arrays, RowsOf
<1>3. CASE v # NoValue
  <2>1. /\ w \in Nat \ {0}
        /\ pos \in Nat /\ pos < n /\ r \in Nat /\ r < n
        /\ v \in Seq(Byte)
    BY <1>3, ColumnConstants DEF RowsOf
  <2>2. /\ LoadAddress(c, pos, v) = pos * w
        /\ LoadLength(c, v) \in 0..w
    BY <2>1, LoadExtent
  <2> DEFINE len == LoadLength(c, v)
  <2>3. /\ a \in Addresses(c, n)
        /\ r = pos => /\ pos * w <= a
                      /\ a - pos * w + 1 = i + 1
                      /\ a < pos * w + len <=> i < len
        /\ r # pos => ~(pos * w <= a /\ a < pos * w + len)
    <3> HIDE DEF w, len
    <3>1. i \in 0..(w - 1) /\ len \in 0..w
      BY <2>2 DEF w, len
    <3>2. Addresses(c, n) = 0..(n * w - 1)
      BY DEF Addresses, w
    <3>3. /\ r * w + i \in 0..(n * w - 1)
          /\ r = pos => /\ pos * w <= r * w + i
                        /\ r * w + i - pos * w + 1 = i + 1
                        /\ r * w + i < pos * w + len <=> i < len
          /\ r # pos => ~(pos * w <= r * w + i /\ r * w + i < pos * w + len)
      <4>1. w \in Nat \ {0} /\ r \in Nat /\ pos \in Nat /\ n \in Nat /\ r < n
        BY <2>1 DEF w
      <4> QED BY <3>1, <4>1, CellArithmetic
    <3>4. a = r * w + i
      OBVIOUS
    <3> HIDE DEF a
    <3>5. a \in Addresses(c, n)
      BY <3>2, <3>3, <3>4, Zenon
    <3>6. r = pos => pos * w <= a /\ a - pos * w + 1 = i + 1 /\ (a < pos * w + len <=> i < len)
      <4>1. r = pos => pos * w <= a
        BY <3>3, <3>4, Zenon
      <4>2. r = pos => a - pos * w + 1 = i + 1
        <5> DEFINE pw == pos * w
        <5>1. w \in Nat \ {0} /\ pos \in Nat /\ n \in Nat
          BY <2>1 DEF w
        <5>2. pw \in Nat /\ i \in Nat
          BY <3>1, <5>1, RowArithmetic
        <5>3. r = pos => a = pw + i
          BY <3>4
        <5> HIDE DEF pw
        <5>4. r = pos => a - pw + 1 = i + 1
          BY <5>2, <5>3
        <5> QED BY <5>4 DEF pw
      <4>3. r = pos => (a < pos * w + len <=> i < len)
        BY <3>3, <3>4, Zenon
      <4> QED BY <4>1, <4>2, <4>3
    <3>7. r # pos => ~(pos * w <= a /\ a < pos * w + len)
      BY <3>3, <3>4, Zenon
    <3> QED BY <3>5, <3>6, <3>7, Zenon
  <2>4. new.storage[c][a] =
          IF pos * w <= a /\ a < pos * w + len THEN v[a - pos * w + 1]
          ELSE before.storage[c][a]
    BY <1>3, <2>2, <2>3, StorageAfterLoad
  <2> HIDE DEF a, new, len, w, v
  <2>5. new.storage[c][a] =
          IF r = pos /\ i < len THEN v[i + 1] ELSE before.storage[c][a]
    BY <2>3, <2>4
  <2> QED BY <1>1, <1>3, <2>5 DEF new, len, v
<1> QED BY <1>2, <1>3

\* Loading one row changes nothing a reader sees of the others.
LEMMA OtherRowsKept ==
  ASSUME NEW n \in Nat, NEW before, WellFormed(before, n),
         NEW pos \in RowsOf(n), NEW d \in Doc, NEW c \in Columns,
         Kind[c] # "document", InReach(c, pos), NEW r \in RowsOf(n), r # pos
  PROVE  LET new == bson_to_arrays(before, n, pos, d)
         IN  /\ Masked(new, c, r) = Masked(before, c, r)
             /\ Cell(new, c, r) = Cell(before, c, r)
<1> DEFINE new == bson_to_arrays(before, n, pos, d)
<1>1. Masked(new, c, r) = Masked(before, c, r)
  BY MasksAfterLoad DEF Masked
<1>2. \A i \in 0..(Width[c] - 1) : Cell(new, c, r)[i] = Cell(before, c, r)[i]
  BY CellsAfterLoad
<1>3. Cell(new, c, r) = Cell(before, c, r)
  <2> HIDE DEF new
  <2> QED BY <1>2 DEF Cell
<1> QED BY <1>1, <1>3

\* The loaded row starts with its value, and is exactly its value if the item
\* is filled or was zero before.
LEMMA RowLoaded ==
  ASSUME NEW n \in Nat, NEW before, WellFormed(before, n),
         NEW pos \in RowsOf(n), NEW d \in Doc, NEW c \in Columns,
         Kind[c] # "document", InReach(c, pos)
  PROVE  LET new == bson_to_arrays(before, n, pos, d)
         IN  /\ RowStartsAs(new, c, pos, d)
             /\ \/ Kind[c] = "fixed"
                \/ \A i \in 0..(Width[c] - 1) : Cell(before, c, pos)[i] = Zero
                => RowIs(new, c, pos, d)
<1> DEFINE new == bson_to_arrays(before, n, pos, d)
           v == Value[d][c]
           w == Width[c]
           len == LoadLength(c, v)
<1>1. Masked(new, c, pos) <=> v = NoValue
  BY MasksAfterLoad DEF Masked
<1>2. CASE v = NoValue
  BY <1>1, <1>2 DEF RowStartsAs, RowIs
<1>3. CASE v # NoValue
  <2>1. /\ v \in Seq(Byte) /\ w \in Nat \ {0} /\ Len(v) \in Nat
        /\ len = IF Len(v) > w THEN w ELSE Len(v)
        /\ Kind[c] = "fixed" => Len(v) = w
    BY <1>3, ColumnConstants DEF LoadLength
  <2>2. \A i \in 0..(w - 1) : Cell(new, c, pos)[i] =
          IF i < len THEN v[i + 1] ELSE Cell(before, c, pos)[i]
    BY <1>3, CellsAfterLoad
  <2> HIDE DEF new, v, w, len
  <2>3. \A i \in 0..(len - 1) : Cell(new, c, pos)[i] = v[i + 1]
    BY <2>1, <2>2
  <2>4. RowStartsAs(new, c, pos, d)
    BY <1>1, <2>3 DEF RowStartsAs, v, len
  <2>5. ASSUME \/ Kind[c] = "fixed"
               \/ \A i \in 0..(w - 1) : Cell(before, c, pos)[i] = Zero
        PROVE  RowIs(new, c, pos, d)
    <3>1. \A i \in 0..(w - 1) : Cell(new, c, pos)[i] = IF i < Len(v) THEN v[i + 1] ELSE Zero
      BY <2>1, <2>2, <2>5
    <3>2. Cell(new, c, pos) = Item(c, v)
      BY <3>1 DEF Cell, Item, w
    <3> QED BY <1>1, <3>2 DEF RowIs, v
  <2> QED BY <2>4, <2>5 DEF new, w
<1> QED BY <1>2, <1>3

-----------------------------------------------------------------------------
(* The control of a call.                                                     *)

\* The places before there is a cursor.
Early == {"size", "alloc", "collection", "init"}

\* Before there is a cursor nothing has been loaded or delivered; from
\* _make_column_data on the arrays have num_rows rows; only a generator is ever
\* suspended.
Progress ==
  /\ pc \in Early => handle = "unborn" /\ ~overrun
  /\ handle = "unborn" => row = 0 /\ delivered = << >>
  /\ pc \in {"collection", "init", "load", "yield"} => WellFormed(arrays, num_rows)
  /\ pc = "yield" => IsBlock

\* What a call holds while it is under way and when it is over.
Holdings ==
  /\ pc \in {"size", "alloc"} => coldata = "none"
  /\ pc \in {"size", "alloc", "collection"} => collection = "unbound"
  /\ coldata = "leaked" => call.setup = "bad_type"
  /\ ReleasedWhenOver

\* The inductive invariant of the control of a call.
ReadInv ==
  /\ ReadTypeOK
  /\ Progress
  /\ Holdings
  /\ NoDocumentLost
  /\ NoOverrun

-----------------------------------------------------------------------------
\* The arguments Monary hands to the driver are those a cursor can be made of.
LEMMA CallArguments ==
  ASSUME NEW c \in Calls
  PROVE  c \in CallType /\ c.limit % Word \in UInt32 /\ c.offset \in 0..MaxSkip
<1>1. c \in CallType
  BY CallsAssumption
<1>2. c.limit \in Int /\ c.offset \in 0..MaxSkip
  BY <1>1 DEF CallType
<1>3. Word \in Nat \ {0} /\ UInt32 = 0..(Word - 1)
  BY CursorConstants DEF Word, UInt32
<1>4. c.limit % Word \in UInt32
  <2> HIDE DEF Word, UInt32
  <2> QED BY <1>2, <1>3
<1> QED BY <1>1, <1>2, <1>4

\* Every step of a call is a step of the driver cursor or leaves it alone.
LEMMA ReadStepIsCursorStep ==
  ASSUME call \in Calls, [ReadNext]_readVars
  PROVE  [CursorNext]_cursorVars
<1>1. ASSUME InitCursor PROVE [CursorNext]_cursorVars
  <2>1. CASE call.bson = "invalid"
    BY <1>1, <2>1 DEF InitCursor
  <2>2. CASE call.bson # "invalid" /\ IsAggregate
    BY <1>1, <2>2 DEF InitCursor, CursorNext
  <2>3. CASE call.bson # "invalid" /\ ~IsAggregate
    <3>1. CursorOpen(mongoc_collection_find(call.limit % Word, call.offset, call.bson = "ok"))
      BY <1>1, <2>3 DEF InitCursor
    <3> QED BY <3>1, CallArguments DEF CursorNext
  <2> QED BY <2>1, <2>2, <2>3
<1>2. ASSUME LoadRow \/ LoadEnd PROVE [CursorNext]_cursorVars
  BY <1>2 DEF LoadRow, LoadEnd, CursorNext
<1>3. ASSUME Finally PROVE [CursorNext]_cursorVars
  BY <1>3 DEF Finally, CloseQuery, CursorNext
<1>4. ASSUME Size \/ MakeColumnData \/ GetCollection \/ LoadNull \/ Resume \/ CloseGenerator
             \/ UNCHANGED readVars
      PROVE  [CursorNext]_cursorVars
  BY <1>4 DEF Size, MakeColumnData, GetCollection, LoadNull, Resume, CloseGenerator, readVars
<1>5. ASSUME Environment PROVE [CursorNext]_cursorVars
  BY <1>5 DEF CursorNext
<1> QED BY <1>1, <1>2, <1>3, <1>4, <1>5 DEF ReadNext, CallStep, CallerStep

\* The call is sized by a natural number.
LEMMA SizeIsNat ==
  ASSUME ReadTypeOK, Size
  PROVE  /\ num_rows' \in Nat
         /\ pc' = "alloc" \/ pc' = "raised"
         /\ exception' \in {"none", "ValueError", "RuntimeError", "UnboundLocalError",
                            "GeneratorExit"}
<1>1. call.limit \in Int /\ call.block_size \in Int
  BY CallArguments DEF ReadTypeOK, CallType
<1>2. Len(server.coll) \in Nat
  BY LenProperties DEF ReadTypeOK, CursorTypeOK, ServerType
<1>3. ClippedCount(Len(server.coll)) \in Nat
  BY <1>1, <1>2 DEF ClippedCount
<1> QED BY <1>1, <1>3 DEF Size, SizeByBlock, SizeByLimit, SizeByCount, Allocate, Raise, ReadTypeOK

-----------------------------------------------------------------------------
\* Nothing is loaded, delivered or held when a call begins.
LEMMA ReadInvInit == ReadInit => ReadInv
<1> SUFFICES ASSUME ReadInit PROVE ReadInv
  OBVIOUS
<1>1. CursorTypeOK
  BY TypeInit DEF ReadInit
<1>2. << >> \in Seq(Doc) /\ Len(<< >>) = 0 /\ << >> \o << >> = << >>
  BY EmptySeq, ConcatEmptySeq
<1>3. handle = "unborn" /\ returned = << >>
  BY DEF ReadInit, CursorInit
<1>4. ReadTypeOK
  <2>1. block \in Seq(Doc) /\ Len(block) = row /\ delivered \in Seq(Doc)
    BY <1>2 DEF ReadInit
  <2>2. pc = "size" /\ num_rows = 0 /\ row = 0 /\ call \in Calls /\ overrun \in BOOLEAN
    BY DEF ReadInit
  <2>3. exception = "none" /\ coldata = "none" /\ collection = "unbound"
    BY DEF ReadInit
  <2> QED BY <1>1, <2>1, <2>2, <2>3 DEF ReadTypeOK, Final
<1>5. NoDocumentLost
  BY <1>2, <1>3 DEF ReadInit, NoDocumentLost
<1>6. Progress /\ Holdings /\ NoOverrun
  BY <1>3 DEF ReadInit, Progress, Holdings, ReleasedWhenOver, NoOverrun, Early
<1> QED BY <1>4, <1>5, <1>6 DEF ReadInv

\* A step that neither loads nor delivers keeps the documents in their places.
LEMMA NothingLoaded ==
  ASSUME ReadTypeOK, Progress, NoDocumentLost, UNCHANGED <<block, delivered, returned>>,
         \/ pc' = pc
         \/ handle = "unborn"
         \/ pc # "load" /\ pc' # "load"
  PROVE  NoDocumentLost'
<1>1. CASE pc' = pc
  BY <1>1 DEF NoDocumentLost
<1>2. CASE handle = "unborn"
  <2>1. block = << >> /\ delivered = << >>
    BY <1>2, EmptySeq DEF ReadTypeOK, Progress
  <2>2. << >> \o << >> = << >>
    BY EmptySeq, ConcatEmptySeq
  <2> QED BY <2>1, <2>2 DEF NoDocumentLost
<1>3. CASE pc # "load" /\ pc' # "load"
  BY <1>3 DEF NoDocumentLost
<1> QED BY <1>1, <1>2, <1>3

\* Sizing and setting up.
LEMMA SetUpKeeps ==
  ASSUME ReadInv, CursorTypeOK', Size \/ MakeColumnData \/ GetCollection
  PROVE  ReadInv'
<1> USE DEF ReadInv
<1>1. handle = "unborn" /\ row = 0 /\ UNCHANGED <<block, delivered, handle, returned, row, call, overrun>>
  BY DEF Size, MakeColumnData, GetCollection, Progress, Early, cursorVars
<1>2. NoDocumentLost'
  BY <1>1, NothingLoaded
<1>3. CASE Size
  BY <1>1, <1>2, <1>3, SizeIsNat
     DEF Size, ReadTypeOK, Progress, Holdings, ReleasedWhenOver, NoOverrun, Early, Final
<1>4. CASE MakeColumnData
  <2>1. call.setup \in {"ok", "mismatch", "bad_type"}
    BY CallArguments DEF ReadTypeOK, CallType
  <2>2. WellFormed(NewArrays(num_rows), num_rows)
    BY NewArraysWellFormed DEF ReadTypeOK
  <2> QED
    BY <1>1, <1>2, <1>4, <2>1, <2>2
       DEF MakeColumnData, ReadTypeOK, Progress, Holdings, ReleasedWhenOver, NoOverrun, Early,
           Final
<1>5. CASE GetCollection
  BY <1>1, <1>2, <1>5
     DEF GetCollection, ReadTypeOK, Progress, Holdings, ReleasedWhenOver, NoOverrun, Early, Final
<1> QED BY <1>3, <1>4, <1>5

\* Creating the cursor, or going on with NULL.
LEMMA InitCursorKeeps ==
  ASSUME ReadInv, CursorTypeOK', InitCursor \/ LoadNull
  PROVE  ReadInv'
<1> USE DEF ReadInv
<1>1. /\ handle = "unborn" /\ row = 0 /\ delivered = << >>
      /\ UNCHANGED <<block, delivered, returned, row, call, overrun, num_rows, arrays, coldata,
                     collection, exception>>
      /\ pc' \in {"load", "crashed"}
  BY DEF InitCursor, LoadNull, CursorOpen, Progress, Early, cursorVars
<1>2. NoDocumentLost'
  BY <1>1, NothingLoaded
<1>3. pc \in {"init", "load"}
  BY DEF InitCursor, LoadNull
<1> QED
  BY <1>1, <1>2, <1>3
     DEF ReadTypeOK, Progress, Holdings, ReleasedWhenOver, NoOverrun, Early, Final

\* Loading a document: it goes from the cursor to the block, and its row is
\* inside the arrays.
LEMMA LoadRowKeeps ==
  ASSUME ReadInv, CursorTypeOK', LoadRow
  PROVE  ReadInv'
<1> USE DEF ReadInv
<1>1. PICK b \in Doc :
        /\ CursorAdvance(b)
        /\ arrays' = bson_to_arrays(arrays, num_rows, row, b)
        /\ overrun' = (overrun \/ OutOfBounds(num_rows, row, b))
        /\ block' = Append(block, b)
  BY DEF LoadRow
<1>2. /\ pc = "load" /\ row' = row + 1 /\ row \in RowsOf(num_rows) /\ num_rows \in Nat
      /\ UNCHANGED <<call, pc, exception, num_rows, coldata, collection, delivered>>
  BY DEF LoadRow, LoadGuard, ReadTypeOK, RowsOf
<1>3. /\ handle = "live" /\ handle' = "live"
      /\ returned' = Append(returned, b)
  BY <1>1, NoDocIsNoDocument DEF CursorAdvance
<1>4. WellFormed(arrays, num_rows)' /\ NoOverrun'
  <2>1. WellFormed(bson_to_arrays(arrays, num_rows, row, b), num_rows)
    BY <1>2, LoadKeepsShape DEF Progress
  <2>2. Addressable(num_rows) => ~OutOfBounds(num_rows, row, b)
    BY <1>2, LoadInBounds
  <2> QED BY <1>1, <1>2, <2>1, <2>2 DEF NoOverrun, Addressable
<1>5. block' \in Seq(Doc) /\ Len(block') = row' /\ row' \in 0..num_rows'
  BY <1>1, <1>2, AppendProperties DEF ReadTypeOK, RowsOf
<1>6. NoDocumentLost'
  <2>1. block \in Seq(Doc) /\ delivered \in Seq(Doc) /\ <<b>> \in Seq(Doc)
    BY DEF ReadTypeOK
  <2>2. returned = delivered \o block
    BY <1>2 DEF NoDocumentLost
  <2>3. delivered \o block \in Seq(Doc)
    BY <2>1, ConcatProperties
  <2>4. /\ Append(delivered \o block, b) = (delivered \o block) \o <<b>>
        /\ Append(block, b) = block \o <<b>>
    BY <2>1, <2>3, AppendIsConcat
  <2>5. (delivered \o block) \o <<b>> = delivered \o (block \o <<b>>)
    BY <2>1, ConcatAssociative
  <2> QED BY <1>1, <1>2, <1>3, <2>2, <2>4, <2>5 DEF NoDocumentLost
<1>7. ReadTypeOK'
  <2>1. overrun' \in BOOLEAN
    BY <1>1
  <2> QED BY <1>2, <1>4, <1>5, <2>1 DEF ReadTypeOK
<1>8. Progress' /\ Holdings'
  BY <1>2, <1>3, <1>4 DEF Progress, Holdings, ReleasedWhenOver, Early
<1> QED BY <1>4, <1>6, <1>7, <1>8

\* The end of monary_load_query: the block is the caller's.
LEMMA LoadEndKeeps ==
  ASSUME ReadInv, CursorTypeOK', LoadEnd
  PROVE  ReadInv'
<1> USE DEF ReadInv
<1>1. /\ pc = "load" /\ handle = "live"
      /\ pc' \in {"yield", "finally"} /\ (pc' = "yield" => IsBlock)
      /\ delivered' = delivered \o block
      /\ UNCHANGED <<call, exception, num_rows, row, arrays, coldata, collection, overrun, block>>
  BY DEF LoadEnd, AfterLoad
<1>2. handle' = handle /\ returned' = returned
  BY DEF LoadEnd, CursorAdvance, cursorVars
<1>3. delivered' \in Seq(Doc)
  BY <1>1, ConcatProperties DEF ReadTypeOK
<1>4. NoDocumentLost'
  <2>1. delivered' \o << >> = delivered'
    BY <1>3, ConcatEmptySeq
  <2> QED BY <1>1, <1>2, <2>1 DEF NoDocumentLost
<1>5. ReadTypeOK'
  BY <1>1, <1>3 DEF ReadTypeOK
<1>6. Progress' /\ Holdings' /\ NoOverrun'
  BY <1>1, <1>2 DEF Progress, Holdings, ReleasedWhenOver, NoOverrun, Early, IsBlock
<1> QED BY <1>4, <1>5, <1>6

\* The caller asks for another block or lets go.
LEMMA CallerKeeps ==
  ASSUME ReadInv, CursorTypeOK', Resume \/ CloseGenerator
  PROVE  ReadInv'
<1> USE DEF ReadInv
<1>1. /\ pc = "yield"
      /\ UNCHANGED <<call, num_rows, arrays, coldata, collection, overrun, delivered, handle,
                     returned>>
  BY DEF Resume, CloseGenerator, cursorVars
<1>2. CASE pc' = "load" /\ row' = 0 /\ block' = << >> /\ UNCHANGED exception
  <2>1. block' \in Seq(Doc) /\ Len(block') = row' /\ delivered \o block' = delivered
    BY <1>2, EmptySeq, ConcatEmptySeq DEF ReadTypeOK
  <2>2. NoDocumentLost'
    <3>1. delivered \o << >> = delivered
      BY ConcatEmptySeq DEF ReadTypeOK
    <3> QED BY <1>1, <1>2, <2>1, <3>1 DEF NoDocumentLost
  <2>3. ReadTypeOK'
    BY <1>1, <1>2, <2>1 DEF ReadTypeOK
  <2>4. Progress' /\ Holdings' /\ NoOverrun'
    BY <1>1, <1>2 DEF Progress, Holdings, ReleasedWhenOver, NoOverrun, Early
  <2> QED BY <2>2, <2>3, <2>4
<1>3. CASE /\ pc' = "finally" /\ UNCHANGED <<row, block>>
           /\ exception' \in {exception, "GeneratorExit"}
  <2>1. NoDocumentLost'
    BY <1>1, <1>3, NothingLoaded
  <2>2. ReadTypeOK'
    BY <1>1, <1>3 DEF ReadTypeOK
  <2>3. Progress' /\ Holdings' /\ NoOverrun'
    BY <1>1, <1>3 DEF Progress, Holdings, ReleasedWhenOver, NoOverrun, Early
  <2> QED BY <2>1, <2>2, <2>3
<1> QED BY <1>2, <1>3 DEF Resume, CloseGenerator

\* Both finally blocks.
LEMMA FinallyKeeps ==
  ASSUME ReadInv, CursorTypeOK', Finally
  PROVE  ReadInv'
<1> USE DEF ReadInv
<1>1. /\ pc = "finally" /\ pc' \in {"returned", "raised"}
      /\ coldata' = "freed" /\ collection' # "live"
      /\ collection' \in {"unbound", "live", "destroyed"}
      /\ exception' \in {exception, "UnboundLocalError"}
      /\ UNCHANGED <<call, num_rows, row, arrays, overrun, block, delivered>>
  BY DEF Finally, ReadTypeOK
<1>2. returned' = returned /\ handle' # "live" /\ (handle' = "unborn" => handle = "unborn")
  BY DEF Finally, CloseQuery, CursorDestroy, cursorVars
<1>3. NoDocumentLost'
  BY <1>1, <1>2, NothingLoaded
<1>4. ReadTypeOK'
  BY <1>1 DEF ReadTypeOK, Final
<1>5. Progress' /\ Holdings' /\ NoOverrun'
  BY <1>1, <1>2 DEF Progress, Holdings, ReleasedWhenOver, NoOverrun, Early
<1> QED BY <1>3, <1>4, <1>5

\* What others do to the server, and doing nothing.
LEMMA OthersKeep ==
  ASSUME ReadInv, CursorTypeOK',
         (Environment /\ UNCHANGED callVars) \/ UNCHANGED readVars
  PROVE  ReadInv'
<1> USE DEF ReadInv
<1>1. UNCHANGED callVars /\ UNCHANGED <<handle, returned>>
  BY DEF Environment, ServerInsert, ServerDelete, ServerTimeout, readVars, cursorVars
<1>2. NoDocumentLost' /\ NoOverrun'
  BY <1>1 DEF NoDocumentLost, NoOverrun, callVars
<1>3. ReadTypeOK'
  BY <1>1 DEF ReadTypeOK, callVars
<1>4. Progress' /\ Holdings'
  BY <1>1 DEF Progress, Holdings, ReleasedWhenOver, callVars, IsBlock
<1> QED BY <1>2, <1>3, <1>4

\* Every step keeps the invariant.
LEMMA ReadInvNext == ReadInv /\ [ReadNext]_readVars => ReadInv'
<1> SUFFICES ASSUME ReadInv, [ReadNext]_readVars PROVE ReadInv'
  OBVIOUS
<1>1. [CursorNext]_cursorVars
  BY ReadStepIsCursorStep DEF ReadInv, ReadTypeOK
<1>2. CursorTypeOK'
  BY <1>1, TypeNext DEF ReadInv, ReadTypeOK
<1> QED
  BY <1>2, SetUpKeeps, InitCursorKeeps, LoadRowKeeps, LoadEndKeeps, CallerKeeps, FinallyKeeps,
     OthersKeep
     DEF ReadNext, CallStep, CallerStep

\* The invariant holds throughout a call.
LEMMA ReadInvHolds == ReadSpec => []ReadInv
BY ReadInvInit, ReadInvNext, PTL DEF ReadSpec

(***************************************************************************)
(* The locals of the reading methods and the column data keep their types; *)
(* row never exceeds num_rows and is the number of documents loaded.       *)
(***************************************************************************)
THEOREM ReadTypeCorrect == ReadSpec => []ReadTypeOK
<1>1. ReadInv => ReadTypeOK
  BY DEF ReadInv
<1> QED BY <1>1, ReadInvHolds, PTL

(***************************************************************************)
(* No loader ever writes outside NumPy arrays whose strings and binaries   *)
(* all start below 2^31, whatever the values and however many documents    *)
(* arrive, although monary_bson_to_arrays itself would let row = num_rows  *)
(* pass.  Beyond, the int address of cmonary.c:426 and :455 is negative.   *)
(***************************************************************************)
THEOREM NoOverrunHolds == ReadSpec => []NoOverrun
<1>1. ReadInv => NoOverrun
  BY DEF ReadInv
<1> QED BY <1>1, ReadInvHolds, PTL

(***************************************************************************)
(* Every document taken from the cursor is, in the same order, in the rows *)
(* the caller was given or in the block being loaded, for every block size *)
(* and every number of blocks.                                             *)
(***************************************************************************)
THEOREM NoDocumentLostHolds == ReadSpec => []NoDocumentLost
<1>1. ReadInv => NoDocumentLost
  BY DEF ReadInv
<1> QED BY <1>1, ReadInvHolds, PTL

(***************************************************************************)
(* On every path out of a call its cursor and collection are destroyed and *)
(* its column data freed, but for types that _make_column_data rejects     *)
(* after the allocation.                                                   *)
(***************************************************************************)
THEOREM ReleasedWhenOverHolds == ReadSpec => []ReleasedWhenOver
<1>1. ReadInv => ReleasedWhenOver
  BY DEF ReadInv, Holdings
<1> QED BY <1>1, ReadInvHolds, PTL

(***************************************************************************)
(* A call uses the driver cursor as MongocCursor describes it: what is     *)
(* proved of CursorSpec holds of every call.                               *)
(***************************************************************************)
THEOREM ReadImplementsCursor == ReadSpec => CursorSpec
<1>1. ReadInit => CursorInit
  BY DEF ReadInit
<1>2. ReadInv /\ [ReadNext]_readVars => [CursorNext]_cursorVars
  BY ReadStepIsCursorStep DEF ReadInv, ReadTypeOK
<1> QED BY <1>1, <1>2, ReadInvHolds, PTL DEF ReadSpec, CursorSpec

-----------------------------------------------------------------------------
(* The rows.                                                               *)

\* The rows that query and aggregate have not loaded yet are as numpy.zeros
\* made them.
FreshRows ==
  ~IsBlock /\ pc \in {"collection", "init", "load"} /\ Addressable(num_rows) =>
    \A c \in Columns : Kind[c] = "bytes" =>
      \A r \in RowsOf(num_rows) : r >= row =>
        \A i \in 0..(Width[c] - 1) : Cell(arrays, c, r)[i] = Zero

\* What the rows hold, as an inductive invariant beside ReadInv.
RowsInv ==
  /\ FreshRows
  /\ RowsFaithful
  /\ UnfilledRowsMasked

\* A step that leaves the arrays and what was loaded alone.
LEMMA SameRows ==
  ASSUME RowsInv, UNCHANGED <<call, row, arrays, block>>,
         pc' \in {"collection", "init", "load"} =>
           pc \in {"collection", "init", "load"} /\ UNCHANGED num_rows,
         UNCHANGED num_rows \/ row = 0
  PROVE  RowsInv'
<1>1. FreshRows'
  BY DEF RowsInv, FreshRows, IsBlock, Addressable
<1>2. RowsFaithful'
  <2>1. CASE UNCHANGED num_rows
    BY <2>1 DEF RowsInv, RowsFaithful, IsBlock, Addressable
  <2>2. CASE row = 0
    BY <2>2 DEF RowsFaithful
  <2> QED BY <2>1, <2>2
<1>3. UnfilledRowsMasked'
  BY DEF RowsInv, UnfilledRowsMasked, IsBlock
<1> QED BY <1>1, <1>2, <1>3 DEF RowsInv

\* With no rows loaded yet there is nothing to be faithful to.
LEMMA NoRows ==
  ASSUME row = 0
  PROVE  RowsFaithful
BY DEF RowsFaithful

\* NumPy's fresh arrays are zero and masked.
LEMMA FreshArrays ==
  ASSUME NEW n \in Nat, NEW c \in Columns
  PROVE  /\ \A r \in RowsOf(n), i \in 0..(Width[c] - 1) : Cell(NewArrays(n), c, r)[i] = Zero
         /\ \A r \in DOMAIN NewArrays(n).mask[c] : Masked(NewArrays(n), c, r)
<1>1. ASSUME NEW r \in RowsOf(n), NEW i \in 0..(Width[c] - 1)
      PROVE  Cell(NewArrays(n), c, r)[i] = Zero
  <2>1. Cell(NewArrays(n), c, r)[i] = NewArrays(n).storage[c][r * Width[c] + i]
    BY DEF Cell
  <2>2. r * Width[c] + i \in Addresses(c, n)
    <3> DEFINE w == Width[c]
    <3>1. w \in Nat \ {0} /\ r \in Nat /\ r < n
      BY ColumnConstants DEF RowsOf
    <3>2. i \in 0..(w - 1) /\ w \in 0..w /\ Addresses(c, n) = 0..(n * w - 1)
      BY <3>1 DEF Addresses
    <3> HIDE DEF w
    <3>3. r * w + i \in 0..(n * w - 1)
      BY <3>1, <3>2, CellArithmetic
    <3> QED BY <3>2, <3>3 DEF w
  <2> QED BY <2>1, <2>2 DEF NewArrays
<1>2. \A r \in DOMAIN NewArrays(n).mask[c] : Masked(NewArrays(n), c, r)
  BY DEF NewArrays, Masked
<1> QED BY <1>1, <1>2

\* Before the first step.
LEMMA RowsInit == ReadInit => RowsInv
<1> SUFFICES ASSUME ReadInit PROVE RowsInv
  OBVIOUS
<1>1. arrays = NewArrays(0) /\ row = 0 /\ pc = "size"
  BY DEF ReadInit
<1>2. UnfilledRowsMasked
  BY <1>1, FreshArrays DEF UnfilledRowsMasked
<1>3. FreshRows
  BY <1>1 DEF FreshRows
<1> QED BY <1>1, <1>2, <1>3, NoRows DEF RowsInv

\* _make_column_data.
LEMMA AllocatedRows ==
  ASSUME ReadInv, RowsInv, MakeColumnData
  PROVE  RowsInv'
<1>1. CASE call.setup = "ok"
  <2>1. arrays' = NewArrays(num_rows) /\ UNCHANGED <<num_rows, row, call>>
    BY <1>1 DEF MakeColumnData
  <2>2. row = 0 /\ row' = 0 /\ num_rows \in Nat
    BY <2>1 DEF MakeColumnData, ReadInv, ReadTypeOK, Progress, Early
  <2>3. RowsFaithful'
    BY <2>2 DEF RowsFaithful
  <2>4. UnfilledRowsMasked'
    BY <2>1, <2>2, FreshArrays DEF UnfilledRowsMasked
  <2>5. FreshRows'
    BY <2>1, <2>2, FreshArrays DEF FreshRows
  <2> QED BY <2>3, <2>4, <2>5 DEF RowsInv
<1>2. CASE call.setup # "ok"
  BY <1>2, SameRows DEF MakeColumnData
<1> QED BY <1>1, <1>2

\* A document is loaded: its row holds it, and the other rows what they held.
LEMMA LoadedRows ==
  ASSUME ReadInv, RowsInv, LoadRow
  PROVE  RowsInv'
<1>1. PICK b \in Doc :
        /\ arrays' = bson_to_arrays(arrays, num_rows, row, b)
        /\ block' = Append(block, b)
  BY DEF LoadRow
<1>2. /\ pc = "load" /\ row' = row + 1 /\ row \in RowsOf(num_rows) /\ num_rows \in Nat
      /\ UNCHANGED <<call, pc, num_rows>> /\ (IsBlock' <=> IsBlock)
      /\ WellFormed(arrays, num_rows)
  BY DEF LoadRow, LoadGuard, ReadInv, ReadTypeOK, RowsOf, Progress, IsBlock
<1> DEFINE new == bson_to_arrays(arrays, num_rows, row, b)
<1>0. ASSUME Addressable(num_rows), NEW c \in Columns PROVE InReach(c, row)
  BY <1>0, <1>2, AddressableRows
<1>3. ASSUME Addressable(num_rows), NEW c \in Columns, NEW r \in RowsOf(num_rows), r # row,
             Kind[c] # "document"
      PROVE  Masked(new, c, r) = Masked(arrays, c, r) /\ Cell(new, c, r) = Cell(arrays, c, r)
  BY <1>0, <1>2, <1>3, OtherRowsKept
<1>4. ASSUME Addressable(num_rows), NEW c \in Columns, Kind[c] # "document"
      PROVE  /\ RowStartsAs(new, c, row, b)
             /\ Kind[c] = "fixed" \/ ~IsBlock => RowIs(new, c, row, b)
  <2>1. Kind[c] \in {"fixed", "bytes"}
    BY <1>4, ColumnConstants DEF Kinds
  <2>2. Kind[c] = "bytes" /\ ~IsBlock =>
          \A i \in 0..(Width[c] - 1) : Cell(arrays, c, row)[i] = Zero
    BY <1>2, <1>4 DEF RowsInv, FreshRows, RowsOf
  <2> QED BY <1>0, <1>2, <1>4, <2>1, <2>2, RowLoaded
<1>5. /\ block'[row + 1] = b
      /\ \A r \in 0..(row - 1) : block'[r + 1] = block[r + 1]
  <2>1. block \in Seq(Doc) /\ Len(block) = row /\ row \in Nat
    BY <1>2 DEF ReadInv, ReadTypeOK, RowsOf
  <2> QED BY <1>1, <2>1, AppendProperties
<1> HIDE DEF new
<1>6. RowsFaithful'
  <2> SUFFICES ASSUME Addressable(num_rows), NEW r \in 0..row, NEW c \in Columns
               PROVE  /\ Kind[c] = "fixed" => RowIs(new, c, r, block'[r + 1])
                      /\ Kind[c] = "bytes" =>
                           IF IsBlock THEN RowStartsAs(new, c, r, block'[r + 1])
                           ELSE RowIs(new, c, r, block'[r + 1])
    <3>1. 0..(row' - 1) = 0..row /\ arrays' = new
      BY <1>1, <1>2 DEF RowsOf, new
    <3> QED BY <1>2, <3>1 DEF RowsFaithful, Addressable
  <2>1. CASE r = row
    BY <1>4, <1>5, <2>1
  <2>2. CASE r # row
    <3>1. r \in 0..(row - 1) /\ r \in RowsOf(num_rows)
      BY <1>2, <2>2 DEF RowsOf
    <3>2. block'[r + 1] = block[r + 1]
      BY <1>5, <3>1
    <3>3. /\ Kind[c] = "fixed" => RowIs(arrays, c, r, block[r + 1])
          /\ Kind[c] = "bytes" =>
               IF IsBlock THEN RowStartsAs(arrays, c, r, block[r + 1])
               ELSE RowIs(arrays, c, r, block[r + 1])
      BY <3>1 DEF RowsInv, RowsFaithful
    <3>4. Kind[c] # "document" =>
            Masked(new, c, r) = Masked(arrays, c, r) /\ Cell(new, c, r) = Cell(arrays, c, r)
      BY <1>3, <2>2, <3>1
    <3> QED BY <3>2, <3>3, <3>4 DEF RowIs, RowStartsAs
  <2> QED BY <2>1, <2>2
<1>7. UnfilledRowsMasked'
  <2> SUFFICES ASSUME ~IsBlock, NEW c \in Columns, NEW r \in DOMAIN new.mask[c], r >= row + 1
               PROVE  Masked(new, c, r)
    BY <1>1, <1>2 DEF UnfilledRowsMasked, new
  <2>1. /\ new.mask[c] \in [RowsOf(num_rows) -> BOOLEAN]
        /\ \A q \in RowsOf(num_rows) \ {row} : new.mask[c][q] = arrays.mask[c][q]
    BY <1>2, MasksAfterLoad DEF new
  <2>2. r \in RowsOf(num_rows) /\ DOMAIN arrays.mask[c] = RowsOf(num_rows)
    BY <1>2, <2>1 DEF WellFormed
  <2>3. r # row /\ r >= row
    BY <1>2, <2>2 DEF RowsOf
  <2>4. Masked(arrays, c, r)
    BY <2>2, <2>3 DEF RowsInv, UnfilledRowsMasked
  <2> QED BY <2>1, <2>2, <2>3, <2>4 DEF Masked
<1>8. FreshRows'
  <2> SUFFICES ASSUME ~IsBlock, Addressable(num_rows), NEW c \in Columns, Kind[c] = "bytes",
                      NEW r \in RowsOf(num_rows), r >= row + 1, NEW i \in 0..(Width[c] - 1)
               PROVE  Cell(new, c, r)[i] = Zero
    BY <1>1, <1>2 DEF FreshRows, new, Addressable
  <2>1. r # row /\ r >= row
    BY <1>2 DEF RowsOf
  <2>2. Cell(new, c, r) = Cell(arrays, c, r)
    BY <1>3, <2>1
  <2>3. Cell(arrays, c, r)[i] = Zero
    BY <1>2, <2>1 DEF RowsInv, FreshRows
  <2> QED BY <2>2, <2>3
<1> QED BY <1>6, <1>7, <1>8 DEF RowsInv

\* A generator starts over with the arrays of the block before.
LEMMA ResumedRows ==
  ASSUME ReadInv, RowsInv, Resume
  PROVE  RowsInv'
<1>1. CASE row = num_rows
  <2>1. IsBlock' /\ row' = 0
    BY <1>1 DEF Resume, ReadInv, Progress, IsBlock
  <2> QED BY <2>1 DEF RowsInv, RowsFaithful, UnfilledRowsMasked, FreshRows
<1>2. CASE row # num_rows
  BY <1>2, SameRows DEF Resume
<1> QED BY <1>1, <1>2

\* Every step keeps the rows.
LEMMA RowsNext == ReadInv /\ RowsInv /\ [ReadNext]_readVars => RowsInv'
<1> SUFFICES ASSUME ReadInv, RowsInv, [ReadNext]_readVars PROVE RowsInv'
  OBVIOUS
<1>1. ASSUME Size \/ GetCollection \/ InitCursor \/ LoadNull \/ LoadEnd \/ CloseGenerator
             \/ Finally \/ UNCHANGED callVars
      PROVE  RowsInv'
  <2>1. CASE Size
    <3>1. pc' \in {"alloc", "raised"}
      BY <2>1, SizeIsNat DEF ReadInv
    <3>2. row = 0
      BY <2>1 DEF Size, ReadInv, Progress, Early
    <3> QED BY <2>1, <3>1, <3>2, SameRows DEF Size
  <2>2. CASE GetCollection \/ InitCursor \/ LoadNull \/ LoadEnd \/ CloseGenerator \/ Finally
             \/ UNCHANGED callVars
    BY <2>2, SameRows
       DEF GetCollection, InitCursor, LoadNull, LoadEnd, AfterLoad, CloseGenerator, Finally,
           callVars
  <2> QED BY <1>1, <2>1, <2>2
<1> QED
  BY <1>1, AllocatedRows, LoadedRows, ResumedRows DEF ReadNext, CallStep, CallerStep, readVars

\* The rows' invariant holds throughout a call.
LEMMA RowsInvHolds == ReadSpec => []RowsInv
BY ReadInvHolds, RowsInit, RowsNext, PTL DEF ReadSpec

(***************************************************************************)
(* Every loaded row represents its document, for all columns but those of  *)
(* type bson, all widths, values and block sizes, and whatever the row     *)
(* held in the block before, in arrays of less than 2 GiB.                 *)
(***************************************************************************)
THEOREM RowsFaithfulHolds == ReadSpec => []RowsFaithful
<1>1. RowsInv => RowsFaithful
  BY DEF RowsInv
<1> QED BY <1>1, RowsInvHolds, PTL

(***************************************************************************)
(* The rows that query and aggregate allocated for documents that never    *)
(* came are masked in every column, also when the cursor fails halfway.    *)
(***************************************************************************)
THEOREM UnfilledRowsMaskedHolds == ReadSpec => []UnfilledRowsMasked
<1>1. RowsInv => UnfilledRowsMasked
  BY DEF RowsInv
<1> QED BY <1>1, RowsInvHolds, PTL

-----------------------------------------------------------------------------
(* What was asked.                                                         *)

\* What a call has passed to get where it is.
Passed ==
  /\ pc \in {"collection", "init", "load", "yield"} => call.setup = "ok"
  /\ pc \in {"init", "load", "yield"} => call.connected
  /\ handle # "unborn" => ~Wrong
  /\ pc = "yield" => handle # "unborn"
  /\ pc = "finally" /\ exception = "none" =>
       call.setup = "ok" /\ call.connected /\ handle # "unborn"
  /\ pc = "returned" => exception = "none" /\ handle # "unborn"
  /\ pc = "raised" => exception # "none"
  /\ exception = "GeneratorExit" => handle # "unborn"

\* What is wrong with the bytes is found by the count, or only by a crash.
Caught ==
  /\ pc \notin {"size", "raised"} /\ call.bson = "invalid" =>
       IsBlock \/ (~call.do_count /\ call.limit > 0)
  /\ pc = "load" /\ handle = "unborn" => call.bson = "invalid"
  /\ pc = "crashed" => call.connected /\ call.setup = "ok" /\ call.bson = "invalid"
  /\ GoesOnWithNull => pc \in Early \cup {"load", "crashed"}

\* The cursor has the limit and the offset of the call; an aggregation has
\* neither.
AsAsked ==
  handle # "unborn" =>
    /\ cursor.limit = IF IsAggregate THEN 0 ELSE call.limit % Word
    /\ cursor.skip = IF IsAggregate THEN 0 ELSE call.offset

\* How many rows there are: at least one in a block, and in a whole result the
\* limit or, as long as nobody has written, the count.
Sized ==
  /\ IsBlock /\ pc \notin {"size", "raised"} => num_rows >= 1
  /\ ~IsBlock /\ call.limit > 0 => num_rows <= call.limit
  /\ ~IsBlock /\ server.writes = 0 /\ pc \notin {"size", "raised"} =>
       \/ call.limit > 0 /\ num_rows = call.limit
       \/ num_rows = Len(server.coll)

\* query and aggregate deliver once.
OneBlock ==
  ~IsBlock => /\ pc \in Early \cup {"load"} => delivered = << >>
              /\ Len(delivered) <= num_rows

\* The cursor has come to its end or failed.
Finished == ended \/ cursor.failed

\* Only then does the loading stop, or when the one block is full.
Stops ==
  /\ pc = "yield" /\ row < num_rows => Finished
  /\ pc \in {"finally", "returned"} /\ exception = "none" =>
       Finished \/ (~IsBlock /\ Len(delivered) = num_rows)

\* The inductive invariant of what was asked, beside ReadInv and the cursor's.
AskInv == Passed /\ Caught /\ AsAsked /\ Sized /\ OneBlock /\ Stops

\* Before the first step.
LEMMA AskInit == ReadInit => AskInv
<1> SUFFICES ASSUME ReadInit PROVE AskInv
  OBVIOUS
<1>1. /\ pc = "size" /\ handle = "unborn" /\ num_rows = 0 /\ delivered = << >> /\ call \in Calls
      /\ exception = "none"
  BY DEF ReadInit, CursorInit
<1>2. call.limit \in Int /\ Len(<< >>) = 0
  BY <1>1, CallArguments, EmptySeq DEF CallType
<1> QED
  BY <1>1, <1>2
     DEF AskInv, Passed, Caught, AsAsked, Sized, OneBlock, Stops, GoesOnWithNull, Early

\* How many rows are allocated.
LEMMA SizeAsks ==
  ASSUME ReadInv, AskInv, Size
  PROVE  AskInv'
<1>1. /\ pc = "size" /\ pc' \in {"alloc", "raised"} /\ num_rows' \in Nat /\ num_rows \in Nat
      /\ UNCHANGED <<call, delivered, handle, cursor, server, ended>>
      /\ delivered = << >> /\ handle = "unborn" /\ Len(<< >>) = 0
  BY SizeIsNat, EmptySeq DEF Size, ReadInv, ReadTypeOK, Progress, Early, cursorVars
<1>2. call.limit \in Int /\ call.block_size \in Int /\ Len(server.coll) \in Nat
  BY CallArguments, LenProperties DEF ReadInv, ReadTypeOK, CallType, CursorTypeOK, ServerType
<1>3. Sized'
  <2>1. CASE SizeByBlock
    BY <1>1, <1>2, <2>1 DEF SizeByBlock, Allocate, Sized, IsBlock
  <2>2. CASE SizeByLimit
    BY <1>1, <1>2, <2>2 DEF SizeByLimit, Allocate, Sized, IsBlock
  <2>3. CASE SizeByCount
    <3>1. \/ num_rows' = ClippedCount(Len(server.coll))
          \/ num_rows' = num_rows /\ pc' = "raised"
      BY <2>3 DEF SizeByCount, Allocate, Raise
    <3>2. ~IsBlock /\ (IsBlock' <=> IsBlock)
      BY <1>1, <2>3 DEF SizeByCount, IsBlock
    <3>3. CASE num_rows' = ClippedCount(Len(server.coll))
      BY <1>1, <1>2, <3>2, <3>3 DEF ClippedCount, Sized
    <3>4. CASE num_rows' = num_rows /\ pc' = "raised"
      BY <1>1, <3>2, <3>4 DEF AskInv, Sized
    <3> QED BY <3>1, <3>3, <3>4
  <2> QED BY <2>1, <2>2, <2>3 DEF Size
<1>4. AsAsked' /\ OneBlock' /\ Stops'
  BY <1>1 DEF AskInv, AsAsked, OneBlock, Stops, IsBlock
<1>5. Passed'
  <2>1. /\ pc' = "raised" => exception' # "none"
        /\ exception' # "GeneratorExit"
    BY <1>1
       DEF AskInv, Passed, Size, SizeByBlock, SizeByLimit, SizeByCount, Allocate, Raise
  <2> QED BY <1>1, <2>1 DEF AskInv, Passed
<1>6. Caught'
  BY <1>1
     DEF Caught, Size, SizeByBlock, SizeByLimit, SizeByCount, Allocate, Raise, GoesOnWithNull,
         IsBlock, IsAggregate, Early
<1> QED BY <1>3, <1>4, <1>5, <1>6 DEF AskInv

\* A step that leaves the rows and the server alone keeps their numbers.
LEMMA SameSize ==
  ASSUME AskInv, UNCHANGED <<call, num_rows>>,
         server'.writes = 0 => server.writes = 0 /\ server'.coll = server.coll,
         pc' \notin {"size", "raised"} => pc \notin {"size", "raised"}
  PROVE  Sized'
BY DEF AskInv, Sized, IsBlock

\* Setting up.
LEMMA SetUpAsks ==
  ASSUME ReadInv, AskInv, MakeColumnData \/ GetCollection
  PROVE  AskInv'
<1>1. /\ pc \in {"alloc", "collection"} /\ handle = "unborn"
      /\ UNCHANGED <<call, num_rows, delivered, handle, cursor, server, ended>>
      /\ pc' \in {"collection", "init", "finally", "raised"}
  BY DEF MakeColumnData, GetCollection, ReadInv, Progress, Early, cursorVars
<1>2. Sized'
  BY <1>1, SameSize
<1>3. Passed' /\ Caught'
  BY <1>1
     DEF MakeColumnData, GetCollection, AskInv, Passed, Caught, GoesOnWithNull, IsBlock, Early
<1>4. Stops'
  BY <1>1 DEF MakeColumnData, GetCollection, Stops
<1>5. AsAsked' /\ OneBlock'
  BY <1>1 DEF AskInv, AsAsked, OneBlock, IsBlock, Early
<1> QED BY <1>2, <1>3, <1>4, <1>5 DEF AskInv

\* Creating the cursor, or going on with NULL.
LEMMA InitCursorAsks ==
  ASSUME ReadInv, AskInv, InitCursor \/ LoadNull
  PROVE  AskInv'
<1>1. /\ pc \in {"init", "load"} /\ handle = "unborn" /\ pc' \in {"load", "crashed"}
      /\ UNCHANGED <<call, num_rows, delivered, server, ended, exception>>
  BY DEF InitCursor, LoadNull, CursorOpen, ReadInv, Progress, Early, cursorVars
<1>2. Sized'
  BY <1>1, SameSize
<1>3. AsAsked' /\ (handle' # "unborn" => call.bson # "invalid")
  <2>1. CASE LoadNull \/ call.bson = "invalid"
    BY <1>1, <2>1 DEF InitCursor, LoadNull, AsAsked, cursorVars
  <2>2. CASE InitCursor /\ call.bson # "invalid" /\ IsAggregate
    BY <1>1, <2>2
       DEF InitCursor, CursorOpen, mongoc_collection_aggregate, cursor_new, AsAsked, IsAggregate
  <2>3. CASE InitCursor /\ call.bson # "invalid" /\ ~IsAggregate
    BY <1>1, <2>3
       DEF InitCursor, CursorOpen, mongoc_collection_find, cursor_new, AsAsked, IsAggregate
  <2> QED BY <2>1, <2>2, <2>3
<1>4. Passed' /\ Caught'
  <2>1. call.setup = "ok" /\ call.connected
    <3>1. CASE pc = "init"
      BY <3>1 DEF AskInv, Passed
    <3>2. CASE pc = "load"
      BY <3>2 DEF AskInv, Passed
    <3> QED BY <1>1, <3>1, <3>2
  <2>2. Passed'
    BY <1>1, <1>3, <2>1 DEF AskInv, Passed, Wrong
  <2>3. Caught'
    BY <1>1, <2>1
       DEF InitCursor, LoadNull, CursorOpen, AskInv, Passed, Caught, GoesOnWithNull, IsBlock,
           Early, cursorVars
  <2> QED BY <2>2, <2>3
<1>5. OneBlock' /\ Stops'
  BY <1>1 DEF AskInv, OneBlock, Stops, IsBlock, Early
<1> QED BY <1>2, <1>3, <1>4, <1>5 DEF AskInv

\* Loading: the cursor keeps what it was made with, and the loop ends at the
\* end of the cursor or of the rows.
LEMMA LoadAsks ==
  ASSUME ReadInv, ReadInv', HistoryInv, EndInv, AskInv, LoadRow \/ LoadEnd
  PROVE  AskInv'
<1>1. /\ pc = "load" /\ handle = "live" /\ handle' = "live" /\ UNCHANGED <<call, num_rows>>
      /\ row \in 0..num_rows /\ num_rows \in Nat
      /\ pc' \in {"load", "yield", "finally"}
  BY NoDocIsNoDocument
     DEF LoadRow, LoadEnd, AfterLoad, CursorAdvance, ReadInv, ReadTypeOK, cursorVars
<1>2. /\ cursor'.limit = cursor.limit /\ cursor'.skip = cursor.skip
      /\ server'.coll = server.coll /\ server'.writes = server.writes
  BY AdvanceFixed DEF LoadRow, LoadEnd, cursorVars
<1>3. Sized'
  BY <1>1, <1>2, SameSize
<1>4. AsAsked' /\ Passed' /\ Caught'
  <2>1. ~Wrong
    BY <1>1 DEF AskInv, Passed
  <2> QED
    BY <1>1, <1>2, <2>1
       DEF AskInv, AsAsked, Passed, Caught, GoesOnWithNull, Wrong, IsAggregate, Early, LoadRow,
           LoadEnd, AfterLoad
<1>5. CASE LoadRow
  BY <1>1, <1>3, <1>4, <1>5 DEF LoadRow, AskInv, OneBlock, Stops, IsBlock, Early
<1>6. CASE LoadEnd
  <2>1. row < num_rows => Finished'
    <3>1. CASE LoadGuard
      BY <1>6, <3>1 DEF LoadEnd, CursorAdvance, Finished
    <3>2. CASE ~LoadGuard
      BY <1>6, <3>2 DEF LoadEnd, LoadGuard, mongoc_cursor_error, Finished, cursorVars
    <3> QED BY <3>1, <3>2
  <2>2. /\ pc' = (IF IsBlock /\ row > 0 THEN "yield" ELSE "finally")
        /\ delivered' = delivered \o block /\ UNCHANGED <<row, exception>>
    BY <1>6 DEF LoadEnd, AfterLoad
  <2>3. ~IsBlock => Len(delivered') = row
    <3>1. block \in Seq(Doc) /\ Len(block) = row
      BY DEF ReadInv, ReadTypeOK
    <3>2. ASSUME ~IsBlock PROVE delivered' = block
      BY <1>1, <2>2, <3>1, <3>2, ConcatEmptySeq DEF AskInv, OneBlock
    <3> QED BY <3>1, <3>2
  <2>4. OneBlock'
    BY <1>1, <2>2, <2>3 DEF OneBlock, IsBlock, Early
  <2>5. Stops'
    <3>1. CASE row < num_rows
      BY <1>1, <2>1, <2>2, <3>1 DEF Stops
    <3>2. CASE row = num_rows
      <4>1. ~IsBlock \/ pc' = "yield"
        BY <1>1, <2>2, <3>2 DEF AskInv, Sized
      <4> QED BY <1>1, <2>2, <2>3, <3>2, <4>1 DEF Stops, IsBlock
    <3> QED BY <1>1, <3>1, <3>2
  <2> QED BY <1>3, <1>4, <2>4, <2>5 DEF AskInv
<1> QED BY <1>5, <1>6

\* What the caller of a generator does, and the way out.
LEMMA LeaveAsks ==
  ASSUME ReadInv, AskInv, Resume \/ CloseGenerator \/ Finally
  PROVE  AskInv'
<1>1. /\ UNCHANGED <<call, num_rows, delivered, cursor, ended>>
      /\ server'.writes = server.writes /\ server'.coll = server.coll
      /\ handle' = "unborn" => handle = "unborn"
      /\ handle' # "unborn" => handle # "unborn"
  <2>1. server \in ServerType
    BY DEF ReadInv, ReadTypeOK, CursorTypeOK
  <2> QED
    BY <2>1
       DEF Resume, CloseGenerator, Finally, CloseQuery, CursorDestroy, mongoc_cursor_destroy,
           Killed, Fault, cursorVars, ServerType
<1>2. CASE Resume \/ CloseGenerator
  <2>1. /\ pc = "yield" /\ pc' \in {"load", "finally"} /\ IsBlock /\ IsBlock'
        /\ row \in 0..num_rows /\ handle' = handle /\ num_rows \in Nat
        /\ pc' = "finally" /\ exception' = "none" => row < num_rows
        /\ handle # "unborn"
    BY <1>2, <1>1
       DEF Resume, CloseGenerator, ReadInv, ReadTypeOK, Progress, IsBlock, AskInv, Passed,
           cursorVars
  <2>2. Sized'
    BY <1>1, <2>1, SameSize
  <2>3. Passed' /\ Caught' /\ AsAsked' /\ OneBlock'
    <3>1. ~Wrong /\ ~Wrong' /\ ~GoesOnWithNull'
      BY <1>1, <2>1 DEF AskInv, Passed, Wrong, GoesOnWithNull
    <3> QED
      BY <1>1, <2>1, <3>1
         DEF AskInv, Passed, Caught, AsAsked, OneBlock, IsAggregate, Wrong, Resume,
             CloseGenerator, Early
  <2>4. Stops'
    BY <1>1, <2>1 DEF AskInv, Stops, Finished
  <2> QED BY <2>2, <2>3, <2>4 DEF AskInv
<1>3. CASE Finally
  <2>1. /\ pc = "finally" /\ pc' \in {"returned", "raised"}
        /\ pc' = "returned" => exception = "none" /\ exception' = "none"
    BY <1>3 DEF Finally
  <2>2. Sized'
    BY <1>1, <2>1, SameSize
  <2>3. Passed' /\ Caught'
    BY <1>1, <1>3, <2>1
       DEF AskInv, Passed, Caught, GoesOnWithNull, IsBlock, Wrong, Early, Finally
  <2>5. AsAsked' /\ OneBlock'
    BY <1>1, <2>1 DEF AskInv, AsAsked, OneBlock, IsAggregate, IsBlock, Early
  <2>4. Stops'
    BY <1>1, <2>1 DEF AskInv, Stops, Finished, IsBlock
  <2> QED BY <2>2, <2>3, <2>4, <2>5 DEF AskInv
<1> QED BY <1>2, <1>3

\* What others do to the server, and doing nothing.
LEMMA OthersAsk ==
  ASSUME ReadInv, AskInv, (Environment /\ UNCHANGED callVars) \/ UNCHANGED readVars
  PROVE  AskInv'
<1>1. UNCHANGED callVars /\ UNCHANGED <<handle, cursor, ended>>
  BY DEF Environment, ServerInsert, ServerDelete, ServerTimeout, readVars, cursorVars
<1>2. server'.writes = 0 => server.writes = 0 /\ server'.coll = server.coll
  <2>1. server \in ServerType
    BY DEF ReadInv, ReadTypeOK, CursorTypeOK
  <2>2. ASSUME NEW d \in Doc, ServerInsert(d) PROVE server'.writes # 0
    BY <2>1, <2>2 DEF ServerInsert, ServerType
  <2>3. ASSUME ServerDelete PROVE server'.writes # 0
    BY <2>1, <2>3 DEF ServerDelete, ServerType
  <2>4. CASE ServerTimeout \/ UNCHANGED readVars
    BY <2>1, <2>4 DEF ServerTimeout, readVars, cursorVars, ServerType
  <2> QED BY <2>2, <2>3, <2>4 DEF Environment
<1>3. Sized'
  BY <1>1, <1>2, SameSize DEF callVars
<1>4. Passed' /\ Caught' /\ AsAsked' /\ OneBlock' /\ Stops'
  BY <1>1
     DEF callVars, AskInv, Passed, Caught, AsAsked, OneBlock, Stops, Finished, IsBlock,
         IsAggregate, Wrong, GoesOnWithNull
<1> QED BY <1>3, <1>4 DEF AskInv

\* Every step keeps what was asked.
LEMMA AskNext ==
  ReadInv /\ ReadInv' /\ HistoryInv /\ EndInv /\ AskInv /\ [ReadNext]_readVars => AskInv'
BY SizeAsks, SetUpAsks, InitCursorAsks, LoadAsks, LeaveAsks, OthersAsk
   DEF ReadNext, CallStep, CallerStep

\* All the invariants of a call.
LEMMA AskInvHolds == ReadSpec => [](ReadInv /\ HistoryInv /\ EndInv /\ AskInv)
<1>1. ReadSpec => [](HistoryInv /\ EndInv)
  BY ReadImplementsCursor, EndInvHolds, PTL
<1> QED BY <1>1, ReadInvHolds, AskInit, AskNext, PTL DEF ReadSpec

\* A first part of f that is cut at the limit, or is all of a shorter f.
LEMMA CutAtLimit ==
  ASSUME NEW f \in Seq(Doc), NEW ret \in Seq(Doc), NEW limit \in Nat,
         Len(ret) <= Len(f), Take(f, Len(ret)) = ret,
         \/ limit # 0 /\ Len(ret) = limit
         \/ (limit # 0 => Len(ret) <= limit) /\ Len(ret) >= Len(f)
  PROVE  ret = IF limit = 0 THEN f ELSE Take(f, AtMost(limit, Len(f)))
<1>1. Len(f) \in Nat /\ Len(ret) \in Nat
  BY LenProperties
<1>2. CASE limit # 0 /\ Len(ret) = limit
  BY <1>1, <1>2 DEF AtMost
<1>3. CASE (limit # 0 => Len(ret) <= limit) /\ Len(ret) >= Len(f)
  <2>1. Len(ret) = Len(f) /\ (limit # 0 => AtMost(limit, Len(f)) = Len(f))
    BY <1>1, <1>3 DEF AtMost
  <2>2. Take(f, Len(f)) = f
    BY <1>1, TakeDrop
  <2> QED BY <2>1, <2>2
<1> QED BY <1>2, <1>3

\* Skipping leaves no more than there was.
LEMMA DropIsShorter ==
  ASSUME NEW p \in Seq(Doc), NEW n \in Nat
  PROVE  Len(p) >= Len(Drop(p, n))
<1>1. Len(p) \in Nat
  BY LenProperties
<1>2. CASE n < Len(p)
  BY <1>1, <1>2 DEF Drop
<1>3. CASE n >= Len(p)
  <2>1. Drop(p, n) = << >>
    BY <1>1, <1>3, SubSeqEmpty DEF Drop
  <2> QED BY <1>1, <2>1, EmptySeq
<1> QED BY <1>1, <1>2, <1>3

\* What has been returned is a first part of what the query found.
LEMMA ReturnedIsFirstPart ==
  ASSUME HistoryInv, EndInv, ~cursor.failed, server.writes = 0, cursor.limit < HalfWord
  PROVE  LET f == Found(cursor, server)
         IN  f \in Seq(Doc) /\ Len(returned) <= Len(f) /\ Take(f, Len(returned)) = returned
<1> DEFINE f == Found(cursor, server)
<1>1. /\ cursor \in CursorType /\ server \in ServerType /\ returned \in Seq(Doc)
      /\ History(returned, cursor, server) /\ Sound(cursor, server)
  BY DEF HistoryInv, EndInv, CursorTypeOK
<1>2. f \in Seq(Doc) /\ Len(f) \in Nat
  BY <1>1, RepliesType, LenProperties
<1> HIDE DEF f
<1>3. CASE cursor.sent
  <2>1. PICK rest \in Seq(Doc) : returned \o rest = f
    BY <1>1, <1>3, StillToCome DEF f
  <2> QED BY <1>1, <1>2, <2>1, FirstPart DEF f
<1>4. CASE ~cursor.sent
  <2>1. returned = << >> /\ << >> \o f = f /\ << >> \in Seq(Doc)
    BY <1>1, <1>2, <1>4, NothingBefore, EmptySeq, ConcatEmptySeq DEF Sound
  <2> QED BY <1>2, <2>1, FirstPart DEF f
<1> QED BY <1>3, <1>4

\* The limit as the cursor has it.
LEMMA LimitOfCursor ==
  ASSUME ReadInv, AskInv, handle # "unborn", call.limit \in 0..(HalfWord - 1)
  PROVE  /\ cursor.limit = (IF IsAggregate THEN 0 ELSE call.limit) /\ cursor.limit < HalfWord
         /\ cursor.skip = (IF IsAggregate THEN 0 ELSE call.offset)
<1>1. HalfWord \in Nat \ {0} /\ Word = 2 * HalfWord
  BY CursorConstants DEF Word
<1>2. call.limit % Word = call.limit
  BY <1>1
<1> QED BY <1>1, <1>2 DEF AskInv, AsAsked

\* A call that returned delivered everything it took from the cursor.
LEMMA AllDelivered ==
  ASSUME ReadInv, pc # "load"
  PROVE  delivered = returned /\ returned \in Seq(Doc)
BY ConcatEmptySeq DEF ReadInv, NoDocumentLost, ReadTypeOK, CursorTypeOK

\* A call that returned with no error and no writer around.
LEMMA ResultIsExact ==
  ASSUME ReadInv, HistoryInv, EndInv, AskInv
  PROVE  ResultExact
<1> SUFFICES ASSUME pc = "returned", ~cursor.failed, server.writes = 0,
                    call.limit \in 0..(HalfWord - 1)
             PROVE  delivered = Selected(server.coll,
                                  IF call.method = "block_aggregate" THEN 0 ELSE call.limit,
                                  IF IsAggregate THEN 0 ELSE call.offset)
  BY DEF ResultExact, mongoc_cursor_error
<1> DEFINE f == Found(cursor, server)
           limit == IF call.method = "block_aggregate" THEN 0 ELSE call.limit
<1>1. exception = "none" /\ handle # "unborn"
  BY DEF AskInv, Passed
<1>2. /\ cursor.limit = (IF IsAggregate THEN 0 ELSE call.limit) /\ cursor.limit < HalfWord
      /\ cursor.skip = (IF IsAggregate THEN 0 ELSE call.offset)
  BY <1>1, LimitOfCursor
<1>3. delivered = returned /\ returned \in Seq(Doc)
  BY AllDelivered
<1>4. f \in Seq(Doc) /\ Len(returned) <= Len(f) /\ Take(f, Len(returned)) = returned
  BY <1>2, ReturnedIsFirstPart
<1>5. \A n : Selected(server.coll, n, cursor.skip) =
               IF n = 0 THEN f ELSE Take(f, AtMost(n, Len(f)))
  BY DEF Selected, Found
<1>6. limit \in Nat /\ call.limit \in Nat /\ Len(f) \in Nat /\ Len(returned) \in Nat
      /\ num_rows \in Nat
  BY <1>3, <1>4, CursorConstants, LenProperties DEF ReadInv, ReadTypeOK
<1>7. ~IsBlock => limit = call.limit
  BY DEF IsBlock
<1>8. Finished \/ (~IsBlock /\ Len(delivered) = num_rows)
  BY <1>1 DEF AskInv, Stops
<1> SUFFICES returned = IF limit = 0 THEN f ELSE Take(f, AtMost(limit, Len(f)))
  BY <1>2, <1>3, <1>5
<1> HIDE DEF f
<1>9. CASE Finished
  <2>1. returned = IF cursor.limit = 0 THEN f ELSE Take(f, AtMost(cursor.limit, Len(f)))
    BY <1>2, <1>5, <1>9 DEF Finished, EndInv, EndMeansAll, mongoc_cursor_error
  <2>2. CASE cursor.limit = limit
    BY <2>1, <2>2
  <2>3. CASE cursor.limit # limit
    <3>1. cursor.limit = 0 /\ ~IsBlock
      BY <1>2, <2>3, CallArguments
         DEF IsAggregate, IsBlock, ReadInv, ReadTypeOK, CallType, Methods
    <3>2. limit # 0 => Len(returned) <= limit
      BY <1>3, <1>6, <1>7, <3>1 DEF AskInv, OneBlock, Sized
    <3>3. Len(returned) >= Len(f)
      BY <1>6, <2>1, <3>1
    <3> HIDE DEF limit
    <3> QED BY <1>3, <1>4, <1>6, <3>2, <3>3, CutAtLimit
  <2> QED BY <2>2, <2>3
<1>10. CASE ~IsBlock /\ Len(delivered) = num_rows
  <2>1. limit # 0 => Len(returned) <= limit
    BY <1>3, <1>6, <1>7, <1>10 DEF AskInv, OneBlock, Sized
  <2>2. \/ limit # 0 /\ Len(returned) = limit
        \/ Len(returned) = Len(server.coll)
    BY <1>3, <1>6, <1>7, <1>10 DEF AskInv, Sized
  <2>3. Len(server.coll) >= Len(f)
    <3>1. server.coll \in Seq(Doc) /\ cursor.skip \in Nat
      BY CursorConstants DEF HistoryInv, CursorTypeOK, ServerType, CursorType
    <3> QED BY <3>1, DropIsShorter DEF f, Found
  <2> HIDE DEF limit
  <2> QED BY <1>3, <1>4, <1>6, <2>1, <2>2, <2>3, CutAtLimit
<1> QED BY <1>8, <1>9, <1>10

\* Whatever was written meanwhile.
LEMMA LimitIsKept ==
  ASSUME ReadInv, HistoryInv, EndInv, AskInv
  PROVE  LimitHolds
<1> SUFFICES ASSUME call.limit \in 1..(HalfWord - 1), call.method # "block_aggregate"
             PROVE  Len(delivered) <= call.limit
  BY DEF LimitHolds
<1>1. delivered \in Seq(Doc) /\ Len(delivered) \in Nat /\ num_rows \in Nat /\ call.limit \in Nat
  BY CursorConstants, LenProperties DEF ReadInv, ReadTypeOK
<1>2. CASE ~IsBlock
  BY <1>1, <1>2 DEF AskInv, OneBlock, Sized
<1>3. CASE IsBlock
  <2>1. CASE handle = "unborn"
    BY <1>1, <2>1, EmptySeq DEF ReadInv, Progress
  <2>2. CASE handle # "unborn"
    <3>1. ~IsAggregate
      BY <1>3 DEF IsAggregate, IsBlock
    <3>2. call.limit \in 0..(HalfWord - 1)
      BY CursorConstants
    <3>3. cursor.limit = call.limit
      BY <2>2, <3>1, <3>2, LimitOfCursor
    <3>4. Len(returned) <= call.limit
      BY <3>3 DEF EndInv, LimitRespected
    <3>5. Len(delivered) <= Len(returned)
      <4> DEFINE more == IF pc = "load" THEN block ELSE << >>
      <4>1. more \in Seq(Doc) /\ returned = delivered \o more
        BY EmptySeq DEF ReadInv, NoDocumentLost, ReadTypeOK
      <4> HIDE DEF more
      <4> QED BY <1>1, <4>1, FirstPart
    <3>6. Len(returned) \in Nat
      BY LenProperties DEF HistoryInv, CursorTypeOK
    <3> QED BY <1>1, <3>4, <3>5, <3>6
  <2> QED BY <2>1, <2>2
<1> QED BY <1>2, <1>3

(***************************************************************************)
(* A call that returns normally, with no cursor error and no writer        *)
(* around, has given its caller exactly the documents the arguments        *)
(* select, for every method, limit, offset and block size; and whatever is *)
(* written between the count, the find and the batches, never more than    *)
(* the limit.                                                              *)
(***************************************************************************)
THEOREM ReturnsWhatWasAskedHolds == ReadSpec => []ReturnsWhatWasAsked
<1>1. ReadInv /\ HistoryInv /\ EndInv /\ AskInv => ReturnsWhatWasAsked
  BY ResultIsExact, LimitIsKept DEF ReturnsWhatWasAsked
<1> QED BY <1>1, AskInvHolds, PTL

(***************************************************************************)
(* A call on a closed connection, with bad types or with bytes that are    *)
(* not BSON gets nothing and ends with an exception raised by the method,  *)
(* but for one that goes on with a NULL cursor; that, and only that,       *)
(* crashes.                                                                *)
(***************************************************************************)
THEOREM WrongCallsFailHolds == ReadSpec => []WrongCallsFail
<1>1. ASSUME ReadInv, HistoryInv, EndInv, AskInv PROVE WrongCallsFail
  <2>1. pc = "crashed" => GoesOnWithNull
    BY <1>1 DEF AskInv, Caught, GoesOnWithNull
  <2>2. ASSUME pc \in Final, Wrong
        PROVE  /\ server.handed = << >> /\ delivered = << >>
               /\ IF GoesOnWithNull THEN pc = "crashed"
                  ELSE pc = "raised" /\ exception \notin {"none", "GeneratorExit"}
    <3>1. handle = "unborn"
      BY <1>1, <2>2 DEF AskInv, Passed
    <3>2. server.handed = << >> /\ delivered = << >>
      BY <1>1, <3>1 DEF ReadInv, Progress, HistoryInv
    <3>3. pc # "returned"
      BY <1>1, <3>1 DEF AskInv, Passed
    <3>4. GoesOnWithNull => pc = "crashed"
      BY <1>1, <2>2 DEF AskInv, Caught, Final, Early
    <3>5. ~GoesOnWithNull => pc = "raised"
      BY <2>1, <2>2, <3>3 DEF Final
    <3>6. pc = "raised" => exception \notin {"none", "GeneratorExit"}
      BY <1>1, <3>1 DEF AskInv, Passed
    <3> QED BY <3>2, <3>4, <3>5, <3>6
  <2> QED BY <2>1, <2>2 DEF WrongCallsFail
<1> QED BY <1>1, AskInvHolds, PTL

-----------------------------------------------------------------------------
(* The abstract view.                                                      *)

\* Nothing but a call of mongoc_cursor_next brings documents to the client.
LEMMA NothingSent ==
  ASSUME ReadInv,
         \/ Size \/ MakeColumnData \/ GetCollection \/ InitCursor \/ LoadNull
         \/ Resume \/ CloseGenerator \/ Finally \/ Environment
  PROVE  server.handed' = server.handed
<1>1. server \in ServerType
  BY DEF ReadInv, ReadTypeOK, CursorTypeOK
<1>2. CASE Size \/ MakeColumnData \/ GetCollection \/ LoadNull \/ Resume \/ CloseGenerator
  BY <1>2 DEF Size, MakeColumnData, GetCollection, LoadNull, Resume, CloseGenerator, cursorVars
<1>3. CASE InitCursor
  BY <1>3 DEF InitCursor, CursorOpen, cursorVars
<1>4. CASE Finally
  <2>1. server' \in {server, [server EXCEPT !.open = FALSE], Fault(server)}
    BY <1>4 DEF Finally, CloseQuery, CursorDestroy, mongoc_cursor_destroy, Killed, cursorVars
  <2> QED BY <1>1, <2>1 DEF Fault, ServerType
<1>5. CASE Environment
  BY <1>1, <1>5 DEF Environment, ServerInsert, ServerDelete, ServerTimeout, ServerType
<1> QED BY <1>2, <1>3, <1>4, <1>5

\* The call is sized before anything is sent, or fails.
LEMMA SizeRefines ==
  ASSUME ReadInv, HistoryInv, Size
  PROVE  Stream!Reserve \/ Stream!Finish
<1>1. server.handed = << >>
  BY DEF Size, ReadInv, Progress, Early, HistoryInv
<1>2. server.handed' = server.handed /\ delivered' = delivered /\ pc = "size"
  BY NothingSent DEF Size
<1>3. num_rows' \in Nat /\ (pc' = "alloc" \/ pc' = "raised")
  BY SizeIsNat DEF ReadInv
<1>4. pc' = "raised" => num_rows' = num_rows
  BY DEF Size, SizeByBlock, SizeByLimit, SizeByCount, Allocate, Raise
<1>5. StreamStatus = "open"
  BY <1>2 DEF StreamStatus, Final
<1>6. CASE pc' = "alloc"
  <2>1. StreamStatus' = "open"
    BY <1>6 DEF StreamStatus, Final
  <2> QED BY <1>1, <1>2, <1>3, <1>5, <2>1 DEF Stream!Reserve
<1>7. CASE pc' = "raised"
  <2>1. StreamStatus' = "over"
    BY <1>7 DEF StreamStatus, Final
  <2> QED BY <1>2, <1>4, <1>5, <1>7, <2>1 DEF Stream!Finish
<1> QED BY <1>3, <1>6, <1>7

\* Setting up is not seen, unless it fails.
LEMMA SetUpRefines ==
  ASSUME ReadInv, MakeColumnData \/ GetCollection \/ InitCursor \/ LoadNull
  PROVE  Stream!Abandon \/ Stream!Finish \/ UNCHANGED Stream!streamVars
<1>1. /\ server.handed' = server.handed /\ delivered' = delivered /\ num_rows' = num_rows
      /\ pc \in {"alloc", "collection", "init", "load"}
      /\ pc' \in {"collection", "init", "load", "finally", "raised", "crashed"}
  BY NothingSent DEF MakeColumnData, GetCollection, InitCursor, LoadNull
<1>2. StreamStatus = "open"
  BY <1>1 DEF StreamStatus, Final
<1>3. CASE pc' \in {"collection", "init", "load"}
  <2>1. StreamStatus' = "open"
    BY <1>3 DEF StreamStatus, Final
  <2> QED BY <1>1, <1>2, <2>1 DEF Stream!streamVars
<1>4. CASE pc' = "finally"
  <2>1. StreamStatus' = "last"
    BY <1>4 DEF StreamStatus, Final
  <2> QED BY <1>1, <1>2, <2>1 DEF Stream!Abandon
<1>5. CASE pc' \in {"raised", "crashed"}
  <2>1. StreamStatus' = "over"
    BY <1>5 DEF StreamStatus, Final
  <2> QED BY <1>1, <1>2, <2>1 DEF Stream!Finish
<1> QED BY <1>1, <1>3, <1>4, <1>5

\* A document is loaded: a batch may have arrived.
LEMMA LoadRowRefines ==
  ASSUME ReadInv, HistoryInv, EndInv, LoadRow
  PROVE  Stream!Receive \/ UNCHANGED Stream!streamVars
<1>1. PICK b \in Doc : CursorAdvance(b)
  BY DEF LoadRow
<1>2. PICK batch \in Seq(Doc) : server.handed' = server.handed \o batch
  BY <1>1, AdvanceSends DEF Sent
<1>3. delivered' = delivered /\ num_rows' = num_rows /\ pc = "load" /\ pc' = "load"
  BY DEF LoadRow
<1>4. StreamStatus = "open" /\ StreamStatus' = "open"
  BY <1>3 DEF StreamStatus, Final
<1>5. server.handed \in Seq(Doc)
  BY DEF ReadInv, ReadTypeOK, CursorTypeOK, ServerType
<1>6. CASE batch = << >>
  <2>1. server.handed' = server.handed
    BY <1>2, <1>5, <1>6, ConcatEmptySeq
  <2> QED BY <1>3, <1>4, <2>1 DEF Stream!streamVars
<1>7. CASE batch # << >>
  <2>1. /\ server.handed' \in Seq(Doc)
        /\ SubSeq(server.handed', 1, Len(server.handed)) = server.handed
    BY <1>2, <1>5, FirstPart DEF Take
  <2>2. Len(server.handed') > Len(server.handed)
    <3>1. Len(server.handed \o batch) = Len(server.handed) + Len(batch)
      BY <1>5, ConcatProperties
    <3>2. Len(batch) \in Nat /\ Len(batch) # 0 /\ Len(server.handed) \in Nat
      BY <1>5, <1>7, EmptySeq, LenProperties
    <3> QED BY <1>2, <3>1, <3>2
  <2> QED BY <1>3, <1>4, <2>1, <2>2 DEF Stream!Receive
<1> QED BY <1>6, <1>7

\* Two buffers are as one.
LEMMA Buffered ==
  ASSUME NEW ret \in Seq(Doc), NEW x \in Seq(Doc), NEW y \in Seq(Doc)
  PROVE  \E b \in Seq(Doc) : ret \o b = (ret \o x) \o y
<1>1. x \o y \in Seq(Doc)
  BY ConcatProperties
<1>2. (ret \o x) \o y = ret \o (x \o y)
  BY ConcatAssociative
<1> QED BY <1>1, <1>2

\* monary_load_query returns: its block goes to the caller, and one that does
\* not fill the arrays is the last.
LEMMA LoadEndRefines ==
  ASSUME ReadInv, HistoryInv, EndInv, LoadEnd
  PROVE  \E n \in 0..num_rows : Stream!Deliver(n)
<1>1. /\ delivered \in Seq(Doc) /\ block \in Seq(Doc) /\ Len(block) = row /\ row \in 0..num_rows
      /\ num_rows \in Nat /\ server.handed \in Seq(Doc) /\ returned \in Seq(Doc)
  BY DEF ReadInv, ReadTypeOK, CursorTypeOK, ServerType
<1>2. /\ pc = "load" /\ delivered' = delivered \o block /\ num_rows' = num_rows /\ row' = row
      /\ pc' = "finally" \/ (pc' = "yield" /\ row > 0)
  BY DEF LoadEnd, AfterLoad
<1>3. server.handed' = server.handed
  <2>1. CASE UNCHANGED cursorVars
    BY <2>1 DEF cursorVars
  <2>2. CASE CursorAdvance(NoDoc)
    <3>1. server.handed' = server.handed \o << >>
      BY <2>2, AdvanceSends DEF Sent
    <3> QED BY <1>1, <3>1, ConcatEmptySeq
  <2> QED BY <2>1, <2>2 DEF LoadEnd
<1>4. delivered \o block = returned
  BY <1>2 DEF ReadInv, NoDocumentLost
<1>5. Len(returned) = Len(delivered) + row /\ Len(delivered) \in Nat
  BY <1>1, <1>4, ConcatProperties, LenProperties
<1>6. Len(returned) <= Len(server.handed) /\ SubSeq(server.handed, 1, Len(returned)) = returned
  <2>1. /\ returned \in Seq(Doc) /\ cursor.first_batch \in Seq(Doc) /\ cursor.docs \in Seq(Doc)
        /\ (returned \o cursor.first_batch) \o cursor.docs = server.handed
    BY DEF HistoryInv, History, CursorTypeOK, CursorType
  <2>2. \E b \in Seq(Doc) :
          returned \o b = (returned \o cursor.first_batch) \o cursor.docs
    BY <2>1, Buffered, Zenon
  <2>3. PICK buffered \in Seq(Doc) : returned \o buffered = server.handed
    BY <2>1, <2>2
  <2> QED BY <2>1, <2>3, FirstPart DEF Take
<1>7. StreamStatus = "open"
  BY <1>2 DEF StreamStatus, Final
<1>8. StreamStatus' \in IF row < num_rows THEN {"last"} ELSE {"open", "last"}
  BY <1>2 DEF StreamStatus, Final
<1>9. Stream!Deliver(row)
  <2>1. Len(delivered) + row <= Len(server.handed)
    BY <1>5, <1>6
  <2>2. delivered' = SubSeq(server.handed, 1, Len(delivered) + row)
    BY <1>2, <1>4, <1>5, <1>6
  <2> QED BY <1>2, <1>3, <1>7, <1>8, <2>1, <2>2 DEF Stream!Deliver
<1> QED BY <1>1, <1>9

\* A short block was the last one, whether the caller asks for more or not.
LEMMA CallerRefines ==
  ASSUME ReadInv, Resume \/ CloseGenerator
  PROVE  Stream!Abandon \/ UNCHANGED Stream!streamVars
<1>1. /\ server.handed' = server.handed /\ delivered' = delivered /\ num_rows' = num_rows
      /\ pc = "yield" /\ row \in 0..num_rows /\ num_rows \in Nat
  BY NothingSent DEF Resume, CloseGenerator, ReadInv, ReadTypeOK
<1>2. CASE row = num_rows
  <2>1. StreamStatus = "open"
    BY <1>1, <1>2 DEF StreamStatus, Final
  <2>2. CASE Resume
    <3>1. StreamStatus' = "open"
      BY <1>2, <2>2 DEF Resume, StreamStatus, Final
    <3> QED BY <1>1, <2>1, <3>1 DEF Stream!streamVars
  <2>3. CASE CloseGenerator
    <3>1. StreamStatus' = "last"
      BY <2>3 DEF CloseGenerator, StreamStatus, Final
    <3> QED BY <1>1, <2>1, <3>1 DEF Stream!Abandon
  <2> QED BY <2>2, <2>3
<1>3. CASE row # num_rows
  <2>1. row < num_rows
    BY <1>1, <1>3
  <2>2. StreamStatus = "last"
    BY <1>1, <2>1 DEF StreamStatus, Final
  <2>3. pc' = "finally"
    BY <1>3 DEF Resume, CloseGenerator
  <2>4. StreamStatus' = "last"
    BY <2>3 DEF StreamStatus, Final
  <2> QED BY <1>1, <2>2, <2>4 DEF Stream!streamVars
<1> QED BY <1>2, <1>3

\* The end of the call.
LEMMA FinallyRefines ==
  ASSUME ReadInv, Finally
  PROVE  Stream!Finish
<1>1. /\ server.handed' = server.handed /\ delivered' = delivered /\ num_rows' = num_rows
      /\ pc = "finally" /\ pc' \in {"returned", "raised"}
  BY NothingSent DEF Finally
<1>2. StreamStatus = "last" /\ StreamStatus' = "over"
  BY <1>1 DEF StreamStatus, Final
<1> QED BY <1>1, <1>2 DEF Stream!Finish

\* The others are not seen.
LEMMA OthersRefine ==
  ASSUME ReadInv, (Environment /\ UNCHANGED callVars) \/ UNCHANGED readVars
  PROVE  UNCHANGED Stream!streamVars
<1>1. UNCHANGED callVars /\ server.handed' = server.handed
  BY NothingSent DEF readVars, cursorVars
<1> QED BY <1>1 DEF Stream!streamVars, StreamStatus, callVars

(***************************************************************************)
(* Every call of query, block_query, aggregate and block_aggregate         *)
(* implements RowStream: the documents reach the caller in the order the   *)
(* server sent them, none skipped or repeated between two blocks, every    *)
(* block but the last is full, and nothing follows a short block, an       *)
(* abandoned generator or the end, for all limits, block sizes, batches,   *)
(* faults and writers.                                                     *)
(***************************************************************************)
THEOREM RowStreamHolds == ReadSpec => RowStreamSpec
<1>1. ReadInit => Stream!StreamInit
  BY DEF ReadInit, CursorInit, Stream!StreamInit, StreamStatus, Final
<1>2. ReadInv /\ HistoryInv /\ EndInv /\ AskInv /\ [ReadNext]_readVars
        => [Stream!StreamNext]_(Stream!streamVars)
  BY SizeRefines, SetUpRefines, LoadRowRefines, LoadEndRefines, CallerRefines, FinallyRefines,
     OthersRefine
     DEF ReadNext, CallStep, CallerStep, Stream!StreamNext
<1> QED BY <1>1, <1>2, AskInvHolds, PTL DEF ReadSpec, RowStreamSpec, Stream!StreamSpec
=============================================================================
