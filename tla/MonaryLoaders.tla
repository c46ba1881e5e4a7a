----------------------------- MODULE MonaryLoaders -----------------------------
(***************************************************************************)
(* The loaders of cmonary.c: what one BSON value becomes in one item of a   *)
(* NumPy array.  ColumnData models where the bytes go; this module models   *)
(* which number, text or length they are, with C's conversions.             *)
(*                                                                          *)
(* All widths are scaled down by eight: an int8 has 1 bit, an int64 has 8.   *)
(* Floating point numbers are counted in halves and keep as many bits as    *)
(* Mantissa says.                                                           *)
(***************************************************************************)
EXTENDS Sums, Integers, Sequences

CONSTANTS
  AddressBits,   \* bits of a C int in address arithmetic (32 in the code)
  MaxText        \* bound: characters of a string

ASSUME LoaderAssumption == AddressBits \in Nat \ {0} /\ MaxText \in Nat

Bits == [int8 |-> 1, int16 |-> 2, int32 |-> 4, int64 |-> 8,
         uint8 |-> 1, uint16 |-> 2, uint32 |-> 4, uint64 |-> 8]
Mantissa == [float32 |-> 3, float64 |-> 6]

IntTypes == DOMAIN Bits
Signed(t) == t \in {"int8", "int16", "int32", "int64"}
Modulus(t) == 2 ^ Bits[t]
Representable(t) == IF Signed(t) THEN -(Modulus(t) \div 2)..(Modulus(t) \div 2 - 1)
                    ELSE 0..(Modulus(t) - 1)

\* (NUMTYPE) n of an integer n: the same residue in the range of t.
Wrap(t, n) == CHOOSE r \in Representable(t) : (r - n) % Modulus(t) = 0

Abs(n) == IF n < 0 THEN -n ELSE n
TowardsZero(halves) == IF halves < 0 THEN -((-halves) \div 2) ELSE halves \div 2

\* The least 2^k that leaves at most bits digits of n, and n rounded to it,
\* ties to even.
Step(n, bits) == CHOOSE s \in {2 ^ k : k \in 0..10} :
                   /\ Abs(n) < s * 2 ^ bits
                   /\ s > 1 => Abs(n) >= (s \div 2) * 2 ^ bits
Rounded(n, bits) ==
  LET s == Step(n, bits)
      q == Abs(n) \div s
      r == Abs(n) % s
      up == 2 * r > s \/ (2 * r = s /\ q % 2 = 1)
      a == s * (q + IF up THEN 1 ELSE 0)
  IN  IF n < 0 THEN -a ELSE a

-----------------------------------------------------------------------------
(* BSON values.  A text is the sequence of the widths of its characters,   *)
(* where 0 is U+0000, a character of one byte.                              *)

Int32s == [type: {"int32"}, n: Representable("int32")]
Int64s == [type: {"int64"}, n: Representable("int64")]
Doubles == [type: {"double"},
            n: {h \in -300..300 : Rounded(h, Mantissa["float64"]) = h}]
Texts == [type: {"utf8", "code", "symbol"},
          chars: UNION {[1..k -> {0, 1, 3}] : k \in 0..MaxText}]
Blobs == [type: {"binary"}, size: 0..4]
Parents == [type: {"document", "array"}, elements: 0..3]
Others == [type: {"oid", "bool", "date_time", "timestamp", "null"}, n: 0..1]
Values == Int32s \cup Int64s \cup Doubles \cup Texts \cup Blobs \cup Parents
            \cup Others

ByteWidth(ch) == IF ch = 0 THEN 1 ELSE ch
ByteLength(chars) == SumOf([i \in DOMAIN chars |-> ByteWidth(chars[i])])

\* Outcomes of a loader.
Masked == [loaded |-> FALSE]
Item(v) == [loaded |-> TRUE, item |-> v]
Crash == [loaded |-> FALSE, crash |-> TRUE]

-----------------------------------------------------------------------------

\* Mutant: every integer is read with bson_iter_int32.
NarrowInt(t, v) ==
  IF v.type \in {"int32", "int64"} THEN {Item(Wrap(t, Wrap("int32", v.n)))}
  ELSE IF v.type = "double"
       THEN IF TowardsZero(v.n) \in Representable(t) THEN {Item(TowardsZero(v.n))}
            ELSE {Item(r) : r \in Representable(t)}
       ELSE {Masked}

\* MONARY_DEFINE_INT_LOADER.  A double that does not fit is undefined.
load_int(t, v) ==
  IF v.type \in {"int32", "int64"} THEN {Item(Wrap(t, v.n))}
  ELSE IF v.type = "double"
       THEN IF TowardsZero(v.n) \in Representable(t) THEN {Item(TowardsZero(v.n))}
            ELSE {Item(r) : r \in Representable(t)}
       ELSE {Masked}

\* MONARY_DEFINE_FLOAT_LOADER; items are in halves.
load_float(t, v) ==
  IF v.type = "double" THEN {Item(Rounded(v.n, Mantissa[t]))}
  ELSE IF v.type \in {"int32", "int64"} THEN {Item(Rounded(2 * v.n, Mantissa[t]))}
       ELSE {Masked}

\* monary_load_bool_value never masks: bson_iter_bool is false of every other type.
load_bool(v) == {Item(IF v.type = "bool" THEN v.n ELSE 0)}

\* object ids, dates and timestamps copy their 12 or 8 bytes.
load_exact(type, v) == IF v.type = type THEN {Item(v.n)} ELSE {Masked}

\* string and binary: at most type_arg bytes are copied.
load_bytes(type, size, v) ==
  IF v.type # type THEN {Masked}
  ELSE LET len == IF type = "utf8" THEN ByteLength(v.chars) ELSE v.size
       IN  {Item(IF len > size THEN size ELSE len)}

load_type(v) == {Item(v.type)}

\* monary_load_size_value.  bson_iter_utf8 gives no text and length 0 for a
\* code.  A parent of n int32 elements has 5 + 7n bytes.
load_size(v) ==
  IF v.type = "utf8" THEN {Item(ByteLength(v.chars))}
  ELSE IF v.type = "code" THEN {Item(0)}
  ELSE IF v.type = "binary" THEN {Item(v.size)}
  ELSE IF v.type \in {"document", "array"} THEN {Item(5 + 7 * v.elements)}
  ELSE {Masked}

\* The characters before the first zero: for (length = 0; *discard; length++).
BeforeZero(chars) ==
  LET zeros == {i \in DOMAIN chars : chars[i] = 0}
  IN  IF zeros = {} THEN Len(chars) ELSE (CHOOSE i \in zeros : \A j \in zeros : i <= j) - 1

\* monary_load_length_value.  The null pointer that bson_iter_utf8 gives for
\* a code is read.
load_length(v) ==
  IF v.type = "utf8" THEN {Item(BeforeZero(v.chars))}
  ELSE IF v.type = "code" THEN {Crash}
  ELSE IF v.type = "binary" THEN {Item(v.size)}
  ELSE IF v.type \in {"document", "array"} THEN {Item(v.elements)}
  ELSE {Masked}

Types == IntTypes \cup DOMAIN Mantissa
           \cup {"id", "bool", "date", "timestamp", "string", "binary", "type",
                 "size", "length"}

\* monary_load_item.  The bson column is ColumnData's.
load_item(t, v, size) ==
  CASE t = "id" -> load_exact("oid", v)
    [] t = "date" -> load_exact("date_time", v)
    [] t = "timestamp" -> load_exact("timestamp", v)
    [] t = "bool" -> load_bool(v)
    [] t \in IntTypes -> load_int(t, v)
    [] t \in DOMAIN Mantissa -> load_float(t, v)
    [] t = "string" -> load_bytes("utf8", size, v)
    [] t = "binary" -> load_bytes("binary", size, v)
    [] t = "size" -> load_size(v)
    [] t = "length" -> load_length(v)
    [] t = "type" -> load_type(v)

\* idx * size of two ints: the product wraps, and is then added to a pointer.
offset(idx, size) ==
  LET m == 2 ^ AddressBits
      r == (idx * size) % m
  IN  IF r < m \div 2 THEN r ELSE r - m

-----------------------------------------------------------------------------
(* One column of one type is loaded with one value after another.           *)

VARIABLES type, value, row, outcome

loaderVars == <<type, value, row, outcome>>

ItemSize == 3                  \* bound: the type_arg of the column

LoaderInit ==
  /\ type \in Types
  /\ value \in Values
  /\ row = 0
  /\ outcome = Masked

Load ==
  /\ row = 0
  /\ row' \in {1, 2 ^ (AddressBits - 1) \div ItemSize, 2 ^ AddressBits}
  /\ outcome' \in load_item(type, value, ItemSize)
  /\ UNCHANGED <<type, value>>

LoaderSpec == LoaderInit /\ [][Load]_loaderVars

HasLoaded == row > 0

\* A number that the column can hold arrives unchanged and unmasked, from
\* whichever of the three BSON number types: the casts of cmonary.c:316-372
\* never lose what fits.  For floats, what fits is what has enough bits.
NumberKept ==
  HasLoaded /\ value.type \in {"int32", "int64", "double"} =>
    LET halves == IF value.type = "double" THEN value.n ELSE 2 * value.n
    IN  /\ type \in IntTypes /\ TowardsZero(halves) \in Representable(type) =>
             outcome = Item(TowardsZero(halves))
        /\ type \in DOMAIN Mantissa
             /\ (\E k \in 0..10 : Abs(halves) < 2 ^ (Mantissa[type] + k)
                                  /\ halves % (2 ^ k) = 0) =>
             outcome = Item(halves)

\* A string's size column and its cut copy agree: what the string column holds
\* is the whole text exactly when size says that it fits (cmonary.c:413-527).
CutIffTooLong ==
  HasLoaded /\ value.type = "utf8" =>
    \A s \in load_size(value), c \in load_bytes("utf8", ItemSize, value) :
      /\ c.item <= ItemSize
      /\ c.item = s.item <=> s.item <= ItemSize
      /\ s.item = ByteLength(value.chars)

\* Rows do not overlap and none is written before the array: holds for arrays
\* below 2^31 bytes; the product of cmonary.c:426 wraps above.
SlotExact ==
  HasLoaded /\ row * ItemSize < 2 ^ (AddressBits - 1) =>
    \A r \in 0..row : offset(r, ItemSize) = r * ItemSize

\* One item of an array: the number, text or length that the loader should
\* store, where it should be.
ItemExact == NumberKept /\ CutIffTooLong /\ SlotExact
=============================================================================
