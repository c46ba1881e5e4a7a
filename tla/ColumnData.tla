------------------------------ MODULE ColumnData ------------------------------
(***************************************************************************)
(* monary_column_data of cmonary.c: one raw storage array and one mask per *)
(* column, both owned by NumPy, that the loaders fill row by row with       *)
(* pointer arithmetic.  The arrays are modelled byte by byte, because what  *)
(* can go wrong is where a loader writes and which bytes it leaves alone.   *)
(*                                                                          *)
(* Value[d][c] is what bson_iter_find_descendant and the type test of the   *)
(* loader of column c find in document d: the bytes to copy, or NoValue     *)
(* when the field is absent or of another BSON type.                        *)
(***************************************************************************)
EXTENDS Documents, Integers, Sequences

CONSTANTS
  Columns,    \* the columns of the call
  Kind,       \* Kind[c]: how the loader of c finds the place of a row
  Width,      \* Width[c]: the item size of the NumPy array of c (type_arg)
  Byte,       \* the bytes a value is made of
  Zero,       \* the byte that numpy.zeros fills an array with
  HalfInt,    \* half the range of an int or uint32_t: 2^31
  Value,      \* Value[d][c]: see above
  NoValue

\* fixed: numbers, dates, object ids, bool, type, size and length, always
\* exactly as wide as the item.  bytes: string and binary, cut to the item.
\* document: bson, cut to the item too.
Kinds == {"fixed", "bytes", "document"}

ASSUME ColumnConstants ==
  /\ Kind \in [Columns -> Kinds]
  /\ Width \in [Columns -> Nat \ {0}]
  /\ Zero \in Byte
  /\ HalfInt \in Nat \ {0}
  /\ NoValue \notin Seq(Byte)
  /\ Value \in [Doc -> [Columns -> Seq(Byte) \cup {NoValue}]]
  /\ \A d \in Doc, c \in Columns :
       Kind[c] = "fixed" /\ Value[d][c] # NoValue => Len(Value[d][c]) = Width[c]

-----------------------------------------------------------------------------

\* The addresses of the storage of c in an array of n rows, and the rows.
Addresses(c, n) == 0..(n * Width[c] - 1)
RowsOf(n) == 0..(n - 1)

WellFormed(arrays, n) ==
  /\ \A c \in Columns : arrays.storage[c] \in [Addresses(c, n) -> Byte]
  /\ \A c \in Columns : arrays.mask[c] \in [RowsOf(n) -> BOOLEAN]

\* Mutant: rows start out valid.
UnmaskedArrays(n) ==
  [storage |-> [c \in Columns |-> [a \in Addresses(c, n) |-> Zero]],
   mask    |-> [c \in Columns |-> [r \in RowsOf(n) |-> FALSE]]]

\* numpy.zeros and numpy.ones of _make_column_data.
NewArrays(n) ==
  [storage |-> [c \in Columns |-> [a \in Addresses(c, n) |-> Zero]],
   mask    |-> [c \in Columns |-> [r \in RowsOf(n) |-> TRUE]]]

\* Mutant: a long value is not cut to the item.
WholeLength(c, v) == Len(v)

\* How many bytes of value v the loader of c copies.
LoadLength(c, v) == IF Len(v) > Width[c] THEN Width[c] ELSE Len(v)

\* Mutant: every loader multiplies by the length of the value.
PackedAddress(c, row, v) == row * LoadLength(c, v)

\* An int, and a uint32_t, that should be n.
CInt(n) == LET m == n % (2 * HalfInt) IN IF m < HalfInt THEN m ELSE m - 2 * HalfInt
CUInt(n) == n % (2 * HalfInt)

\* Where it copies them to.  A fixed item is reached by indexing a pointer.
\* For strings and binaries idx * size is an int, for documents a uint32_t, and
\* there the row is multiplied by the length of this document.
LoadAddress(c, row, v) ==
  CASE Kind[c] = "fixed"    -> row * Width[c]
    [] Kind[c] = "bytes"    -> CInt(row * Width[c])
    [] Kind[c] = "document" -> CUInt(row * LoadLength(c, v))

\* All n rows of the strings and binaries start where an int can say so: the
\* arrays are no larger than 2 GiB.
Addressable(n) ==
  \A c \in Columns : Kind[c] = "bytes" => n * Width[c] - Width[c] < HalfInt

memcpy(mem, dest, src, len) ==
  [a \in DOMAIN mem |-> IF dest <= a /\ a < dest + len THEN src[a - dest + 1]
                        ELSE mem[a]]

\* One dispatch of monary_load_item.
load_item(mem, c, row, v) ==
  memcpy(mem, LoadAddress(c, row, v), v, LoadLength(c, v))

\* monary_bson_to_arrays: every column is looked up, loaded and masked on its
\* own.  A row beyond num_rows is refused.
bson_to_arrays(arrays, num_rows, row, d) ==
  IF row > num_rows THEN arrays
  ELSE [storage |-> [c \in Columns |->
                       IF Value[d][c] = NoValue THEN arrays.storage[c]
                       ELSE load_item(arrays.storage[c], c, row, Value[d][c])],
        mask    |-> [c \in Columns |->
                       [arrays.mask[c] EXCEPT ![row] = (Value[d][c] = NoValue)]]]

\* The addresses that loading d into this row writes in the storage of c.
WrittenBy(c, row, d) ==
  IF Value[d][c] = NoValue THEN {}
  ELSE LET at == LoadAddress(c, row, Value[d][c])
       IN  at..(at + LoadLength(c, Value[d][c]) - 1)

\* The C code would write outside the arrays (row = num_rows is not refused,
\* and an address may wrap around).  What such a write hits is not modelled.
OutOfBounds(num_rows, row, d) ==
  /\ row <= num_rows
  /\ \/ row \notin RowsOf(num_rows)
     \/ \E c \in Columns : ~(WrittenBy(c, row, d) \subseteq Addresses(c, num_rows))

-----------------------------------------------------------------------------
(* What a reader of the arrays sees.                                       *)

CellAddresses(c, row) == (row * Width[c])..(row * Width[c] + Width[c] - 1)

\* The bytes of one item, numbered from 0.
Cell(arrays, c, row) ==
  [i \in 0..(Width[c] - 1) |-> arrays.storage[c][row * Width[c] + i]]

Masked(arrays, c, row) == arrays.mask[c][row]

\* The item that value v makes: cut to the item size, padded with zeros.
Item(c, v) == [i \in 0..(Width[c] - 1) |-> IF i < Len(v) THEN v[i + 1] ELSE Zero]

\* Row r of arrays represents document d: a column is masked exactly when d
\* has no value for it, and what is not masked is the value.
RowIs(arrays, c, row, d) ==
  /\ Masked(arrays, c, row) <=> Value[d][c] = NoValue
  /\ ~Masked(arrays, c, row) => Cell(arrays, c, row) = Item(c, Value[d][c])

\* The same, but for what is left after the end of a value that is shorter
\* than the item.
RowStartsAs(arrays, c, row, d) ==
  /\ Masked(arrays, c, row) <=> Value[d][c] = NoValue
  /\ ~Masked(arrays, c, row) =>
       \A i \in 0..(LoadLength(c, Value[d][c]) - 1) :
         Cell(arrays, c, row)[i] = Value[d][c][i + 1]
=============================================================================
