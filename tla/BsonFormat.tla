------------------------------ MODULE BsonFormat ------------------------------
(***************************************************************************)
(* The BSON format as bson.c writes it and as bson-iter.c reads it.         *)
(* A document is a sequence of cells: one cell stands for a single byte     *)
(* (type, subtype, bool, character, NUL) or for a 4-byte word, so that an   *)
(* int32 or a length is one cell, an 8-byte value two and an ObjectId       *)
(* three.  Offsets count from 0, as in the code.                            *)
(*                                                                          *)
(* A value is a record of a type t, its cells s, further cells o (options   *)
(* of a regex, ObjectId of a pointer, subtype) and a document d.            *)
(***************************************************************************)
EXTENDS Integers, Sequences, SequencesExt

DOUBLE == 1
UTF8 == 2
DOCUMENT == 3
ARRAY == 4
BINARY == 5
UNDEFINED == 6
OID == 7
BOOL == 8
DATE_TIME == 9
NULL == 10
REGEX == 11
DBPOINTER == 12
CODE == 13
SYMBOL == 14
CODEWSCOPE == 15
INT32 == 16
TIMESTAMP == 17
INT64 == 18
MAXKEY == 127
MINKEY == 255

Wide == {DOUBLE, DATE_TIME, TIMESTAMP, INT64}
Stringy == {UTF8, CODE, SYMBOL}
Empty == {UNDEFINED, NULL, MAXKEY, MINKEY}
Nested == {DOCUMENT, ARRAY}
BINARY_DEPRECATED == 2

W == 1        \* cells of a 4-byte word
E == W + 1    \* an empty document: 5 bytes

\* Two cells that stand for classes of bytes: one that is not valid UTF-8,
\* and the dollar sign.
BadByte == 200
Dollar == 36

Value(t, s, o, d) == [t |-> t, s |-> s, o |-> o, d |-> d]
Field(k, v) == [k |-> k, v |-> v]

-----------------------------------------------------------------------------
(* Appending: bson_append_double ... bson_append_undefined.                  *)

\* strlen and the bytes before the NUL.
CString(s) ==
  IF \E i \in 1..Len(s) : s[i] = 0
  THEN SubSeq(s, 1, (CHOOSE i \in 1..Len(s) : s[i] = 0 /\ \A j \in 1..(i - 1) : s[j] # 0) - 1)
  ELSE s

\* memcpy of a fixed number of cells.
Cut(s, n) == SubSeq(s, 1, n)

RECURSIVE encode(_)

\* What follows the key, in the pieces that _bson_append gets.
append_double(v) == <<Cut(v.s, 2 * W)>>
append_int64(v) == <<Cut(v.s, 2 * W)>>
append_date_time(v) == <<Cut(v.s, 2 * W)>>
append_timestamp(v) == <<Cut(v.s, 2 * W)>>
append_int32(v) == <<Cut(v.s, W)>>
append_oid(v) == <<Cut(v.s, 3 * W)>>
append_bool(v) == <<Cut(v.s, 1)>>
append_null(v) == <<>>
append_undefined(v) == <<>>
append_minkey(v) == <<>>
append_maxkey(v) == <<>>

\* A string or a symbol has an explicit length; code, the name in a pointer
\* and the parts of a regex are C strings.
append_utf8(v) == <<<<Len(v.s) + 1>>, v.s, <<0>>>>
append_symbol(v) == <<<<Len(v.s) + 1>>, v.s, <<0>>>>
append_code(v) == <<<<Len(CString(v.s)) + 1>>, CString(v.s) \o <<0>>>>
append_regex(v) == <<CString(v.s) \o <<0>>, CString(v.o) \o <<0>>>>
append_dbpointer(v) == <<<<Len(CString(v.s)) + 1>>, CString(v.s) \o <<0>>, Cut(v.o, 3 * W)>>
append_binary(v) ==
  IF v.o[1] = BINARY_DEPRECATED THEN <<<<Len(v.s) + W>>, v.o, <<Len(v.s)>>, v.s>>
  ELSE <<<<Len(v.s)>>, v.o, v.s>>
append_document(v) == <<encode(v.d)>>
append_array(v) == <<encode(v.d)>>
append_code_with_scope(v) ==
  LET js == CString(v.s) \o <<0>>
      scope == encode(v.d)
  IN  <<<<W + W + Len(js) + Len(scope)>>, <<Len(js)>>, js, scope>>

\* bson_append_value
append_value(v) ==
  CASE v.t = DOUBLE -> append_double(v)
    [] v.t = UTF8 -> append_utf8(v)
    [] v.t = DOCUMENT -> append_document(v)
    [] v.t = ARRAY -> append_array(v)
    [] v.t = BINARY -> append_binary(v)
    [] v.t = UNDEFINED -> append_undefined(v)
    [] v.t = OID -> append_oid(v)
    [] v.t = BOOL -> append_bool(v)
    [] v.t = DATE_TIME -> append_date_time(v)
    [] v.t = NULL -> append_null(v)
    [] v.t = REGEX -> append_regex(v)
    [] v.t = DBPOINTER -> append_dbpointer(v)
    [] v.t = CODE -> append_code(v)
    [] v.t = SYMBOL -> append_symbol(v)
    [] v.t = CODEWSCOPE -> append_code_with_scope(v)
    [] v.t = INT32 -> append_int32(v)
    [] v.t = TIMESTAMP -> append_timestamp(v)
    [] v.t = INT64 -> append_int64(v)
    [] v.t = MAXKEY -> append_maxkey(v)
    [] v.t = MINKEY -> append_minkey(v)

\* bson_append_code_with_scope stores plain code when the scope is empty.
Stored(v) ==
  IF v.t = CODEWSCOPE /\ v.d = <<>> THEN Value(CODE, v.s, <<>>, <<>>) ELSE v

\* _bson_append: type, key and NUL come first.
append(f) ==
  LET v == Stored(f.v) IN <<v.t>> \o f.k \o <<0>> \o FlattenSeq(append_value(v))

\* A whole document, with the length and the final NUL that _bson_append_va
\* keeps up to date.
Framed(fields) == <<W + Len(fields) + 1>> \o fields \o <<0>>
encode(d) == Framed(FlattenSeq([i \in 1..Len(d) |-> append(d[i])]))

-----------------------------------------------------------------------------
(* Iterating.                                                               *)

At(raw, o) == IF o < Len(raw) THEN raw[o + 1] ELSE -1
Cells(raw, o, n) == [i \in 1..n |-> At(raw, o + i - 1)]
Zeros(raw, from, len) == {p \in from..(len - 1) : At(raw, p) = 0}
First(S) == CHOOSE p \in S : \A q \in S : p <= q
StringAt(raw, o) ==
  Cells(raw, o, IF Zeros(raw, o, Len(raw)) = {} THEN Len(raw) - o
                ELSE First(Zeros(raw, o, Len(raw))) - o)

\* bson_iter_init, bson_iter_recurse
iter_over(raw, len) ==
  [raw |-> raw, len |-> len, off |-> 0, d1 |-> 0, d2 |-> 0, d3 |-> 0, d4 |-> 0,
   next_off |-> W, err_off |-> 0, on |-> TRUE]
iter_init(raw) == iter_over(raw, Len(raw))

\* goto mark_invalid
Invalid(it, err) == [it EXCEPT !.on = FALSE, !.len = 0, !.next_off = 0, !.err_off = err]
Stop(it) == Invalid(it, it.err_off)
Next_at(it, off) == [it EXCEPT !.next_off = off]

\* case BSON_TYPE_CODE, BSON_TYPE_SYMBOL, BSON_TYPE_UTF8.  o is the offset
\* after the key, it.len the length of the document.
next_string(it, o) ==
  LET l == At(it.raw, o)
  IN  IF o + W >= it.len THEN Invalid(it, o)
      ELSE IF l > it.len - (o + W) THEN Invalid(it, o)
      ELSE IF l = 0 \/ o + W + l >= it.len THEN Invalid(it, o)
      ELSE IF At(it.raw, o + W + l - 1) # 0 THEN Invalid(it, o + W + l - 1)
      ELSE Next_at([it EXCEPT !.d2 = o + W], o + W + l)

next_binary(it, o) ==
  LET l == At(it.raw, o)
  IN  IF o >= it.len - W THEN Invalid(it, o)
      ELSE IF l >= it.len - o THEN Invalid(it, o)
      ELSE IF At(it.raw, o + W) = BINARY_DEPRECATED /\ l < W THEN Invalid(it, o)
      ELSE Next_at([it EXCEPT !.d2 = o + W, !.d3 = o + W + 1], o + W + 1 + l)

next_document(it, o) ==
  LET l == At(it.raw, o)
  IN  IF o >= it.len - W \/ l > it.len - o THEN Invalid(it, o) ELSE Next_at(it, o + l)

next_regex(it, o) ==
  LET ends == Zeros(it.raw, o, it.len)
      opts == Zeros(it.raw, First(ends) + 1, it.len)
  IN  IF ends = {} \/ opts = {} THEN Invalid(it, it.next_off)
      ELSE Next_at([it EXCEPT !.d2 = First(ends) + 1], First(opts) + 1)

next_dbpointer(it, o) ==
  LET l == At(it.raw, o)
  IN  IF o >= it.len - W \/ l > it.len - o THEN Invalid(it, o)
      ELSE Next_at([it EXCEPT !.d2 = o + W, !.d3 = o + W + l], o + W + l + 3 * W)

\* 14 is the least size of code with scope, and 19 that of its document.
MinScope == W + W + 1 + E
next_codewscope(it, o) ==
  LET l == At(it.raw, o)
      js == At(it.raw, o + W)
      d4 == o + W + W + js
  IN  IF it.len < MinScope + E \/ o >= it.len - MinScope THEN Invalid(it, o)
      ELSE IF l < MinScope \/ l >= it.len - o THEN Invalid(it, o)
      ELSE IF js >= it.len - o - W - W THEN Invalid(it, o)
      ELSE IF d4 + W >= o + l THEN Invalid(it, o + W)
      ELSE IF d4 + At(it.raw, d4) # o + l THEN Invalid(it, d4)
      ELSE Next_at([it EXCEPT !.d2 = o + W, !.d3 = o + W + W, !.d4 = d4], o + l)

\* Mutant: a field may end on the last byte of the document.
InsideOrAtEnd(it, o) == IF it.on /\ it.next_off > it.len THEN Invalid(it, o) ELSE it

\* The check that ends bson_iter_next: a field lies before the final NUL.
Inside(it, o) == IF it.on /\ it.next_off >= it.len THEN Invalid(it, o) ELSE it

\* switch (ITER_TYPE (iter)).  A type without a value has d1 = -1 in the code;
\* nothing reads it.
fill_data_fields(it, o) ==
  LET t == At(it.raw, it.off)
  IN  CASE t \in Wide -> Next_at(it, o + 2 * W)
        [] t \in Stringy -> next_string(it, o)
        [] t = BINARY -> next_binary(it, o)
        [] t \in Nested -> next_document(it, o)
        [] t = OID -> Next_at(it, o + 3 * W)
        [] t = BOOL -> Next_at(it, o + 1)
        [] t = REGEX -> next_regex(it, o)
        [] t = DBPOINTER -> next_dbpointer(it, o)
        [] t = CODEWSCOPE -> next_codewscope(it, o)
        [] t = INT32 -> Next_at(it, o + W)
        [] t \in Empty -> Next_at(it, o)
        [] OTHER -> Invalid(it, o)

\* err_off of the field before is forgotten.
Settled(it) == IF it.on THEN [it EXCEPT !.err_off = 0] ELSE it

\* The field at next_off, whose value starts at o.
FieldAt(it, o) ==
  Settled(Inside(fill_data_fields(
    [it EXCEPT !.off = it.next_off, !.d1 = o, !.d2 = 0, !.d3 = 0, !.d4 = 0], o), o))
\* bson_iter_next.  A document whose key has no NUL ends without an error.
iter_next(it) ==
  IF ~it.on THEN it
  ELSE IF Zeros(it.raw, it.next_off + 1, it.len) = {} THEN Stop([it EXCEPT !.off = it.next_off])
  ELSE FieldAt(it, First(Zeros(it.raw, it.next_off + 1, it.len)) + 1)

\* The first field of a document.
iter_first(raw) == iter_next(iter_init(raw))

iter_type(it) == At(it.raw, it.off)
iter_key(it) == StringAt(it.raw, it.off + 1)

\* The bytes of a nested document.
iter_document(it) ==
  IF iter_type(it) = DOCUMENT THEN Cells(it.raw, it.d1, At(it.raw, it.d1)) ELSE <<>>
iter_array(it) ==
  IF iter_type(it) = ARRAY THEN Cells(it.raw, it.d1, At(it.raw, it.d1)) ELSE <<>>
iter_nested(it) == iter_document(it) \o iter_array(it)
iter_scope(it) == Cells(it.raw, it.d4, At(it.raw, it.d4))

\* bson_init_static
init_static(raw) ==
  /\ Len(raw) >= E
  /\ raw[1] = Len(raw)
  /\ raw[Len(raw)] = 0

RECURSIVE FieldsFrom(_)

\* The functions that read a value of each type return nothing (0, or NULL) for
\* another type.
Typed(it, t, cells) == IF iter_type(it) = t THEN cells ELSE <<>>
Sized(it, at) == Cells(it.raw, at, At(it.raw, it.d1) - 1)
iter_double(it) == Typed(it, DOUBLE, Cells(it.raw, it.d1, 2 * W))
iter_int64(it) == Typed(it, INT64, Cells(it.raw, it.d1, 2 * W))
iter_date_time(it) == Typed(it, DATE_TIME, Cells(it.raw, it.d1, 2 * W))
iter_timestamp(it) == Typed(it, TIMESTAMP, Cells(it.raw, it.d1, 2 * W))
iter_int32(it) == Typed(it, INT32, Cells(it.raw, it.d1, W))
iter_oid(it) == Typed(it, OID, Cells(it.raw, it.d1, 3 * W))
iter_bool(it) == Typed(it, BOOL, Cells(it.raw, it.d1, 1))
iter_utf8(it) == Typed(it, UTF8, Sized(it, it.d2))
iter_code(it) == Typed(it, CODE, Sized(it, it.d2))
iter_symbol(it) == Typed(it, SYMBOL, Sized(it, it.d2))
iter_regex(it) == Typed(it, REGEX, StringAt(it.raw, it.d1))
iter_dbpointer(it) == Typed(it, DBPOINTER, Sized(it, it.d2))

\* The length of the text less its NUL.  A length of 0 wraps to 2^32 - 1, more
\* than any document has: the cells here end with the first one past the document.
code_length(it) == IF At(it.raw, it.d2) = 0 THEN Len(it.raw) - it.d3 + 1 ELSE At(it.raw, it.d2) - 1
iter_codewscope(it) == Typed(it, CODEWSCOPE, Cells(it.raw, it.d3, code_length(it)))
iter_binary(it) ==
  LET skip == IF At(it.raw, it.d2) = BINARY_DEPRECATED THEN W ELSE 0
  IN  Typed(it, BINARY, Cells(it.raw, it.d3 + skip, At(it.raw, it.d1) - skip))

\* bson_iter_value
iter_value(it) ==
  LET t == iter_type(it)
      plain(cells) == Value(t, cells, <<>>, <<>>)
  IN  CASE t = DOUBLE -> plain(iter_double(it))
        [] t = INT64 -> plain(iter_int64(it))
        [] t = DATE_TIME -> plain(iter_date_time(it))
        [] t = TIMESTAMP -> plain(iter_timestamp(it))
        [] t = INT32 -> plain(iter_int32(it))
        [] t = OID -> plain(iter_oid(it))
        [] t = BOOL -> plain(iter_bool(it))
        [] t \in Empty -> plain(<<>>)
        [] t = UTF8 -> plain(iter_utf8(it))
        [] t = CODE -> plain(iter_code(it))
        [] t = SYMBOL -> plain(iter_symbol(it))
        [] t = REGEX -> Value(t, iter_regex(it), StringAt(it.raw, it.d2), <<>>)
        [] t = DBPOINTER -> Value(t, iter_dbpointer(it), Cells(it.raw, it.d3, 3 * W), <<>>)
        [] t = BINARY -> Value(t, iter_binary(it), <<At(it.raw, it.d2)>>, <<>>)
        [] t = CODEWSCOPE -> Value(t, iter_codewscope(it), <<>>, FieldsFrom(iter_first(iter_scope(it))))
        [] t = DOCUMENT -> Value(t, <<>>, <<>>, FieldsFrom(iter_first(iter_document(it))))
        [] t = ARRAY -> Value(t, <<>>, <<>>, FieldsFrom(iter_first(iter_array(it))))

\* The fields that a while (bson_iter_next (&iter)) loop sees.
FieldsFrom(n) ==
  IF ~n.on THEN <<>> ELSE <<Field(iter_key(n), iter_value(n))>> \o FieldsFrom(iter_next(n))
Fields(it) == FieldsFrom(iter_next(it))

-----------------------------------------------------------------------------
(* Finding.                                                                 *)

RECURSIVE FindFrom(_, _)
FindFrom(n, key) == IF ~n.on \/ iter_key(n) = key THEN n ELSE FindFrom(iter_next(n), key)

\* bson_iter_find: the first field with the key from here on.
iter_find(it, key) == FindFrom(iter_next(it), key)

RECURSIVE Descend(_, _)

\* Mutant: looks for another field when the first one is not a document.
DescendAny(n, path) ==
  IF ~n.on \/ Len(path) = 1 THEN n
  ELSE IF iter_type(n) \in Nested
       THEN Descend(iter_find(iter_over(iter_nested(n), At(n.raw, n.d1)), path[2]), Tail(path))
  ELSE Descend(iter_find(n, path[1]), path)

\* n is the field with the first part of the key.
Descend(n, path) ==
  IF ~n.on \/ Len(path) = 1 THEN n
  ELSE IF iter_type(n) \in Nested
       THEN Descend(iter_find(iter_over(iter_nested(n), At(n.raw, n.d1)), path[2]), Tail(path))
  ELSE [n EXCEPT !.on = FALSE]

\* bson_iter_find_descendant, with the dotted key split at its dots.
find_descendant(it, path) == Descend(iter_find(it, path[1]), path)

-----------------------------------------------------------------------------
(* Visiting.                                                                *)

Utf8(s) == \A i \in 1..Len(s) : s[i] # BadByte

RECURSIVE VisitFrom(_)

\* The checks of a key and of a string before the visitor is called.
VisitOK(n) == Utf8(iter_key(n)) /\ (iter_type(n) = UTF8 => Utf8(iter_utf8(n)))

VisitEnd(it, how) == [items |-> <<>>, it |-> it, how |-> how]

\* The rest of a visit that has come to n.
VisitFrom(n) ==
  IF ~n.on THEN VisitEnd(n, IF n.err_off # 0 THEN "corrupt" ELSE "end")
  ELSE IF ~VisitOK(n) THEN VisitEnd([n EXCEPT !.err_off = n.off], "stopped")
  ELSE [VisitFrom(iter_next(n)) EXCEPT !.items = <<n>> \o @]

\* bson_iter_visit_all: the fields that reach the visitor, and how it ended.
\* The function checks the UTF-8 of keys and of strings itself.
visit_all(it) == VisitFrom(iter_next(it))

\* bson_utf8_escape_for_json: a control character becomes an escape that names
\* it (quotes, slashes and backslashes, which get a backslash, are not among the
\* cells here); every other character stays.
Space == 32
escape_for_json(s) == [i \in 1..Len(s) |-> IF s[i] < Space THEN <<"u", s[i]>> ELSE s[i]]

\* The number in the words of an int32 or of an int64, which has its low word
\* first.
WordSize == 256
Number(s) == FoldRight(LAMBDA w, n : w + WordSize * n, s, 0)

\* What the visitors in bson_as_json_visitors write for a value that is not
\* nested.  Integers are printed in decimal whatever their width; "%lf" rounds a
\* double to six digits, and nothing can be said of them.
JsonPlain(v) ==
  CASE v.t = UTF8 -> <<"text", escape_for_json(v.s)>>
    [] v.t \in {INT32, INT64} -> <<"integer", Number(v.s)>>
    [] v.t = DOUBLE -> <<"rounded">>
    [] v.t = UNDEFINED -> <<"$undefined">>
    [] v.t = NULL -> <<"null">>

JsonTagged(v) ==
  CASE v.t = OID -> <<"$oid", v.s>>
    [] v.t = BINARY -> <<"$type", v.o, "$binary", v.s>>
    [] v.t = BOOL -> <<"bool", v.s[1] # 0>>
    [] v.t = DATE_TIME -> <<"$date", v.s>>

JsonCompound(v) ==
  CASE v.t = REGEX -> <<"$regex", CString(v.s), "$options", CString(v.o)>>
    [] v.t = TIMESTAMP -> <<"$timestamp", v.s>>
    [] v.t = DBPOINTER -> <<"$ref", CString(v.s), "$id", v.o>>
    [] v.t = MINKEY -> <<"$minKey">>
    [] v.t = MAXKEY -> <<"$maxKey">>

\* Code with scope is shown without its scope, a symbol is not escaped.
JsonCode(v) == <<"text", IF v.t = SYMBOL THEN CString(v.s) ELSE escape_for_json(v.s)>>

JsonValue(v) ==
  CASE v.t \in {UTF8, INT32, INT64, DOUBLE, UNDEFINED, NULL} -> JsonPlain(v)
    [] v.t \in {OID, BINARY, BOOL, DATE_TIME} -> JsonTagged(v)
    [] v.t \in {REGEX, TIMESTAMP, DBPOINTER, MINKEY, MAXKEY} -> JsonCompound(v)
    [] v.t \in {CODE, SYMBOL, CODEWSCOPE} -> JsonCode(v)

RECURSIVE Json(_, _, _)

\* The visitor of a nested document, or of code with scope, is not called when
\* bson_init_static refuses the document.
Called(n) ==
  /\ iter_type(n) \in Nested => init_static(iter_nested(n))
  /\ iter_type(n) = CODEWSCOPE => init_static(iter_scope(n))

\* _bson_as_json_visit_document and _bson_as_json_visit_array, which leaves the
\* keys out.  A failure inside a nested document goes unnoticed.
JsonNested(n, depth, keys) ==
  IF depth = 0 THEN <<"{ ... }">>
  ELSE <<IF keys THEN "{" ELSE "[", Json(VisitFrom(iter_first(iter_nested(n))).items, depth - 1, keys)>>
visit_document(n, depth) == JsonNested(n, depth, TRUE)
visit_array(n, depth) == JsonNested(n, depth, FALSE)

JsonField(n, depth) ==
  CASE ~Called(n) -> <<"nothing">>
    [] iter_type(n) = DOCUMENT -> visit_document(n, depth)
    [] iter_type(n) = ARRAY -> visit_array(n, depth)
    [] OTHER -> JsonValue(iter_value(n))

\* The text of code is not validated.  bson_utf8_next_char does not move past a
\* byte that begins no character, so that escaping such a text has no end, and
\* text with the wrapped length leads out of the document.
Escapes(text) == Utf8(text) /\ ~Contains(text, -1)

RECURSIVE Stuck(_, _)
Stuck(items, depth) ==
  \E n \in {items[i] : i \in {j \in 1..Len(items) : Called(items[j])}} :
    \/ ~Escapes(iter_code(n)) \/ ~Escapes(iter_codewscope(n))
    \/ /\ iter_type(n) \in Nested /\ depth > 0
       /\ Stuck(VisitFrom(iter_first(iter_nested(n))).items, depth - 1)

\* _bson_as_json_visit_before writes the keys, if they are wanted.
Json(items, depth, keys) ==
  LET line(n) == <<IF keys THEN escape_for_json(iter_key(n)) ELSE <<>>, JsonField(n, depth)>>
  IN  FoldRight(LAMBDA n, text : <<line(n)>> \o text, items, <<>>)

MAX_RECURSION == 1   \* BSON_MAX_RECURSION, 100 in the code

\* Whether a visit with these visitors that came to v ever does: none of them
\* ends it, but one may not return.
JsonReturns(v) == ~Stuck(v.items, MAX_RECURSION)

Shown(v, keys) ==
  [null |-> v.how = "stopped" \/ v.it.err_off # 0, text |-> Json(v.items, MAX_RECURSION, keys)]

\* bson_as_json, if it returns.
as_json(v) == Shown(v, TRUE)

\* bson_array_as_json visits once more with the same iterator and judges by
\* the second visit, w.
array_as_json(v, w) ==
  [null |-> Shown(w, FALSE).null, text |-> Shown(v, FALSE).text \o Shown(w, FALSE).text]

-----------------------------------------------------------------------------
(* bson_validate, with the flags UTF8, UTF8_ALLOW_NULL and DOLLAR_KEYS.      *)

RECURSIVE ValidateDocument(_, _, _)

RECURSIVE ValidateItems(_, _, _, _)

\* The error offset after the items from i on; -1 is none.  A nested document
\* that bson_init_static refuses is passed over, and code with a valid scope
\* ends the visit.
ValidateItems(v, i, flags, err) ==
  IF i > Len(v.items) THEN IF v.how = "corrupt" THEN v.it.err_off ELSE err
  ELSE LET n == v.items[i]
           on(e) == ValidateItems(v, i + 1, flags, e)
           scope == ValidateDocument(iter_scope(n), flags, -1)
       IN  IF "dollar" \in flags /\ iter_key(n) # <<>> /\ iter_key(n)[1] = Dollar THEN n.off
           ELSE IF iter_type(n) = UTF8 /\ "utf8" \in flags
                   /\ "allow_null" \notin flags /\ Contains(iter_value(n).s, 0) THEN n.off
           ELSE IF iter_type(n) \in Nested
                THEN IF init_static(iter_nested(n))
                     THEN on(ValidateDocument(iter_nested(n), flags, err)) ELSE on(err)
           ELSE IF iter_type(n) = CODEWSCOPE /\ init_static(iter_scope(n))
                THEN IF scope >= 0 THEN on(n.off + scope) ELSE err
           ELSE on(err)

\* _bson_iter_validate_document
ValidateDocument(raw, flags, err) == ValidateItems(VisitFrom(iter_first(raw)), 1, flags, err)

\* bson_validate, whose visit has the outcome v.
validate(v, flags) == ValidateItems(v, 1, flags, -1) < 0

-----------------------------------------------------------------------------

\* bson_append_iter: reads a field and appends what it read.
append_iter(n) == append(Field(iter_key(n), iter_value(n)))

RECURSIVE CopyFrom(_, _)

\* _bson_copy_to_excluding_va, should_ignore
CopyFrom(n, excluded) ==
  IF ~n.on THEN <<>>
  ELSE (IF iter_key(n) \in excluded THEN <<>> ELSE append_iter(n))
         \o CopyFrom(iter_next(n), excluded)

\* bson_copy_to_excluding
copy_to_excluding(raw, excluded) ==
  Framed(CopyFrom(iter_first(raw), excluded))

\* Everything between the length and the final NUL.
Interior(raw) == SubSeq(raw, W + 1, Len(raw) - 1)

\* bson_concat appends the fields of src as they are.
concat(dst, src) == IF Len(src) = E THEN dst ELSE Framed(Interior(dst) \o Interior(src))

\* bson_compare: memcmp of what follows the lengths, then the shorter one.
compare(a, b) ==
  LET n == IF Len(a) < Len(b) THEN Len(a) ELSE Len(b)
      differ == {i \in (W + 1)..n : a[i] # b[i]}
  IN  IF differ = {} THEN Len(a) - Len(b) ELSE a[First(differ)] - b[First(differ)]
equal(a, b) == compare(a, b) = 0

\* bson_has_field: a key with a dot is looked up part by part.
has_field(raw, path) ==
  IF Len(path) > 1 THEN find_descendant(iter_init(raw), path).on
  ELSE iter_find(iter_init(raw), path[1]).on

\* memcpy over the value of a field, where it stands.
Overwrite(n, t, cells) ==
  IF iter_type(n) # t THEN n.raw
  ELSE [i \in 1..Len(n.raw) |->
          IF i > n.d1 /\ i <= n.d1 + Len(cells) THEN cells[i - n.d1] ELSE n.raw[i]]
overwrite_bool(n, c) == Overwrite(n, BOOL, Cut(c, 1))
overwrite_int32(n, c) == Overwrite(n, INT32, Cut(c, W))
overwrite_int64(n, c) == Overwrite(n, INT64, Cut(c, 2 * W))
overwrite_double(n, c) == Overwrite(n, DOUBLE, Cut(c, 2 * W))
=============================================================================
