----------------------------- MODULE MCBsonFormat -----------------------------
(* Documents of up to MaxFields fields of every type, written, damaged in at  *)
(* most one cell, and read again.                                             *)
EXTENDS BsonFormat

CONSTANTS
  MaxFields,   \* fields of a document
  Damage       \* the values that one cell may be overwritten with

ASSUME FormatConstants == MaxFields \in Nat /\ Damage \subseteq Nat

VARIABLES
  tree,    \* the document
  raw,     \* its bytes, perhaps damaged
  it,      \* the iterator of a loop over them
  first,   \* what bson_iter_visit_all came to
  again    \* and the second visit of bson_array_as_json with the same iterator

formatVars == <<tree, raw, it, first, again>>

A == 65
B == 66
Plain(t, s) == Value(t, s, <<>>, <<>>)
Inner == <<Field(<<B>>, Plain(INT32, <<5>>))>>
BadInner == <<Field(<<B>>, Plain(UTF8, <<BadByte>>))>>
Oid == <<1, 2, 3>>

Values ==
  {Plain(t, <<7, 8>>) : t \in Wide} \cup {Plain(t, <<>>) : t \in Empty}
  \cup {Plain(INT32, <<5>>), Plain(INT64, <<5, 0>>), Plain(BOOL, <<1>>), Plain(OID, Oid)}
  \cup {Plain(UTF8, s) : s \in {<<>>, <<A>>, <<0, A>>, <<BadByte>>}}
  \cup {Plain(SYMBOL, <<A>>), Plain(CODE, <<A>>), Plain(CODE, <<BadByte>>)}
  \cup {Value(BINARY, s, <<sub>>, <<>>) : s \in {<<>>, <<A>>}, sub \in {0, 2}}
  \cup {Value(REGEX, <<A>>, <<B>>, <<>>), Value(DBPOINTER, <<A>>, Oid, <<>>)}
  \cup {Value(t, <<>>, <<>>, d) : t \in Nested, d \in {<<>>, Inner}}
  \cup {Value(DOCUMENT, <<>>, <<>>, BadInner), Value(DOCUMENT, <<>>, <<>>,
          <<Field(<<A>>, Value(DOCUMENT, <<>>, <<>>, Inner))>>)}
  \cup {Value(CODEWSCOPE, <<A>>, <<>>, d) : d \in {<<>>, Inner}}

Keys == {<<A>>, <<Dollar, B>>}
Trees ==
  UNION {{t \in [1..n -> [k: Keys, v: Values]] : \A i \in 1..(n - 1) : t[i].k = <<A>>}
         : n \in 0..MaxFields}

\* A document that another program wrote: code with scope whose text has not
\* even a NUL.
Textless ==
  Framed(<<CODEWSCOPE, A, 0, 2 * W + Len(encode(Inner)), 0>> \o encode(Inner))

Damaged(r) == {r} \cup {[r EXCEPT ![i] = c] : i \in 2..(Len(r) - 1), c \in Damage}

NotVisited == [items |-> <<>>, how |-> "none"]
Visited(v) == v.how # "none"
Start == it = iter_init(raw)

\* Only the checks of bson_init_static come before the iterator.
FormatInit ==
  /\ \/ tree \in Trees /\ raw \in Damaged(encode(tree))
     \/ tree = <<>> /\ raw \in Damaged(Textless)
  /\ it = iter_init(raw)
  /\ first = NotVisited /\ again = NotVisited

Read ==
  /\ it.on /\ ~Visited(first)
  /\ it' = iter_next(it)
  /\ UNCHANGED <<tree, raw, first, again>>

Visit ==
  /\ Start /\ ~Visited(first)
  /\ first' = visit_all(it)
  /\ it' = first'.it
  /\ UNCHANGED <<tree, raw, again>>

VisitAgain ==
  /\ Visited(first) /\ JsonReturns(first) /\ ~Visited(again)
  /\ again' = visit_all(it)
  /\ UNCHANGED <<tree, raw, it, first>>

FormatNext == Read \/ Visit \/ VisitAgain
FormatSpec == FormatInit /\ [][FormatNext]_formatVars

Intact == raw = encode(tree)

\* The document as it was stored: code with an empty scope has become code.
Kept == [i \in 1..Len(tree) |-> Field(tree[i].k, Stored(tree[i].v))]
Shows(v) == Visited(v) /\ JsonReturns(v) /\ ~as_json(v).null

\* Whatever cell was damaged, a field that bson_iter_next accepts has all of
\* its parts before the final byte of the document and ends after it starts,
\* so that a damaged length cannot make a loop endless (bson-iter.c:690).
FieldsInside ==
  it.on /\ ~Start =>
    /\ it.off < it.d1 /\ it.d1 <= it.next_off /\ it.next_off < Len(raw)
    /\ \A d \in {it.d2, it.d3, it.d4} : d <= it.next_off
    /\ iter_type(it) \in Stringy => At(raw, it.next_off - 1) = 0
    /\ iter_type(it) = CODEWSCOPE => it.d4 + Len(iter_scope(it)) = it.next_off

\* The text, the bytes or the name in such a field, as the functions that read
\* it give them, lie inside the field.  The exception is code with scope whose
\* text has length 0: bson_iter_next lets it pass, and bson_iter_codewscope
\* wraps the length (bson-iter.c:1220).
TextsInside ==
  it.on /\ ~Start =>
    /\ it.d2 + Len(iter_utf8(it) \o iter_code(it) \o iter_symbol(it)) <= it.next_off
    /\ it.d3 + Len(iter_binary(it)) <= it.next_off
    /\ iter_type(it) = DBPOINTER => it.d2 + Len(iter_dbpointer(it)) <= it.d3
    /\ iter_type(it) = CODEWSCOPE =>
         it.d3 + Len(iter_codewscope(it)) < it.d4 \/ At(raw, it.d2) = 0

\* A loop that ends without an error has seen the document to its last byte
\* (bson-iter.c:560).
EndMeansEnd == ~it.on /\ it.err_off = 0 => it.off = Len(raw) - 1

\* What was appended is what is read: same keys, types and values in the same
\* order, for every type, except that code with an empty scope comes back as
\* code (bson.c:932).
RoundTrip == Start /\ Intact => Fields(it) = Kept

\* A dotted key finds the first field with its first part, and only there the
\* rest (bson-iter.c:311).
Lookup(d, path) ==
  LET i == SelectInSeq(d, LAMBDA f : f.k = path[1])
  IN  IF i = 0 THEN <<>>
      ELSE IF Len(path) = 1 THEN <<d[i].v>>
      ELSE LET j == SelectInSeq(d[i].v.d, LAMBDA f : f.k = path[2])
           IN  IF j = 0 \/ d[i].v.t \notin Nested THEN <<>> ELSE <<d[i].v.d[j].v>>
FindsDescendant ==
  Start /\ Intact =>
    \A path \in {<<<<A>>>>, <<<<A>>, <<B>>>>} :
      LET n == find_descendant(it, path)
      IN  /\ Lookup(Kept, path) = IF n.on THEN <<iter_value(n)>> ELSE <<>>
          /\ has_field(raw, path) <=> Lookup(Kept, path) # <<>>

\* Copying the fields one by one gives the same bytes, without the excluded
\* ones (bson.c:2072).
CopyExact ==
  Start /\ Intact =>
    \A gone \in SUBSET {<<A>>} :
      copy_to_excluding(raw, gone) = encode(SelectSeq(tree, LAMBDA f : f.k \notin gone))

\* Sound documents are accepted, and a damage that the iterator notices at the
\* top level is not: neither bson_validate nor bson_as_json takes it, unless
\* they end earlier or not at all (bson.c:2828, 2728).
CorruptNoticed ==
  first.how = "corrupt" /\ (\A i \in 1..Len(first.items) : iter_type(first.items[i]) # CODEWSCOPE)
    => ~validate(first, {}) /\ (JsonReturns(first) => as_json(first).null)

\* JSON shows each field of a document that it does not refuse once and in
\* order, those of a nested document too, and so does the JSON of an array,
\* which visits twice and leaves the keys out (bson.c:2701, 2779).  The
\* exceptions: a nested document is cut short at a string that is not UTF-8,
\* which nobody notices, and is not shown below the deepest level (bson.c:2653,
\* 2663).  Code that is not UTF-8 keeps bson_as_json from returning.
AllUtf8(d) == \A i \in 1..Len(d) : d[i].v.t = UTF8 => Utf8(d[i].v.s)
ShownKeys(text) == [i \in 1..Len(text) |-> text[i][1]]
KeysOf(d) == [i \in 1..Len(d) |-> d[i].k]
JsonComplete ==
  Shows(first) /\ Intact =>
    LET text == as_json(first).text
        elements == array_as_json(first, again).text
    IN  /\ ShownKeys(text) = KeysOf(tree)
        /\ \A i \in {j \in 1..Len(tree) : tree[j].v.t = DOCUMENT} :
             IF AllUtf8(tree[i].v.d) THEN ShownKeys(text[i][2][2]) = KeysOf(tree[i].v.d)
             ELSE IsStrictPrefix(ShownKeys(text[i][2][2]), KeysOf(tree[i].v.d))
        /\ \A i \in {j \in 1..Len(tree) : tree[j].v.t = ARRAY} :
             Len(text[i][2][2]) = Len(tree[i].v.d)
        /\ Visited(again) => [i \in 1..Len(elements) |-> elements[i][2]]
                                = [i \in 1..Len(text) |-> text[i][2]]

\* Two fields look alike in JSON only if they hold the same value.  The
\* exceptions: doubles, which are rounded (bson.c:2318); an int32 and an int64
\* of the same number, whose width is not shown (bson.c:2290, 2304); and texts,
\* of which neither the kind nor the scope is shown (bson.c:2551, 2595).
JsonTellsApart ==
  Shows(first) /\ Intact =>
    LET text == as_json(first).text
        v(i) == Kept[i].v
    IN  \A i, j \in {k \in 1..Len(tree) : v(k).t \notin Nested \cup {DOUBLE}} :
          text[i][2] = text[j][2] =>
            \/ v(i) = v(j)
            \/ {v(i).t, v(j).t} = {INT32, INT64} /\ Number(v(i).s) = Number(v(j).s)
            \/ {v(i).t, v(j).t} \subseteq Stringy \cup {CODEWSCOPE} /\ v(i).s = v(j).s

\* A document with another one appended to it holds the fields of both, and it
\* compares equal to exactly the documents with the same fields (bson.c:2220, 2957).
Concatenates ==
  Start /\ Intact =>
    \A other \in {<<>>, Inner, BadInner} :
      /\ concat(raw, encode(other)) = encode(tree \o other)
      /\ equal(raw, encode(other)) <=> tree = other
      /\ compare(raw, encode(other)) > 0 <=> compare(encode(other), raw) < 0

\* Overwriting the field of an iterator in place changes the value of that
\* field and nothing else, and only if its type is the one asked for
\* (bson-iter.c:1951).
OverwritesOne ==
  it.on /\ ~Start /\ Intact =>
    LET at == Len(tree) - Len(FieldsFrom(it)) + 1
        held(r, t, c) ==
          Fields(iter_init(r)) = [Kept EXCEPT ![at].v = IF @.t = t THEN Plain(t, c) ELSE @]
    IN  /\ held(overwrite_bool(it, <<0>>), BOOL, <<0>>)
        /\ held(overwrite_int32(it, <<0>>), INT32, <<0>>)
        /\ held(overwrite_int64(it, <<0, 9>>), INT64, <<0, 9>>)
        /\ held(overwrite_double(it, <<0, 9>>), DOUBLE, <<0, 9>>)

\* Iterating, looking up, copying, joining, overwriting and printing a document
\* that was appended field by field all give those fields.
ReadsWhatWasWritten ==
  RoundTrip /\ FindsDescendant /\ CopyExact /\ Concatenates /\ OverwritesOne
    /\ JsonComplete /\ JsonTellsApart

\* A damaged document never leads outside of its bytes, but for code with scope
\* that gives its text the length 0, nor to an end that looks regular where it
\* is not.
DamageContained == FieldsInside /\ TextsInside /\ EndMeansEnd /\ CorruptNoticed
=============================================================================
