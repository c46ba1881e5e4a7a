------------------------------- MODULE MongocMatcher -------------------------------
(***************************************************************************)
(* mongoc_matcher_t: a query is parsed into a tree of operations, and the   *)
(* tree is applied to documents without a server.                           *)
(*                                                                          *)
(* A BSON value is a record: its type, a number (the value of a number or   *)
(* of a boolean, a name for a string) and, for documents and arrays, its    *)
(* fields.  A key is the sequence of its parts between dots.                *)
(***************************************************************************)
EXTENDS Integers, Sequences, FiniteSets, SequencesExt

CONSTANTS Queries, Documents

VARIABLES query, document, optree, matched, done

matcherVars == <<query, document, optree, matched, done>>

Val(t, n) == [t |-> t, n |-> n, items |-> <<>>]
Doc(items) == [t |-> "doc", n |-> 0, items |-> items]
Arr(items) == [t |-> "array", n |-> 0, items |-> items]
Pair(k, v) == [k |-> k, v |-> v]

Comparisons == {"$gt", "$gte", "$in", "$lt", "$lte", "$ne", "$nin"}
Logical == {"$or", "$and", "$nor"}
\* The operators have one part that begins with a dollar sign.
IsOperator(key) == key[1] \in Comparisons \union Logical \union {"$not", "$exists", "$type", "$regex"}

(***************************************************************************)
(* The tree.  "NULL" stands for a failure, "abort" for an assertion.        *)
(***************************************************************************)
Op(op, path, v, kids) == [op |-> op, path |-> path, v |-> v, exists |-> FALSE, kids |-> kids]
NoValue == Val("null", 0)
Failure == Op("NULL", <<>>, NoValue, <<>>)
Abort == Op("abort", <<>>, NoValue, <<>>)
IsTree(op) == op.op \notin {"NULL", "abort"}

compare_new(opcode, path, v) == Op(opcode, path, v, <<>>)
logical_new(opcode, left, right) == Op(opcode, <<>>, NoValue, <<left, right>>)
not_new(path, child) == Op("$not", path, NoValue, <<child>>)
exists_new(path, exists) == [Op("$exists", path, NoValue, <<>>) EXCEPT !.exists = exists]
type_new(path, type) == Op("$type", path, Val(type, 0), <<>>)

RECURSIVE parse_compare(_, _)
\* Only the first operator of the document is looked at; $type takes the
\* type of its operand for its value.
parse_compare(v, path) ==
  IF v.t # "doc" THEN compare_new("$eq", path, v)
  ELSE IF v.items = <<>> THEN Failure
  ELSE LET key == v.items[1].k[1]
           child == v.items[1].v
       IN CASE ~IsOperator(v.items[1].k) -> compare_new("$eq", path, v)
            [] key = "$not" -> LET c == parse_compare(child, path) IN IF IsTree(c) THEN not_new(path, c) ELSE c
            [] key \in Comparisons -> compare_new(key, path, child)
            [] key = "$exists" -> exists_new(path, child.t = "bool" /\ child.n = 1)
            [] key = "$type" -> type_new(path, child.t)
            [] OTHER -> Failure

\* Mutant: the first operation of a chain is repeated in place of the second.
RepeatsFirst(opcode, left, right, more) == logical_new(opcode, left, logical_new(opcode, left, more))
Chain(opcode, left, right, more) == logical_new(opcode, left, logical_new(opcode, right, more))

RECURSIVE parse(_), parse_logical(_, _, _)
\* An element of the array of a logical operator stands for its first field.
Clause(item, is_root) ==
  IF is_root THEN parse(item)
  ELSE IF item.v.t # "doc" THEN Failure
  ELSE IF item.v.items = <<>> THEN Abort
  ELSE parse(item.v.items[1])

parse(item) ==
  IF ~IsOperator(item.k) THEN parse_compare(item.v, item.k)
  ELSE IF item.v.t # "array" THEN Abort
  ELSE IF item.k[1] \in Logical THEN parse_logical(item.k[1], item.v.items, FALSE)
  ELSE Failure

\* A failure in the third clause or later only ends the chain.
parse_logical(opcode, items, is_root) ==
  IF items = <<>> THEN Failure
  ELSE LET left == Clause(items[1], is_root) IN
       IF ~IsTree(left) \/ Len(items) = 1 THEN left
       ELSE LET right == Clause(items[2], is_root) IN
            IF ~IsTree(right) THEN right
            ELSE LET more == parse_logical(opcode, SubSeq(items, 3, Len(items)), is_root) IN
                 CASE more.op = "abort" -> Abort
                   [] more.op = "NULL" -> logical_new(opcode, left, right)
                   [] OTHER -> Chain(opcode, left, right, more)

matcher_new(q) == parse_logical("$and", q, TRUE)

(***************************************************************************)
(* Matching.                                                                *)
(***************************************************************************)
RECURSIVE FindIn(_, _)
\* bson_iter_find_descendant: the value at the path, if there is one.
FindIn(items, path) ==
  LET at == SelectInSeq(items, LAMBDA f : f.k = <<path[1]>>) IN
  CASE at = 0 -> <<>>
    [] at # 0 /\ Len(path) = 1 -> <<items[at].v>>
    [] at # 0 /\ Len(path) > 1 -> IF items[at].v.t \in {"doc", "array"} THEN FindIn(items[at].v.items, Tail(path)) ELSE <<>>

Numbers == {"double", "int32", "int64"}

\* The pairs of types for which the switch statements have a case.
Ordered(spec, v) == spec.t \in Numbers /\ v.t \in Numbers \union {"bool"}

eq_match(spec, v) ==
  \/ Ordered(spec, v) /\ v.n = spec.n
  \/ spec.t = "utf8" /\ v.t = "utf8" /\ v.n = spec.n
  \/ spec.t = "null" /\ v.t \in {"null", "undefined"}

gt_match(spec, v) == Ordered(spec, v) /\ v.n > spec.n
gte_match(spec, v) == Ordered(spec, v) /\ v.n >= spec.n
lt_match(spec, v) == Ordered(spec, v) /\ v.n < spec.n
lte_match(spec, v) == Ordered(spec, v) /\ v.n <= spec.n

in_match(spec, v) == spec.t = "array" /\ \E i \in DOMAIN spec.items : eq_match(spec.items[i].v, v)
ne_match(spec, v) == ~eq_match(spec, v)
nin_match(spec, v) == ~in_match(spec, v)

compare_match(op, items) ==
  LET found == FindIn(items, op.path) IN
  /\ found # <<>>
  /\ LET v == found[1] IN
     CASE op.op = "$eq" -> eq_match(op.v, v)
       [] op.op = "$gt" -> gt_match(op.v, v)
       [] op.op = "$gte" -> gte_match(op.v, v)
       [] op.op = "$in" -> in_match(op.v, v)
       [] op.op = "$lt" -> lt_match(op.v, v)
       [] op.op = "$lte" -> lte_match(op.v, v)
       [] op.op = "$ne" -> ne_match(op.v, v)
       [] op.op = "$nin" -> nin_match(op.v, v)

exists_match(op, items) == (FindIn(items, op.path) # <<>>) = op.exists

\* The type is that of the field the search began with.
type_match(op, items) == FindIn(items, op.path) # <<>> /\ FindIn(items, <<op.path[1]>>)[1].t = op.v.t

RECURSIVE op_match(_, _)
not_match(op, items) == ~op_match(op.kids[1], items)

logical_match(op, items) ==
  CASE op.op = "$or" -> op_match(op.kids[1], items) \/ op_match(op.kids[2], items)
    [] op.op = "$and" -> op_match(op.kids[1], items) /\ op_match(op.kids[2], items)
    [] op.op = "$nor" -> ~(op_match(op.kids[1], items) \/ op_match(op.kids[2], items))

op_match(op, items) ==
  CASE op.op \in Comparisons \union {"$eq"} -> compare_match(op, items)
    [] op.op \in Logical -> logical_match(op, items)
    [] op.op = "$not" -> not_match(op, items)
    [] op.op = "$exists" -> exists_match(op, items)
    [] op.op = "$type" -> type_match(op, items)

RECURSIVE op_to_bson(_)
\* What op_to_bson makes of an operation with two operands.
LogicalToBson(op) ==
  <<Pair(<<op.op>>, Arr(<<Pair(<<"0">>, Doc(op_to_bson(op.kids[1]))), Pair(<<"1">>, Doc(op_to_bson(op.kids[2])))>>))>>
op_to_bson(op) ==
  CASE op.op = "$eq" -> <<Pair(op.path, op.v)>>
    [] op.op \in Comparisons -> <<Pair(op.path, Doc(<<Pair(<<op.op>>, op.v)>>))>>
    [] op.op \in Logical -> LogicalToBson(op)
    [] op.op = "$not" -> <<Pair(op.path, Doc(<<Pair(<<"$not">>, Doc(op_to_bson(op.kids[1])))>>))>>
    [] op.op = "$exists" -> <<Pair(<<"$exists">>, Val("bool", IF op.exists THEN 1 ELSE 0))>>
    [] op.op = "$type" -> <<Pair(<<"$type">>, Val("int32", 0))>>

(***************************************************************************)
(* A matcher is made from a query and applied to a document.                *)
(***************************************************************************)
MatcherInit ==
  /\ query \in Queries /\ document \in Documents
  /\ optree = Failure /\ matched = FALSE /\ done = "new"

mongoc_matcher_new ==
  /\ done = "new"
  /\ optree' = matcher_new(query)
  /\ done' = IF IsTree(optree') THEN "parsed" ELSE "failed"
  /\ UNCHANGED <<query, document, matched>>

mongoc_matcher_match ==
  /\ done = "parsed"
  /\ matched' = op_match(optree, document)
  /\ done' = "matched"
  /\ UNCHANGED <<query, document, optree>>

MatcherNext == mongoc_matcher_new \/ mongoc_matcher_match
MatcherSpec == MatcherInit /\ [][MatcherNext]_matcherVars

(***************************************************************************)
(* What a query means.                                                      *)
(***************************************************************************)
RECURSIVE Valid(_), ValidCompare(_)
ValidCompare(v) == v.t # "doc" \/
  /\ v.items # <<>>
  /\ \A i \in DOMAIN v.items : LET k == v.items[i].k[1] IN
       IsOperator(v.items[1].k) => (k \in Comparisons \union {"$not", "$exists", "$type"} /\ (k = "$not" => ValidCompare(v.items[i].v)))
Valid(items) == \A i \in DOMAIN items :
  IF ~IsOperator(items[i].k) THEN ValidCompare(items[i].v)
  ELSE /\ items[i].k[1] \in Logical /\ items[i].v.t = "array" /\ items[i].v.items # <<>>
       /\ \A j \in DOMAIN items[i].v.items : items[i].v.items[j].v.t = "doc" /\ items[i].v.items[j].v.items # <<>> /\ Valid(items[i].v.items[j].v.items)

\* Two values are equal: numbers and booleans by their value, whatever their
\* width, null and undefined, and everything else type by type.
Valued == Numbers \union {"bool"}
Equal(s, v) ==
  \/ s.t \in Valued /\ v.t \in Valued /\ s.n = v.n
  \/ {s.t, v.t} \subseteq {"null", "undefined"}
  \/ s = v
Comparable(s, v) == {s.t, v.t} \subseteq Valued \/ (s.t = "utf8" /\ v.t = "utf8")

\* A comparison with the operand s, of the field values in found (at most one).
MeansOperator(op, s, found) ==
  LET some(Holds(_)) == \E i \in DOMAIN found : Holds(found[i])
      ordered(Holds(_)) == some(LAMBDA v : Comparable(s, v) /\ Holds(v.n))
      equal == some(LAMBDA v : Equal(s, v))
      among == some(LAMBDA v : s.t = "array" /\ \E i \in DOMAIN s.items : Equal(s.items[i].v, v))
  IN CASE op = "$eq" -> equal
       [] op = "$ne" -> ~equal
       [] op = "$in" -> among
       [] op = "$nin" -> ~among
       [] op = "$gt" -> ordered(LAMBDA n : n > s.n)
       [] op = "$gte" -> ordered(LAMBDA n : n >= s.n)
       [] op = "$lt" -> ordered(LAMBDA n : n < s.n)
       [] op = "$lte" -> ordered(LAMBDA n : n <= s.n)
       [] op = "$exists" -> (found # <<>>) = (s.t \in Valued /\ s.n # 0)

RECURSIVE Means(_, _), MeansCompare(_, _, _)
MeansCompare(v, path, items) ==
  IF v.t # "doc" \/ ~IsOperator(v.items[1].k) THEN MeansOperator("$eq", v, FindIn(items, path))
  ELSE \A i \in DOMAIN v.items :
         IF v.items[i].k = <<"$not">> THEN ~MeansCompare(v.items[i].v, path, items)
         ELSE MeansOperator(v.items[i].k[1], v.items[i].v, FindIn(items, path))
\* All fields of a query hold; a logical operator ranges over its array.
Means(q, items) == \A i \in DOMAIN q :
  LET holds(j) == Means(q[i].v.items[j].v.items, items) IN
  CASE ~IsOperator(q[i].k) -> MeansCompare(q[i].v, q[i].k, items)
    [] q[i].k[1] = "$and" -> \A j \in DOMAIN q[i].v.items : holds(j)
    [] q[i].k[1] = "$or" -> \E j \in DOMAIN q[i].v.items : holds(j)
    [] q[i].k[1] = "$nor" -> \A j \in DOMAIN q[i].v.items : ~holds(j)

\* The comparisons that a query makes, at any depth.
RECURSIVE Asked(_), AskedOf(_, _)
AskedOf(v, path) ==
  IF v.t # "doc" \/ ~IsOperator(v.items[1].k) THEN {[op |-> "$eq", path |-> path, v |-> v]}
  ELSE UNION {IF f.k = <<"$not">> THEN AskedOf(f.v, path) ELSE {[op |-> f.k[1], path |-> path, v |-> f.v]}
              : f \in ToSet(v.items)}
Asked(q) ==
  UNION {IF IsOperator(f.k) THEN UNION {Asked(c.v.items) : c \in ToSet(f.v.items)} ELSE AskedOf(f.v, f.k) : f \in ToSet(q)}

\* Where the code does something else: an operand of a type for which its switch
\* has no case, or the negation of a field that is not there.
Operands(c) == IF c.op \in {"$in", "$nin"} THEN {f.v.t : f \in ToSet(c.v.items)} ELSE {c.v.t}
NoCase(c) ==
  CASE c.op \in {"$eq", "$ne", "$in", "$nin"} -> ~(Operands(c) \subseteq Numbers \union {"utf8", "null"})
    [] c.op = "$exists" -> c.v.t # "bool"
    [] c.op = "$type" -> TRUE
    [] OTHER -> c.v.t \notin Numbers
Absent(c, items) == c.op \in {"$ne", "$nin"} /\ FindIn(items, c.path) = <<>>
Decided(q, items) == \A c \in Asked(q) : ~NoCase(c) /\ ~Absent(c, items)

RECURSIVE AllFields(_)
AllFields(items) == ToSet(items) \union UNION {AllFields(f.v.items) : f \in ToSet(items)}
\* Some field of the query, at any depth, is as the test says.
Within(items, Test(_)) == \E f \in AllFields(items) : Test(f)

Nor(f) == f.k = <<"$nor">> /\ Len(f.v.items) # 2
Several(f) == f.v.t = "doc" /\ Len(f.v.items) > 1
Regular(q) == ~Within(q, Nor) /\ ~Within(q, Several)

\* A query matches what it says, however many clauses it has and however deep
\* (the right-nested chains of parse_logical, the two ways of finding a field in
\* compare_match).  The exceptions, in which the code does not do so:
\*   - $nor of one clause, which is not negated, or of three or more, whose rest
\*     is negated twice (mongoc-matcher.c:289);
\*   - several operators for a field, or several fields in a clause: only the
\*     first one counts (:68, :250);
\*   - $ne and $nin on a field that is not there, which do not match, though
\*     the comment says "true if the field "path" was not found"
\*     (mongoc-matcher-op.c:819, :879);
\*   - operands without a case: nothing equals a boolean, a document or an
\*     array, not even itself (:473), only numbers are ordered, $exists wants
\*     a boolean, and $type takes the type of its operand.
MatchesWhatItSays ==
  done = "matched" /\ Valid(query) /\ Regular(query) /\ Decided(query, document)
    => matched = Means(query, document)

\* Of $lt, $eq and $gt exactly one holds for a pair of numbers, whatever
\* their widths, and $lte and $gte follow from them (the switch statements,
\* which list the pairs of types six times).
OrderIsTotal == \A i, j \in DOMAIN document : LET s == document[i].v
                                       v == document[j].v
                                   IN
  (s.t \in Numbers /\ v.t \in Numbers) =>
    /\ Cardinality({x \in {"lt", "eq", "gt"} :
         CASE x = "lt" -> lt_match(s, v) [] x = "eq" -> eq_match(s, v) [] x = "gt" -> gt_match(s, v)}) = 1
    /\ lte_match(s, v) = (lt_match(s, v) \/ eq_match(s, v)) /\ gte_match(s, v) = (gt_match(s, v) \/ eq_match(s, v))

\* The tree, written as a query again, matches the same documents
\* (_mongoc_matcher_op_to_bson and the parser), as long as it has none of
\* the operations that op_to_bson writes without their path.
RewritesToTheSame == (done = "matched" /\ ~Within(query, LAMBDA f : f.k[1] \in {"$not", "$exists", "$type"})) =>
  LET again == matcher_new(op_to_bson(optree)) IN IsTree(again) /\ op_match(again, document) = matched

\* A matcher decides as its query reads, over all pairs of number types, and
\* its tree stands for the query.
MatcherFaithful == MatchesWhatItSays /\ OrderIsTotal /\ RewritesToTheSame
=============================================================================
