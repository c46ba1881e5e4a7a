----------------------------- MODULE MCMongocMatcher -----------------------------
(* Queries and documents for the matcher. *)
EXTENDS MongocMatcher

KeyA == <<"a">>
KeyB == <<"b">>
KeyAB == <<"a", "b">>

Is(k, op, v) == Pair(k, Doc(<<Pair(<<op>>, v)>>))
List(vs) == Arr([i \in DOMAIN vs |-> Pair(<<ToString(i)>>, vs[i])])
One == Val("int32", 1)
Two == Val("int64", 2)

Scalars == {Val(t, n) : t \in Numbers, n \in {1, 2}} \union {Val("utf8", 1), Val("null", 0), Val("bool", 1)}

\* Clauses about one field.
Leaves ==
  {Pair(k, v) : k \in {KeyA, KeyAB}, v \in Scalars}
    \union {Is(KeyA, op, v) : op \in {"$gt", "$gte", "$lt", "$lte", "$ne"}, v \in {One, Two, Val("utf8", 1)}}
    \union {Is(k, op, List(<<One, Val("utf8", 1)>>)) : k \in {KeyA, KeyB}, op \in {"$in", "$nin"}}
    \union {Is(KeyA, "$in", One), Is(KeyB, "$ne", One), Is(KeyA, "$exists", Val("bool", 1)), Is(KeyB, "$exists", Val("bool", 0)), Is(KeyA, "$exists", One)}
    \union {Is(KeyA, "$not", Doc(<<Pair(<<"$gt">>, One)>>)), Is(KeyB, "$not", Doc(<<Pair(<<"$in">>, List(<<One>>))>>))}
    \union {Pair(KeyA, Doc(<<Pair(KeyB, One)>>)), Is(KeyA, "$type", Val("utf8", 1)), Is(KeyAB, "$type", One)}

Few == {Pair(KeyA, One), Is(KeyA, "$gt", One), Is(KeyB, "$ne", Two), Pair(KeyAB, One)}
Wrong == {Is(KeyA, "$regex", One), Pair(KeyA, Doc(<<>>)), Pair(<<"$regex">>, List(<<>>)), Pair(<<"$or">>, One), Pair(<<"$and">>, List(<<>>)),
          Pair(<<"$or">>, List(<<One>>)), Is(KeyA, "$not", Doc(<<>>)), Pair(<<"$or">>, List(<<Doc(<<>>)>>))}

Chains(S) == UNION {[1 .. n -> S] : n \in 1 .. 3}
OfClauses(op, c) == Pair(<<op>>, List([i \in DOMAIN c |-> Doc(<<c[i]>>)]))
Logic == {OfClauses(op, c) : op \in Logical, c \in Chains(Few)}

SomeQueries ==
  {<<f>> : f \in Leaves} \union Chains(Few) \union {<<f>> : f \in Logic}
    \union {<<OfClauses(op, <<f, g>>)>> : op \in {"$or", "$and"}, f \in {OfClauses("$and", <<Is(KeyA, "$gt", One), Is(KeyB, "$ne", Two)>>)}, g \in Few}
    \union {<<f>> : f \in Wrong} \union {<<Pair(KeyB, Two), Pair(KeyA, One), f>> : f \in Wrong} \union {<<>>}
    \union {<<Pair(KeyA, Doc(<<Pair(<<"$gt">>, One), Pair(<<"$lt">>, Two)>>))>>,
            <<Pair(<<"$or">>, List(<<Doc(<<Pair(KeyA, One), Pair(KeyB, Two)>>)>>))>>}

SomeDocuments ==
  {<<Pair(KeyA, v)>> : v \in Scalars \union {Val("undefined", 0), Doc(<<Pair(KeyB, One)>>), List(<<One>>)}}
    \union {<<Pair(KeyB, v), Pair(KeyA, w)>> : v \in {One, Two}, w \in {One, Two, Val("double", 2)}} \union {<<>>}
=============================================================================
