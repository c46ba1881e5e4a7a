---------------------------- MODULE MCMonaryRead ----------------------------
(* MonaryRead on a small instance: a number, a string and a subdocument      *)
(* column, each two bytes wide.  The string and subdocument of long are cut, *)
(* those of short do not fill the item, and short has no number.             *)
EXTENDS MonaryRead

CONSTANTS long, short

MCDoc     == {long, short}
MCDirect  == [mode: {"direct"}, slave_ok: {FALSE}]
MCColumns == {"num", "str", "doc"}
MCKind    == [c \in MCColumns |->
                CASE c = "num" -> "fixed" [] c = "str" -> "bytes" [] c = "doc" -> "document"]
MCWidth   == [c \in MCColumns |-> 2]
MCByte    == 0..2
MCValue   ==
  [d \in MCDoc |-> [c \in MCColumns |->
     CASE d = short /\ c = "num" -> NoValue
       [] d = short /\ c # "num" -> <<2>>
       [] d = long  /\ c = "num" -> <<1, 1>>
       [] d = long  /\ c # "num" -> <<1, 2, 1>>]]

Args(methods, limits, offsets, sizes, counts, bsons, setups, connecteds) ==
  [method: methods, limit: limits, offset: offsets, block_size: sizes,
   do_count: counts, bson: bsons, setup: setups, connected: connecteds]

\* Sane calls over their whole range of limits, offsets and block sizes.
MCReads ==
  Args({"query"}, {-1, 0, 2}, 0..1, {1}, BOOLEAN, {"ok"}, {"ok"}, {TRUE})
  \cup Args({"block_query"}, {0, 1, 3}, 0..1, {0, 2}, {TRUE}, {"ok"}, {"ok"}, {TRUE})
  \cup Args({"aggregate"}, {0, 2}, {0}, {1}, BOOLEAN, {"ok"}, {"ok"}, {TRUE})
  \cup Args({"block_aggregate"}, {0, 1}, {0}, {2}, {TRUE}, {"ok"}, {"ok"}, {TRUE})

\* Calls with something wrong: arguments, types, or no connection.
MCWrong ==
  Args({"query", "block_query"}, {2}, {0}, {1}, BOOLEAN,
       {"ok", "mixed", "invalid"}, {"ok", "mismatch", "bad_type"}, BOOLEAN)
  \cup Args({"aggregate", "block_aggregate"}, {0}, {0}, {1}, {TRUE}, {"ok"},
            {"ok", "mismatch", "bad_type"}, BOOLEAN)

MCAllCalls == MCReads \cup MCWrong
=============================================================================
