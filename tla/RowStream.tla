------------------------------ MODULE RowStream ------------------------------
(***************************************************************************)
(* What the caller of query, block_query, aggregate and block_aggregate    *)
(* may rely on, with nothing of cursors, arrays or exceptions in it: the   *)
(* documents reach it in the order the server sent them, none is skipped   *)
(* or repeated, they come in portions of at most capacity rows, and a      *)
(* portion that is not full is the last one.  MonaryRead implements it.    *)
(***************************************************************************)
EXTENDS Integers, Sequences

CONSTANT Doc

VARIABLES
  sent,       \* the documents the server has sent
  got,        \* the documents the caller has been given
  capacity,   \* the rows of one portion
  status      \* "open": more may come; "last": no more will; "over"

streamVars == <<sent, got, capacity, status>>

StreamInit ==
  /\ sent = << >>
  /\ got = << >>
  /\ capacity = 0
  /\ status = "open"

\* The arrays are sized before anything is sent.
Reserve ==
  /\ status = "open"
  /\ sent = << >>
  /\ capacity' \in Nat
  /\ UNCHANGED <<sent, got, status>>

\* More documents arrive after those that have been sent.
Receive ==
  /\ status = "open"
  /\ sent' \in Seq(Doc)
  /\ Len(sent') > Len(sent)
  /\ SubSeq(sent', 1, Len(sent)) = sent
  /\ UNCHANGED <<got, capacity, status>>

\* The caller is given the next n documents; fewer than fit are the last.
Deliver(n) ==
  /\ status = "open"
  /\ Len(got) + n <= Len(sent)
  /\ got' = SubSeq(sent, 1, Len(got) + n)
  /\ status' \in IF n < capacity THEN {"last"} ELSE {"open", "last"}
  /\ UNCHANGED <<sent, capacity>>

\* The caller abandons a generator, or the call fails.
Abandon ==
  /\ status = "open"
  /\ status' = "last"
  /\ UNCHANGED <<sent, got, capacity>>

Finish ==
  /\ status \in {"open", "last"}
  /\ status' = "over"
  /\ UNCHANGED <<sent, got, capacity>>

StreamNext ==
  \/ Reserve
  \/ Receive
  \/ \E n \in 0..capacity : Deliver(n)
  \/ Abandon
  \/ Finish

StreamSpec == StreamInit /\ [][StreamNext]_streamVars
=============================================================================
