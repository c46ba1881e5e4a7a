--------------------------------- MODULE Sums ---------------------------------
(***************************************************************************)
(* Sums over a sequence of lengths: where its parts end when they lie one  *)
(* behind the other.                                                       *)
(***************************************************************************)
EXTENDS Integers, Sequences

\* SumsOf(s)[i] is the sum of the first i.
SumsOf(s) ==
  LET sum[i \in 0 .. Len(s)] == IF i = 0 THEN 0 ELSE sum[i - 1] + s[i]
  IN  sum

SumOf(s) == SumsOf(s)[Len(s)]
=============================================================================
