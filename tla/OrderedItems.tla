----------------------------- MODULE OrderedItems -----------------------------
(***************************************************************************)
(* What an ordered dictionary promises: pairs in the order in which their   *)
(* keys were first set.                                                     *)
(***************************************************************************)
EXTENDS Integers, Sequences

CONSTANTS Key, Val

VARIABLE items      \* a sequence of <<key, value>>

KeyIndexes(k) == {i \in DOMAIN items : items[i][1] = k}

Set(k, v) ==
  IF KeyIndexes(k) = {} THEN items' = Append(items, <<k, v>>)
  ELSE items' = [i \in DOMAIN items |->
                   IF i \in KeyIndexes(k) THEN <<k, v>> ELSE items[i]]

Removed(i) == SubSeq(items, 1, i - 1) \o SubSeq(items, i + 1, Len(items))

Remove(k) == \E i \in KeyIndexes(k) : items' = Removed(i)
PopEnd == items # <<>> /\ (items' = Removed(1) \/ items' = Removed(Len(items)))
Empty == items' = <<>>

ItemsInit == items = <<>>
ItemsNext ==
  \/ \E k \in Key : Remove(k) \/ \E v \in Val : Set(k, v)
  \/ PopEnd
  \/ Empty

ItemsSpec == ItemsInit /\ [][ItemsNext]_items
=============================================================================
