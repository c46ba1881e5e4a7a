------------------------------ MODULE OrderedDict ------------------------------
(***************************************************************************)
(* monary/ordereddict.py, the OrderedDict of Python 2.6 that carries the    *)
(* sort and hint clauses: a dict, a map from keys to links, and a circular  *)
(* doubly linked list of links around the sentinel root.                    *)
(***************************************************************************)
EXTENDS Integers, Sequences, FiniteSets

CONSTANTS Key, Val, root

ASSUME RootAssumption == root \notin Key

VARIABLES
  dict,    \* the inherited dict
  map,     \* the keys that __map knows; a link is named by its key
  prev,    \* link[0] of every link and of the sentinel
  next     \* link[1]

odVars == <<dict, map, prev, next>>

Node == Key \cup {root}
Update(f, k, v) == [x \in DOMAIN f \cup {k} |-> IF x = k THEN v ELSE f[x]]
Without(f, k) == [x \in DOMAIN f \ {k} |-> f[x]]

\* root[:] = [root, root, None]
ODInit ==
  /\ dict = [k \in {} |-> 0]
  /\ map = {}
  /\ prev = [n \in {root} |-> root]
  /\ next = [n \in {root} |-> root]

\* __setitem__: a new key gets a link before the sentinel.
setitem(k, v) ==
  /\ dict' = Update(dict, k, v)
  /\ IF k \in DOMAIN dict THEN UNCHANGED <<map, prev, next>>
     ELSE /\ map' = map \cup {k}
          /\ prev' = Update([prev EXCEPT ![root] = k], k, prev[root])
          /\ next' = Update([next EXCEPT ![prev[root]] = k], k, root)

\* The link of k leaves the ring.
Unlink(k) ==
  /\ map' = map \ {k}
  /\ prev' = Without([prev EXCEPT ![next[k]] = prev[k]], k)
  /\ next' = Without([next EXCEPT ![prev[k]] = next[k]], k)

\* __delitem__, and pop of a key that is there.
delitem(k) ==
  /\ k \in DOMAIN dict
  /\ dict' = Without(dict, k)
  /\ Unlink(k)

\* Mutant: the other end of the ring is popped with the value of this one.
PopOtherEnd(last) ==
  /\ DOMAIN dict # {}
  /\ LET k == IF last THEN prev[root] ELSE next[root]
         e == IF last THEN next[root] ELSE prev[root]
     IN  dict' = Without([dict EXCEPT ![k] = dict[e]], e) /\ Unlink(e)

\* popitem(last): the link next to the sentinel on either side.
popitem(last) ==
  /\ DOMAIN dict # {}
  /\ LET k == IF last THEN prev[root] ELSE next[root]
     IN  dict' = Without(dict, k) /\ Unlink(k)

\* clear
clear ==
  /\ dict' = [k \in {} |-> 0]
  /\ map' = {}
  /\ prev' = [n \in {root} |-> root]
  /\ next' = [n \in {root} |-> root]

\* setdefault and pop with a default change a missing key only.
setdefault(k, v) == k \notin DOMAIN dict /\ setitem(k, v)

ODNext ==
  \/ \E k \in Key, v \in Val : setitem(k, v) \/ setdefault(k, v)
  \/ \E k \in Key : delitem(k)
  \/ \E last \in BOOLEAN : popitem(last)
  \/ clear

ODSpec == ODInit /\ [][ODNext]_odVars

-----------------------------------------------------------------------------

\* __iter__ and __reversed__: from the sentinel along the links back to it.
\* A walk that met more links than the map knows would never end.
Walk(link) ==
  LET node[i \in 0..(Cardinality(map) + 1)] ==
        IF i = 0 THEN root
        ELSE IF i > 1 /\ node[i - 1] = root THEN root ELSE link[node[i - 1]]
      end == CHOOSE i \in 1..(Cardinality(map) + 1) :
               node[i] = root /\ \A j \in 1..(i - 1) : node[j] # root
  IN  [i \in 1..(end - 1) |-> node[i]]

\* items(): the keys of __iter__ with the values of the dict.
Items == [i \in DOMAIN Walk(next) |-> <<Walk(next)[i], dict[Walk(next)[i]]>>]

\* The linked list is the order that an ordered dictionary promises, for every
\* sequence of sets, deletions and pops (ordereddict.py:45-108).
Promise == INSTANCE OrderedItems WITH items <- Items
IsOrdered == Promise!ItemsSpec

\* Backward and forward iteration meet the same links in opposite order, and
\* the dict, the map and the ring hold the same keys.
RingConsistent ==
  LET fwd == Walk(next)
      bwd == Walk(prev)
  IN  /\ Len(fwd) = Len(bwd)
      /\ \A i \in DOMAIN fwd : fwd[i] = bwd[Len(fwd) + 1 - i]
      /\ {fwd[i] : i \in DOMAIN fwd} = map
      /\ map = DOMAIN dict

\* Over every series of calls both directions of the ring agree, and the pairs
\* are those of an ordered dictionary.
RingIsOrdered == IsOrdered /\ []RingConsistent
=============================================================================
