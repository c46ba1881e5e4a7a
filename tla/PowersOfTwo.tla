----------------------------- MODULE PowersOfTwo -----------------------------
(* The sizes that buffers grow to (bson_next_power_of_two).                    *)
EXTENDS Integers

CONSTANT Powers    \* the powers of two, up to the sizes that a buffer needs

ASSUME PowersAssumption == Powers \subseteq Nat \ {0}

\* bson_next_power_of_two
next_power_of_two(v) == CHOOSE p \in Powers : v <= p /\ \A q \in Powers : v <= q => p <= q
=============================================================================
