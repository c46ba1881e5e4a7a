--------------------------- MODULE MCMongocCursor ---------------------------
(* MongocCursor on a small instance: 2^31 is scaled down to HalfWord = 4,   *)
(* so limits 1 to 3 are ordinary, 4 to 7 are negative as an int32_t, and    *)
(* count can wrap.                                                          *)
EXTENDS MongocCursor

CONSTANTS d1, d2, h1, h2

MCDoc == {d1, d2}
MCHosts == {h1, h2}

\* A replica set with both read preferences of a client, a sharded cluster,
\* where they make no difference, and a direct connection, likewise.
MCDeployments ==
  [mode: {"replica_set"}, slave_ok: BOOLEAN]
  \cup [mode: {"direct", "sharded_cluster"}, slave_ok: {FALSE}]
=============================================================================
