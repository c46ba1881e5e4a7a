--------------------------- MODULE MCMongocCluster ---------------------------
(* A cluster of two slots, for two kinds of request.                        *)
EXTENDS MongocCluster

TwoSeeds == <<"h1", "h2">>
Query == [op |-> "query", slaveOk |-> FALSE]
AFewRequests ==
  {[rpc |-> [op |-> "insert", slaveOk |-> FALSE], prefs |-> NoPrefs],
   [rpc |-> Query, prefs |-> [mode |-> "secondary", tags |-> {}]]}
=============================================================================
