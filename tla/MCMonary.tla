-------------------------------- MODULE MCMonary --------------------------------
(* The parts of Monary that share no state, in one run: a behaviour is about  *)
(* one part, and the others stay in one of their initial states.              *)
EXTENDS MonarySession, DateHelper, MonaryLoaders, OrderedDict, MonaryArguments

VARIABLE part

DateStart == DateInit /\ micros = 0
LoaderStart == type = "bool" /\ value = [type |-> "null"] /\ row = 0 /\ outcome = Masked
ArgStart == call = [op |-> "id", bytes |-> <<0, 7>>] /\ answer = Pending

PartsInit ==
  \/ part = "session" /\ SessionInit /\ DateStart /\ LoaderStart /\ ODInit /\ ArgStart
  \/ part = "dates" /\ SessionInit /\ DateInit /\ LoaderStart /\ ODInit /\ ArgStart
  \/ part = "loaders" /\ SessionInit /\ DateStart /\ LoaderInit /\ ODInit /\ ArgStart
  \/ part = "dict" /\ SessionInit /\ DateStart /\ LoaderStart /\ ODInit /\ ArgStart
  \/ part = "arguments" /\ SessionInit /\ DateStart /\ LoaderStart /\ ODInit /\ ArgInit

PartsNext ==
  \/ part = "session" /\ SessionNext /\ UNCHANGED <<part, dateVars, loaderVars, odVars, argVars>>
  \/ part = "dates" /\ DateNext /\ UNCHANGED <<part, sessionVars, loaderVars, odVars, argVars>>
  \/ part = "loaders" /\ Load /\ UNCHANGED <<part, sessionVars, dateVars, odVars, argVars>>
  \/ part = "dict" /\ ODNext /\ UNCHANGED <<part, sessionVars, dateVars, loaderVars, argVars>>
  \/ part = "arguments" /\ Reply /\ UNCHANGED <<part, sessionVars, dateVars, loaderVars, odVars>>

\* Nothing that SessionFairness asks for is enabled in the initial state of the
\* session, so it binds only the behaviours about the session.
PartsSpec ==
  PartsInit /\ [][PartsNext]_<<part, sessionVars, dateVars, loaderVars, odVars, argVars>>
    /\ SessionFairness
=============================================================================
