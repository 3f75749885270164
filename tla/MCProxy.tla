------------------------------- MODULE MCProxy -------------------------------
(* Small instances of Proxy for TLC. *)
EXTENDS Proxy

CONSTANTS c1, c2, c3

\* More clients than the limit; a pipeline on each of two connections; and one
\* connection with everything the environment may do.
SmallScenarios ==
  {[clients |-> {c1, c2, c3}, maxConnections |-> 2, maxPipeline |-> 1,
    env |-> {"cancel"}],
   [clients |-> {c1, c2}, maxConnections |-> 2, maxPipeline |-> 2,
    env |-> {"cancel", "quit"}],
   [clients |-> {c1, c2}, maxConnections |-> 2, maxPipeline |-> 1,
    env |-> {"cancel", "close"}],
   [clients |-> {c1}, maxConnections |-> 1, maxPipeline |-> 2,
    env |-> EnvOptions]}
=============================================================================
