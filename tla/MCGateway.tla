----------------------------- MODULE MCGateway ------------------------------
(* Small instances of Gateway.  Clients are interchangeable: nothing compares  *)
(* them.  Descriptors are not, accept takes the lowest free one.               *)
EXTENDS Gateway, TLC

ClientSymmetry == Permutations(Conn)

\* A queued task is started when a worker is free; clients need not read.
ServingSpec == FairSpec /\ WF_vars(WorkerStart)
=============================================================================
