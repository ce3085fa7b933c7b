------------------------- MODULE MCOperatorProcess -------------------------
(* The processes of the operator on small instances.                       *)
EXTENDS OperatorProcess

CONSTANTS p1, p2, api, metrics, reportQueue

(* With and without servers: a process without them only works.            *)
TwoServers == [p \in Processes |-> {api, metrics}]
NoServers == [p \in Processes |-> {}]
=============================================================================
