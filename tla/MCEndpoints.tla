---------------------------- MODULE MCEndpoints ----------------------------
EXTENDS Endpoints

ClientOwns1 == [p \in Peers |-> IF p = "client" THEN 1 ELSE 0]
ClientOwns2 == [p \in Peers |-> IF p = "client" THEN 2 ELSE 0]
Nobody == [p \in Peers |-> 0]
Wide == [p \in Peers |-> MaxSsn]
=============================================================================
