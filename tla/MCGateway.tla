------------------------------ MODULE MCGateway ------------------------------
(* Instances of Gateway for TLC. *)
EXTENDS Gateway

\* The reporting node has two readings, the other one a third.
MCReadings == [n \in Node |-> IF n = Reporter THEN {"d1", "d2"} ELSE {"d3"}]

=============================================================================
