---- MODULE MCIncidentStore ----
(* Instances of IncidentStore for TLC. *)
EXTENDS IncidentStore, TLC

CONSTANTS c1, c2, g1, g2
OneCamera == [i \in 1..2 |-> c1]
====
