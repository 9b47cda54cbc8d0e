---- MODULE MCRiskConsumer ----
(* Instances of RiskConsumer for TLC; the unit of time is about ten seconds. *)
EXTENDS RiskConsumer
====
