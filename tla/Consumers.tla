---- MODULE Consumers ----
(* The consumers at the two ends of the pipeline: association and behavior, who  *)
(* make the events that risk judges, and alerting, who gets the incidents it    *)
(* raises. They share no state with each other, so a behavior is one of one     *)
(* end, which the initial state chooses.                                        *)
EXTENDS Behavior, Alerting

VARIABLE side   \* the end that runs

consumersVars == <<side, trackingVars, alertingVars>>

ConsumersInit == side \in {"tracking", "alerting"} /\ TrackingInit /\ AlertingInit

ConsumersNext ==
  /\ UNCHANGED side
  /\ \/ side = "tracking" /\ TrackingNext /\ UNCHANGED alertingVars
     \/ side = "alerting" /\ AlertingNext /\ UNCHANGED trackingVars

FairConsumers ==
  ConsumersInit /\ [][ConsumersNext]_consumersVars /\ TrackingFairness /\ AlertingFairness
====
