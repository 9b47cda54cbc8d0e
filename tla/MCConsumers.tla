---- MODULE MCConsumers ----
(* An instance of Consumers for TLC. The assumptions check Ranking over all     *)
(* severities and stages, every twentieth risk and some ages.                   *)
EXTENDS MCTracking, Consumers, Ranking

CONSTANT c1

TheftStages == {"BROWSING", "NEAR_SHELF", "SHELF_INTERACTION", "ITEM_PICKED", "CONCEALMENT", "HIGH_RISK_EXIT"}
SomeRisks == {5 * k : k \in 0..20}
SomeAges == {-1, 0, 1, 15, 29, 30, 31, 600}

(* An older incident is never more urgent, a riskier one never less, and the    *)
(* highest priority is for CRITICAL incidents only (priority.py:53).            *)
ASSUME RankingIsMonotone ==
  \A s \in DOMAIN SeverityWeight, g \in TheftStages, r \in SomeRisks, m \in SomeAges :
    LET score == PriorityScore(s, g, r, m)
    IN /\ \A older \in SomeAges : older >= m => PriorityScore(s, g, r, older) <= score
       /\ \A riskier \in SomeRisks : riskier >= r => PriorityScore(s, g, riskier, m) >= score
       /\ Priorities[PriorityOf(score)] = "CRITICAL" => s = "CRITICAL"

(* Two of the three names that earn a bonus are no stages (priority.py:42):     *)
(* somebody who leaves with what he hid ranks no higher than a browser, and     *)
(* below somebody who only hides it.                                            *)
ASSUME LeavingEarnsNothing ==
  \A s \in DOMAIN SeverityWeight, r \in SomeRisks, m \in SomeAges :
    /\ PriorityScore(s, "HIGH_RISK_EXIT", r, m) = PriorityScore(s, "BROWSING", r, m)
    /\ PriorityScore(s, "HIGH_RISK_EXIT", r, m) <= PriorityScore(s, "CONCEALMENT", r, m)
====
