---- MODULE Ranking ----
(* How urgent an incident is (alerting/priority.py), in thousandths: the        *)
(* alerting service works it out for the log line of an alert it sends.         *)
EXTENDS Integers

SeverityWeight == [CRITICAL |-> 25, HIGH |-> 15, MEDIUM |-> 10, LOW |-> 5]   \* tenths
StageBonus == [EXIT_AFTER_CONCEALMENT |-> 300, CONCEALMENT |-> 200, VISUAL_PICK |-> 100]

BonusOf(stage) == IF stage \in DOMAIN StageBonus THEN StageBonus[stage] ELSE 0
DecayAfter(minutes) == IF minutes <= 0 THEN 0 ELSE IF 10 * minutes > 300 THEN 300 ELSE 10 * minutes

(* compute_score, of a risk in hundredths *)
PriorityScore(severity, stage, risk, minutes) ==
  LET raw == SeverityWeight[severity] * risk + BonusOf(stage) - DecayAfter(minutes)
  IN IF raw < 0 THEN 0 ELSE IF raw > 3000 THEN 3000 ELSE raw

Priorities == <<"LOW", "MEDIUM", "HIGH", "CRITICAL">>

(* score_incident: a place in Priorities *)
PriorityOf(score) == IF score >= 2500 THEN 4 ELSE IF score >= 1500 THEN 3 ELSE IF score >= 800 THEN 2 ELSE 1
====
