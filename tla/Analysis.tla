---- MODULE Analysis ----
(* What is computed from stored incidents: the calibration of a camera's        *)
(* threshold (eval/threshold_tuner.py) and groups of incidents that several     *)
(* cameras saw (analytics/correlation.py). Scores are counted in the steps of   *)
(* the sweep, and fractions are compared without rounding.                      *)
EXTENDS Integers, Sequences, FiniteSets, FiniteSetsExt

CONSTANTS
  ShopCameras, Scores,
  Sweep,            \* thresholds tried, in order
  DefaultThreshold, \* settings.risk_alert_threshold
  MinSamples,       \* settings.calibration_min_samples
  GroupWindow,      \* _CORRELATION_WINDOW_SEC
  GroupLimit,       \* limit of the endpoint
  MaxIncidents, MaxInstant   \* bounds

ASSUME AnalysisAssumption ==
  /\ Sweep \in Seq(Nat) /\ Sweep # <<>> /\ Scores \subseteq Nat
  /\ \A j, k \in DOMAIN Sweep : j < k => Sweep[j] < Sweep[k]
  /\ {DefaultThreshold, MinSamples, GroupWindow, GroupLimit, MaxIncidents, MaxInstant} \subseteq Nat
  /\ MinSamples > 0

VARIABLES
  incidents,    \* rows of incidents in the order of occurred_at
  rated,        \* per camera the threshold computed and not stored yet, or NoThreshold
  calibration   \* netra:calibration: per camera the threshold stored, or NoThreshold

NoThreshold == -1
analysisVars == <<incidents, rated, calibration>>

AnalysisInit ==
  /\ incidents = <<>>
  /\ rated = [c \in ShopCameras |-> NoThreshold] /\ calibration = [c \in ShopCameras |-> NoThreshold]

Occur(c, score, t) ==
  /\ Len(incidents) < MaxIncidents
  /\ incidents # <<>> => t >= incidents[Len(incidents)].t
  /\ incidents' = Append(incidents, [camera |-> c, score |-> score, t |-> t, status |-> "OPEN"])
  /\ UNCHANGED <<rated, calibration>>

Label(i, verdict) ==
  /\ incidents' = [incidents EXCEPT ![i].status = verdict]
  /\ UNCHANGED <<rated, calibration>>

(* calibrate *)
Labeled(c) == {i \in DOMAIN incidents : incidents[i].camera = c /\ incidents[i].status # "OPEN"}
Count(c, verdict, above, t) ==
  Cardinality({i \in Labeled(c) : incidents[i].status = verdict /\ (incidents[i].score >= t) = above})

\* F-beta for beta 1/2 as a fraction: precision tp / a and recall tp / c give 5 tp / (c + 4 a).
Fraction(n, d) == [n |-> n, d |-> d]
FBeta(tp, fp, fn) == IF tp = 0 THEN Fraction(0, 1) ELSE Fraction(5 * tp, (tp + fn) + 4 * (tp + fp))
Rating(c, t) == FBeta(Count(c, "CONFIRMED", TRUE, t), Count(c, "DISMISSED", TRUE, t), Count(c, "CONFIRMED", FALSE, t))
Above(x, y) == x.n * y.d > y.n * x.d

\* Mutant: the last of the best wins.
BetterOrEqual(x, y) == ~Above(y, x)
Better(x, y) == Above(x, y)

Best(c) ==
  LET best[k \in 0..Len(Sweep)] ==
        IF k = 0 THEN [t |-> DefaultThreshold, rating |-> Fraction(-1, 1)]
        ELSE IF Better(Rating(c, Sweep[k]), best[k - 1].rating)
             THEN [t |-> Sweep[k], rating |-> Rating(c, Sweep[k])]
             ELSE best[k - 1]
  IN best[Len(Sweep)].t

(* Up to the await of SET; reviews may come before it is stored. *)
Calibrate(c) ==
  /\ rated[c] = NoThreshold /\ Cardinality(Labeled(c)) >= MinSamples
  /\ rated' = [rated EXCEPT ![c] = Best(c)]
  /\ UNCHANGED <<incidents, calibration>>

StoreThreshold(c) ==
  /\ rated[c] # NoThreshold
  /\ calibration' = [calibration EXCEPT ![c] = rated[c]]
  /\ rated' = [rated EXCEPT ![c] = NoThreshold]
  /\ UNCHANGED incidents

StoreFails(c) ==
  /\ rated[c] # NoThreshold
  /\ rated' = [rated EXCEPT ![c] = NoThreshold]
  /\ UNCHANGED <<incidents, calibration>>

(* The key lives a day. *)
CalibrationExpires(c) ==
  /\ calibration[c] # NoThreshold
  /\ calibration' = [calibration EXCEPT ![c] = NoThreshold]
  /\ UNCHANGED <<incidents, rated>>

AnalysisNext ==
  \/ \E c \in ShopCameras, score \in Scores, t \in 0..MaxInstant : Occur(c, score, t)
  \/ \E i \in DOMAIN incidents, verdict \in {"CONFIRMED", "DISMISSED"} : Label(i, verdict)
  \/ \E c \in ShopCameras : Calibrate(c) \/ StoreThreshold(c) \/ StoreFails(c) \/ CalibrationExpires(c)
AnalysisSpec == AnalysisInit /\ [][AnalysisNext]_analysisVars

(* groups: of the newest open and confirmed incidents, newest first, every one  *)
(* not used yet takes those of other cameras that are near it and not used.     *)
Listable == {i \in DOMAIN incidents : incidents[i].status \in {"OPEN", "CONFIRMED"}}
Listed == {i \in Listable : Cardinality({j \in Listable : j > i}) < 5 * GroupLimit}

Near(i, j) ==
  /\ incidents[i].camera # incidents[j].camera
  /\ incidents[i].t - incidents[j].t \in -GroupWindow..GroupWindow

\* Mutant: only the first of a group is used up.
UsedFirst(first, group) == {first}
Used(first, group) == group

Gather(i, acc) ==
  LET group == {i} \cup {j \in Listed \ acc.used : Near(i, j)}
  IN IF i \notin Listed \ acc.used \/ Cardinality(acc.groups) >= GroupLimit THEN acc
     ELSE [used |-> acc.used \cup Used(i, group),
           groups |-> IF Cardinality(group) > 1 THEN acc.groups \cup {group} ELSE acc.groups]

Gathered ==
  LET n == Len(incidents)
      after[k \in 0..n] == IF k = 0 THEN [used |-> {}, groups |-> {}] ELSE Gather(n + 1 - k, after[k - 1])
  IN after[n]
Groups == Gathered.groups

(* A calibration takes the lowest of the thresholds that rate best, with any   *)
(* number of ties: the lowest of all when nothing was confirmed                 *)
(* (threshold_tuner.py:75).                                                     *)
CalibratesToBest ==
  [][\A c \in ShopCameras : rated'[c] \notin {NoThreshold, rated[c]} =>
       LET best == {t \in {Sweep[k] : k \in DOMAIN Sweep} :
                      \A k \in DOMAIN Sweep : ~Above(Rating(c, Sweep[k]), Rating(c, t))}
       IN rated'[c] = Min(best)]_analysisVars

(* Groups share no incident, each has its newest member near all others, and    *)
(* with fewer groups than the limit no two incidents left over are near each    *)
(* other (correlation.py:75).                                                   *)
GroupsAreApart ==
  /\ \A g, h \in Groups : g = h \/ g \cap h = {}
  /\ \A g \in Groups : \A i \in g \ {Max(g)} : Near(i, Max(g))
  /\ Cardinality(Groups) < GroupLimit =>
       \A i, j \in Listed \ UNION Groups : ~Near(i, j)
====
