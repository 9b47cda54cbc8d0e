---- MODULE PosePath ----
(* Poses on their way from the detector (inference/ml/detector.py) over the key *)
(* netra:kp:<camera>:<track> that inference/main.py writes to the windows of    *)
(* services/shopformer/main.py, for one camera. The networks are input. The     *)
(* events that start the scoring come round by association and behavior, in     *)
(* order and as late as these like. boxmot is installed: OcSort gives the track *)
(* ids.                                                                         *)
EXTENDS Integers, Sequences

CONSTANTS
  Persons,
  Boxes,          \* what a frame may show: sequences of Row
  SeqLen,         \* settings.shopformer_seq_len
  Stride,         \* settings.shopformer_stride / 10 s
  WindowAge,      \* 30 s: when a window is evicted
  EvictEvery,     \* 60 s
  MaxShots, MaxNow, MaxWaiting, MaxScorerFaults   \* bounds

Row == [who: Persons, large: BOOLEAN, suspicious: BOOLEAN]

ASSUME PoseAssumption ==
  /\ Boxes \subseteq Seq(Row)
  /\ {SeqLen, Stride, WindowAge, EvictEvery, MaxShots, MaxNow, MaxWaiting, MaxScorerFaults} \subseteq Nat
  /\ SeqLen > 0 /\ "nobody" \notin Persons

VARIABLES
  shots,       \* frames detected so far
  shotTime,    \* capture time of the last
  people,      \* persons of the frame in hand whose points are still to be written
  points,      \* netra:kp: per track the pose stored, or NoPose
  behavior,    \* behavior events to come, oldest first: on their way or in netra:behavior
  window,      \* PoseBuffer._buffers
  lastScored,  \* PoseBuffer._last_scored
  scoring,     \* the track whose sequence is with the model, or "nobody"
  lastEvict, now,
  scorerFaults,
  scored,      \* history, per track: when its sequence was last taken, since the last restart
  fresh        \* history, per track: poses of its window that came after that, at most

poseVars == <<shots, shotTime, people, points, behavior, window, lastScored, scoring, lastEvict, now,
              scorerFaults, scored, fresh>>

NoPose == [who |-> "nobody", shot |-> 0]
Never == -100

PoseInit ==
  /\ shots = 0 /\ shotTime = 0 /\ people = <<>> /\ points = [p \in Persons |-> NoPose]
  /\ behavior = <<>>
  /\ window = [p \in Persons |-> <<>>] /\ lastScored = [p \in Persons |-> Never]
  /\ scoring = "nobody" /\ lastEvict = 0 /\ now = 0 /\ scorerFaults = 0
  /\ scored = [p \in Persons |-> Never] /\ fresh = [p \in Persons |-> 0]

scorerVars == <<window, lastScored, scoring, lastEvict, scored, fresh>>

(* The tracker may report the persons of a frame in any order; those it leaves  *)
(* out are not in Boxes.                                                        *)
Orders(S) == {f \in [S -> S] : \A i, j \in S : f[i] = f[j] => i = j}
Tracked(boxes) == {[i \in DOMAIN boxes |-> boxes[f[i]]] : f \in Orders(DOMAIN boxes)}

(* _run_pose: only large enough persons have a crop; the n-th crop is of person *)
(* CropIndices(rows)[n].                                                        *)
CropIndices(rows) == SelectSeq([i \in DOMAIN rows |-> i], LAMBDA i : rows[i].large)

\* Mutant: the n-th pose goes to the n-th person.
OwnersInOrder(rows) == [n \in DOMAIN CropIndices(rows) |-> n]
Owners(rows) == CropIndices(rows)

PoseOf(rows, i, shot) ==
  LET n == {k \in DOMAIN Owners(rows) : Owners(rows)[k] = i}
  IN IF n = {} THEN NoPose
     ELSE [who |-> rows[CropIndices(rows)[CHOOSE k \in n : TRUE]].who, shot |-> shot]

(* A frame captured some time ago (inference/main.py:199) is detected and its   *)
(* event published; a behavior event of each person will come of it. A pose     *)
(* that could not be estimated is like that of a person too small.              *)
DetectShot ==
  /\ shots < MaxShots /\ people = <<>> /\ Len(behavior) <= MaxWaiting
  /\ shots' = shots + 1
  /\ shotTime' \in shotTime..now
  /\ \E boxes \in Boxes : \E rows \in Tracked(boxes) :
       /\ people' = [i \in DOMAIN rows |-> [who |-> rows[i].who, pose |-> PoseOf(rows, i, shots')]]
       /\ behavior' = behavior \o [i \in DOMAIN rows |->
                                    [who |-> rows[i].who, suspicious |-> rows[i].suspicious, t |-> shotTime']]
  /\ UNCHANGED <<points, scorerVars, now, scorerFaults>>

WritePoints ==
  /\ people # <<>>
  /\ LET p == Head(people)
     IN points' = IF p.pose = NoPose THEN points ELSE [points EXCEPT ![p.who] = p.pose]
  /\ people' = Tail(people)
  /\ UNCHANGED <<shots, shotTime, behavior, scorerVars, now, scorerFaults>>

(* The key lives 5 s; here it may go at any time. *)
ExpirePoints(p) ==
  /\ points[p] # NoPose
  /\ points' = [points EXCEPT ![p] = NoPose]
  /\ UNCHANGED <<shots, shotTime, people, behavior, scorerVars, now, scorerFaults>>

(* run of ShopFormer: an entry up to the call of the model. *)
Pushed(e) ==
  LET w == Append(window[e.who], [pose |-> points[e.who], t |-> e.t])
  IN IF points[e.who] = NoPose THEN window[e.who]
     ELSE IF Len(w) > SeqLen THEN Tail(w) ELSE w

Ready(e) == Len(Pushed(e)) = SeqLen /\ now - lastScored[e.who] >= Stride

\* Mutant: the time is not kept.
Untimed(e) == lastScored
Timed(e) == [lastScored EXCEPT ![e.who] = now]

Fresher(e) ==
  IF points[e.who] # NoPose /\ fresh[e.who] < SeqLen THEN fresh[e.who] + 1 ELSE fresh[e.who]

HandleEvent ==
  /\ behavior # <<>> /\ scoring = "nobody"
  /\ behavior' = Tail(behavior)
  /\ LET e == Head(behavior)
     IN IF ~e.suspicious THEN UNCHANGED <<window, lastScored, scoring, scored, fresh>>
        ELSE /\ window' = [window EXCEPT ![e.who] = Pushed(e)]
             /\ scoring' = IF Ready(e) THEN e.who ELSE "nobody"
             /\ lastScored' = IF Ready(e) THEN Timed(e) ELSE lastScored
             /\ scored' = IF Ready(e) THEN [scored EXCEPT ![e.who] = now] ELSE scored
             /\ fresh' = [fresh EXCEPT ![e.who] = IF Ready(e) THEN 0 ELSE Fresher(e)]
  /\ UNCHANGED <<shots, shotTime, people, points, lastEvict, now, scorerFaults>>

(* The score is published, or the model or XADD raises: acknowledged either way. *)
EndScoring ==
  /\ scoring # "nobody"
  /\ scoring' = "nobody"
  /\ UNCHANGED <<shots, shotTime, people, points, behavior, window, lastScored, lastEvict, now, scorerFaults, scored, fresh>>

(* evict_stale, when a read has timed out: more may be on its way. *)
Stale == {p \in Persons : window[p] # <<>> /\ now - window[p][Len(window[p])].t > WindowAge}

EvictStale ==
  /\ scoring = "nobody" /\ now - lastEvict > EvictEvery
  /\ window' = [p \in Persons |-> IF p \in Stale THEN <<>> ELSE window[p]]
  /\ lastScored' = [p \in Persons |-> IF p \in Stale THEN Never ELSE lastScored[p]]
  /\ lastEvict' = now
  /\ UNCHANGED <<shots, shotTime, people, points, behavior, scoring, now, scorerFaults, scored, fresh>>

RestartScorer ==
  /\ scorerFaults < MaxScorerFaults
  /\ scorerFaults' = scorerFaults + 1
  /\ window' = [p \in Persons |-> <<>>] /\ lastScored' = [p \in Persons |-> Never]
  /\ scored' = [p \in Persons |-> Never] /\ fresh' = [p \in Persons |-> 0]
  /\ scoring' = "nobody" /\ lastEvict' = now
  /\ UNCHANGED <<shots, shotTime, people, points, behavior, now>>

PoseTick ==
  /\ now < MaxNow
  /\ now' = now + 1
  /\ UNCHANGED <<shots, shotTime, people, points, behavior, scorerVars, scorerFaults>>

PoseNext ==
  \/ DetectShot \/ WritePoints \/ \E p \in Persons : ExpirePoints(p)
  \/ HandleEvent \/ EndScoring \/ EvictStale \/ RestartScorer \/ PoseTick
PoseSpec == PoseInit /\ [][PoseNext]_poseVars

(* A window holds poses of its own track only, in the order of their frames,    *)
(* although crops are skipped, the tracker reorders persons and the key is read *)
(* at another time than the event was made (detector.py:393).                   *)
PosesOfTheTrack ==
  \A p \in Persons : \A i \in DOMAIN window[p] :
    /\ window[p][i].pose.who = p
    /\ \A j \in 1..i : window[p][j].pose.shot <= window[p][i].pose.shot

(* A sequence taken sooner than Stride after the last one of its track shares   *)
(* no pose pushed with it: an eviction may forget when a track was scored just *)
(* now, as it goes by the capture time of its poses, but forgets the poses too  *)
(* (shopformer/main.py:76).                                                     *)
ScoresApart ==
  [][\A p \in Persons : scoring' = p /\ scoring # p =>
       now - scored[p] >= Stride \/ Fresher(Head(behavior)) >= SeqLen]_poseVars
====
