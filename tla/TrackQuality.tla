---- MODULE TrackQuality ----
(* How far a track and a scene are to be trusted, as functions of what was seen: *)
(* OcclusionTracker (association/occlusion.py), CrossSignalValidator and        *)
(* SceneContextModifier (behavior/cross_signal.py, context.py). No service      *)
(* calls them yet.                                                              *)
EXTENDS Geometry, SequencesExt

(* BBox.iou reaches 35/100. *)
Occludes(a, b) ==
  LET c == Common(a, b)
  IN c.x1 < c.x2 /\ c.y1 < c.y2 /\ 100 * Area(c) >= 35 * (Area(a) + Area(b) - Area(c))

DisappearFrames == 3

(* update, for a frame with its number and the box of each track it shows; the  *)
(* state has, per track, the number of its last frame and whether it is hidden. *)
AfterFrame(state, frame) ==
  LET inFrame == DOMAIN frame.boxes
      covered(t) == \E u \in inFrame \ {t} : Occludes(frame.boxes[t], frame.boxes[u])
      known == inFrame \cup DOMAIN state
  IN [t \in known |->
        IF t \in inFrame THEN [last |-> frame.seq, occluded |-> covered(t)]
        ELSE [state[t] EXCEPT !.occluded = @ \/ frame.seq - state[t].last >= DisappearFrames]]

(* is_occluded after these frames *)
IsOccluded(film, t) ==
  LET state == FoldLeft(AfterFrame, <<>>, film)
  IN t \in DOMAIN state /\ state[t].occluded

(* record_many and is_valid, for the events of one track *)
CrossValidated(kinds, minDistinct) ==
  minDistinct <= 1 \/ Cardinality(ToSet(kinds) \ {"SPEED_SPIKE"}) >= minDistinct

(* threshold_delta, in hundredths *)
ZoneDelta == [checkout |-> -5, exit |-> -3, entrance |-> 2, shelf |-> 0, unknown |-> 2]
ThresholdDelta(hour, count, zone, base) ==
  LET wish == (IF hour \in 11..18 THEN 3 ELSE 0) + (IF count >= 6 THEN 5 ELSE 0)
              + (IF zone \in DOMAIN ZoneDelta THEN ZoneDelta[zone] ELSE 0)
  IN Max({50 - base, Min({85 - base, wish})})
====
