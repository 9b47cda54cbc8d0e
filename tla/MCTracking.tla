---- MODULE MCTracking ----
(* Instances of Behavior with Association for TLC: one person, one place with   *)
(* an item, a shop whose exit zone (config/zones.sample.json) holds the place.  *)
(* The assumptions check Geometry and TrackQuality against reference            *)
(* definitions.                                                                 *)
EXTENDS Behavior, TrackQuality, TLC

CONSTANTS p1, shelf

ExitZones == <<"exit_zone">>
At(x, y) == [x |-> x, y |-> y]
BoxAt(x1, y1, x2, y2) == [x1 |-> x1, y1 |-> y1, x2 |-> x2, y2 |-> y2]
Corners(b) == <<At(b.x1, b.y1), At(b.x2, b.y1), At(b.x2, b.y2), At(b.x1, b.y2)>>

ExitShape == [z \in {"exit_zone"} |-> Corners(BoxAt(1100, 0, 1280, 720))]
ShelfBox == [s \in {shelf} |-> BoxAt(1150, 300, 1180, 340)]

Person(box, pose, fast) == [class |-> "person", track |-> p1, box |-> box, pose |-> pose, fast |-> fast]
Item == [class |-> "item", place |-> shelf]
Trolley == [class |-> "other"]
Scene(gap, found) == [gap |-> gap, found |-> found]

AtShelf == BoxAt(1100, 150, 1240, 520)
Hips == "left_hip" :> At(1140, 340) @@ "right_hip" :> At(1200, 340)
Reaching == Person(AtShelf, Hips @@ "left_wrist" :> At(1160, 200), FALSE)
Taking   == Person(AtShelf, Hips @@ "left_wrist" :> At(1150, 350), FALSE)
Leaving  == Person(BoxAt(700, 150, 840, 520), <<>>, TRUE)

SomeScenes ==
  { Scene(1, <<Item, Reaching>>),
    Scene(1, <<Taking>>),
    Scene(3, <<Trolley, Taking>>),
    Scene(1, <<Leaving>>),
    Scene(6, <<Item>>) }

(* Two items of one kind, taken at once. *)
PairScenes == {Scene(1, <<Item, Item, Reaching>>), Scene(1, <<Taking>>)}

Few == 0..3
Boxes == {b \in [x1: Few, y1: Few, x2: Few, y2: Few] : b.x1 < b.x2 /\ b.y1 < b.y2}

(* A rectangle contains the centres strictly between its sides, whichever way   *)
(* round its corners are given (engine.py:47).                                  *)
ASSUME RectangleEncloses ==
  \A b \in Boxes, c \in Boxes :
    LET p == Centre(c)
        inside == 2 * b.x1 < p.x /\ p.x < 2 * b.x2 /\ 2 * b.y1 < p.y /\ p.y < 2 * b.y2
    IN Encloses(Corners(b), p) = inside /\ Encloses(Reverse(Corners(b)), p) = inside

(* A person covers an item when 3/10 of the pixels of the item are his          *)
(* (engine.py:267).                                                             *)
ASSUME OverlapCountsPixels ==
  LET pixels(b) == (b.x1..b.x2 - 1) \X (b.y1..b.y2 - 1)
  IN \A a \in Boxes, b \in Boxes :
       Overlaps(a, b) = (10 * Cardinality(pixels(a) \cap pixels(b)) >= 3 * Cardinality(pixels(b)))

Hands == {At(x, y) : x \in {0, 60}, y \in {0, 75, 100, 125}}
Body == [left_hip |-> At(0, 100), right_hip |-> At(60, 100), left_shoulder |-> At(0, 50), right_shoulder |-> At(60, 50)]
SomePoses ==
  UNION {{[j \in J \cup W |-> IF j \in J THEN Body[j] ELSE hand[j]] : hand \in [W -> Hands]} :
           J \in SUBSET DOMAIN Body, W \in SUBSET {"left_wrist", "right_wrist"}}

(* Something is hidden just when hips are seen and a wrist is within reach of   *)
(* their middle (fsm.py:76).                                                    *)
ASSUME HidesWithinReach ==
  \A pose \in SomePoses :
    LET hips == {j \in {"left_hip", "right_hip"} : j \in DOMAIN pose}
        wrists == {j \in {"left_wrist", "right_wrist"} : j \in DOMAIN pose}
        x2 == IF Cardinality(hips) = 2 THEN 60 ELSE IF "left_hip" \in hips THEN 0 ELSE 120
    IN (ClassifyConcealment(pose, 40) # "NONE")
       = (hips # {} /\ \E w \in wrists : Within(At(2 * pose[w].x, 2 * pose[w].y), At(x2, 200), 40))

Side == [left_wrist |-> "right_wrist", right_wrist |-> "left_wrist", left_hip |-> "right_hip",
         right_hip |-> "left_hip", left_shoulder |-> "right_shoulder", right_shoulder |-> "left_shoulder"]

(* Which hand is the left one matters only between hoodie and shirt: the left   *)
(* wrist is looked at first, also when the right one is at the hips (fsm.py:83). *)
ASSUME HandsMatterForTheTorso ==
  \A pose \in SomePoses :
    LET mirrored == [j \in {Side[i] : i \in DOMAIN pose} |-> pose[Side[j]]]
        a == ClassifyConcealment(pose, 40)
        b == ClassifyConcealment(mirrored, 40)
    IN a = b \/ {a, b} = {"HAND_TO_SHIRT", "HAND_TO_HOODIE"}

SomeShots == {<<>>, p1 :> BoxAt(0, 0, 2, 2), p1 :> BoxAt(0, 0, 2, 2) @@ "other" :> BoxAt(1, 0, 3, 2),
              p1 :> BoxAt(0, 0, 2, 2) @@ "other" :> BoxAt(0, 0, 2, 3)}
SomeFilms == {[i \in DOMAIN shots |-> [seq |-> 2 * i, boxes |-> shots[i]]] : shots \in UNION {[1..n -> SomeShots] : n \in 0..4}}

(* A track is taken for hidden when it was in its last frame, or when the frame *)
(* before the newest one is DisappearFrames numbers behind it (occlusion.py:51). *)
ASSUME OccludedSinceLastShown ==
  \A film \in SomeFilms :
    LET showing == {i \in DOMAIN film : p1 \in DOMAIN film[i].boxes}
        last == CHOOSE i \in showing : \A j \in showing : j <= i
        boxes == film[last].boxes
    IN IsOccluded(film, p1)
       = (showing # {} /\ (film[Len(film)].seq - film[last].seq >= DisappearFrames
                           \/ \E u \in DOMAIN boxes \ {p1} : Occludes(boxes[p1], boxes[u])))

(* However often they come, speed spikes and one other kind of event do not     *)
(* make a track valid; two kinds do (cross_signal.py:5).                        *)
ASSUME RepeatsDoNotValidate ==
  \A kinds \in UNION {[1..n -> {"SPEED_SPIKE", "SHELF_INTERACTION", "ITEM_PICKUP"}] : n \in 0..4} :
    CrossValidated(kinds, 2) = ({"SHELF_INTERACTION", "ITEM_PICKUP"} \subseteq ToSet(kinds))

(* Whatever the scene, the threshold in use stays between 0.50 and 0.85         *)
(* (context.py:64).                                                             *)
ASSUME ThresholdStaysInRange ==
  \A hour \in 0..23, count \in {0, 5, 6}, zone \in DOMAIN ZoneDelta \cup {"aisle"}, base \in 40..95 :
    base + ThresholdDelta(hour, count, zone, base) \in 50..85
====
