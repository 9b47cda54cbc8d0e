---- MODULE Geometry ----
(* How the association engine (engine.py) and the behavior service (fsm.py) read *)
(* boxes and poses, in whole pixels. A point that may be the middle of two others *)
(* is doubled, so that it is whole. A pose is a function on the joints whose     *)
(* confidence reaches settings.keypoint_confidence_min.                          *)
EXTENDS Integers, Sequences, FiniteSets, Selection

Joints == {"left_shoulder", "right_shoulder", "left_wrist", "right_wrist", "left_hip", "right_hip"}
Point == [x: Int, y: Int]
Box == [x1: Int, y1: Int, x2: Int, y2: Int]
IsPose(f) == DOMAIN f \subseteq Joints /\ \A j \in DOMAIN f : f[j] \in Point

(* BBox.cx, cy (doubled), width, height *)
Centre(b) == [x |-> b.x1 + b.x2, y |-> b.y1 + b.y2]
Area(b) == (b.x2 - b.x1) * (b.y2 - b.y1)
Doubled(p) == [x |-> 2 * p.x, y |-> 2 * p.y]

(* Two doubled points lie within r pixels. *)
Within(p, q, r) == (p.x - q.x) * (p.x - q.x) + (p.y - q.y) * (p.y - q.y) <= 4 * r * r

(* Polygon.contains of shapely for a convex polygon, as those of                *)
(* config/zones.sample.json are: the point is strictly on one side of all edges. *)
Encloses(polygon, p) ==
  LET a(i) == Doubled(polygon[i])
      b(i) == Doubled(polygon[(i % Len(polygon)) + 1])
      side(i) == (b(i).x - a(i).x) * (p.y - a(i).y) - (b(i).y - a(i).y) * (p.x - a(i).x)
  IN \/ \A i \in DOMAIN polygon : side(i) > 0
     \/ \A i \in DOMAIN polygon : side(i) < 0

NearPixels == 80
NearBox(b, item) == Within(Centre(b), Centre(item), NearPixels)

(* _bbox_overlap: at least 3/10 of the item lies inside the person. *)
Common(a, b) ==
  LET most(m, n) == IF m > n THEN m ELSE n
      least(m, n) == IF m < n THEN m ELSE n
  IN [x1 |-> most(a.x1, b.x1), y1 |-> most(a.y1, b.y1), x2 |-> least(a.x2, b.x2), y2 |-> least(a.y2, b.y2)]
Overlaps(person, item) ==
  LET c == Common(person, item)
  IN c.x1 < c.x2 /\ c.y1 < c.y2 /\ 10 * Area(c) >= 3 * Area(item)

(* _midpoint of a left and a right joint (doubled), of the one that is seen, or *)
(* <<>> for None.                                                               *)
Middle(pose, left, right) ==
  LET seen == {left, right} \cap DOMAIN pose
      one == CHOOSE j \in seen : TRUE
  IN IF seen = {} THEN <<>>
     ELSE IF Cardinality(seen) = 1 THEN Doubled(pose[one])
     ELSE [x |-> pose[left].x + pose[right].x, y |-> pose[left].y + pose[right].y]

(* classify_concealment; y grows downward, and 20 pixels are 40 here. *)
ClassifyConcealment(pose, handToHip) ==
  LET hips == Middle(pose, "left_hip", "right_hip")
      shoulders == Middle(pose, "left_shoulder", "right_shoulder")
      wrists == Selected(<<"left_wrist", "right_wrist">>, DOMAIN pose)
      at(j) == Doubled(pose[j])
      raised == Selected(wrists, {j \in DOMAIN pose : at(j).y < shoulders.y \/ at(j).y < hips.y - 40})
  IN IF hips = <<>> \/ ~\E i \in DOMAIN wrists : Within(at(wrists[i]), hips, handToHip) THEN "NONE"
     ELSE IF shoulders # <<>> /\ raised # <<>>
     THEN IF at(Head(raised)).y < shoulders.y THEN "HAND_TO_HOODIE" ELSE "HAND_TO_SHIRT"
     ELSE IF \E i \in DOMAIN wrists : at(wrists[i]).y > hips.y + 40 THEN "HAND_TO_PANTS" ELSE "HAND_TO_POCKET"
====
