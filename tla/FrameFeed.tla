---- MODULE FrameFeed ----
(***************************************************************************)
(* What one camera's path from mediabridge to inference promises of what   *)
(* it hands to the detector: a pointer and a picture in two halves.        *)
(*                                                                         *)
(* Pointers come in capture order, each at most once; any may be dropped.  *)
(* The picture need not be the pointer's: each half is of the frame it was *)
(* made for or of the frame one lap of the ring later, and no more is      *)
(* promised of their agreement.  Once mediabridge has been started again,  *)
(* a half may be of any frame captured so far.                             *)
(***************************************************************************)
EXTENDS Naturals

CONSTANT Lap   \* frames in the ring

VARIABLES
  captured,   \* number of frames the camera thread has taken from its source
  starts,     \* how many times mediabridge has been started
  delivered   \* last frame handed over: its pointer's number and its two halves, 0 = none

feedVars == <<captured, starts, delivered>>

Init ==
  /\ captured = 0 /\ starts = 0
  /\ delivered = [frame |-> 0, first |-> 0, second |-> 0]

Start ==
  /\ starts' = starts + 1
  /\ UNCHANGED <<captured, delivered>>

Capture ==
  /\ captured' = captured + 1
  /\ UNCHANGED <<starts, delivered>>

Picture(n) == IF starts > 1 THEN 1..captured ELSE {n, n + Lap} \cap 1..captured

Deliver ==
  /\ \E n \in (delivered.frame + 1)..captured :
       delivered' \in [frame : {n}, first : Picture(n), second : Picture(n)]
  /\ UNCHANGED <<captured, starts>>

Next == Start \/ Capture \/ Deliver

Spec == Init /\ [][Next]_feedVars
====
