---- MODULE MCFrameRing ----
(* FrameRing on a ring shorter than the queue, as in the settings (8 < 30). *)
EXTENDS FrameRing
====
