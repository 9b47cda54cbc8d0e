---- MODULE Behavior ----
(* The behavior service for one camera, reading what Association publishes and  *)
(* the detections: the loop of services/behavior/main.py with the confirmation  *)
(* buffer (confirmation.py) and TheftRiskFSM (fsm.py) inlined, since neither    *)
(* awaits. Scores are in halves, so that the weights are whole numbers.         *)
EXTENDS Association

CONSTANTS
  Confirmations,   \* settings.signal_confirmation_frames
  ConfirmAge,      \* settings.signal_confirmation_age_ms
  ConcealWindow,   \* settings.conceal_window_sec
  TrackMemory,     \* 10 s
  BehaviorSpikeGap,\* 3 s
  BufferAge,       \* 2 s: association events kept while no detection comes
  Decay,           \* settings.fsm_decay_rate per unit of time
  Trigger,         \* settings.fsm_shopformer_trigger_score
  EventBatch, FrameBatch   \* counts of the two XREADGROUPs

ASSUME BehaviorAssumption ==
  /\ {Confirmations, EventBatch, FrameBatch} \subseteq Nat \ {0}
  /\ {ConfirmAge, ConcealWindow, TrackMemory, BehaviorSpikeGap, BufferAge, Decay, Trigger} \subseteq Nat
  /\ BehaviorSpikeGap < Start

Stages == {"BROWSING", "SHELF_INTERACTION", "ITEM_PICKED", "CONCEALMENT", "HIGH_RISK_EXIT"}
TrackContext == [stage: Stages, score: Nat, pick: Nat, conceal: Nat, spike: Nat, shelf: Nat, last: Nat]
BehaviorEvent == [track: Tracks, stage: Stages, conceal: Concealments, suspicious: BOOLEAN, t: Nat]

VARIABLES
  behPc,         \* what the loop reads next: "events" or "frames"; "dead": its task has ended
  frameBatch,    \* frames delivered and not handled yet
  assocBuffer,   \* assoc_buffer of the camera
  latest,        \* latest_event_ts of the camera, 0 if none
  buffers,       \* per track and kind: SignalConfirmationBuffer._bufs and _last_ts
  tracks,        \* TheftRiskFSM._tracks
  reports,       \* behavior events of the frame in hand, still to be published
  heard,         \* history, per track and kind: times of the frames its events were used in
  confirmed,     \* history, per track: kinds confirmed in the frame handled last
  reported       \* history, per track: time of its last event published

behaviorVars == <<behPc, frameBatch, assocBuffer, latest, buffers, tracks, reports, heard, confirmed, reported>>

Majority == (Confirmations + 1) \div 2

BehaviorInit ==
  /\ behPc = "events" /\ frameBatch = <<>> /\ assocBuffer = <<>> /\ latest = 0
  /\ buffers = [p \in Tracks |-> [k \in AssocKinds |-> [votes |-> <<>>, last |-> 0]]]
  /\ tracks = <<>> /\ reports = <<>>
  /\ heard = [p \in Tracks |-> [k \in AssocKinds |-> <<>>]]
  /\ confirmed = [p \in Tracks |-> {}]
  /\ reported = [p \in Tracks |-> 0]

\* Mutant: read on until no event is left.
DrainEvents ==
  /\ behPc = "events" /\ frameBatch = <<>> /\ reports = <<>> /\ associations # <<>>
  /\ assocBuffer' = assocBuffer \o FirstOf(EventBatch, associations)
  /\ associations' = After(EventBatch, associations)
  /\ UNCHANGED <<behPc, faults, detections, frameBatch, latest, buffers, tracks, reports, heard, confirmed, reported>>
(* block=0: the read waits until there is an association event. *)
ReadEvents ==
  /\ behPc = "events" /\ frameBatch = <<>> /\ reports = <<>> /\ associations # <<>>
  /\ assocBuffer' = assocBuffer \o FirstOf(EventBatch, associations)
  /\ associations' = After(EventBatch, associations)
  /\ behPc' = "frames"
  /\ UNCHANGED <<faults, detections, frameBatch, latest, buffers, tracks, reports, heard, confirmed, reported>>

\* Mutant: the batch is taken newest first.
ReadFramesReversed ==
  /\ behPc = "frames" /\ detections["behavior"] # <<>>
  /\ frameBatch' = LET s == FirstOf(FrameBatch, detections["behavior"]) IN [i \in DOMAIN s |-> s[Len(s) + 1 - i]]
  /\ detections' = [detections EXCEPT !["behavior"] = After(FrameBatch, @)]
  /\ behPc' = "events"
  /\ UNCHANGED <<faults, associations, assocBuffer, latest, buffers, tracks, reports, heard, confirmed, reported>>
ReadFrames ==
  /\ behPc = "frames" /\ detections["behavior"] # <<>>
  /\ frameBatch' = FirstOf(FrameBatch, detections["behavior"])
  /\ detections' = [detections EXCEPT !["behavior"] = After(FrameBatch, @)]
  /\ behPc' = "events"
  /\ UNCHANGED <<faults, associations, assocBuffer, latest, buffers, tracks, reports, heard, confirmed, reported>>

(* The read times out: old events leave the buffer. *)
NoFrames ==
  /\ behPc = "frames" /\ detections["behavior"] = <<>>
  /\ assocBuffer' = IF latest = 0 THEN assocBuffer
                    ELSE Selected(assocBuffer, {e \in AssocEvent : latest - e.t < BufferAge})
  /\ behPc' = "events"
  /\ UNCHANGED <<faults, associations, detections, frameBatch, latest, buffers, tracks, reports, heard, confirmed, reported>>

(* SignalConfirmationBuffer.filter *)
OfKind(p, k) == Selected(assocBuffer, {e \in AssocEvent : e.track = p /\ e.kind = k})
Votes(n) == [i \in 1..n |-> TRUE]
Ayes(votes) == Cardinality({i \in DOMAIN votes : votes[i]})

\* Mutant: the buffer is not cleared after a gap.
BaseNotCleared(b, t) == b.votes
Base(b, t) == IF b.last > 0 /\ t - b.last > ConfirmAge THEN <<>> ELSE b.votes

AfterVotes(b, n, t) == Newest(Confirmations, Base(b, t) \o Votes(n))

\* The i-th event of its kind in this frame passes.
Passes(b, i, t) == Confirmations = 1 \/ Ayes(AfterVotes(b, i, t)) >= Majority

Confirmed(p, k, t) == {i \in DOMAIN OfKind(p, k) : Passes(buffers[p][k], i, t)}

BuffersAfter(t) ==
  [p \in Tracks |-> [k \in AssocKinds |->
    LET b == buffers[p][k]  n == Len(OfKind(p, k))
    IN IF Confirmations = 1 THEN b
       ELSE IF n > 0 THEN [votes |-> AfterVotes(b, n, t), last |-> t]
       ELSE IF b.last > 0 /\ t - b.last <= ConfirmAge THEN [b EXCEPT !.votes = Newest(Confirmations, Append(@, FALSE))]
       ELSE b]]

(* TheftRiskFSM.process *)
HideWeight == [HAND_TO_POCKET |-> 8, HAND_TO_PANTS |-> 9, HAND_TO_SHIRT |-> 7, HAND_TO_HOODIE |-> 8, NONE |-> 0]

Context(p, t) ==
  IF p \in DOMAIN tracks THEN tracks[p]
  ELSE [stage |-> "BROWSING", score |-> 0, pick |-> 0, conceal |-> 0, spike |-> 0, shelf |-> 0, last |-> t]

Has(p, k, t) == Confirmed(p, k, t) # {}
Exits(p, t) == Cardinality({i \in Confirmed(p, "ZONE_EXIT", t) : OfKind(p, "ZONE_EXIT")[i].zone = "exit_zone"})

PickTime(c, p, t) == IF Has(p, "ITEM_PICKUP", t) THEN t ELSE c.pick

\* Mutant: any concealing pose counts.
HidesAnyTime(c, p, look, t) == look.hides # "NONE"
Hides(c, p, look, t) == look.hides # "NONE" /\ PickTime(c, p, t) > 0 /\ t - PickTime(c, p, t) <= ConcealWindow

ConcealTime(c, p, look, t) == IF Hides(c, p, look, t) THEN t ELSE c.conceal
Leaves(c, p, look, t) == Exits(p, t) > 0 /\ ConcealTime(c, p, look, t) > 0
Runs(c, p, t) == Has(p, "SPEED_SPIKE", t) /\ t - c.spike > BehaviorSpikeGap

Gain(c, p, look, t) ==
  (IF ~Has(p, "SHELF_INTERACTION", t) THEN 0 ELSE IF c.shelf = 0 THEN 4 ELSE 8)
  + (IF Has(p, "ITEM_PICKUP", t) THEN 8 ELSE 0)
  + (IF Hides(c, p, look, t) THEN HideWeight[look.hides] ELSE 0)
  + (IF Leaves(c, p, look, t) THEN 12 * Exits(p, t) ELSE 0)
  + (IF Runs(c, p, t) THEN 3 ELSE 0)

Stage(c, p, look, t) ==
  IF Leaves(c, p, look, t) THEN "HIGH_RISK_EXIT"
  ELSE IF Hides(c, p, look, t) THEN "CONCEALMENT"
  ELSE IF Has(p, "ITEM_PICKUP", t) THEN "ITEM_PICKED"
  ELSE IF Has(p, "SHELF_INTERACTION", t) THEN "SHELF_INTERACTION" ELSE c.stage

Decayed(c, t) == IF c.score > Decay * (t - c.last) THEN c.score - Decay * (t - c.last) ELSE 0

Update(c, p, look, t) ==
  [stage |-> Stage(c, p, look, t),
   score |-> Decayed(c, t) + Gain(c, p, look, t),
   pick |-> PickTime(c, p, t), conceal |-> ConcealTime(c, p, look, t),
   spike |-> IF Runs(c, p, t) THEN t ELSE c.spike,
   shelf |-> c.shelf + (IF Has(p, "SHELF_INTERACTION", t) THEN 1 ELSE 0), last |-> t]

Report(p, old, new, look, t) ==
  [track |-> p, stage |-> new.stage, conceal |-> IF Hides(old, p, look, t) THEN look.hides ELSE "NONE",
   suspicious |-> new.score >= Trigger, t |-> t]

Lost(f) == {p \in DOMAIN tracks \ Seen(f) : f.t - tracks[p].last > TrackMemory}

HandleFrame ==
  /\ frameBatch # <<>> /\ reports = <<>>
  /\ LET f == Head(frameBatch)
         next(p) == Update(Context(p, f.t), p, LookIn(f, p), f.t)
     IN /\ tracks' = [p \in (DOMAIN tracks \ Lost(f)) \cup Seen(f) |-> IF p \in Seen(f) THEN next(p) ELSE tracks[p]]
        /\ reports' = [i \in DOMAIN f.people |->
                        LET p == f.people[i].track IN Report(p, Context(p, f.t), next(p), f.people[i].look, f.t)]
        /\ buffers' = BuffersAfter(f.t)
        /\ latest' = IF f.t > latest THEN f.t ELSE latest
        /\ heard' = [p \in Tracks |-> [k \in AssocKinds |->
                       heard[p][k] \o [i \in DOMAIN OfKind(p, k) |-> f.t]]]
        /\ confirmed' = [p \in Tracks |-> {k \in AssocKinds : Has(p, k, f.t)}]
  /\ assocBuffer' = <<>>
  /\ frameBatch' = Tail(frameBatch)
  /\ UNCHANGED <<faults, associations, detections, behPc, reported>>

PublishBehavior ==
  /\ reports # <<>>
  /\ reported' = [reported EXCEPT ![Head(reports).track] = Head(reports).t]
  /\ reports' = Tail(reports)
  /\ UNCHANGED <<faults, associations, detections, behPc, frameBatch, assocBuffer, latest, buffers, tracks, heard, confirmed>>

(* XADD raises: the frame is acknowledged, its other events are lost. *)
PublishBehaviorFails ==
  /\ reports # <<>> /\ faults < MaxFaults
  /\ faults' = faults + 1 /\ reports' = <<>>
  /\ UNCHANGED <<associations, detections, behPc, frameBatch, assocBuffer, latest, buffers, tracks, heard, confirmed, reported>>

(* The process stops and is started again, or a read (58, 73) or the second     *)
(* acknowledgement of an entry (115) raises: the task of run ends for good, and *)
(* the process lives on.                                                        *)
StopBehavior ==
  /\ faults < MaxFaults
  /\ faults' = faults + 1
  /\ behPc' \in {"events", "dead"} /\ frameBatch' = <<>> /\ assocBuffer' = <<>> /\ latest' = 0
  /\ buffers' = [p \in Tracks |-> [k \in AssocKinds |-> [votes |-> <<>>, last |-> 0]]]
  /\ tracks' = <<>> /\ reports' = <<>>
  /\ confirmed' = [p \in Tracks |-> {}]
  /\ UNCHANGED <<associations, detections, heard, reported>>

BehaviorLoop == ReadEvents \/ ReadFrames \/ NoFrames \/ HandleFrame \/ PublishBehavior
BehaviorStep == BehaviorLoop \/ PublishBehaviorFails \/ StopBehavior

(* The two services and the stream between them. *)
assocOwn == <<assocBatch, persons, lastItems, outbox, sightings, shown, told, pickups>>
trackingVars == <<assocVars, behaviorVars>>

TrackingInit == AssocInit /\ BehaviorInit
TrackingNext ==
  \/ PublishDetection /\ UNCHANGED behaviorVars
  \/ AssociationStep /\ UNCHANGED behaviorVars
  \/ BehaviorStep /\ UNCHANGED <<frames, frameTime, assocOwn>>
TrackingSpec == TrackingInit /\ [][TrackingNext]_trackingVars

(* The loop of the behavior service takes its next step whenever Redis lets it. *)
(* Nothing is assumed of cameras, of the association service and of faults.     *)
TrackingFairness == WF_trackingVars(BehaviorLoop /\ UNCHANGED <<frames, frameTime, assocOwn>>)

(* Types of the two services' state and of the streams between them, which keep *)
(* no more than their maxlen (association/main.py:63).                          *)
TrackingTypeOK ==
  /\ AssocTypes
  /\ behPc \in {"events", "frames", "dead"}
  /\ frameBatch \in Seq(Frame) /\ assocBuffer \in Seq(AssocEvent) /\ latest \in Nat
  /\ \A p \in Tracks, k \in AssocKinds :
       buffers[p][k].votes \in Seq(BOOLEAN) /\ Len(buffers[p][k].votes) <= Confirmations /\ buffers[p][k].last \in Nat
  /\ DOMAIN tracks \subseteq Tracks /\ \A p \in DOMAIN tracks : tracks[p] \in TrackContext
  /\ reports \in Seq(BehaviorEvent)

(* A confirmed signal rests on at least Majority events of its track and kind,  *)
(* used within one age of each other: votes of an older gesture do not carry    *)
(* over (confirmation.py:75). They may be events of one frame: see FramesAgree. *)
ConfirmedHasSupport ==
  Confirmations > 1 =>
    \A p \in Tracks : \A k \in confirmed[p] :
      LET h == heard[p][k]
      IN Len(h) >= Majority /\ h[Len(h)] - h[Len(h) - Majority + 1] <= (Majority - 1) * ConfirmAge

(* "2 of 3 frames must agree" (confirmation.py:5): a signal is confirmed once   *)
(* events of at least Majority frames were used.                                *)
FramesAgree ==
  \A p \in Tracks : \A k \in confirmed[p] :
    LET h == heard[p][k] IN Cardinality({h[i] : i \in DOMAIN h}) >= Majority

(* Nobody is reported to hide an item, or to leave with one, unless the         *)
(* association service has published enough pickups of him (fsm.py:245).        *)
AccusedOfPickups ==
  \A i \in DOMAIN reports :
    reports[i].stage \in {"CONCEALMENT", "HIGH_RISK_EXIT"} => pickups[reports[i].track] >= Majority

(* Behavior events of a track are published in the order of their frames, none  *)
(* twice, through batches, failures and restarts: what RiskConsumer takes for   *)
(* granted of its input (behavior/main.py:107).                                 *)
ReportsInOrder ==
  [][\A p \in Tracks : reports # <<>> /\ Head(reports).track = p /\ reports' = Tail(reports) /\ faults' = faults
       => Head(reports).t > reported[p]]_trackingVars

(* Once faults have ended and unless one has ended the task, an association     *)
(* event that waits gets the loop on to the frames that wait; without one it    *)
(* may not, as the first read blocks (behavior/main.py:60).                     *)
FramesServedAfterEvents ==
  (faults = MaxFaults /\ behPc # "dead" /\ associations # <<>> /\ detections["behavior"] # <<>>) ~> frameBatch # <<>>

(* Somebody who hid an item is noticed when he leaves through the exit zone:    *)
(* "Exit zone after concealment - highest weight signal".                       *)
ExitIsNoticed ==
  [][\A p \in DOMAIN tracks :
       /\ HandleFrame /\ p \in Seen(Head(frameBatch))
       /\ tracks[p].conceal > 0
       /\ \E i \in DOMAIN assocBuffer : assocBuffer[i].track = p /\ assocBuffer[i].kind = "ZONE_EXIT" /\ assocBuffer[i].zone = "exit_zone"
       => tracks'[p].stage = "HIGH_RISK_EXIT"]_trackingVars
====
