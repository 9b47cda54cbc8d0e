---- MODULE Association ----
(* The association service for one camera: the consumer of netra:detection     *)
(* (services/association/main.py) with AssociationEngine (engine.py) inlined,  *)
(* since process_frame has no await. Scenes are boxes and poses, read as in     *)
(* Geometry; only whether a speed is a spike is input. Item ids are positions in *)
(* the list of a frame, as the detector numbers them anew in each frame.        *)
EXTENDS Geometry

CONSTANTS
  Tracks,
  ZoneOrder,        \* names of the configured zones, in file order
  ZoneShape,        \* polygon of each zone
  Places,           \* where an item may be detected
  PlaceBox,         \* box of an item at each place
  HandToHip,        \* settings.hand_to_hip_distance_px
  Scenes,           \* what a frame may show
  HandFrames,       \* settings.n_frames_hand_in_shelf
  ItemMemory,       \* 2 s: how long an item stays in the registry
  PickupSpan,       \* 1.5 s: how long a vanished item counts as picked up
  PersonMemory,     \* 5 s
  SpikeGap,         \* 2 s between speed spikes of a person
  SpeedSamples,     \* speeds needed for a baseline (5)
  DetectionMax, AssociationMax,   \* maxlen of the two streams
  DetectionBatch,   \* count of XREADGROUP
  MaxFrames,        \* bound: frames of a behavior
  MaxFaults    \* bound: restarts and failed publications, of both services

Zones == {ZoneOrder[i] : i \in DOMAIN ZoneOrder}
Concealments == {"NONE", "HAND_TO_POCKET", "HAND_TO_PANTS", "HAND_TO_SHIRT", "HAND_TO_HOODIE"}
Look == [zones: SUBSET Zones, near: BOOLEAN, covers: SUBSET Places, fast: BOOLEAN, hides: Concealments]

(* What the detector finds: persons, with the id of their track, items of the   *)
(* retail classes, and other things.                                            *)
IsFound(d) ==
  \/ d.class = "person" /\ d.track \in Tracks /\ d.box \in Box /\ IsPose(d.pose) /\ d.fast \in BOOLEAN
  \/ d.class = "item" /\ d.place \in Places
  \/ d.class = "other"

(* A scene of a frame; the tracker gives each person an id of his own. *)
IsScene(s) ==
  /\ s.gap \in Nat \ {0} /\ s.found \in Seq({s.found[i] : i \in DOMAIN s.found})
  /\ \A i \in DOMAIN s.found : IsFound(s.found[i])
  /\ \A i, j \in DOMAIN s.found :
       s.found[i].class = "person" /\ s.found[j].class = "person" /\ s.found[i].track = s.found[j].track => i = j

ASSUME AssociationAssumption ==
  /\ \A s \in Scenes : IsScene(s)
  /\ ZoneOrder \in Seq(Zones) /\ "none" \notin Zones
  /\ \A i, j \in DOMAIN ZoneOrder : ZoneOrder[i] = ZoneOrder[j] => i = j
  /\ ZoneShape \in [Zones -> Seq(Point)] /\ PlaceBox \in [Places -> Box] /\ HandToHip \in Nat
  /\ {HandFrames, ItemMemory, PickupSpan, PersonMemory, SpikeGap, SpeedSamples, MaxFrames, MaxFaults} \subseteq Nat
  /\ {DetectionMax, AssociationMax, DetectionBatch} \subseteq Nat \ {0}
  /\ PickupSpan <= ItemMemory /\ SpikeGap < 100

AssocKinds == {"SHELF_APPROACH", "SHELF_INTERACTION", "ITEM_PICKUP", "ZONE_ENTER", "ZONE_EXIT", "SPEED_SPIKE"}
AssocEvent == [track: Tracks, kind: AssocKinds, zone: Zones \cup {"none"}, t: Nat]
Frame == [t: Nat, items: Seq(Places), people: Seq([track: Tracks, look: Look])]
PersonState == [zones: SUBSET Zones, near: Nat, speeds: Nat, spike: Nat, last: Nat]

VARIABLES
  frames,        \* number of frames published so far
  frameTime,     \* capture time of the newest
  detections,    \* netra:detection: what each consumer group has not been given
  assocBatch,    \* frames delivered to this service and not handled yet
  persons,       \* AssociationEngine._persons
  lastItems,     \* AssociationEngine._last_items
  outbox,        \* events of the frame in hand, still to be published
  associations,  \* netra:association: not yet given to the behavior service
  faults,
  sightings,     \* history, per track: was it near an item in its frames, since its state was made
  shown,         \* history: times and numbers of items of the frames handled
  told,          \* history, per track and zone: last zone event published; "lost" after a fault
  pickups        \* history, per track: pickups published

assocVars == <<frames, frameTime, detections, assocBatch, persons, lastItems, outbox,
               associations, faults, sightings, shown, told, pickups>>

Services == {"association", "behavior"}
Start == 100   \* long after 0, which stands for "never" in the code

\* Mutant: one entry too many stays.
NewestAndOne(n, s) == IF Len(s) <= n + 1 THEN s ELSE SubSeq(s, Len(s) - n, Len(s))
\* The last n entries: what XADD with maxlen leaves of a stream.
Newest(n, s) == IF Len(s) <= n THEN s ELSE SubSeq(s, Len(s) - n + 1, Len(s))
FirstOf(n, s) == IF Len(s) <= n THEN s ELSE SubSeq(s, 1, n)
After(n, s) == IF Len(s) <= n THEN <<>> ELSE SubSeq(s, n + 1, Len(s))

AssocInit ==
  /\ frames = 0 /\ frameTime = Start
  /\ detections = [g \in Services |-> <<>>]
  /\ assocBatch = <<>> /\ persons = <<>> /\ lastItems = <<>> /\ outbox = <<>>
  /\ associations = <<>>
  /\ faults = 0
  /\ sightings = [p \in Tracks |-> <<>>]
  /\ shown = <<>>
  /\ told = [p \in Tracks |-> [z \in Zones |-> "ZONE_EXIT"]]
  /\ pickups = [p \in Tracks |-> 0]

(* What the two services read from a person in a frame with these items. *)
LookOf(person, items) ==
  [zones |-> {z \in Zones : Encloses(ZoneShape[z], Centre(person.box))},
   near |-> \E i \in DOMAIN items : NearBox(person.box, PlaceBox[items[i]]),
   covers |-> {place \in Places : Overlaps(person.box, PlaceBox[place])},
   fast |-> person.fast,
   hides |-> ClassifyConcealment(person.pose, HandToHip)]

(* _parse_detections: persons and items are told apart by class, the rest is    *)
(* left out.                                                                    *)
Detected(s, t) ==
  LET of(class) == Selected(s.found, {d \in {s.found[i] : i \in DOMAIN s.found} : d.class = class})
      items == [i \in DOMAIN of("item") |-> of("item")[i].place]
  IN [t |-> t, items |-> items,
      people |-> [i \in DOMAIN of("person") |->
                   [track |-> of("person")[i].track, look |-> LookOf(of("person")[i], items)]]]

(* Who is in a frame. *)
Seen(f) == {f.people[i].track : i \in DOMAIN f.people}
LookIn(f, p) == f.people[CHOOSE i \in DOMAIN f.people : f.people[i].track = p].look

(* inference publishes the next frame of the camera. *)
PublishDetection ==
  /\ frames < MaxFrames
  /\ \E s \in Scenes :
       LET f == Detected(s, frameTime + s.gap)
       IN /\ frameTime' = f.t
          /\ detections' = [g \in Services |-> Newest(DetectionMax, Append(detections[g], f))]
  /\ frames' = frames + 1
  /\ UNCHANGED <<assocBatch, persons, lastItems, outbox, associations, faults, sightings, shown, told, pickups>>

ReadDetections ==
  /\ assocBatch = <<>> /\ outbox = <<>> /\ detections["association"] # <<>>
  /\ assocBatch' = FirstOf(DetectionBatch, detections["association"])
  /\ detections' = [detections EXCEPT !["association"] = After(DetectionBatch, @)]
  /\ UNCHANGED <<frames, frameTime, persons, lastItems, outbox, associations, faults, sightings, shown, told, pickups>>

(* process_frame *)
Event(p, k, z, t) == [track |-> p, kind |-> k, zone |-> z, t |-> t]

Ids(f) == 0..Len(f.items) - 1
Vanished(f) == DOMAIN lastItems \ Ids(f)
Known(f) == {i \in Vanished(f) : f.t - lastItems[i].t < ItemMemory} \cup Ids(f)
Registry(f) == [i \in Known(f) |-> IF i \in Ids(f) THEN [place |-> f.items[i + 1], t |-> f.t] ELSE lastItems[i]]
\* Mutant: as long as the item is in the registry.
PickedUpLate(f, look) == {i \in Vanished(f) \cap Known(f) : lastItems[i].place \in look.covers}
PickedUp(f, look) == {i \in Vanished(f) \cap Known(f) : lastItems[i].t > f.t - PickupSpan /\ lastItems[i].place \in look.covers}

StateOf(p) == IF p \in DOMAIN persons THEN persons[p] ELSE [zones |-> {}, near |-> 0, speeds |-> -1, spike |-> 0, last |-> 0]

\* Mutant: the count is not reset.
NearInTotal(st, look) == IF look.near THEN st.near + 1 ELSE st.near
NearFrames(st, look) == IF look.near THEN st.near + 1 ELSE 0
Spike(st, look, t) == look.fast /\ st.speeds + 1 >= SpeedSamples /\ t - st.spike > SpikeGap

\* Mutant: the zones of earlier frames are kept.
ZonesKept(st, look) == st.zones \cup look.zones
ZonesNow(st, look) == look.zones

Updated(st, look, t) ==
  [zones |-> ZonesNow(st, look), near |-> NearFrames(st, look), speeds |-> st.speeds + 1,
   spike |-> IF Spike(st, look, t) THEN t ELSE st.spike, last |-> t]

ZoneEvents(p, st, look, t) ==
  LET crossed == Selected(ZoneOrder, (look.zones \ st.zones) \cup (st.zones \ look.zones))
  IN [i \in DOMAIN crossed |->
       Event(p, IF crossed[i] \in look.zones THEN "ZONE_ENTER" ELSE "ZONE_EXIT", crossed[i], t)]

ShelfEvents(p, st, look, t) ==
  LET n == NearFrames(st, look)
  IN (IF n = 1 THEN <<Event(p, "SHELF_APPROACH", "none", t)>> ELSE <<>>)
     \o (IF n > 0 /\ n >= HandFrames THEN <<Event(p, "SHELF_INTERACTION", "none", t)>> ELSE <<>>)

EventsOf(p, look, f) ==
  LET st == StateOf(p)
  IN ZoneEvents(p, st, look, f.t) \o ShelfEvents(p, st, look, f.t)
     \o [i \in 1..Cardinality(PickedUp(f, look)) |-> Event(p, "ITEM_PICKUP", "none", f.t)]
     \o (IF Spike(st, look, f.t) THEN <<Event(p, "SPEED_SPIKE", "none", f.t)>> ELSE <<>>)

Gone(f) == {p \in DOMAIN persons \ Seen(f) : f.t - persons[p].last > PersonMemory}

ProcessFrame ==
  /\ assocBatch # <<>> /\ outbox = <<>>
  /\ LET f == Head(assocBatch)
     IN /\ outbox' = Joined([i \in DOMAIN f.people |-> EventsOf(f.people[i].track, f.people[i].look, f)])
        /\ persons' = [p \in (DOMAIN persons \ Gone(f)) \cup Seen(f) |->
                         IF p \in Seen(f) THEN Updated(StateOf(p), LookIn(f, p), f.t) ELSE persons[p]]
        /\ lastItems' = Registry(f)
        /\ shown' = Append(shown, [t |-> f.t, items |-> Len(f.items)])
        /\ sightings' = [p \in Tracks |->
                           IF p \in Seen(f) THEN Append(sightings[p], LookIn(f, p).near)
                           ELSE IF p \in Gone(f) THEN <<>> ELSE sightings[p]]
        /\ told' = [p \in Tracks |-> IF p \in Gone(f) THEN [z \in Zones |-> "lost"] ELSE told[p]]
  /\ assocBatch' = Tail(assocBatch)
  /\ UNCHANGED <<frames, frameTime, detections, associations, faults, pickups>>

PublishAssociation ==
  /\ outbox # <<>>
  /\ LET e == Head(outbox)
     IN /\ associations' = Newest(AssociationMax, Append(associations, e))
        /\ told' = IF e.zone = "none" THEN told ELSE [told EXCEPT ![e.track][e.zone] = e.kind]
        /\ pickups' = IF e.kind = "ITEM_PICKUP" THEN [pickups EXCEPT ![e.track] = @ + 1] ELSE pickups
  /\ outbox' = Tail(outbox)
  /\ UNCHANGED <<frames, frameTime, detections, assocBatch, persons, lastItems, faults, sightings, shown>>

(* XADD raises: the entry is acknowledged all the same, its other events are lost. *)
PublishAssociationFails ==
  /\ outbox # <<>> /\ faults < MaxFaults
  /\ outbox' = <<>>
  /\ faults' = faults + 1
  /\ told' = [p \in Tracks |-> [z \in Zones |-> "lost"]]
  /\ UNCHANGED <<frames, frameTime, detections, assocBatch, persons, lastItems, associations, sightings, shown, pickups>>

(* The process stops, at any point, and may be started again; or a read (46) or *)
(* the second acknowledgement of an entry (70) raises and ends the task for     *)
(* good, which is a stop after which it takes no step: nothing obliges it to.   *)
(* What it was given and had not handled stays with the dead consumer: only ">" *)
(* is read.                                                                     *)
RestartAssociation ==
  /\ faults < MaxFaults
  /\ faults' = faults + 1
  /\ assocBatch' = <<>> /\ persons' = <<>> /\ lastItems' = <<>> /\ outbox' = <<>>
  /\ sightings' = [p \in Tracks |-> <<>>]
  /\ told' = [p \in Tracks |-> [z \in Zones |-> "lost"]]
  /\ UNCHANGED <<frames, frameTime, detections, associations, shown, pickups>>

AssociationStep == ReadDetections \/ ProcessFrame \/ PublishAssociation \/ PublishAssociationFails \/ RestartAssociation

(* Types of the association service's state. *)
AssocTypes ==
  /\ detections \in [Services -> Seq(Frame)] /\ assocBatch \in Seq(Frame)
  /\ \A g \in Services : Len(detections[g]) <= DetectionMax
  /\ DOMAIN persons \subseteq Tracks /\ \A p \in DOMAIN persons : persons[p] \in PersonState
  /\ DOMAIN lastItems \subseteq Nat /\ \A i \in DOMAIN lastItems : lastItems[i] \in [place: Places, t: Nat]
  /\ outbox \in Seq(AssocEvent)
  /\ associations \in Seq(AssocEvent) /\ Len(associations) <= AssociationMax

(* Of a person and a zone, enter and exit are published in turn, unless a       *)
(* publication failed, the service was restarted or the person was forgotten in *)
(* between: what the set active_zones is for (engine.py:155).                   *)
ZoneEventsInTurn ==
  \A p \in Tracks, z \in Zones :
    outbox # <<>> /\ Head(outbox).track = p /\ Head(outbox).zone = z => told[p][z] # Head(outbox).kind

(* A shelf interaction is only reported of a person who was near an item in all *)
(* of the last HandFrames frames that showed him (engine.py:180).               *)
InteractionIsSustained ==
  \A i \in DOMAIN outbox : outbox[i].kind = "SHELF_INTERACTION" =>
    LET s == sightings[outbox[i].track]
    IN Len(s) >= HandFrames /\ \A k \in Len(s) - HandFrames + 1..Len(s) : s[k]

(* Ids are positions in a frame, so all a pickup shows is that some frame of the *)
(* last PickupSpan had more items than the one in hand (engine.py:112).          *)
PickupMeansFewerItems ==
  \A i \in DOMAIN outbox : outbox[i].kind = "ITEM_PICKUP" =>
    \E k \in DOMAIN shown : shown[k].t > outbox[i].t - PickupSpan /\ shown[k].items > shown[Len(shown)].items
====
