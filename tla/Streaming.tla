---- MODULE Streaming ----
(* MJPEG streaming of one camera: the broadcaster (streaming/broadcaster.py)    *)
(* and the generators of its viewers (streaming/router.py). A frame is its      *)
(* number; that a read of the ring may be torn is in FrameRing.                 *)
EXTENDS Integers, Sequences, FiniteSets

CONSTANTS
  Viewers,
  ViewerQueue,   \* maxsize of a viewer's queue: 2
  RingSlots,     \* settings.shm_num_slots
  MaxPictures    \* bound: frames written to the ring

ASSUME StreamingAssumption == ViewerQueue \in Nat \ {0} /\ RingSlots \in Nat /\ MaxPictures \in Nat

VARIABLES
  written,     \* newest frame in the ring
  notices,     \* notifications the subscription has not delivered
  notified,    \* newest frame notified
  inHand,      \* frame being encoded, or 0
  queues,      \* CameraStreamState.queues: viewers in the order they came
  pending,     \* per viewer: his queue
  watching,    \* viewers whose generator runs
  streaming,   \* the producer runs ("on"), has ended by an exception ("dead") or was stopped ("off")
  screen,      \* per viewer: what he sees; 0 is the placeholder
  seen,        \* history, per viewer: newest frame shown
  sent         \* history, per viewer: newest frame put into his queue

streamingVars == <<written, notices, notified, inHand, queues, pending, watching, streaming, screen, seen, sent>>

StreamingInit ==
  /\ written = 0 /\ notices = <<>> /\ notified = 0 /\ inHand = 0
  /\ queues = <<>> /\ pending = [v \in Viewers |-> <<>>] /\ watching = {} /\ streaming = "on"
  /\ screen = [v \in Viewers |-> 0] /\ seen = [v \in Viewers |-> 0] /\ sent = [v \in Viewers |-> 0]

viewerVars == <<queues, pending, watching, screen, seen, sent>>

WritePicture ==
  /\ written < MaxPictures
  /\ written' = written + 1
  /\ UNCHANGED <<notices, notified, inHand, viewerVars, streaming>>

(* inference notifies, in order, of the frames it did not drop. *)
NotifyPicture(n) ==
  /\ n \in notified + 1..written
  /\ notified' = n /\ notices' = Append(notices, n)
  /\ UNCHANGED <<written, inHand, viewerVars, streaming>>

(* _producer, up to the await of the overlay. *)
TakeNotice ==
  /\ notices # <<>> /\ inHand = 0
  /\ notices' = Tail(notices)
  /\ inHand' = IF queues = <<>> \/ written >= Head(notices) + RingSlots THEN 0 ELSE Head(notices)
  /\ UNCHANGED <<written, notified, viewerVars, streaming>>

(* The overlay cannot be read, or encoding raises. *)
EncodeFails ==
  /\ inHand # 0
  /\ inHand' = 0
  /\ UNCHANGED <<written, notices, notified, viewerVars, streaming>>

\* Mutant: a full queue refuses the frame.
OfferPicture(q, n) == IF Len(q) >= ViewerQueue THEN q ELSE Append(q, n)
PutPicture(q, n) == Append(IF Len(q) >= ViewerQueue THEN Tail(q) ELSE q, n)

Listening == {queues[i] : i \in DOMAIN queues}

FanOut ==
  /\ inHand # 0
  /\ pending' = [v \in Viewers |-> IF v \in Listening THEN PutPicture(pending[v], inHand) ELSE pending[v]]
  /\ sent' = [v \in Viewers |-> IF v \in Listening THEN inHand ELSE sent[v]]
  /\ inHand' = 0
  /\ UNCHANGED <<written, notices, notified, queues, watching, streaming, screen, seen>>

(* _frame_generator *)
Watch(v) ==
  /\ v \notin watching
  /\ watching' = watching \cup {v} /\ queues' = Append(queues, v)
  /\ pending' = [pending EXCEPT ![v] = <<>>]
  /\ screen' = [screen EXCEPT ![v] = 0] /\ seen' = [seen EXCEPT ![v] = 0] /\ sent' = [sent EXCEPT ![v] = 0]
  /\ UNCHANGED <<written, notices, notified, inHand, streaming>>

ShowNext(v) ==
  /\ v \in watching /\ pending[v] # <<>>
  /\ screen' = [screen EXCEPT ![v] = Head(pending[v])]
  /\ seen' = [seen EXCEPT ![v] = Head(pending[v])]
  /\ pending' = [pending EXCEPT ![v] = Tail(@)]
  /\ UNCHANGED <<written, notices, notified, inHand, queues, watching, streaming, sent>>

ShowPlaceholder(v) ==
  /\ v \in watching /\ pending[v] = <<>>
  /\ screen' = [screen EXCEPT ![v] = 0]
  /\ UNCHANGED <<written, notices, notified, inHand, queues, pending, watching, streaming, seen, sent>>

StopWatching(v) ==
  /\ v \in watching
  /\ watching' = watching \ {v}
  /\ queues' = SelectSeq(queues, LAMBDA w : w # v)
  /\ UNCHANGED <<written, notices, notified, inHand, pending, streaming, screen, seen, sent>>

(* The subscription raises while the producer waits for a notice: the           *)
(* task ends and nothing starts it again; viewers still come and wait.          *)
ProducerDies ==
  /\ inHand = 0
  /\ streaming' = "dead"
  /\ UNCHANGED <<written, inHand, notices, notified, viewerVars>>

(* stop: the producer is cancelled; the generators keep the queues they hold. *)
StopStreaming ==
  /\ streaming' = "off" /\ inHand' = 0 /\ queues' = <<>>
  /\ UNCHANGED <<written, notices, notified, pending, watching, screen, seen, sent>>

StreamingNext ==
  \/ WritePicture \/ \E n \in 1..MaxPictures : NotifyPicture(n)
  \/ streaming = "on" /\ (TakeNotice \/ EncodeFails \/ FanOut \/ ProducerDies)
  \/ streaming # "off" /\ StopStreaming
  \/ \E v \in Viewers : (streaming # "off" /\ Watch(v)) \/ ShowNext(v) \/ ShowPlaceholder(v) \/ StopWatching(v)
StreamingSpec == StreamingInit /\ [][StreamingNext]_streamingVars

(* However slow a viewer is, what he is going to see moves forward only, never  *)
(* shows a frame twice, and ends with the newest one sent: a full queue gives up *)
(* old frames, never the newest (broadcaster.py:146).                           *)
ViewerIsCurrent ==
  \A v \in watching :
    LET rest == <<seen[v]>> \o pending[v]
    IN /\ \A i, j \in DOMAIN rest : i < j => rest[i] < rest[j]
       /\ rest[Len(rest)] = sent[v]
====
