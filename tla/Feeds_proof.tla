---- MODULE Feeds_proof ----
(***************************************************************************)
(* Proofs about the parts that carry frames, poses and events to those who  *)
(* watch: the MJPEG broadcaster, server-sent events, the WebSocket hub and  *)
(* the path of the poses. No bound of a run is assumed.                    *)
(***************************************************************************)
EXTENDS Platform, SeqFacts

(***************************************************************************)
(* The broadcaster. Frames are numbered as they are notified; what is       *)
(* waiting to be shown, in hand and still to be taken is in that order.    *)
(***************************************************************************)
Moving(v) ==
  /\ Increasing(pending[v]) /\ AllAbove(seen[v], pending[v])
  /\ sent[v] = IF pending[v] = <<>> THEN seen[v] ELSE pending[v][Len(pending[v])]

StreamingTypeOK ==
  /\ written \in Nat /\ notified \in Nat /\ inHand \in Nat /\ notices \in Seq(Nat)
  /\ pending \in [Viewers -> Seq(Nat)] /\ screen \in [Viewers -> Nat]
  /\ seen \in [Viewers -> Nat] /\ sent \in [Viewers -> Nat]
  /\ watching \subseteq Viewers

NoticesInOrder ==
  /\ Increasing(notices) /\ AllAbove(inHand, notices) /\ inHand <= notified
  /\ \A i \in DOMAIN notices : notices[i] <= notified
SentBefore ==
  \A v \in Viewers : /\ sent[v] <= notified /\ AllAbove(sent[v], notices)
                     /\ inHand # 0 => sent[v] < inHand

StreamingInv == StreamingTypeOK /\ NoticesInOrder /\ SentBefore /\ \A v \in watching : Moving(v)

(* The last of an increasing sequence is its greatest. *)
LEMMA LastIsGreatest ==
  ASSUME NEW v \in Viewers, StreamingTypeOK, Moving(v)
  PROVE  seen[v] <= sent[v] /\ \A i \in DOMAIN pending[v] : pending[v][i] <= sent[v]
<1> DEFINE q == pending[v]
<1>1. q \in Seq(Nat) /\ DOMAIN q = 1..Len(q) /\ Len(q) \in Nat /\ seen[v] \in Nat /\ sent[v] \in Nat
  BY DEF StreamingTypeOK
<1>2. \A i \in 1..Len(q) : q[i] \in Nat
  BY <1>1
<1>3. Increasing(q) /\ AllAbove(seen[v], q) /\ sent[v] = IF q = <<>> THEN seen[v] ELSE q[Len(q)]
  BY DEF Moving
<1> HIDE DEF q
<1>4. CASE q = <<>>
  <2>1. Len(q) = 0
    BY <1>4, EmptySeq
  <2> QED
    BY <1>1, <1>3, <1>4, <2>1 DEF q
<1>5. CASE q # <<>>
  <2>1. Len(q) \in DOMAIN q
    BY <1>1, <1>5, EmptySeq
  <2>2. sent[v] = q[Len(q)] /\ seen[v] < q[Len(q)]
    BY <1>3, <1>5, <2>1 DEF AllAbove
  <2>3. \A i \in DOMAIN q : i < Len(q) => q[i] < q[Len(q)]
    BY <1>3, <2>1 DEF Increasing
  <2>4. \A i \in DOMAIN q : i = Len(q) \/ i < Len(q)
    BY <1>1
  <2>5. \A i \in DOMAIN q : q[i] <= sent[v]
    BY <1>1, <1>2, <2>2, <2>3, <2>4
  <2> QED
    BY <1>1, <2>2, <2>5 DEF q
<1> QED
  BY <1>4, <1>5

LEMMA MovingShows ==
  ASSUME NEW v \in Viewers, StreamingTypeOK, Moving(v)
  PROVE  LET rest == <<seen[v]>> \o pending[v]
         IN /\ \A i, j \in DOMAIN rest : i < j => rest[i] < rest[j]
            /\ rest[Len(rest)] = sent[v]
<1> DEFINE q == pending[v]
           rest == <<seen[v]>> \o q
<1>1. q \in Seq(Nat) /\ DOMAIN q = 1..Len(q) /\ Len(q) \in Nat /\ <<seen[v]>> \in Seq(Nat) /\ Len(<<seen[v]>>) = 1
  BY DEF StreamingTypeOK
<1>2. Increasing(q) /\ AllAbove(seen[v], q) /\ sent[v] = IF q = <<>> THEN seen[v] ELSE q[Len(q)]
  BY DEF Moving
<1> HIDE DEF q
<1>3. /\ rest \in Seq(Nat) /\ Len(rest) = 1 + Len(q)
      /\ \A i \in 1..1 + Len(q) : rest[i] = IF i <= 1 THEN <<seen[v]>>[i] ELSE q[i - 1]
  BY <1>1, ConcatProperties
<1>4. DOMAIN rest = 1..1 + Len(q)
  BY <1>3
<1>5. rest[1] = seen[v] /\ \A i \in 1..Len(q) : rest[i + 1] = q[i]
  BY <1>1, <1>3
<1> HIDE DEF rest
<1>6. ASSUME NEW i \in DOMAIN rest, NEW j \in DOMAIN rest, i < j PROVE rest[i] < rest[j]
  <2>1. j - 1 \in DOMAIN q /\ rest[j] = q[j - 1]
    BY <1>1, <1>3, <1>4, <1>6
  <2>2. CASE i = 1
    BY <1>2, <1>5, <2>1, <2>2 DEF AllAbove
  <2>3. CASE i # 1
    <3>0. i \in Nat /\ j \in Nat /\ i > 1 /\ i <= 1 + Len(q) /\ i - 1 \in DOMAIN q /\ i - 1 < j - 1
      BY <1>1, <1>4, <1>6, <2>3
    <3>1. rest[i] = q[i - 1]
      BY <1>3, <1>4, <3>0
    <3>2. q[i - 1] < q[j - 1]
      BY <1>2, <2>1, <3>0 DEF Increasing
    <3> QED
      BY <2>1, <3>1, <3>2
  <2> QED
    BY <2>2, <2>3
<1>7. rest[Len(rest)] = sent[v]
  <2>1. CASE q = <<>>
    BY <1>2, <1>3, <1>5, <2>1, EmptySeq
  <2>2. CASE q # <<>>
    BY <1>1, <1>2, <1>3, <1>5, <2>2, EmptySeq
  <2> QED
    BY <2>1, <2>2
<1> QED
  BY <1>6, <1>7 DEF rest, q

(* A full queue gives up its oldest frame and keeps the newest. *)
LEMMA PutKeepsMoving ==
  ASSUME NEW q \in Seq(Nat), NEW n \in Nat, NEW m \in Nat, Increasing(q), AllAbove(m, q), m < n,
         \A i \in DOMAIN q : q[i] < n
  PROVE  /\ PutPicture(q, n) \in Seq(Nat) /\ PutPicture(q, n) # <<>>
         /\ Increasing(PutPicture(q, n)) /\ AllAbove(m, PutPicture(q, n))
         /\ PutPicture(q, n)[Len(PutPicture(q, n))] = n
<1> DEFINE kept == IF Len(q) >= ViewerQueue THEN Tail(q) ELSE q
<1>1. kept \in Seq(Nat) /\ Increasing(kept) /\ AllAbove(m, kept) /\ \A i \in DOMAIN kept : kept[i] < n
  <2>1. CASE Len(q) >= ViewerQueue
    <3>1. q # <<>>
      BY <2>1, StreamingAssumption, EmptySeq
    <3> QED
      BY <2>1, <3>1, IncreasingTail
  <2>2. CASE ~(Len(q) >= ViewerQueue)
    BY <2>2
  <2> QED
    BY <2>1, <2>2
<1> HIDE DEF kept
<1>2. PutPicture(q, n) = Append(kept, n)
  BY DEF PutPicture, kept
<1> QED
  BY <1>1, <1>2, IncreasingAppend

LEMMA StreamingInvInit == StreamingInit => StreamingInv
<1> SUFFICES ASSUME StreamingInit PROVE StreamingInv
  OBVIOUS
<1>1. StreamingTypeOK /\ notices = <<>> /\ watching = {} /\ inHand = 0 /\ notified = 0
  BY DEF StreamingInit, StreamingTypeOK
<1>2. \A v \in Viewers : sent[v] = 0
  BY DEF StreamingInit
<1>3. Increasing(notices) /\ \A m \in Nat : AllAbove(m, notices)
  BY <1>1 DEF Increasing, AllAbove
<1> QED
  BY <1>1, <1>2, <1>3 DEF StreamingInv, NoticesInOrder, SentBefore

(* What a viewer is shown, or that he is shown the placeholder, is his affair.  *)
LEMMA NoticesUntouched ==
  ASSUME StreamingInv, StreamingTypeOK', UNCHANGED <<notices, notified, inHand>>,
         \A v \in Viewers : sent'[v] \in {0, sent[v]},
         \A v \in watching' : Moving(v)'
  PROVE  StreamingInv'
<1>1. \A v \in Viewers : sent'[v] <= notified /\ AllAbove(sent'[v], notices) /\ (inHand # 0 => sent'[v] < inHand)
  <2> SUFFICES ASSUME NEW v \in Viewers
               PROVE  sent'[v] <= notified /\ AllAbove(sent'[v], notices) /\ (inHand # 0 => sent'[v] < inHand)
    OBVIOUS
  <2>1. sent[v] \in Nat /\ notified \in Nat /\ inHand \in Nat /\ \A i \in DOMAIN notices : notices[i] \in Nat
    BY DEF StreamingInv, StreamingTypeOK
  <2> QED
    BY <2>1 DEF StreamingInv, SentBefore, AllAbove
<1> QED
  BY <1>1 DEF StreamingInv, NoticesInOrder, SentBefore

LEMMA StreamingInvStep == StreamingInv /\ [StreamingNext]_streamingVars => StreamingInv'
<1> SUFFICES ASSUME StreamingInv, [StreamingNext]_streamingVars PROVE StreamingInv'
  OBVIOUS
<1>t. StreamingTypeOK /\ NoticesInOrder /\ SentBefore /\ \A v \in watching : Moving(v)
  BY DEF StreamingInv
<1>1. CASE WritePicture
  <2>1. StreamingTypeOK' /\ UNCHANGED <<notices, notified, inHand, watching, pending, seen, sent>>
    BY <1>t, <1>1 DEF StreamingTypeOK, WritePicture, viewerVars
  <2> QED
    BY <1>t, <2>1 DEF StreamingInv, NoticesInOrder, SentBefore, Moving
<1>2. ASSUME NEW n \in 1..MaxPictures, NotifyPicture(n) PROVE StreamingInv'
  <2>1. /\ n \in Nat /\ notified < n /\ notices' = Append(notices, n) /\ notified' = n
        /\ UNCHANGED <<written, inHand, watching, pending, seen, sent, screen>>
    BY <1>t, <1>2 DEF StreamingTypeOK, NotifyPicture, viewerVars
  <2>2. notified \in Nat /\ notices \in Seq(Nat) /\ inHand \in Nat /\ \A i \in DOMAIN notices : notices[i] \in Nat
    BY <1>t DEF StreamingTypeOK
  <2>3. Increasing(notices) /\ \A i \in DOMAIN notices : notices[i] < n
    BY <1>t, <2>1, <2>2 DEF NoticesInOrder
  <2>4. /\ notices' \in Seq(Nat) /\ Increasing(notices') /\ \A i \in DOMAIN notices' : notices'[i] <= n
        /\ \A m \in Int : AllAbove(m, notices) /\ m < n => AllAbove(m, notices')
    BY <2>1, <2>2, <2>3, IncreasingAppend
  <2>5. StreamingTypeOK'
    BY <1>t, <2>1, <2>4 DEF StreamingTypeOK
  <2>6. inHand < n /\ AllAbove(inHand, notices)
    BY <1>t, <2>1, <2>2 DEF NoticesInOrder
  <2>7. NoticesInOrder'
    BY <2>1, <2>2, <2>4, <2>6 DEF NoticesInOrder
  <2>8. \A v \in Viewers : sent[v] \in Nat /\ sent[v] < n /\ AllAbove(sent[v], notices)
    BY <1>t, <2>1, <2>2 DEF SentBefore, StreamingTypeOK
  <2>9. SentBefore'
    BY <1>t, <2>1, <2>4, <2>8 DEF SentBefore
  <2> QED
    BY <1>t, <2>1, <2>5, <2>7, <2>9 DEF StreamingInv, Moving
<1>3. CASE TakeNotice
  <2>1. /\ notices # <<>> /\ inHand = 0 /\ notices' = Tail(notices) /\ inHand' \in {0, Head(notices)}
        /\ UNCHANGED <<written, notified, watching, pending, seen, sent, screen>>
    BY <1>3 DEF TakeNotice, viewerVars
  <2>2. notified \in Nat /\ notices \in Seq(Nat) /\ Increasing(notices)
    BY <1>t DEF StreamingTypeOK, NoticesInOrder
  <2>3. /\ Head(notices) \in Nat /\ notices' \in Seq(Nat) /\ Increasing(notices')
        /\ AllAbove(Head(notices), notices')
        /\ \A m \in Int : AllAbove(m, notices) => m < Head(notices) /\ AllAbove(m, notices')
        /\ \A i \in DOMAIN notices' : \E j \in DOMAIN notices : notices'[i] = notices[j]
    BY <2>1, <2>2, IncreasingTail
  <2>4. StreamingTypeOK'
    BY <1>t, <2>1, <2>3 DEF StreamingTypeOK
  <2>5. Head(notices) <= notified
    BY <1>t, <2>1, <2>2, Head(notices) = notices[1], 1 \in DOMAIN notices DEF NoticesInOrder
  <2>6. AllAbove(inHand', notices') /\ inHand' <= notified
    BY <1>t, <2>1, <2>2, <2>3, <2>5 DEF NoticesInOrder
  <2>7. NoticesInOrder'
    BY <1>t, <2>1, <2>3, <2>6 DEF NoticesInOrder
  <2>8. \A v \in Viewers : sent[v] \in Nat /\ AllAbove(sent[v], notices') /\ sent[v] < Head(notices)
    BY <1>t, <2>3 DEF SentBefore, StreamingTypeOK
  <2>9. SentBefore'
    BY <1>t, <2>1, <2>8 DEF SentBefore
  <2> QED
    BY <1>t, <2>1, <2>4, <2>7, <2>9 DEF StreamingInv, Moving
<1>4. ASSUME inHand' = 0, UNCHANGED <<written, notices, notified, watching, pending, seen, sent, screen>>
      PROVE  StreamingInv'
  <2>1. StreamingTypeOK' /\ NoticesInOrder'
    <3>1. \A i \in DOMAIN notices : inHand < notices[i] => 0 < notices[i]
      BY <1>t DEF StreamingTypeOK
    <3> QED
      BY <1>t, <1>4, <3>1 DEF StreamingTypeOK, NoticesInOrder, AllAbove, Increasing
  <2>2. SentBefore'
    BY <1>t, <1>4 DEF SentBefore
  <2> QED
    BY <1>t, <1>4, <2>1, <2>2 DEF StreamingInv, Moving
<1>5. CASE EncodeFails
  BY <1>4, <1>5 DEF EncodeFails, viewerVars
<1>6. CASE FanOut
  <2>1. /\ inHand \in Nat /\ inHand # 0 /\ inHand' = 0
        /\ UNCHANGED <<written, notices, notified, watching, seen, screen>>
        /\ pending' = [v \in Viewers |-> IF v \in Listening THEN PutPicture(pending[v], inHand) ELSE pending[v]]
        /\ sent' = [v \in Viewers |-> IF v \in Listening THEN inHand ELSE sent[v]]
    BY <1>t, <1>6 DEF FanOut, StreamingTypeOK
  <2>2. \A v \in Viewers : pending'[v] \in Seq(Nat)
    <3> SUFFICES ASSUME NEW v \in Viewers PROVE PutPicture(pending[v], inHand) \in Seq(Nat)
      BY <1>t, <2>1 DEF StreamingTypeOK
    <3>1. pending[v] \in Seq(Nat) /\ (Len(pending[v]) >= ViewerQueue => pending[v] # <<>>)
      BY <1>t, StreamingAssumption, EmptySeq DEF StreamingTypeOK
    <3> QED
      BY <2>1, <3>1, HeadTailProperties, AppendProperties DEF PutPicture
  <2>3. StreamingTypeOK'
    BY <1>t, <2>1, <2>2 DEF StreamingTypeOK
  <2>4. NoticesInOrder'
    <3>1. \A i \in DOMAIN notices : inHand < notices[i] => 0 < notices[i]
      BY <1>t DEF StreamingTypeOK
    <3> QED
      BY <1>t, <2>1, <3>1 DEF StreamingTypeOK, NoticesInOrder, AllAbove
  <2>5. SentBefore'
    BY <1>t, <2>1 DEF SentBefore, NoticesInOrder, StreamingTypeOK
  <2>6. ASSUME NEW v \in watching PROVE Moving(v)'
    <3>1. v \in Viewers /\ Moving(v)
      BY <1>t DEF StreamingTypeOK
    <3>2. CASE v \in Listening
      <4>1. pending'[v] = PutPicture(pending[v], inHand) /\ sent'[v] = inHand /\ seen'[v] = seen[v]
        BY <2>1, <3>1, <3>2
      <4>2. /\ pending[v] \in Seq(Nat) /\ seen[v] \in Nat /\ sent[v] \in Nat
            /\ \A i \in DOMAIN pending[v] : pending[v][i] \in Nat
        BY <1>t, <3>1 DEF StreamingTypeOK
      <4>3. seen[v] < inHand /\ \A i \in DOMAIN pending[v] : pending[v][i] < inHand
        BY <1>t, <2>1, <3>1, <4>2, LastIsGreatest DEF SentBefore
      <4>4. Increasing(pending[v]) /\ AllAbove(seen[v], pending[v])
        BY <3>1 DEF Moving
      <4>5. /\ pending'[v] # <<>> /\ Increasing(pending'[v]) /\ AllAbove(seen[v], pending'[v])
            /\ pending'[v][Len(pending'[v])] = inHand
        BY <2>1, <4>1, <4>2, <4>3, <4>4, PutKeepsMoving
      <4> QED
        BY <4>1, <4>5 DEF Moving
    <3>3. CASE v \notin Listening
      BY <2>1, <3>1, <3>3 DEF Moving
    <3> QED
      BY <3>2, <3>3
  <2> QED
    BY <2>1, <2>3, <2>4, <2>5, <2>6 DEF StreamingInv
<1>7. ASSUME NEW v \in Viewers, Watch(v) PROVE StreamingInv'
  <2>1. /\ UNCHANGED <<written, notices, notified, inHand>> /\ watching' = watching \cup {v} /\ v \notin watching
        /\ pending' = [pending EXCEPT ![v] = <<>>] /\ screen' = [screen EXCEPT ![v] = 0]
        /\ seen' = [seen EXCEPT ![v] = 0] /\ sent' = [sent EXCEPT ![v] = 0]
    BY <1>7 DEF Watch
  <2>2. StreamingTypeOK'
    BY <1>t, <2>1, EmptySeq DEF StreamingTypeOK
  <2>3. pending'[v] = <<>> /\ seen'[v] = 0 /\ sent'[v] = 0
    BY <1>t, <2>1 DEF StreamingTypeOK
  <2>4. Moving(v)'
    BY <2>3 DEF Moving, Increasing, AllAbove
  <2>5. \A u \in watching : Moving(u)'
    BY <1>t, <2>1 DEF Moving, StreamingTypeOK
  <2>6. \A u \in Viewers : sent'[u] \in {0, sent[u]}
    BY <1>t, <2>1 DEF StreamingTypeOK
  <2> QED
    BY <2>1, <2>2, <2>4, <2>5, <2>6, NoticesUntouched
<1>8. ASSUME NEW v \in Viewers, ShowNext(v) PROVE StreamingInv'
  <2> DEFINE q == pending[v]
  <2>1. /\ UNCHANGED <<written, notices, notified, inHand, watching, sent>> /\ v \in watching /\ q # <<>>
        /\ pending' = [pending EXCEPT ![v] = Tail(q)]
        /\ screen' = [screen EXCEPT ![v] = Head(q)] /\ seen' = [seen EXCEPT ![v] = Head(q)]
    BY <1>8 DEF ShowNext
  <2>2. q \in Seq(Nat) /\ Increasing(q) /\ sent[v] = q[Len(q)]
    BY <1>t, <2>1 DEF StreamingTypeOK, Moving
  <2> HIDE DEF q
  <2>3. /\ Head(q) \in Nat /\ Tail(q) \in Seq(Nat) /\ Increasing(Tail(q)) /\ AllAbove(Head(q), Tail(q))
        /\ Tail(q) # <<>> => Tail(q)[Len(Tail(q))] = q[Len(q)]
        /\ Tail(q) = <<>> => Head(q) = q[Len(q)]
    BY <2>1, <2>2, IncreasingTail
  <2>4. StreamingTypeOK'
    BY <1>t, <2>1, <2>3 DEF StreamingTypeOK
  <2>5. pending'[v] = Tail(q) /\ seen'[v] = Head(q) /\ sent'[v] = sent[v]
    BY <1>t, <2>1 DEF StreamingTypeOK
  <2>6. Moving(v)'
    BY <2>2, <2>3, <2>5 DEF Moving
  <2>7. \A u \in watching \ {v} : Moving(u)'
    BY <1>t, <2>1 DEF Moving, StreamingTypeOK
  <2> QED
    BY <2>1, <2>4, <2>6, <2>7, NoticesUntouched
<1>9. ASSUME NEW v \in Viewers, ShowPlaceholder(v) \/ StopWatching(v) PROVE StreamingInv'
  <2>1. /\ UNCHANGED <<written, notices, notified, inHand, pending, seen, sent>>
        /\ watching' \subseteq watching /\ (screen' = screen \/ screen' = [screen EXCEPT ![v] = 0])
    BY <1>9 DEF ShowPlaceholder, StopWatching
  <2>2. StreamingTypeOK'
    <3>1. screen' \in [Viewers -> Nat]
      BY <1>t, <2>1, 0 \in Nat DEF StreamingTypeOK
    <3>2. watching' \subseteq Viewers
      BY <1>t, <2>1 DEF StreamingTypeOK
    <3> QED
      BY <1>t, <2>1, <3>1, <3>2 DEF StreamingTypeOK
  <2>3. \A u \in watching' : Moving(u)'
    BY <1>t, <2>1 DEF Moving
  <2> QED
    BY <2>1, <2>2, <2>3, NoticesUntouched
<1>10. CASE ProducerDies
  BY <1>4, <1>10 DEF ProducerDies, viewerVars
<1>11. CASE StopStreaming
  BY <1>4, <1>11 DEF StopStreaming
<1>12. CASE UNCHANGED streamingVars
  BY <1>t, <1>12 DEF streamingVars, StreamingInv, StreamingTypeOK, NoticesInOrder, SentBefore, Moving
<1> QED
  BY <1>1, <1>2, <1>3, <1>5, <1>6, <1>7, <1>8, <1>9, <1>10, <1>11, <1>12 DEF StreamingNext

(* What a viewer has before him moves forward only and ends with the newest    *)
(* frame sent to him, for any number of viewers and any length of their       *)
(* queues (broadcaster.py:146).                                               *)
THEOREM StreamingCorrect == StreamingSpec => []ViewerIsCurrent
<1>1. StreamingInv => ViewerIsCurrent
  BY MovingShows DEF StreamingInv, StreamingTypeOK, ViewerIsCurrent
<1> QED
  BY <1>1, StreamingInvInit, StreamingInvStep, PTL DEF StreamingSpec

(***************************************************************************)
(* Server-sent events. While the request lives, the entries read and not    *)
(* handled follow the cursor one by one, the first of all at firstRead.     *)
(***************************************************************************)
Due == IF lastId = -1 THEN firstRead ELSE lastId + 1

SseTypeOK ==
  /\ feed \in Seq([camera : FeedCameras \cup {"demo"}, by : {"service", "demo"}])
  /\ lastId \in Nat \cup {-1} /\ waitsFrom \in Nat \cup {-1}
  /\ readEvents \in Seq(Nat) /\ received \in Seq(Nat)
  /\ firstRead \in Nat /\ notSent \subseteq Nat

CursorInFeed ==
  /\ lastId = -1 \/ (firstRead <= lastId /\ lastId <= Len(feed))
  /\ waitsFrom <= Len(feed) /\ \A i \in DOMAIN readEvents : readEvents[i] <= Len(feed)
  /\ \A n \in notSent : n <= lastId

BeforeFirst == firstRead = 0 => lastId = -1 /\ readEvents = <<>> /\ notSent = {}
ReadsFollow == live =>
  /\ \A i \in DOMAIN readEvents : readEvents[i] = Due + i - 1
  /\ waitsFrom >= 0 => readEvents = <<>> /\ (firstRead # 0 => waitsFrom = lastId)
  /\ firstRead # 0 /\ lastId = -1 => readEvents # <<>>

SseInv == SseTypeOK /\ CursorInFeed /\ BeforeFirst /\ ReadsFollow /\ SentIsContiguous

LEMMA SseInvInit == SseInit => SseInv
<1> SUFFICES ASSUME SseInit PROVE SseInv
  OBVIOUS
<1>1. SseTypeOK
  BY DEF SseInit, SseTypeOK
<1>2. Len(feed) \in Nat /\ CursorInFeed /\ BeforeFirst /\ ReadsFollow
  BY DEF SseInit, CursorInFeed, BeforeFirst, ReadsFollow
<1>3. SentIsContiguous
  BY DEF SseInit, SentIsContiguous
<1> QED
  BY <1>1, <1>2, <1>3 DEF SseInv

(* What is added to the stream changes nothing of what was read. *)
LEMMA EventAdded ==
  ASSUME SseInv, NEW e \in [camera : FeedCameras \cup {"demo"}, by : {"service", "demo"}],
         feed' = Append(feed, e), UNCHANGED <<watched, requestVars>>
  PROVE  SseInv'
<1>1. /\ feed' \in Seq([camera : FeedCameras \cup {"demo"}, by : {"service", "demo"}])
      /\ Len(feed) \in Nat /\ Len(feed') = Len(feed) + 1 /\ \A n \in 1..Len(feed) : feed'[n] = feed[n]
  BY AppendProperties DEF SseInv, SseTypeOK
<1>2. SseTypeOK' /\ CursorInFeed' /\ BeforeFirst' /\ ReadsFollow'
  BY <1>1 DEF SseInv, SseTypeOK, CursorInFeed, BeforeFirst, ReadsFollow, requestVars, Due
<1>3. \A n \in 1..Len(feed) : Wanted(n)' = Wanted(n)
  BY <1>1 DEF Wanted, Decodes
<1>4. \A n \in firstRead..lastId : firstRead # 0 => n \in 1..Len(feed)
  BY <1>1 DEF SseInv, SseTypeOK, CursorInFeed
<1>5. SentIsContiguous'
  BY <1>3, <1>4 DEF SseInv, SentIsContiguous, requestVars
<1> QED
  BY <1>2, <1>5 DEF SseInv

(* The entry at the head of those read is the one after the cursor; it is sent  *)
(* or left out, and the cursor moves to it.                                    *)
LEMMA EventHandled ==
  ASSUME SseInv, live, readEvents # <<>>, readEvents' = Tail(readEvents), lastId' = Head(readEvents),
         \/ received' = (IF Wanted(lastId') THEN Append(received, lastId') ELSE received) /\ notSent' = notSent
         \/ received' = received /\ notSent' = notSent \cup {lastId'},
         UNCHANGED <<watched, feed, live, waitsFrom, firstRead>>
  PROVE  SseInv'
<1> DEFINE n == Head(readEvents)
<1>1. /\ readEvents \in Seq(Nat) /\ Len(readEvents) \in Nat \ {0} /\ DOMAIN readEvents = 1..Len(readEvents)
      /\ n = readEvents[1] /\ n \in Nat /\ lastId \in Nat \cup {-1} /\ firstRead \in Nat
  BY DEF SseInv, SseTypeOK
<1>2. /\ Tail(readEvents) \in Seq(Nat) /\ Len(Tail(readEvents)) = Len(readEvents) - 1
      /\ DOMAIN Tail(readEvents) = 1..Len(readEvents) - 1
      /\ \A i \in 1..Len(readEvents) - 1 : Tail(readEvents)[i] = readEvents[i + 1] /\ i + 1 \in 1..Len(readEvents)
  BY <1>1, HeadTailProperties
<1>3. n = Due /\ n <= Len(feed) /\ firstRead # 0
  <2>1. 1 \in DOMAIN readEvents
    BY <1>1
  <2>2. firstRead # 0 /\ readEvents[1] = Due + 1 - 1 /\ readEvents[1] <= Len(feed)
    BY <2>1 DEF SseInv, BeforeFirst, ReadsFollow, CursorInFeed
  <2> QED
    BY <1>1, <2>2 DEF Due
<1>4. n >= firstRead /\ firstRead..n = (firstRead..lastId) \cup {n} /\ lastId < n
  BY <1>1, <1>3 DEF SseInv, CursorInFeed, Due
<1>5. /\ Increasing(received) /\ received \in Seq(Nat)
      /\ {received[i] : i \in DOMAIN received} = {m \in firstRead..lastId : Wanted(m) /\ m \notin notSent}
  BY <1>3 DEF SseInv, SseTypeOK, SentIsContiguous, Increasing
<1>6. n \notin notSent /\ \A m \in notSent : m \in Nat /\ m <= n
  BY <1>1, <1>4 DEF SseInv, SseTypeOK, CursorInFeed
<1>7. \A m : Wanted(m)' = Wanted(m)
  BY DEF Wanted
<1>8. received' \in Seq(Nat) /\ SentIsContiguous'
  <2>0. \A i \in DOMAIN received : received[i] \in Nat /\ received[i] < n
    <3> SUFFICES ASSUME NEW i \in DOMAIN received PROVE received[i] \in Nat /\ received[i] < n
      OBVIOUS
    <3>1. received[i] \in firstRead..lastId
      BY <1>5
    <3> QED
      BY <1>1, <1>4, <3>1
  <2>1. CASE received' = Append(received, n) /\ notSent' = notSent /\ Wanted(n)
    <3> DEFINE t == Append(received, n)
    <3>1. /\ t \in Seq(Nat) /\ Increasing(t) /\ Len(t) = Len(received) + 1 /\ t[Len(t)] = n
          /\ \A i \in DOMAIN t : t[i] = n \/ \E j \in DOMAIN received : t[i] = received[j]
      BY <1>1, <1>5, <2>0, IncreasingAppend
    <3>2. \A j \in DOMAIN received : j \in DOMAIN t /\ t[j] = received[j]
      BY <1>1, <1>5, AppendProperties
    <3>3. Len(t) \in DOMAIN t
      BY <1>5, <3>1
    <3> HIDE DEF t
    <3>4. {t[i] : i \in DOMAIN t} = {received[i] : i \in DOMAIN received} \cup {n}
      BY <3>1, <3>2, <3>3
    <3>5. {t[i] : i \in DOMAIN t} = {m \in firstRead..n : Wanted(m) /\ m \notin notSent}
      BY <1>4, <1>5, <1>6, <2>1, <3>4
    <3>6. received' = t /\ lastId' = n
      BY <2>1 DEF t
    <3>7. {received'[i] : i \in DOMAIN received'} =
            {m \in firstRead'..lastId' : firstRead' # 0 /\ Wanted(m)' /\ m \notin notSent'}
      BY <1>3, <1>7, <2>1, <3>5, <3>6
    <3>8. Increasing(received')
      BY <3>1, <3>6
    <3> QED
      BY <3>1, <3>6, <3>7, <3>8 DEF SentIsContiguous, Increasing
  <2>2. CASE received' = received /\ notSent' = notSent /\ ~Wanted(n)
    <3>1. {m \in firstRead..n : Wanted(m) /\ m \notin notSent} = {m \in firstRead..lastId : Wanted(m) /\ m \notin notSent}
      BY <1>4, <2>2
    <3> QED
      BY <1>3, <1>5, <1>7, <2>2, <3>1 DEF SentIsContiguous, Increasing
  <2>3. CASE received' = received /\ notSent' = notSent \cup {n}
    <3>1. n \notin firstRead..lastId
      BY <1>1, <1>4
    <3>2. {m \in firstRead..n : Wanted(m) /\ m \notin notSent \cup {n}} = {m \in firstRead..lastId : Wanted(m) /\ m \notin notSent}
      BY <1>4, <3>1
    <3> QED
      BY <1>3, <1>5, <1>7, <2>3, <3>2 DEF SentIsContiguous, Increasing
  <2> QED
    BY <2>1, <2>2, <2>3
<1>9. SseTypeOK'
  BY <1>1, <1>2, <1>8 DEF SseInv, SseTypeOK
<1>10. CursorInFeed'
  BY <1>1, <1>2, <1>3, <1>4, <1>6 DEF SseInv, CursorInFeed
<1>11. ReadsFollow'
  <2>1. \A i \in 1..Len(readEvents) : readEvents[i] = n + i - 1
    BY <1>3 DEF SseInv, ReadsFollow
  <2>2. \A i \in 1..Len(readEvents) - 1 : Tail(readEvents)[i] = n + i
    BY <1>1, <1>2, <2>1
  <2>3. Due' = n + 1
    BY <1>1 DEF Due
  <2>4. waitsFrom = -1
    BY DEF SseInv, ReadsFollow, SseTypeOK
  <2>5. \A i \in DOMAIN readEvents' : readEvents'[i] = Due' + i - 1
    BY <1>1, <1>2, <2>2, <2>3
  <2>6. ~(waitsFrom' >= 0) /\ lastId' # -1
    BY <1>1, <2>4
  <2> QED
    BY <2>5, <2>6 DEF ReadsFollow
<1> QED
  BY <1>3, <1>8, <1>9, <1>10, <1>11 DEF SseInv, BeforeFirst

LEMMA SseInvStep == SseInv /\ [SseNext]_sseVars => SseInv'
<1> SUFFICES ASSUME SseInv, [SseNext]_sseVars PROVE SseInv'
  OBVIOUS
<1>t. SseTypeOK /\ CursorInFeed /\ BeforeFirst /\ ReadsFollow /\ SentIsContiguous
  BY DEF SseInv
<1>1. ASSUME NEW cam \in FeedCameras, AddEvent(cam) PROVE SseInv'
  BY <1>1, EventAdded DEF AddEvent
<1>2. CASE DemoEvent
  BY <1>2, EventAdded DEF DemoEvent
<1>3. CASE StartDemo \/ StopDemo \/ UNCHANGED sseVars
  <2>1. UNCHANGED <<watched, feed, requestVars>>
    BY <1>3 DEF StartDemo, StopDemo, sseVars, requestVars, feedState
  <2>2. SseTypeOK' /\ CursorInFeed' /\ BeforeFirst' /\ ReadsFollow'
    BY <1>t, <2>1 DEF requestVars, SseTypeOK, CursorInFeed, BeforeFirst, ReadsFollow, Due
  <2>3. SentIsContiguous'
    BY <1>t, <2>1 DEF requestVars, SentIsContiguous, Wanted
  <2> QED
    BY <2>2, <2>3 DEF SseInv
<1>4. CASE OpenRequest
  BY <1>t, <1>4, EmptySeq DEF OpenRequest, feedState, SseInv, SseTypeOK, CursorInFeed, BeforeFirst, ReadsFollow, SentIsContiguous
<1>5. CASE live /\ SendXread
  <2>1. /\ waitsFrom = -1 /\ readEvents = <<>> /\ waitsFrom' = IF lastId = -1 THEN Len(feed) ELSE lastId
        /\ UNCHANGED <<watched, feed, live, lastId, readEvents, received, firstRead, notSent>>
    BY <1>5 DEF SendXread, feedState
  <2>2. Len(feed) \in Nat
    BY <1>t DEF SseTypeOK
  <2>3. SseTypeOK' /\ CursorInFeed' /\ BeforeFirst' /\ SentIsContiguous'
    BY <1>t, <2>1, <2>2 DEF SseTypeOK, CursorInFeed, BeforeFirst, SentIsContiguous, Wanted
  <2>4. ReadsFollow'
    BY <1>t, <1>5, <2>1 DEF ReadsFollow, Due
  <2> QED
    BY <2>3, <2>4 DEF SseInv
<1>6. CASE live /\ XreadReturns
  <2>1. PICK last \in waitsFrom + 1..Len(feed) : readEvents' = [i \in 1..last - waitsFrom |-> waitsFrom + i]
    BY <1>6 DEF XreadReturns
  <2>2. /\ waitsFrom >= 0 /\ waitsFrom < Len(feed) /\ waitsFrom' = -1
        /\ firstRead' = IF firstRead = 0 THEN waitsFrom + 1 ELSE firstRead
        /\ UNCHANGED <<watched, feed, live, lastId, received, notSent>>
    BY <1>6 DEF XreadReturns, feedState
  <2>3. Len(feed) \in Nat /\ waitsFrom \in Nat /\ last \in Nat /\ last - waitsFrom \in Nat \ {0} /\ last <= Len(feed)
        /\ firstRead \in Nat
    BY <1>t, <2>2 DEF SseTypeOK
  <2>4. /\ readEvents' \in Seq(Nat) /\ DOMAIN readEvents' = 1..last - waitsFrom /\ readEvents' # <<>>
        /\ \A i \in 1..last - waitsFrom : readEvents'[i] = waitsFrom + i /\ waitsFrom + i <= Len(feed)
    <3>1. readEvents' \in [1..last - waitsFrom -> Nat]
      BY <2>1, <2>3
    <3>2. readEvents' \in Seq(Nat) /\ DOMAIN readEvents' = 1..last - waitsFrom /\ Len(readEvents') = last - waitsFrom
      BY <2>3, <3>1, FunIsSeq
    <3> QED
      BY <2>1, <2>3, <3>2, EmptySeq
  <2>5. SseTypeOK' /\ firstRead' # 0
    BY <1>t, <2>2, <2>3, <2>4 DEF SseTypeOK
  <2>6. CursorInFeed' /\ BeforeFirst'
    BY <1>t, <2>2, <2>3, <2>4, <2>5 DEF CursorInFeed, BeforeFirst
  <2>7. Due' = waitsFrom + 1
    <3>1. firstRead = 0 => lastId = -1
      BY <1>t DEF BeforeFirst
    <3>2. firstRead # 0 => waitsFrom = lastId
      BY <1>t, <1>6, <2>2 DEF ReadsFollow
    <3> QED
      BY <2>2, <2>3, <3>1, <3>2 DEF Due
  <2>8. ReadsFollow'
    BY <2>2, <2>3, <2>4, <2>7 DEF ReadsFollow
  <2>9. SentIsContiguous'
    <3>1. CASE firstRead = 0
      <4>1. received = <<>> /\ lastId = -1
        BY <1>t, <3>1 DEF SentIsContiguous, BeforeFirst, SseTypeOK
      <4>2. firstRead'..lastId' = {}
        BY <2>2, <2>3, <3>1, <4>1
      <4> QED
        BY <2>2, <4>1, <4>2 DEF SentIsContiguous
    <3>2. CASE firstRead # 0
      BY <1>t, <2>2, <3>2 DEF SentIsContiguous, Wanted
    <3> QED
      BY <3>1, <3>2
  <2> QED
    BY <2>5, <2>6, <2>8, <2>9 DEF SseInv
<1>7. CASE live /\ XreadTimesOut
  <2>1. waitsFrom' = -1 /\ UNCHANGED <<watched, feed, live, lastId, readEvents, received, firstRead, notSent>>
    BY <1>7 DEF XreadTimesOut, feedState
  <2>2. Len(feed) \in Nat
    BY <1>t DEF SseTypeOK
  <2> QED
    BY <1>t, <2>1, <2>2 DEF SseInv, SseTypeOK, CursorInFeed, BeforeFirst, ReadsFollow, Due, SentIsContiguous, Wanted
<1>8. CASE live /\ TakeEvent
  BY <1>8, EventHandled, SseInv DEF TakeEvent, CursorAfter, feedState
<1>9. CASE live /\ RiskFails
  BY <1>9, EventHandled, SseInv DEF RiskFails, feedState
<1>10. CASE live /\ EndRequest
  <2>1. /\ live' = FALSE /\ waitsFrom' = -1 /\ readEvents' = <<>>
        /\ UNCHANGED <<watched, feed, lastId, received, firstRead, notSent>>
    BY <1>10 DEF EndRequest, feedState
  <2>2. Len(feed) \in Nat
    BY <1>t DEF SseTypeOK
  <2> QED
    BY <1>t, <2>1, <2>2, EmptySeq
    DEF SseInv, SseTypeOK, CursorInFeed, BeforeFirst, ReadsFollow, SentIsContiguous, Wanted
<1> QED
  BY <1>1, <1>2, <1>3, <1>4, <1>5, <1>6, <1>7, <1>8, <1>9, <1>10 DEF SseNext

(* From the first entry read, a request sends every entry it was asked for up  *)
(* to its cursor, once and in order, but those whose risk could not be had:    *)
(* for any batch size, any number of requests and of entries                  *)
(* (gateway/main.py:390).                                                     *)
THEOREM SseCorrect == SseSpec => []SentIsContiguous
<1>1. SseInv => SentIsContiguous
  BY DEF SseInv
<1> QED
  BY <1>1, SseInvInit, SseInvStep, PTL DEF SseSpec

(***************************************************************************)
(* The poses. A key is written with poses of its own track, never older    *)
(* than those in the window; an eviction empties the window of the track   *)
(* it forgets, so that what is in it later was pushed after its score.     *)
(***************************************************************************)
Pose == [who: Persons \cup {"nobody"}, shot: Nat]
Instant == Nat \cup {Never}

PoseTypeOK ==
  /\ shots \in Nat /\ shotTime \in Nat /\ now \in Nat
  /\ people \in Seq([who: Persons, pose: Pose]) /\ points \in [Persons -> Pose]
  /\ behavior \in Seq([who: Persons, suspicious: BOOLEAN, t: Nat])
  /\ window \in [Persons -> Seq([pose: Pose, t: Nat])]
  /\ lastScored \in [Persons -> Instant] /\ scored \in [Persons -> Instant]
  /\ fresh \in [Persons -> 0..SeqLen]

PosesInHand ==
  \A i \in DOMAIN people :
    people[i].pose = NoPose \/ (people[i].pose.who = people[i].who /\ people[i].pose.shot = shots)
KeyIsOwn == \A p \in Persons : points[p] = NoPose \/ (points[p].who = p /\ points[p].shot <= shots)

WindowInOrder(p) ==
  \A i \in DOMAIN window[p] :
    /\ window[p][i].pose.who = p /\ window[p][i].pose.shot <= shots
    /\ points[p] # NoPose => window[p][i].pose.shot <= points[p].shot
    /\ \A j \in 1..i : window[p][j].pose.shot <= window[p][i].pose.shot

ForgottenIsEmptied(p) == lastScored[p] = scored[p] \/ Len(window[p]) <= fresh[p]

PoseInv ==
  /\ PoseTypeOK /\ PosesInHand /\ KeyIsOwn
  /\ \A p \in Persons : WindowInOrder(p) /\ ForgottenIsEmptied(p)

LEMMA PoseInvInit == PoseInit => PoseInv
<1> SUFFICES ASSUME PoseInit PROVE PoseInv
  OBVIOUS
<1>1. PoseTypeOK
  BY EmptySeq, PoseAssumption DEF PoseInit, PoseTypeOK, Pose, NoPose, Instant
<1>2. DOMAIN <<>> = {}
  OBVIOUS
<1>3. PosesInHand /\ KeyIsOwn
  BY <1>2 DEF PoseInit, PosesInHand, KeyIsOwn
<1>4. ASSUME NEW p \in Persons PROVE WindowInOrder(p) /\ ForgottenIsEmptied(p)
  BY <1>2 DEF PoseInit, WindowInOrder, ForgottenIsEmptied, Never
<1> QED
  BY <1>1, <1>3, <1>4 DEF PoseInv

(* Whatever order the tracker reports them in, each pose is of its own person.  *)
LEMMA TrackedRows ==
  ASSUME NEW boxes \in Seq(Row), NEW reported \in Tracked(boxes)
  PROVE  reported \in Seq(Row)
<1>1. PICK f \in Orders(DOMAIN boxes) : reported = [i \in DOMAIN boxes |-> boxes[f[i]]]
  BY DEF Tracked
<1>2. f \in [DOMAIN boxes -> DOMAIN boxes]
  BY DEF Orders
<1>3. DOMAIN boxes = 1..Len(boxes) /\ Len(boxes) \in Nat /\ \A i \in 1..Len(boxes) : boxes[i] \in Row
  OBVIOUS
<1>4. reported \in [1..Len(boxes) -> Row]
  BY <1>1, <1>2, <1>3
<1> QED
  BY <1>3, <1>4, FunIsSeq

LEMMA PoseIsOwn ==
  ASSUME NEW reported \in Seq(Row), NEW i \in DOMAIN reported, NEW shot \in Nat
  PROVE  PoseOf(reported, i, shot) \in Pose
         /\ (PoseOf(reported, i, shot) = NoPose
             \/ (PoseOf(reported, i, shot).who = reported[i].who /\ PoseOf(reported, i, shot).shot = shot))
<1> DEFINE n == {k \in DOMAIN Owners(reported) : Owners(reported)[k] = i}
<1>1. reported[i] \in Row
  OBVIOUS
<1>2. reported[i].who \in Persons
  BY <1>1 DEF Row
<1>3. CASE n = {}
  BY <1>3 DEF PoseOf, NoPose, Pose
<1>4. CASE n # {}
  <2>1. PICK k : k = (CHOOSE m \in n : TRUE)
    OBVIOUS
  <2>2. k \in n
    BY <1>4, <2>1
  <2>3. CropIndices(reported)[k] = i
    BY <2>2 DEF Owners
  <2>4. PoseOf(reported, i, shot) = [who |-> reported[i].who, shot |-> shot]
    BY <1>4, <2>1, <2>3 DEF PoseOf
  <2> QED
    BY <1>2, <2>4 DEF Pose
<1> QED
  BY <1>3, <1>4

(* What one event makes of the window of its track. *)
LEMMA PushedWindow ==
  ASSUME PoseInv, NEW e \in [who: Persons, suspicious: BOOLEAN, t: Nat]
  PROVE  /\ Pushed(e) \in Seq([pose: Pose, t: Nat])
         /\ Len(Pushed(e)) \in Nat /\ Len(window[e.who]) \in Nat
         /\ points[e.who] = NoPose => Len(Pushed(e)) = Len(window[e.who])
         /\ points[e.who] # NoPose =>
              Len(Pushed(e)) = IF Len(window[e.who]) + 1 > SeqLen THEN Len(window[e.who])
                               ELSE Len(window[e.who]) + 1
         /\ \A i \in DOMAIN Pushed(e) :
              /\ Pushed(e)[i].pose.who = e.who /\ Pushed(e)[i].pose.shot <= shots
              /\ points[e.who] # NoPose => Pushed(e)[i].pose.shot <= points[e.who].shot
              /\ \A j \in 1..i : Pushed(e)[j].pose.shot <= Pushed(e)[i].pose.shot
<1> DEFINE p == e.who
           E == [pose: Pose, t: Nat]
           old == window[p]
           new == [pose |-> points[p], t |-> e.t]
           w == Append(old, new)
<1>1. p \in Persons /\ e.t \in Nat /\ old \in Seq(E) /\ points[p] \in Pose /\ shots \in Nat
  BY DEF PoseInv, PoseTypeOK
<1>2. \A i \in DOMAIN old :
        /\ old[i].pose.who = p /\ old[i].pose.shot <= shots
        /\ points[p] # NoPose => old[i].pose.shot <= points[p].shot
        /\ \A j \in 1..i : old[j].pose.shot <= old[i].pose.shot
  BY <1>1 DEF PoseInv, WindowInOrder
<1>3. points[p] = NoPose \/ (points[p].who = p /\ points[p].shot <= shots)
  BY <1>1 DEF PoseInv, KeyIsOwn
<1>4. new \in E /\ new.pose = points[p] /\ points[p].shot \in Nat
  BY <1>1 DEF Pose
<1>5. Pushed(e) = IF points[p] = NoPose THEN old ELSE IF Len(w) > SeqLen THEN Tail(w) ELSE w
  BY DEF Pushed
<1> HIDE DEF p, old, new, E
<1>6. DOMAIN old = 1..Len(old) /\ Len(old) \in Nat /\ \A i \in 1..Len(old) : old[i] \in E
  BY <1>1
<1>7. /\ w \in Seq(E) /\ Len(w) = Len(old) + 1
      /\ \A i \in 1..Len(old) : w[i] = old[i]
      /\ w[Len(old) + 1] = new
  BY <1>1, <1>4, AppendProperties
<1>8. DOMAIN w = 1..Len(old) + 1
  BY <1>7
<1>a. \A i \in 1..Len(old) : old[i].pose.shot \in Nat
  BY <1>6 DEF E, Pose
<1> HIDE DEF w
<1> DEFINE Good(s) == \A i \in DOMAIN s :
             /\ s[i].pose.who = p /\ s[i].pose.shot <= shots
             /\ points[p] # NoPose => s[i].pose.shot <= points[p].shot
             /\ \A j \in 1..i : s[j].pose.shot <= s[i].pose.shot
<1>9. CASE points[p] = NoPose
  <2>1. Pushed(e) = old
    BY <1>5, <1>9
  <2> QED
    BY <1>1, <1>2, <1>6, <1>9, <2>1 DEF p, old, new, E
<1>10. CASE points[p] # NoPose
  <2>2. Good(w)
    <3> SUFFICES ASSUME NEW i \in 1..Len(old) + 1
                 PROVE  /\ w[i].pose.who = p /\ w[i].pose.shot <= shots /\ w[i].pose.shot <= points[p].shot
                        /\ \A j \in 1..i : w[j].pose.shot <= w[i].pose.shot
      BY <1>8
    <3>1. CASE i \in 1..Len(old)
      <4>1. w[i] = old[i] /\ \A j \in 1..i : j \in 1..Len(old) /\ w[j] = old[j]
        BY <1>6, <1>7, <3>1
      <4> QED
        BY <1>2, <1>6, <1>10, <3>1, <4>1
    <3>2. CASE i = Len(old) + 1
      <4>1. w[i].pose = points[p]
        BY <1>4, <1>7, <3>2
      <4>2. \A j \in 1..i : j = i \/ (j \in 1..Len(old) /\ w[j] = old[j])
        BY <1>6, <1>7, <3>2
      <4> QED
        BY <1>2, <1>3, <1>4, <1>6, <1>10, <4>1, <4>2
    <3> QED
      BY <1>6, <3>1, <3>2
  <2>3. CASE Len(w) > SeqLen
    <3>1. w # <<>>
      BY <1>6, <1>7, EmptySeq
    <3>2. /\ Tail(w) \in Seq(E) /\ DOMAIN Tail(w) = 1..Len(old)
          /\ Len(Tail(w)) = Len(old)
          /\ \A i \in 1..Len(old) : Tail(w)[i] = w[i + 1] /\ i + 1 \in 1..Len(old) + 1
      BY <1>6, <1>7, <3>1, HeadTailProperties
    <3>4. Good(Tail(w))
      <4> SUFFICES ASSUME NEW i \in 1..Len(old)
                   PROVE  /\ w[i + 1].pose.who = p /\ w[i + 1].pose.shot <= shots
                          /\ w[i + 1].pose.shot <= points[p].shot
                          /\ \A j \in 1..i : w[j + 1].pose.shot <= w[i + 1].pose.shot
        <5>1. \A i \in 1..Len(old) : \A j \in 1..i : j \in 1..Len(old) /\ Tail(w)[j] = w[j + 1]
          BY <1>6, <3>2
        <5> QED
          BY <3>2, <5>1
      <4>1. i + 1 \in DOMAIN w /\ \A j \in 1..i : j + 1 \in 1..i + 1
        BY <1>6, <1>8
      <4> QED
        BY <1>10, <2>2, <4>1
    <3>5. Pushed(e) = Tail(w)
      BY <1>5, <1>10, <2>3 DEF w
    <3> QED
      BY <1>6, <1>7, <1>10, <2>3, <3>2, <3>4, <3>5 DEF p, old, new, E
  <2>4. CASE ~(Len(w) > SeqLen)
    <3>1. Pushed(e) = w
      BY <1>5, <1>10, <2>4 DEF w
    <3> QED
      BY <1>6, <1>7, <1>10, <2>2, <2>4, <3>1 DEF p, old, new, E
  <2> QED
    BY <2>3, <2>4
<1> QED
  BY <1>9, <1>10

(* A window with nothing from before the last score still has nothing from      *)
(* before it with one more pose.                                                *)
LEMMA PushedIsFresh ==
  ASSUME PoseInv, NEW e \in [who: Persons, suspicious: BOOLEAN, t: Nat],
         Len(window[e.who]) <= fresh[e.who]
  PROVE  Len(Pushed(e)) <= Fresher(e)
<1>1. e.who \in Persons
  OBVIOUS
<1>2. fresh[e.who] \in 0..SeqLen /\ SeqLen \in Nat
  BY <1>1, PoseAssumption DEF PoseInv, PoseTypeOK
<1> QED
  BY <1>2, PushedWindow DEF Fresher

LEMMA PoseInvStep == PoseInv /\ [PoseNext]_poseVars => PoseInv'
<1> SUFFICES ASSUME PoseInv, [PoseNext]_poseVars PROVE PoseInv'
  OBVIOUS
<1>t. PoseTypeOK /\ PosesInHand /\ KeyIsOwn /\ \A p \in Persons : WindowInOrder(p) /\ ForgottenIsEmptied(p)
  BY DEF PoseInv
<1>n. NoPose \in Pose /\ Never \in Instant
  BY DEF NoPose, Pose, Never, Instant
<1>1. CASE UNCHANGED poseVars
  BY <1>t, <1>1
  DEF poseVars, scorerVars, PoseInv, PoseTypeOK, PosesInHand, KeyIsOwn, WindowInOrder, ForgottenIsEmptied
<1>2. CASE DetectShot
  <2>u. UNCHANGED <<points, window, lastScored, scored, fresh, now>>
    BY <1>2 DEF DetectShot, scorerVars
  <2>0. people = <<>> /\ shots' = shots + 1 /\ shots \in Nat /\ shots' \in Nat /\ now \in Nat /\ shotTime' \in Nat
    BY <1>2, <1>t DEF DetectShot, PoseTypeOK
  <2>1. PICK boxes \in Boxes : \E reported \in Tracked(boxes) :
          /\ people' = [i \in DOMAIN reported |-> [who |-> reported[i].who, pose |-> PoseOf(reported, i, shots')]]
          /\ behavior' = behavior \o [i \in DOMAIN reported |->
                                       [who |-> reported[i].who, suspicious |-> reported[i].suspicious, t |-> shotTime']]
    BY <1>2 DEF DetectShot
  <2>2. PICK reported \in Tracked(boxes) :
          /\ people' = [i \in DOMAIN reported |-> [who |-> reported[i].who, pose |-> PoseOf(reported, i, shots')]]
          /\ behavior' = behavior \o [i \in DOMAIN reported |->
                                       [who |-> reported[i].who, suspicious |-> reported[i].suspicious, t |-> shotTime']]
    BY <2>1
  <2>3. reported \in Seq(Row)
    BY TrackedRows, PoseAssumption
  <2>4. DOMAIN reported = 1..Len(reported) /\ Len(reported) \in Nat /\ \A i \in 1..Len(reported) : reported[i] \in Row
    BY <2>3
  <2>5. \A i \in 1..Len(reported) : reported[i].who \in Persons /\ reported[i].suspicious \in BOOLEAN
    BY <2>4 DEF Row
  <2>6. \A i \in 1..Len(reported) :
          /\ PoseOf(reported, i, shots') \in Pose
          /\ (PoseOf(reported, i, shots') = NoPose
              \/ (PoseOf(reported, i, shots').who = reported[i].who /\ PoseOf(reported, i, shots').shot = shots'))
    BY <2>0, <2>3, <2>4, PoseIsOwn
  <2>7. people' \in Seq([who: Persons, pose: Pose]) /\ PosesInHand'
    <3>1. people' \in [1..Len(reported) -> [who: Persons, pose: Pose]]
      BY <2>2, <2>4, <2>5, <2>6
    <3>2. people' \in Seq([who: Persons, pose: Pose]) /\ DOMAIN people' = 1..Len(reported)
      BY <2>4, <3>1, FunIsSeq
    <3>3. \A i \in 1..Len(reported) : people'[i].who = reported[i].who /\ people'[i].pose = PoseOf(reported, i, shots')
      BY <2>2, <2>4
    <3> QED
      BY <2>6, <3>2, <3>3 DEF PosesInHand
  <2>8. behavior' \in Seq([who: Persons, suspicious: BOOLEAN, t: Nat])
    <3> DEFINE Event == [who: Persons, suspicious: BOOLEAN, t: Nat]
               new == [i \in DOMAIN reported |-> [who |-> reported[i].who, suspicious |-> reported[i].suspicious, t |-> shotTime']]
    <3>1. new \in [1..Len(reported) -> Event]
      BY <2>0, <2>4, <2>5
    <3>2. behavior \in Seq(Event) /\ behavior' = behavior \o new
      BY <1>t, <2>2 DEF PoseTypeOK
    <3> HIDE DEF Event, new
    <3>3. new \in Seq(Event)
      BY <2>4, <3>1, FunIsSeq
    <3>4. behavior \o new \in Seq(Event)
      BY <3>2, <3>3, ConcatProperties
    <3> QED
      BY <3>2, <3>4 DEF Event
  <2>9. PoseTypeOK' /\ KeyIsOwn'
    <3>1. \A p \in Persons : points[p] \in Pose
      BY <1>t DEF PoseTypeOK
    <3>2. \A p \in Persons : points[p].shot \in Nat
      BY <3>1 DEF Pose
    <3>3. PoseTypeOK'
      BY <1>t, <2>u, <2>0, <2>7, <2>8 DEF PoseTypeOK
    <3>4. KeyIsOwn'
      BY <1>t, <2>u, <2>0, <3>2 DEF KeyIsOwn
    <3> QED
      BY <3>3, <3>4
  <2>10. ASSUME NEW p \in Persons PROVE WindowInOrder(p)'
    <3> DEFINE E == [pose: Pose, t: Nat]
    <3>0. window[p] \in Seq(E)
      BY <1>t DEF PoseTypeOK
    <3> HIDE DEF E
    <3>a. \A i \in DOMAIN window[p] : window[p][i] \in E
      BY <3>0
    <3>1. \A i \in DOMAIN window[p] : window[p][i] \in [pose: Pose, t: Nat]
      BY <3>a DEF E
    <3>2. \A i \in DOMAIN window[p] : window[p][i].pose.shot \in Nat
      BY <3>1 DEF Pose
    <3> QED
      BY <1>t, <2>u, <2>0, <3>2 DEF WindowInOrder
  <2>11. ASSUME NEW p \in Persons PROVE ForgottenIsEmptied(p)'
    BY <1>t, <2>u DEF ForgottenIsEmptied
  <2> QED
    BY <2>7, <2>9, <2>10, <2>11 DEF PoseInv
<1>3. CASE WritePoints
  <2>u. UNCHANGED <<shots, shotTime, window, lastScored, scored, fresh, now, behavior>>
    BY <1>3 DEF WritePoints, scorerVars
  <2>0. people \in Seq([who: Persons, pose: Pose]) /\ people # <<>> /\ people' = Tail(people)
    BY <1>3, <1>t DEF WritePoints, PoseTypeOK
  <2>1. /\ Tail(people) \in Seq([who: Persons, pose: Pose]) /\ Len(people) \in Nat \ {0}
        /\ DOMAIN Tail(people) = 1..Len(people) - 1 /\ DOMAIN people = 1..Len(people)
        /\ Head(people) = people[1]
        /\ \A i \in 1..Len(people) - 1 : Tail(people)[i] = people[i + 1] /\ i + 1 \in 1..Len(people)
    BY <2>0, HeadTailProperties
  <2>2. PICK e \in [who: Persons, pose: Pose] : e = Head(people)
    <3> DEFINE E == [who: Persons, pose: Pose]
    <3>1. people \in Seq(E) /\ 1 \in 1..Len(people) /\ Head(people) = people[1]
      BY <2>0, <2>1
    <3> HIDE DEF E
    <3>2. Head(people) \in E
      BY <3>1
    <3> QED
      BY <3>2 DEF E
  <2>3. e.pose = NoPose \/ (e.pose.who = e.who /\ e.pose.shot = shots)
    BY <1>t, <2>1, <2>2 DEF PosesInHand
  <2>4. points' = IF e.pose = NoPose THEN points ELSE [points EXCEPT ![e.who] = e.pose]
    BY <1>3, <2>2 DEF WritePoints
  <2>5. PosesInHand'
    BY <1>t, <2>u, <2>0, <2>1 DEF PosesInHand
  <2>6. \A p \in Persons : points'[p] = points[p] \/ (points'[p] = e.pose /\ e.who = p /\ e.pose # NoPose)
    BY <1>t, <2>4 DEF PoseTypeOK
  <2>7. points' \in [Persons -> Pose] /\ shots \in Nat
    BY <1>t, <2>4 DEF PoseTypeOK
  <2>8. PoseTypeOK' /\ KeyIsOwn'
    <3>1. PoseTypeOK'
      BY <1>t, <2>u, <2>0, <2>1, <2>7 DEF PoseTypeOK
    <3>2. KeyIsOwn'
      BY <1>t, <2>u, <2>3, <2>6, <2>7 DEF KeyIsOwn
    <3> QED
      BY <3>1, <3>2
  <2>9. ASSUME NEW p \in Persons PROVE WindowInOrder(p)'
    <3>1. WindowInOrder(p)
      BY <1>t
    <3> QED
      BY <2>u, <2>3, <2>6, <3>1 DEF WindowInOrder
  <2>10. ASSUME NEW p \in Persons PROVE ForgottenIsEmptied(p)'
    BY <1>t, <2>u DEF ForgottenIsEmptied
  <2> QED
    BY <2>5, <2>8, <2>9, <2>10 DEF PoseInv
<1>4. ASSUME NEW p \in Persons, ExpirePoints(p) PROVE PoseInv'
  <2>u. UNCHANGED <<shots, shotTime, people, window, lastScored, scored, fresh, now, behavior>>
    BY <1>4 DEF ExpirePoints, scorerVars
  <2>1. points' = [points EXCEPT ![p] = NoPose]
    BY <1>4 DEF ExpirePoints
  <2>2. \A q \in Persons : points'[q] = points[q] \/ points'[q] = NoPose
    BY <1>t, <2>1 DEF PoseTypeOK
  <2>3. PoseTypeOK' /\ PosesInHand' /\ KeyIsOwn'
    BY <1>t, <1>n, <2>u, <2>1, <2>2 DEF PoseTypeOK, PosesInHand, KeyIsOwn
  <2>4. ASSUME NEW q \in Persons PROVE WindowInOrder(q)' /\ ForgottenIsEmptied(q)'
    BY <1>t, <2>u, <2>2 DEF WindowInOrder, ForgottenIsEmptied
  <2> QED
    BY <2>3, <2>4 DEF PoseInv
<1>5. CASE HandleEvent
  <2>u. UNCHANGED <<shots, shotTime, people, points, now>>
    BY <1>5 DEF HandleEvent
  <2> DEFINE Event == [who: Persons, suspicious: BOOLEAN, t: Nat]
  <2>0. behavior \in Seq(Event) /\ behavior # <<>> /\ behavior' = Tail(behavior)
    BY <1>5, <1>t DEF HandleEvent, PoseTypeOK
  <2> HIDE DEF Event
  <2>1. /\ Tail(behavior) \in Seq(Event) /\ Len(behavior) \in Nat \ {0}
        /\ DOMAIN Tail(behavior) = 1..Len(behavior) - 1 /\ DOMAIN behavior = 1..Len(behavior)
        /\ Head(behavior) = behavior[1]
        /\ \A i \in 1..Len(behavior) - 1 : Tail(behavior)[i] = behavior[i + 1] /\ i + 1 \in 1..Len(behavior)
    BY <2>0, HeadTailProperties
  <2>2. PICK e \in Event : e = Head(behavior)
    BY <2>0, <2>1
  <2>3. e.who \in Persons /\ e.t \in Nat
    BY DEF Event
  <2>4. PosesInHand' /\ KeyIsOwn'
    BY <1>t, <2>u DEF PosesInHand, KeyIsOwn
  <2>5. CASE ~e.suspicious
    <3>1. UNCHANGED <<window, lastScored, scored, fresh>>
      BY <1>5, <2>2, <2>5 DEF HandleEvent
    <3>2. PoseTypeOK'
      BY <1>t, <2>u, <2>0, <2>1, <3>1 DEF PoseTypeOK, Event
    <3>3. ASSUME NEW p \in Persons PROVE WindowInOrder(p)' /\ ForgottenIsEmptied(p)'
      <4>1. WindowInOrder(p) /\ ForgottenIsEmptied(p)
        BY <1>t
      <4>2. WindowInOrder(p)'
        BY <2>u, <3>1, <4>1 DEF WindowInOrder
      <4>3. ForgottenIsEmptied(p)'
        BY <3>1, <4>1 DEF ForgottenIsEmptied
      <4> QED
        BY <4>2, <4>3
    <3> QED
      BY <2>4, <3>2, <3>3 DEF PoseInv
  <2>6. CASE e.suspicious
    <3>1. /\ window' = [window EXCEPT ![e.who] = Pushed(e)]
          /\ lastScored' = IF Ready(e) THEN [lastScored EXCEPT ![e.who] = now] ELSE lastScored
          /\ scored' = IF Ready(e) THEN [scored EXCEPT ![e.who] = now] ELSE scored
          /\ fresh' = [fresh EXCEPT ![e.who] = IF Ready(e) THEN 0 ELSE Fresher(e)]
      BY <1>5, <2>2, <2>6 DEF HandleEvent, Timed
    <3>2. /\ Pushed(e) \in Seq([pose: Pose, t: Nat])
          /\ \A i \in DOMAIN Pushed(e) :
              /\ Pushed(e)[i].pose.who = e.who /\ Pushed(e)[i].pose.shot <= shots
              /\ points[e.who] # NoPose => Pushed(e)[i].pose.shot <= points[e.who].shot
              /\ \A j \in 1..i : Pushed(e)[j].pose.shot <= Pushed(e)[i].pose.shot
      BY PushedWindow DEF Event
    <3>3. PICK w : w = Pushed(e)
      OBVIOUS
    <3>4. window \in [Persons -> Seq([pose: Pose, t: Nat])] /\ window' = [window EXCEPT ![e.who] = w]
      BY <1>t, <3>1, <3>3 DEF PoseTypeOK
    <3>5. window'[e.who] = w /\ \A p \in Persons : p # e.who => window'[p] = window[p]
      BY <2>3, <3>4
    <3>6. now \in Nat /\ lastScored \in [Persons -> Instant] /\ scored \in [Persons -> Instant] /\ now \in Instant
      BY <1>t DEF PoseTypeOK, Instant
    <3>f. Fresher(e) \in 0..SeqLen /\ fresh \in [Persons -> 0..SeqLen] /\ SeqLen \in Nat
      BY <1>t, <2>3, PoseAssumption DEF PoseTypeOK, Fresher
    <3>7. PoseTypeOK'
      <4>1. window' \in [Persons -> Seq([pose: Pose, t: Nat])]
        BY <2>3, <3>2, <3>3, <3>4
      <4>2. lastScored' \in [Persons -> Instant] /\ scored' \in [Persons -> Instant]
        BY <3>1, <3>6
      <4>3. fresh' \in [Persons -> 0..SeqLen]
        <5>1. (IF Ready(e) THEN 0 ELSE Fresher(e)) \in 0..SeqLen
          BY <3>f
        <5> QED
          BY <2>3, <3>1, <3>f, <5>1
      <4> QED
        BY <1>t, <2>u, <2>0, <2>1, <4>1, <4>2, <4>3 DEF PoseTypeOK, Event
    <3>8. ASSUME NEW p \in Persons PROVE WindowInOrder(p)'
      <4>1. CASE p = e.who
        BY <2>u, <3>2, <3>3, <3>5, <4>1 DEF WindowInOrder
      <4>2. CASE p # e.who
        BY <1>t, <2>u, <3>5, <4>2 DEF WindowInOrder
      <4> QED
        BY <4>1, <4>2
    <3>9. ASSUME NEW p \in Persons PROVE ForgottenIsEmptied(p)'
      <4>1. ForgottenIsEmptied(p)
        BY <1>t
      <4>3. CASE p # e.who
        <5>1. window'[p] = window[p] /\ lastScored'[p] = lastScored[p] /\ scored'[p] = scored[p] /\ fresh'[p] = fresh[p]
          BY <2>3, <3>1, <3>5, <3>6, <3>f, <4>3
        <5> QED
          BY <4>1, <5>1 DEF ForgottenIsEmptied
      <4>4. CASE p = e.who /\ Ready(e)
        <5>1. lastScored'[p] = now /\ scored'[p] = now
          BY <2>3, <3>1, <3>6, <4>4
        <5> QED
          BY <5>1 DEF ForgottenIsEmptied
      <4>5. CASE p = e.who /\ ~Ready(e)
        <5>1. lastScored' = lastScored /\ scored' = scored /\ window'[p] = w /\ fresh'[p] = Fresher(e)
          BY <2>3, <3>1, <3>5, <3>f, <4>5
        <5>2. CASE lastScored[p] = scored[p]
          BY <5>1, <5>2 DEF ForgottenIsEmptied
        <5>3. CASE Len(window[p]) <= fresh[p]
          <6>1. Len(w) <= Fresher(e)
            BY <2>3, <3>3, <4>5, <5>3, PushedIsFresh DEF Event
          <6> QED
            BY <5>1, <6>1, <3>3 DEF ForgottenIsEmptied
        <5> QED
          BY <4>1, <5>2, <5>3 DEF ForgottenIsEmptied
      <4> QED
        BY <4>3, <4>4, <4>5
    <3> QED
      BY <2>4, <3>7, <3>8, <3>9 DEF PoseInv
  <2> QED
    BY <2>5, <2>6
<1>6. CASE EndScoring
  BY <1>t, <1>6
  DEF EndScoring, PoseInv, PoseTypeOK, PosesInHand, KeyIsOwn, WindowInOrder, ForgottenIsEmptied
<1>7. CASE EvictStale
  <2>u. UNCHANGED <<shots, shotTime, people, points, now, behavior, scored, fresh>>
    BY <1>7 DEF EvictStale
  <2>0. /\ window' = [p \in Persons |-> IF p \in Stale THEN <<>> ELSE window[p]]
        /\ lastScored' = [p \in Persons |-> IF p \in Stale THEN Never ELSE lastScored[p]]
    BY <1>7 DEF EvictStale
  <2>1. \A p \in Persons : (window'[p] = window[p] /\ lastScored'[p] = lastScored[p]) \/ window'[p] = <<>>
    BY <2>0
  <2>2. PoseTypeOK'
    <3>1. window' \in [Persons -> Seq([pose: Pose, t: Nat])]
      BY <1>t, <2>0, EmptySeq DEF PoseTypeOK
    <3>2. lastScored' \in [Persons -> Instant]
      BY <1>t, <1>n, <2>0 DEF PoseTypeOK
    <3> QED
      BY <1>t, <2>u, <3>1, <3>2 DEF PoseTypeOK
  <2>3. PosesInHand' /\ KeyIsOwn'
    BY <1>t, <2>u DEF PosesInHand, KeyIsOwn
  <2>4. DOMAIN <<>> = {} /\ Len(<<>>) = 0 /\ \A p \in Persons : fresh[p] >= 0
    BY <1>t DEF PoseTypeOK
  <2>5. ASSUME NEW p \in Persons PROVE WindowInOrder(p)' /\ ForgottenIsEmptied(p)'
    BY <1>t, <2>u, <2>1, <2>4 DEF WindowInOrder, ForgottenIsEmptied
  <2> QED
    BY <2>2, <2>3, <2>5 DEF PoseInv
<1>8. CASE RestartScorer
  <2>u. UNCHANGED <<shots, shotTime, people, points, now, behavior>>
    BY <1>8 DEF RestartScorer
  <2>0. /\ window' = [p \in Persons |-> <<>>] /\ lastScored' = [p \in Persons |-> Never]
        /\ scored' = [p \in Persons |-> Never] /\ fresh' = [p \in Persons |-> 0]
    BY <1>8 DEF RestartScorer
  <2>1. PoseTypeOK'
    <3>1. window' \in [Persons -> Seq([pose: Pose, t: Nat])]
      BY <2>0, EmptySeq
    <3> QED
      BY <1>t, <1>n, <2>u, <2>0, <3>1, PoseAssumption DEF PoseTypeOK
  <2>2. PosesInHand' /\ KeyIsOwn'
    BY <1>t, <2>u DEF PosesInHand, KeyIsOwn
  <2>3. DOMAIN <<>> = {}
    OBVIOUS
  <2>4. ASSUME NEW p \in Persons PROVE WindowInOrder(p)' /\ ForgottenIsEmptied(p)'
    BY <2>u, <2>0, <2>3 DEF WindowInOrder, ForgottenIsEmptied
  <2> QED
    BY <2>1, <2>2, <2>4 DEF PoseInv
<1>9. CASE PoseTick
  <2>u. UNCHANGED <<shots, shotTime, people, points, behavior, window, lastScored, scored, fresh>> /\ now' = now + 1 /\ now \in Nat
    BY <1>9, <1>t DEF PoseTick, scorerVars, PoseTypeOK
  <2>1. PoseTypeOK' /\ PosesInHand' /\ KeyIsOwn'
    <3>1. now' \in Nat
      BY <2>u
    <3>2. PoseTypeOK'
      BY <1>t, <2>u, <3>1 DEF PoseTypeOK
    <3>3. PosesInHand' /\ KeyIsOwn'
      BY <1>t, <2>u DEF PosesInHand, KeyIsOwn
    <3> QED
      BY <3>2, <3>3
  <2>2. ASSUME NEW p \in Persons PROVE WindowInOrder(p)' /\ ForgottenIsEmptied(p)'
    BY <1>t, <2>u DEF WindowInOrder, ForgottenIsEmptied
  <2> QED
    BY <2>1, <2>2 DEF PoseInv
<1> QED
  BY <1>1, <1>2, <1>3, <1>4, <1>5, <1>6, <1>7, <1>8, <1>9 DEF PoseNext

(* A window never holds a pose of another track nor an older one after a newer:  *)
(* for any number of persons, any scenes, any order of the tracker's rows and       *)
(* keys that expire at any time (detector.py:393).                              *)
THEOREM PosesCorrect == PoseSpec => []PosesOfTheTrack
<1>1. PoseInv => PosesOfTheTrack
  BY DEF PoseInv, WindowInOrder, PosesOfTheTrack
<1> QED
  BY <1>1, PoseInvInit, PoseInvStep, PTL DEF PoseSpec

(* A sequence scored within the stride of the last shares no pose pushed with    *)
(* it, however late the events come and whenever an eviction does               *)
(* (shopformer/main.py:76).                                                     *)
THEOREM ScoresAreApart == PoseSpec => ScoresApart
<1>1. PoseInv /\ [PoseNext]_poseVars =>
        [\A p \in Persons : scoring' = p /\ scoring # p =>
           now - scored[p] >= Stride \/ Fresher(Head(behavior)) >= SeqLen]_poseVars
  <2> SUFFICES ASSUME PoseInv, PoseNext, NEW p \in Persons, scoring' = p, scoring # p
               PROVE  now - scored[p] >= Stride \/ Fresher(Head(behavior)) >= SeqLen
    OBVIOUS
  <2>0. p # "nobody"
    BY PoseAssumption
  <2>1. HandleEvent
    BY <2>0 DEF PoseNext, DetectShot, WritePoints, ExpirePoints, EndScoring, EvictStale, RestartScorer, PoseTick, scorerVars
  <2> DEFINE Event == [who: Persons, suspicious: BOOLEAN, t: Nat]
  <2>2. behavior \in Seq(Event) /\ behavior # <<>>
    BY <2>1 DEF HandleEvent, PoseInv, PoseTypeOK
  <2> HIDE DEF Event
  <2>3. Head(behavior) \in Event /\ Head(behavior) = behavior[1] /\ 1 \in DOMAIN behavior
    BY <2>2, EmptySeq
  <2>4. PICK e \in Event : e = Head(behavior)
    BY <2>3
  <2>5. e.who = p /\ Ready(e)
    BY <2>0, <2>1, <2>4 DEF HandleEvent
  <2>6. ForgottenIsEmptied(p)
    BY DEF PoseInv
  <2>7. CASE lastScored[p] = scored[p]
    BY <2>5, <2>7 DEF Ready
  <2>8. CASE Len(window[p]) <= fresh[p]
    <3>1. Len(Pushed(e)) <= Fresher(e)
      BY <2>5, <2>8, PushedIsFresh DEF Event
    <3>2. fresh[p] \in 0..SeqLen /\ SeqLen \in Nat
      BY PoseAssumption DEF PoseInv, PoseTypeOK
    <3>3. Len(Pushed(e)) = SeqLen
      BY <2>5 DEF Ready
    <3>4. Fresher(e) \in Nat
      BY <2>5, <3>2 DEF Fresher
    <3> QED
      BY <2>4, <3>1, <3>2, <3>3, <3>4
  <2> QED
    BY <2>6, <2>7, <2>8 DEF ForgottenIsEmptied
<1> QED
  BY <1>1, PoseInvInit, PoseInvStep, PTL DEF PoseSpec, ScoresApart

(***************************************************************************)
(* The hub. The messages of a client are numbered as they are made: those   *)
(* in its queue are later than every one that has left it, and what has    *)
(* left it is in one place only: in the hands of a dispatcher, arrived or  *)
(* missed.                                                                 *)
(***************************************************************************)
InHand == [client: Clients, message: Nat]
Busy(d) == held[d] # Nothing

HubTypeOK ==
  /\ serial \in Nat /\ members \in Seq(Clients) /\ left \in [Dispatchers -> Seq(Clients)]
  /\ inbox \in [Clients -> Seq(Nat)] /\ got \in [Clients -> Seq(Nat)] /\ missed \in [Clients -> SUBSET Nat]
  /\ held \in [Dispatchers -> InHand \cup {Nothing}]
  /\ failed \in [Dispatchers -> SUBSET Clients]

QueueInOrder(c) ==
  Increasing(inbox[c]) /\ AllAbove(0, inbox[c]) /\ \A i \in DOMAIN inbox[c] : inbox[c][i] <= serial

GotOnce(c) ==
  /\ \A i \in DOMAIN got[c] : /\ 1 <= got[c][i] /\ got[c][i] <= serial
                              /\ AllAbove(got[c][i], inbox[c]) /\ got[c][i] \notin missed[c]
  /\ \A i, j \in DOMAIN got[c] : i # j => got[c][i] # got[c][j]

MissedBefore(c) == \A m \in missed[c] : m <= serial /\ AllAbove(m, inbox[c])

HeldOnly(d) ==
  LET c == held[d].client
      m == held[d].message
  IN /\ 1 <= m /\ m <= serial /\ AllAbove(m, inbox[c]) /\ m \notin missed[c]
     /\ \A i \in DOMAIN got[c] : got[c][i] # m
     /\ \A e \in Dispatchers : e # d /\ Busy(e) /\ held[e].client = c => held[e].message # m

QueueInv ==
  /\ HubTypeOK
  /\ \A c \in Clients : QueueInOrder(c) /\ GotOnce(c) /\ MissedBefore(c)
  /\ \A d \in Dispatchers : Busy(d) => HeldOnly(d)

(* Nothing made for a client is gone unnoticed: its queue is the last part of   *)
(* what was made for it, and what comes before is accounted for.                *)
LastOf(q, u) == Len(q) <= Len(u) /\ \A i \in 1..Len(q) : q[i] = u[Len(u) - Len(q) + i]
QueueIsLast(c) == LastOf(inbox[c], due[c])

InHandsOf(c, m) == \E d \in Dispatchers : Busy(d) /\ held[d].client = c /\ held[d].message = m
Arrived(c, m) == \E i \in 1..Len(got[c]) : got[c][i] = m

Accounted(c) ==
  \A j \in 1..Len(due[c]) - Len(inbox[c]) :
    \/ Arrived(c, due[c][j]) \/ InHandsOf(c, due[c][j]) \/ due[c][j] \in missed[c]
    \/ Len(due[c]) >= j + InboxSize

DueInv == due \in [Clients -> Seq(Nat)] /\ \A c \in Clients : QueueIsLast(c) /\ Accounted(c)

(* The reader: what it has read of a stream is a run of entries up to its       *)
(* cursor, and a read under way starts there.                                   *)
ReaderTypeOK ==
  /\ entries \in [HubStreams -> Seq(HubCameras)] /\ cursor \in [HubStreams -> Nat \cup {-1}]
  /\ reading \in [stream: HubStreams, from: Nat \cup {-1}] /\ toSend \in Seq(Nat)
  /\ wasRead \in [HubStreams -> SUBSET Nat]

ReadUpTo(s) ==
  IF cursor[s] = -1 THEN wasRead[s] = {}
  ELSE \E first \in 1..cursor[s] : wasRead[s] = first..cursor[s]
ReadsOn == reading.from = -1 \/ cursor[reading.stream] = -1 \/ cursor[reading.stream] = reading.from

ReaderInv == ReaderTypeOK /\ ReadsOn /\ \A s \in HubStreams : ReadUpTo(s)

LEMMA HubInvInit == HubInit => QueueInv /\ ReaderInv
<1> SUFFICES ASSUME HubInit PROVE QueueInv /\ ReaderInv
  OBVIOUS
<1>1. HubTypeOK
  <2>1. /\ members = <<>> /\ inbox = [c \in Clients |-> <<>>] /\ got = [c \in Clients |-> <<>>]
        /\ left = [d \in Dispatchers |-> <<>>] /\ failed = [d \in Dispatchers |-> {}]
        /\ held = [d \in Dispatchers |-> Nothing] /\ serial = 0 /\ missed = [c \in Clients |-> {}]
    BY DEF HubInit
  <2>2. members \in Seq(Clients) /\ inbox \in [Clients -> Seq(Nat)] /\ got \in [Clients -> Seq(Nat)]
        /\ left \in [Dispatchers -> Seq(Clients)]
    BY <2>1, EmptySeq
  <2> QED
    BY <2>1, <2>2 DEF HubTypeOK
<1>2. DOMAIN <<>> = {}
  OBVIOUS
<1>3. ASSUME NEW c \in Clients PROVE QueueInOrder(c) /\ GotOnce(c) /\ MissedBefore(c)
  BY <1>2 DEF HubInit, QueueInOrder, GotOnce, MissedBefore, Increasing, AllAbove
<1>4. \A d \in Dispatchers : ~Busy(d)
  BY DEF HubInit, Busy
<1>5. ReaderInv
  <2>1. entries \in [HubStreams -> Seq(HubCameras)] /\ toSend \in Seq(Nat)
    BY EmptySeq DEF HubInit
  <2> QED
    BY <2>1 DEF HubInit, ReaderInv, ReaderTypeOK, ReadsOn, ReadUpTo, Idle, HubStreams
<1> QED
  BY <1>1, <1>3, <1>4, <1>5 DEF QueueInv

LEMMA WithoutIsMembers ==
  ASSUME HubTypeOK, NEW out
  PROVE  Without(out) \in Seq(Clients)
BY SelectedFacts DEF HubTypeOK, Without

(* What a dispatcher's visit does to the queues and to its hands: a message it  *)
(* takes is later than all that have left the queue, and leaves it.             *)
LEMMA VisitEffect ==
  ASSUME QueueInv, NEW d \in Dispatchers, NEW round \in Seq(Clients), NEW dead \in SUBSET Clients,
         Visit(d, round, dead)
  PROVE  /\ members' \in Seq(Clients) /\ left' \in [Dispatchers -> Seq(Clients)]
         /\ failed' \in [Dispatchers -> SUBSET Clients]
         /\ inbox' \in [Clients -> Seq(Nat)] /\ held' \in [Dispatchers -> InHand \cup {Nothing}]
         /\ \A c \in Clients : /\ Increasing(inbox'[c])
                               /\ \A m \in Int : AllAbove(m, inbox[c]) => AllAbove(m, inbox'[c])
                               /\ \A i \in DOMAIN inbox'[c] : \E j \in DOMAIN inbox[c] : inbox'[c][i] = inbox[c][j]
         /\ \A e \in Dispatchers : e # d => held'[e] = held[e]
         /\ \/ held'[d] = Nothing
            \/ /\ held'[d] \in InHand
               /\ AllAbove(held'[d].message, inbox'[held'[d].client])
               /\ \A m \in Int : AllAbove(m, inbox[held'[d].client]) => m < held'[d].message
               /\ \E j \in DOMAIN inbox[held'[d].client] : held'[d].message = inbox[held'[d].client][j]
<1>t. /\ members \in Seq(Clients) /\ left \in [Dispatchers -> Seq(Clients)]
      /\ inbox \in [Clients -> Seq(Nat)] /\ held \in [Dispatchers -> InHand \cup {Nothing}]
      /\ failed \in [Dispatchers -> SUBSET Clients]
  BY DEF QueueInv, HubTypeOK
<1>q. \A c \in Clients : Increasing(inbox[c])
  BY DEF QueueInv, QueueInOrder
<1>1. CASE FirstBusy(round) # {}
  <2>1. PICK i \in FirstBusy(round) :
          LET q == inbox[round[i]]
          IN /\ held' = [held EXCEPT ![d] = [client |-> round[i], message |-> Head(q)]]
             /\ inbox' = [inbox EXCEPT ![round[i]] = Rest(q)]
             /\ left' = [left EXCEPT ![d] = SubSeq(round, i + 1, Len(round))]
             /\ failed' = [failed EXCEPT ![d] = dead]
             /\ members' = members
    BY <1>1 DEF Visit
  <2>2. i \in DOMAIN round /\ inbox[round[i]] # <<>>
    BY DEF FirstBusy
  <2>3. DOMAIN round = 1..Len(round) /\ Len(round) \in Nat /\ round[i] \in Clients
    BY <2>2
  <2>4. PICK k \in Clients : k = round[i]
    BY <2>3
  <2>5. PICK q \in Seq(Nat) : q = inbox[k]
    BY <1>t
  <2>6. q # <<>> /\ Increasing(q)
    BY <1>q, <2>2, <2>4, <2>5
  <2>7. /\ held' = [held EXCEPT ![d] = [client |-> k, message |-> Head(q)]]
        /\ inbox' = [inbox EXCEPT ![k] = Tail(q)]
    BY <2>1, <2>4, <2>5 DEF Rest
  <2>8. /\ Head(q) \in Nat /\ Tail(q) \in Seq(Nat) /\ Increasing(Tail(q)) /\ AllAbove(Head(q), Tail(q))
        /\ \A m \in Int : AllAbove(m, q) => m < Head(q) /\ AllAbove(m, Tail(q))
        /\ \A n \in DOMAIN Tail(q) : \E j \in DOMAIN q : Tail(q)[n] = q[j]
    BY <2>6, IncreasingTail
  <2>9. Head(q) = q[1] /\ 1 \in DOMAIN q
    BY <2>6, EmptySeq
  <2>10. SubSeq(round, i + 1, Len(round)) \in Seq(Clients)
    BY <2>2, <2>3, SubSeqProperties
  <2>11. /\ left' \in [Dispatchers -> Seq(Clients)] /\ members' \in Seq(Clients)
         /\ failed' \in [Dispatchers -> SUBSET Clients]
    BY <1>t, <2>1, <2>10
  <2>12. inbox' \in [Clients -> Seq(Nat)] /\ inbox'[k] = Tail(q) /\ \A c \in Clients : c # k => inbox'[c] = inbox[c]
    BY <1>t, <2>7, <2>8
  <2>13. [client |-> k, message |-> Head(q)] \in InHand
    BY <2>8 DEF InHand
  <2>14. /\ held' \in [Dispatchers -> InHand \cup {Nothing}] /\ held'[d] = [client |-> k, message |-> Head(q)]
         /\ \A e \in Dispatchers : e # d => held'[e] = held[e]
    BY <1>t, <2>7, <2>13
  <2>15. held'[d] \in InHand /\ held'[d].client = k /\ held'[d].message = Head(q)
    BY <2>13, <2>14
  <2>16. ASSUME NEW c \in Clients
         PROVE  /\ Increasing(inbox'[c])
                /\ \A m \in Int : AllAbove(m, inbox[c]) => AllAbove(m, inbox'[c])
                /\ \A n \in DOMAIN inbox'[c] : \E j \in DOMAIN inbox[c] : inbox'[c][n] = inbox[c][j]
    <3>1. CASE c = k
      <4>1. PICK r : r = Tail(q)
        OBVIOUS
      <4>2. inbox'[c] = r /\ inbox[c] = q
        BY <2>5, <2>12, <3>1, <4>1
      <4> QED
        BY <2>8, <4>1, <4>2
    <3>2. CASE c # k
      BY <1>q, <2>12, <3>2
    <3> QED
      BY <3>1, <3>2
  <2>17. /\ AllAbove(held'[d].message, inbox'[held'[d].client])
         /\ \A m \in Int : AllAbove(m, inbox[held'[d].client]) => m < held'[d].message
         /\ \E j \in DOMAIN inbox[held'[d].client] : held'[d].message = inbox[held'[d].client][j]
    BY <2>5, <2>8, <2>9, <2>12, <2>15
  <2> QED
    BY <2>11, <2>12, <2>14, <2>15, <2>16, <2>17
<1>2. CASE FirstBusy(round) = {}
  <2>1. /\ held' = [held EXCEPT ![d] = Nothing]
        /\ left' = [left EXCEPT ![d] = <<>>] /\ failed' = [failed EXCEPT ![d] = {}]
        /\ members' = Without(dead)
        /\ inbox' = inbox
    BY <1>2 DEF Visit
  <2>2. Without(dead) \in Seq(Clients) /\ <<>> \in Seq(Clients)
    BY WithoutIsMembers, EmptySeq DEF QueueInv
  <2>3. /\ members' \in Seq(Clients) /\ left' \in [Dispatchers -> Seq(Clients)]
        /\ failed' \in [Dispatchers -> SUBSET Clients]
        /\ held' \in [Dispatchers -> InHand \cup {Nothing}] /\ held'[d] = Nothing
        /\ \A e \in Dispatchers : e # d => held'[e] = held[e]
    BY <1>t, <2>1, <2>2
  <2> QED
    BY <1>t, <1>q, <2>1, <2>3
<1> QED
  BY <1>1, <1>2

(* A dispatcher's step: a send that returned, one that raised, or none before. *)
LEMMA DispatchKeeps ==
  ASSUME QueueInv, NEW d \in Dispatchers, Dispatch(d)
  PROVE  QueueInv'
<1>t. HubTypeOK /\ (\A c \in Clients : QueueInOrder(c) /\ GotOnce(c) /\ MissedBefore(c))
      /\ \A e \in Dispatchers : Busy(e) => HeldOnly(e)
  BY DEF QueueInv
<1>a. PICK round \in Seq(Clients), dead \in SUBSET Clients :
        /\ Visit(d, round, dead) /\ serial' = serial
        /\ \/ held[d] = Nothing /\ got' = got /\ missed' = missed
           \/ /\ Busy(d) /\ missed' = missed
              /\ got' = [got EXCEPT ![held[d].client] = Append(@, held[d].message)]
           \/ /\ Busy(d) /\ got' = got
              /\ missed' = [missed EXCEPT ![held[d].client] = @ \cup {held[d].message}]
  <2>1. CASE BeginRound(d)
    BY <1>t, <2>1 DEF BeginRound, readerVars, HubTypeOK
  <2>2. CASE Sent(d)
    BY <1>t, <2>2 DEF Sent, readerVars, HubTypeOK, Busy
  <2>3. CASE SendRaises(d)
    <3>1. held[d] \in InHand
      BY <1>t, <2>3 DEF SendRaises, HubTypeOK
    <3>2. held[d].client \in Clients
      BY <3>1 DEF InHand
    <3>3. failed[d] \cup {held[d].client} \in SUBSET Clients /\ left[d] \in Seq(Clients)
      BY <1>t, <3>2 DEF HubTypeOK
    <3> QED
      BY <2>3, <3>3 DEF SendRaises, readerVars, Busy
  <2> QED
    BY <2>1, <2>2, <2>3 DEF Dispatch
<1> DEFINE V ==
         /\ members' \in Seq(Clients) /\ left' \in [Dispatchers -> Seq(Clients)]
         /\ failed' \in [Dispatchers -> SUBSET Clients]
         /\ inbox' \in [Clients -> Seq(Nat)] /\ held' \in [Dispatchers -> InHand \cup {Nothing}]
         /\ \A c \in Clients : /\ Increasing(inbox'[c])
                               /\ \A m \in Int : AllAbove(m, inbox[c]) => AllAbove(m, inbox'[c])
                               /\ \A i \in DOMAIN inbox'[c] : \E j \in DOMAIN inbox[c] : inbox'[c][i] = inbox[c][j]
         /\ \A e \in Dispatchers : e # d => held'[e] = held[e]
         /\ \/ held'[d] = Nothing
            \/ /\ held'[d] \in InHand
               /\ AllAbove(held'[d].message, inbox'[held'[d].client])
               /\ \A m \in Int : AllAbove(m, inbox[held'[d].client]) => m < held'[d].message
               /\ \E j \in DOMAIN inbox[held'[d].client] : held'[d].message = inbox[held'[d].client][j]
<1>v. V
  BY <1>a, VisitEffect
<1>s. serial \in Nat /\ serial' = serial
  BY <1>t, <1>a DEF HubTypeOK
<1>n. \A c \in Clients : got[c] \in Seq(Nat) /\ \A i \in DOMAIN got[c] : got[c][i] \in Nat
  <2>1. \A c \in Clients : got[c] \in Seq(Nat)
    BY <1>t DEF HubTypeOK
  <2> QED
    BY <2>1
<1>m. \A c \in Clients : \A x \in missed[c] : x \in Nat
  BY <1>t DEF HubTypeOK
<1>1. ASSUME NEW c \in Clients PROVE QueueInOrder(c)'
  <2>1. QueueInOrder(c)
    BY <1>t
  <2> QED
    BY <1>v, <1>s, <2>1 DEF QueueInOrder
<1>h. ASSUME NEW e \in Dispatchers, Busy(e)
      PROVE /\ held[e] \in InHand /\ held[e].client \in Clients /\ held[e].message \in Nat
            /\ HeldOnly(e)
  <2>1. held[e] \in InHand
    BY <1>t, <1>h DEF HubTypeOK, Busy
  <2> QED
    BY <1>t, <1>h, <2>1 DEF InHand
(* What was in hand and now counts: nothing, arrived or missed. *)
<1>g. \A c \in Clients :
        /\ got'[c] \in Seq(Nat)
        /\ \A i \in DOMAIN got'[c] :
             \/ i \in DOMAIN got[c] /\ got'[c][i] = got[c][i]
             \/ Busy(d) /\ c = held[d].client /\ got'[c][i] = held[d].message
                /\ i = Len(got[c]) + 1 /\ missed' = missed
  <2>1. CASE got' = got
    BY <1>n, <2>1
  <2>2. CASE Busy(d) /\ missed' = missed /\ got' = [got EXCEPT ![held[d].client] = Append(@, held[d].message)]
    <3>1. held[d].client \in Clients /\ held[d].message \in Nat
      BY <1>h, <2>2
    <3>2. got \in [Clients -> Seq(Nat)]
      BY <1>t DEF HubTypeOK
    <3> SUFFICES ASSUME NEW c \in Clients
                 PROVE  /\ got'[c] \in Seq(Nat)
                        /\ \A i \in DOMAIN got'[c] :
                             \/ i \in DOMAIN got[c] /\ got'[c][i] = got[c][i]
                             \/ Busy(d) /\ c = held[d].client /\ got'[c][i] = held[d].message
                                /\ i = Len(got[c]) + 1 /\ missed' = missed
      OBVIOUS
    <3>3. CASE c # held[d].client
      BY <1>n, <2>2, <3>1, <3>2, <3>3
    <3>4. CASE c = held[d].client
      <4>1. got'[c] = Append(got[c], held[d].message)
        BY <2>2, <3>1, <3>2, <3>4
      <4>2. PICK g \in Seq(Nat) : g = got[c]
        BY <1>n
      <4>3. PICK n \in Nat : n = held[d].message
        BY <3>1
      <4>4. /\ Append(g, n) \in Seq(Nat) /\ Len(Append(g, n)) = Len(g) + 1
            /\ \A i \in 1..Len(g) : Append(g, n)[i] = g[i]
            /\ Append(g, n)[Len(g) + 1] = n
        BY AppendProperties
      <4>5. DOMAIN g = 1..Len(g) /\ DOMAIN Append(g, n) = 1..Len(g) + 1 /\ Len(g) \in Nat
        BY <4>4
      <4>6. \A i \in 1..Len(g) + 1 : i = Len(g) + 1 \/ i \in 1..Len(g)
        BY <4>5
      <4> QED
        BY <2>2, <3>4, <4>1, <4>2, <4>3, <4>4, <4>5, <4>6
    <3> QED
      BY <3>3, <3>4
  <2> QED
    BY <1>a, <2>1, <2>2
<1>x. \A c \in Clients :
        /\ missed'[c] \in SUBSET Nat
        /\ \A m \in missed'[c] : m \in missed[c] \/ (Busy(d) /\ c = held[d].client /\ m = held[d].message /\ got' = got)
  <2>1. missed \in [Clients -> SUBSET Nat]
    BY <1>t DEF HubTypeOK
  <2>2. CASE missed' = missed
    BY <2>1, <2>2
  <2>3. CASE Busy(d) /\ got' = got /\ missed' = [missed EXCEPT ![held[d].client] = @ \cup {held[d].message}]
    <3>1. held[d].client \in Clients /\ held[d].message \in Nat
      BY <1>h, <2>3
    <3> QED
      BY <2>1, <2>3, <3>1
  <2> QED
    BY <1>a, <2>2, <2>3
<1>2. ASSUME NEW c \in Clients PROVE MissedBefore(c)'
  <2>1. MissedBefore(c)
    BY <1>t
  <2>2. ASSUME NEW m \in missed'[c] PROVE m \in Nat /\ m <= serial /\ AllAbove(m, inbox[c])
    <3>1. CASE m \in missed[c]
      BY <1>m, <2>1, <3>1 DEF MissedBefore
    <3>2. CASE Busy(d) /\ c = held[d].client /\ m = held[d].message
      BY <1>h, <3>2 DEF HeldOnly
    <3> QED
      BY <1>x, <2>2, <3>1, <3>2
  <2> QED
    BY <1>v, <1>s, <2>2 DEF MissedBefore
<1>3. ASSUME NEW c \in Clients PROVE GotOnce(c)'
  <2>1. GotOnce(c)
    BY <1>t
  <2>2. ASSUME NEW i \in DOMAIN got'[c]
        PROVE  /\ got'[c][i] \in Nat /\ 1 <= got'[c][i] /\ got'[c][i] <= serial /\ AllAbove(got'[c][i], inbox[c])
               /\ got'[c][i] \notin missed'[c]
    <3>1. CASE i \in DOMAIN got[c] /\ got'[c][i] = got[c][i]
      <4>1. ~(Busy(d) /\ c = held[d].client /\ got[c][i] = held[d].message)
        BY <1>h, <3>1 DEF HeldOnly
      <4> QED
        BY <1>n, <1>x, <2>1, <3>1, <4>1 DEF GotOnce
    <3>2. CASE Busy(d) /\ c = held[d].client /\ got'[c][i] = held[d].message /\ missed' = missed
      BY <1>h, <3>2 DEF HeldOnly
    <3> QED
      BY <1>g, <3>1, <3>2
  <2>3. ASSUME NEW i \in DOMAIN got'[c], NEW j \in DOMAIN got'[c], i # j PROVE got'[c][i] # got'[c][j]
    <3> DEFINE Old(n) == n \in DOMAIN got[c] /\ got'[c][n] = got[c][n]
               New(n) == Busy(d) /\ c = held[d].client /\ got'[c][n] = held[d].message /\ n = Len(got[c]) + 1
    <3>1. (Old(i) \/ New(i)) /\ (Old(j) \/ New(j))
      BY <1>g
    <3>2. CASE Old(i) /\ Old(j)
      BY <2>1, <2>3, <3>2 DEF GotOnce
    <3>3. CASE Old(i) /\ New(j)
      BY <1>h, <3>3 DEF HeldOnly
    <3>4. CASE New(i) /\ Old(j)
      BY <1>h, <3>4 DEF HeldOnly
    <3>5. ~(New(i) /\ New(j))
      BY <2>3
    <3> QED
      BY <3>1, <3>2, <3>3, <3>4, <3>5
  <2> QED
    BY <1>v, <1>s, <2>2, <2>3 DEF GotOnce
<1>4. ASSUME NEW e \in Dispatchers, Busy(e)' PROVE HeldOnly(e)'
  <2> DEFINE c == held'[e].client
             m == held'[e].message
  <2>1. CASE e # d
    <3>0. held'[e] = held[e] /\ Busy(e)
      BY <1>v, <1>4, <2>1 DEF Busy
    <3>1. c = held[e].client /\ m = held[e].message /\ c \in Clients /\ m \in Nat /\ HeldOnly(e)
      BY <1>h, <3>0
    <3> HIDE DEF c, m
    <3>2. 1 <= m /\ m <= serial /\ AllAbove(m, inbox[c]) /\ m \notin missed[c]
          /\ (\A i \in DOMAIN got[c] : got[c][i] # m)
      BY <3>1 DEF HeldOnly
    <3>3. ~(Busy(d) /\ held[d].client = c /\ held[d].message = m)
      BY <2>1, <3>0, <3>1 DEF HeldOnly
    <3>4. m \notin missed'[c] /\ \A i \in DOMAIN got'[c] : got'[c][i] # m
      BY <1>g, <1>x, <3>1, <3>2, <3>3
    <3>5. AllAbove(m, inbox'[c])
      BY <1>v, <3>1, <3>2
    <3>6. ASSUME NEW f \in Dispatchers, f # e, held'[f] # Nothing, held'[f].client = c
          PROVE  held'[f].message # m
      <4>1. CASE f # d
        <5>1. held'[f] = held[f]
          BY <1>v, <4>1
        <5> QED
          BY <3>1, <3>6, <5>1 DEF HeldOnly, Busy
      <4>2. CASE f = d
        <5>1. m < held'[f].message
          BY <1>v, <3>1, <3>2, <3>6, <4>2
        <5>2. held'[f].message \in Nat
          BY <1>v, <3>6, <4>2 DEF InHand
        <5> QED
          BY <3>1, <5>1, <5>2
      <4> QED
        BY <4>1, <4>2
    <3> QED
      BY <1>s, <3>2, <3>4, <3>5, <3>6 DEF HeldOnly, Busy, c, m
  <2>2. CASE e = d
    <3>1. /\ held'[e] \in InHand /\ AllAbove(m, inbox'[c])
          /\ \A x \in Int : AllAbove(x, inbox[c]) => x < m
          /\ \E j \in DOMAIN inbox[c] : m = inbox[c][j]
      BY <1>v, <1>4, <2>2 DEF Busy
    <3>2. c \in Clients /\ m \in Nat
      BY <3>1 DEF InHand
    <3> HIDE DEF c, m
    <3>a. m <= serial /\ 0 < m
      BY <1>t, <3>1, <3>2 DEF QueueInOrder
    <3>3. m <= serial /\ 1 <= m
      BY <3>2, <3>a
    <3>4. ASSUME NEW i \in DOMAIN got'[c] PROVE got'[c][i] # m
      <4>1. got'[c][i] \in Nat /\ AllAbove(got'[c][i], inbox[c])
        <5>1. CASE i \in DOMAIN got[c] /\ got'[c][i] = got[c][i]
          BY <1>t, <1>n, <3>2, <5>1 DEF GotOnce
        <5>2. CASE Busy(d) /\ c = held[d].client /\ got'[c][i] = held[d].message
          BY <1>h, <5>2 DEF HeldOnly
        <5> QED
          BY <1>g, <3>2, <5>1, <5>2
      <4>2. got'[c][i] < m
        BY <3>1, <4>1
      <4> QED
        BY <3>2, <4>1, <4>2
    <3>5. m \notin missed'[c]
      <4>1. ASSUME NEW x \in missed'[c] PROVE x \in Nat /\ AllAbove(x, inbox[c])
        <5>1. CASE x \in missed[c]
          BY <1>t, <1>m, <3>2, <5>1 DEF MissedBefore
        <5>2. CASE Busy(d) /\ c = held[d].client /\ x = held[d].message
          BY <1>h, <5>2 DEF HeldOnly
        <5> QED
          BY <1>x, <3>2, <4>1, <5>1, <5>2
      <4>2. \A x \in missed'[c] : x < m
        BY <3>1, <4>1
      <4> QED
        BY <3>2, <4>2
    <3>6. ASSUME NEW f \in Dispatchers, f # e, held'[f] # Nothing, held'[f].client = c
          PROVE  held'[f].message # m
      <4>1. held'[f] = held[f] /\ Busy(f)
        BY <1>v, <2>2, <3>6 DEF Busy
      <4>2. held[f].message \in Nat /\ AllAbove(held[f].message, inbox[c])
        BY <1>h, <3>6, <4>1 DEF HeldOnly
      <4>3. held[f].message < m
        BY <3>1, <4>2
      <4> QED
        BY <3>2, <4>1, <4>2, <4>3
    <3> QED
      BY <1>s, <3>1, <3>3, <3>4, <3>5, <3>6 DEF HeldOnly, Busy, c, m
  <2> QED
    BY <2>1, <2>2
<1>5. HubTypeOK'
  <2>1. got' \in [Clients -> Seq(Nat)] /\ missed' \in [Clients -> SUBSET Nat]
    <3>1. DOMAIN got' = Clients /\ DOMAIN missed' = Clients
      BY <1>t, <1>a DEF HubTypeOK
    <3>2. got' = [c \in Clients |-> got'[c]] /\ missed' = [c \in Clients |-> missed'[c]]
      BY <1>t, <1>a, <3>1 DEF HubTypeOK
    <3> QED
      BY <1>g, <1>x, <3>2
  <2> QED
    BY <1>v, <1>s, <2>1 DEF HubTypeOK
<1> QED
  BY <1>1, <1>2, <1>3, <1>4, <1>5 DEF QueueInv

LEMMA QueueInvStep == QueueInv /\ [HubNext]_hubVars => QueueInv'
<1> SUFFICES ASSUME QueueInv, [HubNext]_hubVars PROVE QueueInv'
  OBVIOUS
<1>t. HubTypeOK /\ (\A c \in Clients : QueueInOrder(c) /\ GotOnce(c) /\ MissedBefore(c))
      /\ \A e \in Dispatchers : Busy(e) => HeldOnly(e)
  BY DEF QueueInv
<1> DEFINE queueVars == <<serial, inbox, held, left, failed, got, missed>>
<1>same. ASSUME UNCHANGED queueVars, members' \in Seq(Clients) PROVE QueueInv'
  BY <1>t, <1>same DEF QueueInv, HubTypeOK, QueueInOrder, GotOnce, MissedBefore, HeldOnly, Busy
<1>w. members \in Seq(Clients)
  BY <1>t DEF HubTypeOK
<1>1. CASE UNCHANGED hubVars
  BY <1>1, <1>same, <1>w DEF hubVars
<1>2. ASSUME NEW s \in HubStreams, NEW cam \in HubCameras, AddEntry(s, cam) PROVE QueueInv'
  BY <1>2, <1>same, <1>w DEF AddEntry, readerVars, senderVars
<1>3. CASE BeginRead \/ EndRead \/ ReadNothing \/ SkipEntry
  BY <1>3, <1>same, <1>w DEF BeginRead, EndRead, ReadNothing, SkipEntry, senderVars
<1>4. CASE EnqueueEntry
  <2>u. UNCHANGED <<members, held, left, failed, got, missed>>
    BY <1>4 DEF EnqueueEntry, senderVars
  <2>1. PICK to \in SUBSET Clients :
          /\ serial' = serial + 1
          /\ inbox' = [c \in Clients |-> IF c \in to THEN Put(inbox[c], serial + 1) ELSE inbox[c]]
    <3>1. \A i \in DOMAIN members : members[i] \in Clients
      BY <1>w
    <3>2. \A cam : Receivers(cam) \in SUBSET Clients
      BY <3>1 DEF Receivers
    <3> QED
      BY <1>4, <3>2 DEF EnqueueEntry, Enqueue
  <2>2. serial \in Nat /\ serial' \in Nat /\ serial < serial' /\ \A c \in Clients : inbox[c] \in Seq(Nat) /\ missed[c] \in SUBSET Nat
    BY <1>t, <2>1 DEF HubTypeOK
(* What one message more does to a queue. *)
  <2>3. ASSUME NEW c \in Clients
        PROVE  /\ inbox'[c] \in Seq(Nat)
               /\ QueueInOrder(c)'
               /\ \A m \in Int : AllAbove(m, inbox[c]) /\ m <= serial => AllAbove(m, inbox'[c])
    <3>1. PICK q \in Seq(Nat) : q = inbox[c]
      BY <2>2
    <3>2. Increasing(q) /\ AllAbove(0, q) /\ \A i \in DOMAIN q : q[i] <= serial
      BY <1>t, <3>1 DEF QueueInOrder
    <3>3. \A i \in DOMAIN q : q[i] \in Nat
      OBVIOUS
    <3>4. CASE c \notin to
      <4>1. inbox'[c] = q
        BY <2>1, <3>1, <3>4
      <4>2. \A i \in DOMAIN q : q[i] <= serial'
        BY <2>2, <3>2, <3>3
      <4> QED
        BY <2>2, <3>1, <3>2, <4>1, <4>2 DEF QueueInOrder
    <3>5. CASE c \in to /\ Len(q) < InboxSize
      <4>1. inbox'[c] = Append(q, serial')
        BY <2>1, <3>1, <3>5, HubAssumption DEF Put
      <4>2. \A i \in DOMAIN q : q[i] < serial'
        BY <2>2, <3>2, <3>3
      <4>3. /\ Append(q, serial') \in Seq(Nat) /\ Increasing(Append(q, serial'))
            /\ \A i \in DOMAIN Append(q, serial') : Append(q, serial')[i] <= serial'
            /\ \A m \in Int : AllAbove(m, q) /\ m < serial' => AllAbove(m, Append(q, serial'))
        BY <2>2, <3>2, <4>2, IncreasingAppend
      <4>4. \A m \in Int : m <= serial => m < serial'
        BY <2>2
      <4>5. AllAbove(0, Append(q, serial'))
        BY <2>2, <3>2, <4>3
      <4> QED
        BY <2>2, <3>1, <4>1, <4>3, <4>4, <4>5 DEF QueueInOrder
    <3>6. CASE c \in to /\ ~(Len(q) < InboxSize)
      <4>0. Len(q) >= InboxSize /\ q # <<>>
        BY <3>6, HubAssumption, EmptySeq
      <4>1. inbox'[c] = Append(Tail(q), serial')
        BY <2>1, <3>1, <3>6, <4>0 DEF Put
      <4>2. PICK r : r = Tail(q)
        OBVIOUS
      <4>3. /\ Head(q) \in Nat /\ r \in Seq(Nat) /\ Increasing(r) /\ AllAbove(Head(q), r)
            /\ \A m \in Int : AllAbove(m, q) => m < Head(q) /\ AllAbove(m, r)
            /\ \A i \in DOMAIN r : \E j \in DOMAIN q : r[i] = q[j]
        BY <3>2, <4>0, <4>2, IncreasingTail
      <4>4. \A i \in DOMAIN r : r[i] < serial'
        BY <2>2, <3>2, <3>3, <4>3
      <4>5. /\ Append(r, serial') \in Seq(Nat) /\ Increasing(Append(r, serial'))
            /\ \A i \in DOMAIN Append(r, serial') : Append(r, serial')[i] <= serial'
            /\ \A m \in Int : AllAbove(m, r) /\ m < serial' => AllAbove(m, Append(r, serial'))
        BY <2>2, <4>3, <4>4, IncreasingAppend
      <4>6. \A m \in Int : m <= serial => m < serial'
        BY <2>2
      <4>8. AllAbove(0, Append(r, serial'))
        BY <2>2, <3>2, <4>3, <4>5
      <4>9. \A m \in Int : AllAbove(m, q) /\ m <= serial => AllAbove(m, Append(r, serial'))
        BY <4>3, <4>5, <4>6
      <4>10. inbox'[c] = Append(r, serial') /\ inbox[c] = q
        BY <3>1, <4>1, <4>2
      <4> QED
        BY <2>2, <4>1, <4>3, <4>5, <4>8, <4>9, <4>10 DEF QueueInOrder
    <3> QED
      BY <2>2, <3>4, <3>5, <3>6
  <2>4. HubTypeOK'
    <3>1. inbox' \in [Clients -> Seq(Nat)]
      BY <2>1, <2>3
    <3> QED
      BY <1>t, <2>u, <2>2, <3>1 DEF HubTypeOK
  <2>5. ASSUME NEW c \in Clients PROVE GotOnce(c)' /\ MissedBefore(c)'
    <3>1. GotOnce(c) /\ MissedBefore(c) /\ got'[c] = got[c]
      BY <1>t, <2>u
    <3>2. got[c] \in Seq(Nat)
      BY <1>t DEF HubTypeOK
    <3>3. \A i \in DOMAIN got[c] : got[c][i] \in Nat
      BY <3>2
    <3>4. ASSUME NEW i \in DOMAIN got[c]
          PROVE  /\ 1 <= got[c][i] /\ got[c][i] <= serial' /\ AllAbove(got[c][i], inbox'[c])
                 /\ got[c][i] \notin missed'[c]
      <4>1. 1 <= got[c][i] /\ got[c][i] <= serial /\ AllAbove(got[c][i], inbox[c]) /\ got[c][i] \notin missed[c]
        BY <3>1 DEF GotOnce
      <4>2. got[c][i] \in Int /\ got[c][i] <= serial'
        BY <2>2, <3>3, <4>1
      <4> QED
        BY <2>u, <2>3, <4>1, <4>2
    <3>5. ASSUME NEW m \in missed'[c] PROVE m <= serial' /\ AllAbove(m, inbox'[c])
      <4>1. m \in Nat /\ m <= serial /\ AllAbove(m, inbox[c])
        BY <1>t, <2>u, <3>1, <3>5 DEF HubTypeOK, MissedBefore
      <4> QED
        BY <2>2, <2>3, <4>1
    <3> QED
      BY <3>1, <3>4, <3>5 DEF GotOnce, MissedBefore
  <2>6. ASSUME NEW d \in Dispatchers, Busy(d)' PROVE HeldOnly(d)'
    <3>1. Busy(d) /\ HeldOnly(d) /\ held'[d] = held[d] /\ held[d] \in InHand
      BY <1>t, <2>u, <2>6 DEF Busy, HubTypeOK
    <3>2. PICK c \in Clients, m \in Nat : c = held[d].client /\ m = held[d].message
      BY <3>1 DEF InHand
    <3>3. /\ 1 <= m /\ m <= serial /\ AllAbove(m, inbox[c]) /\ m \notin missed[c]
          /\ \A i \in DOMAIN got[c] : got[c][i] # m
          /\ \A e \in Dispatchers : e # d /\ Busy(e) /\ held[e].client = c => held[e].message # m
      BY <3>1, <3>2 DEF HeldOnly
    <3>4. m \notin missed'[c]
      BY <2>u, <3>3
    <3>5. m <= serial' /\ AllAbove(m, inbox'[c])
      <4>1. c \in Clients /\ m \in Int /\ m <= serial'
        BY <2>2, <3>2, <3>3
      <4> QED
        BY <2>3, <3>3, <4>1
    <3> QED
      BY <2>u, <3>1, <3>2, <3>3, <3>4, <3>5 DEF HeldOnly, Busy
  <2> QED
    BY <2>3, <2>4, <2>5, <2>6 DEF QueueInv
<1>5. ASSUME NEW c \in Clients, Connect(c) PROVE QueueInv'
  <2>1. members' \in Seq(Clients)
    BY <1>5, <1>w, AppendProperties DEF Connect
  <2> QED
    BY <1>5, <1>same, <2>1 DEF Connect, readerVars, senderVars
<1>6. ASSUME NEW c \in Clients, Stall(c) \/ Close(c) PROVE QueueInv'
  BY <1>6, <1>same, <1>w DEF Stall, Close, readerVars, senderVars
<1>7. ASSUME NEW c \in Clients, Disconnect(c) PROVE QueueInv'
  <2>1. members' \in Seq(Clients)
    BY <1>7, <1>t, WithoutIsMembers DEF Disconnect
  <2> QED
    BY <1>7, <1>same, <2>1 DEF Disconnect, readerVars, senderVars
<1>8. CASE StopHub
  <2>1. /\ members' = <<>> /\ held' = [d \in Dispatchers |-> Nothing]
        /\ missed' = [c \in Clients |-> missed[c] \cup HandedTo(c)]
        /\ left' = [d \in Dispatchers |-> <<>>] /\ failed' = [d \in Dispatchers |-> {}]
        /\ UNCHANGED <<serial, inbox, got>>
    BY <1>8 DEF StopHub, readerVars
  <2>2. serial \in Nat /\ \A c \in Clients : missed[c] \in SUBSET Nat
    BY <1>t DEF HubTypeOK
  <2>3. ASSUME NEW c \in Clients, NEW m \in HandedTo(c)
        PROVE  m \in Nat /\ m <= serial /\ AllAbove(m, inbox[c]) /\ \A i \in DOMAIN got[c] : got[c][i] # m
    <3>1. PICK d \in Dispatchers : held[d].client = c /\ m = held[d].message
      BY <2>3 DEF HandedTo
    <3>2. CASE Busy(d)
      <4>1. held[d] \in InHand /\ HeldOnly(d)
        BY <1>t, <3>2 DEF Busy, HubTypeOK
      <4> QED
        BY <3>1, <4>1 DEF HeldOnly, InHand
    <3>3. CASE held[d] = Nothing
      <4>1. m = 0
        BY <3>1, <3>3 DEF Nothing
      <4>2. GotOnce(c) /\ QueueInOrder(c)
        BY <1>t
      <4> QED
        BY <2>2, <4>1, <4>2 DEF GotOnce, QueueInOrder
    <3> QED
      BY <3>2, <3>3 DEF Busy
  <2>4. ASSUME NEW c \in Clients PROVE QueueInOrder(c)' /\ GotOnce(c)' /\ MissedBefore(c)'
    <3>1. QueueInOrder(c) /\ GotOnce(c) /\ MissedBefore(c)
      BY <1>t
    <3>2. missed'[c] = missed[c] \cup HandedTo(c) /\ inbox' = inbox /\ got' = got /\ serial' = serial
      BY <2>1
    <3> QED
      BY <2>3, <3>1, <3>2 DEF QueueInOrder, GotOnce, MissedBefore
  <2>5. \A d \in Dispatchers : ~Busy(d)'
    BY <2>1 DEF Busy
  <2>6. HubTypeOK'
    <3>1. members' \in Seq(Clients) /\ left' \in [Dispatchers -> Seq(Clients)]
      BY <2>1, EmptySeq
    <3>2. missed' \in [Clients -> SUBSET Nat]
      BY <2>1, <2>2, <2>3
    <3> QED
      BY <1>t, <2>1, <3>1, <3>2 DEF HubTypeOK
  <2> QED
    BY <2>4, <2>5, <2>6 DEF QueueInv
<1>9. ASSUME NEW d \in Dispatchers, Dispatch(d) PROVE QueueInv'
  BY <1>9, DispatchKeeps
<1> QED
  BY <1>1, <1>2, <1>3, <1>4, <1>5, <1>6, <1>7, <1>8, <1>9 DEF HubNext

(* The last part of a sequence: without its first element, and with one more    *)
(* at the end of both.                                                          *)
LEMMA LastTail ==
  ASSUME NEW q \in Seq(Nat), NEW u \in Seq(Nat), LastOf(q, u), q # <<>>
  PROVE  /\ Tail(q) \in Seq(Nat) /\ LastOf(Tail(q), u) /\ Len(Tail(q)) = Len(q) - 1
         /\ u[Len(u) - Len(q) + 1] = Head(q)
         /\ \A j \in 1..Len(u) - Len(Tail(q)) : j \in 1..Len(u) - Len(q) \/ j = Len(u) - Len(q) + 1
<1>1. PICK l \in Nat, m \in Nat : l = Len(q) /\ m = Len(u)
  OBVIOUS
<1>2. l >= 1 /\ l <= m /\ \A i \in 1..l : q[i] = u[m - l + i]
  BY <1>1, EmptySeq DEF LastOf
<1>0. Tail(q) \in Seq(Nat)
  BY EmptySeq
<1>3. PICK r \in Seq(Nat) : r = Tail(q)
  BY <1>0
<1>4. Len(r) = l - 1 /\ \A i \in 1..l - 1 : r[i] = q[i + 1]
  BY <1>1, <1>3
<1>5. ASSUME NEW i \in 1..l - 1 PROVE r[i] = u[m - (l - 1) + i]
  <2>1. i + 1 \in 1..l /\ m - l + (i + 1) = m - (l - 1) + i
    BY <1>2
  <2>2. q[i + 1] = u[m - l + (i + 1)]
    BY <1>2, <2>1
  <2> QED
    BY <1>4, <2>1, <2>2
<1>6. LastOf(r, u)
  <2>1. l - 1 <= m
    BY <1>2
  <2> QED
    BY <1>1, <1>4, <1>5, <2>1 DEF LastOf
<1>7. u[m - l + 1] = q[1] /\ q[1] = Head(q)
  BY <1>2
<1>8. \A j \in 1..m - (l - 1) : j \in 1..m - l \/ j = m - l + 1
  BY <1>2
<1> QED
  BY <1>1, <1>3, <1>4, <1>6, <1>7, <1>8

LEMMA LastAppend ==
  ASSUME NEW q \in Seq(Nat), NEW u \in Seq(Nat), LastOf(q, u), NEW n \in Nat
  PROVE  /\ Append(q, n) \in Seq(Nat) /\ Append(u, n) \in Seq(Nat)
         /\ LastOf(Append(q, n), Append(u, n))
         /\ Len(Append(u, n)) = Len(u) + 1
         /\ \A j \in 1..Len(Append(u, n)) - Len(Append(q, n)) :
              j \in 1..Len(u) - Len(q) /\ Append(u, n)[j] = u[j]
<1>1. PICK l \in Nat, m \in Nat : l = Len(q) /\ m = Len(u)
  OBVIOUS
<1>2. l <= m /\ \A i \in 1..l : q[i] = u[m - l + i]
  BY <1>1 DEF LastOf
<1>0. Append(q, n) \in Seq(Nat) /\ Append(u, n) \in Seq(Nat)
  BY AppendProperties
<1>3. PICK r \in Seq(Nat) : r = Append(q, n)
  BY <1>0
<1>4. PICK v \in Seq(Nat) : v = Append(u, n)
  BY <1>0
<1>5. Len(r) = l + 1 /\ r[l + 1] = n /\ \A i \in 1..l : r[i] = q[i]
  BY <1>1, <1>3, AppendProperties
<1>6. Len(v) = m + 1 /\ v[m + 1] = n /\ \A i \in 1..m : v[i] = u[i]
  BY <1>1, <1>4, AppendProperties
<1>7. ASSUME NEW i \in 1..l + 1 PROVE r[i] = v[(m + 1) - (l + 1) + i]
  <2>1. CASE i = l + 1
    <3>1. (m + 1) - (l + 1) + i = m + 1
      BY <2>1
    <3> QED
      BY <1>5, <1>6, <2>1, <3>1
  <2>2. CASE i \in 1..l
    <3>1. (m + 1) - (l + 1) + i = m - l + i /\ m - l + i \in 1..m
      BY <1>2, <2>2
    <3>2. r[i] = u[m - l + i]
      BY <1>2, <1>5, <2>2
    <3> QED
      BY <1>6, <3>1, <3>2
  <2>3. i = l + 1 \/ i \in 1..l
    OBVIOUS
  <2> QED
    BY <2>1, <2>2, <2>3
<1>8. LastOf(r, v)
  <2>1. l + 1 <= m + 1
    BY <1>2
  <2> QED
    BY <1>5, <1>6, <1>7, <2>1 DEF LastOf
<1>9. \A j \in 1..(m + 1) - (l + 1) : j \in 1..m - l /\ j \in 1..m
  BY <1>2
<1> QED
  BY <1>1, <1>3, <1>4, <1>5, <1>6, <1>8, <1>9

LEMMA LastHolds ==
  ASSUME NEW q \in Seq(Nat), NEW u \in Seq(Nat), LastOf(q, u), NEW j \in 1..Len(u), j \notin 1..Len(u) - Len(q)
  PROVE  \E i \in 1..Len(q) : q[i] = u[j]
<1>1. PICK l \in Nat, m \in Nat : l = Len(q) /\ m = Len(u)
  OBVIOUS
<1>2. l <= m /\ \A i \in 1..l : q[i] = u[m - l + i]
  BY <1>1 DEF LastOf
<1>3. j \in 1..m /\ j \notin 1..m - l
  BY <1>1
<1>4. j - (m - l) \in 1..l /\ m - l + (j - (m - l)) = j
  BY <1>2, <1>3
<1>5. q[j - (m - l)] = u[j]
  BY <1>2, <1>4
<1> QED
  BY <1>1, <1>4, <1>5

LEMMA DueInvInit == HubInit => DueInv
<1> SUFFICES ASSUME HubInit PROVE DueInv
  OBVIOUS
<1>1. due = [c \in Clients |-> <<>>] /\ inbox = [c \in Clients |-> <<>>]
  BY DEF HubInit
<1>2. due \in [Clients -> Seq(Nat)] /\ \A c \in Clients : Len(due[c]) = 0 /\ Len(inbox[c]) = 0
  BY <1>1, EmptySeq
<1>3. 1..0 = {} /\ 1..0 - 0 = {} /\ 0 <= 0
  OBVIOUS
<1>4. ASSUME NEW c \in Clients PROVE QueueIsLast(c) /\ Accounted(c)
  <2>1. Len(due[c]) = 0 /\ Len(inbox[c]) = 0
    BY <1>2
  <2> QED
    BY <1>3, <2>1 DEF QueueIsLast, LastOf, Accounted
<1> QED
  BY <1>2, <1>4 DEF DueInv

(* What one visit takes from a queue is in the dispatcher's hands. *)
LEMMA VisitTakes ==
  ASSUME HubTypeOK, NEW d \in Dispatchers, NEW round \in Seq(Clients), NEW dead \in SUBSET Clients,
         Visit(d, round, dead), NEW c \in Clients
  PROVE  \/ inbox'[c] = inbox[c]
         \/ /\ inbox[c] # <<>> /\ inbox'[c] = Tail(inbox[c])
            /\ held'[d] = [client |-> c, message |-> Head(inbox[c])]
<1>t. inbox \in [Clients -> Seq(Nat)] /\ held \in [Dispatchers -> InHand \cup {Nothing}]
  BY DEF HubTypeOK
<1>1. CASE FirstBusy(round) # {}
  <2>1. PICK i \in FirstBusy(round) :
          LET q == inbox[round[i]]
          IN /\ held' = [held EXCEPT ![d] = [client |-> round[i], message |-> Head(q)]]
             /\ inbox' = [inbox EXCEPT ![round[i]] = Rest(q)]
    BY <1>1 DEF Visit
  <2>2. inbox[round[i]] # <<>>
    BY DEF FirstBusy
  <2>3. CASE round[i] = c
    BY <1>t, <2>1, <2>2, <2>3 DEF Rest
  <2>4. CASE round[i] # c
    BY <1>t, <2>1, <2>4
  <2> QED
    BY <2>3, <2>4
<1>2. CASE FirstBusy(round) = {}
  BY <1>2 DEF Visit
<1> QED
  BY <1>1, <1>2

LEMMA DueInvStep == QueueInv /\ DueInv /\ [HubNext]_hubVars => DueInv'
<1> SUFFICES ASSUME QueueInv, DueInv, [HubNext]_hubVars PROVE DueInv'
  OBVIOUS
<1>t. HubTypeOK /\ due \in [Clients -> Seq(Nat)]
  BY DEF QueueInv, DueInv
<1>c. /\ inbox \in [Clients -> Seq(Nat)] /\ got \in [Clients -> Seq(Nat)] /\ missed \in [Clients -> SUBSET Nat]
      /\ held \in [Dispatchers -> InHand \cup {Nothing}] /\ serial \in Nat
  BY <1>t DEF HubTypeOK
<1>q. \A c \in Clients : QueueIsLast(c) /\ Accounted(c)
  BY DEF DueInv
<1>same. ASSUME UNCHANGED <<due, inbox, got, missed, held>> PROVE DueInv'
  BY <1>t, <1>q, <1>same DEF DueInv, QueueIsLast, Accounted, Arrived, InHandsOf, Busy
<1>1. CASE UNCHANGED hubVars
  BY <1>1, <1>same DEF hubVars
<1>2. ASSUME NEW s \in HubStreams, NEW cam \in HubCameras, AddEntry(s, cam) PROVE DueInv'
  BY <1>2, <1>same DEF AddEntry, readerVars, senderVars
<1>3. CASE BeginRead \/ EndRead \/ ReadNothing \/ SkipEntry
  BY <1>3, <1>same DEF BeginRead, EndRead, ReadNothing, SkipEntry, senderVars
<1>4. CASE EnqueueEntry
  <2>1. PICK to :
          /\ serial' = serial + 1
          /\ inbox' = [c \in Clients |-> IF c \in to THEN Put(inbox[c], serial + 1) ELSE inbox[c]]
          /\ due' = [c \in Clients |-> IF c \in to THEN Append(due[c], serial + 1) ELSE due[c]]
    BY <1>4 DEF EnqueueEntry, Enqueue
  <2>2. UNCHANGED <<held, got, missed>>
    BY <1>4 DEF EnqueueEntry, senderVars
  <2>3. ASSUME NEW c \in Clients PROVE due'[c] \in Seq(Nat) /\ QueueIsLast(c)' /\ Accounted(c)'
    <3>1. PICK q \in Seq(Nat), u \in Seq(Nat) : q = inbox[c] /\ u = due[c]
      BY <1>t, <1>c
    <3>2. PICK n \in Nat : n = serial + 1
      BY <1>c
    <3>3. LastOf(q, u)
      BY <1>q, <3>1 DEF QueueIsLast
    <3> DEFINE Gone(m) == Arrived(c, m) \/ InHandsOf(c, m) \/ m \in missed[c]
    <3>4. \A j \in 1..Len(u) - Len(q) : Gone(u[j]) \/ Len(u) >= j + InboxSize
      BY <1>q, <3>1 DEF Accounted
    <3>5. \A m : Gone(m) => Arrived(c, m)' \/ InHandsOf(c, m)' \/ m \in missed'[c]
      BY <2>2 DEF Arrived, InHandsOf, Busy
    <3> HIDE DEF Gone
    <3>6. CASE c \notin to
      <4>1. inbox'[c] = q /\ due'[c] = u
        BY <2>1, <3>1, <3>6
      <4>2. QueueIsLast(c)'
        BY <3>3, <4>1 DEF QueueIsLast, LastOf
      <4>3. \A j \in 1..Len(u) - Len(q) :
              \/ Arrived(c, u[j])' \/ InHandsOf(c, u[j])' \/ u[j] \in missed'[c]
              \/ Len(u) >= j + InboxSize
        BY <3>4, <3>5
      <4> QED
        BY <4>1, <4>2, <4>3 DEF Accounted, Arrived, InHandsOf, Busy
    <3>7. CASE c \in to
      <4> DEFINE r == IF Len(q) >= InboxSize THEN Tail(q) ELSE q
      <4>1. inbox'[c] = Append(r, n) /\ due'[c] = Append(u, n)
        BY <2>1, <3>1, <3>2, <3>7 DEF Put
      <4>2. InboxSize \in Nat \ {0}
        BY HubAssumption
      <4>3. /\ r \in Seq(Nat) /\ LastOf(r, u)
            /\ \A j \in 1..Len(u) - Len(r) : Gone(u[j]) \/ Len(u) + 1 >= j + InboxSize
        <5>1. CASE Len(q) < InboxSize
          <6>1. r = q
            BY <4>2, <5>1
          <6>2. \A j \in 1..Len(u) - Len(q) : Len(u) >= j + InboxSize => Len(u) + 1 >= j + InboxSize
            BY <4>2
          <6> QED
            BY <3>3, <3>4, <6>1, <6>2
        <5>2. CASE Len(q) >= InboxSize
          <6>1. r = Tail(q) /\ q # <<>>
            BY <4>2, <5>2, EmptySeq
          <6> HIDE DEF r
          <6>2. /\ r \in Seq(Nat) /\ LastOf(r, u)
                /\ \A j \in 1..Len(u) - Len(r) : j \in 1..Len(u) - Len(q) \/ j = Len(u) - Len(q) + 1
            BY <3>3, <6>1, LastTail
          <6>3. Len(u) + 1 >= (Len(u) - Len(q) + 1) + InboxSize
            BY <4>2, <5>2
          <6>4. \A j \in 1..Len(u) - Len(q) : Len(u) >= j + InboxSize => Len(u) + 1 >= j + InboxSize
            BY <4>2
          <6> QED
            BY <3>4, <6>2, <6>3, <6>4
        <5>3. Len(q) < InboxSize \/ Len(q) >= InboxSize
          BY <4>2
        <5> QED
          BY <5>1, <5>2, <5>3
      <4> HIDE DEF r
      <4>4. /\ Append(u, n) \in Seq(Nat) /\ Append(r, n) \in Seq(Nat)
            /\ LastOf(Append(r, n), Append(u, n)) /\ Len(Append(u, n)) = Len(u) + 1
            /\ \A j \in 1..Len(Append(u, n)) - Len(Append(r, n)) :
                 j \in 1..Len(u) - Len(r) /\ Append(u, n)[j] = u[j]
        BY <4>3, LastAppend
      <4>5. PICK v \in Seq(Nat), w \in Seq(Nat) : v = Append(u, n) /\ w = Append(r, n)
        BY <4>4
      <4>6. due'[c] = v /\ inbox'[c] = w
        BY <4>1, <4>5
      <4>7. QueueIsLast(c)'
        BY <4>4, <4>5, <4>6 DEF QueueIsLast, LastOf
      <4>8. \A j \in 1..Len(v) - Len(w) :
              \/ Arrived(c, v[j])' \/ InHandsOf(c, v[j])' \/ v[j] \in missed'[c]
              \/ Len(v) >= j + InboxSize
        BY <3>5, <4>3, <4>4, <4>5
      <4> QED
        BY <4>6, <4>7, <4>8 DEF Accounted, Arrived, InHandsOf, Busy
    <3> QED
      BY <3>6, <3>7
  <2>4. due' \in [Clients -> Seq(Nat)]
    BY <2>1, <2>3
  <2> QED
    BY <2>3, <2>4 DEF DueInv
<1>5. ASSUME NEW c \in Clients, Connect(c) \/ Stall(c) \/ Close(c) \/ Disconnect(c) PROVE DueInv'
  BY <1>5, <1>same DEF Connect, Stall, Close, Disconnect, readerVars, senderVars
<1>6. CASE StopHub
  <2>1. UNCHANGED <<due, inbox, got>> /\ missed' = [c \in Clients |-> missed[c] \cup HandedTo(c)]
    BY <1>6 DEF StopHub, readerVars
  <2>2. ASSUME NEW c \in Clients PROVE Accounted(c)'
    <3>1. missed'[c] = missed[c] \cup HandedTo(c)
      BY <2>1
    <3>2. \A m : InHandsOf(c, m) => m \in missed'[c]
      BY <3>1 DEF InHandsOf, HandedTo
    <3>3. \A m : Arrived(c, m) => Arrived(c, m)'
      BY <2>1 DEF Arrived
    <3>4. PICK u : u = due[c]
      OBVIOUS
    <3>5. \A j \in 1..Len(u) - Len(inbox[c]) :
            \/ Arrived(c, u[j])' \/ u[j] \in missed'[c] \/ Len(u) >= j + InboxSize
      BY <1>q, <3>1, <3>2, <3>3, <3>4 DEF Accounted
    <3> QED
      BY <2>1, <3>4, <3>5 DEF Accounted, Arrived
  <2> QED
    BY <1>t, <1>q, <2>1, <2>2 DEF DueInv, QueueIsLast
<1>7. ASSUME NEW d \in Dispatchers, Dispatch(d) PROVE DueInv'
  <2>1. PICK round \in Seq(Clients), dead \in SUBSET Clients :
          /\ Visit(d, round, dead) /\ due' = due
          /\ \/ held[d] = Nothing /\ got' = got /\ missed' = missed
             \/ /\ Busy(d) /\ missed' = missed
                /\ got' = [got EXCEPT ![held[d].client] = Append(@, held[d].message)]
             \/ /\ Busy(d) /\ got' = got
                /\ missed' = [missed EXCEPT ![held[d].client] = @ \cup {held[d].message}]
    <3>1. CASE BeginRound(d)
      BY <1>t, <3>1 DEF BeginRound, readerVars, HubTypeOK
    <3>2. CASE Sent(d)
      BY <1>t, <3>2 DEF Sent, readerVars, HubTypeOK, Busy
    <3>3. CASE SendRaises(d)
      <4>1. held[d] \in InHand
        BY <1>t, <3>3 DEF SendRaises, HubTypeOK
      <4>2. failed[d] \cup {held[d].client} \in SUBSET Clients /\ left[d] \in Seq(Clients)
        BY <1>t, <4>1 DEF HubTypeOK, InHand
      <4> QED
        BY <3>3, <4>2 DEF SendRaises, readerVars, Busy
    <3> QED
      BY <1>7, <3>1, <3>2, <3>3 DEF Dispatch
  <2>2. \A e \in Dispatchers : e # d => held'[e] = held[e]
    BY <2>1, VisitEffect
  <2>3. ASSUME NEW c \in Clients PROVE QueueIsLast(c)' /\ Accounted(c)'
    <3>1. PICK q \in Seq(Nat), u \in Seq(Nat) : q = inbox[c] /\ u = due[c] /\ due'[c] = u
      BY <1>t, <1>c, <2>1
    <3>2. LastOf(q, u)
      BY <1>q, <3>1 DEF QueueIsLast
    <3> DEFINE Gone(m) == Arrived(c, m) \/ InHandsOf(c, m) \/ m \in missed[c]
               GoneNow(m) == Arrived(c, m)' \/ InHandsOf(c, m)' \/ m \in missed'[c]
    <3>3. ASSUME NEW m, Gone(m) PROVE GoneNow(m)
      <4>1. CASE Arrived(c, m)
        <5>1. CASE got' = got
          BY <4>1, <5>1 DEF Arrived
        <5>2. CASE Busy(d) /\ got' = [got EXCEPT ![held[d].client] = Append(@, held[d].message)]
          <6>1. held[d] \in InHand
            BY <1>c, <5>2 DEF Busy
          <6>2. PICK k \in Clients, x \in Nat : k = held[d].client /\ x = held[d].message
            BY <6>1 DEF InHand
          <6>3. PICK g \in Seq(Nat) : g = got[c]
            BY <1>c
          <6>4. got'[c] = g \/ got'[c] = Append(g, x)
            BY <1>c, <5>2, <6>2, <6>3
          <6>5. PICK i \in 1..Len(g) : g[i] = m
            BY <4>1, <6>3 DEF Arrived
          <6>6. Len(Append(g, x)) = Len(g) + 1 /\ Append(g, x)[i] = g[i] /\ Len(g) \in Nat
            BY AppendProperties
          <6>7. PICK h : h = got'[c]
            OBVIOUS
          <6>8. i \in 1..Len(h) /\ h[i] = m
            <7>1. CASE h = g
              BY <6>5, <6>7, <7>1
            <7>2. CASE h = Append(g, x)
              BY <6>5, <6>6, <7>2
            <7> QED
              BY <6>4, <6>7, <7>1, <7>2
          <6> QED
            BY <6>7, <6>8 DEF Arrived
        <5> QED
          BY <2>1, <5>1, <5>2
      <4>2. CASE m \in missed[c]
        BY <1>c, <2>1, <4>2
      <4>3. CASE InHandsOf(c, m)
        <5>1. PICK e \in Dispatchers : Busy(e) /\ held[e].client = c /\ held[e].message = m
          BY <4>3 DEF InHandsOf
        <5>2. CASE e # d
          <6>1. held'[e] = held[e]
            BY <2>2, <5>2
          <6> QED
            BY <5>1, <6>1 DEF InHandsOf, Busy
        <5>3. CASE e = d
          <6>1. held[d] \in InHand /\ m \in Nat
            BY <1>c, <5>1, <5>3 DEF Busy, InHand
          <6>2. CASE got' = [got EXCEPT ![c] = Append(@, m)]
            <7>1. PICK g \in Seq(Nat) : g = got[c]
              BY <1>c
            <7>2. got'[c] = Append(g, m)
              BY <1>c, <6>2, <7>1
            <7>3. Len(Append(g, m)) = Len(g) + 1 /\ Append(g, m)[Len(g) + 1] = m /\ Len(g) \in Nat
              BY <6>1, AppendProperties
            <7>4. Len(g) + 1 \in 1..Len(got'[c]) /\ got'[c][Len(g) + 1] = m
              BY <7>2, <7>3
            <7> QED
              BY <7>4 DEF Arrived
          <6>3. CASE missed' = [missed EXCEPT ![c] = @ \cup {m}]
            BY <1>c, <6>3
          <6> QED
            BY <2>1, <5>1, <5>3, <6>2, <6>3 DEF Busy
        <5> QED
          BY <5>2, <5>3
      <4> QED
        BY <3>3, <4>1, <4>2, <4>3
    <3>4. \A j \in 1..Len(u) - Len(q) : Gone(u[j]) \/ Len(u) >= j + InboxSize
      BY <1>q, <3>1 DEF Accounted
    <3>5. \A j \in 1..Len(u) - Len(q) : GoneNow(u[j]) \/ Len(u) >= j + InboxSize
      BY <3>3, <3>4
    <3> HIDE DEF Gone, GoneNow
    <3>6. CASE inbox'[c] = inbox[c]
      <4>1. inbox'[c] = q
        BY <3>1, <3>6
      <4>2. QueueIsLast(c)'
        BY <3>1, <3>2, <4>1 DEF QueueIsLast, LastOf
      <4> QED
        BY <3>1, <3>5, <4>1, <4>2 DEF Accounted, GoneNow, Arrived, InHandsOf, Busy
    <3>7. CASE /\ q # <<>> /\ inbox'[c] = Tail(q)
               /\ held'[d] = [client |-> c, message |-> Head(q)]
      <4>1. /\ Tail(q) \in Seq(Nat) /\ LastOf(Tail(q), u)
            /\ u[Len(u) - Len(q) + 1] = Head(q)
            /\ \A j \in 1..Len(u) - Len(Tail(q)) : j \in 1..Len(u) - Len(q) \/ j = Len(u) - Len(q) + 1
        BY <3>2, <3>7, LastTail
      <4>2. PICK r \in Seq(Nat) : r = Tail(q) /\ inbox'[c] = r
        BY <3>7, <4>1
      <4>3. PICK n \in Nat : n = Head(q) /\ n > 0
        <5>1. AllAbove(0, q) /\ 1 \in DOMAIN q /\ Head(q) = q[1]
          BY <3>1, <3>7, EmptySeq DEF QueueInv, QueueInOrder
        <5> QED
          BY <5>1 DEF AllAbove
      <4>4. QueueIsLast(c)'
        BY <3>1, <4>1, <4>2 DEF QueueIsLast, LastOf
      <4>5. held'[d] = [client |-> c, message |-> n]
        BY <3>7, <4>3
      <4>6. held'[d] # Nothing /\ held'[d].client = c /\ held'[d].message = n
        BY <4>3, <4>5 DEF Nothing
      <4>7. GoneNow(n)
        BY <4>6 DEF GoneNow, InHandsOf, Busy
      <4>8. \A j \in 1..Len(u) - Len(r) : GoneNow(u[j]) \/ Len(u) >= j + InboxSize
        BY <3>5, <4>1, <4>2, <4>3, <4>7
      <4> QED
        BY <3>1, <4>2, <4>4, <4>8 DEF Accounted, GoneNow, Arrived, InHandsOf, Busy
    <3> QED
      BY <1>t, <2>1, <3>1, <3>6, <3>7, VisitTakes
  <2> QED
    BY <1>t, <2>1, <2>3 DEF DueInv
<1> QED
  BY <1>1, <1>2, <1>3, <1>4, <1>5, <1>6, <1>7 DEF HubNext

(* Whatever the order in which dispatchers, reader and clients take their steps: *)
(* a message is overtaken only in a dispatcher's hands and arrives once at most, *)
(* and none made for a client is gone but in a send that raised, in stop or       *)
(* pushed out by as many newer ones as the queue holds; for any number of        *)
(* clients, dispatchers and entries of the streams (ws_router.py:166-170).       *)
THEOREM HubCorrect == HubSpec => []OvertakenOnlyInHand
<1>1. QueueInv /\ DueInv => OvertakenOnlyInHand
  <2> SUFFICES ASSUME QueueInv, DueInv, NEW c \in Clients
               PROVE
    /\ \A i, j \in DOMAIN inbox[c] : i < j => inbox[c][i] < inbox[c][j]
    /\ \A i \in DOMAIN got[c], j \in DOMAIN inbox[c] : got[c][i] < inbox[c][j]
    /\ \A i, j \in DOMAIN got[c] : i # j => got[c][i] # got[c][j]
    /\ \A m \in HandedTo(c) : \A i \in DOMAIN got[c] : got[c][i] # m
    /\ \A m \in missed[c], i \in DOMAIN got[c] : got[c][i] # m
    /\ \A j \in DOMAIN due[c] :
         \/ \E i \in DOMAIN inbox[c] : inbox[c][i] = due[c][j]
         \/ \E i \in DOMAIN got[c] : got[c][i] = due[c][j]
         \/ due[c][j] \in HandedTo(c) \cup missed[c]
         \/ Len(due[c]) >= j + InboxSize
    BY DEF OvertakenOnlyInHand
  <2>1. QueueInOrder(c) /\ GotOnce(c) /\ \A d \in Dispatchers : Busy(d) => HeldOnly(d)
    BY DEF QueueInv
  <2>2. ASSUME NEW m \in HandedTo(c), NEW i \in DOMAIN got[c] PROVE got[c][i] # m
    <3>1. PICK d \in Dispatchers : held[d].client = c /\ m = held[d].message
      BY <2>2 DEF HandedTo
    <3>2. CASE Busy(d)
      BY <2>1, <3>1, <3>2 DEF HeldOnly
    <3>3. CASE held[d] = Nothing
      BY <2>1, <3>1, <3>3 DEF Nothing, GotOnce
    <3> QED
      BY <3>2, <3>3 DEF Busy
  <2>3. ASSUME NEW j \in DOMAIN due[c]
        PROVE  \/ \E i \in DOMAIN inbox[c] : inbox[c][i] = due[c][j]
               \/ \E i \in DOMAIN got[c] : got[c][i] = due[c][j]
               \/ due[c][j] \in HandedTo(c) \cup missed[c]
               \/ Len(due[c]) >= j + InboxSize
    <3>1. PICK q \in Seq(Nat), u \in Seq(Nat), g \in Seq(Nat) : q = inbox[c] /\ u = due[c] /\ g = got[c]
      BY DEF QueueInv, HubTypeOK, DueInv
    <3>2. /\ DOMAIN q = 1..Len(q) /\ DOMAIN u = 1..Len(u) /\ DOMAIN g = 1..Len(g)
          /\ Len(q) \in Nat /\ Len(u) \in Nat
      OBVIOUS
    <3>3. LastOf(q, u)
      BY <3>1 DEF DueInv, QueueIsLast
    <3>4. CASE j \in 1..Len(u) - Len(q)
      <4>1. \A m : InHandsOf(c, m) => m \in HandedTo(c)
        BY DEF InHandsOf, HandedTo
      <4>2. \/ Arrived(c, u[j]) \/ InHandsOf(c, u[j]) \/ u[j] \in missed[c]
            \/ Len(u) >= j + InboxSize
        BY <3>1, <3>4 DEF DueInv, Accounted
      <4> QED
        BY <3>1, <3>2, <4>1, <4>2 DEF Arrived
    <3>5. CASE j \notin 1..Len(u) - Len(q)
      <4>1. \E i \in 1..Len(q) : q[i] = u[j]
        <5>1. j \in 1..Len(u)
          BY <3>1, <3>2
        <5> QED
          BY <3>3, <3>5, <5>1, LastHolds
      <4> QED
        BY <3>1, <3>2, <4>1
    <3> QED
      BY <3>4, <3>5
  <2> QED
    BY <2>1, <2>2, <2>3 DEF QueueInOrder, GotOnce, Increasing, AllAbove
<1> QED
  BY <1>1, HubInvInit, QueueInvStep, DueInvInit, DueInvStep, PTL DEF HubSpec

LEMMA ReaderInvStep == ReaderInv /\ [HubNext]_hubVars => ReaderInv'
<1> SUFFICES ASSUME ReaderInv, [HubNext]_hubVars PROVE ReaderInv'
  OBVIOUS
<1>t. ReaderTypeOK /\ ReadsOn /\ \A s \in HubStreams : ReadUpTo(s)
  BY DEF ReaderInv
<1>r. reading.stream \in HubStreams /\ reading.from \in Nat \cup {-1} /\ \A s \in HubStreams : Other(s) \in HubStreams
  BY <1>t DEF ReaderTypeOK, Other, HubStreams
<1>i. \A s \in HubStreams : Idle(s) \in [stream: HubStreams, from: Nat \cup {-1}] /\ Idle(s).from = -1
  BY DEF Idle
<1>same. ASSUME UNCHANGED <<entries, cursor, wasRead>>, toSend' \in Seq(Nat),
                reading' = reading \/ \E s \in HubStreams : reading' = Idle(s)
         PROVE  ReaderInv'
  BY <1>t, <1>i, <1>same DEF ReaderInv, ReaderTypeOK, ReadsOn, ReadUpTo
<1>w. toSend \in Seq(Nat)
  BY <1>t DEF ReaderTypeOK
<1>e. \A s \in HubStreams : Len(entries[s]) \in Nat
  BY <1>t DEF ReaderTypeOK
<1>1. CASE UNCHANGED hubVars
  BY <1>1, <1>same, <1>w DEF hubVars
<1>2. ASSUME NEW s \in HubStreams, NEW cam \in HubCameras, AddEntry(s, cam) PROVE ReaderInv'
  <2>1. UNCHANGED <<cursor, reading, toSend, wasRead>> /\ entries' = [entries EXCEPT ![s] = Append(@, cam)]
    BY <1>2 DEF AddEntry, readerVars
  <2>2. entries' \in [HubStreams -> Seq(HubCameras)]
    BY <1>t, <2>1, AppendProperties DEF ReaderTypeOK
  <2> QED
    BY <1>t, <2>1, <2>2 DEF ReaderInv, ReaderTypeOK, ReadsOn, ReadUpTo
<1>3. CASE BeginRead
  <2>1. UNCHANGED <<entries, cursor, toSend, wasRead>> /\ reading' = [reading EXCEPT !.from = ReadFrom(reading.stream)]
    BY <1>3 DEF BeginRead
  <2>2. PICK s \in HubStreams : s = reading.stream
    BY <1>r
  <2>3. cursor[s] \in Nat \cup {-1}
    BY <1>t DEF ReaderTypeOK
  <2>4. ReadFrom(s) \in Nat /\ (cursor[s] = -1 \/ ReadFrom(s) = cursor[s])
    BY <1>e, <2>3 DEF ReadFrom
  <2>5. /\ reading' \in [stream: HubStreams, from: Nat \cup {-1}]
        /\ reading'.stream = s /\ reading'.from = ReadFrom(s)
    BY <1>t, <2>1, <2>2, <2>4 DEF ReaderTypeOK
  <2> QED
    BY <1>t, <2>1, <2>4, <2>5 DEF ReaderInv, ReaderTypeOK, ReadsOn, ReadUpTo
<1>4. CASE EndRead
  <2>1. PICK s \in HubStreams, from \in Nat : s = reading.stream /\ from = reading.from
    BY <1>4, <1>r DEF EndRead
  <2>2. PICK n : n = IF Len(entries[s]) - from < ReadCount THEN Len(entries[s]) - from ELSE ReadCount
    OBVIOUS
  <2>3. /\ Len(entries[s]) > from
        /\ toSend' = [i \in 1..n |-> from + i]
        /\ cursor' = [cursor EXCEPT ![s] = from + n]
        /\ wasRead' = [wasRead EXCEPT ![s] = @ \cup {from + i : i \in 1..n}]
        /\ reading' = Idle(s) /\ entries' = entries
    BY <1>4, <2>1, <2>2 DEF EndRead
  <2>4. n \in Nat /\ n > 0
    BY <1>e, <2>2, <2>3, HubAssumption
  <2>5. toSend' \in Seq(Nat)
    <3>1. [i \in 1..n |-> from + i] \in [1..n -> Nat]
      BY <2>4
    <3> QED
      BY <2>3, <2>4, <3>1, FunIsSeq
  <2>6. {from + i : i \in 1..n} = from + 1..from + n
    <3>1. ASSUME NEW x \in from + 1..from + n PROVE \E i \in 1..n : x = from + i
      <4>1. x - from \in 1..n /\ x = from + (x - from)
        BY <2>4
      <4> QED
        BY <4>1
    <3> QED
      BY <2>4, <3>1
  <2>7. cursor \in [HubStreams -> Nat \cup {-1}] /\ wasRead \in [HubStreams -> SUBSET Nat] /\ from + n \in Nat
    BY <1>t, <2>4 DEF ReaderTypeOK
  <2>8. /\ cursor' \in [HubStreams -> Nat \cup {-1}] /\ cursor'[s] = from + n
        /\ \A r \in HubStreams : r # s => cursor'[r] = cursor[r] /\ wasRead'[r] = wasRead[r]
        /\ wasRead'[s] = wasRead[s] \cup (from + 1..from + n)
        /\ wasRead' \in [HubStreams -> SUBSET Nat]
    <3>1. from + 1..from + n \in SUBSET Nat
      OBVIOUS
    <3> QED
      BY <2>3, <2>6, <2>7, <3>1
  <2>9. ReadUpTo(s)'
    <3>1. cursor[s] = -1 \/ cursor[s] = from
      BY <1>t, <2>1 DEF ReadsOn
    <3>2. CASE cursor[s] = -1
      <4>1. wasRead[s] = {}
        BY <1>t, <3>2 DEF ReadUpTo
      <4>2. wasRead'[s] = from + 1..from + n /\ from + 1 \in 1..from + n
        BY <2>4, <2>8, <4>1
      <4> QED
        BY <2>4, <2>8, <4>2 DEF ReadUpTo
    <3>3. CASE cursor[s] = from
      <4>1. PICK first \in 1..from : wasRead[s] = first..from
        BY <1>t, <3>3 DEF ReadUpTo
      <4>2. (first..from) \cup (from + 1..from + n) = first..from + n
        BY <2>4
      <4>3. first \in 1..from + n /\ wasRead'[s] = first..from + n
        BY <2>4, <2>8, <4>1, <4>2
      <4> QED
        BY <2>4, <2>8, <4>3 DEF ReadUpTo
    <3> QED
      BY <3>1, <3>2, <3>3
  <2>10. \A r \in HubStreams : ReadUpTo(r)'
    <3>1. ASSUME NEW r \in HubStreams, r # s PROVE ReadUpTo(r)'
      BY <1>t, <2>8, <3>1 DEF ReadUpTo
    <3> QED
      BY <2>9, <3>1
  <2> QED
    BY <1>t, <1>i, <2>3, <2>5, <2>8, <2>10 DEF ReaderInv, ReaderTypeOK, ReadsOn
<1>5. CASE ReadNothing
  BY <1>5, <1>r, <1>same, <1>w DEF ReadNothing
<1>6. CASE EnqueueEntry \/ SkipEntry
  <2>1. UNCHANGED <<entries, cursor, wasRead>> /\ toSend # <<>> /\ toSend' = Tail(toSend) /\ reading' = NextReading
    BY <1>6 DEF EnqueueEntry, SkipEntry
  <2>2. toSend' \in Seq(Nat)
    BY <1>w, <2>1, HeadTailProperties
  <2> QED
    BY <1>r, <1>same, <2>1, <2>2 DEF NextReading
<1>7. ASSUME NEW c \in Clients, Connect(c) \/ Stall(c) \/ Close(c) \/ Disconnect(c) PROVE ReaderInv'
  BY <1>7, <1>same, <1>w DEF Connect, Stall, Close, Disconnect, readerVars
<1>8. CASE StopHub
  BY <1>8, <1>same, <1>w DEF StopHub, readerVars
<1>9. ASSUME NEW d \in Dispatchers, Dispatch(d) PROVE ReaderInv'
  BY <1>9, <1>same, <1>w DEF Dispatch, BeginRound, Sent, SendRaises, readerVars
<1> QED
  BY <1>1, <1>2, <1>3, <1>4, <1>5, <1>6, <1>7, <1>8, <1>9 DEF HubNext

(* Once the hub has read an entry of a stream, every later one is read in its    *)
(* turn, however the reads alternate, time out and return (ws_router.py:105).    *)
THEOREM HubReadsOn == HubSpec => []ReadWithoutGap
<1>1. ReaderInv => ReadWithoutGap
  <2> SUFFICES ASSUME ReaderInv, NEW s \in HubStreams, NEW i \in wasRead[s], NEW j \in wasRead[s]
               PROVE  i..j \subseteq wasRead[s]
    BY DEF ReadWithoutGap
  <2>1. ReadUpTo(s) /\ cursor[s] \in Nat \cup {-1}
    BY DEF ReaderInv, ReaderTypeOK
  <2>2. PICK first \in 1..cursor[s] : wasRead[s] = first..cursor[s]
    BY <2>1 DEF ReadUpTo
  <2> QED
    BY <2>1, <2>2
<1> QED
  BY <1>1, HubInvInit, ReaderInvStep, PTL DEF HubSpec
====
