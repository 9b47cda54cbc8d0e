---- MODULE Tracking_proof ----
(***************************************************************************)
(* Proofs about the association and behavior services for any number of    *)
(* tracks, zones, places, scenes, faults and any limits the assumptions    *)
(* allow.                                                                  *)
(***************************************************************************)
EXTENDS Behavior, SeqFacts

(* Streams and batches. *)
LEMMA NewestIs ==
  ASSUME NEW T, NEW s \in Seq(T), NEW n \in Nat
  PROVE  /\ Newest(n, s) \in Seq(T) /\ Len(Newest(n, s)) <= n
         /\ \E u \in Seq(T) : s = u \o Newest(n, s)
<1>1. Len(s) \in Nat /\ \A i \in 1..Len(s) : s[i] \in T
  OBVIOUS
<1>2. CASE Len(s) <= n
  <2>1. <<>> \in Seq(T) /\ s = <<>> \o s
    BY EmptySeq, ConcatEmptySeq
  <2> QED
    BY <1>2, <2>1 DEF Newest
<1>3. CASE ~(Len(s) <= n)
  <2> DEFINE k == Len(s) - n
             u == SubSeq(s, 1, k)
             v == SubSeq(s, k + 1, Len(s))
  <2>1. k \in Nat /\ k >= 1 /\ k <= Len(s) /\ k + 1 \in 1..Len(s) + 1 /\ Len(s) - n + 1 = k + 1 /\ k \in 0..Len(s)
    BY <1>1, <1>3
  <2>2. Newest(n, s) = v
    BY <1>3, <2>1 DEF Newest
  <2>3. u \in Seq(T)
    <3>1. \A i \in 1..k : s[i] \in T
      BY <1>1, <2>1
    <3> QED
      BY <2>1, <3>1, SubSeqProperties
  <2>4. v \in Seq(T) /\ Len(v) <= n
    <3>1. \A i \in k + 1..Len(s) : s[i] \in T
      BY <1>1, <2>1
    <3>2. v \in Seq(T) /\ Len(v) = IF k + 1 <= Len(s) THEN Len(s) - (k + 1) + 1 ELSE 0
      BY <1>1, <2>1, <3>1, SubSeqProperties
    <3> QED
      BY <1>1, <2>1, <3>2
  <2>5. u \o v = s
    <3>1. 1 \in 1..Len(s) + 1 /\ k \in 1 - 1..Len(s) /\ Len(s) \in k..Len(s)
      BY <1>1, <2>1
    <3>2. u \o v = SubSeq(s, 1, Len(s))
      BY <3>1, ConcatAdjacentSubSeq
    <3> QED
      BY <3>2, SubSeqFull
  <2> HIDE DEF u, v
  <2> QED
    BY <2>2, <2>3, <2>4, <2>5
<1> QED
  BY <1>2, <1>3

LEMMA SplitIs ==
  ASSUME NEW T, NEW s \in Seq(T), NEW n \in Nat
  PROVE  /\ FirstOf(n, s) \in Seq(T) /\ After(n, s) \in Seq(T) /\ s = FirstOf(n, s) \o After(n, s)
         /\ Len(After(n, s)) <= Len(s)
<1>1. Len(s) \in Nat /\ \A i \in 1..Len(s) : s[i] \in T
  OBVIOUS
<1>2. CASE Len(s) <= n
  <2>1. <<>> \in Seq(T) /\ s = s \o <<>> /\ Len(<<>>) = 0
    BY EmptySeq, ConcatEmptySeq
  <2> QED
    BY <1>1, <1>2, <2>1 DEF FirstOf, After
<1>3. CASE ~(Len(s) <= n)
  <2> DEFINE u == SubSeq(s, 1, n)
             v == SubSeq(s, n + 1, Len(s))
  <2>1. n <= Len(s) /\ n + 1 <= Len(s)
    BY <1>1, <1>3
  <2>2. FirstOf(n, s) = u /\ After(n, s) = v
    BY <1>3 DEF FirstOf, After
  <2>3. u \in Seq(T)
    <3>1. \A i \in 1..n : s[i] \in T
      BY <1>1, <2>1
    <3> QED
      BY <3>1, SubSeqProperties
  <2>4. v \in Seq(T) /\ Len(v) <= Len(s)
    <3>1. \A i \in n + 1..Len(s) : s[i] \in T
      BY <1>1, <2>1
    <3>2. v \in Seq(T) /\ Len(v) = IF n + 1 <= Len(s) THEN Len(s) - (n + 1) + 1 ELSE 0
      BY <1>1, <2>1, <3>1, SubSeqProperties
    <3> QED
      BY <1>1, <2>1, <3>2
  <2>5. u \o v = s
    <3>1. 1 \in 1..Len(s) + 1 /\ n \in 1 - 1..Len(s) /\ Len(s) \in n..Len(s)
      BY <1>1, <2>1
    <3>2. u \o v = SubSeq(s, 1, Len(s))
      BY <3>1, ConcatAdjacentSubSeq
    <3> QED
      BY <3>2, SubSeqFull
  <2> HIDE DEF u, v
  <2> QED
    BY <2>2, <2>3, <2>4, <2>5
<1> QED
  BY <1>2, <1>3

(* What a frame has. *)
TrueFrame == {f \in Frame : \A i, j \in DOMAIN f.people : f.people[i].track = f.people[j].track => i = j}

LEMMA ConcealmentType ==
  ASSUME NEW pose, NEW r
  PROVE  ClassifyConcealment(pose, r) \in Concealments
BY DEF ClassifyConcealment, Concealments

LEMMA LookType ==
  ASSUME NEW d, d.fast \in BOOLEAN, NEW items
  PROVE  LookOf(d, items) \in Look
<1>1. ClassifyConcealment(d.pose, HandToHip) \in Concealments
  BY ConcealmentType
<1>2. {z \in Zones : Encloses(ZoneShape[z], Centre(d.box))} \in SUBSET Zones
  OBVIOUS
<1>3. {place \in Places : Overlaps(d.box, PlaceBox[place])} \in SUBSET Places
  OBVIOUS
<1>4. (\E i \in DOMAIN items : NearBox(d.box, PlaceBox[items[i]])) \in BOOLEAN
  OBVIOUS
<1> QED
  BY <1>1, <1>2, <1>3, <1>4 DEF LookOf, Look

LEMMA DetectedIs ==
  ASSUME NEW s \in Scenes, NEW t \in Nat
  PROVE  Detected(s, t) \in TrueFrame /\ Detected(s, t).t = t
<1> DEFINE F == {s.found[i] : i \in DOMAIN s.found}
           of(class) == Selected(s.found, {d \in F : d.class = class})
           items == [i \in DOMAIN of("item") |-> of("item")[i].place]
           people == [i \in DOMAIN of("person") |->
                       [track |-> of("person")[i].track, look |-> LookOf(of("person")[i], items)]]
           E == [track: Tracks, look: Look]
<1>1. /\ s.found \in Seq(F) /\ \A d \in F : IsFound(d)
      /\ \A i, j \in DOMAIN s.found :
           s.found[i].class = "person" /\ s.found[j].class = "person" /\ s.found[i].track = s.found[j].track => i = j
  <2>1. IsScene(s)
    BY AssociationAssumption
  <2>2. /\ s.found \in Seq(F) /\ \A i \in DOMAIN s.found : IsFound(s.found[i])
        /\ \A i, j \in DOMAIN s.found :
             s.found[i].class = "person" /\ s.found[j].class = "person" /\ s.found[i].track = s.found[j].track => i = j
    BY <2>1 DEF IsScene
  <2>3. \A d \in F : IsFound(d)
    BY <2>2
  <2> QED
    BY <2>2, <2>3
<1>2. Detected(s, t) = [t |-> t, items |-> items, people |-> people]
  BY DEF Detected
<1> HIDE DEF F
<1>3. ASSUME NEW class PROVE
        /\ of(class) \in Seq(F) /\ \A i \in DOMAIN of(class) : of(class)[i] \in F /\ of(class)[i].class = class
        /\ DOMAIN of(class) = 1..Len(of(class)) /\ Len(of(class)) \in Nat
  <2> DEFINE S == {d \in F : d.class = class}
  <2>1. Selected(s.found, S) \in Seq(F) /\ \A i \in DOMAIN Selected(s.found, S) : Selected(s.found, S)[i] \in S
    <3> HIDE DEF S
    <3> QED
      BY <1>1, SelectedCount
  <2> QED
    BY <2>1
<1>4. items \in Seq(Places)
  <2> HIDE DEF of
  <2>1. \A i \in DOMAIN of("item") : of("item")[i].place \in Places
    <3> TAKE i \in DOMAIN of("item")
    <3>1. of("item")[i] \in F /\ of("item")[i].class = "item"
      BY <1>3
    <3>2. IsFound(of("item")[i])
      BY <1>1, <3>1
    <3> QED
      BY <3>1, <3>2 DEF IsFound
  <2>2. items \in [1..Len(of("item")) -> Places]
    BY <1>3, <2>1
  <2> HIDE DEF items
  <2> QED
    BY <1>3, <2>2, FunIsSeq
<1>5. people \in Seq(E) /\ DOMAIN people = DOMAIN of("person") /\ \A i \in DOMAIN people : people[i].track = of("person")[i].track
  <2>1. \A i \in DOMAIN of("person") : of("person")[i].track \in Tracks /\ of("person")[i].fast \in BOOLEAN
    BY <1>1, <1>3 DEF IsFound
  <2> HIDE DEF of, items
  <2>2. \A i \in DOMAIN of("person") : LookOf(of("person")[i], items) \in Look
    BY <2>1, LookType
  <2>3. \A i \in DOMAIN of("person") : [track |-> of("person")[i].track, look |-> LookOf(of("person")[i], items)] \in E
    BY <2>1, <2>2
  <2> HIDE DEF E
  <2>4. people \in [1..Len(of("person")) -> E]
    BY <1>3, <2>3
  <2>5. people \in Seq(E)
    <3> HIDE DEF people
    <3> QED
      BY <1>3, <2>4, FunIsSeq
  <2>6. \A i \in DOMAIN of("person") : people[i].track = of("person")[i].track
    OBVIOUS
  <2> QED
    BY <2>5, <2>6
<1>6. ASSUME NEW i \in DOMAIN people, NEW j \in DOMAIN people, people[i].track = people[j].track PROVE i = j
  <2> DEFINE S == {d \in F : d.class = "person"}
             u == Selected(s.found, S)
  <2>1. u = of("person")
    OBVIOUS
  <2> HIDE DEF S
  <2>2. PICK at \in [DOMAIN u -> DOMAIN s.found] :
              /\ \A k \in DOMAIN u : u[k] = s.found[at[k]] /\ s.found[at[k]] \in S
              /\ \A k, m \in DOMAIN u : k < m => at[k] < at[m]
    BY <1>1, SelectedFacts
  <2> HIDE DEF u
  <2>3. i \in DOMAIN u /\ j \in DOMAIN u /\ u[i].track = u[j].track
    BY <1>5, <1>6, <2>1
  <2>4. s.found[at[i]].class = "person" /\ s.found[at[j]].class = "person" /\ at[i] \in DOMAIN s.found /\ at[j] \in DOMAIN s.found
    BY <2>2, <2>3 DEF S
  <2>5. at[i] = at[j]
    BY <1>1, <2>2, <2>3, <2>4
  <2>6. i \in Nat /\ j \in Nat /\ at[i] \in Nat
    <3>1. DOMAIN s.found = 1..Len(s.found) /\ Len(s.found) \in Nat
      BY <1>1
    <3>2. DOMAIN u = 1..Len(u) /\ Len(u) \in Nat
      BY <1>3, <2>1
    <3> QED
      BY <2>3, <2>4, <3>1, <3>2
  <2>7. ~(i < j) /\ ~(j < i)
    BY <2>2, <2>3, <2>5, <2>6
  <2> QED
    BY <2>6, <2>7
<1> HIDE DEF people, items
<1>7. [t |-> t, items |-> items, people |-> people] \in Frame
  BY <1>4, <1>5 DEF Frame
<1> QED
  BY <1>2, <1>6, <1>7 DEF TrueFrame

(* The events of a person in a frame. *)
PersonsOK == DOMAIN persons \subseteq Tracks /\ persons \in [DOMAIN persons -> PersonState]
ItemsOK ==
  /\ DOMAIN lastItems \subseteq Nat /\ IsFiniteSet(DOMAIN lastItems)
  /\ lastItems \in [DOMAIN lastItems -> [place: Places, t: Nat]]

Crossed(p, look) == (look.zones \ StateOf(p).zones) \cup (StateOf(p).zones \ look.zones)

Befits(e, p, look, f) ==
  /\ e.track = p /\ e.t = f.t
  /\ e.kind = "SHELF_INTERACTION" => NearFrames(StateOf(p), look) > 0 /\ NearFrames(StateOf(p), look) >= HandFrames
  /\ e.kind = "ITEM_PICKUP" => PickedUp(f, look) # {}
  /\ e.zone # "none" =>
       e.zone \in Crossed(p, look) /\ e.kind = (IF e.zone \in look.zones THEN "ZONE_ENTER" ELSE "ZONE_EXIT")

LEMMA StateType ==
  ASSUME PersonsOK, NEW p \in Tracks
  PROVE  StateOf(p) \in [zones: SUBSET Zones, near: Nat, speeds: Nat \cup {-1}, spike: Nat, last: Nat]
BY DEF PersonsOK, StateOf, PersonState

LEMMA PickedUpFinite ==
  ASSUME ItemsOK, NEW f, NEW look
  PROVE  /\ Cardinality(PickedUp(f, look)) \in Nat
         /\ Cardinality(PickedUp(f, look)) > 0 => PickedUp(f, look) # {}
<1>1. PickedUp(f, look) \in SUBSET (DOMAIN lastItems)
  BY DEF PickedUp, Vanished
<1>2. IsFiniteSet(PickedUp(f, look))
  BY <1>1, FS_Subset DEF ItemsOK
<1>3. Cardinality(PickedUp(f, look)) \in Nat
  BY <1>2, FS_CardinalityType
<1>4. Cardinality({}) = 0
  BY FS_EmptySet
<1> QED
  BY <1>3, <1>4

LEMMA EventsOfIs ==
  ASSUME PersonsOK, ItemsOK, NEW p \in Tracks, NEW look \in Look, NEW f \in TrueFrame
  PROVE  /\ EventsOf(p, look, f) \in Seq({e \in AssocEvent : Befits(e, p, look, f)})
         /\ \A i, j \in DOMAIN EventsOf(p, look, f) :
              EventsOf(p, look, f)[i].zone # "none" /\ EventsOf(p, look, f)[i].zone = EventsOf(p, look, f)[j].zone => i = j
         /\ \A z \in Crossed(p, look) : \E i \in DOMAIN EventsOf(p, look, f) : EventsOf(p, look, f)[i].zone = z
<1> DEFINE st == StateOf(p)
           crossed == Selected(ZoneOrder, Crossed(p, look))
           E == {e \in AssocEvent : Befits(e, p, look, f)}
           Plain == {e \in E : e.zone = "none"}
           zoned(z) == Event(p, IF z \in look.zones THEN "ZONE_ENTER" ELSE "ZONE_EXIT", z, f.t)
           a == ZoneEvents(p, st, look, f.t)
           b == ShelfEvents(p, st, look, f.t)
           c == [i \in 1..Cardinality(PickedUp(f, look)) |-> Event(p, "ITEM_PICKUP", "none", f.t)]
           d == IF Spike(st, look, f.t) THEN <<Event(p, "SPEED_SPIKE", "none", f.t)>> ELSE <<>>
           rest == (b \o c) \o d
<1>1. f.t \in Nat /\ look.zones \in SUBSET Zones /\ look.near \in BOOLEAN
  BY DEF TrueFrame, Frame, Look
<1>2. st \in [zones: SUBSET Zones, near: Nat, speeds: Nat \cup {-1}, spike: Nat, last: Nat]
  BY StateType
<1>3. "none" \notin Zones /\ ZoneOrder \in Seq(Zones) /\ \A i, j \in DOMAIN ZoneOrder : ZoneOrder[i] = ZoneOrder[j] => i = j
  BY AssociationAssumption
<1>z. Crossed(p, look) \subseteq Zones
  BY <1>1, <1>2 DEF Crossed
<1>4. a = [i \in DOMAIN crossed |-> zoned(crossed[i])]
  BY DEF ZoneEvents, Crossed
<1>5. /\ crossed \in Seq(Zones)
      /\ \E at \in [DOMAIN crossed -> DOMAIN ZoneOrder] :
           /\ \A i \in DOMAIN crossed : crossed[i] = ZoneOrder[at[i]] /\ ZoneOrder[at[i]] \in Crossed(p, look)
           /\ \A i, j \in DOMAIN crossed : i < j => at[i] < at[j]
           /\ \A k \in DOMAIN ZoneOrder : ZoneOrder[k] \in Crossed(p, look) => \E i \in DOMAIN crossed : at[i] = k
  BY <1>3, SelectedFacts
<1> HIDE DEF crossed
<1>6. PICK n \in Nat : n = Len(crossed) /\ DOMAIN crossed = 1..n
  BY <1>5
<1>7. \A i \in 1..n : crossed[i] \in Crossed(p, look)
  BY <1>5, <1>6
<1>8. \A i, j \in 1..n : crossed[i] = crossed[j] => i = j
  <2> SUFFICES ASSUME NEW i \in 1..n, NEW j \in 1..n, crossed[i] = crossed[j] PROVE i = j
    OBVIOUS
  <2>1. PICK at \in [DOMAIN crossed -> DOMAIN ZoneOrder] :
           /\ \A k \in DOMAIN crossed : crossed[k] = ZoneOrder[at[k]]
           /\ \A k, m \in DOMAIN crossed : k < m => at[k] < at[m]
    BY <1>5
  <2>2. at[i] = at[j] /\ at[i] \in Nat
    <3>1. at[i] \in DOMAIN ZoneOrder /\ at[j] \in DOMAIN ZoneOrder /\ ZoneOrder[at[i]] = ZoneOrder[at[j]]
      BY <1>6, <2>1
    <3>2. DOMAIN ZoneOrder = 1..Len(ZoneOrder) /\ Len(ZoneOrder) \in Nat
      BY <1>3
    <3> QED
      BY <1>3, <3>1, <3>2
  <2>3. ~(i < j) /\ ~(j < i)
    BY <1>6, <2>1, <2>2
  <2> QED
    BY <2>3
<1>9. \A z \in Crossed(p, look) : \E i \in 1..n : crossed[i] = z
  <2> TAKE z \in Crossed(p, look)
  <2>1. PICK k \in DOMAIN ZoneOrder : ZoneOrder[k] = z
    BY <1>z DEF Zones
  <2> QED
    BY <1>5, <1>6, <2>1
<1>10. \A z \in Crossed(p, look) : zoned(z) \in E /\ zoned(z).zone = z
  <2> TAKE z \in Crossed(p, look)
  <2>1. z \in Zones /\ z # "none"
    BY <1>z, <1>3
  <2>2. zoned(z) \in AssocEvent
    BY <1>1, <2>1 DEF Event, AssocEvent, AssocKinds
  <2>3. Befits(zoned(z), p, look, f) /\ zoned(z).zone = z
    BY DEF Befits, Event
  <2> QED
    BY <2>2, <2>3
<1> HIDE DEF zoned, E
<1>11. a \in Seq(E) /\ Len(a) = n /\ DOMAIN a = 1..n /\ \A i \in 1..n : a[i].zone = crossed[i]
  <2>1. a = [i \in 1..n |-> zoned(crossed[i])]
    BY <1>4, <1>6
  <2>2. \A i \in 1..n : zoned(crossed[i]) \in E /\ zoned(crossed[i]).zone = crossed[i]
    BY <1>7, <1>10
  <2> HIDE DEF a
  <2>3. a \in [1..n -> E] /\ \A i \in 1..n : a[i].zone = crossed[i]
    BY <2>1, <2>2
  <2> QED
    BY <2>3, FunIsSeq
<1>12. \A k \in {"SHELF_APPROACH", "SPEED_SPIKE"} : Event(p, k, "none", f.t) \in Plain
  BY <1>1 DEF Event, AssocEvent, AssocKinds, E, Befits
<1>13. b \in Seq(Plain)
  <2> DEFINE m == NearFrames(st, look)
             b1 == IF m = 1 THEN <<Event(p, "SHELF_APPROACH", "none", f.t)>> ELSE <<>>
             b2 == IF m > 0 /\ m >= HandFrames THEN <<Event(p, "SHELF_INTERACTION", "none", f.t)>> ELSE <<>>
  <2>1. b = b1 \o b2
    BY DEF ShelfEvents
  <2>2. m > 0 /\ m >= HandFrames => Event(p, "SHELF_INTERACTION", "none", f.t) \in Plain
    BY <1>1 DEF Event, AssocEvent, AssocKinds, E, Befits
  <2> HIDE DEF Plain, m
  <2>3. <<>> \in Seq(Plain)
    BY EmptySeq
  <2>4. b1 \in Seq(Plain)
    BY <1>12, <2>3
  <2>5. b2 \in Seq(Plain)
    BY <2>2, <2>3
  <2> HIDE DEF b, b1, b2
  <2> QED
    BY <2>1, <2>4, <2>5, ConcatProperties
<1>14. c \in Seq(Plain)
  <2>1. PICK m \in Nat : m = Cardinality(PickedUp(f, look)) /\ (m > 0 => PickedUp(f, look) # {})
    BY PickedUpFinite
  <2>2. m > 0 => Event(p, "ITEM_PICKUP", "none", f.t) \in Plain
    BY <1>1, <2>1 DEF Event, AssocEvent, AssocKinds, E, Befits
  <2> HIDE DEF Plain
  <2>3. \A i \in 1..m : m > 0
    OBVIOUS
  <2>4. c \in [1..m -> Plain]
    BY <2>1, <2>2, <2>3
  <2> HIDE DEF c
  <2> QED
    BY <2>4, FunIsSeq
<1>15. d \in Seq(Plain)
  <2> HIDE DEF Plain
  <2>1. <<>> \in Seq(Plain)
    BY EmptySeq
  <2> QED
    BY <1>12, <2>1
<1> HIDE DEF a, b, c, d
<1>16. rest \in Seq(Plain) /\ rest \in Seq(E)
  <2>1. Plain \subseteq E
    OBVIOUS
  <2> HIDE DEF Plain
  <2>2. b \o c \in Seq(Plain)
    BY <1>13, <1>14, ConcatProperties
  <2>3. rest \in Seq(Plain)
    BY <1>15, <2>2, ConcatProperties
  <2> HIDE DEF rest
  <2>4. DOMAIN rest = 1..Len(rest) /\ Len(rest) \in Nat /\ \A i \in 1..Len(rest) : rest[i] \in E
    BY <2>1, <2>3
  <2>5. rest \in [1..Len(rest) -> E]
    BY <2>3, <2>4
  <2> QED
    BY <2>3, <2>4, <2>5, FunIsSeq
<1>17. EventsOf(p, look, f) = a \o rest
  <2>1. EventsOf(p, look, f) = ((a \o b) \o c) \o d
    BY DEF EventsOf, a, b, c, d
  <2>2. b \in Seq(E) /\ c \in Seq(E) /\ d \in Seq(E)
    <3>1. Seq(Plain) \subseteq Seq(E)
      <4>1. Plain \subseteq E
        OBVIOUS
      <4> HIDE DEF Plain
      <4> QED
        BY <4>1
    <3> QED
      BY <1>13, <1>14, <1>15, <3>1
  <2>3. (a \o b) \o c = a \o (b \o c) /\ b \o c \in Seq(E)
    BY <1>11, <2>2, ConcatAssociative, ConcatProperties
  <2>4. (a \o (b \o c)) \o d = a \o ((b \o c) \o d)
    <3>1. PICK bc \in Seq(E) : bc = b \o c
      BY <2>3
    <3>2. (a \o bc) \o d = a \o (bc \o d)
      BY <1>11, <2>2, ConcatAssociative
    <3> QED
      BY <3>1, <3>2
  <2> QED
    BY <2>1, <2>3, <2>4
<1> HIDE DEF rest
<1>18. /\ a \o rest \in Seq(E) /\ DOMAIN (a \o rest) = 1..n + Len(rest) /\ Len(rest) \in Nat
       /\ \A i \in 1..n : (a \o rest)[i] = a[i]
       /\ \A i \in 1..n + Len(rest) : i \in 1..n \/ (i - n \in 1..Len(rest) /\ (a \o rest)[i] = rest[i - n])
  <2>1. /\ a \o rest \in Seq(E) /\ Len(a \o rest) = n + Len(rest) /\ Len(rest) \in Nat
        /\ \A i \in 1..n + Len(rest) : (a \o rest)[i] = IF i <= n THEN a[i] ELSE rest[i - n]
    BY <1>11, <1>16, ConcatProperties
  <2>2. \A i \in 1..n : i \in 1..n + Len(rest) /\ i <= n
    BY <2>1
  <2>3. \A i \in 1..n + Len(rest) : i \in 1..n \/ (i - n \in 1..Len(rest) /\ ~(i <= n))
    BY <2>1
  <2> QED
    BY <2>1, <2>2, <2>3
<1>19. \A i \in 1..n + Len(rest) : (a \o rest)[i].zone # "none" => i \in 1..n
  <2>1. \A i \in 1..Len(rest) : rest[i].zone = "none"
    <3>1. \A i \in 1..Len(rest) : rest[i] \in Plain
      <4> HIDE DEF Plain
      <4> QED
        BY <1>16
    <3> QED
      BY <3>1
  <2> QED
    BY <1>18, <2>1
<1>20. \A i, j \in 1..n + Len(rest) :
         (a \o rest)[i].zone # "none" /\ (a \o rest)[i].zone = (a \o rest)[j].zone => i = j
  BY <1>8, <1>11, <1>18, <1>19
<1>21. \A z \in Crossed(p, look) : \E i \in 1..n + Len(rest) : (a \o rest)[i].zone = z
  <2> TAKE z \in Crossed(p, look)
  <2>1. PICK i \in 1..n : crossed[i] = z
    BY <1>9
  <2>2. i \in 1..n + Len(rest)
    BY <1>18
  <2> QED
    BY <1>11, <1>18, <2>1, <2>2
<1>22. PICK es : es = EventsOf(p, look, f)
  OBVIOUS
<1>23. es = a \o rest /\ DOMAIN es = 1..n + Len(rest)
  BY <1>17, <1>18, <1>22
<1>24. es \in Seq(E)
  BY <1>18, <1>23
<1>25. \A i, j \in DOMAIN es : es[i].zone # "none" /\ es[i].zone = es[j].zone => i = j
  BY <1>20, <1>23
<1>26. \A z \in Crossed(p, look) : \E i \in DOMAIN es : es[i].zone = z
  BY <1>21, <1>23
<1> QED
  BY <1>22, <1>24, <1>25, <1>26 DEF E

LEMMA SeenIs ==
  ASSUME NEW f \in TrueFrame
  PROVE  /\ f.t \in Nat /\ f.items \in Seq(Places) /\ Seen(f) \subseteq Tracks
         /\ f.people \in Seq([track: Tracks, look: Look])
         /\ \A p \in Seen(f) : LookIn(f, p) \in Look
         /\ \A i \in DOMAIN f.people : f.people[i].track \in Seen(f) /\ LookIn(f, f.people[i].track) = f.people[i].look
<1>1. /\ f.t \in Nat /\ f.items \in Seq(Places) /\ f.people \in Seq([track: Tracks, look: Look])
      /\ \A i, j \in DOMAIN f.people : f.people[i].track = f.people[j].track => i = j
  BY DEF TrueFrame, Frame
<1>2. \A i \in DOMAIN f.people : f.people[i].track \in Tracks /\ f.people[i].look \in Look
  <2>1. \A i \in DOMAIN f.people : f.people[i] \in [track: Tracks, look: Look]
    <3> DEFINE E == [track: Tracks, look: Look]
    <3> HIDE DEF E
    <3>1. f.people \in Seq(E)
      BY <1>1 DEF E
    <3>2. \A i \in DOMAIN f.people : f.people[i] \in E
      BY <3>1
    <3> QED
      BY <3>2 DEF E
  <2> QED
    BY <2>1
<1>3. ASSUME NEW p \in Seen(f) PROVE \E i \in DOMAIN f.people : f.people[i].track = p /\ LookIn(f, p) = f.people[i].look
  <2> DEFINE k == CHOOSE i \in DOMAIN f.people : f.people[i].track = p
  <2>1. k \in DOMAIN f.people /\ f.people[k].track = p
    BY DEF Seen
  <2>2. LookIn(f, p) = f.people[k].look
    BY DEF LookIn
  <2> HIDE DEF k
  <2> QED
    BY <2>1, <2>2
<1>4. \A i \in DOMAIN f.people : f.people[i].track \in Seen(f)
  BY DEF Seen
<1>5. \A i \in DOMAIN f.people : LookIn(f, f.people[i].track) = f.people[i].look
  BY <1>1, <1>3, <1>4
<1>6. Seen(f) \subseteq Tracks
  BY <1>2 DEF Seen
<1> QED
  BY <1>1, <1>2, <1>3, <1>4, <1>5, <1>6

(* What process_frame returns for a frame. *)
Outcome(f) == Joined([i \in DOMAIN f.people |-> EventsOf(f.people[i].track, f.people[i].look, f)])
Due(f) == {e \in AssocEvent : e.track \in Seen(f) /\ Befits(e, e.track, LookIn(f, e.track), f)}

LEMMA OutcomeIs ==
  ASSUME PersonsOK, ItemsOK, NEW f \in TrueFrame
  PROVE  /\ Outcome(f) \in Seq(Due(f))
         /\ \A i, j \in DOMAIN Outcome(f) :
              /\ Outcome(f)[i].zone # "none" /\ Outcome(f)[i].zone = Outcome(f)[j].zone
              /\ Outcome(f)[i].track = Outcome(f)[j].track
              => i = j
         /\ \A p \in Seen(f) : \A z \in Crossed(p, LookIn(f, p)) :
              \E i \in DOMAIN Outcome(f) : Outcome(f)[i].track = p /\ Outcome(f)[i].zone = z
<1> DEFINE who(i) == f.people[i].track
           E == Due(f)
           of(i) == EventsOf(f.people[i].track, f.people[i].look, f)
           ss == [i \in DOMAIN f.people |-> of(i)]
<1>1. /\ f.people \in Seq([track: Tracks, look: Look])
      /\ \A i \in DOMAIN f.people : /\ who(i) \in Seen(f) /\ who(i) \in Tracks
                                    /\ LookIn(f, who(i)) = f.people[i].look /\ f.people[i].look \in Look
      /\ \A p \in Seen(f) : \E i \in DOMAIN f.people : who(i) = p
  BY SeenIs DEF Seen
<1>2. PICK n \in Nat : n = Len(f.people) /\ DOMAIN f.people = 1..n
  BY <1>1
<1>3. \A i, j \in 1..n : who(i) = who(j) => i = j
  BY <1>2 DEF TrueFrame
<1>4. ASSUME NEW i \in 1..n
      PROVE  /\ of(i) \in Seq(E)
             /\ \A k \in DOMAIN of(i) : of(i)[k].track = who(i)
             /\ \A k, m \in DOMAIN of(i) : of(i)[k].zone # "none" /\ of(i)[k].zone = of(i)[m].zone => k = m
             /\ \A z \in Crossed(who(i), LookIn(f, who(i))) : \E k \in DOMAIN of(i) : of(i)[k].zone = z
  <2> DEFINE D == {e \in AssocEvent : Befits(e, who(i), f.people[i].look, f)}
  <2>1. who(i) \in Tracks /\ who(i) \in Seen(f) /\ f.people[i].look \in Look /\ LookIn(f, who(i)) = f.people[i].look
    BY <1>1, <1>2
  <2>2. /\ of(i) \in Seq(D)
        /\ \A k, m \in DOMAIN of(i) : of(i)[k].zone # "none" /\ of(i)[k].zone = of(i)[m].zone => k = m
        /\ \A z \in Crossed(who(i), f.people[i].look) : \E k \in DOMAIN of(i) : of(i)[k].zone = z
    <3>1. PICK w \in Tracks, l \in Look : w = who(i) /\ l = f.people[i].look
      BY <2>1
    <3>2. /\ EventsOf(w, l, f) \in Seq({e \in AssocEvent : Befits(e, w, l, f)})
          /\ \A k, m \in DOMAIN EventsOf(w, l, f) :
               EventsOf(w, l, f)[k].zone # "none" /\ EventsOf(w, l, f)[k].zone = EventsOf(w, l, f)[m].zone => k = m
          /\ \A z \in Crossed(w, l) : \E k \in DOMAIN EventsOf(w, l, f) : EventsOf(w, l, f)[k].zone = z
      BY EventsOfIs
    <3>3. PICK es : es = EventsOf(w, l, f)
      OBVIOUS
    <3>4. of(i) = es
      BY <3>1, <3>3
    <3>5. D = {e \in AssocEvent : Befits(e, w, l, f)}
      BY <3>1
    <3> HIDE DEF of, D
    <3> QED
      BY <3>1, <3>2, <3>3, <3>4, <3>5
  <2>3. \A e \in D : e.track = who(i) /\ e \in E
    BY <2>1 DEF Due, Befits
  <2> HIDE DEF D, E, of
  <2>4. \A k \in DOMAIN of(i) : of(i)[k] \in D
    BY <2>2
  <2>5. of(i) \in Seq(E)
    <3>1. DOMAIN of(i) = 1..Len(of(i)) /\ Len(of(i)) \in Nat /\ of(i) \in [1..Len(of(i)) -> D]
      BY <2>2
    <3>2. of(i) \in [1..Len(of(i)) -> E]
      BY <2>3, <3>1
    <3> QED
      BY <3>1, <3>2, FunIsSeq
  <2> QED
    BY <2>1, <2>2, <2>3, <2>4, <2>5
<1> HIDE DEF of, E
<1>5. ss \in Seq(Seq(E)) /\ DOMAIN ss = 1..n /\ \A i \in 1..n : ss[i] = of(i)
  <2>1. ss \in [1..n -> Seq(E)] /\ \A i \in 1..n : ss[i] = of(i)
    BY <1>2, <1>4
  <2> HIDE DEF ss
  <2> QED
    BY <2>1, FunIsSeq
<1> HIDE DEF ss
<1>6. PICK out : out = Outcome(f) /\ out = Joined(ss)
  BY DEF Outcome, ss, of
<1>7. out \in Seq(E)
  BY <1>5, <1>6, JoinedFacts
<1>8. PICK row \in [DOMAIN out -> Nat], col \in [DOMAIN out -> Nat] :
              /\ \A i \in DOMAIN out : row[i] \in 1..n /\ col[i] \in DOMAIN of(row[i]) /\ out[i] = of(row[i])[col[i]]
              /\ \A i, j \in DOMAIN out : row[i] = row[j] /\ col[i] = col[j] => i = j
              /\ \A k \in 1..n : \A m \in DOMAIN of(k) : \E i \in DOMAIN out : row[i] = k /\ col[i] = m
  <2>1. PICK row \in [DOMAIN out -> Nat], col \in [DOMAIN out -> Nat] :
              /\ \A i \in DOMAIN out : row[i] \in DOMAIN ss /\ col[i] \in DOMAIN ss[row[i]] /\ out[i] = ss[row[i]][col[i]]
              /\ \A i, j \in DOMAIN out : row[i] = row[j] /\ col[i] = col[j] => i = j
              /\ \A k \in DOMAIN ss : \A m \in DOMAIN ss[k] : \E i \in DOMAIN out : row[i] = k /\ col[i] = m
    <3>1. PICK row, col : JoinedBy(out, ss, row, col)
      BY <1>5, <1>6, JoinedFacts
    <3> QED
      BY <3>1 DEF JoinedBy
  <2>2. \A i \in DOMAIN out : row[i] \in 1..n /\ col[i] \in DOMAIN of(row[i]) /\ out[i] = of(row[i])[col[i]]
    BY <1>5, <2>1
  <2>3. \A k \in 1..n : \A m \in DOMAIN of(k) : \E i \in DOMAIN out : row[i] = k /\ col[i] = m
    <3> TAKE k \in 1..n
    <3> TAKE m \in DOMAIN of(k)
    <3>1. k \in DOMAIN ss /\ m \in DOMAIN ss[k]
      BY <1>5
    <3> QED
      BY <2>1, <3>1
  <2> QED
    BY <2>1, <2>2, <2>3
<1>9. ASSUME NEW i \in DOMAIN out, NEW j \in DOMAIN out,
             out[i].zone # "none", out[i].zone = out[j].zone, out[i].track = out[j].track
      PROVE  i = j
  <2>1. who(row[i]) = out[i].track /\ who(row[j]) = out[j].track
    BY <1>4, <1>8
  <2>2. row[i] = row[j]
    BY <1>3, <1>8, <1>9, <2>1
  <2>3. PICK r \in 1..n : r = row[i] /\ r = row[j]
    BY <1>8, <2>2
  <2>4. /\ col[i] \in DOMAIN of(r) /\ col[j] \in DOMAIN of(r)
        /\ of(r)[col[i]].zone # "none" /\ of(r)[col[i]].zone = of(r)[col[j]].zone
    BY <1>8, <1>9, <2>3
  <2>5. col[i] = col[j]
    BY <1>4, <2>4
  <2> QED
    BY <1>8, <2>2, <2>5
<1>10. ASSUME NEW p \in Seen(f), NEW z \in Crossed(p, LookIn(f, p))
       PROVE  \E i \in DOMAIN out : out[i].track = p /\ out[i].zone = z
  <2>1. PICK r \in 1..n : who(r) = p
    BY <1>1, <1>2
  <2>2. PICK k \in DOMAIN of(r) : of(r)[k].zone = z
    BY <1>4, <1>10, <2>1
  <2>3. of(r)[k].track = p
    BY <1>4, <2>1
  <2>4. PICK i \in DOMAIN out : row[i] = r /\ col[i] = k
    BY <1>8
  <2>5. out[i] = of(r)[k]
    BY <1>8, <2>4
  <2> QED
    BY <2>2, <2>3, <2>5
<1>11. /\ out \in Seq(E)
       /\ \A i, j \in DOMAIN out :
            out[i].zone # "none" /\ out[i].zone = out[j].zone /\ out[i].track = out[j].track => i = j
       /\ \A p \in Seen(f) : \A z \in Crossed(p, LookIn(f, p)) : \E i \in DOMAIN out : out[i].track = p /\ out[i].zone = z
  BY <1>7, <1>9, <1>10
<1> QED
  BY <1>6, <1>11 DEF E

(* Types: the streams, the association service, the behavior service. *)
ShareOK ==
  /\ detections \in [Services -> Seq(TrueFrame)] /\ \A g \in Services : Len(detections[g]) <= DetectionMax
  /\ associations \in Seq(AssocEvent) /\ Len(associations) <= AssociationMax
  /\ faults \in Nat

ZoneKinds == {"ZONE_ENTER", "ZONE_EXIT"}
OutEvent == {e \in AssocEvent : e.zone # "none" => e.kind \in ZoneKinds}

AssocOK ==
  /\ frames \in Nat /\ frameTime \in Nat
  /\ assocBatch \in Seq(TrueFrame) /\ outbox \in Seq(OutEvent)
  /\ PersonsOK /\ ItemsOK
  /\ sightings \in [Tracks -> Seq(BOOLEAN)] /\ shown \in Seq([t: Nat, items: Nat])
  /\ told \in [Tracks -> [Zones -> ZoneKinds \cup {"lost"}]] /\ pickups \in [Tracks -> Nat]

BehaviorOK ==
  /\ behPc \in {"events", "frames", "dead"}
  /\ frameBatch \in Seq(TrueFrame) /\ assocBuffer \in Seq(AssocEvent) /\ latest \in Nat
  /\ buffers \in [Tracks -> [AssocKinds -> [votes: {v \in Seq(BOOLEAN) : Len(v) <= Confirmations}, last: Nat]]]
  /\ DOMAIN tracks \subseteq Tracks /\ tracks \in [DOMAIN tracks -> TrackContext]
  /\ reports \in Seq(BehaviorEvent)
  /\ heard \in [Tracks -> [AssocKinds -> Seq(Nat)]]
  /\ confirmed \in [Tracks -> SUBSET AssocKinds] /\ reported \in [Tracks -> Nat]

TypesOK == ShareOK /\ AssocOK /\ BehaviorOK

LEMMA SeqMono ==
  ASSUME NEW A, NEW B, A \subseteq B
  PROVE  Seq(A) \subseteq Seq(B)
<1> SUFFICES ASSUME NEW s \in Seq(A) PROVE s \in Seq(B)
  OBVIOUS
<1>1. Len(s) \in Nat /\ DOMAIN s = 1..Len(s) /\ s \in [1..Len(s) -> A]
  OBVIOUS
<1>2. s \in [1..Len(s) -> B]
  BY <1>1
<1> QED
  BY <1>1, <1>2, FunIsSeq

LEMMA TypesMean == TypesOK => TrackingTypeOK
<1> SUFFICES ASSUME TypesOK PROVE TrackingTypeOK
  OBVIOUS
<1>1. Seq(TrueFrame) \subseteq Seq(Frame)
  BY SeqMono DEF TrueFrame
<1>2. Seq(OutEvent) \subseteq Seq(AssocEvent)
  BY SeqMono DEF OutEvent
<1>3. detections \in [Services -> Seq(Frame)] /\ assocBatch \in Seq(Frame) /\ frameBatch \in Seq(Frame) /\ outbox \in Seq(AssocEvent)
  BY <1>1, <1>2 DEF TypesOK, ShareOK, AssocOK, BehaviorOK
<1>4. AssocTypes
  BY <1>3 DEF AssocTypes, TypesOK, ShareOK, AssocOK, PersonsOK, ItemsOK
<1>5. \A p \in Tracks, k \in AssocKinds :
       buffers[p][k].votes \in Seq(BOOLEAN) /\ Len(buffers[p][k].votes) <= Confirmations /\ buffers[p][k].last \in Nat
  BY DEF TypesOK, BehaviorOK
<1>6. DOMAIN tracks \subseteq Tracks /\ \A p \in DOMAIN tracks : tracks[p] \in TrackContext
  BY DEF TypesOK, BehaviorOK
<1> QED
  BY <1>3, <1>4, <1>5, <1>6 DEF TrackingTypeOK, TypesOK, BehaviorOK

LEMMA TypesStart == TrackingInit => TypesOK
<1> SUFFICES ASSUME TrackingInit PROVE TypesOK
  OBVIOUS
<1> USE DEF TrackingInit, AssocInit, BehaviorInit
<1>0. \A S : <<>> \in Seq(S)
  BY EmptySeq
<1>e. Len(<<>>) = 0 /\ DOMAIN <<>> = {} /\ \A S : <<>> \in [DOMAIN <<>> -> S]
  OBVIOUS
<1>1. ShareOK
  <2>1. DetectionMax \in Nat /\ AssociationMax \in Nat
    BY AssociationAssumption
  <2>2. detections \in [Services -> Seq(TrueFrame)] /\ \A g \in Services : Len(detections[g]) <= DetectionMax
    BY <1>0, <1>e, <2>1
  <2>3. associations \in Seq(AssocEvent) /\ Len(associations) <= AssociationMax /\ faults \in Nat
    BY <1>0, <1>e, <2>1
  <2> QED
    BY <2>2, <2>3 DEF ShareOK
<1>2. AssocOK
  <2>1. IsFiniteSet({})
    BY FS_EmptySet
  <2>2. PersonsOK /\ ItemsOK
    BY <1>e, <2>1 DEF PersonsOK, ItemsOK
  <2>3. assocBatch \in Seq(TrueFrame) /\ outbox \in Seq(OutEvent) /\ shown \in Seq([t: Nat, items: Nat])
    BY <1>0
  <2>4. sightings \in [Tracks -> Seq(BOOLEAN)]
    BY <1>0
  <2>5. told \in [Tracks -> [Zones -> ZoneKinds \cup {"lost"}]] /\ pickups \in [Tracks -> Nat]
    BY DEF ZoneKinds
  <2>6. frames \in Nat /\ frameTime \in Nat
    BY DEF Start
  <2> QED
    BY <2>2, <2>3, <2>4, <2>5, <2>6 DEF AssocOK
<1>3. BehaviorOK
  <2>1. frameBatch \in Seq(TrueFrame) /\ assocBuffer \in Seq(AssocEvent) /\ reports \in Seq(BehaviorEvent)
    BY <1>0
  <2>2. buffers \in [Tracks -> [AssocKinds -> [votes: {v \in Seq(BOOLEAN) : Len(v) <= Confirmations}, last: Nat]]]
    <3>1. <<>> \in {v \in Seq(BOOLEAN) : Len(v) <= Confirmations}
      BY <1>0, <1>e, BehaviorAssumption
    <3> HIDE <1>0
    <3> QED
      BY <3>1
  <2>3. heard \in [Tracks -> [AssocKinds -> Seq(Nat)]]
    BY <1>0
  <2>4. DOMAIN tracks \subseteq Tracks /\ tracks \in [DOMAIN tracks -> TrackContext]
    BY <1>e
  <2>5. confirmed \in [Tracks -> SUBSET AssocKinds] /\ reported \in [Tracks -> Nat] /\ behPc \in {"events", "frames", "dead"} /\ latest \in Nat
    OBVIOUS
  <2> QED
    BY <2>1, <2>2, <2>3, <2>4, <2>5 DEF BehaviorOK
<1> QED
  BY <1>1, <1>2, <1>3 DEF TypesOK

LEMMA PublishDetectionTypes ==
  TypesOK /\ PublishDetection /\ UNCHANGED behaviorVars => TypesOK'
<1> SUFFICES ASSUME TypesOK, PublishDetection, UNCHANGED behaviorVars PROVE TypesOK'
  OBVIOUS
<1> USE DEF TypesOK
<1>1. PICK s \in Scenes : LET f == Detected(s, frameTime + s.gap)
                          IN frameTime' = f.t /\ detections' = [g \in Services |-> Newest(DetectionMax, Append(detections[g], f))]
  BY DEF PublishDetection
<1>2. s.gap \in Nat /\ frameTime \in Nat
  BY AssociationAssumption DEF IsScene, AssocOK
<1>3. PICK f \in TrueFrame : f = Detected(s, frameTime + s.gap) /\ f.t = frameTime + s.gap
  BY <1>2, DetectedIs
<1>4. frameTime' \in Nat
  BY <1>1, <1>2, <1>3
<1>5. ASSUME NEW g \in Services
      PROVE  Newest(DetectionMax, Append(detections[g], f)) \in Seq(TrueFrame) /\ Len(Newest(DetectionMax, Append(detections[g], f))) <= DetectionMax
  <2>1. Append(detections[g], f) \in Seq(TrueFrame)
    BY DEF ShareOK
  <2>2. DetectionMax \in Nat
    BY AssociationAssumption
  <2> QED
    BY <2>1, <2>2, NewestIs
<1>6. ShareOK'
  <2>1. detections' = [g \in Services |-> Newest(DetectionMax, Append(detections[g], f))]
    BY <1>1, <1>3
  <2>2. detections' \in [Services -> Seq(TrueFrame)] /\ \A g \in Services : Len(detections'[g]) <= DetectionMax
    BY <1>5, <2>1
  <2> QED
    BY <2>2 DEF ShareOK, PublishDetection
<1>7. AssocOK'
  BY <1>4 DEF AssocOK, PublishDetection, PersonsOK, ItemsOK
<1>8. BehaviorOK'
  BY DEF BehaviorOK, behaviorVars
<1> QED
  BY <1>6, <1>7, <1>8

LEMMA ReadDetectionsTypes ==
  TypesOK /\ ReadDetections /\ UNCHANGED behaviorVars => TypesOK'
<1> SUFFICES ASSUME TypesOK, ReadDetections, UNCHANGED behaviorVars PROVE TypesOK'
  OBVIOUS
<1> USE DEF TypesOK
<1>1. "association" \in Services /\ DetectionBatch \in Nat
  BY AssociationAssumption DEF Services
<1>2. PICK q \in Seq(TrueFrame) : q = detections["association"] /\ Len(q) <= DetectionMax
  BY <1>1 DEF ShareOK
<1>3. FirstOf(DetectionBatch, q) \in Seq(TrueFrame) /\ After(DetectionBatch, q) \in Seq(TrueFrame)
      /\ Len(After(DetectionBatch, q)) <= DetectionMax
  <2>1. Len(q) \in Nat /\ Len(After(DetectionBatch, q)) \in Nat /\ DetectionMax \in Nat
    BY <1>1, SplitIs, AssociationAssumption
  <2> QED
    BY <1>1, <1>2, <2>1, SplitIs
<1>4. ShareOK'
  <2>1. detections' = [detections EXCEPT !["association"] = After(DetectionBatch, q)]
    BY <1>2 DEF ReadDetections
  <2>2. detections' \in [Services -> Seq(TrueFrame)] /\ \A g \in Services : Len(detections'[g]) <= DetectionMax
    BY <1>1, <1>3, <2>1 DEF ShareOK
  <2> QED
    BY <2>2 DEF ShareOK, ReadDetections
<1>5. AssocOK'
  BY <1>2, <1>3 DEF AssocOK, ReadDetections, PersonsOK, ItemsOK
<1>6. BehaviorOK'
  BY DEF BehaviorOK, behaviorVars
<1> QED
  BY <1>4, <1>5, <1>6

LEMMA ProcessFrameTypes ==
  TypesOK /\ ProcessFrame /\ UNCHANGED behaviorVars => TypesOK'
<1> SUFFICES ASSUME TypesOK, ProcessFrame, UNCHANGED behaviorVars PROVE TypesOK'
  OBVIOUS
<1> USE DEF TypesOK
<1>1. PICK f \in TrueFrame : f = Head(assocBatch)
  BY DEF ProcessFrame, AssocOK
<1>2. /\ outbox' = Outcome(f) /\ lastItems' = Registry(f)
      /\ persons' = [p \in (DOMAIN persons \ Gone(f)) \cup Seen(f) |->
                         IF p \in Seen(f) THEN Updated(StateOf(p), LookIn(f, p), f.t) ELSE persons[p]]
      /\ shown' = Append(shown, [t |-> f.t, items |-> Len(f.items)])
      /\ sightings' = [p \in Tracks |->
                           IF p \in Seen(f) THEN Append(sightings[p], LookIn(f, p).near)
                           ELSE IF p \in Gone(f) THEN <<>> ELSE sightings[p]]
      /\ told' = [p \in Tracks |-> IF p \in Gone(f) THEN [z \in Zones |-> "lost"] ELSE told[p]]
      /\ assocBatch' = Tail(assocBatch)
      /\ UNCHANGED <<frames, frameTime, detections, associations, faults, pickups>>
  BY <1>1 DEF ProcessFrame, Outcome
<1>3. /\ f.t \in Nat /\ f.items \in Seq(Places) /\ Seen(f) \subseteq Tracks
      /\ \A p \in Seen(f) : LookIn(f, p) \in Look
  BY SeenIs
<1>4. outbox' \in Seq(OutEvent)
  <2>1. Due(f) \subseteq OutEvent
    BY DEF Due, OutEvent, Befits, ZoneKinds
  <2>2. Outcome(f) \in Seq(Due(f))
    BY OutcomeIs DEF AssocOK
  <2> QED
    BY <1>2, <2>1, <2>2, SeqMono
<1>5. PersonsOK'
  <2>1. ASSUME NEW p \in Seen(f) PROVE Updated(StateOf(p), LookIn(f, p), f.t) \in PersonState
    <3>1. PICK st \in [zones: SUBSET Zones, near: Nat, speeds: Nat \cup {-1}, spike: Nat, last: Nat] : st = StateOf(p)
      BY <1>3, <2>1, StateType DEF AssocOK
    <3>2. PICK look \in Look : look = LookIn(f, p)
      BY <1>3, <2>1
    <3>3. Updated(st, look, f.t) \in PersonState
      BY <1>3 DEF Updated, PersonState, ZonesNow, NearFrames, Look
    <3> QED
      BY <3>1, <3>2, <3>3
  <2> DEFINE D == (DOMAIN persons \ Gone(f)) \cup Seen(f)
  <2>2. D \subseteq Tracks
    BY <1>3 DEF AssocOK, PersonsOK
  <2>3. \A p \in D \ Seen(f) : persons[p] \in PersonState
    BY DEF AssocOK, PersonsOK
  <2>4. persons' \in [D -> PersonState]
    BY <1>2, <2>1, <2>3
  <2> QED
    BY <2>2, <2>4 DEF PersonsOK
<1>6. ItemsOK'
  <2>1. Ids(f) \subseteq Nat /\ IsFiniteSet(Ids(f)) /\ \A i \in Ids(f) : f.items[i + 1] \in Places
    <3>1. Len(f.items) \in Nat /\ \A i \in 1..Len(f.items) : f.items[i] \in Places
      BY <1>3
    <3>2. IsFiniteSet(0..Len(f.items) - 1)
      BY <3>1, FS_Interval
    <3>3. \A i \in 0..Len(f.items) - 1 : i + 1 \in 1..Len(f.items)
      BY <3>1
    <3> QED
      BY <3>1, <3>2, <3>3 DEF Ids
  <2>2. Vanished(f) \subseteq DOMAIN lastItems
    BY DEF Vanished
  <2>3. IsFiniteSet(Known(f)) /\ Known(f) \subseteq Nat
    <3> DEFINE V == {i \in Vanished(f) : f.t - lastItems[i].t < ItemMemory}
    <3>1. V \in SUBSET (DOMAIN lastItems)
      BY <2>2
    <3>2. IsFiniteSet(V)
      BY <3>1, FS_Subset DEF AssocOK, ItemsOK
    <3> HIDE DEF V
    <3>3. IsFiniteSet(V \cup Ids(f))
      BY <2>1, <3>2, FS_Union
    <3>4. Known(f) = V \cup Ids(f)
      BY DEF Known, V
    <3> QED
      BY <2>1, <3>1, <3>3, <3>4 DEF AssocOK, ItemsOK
  <2>4. lastItems' \in [Known(f) -> [place: Places, t: Nat]]
    <3>1. ASSUME NEW i \in Known(f)
          PROVE  (IF i \in Ids(f) THEN [place |-> f.items[i + 1], t |-> f.t] ELSE lastItems[i]) \in [place: Places, t: Nat]
      <4>1. CASE i \in Ids(f)
        BY <1>3, <2>1, <4>1
      <4>2. CASE i \notin Ids(f)
        <5>1. i \in DOMAIN lastItems
          BY <2>2, <3>1, <4>2 DEF Known
        <5> QED
          BY <4>2, <5>1 DEF AssocOK, ItemsOK
      <4> QED
        BY <4>1, <4>2
    <3> DEFINE E == [place: Places, t: Nat]
               val(i) == IF i \in Ids(f) THEN [place |-> f.items[i + 1], t |-> f.t] ELSE lastItems[i]
    <3>2. lastItems' = [i \in Known(f) |-> val(i)]
      BY <1>2 DEF Registry
    <3>3. \A i \in Known(f) : val(i) \in E
      BY <3>1
    <3> HIDE DEF E, val
    <3>4. lastItems' \in [Known(f) -> E]
      BY <3>2, <3>3
    <3> QED
      BY <3>4 DEF E
  <2> QED
    BY <2>3, <2>4 DEF ItemsOK
<1>7. shown' \in Seq([t: Nat, items: Nat])
  <2>1. [t |-> f.t, items |-> Len(f.items)] \in [t: Nat, items: Nat]
    BY <1>3
  <2> DEFINE E == [t: Nat, items: Nat]
  <2> HIDE DEF E
  <2>2. shown \in Seq(E)
    BY DEF AssocOK, E
  <2>3. [t |-> f.t, items |-> Len(f.items)] \in E
    BY <2>1 DEF E
  <2>4. shown' \in Seq(E)
    BY <1>2, <2>2, <2>3, AppendProperties
  <2> QED
    BY <2>4 DEF E
<1>8. sightings' \in [Tracks -> Seq(BOOLEAN)]
  <2>1. \A p \in Tracks : sightings[p] \in Seq(BOOLEAN)
    BY DEF AssocOK
  <2>2. \A p \in Seen(f) : LookIn(f, p).near \in BOOLEAN
    BY <1>3 DEF Look
  <2>3. \A p \in Seen(f) : Append(sightings[p], LookIn(f, p).near) \in Seq(BOOLEAN)
    BY <1>3, <2>1, <2>2, AppendProperties
  <2>4. <<>> \in Seq(BOOLEAN)
    BY EmptySeq
  <2> QED
    BY <1>2, <2>1, <2>3, <2>4
<1>9. told' \in [Tracks -> [Zones -> ZoneKinds \cup {"lost"}]]
  BY <1>2 DEF AssocOK
<1>10. assocBatch' \in Seq(TrueFrame)
  BY <1>2, HeadTailProperties DEF AssocOK, ProcessFrame
<1>11. AssocOK'
  BY <1>2, <1>4, <1>5, <1>6, <1>7, <1>8, <1>9, <1>10 DEF AssocOK
<1>12. ShareOK' /\ BehaviorOK'
  BY <1>2 DEF ShareOK, BehaviorOK, behaviorVars
<1> QED
  BY <1>11, <1>12

LEMMA PublishAssociationTypes ==
  TypesOK /\ PublishAssociation /\ UNCHANGED behaviorVars => TypesOK'
<1> SUFFICES ASSUME TypesOK, PublishAssociation, UNCHANGED behaviorVars PROVE TypesOK'
  OBVIOUS
<1> USE DEF TypesOK
<1>1. PICK e \in OutEvent : e = Head(outbox)
  BY DEF PublishAssociation, AssocOK
<1>2. e \in AssocEvent /\ e.track \in Tracks /\ e.kind \in AssocKinds /\ e.zone \in Zones \cup {"none"}
      /\ (e.zone # "none" => e.kind \in ZoneKinds)
  BY DEF OutEvent, AssocEvent
<1>3. outbox' \in Seq(OutEvent)
  BY HeadTailProperties DEF PublishAssociation, AssocOK
<1>4. associations' \in Seq(AssocEvent) /\ Len(associations') <= AssociationMax
  <2>1. PICK q \in Seq(AssocEvent) : q = Append(associations, e)
    BY <1>2, AppendProperties DEF ShareOK
  <2>2. AssociationMax \in Nat
    BY AssociationAssumption
  <2>3. associations' = Newest(AssociationMax, q)
    BY <1>1, <2>1 DEF PublishAssociation
  <2> QED
    BY <2>2, <2>3, NewestIs
<1>5. told' \in [Tracks -> [Zones -> ZoneKinds \cup {"lost"}]]
  <2>1. told' = IF e.zone = "none" THEN told ELSE [told EXCEPT ![e.track][e.zone] = e.kind]
    BY <1>1 DEF PublishAssociation
  <2> QED
    BY <1>2, <2>1 DEF AssocOK
<1>6. pickups' \in [Tracks -> Nat]
  <2>1. pickups' = IF e.kind = "ITEM_PICKUP" THEN [pickups EXCEPT ![e.track] = @ + 1] ELSE pickups
    BY <1>1 DEF PublishAssociation
  <2> QED
    BY <1>2, <2>1 DEF AssocOK
<1>7. AssocOK'
  BY <1>3, <1>5, <1>6 DEF AssocOK, PublishAssociation, PersonsOK, ItemsOK
<1>8. ShareOK' /\ BehaviorOK'
  BY <1>4 DEF ShareOK, BehaviorOK, behaviorVars, PublishAssociation
<1> QED
  BY <1>7, <1>8

LEMMA PublishAssociationFailsTypes ==
  TypesOK /\ PublishAssociationFails /\ UNCHANGED behaviorVars => TypesOK'
<1> SUFFICES ASSUME TypesOK, PublishAssociationFails, UNCHANGED behaviorVars PROVE TypesOK'
  OBVIOUS
<1> USE DEF TypesOK
<1>1. outbox' \in Seq(OutEvent)
  BY EmptySeq DEF PublishAssociationFails
<1>2. told' \in [Tracks -> [Zones -> ZoneKinds \cup {"lost"}]]
  BY DEF PublishAssociationFails
<1>3. AssocOK'
  BY <1>1, <1>2 DEF AssocOK, PublishAssociationFails, PersonsOK, ItemsOK
<1> QED
  BY <1>3 DEF ShareOK, BehaviorOK, behaviorVars, PublishAssociationFails

LEMMA RestartAssociationTypes ==
  TypesOK /\ RestartAssociation /\ UNCHANGED behaviorVars => TypesOK'
<1> SUFFICES ASSUME TypesOK, RestartAssociation, UNCHANGED behaviorVars PROVE TypesOK'
  OBVIOUS
<1> USE DEF TypesOK
<1>1. outbox' \in Seq(OutEvent) /\ assocBatch' \in Seq(TrueFrame)
  BY EmptySeq DEF RestartAssociation
<1>2. told' \in [Tracks -> [Zones -> ZoneKinds \cup {"lost"}]]
  BY DEF RestartAssociation
<1>3. sightings' \in [Tracks -> Seq(BOOLEAN)]
  BY EmptySeq DEF RestartAssociation
<1>4. PersonsOK' /\ ItemsOK'
  <2>1. DOMAIN <<>> = {} /\ \A S : <<>> \in [{} -> S]
    OBVIOUS
  <2>2. persons' = <<>> /\ lastItems' = <<>>
    BY DEF RestartAssociation
  <2> QED
    BY <2>1, <2>2, FS_EmptySet DEF PersonsOK, ItemsOK
<1>5. AssocOK'
  BY <1>1, <1>2, <1>3, <1>4 DEF AssocOK, RestartAssociation
<1> QED
  BY <1>5 DEF ShareOK, BehaviorOK, behaviorVars, RestartAssociation

(* What the behavior service makes of the events of a frame. *)
LEMMA OfKindIs ==
  ASSUME BehaviorOK, NEW p, NEW k
  PROVE  /\ OfKind(p, k) \in Seq(AssocEvent) /\ Len(OfKind(p, k)) \in Nat /\ DOMAIN OfKind(p, k) = 1..Len(OfKind(p, k))
         /\ Len(OfKind(p, k)) = CountIn(assocBuffer, {e \in AssocEvent : e.track = p /\ e.kind = k})
<1> DEFINE S == {e \in AssocEvent : e.track = p /\ e.kind = k}
<1>1. assocBuffer \in Seq(AssocEvent)
  BY DEF BehaviorOK
<1>2. OfKind(p, k) = Selected(assocBuffer, S)
  BY DEF OfKind
<1> HIDE DEF S
<1>3. OfKind(p, k) \in Seq(AssocEvent) /\ Len(OfKind(p, k)) = CountIn(assocBuffer, S)
  BY <1>1, <1>2, SelectedCount
<1> QED
  BY <1>3 DEF S

LEMMA VotesIs ==
  ASSUME NEW n \in Nat
  PROVE  Votes(n) \in Seq(BOOLEAN) /\ Len(Votes(n)) = n /\ \A i \in 1..n : Votes(n)[i]
<1>1. Votes(n) \in [1..n -> BOOLEAN] /\ \A i \in 1..n : Votes(n)[i]
  BY DEF Votes
<1> QED
  BY <1>1, FunIsSeq

VoteSeq == {v \in Seq(BOOLEAN) : Len(v) <= Confirmations}
Buffer == [votes: VoteSeq, last: Nat]

LEMMA AfterVotesType ==
  ASSUME NEW b \in Buffer, NEW n \in Nat, NEW t \in Nat
  PROVE  AfterVotes(b, n, t) \in VoteSeq
<1>1. PICK v \in Seq(BOOLEAN) : v = Base(b, t)
  BY EmptySeq DEF Base, Buffer, VoteSeq
<1>2. PICK w \in Seq(BOOLEAN) : w = v \o Votes(n)
  BY VotesIs, ConcatProperties
<1>3. AfterVotes(b, n, t) = Newest(Confirmations, w)
  BY <1>1, <1>2 DEF AfterVotes
<1>4. Confirmations \in Nat
  BY BehaviorAssumption
<1> QED
  BY <1>3, <1>4, NewestIs DEF VoteSeq

LEMMA BuffersType ==
  ASSUME BehaviorOK, NEW t \in Nat
  PROVE  BuffersAfter(t) \in [Tracks -> [AssocKinds -> Buffer]]
<1>1. ASSUME NEW p \in Tracks, NEW k \in AssocKinds
      PROVE  BuffersAfter(t)[p][k] \in Buffer
  <2>1. PICK b \in Buffer, n \in Nat : b = buffers[p][k] /\ n = Len(OfKind(p, k))
    <3>1. buffers[p][k] \in Buffer
      BY DEF BehaviorOK, Buffer, VoteSeq
    <3> QED
      BY <3>1, OfKindIs
  <2>2. BuffersAfter(t)[p][k] =
          IF Confirmations = 1 THEN b
          ELSE IF n > 0 THEN [votes |-> AfterVotes(b, n, t), last |-> t]
          ELSE IF b.last > 0 /\ t - b.last <= ConfirmAge THEN [b EXCEPT !.votes = Newest(Confirmations, Append(@, FALSE))]
          ELSE b
    BY <2>1 DEF BuffersAfter
  <2>3. [votes |-> AfterVotes(b, n, t), last |-> t] \in Buffer
    BY AfterVotesType DEF Buffer
  <2>4. [b EXCEPT !.votes = Newest(Confirmations, Append(@, FALSE))] \in Buffer
    <3>1. b.votes \in Seq(BOOLEAN) /\ Confirmations \in Nat
      BY BehaviorAssumption DEF Buffer, VoteSeq
    <3>2. Append(b.votes, FALSE) \in Seq(BOOLEAN)
      BY <3>1, AppendProperties
    <3>3. Newest(Confirmations, Append(b.votes, FALSE)) \in VoteSeq
      BY <3>1, <3>2, NewestIs DEF VoteSeq
    <3> QED
      BY <3>3 DEF Buffer
  <2> QED
    BY <2>2, <2>3, <2>4
<1> QED
  BY <1>1 DEF BuffersAfter

LEMMA ExitsType ==
  ASSUME BehaviorOK, NEW p, NEW t
  PROVE  Exits(p, t) \in Nat
<1> DEFINE S == {i \in Confirmed(p, "ZONE_EXIT", t) : OfKind(p, "ZONE_EXIT")[i].zone = "exit_zone"}
<1>1. PICK n \in Nat : DOMAIN OfKind(p, "ZONE_EXIT") = 1..n
  BY OfKindIs
<1>2. S \in SUBSET (1..n)
  BY <1>1 DEF Confirmed
<1>3. IsFiniteSet(1..n)
  BY <1>1, FS_Interval
<1>4. IsFiniteSet(S)
  BY <1>2, <1>3, FS_Subset
<1> QED
  BY <1>4, FS_CardinalityType DEF Exits

LEMMA ContextType ==
  ASSUME BehaviorOK, NEW p, NEW t \in Nat
  PROVE  Context(p, t) \in TrackContext
BY DEF BehaviorOK, Context, TrackContext, Stages

LEMMA UpdateType ==
  ASSUME BehaviorOK, NEW c \in TrackContext, NEW p, NEW look \in Look, NEW t \in Nat
  PROVE  Update(c, p, look, t) \in TrackContext
<1>1. c.stage \in Stages /\ c.score \in Nat /\ c.pick \in Nat /\ c.conceal \in Nat /\ c.spike \in Nat /\ c.shelf \in Nat
      /\ c.last \in Nat /\ Exits(p, t) \in Nat /\ look.hides \in Concealments /\ Decay \in Nat
  BY ExitsType, BehaviorAssumption DEF TrackContext, Look
<1>2. Decayed(c, t) \in Nat
  <2>1. PICK d \in Int : d = Decay * (t - c.last)
    BY <1>1
  <2>2. Decayed(c, t) = IF c.score > d THEN c.score - d ELSE 0
    BY <2>1 DEF Decayed
  <2> QED
    BY <1>1, <2>2
<1>3. Gain(c, p, look, t) \in Nat
  <2>1. HideWeight[look.hides] \in Nat
    BY <1>1 DEF HideWeight, Concealments
  <2>2. 12 * Exits(p, t) \in Nat
    BY <1>1
  <2> QED
    BY <2>1, <2>2 DEF Gain
<1>4. Stage(c, p, look, t) \in Stages
  BY <1>1 DEF Stage, Stages
<1>5. PickTime(c, p, t) \in Nat /\ ConcealTime(c, p, look, t) \in Nat
  BY <1>1 DEF PickTime, ConcealTime
<1> QED
  BY <1>1, <1>2, <1>3, <1>4, <1>5 DEF Update, TrackContext

(* The steps of the behavior service keep the types. *)
Quiet == UNCHANGED <<frames, frameTime, assocOwn>>

LEMMA QuietTypes == AssocOK /\ Quiet => AssocOK'
BY DEF AssocOK, Quiet, assocOwn, PersonsOK, ItemsOK

LEMMA ReadEventsTypes == TypesOK /\ ReadEvents /\ Quiet => TypesOK'
<1> SUFFICES ASSUME TypesOK, ReadEvents, Quiet PROVE TypesOK'
  OBVIOUS
<1> USE DEF TypesOK
<1>1. EventBatch \in Nat /\ associations \in Seq(AssocEvent) /\ assocBuffer \in Seq(AssocEvent)
  BY BehaviorAssumption DEF ShareOK, BehaviorOK
<1>2. FirstOf(EventBatch, associations) \in Seq(AssocEvent) /\ After(EventBatch, associations) \in Seq(AssocEvent)
      /\ Len(After(EventBatch, associations)) <= Len(associations)
  BY <1>1, SplitIs
<1>3. assocBuffer' \in Seq(AssocEvent)
  BY <1>1, <1>2, ConcatProperties DEF ReadEvents
<1>4. associations' \in Seq(AssocEvent) /\ Len(associations') <= AssociationMax
  <2>1. Len(associations) \in Nat /\ Len(After(EventBatch, associations)) \in Nat /\ AssociationMax \in Nat
    BY <1>1, <1>2, AssociationAssumption
  <2> QED
    BY <1>2, <2>1 DEF ReadEvents, ShareOK
<1>5. ShareOK'
  BY <1>4 DEF ShareOK, ReadEvents
<1>6. BehaviorOK'
  BY <1>3 DEF BehaviorOK, ReadEvents
<1> QED
  BY <1>5, <1>6, QuietTypes

LEMMA ReadFramesTypes == TypesOK /\ ReadFrames /\ Quiet => TypesOK'
<1> SUFFICES ASSUME TypesOK, ReadFrames, Quiet PROVE TypesOK'
  OBVIOUS
<1> USE DEF TypesOK
<1>1. "behavior" \in Services /\ FrameBatch \in Nat
  BY BehaviorAssumption DEF Services
<1>2. PICK q \in Seq(TrueFrame) : q = detections["behavior"] /\ Len(q) <= DetectionMax
  BY <1>1 DEF ShareOK
<1>3. FirstOf(FrameBatch, q) \in Seq(TrueFrame) /\ After(FrameBatch, q) \in Seq(TrueFrame)
      /\ Len(After(FrameBatch, q)) <= DetectionMax
  <2>1. Len(q) \in Nat /\ Len(After(FrameBatch, q)) \in Nat /\ DetectionMax \in Nat
    BY <1>1, SplitIs, AssociationAssumption
  <2> QED
    BY <1>1, <1>2, <2>1, SplitIs
<1>4. ShareOK'
  <2>1. detections' = [detections EXCEPT !["behavior"] = After(FrameBatch, q)]
    BY <1>2 DEF ReadFrames
  <2>2. detections' \in [Services -> Seq(TrueFrame)] /\ \A g \in Services : Len(detections'[g]) <= DetectionMax
    BY <1>1, <1>3, <2>1 DEF ShareOK
  <2> QED
    BY <2>2 DEF ShareOK, ReadFrames
<1>5. BehaviorOK'
  BY <1>2, <1>3 DEF BehaviorOK, ReadFrames
<1> QED
  BY <1>4, <1>5, QuietTypes

LEMMA NoFramesTypes == TypesOK /\ NoFrames /\ Quiet => TypesOK'
<1> SUFFICES ASSUME TypesOK, NoFrames, Quiet PROVE TypesOK'
  OBVIOUS
<1> USE DEF TypesOK
<1>1. assocBuffer' \in Seq(AssocEvent)
  <2> DEFINE S == {e \in AssocEvent : latest - e.t < BufferAge}
  <2>1. assocBuffer' = IF latest = 0 THEN assocBuffer ELSE Selected(assocBuffer, S)
    BY DEF NoFrames
  <2> HIDE DEF S
  <2>2. assocBuffer \in Seq(AssocEvent)
    BY DEF BehaviorOK
  <2>3. Selected(assocBuffer, S) \in Seq(AssocEvent)
    BY <2>2, SelectedCount
  <2> QED
    BY <2>1, <2>2, <2>3
<1>2. BehaviorOK'
  BY <1>1 DEF BehaviorOK, NoFrames
<1> QED
  BY <1>2, QuietTypes DEF ShareOK, NoFrames

(* What HandleFrame does to a frame. *)
Now(p, f) == Update(Context(p, f.t), p, LookIn(f, p), f.t)
Reports(f) ==
  [i \in DOMAIN f.people |->
    LET p == f.people[i].track IN Report(p, Context(p, f.t), Now(p, f), f.people[i].look, f.t)]

LEMMA HandleFrameIs ==
  ASSUME HandleFrame, BehaviorOK
  PROVE  \E f \in TrueFrame :
           /\ f = Head(frameBatch) /\ frameBatch # <<>> /\ reports = <<>>
           /\ tracks' = [p \in (DOMAIN tracks \ Lost(f)) \cup Seen(f) |-> IF p \in Seen(f) THEN Now(p, f) ELSE tracks[p]]
           /\ reports' = Reports(f) /\ buffers' = BuffersAfter(f.t)
           /\ latest' = (IF f.t > latest THEN f.t ELSE latest)
           /\ heard' = [p \in Tracks |-> [k \in AssocKinds |-> heard[p][k] \o [i \in DOMAIN OfKind(p, k) |-> f.t]]]
           /\ confirmed' = [p \in Tracks |-> {k \in AssocKinds : Has(p, k, f.t)}]
           /\ assocBuffer' = <<>> /\ frameBatch' = Tail(frameBatch)
           /\ UNCHANGED <<faults, associations, detections, behPc, reported>>
<1>1. PICK f \in TrueFrame : f = Head(frameBatch)
  BY DEF HandleFrame, BehaviorOK
<1>2. /\ frameBatch # <<>> /\ reports = <<>>
      /\ tracks' = [p \in (DOMAIN tracks \ Lost(f)) \cup Seen(f) |-> IF p \in Seen(f) THEN Now(p, f) ELSE tracks[p]]
      /\ reports' = Reports(f) /\ buffers' = BuffersAfter(f.t)
      /\ latest' = (IF f.t > latest THEN f.t ELSE latest)
      /\ heard' = [p \in Tracks |-> [k \in AssocKinds |-> heard[p][k] \o [i \in DOMAIN OfKind(p, k) |-> f.t]]]
      /\ confirmed' = [p \in Tracks |-> {k \in AssocKinds : Has(p, k, f.t)}]
      /\ assocBuffer' = <<>> /\ frameBatch' = Tail(frameBatch)
      /\ UNCHANGED <<faults, associations, detections, behPc, reported>>
  BY <1>1 DEF HandleFrame, Reports, Now
<1> QED
  BY <1>1, <1>2

LEMMA ReportsIs ==
  ASSUME BehaviorOK, NEW f \in TrueFrame
  PROVE  /\ Reports(f) \in Seq(BehaviorEvent) /\ DOMAIN Reports(f) = DOMAIN f.people
         /\ \A p \in Seen(f) : Now(p, f) \in TrackContext
         /\ \A i \in DOMAIN Reports(f) : /\ Reports(f)[i].track = f.people[i].track /\ Reports(f)[i].t = f.t
                                         /\ Reports(f)[i].stage = Now(f.people[i].track, f).stage
<1> DEFINE e(i) == Report(f.people[i].track, Context(f.people[i].track, f.t), Now(f.people[i].track, f), f.people[i].look, f.t)
<1>1. /\ f.t \in Nat /\ f.people \in Seq([track: Tracks, look: Look]) /\ Seen(f) \subseteq Tracks
      /\ \A p \in Seen(f) : LookIn(f, p) \in Look
      /\ \A i \in DOMAIN f.people : f.people[i].track \in Seen(f) /\ LookIn(f, f.people[i].track) = f.people[i].look
  BY SeenIs
<1>2. ASSUME NEW p \in Seen(f) PROVE Now(p, f) \in TrackContext
  <2>1. PICK c \in TrackContext, look \in Look : c = Context(p, f.t) /\ look = LookIn(f, p)
    BY <1>1, <1>2, ContextType
  <2> QED
    BY <1>1, <2>1, UpdateType DEF Now
<1>3. ASSUME NEW i \in DOMAIN f.people
      PROVE  /\ e(i) \in BehaviorEvent /\ e(i).track = f.people[i].track /\ e(i).t = f.t
             /\ e(i).stage = Now(f.people[i].track, f).stage
  <2>1. PICK p \in Seen(f), look \in Look, c \in TrackContext : p = f.people[i].track /\ look = f.people[i].look /\ c = Now(p, f)
    BY <1>1, <1>2, <1>3
  <2>2. c.stage \in Stages /\ c.score \in Nat /\ Trigger \in Nat /\ look.hides \in Concealments /\ p \in Tracks
    BY <1>1, BehaviorAssumption DEF TrackContext, Look
  <2>3. e(i) = [track |-> p, stage |-> c.stage,
                conceal |-> IF Hides(Context(p, f.t), p, look, f.t) THEN look.hides ELSE "NONE",
                suspicious |-> c.score >= Trigger, t |-> f.t]
    BY <2>1 DEF Report
  <2>4. "NONE" \in Concealments
    BY DEF Concealments
  <2>5. e(i) \in BehaviorEvent
    BY <1>1, <2>2, <2>3, <2>4 DEF BehaviorEvent
  <2> QED
    BY <2>1, <2>3, <2>5
<1>4. Reports(f) = [i \in DOMAIN f.people |-> e(i)]
  BY DEF Reports
<1> HIDE DEF e
<1>5. PICK n \in Nat : DOMAIN f.people = 1..n
  BY <1>1
<1>6. Reports(f) \in [1..n -> BehaviorEvent]
  BY <1>3, <1>4, <1>5
<1>7. Reports(f) \in Seq(BehaviorEvent)
  BY <1>6, FunIsSeq
<1> QED
  BY <1>2, <1>3, <1>4, <1>7

LEMMA HandleFrameTypes == TypesOK /\ HandleFrame /\ Quiet => TypesOK'
<1> SUFFICES ASSUME TypesOK, HandleFrame, Quiet PROVE TypesOK'
  OBVIOUS
<1> USE DEF TypesOK
<1>1. PICK f \in TrueFrame :
           /\ f = Head(frameBatch) /\ frameBatch # <<>> /\ reports = <<>>
           /\ tracks' = [p \in (DOMAIN tracks \ Lost(f)) \cup Seen(f) |-> IF p \in Seen(f) THEN Now(p, f) ELSE tracks[p]]
           /\ reports' = Reports(f) /\ buffers' = BuffersAfter(f.t)
           /\ latest' = (IF f.t > latest THEN f.t ELSE latest)
           /\ heard' = [p \in Tracks |-> [k \in AssocKinds |-> heard[p][k] \o [i \in DOMAIN OfKind(p, k) |-> f.t]]]
           /\ confirmed' = [p \in Tracks |-> {k \in AssocKinds : Has(p, k, f.t)}]
           /\ assocBuffer' = <<>> /\ frameBatch' = Tail(frameBatch)
           /\ UNCHANGED <<faults, associations, detections, behPc, reported>>
  BY HandleFrameIs
<1>2. f.t \in Nat /\ Seen(f) \subseteq Tracks
  BY SeenIs
<1>3. reports' \in Seq(BehaviorEvent) /\ \A p \in Seen(f) : Now(p, f) \in TrackContext
  BY <1>1, ReportsIs
<1>4. DOMAIN tracks' \subseteq Tracks /\ tracks' \in [DOMAIN tracks' -> TrackContext]
  <2>1. DOMAIN tracks \subseteq Tracks /\ \A p \in DOMAIN tracks : tracks[p] \in TrackContext
    BY DEF BehaviorOK
  <2> HIDE DEF TypesOK
  <2> QED
    BY <1>1, <1>2, <1>3, <2>1
<1>5. buffers' \in [Tracks -> [AssocKinds -> [votes: {v \in Seq(BOOLEAN) : Len(v) <= Confirmations}, last: Nat]]]
  BY <1>1, <1>2, BuffersType DEF Buffer, VoteSeq
<1>6. heard' \in [Tracks -> [AssocKinds -> Seq(Nat)]]
  <2>1. ASSUME NEW p \in Tracks, NEW k \in AssocKinds PROVE heard[p][k] \o [i \in DOMAIN OfKind(p, k) |-> f.t] \in Seq(Nat)
    <3>1. PICK n \in Nat : DOMAIN OfKind(p, k) = 1..n
      BY OfKindIs
    <3>2. PICK w : w = [i \in 1..n |-> f.t]
      OBVIOUS
    <3>3. w \in Seq(Nat)
      BY <1>2, <3>2, FunIsSeq
    <3>4. heard[p][k] \in Seq(Nat)
      BY DEF BehaviorOK
    <3> QED
      BY <3>1, <3>2, <3>3, <3>4, ConcatProperties
  <2> QED
    BY <1>1, <2>1
<1>7. confirmed' \in [Tracks -> SUBSET AssocKinds]
  BY <1>1
<1>8. assocBuffer' \in Seq(AssocEvent) /\ frameBatch' \in Seq(TrueFrame) /\ latest' \in Nat
  BY <1>1, <1>2, EmptySeq, HeadTailProperties DEF BehaviorOK
<1>9. BehaviorOK'
  BY <1>1, <1>3, <1>4, <1>5, <1>6, <1>7, <1>8 DEF BehaviorOK
<1>10. ShareOK'
  BY <1>1 DEF ShareOK
<1> QED
  BY <1>9, <1>10, QuietTypes

LEMMA PublishBehaviorTypes == TypesOK /\ PublishBehavior /\ Quiet => TypesOK'
<1> SUFFICES ASSUME TypesOK, PublishBehavior, Quiet PROVE TypesOK'
  OBVIOUS
<1> USE DEF TypesOK
<1>1. PICK e \in BehaviorEvent : e = Head(reports)
  BY DEF PublishBehavior, BehaviorOK
<1>2. e.track \in Tracks /\ e.t \in Nat
  BY DEF BehaviorEvent
<1>3. reports' \in Seq(BehaviorEvent)
  BY HeadTailProperties DEF PublishBehavior, BehaviorOK
<1>4. reported' \in [Tracks -> Nat]
  <2>1. reported' = [reported EXCEPT ![e.track] = e.t]
    BY <1>1 DEF PublishBehavior
  <2> QED
    BY <1>2, <2>1 DEF BehaviorOK
<1>5. BehaviorOK'
  BY <1>3, <1>4 DEF BehaviorOK, PublishBehavior
<1> QED
  BY <1>5, QuietTypes DEF ShareOK, PublishBehavior

LEMMA FaultyBehaviorTypes == TypesOK /\ (PublishBehaviorFails \/ StopBehavior) /\ Quiet => TypesOK'
<1> SUFFICES ASSUME TypesOK, PublishBehaviorFails \/ StopBehavior, Quiet PROVE TypesOK'
  OBVIOUS
<1> USE DEF TypesOK
<1>0. \A S : <<>> \in Seq(S)
  BY EmptySeq
<1>1. CASE PublishBehaviorFails
  BY <1>0, <1>1, QuietTypes DEF ShareOK, BehaviorOK, PublishBehaviorFails
<1>2. CASE StopBehavior
  <2>1. frameBatch' \in Seq(TrueFrame) /\ assocBuffer' \in Seq(AssocEvent) /\ reports' \in Seq(BehaviorEvent)
    BY <1>0, <1>2 DEF StopBehavior
  <2>2. buffers' \in [Tracks -> [AssocKinds -> [votes: {v \in Seq(BOOLEAN) : Len(v) <= Confirmations}, last: Nat]]]
    <3>1. <<>> \in {v \in Seq(BOOLEAN) : Len(v) <= Confirmations}
      BY <1>0, BehaviorAssumption
    <3>2. buffers' = [p \in Tracks |-> [k \in AssocKinds |-> [votes |-> <<>>, last |-> 0]]]
      BY <1>2 DEF StopBehavior
    <3> HIDE <1>0
    <3> QED
      BY <3>1, <3>2
  <2>3. DOMAIN tracks' \subseteq Tracks /\ tracks' \in [DOMAIN tracks' -> TrackContext]
    BY <1>2 DEF StopBehavior
  <2>4. BehaviorOK'
    BY <1>2, <2>1, <2>2, <2>3 DEF BehaviorOK, StopBehavior
  <2> QED
    BY <1>2, <2>4, QuietTypes DEF ShareOK, StopBehavior
<1> QED
  BY <1>1, <1>2

LEMMA TypesStep == TypesOK /\ [TrackingNext]_trackingVars => TypesOK'
<1> SUFFICES ASSUME TypesOK, [TrackingNext]_trackingVars PROVE TypesOK'
  OBVIOUS
<1>1. CASE PublishDetection /\ UNCHANGED behaviorVars
  BY <1>1, PublishDetectionTypes
<1>2. CASE AssociationStep /\ UNCHANGED behaviorVars
  BY <1>2, ReadDetectionsTypes, ProcessFrameTypes, PublishAssociationTypes, PublishAssociationFailsTypes,
     RestartAssociationTypes DEF AssociationStep
<1>3. CASE BehaviorStep /\ UNCHANGED <<frames, frameTime, assocOwn>>
  <2>1. Quiet
    BY <1>3 DEF Quiet
  <2> QED
    BY <1>3, <2>1, ReadEventsTypes, ReadFramesTypes, NoFramesTypes, HandleFrameTypes, PublishBehaviorTypes,
       FaultyBehaviorTypes DEF BehaviorStep, BehaviorLoop
<1>4. CASE UNCHANGED trackingVars
  BY <1>4 DEF TypesOK, ShareOK, AssocOK, BehaviorOK, PersonsOK, ItemsOK, trackingVars, assocVars, behaviorVars
<1> QED
  BY <1>1, <1>2, <1>3, <1>4 DEF TrackingNext

(* The types in the shape that the step lemmas use. *)
THEOREM TypesHold == TrackingSpec => []TypesOK
BY TypesStart, TypesStep, PTL DEF TrackingSpec

(* The state of the two services and of the streams between them is of its type *)
(* in every step, whatever the scenes, and the streams stay within their maxlen. *)
THEOREM TypeCorrect == TrackingSpec => []TrackingTypeOK
BY TypesHold, TypesMean, PTL

(***************************************************************************)
(* The inductive invariant: what the state of each service says of the     *)
(* histories, and of the events on their way.                              *)
(***************************************************************************)
(* The last n of these are all TRUE. *)
Lasting(n, s) == n <= Len(s) /\ \A k \in Len(s) - n + 1..Len(s) : s[k]

(* The counter near is backed by as many sightings. *)
NearInv == \A p \in Tracks : Lasting(StateOf(p).near, sightings[p])

(* An item in the registry was shown, in a frame of that time with items enough. *)
ItemsInv == \A i \in DOMAIN lastItems : \E k \in DOMAIN shown : shown[k].t = lastItems[i].t /\ shown[k].items > i

(* Of a person and a zone at most one event waits; it tells of the set          *)
(* active_zones and differs from the one told before. When none waits, what was *)
(* told last agrees with active_zones.                                          *)
Waits(i, p, z) == outbox[i].track = p /\ outbox[i].zone = z
KindFor(p, z) == IF z \in StateOf(p).zones THEN "ZONE_ENTER" ELSE "ZONE_EXIT"
TurnInv ==
  \A p \in Tracks, z \in Zones :
    /\ \A i, j \in DOMAIN outbox : Waits(i, p, z) /\ Waits(j, p, z) => i = j
    /\ \A i \in DOMAIN outbox : Waits(i, p, z) => outbox[i].kind = KindFor(p, z) /\ told[p][z] # KindFor(p, z)
    /\ (\A i \in DOMAIN outbox : ~Waits(i, p, z)) => told[p][z] \in {"lost", KindFor(p, z)}

AssocInv == NearInv /\ InteractionIsSustained /\ ItemsInv /\ PickupMeansFewerItems /\ TurnInv

(* Frames reach the behavior service in the order of their times, later than    *)
(* all that was reported of those before.                                       *)
InOrder(s) == \A i, j \in DOMAIN s : i < j => s[i].t < s[j].t
Earlier(s, u) == \A i \in DOMAIN s, j \in DOMAIN u : s[i].t < u[j].t
UpTo(s, t) == \A i \in DOMAIN s : s[i].t > 0 /\ s[i].t <= t
Reported(s) == \A p \in Tracks : \A i \in DOMAIN s : reported[p] < s[i].t
OrderInv ==
  /\ frameTime > 0 /\ \A p \in Tracks : reported[p] <= frameTime
  /\ InOrder(frameBatch) /\ UpTo(frameBatch, frameTime) /\ Reported(frameBatch)
  /\ LET queue == detections["behavior"]
     IN InOrder(queue) /\ UpTo(queue, frameTime) /\ Reported(queue) /\ Earlier(frameBatch, queue) /\ Earlier(reports, queue)
  /\ UpTo(reports, frameTime) /\ Earlier(reports, frameBatch)
  /\ \A i \in DOMAIN reports : reported[reports[i].track] < reports[i].t
  /\ \A i, j \in DOMAIN reports : reports[i].track = reports[j].track => i = j
  /\ behPc = "frames" => frameBatch = <<>> /\ reports = <<>>

(* The last m of these times are within ConfirmAge of each other, one by one. *)
Chained(m, h) == m <= Len(h) /\ \A j \in Len(h) - m + 1..Len(h) - 1 : h[j + 1] - h[j] <= ConfirmAge

(* The votes for a signal are backed by as many events used. *)
VotesInv ==
  Confirmations > 1 =>
    \A p \in Tracks, k \in AssocKinds :
      LET b == buffers[p][k]
          h == heard[p][k]
      IN /\ Chained(Ayes(b.votes), h)
         /\ Ayes(b.votes) > 0 => b.last > 0
         /\ b.last > 0 => h # <<>> /\ h[Len(h)] = b.last
ChainInv == Confirmations > 1 => \A p \in Tracks : \A k \in confirmed[p] : Chained(Majority, heard[p][k])

(* Pickups are used, or wait, no more often than they were published. *)
IsPickup(p) == {e \in AssocEvent : e.track = p /\ e.kind = "ITEM_PICKUP"}
PickupsUsed(p) == Len(heard[p]["ITEM_PICKUP"])
PickupsInv ==
  \A p \in Tracks : PickupsUsed(p) + CountIn(assocBuffer, IsPickup(p)) + CountIn(associations, IsPickup(p)) <= pickups[p]

(* Whoever counts as having picked up or hidden something has pickups enough. *)
Accused == {"CONCEALMENT", "HIGH_RISK_EXIT"}
TracksInv ==
  \A p \in DOMAIN tracks :
    tracks[p].pick > 0 \/ tracks[p].conceal > 0 \/ tracks[p].stage \in Accused => PickupsUsed(p) >= Majority

(* What Tail leaves, and Append adds. *)
LEMMA TailIs ==
  ASSUME NEW T, NEW s \in Seq(T), s # <<>>
  PROVE  /\ Len(s) \in Nat /\ Len(s) >= 1 /\ Head(s) = s[1] /\ DOMAIN s = 1..Len(s)
         /\ Tail(s) \in Seq(T) /\ Len(Tail(s)) = Len(s) - 1 /\ DOMAIN Tail(s) = 1..Len(s) - 1
         /\ \A i \in DOMAIN Tail(s) : i + 1 \in DOMAIN s /\ i + 1 # 1 /\ Tail(s)[i] = s[i + 1]
         /\ \A i \in DOMAIN s : i # 1 => i - 1 \in DOMAIN Tail(s) /\ Tail(s)[i - 1] = s[i]
<1>1. /\ Len(s) \in Nat /\ Len(s) >= 1 /\ Head(s) = s[1] /\ DOMAIN s = 1..Len(s)
      /\ Tail(s) \in Seq(T) /\ Len(Tail(s)) = Len(s) - 1
      /\ \A i \in 1..Len(s) - 1 : Tail(s)[i] = s[i + 1]
  BY HeadTailProperties, EmptySeq
<1>2. DOMAIN Tail(s) = 1..Len(s) - 1
  BY <1>1
<1>3. \A i \in 1..Len(s) - 1 : i + 1 \in 1..Len(s) /\ i + 1 # 1
  BY <1>1
<1>4. \A i \in 1..Len(s) : i # 1 => i - 1 \in 1..Len(s) - 1 /\ (i - 1) + 1 = i
  BY <1>1
<1>5. ASSUME NEW i \in DOMAIN s, i # 1 PROVE i - 1 \in DOMAIN Tail(s) /\ Tail(s)[i - 1] = s[i]
  <2>1. PICK j : j = i - 1
    OBVIOUS
  <2>2. j \in 1..Len(s) - 1 /\ j + 1 = i
    BY <1>1, <1>4, <1>5, <2>1
  <2> QED
    BY <1>1, <1>2, <2>1, <2>2
<1> QED
  BY <1>1, <1>2, <1>3, <1>5

LEMMA AppendIs ==
  ASSUME NEW T, NEW s \in Seq(T), NEW e \in T
  PROVE  /\ Len(s) \in Nat /\ Append(s, e) \in Seq(T) /\ Len(Append(s, e)) = Len(s) + 1
         /\ DOMAIN s = 1..Len(s) /\ DOMAIN Append(s, e) = 1..Len(s) + 1
         /\ Append(s, e)[Len(s) + 1] = e /\ \A i \in DOMAIN s : i \in DOMAIN Append(s, e) /\ Append(s, e)[i] = s[i]
<1>1. /\ Len(s) \in Nat /\ Append(s, e) \in Seq(T) /\ Len(Append(s, e)) = Len(s) + 1 /\ DOMAIN s = 1..Len(s)
      /\ Append(s, e)[Len(s) + 1] = e /\ \A i \in 1..Len(s) : Append(s, e)[i] = s[i]
  BY AppendProperties
<1>2. DOMAIN Append(s, e) = 1..Len(s) + 1
  BY <1>1
<1> QED
  BY <1>1, <1>2

LEMMA LastingNext ==
  ASSUME NEW s \in Seq(BOOLEAN), NEW n \in Nat, Lasting(n, s)
  PROVE  Lasting(n + 1, Append(s, TRUE))
<1>a. PICK a : a = Append(s, TRUE)
  OBVIOUS
<1>b. PICK m \in Nat : m = Len(s)
  OBVIOUS
<1>1. Len(a) = m + 1 /\ a[m + 1] = TRUE /\ \A i \in 1..m : a[i] = s[i]
  BY <1>a, <1>b, AppendIs
<1>2. n <= m /\ \A k \in m - n + 1..m : s[k]
  BY <1>b DEF Lasting
<1>2a. n <= m
  BY <1>2
<1>4. ASSUME NEW k \in (m + 1) - (n + 1) + 1..m + 1 PROVE a[k]
  <2>1. k \in Int /\ k >= m - n + 1 /\ k <= m + 1
    OBVIOUS
  <2>2. k = m + 1 \/ (k \in m - n + 1..m /\ k \in 1..m)
    BY <1>2a, <2>1
  <2> QED
    BY <1>1, <1>2, <2>2
<1>5. Lasting(n + 1, a)
  BY <1>1, <1>2, <1>4 DEF Lasting
<1> QED
  BY <1>a, <1>5

LEMMA LastingLess ==
  ASSUME NEW s \in Seq(BOOLEAN), NEW n \in Nat, NEW m \in Nat, m <= n, Lasting(n, s)
  PROVE  Lasting(m, s)
<1>1. PICK l \in Nat : l = Len(s)
  OBVIOUS
<1>2. n <= l /\ \A k \in l - n + 1..l : s[k]
  BY <1>1 DEF Lasting
<1>3. \A k \in l - m + 1..l : k \in l - n + 1..l
  BY <1>1, <1>2
<1>4. m <= l
  BY <1>1, <1>2
<1> QED
  BY <1>1, <1>2, <1>3, <1>4 DEF Lasting

LEMMA LastingNone ==
  ASSUME NEW s \in Seq(BOOLEAN)
  PROVE  Lasting(0, s)
<1>1. PICK l \in Nat : l = Len(s)
  OBVIOUS
<1>2. 0 <= l /\ \A k \in l - 0 + 1..l : s[k]
  BY <1>1
<1> QED
  BY <1>1, <1>2 DEF Lasting

(* The state the engine has of a person after a frame. *)
LEMMA StateAfter ==
  ASSUME AssocOK, NEW f \in TrueFrame, NEW p \in Tracks,
         persons' = [q \in (DOMAIN persons \ Gone(f)) \cup Seen(f) |->
                       IF q \in Seen(f) THEN Updated(StateOf(q), LookIn(f, q), f.t) ELSE persons[q]]
  PROVE  /\ p \in Seen(f) => StateOf(p)' = Updated(StateOf(p), LookIn(f, p), f.t)
         /\ p \notin Seen(f) /\ p \notin Gone(f) => StateOf(p)' = StateOf(p)
         /\ p \notin Seen(f) /\ p \in Gone(f) => p \notin DOMAIN persons' /\ StateOf(p)'.near = 0
         /\ p \in Gone(f) => p \notin Seen(f)
<1>1. CASE p \in Seen(f)
  BY <1>1 DEF StateOf, Gone
<1>2. CASE p \notin Seen(f) /\ p \notin Gone(f)
  BY <1>2 DEF StateOf
<1>3. CASE p \notin Seen(f) /\ p \in Gone(f)
  BY <1>3 DEF StateOf
<1> QED
  BY <1>1, <1>2, <1>3

LEMMA ProcessFrameIs ==
  ASSUME ProcessFrame, AssocOK
  PROVE  \E f \in TrueFrame :
           /\ outbox = <<>> /\ outbox' = Outcome(f) /\ lastItems' = Registry(f)
           /\ persons' = [p \in (DOMAIN persons \ Gone(f)) \cup Seen(f) |->
                              IF p \in Seen(f) THEN Updated(StateOf(p), LookIn(f, p), f.t) ELSE persons[p]]
           /\ shown' = Append(shown, [t |-> f.t, items |-> Len(f.items)])
           /\ sightings' = [p \in Tracks |->
                                IF p \in Seen(f) THEN Append(sightings[p], LookIn(f, p).near)
                                ELSE IF p \in Gone(f) THEN <<>> ELSE sightings[p]]
           /\ told' = [p \in Tracks |-> IF p \in Gone(f) THEN [z \in Zones |-> "lost"] ELSE told[p]]
           /\ UNCHANGED <<frames, frameTime, detections, associations, faults, pickups>>
<1>1. PICK f \in TrueFrame : f = Head(assocBatch)
  BY DEF ProcessFrame, AssocOK
<1> QED
  BY <1>1 DEF ProcessFrame, Outcome

(* Interactions. *)
LEMMA InteractionFrame ==
  ASSUME AssocOK, NearInv, ProcessFrame, AssocOK'
  PROVE  NearInv' /\ InteractionIsSustained'
<1>1. PICK f \in TrueFrame :
           /\ outbox' = Outcome(f)
           /\ persons' = [p \in (DOMAIN persons \ Gone(f)) \cup Seen(f) |->
                              IF p \in Seen(f) THEN Updated(StateOf(p), LookIn(f, p), f.t) ELSE persons[p]]
           /\ sightings' = [p \in Tracks |->
                                IF p \in Seen(f) THEN Append(sightings[p], LookIn(f, p).near)
                                ELSE IF p \in Gone(f) THEN <<>> ELSE sightings[p]]
  BY ProcessFrameIs
<1>2. Seen(f) \subseteq Tracks /\ \A p \in Seen(f) : LookIn(f, p) \in Look
  BY SeenIs
<1>3. \A p \in Tracks : sightings[p] \in Seq(BOOLEAN) /\ sightings'[p] \in Seq(BOOLEAN) /\ StateOf(p).near \in Nat
                        /\ Lasting(StateOf(p).near, sightings[p])
  BY StateType DEF AssocOK, NearInv
<1>4. ASSUME NEW p \in Seen(f) PROVE Lasting(NearFrames(StateOf(p), LookIn(f, p)), sightings'[p])
  <2>0. p \in Tracks /\ LookIn(f, p).near \in BOOLEAN /\ sightings'[p] = Append(sightings[p], LookIn(f, p).near)
    BY <1>1, <1>2, <1>4 DEF Look
  <2>1. CASE LookIn(f, p).near
    <3>1. PICK s \in Seq(BOOLEAN), n \in Nat : s = sightings[p] /\ n = StateOf(p).near /\ Lasting(n, s)
      BY <1>3, <2>0
    <3>2. Lasting(n + 1, Append(s, TRUE))
      BY <3>1, LastingNext
    <3> QED
      BY <2>0, <2>1, <3>1, <3>2 DEF NearFrames
  <2>2. CASE ~LookIn(f, p).near
    BY <1>3, <2>0, <2>2, LastingNone DEF NearFrames
  <2> QED
    BY <2>1, <2>2
<1>5. ASSUME NEW p \in Tracks PROVE Lasting(StateOf(p)'.near, sightings'[p])
  <2>1. CASE p \in Seen(f)
    <3>1. StateOf(p)' = Updated(StateOf(p), LookIn(f, p), f.t)
      BY <1>1, <2>1, StateAfter
    <3>2. StateOf(p)'.near = NearFrames(StateOf(p), LookIn(f, p))
      BY <3>1 DEF Updated
    <3> QED
      BY <1>4, <2>1, <3>2
  <2>2. CASE p \notin Seen(f) /\ p \notin Gone(f)
    BY <1>1, <1>3, <2>2, StateAfter
  <2>3. CASE p \notin Seen(f) /\ p \in Gone(f)
    BY <1>1, <1>3, <2>3, StateAfter, LastingNone
  <2> QED
    BY <2>1, <2>2, <2>3
<1>6. InteractionIsSustained'
  <2> SUFFICES ASSUME NEW i \in DOMAIN outbox', outbox'[i].kind = "SHELF_INTERACTION"
               PROVE  Lasting(HandFrames, sightings'[outbox'[i].track])
    BY DEF InteractionIsSustained, Lasting
  <2>1. outbox'[i] \in Due(f)
    BY <1>1, OutcomeIs DEF AssocOK
  <2>2. PICK p \in Seen(f) : p = outbox'[i].track /\ NearFrames(StateOf(p), LookIn(f, p)) >= HandFrames
    BY <2>1 DEF Due, Befits
  <2>3. NearFrames(StateOf(p), LookIn(f, p)) \in Nat /\ HandFrames \in Nat
    BY <1>2, <1>3, AssociationAssumption DEF NearFrames
  <2>4. PICK n \in Nat : n = NearFrames(StateOf(p), LookIn(f, p))
    BY <2>3
  <2>5. Lasting(n, sightings'[p])
    BY <1>4, <2>4
  <2> QED
    BY <1>2, <1>3, <2>2, <2>3, <2>4, <2>5, LastingLess
<1> QED
  BY <1>5, <1>6 DEF NearInv

LEMMA AssocCases ==
  ASSUME [TrackingNext]_trackingVars
  PROVE  ProcessFrame \/ PublishAssociation \/ PublishAssociationFails \/ RestartAssociation
         \/ UNCHANGED <<persons, sightings, lastItems, shown, told, outbox>>
<1>1. CASE PublishDetection
  BY <1>1 DEF PublishDetection
<1>2. CASE ReadDetections
  BY <1>2 DEF ReadDetections
<1>3. CASE UNCHANGED <<frames, frameTime, assocOwn>>
  BY <1>3 DEF assocOwn
<1>4. CASE UNCHANGED trackingVars
  BY <1>4 DEF trackingVars, assocVars
<1> QED
  BY <1>1, <1>2, <1>3, <1>4 DEF TrackingNext, AssociationStep

LEMMA InteractionStep ==
  ASSUME TypesOK, TypesOK', NearInv, InteractionIsSustained, [TrackingNext]_trackingVars
  PROVE  NearInv' /\ InteractionIsSustained'
<1>1. CASE ProcessFrame
  BY <1>1, InteractionFrame DEF TypesOK
<1>2. CASE PublishAssociation
  <2>1. UNCHANGED <<persons, sightings>> /\ outbox # <<>> /\ outbox' = Tail(outbox)
    BY <1>2 DEF PublishAssociation
  <2>2. NearInv'
    BY <2>1 DEF NearInv, StateOf
  <2>3. InteractionIsSustained'
    BY <2>1, TailIs DEF InteractionIsSustained, TypesOK, AssocOK
  <2> QED
    BY <2>2, <2>3
<1>3. CASE PublishAssociationFails
  BY <1>3 DEF PublishAssociationFails, NearInv, StateOf, InteractionIsSustained
<1>4. CASE RestartAssociation
  <2>1. NearInv'
    <3>1. \A p \in Tracks : StateOf(p)'.near = 0 /\ sightings'[p] = <<>> /\ sightings'[p] \in Seq(BOOLEAN)
      BY <1>4, EmptySeq DEF RestartAssociation, StateOf
    <3> QED
      BY <3>1, LastingNone DEF NearInv
  <2>2. InteractionIsSustained'
    BY <1>4 DEF RestartAssociation, InteractionIsSustained
  <2> QED
    BY <2>1, <2>2
<1>5. CASE UNCHANGED <<persons, sightings, lastItems, shown, told, outbox>>
  BY <1>5 DEF NearInv, StateOf, InteractionIsSustained
<1> QED
  BY <1>1, <1>2, <1>3, <1>4, <1>5, AssocCases

(* Pickups and the item registry. *)
LEMMA ItemsFrame ==
  ASSUME AssocOK, ItemsInv, ProcessFrame, AssocOK'
  PROVE  ItemsInv' /\ PickupMeansFewerItems'
<1>1. PICK f \in TrueFrame :
           /\ outbox' = Outcome(f) /\ lastItems' = Registry(f)
           /\ shown' = Append(shown, [t |-> f.t, items |-> Len(f.items)])
  BY ProcessFrameIs
<1>2. f.t \in Nat /\ f.items \in Seq(Places) /\ Len(f.items) \in Nat
  BY SeenIs
<1>3. PICK l \in Nat : /\ l = Len(shown) /\ Len(shown') = l + 1 /\ DOMAIN shown = 1..l /\ DOMAIN shown' = 1..l + 1
                       /\ shown'[l + 1] = [t |-> f.t, items |-> Len(f.items)]
                       /\ \A k \in DOMAIN shown : k \in DOMAIN shown' /\ shown'[k] = shown[k]
  <2> DEFINE E == [t: Nat, items: Nat]
             e == [t |-> f.t, items |-> Len(f.items)]
  <2>1. shown \in Seq(E) /\ e \in E
    BY <1>2 DEF AssocOK
  <2>2. shown' = Append(shown, e)
    BY <1>1
  <2> HIDE DEF E, e
  <2>3. /\ Len(shown) \in Nat /\ Len(shown') = Len(shown) + 1 /\ DOMAIN shown = 1..Len(shown) /\ DOMAIN shown' = 1..Len(shown) + 1
        /\ shown'[Len(shown) + 1] = e
        /\ \A k \in DOMAIN shown : k \in DOMAIN shown' /\ shown'[k] = shown[k]
    BY <2>1, <2>2, AppendIs
  <2> QED
    BY <2>3 DEF e
<1>4. l + 1 \in DOMAIN shown' /\ \A i \in Ids(f) : Len(f.items) > i
  BY <1>2, <1>3 DEF Ids
<1>5. ItemsInv'
  <2> SUFFICES ASSUME NEW i \in Known(f)
               PROVE  \E k \in DOMAIN shown' : shown'[k].t = Registry(f)[i].t /\ shown'[k].items > i
    BY <1>1 DEF ItemsInv, Registry
  <2>1. CASE i \in Ids(f)
    <3>1. Registry(f)[i].t = f.t
      BY <2>1 DEF Registry
    <3> QED
      BY <1>3, <1>4, <2>1, <3>1
  <2>2. CASE i \notin Ids(f)
    <3>1. Registry(f)[i] = lastItems[i] /\ i \in DOMAIN lastItems
      BY <2>2 DEF Registry, Known, Vanished
    <3>2. PICK k \in DOMAIN shown : shown[k].t = lastItems[i].t /\ shown[k].items > i
      BY <3>1 DEF ItemsInv
    <3> QED
      BY <1>3, <3>1, <3>2
  <2> QED
    BY <2>1, <2>2
<1>6. PickupMeansFewerItems'
  <2> SUFFICES ASSUME NEW j \in DOMAIN outbox', outbox'[j].kind = "ITEM_PICKUP"
               PROVE  \E k \in DOMAIN shown' :
                        shown'[k].t > outbox'[j].t - PickupSpan /\ shown'[k].items > shown'[Len(shown')].items
    BY DEF PickupMeansFewerItems
  <2>1. outbox'[j] \in Due(f)
    BY <1>1, OutcomeIs DEF AssocOK
  <2>2. PICK i : i \in PickedUp(f, LookIn(f, outbox'[j].track)) /\ outbox'[j].t = f.t
    BY <2>1 DEF Due, Befits
  <2>3. i \in DOMAIN lastItems /\ i \notin Ids(f) /\ lastItems[i].t > f.t - PickupSpan
    BY <2>2 DEF PickedUp, Vanished
  <2>4. i \in Nat /\ i >= Len(f.items)
    BY <1>2, <2>3 DEF Ids, AssocOK, ItemsOK
  <2>5. PICK k \in DOMAIN shown : shown[k].t = lastItems[i].t /\ shown[k].items > i
    BY <2>3 DEF ItemsInv
  <2>6. shown'[Len(shown')].items = Len(f.items) /\ shown[k].items \in Nat
    <3>1. shown'[Len(shown')] = [t |-> f.t, items |-> Len(f.items)]
      BY <1>3
    <3>2. shown[k] \in [t: Nat, items: Nat]
      <4> DEFINE E == [t: Nat, items: Nat]
      <4> HIDE DEF E
      <4>1. shown \in Seq(E)
        BY DEF AssocOK, E
      <4>2. shown[k] \in E
        BY <4>1
      <4> QED
        BY <4>2 DEF E
    <3> QED
      BY <3>1, <3>2
  <2>7. shown'[k].items > shown'[Len(shown')].items
    BY <1>2, <1>3, <2>4, <2>5, <2>6
  <2> QED
    BY <1>3, <2>2, <2>3, <2>5, <2>7
<1> QED
  BY <1>5, <1>6

LEMMA ItemsStep ==
  ASSUME TypesOK, TypesOK', ItemsInv, PickupMeansFewerItems, [TrackingNext]_trackingVars
  PROVE  ItemsInv' /\ PickupMeansFewerItems'
<1>1. CASE ProcessFrame
  BY <1>1, ItemsFrame DEF TypesOK
<1>2. CASE PublishAssociation
  <2>1. UNCHANGED <<lastItems, shown>> /\ outbox # <<>> /\ outbox' = Tail(outbox)
    BY <1>2 DEF PublishAssociation
  <2>2. ItemsInv'
    BY <2>1 DEF ItemsInv
  <2>3. PickupMeansFewerItems'
    <3> SUFFICES ASSUME NEW j \in DOMAIN outbox', outbox'[j].kind = "ITEM_PICKUP"
                 PROVE  \E k \in DOMAIN shown : shown[k].t > outbox'[j].t - PickupSpan /\ shown[k].items > shown[Len(shown)].items
      BY <2>1 DEF PickupMeansFewerItems
    <3>1. PICK i \in DOMAIN outbox : outbox'[j] = outbox[i]
      BY <2>1, TailIs DEF TypesOK, AssocOK
    <3> QED
      BY <3>1 DEF PickupMeansFewerItems
  <2> QED
    BY <2>2, <2>3
<1>3. CASE PublishAssociationFails
  BY <1>3 DEF PublishAssociationFails, ItemsInv, PickupMeansFewerItems
<1>4. CASE RestartAssociation
  BY <1>4 DEF RestartAssociation, ItemsInv, PickupMeansFewerItems
<1>5. CASE UNCHANGED <<persons, sightings, lastItems, shown, told, outbox>>
  BY <1>5 DEF ItemsInv, PickupMeansFewerItems
<1> QED
  BY <1>1, <1>2, <1>3, <1>4, <1>5, AssocCases

(* Zone events. *)
LEMMA TurnFrame ==
  ASSUME AssocOK, TurnInv, ProcessFrame, AssocOK'
  PROVE  TurnInv'
<1>1. PICK f \in TrueFrame :
           /\ outbox = <<>> /\ outbox' = Outcome(f)
           /\ persons' = [p \in (DOMAIN persons \ Gone(f)) \cup Seen(f) |->
                              IF p \in Seen(f) THEN Updated(StateOf(p), LookIn(f, p), f.t) ELSE persons[p]]
           /\ told' = [p \in Tracks |-> IF p \in Gone(f) THEN [z \in Zones |-> "lost"] ELSE told[p]]
  BY ProcessFrameIs
<1>2. Seen(f) \subseteq Tracks /\ \A p \in Seen(f) : LookIn(f, p) \in Look
  BY SeenIs
<1>3. "none" \notin Zones
  BY AssociationAssumption
<1>4. /\ outbox' \in Seq(Due(f))
      /\ \A i, j \in DOMAIN outbox' :
           outbox'[i].zone # "none" /\ outbox'[i].zone = outbox'[j].zone /\ outbox'[i].track = outbox'[j].track => i = j
      /\ \A p \in Seen(f) : \A z \in Crossed(p, LookIn(f, p)) :
           \E i \in DOMAIN outbox' : outbox'[i].track = p /\ outbox'[i].zone = z
  <2>1. PersonsOK /\ ItemsOK
    BY DEF AssocOK
  <2>2. PICK out : out = Outcome(f) /\ out = outbox'
    BY <1>1
  <2>3. /\ out \in Seq(Due(f))
        /\ \A i, j \in DOMAIN out : out[i].zone # "none" /\ out[i].zone = out[j].zone /\ out[i].track = out[j].track => i = j
        /\ \A p \in Seen(f) : \A z \in Crossed(p, LookIn(f, p)) : \E i \in DOMAIN out : out[i].track = p /\ out[i].zone = z
    <3>1. /\ Outcome(f) \in Seq(Due(f))
          /\ \A i, j \in DOMAIN Outcome(f) :
               /\ Outcome(f)[i].zone # "none" /\ Outcome(f)[i].zone = Outcome(f)[j].zone
               /\ Outcome(f)[i].track = Outcome(f)[j].track
               => i = j
          /\ \A p \in Seen(f) : \A z \in Crossed(p, LookIn(f, p)) :
               \E i \in DOMAIN Outcome(f) : Outcome(f)[i].track = p /\ Outcome(f)[i].zone = z
      BY <2>1, OutcomeIs
    <3> QED
      BY <2>2, <3>1
  <2> QED
    BY <2>2, <2>3
<1>5. \A i \in DOMAIN outbox' : outbox'[i] \in Due(f)
  BY <1>4
<1> SUFFICES ASSUME NEW p \in Tracks, NEW z \in Zones
    PROVE  /\ \A i, j \in DOMAIN outbox' : Waits(i, p, z)' /\ Waits(j, p, z)' => i = j
           /\ \A i \in DOMAIN outbox' : Waits(i, p, z)' => outbox'[i].kind = KindFor(p, z)' /\ told'[p][z] # KindFor(p, z)'
           /\ (\A i \in DOMAIN outbox' : ~Waits(i, p, z)') => told'[p][z] \in {"lost", KindFor(p, z)'}
  BY DEF TurnInv
<1>6. \A i, j \in DOMAIN outbox' : Waits(i, p, z)' /\ Waits(j, p, z)' => i = j
  BY <1>3, <1>4 DEF Waits
<1>7. told[p][z] \in {"lost", KindFor(p, z)}
  BY <1>1 DEF TurnInv
<1>8. ASSUME NEW i \in DOMAIN outbox', Waits(i, p, z)'
      PROVE  p \in Seen(f) /\ z \in Crossed(p, LookIn(f, p))
             /\ outbox'[i].kind = IF z \in LookIn(f, p).zones THEN "ZONE_ENTER" ELSE "ZONE_EXIT"
  BY <1>3, <1>5, <1>8 DEF Waits, Due, Befits
<1>9. CASE p \in Seen(f)
  <2>1. StateOf(p)' = Updated(StateOf(p), LookIn(f, p), f.t)
    BY <1>1, <1>9, StateAfter
  <2>2. StateOf(p)'.zones = LookIn(f, p).zones
    BY <2>1 DEF Updated, ZonesNow
  <2>3. KindFor(p, z)' = IF z \in LookIn(f, p).zones THEN "ZONE_ENTER" ELSE "ZONE_EXIT"
    BY <2>2 DEF KindFor
  <2>4. told'[p][z] = told[p][z]
    BY <1>1, <1>9 DEF Gone
  <2>5. \A i \in DOMAIN outbox' : Waits(i, p, z)' => outbox'[i].kind = KindFor(p, z)' /\ told'[p][z] # KindFor(p, z)'
    BY <1>7, <1>8, <2>3, <2>4 DEF KindFor, Crossed
  <2>6. z \in Crossed(p, LookIn(f, p)) => \E i \in DOMAIN outbox' : Waits(i, p, z)'
    BY <1>4, <1>9 DEF Waits
  <2>7. z \notin Crossed(p, LookIn(f, p)) => KindFor(p, z)' = KindFor(p, z)
    BY <2>3 DEF KindFor, Crossed
  <2> QED
    BY <1>6, <1>7, <2>4, <2>5, <2>6, <2>7
<1>10. CASE p \notin Seen(f)
  <2>1. \A i \in DOMAIN outbox' : ~Waits(i, p, z)'
    BY <1>8, <1>10
  <2>2. told'[p][z] \in {"lost", KindFor(p, z)'}
    <3>1. CASE p \in Gone(f)
      BY <1>1, <3>1
    <3>2. CASE p \notin Gone(f)
      <4>1. StateOf(p)' = StateOf(p)
        BY <1>1, <1>10, <3>2, StateAfter
      <4>2. KindFor(p, z)' = KindFor(p, z)
        BY <4>1 DEF KindFor
      <4> QED
        BY <1>1, <1>7, <3>2, <4>2
    <3> QED
      BY <3>1, <3>2
  <2> QED
    BY <2>1, <2>2
<1> QED
  BY <1>9, <1>10

LEMMA TurnPublish ==
  ASSUME AssocOK, TurnInv, PublishAssociation
  PROVE  TurnInv'
<1>0. UNCHANGED persons /\ outbox # <<>> /\ outbox' = Tail(outbox)
  BY DEF PublishAssociation
<1>1. PICK e \in OutEvent : e = Head(outbox) /\ e = outbox[1] /\ 1 \in DOMAIN outbox
  BY <1>0, TailIs DEF AssocOK
<1>2. told' = IF e.zone = "none" THEN told ELSE [told EXCEPT ![e.track][e.zone] = e.kind]
  BY <1>1 DEF PublishAssociation
<1>3. /\ \A i \in DOMAIN outbox' : i + 1 \in DOMAIN outbox /\ i + 1 # 1 /\ outbox'[i] = outbox[i + 1] /\ i \in Int
      /\ \A i \in DOMAIN outbox : i # 1 => i - 1 \in DOMAIN outbox' /\ outbox'[i - 1] = outbox[i]
  BY <1>0, TailIs DEF AssocOK
<1>4. "none" \notin Zones /\ e.track \in Tracks /\ e.zone \in Zones \cup {"none"}
  BY AssociationAssumption DEF OutEvent, AssocEvent
<1> SUFFICES ASSUME NEW p \in Tracks, NEW z \in Zones
    PROVE  /\ \A i, j \in DOMAIN outbox' : Waits(i, p, z)' /\ Waits(j, p, z)' => i = j
           /\ \A i \in DOMAIN outbox' : Waits(i, p, z)' => outbox'[i].kind = KindFor(p, z)' /\ told'[p][z] # KindFor(p, z)'
           /\ (\A i \in DOMAIN outbox' : ~Waits(i, p, z)') => told'[p][z] \in {"lost", KindFor(p, z)'}
  BY DEF TurnInv
<1>5. /\ \A i, j \in DOMAIN outbox : Waits(i, p, z) /\ Waits(j, p, z) => i = j
      /\ \A i \in DOMAIN outbox : Waits(i, p, z) => outbox[i].kind = KindFor(p, z) /\ told[p][z] # KindFor(p, z)
      /\ (\A i \in DOMAIN outbox : ~Waits(i, p, z)) => told[p][z] \in {"lost", KindFor(p, z)}
  BY DEF TurnInv
<1>6. KindFor(p, z)' = KindFor(p, z)
  BY <1>0 DEF KindFor, StateOf
<1>7. \A i \in DOMAIN outbox' : Waits(i, p, z)' = Waits(i + 1, p, z) /\ i + 1 \in DOMAIN outbox /\ i + 1 # 1 /\ i \in Int
                                 /\ outbox'[i] = outbox[i + 1]
  BY <1>3 DEF Waits
<1>8. \A i, j \in DOMAIN outbox' : Waits(i, p, z)' /\ Waits(j, p, z)' => i = j
  <2> SUFFICES ASSUME NEW i \in DOMAIN outbox', NEW j \in DOMAIN outbox', Waits(i, p, z)', Waits(j, p, z)' PROVE i = j
    OBVIOUS
  <2>1. i + 1 = j + 1 /\ i \in Int /\ j \in Int
    BY <1>5, <1>7
  <2> QED
    BY <2>1
<1>9. CASE Waits(1, p, z)
  <2>1. e.track = p /\ e.zone = z /\ e.kind = KindFor(p, z) /\ z # "none"
    BY <1>1, <1>4, <1>5, <1>9 DEF Waits
  <2>2. \A i \in DOMAIN outbox' : ~Waits(i, p, z)'
    BY <1>1, <1>5, <1>7, <1>9
  <2>3. told'[p][z] = KindFor(p, z)
    BY <1>2, <2>1 DEF AssocOK
  <2> QED
    BY <1>6, <2>2, <2>3
<1>10. CASE ~Waits(1, p, z)
  <2>1. ~(e.track = p /\ e.zone = z)
    BY <1>1, <1>10 DEF Waits
  <2>2. told'[p][z] = told[p][z]
    <3>1. told \in [Tracks -> [Zones -> ZoneKinds \cup {"lost"}]]
      BY DEF AssocOK
    <3> QED
      BY <1>2, <1>4, <2>1, <3>1
  <2>3. \A i \in DOMAIN outbox' : Waits(i, p, z)' => outbox'[i].kind = KindFor(p, z)' /\ told'[p][z] # KindFor(p, z)'
    BY <1>5, <1>6, <1>7, <2>2
  <2>4. (\A i \in DOMAIN outbox' : ~Waits(i, p, z)') => \A i \in DOMAIN outbox : ~Waits(i, p, z)
    <3> SUFFICES ASSUME NEW i \in DOMAIN outbox, Waits(i, p, z) PROVE \E j \in DOMAIN outbox' : Waits(j, p, z)'
      OBVIOUS
    <3>1. i # 1
      BY <1>10
    <3> QED
      BY <1>3, <3>1 DEF Waits
  <2> QED
    BY <1>5, <1>6, <1>8, <2>2, <2>3, <2>4
<1> QED
  BY <1>9, <1>10

LEMMA TurnStep ==
  ASSUME TypesOK, TypesOK', TurnInv, [TrackingNext]_trackingVars
  PROVE  TurnInv'
<1>1. CASE ProcessFrame
  BY <1>1, TurnFrame DEF TypesOK
<1>2. CASE PublishAssociation
  BY <1>2, TurnPublish DEF TypesOK
<1>3. CASE PublishAssociationFails \/ RestartAssociation
  <2>1. outbox' = <<>> /\ \A p \in Tracks, z \in Zones : told'[p][z] = "lost"
    BY <1>3 DEF PublishAssociationFails, RestartAssociation
  <2>2. DOMAIN outbox' = {}
    BY <2>1
  <2> QED
    BY <2>1, <2>2 DEF TurnInv
<1>4. CASE UNCHANGED <<persons, sightings, lastItems, shown, told, outbox>>
  BY <1>4 DEF TurnInv, Waits, KindFor, StateOf
<1> QED
  BY <1>1, <1>2, <1>3, <1>4, AssocCases

LEMMA TurnMeans == ASSUME AssocOK, TurnInv PROVE ZoneEventsInTurn
<1> SUFFICES ASSUME NEW p \in Tracks, NEW z \in Zones, outbox # <<>>, Head(outbox).track = p, Head(outbox).zone = z
             PROVE  told[p][z] # Head(outbox).kind
  BY DEF ZoneEventsInTurn
<1>1. Head(outbox) = outbox[1] /\ 1 \in DOMAIN outbox
  BY TailIs DEF AssocOK
<1>2. Waits(1, p, z)
  BY <1>1 DEF Waits
<1> QED
  BY <1>1, <1>2 DEF TurnInv

LEMMA AssocInvStart == TrackingInit => AssocInv
<1> SUFFICES ASSUME TrackingInit PROVE AssocInv
  OBVIOUS
<1>1. persons = <<>> /\ lastItems = <<>> /\ outbox = <<>> /\ DOMAIN <<>> = {} /\ <<>> \in Seq(BOOLEAN)
      /\ sightings = [p \in Tracks |-> <<>>] /\ told = [p \in Tracks |-> [z \in Zones |-> "ZONE_EXIT"]]
  BY EmptySeq DEF TrackingInit, AssocInit
<1>2. \A p \in Tracks : StateOf(p).near = 0 /\ StateOf(p).zones = {}
  BY <1>1 DEF StateOf
<1>3. NearInv
  BY <1>1, <1>2, LastingNone DEF NearInv
<1>4. InteractionIsSustained /\ ItemsInv /\ PickupMeansFewerItems
  BY <1>1 DEF InteractionIsSustained, ItemsInv, PickupMeansFewerItems
<1>5. TurnInv
  BY <1>1, <1>2 DEF TurnInv, KindFor
<1> QED
  BY <1>3, <1>4, <1>5 DEF AssocInv

(* The inductive invariant of the association engine: counts of near frames match *)
(* the sightings, registered items were shown, and what waits in the outbox is in  *)
(* turn with what was told before it.                                              *)
THEOREM AssocInvHolds == TrackingSpec => []AssocInv
<1>1. AssocInv /\ TypesOK /\ TypesOK' /\ [TrackingNext]_trackingVars => AssocInv'
  BY InteractionStep, ItemsStep, TurnStep DEF AssocInv
<1> QED
  BY <1>1, AssocInvStart, TypesHold, PTL DEF TrackingSpec

(* Zone events of a person and a zone are published in turn, one ENTER for each *)
(* EXIT, unless a fault or forgetting the person came in between.               *)
THEOREM ZoneEventsCorrect == TrackingSpec => []ZoneEventsInTurn
<1>1. TypesOK /\ AssocInv => ZoneEventsInTurn
  BY TurnMeans DEF AssocInv, TypesOK
<1> QED
  BY <1>1, TypesHold, AssocInvHolds, PTL

(* A shelf interaction rests on HandFrames frames in a row near an item. *)
THEOREM InteractionsCorrect == TrackingSpec => []InteractionIsSustained
<1>1. AssocInv => InteractionIsSustained
  BY DEF AssocInv
<1> QED
  BY <1>1, AssocInvHolds, PTL

(* A pickup rests on a frame of the last PickupSpan with more items than the one *)
(* in hand.                                                                      *)
THEOREM PickupsCorrect == TrackingSpec => []PickupMeansFewerItems
<1>1. AssocInv => PickupMeansFewerItems
  BY DEF AssocInv
<1> QED
  BY <1>1, AssocInvHolds, PTL

(* Sequences of things with times, and parts of them. *)
Part(u, s) == \A i \in DOMAIN u : \E k \in DOMAIN s : u[i] = s[k]

LEMMA PartKeeps ==
  ASSUME NEW u, NEW s, Part(u, s), NEW t
  PROVE  /\ UpTo(s, t) => UpTo(u, t)
         /\ Reported(s) => Reported(u)
         /\ \A x : Earlier(x, s) => Earlier(x, u)
         /\ \A x : Earlier(s, x) => Earlier(u, x)
<1>1. UpTo(s, t) => UpTo(u, t)
  BY DEF Part, UpTo
<1>2. Reported(s) => Reported(u)
  BY DEF Part, Reported
<1>3. \A x : Earlier(x, s) => Earlier(x, u)
  BY DEF Part, Earlier
<1>4. \A x : Earlier(s, x) => Earlier(u, x)
  BY DEF Part, Earlier
<1> QED
  BY <1>1, <1>2, <1>3, <1>4

LEMMA ConcatOrder ==
  ASSUME NEW T, NEW u \in Seq(T), NEW v \in Seq(T)
  PROVE  /\ Part(u, u \o v) /\ Part(v, u \o v)
         /\ InOrder(u \o v) => InOrder(u) /\ InOrder(v) /\ Earlier(u, v)
<1>0. PICK w : w = u \o v
  OBVIOUS
<1>1. PICK a \in Nat, b \in Nat : a = Len(u) /\ b = Len(v)
  OBVIOUS
<1>2. /\ DOMAIN u = 1..a /\ DOMAIN v = 1..b /\ DOMAIN w = 1..a + b
      /\ \A i \in 1..a + b : w[i] = IF i <= a THEN u[i] ELSE v[i - a]
  <2>1. /\ u \o v \in Seq(T) /\ Len(u \o v) = a + b
        /\ \A i \in 1..a + b : (u \o v)[i] = IF i <= a THEN u[i] ELSE v[i - a]
    BY <1>1, ConcatProperties
  <2> QED
    BY <1>0, <1>1, <2>1
<1>3. \A i \in 1..a : i \in 1..a + b /\ w[i] = u[i]
  <2>1. \A i \in 1..a : i \in 1..a + b /\ i <= a
    OBVIOUS
  <2> QED
    BY <1>2, <2>1
<1>4. \A i \in 1..b : a + i \in 1..a + b /\ w[a + i] = v[i]
  <2>1. \A i \in 1..b : a + i \in 1..a + b /\ ~(a + i <= a) /\ (a + i) - a = i
    OBVIOUS
  <2> QED
    BY <1>2, <2>1
<1>5. Part(u, w) /\ Part(v, w)
  BY <1>2, <1>3, <1>4 DEF Part
<1>6. ASSUME InOrder(w) PROVE InOrder(u) /\ InOrder(v) /\ Earlier(u, v)
  <2>1. InOrder(u)
    BY <1>2, <1>3, <1>6 DEF InOrder
  <2>2. InOrder(v)
    <3> SUFFICES ASSUME NEW i \in 1..b, NEW j \in 1..b, i < j PROVE v[i].t < v[j].t
      BY <1>2 DEF InOrder
    <3>1. a + i < a + j
      OBVIOUS
    <3>2. w[a + i].t < w[a + j].t
      BY <1>2, <1>4, <1>6, <3>1 DEF InOrder
    <3> QED
      BY <1>4, <3>2
  <2>3. Earlier(u, v)
    <3> SUFFICES ASSUME NEW i \in 1..a, NEW j \in 1..b PROVE u[i].t < v[j].t
      BY <1>2 DEF Earlier
    <3>1. i < a + j
      OBVIOUS
    <3>2. w[i].t < w[a + j].t
      BY <1>2, <1>3, <1>4, <1>6, <3>1 DEF InOrder
    <3> QED
      BY <1>3, <1>4, <3>2
  <2> QED
    BY <2>1, <2>2, <2>3
<1> QED
  BY <1>0, <1>5, <1>6

LEMMA TailOrder ==
  ASSUME NEW T, NEW s \in Seq(T), s # <<>>, InOrder(s)
  PROVE  /\ Part(Tail(s), s) /\ InOrder(Tail(s)) /\ 1 \in DOMAIN s /\ Head(s) = s[1]
         /\ \A i \in DOMAIN Tail(s) : Head(s).t < Tail(s)[i].t
<1>1. /\ Len(s) \in Nat /\ Len(s) >= 1 /\ Head(s) = s[1] /\ DOMAIN s = 1..Len(s) /\ DOMAIN Tail(s) = 1..Len(s) - 1
      /\ \A i \in DOMAIN Tail(s) : i + 1 \in DOMAIN s /\ Tail(s)[i] = s[i + 1]
  BY TailIs
<1>2. Part(Tail(s), s)
  BY <1>1 DEF Part
<1>3. \A i, j \in DOMAIN Tail(s) : i < j => i + 1 < j + 1
  BY <1>1
<1>4. InOrder(Tail(s))
  BY <1>1, <1>3 DEF InOrder
<1>5. \A i \in DOMAIN Tail(s) : 1 < i + 1 /\ 1 \in DOMAIN s
  BY <1>1
<1>6. \A i \in DOMAIN Tail(s) : Head(s).t < Tail(s)[i].t
  BY <1>1, <1>5 DEF InOrder
<1> QED
  BY <1>1, <1>2, <1>4, <1>6

Queue == detections["behavior"]

LEMMA OrderTypes ==
  ASSUME TypesOK
  PROVE  /\ frameTime \in Nat /\ \A p \in Tracks : reported[p] \in Nat
         /\ frameBatch \in Seq(TrueFrame) /\ Queue \in Seq(TrueFrame) /\ reports \in Seq(BehaviorEvent)
         /\ \A i \in DOMAIN frameBatch : frameBatch[i] \in TrueFrame /\ frameBatch[i].t \in Nat
         /\ \A i \in DOMAIN Queue : Queue[i] \in TrueFrame /\ Queue[i].t \in Nat
         /\ \A i \in DOMAIN reports : reports[i].track \in Tracks /\ reports[i].t \in Nat
<1>1. /\ frameTime \in Nat /\ \A p \in Tracks : reported[p] \in Nat
      /\ frameBatch \in Seq(TrueFrame) /\ Queue \in Seq(TrueFrame) /\ reports \in Seq(BehaviorEvent)
  BY DEF TypesOK, ShareOK, AssocOK, BehaviorOK, Queue, Services
<1>2. \A f \in TrueFrame : f.t \in Nat
  BY DEF TrueFrame, Frame
<1>3. \A i \in DOMAIN reports : reports[i] \in BehaviorEvent
  BY <1>1
<1> QED
  BY <1>1, <1>2, <1>3 DEF BehaviorEvent

LEMMA OrderPublishDetection ==
  ASSUME TypesOK, OrderInv, PublishDetection, UNCHANGED behaviorVars
  PROVE  OrderInv'
<1>1. PICK s \in Scenes : LET f == Detected(s, frameTime + s.gap)
                          IN frameTime' = f.t /\ detections' = [g \in Services |-> Newest(DetectionMax, Append(detections[g], f))]
  BY DEF PublishDetection
<1>2. s.gap \in Nat \ {0} /\ frameTime \in Nat /\ DetectionMax \in Nat /\ \A p \in Tracks : reported[p] \in Nat
  BY AssociationAssumption, OrderTypes DEF IsScene
<1>3. PICK f \in TrueFrame : f = Detected(s, frameTime + s.gap) /\ f.t = frameTime + s.gap
  <2>1. frameTime + s.gap \in Nat
    BY <1>2
  <2> QED
    BY <2>1, DetectedIs
<1>4. frameTime' = f.t /\ f.t > frameTime /\ f.t \in Nat
  BY <1>1, <1>2, <1>3
<1>5. PICK a \in Seq(TrueFrame) : a = Append(Queue, f)
  BY AppendIs, OrderTypes
<1>6. Queue' = Newest(DetectionMax, a)
  BY <1>1, <1>3, <1>5 DEF Queue, Services
<1>7. PICK u \in Seq(TrueFrame) : a = u \o Queue' /\ Queue' \in Seq(TrueFrame)
  BY <1>2, <1>6, NewestIs
<1>8. /\ frameTime > 0 /\ \A p \in Tracks : reported[p] <= frameTime
      /\ InOrder(frameBatch) /\ UpTo(frameBatch, frameTime) /\ Reported(frameBatch)
      /\ InOrder(Queue) /\ UpTo(Queue, frameTime) /\ Reported(Queue) /\ Earlier(frameBatch, Queue) /\ Earlier(reports, Queue)
      /\ UpTo(reports, frameTime)
  BY DEF OrderInv, Queue
<1>9. PICK n \in Nat : /\ DOMAIN Queue = 1..n /\ DOMAIN a = 1..n + 1 /\ a[n + 1] = f
                       /\ \A i \in 1..n : a[i] = Queue[i] /\ i \in DOMAIN a
  <2>1. Queue \in Seq(TrueFrame) /\ Len(Queue) \in Nat
    BY OrderTypes
  <2>2. /\ DOMAIN Queue = 1..Len(Queue) /\ DOMAIN a = 1..Len(Queue) + 1 /\ a[Len(Queue) + 1] = f
        /\ \A i \in DOMAIN Queue : a[i] = Queue[i] /\ i \in DOMAIN a
    BY <1>5, <2>1, AppendIs
  <2> QED
    BY <2>1, <2>2
<1>10. \A i \in DOMAIN a : i = n + 1 \/ i \in 1..n
  BY <1>9
<1>11. \A i \in 1..n : Queue[i].t \in Nat /\ Queue[i].t > 0 /\ Queue[i].t <= frameTime /\ Queue[i].t < f.t
  <2>1. \A i \in 1..n : Queue[i].t \in Nat /\ Queue[i].t > 0 /\ Queue[i].t <= frameTime
    BY <1>8, <1>9, OrderTypes DEF UpTo
  <2> QED
    BY <1>2, <1>4, <2>1
<1>12. InOrder(a)
  <2> SUFFICES ASSUME NEW i \in DOMAIN a, NEW j \in DOMAIN a, i < j PROVE a[i].t < a[j].t
    BY DEF InOrder
  <2>1. i \in 1..n
    BY <1>9
  <2>2. CASE j \in 1..n
    BY <1>8, <1>9, <2>1, <2>2 DEF InOrder
  <2>3. CASE j = n + 1
    BY <1>9, <1>11, <2>1, <2>3
  <2> QED
    BY <1>10, <2>2, <2>3
<1>13. UpTo(a, frameTime') /\ Reported(a)
  <2>1. \A i \in DOMAIN a : a[i].t > 0 /\ a[i].t <= f.t
    BY <1>2, <1>4, <1>9, <1>10, <1>11
  <2>2. \A p \in Tracks : reported[p] < f.t
    BY <1>2, <1>4, <1>8
  <2>3. \A p \in Tracks : \A i \in DOMAIN a : reported[p] < a[i].t
    BY <1>8, <1>9, <1>10, <2>2 DEF Reported
  <2> QED
    BY <1>4, <2>1, <2>3 DEF UpTo, Reported
<1>14. /\ UpTo(frameBatch, frameTime') /\ UpTo(reports, frameTime')
       /\ \A i \in DOMAIN frameBatch : frameBatch[i].t < f.t
       /\ \A i \in DOMAIN reports : reports[i].t < f.t
  <2>1. \A i \in DOMAIN frameBatch : frameBatch[i].t \in Nat /\ frameBatch[i].t > 0 /\ frameBatch[i].t <= frameTime
    BY <1>8, OrderTypes DEF UpTo
  <2>2. \A i \in DOMAIN reports : reports[i].t \in Nat /\ reports[i].t > 0 /\ reports[i].t <= frameTime
    BY <1>8, OrderTypes DEF UpTo
  <2>3. \A i \in DOMAIN frameBatch : frameBatch[i].t > 0 /\ frameBatch[i].t < f.t /\ frameBatch[i].t <= f.t
    BY <1>2, <1>4, <2>1
  <2>4. \A i \in DOMAIN reports : reports[i].t > 0 /\ reports[i].t < f.t /\ reports[i].t <= f.t
    BY <1>2, <1>4, <2>2
  <2> QED
    BY <1>4, <2>3, <2>4 DEF UpTo
<1>15. Earlier(frameBatch, a) /\ Earlier(reports, a)
  BY <1>8, <1>9, <1>10, <1>14 DEF Earlier
<1>16. Part(Queue', a) /\ InOrder(Queue')
  BY <1>7, <1>12, ConcatOrder
<1>17. UpTo(Queue', frameTime') /\ Reported(Queue') /\ Earlier(frameBatch, Queue') /\ Earlier(reports, Queue')
  BY <1>13, <1>15, <1>16, PartKeeps
<1>18. frameTime' > 0 /\ \A p \in Tracks : reported[p] <= frameTime'
  BY <1>2, <1>4, <1>8
<1> QED
  BY <1>8, <1>14, <1>16, <1>17, <1>18 DEF OrderInv, behaviorVars, Queue, Reported, InOrder, Earlier, UpTo

LEMMA OrderReadFrames ==
  ASSUME TypesOK, OrderInv, ReadFrames, Quiet
  PROVE  OrderInv'
<1>1. /\ frameTime' = frameTime /\ reported' = reported /\ reports' = <<>> /\ behPc' = "events"
      /\ frameBatch' = FirstOf(FrameBatch, Queue) /\ Queue' = After(FrameBatch, Queue)
  <2>1. detections' = [detections EXCEPT !["behavior"] = After(FrameBatch, @)]
    BY DEF ReadFrames
  <2>2. Queue' = After(FrameBatch, Queue)
    BY <2>1 DEF Queue, TypesOK, ShareOK, Services
  <2> QED
    BY <2>2 DEF ReadFrames, Quiet, OrderInv, Queue
<1>2. Queue \in Seq(TrueFrame) /\ FrameBatch \in Nat
  BY OrderTypes, BehaviorAssumption
<1>3. PICK u \in Seq(TrueFrame), v \in Seq(TrueFrame) : u = frameBatch' /\ v = Queue' /\ Queue = u \o v
  <2>1. PICK q \in Seq(TrueFrame) : q = Queue
    BY <1>2
  <2>2. FirstOf(FrameBatch, q) \in Seq(TrueFrame) /\ After(FrameBatch, q) \in Seq(TrueFrame)
        /\ q = FirstOf(FrameBatch, q) \o After(FrameBatch, q)
    BY <1>2, SplitIs
  <2> QED
    BY <1>1, <2>1, <2>2
<1>4. InOrder(Queue) /\ UpTo(Queue, frameTime) /\ Reported(Queue)
  BY DEF OrderInv, Queue
<1>5. Part(u, Queue) /\ Part(v, Queue) /\ InOrder(u) /\ InOrder(v) /\ Earlier(u, v)
  BY <1>3, <1>4, ConcatOrder
<1>6. UpTo(u, frameTime) /\ UpTo(v, frameTime) /\ Reported(u) /\ Reported(v)
  BY <1>4, <1>5, PartKeeps
<1>7. DOMAIN reports' = {}
  BY <1>1
<1>8. frameTime > 0 /\ \A p \in Tracks : reported[p] <= frameTime
  BY DEF OrderInv
<1> QED
  BY <1>1, <1>3, <1>5, <1>6, <1>7, <1>8 DEF OrderInv, Queue, Reported, InOrder, Earlier, UpTo

LEMMA OrderHandleFrame ==
  ASSUME TypesOK, OrderInv, HandleFrame, Quiet
  PROVE  OrderInv'
<1>1. PICK f \in TrueFrame :
           /\ f = Head(frameBatch) /\ frameBatch # <<>> /\ reports = <<>>
           /\ reports' = Reports(f) /\ frameBatch' = Tail(frameBatch)
           /\ UNCHANGED <<detections, behPc, reported>>
  BY HandleFrameIs DEF TypesOK
<1>2. frameTime' = frameTime /\ Queue' = Queue
  BY <1>1 DEF Quiet, Queue
<1>3. /\ InOrder(frameBatch) /\ UpTo(frameBatch, frameTime) /\ Reported(frameBatch)
      /\ InOrder(Queue) /\ UpTo(Queue, frameTime) /\ Reported(Queue) /\ Earlier(frameBatch, Queue)
  BY DEF OrderInv, Queue
<1>4. frameBatch \in Seq(TrueFrame)
  BY OrderTypes
<1>5. PICK u : u = Tail(frameBatch) /\ Part(u, frameBatch) /\ InOrder(u) /\ (\A i \in DOMAIN u : f.t < u[i].t)
               /\ 1 \in DOMAIN frameBatch /\ f = frameBatch[1]
  BY <1>1, <1>3, <1>4, TailOrder
<1>6. UpTo(u, frameTime) /\ Reported(u) /\ Earlier(u, Queue)
  BY <1>3, <1>5, PartKeeps
<1>7. f.t > 0 /\ f.t <= frameTime /\ (\A p \in Tracks : reported[p] < f.t) /\ \A i \in DOMAIN Queue : f.t < Queue[i].t
  BY <1>3, <1>5 DEF UpTo, Reported, Earlier
<1>8. \A i \in DOMAIN Reports(f) : /\ Reports(f)[i].track = f.people[i].track /\ Reports(f)[i].t = f.t
                                   /\ i \in DOMAIN f.people /\ Reports(f)[i].track \in Tracks
  <2>1. /\ DOMAIN Reports(f) = DOMAIN f.people
        /\ \A i \in DOMAIN Reports(f) : Reports(f)[i].track = f.people[i].track /\ Reports(f)[i].t = f.t
    BY ReportsIs DEF TypesOK
  <2>2. \A i \in DOMAIN f.people : f.people[i].track \in Tracks
    BY SeenIs
  <2> QED
    BY <2>1, <2>2
<1>9. /\ UpTo(Reports(f), frameTime) /\ Earlier(Reports(f), u) /\ Earlier(Reports(f), Queue)
      /\ \A i \in DOMAIN Reports(f) : reported[Reports(f)[i].track] < Reports(f)[i].t
  BY <1>5, <1>7, <1>8 DEF UpTo, Earlier
<1>10. \A i, j \in DOMAIN Reports(f) : Reports(f)[i].track = Reports(f)[j].track => i = j
  BY <1>8 DEF TrueFrame
<1>11. behPc' # "frames"
  BY <1>1 DEF OrderInv
<1>12. frameTime > 0 /\ \A p \in Tracks : reported[p] <= frameTime
  BY DEF OrderInv
<1>13. reports' = Reports(f) /\ frameBatch' = u /\ reported' = reported
  BY <1>1, <1>5
<1>14. /\ InOrder(frameBatch') /\ UpTo(frameBatch', frameTime') /\ Reported(frameBatch)'
       /\ InOrder(Queue') /\ UpTo(Queue', frameTime') /\ Reported(Queue)' /\ Earlier(frameBatch', Queue') /\ Earlier(reports', Queue')
       /\ UpTo(reports', frameTime') /\ Earlier(reports', frameBatch')
  BY <1>2, <1>3, <1>5, <1>6, <1>9, <1>13 DEF Reported
<1>15. /\ \A i \in DOMAIN reports' : reported'[reports'[i].track] < reports'[i].t
       /\ \A i, j \in DOMAIN reports' : reports'[i].track = reports'[j].track => i = j
  BY <1>9, <1>10, <1>13
<1> QED
  BY <1>2, <1>11, <1>12, <1>13, <1>14, <1>15 DEF OrderInv, Queue

LEMMA OrderPublishBehavior ==
  ASSUME TypesOK, OrderInv, PublishBehavior, Quiet
  PROVE  OrderInv'
<1>1. /\ UNCHANGED <<frameTime, detections, behPc, frameBatch>> /\ reports # <<>> /\ reports' = Tail(reports)
      /\ reported' = [reported EXCEPT ![Head(reports).track] = Head(reports).t]
  BY DEF PublishBehavior, Quiet
<1>2. PICK e : /\ e = Head(reports) /\ e = reports[1] /\ 1 \in DOMAIN reports
               /\ \A i \in DOMAIN reports' : i + 1 \in DOMAIN reports /\ i + 1 # 1 /\ reports'[i] = reports[i + 1] /\ i \in Int
  <2>1. reports \in Seq(BehaviorEvent)
    BY OrderTypes
  <2>2. /\ Head(reports) = reports[1] /\ Len(reports) \in Nat /\ Len(reports) >= 1 /\ DOMAIN reports = 1..Len(reports)
        /\ DOMAIN Tail(reports) = 1..Len(reports) - 1
        /\ \A i \in DOMAIN Tail(reports) : i + 1 \in DOMAIN reports /\ i + 1 # 1 /\ Tail(reports)[i] = reports[i + 1]
    BY <1>1, <2>1, TailIs
  <2>3. 1 \in DOMAIN reports /\ \A i \in DOMAIN Tail(reports) : i \in Int
    BY <2>2
  <2> QED
    BY <1>1, <2>2, <2>3
<1>3. /\ UpTo(reports, frameTime) /\ Earlier(reports, frameBatch) /\ Earlier(reports, Queue)
      /\ Reported(frameBatch) /\ Reported(Queue)
      /\ \A i \in DOMAIN reports : reported[reports[i].track] < reports[i].t
      /\ \A i, j \in DOMAIN reports : reports[i].track = reports[j].track => i = j
      /\ frameTime > 0 /\ \A p \in Tracks : reported[p] <= frameTime
  BY DEF OrderInv, Queue
<1>4. e.track \in Tracks /\ reported' = [reported EXCEPT ![e.track] = e.t] /\ reported \in [Tracks -> Nat]
  BY <1>1, <1>2, OrderTypes DEF TypesOK, BehaviorOK
<1>5. \A p \in Tracks : reported'[p] = IF p = e.track THEN e.t ELSE reported[p]
  BY <1>4
<1>6. Part(reports', reports)
  BY <1>2 DEF Part
<1>7. UpTo(reports', frameTime) /\ Earlier(reports', frameBatch) /\ Earlier(reports', Queue)
  BY <1>3, <1>6, PartKeeps
<1>8. /\ (\A i \in DOMAIN frameBatch : e.t < frameBatch[i].t) /\ (\A i \in DOMAIN Queue : e.t < Queue[i].t)
      /\ e.t <= frameTime
  BY <1>2, <1>3 DEF Earlier, UpTo
<1>9. /\ \A p \in Tracks : \A i \in DOMAIN frameBatch : reported'[p] < frameBatch[i].t
      /\ \A p \in Tracks : \A i \in DOMAIN Queue : reported'[p] < Queue[i].t
      /\ \A p \in Tracks : reported'[p] <= frameTime
  BY <1>3, <1>5, <1>8 DEF Reported
<1>10. \A i \in DOMAIN reports' : reported'[reports'[i].track] < reports'[i].t
  <2> SUFFICES ASSUME NEW i \in DOMAIN reports' PROVE reported'[reports'[i].track] < reports'[i].t
    OBVIOUS
  <2>1. PICK k \in DOMAIN reports : k # 1 /\ reports'[i] = reports[k]
    BY <1>2
  <2>2. reports[k].track # e.track /\ reports[k].track \in Tracks
    BY <1>2, <1>3, <2>1, OrderTypes
  <2> QED
    BY <1>3, <1>5, <2>1, <2>2
<1>11. \A i, j \in DOMAIN reports' : reports'[i].track = reports'[j].track => i = j
  <2> SUFFICES ASSUME NEW i \in DOMAIN reports', NEW j \in DOMAIN reports', reports'[i].track = reports'[j].track PROVE i = j
    OBVIOUS
  <2>1. i + 1 = j + 1 /\ i \in Int /\ j \in Int
    BY <1>2, <1>3
  <2> QED
    BY <2>1
<1>12. behPc' # "frames"
  BY <1>1 DEF OrderInv
<1>13. InOrder(frameBatch) /\ UpTo(frameBatch, frameTime) /\ InOrder(Queue) /\ UpTo(Queue, frameTime) /\ Earlier(frameBatch, Queue)
  BY DEF OrderInv, Queue
<1>14. /\ InOrder(frameBatch') /\ UpTo(frameBatch', frameTime') /\ InOrder(Queue') /\ UpTo(Queue', frameTime')
       /\ Earlier(frameBatch', Queue') /\ UpTo(reports', frameTime') /\ Earlier(reports', frameBatch') /\ Earlier(reports', Queue')
       /\ Reported(frameBatch)' /\ Reported(Queue)' /\ frameTime' > 0 /\ \A p \in Tracks : reported'[p] <= frameTime'
  BY <1>1, <1>3, <1>7, <1>9, <1>13 DEF Reported, Queue
<1> QED
  BY <1>10, <1>11, <1>12, <1>14 DEF OrderInv, Queue

LEMMA OrderStep ==
  ASSUME TypesOK, OrderInv, [TrackingNext]_trackingVars
  PROVE  OrderInv'
<1> USE DEF Quiet
<1>1. CASE PublishDetection /\ UNCHANGED behaviorVars
  BY <1>1, OrderPublishDetection
<1>2. CASE AssociationStep /\ UNCHANGED behaviorVars
  <2>1. UNCHANGED <<frameTime, Queue>>
    <3>1. CASE ReadDetections
      BY <3>1 DEF ReadDetections, Queue, TypesOK, ShareOK, Services
    <3>2. CASE ~ReadDetections
      BY <1>2, <3>2 DEF AssociationStep, ProcessFrame, PublishAssociation, PublishAssociationFails, RestartAssociation, Queue
    <3> QED
      BY <3>1, <3>2
  <2> QED
    BY <1>2, <2>1 DEF OrderInv, behaviorVars, Queue, Reported
<1>3. CASE BehaviorStep /\ Quiet
  <2>1. CASE ReadFrames
    BY <1>3, <2>1, OrderReadFrames
  <2>2. CASE HandleFrame
    BY <1>3, <2>2, OrderHandleFrame
  <2>3. CASE PublishBehavior
    BY <1>3, <2>3, OrderPublishBehavior
  <2>4. CASE ReadEvents \/ NoFrames
    BY <1>3, <2>4 DEF ReadEvents, NoFrames, OrderInv, Queue, Reported
  <2>5. CASE PublishBehaviorFails \/ StopBehavior
    <3>1. /\ UNCHANGED <<frameTime, detections, reported>> /\ reports' = <<>>
          /\ (UNCHANGED <<frameBatch, behPc>> \/ frameBatch' = <<>>) /\ DOMAIN <<>> = {}
      BY <1>3, <2>5 DEF PublishBehaviorFails, StopBehavior
    <3> QED
      BY <3>1 DEF OrderInv, Queue, Reported, InOrder, Earlier, UpTo
  <2> QED
    BY <1>3, <2>1, <2>2, <2>3, <2>4, <2>5 DEF BehaviorStep, BehaviorLoop
<1>4. CASE UNCHANGED trackingVars
  BY <1>4 DEF OrderInv, Queue, Reported, trackingVars, assocVars, behaviorVars
<1> QED
  BY <1>1, <1>2, <1>3, <1>4 DEF TrackingNext

LEMMA OrderStart == TrackingInit => OrderInv
BY DEF TrackingInit, AssocInit, BehaviorInit, OrderInv, Services, Start, InOrder, UpTo, Earlier, Reported

(* Frames wait, and their reports go out, in the order of their times. *)
THEOREM OrderHolds == TrackingSpec => []OrderInv
BY TypesHold, OrderStart, OrderStep, PTL DEF TrackingSpec

(* Behavior events of a track are published in the order of their frames, none  *)
(* twice.                                                                       *)
THEOREM ReportsOrdered == TrackingSpec => ReportsInOrder
<1>1. TypesOK /\ OrderInv /\ [TrackingNext]_trackingVars =>
        [\A p \in Tracks : reports # <<>> /\ Head(reports).track = p /\ reports' = Tail(reports) /\ faults' = faults
           => Head(reports).t > reported[p]]_trackingVars
  <2> SUFFICES ASSUME TypesOK, OrderInv, NEW p \in Tracks, reports # <<>>, Head(reports).track = p
               PROVE  Head(reports).t > reported[p]
    OBVIOUS
  <2>1. reports \in Seq(BehaviorEvent) /\ reported[p] \in Nat
    BY OrderTypes
  <2>2. 1 \in DOMAIN reports /\ Head(reports) = reports[1] /\ reports[1].t \in Nat
    BY <2>1, TailIs, OrderTypes
  <2>3. reported[p] < reports[1].t
    BY <2>2 DEF OrderInv
  <2> QED
    BY <2>1, <2>2, <2>3
<1> QED
  BY <1>1, TypesHold, OrderHolds, PTL DEF TrackingSpec, ReportsInOrder

(* Votes. *)
LEMMA AyesCount ==
  ASSUME NEW v \in Seq(BOOLEAN)
  PROVE  Ayes(v) = CountIn(v, {TRUE}) /\ Ayes(v) \in Nat
<1>1. {i \in DOMAIN v : v[i]} = {i \in DOMAIN v : v[i] \in {TRUE}}
  <2>1. \A i \in DOMAIN v : v[i] \in BOOLEAN
    OBVIOUS
  <2> QED
    BY <2>1
<1>2. Ayes(v) = CountIn(v, {TRUE})
  BY <1>1 DEF Ayes, CountIn
<1> QED
  BY <1>2, CountType

LEMMA AyesNone == Ayes(<<>>) = 0
<1>1. {i \in DOMAIN <<>> : <<>>[i]} = {}
  OBVIOUS
<1> QED
  BY <1>1, FS_EmptySet DEF Ayes

LEMMA AyesVotes == ASSUME NEW n \in Nat PROVE Ayes(Votes(n)) = n
<1>1. {i \in DOMAIN Votes(n) : Votes(n)[i]} = 1..n
  BY DEF Votes
<1>2. Cardinality(1..n) = n
  BY FS_Interval
<1> QED
  BY <1>1, <1>2 DEF Ayes

LEMMA AyesConcat ==
  ASSUME NEW v \in Seq(BOOLEAN), NEW w \in Seq(BOOLEAN)
  PROVE  v \o w \in Seq(BOOLEAN) /\ Ayes(v \o w) = Ayes(v) + Ayes(w)
<1>1. v \o w \in Seq(BOOLEAN)
  BY ConcatProperties
<1>2. CountIn(v \o w, {TRUE}) = CountIn(v, {TRUE}) + CountIn(w, {TRUE})
  BY CountConcat
<1>3. PICK u \in Seq(BOOLEAN) : u = v \o w
  BY <1>1
<1>4. Ayes(u) = CountIn(u, {TRUE})
  BY AyesCount
<1> QED
  BY <1>1, <1>2, <1>3, <1>4, AyesCount

LEMMA AyesNewest ==
  ASSUME NEW v \in Seq(BOOLEAN), NEW n \in Nat
  PROVE  Newest(n, v) \in Seq(BOOLEAN) /\ Ayes(Newest(n, v)) <= Ayes(v)
<1>0. PICK w : w = Newest(n, v)
  OBVIOUS
<1>1. w \in Seq(BOOLEAN) /\ \E u \in Seq(BOOLEAN) : v = u \o w
  BY <1>0, NewestIs
<1>a. PICK u \in Seq(BOOLEAN) : v = u \o w
  BY <1>1
<1>2. Ayes(v) = Ayes(u) + Ayes(w) /\ Ayes(u) \in Nat /\ Ayes(w) \in Nat
  BY <1>1, <1>a, AyesConcat, AyesCount
<1>3. Ayes(w) <= Ayes(v)
  BY <1>2
<1> QED
  BY <1>0, <1>1, <1>3

LEMMA AyesAppend ==
  ASSUME NEW v \in Seq(BOOLEAN)
  PROVE  Append(v, FALSE) \in Seq(BOOLEAN) /\ Ayes(Append(v, FALSE)) = Ayes(v)
<1>1. Append(v, FALSE) \in Seq(BOOLEAN)
  BY AppendProperties
<1>2. /\ DOMAIN v = 1..Len(v) /\ DOMAIN Append(v, FALSE) = 1..Len(v) + 1 /\ Len(v) \in Nat
      /\ ~Append(v, FALSE)[Len(v) + 1] /\ \A i \in DOMAIN v : Append(v, FALSE)[i] = v[i]
  <2>1. /\ DOMAIN v = 1..Len(v) /\ DOMAIN Append(v, FALSE) = 1..Len(v) + 1 /\ Len(v) \in Nat
    OBVIOUS
  <2>2. ~Append(v, FALSE)[Len(v) + 1]
    <3>1. \A e \in BOOLEAN : Append(v, e)[Len(v) + 1] = e
      BY AppendProperties
    <3>2. Append(v, FALSE)[Len(v) + 1] = FALSE
      BY <3>1, Zenon
    <3> QED
      BY <3>2, Zenon
  <2>3. \A i \in DOMAIN v : Append(v, FALSE)[i] = v[i]
    <3>1. \A e \in BOOLEAN : \A i \in DOMAIN v : Append(v, e)[i] = v[i]
      BY AppendProperties
    <3> QED
      BY <3>1, Zenon
  <2> QED
    BY <2>1, <2>2, <2>3
<1>3. \A i \in DOMAIN Append(v, FALSE) : i = Len(v) + 1 \/ i \in DOMAIN v
  BY <1>2
<1>4. \A i \in DOMAIN v : i \in DOMAIN Append(v, FALSE)
  BY <1>2
<1>5. {i \in DOMAIN Append(v, FALSE) : Append(v, FALSE)[i]} = {i \in DOMAIN v : v[i]}
  BY <1>2, <1>3, <1>4
<1> QED
  BY <1>1, <1>5 DEF Ayes

LEMMA BaseType ==
  ASSUME NEW b \in Buffer, NEW t \in Nat
  PROVE  Base(b, t) \in Seq(BOOLEAN) /\ Ayes(Base(b, t)) \in Nat /\ Ayes(Base(b, t)) <= Ayes(b.votes) /\ Ayes(b.votes) \in Nat
<1>1. b.votes \in Seq(BOOLEAN) /\ <<>> \in Seq(BOOLEAN)
  BY EmptySeq DEF Buffer, VoteSeq
<1>2. Ayes(b.votes) \in Nat
  BY <1>1, AyesCount
<1>3. CASE Base(b, t) = <<>>
  BY <1>1, <1>2, <1>3, AyesNone
<1>4. CASE Base(b, t) = b.votes
  BY <1>1, <1>2, <1>4
<1> QED
  BY <1>3, <1>4 DEF Base

LEMMA AyesAfter ==
  ASSUME NEW b \in Buffer, NEW n \in Nat, NEW t \in Nat
  PROVE  Ayes(AfterVotes(b, n, t)) \in Nat /\ Ayes(AfterVotes(b, n, t)) <= Ayes(Base(b, t)) + n
<1>1. PICK v \in Seq(BOOLEAN) : v = Base(b, t)
  BY BaseType
<1>2. PICK w \in Seq(BOOLEAN) : w = v \o Votes(n) /\ Ayes(w) = Ayes(v) + n
  <2>1. PICK x \in Seq(BOOLEAN) : x = Votes(n) /\ Ayes(x) = n
    BY VotesIs, AyesVotes
  <2>2. v \o x \in Seq(BOOLEAN) /\ Ayes(v \o x) = Ayes(v) + Ayes(x)
    BY AyesConcat
  <2> QED
    BY <2>1, <2>2
<1>3. Confirmations \in Nat
  BY BehaviorAssumption
<1>4. AfterVotes(b, n, t) = Newest(Confirmations, w)
  BY <1>1, <1>2 DEF AfterVotes
<1>5. PICK x \in Seq(BOOLEAN) : x = Newest(Confirmations, w) /\ Ayes(x) <= Ayes(w)
  BY <1>3, AyesNewest
<1>6. Ayes(x) \in Nat
  BY AyesCount
<1> QED
  BY <1>1, <1>2, <1>4, <1>5, <1>6

(* Chains of times. *)
LEMMA ChainedLess ==
  ASSUME NEW h \in Seq(Nat), NEW n \in Nat, NEW m \in Nat, m <= n, Chained(n, h)
  PROVE  Chained(m, h)
<1>1. PICK l \in Nat : l = Len(h)
  OBVIOUS
<1>2. n <= l /\ \A j \in l - n + 1..l - 1 : h[j + 1] - h[j] <= ConfirmAge
  BY <1>1 DEF Chained
<1>3. \A j \in l - m + 1..l - 1 : j \in l - n + 1..l - 1
  OBVIOUS
<1>4. m <= l
  BY <1>2
<1> QED
  BY <1>1, <1>2, <1>3, <1>4 DEF Chained

LEMMA ChainedSpan ==
  ASSUME NEW h \in Seq(Nat), NEW m \in Nat, m >= 1, Chained(m, h)
  PROVE  Len(h) >= m /\ h[Len(h)] - h[Len(h) - m + 1] <= (m - 1) * ConfirmAge
<1>0. ConfirmAge \in Nat
  BY BehaviorAssumption
<1>1. PICK l \in Nat : l = Len(h) /\ \A j \in 1..l : h[j] \in Nat
  OBVIOUS
<1>2. m <= l /\ \A j \in l - m + 1..l - 1 : h[j + 1] - h[j] <= ConfirmAge
  BY <1>1 DEF Chained
<1> DEFINE G == {d \in Nat : d <= m - 1 => h[l] - h[l - d] <= d * ConfirmAge}
<1>3. 0 \in G
  <2>1. h[l] - h[l - 0] = 0 /\ 0 * ConfirmAge = 0
    <3>1. l - 0 = l /\ l \in 1..l
      BY <1>2
    <3> QED
      BY <1>0, <1>1, <3>1
  <2> QED
    BY <2>1
<1>4. ASSUME NEW d \in Nat, d \in G PROVE d + 1 \in G
  <2> SUFFICES ASSUME d + 1 <= m - 1 PROVE h[l] - h[l - (d + 1)] <= (d + 1) * ConfirmAge
    OBVIOUS
  <2>1. PICK j \in Int : j = l - (d + 1)
    OBVIOUS
  <2>2. j \in l - m + 1..l - 1 /\ j \in 1..l /\ j + 1 \in 1..l /\ l \in 1..l /\ j + 1 = l - d
    BY <1>2, <2>1
  <2>3. h[l] - h[j + 1] <= d * ConfirmAge
    BY <1>4, <2>2
  <2>4. h[j + 1] - h[j] <= ConfirmAge /\ h[j] \in Nat /\ h[j + 1] \in Nat /\ h[l] \in Nat
    BY <1>1, <1>2, <2>2
  <2>5. PICK x \in Int, y \in Int : x = d * ConfirmAge /\ y = (d + 1) * ConfirmAge
    BY <1>0
  <2>6. y = x + ConfirmAge
    BY <1>0, <2>5
  <2>7. PICK u \in Nat, v \in Nat, w \in Nat : u = h[j] /\ v = h[j + 1] /\ w = h[l]
    BY <2>4
  <2>8. w - v <= x /\ v - u <= ConfirmAge
    BY <2>3, <2>4, <2>5, <2>7
  <2>9. w - u <= y
    BY <1>0, <2>6, <2>8
  <2> QED
    BY <2>1, <2>5, <2>7, <2>9
<1> HIDE DEF G
<1>5. m - 1 \in G
  BY <1>3, <1>4, NatInd
<1>6. l - (m - 1) = l - m + 1
  OBVIOUS
<1> QED
  BY <1>1, <1>2, <1>5, <1>6 DEF G

(* Events used at a time no more than ConfirmAge after the last one lengthen    *)
(* the chain; later ones begin a new one.                                       *)
LEMMA ChainedMore ==
  ASSUME NEW h \in Seq(Nat), NEW m \in Nat, Chained(m, h), NEW n \in Nat, NEW t \in Nat,
         NEW w \in Seq(Nat), Len(w) = n, \A i \in 1..n : w[i] = t,
         m > 0 => t - h[Len(h)] <= ConfirmAge
  PROVE  /\ h \o w \in Seq(Nat) /\ Len(h \o w) = Len(h) + n /\ Chained(m + n, h \o w)
         /\ n > 0 => (h \o w)[Len(h) + n] = t
<1>0. ConfirmAge \in Nat
  BY BehaviorAssumption
<1>1. PICK l \in Nat : l = Len(h) /\ \A j \in 1..l : h[j] \in Nat
  OBVIOUS
<1>2. PICK g : g = h \o w
  OBVIOUS
<1>3. g \in Seq(Nat) /\ Len(g) = l + n /\ \A i \in 1..l + n : g[i] = IF i <= l THEN h[i] ELSE w[i - l]
  BY <1>1, <1>2, ConcatProperties
<1>4. \A i \in 1..l : g[i] = h[i]
  <2>1. \A i \in 1..l : i \in 1..l + n /\ i <= l
    OBVIOUS
  <2> QED
    BY <1>3, <2>1
<1>5. \A i \in l + 1..l + n : g[i] = t
  <2>1. \A i \in l + 1..l + n : i \in 1..l + n /\ ~(i <= l) /\ i - l \in 1..n
    OBVIOUS
  <2> QED
    BY <1>3, <2>1
<1>6. m <= l /\ \A j \in l - m + 1..l - 1 : h[j + 1] - h[j] <= ConfirmAge
  BY <1>1 DEF Chained
<1>7. ASSUME NEW j \in (l + n) - (m + n) + 1..l + n - 1 PROVE g[j + 1] - g[j] <= ConfirmAge
  <2>0. m <= l
    BY <1>6
  <2>1. CASE j < l
    <3>1. j \in l - m + 1..l - 1 /\ j \in 1..l /\ j + 1 \in 1..l
      BY <2>0, <2>1
    <3> QED
      BY <1>4, <1>6, <3>1
  <2>2. CASE j = l
    <3>1. m > 0 /\ j \in 1..l /\ j + 1 \in l + 1..l + n
      BY <2>0, <2>2
    <3> QED
      BY <1>1, <1>4, <1>5, <2>2, <3>1
  <2>3. CASE j > l
    <3>1. j \in l + 1..l + n /\ j + 1 \in l + 1..l + n
      BY <2>3
    <3>2. g[j] = t /\ g[j + 1] = t
      BY <1>5, <3>1
    <3> QED
      BY <1>0, <3>2
  <2>4. j \in Int
    OBVIOUS
  <2> QED
    BY <2>1, <2>2, <2>3, <2>4
<1>8. m + n <= l + n
  BY <1>6
<1>9. Chained(m + n, g)
  BY <1>3, <1>7, <1>8 DEF Chained
<1>10. n > 0 => l + n \in l + 1..l + n
  OBVIOUS
<1> QED
  BY <1>1, <1>2, <1>3, <1>5, <1>9, <1>10

(* The votes for a signal and the events used, through a frame. *)
Backed(b, h) ==
  /\ Chained(Ayes(b.votes), h)
  /\ Ayes(b.votes) > 0 => b.last > 0
  /\ b.last > 0 => h # <<>> /\ h[Len(h)] = b.last

Used(p, k, t) == [i \in DOMAIN OfKind(p, k) |-> t]

LEMMA MajorityType == Majority \in Nat /\ Majority >= 1 /\ (Confirmations = 1 => Majority = 1)
BY BehaviorAssumption DEF Majority

LEMMA UsedIs ==
  ASSUME BehaviorOK, NEW p, NEW k, NEW t \in Nat
  PROVE  /\ Used(p, k, t) \in Seq(Nat) /\ Len(Used(p, k, t)) = Len(OfKind(p, k)) /\ Len(OfKind(p, k)) \in Nat
         /\ \A i \in 1..Len(OfKind(p, k)) : Used(p, k, t)[i] = t
<1>1. PICK n \in Nat : n = Len(OfKind(p, k)) /\ DOMAIN OfKind(p, k) = 1..n
  BY OfKindIs
<1>2. Used(p, k, t) \in [1..n -> Nat] /\ \A i \in 1..n : Used(p, k, t)[i] = t
  BY <1>1 DEF Used
<1>3. Used(p, k, t) \in Seq(Nat) /\ Len(Used(p, k, t)) = n
  BY <1>2, FunIsSeq
<1> QED
  BY <1>1, <1>2, <1>3

LEMMA VotesFrame ==
  ASSUME BehaviorOK, VotesInv, Confirmations > 1, NEW t \in Nat, t > 0, NEW p \in Tracks, NEW k \in AssocKinds
  PROVE  /\ Backed(BuffersAfter(t)[p][k], heard[p][k] \o Used(p, k, t))
         /\ Has(p, k, t) => Chained(Majority, heard[p][k] \o Used(p, k, t))
<1>1. PICK b \in Buffer, h \in Seq(Nat), w \in Seq(Nat), n \in Nat :
           /\ b = buffers[p][k] /\ h = heard[p][k] /\ w = Used(p, k, t) /\ n = Len(OfKind(p, k))
  <2>1. buffers[p][k] \in Buffer /\ heard[p][k] \in Seq(Nat)
    BY DEF BehaviorOK, Buffer, VoteSeq
  <2>2. PICK w \in Seq(Nat) : w = Used(p, k, t)
    BY UsedIs
  <2> QED
    BY <2>1, <2>2, UsedIs
<1>2. Len(w) = n /\ \A i \in 1..n : w[i] = t
  BY <1>1, UsedIs
<1>3. Backed(b, h)
  BY <1>1 DEF VotesInv, Backed
<1>4. PICK m \in Nat, a \in Nat : m = Ayes(Base(b, t)) /\ a = Ayes(b.votes) /\ m <= a
  BY BaseType
<1>5. Chained(a, h) /\ (a > 0 => b.last > 0) /\ (b.last > 0 => h # <<>> /\ h[Len(h)] = b.last) /\ b.last \in Nat
  BY <1>3, <1>4 DEF Backed, Buffer
<1>6. Chained(m, h)
  BY <1>4, <1>5, ChainedLess
<1>7. m > 0 => t - h[Len(h)] <= ConfirmAge
  <2> SUFFICES ASSUME m > 0 PROVE t - h[Len(h)] <= ConfirmAge
    OBVIOUS
  <2>1. Base(b, t) # <<>>
    BY <1>4, AyesNone
  <2>2. ~(b.last > 0 /\ t - b.last > ConfirmAge)
    BY <2>1 DEF Base
  <2>3. b.last > 0 /\ h[Len(h)] = b.last
    BY <1>4, <1>5
  <2>4. ConfirmAge \in Nat
    BY BehaviorAssumption
  <2> QED
    BY <1>5, <2>2, <2>3, <2>4
<1>8. PICK g \in Seq(Nat) : g = h \o w
  BY ConcatProperties
<1>9. Len(g) = Len(h) + n /\ Chained(m + n, g) /\ (n > 0 => g[Len(h) + n] = t)
  BY <1>2, <1>6, <1>7, <1>8, ChainedMore
<1>10. Len(h) \in Nat /\ m + n \in Nat
  OBVIOUS
<1>11. PICK c : c = BuffersAfter(t)[p][k]
  OBVIOUS
<1>12. c = IF n > 0 THEN [votes |-> AfterVotes(b, n, t), last |-> t]
           ELSE IF b.last > 0 /\ t - b.last <= ConfirmAge THEN [b EXCEPT !.votes = Newest(Confirmations, Append(@, FALSE))]
           ELSE b
  BY <1>1, <1>11 DEF BuffersAfter
<1>13. Backed(c, g)
  <2>1. CASE n > 0
    <3>1. c.votes = AfterVotes(b, n, t) /\ c.last = t
      BY <1>12, <2>1
    <3>2. Ayes(c.votes) \in Nat /\ Ayes(c.votes) <= m + n
      BY <1>4, <3>1, AyesAfter
    <3>3. Chained(Ayes(c.votes), g)
      BY <1>9, <1>10, <3>2, ChainedLess
    <3>4. g # <<>> /\ g[Len(g)] = t
      <4>1. Len(g) > 0
        BY <1>9, <1>10, <2>1
      <4> QED
        BY <1>9, <2>1, <4>1
    <3> QED
      BY <3>1, <3>3, <3>4 DEF Backed
  <2>2. CASE n = 0
    <3>1. g = h
      <4>1. w = <<>>
        BY <1>2, <2>2
      <4> QED
        BY <1>8, <4>1, ConcatEmptySeq
    <3>2. c.last = b.last /\ Ayes(c.votes) \in Nat /\ Ayes(c.votes) <= a
      <4>1. b.votes \in Seq(BOOLEAN) /\ Confirmations \in Nat
        BY BehaviorAssumption DEF Buffer, VoteSeq
      <4>2. PICK x \in Seq(BOOLEAN) : x = Append(b.votes, FALSE) /\ Ayes(x) = a
        BY <1>4, <4>1, AyesAppend
      <4>3. PICK y \in Seq(BOOLEAN) : y = Newest(Confirmations, x) /\ Ayes(y) <= a
        BY <4>1, <4>2, AyesNewest
      <4>4. Ayes(y) \in Nat
        BY AyesCount
      <4>5. CASE c = b
        BY <1>4, <4>5
      <4>6. CASE c = [b EXCEPT !.votes = Newest(Confirmations, Append(@, FALSE))]
        <5>1. c = [b EXCEPT !.votes = y]
          BY <4>2, <4>3, <4>6
        <5>2. c.votes = y /\ c.last = b.last
          BY <5>1 DEF Buffer
        <5> QED
          BY <4>3, <4>4, <5>2
      <4>7. c = b \/ c = [b EXCEPT !.votes = Newest(Confirmations, Append(@, FALSE))]
        <5>1. ~(n > 0)
          BY <2>2
        <5> QED
          BY <1>12, <5>1, Zenon
      <4> QED
        BY <4>5, <4>6, <4>7, Zenon
    <3>3. Chained(Ayes(c.votes), g)
      BY <1>5, <3>1, <3>2, ChainedLess
    <3>4. Ayes(c.votes) > 0 => c.last > 0
      BY <1>5, <3>2
    <3> QED
      BY <1>5, <3>1, <3>2, <3>3, <3>4 DEF Backed
  <2> QED
    BY <2>1, <2>2
<1>14. ASSUME Has(p, k, t) PROVE Chained(Majority, g)
  <2>1. PICK i : i \in Confirmed(p, k, t)
    BY <1>14 DEF Has
  <2>2. i \in 1..n /\ Passes(b, i, t)
    BY <1>1, <2>1, OfKindIs DEF Confirmed
  <2>3. Ayes(AfterVotes(b, i, t)) >= Majority
    BY <2>2 DEF Passes
  <2>4. i \in Nat /\ Ayes(AfterVotes(b, i, t)) \in Nat /\ Ayes(AfterVotes(b, i, t)) <= m + i
    <3>1. i \in Nat
      BY <2>2
    <3> QED
      BY <1>4, <3>1, AyesAfter
  <2>5. Majority \in Nat /\ Majority <= m + n
    BY <2>2, <2>3, <2>4, MajorityType
  <2> QED
    BY <1>9, <1>10, <2>5, ChainedLess
<1> QED
  BY <1>1, <1>8, <1>11, <1>13, <1>14

LEMMA HeadTime ==
  ASSUME TypesOK, OrderInv, HandleFrame
  PROVE  \E f \in TrueFrame :
           /\ f = Head(frameBatch) /\ f.t \in Nat /\ f.t > 0
           /\ buffers' = BuffersAfter(f.t)
           /\ heard' = [p \in Tracks |-> [k \in AssocKinds |-> heard[p][k] \o Used(p, k, f.t)]]
           /\ confirmed' = [p \in Tracks |-> {k \in AssocKinds : Has(p, k, f.t)}]
<1>1. PICK f \in TrueFrame :
           /\ f = Head(frameBatch) /\ frameBatch # <<>>
           /\ buffers' = BuffersAfter(f.t)
           /\ heard' = [p \in Tracks |-> [k \in AssocKinds |-> heard[p][k] \o [i \in DOMAIN OfKind(p, k) |-> f.t]]]
           /\ confirmed' = [p \in Tracks |-> {k \in AssocKinds : Has(p, k, f.t)}]
  BY HandleFrameIs DEF TypesOK
<1>2. heard' = [p \in Tracks |-> [k \in AssocKinds |-> heard[p][k] \o Used(p, k, f.t)]]
  BY <1>1 DEF Used
<1>3. f.t \in Nat
  BY SeenIs
<1>4. frameBatch \in Seq(TrueFrame)
  BY OrderTypes
<1>5. f.t > 0
  BY <1>1, <1>4, TailIs DEF OrderInv, UpTo
<1> QED
  BY <1>1, <1>2, <1>3, <1>5

LEMMA VotesStep ==
  ASSUME TypesOK, OrderInv, VotesInv, ChainInv, [TrackingNext]_trackingVars
  PROVE  VotesInv' /\ ChainInv'
<1>1. CASE HandleFrame
  <2>1. PICK f \in TrueFrame :
           /\ f.t \in Nat /\ f.t > 0
           /\ buffers' = BuffersAfter(f.t)
           /\ heard' = [p \in Tracks |-> [k \in AssocKinds |-> heard[p][k] \o Used(p, k, f.t)]]
           /\ confirmed' = [p \in Tracks |-> {k \in AssocKinds : Has(p, k, f.t)}]
    BY <1>1, HeadTime
  <2>2. ASSUME Confirmations > 1, NEW p \in Tracks, NEW k \in AssocKinds
        PROVE  Backed(buffers'[p][k], heard'[p][k]) /\ (k \in confirmed'[p] => Chained(Majority, heard'[p][k]))
    BY <2>1, <2>2, VotesFrame DEF TypesOK
  <2>3. \A p \in Tracks : confirmed'[p] \subseteq AssocKinds
    BY <2>1
  <2>4. VotesInv'
    BY <2>2 DEF VotesInv, Backed
  <2>5. ChainInv'
    BY <2>2, <2>3 DEF ChainInv
  <2> QED
    BY <2>4, <2>5
<1>2. CASE StopBehavior
  <2>1. /\ buffers' = [p \in Tracks |-> [k \in AssocKinds |-> [votes |-> <<>>, last |-> 0]]]
        /\ heard' = heard /\ confirmed' = [p \in Tracks |-> {}]
    BY <1>2 DEF StopBehavior
  <2>2. \A p \in Tracks, k \in AssocKinds : Chained(0, heard[p][k])
    <3> SUFFICES ASSUME NEW p \in Tracks, NEW k \in AssocKinds PROVE Chained(0, heard[p][k])
      OBVIOUS
    <3>1. PICK h \in Seq(Nat) : h = heard[p][k]
      BY DEF TypesOK, BehaviorOK
    <3>2. Chained(0, h)
      BY DEF Chained
    <3> QED
      BY <3>1, <3>2
  <2>3. VotesInv'
    BY <2>1, <2>2, AyesNone DEF VotesInv
  <2>4. ChainInv'
    BY <2>1 DEF ChainInv
  <2> QED
    BY <2>3, <2>4
<1>3. CASE UNCHANGED <<buffers, heard, confirmed>>
  BY <1>3 DEF VotesInv, ChainInv
<1>4. HandleFrame \/ StopBehavior \/ UNCHANGED <<buffers, heard, confirmed>>
  <2>1. CASE UNCHANGED behaviorVars
    BY <2>1 DEF behaviorVars
  <2>2. CASE BehaviorStep
    BY <2>2 DEF BehaviorStep, BehaviorLoop, ReadEvents, ReadFrames, NoFrames, PublishBehavior, PublishBehaviorFails
  <2>3. CASE UNCHANGED trackingVars
    BY <2>3 DEF trackingVars, behaviorVars
  <2> QED
    BY <2>1, <2>2, <2>3 DEF TrackingNext
<1> QED
  BY <1>1, <1>2, <1>3, <1>4

LEMMA VotesStart == ASSUME TrackingInit PROVE VotesInv /\ ChainInv
<1>1. /\ buffers = [p \in Tracks |-> [k \in AssocKinds |-> [votes |-> <<>>, last |-> 0]]]
      /\ heard = [p \in Tracks |-> [k \in AssocKinds |-> <<>>]] /\ confirmed = [p \in Tracks |-> {}]
  BY DEF TrackingInit, BehaviorInit
<1>2. Chained(0, <<>>)
  BY DEF Chained
<1> QED
  BY <1>1, <1>2, AyesNone DEF VotesInv, ChainInv

LEMMA ChainMeans == ASSUME TypesOK, ChainInv PROVE ConfirmedHasSupport
<1> SUFFICES ASSUME Confirmations > 1, NEW p \in Tracks, NEW k \in confirmed[p]
             PROVE  Len(heard[p][k]) >= Majority
                    /\ heard[p][k][Len(heard[p][k])] - heard[p][k][Len(heard[p][k]) - Majority + 1] <= (Majority - 1) * ConfirmAge
  BY DEF ConfirmedHasSupport
<1>1. PICK h \in Seq(Nat) : h = heard[p][k]
  <2>1. k \in AssocKinds /\ heard[p] \in [AssocKinds -> Seq(Nat)]
    BY DEF TypesOK, BehaviorOK
  <2> QED
    BY <2>1
<1>2. Chained(Majority, h)
  BY <1>1 DEF ChainInv
<1> QED
  BY <1>1, <1>2, MajorityType, ChainedSpan

(* The votes kept, and the signals confirmed, are chains of the events used. *)
THEOREM VotesHold == TrackingSpec => [](VotesInv /\ ChainInv)
<1>1. TypesOK /\ OrderInv /\ (VotesInv /\ ChainInv) /\ [TrackingNext]_trackingVars => (VotesInv /\ ChainInv)'
  BY VotesStep
<1>2. TrackingInit => VotesInv /\ ChainInv
  BY VotesStart
<1> QED
  BY <1>1, <1>2, TypesHold, OrderHolds, PTL DEF TrackingSpec

(* A confirmed signal rests on a majority of events, each within the age of the *)
(* next.                                                                        *)
THEOREM SignalsAreSupported == TrackingSpec => []ConfirmedHasSupport
<1>1. TypesOK /\ (VotesInv /\ ChainInv) => ConfirmedHasSupport
  BY ChainMeans
<1> QED
  BY <1>1, TypesHold, VotesHold, PTL

(* Pickups: published, waiting and used. *)
LEMMA CountNewest ==
  ASSUME NEW T, NEW s \in Seq(T), NEW n \in Nat, NEW S
  PROVE  CountIn(Newest(n, s), S) \in Nat /\ CountIn(Newest(n, s), S) <= CountIn(s, S)
<1>0. PICK w : w = Newest(n, s)
  OBVIOUS
<1>1. w \in Seq(T) /\ \E u \in Seq(T) : s = u \o w
  BY <1>0, NewestIs
<1>2. PICK u \in Seq(T) : s = u \o w
  BY <1>1
<1>3. CountIn(s, S) = CountIn(u, S) + CountIn(w, S)
  BY <1>1, <1>2, CountConcat
<1>4. CountIn(u, S) \in Nat /\ CountIn(w, S) \in Nat
  BY <1>1, CountType
<1> QED
  BY <1>0, <1>3, <1>4

LEMMA PickupTypes ==
  ASSUME TypesOK, NEW p \in Tracks
  PROVE  /\ CountIn(assocBuffer, IsPickup(p)) \in Nat /\ CountIn(associations, IsPickup(p)) \in Nat
         /\ PickupsUsed(p) \in Nat /\ pickups[p] \in Nat /\ heard[p]["ITEM_PICKUP"] \in Seq(Nat)
<1>1. assocBuffer \in Seq(AssocEvent) /\ associations \in Seq(AssocEvent) /\ pickups[p] \in Nat
  BY DEF TypesOK, ShareOK, AssocOK, BehaviorOK
<1>2. heard[p]["ITEM_PICKUP"] \in Seq(Nat)
  BY DEF TypesOK, BehaviorOK, AssocKinds
<1>3. PickupsUsed(p) \in Nat
  BY <1>2 DEF PickupsUsed
<1> QED
  BY <1>1, <1>2, <1>3, CountType

LEMMA PickupsPublish ==
  ASSUME TypesOK, PickupsInv, PublishAssociation, UNCHANGED behaviorVars
  PROVE  PickupsInv'
<1>1. PICK e \in AssocEvent : e = Head(outbox)
  <2>1. Head(outbox) \in OutEvent
    BY DEF PublishAssociation, TypesOK, AssocOK
  <2> QED
    BY <2>1 DEF OutEvent
<1>2. /\ associations' = Newest(AssociationMax, Append(associations, e))
      /\ pickups' = IF e.kind = "ITEM_PICKUP" THEN [pickups EXCEPT ![e.track] = @ + 1] ELSE pickups
  BY <1>1 DEF PublishAssociation
<1>3. associations \in Seq(AssocEvent) /\ AssociationMax \in Nat /\ pickups \in [Tracks -> Nat]
  BY AssociationAssumption DEF TypesOK, ShareOK, AssocOK
<1> SUFFICES ASSUME NEW p \in Tracks
             PROVE  PickupsUsed(p) + CountIn(assocBuffer, IsPickup(p)) + CountIn(associations', IsPickup(p)) <= pickups'[p]
  BY DEF PickupsInv, behaviorVars, PickupsUsed
<1>4. PICK q \in Seq(AssocEvent) : q = Append(associations, e)
  BY <1>3, AppendProperties
<1>5. CountIn(associations', IsPickup(p)) \in Nat /\ CountIn(associations', IsPickup(p)) <= CountIn(q, IsPickup(p))
  BY <1>2, <1>3, <1>4, CountNewest
<1>6. CountIn(q, IsPickup(p)) = CountIn(associations, IsPickup(p)) + (IF e \in IsPickup(p) THEN 1 ELSE 0)
  BY <1>3, <1>4, CountAppend
<1>7. pickups'[p] = pickups[p] + (IF e \in IsPickup(p) THEN 1 ELSE 0)
  BY <1>2, <1>3 DEF IsPickup
<1>8. PickupsUsed(p) + CountIn(assocBuffer, IsPickup(p)) + CountIn(associations, IsPickup(p)) <= pickups[p]
  BY DEF PickupsInv
<1> QED
  BY <1>5, <1>6, <1>7, <1>8, PickupTypes

LEMMA PickupsRead ==
  ASSUME TypesOK, PickupsInv, ReadEvents \/ NoFrames, Quiet
  PROVE  PickupsInv'
<1>1. pickups' = pickups /\ heard' = heard
  BY DEF ReadEvents, NoFrames, Quiet, assocOwn
<1>2. assocBuffer \in Seq(AssocEvent) /\ associations \in Seq(AssocEvent) /\ EventBatch \in Nat
  BY BehaviorAssumption DEF TypesOK, ShareOK, BehaviorOK
<1> SUFFICES ASSUME NEW p \in Tracks
             PROVE  PickupsUsed(p) + CountIn(assocBuffer', IsPickup(p)) + CountIn(associations', IsPickup(p)) <= pickups[p]
  BY <1>1 DEF PickupsInv, PickupsUsed
<1>3. PickupsUsed(p) + CountIn(assocBuffer, IsPickup(p)) + CountIn(associations, IsPickup(p)) <= pickups[p]
  BY DEF PickupsInv
<1>4. CASE ReadEvents
  <2>1. PICK u \in Seq(AssocEvent), v \in Seq(AssocEvent) :
              /\ u = FirstOf(EventBatch, associations) /\ v = After(EventBatch, associations) /\ associations = u \o v
    <3>1. FirstOf(EventBatch, associations) \in Seq(AssocEvent) /\ After(EventBatch, associations) \in Seq(AssocEvent)
          /\ associations = FirstOf(EventBatch, associations) \o After(EventBatch, associations)
      BY <1>2, SplitIs
    <3> QED
      BY <3>1
  <2>2. assocBuffer' = assocBuffer \o u /\ associations' = v
    BY <1>4, <2>1 DEF ReadEvents
  <2>3. CountIn(assocBuffer', IsPickup(p)) = CountIn(assocBuffer, IsPickup(p)) + CountIn(u, IsPickup(p))
    BY <1>2, <2>2, CountConcat
  <2>4. CountIn(associations, IsPickup(p)) = CountIn(u, IsPickup(p)) + CountIn(v, IsPickup(p))
    <3>1. CountIn(u \o v, IsPickup(p)) = CountIn(u, IsPickup(p)) + CountIn(v, IsPickup(p))
      BY CountConcat
    <3> QED
      BY <2>1, <3>1
  <2>5. CountIn(u, IsPickup(p)) \in Nat /\ CountIn(v, IsPickup(p)) \in Nat
    BY CountType
  <2> QED
    BY <1>3, <2>2, <2>3, <2>4, <2>5, PickupTypes
<1>5. CASE NoFrames
  <2> DEFINE S == {e \in AssocEvent : latest - e.t < BufferAge}
  <2>1. associations' = associations /\ assocBuffer' = IF latest = 0 THEN assocBuffer ELSE Selected(assocBuffer, S)
    BY <1>5 DEF NoFrames
  <2> HIDE DEF S
  <2>2. CountIn(Selected(assocBuffer, S), IsPickup(p)) \in Nat
        /\ CountIn(Selected(assocBuffer, S), IsPickup(p)) <= CountIn(assocBuffer, IsPickup(p))
    BY <1>2, SelectedWithin
  <2>3. CountIn(assocBuffer', IsPickup(p)) \in Nat /\ CountIn(assocBuffer', IsPickup(p)) <= CountIn(assocBuffer, IsPickup(p))
    BY <2>1, <2>2, PickupTypes
  <2> QED
    BY <1>3, <2>1, <2>3, PickupTypes
<1> QED
  BY <1>4, <1>5

LEMMA PickupsHandle ==
  ASSUME TypesOK, OrderInv, PickupsInv, HandleFrame, Quiet
  PROVE  /\ PickupsInv' /\ pickups' = pickups
         /\ \A p \in Tracks : PickupsUsed(p)' \in Nat /\ PickupsUsed(p)' >= PickupsUsed(p) /\ PickupsUsed(p)' <= pickups[p]
<1>1. PICK f \in TrueFrame :
           /\ f.t \in Nat
           /\ heard' = [p \in Tracks |-> [k \in AssocKinds |-> heard[p][k] \o Used(p, k, f.t)]]
  BY HeadTime
<1>2. associations' = associations /\ assocBuffer' = <<>> /\ pickups' = pickups
  BY DEF HandleFrame, Quiet, assocOwn
<1>3. ASSUME NEW p \in Tracks
      PROVE  /\ PickupsUsed(p)' = PickupsUsed(p) + CountIn(assocBuffer, IsPickup(p))
             /\ CountIn(assocBuffer', IsPickup(p)) = 0
  <2>1. PICK h \in Seq(Nat), w \in Seq(Nat) : h = heard[p]["ITEM_PICKUP"] /\ w = Used(p, "ITEM_PICKUP", f.t)
    <3>1. heard[p]["ITEM_PICKUP"] \in Seq(Nat)
      BY PickupTypes
    <3>2. Used(p, "ITEM_PICKUP", f.t) \in Seq(Nat)
      BY <1>1, UsedIs DEF TypesOK
    <3> QED
      BY <3>1, <3>2
  <2>2. heard'[p]["ITEM_PICKUP"] = h \o w
    BY <1>1, <2>1 DEF AssocKinds
  <2>3. Len(w) = CountIn(assocBuffer, IsPickup(p))
    <3>1. Len(w) = Len(OfKind(p, "ITEM_PICKUP"))
      BY <1>1, <2>1, UsedIs DEF TypesOK
    <3>2. Len(OfKind(p, "ITEM_PICKUP")) = CountIn(assocBuffer, {e \in AssocEvent : e.track = p /\ e.kind = "ITEM_PICKUP"})
      BY OfKindIs DEF TypesOK
    <3> QED
      BY <3>1, <3>2 DEF IsPickup
  <2>4. Len(h \o w) = Len(h) + Len(w)
    BY ConcatProperties
  <2>5. PickupsUsed(p)' = Len(h \o w) /\ PickupsUsed(p) = Len(h)
    BY <2>1, <2>2 DEF PickupsUsed
  <2>6. CountIn(assocBuffer', IsPickup(p)) = 0
    <3>1. <<>> \in Seq(AssocEvent) /\ DOMAIN <<>> = {}
      BY EmptySeq
    <3>2. CountIn(<<>>, IsPickup(p)) = 0
      BY <3>1, CountType
    <3> QED
      BY <1>2, <3>2
  <2> QED
    BY <2>3, <2>4, <2>5, <2>6
<1>4. ASSUME NEW p \in Tracks
      PROVE  /\ PickupsUsed(p)' \in Nat /\ PickupsUsed(p)' >= PickupsUsed(p) /\ PickupsUsed(p)' <= pickups[p]
             /\ PickupsUsed(p)' + CountIn(assocBuffer', IsPickup(p)) + CountIn(associations', IsPickup(p)) <= pickups'[p]
  <2>1. PickupsUsed(p) + CountIn(assocBuffer, IsPickup(p)) + CountIn(associations, IsPickup(p)) <= pickups[p]
    BY DEF PickupsInv
  <2> QED
    BY <1>2, <1>3, <2>1, PickupTypes
<1>5. PickupsInv'
  BY <1>4 DEF PickupsInv, IsPickup
<1> QED
  BY <1>2, <1>4, <1>5

(* What a step can do to the pickups. *)
LEMMA PickupsSteps ==
  ASSUME [TrackingNext]_trackingVars
  PROVE  \/ PublishAssociation /\ UNCHANGED behaviorVars
         \/ (ReadEvents \/ NoFrames) /\ Quiet
         \/ HandleFrame /\ Quiet
         \/ StopBehavior /\ Quiet
         \/ UNCHANGED <<heard, assocBuffer, associations, pickups>>
<1>1. CASE PublishDetection /\ UNCHANGED behaviorVars
  <2>1. UNCHANGED <<heard, assocBuffer>>
    BY <1>1 DEF behaviorVars
  <2>2. UNCHANGED <<associations, pickups>>
    BY <1>1 DEF PublishDetection
  <2> QED
    BY <2>1, <2>2
<1>2. CASE AssociationStep /\ UNCHANGED behaviorVars
  <2>1. UNCHANGED <<heard, assocBuffer>>
    BY <1>2 DEF behaviorVars
  <2>2. PublishAssociation \/ UNCHANGED <<associations, pickups>>
    BY <1>2 DEF AssociationStep, ReadDetections, ProcessFrame, PublishAssociationFails, RestartAssociation
  <2> QED
    BY <1>2, <2>1, <2>2
<1>3. CASE BehaviorStep /\ Quiet
  <2>1. pickups' = pickups
    BY <1>3 DEF Quiet, assocOwn
  <2>2. CASE ReadFrames \/ PublishBehavior \/ PublishBehaviorFails
    <3>1. UNCHANGED <<heard, assocBuffer, associations>>
      BY <2>2 DEF ReadFrames, PublishBehavior, PublishBehaviorFails
    <3> QED
      BY <2>1, <3>1
  <2> QED
    BY <1>3, <2>2 DEF BehaviorStep, BehaviorLoop
<1>4. CASE UNCHANGED trackingVars
  BY <1>4 DEF trackingVars, assocVars, behaviorVars
<1> QED
  BY <1>1, <1>2, <1>3, <1>4 DEF TrackingNext, Quiet

LEMMA PickupsStep ==
  ASSUME TypesOK, OrderInv, PickupsInv, [TrackingNext]_trackingVars
  PROVE  PickupsInv' /\ \A p \in Tracks : pickups'[p] >= pickups[p]
<1>0. \A p \in Tracks : pickups[p] \in Nat
  BY PickupTypes
<1>1. CASE PublishAssociation /\ UNCHANGED behaviorVars
  <2>1. \A p \in Tracks : pickups'[p] >= pickups[p]
    <3>1. pickups \in [Tracks -> Nat] /\ (pickups' = pickups \/ pickups' = [pickups EXCEPT ![Head(outbox).track] = @ + 1])
      BY <1>1 DEF PublishAssociation, TypesOK, AssocOK
    <3> QED
      BY <3>1
  <2> QED
    BY <1>1, <2>1, PickupsPublish
<1>2. CASE (ReadEvents \/ NoFrames) /\ Quiet
  <2>1. pickups' = pickups
    BY <1>2 DEF Quiet, assocOwn
  <2> QED
    BY <1>0, <1>2, <2>1, PickupsRead
<1>3. CASE HandleFrame /\ Quiet
  BY <1>0, <1>3, PickupsHandle
<1>4. CASE UNCHANGED <<heard, assocBuffer, associations, pickups>>
  BY <1>0, <1>4 DEF PickupsInv, PickupsUsed
<1>5. CASE StopBehavior /\ Quiet
  <2>1. UNCHANGED <<heard, associations, pickups>> /\ assocBuffer' = <<>>
    BY <1>5 DEF StopBehavior, Quiet, assocOwn
  <2>2. \A p \in Tracks : CountIn(assocBuffer', IsPickup(p)) = 0
    <3>1. <<>> \in Seq(AssocEvent) /\ DOMAIN <<>> = {}
      BY EmptySeq
    <3>2. \A p \in Tracks : CountIn(<<>>, IsPickup(p)) = 0
      BY <3>1, CountType
    <3> QED
      BY <2>1, <3>2
  <2>3. ASSUME NEW p \in Tracks
        PROVE  PickupsUsed(p) + CountIn(assocBuffer', IsPickup(p)) + CountIn(associations, IsPickup(p)) <= pickups[p]
    <3>1. PickupsUsed(p) + CountIn(assocBuffer, IsPickup(p)) + CountIn(associations, IsPickup(p)) <= pickups[p]
      BY DEF PickupsInv
    <3> QED
      BY <2>2, <3>1, PickupTypes
  <2>4. PickupsInv'
    BY <2>1, <2>3 DEF PickupsInv, PickupsUsed, IsPickup
  <2> QED
    BY <1>0, <2>1, <2>4
<1> QED
  BY <1>1, <1>2, <1>3, <1>4, <1>5, PickupsSteps

LEMMA PickupsStart == ASSUME TrackingInit PROVE PickupsInv
<1>1. /\ assocBuffer = <<>> /\ associations = <<>> /\ pickups = [p \in Tracks |-> 0]
      /\ heard = [p \in Tracks |-> [k \in AssocKinds |-> <<>>]]
  BY DEF TrackingInit, AssocInit, BehaviorInit
<1>2. \A p \in Tracks : CountIn(<<>>, IsPickup(p)) = 0
  <2>1. <<>> \in Seq(AssocEvent) /\ DOMAIN <<>> = {}
    BY EmptySeq
  <2> QED
    BY <2>1, CountType
<1>3. \A p \in Tracks : PickupsUsed(p) = 0
  BY <1>1 DEF PickupsUsed, AssocKinds
<1> QED
  BY <1>1, <1>2, <1>3 DEF PickupsInv

(* Who counts as having picked up or hidden something. *)
IsAccused(c) == c.pick > 0 \/ c.conceal > 0 \/ c.stage \in Accused

LEMMA UpdateAccuses ==
  ASSUME NEW c, NEW p, NEW look, NEW t, IsAccused(Update(c, p, look, t))
  PROVE  Has(p, "ITEM_PICKUP", t) \/ IsAccused(c)
<1> SUFFICES ASSUME ~Has(p, "ITEM_PICKUP", t), ~IsAccused(c) PROVE FALSE
  OBVIOUS
<1>1. PickTime(c, p, t) = c.pick /\ ~(c.pick > 0)
  BY DEF PickTime, IsAccused
<1>2. ~Hides(c, p, look, t)
  BY <1>1 DEF Hides
<1>3. ConcealTime(c, p, look, t) = c.conceal /\ ~(c.conceal > 0)
  BY <1>2 DEF ConcealTime, IsAccused
<1>4. ~Leaves(c, p, look, t)
  BY <1>3 DEF Leaves
<1>5. Stage(c, p, look, t) \notin Accused
  BY <1>2, <1>4 DEF Stage, IsAccused, Accused
<1>6. ~IsAccused(Update(c, p, look, t))
  BY <1>1, <1>3, <1>5 DEF IsAccused, Update
<1> QED
  BY <1>6

LEMMA PickupBacked ==
  ASSUME TypesOK, OrderInv, VotesInv, HandleFrame, NEW f \in TrueFrame, f = Head(frameBatch), NEW p \in Tracks,
         Has(p, "ITEM_PICKUP", f.t)
  PROVE  PickupsUsed(p)' >= Majority
<1>1. /\ f.t \in Nat /\ f.t > 0
      /\ heard' = [q \in Tracks |-> [k \in AssocKinds |-> heard[q][k] \o Used(q, k, f.t)]]
  BY HeadTime
<1>2. PICK h \in Seq(Nat), w \in Seq(Nat) : h = heard[p]["ITEM_PICKUP"] /\ w = Used(p, "ITEM_PICKUP", f.t)
  <2>1. heard[p]["ITEM_PICKUP"] \in Seq(Nat)
    BY PickupTypes
  <2>2. Used(p, "ITEM_PICKUP", f.t) \in Seq(Nat)
    BY <1>1, UsedIs DEF TypesOK
  <2> QED
    BY <2>1, <2>2
<1>3. PickupsUsed(p)' = Len(h \o w) /\ Len(h \o w) = Len(h) + Len(w) /\ Len(h) \in Nat /\ Len(w) \in Nat
  <2>1. heard'[p]["ITEM_PICKUP"] = h \o w
    BY <1>1, <1>2 DEF AssocKinds
  <2> QED
    BY <2>1, ConcatProperties DEF PickupsUsed
<1>4. Confirmations \in Nat \ {0} /\ Majority \in Nat /\ (Confirmations = 1 => Majority = 1)
  BY BehaviorAssumption, MajorityType
<1>5. CASE Confirmations = 1
  <2>1. PICK i : i \in Confirmed(p, "ITEM_PICKUP", f.t)
    BY DEF Has
  <2>2. i \in 1..Len(OfKind(p, "ITEM_PICKUP")) /\ Len(OfKind(p, "ITEM_PICKUP")) \in Nat
    BY <2>1, OfKindIs DEF Confirmed, TypesOK
  <2>3. Len(w) >= 1
    BY <1>1, <1>2, <2>2, UsedIs DEF TypesOK
  <2> QED
    BY <1>3, <1>4, <1>5, <2>3
<1>6. CASE Confirmations > 1
  <2>1. Chained(Majority, h \o w)
    BY <1>1, <1>2, <1>6, VotesFrame DEF TypesOK, AssocKinds
  <2> QED
    BY <1>3, <2>1 DEF Chained
<1> QED
  BY <1>4, <1>5, <1>6

LEMMA AccusedHandle ==
  ASSUME TypesOK, OrderInv, VotesInv, PickupsInv, TracksInv, HandleFrame, Quiet
  PROVE  TracksInv' /\ AccusedOfPickups'
<1>1. PICK f \in TrueFrame :
           /\ f = Head(frameBatch) /\ f.t \in Nat
           /\ tracks' = [p \in (DOMAIN tracks \ Lost(f)) \cup Seen(f) |-> IF p \in Seen(f) THEN Now(p, f) ELSE tracks[p]]
           /\ reports' = Reports(f)
  BY HandleFrameIs, SeenIs DEF TypesOK
<1>2. Seen(f) \subseteq Tracks /\ DOMAIN tracks \subseteq Tracks /\ Majority \in Nat
  BY SeenIs, MajorityType DEF TypesOK, BehaviorOK
<1>3. pickups' = pickups
      /\ \A p \in Tracks : /\ PickupsUsed(p)' \in Nat /\ PickupsUsed(p)' >= PickupsUsed(p) /\ PickupsUsed(p)' <= pickups[p]
                           /\ PickupsUsed(p) \in Nat /\ pickups[p] \in Nat
  BY PickupsHandle, PickupTypes
<1>4. ASSUME NEW p \in DOMAIN tracks, IsAccused(tracks[p]) PROVE PickupsUsed(p)' >= Majority
  <2>1. PickupsUsed(p) >= Majority /\ p \in Tracks
    BY <1>2, <1>4 DEF TracksInv, IsAccused
  <2> QED
    BY <1>2, <1>3, <2>1
<1>5. ASSUME NEW p \in Seen(f), IsAccused(Now(p, f)) PROVE PickupsUsed(p)' >= Majority
  <2>1. Has(p, "ITEM_PICKUP", f.t) \/ IsAccused(Context(p, f.t))
    BY <1>5, UpdateAccuses DEF Now
  <2>2. CASE Has(p, "ITEM_PICKUP", f.t)
    BY <1>1, <1>2, <2>2, PickupBacked
  <2>3. CASE IsAccused(Context(p, f.t))
    <3>1. p \in DOMAIN tracks /\ IsAccused(tracks[p])
      BY <2>3 DEF Context, IsAccused, Accused
    <3> QED
      BY <1>4, <3>1
  <2> QED
    BY <2>1, <2>2, <2>3
<1>6. TracksInv'
  <2> SUFFICES ASSUME NEW p \in DOMAIN tracks', IsAccused(tracks'[p]) PROVE PickupsUsed(p)' >= Majority
    BY DEF TracksInv, IsAccused
  <2>1. CASE p \in Seen(f)
    BY <1>1, <1>5, <2>1
  <2>2. CASE p \notin Seen(f)
    BY <1>1, <1>4, <2>2
  <2> QED
    BY <2>1, <2>2
<1>7. AccusedOfPickups'
  <2> SUFFICES ASSUME NEW i \in DOMAIN Reports(f), Reports(f)[i].stage \in {"CONCEALMENT", "HIGH_RISK_EXIT"}
               PROVE  pickups[Reports(f)[i].track] >= Majority
    BY <1>1, <1>3 DEF AccusedOfPickups
  <2>1. i \in DOMAIN f.people /\ Reports(f)[i].track = f.people[i].track /\ Reports(f)[i].stage = Now(f.people[i].track, f).stage
    BY ReportsIs DEF TypesOK
  <2>2. PICK p \in Seen(f) : p = Reports(f)[i].track /\ Now(p, f).stage \in Accused
    BY <2>1, SeenIs DEF Accused
  <2>3. PickupsUsed(p)' >= Majority
    BY <1>5, <2>2 DEF IsAccused
  <2> QED
    BY <1>2, <1>3, <2>2, <2>3
<1> QED
  BY <1>6, <1>7

LEMMA AccusedStep ==
  ASSUME TypesOK, TypesOK', OrderInv, VotesInv, PickupsInv, TracksInv, AccusedOfPickups, [TrackingNext]_trackingVars
  PROVE  TracksInv' /\ AccusedOfPickups'
<1>1. CASE HandleFrame /\ Quiet
  BY <1>1, AccusedHandle
<1>2. CASE UNCHANGED <<tracks, heard>> \/ tracks' = <<>>
  <2>1. TracksInv'
    <3>1. CASE UNCHANGED <<tracks, heard>>
      BY <3>1 DEF TracksInv, PickupsUsed
    <3>2. CASE tracks' = <<>>
      BY <3>2 DEF TracksInv
    <3> QED
      BY <1>2, <3>1, <3>2
  <2>2. CASE Part(reports', reports)
    <3> SUFFICES ASSUME NEW i \in DOMAIN reports', reports'[i].stage \in {"CONCEALMENT", "HIGH_RISK_EXIT"}
                 PROVE  pickups'[reports'[i].track] >= Majority
      BY <2>1 DEF AccusedOfPickups
    <3>1. PICK k \in DOMAIN reports : reports'[i] = reports[k]
      BY <2>2 DEF Part
    <3>2. pickups[reports[k].track] >= Majority
      BY <3>1 DEF AccusedOfPickups
    <3>3. PICK p \in Tracks : p = reports[k].track
      BY OrderTypes
    <3>4. pickups'[p] >= pickups[p] /\ pickups[p] \in Nat /\ pickups'[p] \in Nat /\ Majority \in Nat
      <4>1. pickups' \in [Tracks -> Nat]
        BY DEF TypesOK, AssocOK
      <4> QED
        BY <4>1, PickupsStep, PickupTypes, MajorityType
    <3> QED
      BY <2>1, <3>1, <3>2, <3>3, <3>4
  <2>3. CASE ~Part(reports', reports)
    <3>1. ~(reports' = reports) /\ ~(reports' = <<>>)
      BY <2>3 DEF Part
    <3>2. (reports # <<>> /\ reports' = Tail(reports)) \/ HandleFrame
      BY <3>1 DEF TrackingNext, AssociationStep, BehaviorStep, BehaviorLoop, PublishDetection, behaviorVars, ReadEvents, ReadFrames,
         NoFrames, PublishBehavior, PublishBehaviorFails, StopBehavior, trackingVars
    <3>3. CASE reports # <<>> /\ reports' = Tail(reports)
      <4>1. Part(reports', reports)
        BY <3>3, TailIs, OrderTypes DEF Part
      <4> QED
        BY <2>3, <4>1
    <3>4. CASE HandleFrame
      <4>1. Quiet
        BY <3>1, <3>4 DEF TrackingNext, behaviorVars, trackingVars, Quiet
      <4> QED
        BY <3>4, <4>1, AccusedHandle
    <3> QED
      BY <3>2, <3>3, <3>4
  <2> QED
    BY <2>1, <2>2, <2>3
<1>3. (HandleFrame /\ Quiet) \/ UNCHANGED <<tracks, heard>> \/ tracks' = <<>>
  <2>1. CASE UNCHANGED behaviorVars
    BY <2>1 DEF behaviorVars
  <2>2. CASE BehaviorStep /\ Quiet
    BY <2>2 DEF BehaviorStep, BehaviorLoop, ReadEvents, ReadFrames, NoFrames, PublishBehavior, PublishBehaviorFails, StopBehavior
  <2>3. CASE UNCHANGED trackingVars
    BY <2>3 DEF trackingVars, behaviorVars
  <2> QED
    BY <2>1, <2>2, <2>3 DEF TrackingNext, Quiet
<1> QED
  BY <1>1, <1>2, <1>3

(* Pickups used or waiting were published; contexts and reports that accuse rest *)
(* on a majority of them.                                                        *)
THEOREM PickupsHold == TrackingSpec => [](PickupsInv /\ TracksInv /\ AccusedOfPickups)
<1>1. /\ TypesOK /\ TypesOK' /\ OrderInv /\ (VotesInv /\ ChainInv) /\ (PickupsInv /\ TracksInv /\ AccusedOfPickups)
      /\ [TrackingNext]_trackingVars
      => (PickupsInv /\ TracksInv /\ AccusedOfPickups)'
  BY PickupsStep, AccusedStep
<1>2. TrackingInit => PickupsInv /\ TracksInv /\ AccusedOfPickups
  <2>1. TrackingInit => TracksInv /\ AccusedOfPickups
    BY DEF TrackingInit, BehaviorInit, TracksInv, AccusedOfPickups
  <2> QED
    BY <2>1, PickupsStart
<1> QED
  BY <1>1, <1>2, TypesHold, OrderHolds, VotesHold, PTL DEF TrackingSpec

(* Nobody is reported to hide an item, or to leave with one, with fewer pickups *)
(* of his published than a majority of votes needs.                             *)
THEOREM NobodyAccusedForNothing == TrackingSpec => []AccusedOfPickups
BY PickupsHold, PTL
====
