---- MODULE Alerting_proof ----
(***************************************************************************)
(* Proofs about Alerting, for any number of cameras, any window, limits and *)
(* delay of the script.                                                    *)
(***************************************************************************)
EXTENDS Alerting, Ranking, FiniteSetTheorems, TLAPS

(* What the steps of the service do to the windows. *)
LEMMA StoreStep ==
  ASSUME [AlertingNext]_alertingVars
  PROVE  \/ UNCHANGED store
         \/ /\ pc = "try" /\ UNCHANGED now
            /\ \/ Record(Head(batch).cam)
                  /\ Cardinality(Live(Head(batch).cam)) < LimitOf(Head(batch))
               \/ Clean(Head(batch).cam)
<1>1. CASE Allow \/ Suppress \/ TryRaises
  BY <1>1 DEF Allow, Suppress, TryRaises, Script
<1>2. CASE Tick \/ AddIncident \/ ReadBatch \/ ReadClock \/ AckIncident
  BY <1>2 DEF Tick, AddIncident, ReadBatch, ReadClock, AckIncident
<1>3. CASE ReadRaises \/ AckRaises \/ Restart \/ UNCHANGED alertingVars
  BY <1>3 DEF ReadRaises, AckRaises, Restart, alertingVars
<1> QED
  BY <1>1, <1>2, <1>3 DEF AlertingNext, Consumer

(* Sequences of entries *)
LEMMA Rest ==
  ASSUME NEW S, NEW s \in Seq(S), s # <<>>
  PROVE  Head(s) \in S /\ Tail(s) \in Seq(S)
OBVIOUS

LEMMA Part ==
  ASSUME NEW S, NEW s \in Seq(S), NEW n \in Nat, n <= Len(s)
  PROVE  /\ SubSeq(s, 1, n) \in Seq(S) /\ Len(SubSeq(s, 1, n)) = n
         /\ SubSeq(s, n + 1, Len(s)) \in Seq(S)
OBVIOUS

LEMMA Longer ==
  ASSUME NEW S, NEW s \in Seq(S), NEW e \in S
  PROVE  /\ Append(s, e) \in Seq(S) /\ Len(Append(s, e)) = Len(s) + 1
         /\ Append(s, e)[Len(s) + 1] = e
         /\ \A i \in 1..Len(s) : Append(s, e)[i] = s[i]
OBVIOUS

----
(* Types *)

StoreType ==
  /\ window \in [AlertCameras -> SUBSET Member]
  /\ expire \in [AlertCameras -> Nat]
  /\ alerts \in [AlertCameras -> Seq(Nat)]

LEMMA RecordType ==
  ASSUME StoreType, now \in Nat, clock \in Nat, NEW c \in AlertCameras, Record(c)
  PROVE  StoreType'
<1>1. alerts[c] \in Seq(Nat) /\ window[c] \subseteq Member
  BY DEF StoreType
<1>2. Len(alerts[c]) + 1 \in Nat
  BY <1>1
<1>3. [id |-> Len(alerts[c]) + 1, score |-> clock] \in Member
  BY <1>2 DEF Member
<1>4. Live(c) \subseteq Member
  BY <1>1 DEF Live, WindowKey
<1>5. window' \in [AlertCameras -> SUBSET Member]
  BY <1>3, <1>4 DEF StoreType, Record
<1>6. now + Window \in Nat
  BY AlertingAssumption
<1>7. expire' \in [AlertCameras -> Nat]
  BY <1>6 DEF StoreType, Record
<1>8. Append(alerts[c], now) \in Seq(Nat)
  BY <1>1
<1>9. alerts' \in [AlertCameras -> Seq(Nat)]
  BY <1>8 DEF StoreType, Record
<1> QED
  BY <1>5, <1>7, <1>9 DEF StoreType

LEMMA CleanType ==
  ASSUME StoreType, NEW c \in AlertCameras, Clean(c)
  PROVE  StoreType'
<1>1. Live(c) \subseteq Member
  BY DEF Live, WindowKey, StoreType
<1> QED
  BY <1>1 DEF Clean, StoreType

LEMMA TypeInit == AlertingInit => AlertingTypeOK
BY AlertingAssumption DEF AlertingInit, AlertingTypeOK

LEMMA TypeStep == AlertingTypeOK /\ [AlertingNext]_alertingVars => AlertingTypeOK'
<1> SUFFICES ASSUME AlertingTypeOK, [AlertingNext]_alertingVars PROVE AlertingTypeOK'
  OBVIOUS
<1> DEFINE Pcs == {"read", "entry", "try", "dispatch", "suppressed", "failed", "dead"}
<1>t. /\ now \in Nat /\ clock \in Nat
      /\ toAlert \in Seq(Entry) /\ batch \in Seq(Entry)
      /\ pc \in Pcs /\ (pc \notin {"read", "dead"} => batch # <<>>)
      /\ StoreType
  BY DEF AlertingTypeOK, StoreType
<1>s. StoreType'
  <2>1. CASE UNCHANGED store
    BY <1>t, <2>1 DEF StoreType, store
  <2>2. CASE pc = "try" /\ (Record(Head(batch).cam) \/ Clean(Head(batch).cam))
    <3>1. batch \in Seq(Entry) /\ batch # <<>>
      BY <1>t, <2>2
    <3>2. Head(batch) \in Entry
      BY <3>1, Rest
    <3>3. Head(batch).cam \in AlertCameras
      BY <3>2 DEF Entry
    <3> QED BY <1>t, <2>2, <3>3, RecordType, CleanType
  <2> QED BY <2>1, <2>2, StoreStep
<1> SUFFICES
      /\ now' \in Nat /\ clock' \in Nat
      /\ toAlert' \in Seq(Entry) /\ batch' \in Seq(Entry)
      /\ pc' \in Pcs /\ (pc' \notin {"read", "dead"} => batch' # <<>>)
  BY <1>s DEF AlertingTypeOK, StoreType
<1>1. CASE Tick
  BY <1>t, <1>1 DEF Tick, consumer
<1>2. CASE AddIncident
  <2> PICK e \in Entry :
        toAlert' = IF Len(Append(toAlert, e)) > StreamMax THEN Tail(Append(toAlert, e)) ELSE Append(toAlert, e)
    <3>1. \A c \in AlertCameras, s \in Severities : [cam |-> c, severity |-> s] \in Entry
      BY DEF Entry
    <3> QED BY <1>2, <3>1 DEF AddIncident
  <2>1. Append(toAlert, e) \in Seq(Entry) /\ Append(toAlert, e) # <<>>
    BY <1>t
  <2>2. toAlert' \in Seq(Entry)
    BY <2>1, Rest
  <2> QED BY <1>t, <1>2, <2>2 DEF AddIncident, consumer
<1>3. CASE ReadBatch
  <2>1. Delivered \in Nat /\ Delivered <= Len(toAlert) /\ Delivered # 0
    BY <1>t, <1>3, AlertingAssumption DEF ReadBatch, Delivered
  <2>2. /\ SubSeq(toAlert, 1, Delivered) \in Seq(Entry) /\ SubSeq(toAlert, 1, Delivered) # <<>>
        /\ SubSeq(toAlert, Delivered + 1, Len(toAlert)) \in Seq(Entry)
    BY <1>t, <2>1, Part
  <2> QED BY <1>t, <1>3, <2>2 DEF ReadBatch
<1>4. CASE ReadClock
  BY <1>t, <1>4 DEF ReadClock
<1>5. CASE Allow \/ Suppress \/ TryRaises
  BY <1>t, <1>5 DEF Allow, Suppress, TryRaises
<1>6. CASE AckIncident
  <2>1. Tail(batch) \in Seq(Entry)
    BY <1>t, <1>6, Rest DEF AckIncident
  <2> QED BY <1>t, <1>6, <2>1 DEF AckIncident, AfterEntry
<1>7. CASE ReadRaises \/ AckRaises
  BY <1>t, <1>7 DEF ReadRaises, AckRaises
<1>8. CASE Restart
  BY <1>t, <1>8 DEF Restart
<1>9. CASE UNCHANGED alertingVars
  BY <1>t, <1>9 DEF alertingVars, consumer
<1> QED
  BY <1>1, <1>2, <1>3, <1>4, <1>5, <1>6, <1>7, <1>8, <1>9 DEF AlertingNext, Consumer

(* Every variable keeps its type, and the service has an entry in hand        *)
(* wherever it uses one.                                                      *)
THEOREM TypeCorrect == AlertingSpec => []AlertingTypeOK
BY TypeInit, TypeStep, PTL DEF AlertingSpec

----
(* The rate                                                                *)
(*                                                                         *)
(* Neither limit is inductive: the count of the script is a count of the   *)
(* members of a sorted set, and speaks of alerts only while the set, the   *)
(* expiry of its key and the alerts agree.                                 *)

\* Each member stands for one alert, which was not allowed before its score.
MembersStand(c) ==
  /\ IsFiniteSet(window[c])
  /\ \A e \in window[c] : e.id \in DOMAIN alerts[c] /\ e.score <= alerts[c][e.id]
  /\ \A e, f \in window[c] : e.id = f.id => e = f

\* An alert has its member until the window is over, or MaxDelay less.
Remembered(c, i) ==
  \/ \E e \in window[c] : e.id = i /\ alerts[c][i] <= e.score + MaxDelay
  \/ alerts[c][i] + Window <= now + MaxDelay

AlertsKept(c) ==
  \A i \in DOMAIN alerts[c] :
    alerts[c][i] <= now /\ alerts[c][i] + Window <= expire[c] /\ Remembered(c, i)

AlertsSorted(c) ==
  \A i, j \in DOMAIN alerts[c] : i <= j => alerts[c][i] <= alerts[c][j]

ClockInv == pc = "try" => clock <= now /\ now <= clock + MaxDelay

RateInv ==
  /\ ClockInv
  /\ \A c \in AlertCameras : MembersStand(c) /\ AlertsKept(c) /\ AlertsSorted(c)

LEMMA RateInit == AlertingInit => RateInv
<1> SUFFICES ASSUME AlertingInit, NEW c \in AlertCameras
             PROVE  ClockInv /\ MembersStand(c) /\ AlertsKept(c) /\ AlertsSorted(c)
  BY DEF RateInv, AlertingInit, ClockInv
<1>1. window[c] = {} /\ alerts[c] = <<>> /\ pc = "read"
  BY DEF AlertingInit
<1>2. DOMAIN alerts[c] = {}
  BY <1>1
<1> QED
  BY <1>1, <1>2, FS_EmptySet DEF ClockInv, MembersStand, AlertsKept, AlertsSorted

LEMMA ClockStep == AlertingTypeOK /\ ClockInv /\ [AlertingNext]_alertingVars => ClockInv'
<1> SUFFICES ASSUME AlertingTypeOK, ClockInv, [AlertingNext]_alertingVars PROVE ClockInv'
  OBVIOUS
<1>t. now \in Nat /\ clock \in Nat
  BY DEF AlertingTypeOK
<1>1. CASE Tick
  BY <1>t, <1>1, AlertingAssumption DEF Tick, consumer, ClockInv
<1>2. CASE ReadClock
  BY <1>t, <1>2, AlertingAssumption DEF ReadClock, ClockInv
<1>3. CASE AddIncident \/ UNCHANGED alertingVars
  BY <1>3 DEF AddIncident, alertingVars, consumer, ClockInv
<1>4. CASE Allow \/ Suppress \/ TryRaises
  BY <1>4 DEF Allow, Suppress, TryRaises, ClockInv
<1>5. CASE ReadBatch \/ AckIncident \/ ReadRaises \/ AckRaises \/ Restart
  BY <1>5 DEF ReadBatch, AckIncident, AfterEntry, ReadRaises, AckRaises, Restart, ClockInv
<1> QED
  BY <1>1, <1>2, <1>3, <1>4, <1>5 DEF AlertingNext, Consumer

(* What ZREMRANGEBYSCORE and the expiry of the key remove is old enough.      *)
LEMMA LiveRemembers ==
  ASSUME AlertingTypeOK, RateInv, pc = "try", NEW c \in AlertCameras, NEW i \in DOMAIN alerts[c]
  PROVE  \/ \E e \in Live(c) : e.id = i /\ alerts[c][i] <= e.score + MaxDelay
         \/ alerts[c][i] + Window <= now + MaxDelay
<1>t. /\ now \in Nat /\ clock \in Nat /\ alerts[c] \in Seq(Nat) /\ expire[c] \in Nat
      /\ Window \in Nat /\ MaxDelay \in Nat /\ clock <= now
  BY AlertingAssumption DEF AlertingTypeOK, RateInv, ClockInv
<1>a. alerts[c][i] \in Nat /\ i \in DOMAIN alerts[c]
  BY <1>t
<1>k. alerts[c][i] + Window <= expire[c] /\ Remembered(c, i)
  BY DEF RateInv, AlertsKept
<1>1. CASE now >= expire[c]
  BY <1>t, <1>a, <1>k, <1>1
<1>2. CASE ~(now >= expire[c])
  <2> SUFFICES ASSUME NEW e \in window[c], e.id = i, alerts[c][i] <= e.score + MaxDelay
               PROVE  e \in Live(c) \/ alerts[c][i] + Window <= now + MaxDelay
    BY <1>k DEF Remembered
  <2>1. e \in Member
    BY DEF AlertingTypeOK
  <2>2. e.score \in Nat
    BY <2>1 DEF Member
  <2>3. CASE e.score > clock - Window
    BY <1>2, <2>3 DEF Live, WindowKey
  <2>4. CASE ~(e.score > clock - Window)
    BY <1>t, <1>a, <2>2, <2>4
  <2> QED BY <2>3, <2>4
<1> QED BY <1>1, <1>2

LEMMA LiveStands ==
  ASSUME RateInv, NEW c \in AlertCameras
  PROVE  /\ Live(c) \subseteq window[c] /\ IsFiniteSet(Live(c))
         /\ \A e \in Live(c) : e.score > clock - Window
<1>1. Live(c) \subseteq window[c] /\ \A e \in Live(c) : e.score > clock - Window
  BY DEF Live, WindowKey
<1>2. IsFiniteSet(window[c])
  BY DEF RateInv, MembersStand
<1> QED
  BY <1>1, <1>2, FS_Subset

LEMMA CleanKeeps ==
  ASSUME AlertingTypeOK, RateInv, pc = "try", now' = now, NEW c \in AlertCameras, Clean(c)
  PROVE  (MembersStand(c) /\ AlertsKept(c) /\ AlertsSorted(c))'
<1>1. window'[c] = Live(c) /\ expire' = expire /\ alerts' = alerts
  BY DEF Clean, AlertingTypeOK
<1>2. MembersStand(c)'
  <2>1. MembersStand(c)
    BY DEF RateInv
  <2> QED BY <1>1, <2>1, LiveStands DEF MembersStand
<1>3. AlertsKept(c)'
  <2>1. AlertsKept(c)
    BY DEF RateInv
  <2>2. ASSUME NEW i \in DOMAIN alerts[c] PROVE Remembered(c, i)'
    BY <1>1, LiveRemembers DEF Remembered
  <2> QED BY <1>1, <2>1, <2>2 DEF AlertsKept
<1>4. AlertsSorted(c)'
  BY <1>1 DEF RateInv, AlertsSorted
<1> QED BY <1>2, <1>3, <1>4

LEMMA RecordKeeps ==
  ASSUME AlertingTypeOK, RateInv, pc = "try", now' = now, NEW c \in AlertCameras, Record(c)
  PROVE  (MembersStand(c) /\ AlertsKept(c) /\ AlertsSorted(c))'
<1> PICK n : n = Len(alerts[c]) + 1
  OBVIOUS
<1> PICK new : new = [id |-> n, score |-> clock]
  OBVIOUS
<1>t. /\ now \in Nat /\ clock \in Nat /\ alerts[c] \in Seq(Nat)
      /\ Window \in Nat /\ MaxDelay \in Nat /\ n \in Nat
  BY AlertingAssumption DEF AlertingTypeOK
<1>c. clock <= now /\ now <= clock + MaxDelay
  BY DEF RateInv, ClockInv
<1>1. /\ window'[c] = Live(c) \cup {new}
      /\ expire'[c] = now + Window
      /\ alerts'[c] = Append(alerts[c], now)
  BY DEF Record, AlertingTypeOK
<1>2. /\ DOMAIN alerts'[c] = DOMAIN alerts[c] \cup {n} /\ DOMAIN alerts[c] = 1..(n - 1)
      /\ alerts'[c][n] = now
      /\ \A i \in DOMAIN alerts[c] : alerts'[c][i] = alerts[c][i] /\ i # n
  BY <1>t, <1>1
<1>3. new.id = n /\ new.score = clock
  OBVIOUS
<1>l. /\ Live(c) \subseteq window[c] /\ IsFiniteSet(Live(c))
      /\ MembersStand(c) /\ AlertsKept(c) /\ AlertsSorted(c)
  BY LiveStands DEF RateInv
<1>4. MembersStand(c)'
  <2>1. IsFiniteSet(window'[c])
    <3>1. IsFiniteSet(Live(c) \cup {new})
      BY <1>l, FS_AddElement, Zenon
    <3> QED BY <1>1, <3>1
  <2>2. ASSUME NEW e \in window'[c]
        PROVE  e.id \in DOMAIN alerts'[c] /\ e.score <= alerts'[c][e.id]
    <3>1. CASE e = new
      BY <1>2, <1>3, <1>c, <3>1
    <3>2. CASE e \in Live(c)
      BY <1>2, <1>l, <3>2 DEF MembersStand
    <3> QED BY <1>1, <2>2, <3>1, <3>2
  <2>3. \A e \in Live(c) : e.id # n
    BY <1>2, <1>l DEF MembersStand
  <2>4. ASSUME NEW e \in window'[c], NEW f \in window'[c], e.id = f.id
        PROVE  e = f
    BY <1>1, <1>3, <1>l, <2>3, <2>4 DEF MembersStand
  <2> QED BY <2>1, <2>2, <2>4 DEF MembersStand
<1>5. AlertsKept(c)'
  <2>1. ASSUME NEW i \in DOMAIN alerts[c]
        PROVE  /\ alerts'[c][i] <= now /\ alerts'[c][i] + Window <= expire'[c]
               /\ Remembered(c, i)'
    <3>1. alerts[c][i] \in Nat /\ alerts[c][i] <= now /\ alerts'[c][i] = alerts[c][i]
      BY <1>t, <1>l, <1>2 DEF AlertsKept
    <3>2. alerts'[c][i] <= now /\ alerts'[c][i] + Window <= expire'[c]
      BY <1>t, <1>1, <3>1
    <3>3. Remembered(c, i)'
      BY <1>1, <3>1, LiveRemembers DEF Remembered
    <3> QED BY <3>2, <3>3
  <2>2. /\ alerts'[c][n] <= now /\ alerts'[c][n] + Window <= expire'[c]
        /\ Remembered(c, n)'
    <3>1. new \in window'[c] /\ alerts'[c][n] <= new.score + MaxDelay
      BY <1>1, <1>2, <1>3, <1>c
    <3>2. Remembered(c, n)'
      BY <1>3, <3>1 DEF Remembered
    <3> QED BY <1>t, <1>1, <1>2, <3>2
  <2>3. ASSUME NEW i \in DOMAIN alerts'[c]
        PROVE  alerts'[c][i] <= now /\ alerts'[c][i] + Window <= expire'[c] /\ Remembered(c, i)'
    BY <1>2, <2>1, <2>2, <2>3
  <2> QED BY <2>3 DEF AlertsKept
<1>6. AlertsSorted(c)'
  <2>1. \A i \in DOMAIN alerts[c] : alerts[c][i] <= now /\ i < n
    BY <1>t, <1>2, <1>l DEF AlertsKept
  <2>2. ASSUME NEW i \in DOMAIN alerts'[c], NEW j \in DOMAIN alerts'[c], i <= j
        PROVE  alerts'[c][i] <= alerts'[c][j]
    <3>1. CASE j = n
      BY <1>t, <1>2, <2>1, <3>1
    <3>2. CASE j # n
      <4>1. j \in DOMAIN alerts[c] /\ i \in DOMAIN alerts[c]
        BY <1>t, <1>2, <2>1, <2>2, <3>2
      <4> QED BY <1>2, <1>l, <2>2, <4>1 DEF AlertsSorted
    <3> QED BY <3>1, <3>2
  <2> QED BY <2>2 DEF AlertsSorted
<1> QED BY <1>4, <1>5, <1>6

(* The clock only goes forward, and what it leaves alone stays kept.          *)
LEMMA ClockKeeps ==
  ASSUME AlertingTypeOK, RateInv, now' \in Nat, now <= now', NEW c \in AlertCameras,
         window'[c] = window[c], expire'[c] = expire[c], alerts'[c] = alerts[c]
  PROVE  (MembersStand(c) /\ AlertsKept(c) /\ AlertsSorted(c))'
<1>1. MembersStand(c)' /\ AlertsSorted(c)'
  BY DEF RateInv, MembersStand, AlertsSorted
<1>2. ASSUME NEW i \in DOMAIN alerts[c]
      PROVE  alerts[c][i] <= now' /\ Remembered(c, i)'
  <2>1. alerts[c][i] \in Nat /\ now \in Nat /\ Window \in Nat /\ MaxDelay \in Nat
    BY AlertingAssumption DEF AlertingTypeOK
  <2>2. alerts[c][i] <= now /\ Remembered(c, i)
    BY DEF RateInv, AlertsKept
  <2> QED BY <2>1, <2>2 DEF Remembered
<1>3. AlertsKept(c)'
  BY <1>2 DEF RateInv, AlertsKept
<1> QED BY <1>1, <1>3

LEMMA ClockForward == AlertingTypeOK /\ [AlertingNext]_alertingVars => now' \in Nat /\ now <= now'
<1> SUFFICES ASSUME AlertingTypeOK, [AlertingNext]_alertingVars PROVE now' \in Nat /\ now <= now'
  OBVIOUS
<1>t. now \in Nat
  BY DEF AlertingTypeOK
<1>1. CASE Tick
  BY <1>t, <1>1 DEF Tick
<1>2. now' = now => now' \in Nat /\ now <= now'
  BY <1>t
<1>5. CASE AddIncident \/ ReadBatch \/ ReadClock \/ AckIncident
  BY <1>2, <1>5 DEF AddIncident, ReadBatch, ReadClock, AckIncident
<1>3. CASE Allow \/ Suppress \/ TryRaises
  BY <1>2, <1>3 DEF Allow, Suppress, TryRaises
<1>4. CASE ReadRaises \/ AckRaises \/ Restart \/ UNCHANGED alertingVars
  BY <1>2, <1>4 DEF ReadRaises, AckRaises, Restart, alertingVars
<1> QED BY <1>1, <1>3, <1>4, <1>5 DEF AlertingNext, Consumer

LEMMA RateStep == AlertingTypeOK /\ RateInv /\ [AlertingNext]_alertingVars => RateInv'
<1> SUFFICES ASSUME AlertingTypeOK, RateInv, [AlertingNext]_alertingVars, NEW c \in AlertCameras
             PROVE  (MembersStand(c) /\ AlertsKept(c) /\ AlertsSorted(c))'
  BY ClockStep DEF RateInv
<1>1. CASE UNCHANGED store
  BY <1>1, ClockForward, ClockKeeps DEF store
<1>2. ASSUME pc = "try", UNCHANGED now, Head(batch).cam = c,
             Record(Head(batch).cam) \/ Clean(Head(batch).cam)
      PROVE  (MembersStand(c) /\ AlertsKept(c) /\ AlertsSorted(c))'
  BY <1>2, RecordKeeps, CleanKeeps
<1>3. ASSUME Head(batch).cam # c, Record(Head(batch).cam) \/ Clean(Head(batch).cam)
      PROVE  (MembersStand(c) /\ AlertsKept(c) /\ AlertsSorted(c))'
  <2>1. window'[c] = window[c] /\ expire'[c] = expire[c] /\ alerts'[c] = alerts[c]
    BY <1>3 DEF Record, Clean, AlertingTypeOK
  <2> QED BY <2>1, ClockForward, ClockKeeps
<1> QED BY <1>1, <1>2, <1>3, StoreStep

IInv == AlertingTypeOK /\ RateInv

LEMMA RateCorrect == AlertingSpec => []IInv
<1>1. AlertingInit => IInv
  BY TypeInit, RateInit DEF IInv
<1>2. IInv /\ [AlertingNext]_alertingVars => IInv'
  BY TypeStep, RateStep DEF IInv
<1> QED BY <1>1, <1>2, PTL DEF AlertingSpec

----
(* What the count of the script says of the alerts *)

LEMMA Fewer ==
  ASSUME NEW S, NEW T, IsFiniteSet(T), NEW f \in [S -> T],
         \A x, y \in S : f[x] = f[y] => x = y
  PROVE  Cardinality(S) <= Cardinality(T)
<1>1. f \in Injection(S, T)
  BY Zenon DEF Injection, IsInjective
<1> QED BY <1>1, FS_Injection

LEMMA AlertsFinite ==
  ASSUME AlertingTypeOK, NEW c \in AlertCameras, NEW age
  PROVE  /\ IsFiniteSet(AlertsWithin(c, age)) /\ Cardinality(AlertsWithin(c, age)) \in Nat
         /\ AlertsWithin(c, age) \subseteq DOMAIN alerts[c]
<1>1. DOMAIN alerts[c] = 1..Len(alerts[c]) /\ Len(alerts[c]) \in Nat
  BY DEF AlertingTypeOK
<1>2. IsFiniteSet(1..Len(alerts[c]))
  BY <1>1, FS_Interval
<1>3. AlertsWithin(c, age) \subseteq DOMAIN alerts[c]
  BY DEF AlertsWithin
<1>4. IsFiniteSet(AlertsWithin(c, age))
  BY <1>1, <1>2, <1>3, FS_Subset
<1> QED BY <1>3, <1>4, FS_CardinalityType

(* The script sees every alert of the last window, less MaxDelay.             *)
LEMMA CountsEnough ==
  ASSUME IInv, pc = "try", NEW c \in AlertCameras
  PROVE  Cardinality(AlertsWithin(c, Window - MaxDelay)) <= Cardinality(Live(c))
<1> DEFINE S == AlertsWithin(c, Window - MaxDelay)
           f == [i \in S |-> CHOOSE e \in Live(c) : e.id = i]
<1>1. ASSUME NEW i \in S PROVE \E e \in Live(c) : e.id = i
  <2>1. /\ now \in Nat /\ Window \in Nat /\ MaxDelay \in Nat /\ alerts[c] \in Seq(Nat)
        /\ i \in DOMAIN alerts[c] /\ alerts[c][i] > now - (Window - MaxDelay)
    BY AlertingAssumption DEF IInv, AlertingTypeOK, AlertsWithin
  <2>2. alerts[c][i] \in Nat
    BY <2>1
  <2>3. ~(alerts[c][i] + Window <= now + MaxDelay)
    BY <2>1, <2>2
  <2> QED BY <2>1, <2>3, LiveRemembers DEF IInv
<1>2. \A i \in S : f[i] \in Live(c) /\ f[i].id = i
  BY <1>1
<1>3. f \in [S -> Live(c)] /\ \A i, j \in S : f[i] = f[j] => i = j
  BY <1>2
<1>4. IsFiniteSet(Live(c))
  BY LiveStands DEF IInv
<1> HIDE DEF S, f
<1>5. Cardinality(S) <= Cardinality(Live(c))
  BY <1>3, <1>4, Fewer
<1> QED BY <1>5 DEF S

(* And it sees no alert older than a window and MaxDelay.                     *)
LEMMA CountsNoMore ==
  ASSUME IInv, pc = "try", NEW c \in AlertCameras
  PROVE  Cardinality(Live(c)) <= Cardinality(AlertsWithin(c, Window + MaxDelay))
<1> DEFINE T == AlertsWithin(c, Window + MaxDelay)
           f == [e \in Live(c) |-> e.id]
<1>l. /\ Live(c) \subseteq window[c] /\ MembersStand(c)
      /\ \A e \in Live(c) : e.score > clock - Window
  BY LiveStands DEF IInv, RateInv
<1>1. ASSUME NEW e \in Live(c) PROVE e.id \in T
  <2>1. e.id \in DOMAIN alerts[c] /\ e.score <= alerts[c][e.id] /\ e.score > clock - Window
    BY <1>l DEF MembersStand
  <2>2. e \in Member
    BY <1>l DEF IInv, AlertingTypeOK
  <2>3. /\ e.score \in Nat /\ now \in Nat /\ clock \in Nat /\ Window \in Nat /\ MaxDelay \in Nat
        /\ alerts[c] \in Seq(Nat) /\ now <= clock + MaxDelay
    BY <2>2, AlertingAssumption DEF Member, IInv, AlertingTypeOK, RateInv, ClockInv
  <2>4. alerts[c][e.id] \in Nat
    BY <2>1, <2>3
  <2>5. alerts[c][e.id] > now - (Window + MaxDelay)
    BY <2>1, <2>3, <2>4
  <2> QED BY <2>1, <2>5 DEF AlertsWithin
<1>2. f \in [Live(c) -> T] /\ \A d, e \in Live(c) : f[d] = f[e] => d = e
  BY <1>1, <1>l DEF MembersStand
<1>3. IsFiniteSet(T)
  BY AlertsFinite DEF IInv
<1> HIDE DEF T, f
<1>4. Cardinality(Live(c)) <= Cardinality(T)
  BY <1>2, <1>3, Fewer
<1> QED BY <1>4 DEF T

LEMMA LiveCount ==
  ASSUME IInv, NEW c \in AlertCameras
  PROVE  Cardinality(Live(c)) \in Nat
BY LiveStands, FS_CardinalityType DEF IInv

LEMMA HeadEntry ==
  ASSUME IInv, pc = "try"
  PROVE  Head(batch).cam \in AlertCameras
<1>1. batch \in Seq(Entry) /\ batch # <<>>
  BY DEF IInv, AlertingTypeOK
<1>2. Head(batch) \in Entry
  BY <1>1, Rest
<1> QED BY <1>2 DEF Entry

(* From the b-th last entry of a log in order, none is older than it.         *)
LEMMA LastEntries ==
  ASSUME NEW log \in Seq(Nat), NEW b \in Nat, b > 0, Len(log) >= b,
         NEW k, k = Len(log) - b + 1,
         \A i, j \in DOMAIN log : i <= j => log[i] <= log[j]
  PROVE  /\ k \in DOMAIN log /\ log[k] \in Nat
         /\ \A i \in k..Len(log) : i \in DOMAIN log /\ log[i] \in Nat /\ log[k] <= log[i]
         /\ IsFiniteSet(k..Len(log)) /\ Cardinality(k..Len(log)) = b
<1>1. Len(log) \in Nat /\ DOMAIN log = 1..Len(log)
  OBVIOUS
<1>2. k \in Int /\ k >= 1 /\ k <= Len(log) /\ Len(log) - k + 1 = b
  BY <1>1
<1>3. k \in DOMAIN log /\ \A i \in k..Len(log) : i \in DOMAIN log /\ k <= i
  BY <1>1, <1>2
<1>4. IsFiniteSet(k..Len(log)) /\ Cardinality(k..Len(log)) = b
  BY <1>1, <1>2, FS_Interval
<1>5. \A i \in DOMAIN log : log[i] \in Nat
  OBVIOUS
<1> QED BY <1>3, <1>4, <1>5

(* Where a log is in order, a count below the limit means room for another.   *)
LEMMA CountIsRoom ==
  ASSUME IInv, NEW c \in AlertCameras,
         Cardinality(AlertsWithin(c, Window - MaxDelay)) < Burst
  PROVE  Limiter!Room(alerts[c])
<1> DEFINE S == AlertsWithin(c, Window - MaxDelay)
           log == alerts[c]
           k == Len(log) - Burst + 1
<1>t. /\ log \in Seq(Nat) /\ now \in Nat /\ Window \in Nat /\ MaxDelay \in Nat
      /\ Burst \in Nat /\ Burst > 0
  BY AlertingAssumption DEF IInv, AlertingTypeOK
<1>s. \A i, j \in DOMAIN log : i <= j => log[i] <= log[j]
  BY DEF IInv, RateInv, AlertsSorted
<1>a. S = {i \in DOMAIN log : log[i] > now - (Window - MaxDelay)}
  BY DEF AlertsWithin
<1>f. IsFiniteSet(S) /\ Cardinality(S) \in Nat /\ Cardinality(S) < Burst
  BY AlertsFinite DEF IInv
<1> HIDE DEF S, log, k
<1>1. ASSUME Len(log) >= Burst, ~(now >= log[k] + (Window - MaxDelay))
      PROVE  FALSE
  <2>1. /\ log[k] \in Nat
        /\ \A i \in k..Len(log) : i \in DOMAIN log /\ log[i] \in Nat /\ log[k] <= log[i]
        /\ Cardinality(k..Len(log)) = Burst
    BY <1>t, <1>s, <1>1, LastEntries DEF k
  <2>2. ASSUME NEW i \in k..Len(log) PROVE log[i] > now - (Window - MaxDelay)
    BY <1>t, <1>1, <2>1
  <2>3. k..Len(log) \subseteq S
    BY <1>a, <2>1, <2>2
  <2>4. Cardinality(k..Len(log)) <= Cardinality(S)
    BY <1>f, <2>3, FS_Subset
  <2> QED BY <1>t, <1>f, <2>1, <2>4
<1> QED BY <1>1 DEF Limiter!Room, log, k

----
(* The promises *)

(* An alert is allowed in a Record of a script that counted less than the     *)
(* limit of the entry in hand.                                                *)
LEMMA AlertsChange ==
  ASSUME IInv, [AlertingNext]_alertingVars, NEW c \in AlertCameras, alerts'[c] # alerts[c]
  PROVE  /\ pc = "try" /\ Head(batch).cam = c /\ Record(c) /\ UNCHANGED now
         /\ Cardinality(Live(c)) < LimitOf(Head(batch))
<1>1. pc = "try" /\ UNCHANGED now /\ Record(Head(batch).cam)
      /\ Cardinality(Live(Head(batch).cam)) < LimitOf(Head(batch))
  BY StoreStep DEF store, Clean
<1>2. Head(batch).cam = c
  BY <1>1 DEF Record, IInv, AlertingTypeOK
<1> QED BY <1>1, <1>2

(* An incident that is not CRITICAL alerts only when fewer than MaxAlerts     *)
(* alerts of its camera went before it in the window: the burst of CRITICAL   *)
(* ones leaves no extra room for it.                                          *)
THEOREM RoutineLimited == AlertingSpec => RoutineAlertsApart
<1>1. ASSUME IInv, [AlertingNext]_alertingVars, NEW c \in AlertCameras,
             alerts'[c] # alerts[c], Head(batch).severity # "CRITICAL"
      PROVE  Cardinality(AlertsWithin(c, Window - MaxDelay)) < MaxAlerts
  <2>1. pc = "try" /\ Cardinality(Live(c)) < MaxAlerts
    BY <1>1, AlertsChange DEF LimitOf
  <2>2. Cardinality(AlertsWithin(c, Window - MaxDelay)) <= Cardinality(Live(c))
    BY <1>1, <2>1, CountsEnough
  <2>3. /\ Cardinality(AlertsWithin(c, Window - MaxDelay)) \in Nat
        /\ Cardinality(Live(c)) \in Nat /\ MaxAlerts \in Nat
    BY <1>1, AlertsFinite, LiveCount, AlertingAssumption DEF IInv
  <2> QED BY <2>1, <2>2, <2>3
<1>2. IInv /\ [AlertingNext]_alertingVars
        => [\A c \in AlertCameras :
              alerts'[c] # alerts[c] /\ Head(batch).severity # "CRITICAL"
                => Cardinality(AlertsWithin(c, Window - MaxDelay)) < MaxAlerts]_alertingVars
  BY <1>1
<1> QED BY <1>2, RateCorrect, PTL DEF AlertingSpec, RoutineAlertsApart

(* A suppressed incident had the limit of its severity full with alerts of    *)
(* its own camera, none of them older than the window and the script's delay. *)
THEOREM SuppressedOnlyAtLimit == AlertingSpec => SuppressedAtLimit
<1>1. ASSUME IInv, [AlertingNext]_alertingVars, pc' = "suppressed", pc # "suppressed"
      PROVE  Cardinality(AlertsWithin(Head(batch).cam, Window + MaxDelay)) >= LimitOf(Head(batch))
  <2>1. Suppress
    <3>1. CASE Tick \/ AddIncident \/ UNCHANGED alertingVars
      BY <1>1, <3>1 DEF Tick, AddIncident, consumer, alertingVars
    <3>2. CASE ReadBatch \/ ReadClock \/ AckIncident \/ ReadRaises \/ AckRaises \/ Restart
      BY <1>1, <3>2 DEF ReadBatch, ReadClock, AckIncident, AfterEntry, ReadRaises, AckRaises, Restart
    <3>3. CASE Allow \/ TryRaises
      BY <1>1, <3>3 DEF Allow, TryRaises
    <3> QED BY <1>1, <3>1, <3>2, <3>3 DEF AlertingNext, Consumer
  <2>2. pc = "try" /\ Cardinality(Live(Head(batch).cam)) >= LimitOf(Head(batch))
    BY <2>1 DEF Suppress
  <2> PICK c \in AlertCameras : c = Head(batch).cam
    BY <1>1, <2>2, HeadEntry
  <2>3. Cardinality(Live(c)) <= Cardinality(AlertsWithin(c, Window + MaxDelay))
    BY <1>1, <2>2, CountsNoMore
  <2>4. /\ Cardinality(AlertsWithin(c, Window + MaxDelay)) \in Nat
        /\ Cardinality(Live(c)) \in Nat /\ LimitOf(Head(batch)) \in Nat
    BY <1>1, AlertsFinite, LiveCount, AlertingAssumption DEF IInv, LimitOf
  <2> QED BY <2>2, <2>3, <2>4
<1>2. IInv /\ [AlertingNext]_alertingVars
        => [pc' = "suppressed" /\ pc # "suppressed"
              => Cardinality(AlertsWithin(Head(batch).cam, Window + MaxDelay))
                   >= LimitOf(Head(batch))]_alertingVars
  BY <1>1
<1> QED BY <1>2, RateCorrect, PTL DEF AlertingSpec, SuppressedAtLimit

(* The service implements the rate limiter of RateLimit: of each camera, at   *)
(* most Burst alerts pass in any Window - MaxDelay.                           *)
THEOREM LimiterImplemented == AlertingSpec => RateLimited
<1>1. AlertingInit => Limiter!Init
  BY AlertingAssumption DEF AlertingInit, Limiter!Init
<1>2. ASSUME IInv, [AlertingNext]_alertingVars PROVE [Limiter!Next]_Limiter!vars
  <2>1. CASE Tick
    <3>1. now \in Nat
      BY <1>2 DEF IInv, AlertingTypeOK
    <3> QED BY <2>1, <3>1 DEF Tick, store, Limiter!Next, Limiter!Tick
  <2>2. CASE UNCHANGED alerts /\ ~Tick
    <3>1. UNCHANGED now
      <4>1. CASE AddIncident \/ ReadBatch \/ ReadClock \/ AckIncident
        BY <4>1 DEF AddIncident, ReadBatch, ReadClock, AckIncident
      <4>2. CASE Allow \/ Suppress \/ TryRaises
        BY <4>2 DEF Allow, Suppress, TryRaises
      <4>3. CASE ReadRaises \/ AckRaises \/ Restart \/ UNCHANGED alertingVars
        BY <4>3 DEF ReadRaises, AckRaises, Restart, alertingVars
      <4> QED BY <1>2, <2>2, <4>1, <4>2, <4>3 DEF AlertingNext, Consumer
    <3> QED BY <2>2, <3>1 DEF Limiter!vars
  <2>3. CASE alerts' # alerts
    <3>1. PICK c \in AlertCameras : alerts'[c] # alerts[c]
      <4>1. alerts \in [AlertCameras -> Seq(Nat)] /\ alerts' \in [AlertCameras -> Seq(Nat)]
        BY <1>2, TypeStep DEF IInv, AlertingTypeOK
      <4> QED BY <2>3, <4>1
    <3>2. /\ pc = "try" /\ Record(c) /\ UNCHANGED now
          /\ Cardinality(Live(c)) < LimitOf(Head(batch))
      BY <1>2, <3>1, AlertsChange
    <3>3. Cardinality(AlertsWithin(c, Window - MaxDelay)) <= Cardinality(Live(c))
      BY <1>2, <3>2, CountsEnough
    <3>4. /\ Cardinality(AlertsWithin(c, Window - MaxDelay)) \in Nat
          /\ Cardinality(Live(c)) \in Nat /\ LimitOf(Head(batch)) \in Nat
          /\ Burst \in Nat /\ LimitOf(Head(batch)) <= Burst
      BY <1>2, AlertsFinite, LiveCount, AlertingAssumption DEF IInv, LimitOf
    <3>5. Limiter!Room(alerts[c])
      BY <1>2, <3>2, <3>3, <3>4, CountIsRoom
    <3> QED BY <3>2, <3>5 DEF Record, Limiter!Next, Limiter!Pass
  <2> QED BY <2>1, <2>2, <2>3
<1> QED BY <1>1, <1>2, RateCorrect, PTL DEF AlertingSpec, RateLimited, Limiter!Spec

(***************************************************************************)
(* The priority of an incident.                                            *)
(***************************************************************************)
LEMMA WeightType ==
  \A s \in DOMAIN SeverityWeight : SeverityWeight[s] \in {5, 10, 15, 25} /\ (s # "CRITICAL" => SeverityWeight[s] \in {5, 10, 15})
BY DEF SeverityWeight

LEMMA BonusType == \A g : BonusOf(g) \in 0..300
<1> TAKE g
<1>1. CASE g \in DOMAIN StageBonus
  BY <1>1 DEF BonusOf, StageBonus
<1>2. CASE g \notin DOMAIN StageBonus
  BY <1>2 DEF BonusOf
<1> QED
  BY <1>1, <1>2

LEMMA DecayGrows ==
  \A m, older \in Int : DecayAfter(m) \in 0..300 /\ (m <= older => DecayAfter(m) <= DecayAfter(older))
BY DEF DecayAfter

(* compute_score's last line *)
Clipped(n) == IF n < 0 THEN 0 ELSE IF n > 3000 THEN 3000 ELSE n

LEMMA ScoreIs ==
  \A s, g, r, m : PriorityScore(s, g, r, m) = Clipped(SeverityWeight[s] * r + BonusOf(g) - DecayAfter(m))
BY DEF PriorityScore, Clipped

LEMMA ClippedBelow ==
  \A w \in {5, 10, 15}, r \in 0..100, b \in 0..300, d \in 0..300 : PriorityOf(Clipped(w * r + b - d)) \in 1..3
BY DEF Clipped, PriorityOf

(* An older incident is never more urgent and a riskier one never less, whatever *)
(* its severity and stage; the highest priority is for CRITICAL incidents only,  *)
(* and no stage and no youth makes up for it (priority.py:53).                   *)
THEOREM PriorityIsMonotone ==
  \A g : \A s \in DOMAIN SeverityWeight, q \in 0..100, r \in 0..100, m \in Int, older \in Int :
    /\ q <= r /\ m <= older => PriorityScore(s, g, q, older) <= PriorityScore(s, g, r, m)
    /\ Priorities[PriorityOf(PriorityScore(s, g, r, m))] = "CRITICAL" => s = "CRITICAL"
<1> TAKE g
<1> TAKE s \in DOMAIN SeverityWeight, q \in 0..100, r \in 0..100, m \in Int, older \in Int
<1>1. BonusOf(g) \in 0..300 /\ DecayAfter(m) \in 0..300 /\ DecayAfter(older) \in 0..300
  BY BonusType, DecayGrows, Zenon
<1>2. ASSUME q <= r, m <= older PROVE PriorityScore(s, g, q, older) <= PriorityScore(s, g, r, m)
  <2>1. DecayAfter(m) <= DecayAfter(older)
    BY <1>2, DecayGrows, Zenon
  <2>2. \A w \in {5, 10, 15, 25} :
          Clipped(w * q + BonusOf(g) - DecayAfter(older)) <= Clipped(w * r + BonusOf(g) - DecayAfter(m))
    <3> TAKE w \in {5, 10, 15, 25}
    <3>1. \A b \in 0..300, d \in 0..300, e \in 0..300 : d <= e => Clipped(w * q + b - e) <= Clipped(w * r + b - d)
      BY <1>2 DEF Clipped
    <3> QED
      BY <1>1, <2>1, <3>1, Zenon
  <2>3. Clipped(SeverityWeight[s] * q + BonusOf(g) - DecayAfter(older)) <= Clipped(SeverityWeight[s] * r + BonusOf(g) - DecayAfter(m))
    BY <2>2, WeightType, Zenon
  <2> QED
    BY <2>3, ScoreIs, Zenon
<1>3. ASSUME s # "CRITICAL" PROVE Priorities[PriorityOf(PriorityScore(s, g, r, m))] # "CRITICAL"
  <2>1. PriorityOf(Clipped(SeverityWeight[s] * r + BonusOf(g) - DecayAfter(m))) \in 1..3
    BY <1>1, <1>3, WeightType, ClippedBelow, Zenon
  <2>2. PriorityOf(PriorityScore(s, g, r, m)) \in 1..3
    BY <2>1, ScoreIs, Zenon
  <2>3. \A k \in 1..3 : Priorities[k] # "CRITICAL"
    BY DEF Priorities
  <2> QED
    BY <2>2, <2>3, Zenon
<1> QED
  BY <1>2, <1>3, Zenon
====
