---- MODULE RiskConsumer_proof ----
(***************************************************************************)
(* Proofs about RiskConsumer, for any number of tracks, any scores, ages,  *)
(* batch and stream lengths.                                               *)
(***************************************************************************)
EXTENDS RiskConsumer, TLAPS

(* What the loop holds in hand is of the stream it is handling. *)
BatchInv ==
  /\ pc = "update" => batch \in Seq(ScoreEntry) /\ batch # <<>>
  /\ pc \in {"assess", "publish"} => batch \in Seq(BehaviorEntry) /\ batch # <<>>

TypeInv == TypeOK /\ BatchInv

----
(* Streams and batches *)

(* XADD with a bound keeps the new entry and the old ones but the first. *)
LEMMA AddedEntries ==
  ASSUME NEW S, NEW s \in Seq(S), NEW e \in S
  PROVE  /\ Added(s, e) \in Seq(S)
         /\ \A j \in 1..Len(Added(s, e)) :
              Added(s, e)[j] = e \/ \E i \in 1..Len(s) : Added(s, e)[j] = s[i]
<1> DEFINE l == Append(s, e)
<1>1. l \in Seq(S) /\ Len(l) = Len(s) + 1
  OBVIOUS
<1>2. \A j \in 1..Len(l) : l[j] = e \/ \E i \in 1..Len(s) : l[j] = s[i]
  OBVIOUS
<1> HIDE DEF l
<1>e. l # <<>>
  BY <1>1
<1>3. /\ Tail(l) \in Seq(S) /\ Len(Tail(l)) = Len(l) - 1
      /\ \A j \in 1..Len(Tail(l)) : j + 1 \in 1..Len(l) /\ Tail(l)[j] = l[j + 1]
  BY <1>1, <1>e
<1>4. Added(s, e) = l \/ Added(s, e) = Tail(l)
  BY DEF Added, l
<1> QED
  BY <1>1, <1>2, <1>3, <1>4

(* XREADGROUP hands over a prefix of the stream and leaves the rest. *)
LEMMA DeliveredEntries ==
  ASSUME NEW S, NEW s \in Seq(S)
  PROVE  /\ Deliver(s) \in Seq(S) /\ Remaining(s) \in Seq(S)
         /\ s # <<>> => Deliver(s) # <<>>
         /\ \A j \in 1..Len(Deliver(s)) : \E i \in 1..Len(s) : Deliver(s)[j] = s[i]
         /\ \A j \in 1..Len(Remaining(s)) : \E i \in 1..Len(s) : Remaining(s)[j] = s[i]
<1> DEFINE n == IF Len(s) < BatchSize THEN Len(s) ELSE BatchSize
<1>1. n \in 0..Len(s) /\ (s # <<>> => n # 0)
  BY RiskAssumption
<1>2. Deliver(s) = SubSeq(s, 1, n)
  BY DEF Deliver
<1> HIDE DEF n
<1>3. /\ SubSeq(s, 1, n) \in Seq(S) /\ Len(SubSeq(s, 1, n)) = n
      /\ \A j \in 1..n : SubSeq(s, 1, n)[j] = s[j]
  BY <1>1
<1>4. /\ SubSeq(s, n + 1, Len(s)) \in Seq(S) /\ Len(SubSeq(s, n + 1, Len(s))) = Len(s) - n
      /\ \A j \in 1..(Len(s) - n) : SubSeq(s, n + 1, Len(s))[j] = s[n + j]
  BY <1>1
<1>5. Remaining(s) = SubSeq(s, n + 1, Len(s))
  BY <1>2, <1>3 DEF Remaining
<1>6. \A j \in 1..Len(Deliver(s)) : j \in 1..Len(s) /\ Deliver(s)[j] = s[j]
  BY <1>1, <1>2, <1>3
<1>7. \A j \in 1..Len(Remaining(s)) : n + j \in 1..Len(s) /\ Remaining(s)[j] = s[n + j]
  BY <1>1, <1>4, <1>5
<1>8. Deliver(s) \in Seq(S) /\ Remaining(s) \in Seq(S)
  BY <1>2, <1>3, <1>4, <1>5
<1>9. s # <<>> => Deliver(s) # <<>>
  BY <1>1, <1>2, <1>3
<1> QED
  BY <1>6, <1>7, <1>8, <1>9

LEMMA RestOfBatch ==
  ASSUME NEW S, NEW s \in Seq(S), s # <<>>
  PROVE  /\ Head(s) \in S /\ Head(s) = s[1] /\ Len(s) > 0
         /\ Tail(s) \in Seq(S) /\ Len(Tail(s)) = Len(s) - 1
         /\ \A j \in 1..Len(Tail(s)) : j + 1 \in 1..Len(s) /\ Tail(s)[j] = s[j + 1]
OBVIOUS

----
(* The risk formula *)

\* What FSM, score and context make together when no interaction is counted.
Highest == 7650

(* The fused risk is at most 45 + 30 + 1.5 percent, below the threshold for  *)
(* HIGH, and reaches the alert threshold only on a fresh score above 60.     *)
LEMMA RiskBounds ==
  ASSUME NEW st \in TrackState, NEW m \in BehaviorEntry, NEW context \in ContextTerms
  PROVE  /\ RiskScore(st, m, context) \in Nat /\ RiskScore(st, m, context) <= Highest
         /\ RiskScore(st, m, context) >= AlertThreshold =>
              st.sf > 60 /\ m.ts - st.sfTs < ScoreAge
<1>1. m.fsm \in Nat /\ st.sf \in 0..100
  BY RiskAssumption DEF TrackState, BehaviorEntry
<1>2. NormaliseFsm(m.fsm) \in 0..100
  BY <1>1 DEF NormaliseFsm
<1> DEFINE a == 45 * NormaliseFsm(m.fsm)
           b == 30 * (IF ShopformerFresh(st, m.ts) THEN st.sf ELSE 0)
<1>3. a \in Nat /\ a <= 4500
  <2> DEFINE x == NormaliseFsm(m.fsm)
  <2> HIDE DEF x
  <2> QED BY <1>2 DEF x
<1>4. b \in Nat /\ b <= 3000 /\ (b > 1800 => st.sf > 60 /\ ShopformerFresh(st, m.ts))
  BY <1>1
<1>5. context \in Nat /\ context <= 150
  BY DEF ContextTerms
<1>6. RiskScore(st, m, context) = a + b + context
  BY DEF RiskScore
<1> HIDE DEF a, b
<1> QED
  BY <1>3, <1>4, <1>5, <1>6 DEF AlertThreshold, ShopformerFresh, Highest

----
(* Types *)

(* An incident that is opened: of the entry in hand, outside the cool-down of *)
(* its track, on a fresh score above 60, with a risk that is MEDIUM.          *)
LEMMA IncidentStep ==
  ASSUME TypeInv, AssessIncident
  PROVE  LET m == Head(batch)
             st == states[m.track] IN
         /\ pc = "assess" /\ m \in BehaviorEntry /\ st \in TrackState
         /\ st.sf > 60 /\ m.ts - st.sfTs < ScoreAge /\ m.ts - st.incTs >= Window
         /\ states' = [states EXCEPT ![m.track] =
                         [sf |-> st.sf, sfTs |-> st.sfTs, incTs |-> m.ts]]
         /\ \E risk \in Nat :
              /\ AlertThreshold <= risk /\ risk <= Highest
              /\ opened' = [opened EXCEPT ![m.track] = [ts |-> m.ts, risk |-> risk]]
<1> DEFINE m == Head(batch)
           st == states[m.track]
<1>1. pc = "assess" /\ m \in BehaviorEntry
  BY RestOfBatch DEF TypeInv, BatchInv, AssessIncident
<1>2. m.track \in Tracks /\ m.ts \in Nat
  BY <1>1 DEF BehaviorEntry
<1>3. st \in TrackState
  BY <1>2 DEF TypeInv, TypeOK
<1>4. st.incTs \in Nat /\ st.sfTs \in Nat
  BY <1>3 DEF TrackState
<1>5. PICK context \in ContextTerms :
        /\ RiskScore(st, m, context) >= AlertThreshold /\ ~InCooldown(st, m.ts)
        /\ states' = [states EXCEPT ![m.track] =
                        [sf |-> st.sf, sfTs |-> st.sfTs, incTs |-> m.ts]]
        /\ opened' = [opened EXCEPT ![m.track] =
                        [ts |-> m.ts, risk |-> RiskScore(st, m, context)]]
  BY Zenon DEF AssessIncident
<1> HIDE DEF m, st
<1>6. /\ RiskScore(st, m, context) \in Nat /\ RiskScore(st, m, context) <= Highest
      /\ st.sf > 60 /\ m.ts - st.sfTs < ScoreAge
  BY <1>1, <1>3, <1>5, RiskBounds
<1> DEFINE r == RiskScore(st, m, context)
<1>7. r \in Nat /\ r <= Highest /\ AlertThreshold <= r
  BY <1>5, <1>6 DEF AlertThreshold, Highest
<1>8. opened' = [opened EXCEPT ![m.track] = [ts |-> m.ts, risk |-> r]]
  BY <1>5, Zenon
<1> HIDE DEF r
<1>10. m.ts - st.incTs >= Window
  BY <1>2, <1>4, <1>5, RiskAssumption DEF InCooldown
<1>11. states' = [states EXCEPT ![m.track] =
                   [sf |-> st.sf, sfTs |-> st.sfTs, incTs |-> m.ts]]
  BY <1>5, Zenon
<1>12. \E risk \in Nat :
         /\ AlertThreshold <= risk /\ risk <= Highest
         /\ opened' = [opened EXCEPT ![m.track] = [ts |-> m.ts, risk |-> risk]]
  BY <1>7, <1>8
<1> QED
  BY <1>1, <1>3, <1>6, <1>10, <1>11, <1>12, Zenon DEF m, st

LEMMA TypeInit == Init => TypeInv
<1> SUFFICES ASSUME Init PROVE TypeInv
  OBVIOUS
<1>1. <<>> \in Seq(ScoreEntry) /\ <<>> \in Seq(BehaviorEntry)
  OBVIOUS
<1>2. states \in [Tracks -> TrackState]
  BY DEF Init, TrackState, DefaultState
<1>3. opened \in [Tracks -> Incident]
  BY DEF Init, NoIncident, Incident, Risks
<1> QED
  BY <1>1, <1>2, <1>3, RiskAssumption DEF Init, TypeInv, TypeOK, BatchInv

LEMMA TypeStep == TypeInv /\ [Next]_vars => TypeInv'
<1> SUFFICES ASSUME TypeInv, [Next]_vars PROVE TypeInv'
  OBVIOUS
<1>t. TypeOK /\ BatchInv
  BY DEF TypeInv
<1>s. SUFFICES TypeOK' /\ BatchInv'
  BY DEF TypeInv
<1>d. DefaultState \in TrackState /\ NoIncident \in Incident
  BY DEF DefaultState, NoIncident, TrackState, Incident, Risks
<1> USE DEF TypeOK
<1>1. CASE Tick
  BY <1>t, <1>1 DEF Tick, BatchInv, engine
<1>2. CASE EmitBehavior
  <2> PICK k \in Tracks, f \in FsmScores, ts \in eventTime..now :
        /\ behavior' = Added(behavior, [track |-> k, fsm |-> f, ts |-> ts])
        /\ eventTime' = ts
        /\ UNCHANGED <<now, scoreTime, scores, pc, batch, engine, published>>
    BY <1>2 DEF EmitBehavior
  <2>1. ts \in Nat
    BY <1>t
  <2>2. [track |-> k, fsm |-> f, ts |-> ts] \in BehaviorEntry
    BY <2>1 DEF BehaviorEntry
  <2>3. behavior' \in Seq(BehaviorEntry)
    BY <1>t, <2>2, AddedEntries
  <2> QED BY <1>t, <2>1, <2>3 DEF BatchInv, engine
<1>3. CASE EmitScore
  <2> PICK k \in Tracks, s \in SfScores, ts \in scoreTime..eventTime :
        /\ scores' = Added(scores, [track |-> k, sf |-> s, ts |-> ts])
        /\ scoreTime' = ts
        /\ UNCHANGED <<now, eventTime, behavior, pc, batch, engine, published>>
    BY <1>3 DEF EmitScore
  <2>1. ts \in Nat
    BY <1>t
  <2>2. [track |-> k, sf |-> s, ts |-> ts] \in ScoreEntry
    BY <2>1 DEF ScoreEntry
  <2>3. scores' \in Seq(ScoreEntry)
    BY <1>t, <2>2, AddedEntries
  <2> QED BY <1>t, <2>1, <2>3 DEF BatchInv, engine
<1>4. CASE ReadScores
  BY <1>t, <1>4, DeliveredEntries DEF ReadScores, BatchInv, engine, upstream
<1>5. CASE UpdateScore
  <2>1. Head(batch) \in ScoreEntry /\ Tail(batch) \in Seq(ScoreEntry)
    BY <1>t, <1>5, RestOfBatch DEF UpdateScore, BatchInv
  <2>2. Head(batch).track \in Tracks /\ Head(batch).sf \in 0..100 /\ Head(batch).ts \in Nat
    BY <2>1, RiskAssumption DEF ScoreEntry
  <2>3. states' \in [Tracks -> TrackState]
    BY <1>t, <1>5, <2>2 DEF UpdateScore, TrackState
  <2> QED BY <1>t, <1>5, <2>1, <2>3 DEF UpdateScore, BatchInv, upstream
<1>6. CASE ReadBehavior
  BY <1>t, <1>6, DeliveredEntries DEF ReadBehavior, BatchInv, engine, upstream
<1>7. CASE NoBehavior
  <2>1. states' \in [Tracks -> TrackState]
    BY <1>t, <1>7, <1>d DEF NoBehavior
  <2> QED BY <1>t, <1>7, <2>1 DEF NoBehavior, BatchInv, upstream
<1>8. CASE AssessQuiet
  <2>1. Tail(batch) \in Seq(BehaviorEntry)
    BY <1>t, <1>8, RestOfBatch DEF AssessQuiet, BatchInv
  <2> QED BY <1>t, <1>8, <2>1 DEF AssessQuiet, BatchInv, AfterEntry, engine, upstream
<1>9. CASE AssessIncident
  <2> DEFINE m == Head(batch)
             st == states[m.track]
  <2>1. /\ m \in BehaviorEntry /\ st \in TrackState
        /\ states' = [states EXCEPT ![m.track] =
                        [sf |-> st.sf, sfTs |-> st.sfTs, incTs |-> m.ts]]
    BY <1>9, IncidentStep
  <2>2. PICK risk \in Nat :
          /\ AlertThreshold <= risk /\ risk <= Highest
          /\ opened' = [opened EXCEPT ![m.track] = [ts |-> m.ts, risk |-> risk]]
    BY <1>9, IncidentStep
  <2>3. pc' = "publish" /\ pc = "assess"
        /\ UNCHANGED <<upstream, scores, behavior, batch, lastPrune, published>>
    BY <1>9 DEF AssessIncident
  <2> HIDE DEF m, st
  <2>4. m.track \in Tracks /\ m.ts \in Nat
    BY <2>1 DEF BehaviorEntry
  <2>5. states' \in [Tracks -> TrackState]
    BY <1>t, <2>1, <2>4 DEF TrackState
  <2>6. [ts |-> m.ts, risk |-> risk] \in Incident
    <3>1. risk \in Risks BY <2>2 DEF Risks, Highest
    <3> QED BY <2>4, <3>1 DEF Incident
  <2>7. opened' \in [Tracks -> Incident]
    BY <1>t, <2>2, <2>4, <2>6
  <2>8. BatchInv'
    BY <1>t, <2>3 DEF BatchInv
  <2>9. UNCHANGED <<now, eventTime, scoreTime, lastPrune, scores, behavior, published>>
    BY <2>3 DEF upstream
  <2> QED BY <1>t, <2>3, <2>5, <2>7, <2>8, <2>9
<1>10. CASE Publish
  <2>1. Tail(batch) \in Seq(BehaviorEntry) /\ Head(batch) \in BehaviorEntry
    BY <1>t, <1>10, RestOfBatch DEF Publish, BatchInv
  <2>2. opened[Head(batch).track].ts \in Nat
    BY <1>t, <2>1 DEF BehaviorEntry, Incident
  <2>3. published' \in [Tracks -> Nat]
    BY <1>t, <1>10, <2>2 DEF Publish
  <2> QED BY <1>t, <1>10, <2>1, <2>3 DEF Publish, BatchInv, AfterEntry, engine, upstream
<1>11. CASE PublishFails
  <2>1. Tail(batch) \in Seq(BehaviorEntry)
    BY <1>t, <1>11, RestOfBatch DEF PublishFails, BatchInv
  <2> QED BY <1>t, <1>11, <2>1 DEF PublishFails, BatchInv, AfterEntry, engine, upstream
<1>12. CASE ReadRaises
  BY <1>t, <1>12 DEF ReadRaises, BatchInv, engine, upstream
<1>13. CASE Restart
  BY <1>t, <1>13, <1>d DEF Restart, BatchInv, upstream
<1>14. CASE UNCHANGED vars
  BY <1>t, <1>14 DEF vars, BatchInv, engine, upstream
<1> QED
  BY <1>1, <1>2, <1>3, <1>4, <1>5, <1>6, <1>7, <1>8, <1>9, <1>10, <1>11, <1>12,
     <1>13, <1>14 DEF Next, Upstream, Consumer

(* Every variable keeps its type; in particular a risk is a percentage,      *)
(* whatever scores the services upstream send.                               *)
THEOREM TypeCorrect == Spec => []TypeOK
<1>1. TypeInv => TypeOK BY DEF TypeInv
<1> QED BY <1>1, TypeInit, TypeStep, PTL DEF Spec

----
(* The incident window *)

(* The window of an incident at event time t is over for every entry that is *)
(* still to be assessed: those to come are at most MaxLag behind the clock.  *)
OverAt(t, n, beh, p, ba) ==
  /\ t + Window + MaxLag <= n
  /\ \A j \in 1..Len(beh) : beh[j].ts >= t + Window
  /\ p \in {"assess", "publish"} => \A j \in 1..Len(ba) : ba[j].ts >= t + Window

Over(t) == OverAt(t, now, behavior, pc, batch)

(* An incident that was opened is remembered until its window is over. *)
WindowInv ==
  \A k \in Tracks :
    opened[k] = NoIncident \/ states[k].incTs = opened[k].ts \/ Over(opened[k].ts)

LEMMA OverStays ==
  ASSUME TypeInv, [Next]_vars, NEW t \in Nat, Over(t)
  PROVE  OverAt(t, now', behavior', pc', batch')
<1>t. /\ now \in Nat /\ eventTime \in Nat
      /\ behavior \in Seq(BehaviorEntry) /\ BatchInv
      /\ Window \in Nat /\ MaxLag \in Nat
  BY RiskAssumption DEF TypeInv, TypeOK
<1>o. OverAt(t, now, behavior, pc, batch)
  BY DEF Over
<1>1. CASE Tick
  BY <1>t, <1>o, <1>1 DEF Tick, OverAt
<1>2. CASE EmitBehavior
  <2> PICK k \in Tracks, f \in FsmScores, ts \in eventTime..now :
        /\ ts >= now - MaxLag
        /\ behavior' = Added(behavior, [track |-> k, fsm |-> f, ts |-> ts])
        /\ UNCHANGED <<now, pc, batch>>
    BY <1>2 DEF EmitBehavior
  <2> DEFINE e == [track |-> k, fsm |-> f, ts |-> ts]
  <2>1. e \in BehaviorEntry /\ e.ts = ts
    BY <1>t DEF BehaviorEntry
  <2>2. e.ts >= t + Window
    BY <1>t, <1>o, <2>1 DEF OverAt
  <2>3. behavior' = Added(behavior, e)
    OBVIOUS
  <2> HIDE DEF e
  <2>4. \A j \in 1..Len(behavior') :
          behavior'[j] = e \/ \E i \in 1..Len(behavior) : behavior'[j] = behavior[i]
    <3>1. \A j \in 1..Len(Added(behavior, e)) :
            Added(behavior, e)[j] = e \/ \E i \in 1..Len(behavior) : Added(behavior, e)[j] = behavior[i]
      BY <1>t, <2>1, AddedEntries
    <3> QED BY <2>3, <3>1, Zenon
  <2>5. \A j \in 1..Len(behavior') : behavior'[j].ts >= t + Window
    BY <1>o, <2>2, <2>4 DEF OverAt
  <2> QED BY <1>o, <2>5 DEF OverAt
<1>3. CASE EmitScore
  BY <1>o, <1>3 DEF EmitScore, OverAt
<1>4. CASE ReadScores
  BY <1>o, <1>4 DEF ReadScores, OverAt, upstream
<1>5. CASE UpdateScore
  BY <1>o, <1>5 DEF UpdateScore, OverAt, upstream
<1>6. CASE ReadBehavior
  <2>1. /\ \A j \in 1..Len(batch') : \E i \in 1..Len(behavior) : batch'[j] = behavior[i]
        /\ \A j \in 1..Len(behavior') : \E i \in 1..Len(behavior) : behavior'[j] = behavior[i]
    <3>1. /\ \A j \in 1..Len(Deliver(behavior)) :
               \E i \in 1..Len(behavior) : Deliver(behavior)[j] = behavior[i]
          /\ \A j \in 1..Len(Remaining(behavior)) :
               \E i \in 1..Len(behavior) : Remaining(behavior)[j] = behavior[i]
      BY <1>t, DeliveredEntries
    <3>2. batch' = Deliver(behavior) /\ behavior' = Remaining(behavior)
      BY <1>6 DEF ReadBehavior
    <3> QED BY <3>1, <3>2, Zenon
  <2> QED BY <1>o, <1>6, <2>1 DEF ReadBehavior, OverAt, upstream
<1>7. CASE NoBehavior
  BY <1>o, <1>7 DEF NoBehavior, OverAt, upstream
<1>8. CASE AssessQuiet \/ Publish \/ PublishFails
  <2>1. batch \in Seq(BehaviorEntry) /\ batch # <<>> /\ pc \in {"assess", "publish"}
    BY <1>t, <1>8 DEF BatchInv, AssessQuiet, Publish, PublishFails
  <2>2. batch' = Tail(batch) /\ UNCHANGED <<now, behavior>>
    BY <1>8 DEF AssessQuiet, Publish, PublishFails, upstream
  <2>3. \A j \in 1..Len(batch') : j + 1 \in 1..Len(batch) /\ batch'[j] = batch[j + 1]
    BY <2>1, <2>2, RestOfBatch
  <2>4. \A j \in 1..Len(batch') : batch'[j].ts >= t + Window
    BY <1>o, <2>1, <2>3 DEF OverAt
  <2> QED BY <1>o, <2>2, <2>4 DEF OverAt
<1>9. CASE AssessIncident
  BY <1>o, <1>9 DEF AssessIncident, OverAt, upstream
<1>10. CASE ReadRaises
  BY <1>o, <1>10 DEF ReadRaises, OverAt, upstream
<1>11. CASE Restart
  BY <1>o, <1>11 DEF Restart, OverAt, upstream
<1>12. CASE UNCHANGED vars
  BY <1>o, <1>12 DEF vars, OverAt, upstream
<1> QED
  BY <1>1, <1>2, <1>3, <1>4, <1>5, <1>6, <1>7, <1>8, <1>9, <1>10, <1>11, <1>12
  DEF Next, Upstream, Consumer

(* prune_stale forgets an incident only when its window is over. *)
LEMMA PrunedIsOver ==
  ASSUME TypeInv, NoBehavior, MaxLag + Window <= PruneAge,
         NEW k \in Tracks, Stale(states[k])
  PROVE  OverAt(states[k].incTs, now', behavior', pc', batch')
<1>1. states[k] \in TrackState /\ now \in Nat
  BY DEF TypeInv, TypeOK
<1>2. states[k].incTs \in Nat /\ states[k].sfTs \in Nat
  BY <1>1 DEF TrackState
<1>3. states[k].incTs + Window + MaxLag <= now
  BY <1>1, <1>2, RiskAssumption DEF Stale
<1> QED
  BY <1>3 DEF NoBehavior, OverAt, upstream

LEMMA WindowStep ==
  ASSUME TypeInv, WindowInv, [Next]_vars, MaxLag + Window <= PruneAge
  PROVE  WindowInv'
<1> SUFFICES ASSUME NEW k \in Tracks
    PROVE \/ opened'[k] = NoIncident \/ states'[k].incTs = opened'[k].ts
          \/ OverAt(opened'[k].ts, now', behavior', pc', batch')
  BY DEF WindowInv, Over
<1>t. /\ states \in [Tracks -> TrackState] /\ opened \in [Tracks -> Incident]
      /\ opened[k].ts \in Nat
  BY DEF TypeInv, TypeOK, Incident
<1>i. opened[k] = NoIncident \/ states[k].incTs = opened[k].ts \/ Over(opened[k].ts)
  BY DEF WindowInv
<1>same. ASSUME opened'[k] = opened[k], states'[k].incTs = states[k].incTs
         PROVE  \/ opened'[k] = NoIncident \/ states'[k].incTs = opened'[k].ts
                \/ OverAt(opened'[k].ts, now', behavior', pc', batch')
  BY <1>same, <1>t, <1>i, OverStays
<1>1. CASE UpdateScore
  <2>1. opened' = opened
    BY <1>1 DEF UpdateScore
  <2>2. states'[k].incTs = states[k].incTs
    BY <1>1, <1>t DEF UpdateScore
  <2> QED BY <2>1, <2>2, <1>same
<1>2. CASE NoBehavior
  <2>1. opened' = opened
    BY <1>2 DEF NoBehavior
  <2>2. CASE states'[k] = states[k]
    BY <2>1, <2>2, <1>same
  <2>3. CASE states'[k] # states[k]
    <3>1. Stale(states[k])
      BY <1>2, <1>t, <2>3 DEF NoBehavior
    <3>2. CASE states[k].incTs = opened[k].ts
      BY <1>2, <2>1, <3>1, <3>2, PrunedIsOver
    <3>3. CASE Over(opened[k].ts)
      BY <1>t, <2>1, <3>3, OverStays
    <3> QED BY <1>i, <2>1, <3>2, <3>3
  <2> QED BY <2>2, <2>3
<1>3. CASE AssessIncident
  <2> DEFINE m == Head(batch)
             st == states[m.track]
  <2>1. m.track \in Tracks
    BY <1>3, IncidentStep DEF BehaviorEntry
  <2>2. states' = [states EXCEPT ![m.track] = [sf |-> st.sf, sfTs |-> st.sfTs, incTs |-> m.ts]]
    BY <1>3, IncidentStep
  <2>3. PICK risk \in Nat : opened' = [opened EXCEPT ![m.track] = [ts |-> m.ts, risk |-> risk]]
    BY <1>3, IncidentStep
  <2> HIDE DEF m, st
  <2>4. CASE k = m.track
    <3>1. states'[k].incTs = m.ts /\ opened'[k].ts = m.ts
      BY <1>t, <2>2, <2>3, <2>4
    <3> QED BY <3>1
  <2>5. CASE k # m.track
    <3>1. states'[k] = states[k] /\ opened'[k] = opened[k]
      BY <1>t, <2>2, <2>3, <2>5
    <3> QED BY <3>1, <1>same
  <2> QED BY <2>4, <2>5
<1>4. CASE Restart
  BY <1>4 DEF Restart
<1>5. CASE UNCHANGED <<states, opened>>
  BY <1>5, <1>same
<1> QED
  BY <1>1, <1>2, <1>3, <1>4, <1>5
  DEF Next, Upstream, Consumer, Tick, EmitBehavior, EmitScore, ReadScores, ReadBehavior,
      AssessQuiet, Publish, PublishFails, ReadRaises, engine, vars

(* Only AssessIncident opens an incident, of the track of the entry in hand. *)
LEMMA Opens ==
  ASSUME TypeInv, [Next]_vars, NEW k \in Tracks, opened'[k] \notin {opened[k], NoIncident}
  PROVE  /\ AssessIncident /\ Head(batch).track = k
         /\ opened'[k].ts = Head(batch).ts
         /\ opened'[k].risk \in Nat
         /\ AlertThreshold <= opened'[k].risk /\ opened'[k].risk <= Highest
<1>1. opened \in [Tracks -> Incident]
  BY DEF TypeInv, TypeOK
<1>2. AssessIncident
  <2>1. opened' # opened
    OBVIOUS
  <2>2. ~Restart
    BY DEF Restart
  <2> QED
    BY <2>1, <2>2
    DEF Next, Upstream, Consumer, Tick, EmitBehavior, EmitScore, ReadScores, UpdateScore,
        ReadBehavior, NoBehavior, AssessQuiet, Publish, PublishFails, ReadRaises, engine, vars
<1> DEFINE m == Head(batch)
<1>3. PICK risk \in Nat :
        /\ AlertThreshold <= risk /\ risk <= Highest
        /\ opened' = [opened EXCEPT ![m.track] = [ts |-> m.ts, risk |-> risk]]
  BY <1>2, IncidentStep
<1>4. m.track \in Tracks
  BY <1>2, IncidentStep DEF BehaviorEntry
<1> HIDE DEF m
<1>5. m.track = k
  BY <1>1, <1>3, <1>4
<1>6. opened'[k] = [ts |-> m.ts, risk |-> risk]
  BY <1>1, <1>3, <1>5
<1> QED
  BY <1>2, <1>3, <1>5, <1>6 DEF m

(* A step that opens an incident of a track that had one. *)
LEMMA NextIncident ==
  ASSUME TypeInv, WindowInv, [Next]_vars, NEW k \in Tracks,
         opened'[k] \notin {opened[k], NoIncident}, opened[k] # NoIncident
  PROVE  opened'[k].ts >= opened[k].ts + Window
<1>1. opened[k].ts \in Nat /\ Window \in Nat
  BY RiskAssumption DEF TypeInv, TypeOK, Incident
<1> DEFINE m == Head(batch)
           st == states[m.track]
<1>2. AssessIncident /\ m.track = k /\ opened'[k].ts = m.ts
  BY Opens
<1>3. /\ m \in BehaviorEntry /\ st \in TrackState /\ pc = "assess"
      /\ m.ts - st.incTs >= Window
  BY <1>2, IncidentStep
<1>4. m = batch[1] /\ 1 \in 1..Len(batch)
  BY <1>3, RestOfBatch DEF TypeInv, BatchInv
<1>5. Over(opened[k].ts) => m.ts >= opened[k].ts + Window
  BY <1>3, <1>4 DEF Over, OverAt
<1> HIDE DEF m, st
<1>6. m.ts \in Nat /\ st.incTs \in Nat
  BY <1>3 DEF BehaviorEntry, TrackState
<1>7. st.incTs = opened[k].ts \/ Over(opened[k].ts)
  BY <1>2 DEF WindowInv, st
<1> QED
  BY <1>1, <1>2, <1>3, <1>5, <1>6, <1>7

(* engine.py:13, "one incident per track per cool-down window", holds in event *)
(* time whatever is pruned, lost or delayed, as long as events lag behind the  *)
(* clock by no more than the age at which prune_stale forgets a track, less    *)
(* the window: 60 - 30 s with the constants of the code.                       *)
THEOREM WindowKept ==
  ASSUME MaxLag + Window <= PruneAge
  PROVE  Spec => OneIncidentPerWindow
<1>1. Init => WindowInv
  BY DEF Init, WindowInv
<1>2. TypeInv /\ WindowInv /\ [Next]_vars => WindowInv'
  BY WindowStep
<1>3. TypeInv /\ WindowInv /\ [Next]_vars =>
        [\A k \in Tracks :
           opened'[k] \notin {opened[k], NoIncident} /\ opened[k] # NoIncident
             => opened'[k].ts >= opened[k].ts + Window]_vars
  BY NextIncident
<1> QED
  BY <1>1, <1>2, <1>3, TypeInit, TypeStep, PTL DEF Spec, OneIncidentPerWindow

----
(* What an incident rests on *)

LEMMA RestsOnScore ==
  ASSUME TypeInv, [Next]_vars, NEW k \in Tracks, opened'[k] \notin {opened[k], NoIncident}
  PROVE  /\ states[k].sf > 60 /\ opened'[k].ts < states[k].sfTs + ScoreAge
         /\ Severity(opened'[k].risk) = "MEDIUM"
<1> DEFINE m == Head(batch)
<1>1. /\ AssessIncident /\ m.track = k /\ opened'[k].ts = m.ts
      /\ opened'[k].risk \in Nat
      /\ AlertThreshold <= opened'[k].risk /\ opened'[k].risk <= Highest
  BY Opens
<1>2. /\ m \in BehaviorEntry /\ states[m.track] \in TrackState
      /\ states[m.track].sf > 60 /\ m.ts - states[m.track].sfTs < ScoreAge
  BY <1>1, IncidentStep
<1> HIDE DEF m
<1>3. m.ts \in Nat /\ states[k].sfTs \in Nat /\ ScoreAge \in Nat
  BY <1>1, <1>2, RiskAssumption DEF BehaviorEntry, TrackState
<1>4. Severity(opened'[k].risk) = "MEDIUM"
  BY <1>1 DEF Severity, AlertThreshold, Highest
<1> QED
  BY <1>1, <1>2, <1>3, <1>4

(* With the weights of the risk formula and no interaction counted, neither   *)
(* FSM nor time of day reaches the alert threshold without a fresh ShopFormer *)
(* score above 60 percent, and no incident is HIGH or CRITICAL.               *)
THEOREM IncidentsRestOnScores == Spec => IncidentRestsOnScore
<1>1. TypeInv /\ [Next]_vars =>
        [\A k \in Tracks :
           opened'[k] \notin {opened[k], NoIncident} =>
             /\ states[k].sf > 60 /\ opened'[k].ts < states[k].sfTs + ScoreAge
             /\ Severity(opened'[k].risk) = "MEDIUM"]_vars
  BY RestsOnScore
<1> QED
  BY <1>1, TypeInit, TypeStep, PTL DEF Spec, IncidentRestsOnScore
====
