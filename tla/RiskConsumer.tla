---- MODULE RiskConsumer ----
(***************************************************************************)
(* The risk service: the consumer loop of risk/main.py and the RiskEngine  *)
(* it drives, for the tracks of one camera.                                *)
(*                                                                         *)
(* The loop reads the streams netra:shopformer and netra:behavior in turn, *)
(* each time waiting as the code tells XREADGROUP to wait.  Event times    *)
(* lag behind the wall clock by at most MaxLag.  Scores are percentages    *)
(* and a risk is in hundredths of a percent.  The Redis key that caches a  *)
(* track's risk for the video overlay is left out.                         *)
(***************************************************************************)
EXTENDS Integers, Sequences

CONSTANTS
  Tracks,
  FsmScores,   \* raw FSM scores a BehaviorEvent may carry
  SfScores,    \* anomaly scores of ShopFormer, in percent
  Window,      \* _INCIDENT_COOLDOWN_SEC
  ScoreAge,    \* how long a ShopFormer score stays fresh (5 s)
  PruneAge,    \* max_age_sec of prune_stale and its period in the loop (60 s)
  BatchSize,   \* count of the XREADGROUP calls
  StreamMax,   \* maxlen of the streams
  MaxLag,      \* how far event times may be behind the clock
  StartTime,   \* clock at start; event times are large next to the ages above
  MaxTime      \* bound: the clock stops here

ASSUME RiskAssumption ==
  /\ FsmScores \subseteq Nat /\ SfScores \subseteq 0..100
  /\ {Window, ScoreAge, PruneAge, BatchSize, StreamMax} \subseteq Nat \ {0}
  /\ {MaxLag, StartTime, MaxTime} \subseteq Nat
  /\ StartTime >= Window + ScoreAge

VARIABLES
  now,         \* wall clock
  eventTime,   \* event time the behavior service has reached
  scoreTime,   \* event time ShopFormer has reached
  scores,      \* netra:shopformer entries not yet delivered
  behavior,    \* netra:behavior entries not yet delivered
  pc,          \* where `run` is
  batch,       \* entries delivered and not yet handled
  states,      \* RiskEngine._states; an absent track is the default state
  lastPrune,   \* last_prune
  opened,      \* history: last incident opened per track since the start
  published    \* history: time of the last one on netra:incidents

upstream == <<now, eventTime, scoreTime>>
engine == <<states, lastPrune, opened>>
vars == <<upstream, scores, behavior, pc, batch, engine, published>>

DefaultState == [sf |-> 0, sfTs |-> 0, incTs |-> 0]
NoIncident == [ts |-> 0, risk |-> 0]

Init ==
  /\ now = StartTime /\ eventTime = StartTime /\ scoreTime = StartTime
  /\ scores = <<>> /\ behavior = <<>>
  /\ pc = "scores" /\ batch = <<>>
  /\ states = [k \in Tracks |-> DefaultState]
  /\ lastPrune = StartTime
  /\ opened = [k \in Tracks |-> NoIncident]
  /\ published = [k \in Tracks |-> 0]

----
(* The services upstream *)

Tick ==
  /\ now < MaxTime
  /\ now' = now + 1
  /\ UNCHANGED <<eventTime, scoreTime, scores, behavior, pc, batch, engine, published>>

\* XADD with maxlen: the oldest entries go, delivered or not.
Added(stream, entry) ==
  LET s == Append(stream, entry) IN
  IF Len(s) > StreamMax THEN Tail(s) ELSE s

\* The behavior service publishes an event of the frame it has reached.
EmitBehavior ==
  \E k \in Tracks, f \in FsmScores, ts \in eventTime..now :
    /\ ts >= now - MaxLag
    /\ behavior' = Added(behavior, [track |-> k, fsm |-> f, ts |-> ts])
    /\ eventTime' = ts
    /\ UNCHANGED <<now, scoreTime, scores, pc, batch, engine, published>>

\* ShopFormer reads the same events, later: a score has the time of the event
\* it was made for, and each track's scores come in that order.
EmitScore ==
  \E k \in Tracks, s \in SfScores, ts \in scoreTime..eventTime :
    /\ scores' = Added(scores, [track |-> k, sf |-> s, ts |-> ts])
    /\ scoreTime' = ts
    /\ UNCHANGED <<now, eventTime, behavior, pc, batch, engine, published>>

----
(* The risk formula *)

\* Mutant: a score above max_score is not cut off at 1.
Unclamped(fsm) == fsm * 5

\* _normalise_fsm, max_score = 20
NormaliseFsm(fsm) == IF fsm * 5 > 100 THEN 100 ELSE fsm * 5

\* Mutant: the cached score is used however old it is.
AnyAge(st, ts) == TRUE

ShopformerFresh(st, ts) == ts - st.sfTs < ScoreAge

\* Weight 0.05: 0.3 between 18:00 and 22:59, else 0.
ContextTerms == {0, 150}

\* The service passes no interaction count, so that term is 0.
RiskScore(st, bev, context) ==
  45 * NormaliseFsm(bev.fsm)
  + 30 * (IF ShopformerFresh(st, bev.ts) THEN st.sf ELSE 0)
  + context

AlertThreshold == 6500

Severity(risk) ==
  IF risk >= 9000 THEN "CRITICAL"
  ELSE IF risk >= 8000 THEN "HIGH"
  ELSE IF risk >= 6500 THEN "MEDIUM"
  ELSE "LOW"

----
(* The consumer loop *)

\* XREADGROUP count=20: at most BatchSize entries, in order.
Deliver(stream) == SubSeq(stream, 1, IF Len(stream) < BatchSize THEN Len(stream) ELSE BatchSize)
Remaining(stream) == SubSeq(stream, Len(Deliver(stream)) + 1, Len(stream))

\* block=0: no reply until there is a score.
ReadScores ==
  /\ pc = "scores" /\ scores # <<>>
  /\ batch' = Deliver(scores)
  /\ scores' = Remaining(scores)
  /\ pc' = "update"
  /\ UNCHANGED <<upstream, behavior, engine, published>>

\* Mutant: the loop drains the scores before it looks at behavior.
DrainScores ==
  /\ pc = "update"
  /\ LET m == Head(batch) IN
       states' = [states EXCEPT ![m.track] =
                    [sf |-> m.sf, sfTs |-> m.ts, incTs |-> @.incTs]]
  /\ batch' = Tail(batch)
  /\ pc' = IF Tail(batch) = <<>> THEN "scores" ELSE "update"
  /\ UNCHANGED <<upstream, scores, behavior, lastPrune, opened, published>>

\* update_shopformer and the XACK of one score.
UpdateScore ==
  /\ pc = "update"
  /\ LET m == Head(batch) IN
       states' = [states EXCEPT ![m.track] =
                    [sf |-> m.sf, sfTs |-> m.ts, incTs |-> @.incTs]]
  /\ batch' = Tail(batch)
  /\ pc' = IF Tail(batch) = <<>> THEN "behavior" ELSE "update"
  /\ UNCHANGED <<upstream, scores, behavior, lastPrune, opened, published>>

ReadBehavior ==
  /\ pc = "behavior" /\ behavior # <<>>
  /\ batch' = Deliver(behavior)
  /\ behavior' = Remaining(behavior)
  /\ pc' = "assess"
  /\ UNCHANGED <<upstream, scores, engine, published>>

\* Mutant: a track is pruned as soon as its score has expired.
ScoreExpired(st) == now - st.sfTs >= ScoreAge

Stale(st) == now - (IF st.sfTs > st.incTs THEN st.sfTs ELSE st.incTs) > PruneAge

\* block=100 ran out.  From the reply to the end of prune_stale there is no
\* await, so that this is one step.
NoBehavior ==
  /\ pc = "behavior" /\ behavior = <<>>
  /\ IF now - lastPrune > PruneAge
       THEN /\ states' = [k \in Tracks |-> IF Stale(states[k]) THEN DefaultState ELSE states[k]]
            /\ lastPrune' = now
       ELSE UNCHANGED <<states, lastPrune>>
  /\ pc' = "scores"
  /\ UNCHANGED <<upstream, scores, behavior, batch, opened, published>>

AfterEntry == IF Tail(batch) = <<>> THEN "scores" ELSE "assess"

InCooldown(st, ts) == ts - st.incTs < Window

\* update_behavior when it returns None, and the XACK.
AssessQuiet ==
  \E context \in ContextTerms :
    LET m == Head(batch)
        st == states[m.track]
        risk == RiskScore(st, m, context) IN
    /\ pc = "assess"
    /\ risk < AlertThreshold \/ InCooldown(st, m.ts)
    /\ batch' = Tail(batch) /\ pc' = AfterEntry
    /\ UNCHANGED <<upstream, scores, behavior, engine, published>>

\* update_behavior when it returns an incident: the cooldown has started.
AssessIncident ==
  \E context \in ContextTerms :
    LET m == Head(batch)
        st == states[m.track]
        risk == RiskScore(st, m, context) IN
    /\ pc = "assess"
    /\ risk >= AlertThreshold /\ ~InCooldown(st, m.ts)
    /\ states' = [states EXCEPT ![m.track] =
                    [sf |-> st.sf, sfTs |-> st.sfTs, incTs |-> m.ts]]
    /\ opened' = [opened EXCEPT ![m.track] = [ts |-> m.ts, risk |-> risk]]
    /\ pc' = "publish"
    /\ UNCHANGED <<upstream, scores, behavior, batch, lastPrune, published>>

\* XADD of the incident and XACK.
Publish ==
  /\ pc = "publish"
  /\ LET k == Head(batch).track IN published' = [published EXCEPT ![k] = opened[k].ts]
  /\ batch' = Tail(batch) /\ pc' = AfterEntry
  /\ UNCHANGED <<upstream, scores, behavior, engine>>

\* The SET of the cached risk or the XADD raises: logged and acknowledged, the incident is gone.
PublishFails ==
  /\ pc = "publish"
  /\ batch' = Tail(batch) /\ pc' = AfterEntry
  /\ UNCHANGED <<upstream, scores, behavior, engine, published>>

\* A read raises outside any try: the task of `run` ends, the process does not.
ReadRaises ==
  /\ pc \in {"scores", "behavior"}
  /\ pc' = "dead"
  /\ UNCHANGED <<upstream, scores, behavior, batch, engine, published>>

\* The process is restarted: engines are rebuilt empty, and entries delivered
\* but not acknowledged are not read again (">").
Restart ==
  /\ pc' = "scores" /\ batch' = <<>>
  /\ states' = [k \in Tracks |-> DefaultState]
  /\ lastPrune' = now
  /\ opened' = [k \in Tracks |-> NoIncident]
  /\ published' = [k \in Tracks |-> 0]
  /\ UNCHANGED <<upstream, scores, behavior>>

Upstream == Tick \/ EmitBehavior \/ EmitScore

Consumer ==
  \/ ReadScores \/ UpdateScore \/ ReadBehavior \/ NoBehavior
  \/ AssessQuiet \/ AssessIncident \/ Publish \/ PublishFails

Next == Upstream \/ Consumer \/ ReadRaises \/ Restart

Spec == Init /\ [][Next]_vars

\* The loop goes on whenever Redis answers it; nothing is promised upstream.
FairSpec == Spec /\ WF_vars(Consumer)

----
ScoreEntry == [track : Tracks, sf : SfScores, ts : Nat]
BehaviorEntry == [track : Tracks, fsm : FsmScores, ts : Nat]
TrackState == [sf : 0..100, sfTs : Nat, incTs : Nat]
Risks == 0..10000
Incident == [ts : Nat, risk : Risks]

(* Every variable keeps to its domain; a risk is a percentage. *)
TypeOK ==
  /\ {now, eventTime, scoreTime, lastPrune} \subseteq Nat
  /\ scores \in Seq(ScoreEntry)
  /\ behavior \in Seq(BehaviorEntry)
  /\ pc \in {"scores", "update", "behavior", "assess", "publish", "dead"}
  /\ states \in [Tracks -> TrackState]
  /\ opened \in [Tracks -> Incident]
  /\ published \in [Tracks -> Nat]

(* engine.py, "one incident per track per cool-down window": between two      *)
(* incidents that a running service opens for a track at least Window passes, *)
(* although the state that remembers the first may be pruned in between.      *)
OneIncidentPerWindow ==
  [][\A k \in Tracks :
       opened'[k] \notin {opened[k], NoIncident} /\ opened[k] # NoIncident
         => opened'[k].ts >= opened[k].ts + Window]_vars

(* FSM and time of day never make an incident alone: each rests on a score of *)
(* the same track above 60 percent that was less than ScoreAge old; and, as   *)
(* the service never counts interactions, none is more severe than MEDIUM.    *)
IncidentRestsOnScore ==
  [][\A k \in Tracks :
       opened'[k] \notin {opened[k], NoIncident} =>
         /\ states[k].sf > 60 /\ opened'[k].ts < states[k].sfTs + ScoreAge
         /\ Severity(opened'[k].risk) = "MEDIUM"]_vars

Served == behavior # <<>> ~> pc = "assess" \/ behavior = <<>>
ScoresKeepComing == []<><<EmitScore>>_vars
StaysUp == <>[](pc # "dead") /\ <>[][~Restart]_vars

(* The loop alternates between the streams: while ShopFormer keeps scoring    *)
(* and the service stays up, behavior events are read, however many scores    *)
(* come.                                                                      *)
ServedWhileScored == ScoresKeepComing /\ StaysUp => Served

(* engine.py calls the ShopFormer term "only when available" and main.py only *)
(* means to "Drain ShopFormer scores first": behavior events are read even if *)
(* no score is there.                                                         *)
ServedWithoutScores == StaysUp => Served
====
