---- MODULE Alerting ----
(***************************************************************************)
(* The alerting service: the consumer of netra:incidents (alerting/main.py)*)
(* and the per-camera sliding window it keeps in Redis (cooldown.py).      *)
(*                                                                         *)
(* try_dispatch reads the clock and then runs a Lua script: two steps, with *)
(* time between them.  The script is atomic in Redis.  Its sorted set is a *)
(* set of members with a score; its key expires as a whole.                *)
(***************************************************************************)
EXTENDS Integers, Sequences, FiniteSets

CONSTANTS
  AlertCameras,
  Window,      \* alert_cooldown_window_seconds
  MaxAlerts,   \* alert_cooldown_max_alerts
  Burst,       \* alert_cooldown_burst
  BatchSize,   \* count of the XREADGROUP call
  StreamMax,   \* maxlen of netra:incidents
  MaxDelay,    \* how long the script may run after the clock was read
  StartTime,   \* clock at start
  MaxTime      \* bound: the clock stops here

ASSUME AlertingAssumption ==
  /\ {Window, MaxAlerts, Burst, BatchSize, StreamMax} \subseteq Nat \ {0}
  /\ {MaxDelay, StartTime, MaxTime} \subseteq Nat
  /\ MaxAlerts <= Burst /\ MaxDelay < Window /\ Window <= StartTime

VARIABLES
  now,      \* wall clock, of the service and of Redis
  toAlert,   \* netra:incidents entries not yet delivered
  pc,       \* where `run` is
  batch,    \* entries delivered and not yet handled
  clock,    \* time.time() read by try_dispatch
  window,   \* per camera: the sorted set netra:cooldown:window:<camera>
  expire,   \* per camera: when that key expires
  alerts    \* history, per camera: when alerts were allowed

consumer == <<pc, batch, clock>>
store == <<window, expire, alerts>>
alertingVars == <<now, toAlert, consumer, store>>

Severities == {"MEDIUM", "CRITICAL"}   \* those try_dispatch tells apart

AlertingInit ==
  /\ now = StartTime /\ toAlert = <<>>
  /\ pc = "read" /\ batch = <<>> /\ clock = StartTime
  /\ window = [c \in AlertCameras |-> {}]
  /\ expire = [c \in AlertCameras |-> 0]
  /\ alerts = [c \in AlertCameras |-> <<>>]

----
Tick ==
  /\ now < MaxTime
  /\ pc = "try" => now < clock + MaxDelay
  /\ now' = now + 1
  /\ UNCHANGED <<toAlert, consumer, store>>

\* The risk service or the demo generator adds an incident; XADD trims.
AddIncident ==
  \E c \in AlertCameras, s \in Severities :
    LET longer == Append(toAlert, [cam |-> c, severity |-> s]) IN
    /\ toAlert' = IF Len(longer) > StreamMax THEN Tail(longer) ELSE longer
    /\ UNCHANGED <<now, consumer, store>>

Delivered == IF Len(toAlert) < BatchSize THEN Len(toAlert) ELSE BatchSize

\* Mutant: the loop goes on to an entry that the batch may not have.
ReadMaybe ==
  /\ pc = "read"
  /\ batch' = SubSeq(toAlert, 1, Delivered)
  /\ toAlert' = SubSeq(toAlert, Delivered + 1, Len(toAlert))
  /\ pc' = "entry"
  /\ UNCHANGED <<now, clock, store>>

\* An empty reply after block=200 leaves the loop where it is.
ReadBatch ==
  /\ pc = "read" /\ toAlert # <<>>
  /\ batch' = SubSeq(toAlert, 1, Delivered)
  /\ toAlert' = SubSeq(toAlert, Delivered + 1, Len(toAlert))
  /\ pc' = "entry"
  /\ UNCHANGED <<now, clock, store>>

\* decode_incident_event, and the time.time() of try_dispatch.
ReadClock ==
  /\ pc = "entry"
  /\ clock' = now
  /\ pc' = "try"
  /\ UNCHANGED <<now, toAlert, batch, store>>

\* Mutant: the burst limit for every severity.
BurstForAll(m) == Burst

LimitOf(m) == IF m.severity = "CRITICAL" THEN Burst ELSE MaxAlerts

\* An expired key is an empty set.
WindowKey(c) == IF now >= expire[c] THEN {} ELSE window[c]

\* Mutant: nothing but the expiry of the key removes entries.
LiveAll(c) == WindowKey(c)

\* ZREMRANGEBYSCORE 0 .. clock - Window
Live(c) == {e \in WindowKey(c) : e.score > clock - Window}

\* Mutant: the key expires a window after its first alert.
RecordOnce(c) ==
  /\ window' = [window EXCEPT ![c] =
                  Live(c) \cup {[id |-> Len(alerts[c]) + 1, score |-> clock]}]
  /\ expire' = IF WindowKey(c) = {} THEN [expire EXCEPT ![c] = now + Window] ELSE expire
  /\ alerts' = [alerts EXCEPT ![c] = Append(@, now)]

\* The script allows: ZADD and PEXPIRE.
Record(c) ==
  /\ window' = [window EXCEPT ![c] =
                  Live(c) \cup {[id |-> Len(alerts[c]) + 1, score |-> clock]}]
  /\ expire' = [expire EXCEPT ![c] = now + Window]
  /\ alerts' = [alerts EXCEPT ![c] = Append(@, now)]

Clean(c) ==
  /\ window' = [window EXCEPT ![c] = Live(c)]
  /\ UNCHANGED <<expire, alerts>>

Script(m) == IF Cardinality(Live(m.cam)) < LimitOf(m) THEN Record(m.cam) ELSE Clean(m.cam)

Allow ==
  /\ pc = "try"
  /\ Cardinality(Live(Head(batch).cam)) < LimitOf(Head(batch))
  /\ Script(Head(batch))
  /\ pc' = "dispatch"
  /\ UNCHANGED <<now, toAlert, batch, clock>>

Suppress ==
  /\ pc = "try"
  /\ Cardinality(Live(Head(batch).cam)) >= LimitOf(Head(batch))
  /\ Script(Head(batch))
  /\ pc' = "suppressed"
  /\ UNCHANGED <<now, toAlert, batch, clock>>

\* EVALSHA raises, before the script has run or after; the error is logged and
\* the incident alerts nobody.
TryRaises ==
  /\ pc = "try"
  /\ Script(Head(batch)) \/ UNCHANGED store
  /\ pc' = "failed"
  /\ UNCHANGED <<now, toAlert, batch, clock>>

AfterEntry == IF Tail(batch) = <<>> THEN "read" ELSE "entry"

\* Mutant: a failure is logged and the loop does not go on.
StopOnFailure ==
  /\ pc \in {"dispatch", "suppressed"}
  /\ batch' = Tail(batch) /\ pc' = AfterEntry
  /\ UNCHANGED <<now, toAlert, clock, store>>

\* XACK, after every channel has been tried when the alert was allowed: what a
\* channel answers or raises is only logged.
AckIncident ==
  /\ pc \in {"dispatch", "suppressed", "failed"}
  /\ batch' = Tail(batch) /\ pc' = AfterEntry
  /\ UNCHANGED <<now, toAlert, clock, store>>

\* A read raises outside any try: the task of `run` ends, the process does not.
ReadRaises ==
  /\ pc = "read"
  /\ pc' = "dead"
  /\ UNCHANGED <<now, toAlert, batch, clock, store>>

\* XACK raises: the loop logs it and tries once more; if that raises too, the
\* task ends.
AckRaises ==
  /\ pc \in {"dispatch", "suppressed", "failed"}
  /\ pc' = IF pc = "failed" THEN "dead" ELSE "failed"
  /\ UNCHANGED <<now, toAlert, batch, clock, store>>

\* The process is restarted: entries delivered are not delivered again (">"),
\* and the windows are in Redis.
Restart ==
  /\ pc' = "read" /\ batch' = <<>>
  /\ UNCHANGED <<now, toAlert, clock, store>>

Consumer == ReadBatch \/ ReadClock \/ Allow \/ Suppress \/ TryRaises \/ AckIncident

AlertingNext == Tick \/ AddIncident \/ Consumer \/ ReadRaises \/ AckRaises \/ Restart

AlertingSpec == AlertingInit /\ [][AlertingNext]_alertingVars

\* The loop takes its next step whenever Redis answers.
AlertingFairness == WF_alertingVars(Consumer)

----
Entry == [cam : AlertCameras, severity : Severities]
Member == [id : Nat, score : Nat]

(* Every variable keeps to its domain; what is not read has an entry in hand. *)
AlertingTypeOK ==
  /\ now \in Nat /\ clock \in Nat
  /\ toAlert \in Seq(Entry) /\ batch \in Seq(Entry)
  /\ pc \in {"read", "entry", "try", "dispatch", "suppressed", "failed", "dead"}
  /\ pc \notin {"read", "dead"} => batch # <<>>
  /\ window \in [AlertCameras -> SUBSET Member]
  /\ expire \in [AlertCameras -> Nat]
  /\ alerts \in [AlertCameras -> Seq(Nat)]

(* cooldown.py, "sliding window rate limiter": at most Burst alerts of a      *)
(* camera in any window, although the clock is read before the script runs,   *)
(* keys expire and the service restarts; a window is short by MaxDelay at     *)
(* most.                                                                      *)
Limiter == INSTANCE RateLimit WITH Cameras <- AlertCameras, Limit <- Burst, Span <- Window - MaxDelay
RateLimited == Limiter!Spec

\* The alerts of camera c less than `age` ago.
AlertsWithin(c, age) == {i \in DOMAIN alerts[c] : alerts[c][i] > now - age}

(* The burst limit is for CRITICAL incidents: one of another severity passes  *)
(* only when fewer than MaxAlerts alerts of its camera, of any severity, did  *)
(* in the window before.                                                      *)
RoutineAlertsApart ==
  [][\A c \in AlertCameras :
       alerts'[c] # alerts[c] /\ Head(batch).severity # "CRITICAL"
         => Cardinality(AlertsWithin(c, Window - MaxDelay)) < MaxAlerts]_alertingVars

(* No camera is silenced for another one or for longer than its window: an    *)
(* incident is suppressed only when as many alerts as its limit were allowed  *)
(* for its own camera in the window before.                                   *)
SuppressedAtLimit ==
  [][pc' = "suppressed" /\ pc # "suppressed"
       => Cardinality(AlertsWithin(Head(batch).cam, Window + MaxDelay)) >= LimitOf(Head(batch))]_alertingVars

StaysUp == <>[](pc # "dead") /\ <>[][~Restart]_alertingVars

(* While the service stays up it always comes back to the stream, whatever    *)
(* became of the incidents in hand, and reads what is there.                  *)
IncidentsServed ==
  StaysUp => /\ pc # "read" ~> pc = "read"
             /\ toAlert # <<>> ~> toAlert = <<>> \/ pc = "entry"
====
