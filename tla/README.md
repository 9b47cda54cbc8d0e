# Netra AI in TLA+

Netra AI watches shop cameras for theft. It is a pipeline of small asyncio
services that talk over Redis streams, a shared-memory frame ring, PostgreSQL and
a web gateway. This directory models the parts of it that fail in ways a test
hardly reaches: several processes at one ring, consumers of trimmed streams,
clocks read before they are used, and SQL statements without a transaction. Every
safety property that a run checks is also proved for all values of the constants;
what must happen eventually is model-checked.

## 1. Inventory

All paths are under `src/`. Data flows from top to bottom.

| Component | Code | State | Operations | Hard behaviour |
|---|---|---|---|---|
| mediabridge | `backend/services/mediabridge` | ring slots, generations and write index in shared memory; one Redis list of frame pointers per camera | read a source, write a slot, bound the list, push, publish | four Redis calls per frame against a concurrent reader; crash and re-attach |
| frame ring | `shared/netra/shm.py` | as above | `write`, `read`, `ReaderCache.get` | no lock: generation check around a copy |
| inference | `backend/services/inference` | counters of skipped frames; tracker | drain the list, read a frame, detect, `XADD netra:detection` | slow reader; frames dropped |
| association | `backend/services/association` | per person: zones, place at a shelf, last spike, pickups; registry of items seen | `process_frame` | item ids are not stable between frames; two trimmed streams and restarts |
| behavior | `backend/services/behavior` | per track: theft state machine and confirmation buffer | poses and association events in, `BehaviorEvent` out | two streams read in turn, the first with `block=0`; buffers by event time |
| shopformer | `backend/services/shopformer` | window of 24 poses per track | score a window, evict windows | poses pass through a key per track; event time against wall clock |
| risk | `backend/services/risk` | per track: cached score, last incident; last prune | fuse, open an incident, prune | waits on one stream before it reads the other; wall clock against event time |
| alerting | `backend/services/alerting` | one sorted set per camera in Redis | cool-down script, dispatch to channels | clock read before an await; failures; restarts |
| persistence | `backend/services/persistence` | tables `incidents`, `cameras`, `evidence_frames` | insert; capture evidence in a task of its own | foreign keys and order; a connection used after its release |
| gateway | `backend/gateway/main.py` | tables `reviews`, `cameras`, model deployments | endpoints, trimming of streams, server-sent events | several requests at once, no transactions |
| escalation | `backend/services/alerting/escalation.py` | table `alert_escalations` | every minute: select, update, insert | one engine in each gateway process; operators and other engines act between its statements |
| WebSocket hub | `backend/gateway/ws_router.py` | per client: a bounded queue | read streams, enqueue, N dispatchers send, heartbeat | order and loss per client; clients that stall |
| server-sent events, demo | `backend/gateway/main.py`, `backend/core/demo_mode.py` | per request: a cursor | XREAD, send; the demo adds entries | a cursor that starts at "$" |
| eval log, calibration, groups | `backend/services/eval`, `analytics`, `gateway/main.py` | a file of lines; a key per camera | append, rewrite; calibrate; correlate | two processes, one file, no lock; reads that are stale when stored |
| streaming | `backend/services/streaming` | per client: a queue of two JPEGs | read the ring on notification, fan out | same race as inference; slow viewers; a producer that dies |
| model registry | `backend/services/data/model_registry.py` | table `model_deployments` | deploy, roll back | two statements each |
| edge mode, circuit breaker | `backend/core/edge_mode.py`, `redis_resilient.py` | a queue file; breaker state | push, drain, sync; call, reconnect | nothing in the repository constructs them yet |
| frontend | `frontend/src` | stores of incidents and cameras; an event source | fetch, upsert, reconnect | responses out of order; timers after unmount |

How they interact: mediabridge and inference share memory and a list. From
inference on every hop is a stream with `maxlen` (`XADD` trims, delivered or
not) and a consumer group read with `>`: an entry is delivered once, and
acknowledged also when its handling raised. Each service runs its loop and its
heartbeat as two tasks, so that a loop that died is not noticed. The database is
written by persistence, the escalation engine and the endpoints, each with
autocommitted statements.

What makes each correct, in short: the reader gets the frame its pointer names,
in order and from a bounded list; a track has one incident per cool-down window and
only for a good reason; a camera raises no more alerts than its limit and is
silenced no longer than that takes; an incident that was raised is stored, keeps its
verdict, and is escalated if nobody looks at it. The code keeps most of this; section 4 says where it does not. PROJECT.json lists the
hazards line by line.

## 2. Plan

1. `FrameRing` implements `FrameFeed` - done, proved.
2. `RiskConsumer` - done, safety proved.
3. `Alerting` implements `RateLimit` - done, safety and refinement proved.
4. `IncidentStore` - done, safety proved.
5. `Association` and `Behavior` over `Geometry`, composed - done, safety proved.
6. `WsHub`, `PosePath`, `Streaming`, `ModelRegistry`, `EdgeSync`, `CircuitBreaker`,
   `Analysis`, `EvalLog`, `SseFeed`, `IncidentList`, `EventStream` - done, safety proved.
7. `Consumers` and `Platform`, which put modules that share no state into one run - done.

Left: an abstract specification that the composed tracking services implement (a
track is reported in order, on signals that were published), and the step lemmas
that the liveness properties rest on (what cannot be undone while a loop waits for
its turn). Under fairness they stay with TLC.

## 3. Modules

**FrameFeed** (abstract) - what is handed to the detector is a pointer and a picture in two halves.
Pointers come in capture order, each at most once; any may be dropped. Of the picture less is
promised: until mediabridge is started again, each half is of the pointer's frame or of the frame one
lap later, so the same contents may come twice; afterwards a half may be of any frame captured.

**FrameRing** - one camera. The camera thread's program counter runs through
`CopyFirstHalf`, `CopySecondHalf` (the two halves of `np.copyto`), the index, the generation, the
`LLEN`/`RPOP`/`LPUSH`/`LTRIM` calls; inference's through `LLEN`, `RPOP`,
skipping, attaching, the first generation check, the copy in halves and the
second check. The refinement maps the pointer and both halves read. `KillWriter`, `StartWriter`, `RestartReader` are crashes and
restarts; the old mapping survives in the reader, as `ReaderCache` keeps it.

**RiskConsumer** - the loop of `risk/main.py` with `RiskEngine` inlined, since
`update_behavior` has no await. Scores are in percent and risk in hundredths of a
percent, so that the weights .45, .30 and .05 are exact. `prune_stale` runs in the step in which
the behavior read ran empty (no await in between). `eventTime` and
`scoreTime` are how far the two services upstream have got.

**RateLimit** (abstract) - at most `Limit` alerts of a camera in any `Span`.

**Alerting** - the loop of `alerting/main.py`; `ReadClock` is `time.time()` in
`try_dispatch`, and `Allow`, `Suppress` or `TryRaises` is the Lua script, up to
`MaxDelay` later. `TryRaises` covers a script whose reply is lost after it has run, `AckRaises` an
XACK in the handler of an exception that raises itself: it ends the task.

**IncidentStore** - each SQL statement is one action. `TakeIncident`,
`InsertIncident`, `InsertPlaceholder` are persistence; `Select`, `Escalate`,
`WriteRecords` a round of the engine of one gateway (`Gateways`: each process starts one,
`deploy/k8s` runs two); `Review` and `RecordReview` the two statements of `review_incident`;
`Acknowledge` the single one of `acknowledge_alert`. Failures may come between any two. `Verdicts` is
what reviews write into the status: the endpoint takes any string, the schema names CONFIRMED, DISMISSED
and ESCALATED, and the proofs hold for any set of them. Incidents are numbered by risk. `cut` is a
history variable.

**Geometry** - boxes, centres, polygons, overlap, hands near hips, in whole
pixels, with middles doubled. Polygons are convex; shapely's `contains` leaves the
edge out, and so does `Encloses`. `ClassifyConcealment` keeps the order of the code: the left wrist
decides between hoodie and shirt even when the other hand is at the hips.

**Association** - `association/main.py` with `engine.py` inlined. The input of
`PublishDetection` is a scene: what the detector found, from which `Detected` makes
persons and items as `_parse_detections` does. `ProcessFrame` is `process_frame`; one action per
await around it. A read that raises ends the consumer's task for good; nothing here asks it to make
progress, so no step is needed for that, and no fairness is assumed of it. `shown`, `sightings`, `told` and `pickups` are history variables.

**Behavior** extends it, so the composition is one state machine: what
`PublishAssociation` adds, `ReadEvents` gets. `Confirmed` and `BuffersAfter` are the confirmation
buffer, `Update` the state machine, `HandleFrame` the body of the loop. `StopBehavior` is a restart, or an
exception of a read or of the XACK in the handler, which ends the task for good ("dead").

**Consumers** - the tracking services and alerting, which share no state, in one run: `side`, chosen in the
initial state, says which of them runs.

In both, the persons of a frame are a sequence in the order of the detections, which decides in
which order events are published; `Seen` is the set of their tracks, which the tracker keeps apart
within a frame (`IsScene`).

**Selection** - list comprehensions with a condition and `list.extend`, as recursive functions.

**TrackQuality**, **Ranking** - occlusion, cross-signal gate, scene context; priority of an incident:
pure operators.

**WsHub** - `BeginRead`, `EndRead`, `ReadNothing`, `EnqueueEntry`, `SkipEntry` are the reader task;
`BeginRound`, `Sent`, `SendRaises` a dispatcher between two awaits; `Disconnect` comes from a failed send
or the heartbeat. Several clients may come; a peer may stall or close. Trimming is not modelled: the reader is taken to keep up.
**SseFeed** is a request's generator with the same kind of cursor. An exception of its `XREAD` ends
the response, where the hub goes on. What the demo generator adds
does not decode, so it never shows (`demo_mode.py:129` hopes for a lively feed).

**PosePath** - crops, poses and tracks in the detector (`DetectShot`), one key per track
(`WritePoints`, `ExpirePoints`), the windows of ShopFormer (`HandleEvent`, `EndScoring`, `EvictStale`).
An event carries the capture time and comes round by association and behavior: `behavior` holds those on
their way and those in the stream, and they may take as long as they like. A restart of inference, after
which track ids are used anew while old windows live on in ShopFormer, is not modelled.

**Streaming** - `TakeNotice`, `PutPicture`, `FanOut` and `EncodeFails` are the producer of a camera, which
`ProducerDies` ends for good; `Watch`, `ShowNext`, `ShowPlaceholder`, `StopWatching` a viewer.

**ModelRegistry**, **CircuitBreaker**, **EdgeSync** - one action per SQL statement, per await of a
caller, and per locked section of the file. A rollback may reactivate the very version it deactivated,
when that is the newest. The breaker's callers may close each other's client; only the first attempt of a
call is counted, and a reconnection or a late success of any task sets the count back, so `unanswered`
counts apart what failed in a row. A stop in the middle of `push` tears a line of the edge queue; the drain
that meets it has cleared the file by then (`DrainRaises`).

**Analysis** - the sweep of the threshold tuner over reviews that may change before its result
is stored, and the greedy grouping of incidents. **EvalLog** - the risk service appends, a handler of
the gateway reads all lines and rewrites the file; `OpenForWriting` truncates, and a restart may come
at any byte of the text (`CutShort`): after a line, inside one, or before its newline, in which case the
next line appended is glued to it and both are unreadable.

**IncidentList**, **EventStream** - the store's fetches, whose answers come in any order, and the hook
with its sources and timers. A late answer may stay on the page until something fetches again, so
`ListMatchesFilters` says under which conditions the list is right. `EventStream` is one mounted component;
one mounted again has a ref of its own.

**Platform** - the modules from `WsHub` on side by side. They share no state, so `part`, chosen
in the initial state, says which one runs; their product would add no case.

`*_proof` modules hold the theorems (section 5); **SeqFacts** the lemmas about sequences that they share.

`MC*` modules are the instances; every `\* Mutant:` operator is a plausible bug
of the definition that follows it, used to see that each property can fail.

## 4. Runs

| Run | Shows | Bounds and why they suffice |
|---|---|---|
| `framering` | type, bounded list, at most one lap off, refines `FrameFeed` | 2 slots, queue of 2, 2 starts, 5 frames: every slot is used in two laps and a frame of the first run can meet its number in the second |
| `framering_torn` | **violation**: a frame that passed both checks is torn or another one | same, smaller |
| `risk` | one incident per window, each on a fresh score, alternation of streams | 1 track (tracks share only the streams), streams and batches of 2, window 2, prune age 3: prune falls inside and after a window |
| `risk_lag` | **violation**: a lag longer than prune age less window doubles an incident | lag above that difference |
| `risk_starved` | **violation**: `block=0` starves behavior events | no scores needed |
| `store` | escalated incidents listed, verdicts recorded, none left open | 2 gateways, 2 incidents of one camera, rounds of 1 row: one has to wait for the other, and both engines may hold it; 2 reviews at once, with verdicts DISMISSED and ESCALATED |
| `store_open` | **violation**: an engine escalates a row that is reviewed, or escalated, already | same |
| `consumers` | tracking: types; zone events alternate, an interaction is sustained, a pickup means fewer items, confirmation and accusation have their support, reports in order, frames served after events. Alerting: refines `RateLimit`, routine limit, no needless suppression, service | tracking: 1 person, 1 place, 1 zone, 5 scenes, 3 frames, 1 fault: a scene of each kind (item, reaching, hiding, gone, a gap longer than the buffers), streams short enough to trim; persons share no state but the item registry. Alerting: 1 camera (windows are per camera; the batch mixes severities), window 3, limits 1 and 2, delay 1, instants 3 to 7: two windows follow each other |
| `tracking_exit` | **violation**: a person who hid an item leaves and no exit is noticed | no faults |
| `frames` | **violation**: two events of one frame confirm each other | no faults, a scene of two items |
| `platform` | the properties of the parts, see below | see below |
| `stall` | **violation**: a client that stalls holds up another | same |

Run `platform`, part by part:

| Part | Properties | Bounds |
|---|---|---|
| hub | `OvertakenOnlyInHand`: only messages in the hands of dispatchers are overtaken, and none is lost but in sending, in `stop`, or as the oldest of a full queue; `ReadersLeaveNothingOut`; `ServedUnlessStalled` | 2 clients, one of all cameras, 2 dispatchers, queues of 2; clients and entries together at most 4: a queue overflows, two sends overlap, one client waits for the other |
| sse | `ReadersLeaveNothingOut`: nothing is left out between two entries sent | 2 cameras, 3 events, 2 requests |
| pose | `PosesOfTheTrack`; `ScoresApart`: a score within the stride shares no pose with the last | 2 persons, 4 frames, 2 ticks, stride 1: a person too small for a pose, an eviction that forgets a score just made, a restart |
| streaming | `ViewerIsCurrent`: a full queue loses its oldest picture | 2 viewers, queues of 2, 4 pictures |
| registry | `ActivesOverlapped`: two active versions only after calls that overlapped | 4 calls, 3 at once |
| edge | `SyncedInTheEnd` | 3 alerts, 2 faults |
| breaker | `ClosedMeansFewFailures`: while closed, fewer commands failed in a row, retries included, than the threshold and one per task | 3 tasks, threshold 2, 2 outages |
| analysis | `CalibratesToBest`, `GroupsAreApart` | 2 cameras, 3 incidents, 3 thresholds |
| log | `LoggedIsKept`: a line is lost only if it was appended during a rewrite, a restart cut one, or it was glued to a line so cut | 3 incidents, 2 verdicts |
| list, hook | `ListMatchesFilters`, `OneSourceOpen` | 3 fetches of 2 filters and 2 pages; 5 sources, 2 timers |

The assumptions of `MCTracking` and `MCConsumers` check the pure operators against
reference definitions over bounded inputs: overlap counts pixels, polygons
enclose what lies between their sides, hiding means a hand within reach, occlusion as a
function of the whole film, repeated signals do not validate a track, the threshold stays in
range, priority falls with age and rises with risk. `LeavingEarnsNothing` shows that
two of the three names that earn a bonus are no stages of `TheftStage`, so that an exit
after a concealment, +0.3 in the head of `priority.py`, ranks below the concealment itself.

The violations are disagreements of the code with its own comments; PROJECT.json
quotes them under `findings`. `ReadIsPointedFrame` (`shm.py:55`): the generation
changes only after the copy. `OneIncidentPerWindow` (`engine.py:196`): with the
code's numbers, a lag of more than 60 - 30 s. `ServedWithoutScores`
(`risk/main.py:55`). `OnlyOpenEscalated` (`escalation.py:80`): the UPDATE does not look at the status
again, which may be a verdict by then, or ESCALATED by another gateway's engine.
`ExitIsNoticed` (`confirmation.py:85`): one `ZONE_EXIT` is no majority of three frames.
`FramesAgree` (`confirmation.py:72`): votes are of events, not of frames; `ConfirmedHasSupport` is what
holds. `OthersNotHeldUp` (`ws_router.py:195`): the send is awaited without a timeout, so a
client that stalls takes one dispatcher per message; `ServedUnlessStalled` is what holds.

Six more have no run of their own; each follows from a step that the models take, and a passing
property states what remains:
- `persistence/main.py:53`: the first incident of a camera without a row is refused by the foreign key, and
  the placeholder that should prevent it comes after it (`InsertIncident`).
- `model_registry.py:52`: "only one active version per model_name" (line 10) does not hold after calls that
  overlapped; `ActivesOverlapped` says that it takes such calls.
- `shopformer/main.py:73`: a track may be scored again within the stride, against line 61, as `evict_stale`
  judges by capture time and forgets when it was scored; `ScoresApart` says that the poses are new then.
- `behavior/main.py:60`: `block=0` waits for an association event, where line 57 speaks of draining;
  `FramesServedAfterEvents` promises service only once an event has come.
- `redis_resilient.py:122`: half open, every caller is let through, not the one of line 34 and 121.
- `demo_mode.py:133`: the demo's entries do not decode, so the feed line 129 wants lively shows nothing.

`test_alert_cooldown.py:58-66` ("different tracks independent") is about `is_suppressed` and
`mark_alerted`, which no service calls: the limit that alerting applies is per camera, and
tracks of a camera use it up together (`RoutineAlertsApart`).

Deadlock is not checked in `platform`, `stall`, `consumers`, `tracking_exit`, `frames` and `store*`, where the system stops once the bounded
number of incidents is dealt with, or in runs whose .cfg says so for their bound
on frames or time.

**Fairness.** Weak fairness on what a loop does next, given that Redis or the
database answers (`Consumer`; the `Round` of each engine; `BehaviorLoop`;
the dispatchers of the hub; the steps of the sync worker): asyncio
schedules a ready task, and no loop waits on another. Nothing is assumed of
cameras, upstream services, operators, restarts or the clock. Liveness properties state under
which conditions they hold: that the task is not dead and restarts end (the loops of risk, alerting and behavior catch no exception of a
read, which ends the task for good), that the
engines no longer fail and operators stop to reopen incidents.

## 5. Proofs

All are for every value of the constants that the named assumption of the module
allows (`RingAssumption`, `RiskAssumption`, `AlertingAssumption`, `StoreAssumption`,
`AssociationAssumption`, `BehaviorAssumption` and those of the parts of `Platform`),
with no bound on time or steps. Hardly any of the safety properties is inductive; each
proof goes through a strengthening that TLC checked first.

`FrameRing_proof`: the types hold (`TypeCorrect`), the list stays bounded
(`QueueStaysBounded`), a frame handed over is at most one lap off while the ring
was not initialised again (`ReadWithinOneLap`), and the module implements
`FrameFeed` (`FeedImplemented`): `OrderInv` keeps the pointers in order from the camera thread to the
reader, `LapInv` and `PictureInv` say what frames each half in memory and in the reader's hands can be of.

`IncidentStore_proof`, for any number of gateways and any verdicts: types (`TypeCorrect`), what an
engine escalated has its record (`EscalatedAreListed`), the verdict in a row is that of a review
(`VerdictsAreRecorded`). Both are inductive with the types, which tie rows, records and
reviews to stored incidents: a row is never deleted, so what an engine or a review holds stays there.

`RiskConsumer_proof`: types (`TypeCorrect`), an incident rests on a fresh score
of its own track (`IncidentsRestOnScores`), and one incident per window (`WindowKept`)
under `MaxLag + Window <= PruneAge`. That premise is not one the code ensures;
run `risk_lag` shows the property broken without it. `WindowInv` says of a track
whose state was pruned that its last incident is so old that no event still in the
stream, in the batch or to come within the lag can fall into its window.

`Alerting_proof`: types (`TypeCorrect`), `LimiterImplemented` (the refinement of
`RateLimit`), `RoutineLimited` and `SuppressedOnlyAtLimit`. The script counts
members of a sorted set, which is trimmed by a clock read earlier and dropped
when its key expires. `RateInv` says that each member stands for one alert no older
than its score and that each alert keeps its member until its window, less
`MaxDelay`, is over. From it the set of recent alerts injects into the members the
script counts (`CountsEnough`), and they into the alerts of a slightly longer window
(`CountsNoMore`). `PriorityIsMonotone` says for every stage, risk and age what `MCConsumers` compares
on samples: priority falls with age, rises with risk, and is highest for CRITICAL incidents only.

`Tracking_proof`, about the composition of the two services:
- `TypeCorrect`, by way of `TypesOK`, which splits the types by owner: the streams, each service.
- `ZoneEventsCorrect`, `InteractionsCorrect`, `PickupsCorrect`, from `AssocInv`. `NearInv`
  backs the counter of near frames by as many sightings, `ItemsInv` the registry by frames shown.
  `TurnInv` relates three places: of a person and a zone at most one event waits, it agrees with
  `active_zones` and differs from the one told last; when none waits, the one told last agrees.
  It is why `ProcessFrame` may only run on an empty outbox.
- `ReportsOrdered`, from `OrderInv`: what was reported, the reports in hand, the batch and the
  stream are in the order of their times, one behind the other.
- `SignalsAreSupported`: the votes of a buffer, and each signal confirmed, are a chain of events
  used, each within `ConfirmAge` of the next (`VotesInv`, `ChainInv`). A vote of a frame without
  an event is FALSE and is not part of the chain, but moves older votes out.
- `NobodyAccusedForNothing`: the pickups used, buffered and in the stream are together no more than
  those published (`PickupsInv`: a conservation law that trimming, failures and restarts only make
  slack), and a context that counts as having picked up or hidden something, even from an earlier
  frame, has a majority of them used (`TracksInv`).

`Feeds_proof`:
- `StreamingCorrect`: notices waiting, in hand, in a viewer's queue and shown are in order.
- `PosesCorrect`, `ScoresAreApart`: `PoseInv` says that the persons in hand of the detector, the
  keys and the windows match, and that the window of a track whose last score time an eviction forgot
  holds only poses pushed since that score.
- `HubCorrect`: `QueueInv` holds of every queue with any number of dispatchers: in order, nothing twice,
  nothing after it was given up; `DueInv` accounts for every message made for a client; `HubReadsOn`: what was read of a stream is a run up to its cursor.
- `SseCorrect`: what was sent is a run of the stream, and what was read follows it.

`Services_proof`:
- `RegistryCorrect`: once a call has deactivated, the rows active since are of calls it overlaps with.
- `BreakerCorrect`: while closed, what failed in a row is at most what is counted and one retry of each task: a
  retry follows an answer, so since the last one no task has had two (`BreakerInv`).
- `ListCorrect`, `HookCorrect`: `ListInv` keeps the newest request and the newest answer apart.
- `EvalLogCorrect`: while a handler rewrites the file, the lines not yet back are in its copy (`CopyInv`),
  and only then may the file lack them (`FileInv`); a file whose last line has no end holds
  exposed lines only (`EndInv`).
- `EdgeCorrect`: the alerts delivered, in the worker's batch and in the file follow each other in the
  order pushed (`EdgeInv`), and together are all of them while nothing failed.
- `CalibrationCorrect`, `GroupsCorrect`: folds, by induction over what was handled.
- `ReadersCorrect`, `PlatformCorrect`: the properties in the composition. A step of one part leaves the
  variables of the others alone, so each theorem lifts.

`SeqFacts`, `Selection`: the library's induction theorems take an operator as a parameter, which the
provers here cannot instantiate. `NatInd` states induction for a set of numbers instead,
from the well-foundedness of `<`, and `RecursionExists` that a function defined by a step
exists. From these two come what selecting and joining give (`SelectedFacts`,
`JoinedFacts`: where each element comes from, in order and once) and how occurrences add up (`CountConcat`,
`SelectedWithin`).

Only model-checked, because the prover handles neither fairness nor ENABLED: the liveness
properties `ServedWhileScored`, `IncidentsServed`, `NoneLeftOpen`, `FramesServedAfterEvents`,
`ServedUnlessStalled` and `SyncedInTheEnd`. The runs that expect a violation are counterexamples,
and the pure operators of `Geometry` and `TrackQuality` are compared with their
reference definitions by TLC only.

## 6. Not modelled

- *Numerical code*: networks, OC-SORT, image operations, ShopFormer's training and export, video
  sources. Their results enter the models as inputs.
- *Code that nothing calls*: heatmap, `TrackConfidence`, `is_suppressed`, `mark_alerted` and `clear` of
  `cooldown.py`. (Edge mode, circuit breaker, occlusion, cross-signal gate and scene context have
  no caller either, but behavior worth checking.)
- *Read-only code*: queries, statistics, health, metrics, logging, evaluation reports, roles, pages.
- *Alert channels*: their answers are only logged, so `AckIncident` follows whatever they do.
- *Evidence frames*: `capture_evidence` runs over a connection that its caller has
  released (`persistence/main.py:151`), so its INSERT fails whenever it runs and the cleaner finds no rows.
- *Start-up and shutdown of the gateway*: a list of tasks started and cancelled.
- *Reconnecting to a video source*: for the ring it is a pause of the writer.
- *Stream trimming* under the hub and the server-sent events: both are taken to keep up.
- *Encoding*: events are JSON with all the fields the models use; a malformed
  entry is handled as any that raises. Redis and PostgreSQL are taken to do each
  command and statement atomically; losing the data of either is left out.
