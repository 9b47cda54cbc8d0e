---- MODULE SseFeed ----
(* A server-sent event stream of the gateway (stream_incidents or stream_risk in *)
(* gateway/main.py): a generator per request with its own cursor in one Redis   *)
(* stream, which the services and the demo generator (core/demo_mode.py) fill.  *)
(* A step runs from one await to the next. The stream is assumed to keep what   *)
(* the generator has still to read.                                             *)
EXTENDS Integers, Sequences

CONSTANTS
  FeedCameras,
  FeedBatch,     \* count of XREAD
  MaxEvents,     \* bound: entries added
  MaxRequests    \* bound: requests, one after the other

ASSUME SseAssumption == {MaxEvents, MaxRequests} \subseteq Nat /\ FeedBatch \in Nat \ {0}

VARIABLES
  watched,     \* camera of stream_risk, or "all" for stream_incidents
  feed,        \* entries added: camera, and who added it
  demo,        \* the demo generator runs
  request,     \* number of the request
  live,        \* its generator runs
  lastId,      \* -1 stands for "$"
  waitsFrom,   \* XREAD waits for entries after this one; -1: it was not sent
  readEvents,  \* numbers of the entries read and not handled yet
  received,    \* what the browser got in this request
  firstRead, notSent   \* history: first entry read, entries whose risk could not be had

feedState == <<watched, feed, demo>>
sseVars == <<feedState, request, live, lastId, waitsFrom, readEvents, received, firstRead, notSent>>

SseInit ==
  /\ watched \in FeedCameras \cup {"all"}
  /\ feed = <<>> /\ demo = FALSE
  /\ request = 0 /\ live = FALSE /\ lastId = -1 /\ waitsFrom = -1 /\ readEvents = <<>>
  /\ received = <<>> /\ firstRead = 0 /\ notSent = {}

requestVars == <<request, live, lastId, waitsFrom, readEvents, received, firstRead, notSent>>

AddEvent(cam) ==
  /\ Len(feed) < MaxEvents
  /\ feed' = Append(feed, [camera |-> cam, by |-> "service"])
  /\ UNCHANGED <<watched, demo, requestVars>>

(* The loop of the generator. *)
DemoEvent ==
  /\ demo /\ Len(feed) < MaxEvents
  /\ feed' = Append(feed, [camera |-> "demo", by |-> "demo"])
  /\ UNCHANGED <<watched, demo, requestVars>>

StartDemo == demo' = TRUE /\ UNCHANGED <<watched, feed, requestVars>>
StopDemo == demo' = FALSE /\ UNCHANGED <<watched, feed, requestVars>>

OpenRequest ==
  /\ ~live /\ request < MaxRequests
  /\ request' = request + 1 /\ live' = TRUE
  /\ lastId' = -1 /\ waitsFrom' = -1 /\ readEvents' = <<>>
  /\ received' = <<>> /\ firstRead' = 0 /\ notSent' = {}
  /\ UNCHANGED feedState

(* "$" means what is added from now on. *)
SendXread ==
  /\ waitsFrom = -1 /\ readEvents = <<>>
  /\ waitsFrom' = IF lastId = -1 THEN Len(feed) ELSE lastId
  /\ UNCHANGED <<feedState, request, live, lastId, readEvents, received, firstRead, notSent>>

XreadReturns ==
  /\ waitsFrom >= 0 /\ waitsFrom < Len(feed)
  /\ \E last \in waitsFrom + 1..Len(feed) :
       /\ last = Len(feed) \/ last = waitsFrom + FeedBatch
       /\ last <= waitsFrom + FeedBatch
       /\ readEvents' = [i \in 1..last - waitsFrom |-> waitsFrom + i]
  /\ firstRead' = IF firstRead = 0 THEN waitsFrom + 1 ELSE firstRead
  /\ waitsFrom' = -1
  /\ UNCHANGED <<feedState, request, live, lastId, received, notSent>>

XreadTimesOut ==
  /\ waitsFrom >= 0
  /\ waitsFrom' = -1
  /\ UNCHANGED <<feedState, request, live, lastId, readEvents, received, firstRead, notSent>>

(* A synthetic entry lacks fields the decoders want (status, evidence paths,    *)
(* signals), and its stages and ways to hide are not those of the enums.        *)
Decodes(e) == e.by # "demo"

Wanted(n) == Decodes(feed[n]) /\ watched \in {"all", feed[n].camera}

\* Mutant: the cursor moves only when an entry is sent.
CursorIfSent(n) == IF Wanted(n) THEN n ELSE lastId
CursorAfter(n) == n

TakeEvent ==
  /\ readEvents # <<>>
  /\ LET n == Head(readEvents)
     IN /\ lastId' = CursorAfter(n)
        /\ received' = IF Wanted(n) THEN Append(received, n) ELSE received
  /\ readEvents' = Tail(readEvents)
  /\ UNCHANGED <<feedState, request, live, waitsFrom, firstRead, notSent>>

(* The risk of the track is fetched before an event of stream_risk is sent; if  *)
(* that raises the event is left out.                                           *)
RiskFails ==
  /\ readEvents # <<>> /\ watched # "all" /\ Wanted(Head(readEvents))
  /\ lastId' = Head(readEvents)
  /\ notSent' = notSent \cup {Head(readEvents)}
  /\ readEvents' = Tail(readEvents)
  /\ UNCHANGED <<feedState, request, live, waitsFrom, received, firstRead>>

(* The browser goes, or XREAD raises, which nobody catches. *)
EndRequest ==
  /\ live' = FALSE
  /\ waitsFrom' = -1 /\ readEvents' = <<>>
  /\ UNCHANGED <<feedState, request, lastId, received, firstRead, notSent>>

SseNext ==
  \/ \E cam \in FeedCameras : AddEvent(cam)
  \/ DemoEvent \/ StartDemo \/ StopDemo \/ OpenRequest
  \/ live /\ (SendXread \/ XreadReturns \/ XreadTimesOut \/ TakeEvent \/ RiskFails \/ EndRequest)
SseSpec == SseInit /\ [][SseNext]_sseVars

(* From the first entry a request reads, the browser gets every entry it asked  *)
(* for up to the cursor, once and in order, except those whose risk could not   *)
(* be had; what is added before the first was read may be passed over            *)
(* (gateway/main.py:390).                                                       *)
SentIsContiguous ==
  /\ \A i, j \in DOMAIN received : i < j => received[i] < received[j]
  /\ {received[i] : i \in DOMAIN received} =
       {n \in firstRead..lastId : firstRead # 0 /\ Wanted(n) /\ n \notin notSent}
====
