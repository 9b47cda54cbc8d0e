---- MODULE Platform ----
(* The parts around the pipeline, side by side. They share no state with each   *)
(* other, so a behavior is one of one part, which the initial state chooses:    *)
(* their product would multiply states and add no case.                         *)
EXTENDS WsHub, PosePath, Streaming, ModelRegistry, EdgeSync, CircuitBreaker, IncidentList, EventStream, Analysis, EvalLog, SseFeed

VARIABLE part   \* the part that runs

browserVars == <<listVars, hookVars>>
serviceVars == <<registryVars, edgeVars, breakerVars, analysisVars, logVars>>
feedVars == <<hubVars, poseVars, streamingVars, sseVars>>

platformVars == <<part, feedVars, serviceVars, browserVars>>

PlatformInit ==
  /\ part \in {"hub", "pose", "streaming", "registry", "edge", "breaker", "analysis", "log", "list", "hook", "sse"}
  /\ HubInit /\ PoseInit /\ StreamingInit /\ SseInit
  /\ RegistryInit /\ EdgeInit /\ BreakerInit /\ AnalysisInit /\ EvalLogInit
  /\ ListInit /\ HookInit
  /\ part # "sse" => watched = "all"   \* one value where it does not matter

FeedNext ==
  \/ part = "hub" /\ HubNext /\ UNCHANGED <<poseVars, streamingVars, sseVars>>
  \/ part = "pose" /\ PoseNext /\ UNCHANGED <<hubVars, streamingVars, sseVars>>
  \/ part = "streaming" /\ StreamingNext /\ UNCHANGED <<hubVars, poseVars, sseVars>>
  \/ part = "sse" /\ SseNext /\ UNCHANGED <<hubVars, poseVars, streamingVars>>

ServiceNext ==
  \/ part = "registry" /\ RegistryNext /\ UNCHANGED <<edgeVars, breakerVars, analysisVars, logVars>>
  \/ part = "edge" /\ EdgeNext /\ UNCHANGED <<registryVars, breakerVars, analysisVars, logVars>>
  \/ part = "breaker" /\ BreakerNext /\ UNCHANGED <<registryVars, edgeVars, analysisVars, logVars>>
  \/ part = "analysis" /\ AnalysisNext /\ UNCHANGED <<registryVars, edgeVars, breakerVars, logVars>>
  \/ part = "log" /\ EvalLogNext /\ UNCHANGED <<registryVars, edgeVars, breakerVars, analysisVars>>

BrowserNext ==
  \/ part = "list" /\ ListNext /\ UNCHANGED hookVars
  \/ part = "hook" /\ HookNext /\ UNCHANGED listVars

PlatformNext ==
  /\ UNCHANGED part
  /\ \/ FeedNext /\ UNCHANGED <<serviceVars, browserVars>>
     \/ ServiceNext /\ UNCHANGED <<feedVars, browserVars>>
     \/ BrowserNext /\ UNCHANGED <<feedVars, serviceVars>>

FairPlatform == PlatformInit /\ [][PlatformNext]_platformVars /\ HubFairness /\ EdgeFairness

(* No reader of a stream that starts at "$" leaves out an entry after its first *)
(* one: neither the hub (ws_router.py:105) nor a request for server-sent events *)
(* (gateway/main.py:390).                                                       *)
ReadersLeaveNothingOut == ReadWithoutGap /\ SentIsContiguous
====
