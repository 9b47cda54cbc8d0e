---- MODULE EventStream ----
(* The hook for server-sent events (hooks/useSSE.ts) of one component: event    *)
(* sources, the one the ref holds, and timers to reconnect that nobody clears.  *)
EXTENDS Integers, FiniteSets

CONSTANTS Urls, MaxSources, MaxTimers   \* MaxSources and MaxTimers are bounds

ASSUME HookAssumption == MaxSources \in Nat /\ MaxTimers \in Nat

VARIABLES
  shownUrl,   \* url of the last render, or "new" before and "unmounted" after
  ref,        \* esRef: number of an event source, or 0
  sources,    \* url and state of every EventSource made
  timers      \* reconnects to come, by url: the connect of the render that made it

hookVars == <<shownUrl, ref, sources, timers>>

HookInit ==
  /\ shownUrl = "new" /\ ref = 0 /\ sources = <<>>
  /\ timers = [u \in Urls |-> 0]

\* Mutant: connect only sets the ref.
LeftOpen == sources
ClosedByRef == [i \in DOMAIN sources |-> [sources[i] EXCEPT !.open = @ /\ i # ref]]

OpenSource(u) ==
  LET n == Cardinality(DOMAIN sources) + 1
  IN /\ n <= MaxSources
     /\ sources' = [i \in 1..n |-> IF i = n THEN [url |-> u, open |-> TRUE] ELSE ClosedByRef[i]]
     /\ ref' = n

(* A component mounted again has a ref and timers of its own: another behaviour *)
(* of this module.                                                              *)
Mount(u) ==
  /\ shownUrl = "new"
  /\ OpenSource(u) /\ shownUrl' = u
  /\ UNCHANGED timers

(* The cleanup of the old effect closes what the ref holds, then the new one    *)
(* connects.                                                                    *)
ChangeUrl(u) ==
  /\ shownUrl \notin {"new", "unmounted", u}
  /\ OpenSource(u) /\ shownUrl' = u
  /\ UNCHANGED timers

Unmount ==
  /\ shownUrl \in Urls
  /\ sources' = ClosedByRef /\ ref' = 0 /\ shownUrl' = "unmounted"
  /\ UNCHANGED timers

(* onerror; the url is that of the source. *)
SourceFails(i) ==
  /\ sources[i].open /\ timers[sources[i].url] < MaxTimers
  /\ sources' = [sources EXCEPT ![i].open = FALSE]
  /\ ref' = 0
  /\ timers' = [timers EXCEPT ![sources[i].url] = @ + 1]
  /\ UNCHANGED shownUrl

(* Also after the component was unmounted or got another url. *)
TimerFires(u) ==
  /\ timers[u] > 0
  /\ OpenSource(u)
  /\ timers' = [timers EXCEPT ![u] = @ - 1]
  /\ UNCHANGED shownUrl

HookNext ==
  \/ \E u \in Urls : Mount(u) \/ ChangeUrl(u) \/ TimerFires(u)
  \/ Unmount \/ \E i \in DOMAIN sources : SourceFails(i)
HookSpec == HookInit /\ [][HookNext]_hookVars

(* However many timers are left over, a component has at most one source open,  *)
(* the one its ref holds and can close; which url it has, and whether the       *)
(* component still is there, is another matter (useSSE.ts:48).                  *)
OneSourceOpen == \A i \in DOMAIN sources : sources[i].open => i = ref
====
