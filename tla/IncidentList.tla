---- MODULE IncidentList ----
(* The list of incidents in the browser: the store (stores/incidents.ts), the   *)
(* effect that fetches (hooks/useIncidents.ts) and requests whose answers come  *)
(* in any order. Live events do not reach the list: what the gateway sends has  *)
(* no "type" (gateway/main.py:384), so upsertIncident is not called.            *)
EXTENDS Integers

CONSTANTS Filters, Pages, MaxFetches   \* MaxFetches is a bound

ASSUME ListAssumption == 0 \in Pages /\ MaxFetches \in Nat

VARIABLES
  filters, page,
  effectDue,   \* rendered with new filters or page, effect not run yet
  asked,       \* number of fetches
  requests,    \* those not answered: number, filters and page
  shownList,   \* the list, by the filters and page it is of
  loading, failedToLoad,
  lastAnswer   \* history: the request answered last

listVars == <<filters, page, effectDue, asked, requests, shownList, loading, failedToLoad, lastAnswer>>

NoList == [filters |-> "none", page |-> 0]

ListInit ==
  /\ filters = "any" /\ page = 0 /\ effectDue = TRUE
  /\ asked = 0 /\ requests = {} /\ shownList = NoList
  /\ loading = FALSE /\ failedToLoad = FALSE /\ lastAnswer = 0

(* Setting filters always makes a new object, so the effect runs again; a page  *)
(* is compared by value.                                                        *)
SetFilters(f) ==
  /\ filters' = f /\ page' = 0 /\ effectDue' = TRUE
  /\ UNCHANGED <<asked, requests, shownList, loading, failedToLoad, lastAnswer>>

\* Mutant: the effect does not depend on the page.
FilterRendered(p) == effectDue
PageRendered(p) == effectDue \/ p # page

SetPage(p) ==
  /\ page' = p /\ effectDue' = PageRendered(p)
  /\ UNCHANGED <<filters, asked, requests, shownList, loading, failedToLoad, lastAnswer>>

(* What getIncidents asks for. *)
Query == [filters |-> filters, page |-> page]

Fetch ==
  /\ asked < MaxFetches
  /\ asked' = asked + 1
  /\ requests' = requests \cup {[n |-> asked + 1, of |-> Query]}
  /\ loading' = TRUE /\ failedToLoad' = FALSE
  /\ UNCHANGED <<filters, page, shownList, lastAnswer>>

RunEffect == effectDue /\ Fetch /\ effectDue' = FALSE
Refetch == ~effectDue /\ Fetch /\ UNCHANGED effectDue

AnswerComes(r) ==
  /\ shownList' = r.of
  /\ requests' = requests \ {r} /\ lastAnswer' = r.n
  /\ loading' = FALSE
  /\ UNCHANGED <<filters, page, effectDue, asked, failedToLoad>>

(* The gateway answers an error, the network fails or what comes is no JSON. *)
AnswerFails(r) ==
  /\ failedToLoad' = TRUE /\ loading' = FALSE
  /\ requests' = requests \ {r} /\ lastAnswer' = r.n
  /\ UNCHANGED <<filters, page, effectDue, asked, shownList>>

ListNext ==
  \/ \E f \in Filters : SetFilters(f)
  \/ \E p \in Pages : SetPage(p)
  \/ RunEffect \/ Refetch
  \/ \E r \in requests : AnswerComes(r) \/ AnswerFails(r)
ListSpec == ListInit /\ [][ListNext]_listVars

(* Once all is answered the list is the one asked for, and nothing is shown as  *)
(* loading, unless an answer was overtaken by that of a later request, in this  *)
(* order the older list stays, or the last failed (incidents.ts:70).            *)
ListMatchesFilters ==
  requests = {} /\ ~effectDue =>
    /\ ~loading
    /\ lastAnswer = asked /\ ~failedToLoad => shownList = Query
====
