---- MODULE IncidentStore ----
(***************************************************************************)
(* Incidents in PostgreSQL, and those that write them: the persistence     *)
(* service (persistence/main.py), the escalation engine that each gateway  *)
(* process runs (alerting/escalation.py; deploy/k8s has two of them), and  *)
(* operators through the gateways' endpoints create_camera,                *)
(* review_incident and acknowledge_alert.                                  *)
(*                                                                         *)
(* No code opens a transaction: every SQL statement commits by itself and  *)
(* is one step.  Incidents are numbered by risk, the riskiest last.        *)
(***************************************************************************)
EXTENDS Naturals, FiniteSets

CONSTANTS
  Cameras,
  Gateways,       \* gateway processes, each with its engine
  Verdicts,       \* what a review may write: the endpoint takes any string
  NumIncidents,   \* bound: how many incidents there are
  CameraOf,       \* the camera of each incident
  BatchLimit,     \* LIMIT of the engine's SELECT
  MaxReviews      \* bound: how many reviews are recorded or under way

Incidents == 1 .. NumIncidents

ASSUME StoreAssumption ==
  /\ NumIncidents \in Nat /\ BatchLimit \in Nat \ {0} /\ MaxReviews \in Nat
  /\ CameraOf \in [Incidents -> Cameras]
  /\ "none" \notin Verdicts

Statuses == {"none", "OPEN", "ESCALATED"} \cup Verdicts

VARIABLES
  stream,       \* incidents on netra:incidents that are not yet delivered
  emitted,      \* incidents raised so far
  ppc, inHand,  \* where persistence is, and the incident it handles
  cameras,      \* table cameras
  status,       \* table incidents: column status, "none" where there is no row
  old,          \* incidents that occurred escalation_minutes ago or more
  escalations,  \* table alert_escalations
  reviews,      \* table reviews
  epc, rows,    \* per gateway: where its engine is, and the rows of its SELECT
  pending,      \* reviews whose INSERT is still to come
  cut           \* history: incidents whose escalation or review was cut short

persistence == <<stream, emitted, ppc, inHand>>
engine == <<epc, rows, escalations>>
operators == <<reviews, pending>>
vars == <<persistence, engine, operators, cameras, status, old, cut>>

Init ==
  /\ stream = {} /\ emitted = {} /\ ppc = "read" /\ inHand = 0
  /\ cameras = {}
  /\ status = [i \in Incidents |-> "none"] /\ old = {}
  /\ escalations = {} /\ reviews = {}
  /\ epc = [g \in Gateways |-> "sleep"] /\ rows = [g \in Gateways |-> {}]
  /\ pending = {}
  /\ cut = {}

----
(* The persistence service *)

\* The risk service raises an incident.
EmitIncident ==
  \E i \in Incidents \ emitted :
    /\ emitted' = emitted \cup {i} /\ stream' = stream \cup {i}
    /\ UNCHANGED <<ppc, inHand, engine, operators, cameras, status, old, cut>>

\* Mutant: the entry stays in the stream until it is acknowledged.
TakeUnacknowledged ==
  \E i \in stream :
    /\ ppc = "read"
    /\ inHand' = i /\ ppc' = "insert"
    /\ UNCHANGED <<stream, emitted, engine, operators, cameras, status, old, cut>>

\* The next entry; in which order they come does not matter here.
TakeIncident ==
  \E i \in stream :
    /\ ppc = "read"
    /\ stream' = stream \ {i} /\ inHand' = i /\ ppc' = "insert"
    /\ UNCHANGED <<emitted, engine, operators, cameras, status, old, cut>>

\* INSERT INTO incidents: the foreign key refuses it when the camera has no
\* row; the error is logged and the entry acknowledged.
InsertIncident ==
  /\ ppc = "insert"
  /\ IF CameraOf[inHand] \in cameras
       THEN /\ status' = [status EXCEPT ![inHand] = IF @ = "none" THEN "OPEN" ELSE @]
            /\ ppc' = "camera"
            /\ UNCHANGED inHand
       ELSE /\ ppc' = "read" /\ inHand' = 0
            /\ UNCHANGED status
  /\ UNCHANGED <<stream, emitted, engine, operators, cameras, old, cut>>

\* INSERT INTO cameras ... ON CONFLICT DO NOTHING, and XACK.
InsertPlaceholder ==
  /\ ppc = "camera"
  /\ cameras' = cameras \cup {CameraOf[inHand]}
  /\ ppc' = "read" /\ inHand' = 0
  /\ UNCHANGED <<stream, emitted, engine, operators, status, old, cut>>

\* The database fails or the process restarts: the entry in hand is
\* acknowledged or, as ">" is read, never delivered again.
PersistenceFails ==
  /\ ppc # "read"
  /\ ppc' = "read" /\ inHand' = 0
  /\ UNCHANGED <<stream, emitted, engine, operators, cameras, status, old, cut>>

----
(* The escalation engine of a gateway *)

Stored == {i \in Incidents : status[i] # "none"}

\* escalation_minutes have passed since the incident occurred.  Nobody can
\* tell before it has a row.
Age ==
  \E i \in Stored \ old :
    /\ old' = old \cup {i}
    /\ UNCHANGED <<persistence, engine, operators, cameras, status, cut>>

\* Mutant: the SELECT takes escalated incidents too.
EligibleUnreviewed == {i \in old : status[i] \in {"OPEN", "ESCALATED"}}

Eligible == {i \in old : status[i] = "OPEN"}

\* ORDER BY risk_score DESC LIMIT
Riskiest == {i \in Eligible : Cardinality({j \in Eligible : j > i}) < BatchLimit}

\* One round of _check_loop starts.  Without rows it sleeps on.
Select(g) ==
  /\ epc[g] = "sleep" /\ Riskiest # {}
  /\ rows' = [rows EXCEPT ![g] = Riskiest]
  /\ epc' = [epc EXCEPT ![g] = "update"]
  /\ UNCHANGED <<escalations, persistence, operators, cameras, status, old, cut>>

\* UPDATE ... WHERE id = ANY(ids): whatever the status has become meanwhile.
Escalate(g) ==
  /\ epc[g] = "update"
  /\ status' = [i \in Incidents |-> IF i \in rows[g] THEN "ESCALATED" ELSE status[i]]
  /\ epc' = [epc EXCEPT ![g] = "insert"]
  /\ UNCHANGED <<rows, escalations, persistence, operators, cameras, old, cut>>

\* Mutant: records only for the rows that are still open.
WriteOpenRecords(g) ==
  /\ epc[g] = "insert"
  /\ escalations' = escalations \cup {i \in rows[g] : status[i] = "OPEN"}
  /\ epc' = [epc EXCEPT ![g] = "sleep"] /\ rows' = [rows EXCEPT ![g] = {}]
  /\ UNCHANGED <<persistence, operators, cameras, status, old, cut>>

\* executemany INSERT ... ON CONFLICT DO NOTHING, all or nothing.
WriteRecords(g) ==
  /\ epc[g] = "insert"
  /\ escalations' = escalations \cup rows[g]
  /\ epc' = [epc EXCEPT ![g] = "sleep"] /\ rows' = [rows EXCEPT ![g] = {}]
  /\ UNCHANGED <<persistence, operators, cameras, status, old, cut>>

\* A statement raises, or the task is cancelled or dies with its gateway.
EngineFails(g) ==
  /\ epc[g] # "sleep"
  /\ cut' = IF epc[g] = "insert" THEN cut \cup (rows[g] \ escalations) ELSE cut
  /\ epc' = [epc EXCEPT ![g] = "sleep"] /\ rows' = [rows EXCEPT ![g] = {}]
  /\ UNCHANGED <<escalations, persistence, operators, cameras, status, old>>

----
(* Operators *)

CreateCamera ==
  \E c \in Cameras \ cameras :
    /\ cameras' = cameras \cup {c}
    /\ UNCHANGED <<persistence, engine, operators, status, old, cut>>

\* review_incident: the UPDATE ...
Review ==
  \E i \in Stored, v \in Verdicts :
    /\ Cardinality(reviews \cup pending) < MaxReviews
    /\ status' = [status EXCEPT ![i] = v]
    /\ pending' = pending \cup {[incident |-> i, verdict |-> v]}
    /\ UNCHANGED <<reviews, persistence, engine, cameras, old, cut>>

\* Mutant: an incident has one row in reviews.
RecordFirstReview ==
  \E r \in pending :
    /\ reviews' = IF \E q \in reviews : q.incident = r.incident THEN reviews ELSE reviews \cup {r}
    /\ pending' = pending \ {r}
    /\ UNCHANGED <<persistence, engine, cameras, status, old, cut>>

\* ... and the INSERT INTO reviews.
RecordReview ==
  \E r \in pending :
    /\ reviews' = reviews \cup {r}
    /\ pending' = pending \ {r}
    /\ UNCHANGED <<persistence, engine, cameras, status, old, cut>>

\* The INSERT raises, or the gateway stops between the two statements.
ReviewFails ==
  \E r \in pending :
    /\ cut' = cut \cup {r.incident}
    /\ pending' = pending \ {r}
    /\ UNCHANGED <<reviews, persistence, engine, cameras, status, old>>

\* acknowledge_alert: one UPDATE that checks the status.
Acknowledge ==
  \E i \in Incidents :
    /\ status[i] = "ESCALATED"
    /\ status' = [status EXCEPT ![i] = "OPEN"]
    /\ UNCHANGED <<persistence, engine, operators, cameras, old, cut>>

Persistence == TakeIncident \/ InsertIncident \/ InsertPlaceholder \/ PersistenceFails
Round(g) == Select(g) \/ Escalate(g) \/ WriteRecords(g)
Operator == CreateCamera \/ Review \/ RecordReview \/ ReviewFails \/ Acknowledge

Next == EmitIncident \/ Age \/ Persistence \/ (\E g \in Gateways : Round(g) \/ EngineFails(g)) \/ Operator

Spec == Init /\ [][Next]_vars

\* An engine's loop runs every minute as long as its gateway does.
FairSpec == Spec /\ \A g \in Gateways : WF_vars(Round(g))

----
(* Every variable keeps to its domain; a row exists only for what was raised. *)
TypeOK ==
  /\ stream \subseteq emitted /\ emitted \subseteq Incidents
  /\ ppc \in {"read", "insert", "camera"} /\ inHand \in 0..NumIncidents
  /\ ppc # "read" => inHand \in emitted \ stream
  /\ cameras \subseteq Cameras
  /\ status \in [Incidents -> Statuses]
  /\ Stored \subseteq emitted \ stream
  /\ old \subseteq Stored /\ escalations \subseteq Stored
  /\ reviews \subseteq [incident : Stored, verdict : Verdicts]
  /\ epc \in [Gateways -> {"sleep", "update", "insert"}]
  /\ rows \in [Gateways -> SUBSET old]
  /\ pending \subseteq [incident : Stored, verdict : Verdicts]
  /\ cut \subseteq Stored

Judged(i, v) == [incident |-> i, verdict |-> v] \in reviews \cup pending

(* An incident that an engine has ESCALATED is on the operators' list of      *)
(* escalations, which joins it with its record: but for one whose escalation  *)
(* was cut short between the two statements, or is between them now.  Other   *)
(* gateways, a later acknowledgement and a second escalation do not lose the  *)
(* record.  ESCALATED without a record is else only what a review wrote.      *)
EscalatedIsListed ==
  \A i \in Incidents :
    status[i] = "ESCALATED" =>
      \/ i \in escalations \cup cut
      \/ \E g \in Gateways : epc[g] = "insert" /\ i \in rows[g]
      \/ Judged(i, "ESCALATED")

(* Whatever several operators and the engines do at once, the verdict in the  *)
(* incident's row is one that a row of reviews has or will have, unless the   *)
(* second statement of a review failed.                                       *)
VerdictIsRecorded ==
  \A i \in Incidents :
    status[i] \in Verdicts \ {"OPEN", "ESCALATED"} => i \in cut \/ Judged(i, status[i])

\* A failure that leaves undone what the round was to do.
CutShort(g) == EngineFails(g) /\ ~WriteRecords(g)
Reopens == \E i \in Incidents : status[i] # "OPEN" /\ status'[i] = "OPEN"

(* Once the database stays up and operators stop to reopen, no incident stays *)
(* OPEN past its time, though a round takes only BatchLimit of them and the   *)
(* riskiest first, and the gateways take the same ones.                       *)
NoneLeftOpen ==
  <>[][\A g \in Gateways : ~CutShort(g)]_vars /\ <>[][~Reopens]_vars
    => \A i \in Incidents : i \in old /\ status[i] = "OPEN" ~> status[i] # "OPEN"

(* escalation.py, "Query DB for OPEN incidents older than ...; For each:      *)
(* update status", "incidents already ESCALATED are not re-escalated": what   *)
(* an engine escalates is open, neither reviewed nor escalated by another.    *)
OnlyOpenEscalated ==
  [][\A g \in Gateways : Escalate(g) => \A i \in rows[g] : status[i] = "OPEN"]_vars
====
