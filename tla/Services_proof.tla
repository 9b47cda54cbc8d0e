---- MODULE Services_proof ----
(***************************************************************************)
(* Proofs about the parts of Platform that answer requests, and about their *)
(* counterparts in the browser: the model registry, the circuit breaker,   *)
(* the list of incidents and the hook for server-sent events; the log of   *)
(* verdicts, the calibration and the groups of incidents. No bound of a    *)
(* run is assumed: the theorems hold for every number of calls, tasks,     *)
(* fetches, event sources and timers. The last theorem is about Platform.  *)
(***************************************************************************)
EXTENDS Feeds_proof, FiniteSetTheorems

(***************************************************************************)
(* The model registry. Two calls that are under way together are recorded   *)
(* as overlapping, and a call that has deactivated the rows overlaps with  *)
(* every call that has activated one since: it was under way when that one *)
(* did, or it would have deactivated the row.                              *)
(***************************************************************************)
Deployments == [active : BOOLEAN, by : Nat]
Stages == {"deactivate", "insert", "find", "activate", "done"}
RegistryCalls == [op : {"deploy", "rollback"}, at : Stages, found : Nat]

RegistryTypeOK == rows \in Seq(Deployments) /\ calls \in Seq(RegistryCalls)
OpenOverlap == \A i, j \in Open : i = j \/ {i, j} \in overlaps
SinceDeactivated ==
  \A r \in ActiveRows : \A j \in Open :
    calls[j].at # "deactivate" => {rows[r].by, j} \in overlaps

RegistryInv == RegistryTypeOK /\ OpenOverlap /\ SinceDeactivated /\ ActivesOverlapped

(* What a statement of call i does to the calls. *)
LEMMA CallAdvances ==
  ASSUME RegistryTypeOK, NEW i \in DOMAIN calls, NEW at \in Stages, NEW found \in Nat,
         \/ Advance(i, at)
         \/ calls' = [calls EXCEPT ![i].at = at, ![i].found = found]
  PROVE  /\ calls' \in Seq(RegistryCalls)
         /\ DOMAIN calls' = DOMAIN calls
         /\ calls'[i].at = at
         /\ \A j \in DOMAIN calls \ {i} : calls'[j].at = calls[j].at
<1>1. calls \in [1..Len(calls) -> RegistryCalls] /\ DOMAIN calls = 1..Len(calls) /\ Len(calls) \in Nat
  BY DEF RegistryTypeOK
<1>2. calls[i] \in RegistryCalls
  BY <1>1
<1>3. PICK c \in RegistryCalls : c.at = at /\ calls' = [calls EXCEPT ![i] = c]
  <2>1. CASE Advance(i, at)
    BY <1>1, <1>2, <2>1, [calls[i] EXCEPT !.at = at] \in RegistryCalls DEF Advance, RegistryCalls
  <2>2. CASE calls' = [calls EXCEPT ![i].at = at, ![i].found = found]
    BY <1>1, <1>2, <2>2, [calls[i] EXCEPT !.at = at, !.found = found] \in RegistryCalls DEF RegistryCalls
  <2> QED
    BY <2>1, <2>2
<1>4. calls' \in Seq(RegistryCalls)
  BY <1>3, ExceptSeq DEF RegistryTypeOK
<1> QED
  BY <1>1, <1>3, <1>4

(* Statements that leave the rows alone. *)
LEMMA RowsLeftAlone ==
  ASSUME RegistryInv, RegistryTypeOK', UNCHANGED <<rows, overlaps>>, DOMAIN calls' = DOMAIN calls,
         \A j \in DOMAIN calls : calls'[j].at \in {calls[j].at, "done"} \/ (calls[j].at = "find" /\ calls'[j].at = "activate")
  PROVE  RegistryInv'
<1>1. ActiveRows' = ActiveRows
  BY DEF ActiveRows
<1>2. Open' \subseteq Open
  BY DEF Open
<1>3. \A j \in Open' : calls'[j].at # "deactivate" => calls[j].at # "deactivate"
  BY DEF Open
<1> QED
  BY <1>1, <1>2, <1>3 DEF RegistryInv, OpenOverlap, SinceDeactivated, ActivesOverlapped

(* Call i, having deactivated the rows, sets row r. *)
LEMMA RowSet ==
  ASSUME RegistryInv, NEW i \in Open, calls[i].at # "deactivate", NEW r,
         Advance(i, "done"), UNCHANGED overlaps, rows' \in Seq(Deployments),
         \A s \in DOMAIN rows' : s # r => s \in DOMAIN rows /\ rows'[s] = rows[s],
         r \in DOMAIN rows' => rows'[r].by = i
  PROVE  RegistryInv'
<1>1. i \in DOMAIN calls
  BY DEF Open
<1>2. /\ calls' \in Seq(RegistryCalls) /\ DOMAIN calls' = DOMAIN calls /\ calls'[i].at = "done"
      /\ \A j \in DOMAIN calls \ {i} : calls'[j].at = calls[j].at
  BY <1>1, CallAdvances, 0 \in Nat, "done" \in Stages DEF RegistryInv, Stages
<1>3. Open' = Open \ {i}
  BY <1>2 DEF Open
<1>4. \A s \in ActiveRows' : s = r \/ (s \in ActiveRows /\ rows'[s] = rows[s])
  BY DEF ActiveRows
<1>5. \A s \in ActiveRows' : s = r => rows'[s].by = i
  BY DEF ActiveRows
<1>6. \A s \in ActiveRows : {rows[s].by, i} \in overlaps
  BY DEF RegistryInv, SinceDeactivated
<1>7. OpenOverlap'
  BY <1>3 DEF RegistryInv, OpenOverlap
<1>8. SinceDeactivated'
  <2> SUFFICES ASSUME NEW s \in ActiveRows', NEW j \in Open', calls'[j].at # "deactivate"
               PROVE  {rows'[s].by, j} \in overlaps'
    BY DEF SinceDeactivated
  <2>1. j \in Open /\ j # i /\ calls[j].at # "deactivate" /\ {i, j} \in overlaps
    BY <1>2, <1>3 DEF Open, RegistryInv, OpenOverlap
  <2> QED
    BY <1>4, <1>5, <2>1 DEF RegistryInv, SinceDeactivated
<1>9. ActivesOverlapped'
  <2> SUFFICES ASSUME NEW s \in ActiveRows', NEW u \in ActiveRows', s # u
               PROVE  {rows'[s].by, rows'[u].by} \in overlaps
    BY DEF ActivesOverlapped
  <2>1. CASE s = r
    BY <1>4, <1>5, <1>6, <2>1
  <2>2. CASE u = r
    BY <1>4, <1>5, <1>6, <2>2
  <2>3. CASE s # r /\ u # r
    BY <1>4, <2>3 DEF RegistryInv, ActivesOverlapped
  <2> QED
    BY <2>1, <2>2, <2>3
<1> QED
  BY <1>2, <1>7, <1>8, <1>9 DEF RegistryInv, RegistryTypeOK

LEMMA RegistryInvInit == RegistryInit => RegistryInv
BY DEF RegistryInit, RegistryInv, RegistryTypeOK, OpenOverlap, SinceDeactivated, ActivesOverlapped, Open, ActiveRows

LEMMA RegistryInvStep == RegistryInv /\ [RegistryNext]_registryVars => RegistryInv'
<1> SUFFICES ASSUME RegistryInv, [RegistryNext]_registryVars PROVE RegistryInv'
  OBVIOUS
<1>t. RegistryTypeOK /\ 0 \in Nat
  BY DEF RegistryInv
<1>1. ASSUME NEW op \in {"deploy", "rollback"}, BeginCall(op) PROVE RegistryInv'
  <2> DEFINE n == Len(calls) + 1
             c == [op |-> op, at |-> "deactivate", found |-> 0]
  <2>1. n \in Nat /\ DOMAIN calls = 1..n - 1 /\ c \in RegistryCalls
    BY <1>t DEF RegistryTypeOK, RegistryCalls, Stages
  <2>2. calls' = Append(calls, c) /\ rows' = rows /\ overlaps' = overlaps \cup {{j, n} : j \in Open}
    BY <1>1 DEF BeginCall
  <2> HIDE DEF c
  <2>3. /\ calls' \in Seq(RegistryCalls) /\ DOMAIN calls' = 1..n /\ calls'[n] = c
        /\ \A j \in 1..n - 1 : calls'[j] = calls[j]
    BY <1>t, <2>1, <2>2, AppendProperties DEF RegistryTypeOK
  <2>4. Open' = Open \cup {n} /\ n \notin Open /\ calls'[n].at = "deactivate" /\ Open \subseteq DOMAIN calls
    BY <2>1, <2>3 DEF Open, c
  <2>5. OpenOverlap'
    <3> SUFFICES ASSUME NEW j \in Open', NEW k \in Open', j # k PROVE {j, k} \in overlaps'
      BY DEF OpenOverlap
    <3>1. CASE j = n
      BY <2>2, <2>4, <3>1, {j, k} = {k, n}
    <3>2. CASE k = n
      BY <2>2, <2>4, <3>2
    <3>3. CASE j # n /\ k # n
      BY <2>2, <2>4, <3>3 DEF RegistryInv, OpenOverlap
    <3> QED
      BY <3>1, <3>2, <3>3
  <2>6. ActiveRows' = ActiveRows
    BY <2>2 DEF ActiveRows
  <2>7. SinceDeactivated'
    BY <2>1, <2>2, <2>3, <2>4, <2>6 DEF RegistryInv, SinceDeactivated
  <2>8. ActivesOverlapped'
    BY <2>2, <2>6 DEF RegistryInv, ActivesOverlapped
  <2> QED
    BY <1>t, <2>2, <2>3, <2>5, <2>7, <2>8 DEF RegistryInv, RegistryTypeOK
<1>2. ASSUME NEW i \in DOMAIN calls, Deactivate(i) PROVE RegistryInv'
  <2> DEFINE at == IF calls[i].op = "deploy" THEN "insert" ELSE "find"
  <2>1. at \in Stages /\ at # "done" /\ calls[i].at = "deactivate" /\ Advance(i, at)
        /\ rows' = Deactivated /\ overlaps' = overlaps
    BY <1>2 DEF Deactivate, Stages
  <2> HIDE DEF at
  <2>2. /\ calls' \in Seq(RegistryCalls) /\ DOMAIN calls' = DOMAIN calls /\ calls'[i].at = at
        /\ \A j \in DOMAIN calls \ {i} : calls'[j].at = calls[j].at
    BY <1>t, <2>1, CallAdvances
  <2>3. Open' = Open
    BY <2>1, <2>2 DEF Open
  <2>4. rows' \in Seq(Deployments) /\ ActiveRows' = {}
    <3>1. rows \in [1..Len(rows) -> Deployments] /\ DOMAIN rows = 1..Len(rows) /\ Len(rows) \in Nat
      BY <1>t DEF RegistryTypeOK
    <3>2. \A k \in DOMAIN rows : [rows[k] EXCEPT !.active = FALSE] \in Deployments
      BY <3>1 DEF Deployments
    <3>3. rows' \in [1..Len(rows) -> Deployments] /\ DOMAIN rows' = 1..Len(rows)
      BY <2>1, <3>1, <3>2 DEF Deactivated
    <3>4. \A k \in DOMAIN rows' : rows'[k].active = FALSE
      BY <2>1, <3>1 DEF Deactivated, Deployments
    <3> QED
      BY <3>1, <3>3, <3>4 DEF ActiveRows
  <2> QED
    BY <2>1, <2>2, <2>3, <2>4
    DEF RegistryInv, RegistryTypeOK, OpenOverlap, SinceDeactivated, ActivesOverlapped
<1>3. ASSUME NEW i \in DOMAIN calls, Insert(i) PROVE RegistryInv'
  <2> DEFINE d == [active |-> TRUE, by |-> i]
  <2>1. d \in Deployments /\ rows \in Seq(Deployments) /\ d.by = i
    BY <1>t DEF RegistryTypeOK, Deployments
  <2>2. /\ rows' = Append(rows, d) /\ Advance(i, "done") /\ UNCHANGED overlaps
        /\ i \in Open /\ calls[i].at # "deactivate"
    BY <1>3 DEF Insert, Open
  <2> HIDE DEF d
  <2>3. /\ rows' \in Seq(Deployments) /\ rows'[Len(rows) + 1] = d
        /\ \A s \in DOMAIN rows' : s # Len(rows) + 1 => s \in DOMAIN rows /\ rows'[s] = rows[s]
    BY <2>1, <2>2
  <2> QED
    BY <2>1, <2>2, <2>3, RowSet
<1>4. ASSUME NEW i \in DOMAIN calls, Find(i) PROVE RegistryInv'
  <2>1. PICK at \in {"done", "activate"}, r \in Nat :
          Advance(i, at) \/ calls' = [calls EXCEPT ![i].at = at, ![i].found = r]
    <3> DEFINE idle == DOMAIN rows \ ActiveRows
    <3>1. CASE idle = {}
      BY <1>t, <1>4, <3>1 DEF Find
    <3>2. CASE idle # {}
      <4>1. PICK r \in idle : calls' = [calls EXCEPT ![i].at = "activate", ![i].found = r]
        BY <1>4, <3>2 DEF Find
      <4>2. r \in Nat
        BY <1>t DEF RegistryTypeOK
      <4> QED
        BY <4>1, <4>2
    <3> QED
      BY <3>1, <3>2
  <2>2. /\ calls' \in Seq(RegistryCalls) /\ DOMAIN calls' = DOMAIN calls /\ calls'[i].at = at
        /\ \A j \in DOMAIN calls \ {i} : calls'[j].at = calls[j].at
    BY <1>t, <2>1, CallAdvances DEF Stages
  <2>3. calls[i].at = "find" /\ UNCHANGED <<rows, overlaps>>
    BY <1>4 DEF Find
  <2> QED
    BY <1>t, <2>2, <2>3, RowsLeftAlone DEF RegistryTypeOK
<1>5. ASSUME NEW i \in DOMAIN calls, Activate(i) PROVE RegistryInv'
  <2> DEFINE d == [active |-> TRUE, by |-> i]
             r == calls[i].found
  <2>1. d \in Deployments /\ rows \in Seq(Deployments) /\ d.by = i
    BY <1>t DEF RegistryTypeOK, Deployments
  <2>2. /\ rows' = [rows EXCEPT ![r] = d] /\ Advance(i, "done") /\ UNCHANGED overlaps
        /\ i \in Open /\ calls[i].at # "deactivate"
    BY <1>5 DEF Activate, Open
  <2> HIDE DEF d, r
  <2>3. /\ rows' \in Seq(Deployments)
        /\ \A s \in DOMAIN rows' : s # r => s \in DOMAIN rows /\ rows'[s] = rows[s]
        /\ r \in DOMAIN rows' => rows'[r] = d
    <3>1. CASE r \in 1..Len(rows)
      BY <2>1, <2>2, <3>1, ExceptSeq
    <3>2. CASE r \notin 1..Len(rows)
      BY <2>1, <2>2, <3>2, rows' = rows
    <3> QED
      BY <3>1, <3>2
  <2> QED
    BY <2>1, <2>2, <2>3, RowSet
<1>6. ASSUME NEW i \in DOMAIN calls, CallFails(i) PROVE RegistryInv'
  <2>1. Advance(i, "done") /\ "done" \in Stages /\ UNCHANGED <<rows, overlaps>>
    BY <1>6 DEF CallFails, Stages
  <2>2. /\ calls' \in Seq(RegistryCalls) /\ DOMAIN calls' = DOMAIN calls /\ calls'[i].at = "done"
        /\ \A j \in DOMAIN calls \ {i} : calls'[j].at = calls[j].at
    BY <1>t, <2>1, CallAdvances
  <2> QED
    BY <1>t, <2>1, <2>2, RowsLeftAlone DEF RegistryTypeOK
<1>7. CASE UNCHANGED registryVars
  BY <1>7 DEF registryVars, RegistryInv, RegistryTypeOK, OpenOverlap, SinceDeactivated, ActivesOverlapped, Open, ActiveRows
<1> QED
  BY <1>1, <1>2, <1>3, <1>4, <1>5, <1>6, <1>7 DEF RegistryNext

(* Two versions of a model are active together only if the calls that made     *)
(* them so overlapped, for any number of calls, at a time or in all, and      *)
(* wherever they fail (model_registry.py:52).                                 *)
THEOREM RegistryCorrect == RegistrySpec => []ActivesOverlapped
<1>1. RegistryInv => ActivesOverlapped
  BY DEF RegistryInv
<1> QED
  BY <1>1, RegistryInvInit, RegistryInvStep, PTL DEF RegistrySpec

(***************************************************************************)
(* The circuit breaker. What fails uncounted is a retry, and a retry follows *)
(* an answer: so since the last answer each task has at most one, and one  *)
(* that has had it does not retry now.                                     *)
(***************************************************************************)
BreakerTypeOK ==
  /\ fails \in Nat /\ unanswered \in Nat
  /\ task \in [Tasks -> {"idle", "calling", "waiting", "pinging", "retrying"}]
ClosedCountIsLow == circuit = "CLOSED" => fails < FailThreshold
Retried(R) == R \subseteq Tasks /\ \A k \in R : task[k] # "retrying"
OneRetryEach ==
  \E R \in SUBSET Tasks : Retried(R) /\ (fails > FailThreshold \/ unanswered <= fails + Cardinality(R))

BreakerInv == BreakerTypeOK /\ ClosedCountIsLow /\ OneRetryEach

LEMMA FewTasks == \A R \in SUBSET Tasks : Cardinality(R) \in Nat /\ Cardinality(R) <= Cardinality(Tasks) /\ IsFiniteSet(R)
BY BreakerAssumption, FS_Subset, FS_CardinalityType

LEMMA BreakerInvInit == BreakerInit => BreakerInv
<1> SUFFICES ASSUME BreakerInit PROVE BreakerInv
  OBVIOUS
<1>1. {} \in SUBSET Tasks /\ Cardinality({}) = 0
  BY FS_EmptySet
<1> QED
  BY <1>1, BreakerAssumption
  DEF BreakerInit, BreakerInv, BreakerTypeOK, ClosedCountIsLow, OneRetryEach, Retried

(* An answer starts the counts anew. *)
LEMMA AnsweredAnew == fails' = 0 /\ Answers => (OneRetryEach /\ ClosedCountIsLow)'
<1>1. {} \in SUBSET Tasks /\ Cardinality({}) = 0
  BY FS_EmptySet
<1> QED
  BY <1>1, BreakerAssumption DEF Answers, OneRetryEach, ClosedCountIsLow, Retried

(* A step after which no other task than before retries. *)
LEMMA NoNewRetry ==
  ASSUME OneRetryEach, UNCHANGED <<fails, unanswered>>,
         \A k \in Tasks : task'[k] = "retrying" => task[k] = "retrying"
  PROVE  OneRetryEach'
<1>1. PICK R \in SUBSET Tasks : Retried(R) /\ (fails > FailThreshold \/ unanswered <= fails + Cardinality(R))
  BY DEF OneRetryEach
<1> QED
  BY <1>1 DEF OneRetryEach, Retried

LEMMA BreakerInvStep == BreakerInv /\ [BreakerNext]_breakerVars => BreakerInv'
<1> SUFFICES ASSUME BreakerInv, [BreakerNext]_breakerVars PROVE BreakerInv'
  OBVIOUS
<1> USE BreakerAssumption
<1>t. BreakerTypeOK /\ ClosedCountIsLow /\ OneRetryEach
  BY DEF BreakerInv
<1>1. ASSUME NEW k \in Tasks, Call(k) \/ Redial(k) \/ PingRaises(k) PROVE BreakerInv'
  <2>1. PICK what \in {"calling", "pinging", "waiting"} : task' = [task EXCEPT ![k] = what]
    BY <1>1 DEF Call, SendsNow, Redial, PingRaises
  <2>2. UNCHANGED <<fails, unanswered>> /\ (circuit' = circuit \/ circuit' = "HALF_OPEN")
    BY <1>1 DEF Call, Redial, PingRaises
  <2>3. BreakerTypeOK' /\ \A j \in Tasks : task'[j] = "retrying" => task[j] = "retrying"
    BY <1>t, <2>1, <2>2 DEF BreakerTypeOK
  <2> QED
    BY <1>t, <2>2, <2>3, NoNewRetry DEF BreakerInv, ClosedCountIsLow
<1>2. ASSUME NEW k \in Tasks, Succeeds(k) \/ PingOk(k) PROVE BreakerInv'
  <2>1. PICK what \in {"idle", "retrying"} : task' = [task EXCEPT ![k] = what]
    BY <1>2 DEF Succeeds, PingOk, SendsNow
  <2>2. fails' = 0 /\ unanswered' = 0 /\ Answers
    BY <1>2 DEF Succeeds, PingOk, RecordSuccess, Answers
  <2> QED
    BY <1>t, <2>1, <2>2, AnsweredAnew DEF BreakerInv, BreakerTypeOK
<1>3. PICK R \in SUBSET Tasks : Retried(R) /\ (fails > FailThreshold \/ unanswered <= fails + Cardinality(R))
  BY <1>t DEF OneRetryEach
<1>4. Cardinality(R) \in Nat /\ Cardinality(Tasks) \in Nat /\ IsFiniteSet(R)
  BY FewTasks, FS_CardinalityType
<1>5. CountFailure => unanswered' \in Nat /\ unanswered' <= unanswered + 1
  BY <1>t DEF BreakerTypeOK, CountFailure
<1>6. ASSUME NEW k \in Tasks, CallRaises(k) PROVE BreakerInv'
  <2>1. task' = [task EXCEPT ![k] = "waiting"] /\ RecordFailure /\ CountFailure
    BY <1>6 DEF CallRaises
  <2>2. /\ fails' = (IF fails > FailThreshold THEN fails ELSE fails + 1)
        /\ circuit' = IF fails' >= FailThreshold THEN "OPEN" ELSE circuit
    BY <2>1 DEF RecordFailure
  <2>3. BreakerTypeOK'
    BY <1>t, <1>5, <2>1, <2>2 DEF BreakerTypeOK
  <2>4. ClosedCountIsLow'
    BY <2>2, <2>3 DEF ClosedCountIsLow, BreakerTypeOK
  <2>5. Retried(R)'
    BY <1>t, <1>3, <2>1 DEF Retried, BreakerTypeOK
  <2>6. fails' > FailThreshold \/ unanswered' <= fails' + Cardinality(R)
    BY <1>t, <1>3, <1>4, <1>5, <2>1, <2>2, <2>3 DEF BreakerTypeOK
  <2> QED
    BY <2>3, <2>4, <2>5, <2>6 DEF BreakerInv, OneRetryEach
<1>7. ASSUME NEW k \in Tasks, RetryRaises(k) PROVE BreakerInv'
  <2>1. /\ task[k] = "retrying" /\ task' = [task EXCEPT ![k] = "idle"]
        /\ CountFailure /\ UNCHANGED <<circuit, fails>>
    BY <1>7 DEF RetryRaises
  <2>2. BreakerTypeOK' /\ ClosedCountIsLow'
    BY <1>t, <1>5, <2>1 DEF BreakerTypeOK, ClosedCountIsLow
  <2>3. k \notin R /\ R \cup {k} \in SUBSET Tasks
    BY <1>3, <2>1 DEF Retried
  <2>4. Cardinality(R \cup {k}) = Cardinality(R) + 1
    BY <1>4, <2>3, FS_AddElement
  <2>5. Retried(R \cup {k})'
    BY <1>t, <1>3, <2>1, <2>3 DEF Retried, BreakerTypeOK
  <2>6. fails' > FailThreshold \/ unanswered' <= fails' + Cardinality(R \cup {k})
    BY <1>t, <1>3, <1>4, <1>5, <2>1, <2>4 DEF BreakerTypeOK
  <2> QED
    BY <2>2, <2>3, <2>5, <2>6 DEF BreakerInv, OneRetryEach
<1>8. CASE GoDown \/ ComeUp \/ Wait \/ UNCHANGED breakerVars
  <2>1. UNCHANGED <<fails, unanswered, task, circuit>>
    BY <1>8 DEF GoDown, ComeUp, Wait, breakerVars
  <2> QED
    BY <1>t, <2>1, NoNewRetry DEF BreakerInv, BreakerTypeOK, ClosedCountIsLow
<1> QED
  BY <1>1, <1>2, <1>6, <1>7, <1>8 DEF BreakerNext

(* A closed circuit has seen fewer commands fail since Redis last answered     *)
(* than the threshold and one more for each task, the uncounted retries among *)
(* them: for any threshold, any finite set of tasks and any outages           *)
(* (redis_resilient.py:148-160).                                              *)
THEOREM BreakerCorrect == BreakerSpec => []ClosedMeansFewFailures
<1>1. BreakerInv => ClosedMeansFewFailures
  <2> SUFFICES ASSUME BreakerInv, circuit = "CLOSED" PROVE unanswered < FailThreshold + Cardinality(Tasks)
    BY DEF ClosedMeansFewFailures, FewFailures
  <2>1. PICK R \in SUBSET Tasks : fails > FailThreshold \/ unanswered <= fails + Cardinality(R)
    BY DEF BreakerInv, OneRetryEach
  <2>2. Cardinality(R) \in Nat /\ Cardinality(Tasks) \in Nat /\ Cardinality(R) <= Cardinality(Tasks)
    BY BreakerAssumption, FewTasks, FS_CardinalityType
  <2> QED
    BY <2>1, <2>2, BreakerAssumption DEF BreakerInv, BreakerTypeOK, ClosedCountIsLow
<1> QED
  BY <1>1, BreakerInvInit, BreakerInvStep, PTL DEF BreakerSpec

(***************************************************************************)
(* The list of incidents. The newest request, once no effect is due, asks   *)
(* for what the filters and the page say, and so does its answer.          *)
(***************************************************************************)
NewestRequest == \A r \in requests : r.n \in 1..asked /\ (r.n = asked /\ ~effectDue => r.of = Query)
NewestAnswer ==
  /\ lastAnswer \in 0..asked
  /\ asked = 0 => effectDue
  /\ lastAnswer = asked /\ ~failedToLoad /\ ~effectDue => shownList = Query
LoadingIsOpen == requests = {} => ~loading

ListInv == asked \in Nat /\ effectDue \in BOOLEAN /\ NewestRequest /\ NewestAnswer /\ LoadingIsOpen

LEMMA ListInvInit == ListInit => ListInv
BY DEF ListInit, ListInv, NewestRequest, NewestAnswer, LoadingIsOpen

LEMMA ListInvStep == ListInv /\ [ListNext]_listVars => ListInv'
<1> SUFFICES ASSUME ListInv, [ListNext]_listVars PROVE ListInv'
  OBVIOUS
<1> USE DEF ListInv, NewestRequest, NewestAnswer, LoadingIsOpen
<1>1. ASSUME NEW f \in Filters, SetFilters(f) PROVE ListInv'
  BY <1>1 DEF SetFilters
<1>2. ASSUME NEW p \in Pages, SetPage(p) PROVE ListInv'
  BY <1>2 DEF SetPage, PageRendered, Query
<1>3. ASSUME Fetch, effectDue' = FALSE PROVE ListInv'
  <2> DEFINE new == [n |-> asked + 1, of |-> Query]
  <2>1. /\ asked' = asked + 1 /\ requests' = requests \cup {new} /\ lastAnswer' = lastAnswer
        /\ Query' = Query /\ new.n = asked + 1 /\ new.of = Query
    BY <1>3 DEF Fetch, Query
  <2>2. \A r \in requests : r.n # asked + 1 /\ r.n \in 1..asked + 1
    OBVIOUS
  <2> HIDE DEF new
  <2>3. NewestRequest'
    BY <2>1, <2>2
  <2>4. lastAnswer' # asked' /\ lastAnswer' \in 0..asked' /\ requests' # {} /\ asked' \in Nat /\ asked' # 0
    BY <2>1
  <2> QED
    BY <1>3, <2>3, <2>4
<1>4. CASE RunEffect
  BY <1>3, <1>4 DEF RunEffect
<1>5. CASE Refetch
  BY <1>3, <1>5 DEF Refetch
<1>6. ASSUME NEW r \in requests, AnswerComes(r) PROVE ListInv'
  BY <1>6 DEF AnswerComes, Query
<1>7. ASSUME NEW r \in requests, AnswerFails(r) PROVE ListInv'
  BY <1>7 DEF AnswerFails, Query
<1>8. CASE UNCHANGED listVars
  BY <1>8 DEF listVars, Query
<1> QED
  BY <1>1, <1>2, <1>4, <1>5, <1>6, <1>7, <1>8 DEF ListNext

(* Once every request is answered the list is the one asked for, unless an     *)
(* answer was overtaken by that of a later request or the last failed: for     *)
(* any filters and pages and any number of requests in any order              *)
(* (incidents.ts:70).                                                         *)
THEOREM ListCorrect == ListSpec => []ListMatchesFilters
<1>1. ListInv => ListMatchesFilters
  BY DEF ListInv, NewestAnswer, LoadingIsOpen, ListMatchesFilters
<1> QED
  BY <1>1, ListInvInit, ListInvStep, PTL DEF ListSpec

(***************************************************************************)
(* The hook for server-sent events.                                        *)
(***************************************************************************)
HookTypeOK ==
  /\ Cardinality(DOMAIN sources) \in Nat
  /\ sources \in [1..Cardinality(DOMAIN sources) -> [url : Urls, open : BOOLEAN]]

HookInv == HookTypeOK /\ OneSourceOpen

LEMMA HookInvInit == HookInit => HookInv
<1> SUFFICES ASSUME HookInit PROVE HookInv
  OBVIOUS
<1>1. DOMAIN sources = {} /\ sources = <<>>
  BY DEF HookInit
<1>2. Cardinality(DOMAIN sources) = 0
  BY <1>1, FS_EmptySet
<1> QED
  BY <1>1, <1>2 DEF HookInv, HookTypeOK, OneSourceOpen

(* A function on 1..n has n elements in its domain. *)
LEMMA CountedSources ==
  ASSUME NEW n \in Nat, sources' \in [1..n -> [url : Urls, open : BOOLEAN]]
  PROVE  HookTypeOK'
<1>1. DOMAIN sources' = 1..n
  OBVIOUS
<1>2. Cardinality(1..n) = n
  BY FS_Interval
<1> QED
  BY <1>1, <1>2 DEF HookTypeOK

(* connect closes what the ref held and keeps the source it opens. *)
LEMMA OpenSourceKeepsOne ==
  ASSUME HookInv, NEW u \in Urls, OpenSource(u)
  PROVE  HookInv'
<1> DEFINE n == Cardinality(DOMAIN sources) + 1
<1>1. n \in Nat /\ DOMAIN sources = 1..n - 1 /\ sources \in [1..n - 1 -> [url : Urls, open : BOOLEAN]]
  BY DEF HookInv, HookTypeOK
<1>2. sources' = [i \in 1..n |-> IF i = n THEN [url |-> u, open |-> TRUE] ELSE ClosedByRef[i]] /\ ref' = n
  BY DEF OpenSource
<1> HIDE DEF n
<1>3. \A i \in 1..n - 1 : ClosedByRef[i] \in [url : Urls, open : BOOLEAN] /\ ClosedByRef[i].open = FALSE
  BY <1>1 DEF ClosedByRef, HookInv, OneSourceOpen
<1> DEFINE new == [url |-> u, open |-> TRUE]
<1>n. new \in [url : Urls, open : BOOLEAN] /\ \A i \in 1..n : i # n => i \in 1..n - 1
  BY <1>1
<1> HIDE DEF new
<1>4. sources' \in [1..n -> [url : Urls, open : BOOLEAN]] /\ \A i \in 1..n - 1 : ~sources'[i].open
  <2>1. sources' = [i \in 1..n |-> IF i = n THEN new ELSE ClosedByRef[i]]
    BY <1>2 DEF new
  <2>2. \A i \in 1..n : (IF i = n THEN new ELSE ClosedByRef[i]) \in [url : Urls, open : BOOLEAN]
    BY <1>3, <1>n
  <2>3. \A i \in 1..n - 1 : i \in 1..n /\ i # n
    BY <1>1
  <2> QED
    BY <1>3, <2>1, <2>2, <2>3
<1>5. HookTypeOK'
  BY <1>1, <1>4, CountedSources
<1>6. DOMAIN sources' = 1..n
  BY <1>4
<1>7. OneSourceOpen'
  BY <1>2, <1>4, <1>6, <1>n DEF OneSourceOpen
<1> QED
  BY <1>5, <1>7 DEF HookInv

LEMMA HookInvStep == HookInv /\ [HookNext]_hookVars => HookInv'
<1> SUFFICES ASSUME HookInv, [HookNext]_hookVars PROVE HookInv'
  OBVIOUS
<1> DEFINE n == Cardinality(DOMAIN sources)
<1>t. n \in Nat /\ DOMAIN sources = 1..n /\ sources \in [1..n -> [url : Urls, open : BOOLEAN]]
  BY DEF HookInv, HookTypeOK
<1> HIDE DEF n
<1>1. ASSUME NEW u \in Urls, Mount(u) \/ ChangeUrl(u) \/ TimerFires(u) PROVE HookInv'
  BY <1>1, OpenSourceKeepsOne DEF Mount, ChangeUrl, TimerFires
<1>2. CASE Unmount
  <2>1. sources' \in [1..n -> [url : Urls, open : BOOLEAN]] /\ \A i \in 1..n : ~sources'[i].open
    BY <1>t, <1>2 DEF Unmount, ClosedByRef, HookInv, OneSourceOpen
  <2> QED
    BY <1>t, <2>1, CountedSources DEF HookInv, OneSourceOpen
<1>3. ASSUME NEW i \in DOMAIN sources, SourceFails(i) PROVE HookInv'
  <2>1. sources[i] \in [url : Urls, open : BOOLEAN] /\ i = ref /\ i \in 1..n
    BY <1>t, <1>3 DEF SourceFails, HookInv, OneSourceOpen
  <2>2. [sources[i] EXCEPT !.open = FALSE] \in [url : Urls, open : BOOLEAN]
    BY <2>1
  <2>3. sources' = [sources EXCEPT ![i] = [sources[i] EXCEPT !.open = FALSE]]
    BY <1>3 DEF SourceFails
  <2>4. sources' \in [1..n -> [url : Urls, open : BOOLEAN]] /\ \A k \in 1..n : ~sources'[k].open
    BY <1>t, <2>1, <2>2, <2>3 DEF HookInv, OneSourceOpen
  <2> QED
    BY <1>t, <2>4, CountedSources DEF HookInv, OneSourceOpen
<1>4. CASE UNCHANGED hookVars
  BY <1>4 DEF hookVars, HookInv, HookTypeOK, OneSourceOpen
<1> QED
  BY <1>1, <1>2, <1>3, <1>4 DEF HookNext

(* A component has at most one event source open, the one its ref holds,       *)
(* however many timers are left over from earlier urls (useSSE.ts:48).        *)
THEOREM HookCorrect == HookSpec => []OneSourceOpen
<1>1. HookInv => OneSourceOpen
  BY DEF HookInv
<1> QED
  BY <1>1, HookInvInit, HookInvStep, PTL DEF HookSpec

(***************************************************************************)
(* The eval log. While a verdict is entered the gateway's copy, and not the *)
(* file, is what keeps the incidents; what is appended meanwhile is newer  *)
(* than all of the copy, and exposed. A file whose last line has no end was *)
(* cut, and all it still has is exposed.                                   *)
(***************************************************************************)
Lines == [id : Nat, verdict : Verdicts \cup {None, "torn"}]
LogCopies == [lines : Seq(Lines), id : Nat \ {0}, verdict : Verdicts]

LogTypeOK ==
  /\ logFile \in Seq(Lines) /\ logged \in Nat /\ {writing, endsLine} \subseteq BOOLEAN
  /\ given \in [1..logged -> Verdicts \cup {None}]
  /\ copy = <<>> \/ \E c \in LogCopies : copy = <<c>>

Ordered(lines) == \A j, k \in Readable(lines) : j < k => lines[j].id < lines[k].id
Numbered(lines) == \A k \in Readable(lines) : lines[k].id <= logged
Holds(lines) == \A i \in 1..logged \ exposed : \E k \in DOMAIN lines : lines[k] = Line(i, given[i])
Newer(lines, newer) == \A j \in Readable(lines), k \in Readable(newer) : lines[j].id < newer[k].id

FileInv == Ordered(logFile) /\ Numbered(logFile) /\ (~writing => Holds(logFile))
CopyInv ==
  IF copy = <<>> THEN ~writing
  ELSE LET lines == copy[1].lines
       IN Ordered(lines) /\ Numbered(lines) /\ Holds(lines) /\ (writing => Newer(lines, logFile))

AllExposed(lines) == \A k \in Readable(lines) : lines[k].id \in exposed
EndInv == ~endsLine => AllExposed(logFile)

LogInv == LogTypeOK /\ FileInv /\ CopyInv /\ EndInv

LEMMA LogInvInit == EvalLogInit => LogInv
<1> SUFFICES ASSUME EvalLogInit PROVE LogInv
  OBVIOUS
<1>1. given \in [1..logged -> Verdicts \cup {None}]
  BY DEF EvalLogInit
<1>2. LogTypeOK
  <2>1. logFile \in Seq(Lines) /\ logged \in Nat /\ {writing, endsLine} \subseteq BOOLEAN /\ copy = <<>>
    <3>1. <<>> \in Seq(Lines)
      BY EmptySeq
    <3> QED
      BY <3>1 DEF EvalLogInit
  <2> QED
    BY <1>1, <2>1 DEF LogTypeOK
<1>3. FileInv /\ CopyInv /\ EndInv
  BY DEF EvalLogInit, FileInv, CopyInv, EndInv, Ordered, Numbered, Holds, Readable
<1> QED
  BY <1>2, <1>3 DEF LogInv

LEMMA LineIdsAreNumbers ==
  ASSUME NEW lines \in Seq(Lines)
  PROVE  \A k \in DOMAIN lines : lines[k] \in Lines /\ lines[k].id \in Nat
<1>1. \A k \in DOMAIN lines : lines[k] \in Lines
  OBVIOUS
<1> QED
  BY <1>1 DEF Lines

(* A line is appended to a file: what it held before stays. *)
LEMMA LineAppended ==
  ASSUME NEW lines \in Seq(Lines), NEW l \in Lines
  PROVE  /\ Append(lines, l) \in Seq(Lines) /\ DOMAIN Append(lines, l) = DOMAIN lines \cup {Len(lines) + 1}
         /\ Append(lines, l)[Len(lines) + 1] = l /\ \A k \in DOMAIN lines : Append(lines, l)[k] = lines[k]
         /\ Readable(Append(lines, l)) \subseteq Readable(lines) \cup {Len(lines) + 1}
         /\ \A k \in DOMAIN lines : k < Len(lines) + 1
<1> DEFINE t == Append(lines, l)
<1>1. /\ t \in Seq(Lines) /\ Len(t) = Len(lines) + 1 /\ DOMAIN t = 1..Len(lines) + 1
      /\ DOMAIN lines = 1..Len(lines) /\ Len(lines) \in Nat
      /\ t[Len(lines) + 1] = l /\ \A k \in 1..Len(lines) : t[k] = lines[k]
  BY AppendProperties, LenProperties
<1> HIDE DEF t
<1>2. DOMAIN t = DOMAIN lines \cup {Len(lines) + 1} /\ \A k \in DOMAIN lines : k < Len(lines) + 1
  BY <1>1
<1>3. Readable(t) \subseteq Readable(lines) \cup {Len(lines) + 1}
  BY <1>1, <1>2 DEF Readable
<1> QED
  BY <1>1, <1>2, <1>3 DEF t

LEMMA LogIncidentKeeps ==
  ASSUME LogInv, LogIncident
  PROVE  LogInv'
<1> DEFINE n == logged + 1
           l == Line(n, None)
<1>1. /\ logFile \in Seq(Lines) /\ logged \in Nat /\ n \in Nat /\ given \in [1..logged -> Verdicts \cup {None}]
      /\ l \in Lines /\ l.id = n
  BY DEF LogInv, LogTypeOK, Lines, Line
<1>2. /\ logged' = n /\ given' = Append(given, None) /\ endsLine' = TRUE
      /\ logFile' = IF endsLine THEN Append(logFile, l) ELSE [logFile EXCEPT ![Len(logFile)] = Torn]
      /\ exposed' = IF copy # <<>> \/ ~endsLine THEN exposed \cup {n} ELSE exposed
      /\ copy' = copy /\ writing' = writing
  BY DEF LogIncident
<1> HIDE DEF l
<1>a. endsLine => /\ logFile' \in Seq(Lines) /\ DOMAIN logFile' = DOMAIN logFile \cup {Len(logFile) + 1}
                  /\ logFile'[Len(logFile) + 1] = l /\ \A k \in DOMAIN logFile : logFile'[k] = logFile[k]
                  /\ Readable(logFile') \subseteq Readable(logFile) \cup {Len(logFile) + 1}
  BY <1>1, <1>2, LineAppended
<1>b. ~endsLine => /\ logFile' \in Seq(Lines)
                   /\ \A k \in Readable(logFile') : k \in Readable(logFile) /\ logFile'[k] = logFile[k]
  <2>1. CASE Len(logFile) \in 1..Len(logFile)
    <3>1. Torn \in Lines
      BY DEF Torn, Line, Lines
    <3>2. ~endsLine => logFile' = [logFile EXCEPT ![Len(logFile)] = Torn] /\ logFile' \in Seq(Lines)
      BY <1>1, <1>2, <2>1, <3>1, ExceptSeq
    <3>3. ~endsLine => DOMAIN logFile' = DOMAIN logFile /\ logFile'[Len(logFile)] = Torn
                       /\ \A k \in DOMAIN logFile : k # Len(logFile) => logFile'[k] = logFile[k]
      BY <1>1, <1>2, <2>1
    <3> QED
      BY <3>2, <3>3 DEF Readable
  <2>2. CASE Len(logFile) \notin 1..Len(logFile)
    BY <1>1, <1>2, <2>2, [logFile EXCEPT ![Len(logFile)] = Torn] = logFile DEF Readable
  <2> QED
    BY <2>1, <2>2
<1>3. /\ logFile' \in Seq(Lines)
      /\ \A k \in Readable(logFile') : \/ k = Len(logFile) + 1 /\ logFile'[k] = l
                                       \/ k \in Readable(logFile) /\ logFile'[k] = logFile[k]
      /\ \A k \in DOMAIN logFile : k < Len(logFile) + 1
  <2>1. \A k \in DOMAIN logFile : k < Len(logFile) + 1
    BY <1>1
  <2>2. Readable(logFile) \subseteq DOMAIN logFile
    BY DEF Readable
  <2> QED
    BY <1>a, <1>b, <2>1, <2>2
<1>4. given' \in [1..n -> Verdicts \cup {None}] /\ given'[n] = None /\ \A i \in 1..logged : given'[i] = given[i]
  <2>1. given \in Seq(Verdicts \cup {None}) /\ Len(given) = logged
    BY <1>1, FunIsSeq
  <2>2. /\ given' \in Seq(Verdicts \cup {None}) /\ Len(given') = n /\ given'[n] = None
        /\ \A i \in 1..logged : given'[i] = given[i]
    BY <1>2, <2>1, AppendProperties
  <2> QED
    BY <2>2, LenProperties
<1>5. \A k \in Readable(logFile) : k \in DOMAIN logFile /\ logFile[k].id \in Nat /\ logFile[k].id <= logged
  BY <1>1, LineIdsAreNumbers DEF LogInv, FileInv, Numbered, Readable
<1>6. Ordered(logFile') /\ \A k \in Readable(logFile') : logFile'[k].id <= n
  <2>1. \A k \in Readable(logFile) : logFile[k].id < n /\ k < Len(logFile) + 1
    BY <1>1, <1>3, <1>5
  <2>2. Len(logFile) \in Nat
    BY <1>1
  <2>3. Ordered(logFile')
    <3> SUFFICES ASSUME NEW j \in Readable(logFile'), NEW k \in Readable(logFile'), j < k
                 PROVE  logFile'[j].id < logFile'[k].id
      BY DEF Ordered
    <3>1. CASE k = Len(logFile) + 1 /\ logFile'[k] = l
      <4>1. j \in Readable(logFile) /\ logFile'[j] = logFile[j]
        BY <1>3, <3>1
      <4> QED
        BY <1>1, <2>1, <3>1, <4>1
    <3>2. CASE k \in Readable(logFile) /\ logFile'[k] = logFile[k]
      <4>1. k < Len(logFile) + 1 /\ k \in Nat
        BY <1>1, <2>1, <3>2 DEF Readable
      <4>2. j # Len(logFile) + 1
        BY <2>2, <4>1
      <4>3. j \in Readable(logFile) /\ logFile'[j] = logFile[j]
        BY <1>3, <4>2
      <4> QED
        BY <3>2, <4>3 DEF LogInv, FileInv, Ordered
    <3> QED
      BY <1>3, <3>1, <3>2
  <2> QED
    BY <1>1, <1>3, <1>5, <2>1, <2>3
<1>7. ASSUME NEW lines, Holds(lines), n \in exposed' PROVE Holds(lines)'
  <2>1. 1..logged' \ exposed' \subseteq 1..logged \ exposed
    BY <1>1, <1>2, <1>7
  <2>2. \A i \in 1..logged : given'[i] = given[i]
    BY <1>4
  <2> QED
    BY <1>7, <2>1, <2>2 DEF Holds
<1>8. ~writing => Holds(logFile)'
  <2> SUFFICES ASSUME ~writing, NEW i \in 1..n \ exposed' PROVE \E k \in DOMAIN logFile' : logFile'[k] = Line(i, given'[i])
    BY <1>2 DEF Holds
  <2>1. ASSUME i # n
        PROVE  i \in 1..logged \ exposed /\ \E k \in DOMAIN logFile : logFile[k] = Line(i, given[i])
    <3>1. i \in 1..logged \ exposed
      BY <1>1, <1>2, <2>1
    <3> QED
      BY <3>1 DEF LogInv, FileInv, Holds
  <2>2. CASE endsLine /\ i = n
    BY <1>a, <1>4, <2>2 DEF l
  <2>3. CASE endsLine /\ i # n
    <3>1. PICK k \in DOMAIN logFile : logFile[k] = Line(i, given[i])
      BY <2>1, <2>3
    <3> QED
      BY <1>a, <1>4, <2>1, <2>3, <3>1
  <2>4. CASE ~endsLine
    <3>1. i # n
      BY <1>2, <2>4
    <3>2. PICK k \in DOMAIN logFile : logFile[k] = Line(i, given[i])
      BY <2>1, <3>1
    <3>3. logFile[k].id = i /\ logFile[k] # Torn
      BY <1>1, <2>1, <3>1, <3>2 DEF Line, Torn
    <3>4. i \in exposed
      BY <2>4, <3>3 DEF LogInv, EndInv, AllExposed, Readable
    <3> QED
      BY <2>1, <3>1, <3>4
  <2> QED
    BY <2>2, <2>3, <2>4
<1>9. FileInv'
  BY <1>2, <1>6, <1>8 DEF FileInv, Numbered
<1>10. CopyInv'
  <2>1. CASE copy = <<>>
    BY <1>2, <2>1 DEF LogInv, CopyInv
  <2>2. CASE copy # <<>>
    <3>1. PICK c \in LogCopies : copy = <<c>>
      BY <2>2 DEF LogInv, LogTypeOK
    <3>2. /\ c.lines \in Seq(Lines) /\ Ordered(c.lines) /\ Numbered(c.lines) /\ Holds(c.lines)
          /\ writing => Newer(c.lines, logFile)
      BY <2>2, <3>1 DEF LogInv, CopyInv, LogCopies
    <3>3. Holds(c.lines)'
      BY <1>2, <1>7, <2>2, <3>2
    <3>4. \A k \in Readable(c.lines) : c.lines[k].id \in Nat /\ c.lines[k].id < n
      BY <1>1, <3>2, LineIdsAreNumbers DEF Numbered, Readable
    <3>5. writing => Newer(c.lines, logFile')
      BY <1>1, <1>3, <3>2, <3>4 DEF Newer, Readable
    <3>6. Numbered(c.lines)'
      BY <1>1, <1>2, <3>4 DEF Numbered
    <3> QED
      BY <1>2, <2>2, <3>1, <3>2, <3>3, <3>5, <3>6 DEF CopyInv
  <2> QED
    BY <2>1, <2>2
<1>11. LogTypeOK' /\ EndInv'
  BY <1>1, <1>2, <1>3, <1>4 DEF LogInv, LogTypeOK, EndInv
<1> QED
  BY <1>9, <1>10, <1>11 DEF LogInv

(* Of what was appended meanwhile, what remains behind the text is in order. *)
LEMMA RemainsOfFile ==
  ASSUME LogTypeOK, NEW rest \in Remains
  PROVE  /\ rest \in Seq(Lines)
         /\ \A k \in Readable(rest) : \E j \in Readable(logFile) : rest[k] = logFile[j]
         /\ Ordered(logFile) => Ordered(rest)
<1> DEFINE n == Len(logFile)
           last(k) == SubSeq(logFile, k, n)
<1>1. logFile \in Seq(Lines) /\ n \in Nat /\ DOMAIN logFile = 1..n /\ \A k \in 1..n : logFile[k] \in Lines
  BY DEF LogTypeOK
<1>2. Torn \in Lines
  BY DEF Torn, Line, Lines
<1>3. ASSUME NEW k \in 2..n + 1
      PROVE  /\ last(k) \in Seq(Lines) /\ DOMAIN last(k) = 1..n - k + 1
             /\ \A i \in 1..n - k + 1 : last(k)[i] = logFile[k + i - 1] /\ k + i - 1 \in 1..n
  <2>1. \A i \in k..n : logFile[i] \in Lines
    BY <1>1, <1>3
  <2>2. k \in Int /\ n \in Int
    BY <1>1
  <2>3. /\ last(k) \in Seq(Lines) /\ Len(last(k)) = IF k <= n THEN n - k + 1 ELSE 0
        /\ \A i \in 1..n - k + 1 : last(k)[i] = logFile[k + i - 1]
    BY <2>1, <2>2, SubSeqProperties
  <2>4. Len(last(k)) = n - k + 1
    BY <1>1, <1>3, <2>3
  <2>5. DOMAIN last(k) = 1..n - k + 1
    BY <2>3, <2>4, LenProperties
  <2>6. \A i \in 1..n - k + 1 : k + i - 1 \in 1..n
    BY <1>1, <1>3
  <2> QED
    BY <2>3, <2>5, <2>6
<1>4. CASE rest = <<>>
  BY <1>4, EmptySeq DEF Readable, Ordered
<1>5. ASSUME NEW k \in 2..n + 1, rest = last(k)
      PROVE  /\ rest \in Seq(Lines)
             /\ \A i \in Readable(rest) : \E j \in Readable(logFile) : rest[i] = logFile[j]
             /\ Ordered(logFile) => Ordered(rest)
  <2>1. \A i \in Readable(rest) : i \in 1..n - k + 1 /\ k + i - 1 \in Readable(logFile) /\ rest[i] = logFile[k + i - 1]
    BY <1>1, <1>3, <1>5 DEF Readable
  <2>2. \A i, j \in 1..n - k + 1 : i < j => k + i - 1 < k + j - 1
    BY <1>1, <1>5
  <2> QED
    BY <1>3, <1>5, <2>1, <2>2 DEF Ordered
<1>6. ASSUME NEW k \in 2..n + 1, rest = <<Torn>> \o last(k)
      PROVE  /\ rest \in Seq(Lines)
             /\ \A i \in Readable(rest) : \E j \in Readable(logFile) : rest[i] = logFile[j]
             /\ Ordered(logFile) => Ordered(rest)
  <2>1. <<Torn>> \in Seq(Lines) /\ Len(<<Torn>>) = 1 /\ <<Torn>>[1] = Torn
    BY <1>2
  <2>2. last(k) \in Seq(Lines) /\ Len(last(k)) = n - k + 1
    BY <1>1, <1>3, <1>6
  <2>3. /\ rest \in Seq(Lines) /\ Len(rest) = 1 + (n - k + 1)
        /\ \A i \in 1..1 + (n - k + 1) : rest[i] = IF i <= 1 THEN <<Torn>>[i] ELSE last(k)[i - 1]
    BY <1>6, <2>1, <2>2, ConcatProperties
  <2>4. DOMAIN rest = 1..1 + (n - k + 1)
    BY <2>3, LenProperties
  <2>5. \A i \in Readable(rest) :
          i \in 2..1 + (n - k + 1) /\ k + i - 2 \in Readable(logFile) /\ rest[i] = logFile[k + i - 2]
    <3> SUFFICES ASSUME NEW i \in Readable(rest)
                 PROVE  i \in 2..1 + (n - k + 1) /\ k + i - 2 \in Readable(logFile) /\ rest[i] = logFile[k + i - 2]
      OBVIOUS
    <3>1. i \in 1..1 + (n - k + 1) /\ rest[i] # Torn
      BY <2>4 DEF Readable
    <3>2. i # 1
      BY <2>1, <2>3, <3>1
    <3>3. i - 1 \in 1..n - k + 1 /\ rest[i] = last(k)[i - 1] /\ k + (i - 1) - 1 = k + i - 2
      BY <1>1, <1>6, <2>3, <3>1, <3>2
    <3>4. rest[i] = logFile[k + i - 2] /\ k + i - 2 \in 1..n
      BY <1>3, <1>6, <3>3
    <3> QED
      BY <1>1, <1>6, <3>1, <3>2, <3>4 DEF Readable
  <2>6. \A i, j \in 2..1 + (n - k + 1) : i < j => k + i - 2 < k + j - 2
    BY <1>1, <1>6
  <2> QED
    BY <2>3, <2>5, <2>6 DEF Ordered
<1>7. \/ rest = <<>>
      \/ \E k \in 2..n : rest = last(k)
      \/ \E k \in 2..n + 1 : rest = <<Torn>> \o last(k)
  BY DEF Remains
<1>8. \A k \in 2..n : k \in 2..n + 1
  BY <1>1
<1> QED
  BY <1>4, <1>5, <1>6, <1>7, <1>8

(* The text written: the lines of the copy, that of the incident with its verdict. *)
LEMMA EnteredLines ==
  ASSUME NEW c \in LogCopies
  PROVE  /\ Entered(c) \in Seq(Lines) /\ DOMAIN Entered(c) = DOMAIN c.lines
         /\ Readable(Entered(c)) = Readable(c.lines)
         /\ \A k \in DOMAIN c.lines : Entered(c)[k].id = c.lines[k].id
         /\ \A k \in DOMAIN c.lines : c.lines[k].id # c.id => Entered(c)[k] = c.lines[k]
         /\ \A k \in DOMAIN c.lines : c.lines[k].id = c.id => Entered(c)[k] = Line(c.id, c.verdict)
<1>1. c.lines \in Seq(Lines) /\ c.id \in Nat \ {0} /\ c.verdict \in Verdicts
  BY DEF LogCopies
<1> DEFINE n == Len(c.lines)
           new == Line(c.id, c.verdict)
<1>2. DOMAIN c.lines = 1..n /\ n \in Nat /\ \A k \in 1..n : c.lines[k] \in Lines
  BY <1>1
<1>3. new \in Lines /\ new.id = c.id
  BY <1>1 DEF Line, Lines
<1>4. new # Torn /\ \A k \in 1..n : c.lines[k].id = c.id => c.lines[k] # Torn
  BY <1>1 DEF Torn, Line
<1>5. Entered(c) = [k \in 1..n |-> IF c.lines[k].id = c.id THEN new ELSE c.lines[k]]
  BY <1>2 DEF Entered
<1> HIDE DEF new
<1>6. Entered(c) \in [1..n -> Lines]
  BY <1>2, <1>3, <1>5
<1>7. Entered(c) \in Seq(Lines) /\ DOMAIN Entered(c) = 1..n
  BY <1>2, <1>6, FunIsSeq
<1>8. Readable(Entered(c)) = Readable(c.lines)
  BY <1>2, <1>4, <1>5, <1>7 DEF Readable
<1> QED
  BY <1>2, <1>3, <1>5, <1>7, <1>8 DEF new

(* A later text behind an earlier one. *)
LEMMA JoinedLines ==
  ASSUME NEW a \in Seq(Lines), NEW b \in Seq(Lines), Ordered(a), Ordered(b), Newer(a, b)
  PROVE  /\ a \o b \in Seq(Lines) /\ Ordered(a \o b)
         /\ \A i \in Readable(a \o b) : \/ \E j \in Readable(a) : (a \o b)[i] = a[j]
                                        \/ \E j \in Readable(b) : (a \o b)[i] = b[j]
         /\ \A k \in DOMAIN a : k \in DOMAIN (a \o b) /\ (a \o b)[k] = a[k]
<1> DEFINE t == a \o b
           n == Len(a)
<1>1. n \in Nat /\ DOMAIN a = 1..n /\ DOMAIN b = 1..Len(b) /\ Len(b) \in Nat
  BY LenProperties
<1>2. /\ t \in Seq(Lines) /\ DOMAIN t = 1..n + Len(b)
      /\ \A i \in 1..n + Len(b) : t[i] = IF i <= n THEN a[i] ELSE b[i - n]
  <2>1. /\ t \in Seq(Lines) /\ Len(t) = n + Len(b)
        /\ \A i \in 1..n + Len(b) : t[i] = IF i <= n THEN a[i] ELSE b[i - n]
    BY ConcatProperties
  <2> QED
    BY <2>1, LenProperties
<1> HIDE DEF t, n
<1>3. \A i \in Readable(t) :
        /\ i \in Nat
        /\ \/ i <= n /\ i \in Readable(a) /\ t[i] = a[i]
           \/ i > n /\ i - n \in Readable(b) /\ t[i] = b[i - n]
  BY <1>1, <1>2 DEF Readable
<1>4. Ordered(t)
  <2> SUFFICES ASSUME NEW i \in Readable(t), NEW j \in Readable(t), i < j
               PROVE  t[i].id < t[j].id
    BY DEF Ordered
  <2>0. i \in Nat /\ j \in Nat
    BY <1>3
  <2>1. CASE j <= n
    <3>1. i <= n
      BY <1>1, <2>0, <2>1
    <3>2. i \in Readable(a) /\ t[i] = a[i] /\ j \in Readable(a) /\ t[j] = a[j]
      BY <1>1, <1>3, <2>0, <2>1, <3>1
    <3> QED
      BY <3>2 DEF Ordered
  <2>2. CASE i > n
    <3>1. i - n \in Readable(b) /\ t[i] = b[i - n] /\ j - n \in Readable(b) /\ t[j] = b[j - n] /\ i - n < j - n
      BY <1>1, <1>3, <2>0, <2>2
    <3> QED
      BY <3>1 DEF Ordered
  <2>3. CASE i <= n /\ j > n
    <3>1. i \in Readable(a) /\ t[i] = a[i] /\ j - n \in Readable(b) /\ t[j] = b[j - n]
      BY <1>1, <1>3, <2>0, <2>3
    <3> QED
      BY <3>1 DEF Newer
  <2> QED
    BY <1>1, <2>0, <2>1, <2>2, <2>3
<1>5. \A k \in DOMAIN a : k \in DOMAIN t /\ t[k] = a[k]
  BY <1>1, <1>2
<1> QED
  BY <1>2, <1>3, <1>4, <1>5 DEF t

LEMMA PrefixLines ==
  ASSUME NEW a \in Seq(Lines), Ordered(a), NEW k \in 0..Len(a)
  PROVE  /\ SubSeq(a, 1, k) \in Seq(Lines) /\ Ordered(SubSeq(a, 1, k))
         /\ \A i \in Readable(SubSeq(a, 1, k)) : i \in Readable(a) /\ SubSeq(a, 1, k)[i] = a[i]
<1> DEFINE t == SubSeq(a, 1, k)
<1>1. Len(a) \in Nat /\ DOMAIN a = 1..Len(a) /\ 1 \in Int /\ k \in Int /\ \A i \in 1..k : a[i] \in Lines
  BY LenProperties
<1>2. /\ t \in Seq(Lines) /\ Len(t) = (IF 1 <= k THEN k - 1 + 1 ELSE 0)
      /\ \A i \in 1..k - 1 + 1 : t[i] = a[1 + i - 1]
  BY <1>1, SubSeqProperties
<1>3. DOMAIN t = 1..Len(t)
  BY <1>2, LenProperties
<1> HIDE DEF t
<1>4. \A i \in Readable(t) : i \in Readable(a) /\ t[i] = a[i]
  BY <1>1, <1>2, <1>3 DEF Readable
<1>5. Ordered(t)
  BY <1>4 DEF Ordered
<1> QED
  BY <1>2, <1>4, <1>5 DEF t

(* What the gateway writes of its copy c while the file is open. *)
LEMMA TextOfCopy ==
  ASSUME LogInv, writing, NEW c \in LogCopies, copy = <<c>>
  PROVE  /\ Entered(c) \in Seq(Lines) /\ Ordered(Entered(c))
         /\ \A k \in Readable(Entered(c)) :
              /\ Entered(c)[k].id \in LineIds(c.lines)
              /\ Entered(c)[k].id <= logged
              /\ \A j \in Readable(logFile) : Entered(c)[k].id < logFile[j].id
         /\ Ordered(logFile) /\ Numbered(logFile) /\ logFile \in Seq(Lines)
         /\ Holds(c.lines)
<1>1. /\ Ordered(c.lines) /\ Numbered(c.lines) /\ Holds(c.lines) /\ Newer(c.lines, logFile)
      /\ Ordered(logFile) /\ Numbered(logFile) /\ logFile \in Seq(Lines)
  BY DEF LogInv, LogTypeOK, CopyInv, FileInv
<1>2. /\ Entered(c) \in Seq(Lines) /\ DOMAIN Entered(c) = DOMAIN c.lines /\ Readable(Entered(c)) = Readable(c.lines)
      /\ \A k \in DOMAIN c.lines : Entered(c)[k].id = c.lines[k].id
  BY EnteredLines
<1> DEFINE text == Entered(c)
<1> HIDE DEF text
<1>3. \A k \in Readable(c.lines) : k \in Readable(text) /\ text[k].id = c.lines[k].id
  BY <1>2 DEF Readable, text
<1>4. Readable(text) = Readable(c.lines)
  BY <1>2 DEF text
<1>5. \A k \in Readable(text) : text[k].id \in LineIds(c.lines) /\ text[k].id <= logged
  BY <1>1, <1>3, <1>4 DEF Numbered, LineIds
<1>6. \A k \in Readable(text) : \A j \in Readable(logFile) : text[k].id < logFile[j].id
  BY <1>1, <1>3, <1>4 DEF Newer
<1>7. Ordered(text)
  BY <1>1, <1>3, <1>4 DEF Ordered
<1> QED
  BY <1>1, <1>2, <1>5, <1>6, <1>7 DEF text

(* What may remain of the file behind the text is newer than the text. *)
LEMMA RemainsAreNewer ==
  ASSUME LogInv, writing, NEW c \in LogCopies, copy = <<c>>, NEW rest \in Remains \cup {logFile}
  PROVE  /\ rest \in Seq(Lines) /\ Ordered(rest)
         /\ \A k \in Readable(rest) : \E j \in Readable(logFile) : rest[k] = logFile[j]
         /\ Newer(Entered(c), rest)
<1>1. /\ Ordered(logFile) /\ logFile \in Seq(Lines) /\ LogTypeOK
      /\ \A k \in Readable(Entered(c)), j \in Readable(logFile) : Entered(c)[k].id < logFile[j].id
  BY TextOfCopy DEF LogInv
<1>2. /\ rest \in Seq(Lines) /\ Ordered(rest)
      /\ \A k \in Readable(rest) : \E j \in Readable(logFile) : rest[k] = logFile[j]
  <2>1. CASE rest \in Remains
    BY <1>1, <2>1, RemainsOfFile
  <2>2. CASE rest = logFile
    BY <1>1, <2>2
  <2> QED
    BY <2>1, <2>2
<1> QED
  BY <1>1, <1>2 DEF Newer

LEMMA EndVerdictKeeps ==
  ASSUME LogInv, EndVerdict
  PROVE  LogInv'
<1>1. PICK c \in LogCopies : copy = <<c>>
  BY DEF LogInv, LogTypeOK, CopyInv, EndVerdict
<1>2. PICK rest \in Remains : logFile' = Entered(c) \o rest
  BY <1>1 DEF EndVerdict
<1>3. /\ writing /\ copy' = <<>> /\ writing' = FALSE /\ given' = [given EXCEPT ![c.id] = c.verdict]
      /\ endsLine' = TRUE /\ UNCHANGED <<logged, exposed>>
  BY <1>1 DEF EndVerdict
<1>4. /\ logged \in Nat /\ given \in [1..logged -> Verdicts \cup {None}] /\ c.verdict \in Verdicts /\ LogTypeOK
  BY DEF LogInv, LogTypeOK, LogCopies
<1> DEFINE text == Entered(c)
<1>5. /\ text \in Seq(Lines) /\ Ordered(text) /\ Numbered(logFile) /\ Holds(c.lines)
      /\ \A k \in Readable(text) : text[k].id <= logged
  BY <1>1, <1>3, TextOfCopy
<1>6. /\ DOMAIN text = DOMAIN c.lines
      /\ \A k \in DOMAIN c.lines : c.lines[k].id # c.id => text[k] = c.lines[k]
      /\ \A k \in DOMAIN c.lines : c.lines[k].id = c.id => text[k] = Line(c.id, c.verdict)
  BY EnteredLines
<1>7. /\ rest \in Seq(Lines) /\ Ordered(rest) /\ Newer(text, rest)
      /\ \A k \in Readable(rest) : \E j \in Readable(logFile) : rest[k] = logFile[j]
  BY <1>1, <1>3, RemainsAreNewer
<1> HIDE DEF text
<1>8. /\ logFile' \in Seq(Lines) /\ Ordered(logFile')
      /\ \A i \in Readable(logFile') : \/ \E j \in Readable(text) : logFile'[i] = text[j]
                                       \/ \E j \in Readable(rest) : logFile'[i] = rest[j]
      /\ \A k \in DOMAIN text : k \in DOMAIN logFile' /\ logFile'[k] = text[k]
  <2>1. logFile' = text \o rest
    BY <1>2 DEF text
  <2> QED
    BY <1>5, <1>7, <2>1, JoinedLines
<1>9. \A i \in Readable(logFile') : logFile'[i].id <= logged
  BY <1>5, <1>7, <1>8 DEF Numbered
<1>10. Holds(logFile)'
  <2> SUFFICES ASSUME NEW i \in 1..logged \ exposed
               PROVE  \E k \in DOMAIN logFile' : logFile'[k] = Line(i, given'[i])
    BY <1>3 DEF Holds
  <2>1. PICK k \in DOMAIN c.lines : c.lines[k] = Line(i, given[i])
    BY <1>5 DEF Holds
  <2>2. c.lines[k].id = i
    BY <2>1 DEF Line
  <2>3. text[k] = Line(i, given'[i])
    BY <1>3, <1>4, <1>6, <2>1, <2>2
  <2> QED
    BY <1>6, <1>8, <2>1, <2>3
<1>11. LogTypeOK'
  BY <1>3, <1>4, <1>8 DEF LogTypeOK
<1>12. Numbered(logFile)'
  BY <1>3, <1>9 DEF Numbered
<1> QED
  BY <1>3, <1>8, <1>10, <1>11, <1>12 DEF LogInv, FileInv, CopyInv, EndInv, Ordered

(* The gateway stops in the middle of writing: what the file has is in order,   *)
(* and all that was in the copy is exposed.                                     *)
LEMMA CutShortKeeps ==
  ASSUME LogInv, writing, RestartWhileWriting
  PROVE  LogInv'
<1>1. PICK c \in LogCopies : copy = <<c>>
  BY DEF LogInv, LogTypeOK, RestartWhileWriting
<1>2. /\ copy' = <<>> /\ writing' = FALSE /\ UNCHANGED <<logged, given>>
      /\ CutShort(Entered(c)) /\ exposed' = exposed \cup LineIds(c.lines)
  BY <1>1 DEF RestartWhileWriting
<1> DEFINE text == Entered(c)
<1>3. /\ text \in Seq(Lines) /\ Ordered(text) /\ Numbered(logFile) /\ Holds(c.lines)
      /\ \A k \in Readable(text) : /\ text[k].id \in LineIds(c.lines) /\ text[k].id <= logged
  BY <1>1, TextOfCopy
<1>4. \A rest \in Remains \cup {logFile} :
        /\ rest \in Seq(Lines) /\ Ordered(rest) /\ Newer(text, rest)
        /\ \A k \in Readable(rest) : \E j \in Readable(logFile) : rest[k] = logFile[j]
  BY <1>1, RemainsAreNewer
<1>5. CutShort(text) /\ Len(text) \in Nat
  BY <1>2, <1>3
<1> HIDE DEF text
<1> DEFINE FromText(i) == \E j \in Readable(text) : logFile'[i] = text[j]
           FromFile(i) == \E j \in Readable(logFile) : logFile'[i] = logFile[j]
<1>6. ASSUME NEW k \in 0..Len(text), NEW rest \in Seq(Lines), Ordered(rest), Newer(text, rest),
             logFile' = SubSeq(text, 1, k) \o rest
      PROVE  /\ logFile' \in Seq(Lines) /\ Ordered(logFile')
             /\ \A i \in Readable(logFile') : FromText(i) \/ \E j \in Readable(rest) : logFile'[i] = rest[j]
  <2>1. /\ SubSeq(text, 1, k) \in Seq(Lines) /\ Ordered(SubSeq(text, 1, k))
        /\ \A i \in Readable(SubSeq(text, 1, k)) : i \in Readable(text) /\ SubSeq(text, 1, k)[i] = text[i]
    BY <1>3, PrefixLines
  <2> DEFINE head == SubSeq(text, 1, k)
  <2> HIDE DEF head
  <2>2. head \in Seq(Lines) /\ Ordered(head) /\ \A i \in Readable(head) : i \in Readable(text) /\ head[i] = text[i]
    BY <2>1 DEF head
  <2>3. Newer(head, rest) /\ logFile' = head \o rest
    BY <1>6, <2>2 DEF Newer, head
  <2>4. /\ logFile' \in Seq(Lines) /\ Ordered(logFile')
        /\ \A i \in Readable(logFile') : \/ \E j \in Readable(head) : logFile'[i] = head[j]
                                         \/ \E j \in Readable(rest) : logFile'[i] = rest[j]
    <3>1. PICK joined : joined = head \o rest
      OBVIOUS
    <3>2. /\ joined \in Seq(Lines) /\ Ordered(joined)
          /\ \A i \in Readable(joined) : \/ \E j \in Readable(head) : joined[i] = head[j]
                                         \/ \E j \in Readable(rest) : joined[i] = rest[j]
      <4>1. rest \in Seq(Lines) /\ Ordered(rest) /\ Newer(head, rest)
        BY <1>6, <2>3
      <4> QED
        BY <2>2, <3>1, <4>1, JoinedLines
    <3> QED
      BY <2>3, <3>1, <3>2
  <2> QED
    BY <2>2, <2>4
<1>7. /\ logFile' \in Seq(Lines) /\ Ordered(logFile') /\ endsLine' \in BOOLEAN
      /\ \A i \in Readable(logFile') : FromText(i) \/ (endsLine' /\ FromFile(i))
  <2>1. CASE endsLine' = TRUE /\ \E k \in 0..Len(text), rest \in Remains \cup {logFile} : logFile' = SubSeq(text, 1, k) \o rest
    <3>1. PICK k \in 0..Len(text), rest \in Remains \cup {logFile} : logFile' = SubSeq(text, 1, k) \o rest
      BY <2>1
    <3>2. /\ logFile' \in Seq(Lines) /\ Ordered(logFile')
          /\ \A i \in Readable(logFile') : FromText(i) \/ \E j \in Readable(rest) : logFile'[i] = rest[j]
      BY <1>4, <1>6, <3>1
    <3>3. \A i \in Readable(logFile') : FromText(i) \/ FromFile(i)
      BY <1>4, <3>2
    <3> QED
      BY <2>1, <3>2, <3>3
  <2>2. CASE endsLine' = FALSE /\ \E k \in 1..Len(text) : logFile' = SubSeq(text, 1, k)
    <3>1. PICK k \in 1..Len(text) : logFile' = SubSeq(text, 1, k)
      BY <2>2
    <3>2. k \in 0..Len(text)
      BY <1>5
    <3>3. /\ logFile' \in Seq(Lines) /\ Ordered(logFile')
          /\ \A i \in Readable(logFile') : i \in Readable(text) /\ logFile'[i] = text[i]
      BY <1>3, <3>1, <3>2, PrefixLines
    <3> QED
      BY <2>2, <3>3
  <2>3. CASE endsLine' = FALSE /\ \E k \in 1..Len(text) : logFile' = SubSeq(text, 1, k - 1) \o <<Torn>>
    <3>1. PICK k \in 1..Len(text) : logFile' = SubSeq(text, 1, k - 1) \o <<Torn>>
      BY <2>3
    <3>2. k - 1 \in 0..Len(text)
      BY <1>5
    <3>3. Torn \in Lines
      BY DEF Torn, Line, Lines
    <3>4. <<Torn>> \in Seq(Lines) /\ DOMAIN <<Torn>> = {1} /\ <<Torn>>[1] = Torn
      BY <3>3
    <3>5. Readable(<<Torn>>) = {}
      BY <3>4 DEF Readable
    <3>6. Ordered(<<Torn>>) /\ Newer(text, <<Torn>>)
      BY <3>5 DEF Ordered, Newer
    <3>7. /\ logFile' \in Seq(Lines) /\ Ordered(logFile') /\ \A i \in Readable(logFile') : FromText(i)
      BY <1>6, <3>1, <3>2, <3>4, <3>5, <3>6
    <3> QED
      BY <2>3, <3>7
  <2> QED
    BY <1>5, <2>1, <2>2, <2>3 DEF CutShort
<1>8. \A i \in Readable(logFile') : logFile'[i].id <= logged /\ (~endsLine' => logFile'[i].id \in exposed')
  BY <1>2, <1>3, <1>7 DEF Numbered
<1>9. 1..logged' \ exposed' = {}
  <2> SUFFICES ASSUME NEW i \in 1..logged \ exposed PROVE i \in LineIds(c.lines)
    BY <1>2
  <2>1. PICK k \in DOMAIN c.lines : c.lines[k] = Line(i, given[i])
    BY <1>3 DEF Holds
  <2>2. i # 0
    BY DEF LogInv, LogTypeOK
  <2>3. c.lines[k].id = i /\ c.lines[k] # Torn
    BY <2>1, <2>2 DEF Line, Torn
  <2> QED
    BY <2>3 DEF LineIds, Readable
<1>10. Holds(logFile)'
  BY <1>9 DEF Holds
<1>11. LogTypeOK'
  BY <1>2, <1>7 DEF LogInv, LogTypeOK
<1>12. Ordered(logFile)' /\ Numbered(logFile)' /\ EndInv'
  BY <1>2, <1>7, <1>8 DEF Numbered, Ordered, EndInv, AllExposed
<1> QED
  BY <1>2, <1>10, <1>11, <1>12 DEF LogInv, FileInv, CopyInv

LEMMA LogInvStep == LogInv /\ [EvalLogNext]_logVars => LogInv'
<1> SUFFICES ASSUME LogInv, [EvalLogNext]_logVars PROVE LogInv'
  OBVIOUS
<1>1. CASE LogIncident
  BY <1>1, LogIncidentKeeps
<1>2. CASE ListLog \/ UNCHANGED logVars
  <2>1. UNCHANGED <<logFile, endsLine, copy, writing, logged, given, exposed>>
    BY <1>2 DEF ListLog, logVars
  <2> QED
    BY <2>1 DEF LogInv, LogTypeOK, FileInv, CopyInv, EndInv, AllExposed, Ordered, Numbered, Holds, Newer, Readable
<1>3. ASSUME NEW i \in 1..MaxLogged, NEW v \in Verdicts, BeginVerdict(i, v) PROVE LogInv'
  <2> DEFINE c == [lines |-> logFile, id |-> i, verdict |-> v]
  <2>1. copy = <<>> /\ copy' = <<c>> /\ UNCHANGED <<logFile, endsLine, writing, logged, given, exposed>>
    BY <1>3 DEF BeginVerdict
  <2>2. c \in LogCopies /\ c.lines = logFile
    <3>1. i \in Nat \ {0}
      BY EvalLogAssumption
    <3> QED
      BY <3>1 DEF LogInv, LogTypeOK, LogCopies
  <2> HIDE DEF c
  <2>3. LogTypeOK'
    BY <2>1, <2>2 DEF LogInv, LogTypeOK
  <2>4. ~writing
    BY <2>1 DEF LogInv, CopyInv
  <2>5. FileInv' /\ Holds(logFile) /\ Ordered(logFile) /\ Numbered(logFile)
    BY <2>1, <2>4 DEF LogInv, FileInv, Ordered, Numbered, Holds
  <2>6. CopyInv'
    BY <2>1, <2>2, <2>4, <2>5 DEF CopyInv, Ordered, Numbered, Holds
  <2>7. EndInv'
    BY <2>1 DEF LogInv, EndInv, AllExposed
  <2> QED
    BY <2>3, <2>5, <2>6, <2>7 DEF LogInv
<1>4. CASE OpenForWriting
  <2>1. /\ copy # <<>> /\ writing' = TRUE /\ logFile' = <<>> /\ endsLine' = TRUE
        /\ UNCHANGED <<copy, logged, given, exposed>>
    BY <1>4 DEF OpenForWriting
  <2>2. Readable(logFile') = {} /\ logFile' \in Seq(Lines)
    BY <2>1, EmptySeq DEF Readable
  <2>3. LogTypeOK'
    BY <2>1, <2>2 DEF LogInv, LogTypeOK
  <2>4. FileInv'
    BY <2>1, <2>2 DEF FileInv, Ordered, Numbered
  <2>5. CopyInv'
    BY <2>1, <2>2 DEF LogInv, CopyInv, Ordered, Numbered, Holds, Newer
  <2> QED
    BY <2>1, <2>3, <2>4, <2>5 DEF LogInv, EndInv
<1>5. CASE EndVerdict
  BY <1>5, EndVerdictKeeps
<1>6. CASE RestartWhileWriting
  <2>1. CASE writing
    BY <1>6, <2>1, CutShortKeeps
  <2>2. CASE ~writing
    <3>1. copy' = <<>> /\ writing' = FALSE /\ UNCHANGED <<logFile, endsLine, logged, given, exposed>>
      BY <1>6, <2>2 DEF RestartWhileWriting
    <3> QED
      BY <2>2, <3>1
      DEF LogInv, LogTypeOK, FileInv, CopyInv, EndInv, AllExposed, Ordered, Numbered, Holds, Readable
  <2> QED
    BY <2>1, <2>2 DEF LogInv, LogTypeOK
<1> QED
  BY <1>1, <1>2, <1>3, <1>4, <1>5, <1>6 DEF EvalLogNext

(* Every incident logged keeps its line, in order and with the verdict given   *)
(* last, but for those logged while a verdict was entered, those of a file the *)
(* gateway stopped writing, at whatever byte, and the first logged to a file   *)
(* cut inside a line: for any number of any of them (gateway/main.py:979-995). *)
THEOREM EvalLogCorrect == EvalLogSpec => []LoggedIsKept
<1>1. LogInv => LoggedIsKept
  BY DEF LogInv, FileInv, Ordered, Holds, LoggedIsKept
<1> QED
  BY <1>1, LogInvInit, LogInvStep, PTL DEF EvalLogSpec

(***************************************************************************)
(* The analyses of stored incidents. Fractions are compared by products, so *)
(* that what beats a rating beats all it is no worse than.                 *)
(***************************************************************************)
IncidentRow == [camera: ShopCameras, score: Nat, t: Nat, status: {"OPEN", "CONFIRMED", "DISMISSED"}]
AnalysisTypeOK == incidents \in Seq(IncidentRow) /\ rated \in [ShopCameras -> Int]

LEMMA AnalysisTypeInit == AnalysisInit => AnalysisTypeOK
BY EmptySeq DEF AnalysisInit, AnalysisTypeOK, NoThreshold

(* What multiplication by a positive number leaves as it was. *)
LEMMA TimesMonotone ==
  ASSUME NEW a \in Int, NEW b \in Int, NEW k \in Nat, k > 0
  PROVE  (a <= b <=> a * k <= b * k) /\ (a < b <=> a * k < b * k)
<1>1. ASSUME a <= b PROVE a * k <= b * k
  BY <1>1
<1>2. ASSUME a < b PROVE a * k < b * k
  BY <1>2
<1> QED
  BY <1>1, <1>2

Ratio(x) == x.n \in Int /\ x.d \in Nat /\ x.d > 0

LEMMA AboveIsTransitive ==
  ASSUME NEW x, NEW y, NEW z, Ratio(x), Ratio(y), Ratio(z)
  PROVE  /\ Above(x, y) /\ ~Above(z, y) => Above(x, z)
         /\ ~Above(y, x) /\ ~Above(z, y) => ~Above(z, x)
         /\ Above(x, y) => ~Above(y, x)
         /\ ~Above(x, x)
<1>1. PICK a \in Int, b \in Int, c \in Int, p \in Nat, q \in Nat, r \in Nat :
        a = x.n /\ b = y.n /\ c = z.n /\ p = x.d /\ q = y.d /\ r = z.d
  BY DEF Ratio
<1>2. p > 0 /\ q > 0 /\ r > 0
  BY <1>1 DEF Ratio
<1>3. /\ Above(x, y) <=> b * p < a * q
      /\ Above(z, y) <=> b * r < c * q
      /\ Above(x, z) <=> c * p < a * r
      /\ Above(y, x) <=> a * q < b * p
      /\ Above(z, x) <=> a * r < c * p
  BY <1>1 DEF Above
<1>4. /\ (b * p) * r \in Int /\ (c * q) * p \in Int /\ (a * q) * r \in Int
      /\ (b * r) * p = (b * p) * r /\ (c * q) * p = (c * p) * q /\ (a * q) * r = (a * r) * q
  OBVIOUS
<1>5. ASSUME b * p < a * q, c * q <= b * r PROVE c * p < a * r
  <2>1. (b * p) * r < (a * q) * r
    BY <1>2, <1>5, TimesMonotone
  <2>2. (c * q) * p <= (b * r) * p
    BY <1>2, <1>5, TimesMonotone
  <2>3. (c * p) * q < (a * r) * q
    BY <1>4, <2>1, <2>2
  <2> QED
    BY <1>2, <2>3, TimesMonotone
<1>6. ASSUME b * p <= a * q, c * q <= b * r PROVE c * p <= a * r
  <2>1. (b * p) * r <= (a * q) * r
    BY <1>2, <1>6, TimesMonotone
  <2>2. (c * q) * p <= (b * r) * p
    BY <1>2, <1>6, TimesMonotone
  <2>3. (c * p) * q <= (a * r) * q
    BY <1>4, <2>1, <2>2
  <2> QED
    BY <1>2, <2>3, TimesMonotone
<1>7. ~Above(x, x)
  BY DEF Above, Ratio
<1> QED
  BY <1>3, <1>5, <1>6, <1>7

LEMMA CountIsNat ==
  ASSUME AnalysisTypeOK, NEW c, NEW verdict, NEW above, NEW t
  PROVE  Count(c, verdict, above, t) \in Nat
<1>1. Labeled(c) \subseteq 1..Len(incidents) /\ Len(incidents) \in Nat
  BY DEF AnalysisTypeOK, Labeled
<1>2. IsFiniteSet(1..Len(incidents))
  BY <1>1, FS_Interval
<1> DEFINE S == {i \in Labeled(c) : incidents[i].status = verdict /\ (incidents[i].score >= t) = above}
<1>3. S \subseteq 1..Len(incidents)
  BY <1>1
<1> HIDE DEF S
<1>4. IsFiniteSet(S)
  BY <1>2, <1>3, FS_Subset
<1> QED
  BY <1>4, FS_CardinalityType DEF Count, S

LEMMA RatingIsRatio ==
  ASSUME AnalysisTypeOK, NEW c, NEW t
  PROVE  Ratio(Rating(c, t)) /\ Rating(c, t).n >= 0
<1>1. PICK tp \in Nat, fp \in Nat, fn \in Nat : Rating(c, t) = FBeta(tp, fp, fn)
  BY CountIsNat DEF Rating
<1> QED
  BY <1>1 DEF FBeta, Fraction, Ratio

(* The steps of the sweep. *)
LEMMA BestIs ==
  ASSUME AnalysisTypeOK, NEW c \in ShopCameras
  PROVE  \E best : /\ best[0] = [t |-> DefaultThreshold, rating |-> Fraction(-1, 1)]
                   /\ best[Len(Sweep)].t = Best(c)
                   /\ \A k \in 1..Len(Sweep) :
                        best[k] = IF Better(Rating(c, Sweep[k]), best[k - 1].rating)
                                  THEN [t |-> Sweep[k], rating |-> Rating(c, Sweep[k])]
                                  ELSE best[k - 1]
<1> DEFINE first == [t |-> DefaultThreshold, rating |-> Fraction(-1, 1)]
           D == {first} \cup {[t |-> Sweep[k], rating |-> Rating(c, Sweep[k])] : k \in 1..Len(Sweep)}
           next(k, b) == IF Better(Rating(c, Sweep[k]), b.rating)
                         THEN [t |-> Sweep[k], rating |-> Rating(c, Sweep[k])] ELSE b
           step == [k \in 1..Len(Sweep) |-> [b \in D |-> next(k, b)]]
           P(f) == f = [k \in 0..Len(Sweep) |-> IF k = 0 THEN first
                          ELSE IF Better(Rating(c, Sweep[k]), f[k - 1].rating)
                               THEN [t |-> Sweep[k], rating |-> Rating(c, Sweep[k])] ELSE f[k - 1]]
<1>1. Len(Sweep) \in Nat /\ first \in D
  BY AnalysisAssumption
<1>2. \A k \in 1..Len(Sweep), b \in D : next(k, b) \in D
  OBVIOUS
<1> HIDE DEF D
<1>3. step \in [1..Len(Sweep) -> [D -> D]] /\ \A k \in 1..Len(Sweep), b \in D : step[k][b] = next(k, b)
  BY <1>2
<1> HIDE DEF step, first
<1>4. PICK f : StepsFrom(f, first, step, Len(Sweep), D)
  BY <1>1, <1>3, RecursionExists
<1>5. P(f)
  <2>1. f \in [0..Len(Sweep) -> D] /\ f[0] = first /\ \A k \in 1..Len(Sweep) : f[k] = step[k][f[k - 1]]
    BY <1>4 DEF StepsFrom
  <2>2. \A k \in 1..Len(Sweep) : k # 0 /\ f[k - 1] \in D
    BY <1>1, <2>1
  <2>3. \A k \in 1..Len(Sweep) : f[k] = next(k, f[k - 1])
    BY <1>3, <2>1, <2>2
  <2>4. \A k \in 0..Len(Sweep) : k = 0 \/ k \in 1..Len(Sweep)
    BY <1>1
  <2>5. \A k \in 0..Len(Sweep) :
          f[k] = IF k = 0 THEN first
                 ELSE IF Better(Rating(c, Sweep[k]), f[k - 1].rating)
                      THEN [t |-> Sweep[k], rating |-> Rating(c, Sweep[k])] ELSE f[k - 1]
    BY <2>1, <2>2, <2>3, <2>4
  <2>6. f = [k \in 0..Len(Sweep) |-> f[k]]
    BY <2>1
  <2> QED
    BY <2>5, <2>6
<1>6. PICK best : best = CHOOSE g : P(g)
  OBVIOUS
<1>7. P(best)
  <2> HIDE DEF P
  <2> QED
    BY <1>5, <1>6
<1>8. best[Len(Sweep)].t = Best(c)
  BY <1>6 DEF Best, first
<1>9. \A k \in 1..Len(Sweep) : k \in 0..Len(Sweep) /\ k # 0
  BY <1>1
<1>10. 0 \in 0..Len(Sweep)
  BY <1>1
<1>11. best[0] = first
  BY <1>7, <1>10
<1>12. \A k \in 1..Len(Sweep) :
         best[k] = IF Better(Rating(c, Sweep[k]), best[k - 1].rating)
                   THEN [t |-> Sweep[k], rating |-> Rating(c, Sweep[k])] ELSE best[k - 1]
  BY <1>7, <1>9
<1> QED
  BY <1>8, <1>11, <1>12 DEF first

(* After each step: the first of the best so far. *)
LEMMA BestIsFirst ==
  ASSUME AnalysisTypeOK, NEW c \in ShopCameras
  PROVE  \E k \in 1..Len(Sweep) :
           /\ Best(c) = Sweep[k]
           /\ \A j \in 1..Len(Sweep) : ~Above(Rating(c, Sweep[j]), Rating(c, Sweep[k]))
           /\ \A j \in 1..k - 1 : Above(Rating(c, Sweep[k]), Rating(c, Sweep[j]))
<1>1. PICK best : /\ best[0] = [t |-> DefaultThreshold, rating |-> Fraction(-1, 1)]
                  /\ best[Len(Sweep)].t = Best(c)
                  /\ \A k \in 1..Len(Sweep) :
                       best[k] = IF Better(Rating(c, Sweep[k]), best[k - 1].rating)
                                 THEN [t |-> Sweep[k], rating |-> Rating(c, Sweep[k])]
                                 ELSE best[k - 1]
  BY BestIs
<1>2. PICK N \in Nat : N = Len(Sweep) /\ N > 0
  BY AnalysisAssumption, EmptySeq
<1> DEFINE R(k) == Rating(c, Sweep[k])
           First(n) == \E k \in 1..n :
             /\ best[n] = [t |-> Sweep[k], rating |-> R(k)]
             /\ \A j \in 1..n : ~Above(R(j), R(k))
             /\ \A j \in 1..k - 1 : Above(R(k), R(j))
           G == {n \in Nat : n + 1 <= N => First(n + 1)}
<1>3. \A k : Ratio(R(k)) /\ R(k).n >= 0
  BY RatingIsRatio
<1>4. \A x, y : Better(x, y) <=> Above(x, y)
  BY DEF Better
<1>5. \A k \in 1..N : best[k] = IF Above(R(k), best[k - 1].rating) THEN [t |-> Sweep[k], rating |-> R(k)] ELSE best[k - 1]
  BY <1>1, <1>2, <1>4
<1> HIDE DEF R
<1>6. 0 \in G
  <2>1. Above(R(1), Fraction(-1, 1))
    BY <1>3 DEF Above, Fraction, Ratio
  <2>2. best[0].rating = Fraction(-1, 1) /\ 1 \in 1..N /\ 1 - 1 = 0
    BY <1>1, <1>2
  <2>3. best[1] = [t |-> Sweep[1], rating |-> R(1)]
    BY <1>5, <2>1, <2>2
  <2>4. ~Above(R(1), R(1))
    BY <1>3, AboveIsTransitive
  <2>5. First(1)
    BY <2>3, <2>4
  <2>6. 0 + 1 = 1
    OBVIOUS
  <2> QED
    BY <2>5, <2>6
<1>7. ASSUME NEW m \in Nat, m \in G PROVE m + 1 \in G
  <2> DEFINE n == m + 1
  <2>1. n \in Nat /\ n \in 1..n + 1 /\ (n + 1) - 1 = n
    OBVIOUS
  <2>2. SUFFICES ASSUME n + 1 <= N PROVE First(n + 1)
    BY <2>1
  <2>3. First(n)
    <3>1. m + 1 <= N
      BY <1>2, <2>2
    <3> HIDE DEF First
    <3> QED
      BY <1>7, <3>1
  <2> HIDE DEF n
  <2>4. PICK k \in 1..n : /\ best[n] = [t |-> Sweep[k], rating |-> R(k)]
                          /\ \A j \in 1..n : ~Above(R(j), R(k))
                          /\ \A j \in 1..k - 1 : Above(R(k), R(j))
    BY <2>3
  <2>5. best[n + 1] = IF Above(R(n + 1), R(k)) THEN [t |-> Sweep[n + 1], rating |-> R(n + 1)] ELSE best[n]
    <3>1. n + 1 \in 1..N
      BY <2>1, <2>2
    <3> QED
      BY <1>5, <2>1, <2>4, <3>1
  <2>6. \A j \in 1..n + 1 : j = n + 1 \/ j \in 1..n
    BY <2>1
  <2>7. CASE Above(R(n + 1), R(k))
    <3>1. \A j \in 1..n : Above(R(n + 1), R(j))
      BY <1>3, <2>4, <2>7, AboveIsTransitive
    <3>2. ASSUME NEW j \in 1..n + 1 PROVE ~Above(R(j), R(n + 1))
      <4>1. CASE j = n + 1
        BY <1>3, <4>1, AboveIsTransitive
      <4>2. CASE j \in 1..n
        <5>1. SUFFICES ASSUME Above(R(j), R(n + 1)) PROVE FALSE
          OBVIOUS
        <5>2. ~Above(R(j), R(k))
          BY <2>4, <4>2
        <5>3. ~Above(R(k), R(n + 1))
          BY <1>3, <2>7, AboveIsTransitive
        <5>4. Above(R(j), R(k))
          BY <1>3, <5>1, <5>3, AboveIsTransitive
        <5> QED
          BY <5>2, <5>4
      <4> QED
        BY <2>6, <4>1, <4>2
    <3>3. n + 1 \in 1..n + 1 /\ (n + 1) - 1 = n
      BY <2>1
    <3>4. best[n + 1] = [t |-> Sweep[n + 1], rating |-> R(n + 1)]
      BY <2>5, <2>7
    <3> QED
      BY <3>1, <3>2, <3>3, <3>4
  <2>8. CASE ~Above(R(n + 1), R(k))
    <3>1. \A j \in 1..n + 1 : ~Above(R(j), R(k))
      BY <2>4, <2>6, <2>8
    <3>2. k \in 1..n + 1 /\ best[n + 1] = [t |-> Sweep[k], rating |-> R(k)]
      BY <2>1, <2>4, <2>5, <2>8
    <3> QED
      BY <2>4, <3>1, <3>2
  <2> QED
    BY <2>7, <2>8
<1> HIDE DEF G
<1>8. N - 1 \in G
  BY <1>2, <1>6, <1>7, NatInd
<1>9. First(N)
  <2>1. (N - 1) + 1 = N
    BY <1>2
  <2>2. (N - 1) + 1 <= N => First((N - 1) + 1)
    <3> HIDE DEF First
    <3> QED
      BY <1>8 DEF G
  <2>3. First((N - 1) + 1)
    BY <1>2, <2>1, <2>2
  <2> QED
    BY <2>1, <2>3
<1> QED
  BY <1>1, <1>2, <1>9 DEF R

LEMMA AnalysisTypeStep == AnalysisTypeOK /\ [AnalysisNext]_analysisVars => AnalysisTypeOK'
<1> SUFFICES ASSUME AnalysisTypeOK, [AnalysisNext]_analysisVars PROVE AnalysisTypeOK'
  OBVIOUS
<1>0. incidents \in Seq(IncidentRow) /\ rated \in [ShopCameras -> Int]
  BY DEF AnalysisTypeOK
<1>1. CASE UNCHANGED <<incidents, rated>>
  BY <1>0, <1>1 DEF AnalysisTypeOK
<1>2. ASSUME NEW c \in ShopCameras, NEW score \in Scores, NEW t \in 0..MaxInstant, Occur(c, score, t)
      PROVE  AnalysisTypeOK'
  <2>1. [camera |-> c, score |-> score, t |-> t, status |-> "OPEN"] \in IncidentRow
    BY AnalysisAssumption DEF IncidentRow
  <2> HIDE DEF IncidentRow
  <2> QED
    BY <1>0, <1>2, <2>1, AppendProperties DEF Occur, AnalysisTypeOK
<1>3. ASSUME NEW i \in DOMAIN incidents, NEW verdict \in {"CONFIRMED", "DISMISSED"}, Label(i, verdict)
      PROVE  AnalysisTypeOK'
  <2> DEFINE row == [incidents[i] EXCEPT !.status = verdict]
  <2> HIDE DEF IncidentRow
  <2>2. incidents[i] \in IncidentRow
    BY <1>0
  <2>3. row \in IncidentRow
    BY <2>2 DEF IncidentRow
  <2>4. incidents' = [incidents EXCEPT ![i] = row] /\ rated' = rated
    BY <1>3 DEF Label
  <2> HIDE DEF row
  <2> QED
    BY <1>0, <2>3, <2>4, ExceptSeq DEF AnalysisTypeOK
<1>4. ASSUME NEW c \in ShopCameras, Calibrate(c) PROVE AnalysisTypeOK'
  <2>1. Best(c) \in Int
    BY BestIsFirst, AnalysisAssumption
  <2> QED
    BY <1>0, <1>4, <2>1 DEF Calibrate, AnalysisTypeOK
<1>5. ASSUME NEW c \in ShopCameras, StoreThreshold(c) \/ StoreFails(c) PROVE AnalysisTypeOK'
  BY <1>0, <1>5 DEF StoreThreshold, StoreFails, NoThreshold, AnalysisTypeOK
<1> QED
  BY <1>1, <1>2, <1>3, <1>4, <1>5 DEF AnalysisNext, analysisVars, CalibrationExpires

(* A calibration takes the lowest of the thresholds that rate best, whatever    *)
(* incidents are labelled and however many thresholds are tried                *)
(* (threshold_tuner.py:75).                                                     *)
THEOREM CalibrationCorrect == AnalysisSpec => CalibratesToBest
<1>1. AnalysisTypeOK /\ [AnalysisNext]_analysisVars =>
        [\A c \in ShopCameras : rated'[c] \notin {NoThreshold, rated[c]} =>
           LET best == {t \in {Sweep[k] : k \in DOMAIN Sweep} :
                          \A k \in DOMAIN Sweep : ~Above(Rating(c, Sweep[k]), Rating(c, t))}
           IN rated'[c] = Min(best)]_analysisVars
  <2> SUFFICES ASSUME AnalysisTypeOK, AnalysisNext, NEW c \in ShopCameras,
                      rated'[c] \notin {NoThreshold, rated[c]}
               PROVE  LET best == {t \in {Sweep[k] : k \in DOMAIN Sweep} :
                                     \A k \in DOMAIN Sweep : ~Above(Rating(c, Sweep[k]), Rating(c, t))}
                      IN rated'[c] = Min(best)
    OBVIOUS
  <2> DEFINE best == {t \in {Sweep[k] : k \in DOMAIN Sweep} :
                        \A k \in DOMAIN Sweep : ~Above(Rating(c, Sweep[k]), Rating(c, t))}
  <2>1. rated'[c] = Best(c)
    <3>0. rated \in [ShopCameras -> Int]
      BY DEF AnalysisTypeOK
    <3>1. PICK d \in ShopCameras : Calibrate(d) \/ StoreThreshold(d) \/ StoreFails(d)
      BY DEF AnalysisNext, Occur, Label, CalibrationExpires
    <3>2. CASE c # d
      BY <3>0, <3>1, <3>2 DEF Calibrate, StoreThreshold, StoreFails
    <3>3. CASE c = d
      BY <3>0, <3>1, <3>3 DEF Calibrate, StoreThreshold, StoreFails
    <3> QED
      BY <3>2, <3>3
  <2>2. PICK k \in 1..Len(Sweep) :
           /\ Best(c) = Sweep[k]
           /\ \A j \in 1..Len(Sweep) : ~Above(Rating(c, Sweep[j]), Rating(c, Sweep[k]))
           /\ \A j \in 1..k - 1 : Above(Rating(c, Sweep[k]), Rating(c, Sweep[j]))
    BY BestIsFirst
  <2>3. DOMAIN Sweep = 1..Len(Sweep) /\ Len(Sweep) \in Nat /\ \A j \in 1..Len(Sweep) : Sweep[j] \in Nat
    BY AnalysisAssumption
  <2>4. Sweep[k] \in best
    BY <2>2, <2>3
  <2>5. ASSUME NEW t \in best PROVE Sweep[k] <= t
    <3>1. PICK j \in 1..Len(Sweep) : t = Sweep[j] /\ ~Above(Rating(c, Sweep[k]), Rating(c, Sweep[j]))
      BY <2>3, <2>5
    <3>2. j >= k
      BY <2>2, <2>3, <3>1
    <3>3. CASE j = k
      BY <2>3, <3>1, <3>3
    <3>4. CASE j > k
      <4>1. Sweep[k] < Sweep[j]
        BY <2>3, <3>4, AnalysisAssumption
      <4> QED
        BY <2>3, <3>1, <4>1
    <3> QED
      BY <3>2, <3>3, <3>4
  <2>6. \A t \in best : t \in Nat
    BY <2>3
  <2> HIDE DEF best
  <2>7. Min(best) = Sweep[k]
    <3>1. \A x \in best : (\A y \in best : x <= y) <=> x = Sweep[k]
      BY <2>3, <2>4, <2>5, <2>6
    <3> QED
      BY <2>4, <3>1 DEF Min
  <2> QED
    BY <2>1, <2>2, <2>7 DEF best
<1> QED
  BY <1>1, AnalysisTypeInit, AnalysisTypeStep, PTL DEF AnalysisSpec, CalibratesToBest

(***************************************************************************)
(* Groups. After k rows, newest first, all rows so far are used, unless     *)
(* there are as many groups as were asked for; and no row that is used but *)
(* in no group is near another such row or one that is not used yet.       *)
(***************************************************************************)
Gatherings == [used: SUBSET Nat, groups: SUBSET SUBSET Nat]

LEMMA ListedRows ==
  ASSUME AnalysisTypeOK
  PROVE  /\ Len(incidents) \in Nat /\ Listed \subseteq 1..Len(incidents)
         /\ \A i, j \in Listed : Near(i, j) <=> Near(j, i)
         /\ \A i : ~Near(i, i)
<1>1. incidents \in Seq(IncidentRow) /\ DOMAIN incidents = 1..Len(incidents) /\ Len(incidents) \in Nat
  BY DEF AnalysisTypeOK
<1>2. Listed \subseteq 1..Len(incidents)
  BY <1>1 DEF Listed, Listable
<1>3. \A i \in 1..Len(incidents) : incidents[i].t \in Nat
  <2>1. \A i \in 1..Len(incidents) : incidents[i] \in IncidentRow
    <3> HIDE DEF IncidentRow
    <3> QED
      BY <1>1
  <2> QED
    BY <2>1 DEF IncidentRow
<1>4. ASSUME NEW i \in Listed, NEW j \in Listed, Near(i, j) PROVE Near(j, i)
  <2>1. incidents[i].t \in Nat /\ incidents[j].t \in Nat /\ GroupWindow \in Nat
    BY <1>2, <1>3, AnalysisAssumption
  <2> QED
    BY <1>4, <2>1 DEF Near
<1> QED
  BY <1>1, <1>2, <1>4 DEF Near

LEMMA GatherIsGathering ==
  ASSUME AnalysisTypeOK, NEW i, NEW acc \in Gatherings
  PROVE  Gather(i, acc) \in Gatherings
<1> DEFINE group == {i} \cup {j \in Listed \ acc.used : Near(i, j)}
<1>1. CASE i \notin Listed \ acc.used \/ Cardinality(acc.groups) >= GroupLimit
  BY <1>1 DEF Gather
<1>2. CASE ~(i \notin Listed \ acc.used \/ Cardinality(acc.groups) >= GroupLimit)
  <2>1. group \subseteq Nat /\ acc.used \subseteq Nat /\ acc.groups \subseteq SUBSET Nat
    BY <1>2, ListedRows DEF Gatherings
  <2>2. Gather(i, acc) = [used |-> acc.used \cup group,
                          groups |-> IF Cardinality(group) > 1 THEN acc.groups \cup {group} ELSE acc.groups]
    BY <1>2 DEF Gather, Used
  <2>3. PICK grp : grp = group
    OBVIOUS
  <2>4. acc.used \cup grp \in SUBSET Nat
    BY <2>1, <2>3
  <2>5. (IF Cardinality(grp) > 1 THEN acc.groups \cup {grp} ELSE acc.groups) \in SUBSET SUBSET Nat
    <3>1. acc.groups \cup {grp} \in SUBSET SUBSET Nat
      BY <2>1, <2>3
    <3>2. acc.groups \in SUBSET SUBSET Nat
      BY <2>1
    <3> QED
      BY <3>1, <3>2
  <2>6. PICK gs \in SUBSET SUBSET Nat : gs = IF Cardinality(grp) > 1 THEN acc.groups \cup {grp} ELSE acc.groups
    BY <2>5
  <2>7. PICK us \in SUBSET Nat : us = acc.used \cup grp
    BY <2>4
  <2>8. Gather(i, acc) = [used |-> us, groups |-> gs]
    <3> HIDE DEF group
    <3> QED
      BY <2>2, <2>3, <2>6, <2>7
  <2> QED
    BY <2>8 DEF Gatherings
<1> QED
  BY <1>1, <1>2

LEMMA GatheredIs ==
  ASSUME AnalysisTypeOK
  PROVE  \E after : /\ after[0] = [used |-> {}, groups |-> {}] /\ after[Len(incidents)] = Gathered
                    /\ \A k \in 1..Len(incidents) : after[k] = Gather(Len(incidents) + 1 - k, after[k - 1])
<1> DEFINE D == Gatherings
           n == Len(incidents)
           first == [used |-> {}, groups |-> {}]
           step == [k \in 1..n |-> [a \in D |-> Gather(n + 1 - k, a)]]
           P(f) == f = [k \in 0..n |-> IF k = 0 THEN first ELSE Gather(n + 1 - k, f[k - 1])]
<1>1. n \in Nat /\ first \in D
  BY ListedRows DEF Gatherings
<1>2. \A k \in 1..n, a \in D : Gather(n + 1 - k, a) \in D
  BY GatherIsGathering
<1> HIDE DEF D, n
<1>3. step \in [1..n -> [D -> D]] /\ \A k \in 1..n, a \in D : step[k][a] = Gather(n + 1 - k, a)
  BY <1>2
<1> HIDE DEF step, first
<1>4. PICK f : StepsFrom(f, first, step, n, D)
  BY <1>1, <1>3, RecursionExists
<1>5. P(f)
  <2>1. f \in [0..n -> D] /\ f[0] = first /\ \A k \in 1..n : f[k] = step[k][f[k - 1]]
    BY <1>4 DEF StepsFrom
  <2>2. \A k \in 1..n : k # 0 /\ f[k - 1] \in D
    BY <1>1, <2>1
  <2>3. \A k \in 1..n : f[k] = Gather(n + 1 - k, f[k - 1])
    BY <1>3, <2>1, <2>2
  <2>4. \A k \in 0..n : k = 0 \/ k \in 1..n
    BY <1>1
  <2>5. \A k \in 0..n : f[k] = IF k = 0 THEN first ELSE Gather(n + 1 - k, f[k - 1])
    BY <2>1, <2>2, <2>3, <2>4
  <2>6. f = [k \in 0..n |-> f[k]]
    BY <2>1
  <2> QED
    BY <2>5, <2>6
<1>6. PICK after : after = CHOOSE g : P(g)
  OBVIOUS
<1>7. P(after)
  <2> HIDE DEF P
  <2> QED
    BY <1>5, <1>6
<1>8. after[n] = Gathered
  BY <1>6 DEF Gathered, first, n
<1>9. \A k \in 1..n : k \in 0..n /\ k # 0
  BY <1>1
<1>10. 0 \in 0..n
  BY <1>1
<1>11. after[0] = first
  BY <1>7, <1>10
<1>12. \A k \in 1..n : after[k] = Gather(n + 1 - k, after[k - 1])
  BY <1>7, <1>9
<1> QED
  BY <1>8, <1>11, <1>12 DEF first, n

LoneApart(acc) ==
  \A i \in acc.used \ UNION acc.groups : \A j \in Listed \ UNION acc.groups : ~Near(i, j)
GroupsWellMade(acc) ==
  /\ \A g \in acc.groups :
       g \subseteq acc.used /\ \E newest \in g : \A i \in g : i <= newest /\ (i # newest => Near(i, newest))
  /\ \A g, h \in acc.groups : g = h \/ g \cap h = {}

GatheredTo(acc, k) ==
  /\ acc \in Gatherings /\ acc.used \subseteq Listed /\ IsFiniteSet(acc.groups)
  /\ GroupsWellMade(acc)
  /\ Cardinality(acc.groups) < GroupLimit =>
       LoneApart(acc) /\ \A j \in Listed : j > Len(incidents) - k => j \in acc.used

(* One row more. *)
LEMMA GatherKeeps ==
  ASSUME AnalysisTypeOK, NEW acc, NEW k \in 1..Len(incidents), GatheredTo(acc, k - 1)
  PROVE  GatheredTo(Gather(Len(incidents) + 1 - k, acc), k)
<1>n. PICK n \in Nat : n = Len(incidents)
  BY ListedRows
<1>i. PICK i \in Nat : i = n + 1 - k /\ i > n - k /\ (\A j \in Nat : j > n - k => j = i \/ j > n - (k - 1))
                       /\ (\A j \in Nat : j <= n - (k - 1) => j <= i)
  <2>1. n + 1 - k \in Nat
    BY <1>n
  <2>2. PICK i \in Nat : i = n + 1 - k
    BY <2>1
  <2>3. i > n - k /\ k \in Nat
    BY <1>n, <2>2
  <2>4. \A j \in Nat : j > n - k => j = i \/ j > n - (k - 1)
    BY <2>2, <2>3
  <2>5. \A j \in Nat : j <= n - (k - 1) => j <= i
    BY <2>2, <2>3
  <2> QED
    BY <2>2, <2>3, <2>4, <2>5
<1>l. /\ Listed \subseteq Nat /\ (\A p, q \in Listed : Near(p, q) <=> Near(q, p)) /\ \A p : ~Near(p, p)
  BY ListedRows
<1>a. /\ acc \in Gatherings /\ acc.used \subseteq Listed /\ IsFiniteSet(acc.groups)
      /\ GroupsWellMade(acc)
      /\ Cardinality(acc.groups) < GroupLimit =>
           LoneApart(acc) /\ \A j \in Listed : j > n - (k - 1) => j \in acc.used
  BY <1>n DEF GatheredTo
<1>g. Gather(Len(incidents) + 1 - k, acc) = Gather(i, acc)
  BY <1>n, <1>i
<1>c. Cardinality(acc.groups) \in Nat /\ GroupLimit \in Nat
  BY <1>a, FS_CardinalityType, AnalysisAssumption
<1>1. CASE Cardinality(acc.groups) >= GroupLimit
  <2>1. Gather(i, acc) = acc /\ ~(Cardinality(acc.groups) < GroupLimit)
    BY <1>1, <1>c DEF Gather
  <2> QED
    BY <1>a, <1>g, <2>1 DEF GatheredTo
<1>2. CASE Cardinality(acc.groups) < GroupLimit /\ i \notin Listed \ acc.used
  <2>1. Gather(i, acc) = acc
    BY <1>2 DEF Gather
  <2>2. \A j \in Listed : j > n - k => j \in acc.used
    BY <1>a, <1>i, <1>l, <1>2
  <2> QED
    BY <1>a, <1>g, <1>n, <1>2, <2>1, <2>2 DEF GatheredTo
<1>3. CASE Cardinality(acc.groups) < GroupLimit /\ i \in Listed \ acc.used
  <2> DEFINE group == {i} \cup {j \in Listed \ acc.used : Near(i, j)}
             new == Gather(i, acc)
  <2>0. PICK grp : grp = group
    OBVIOUS
  <2>1. new = [used |-> acc.used \cup grp,
               groups |-> IF Cardinality(grp) > 1 THEN acc.groups \cup {grp} ELSE acc.groups]
    BY <1>c, <1>3, <2>0 DEF Gather, Used
  <2>2. grp \subseteq Listed \ acc.used /\ i \in grp /\ \A j \in grp : j # i => Near(i, j)
    BY <1>3, <2>0
  <2>3. \A j \in Listed \ acc.used : Near(i, j) => j \in grp
    BY <2>0
  <2>4. \A j \in grp : j <= i /\ (j # i => Near(j, i))
    <3>1. ASSUME NEW j \in grp PROVE j <= i
      <4>1. ~(j > n - (k - 1)) /\ j \in Nat
        BY <1>a, <1>l, <1>3, <2>2
      <4> QED
        BY <1>n, <1>i, <4>1
    <3> QED
      BY <1>l, <1>3, <2>2, <3>1
  <2>5. new \in Gatherings /\ new.used = acc.used \cup grp /\ new.used \subseteq Listed
    <3>1. new \in Gatherings
      BY <1>a, GatherIsGathering
    <3>2. new.used = acc.used \cup grp
      BY <2>1
    <3> QED
      BY <1>a, <2>2, <3>1, <3>2
  <2>6. \A j \in Listed : j > n - k => j \in new.used
    BY <1>a, <1>i, <1>l, <1>3, <2>2, <2>5
  <2> HIDE DEF group, new
  <2>7. CASE Cardinality(grp) > 1
    <3>1. new.groups = acc.groups \cup {grp}
      BY <2>1, <2>7
    <3>2. IsFiniteSet(new.groups) /\ Cardinality(acc.groups) <= Cardinality(new.groups)
      <4>1. IsFiniteSet(new.groups)
        BY <1>a, <3>1, FS_AddElement
      <4> QED
        BY <3>1, <4>1, FS_Subset
    <3>3. GroupsWellMade(new)
      <4>1. \A g \in acc.groups : g \subseteq acc.used /\ g \cap grp = {}
        BY <1>a, <2>2 DEF GroupsWellMade
      <4>2. \A g, h \in new.groups : g = h \/ g \cap h = {}
        BY <1>a, <3>1, <4>1 DEF GroupsWellMade
      <4>3. grp \subseteq new.used /\ \E newest \in grp : \A j \in grp : j <= newest /\ (j # newest => Near(j, newest))
        BY <2>2, <2>4, <2>5
      <4>4. \A g \in acc.groups :
              g \subseteq new.used /\ \E newest \in g : \A j \in g : j <= newest /\ (j # newest => Near(j, newest))
        BY <1>a, <2>5, <4>1 DEF GroupsWellMade
      <4> QED
        BY <3>1, <4>2, <4>3, <4>4 DEF GroupsWellMade
    <3>4. LoneApart(new)
      <4>1. UNION new.groups = (UNION acc.groups) \cup grp
        BY <3>1
      <4> QED
        BY <1>a, <1>3, <2>5, <4>1 DEF LoneApart
    <3> QED
      BY <1>g, <1>n, <2>5, <2>6, <3>2, <3>3, <3>4 DEF GatheredTo, new
  <2>8. CASE ~(Cardinality(grp) > 1)
    <3>1. new.groups = acc.groups
      BY <2>1, <2>8
    <3>2. grp = {i}
      <4>1. SUFFICES ASSUME NEW j \in grp, j # i PROVE FALSE
        BY <2>2
      <4>2. IsFiniteSet(grp)
        <5>1. grp \subseteq 1..n
          BY <1>n, <2>2, ListedRows
        <5>2. IsFiniteSet(1..n)
          BY FS_Interval
        <5> QED
          BY <5>1, <5>2, FS_Subset
      <4>3. {i} \subseteq grp /\ IsFiniteSet({i}) /\ Cardinality({i}) = 1
        BY <2>2, FS_Singleton
      <4>4. Cardinality({i}) <= Cardinality(grp) /\ (Cardinality({i}) = Cardinality(grp) => {i} = grp)
        BY <4>2, <4>3, FS_Subset
      <4> QED
        BY <2>8, <4>1, <4>2, <4>3, <4>4, FS_CardinalityType
    <3>3. GroupsWellMade(new)
      BY <1>a, <2>5, <3>1 DEF GroupsWellMade
    <3>4. LoneApart(new)
      <4>1. ASSUME NEW p \in new.used \ UNION new.groups, NEW q \in Listed \ UNION new.groups
            PROVE  ~Near(p, q)
        <5>1. CASE p \in acc.used
          BY <1>a, <1>3, <3>1, <4>1, <5>1 DEF LoneApart
        <5>2. CASE p = i /\ q \in acc.used
          <6>1. ~Near(q, i)
            BY <1>a, <1>3, <3>1, <4>1, <5>2 DEF LoneApart
          <6> QED
            BY <1>l, <1>3, <4>1, <5>2, <6>1
        <5>3. CASE p = i /\ q \notin acc.used
          BY <1>l, <2>3, <3>2, <4>1, <5>3
        <5> QED
          BY <2>5, <3>2, <4>1, <5>1, <5>2, <5>3
      <4> QED
        BY <4>1 DEF LoneApart
    <3> QED
      BY <1>a, <1>g, <1>n, <2>5, <2>6, <3>1, <3>3, <3>4 DEF GatheredTo, new
  <2> QED
    BY <2>7, <2>8
<1> QED
  BY <1>c, <1>1, <1>2, <1>3

LEMMA AllGathered == AnalysisTypeOK => GatheredTo(Gathered, Len(incidents))
<1> SUFFICES ASSUME AnalysisTypeOK PROVE GatheredTo(Gathered, Len(incidents))
  OBVIOUS
<1>1. PICK after : /\ after[0] = [used |-> {}, groups |-> {}] /\ after[Len(incidents)] = Gathered
                   /\ \A k \in 1..Len(incidents) : after[k] = Gather(Len(incidents) + 1 - k, after[k - 1])
  BY GatheredIs
<1>2. PICK n \in Nat : n = Len(incidents)
  BY ListedRows
<1> DEFINE G == {k \in Nat : k <= n => GatheredTo(after[k], k)}
<1>3. 0 \in G
  <2>1. PICK acc : acc = [used |-> {}, groups |-> {}]
    OBVIOUS
  <2>2. acc.used = {} /\ acc.groups = {} /\ acc \in Gatherings /\ IsFiniteSet(acc.groups)
    BY <2>1, FS_EmptySet DEF Gatherings
  <2>3. \A j \in Listed : ~(j > Len(incidents) - 0)
    BY ListedRows
  <2>4. GatheredTo(acc, 0)
    BY <2>2, <2>3 DEF GatheredTo, GroupsWellMade, LoneApart
  <2> QED
    BY <1>1, <2>1, <2>4
<1>4. ASSUME NEW k \in Nat, k \in G PROVE k + 1 \in G
  <2>1. SUFFICES ASSUME k + 1 <= n PROVE GatheredTo(after[k + 1], k + 1)
    OBVIOUS
  <2>2. k <= n /\ k + 1 \in 1..n /\ (k + 1) - 1 = k
    BY <1>2, <2>1
  <2>3. GatheredTo(after[k], k)
    BY <1>4, <2>2
  <2>4. after[k + 1] = Gather(Len(incidents) + 1 - (k + 1), after[k])
    BY <1>1, <1>2, <2>2
  <2> QED
    BY <1>2, <2>2, <2>3, <2>4, GatherKeeps
<1> HIDE DEF G
<1>5. n \in G
  BY <1>2, <1>3, <1>4, NatInd
<1> QED
  BY <1>1, <1>2, <1>5 DEF G

(* Groups share no incident, each has its newest member near all others, and    *)
(* with fewer groups than the limit no two incidents left over are near each    *)
(* other: for any incidents, any window and any limit (correlation.py:75).      *)
THEOREM GroupsCorrect == AnalysisSpec => []GroupsAreApart
<1>1. AnalysisTypeOK => GroupsAreApart
  <2> SUFFICES ASSUME AnalysisTypeOK PROVE GroupsAreApart
    OBVIOUS
  <2>1. GatheredTo(Gathered, Len(incidents)) /\ Groups = Gathered.groups
    BY AllGathered DEF Groups
  <2>2. PICK acc : acc = Gathered
    OBVIOUS
  <2>3. /\ acc \in Gatherings /\ GroupsWellMade(acc) /\ Groups = acc.groups
        /\ Cardinality(Groups) < GroupLimit =>
             LoneApart(acc) /\ \A j \in Listed : j > Len(incidents) - Len(incidents) => j \in acc.used
    BY <2>1, <2>2 DEF GatheredTo
  <2>4. \A g, h \in Groups : g = h \/ g \cap h = {}
    BY <2>3 DEF GroupsWellMade
  <2>5. ASSUME NEW g \in Groups PROVE \A i \in g \ {Max(g)} : Near(i, Max(g))
    <3>1. PICK newest \in g : \A i \in g : i <= newest /\ (i # newest => Near(i, newest))
      BY <2>3, <2>5 DEF GroupsWellMade
    <3>2. g \subseteq Nat
      BY <2>3, <2>5 DEF Gatherings
    <3>3. Max(g) = newest
      <4>1. \A x \in g : (\A y \in g : x >= y) <=> x = newest
        BY <3>1, <3>2
      <4> QED
        BY <3>1, <4>1 DEF Max
    <3> QED
      BY <3>1, <3>3
  <2>6. ASSUME Cardinality(Groups) < GroupLimit PROVE \A i, j \in Listed \ UNION Groups : ~Near(i, j)
    <3>1. \A j \in Listed : j > Len(incidents) - Len(incidents)
      BY ListedRows
    <3>2. LoneApart(acc) /\ Listed \subseteq acc.used
      BY <2>3, <2>6, <3>1
    <3> QED
      BY <2>3, <3>2 DEF LoneApart
  <2> QED
    BY <2>4, <2>5, <2>6 DEF GroupsAreApart
<1> QED
  BY <1>1, AnalysisTypeInit, AnalysisTypeStep, PTL DEF AnalysisSpec

(***************************************************************************)
(* The sync worker of the edge mode. Alerts delivered, in the batch and in  *)
(* the file come one behind the other in the order they were pushed.       *)
(***************************************************************************)
Among(n, s) == \E i \in DOMAIN s : s[i] = n
Behind(s, u) == \A i \in DOMAIN s, j \in DOMAIN u : s[i] < u[j]
AtMost(m, s) == \A i \in DOMAIN s : s[i] <= m

NoneMissing == \A n \in 1..pushed : Among(n, delivered) \/ Among(n, batch) \/ Among(n, file)

(* The alerts that reach netra:incidents come in the order they were pushed,    *)
(* none twice; as long as nothing failed, none is missing (edge_mode.py:91).    *)
SyncedInOrder == Increasing(delivered) /\ (syncFaults = 0 => NoneMissing)

EdgeTypeOK ==
  /\ pushed \in Nat /\ syncFaults \in Nat
  /\ file \in Seq(Nat) /\ batch \in Seq(Nat) /\ delivered \in Seq(Nat)
EdgeInOrder ==
  /\ Increasing(delivered) /\ Increasing(batch) /\ Increasing(file)
  /\ Behind(delivered, batch) /\ Behind(delivered, file) /\ Behind(batch, file)
  /\ AtMost(pushed, delivered) /\ AtMost(pushed, batch) /\ AtMost(pushed, file)
EdgeInv ==
  /\ EdgeTypeOK /\ EdgeInOrder
  /\ syncAt # "sending" => batch = <<>>
  /\ syncFaults = 0 => NoneMissing /\ ~torn

LEMMA EdgeInvInit == EdgeInit => EdgeInv
<1> SUFFICES ASSUME EdgeInit PROVE EdgeInv
  OBVIOUS
<1>1. <<>> \in Seq(Nat) /\ DOMAIN <<>> = {}
  BY EmptySeq
<1>2. EdgeTypeOK
  BY <1>1 DEF EdgeInit, EdgeTypeOK
<1>3. EdgeInOrder
  BY <1>1 DEF EdgeInit, EdgeInOrder, Increasing, Behind, AtMost
<1>4. NoneMissing
  BY DEF EdgeInit, NoneMissing
<1> QED
  BY <1>2, <1>3, <1>4 DEF EdgeInit, EdgeInv

LEMMA PushInOrder == EdgeInv /\ Push => EdgeInv'
<1> SUFFICES ASSUME EdgeInv, Push PROVE EdgeInv'
  OBVIOUS
<1>1. EdgeTypeOK /\ EdgeInOrder
  BY DEF EdgeInv
<1>2. PICK n \in Nat : n = pushed + 1
  BY <1>1 DEF EdgeTypeOK
<1>3. PICK f \in Seq(Nat) : f = Append(file, n)
  BY <1>1, <1>2, AppendProperties DEF EdgeTypeOK
<1>4. pushed' = n /\ file' = f /\ UNCHANGED <<torn, syncAt, batch, delivered, syncFaults>>
  BY <1>2, <1>3 DEF Push
<1>5. file \in Seq(Nat) /\ Increasing(file) /\ \A i \in DOMAIN file : file[i] < n
  BY <1>1, <1>2 DEF EdgeTypeOK, EdgeInOrder, AtMost
<1>6. Len(file) \in Nat /\ DOMAIN file = 1..Len(file) /\ DOMAIN f = 1..Len(file) + 1
      /\ f[Len(file) + 1] = n /\ \A i \in 1..Len(file) : f[i] = file[i]
  BY <1>2, <1>3, <1>5, AppendProperties
<1>7. Increasing(f) /\ AtMost(n, f)
  BY <1>2, <1>5, <1>3, IncreasingAppend DEF AtMost
<1>8. \A i \in DOMAIN f : f[i] = n \/ \E j \in DOMAIN file : f[i] = file[j]
  BY <1>6
<1>9. ASSUME NEW s \in Seq(Nat), AtMost(pushed, s), Behind(s, file) PROVE Behind(s, f) /\ AtMost(n, s)
  <2>1. \A i \in DOMAIN s : s[i] \in Nat /\ s[i] <= pushed
    BY <1>9 DEF AtMost
  <2>2. AtMost(n, s)
    BY <1>1, <1>2, <2>1 DEF AtMost, EdgeTypeOK
  <2>3. Behind(s, f)
    <3> SUFFICES ASSUME NEW i \in DOMAIN s, NEW j \in DOMAIN f PROVE s[i] < f[j]
      BY DEF Behind
    <3>1. s[i] < n /\ \A k \in DOMAIN file : s[i] < file[k]
      BY <1>1, <1>2, <1>9, <2>1 DEF Behind, EdgeTypeOK
    <3> QED
      BY <1>8, <3>1
  <2> QED
    BY <2>2, <2>3
<1>10. Behind(delivered, f) /\ AtMost(n, delivered) /\ Behind(batch, f) /\ AtMost(n, batch)
  BY <1>1, <1>9 DEF EdgeTypeOK, EdgeInOrder
<1>11. EdgeInOrder'
  BY <1>1, <1>4, <1>7, <1>10 DEF EdgeInOrder
<1>12. ASSUME NoneMissing PROVE NoneMissing'
  <2>1. ASSUME NEW k \in 1..n PROVE Among(k, delivered) \/ Among(k, batch) \/ Among(k, f)
    <3>1. Among(n, f)
      BY <1>6 DEF Among
    <3>2. \A m : Among(m, file) => Among(m, f)
      BY <1>6 DEF Among
    <3>3. k = n \/ k \in 1..pushed
      BY <1>1, <1>2 DEF EdgeTypeOK
    <3> QED
      BY <1>12, <3>1, <3>2, <3>3 DEF NoneMissing
  <2> QED
    BY <1>4, <2>1 DEF NoneMissing
<1> QED
  BY <1>1, <1>3, <1>4, <1>11, <1>12 DEF EdgeInv, EdgeTypeOK

LEMMA SendInOrder == EdgeInv /\ SendAlert => EdgeInv'
<1> SUFFICES ASSUME EdgeInv, SendAlert PROVE EdgeInv'
  OBVIOUS
<1>1. EdgeTypeOK /\ EdgeInOrder /\ batch # <<>>
  BY DEF EdgeInv, SendAlert
<1>2. batch \in Seq(Nat) /\ delivered \in Seq(Nat) /\ Increasing(batch) /\ Increasing(delivered)
  BY <1>1 DEF EdgeTypeOK, EdgeInOrder
<1>3. PICK n \in Nat, b \in Seq(Nat) : n = Head(batch) /\ b = Tail(batch)
  BY <1>1, <1>2, IncreasingTail
<1>4. PICK d \in Seq(Nat) : d = Append(delivered, n)
  BY <1>2, <1>3, AppendProperties
<1>5. delivered' = d /\ batch' = b /\ UNCHANGED <<pushed, file, torn, syncAt, syncFaults>>
  BY <1>3, <1>4 DEF SendAlert
<1>6. /\ Len(batch) \in Nat \ {0} /\ DOMAIN batch = 1..Len(batch) /\ n = batch[1]
      /\ DOMAIN b = 1..Len(batch) - 1 /\ \A i \in 1..Len(batch) - 1 : b[i] = batch[i + 1]
  BY <1>1, <1>2, <1>3, HeadTailProperties
<1>7. /\ Len(delivered) \in Nat /\ DOMAIN delivered = 1..Len(delivered) /\ DOMAIN d = 1..Len(delivered) + 1
      /\ d[Len(delivered) + 1] = n /\ \A i \in 1..Len(delivered) : d[i] = delivered[i]
  BY <1>2, <1>3, <1>4, AppendProperties
<1>8. 1 \in DOMAIN batch /\ \A i \in DOMAIN b : \E j \in DOMAIN batch : b[i] = batch[j]
  <2>1. 1 \in 1..Len(batch) /\ \A i \in 1..Len(batch) - 1 : i + 1 \in 1..Len(batch)
    BY <1>6
  <2> QED
    BY <1>6, <2>1
<1>9. \A i \in DOMAIN d : d[i] = n \/ \E j \in DOMAIN delivered : d[i] = delivered[j]
  <2>1. \A i \in 1..Len(delivered) + 1 : i = Len(delivered) + 1 \/ i \in 1..Len(delivered)
    BY <1>7
  <2> QED
    BY <1>7, <2>1
<1>10. \A i \in DOMAIN delivered : delivered[i] < n
  BY <1>1, <1>6, <1>8 DEF EdgeInOrder, Behind
<1>11. Increasing(d)
  BY <1>2, <1>3, <1>4, <1>10, IncreasingAppend
<1>12. Increasing(b) /\ AllAbove(n, b)
  BY <1>1, <1>2, <1>3, IncreasingTail
<1>13. Behind(d, b)
  BY <1>1, <1>8, <1>9, <1>12 DEF AllAbove, Behind, EdgeInOrder
<1>14. Behind(d, file) /\ Behind(b, file)
  BY <1>1, <1>6, <1>8, <1>9 DEF Behind, EdgeInOrder
<1>15. AtMost(pushed, d) /\ AtMost(pushed, b)
  BY <1>1, <1>6, <1>8, <1>9 DEF AtMost, EdgeInOrder
<1>16. EdgeInOrder'
  BY <1>1, <1>5, <1>11, <1>12, <1>13, <1>14, <1>15 DEF EdgeInOrder
<1>17. ASSUME NoneMissing PROVE NoneMissing'
  <2>1. ASSUME NEW k, Among(k, batch) PROVE Among(k, d) \/ Among(k, b)
    <3>1. PICK i \in 1..Len(batch) : batch[i] = k
      BY <1>6, <2>1 DEF Among
    <3>2. CASE i = 1
      <4>1. Len(delivered) + 1 \in DOMAIN d /\ d[Len(delivered) + 1] = k
        BY <1>6, <1>7, <3>1, <3>2
      <4> QED
        BY <4>1 DEF Among
    <3>3. CASE i # 1
      <4>1. i - 1 \in DOMAIN b /\ b[i - 1] = k
        BY <1>6, <3>1, <3>3
      <4> QED
        BY <4>1 DEF Among
    <3> QED
      BY <3>2, <3>3
  <2>2. \A k : Among(k, delivered) => Among(k, d)
    BY <1>7 DEF Among
  <2> QED
    BY <1>5, <1>17, <2>1, <2>2 DEF NoneMissing
<1> QED
  BY <1>1, <1>3, <1>4, <1>5, <1>16, <1>17 DEF EdgeInv, EdgeTypeOK, SendAlert

LEMMA EdgeInvStep == EdgeInv /\ [EdgeNext]_edgeVars => EdgeInv'
<1> SUFFICES ASSUME EdgeInv, [EdgeNext]_edgeVars PROVE EdgeInv'
  OBVIOUS
<1>1. EdgeTypeOK /\ EdgeInOrder
  BY DEF EdgeInv
<1>2. <<>> \in Seq(Nat) /\ DOMAIN <<>> = {}
  BY EmptySeq
<1>3. CASE Push
  BY <1>3, PushInOrder
<1>4. CASE SendAlert
  BY <1>4, SendInOrder
<1>5. CASE Drain
  <2>1. batch = <<>> /\ batch' = file /\ file' = <<>> /\ syncAt' = "sending" /\ UNCHANGED <<pushed, torn, delivered, syncFaults>>
    BY <1>5 DEF Drain, EdgeInv
  <2>2. EdgeTypeOK'
    BY <1>1, <1>2, <2>1 DEF EdgeTypeOK
  <2>3. EdgeInOrder'
    BY <1>1, <1>2, <2>1 DEF EdgeInOrder, Increasing, Behind, AtMost
  <2>4. NoneMissing => NoneMissing'
    BY <1>2, <2>1 DEF NoneMissing, Among
  <2> QED
    BY <2>1, <2>2, <2>3, <2>4 DEF EdgeInv
<1>6. CASE Wake \/ EndSync
  <2>1. UNCHANGED <<pushed, file, torn, batch, delivered, syncFaults>> /\ (syncAt' # "sending" => batch = <<>>)
    BY <1>6 DEF Wake, EndSync, EdgeInv
  <2> QED
    BY <1>1, <2>1 DEF EdgeInv, EdgeTypeOK, EdgeInOrder, NoneMissing
<1>7. CASE SyncFails \/ RestartEdge
  <2>1. syncFaults' = syncFaults + 1 /\ batch' = <<>> /\ UNCHANGED <<pushed, file, delivered>>
    BY <1>7 DEF SyncFails, RestartEdge
  <2>2. EdgeTypeOK' /\ syncFaults' # 0
    BY <1>1, <1>2, <2>1 DEF EdgeTypeOK
  <2>3. EdgeInOrder'
    BY <1>1, <1>2, <2>1 DEF EdgeInOrder, Increasing, Behind, AtMost
  <2> QED
    BY <2>1, <2>2, <2>3 DEF EdgeInv
<1>8. CASE DrainRaises
  <2>1. /\ file' = <<>> /\ batch = <<>> /\ syncFaults # 0
        /\ UNCHANGED <<pushed, batch, delivered, syncFaults>>
    BY <1>8 DEF DrainRaises, EdgeInv
  <2>2. EdgeTypeOK'
    BY <1>1, <1>2, <2>1 DEF EdgeTypeOK
  <2>3. EdgeInOrder'
    BY <1>1, <1>2, <2>1 DEF EdgeInOrder, Increasing, Behind, AtMost
  <2> QED
    BY <2>1, <2>2, <2>3 DEF EdgeInv
<1>9. CASE UNCHANGED edgeVars
  BY <1>9 DEF edgeVars, EdgeInv, EdgeTypeOK, EdgeInOrder, NoneMissing
<1> QED
  BY <1>3, <1>4, <1>5, <1>6, <1>7, <1>8, <1>9 DEF EdgeNext, SyncStep

(* Whatever is pushed while the worker sends, waits or fails, alerts reach the  *)
(* stream in the order they were pushed and none twice.                         *)
THEOREM EdgeCorrect == EdgeSpec => []SyncedInOrder
<1>1. EdgeInv => SyncedInOrder
  BY DEF EdgeInv, EdgeInOrder, SyncedInOrder
<1> QED
  BY <1>1, EdgeInvInit, EdgeInvStep, PTL DEF EdgeSpec

(***************************************************************************)
(* The platform: a part of it behaves as it does alone, and the parts that  *)
(* do not run stay as they are. What is proved of each part holds of all.   *)
(***************************************************************************)
LEMMA PlatformStarts ==
  PlatformInit => /\ HubInit /\ PoseInit /\ StreamingInit /\ SseInit
                  /\ RegistryInit /\ EdgeInit /\ BreakerInit /\ AnalysisInit /\ EvalLogInit /\ ListInit /\ HookInit
BY DEF PlatformInit

LEMMA PlatformSteps ==
  [PlatformNext]_platformVars =>
    /\ [HubNext]_hubVars /\ [PoseNext]_poseVars /\ [StreamingNext]_streamingVars /\ [SseNext]_sseVars
    /\ [RegistryNext]_registryVars /\ [EdgeNext]_edgeVars /\ [BreakerNext]_breakerVars /\ [AnalysisNext]_analysisVars
    /\ [EvalLogNext]_logVars /\ [ListNext]_listVars /\ [HookNext]_hookVars
BY DEF PlatformNext, FeedNext, ServiceNext, BrowserNext, platformVars, feedVars, serviceVars, browserVars

LEMMA PlatformIsItsParts ==
  PlatformInit /\ [][PlatformNext]_platformVars =>
    /\ HubSpec /\ PoseSpec /\ StreamingSpec /\ SseSpec
    /\ RegistrySpec /\ EdgeSpec /\ BreakerSpec /\ AnalysisSpec /\ EvalLogSpec /\ ListSpec /\ HookSpec
BY PlatformStarts, PlatformSteps, PTL
DEF HubSpec, PoseSpec, StreamingSpec, SseSpec, RegistrySpec, EdgeSpec, BreakerSpec, AnalysisSpec, EvalLogSpec, ListSpec, HookSpec

(* Neither reader of a stream that starts at "$" leaves out an entry after its   *)
(* first one (ws_router.py:105, gateway/main.py:390).                           *)
THEOREM ReadersCorrect == FairPlatform => []ReadersLeaveNothingOut
<1>1. ReadWithoutGap /\ SentIsContiguous => ReadersLeaveNothingOut
  BY DEF ReadersLeaveNothingOut
<1> QED
  BY <1>1, PlatformIsItsParts, HubReadsOn, SseCorrect, PTL DEF FairPlatform

(* Every safety property of the platform, for all values of its  *)
(* constants, whichever part runs.                                               *)
THEOREM PlatformCorrect ==
  FairPlatform =>
    /\ [](OvertakenOnlyInHand /\ ReadersLeaveNothingOut /\ PosesOfTheTrack /\ ViewerIsCurrent)
    /\ [](ActivesOverlapped /\ ClosedMeansFewFailures /\ GroupsAreApart /\ LoggedIsKept /\ SyncedInOrder)
    /\ [](ListMatchesFilters /\ OneSourceOpen)
    /\ ScoresApart /\ CalibratesToBest
<1>1. FairPlatform => [](OvertakenOnlyInHand /\ ReadersLeaveNothingOut /\ PosesOfTheTrack /\ ViewerIsCurrent)
  BY PlatformIsItsParts, HubCorrect, ReadersCorrect, PosesCorrect, StreamingCorrect, PTL DEF FairPlatform
<1>2. FairPlatform => [](ActivesOverlapped /\ ClosedMeansFewFailures /\ GroupsAreApart /\ LoggedIsKept /\ SyncedInOrder)
  BY PlatformIsItsParts, RegistryCorrect, BreakerCorrect, GroupsCorrect, EvalLogCorrect, EdgeCorrect, PTL DEF FairPlatform
<1>3. FairPlatform => [](ListMatchesFilters /\ OneSourceOpen)
  BY PlatformIsItsParts, ListCorrect, HookCorrect, PTL DEF FairPlatform
<1>4. FairPlatform => ScoresApart /\ CalibratesToBest
  BY PlatformIsItsParts, ScoresAreApart, CalibrationCorrect, PTL DEF FairPlatform
<1> QED
  BY <1>1, <1>2, <1>3, <1>4, PTL
====
