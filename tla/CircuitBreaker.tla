---- MODULE CircuitBreaker ----
(* ResilientRedis (core/redis_resilient.py): tasks that share one client and    *)
(* one circuit. A step runs from one await to the next; which exceptions a call *)
(* meets follows from Redis being down or from the client being closed under    *)
(* it. Nothing in src/ constructs this class yet.                               *)
EXTENDS Integers, FiniteSets

CONSTANTS
  Tasks,
  FailThreshold,   \* _CB_FAIL_THRESH
  ResetAfter,      \* _CB_RESET_AFTER
  MaxOutages       \* bound: how often Redis goes down

ASSUME BreakerAssumption ==
  /\ IsFiniteSet(Tasks)
  /\ FailThreshold \in Nat \ {0} /\ {ResetAfter, MaxOutages} \subseteq Nat

VARIABLES
  circuit,    \* _state
  fails,      \* _consecutive_fails; one more than the threshold stands for more
  quiet,      \* time since _last_failure_ts, up to ResetAfter
  task,       \* per task: "idle", "calling", "waiting" (to reconnect), "pinging" or "retrying"
  cut,        \* tasks whose client was closed since they sent
  up, outages,
  unanswered  \* history: commands failed in a row, retries too, since Redis answered any task

breakerVars == <<circuit, fails, quiet, task, cut, up, outages, unanswered>>

BreakerInit ==
  /\ circuit = "CLOSED" /\ fails = 0 /\ quiet = 0
  /\ task = [k \in Tasks |-> "idle"] /\ cut = {}
  /\ up = TRUE /\ outages = 0 /\ unanswered = 0

SendsNow(k, what) == task' = [task EXCEPT ![k] = what] /\ cut' = cut \ {k}
Fails(k) == ~up \/ k \in cut

FewFailures == FailThreshold + Cardinality(Tasks)
\* A number that stands for itself and all greater ones.
CountFailure == unanswered' = IF unanswered < FewFailures THEN unanswered + 1 ELSE unanswered
Answers == unanswered' = 0

(* _check_circuit, and the command is sent; an open circuit raises instead.     *)
(* Every task that calls while it is half open is let through.                  *)
Call(k) ==
  /\ task[k] = "idle"
  /\ circuit = "OPEN" => quiet >= ResetAfter
  /\ circuit' = IF circuit = "OPEN" THEN "HALF_OPEN" ELSE circuit
  /\ SendsNow(k, "calling")
  /\ UNCHANGED <<fails, quiet, up, outages, unanswered>>

RecordSuccess == fails' = 0 /\ circuit' = IF circuit = "HALF_OPEN" THEN "CLOSED" ELSE circuit

Succeeds(k) ==
  /\ task[k] \in {"calling", "retrying"} /\ up
  /\ RecordSuccess /\ Answers
  /\ task' = [task EXCEPT ![k] = "idle"]
  /\ UNCHANGED <<quiet, cut, up, outages>>

\* Mutant: one failure more than the threshold opens the circuit.
RecordFailureLate ==
  /\ fails' = IF fails > FailThreshold THEN fails ELSE fails + 1
  /\ quiet' = 0
  /\ circuit' = IF fails' > FailThreshold THEN "OPEN" ELSE circuit

RecordFailure ==
  /\ fails' = IF fails > FailThreshold THEN fails ELSE fails + 1
  /\ quiet' = 0
  /\ circuit' = IF fails' >= FailThreshold THEN "OPEN" ELSE circuit

CallRaises(k) ==
  /\ task[k] = "calling" /\ Fails(k)
  /\ RecordFailure /\ CountFailure
  /\ task' = [task EXCEPT ![k] = "waiting"]
  /\ UNCHANGED <<cut, up, outages>>

(* The retry is not counted: its exception goes to the caller. *)
RetryRaises(k) ==
  /\ task[k] = "retrying" /\ Fails(k)
  /\ CountFailure
  /\ task' = [task EXCEPT ![k] = "idle"]
  /\ UNCHANGED <<circuit, fails, quiet, cut, up, outages>>

(* _reconnect, after its delay: closes the client, also under other tasks.      *)
Redial(k) ==
  /\ task[k] = "waiting"
  /\ task' = [task EXCEPT ![k] = "pinging"]
  /\ cut' = {j \in Tasks \ {k} : task[j] # "idle"}
  /\ UNCHANGED <<circuit, fails, quiet, up, outages, unanswered>>

PingRaises(k) ==
  /\ task[k] = "pinging" /\ Fails(k)
  /\ task' = [task EXCEPT ![k] = "waiting"]
  /\ UNCHANGED <<circuit, fails, quiet, cut, up, outages, unanswered>>

PingOk(k) ==
  /\ task[k] = "pinging" /\ up
  /\ circuit' = "CLOSED" /\ fails' = 0 /\ Answers
  /\ SendsNow(k, "retrying")
  /\ UNCHANGED <<quiet, up, outages>>

GoDown == up /\ outages < MaxOutages /\ up' = FALSE /\ outages' = outages + 1 /\ UNCHANGED <<circuit, fails, quiet, task, cut, unanswered>>
ComeUp == ~up /\ up' = TRUE /\ UNCHANGED <<circuit, fails, quiet, task, cut, outages, unanswered>>
Wait == quiet < ResetAfter /\ quiet' = quiet + 1 /\ UNCHANGED <<circuit, fails, task, cut, up, outages, unanswered>>

BreakerNext ==
  \/ \E k \in Tasks : Call(k) \/ Succeeds(k) \/ CallRaises(k) \/ RetryRaises(k) \/ Redial(k) \/ PingRaises(k) \/ PingOk(k)
  \/ GoDown \/ ComeUp \/ Wait
BreakerSpec == BreakerInit /\ [][BreakerNext]_breakerVars

(* Commands that fail in a row open the circuit, however tasks interleave,      *)
(* reconnect and succeed late: while it is closed, fewer have failed since      *)
(* Redis last answered a command or a ping of any task than the threshold and   *)
(* one more for each task. Those are the retries: the code counts only the      *)
(* first attempt (redis_resilient.py:148-160).                                  *)
ClosedMeansFewFailures == circuit = "CLOSED" => unanswered < FewFailures
====
