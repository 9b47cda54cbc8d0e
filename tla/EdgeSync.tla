---- MODULE EdgeSync ----
(* Edge mode (core/edge_mode.py): alerts queued in a local file and a worker    *)
(* that sends them to Redis. push and drain hold the lock and do not await      *)
(* inside, so each is one step. Nothing in src/ constructs these classes yet.   *)
EXTENDS Integers, Sequences

CONSTANTS MaxAlerts, MaxSyncFaults   \* bounds

ASSUME EdgeAssumption == MaxAlerts \in Nat /\ MaxSyncFaults \in Nat

VARIABLES
  pushed,      \* alerts pushed so far, numbered
  file,        \* the queue file
  torn,        \* the file has a line that is not JSON: a stop cut its writing
  syncAt,      \* the worker: "asleep", "connecting" or "sending"
  batch,       \* alerts still to be sent
  delivered,   \* alerts added to netra:incidents, in order
  syncFaults

edgeVars == <<pushed, file, torn, syncAt, batch, delivered, syncFaults>>

EdgeInit ==
  /\ pushed = 0 /\ file = <<>> /\ torn = FALSE /\ syncAt = "asleep" /\ batch = <<>>
  /\ delivered = <<>> /\ syncFaults = 0

Push ==
  /\ pushed < MaxAlerts
  /\ pushed' = pushed + 1
  /\ file' = Append(file, pushed + 1)
  /\ UNCHANGED <<torn, syncAt, batch, delivered, syncFaults>>

(* After its sleep the worker looks at the size of the file, and pings. *)
\* Mutant: one alert is not worth a connection.
WorthIt == Len(file) > 1
HasWork == Len(file) > 0 \/ torn

Wake ==
  /\ syncAt = "asleep" /\ HasWork
  /\ syncAt' = "connecting"
  /\ UNCHANGED <<pushed, file, torn, batch, delivered, syncFaults>>

Drain ==
  /\ syncAt = "connecting" /\ ~torn
  /\ batch' = file /\ file' = <<>>
  /\ syncAt' = "sending"
  /\ UNCHANGED <<pushed, torn, delivered, syncFaults>>

(* A line is not JSON: the file has been cleared by then, and nothing is sent.  *)
DrainRaises ==
  /\ syncAt = "connecting" /\ torn
  /\ file' = <<>> /\ torn' = FALSE
  /\ syncAt' = "asleep"
  /\ UNCHANGED <<pushed, batch, delivered, syncFaults>>

SendAlert ==
  /\ syncAt = "sending" /\ batch # <<>>
  /\ delivered' = Append(delivered, Head(batch))
  /\ batch' = Tail(batch)
  /\ UNCHANGED <<pushed, file, torn, syncAt, syncFaults>>

EndSync ==
  /\ syncAt = "sending" /\ batch = <<>>
  /\ syncAt' = "asleep"
  /\ UNCHANGED <<pushed, file, torn, batch, delivered, syncFaults>>

(* Redis does not answer: before the drain nothing is lost, in the middle of    *)
(* sending the rest of the batch is.                                            *)
SyncFails ==
  /\ syncAt # "asleep" /\ syncFaults < MaxSyncFaults
  /\ syncFaults' = syncFaults + 1
  /\ syncAt' = "asleep" /\ batch' = <<>>
  /\ UNCHANGED <<pushed, file, torn, delivered>>

(* The process stops, perhaps in the middle of a push, and is started again. *)
RestartEdge ==
  /\ syncFaults < MaxSyncFaults
  /\ syncFaults' = syncFaults + 1
  /\ syncAt' = "asleep" /\ batch' = <<>>
  /\ torn' \in {torn, TRUE}
  /\ UNCHANGED <<pushed, file, delivered>>

SyncStep == Wake \/ Drain \/ DrainRaises \/ SendAlert \/ EndSync
EdgeNext == Push \/ SyncStep \/ SyncFails \/ RestartEdge
EdgeSpec == EdgeInit /\ [][EdgeNext]_edgeVars
(* The worker is a task of its own. *)
EdgeFairness == WF_edgeVars(SyncStep)

(* "synced when Redis recovers": while Redis answers, what is in the file is    *)
(* sent in the end, unless a fault hits the sending or a line of the file was   *)
(* cut (edge_mode.py:94).                                                       *)
SyncedInTheEnd ==
  \A n \in 1..MaxAlerts :
    (\E i \in DOMAIN file : file[i] = n) /\ syncFaults = MaxSyncFaults /\ ~torn
      ~> \E i \in DOMAIN delivered : delivered[i] = n
====
