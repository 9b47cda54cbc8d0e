---- MODULE ModelRegistry ----
(* The deployments of one model (services/data/model_registry.py), called by    *)
(* requests of the gateway (gateway/main.py): a row per deployment in the order *)
(* of deployed_at, a step per SQL statement, no transaction around them.        *)
EXTENDS Integers, Sequences, FiniteSets

CONSTANTS
  MaxCalls,     \* bound: calls made
  MaxAtOnce     \* bound: calls at a time

ASSUME RegistryAssumption == MaxCalls \in Nat /\ MaxAtOnce \in Nat

VARIABLES
  rows,       \* model_deployments: is_active and, as history, the call that set it last
  calls,      \* what each call does, its next statement, the row it found
  overlaps    \* history: pairs of calls that were under way together

registryVars == <<rows, calls, overlaps>>

RegistryInit == rows = <<>> /\ calls = <<>> /\ overlaps = {}

Open == {i \in DOMAIN calls : calls[i].at # "done"}
ActiveRows == {i \in DOMAIN rows : rows[i].active}
Advance(i, at) == calls' = [calls EXCEPT ![i].at = at]

BeginCall(op) ==
  /\ Len(calls) < MaxCalls /\ Cardinality(Open) < MaxAtOnce
  /\ calls' = Append(calls, [op |-> op, at |-> "deactivate", found |-> 0])
  /\ overlaps' = overlaps \cup {{i, Len(calls) + 1} : i \in Open}
  /\ UNCHANGED rows

\* Mutant: only the newest row is deactivated.
DeactivatedNewest == [i \in DOMAIN rows |-> [rows[i] EXCEPT !.active = @ /\ i < Len(rows)]]
Deactivated == [i \in DOMAIN rows |-> [rows[i] EXCEPT !.active = FALSE]]

Deactivate(i) ==
  /\ calls[i].at = "deactivate"
  /\ rows' = Deactivated
  /\ Advance(i, IF calls[i].op = "deploy" THEN "insert" ELSE "find")
  /\ UNCHANGED overlaps

Insert(i) ==
  /\ calls[i].at = "insert"
  /\ rows' = Append(rows, [active |-> TRUE, by |-> i])
  /\ Advance(i, "done")
  /\ UNCHANGED overlaps

(* The newest inactive row, which is the one just deactivated if that was the   *)
(* newest; without any the call ends and leaves no active row.                  *)
Find(i) ==
  /\ calls[i].at = "find"
  /\ LET idle == DOMAIN rows \ ActiveRows
     IN IF idle = {} THEN Advance(i, "done")
        ELSE \E r \in idle :
               /\ \A k \in idle : k <= r
               /\ calls' = [calls EXCEPT ![i].at = "activate", ![i].found = r]
  /\ UNCHANGED <<rows, overlaps>>

Activate(i) ==
  /\ calls[i].at = "activate"
  /\ rows' = [rows EXCEPT ![calls[i].found] = [active |-> TRUE, by |-> i]]
  /\ Advance(i, "done")
  /\ UNCHANGED overlaps

(* A statement raises, or the gateway stops. *)
CallFails(i) ==
  /\ i \in Open
  /\ Advance(i, "done")
  /\ UNCHANGED <<rows, overlaps>>

RegistryNext ==
  \/ \E op \in {"deploy", "rollback"} : BeginCall(op)
  \/ \E i \in DOMAIN calls : Deactivate(i) \/ Insert(i) \/ Find(i) \/ Activate(i) \/ CallFails(i)
RegistrySpec == RegistryInit /\ [][RegistryNext]_registryVars

(* "only one active version per model_name" (model_registry.py:10) is what the  *)
(* code does not keep: overlapping calls leave two. What it does keep, whatever *)
(* failed or was rolled back in between: versions are active together only if   *)
(* the calls that made them so overlapped, so calls made one at a time leave at *)
(* most one (model_registry.py:52).                                             *)
ActivesOverlapped ==
  \A r, s \in ActiveRows : r = s \/ {rows[r].by, rows[s].by} \in overlaps
====
