---- MODULE RateLimit ----
(* What an alert limiter promises: of each camera, at most Limit alerts pass *)
(* within any Span of time.                                                  *)
EXTENDS Naturals, Sequences

CONSTANTS Cameras, Limit, Span

VARIABLES
  now,
  alerts   \* per camera: when alerts passed, oldest first

vars == <<now, alerts>>

Init == now \in Nat /\ alerts = [c \in Cameras |-> <<>>]

Tick == now' > now /\ UNCHANGED alerts

Room(log) == Len(log) >= Limit => now >= log[Len(log) - Limit + 1] + Span

Pass(c) ==
  /\ Room(alerts[c])
  /\ alerts' = [alerts EXCEPT ![c] = Append(@, now)]
  /\ UNCHANGED now

Next == Tick \/ \E c \in Cameras : Pass(c)

Spec == Init /\ [][Next]_vars
====
