---- MODULE MCPlatform ----
EXTENDS Platform
CONSTANTS a, b, camA, camB, near, far

TwoClients == [c \in {a, b} |-> "all"]

Seen(who, large, suspicious) == [who |-> who, large |-> large, suspicious |-> suspicious]
TwoScenes == {<<Seen(near, FALSE, TRUE), Seen(far, TRUE, TRUE)>>, <<Seen(far, TRUE, FALSE)>>}

ThreeThresholds == <<1, 2, 3>>
====
