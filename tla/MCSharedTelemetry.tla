-------------------------- MODULE MCSharedTelemetry --------------------------
(* Commands in one container: r1 and r2 begin in g1, r3 in both groups.        *)
EXTENDS SharedTelemetry, TLC
CONSTANTS r1, r2, r3, g1, g2
TwoGroups == (r1 :> {g1}) @@ (r2 :> {g1}) @@ (r3 :> {g1, g2})
FoundByNone == [r \in Runs |-> {}]
=============================================================================
