---------------------------- MODULE MCGovernedPath ----------------------------
(* One run of every command on the whole path, for TLC.  One source        *)
(* transpiles to the circuit that the plan signs, the other to another.    *)
EXTENDS GovernedPath, TLC

CONSTANTS v1, x1, p1, a1, s1, q1, w1, good, other, quantum, c1, c2

MCVerifications == {v1}
MCExecutions    == {x1}
MCPlans         == {p1}
MCApprovals     == {a1}
MCSubmissions   == {s1}
MCReconcilers   == {q1}
MCVerifiers     == {w1}
MCSources       == {good, other}
MCManifests     == {quantum}
MCCircuits      == {c1, c2}
MCSignedIsa     == (p1 :> c1)
MCTranspilesTo  == (good :> {c1}) @@ (other :> {c2})
MCTtls          == {1}

(* Once a plan is published no step of verify or run, and no edit of what  *)
(* they read, is seen by the commands that follow: TLC goes on only from   *)
(* the publications at which those had come to rest.                       *)
MCAtRest ==
  \A p \in Plans : Published(p) =>
    /\ \A v \in Verifications : gate[v] = "recorded"
    /\ \A x \in Executions : xpc[x] = "finished" /\ qpy[x] = good
    /\ sourceFile = good
=============================================================================
