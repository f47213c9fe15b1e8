--------------------------- MODULE MCReconciliation ---------------------------
(* Small instances of ChainVerification, and through it of Reconciliation. *)
EXTENDS ChainVerification, TLC

CONSTANTS p1, c1, c2, a1, s1, s2, q1, q2, v1

MCPlans     == {p1}
MCOneCircuit  == {c1}
MCTwoCircuits == {c1, c2}
MCSignedIsa == (p1 :> c1)
MCApprovals == {a1}
MCOneSubmission  == {s1}
MCTwoSubmissions == {s1, s2}
MCOneReconciler  == {q1}
MCTwoReconcilers == {q1, q2}
MCVerifiers == {v1}
MCTtls      == {1}

(* Submissions are interchangeable, and so are reconcilers.                *)
MCSymmetry == Permutations({s1, s2}) \cup Permutations({q1, q2})
=============================================================================
