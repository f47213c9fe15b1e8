------------------------ MODULE MCGovernedSubmission ------------------------
(* Small instances of GovernedSubmission for TLC.                          *)
EXTENDS GovernedSubmission, TLC

CONSTANTS p1, c1, c2, a1, s1, s2

MCPlans     == {p1}
MCCircuits  == {c1, c2}
MCSignedIsa == (p1 :> c1)
MCOneApproval == {a1}
MCTwoRuns   == {s1, s2}
MCTtl       == {1}

(* Runs are interchangeable, where no liveness is asked.                   *)
MCSymmetry == Permutations(MCTwoRuns)
=============================================================================
