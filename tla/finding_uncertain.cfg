\* SUBMISSION_UNCERTAIN replaces the record of a durable submission.
SPECIFICATION Spec
CONSTANTS
  p1 = p1
  c1 = c1
  c2 = c2
  a1 = a1
  s1 = s1
  s2 = s2
  None = None
  Plans <- MCPlans
  Circuits <- MCCircuits
  SignedIsa <- MCSignedIsa
  Approvals <- MCOneApproval
  Submissions <- MCTwoRuns
  Ttls <- MCTtl
  MaxTime = 1
SYMMETRY MCSymmetry
INVARIANTS
  UncertainHasNoRecord
\* Every command may have ended: the system really stops.
CHECK_DEADLOCK FALSE
