\* Two submissions of one approval, one reconciliation, one verification; two
\* circuits, so that an artifact can be edited into the wrong one.
SPECIFICATION VerifySpec
CONSTANTS
  p1 = p1
  c1 = c1
  c2 = c2
  a1 = a1
  s1 = s1
  s2 = s2
  q1 = q1
  q2 = q2
  v1 = v1
  None = None
  Plans <- MCPlans
  Circuits <- MCTwoCircuits
  SignedIsa <- MCSignedIsa
  Approvals <- MCApprovals
  Submissions <- MCTwoSubmissions
  Reconcilers <- MCOneReconciler
  Verifiers <- MCVerifiers
  Ttls <- MCTtls
  MaxTime = 1
SYMMETRY MCSymmetry
INVARIANTS
  ReceiptIsGoverned
  VerifiedIsTheGovernedJob
  CompletedReceiptVerifies
\* Every command may have ended: the system really stops.
CHECK_DEADLOCK FALSE
