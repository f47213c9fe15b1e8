\* Two runs of qexec reconcile one submission.
SPECIFICATION VerifySpec
CONSTANTS
  p1 = p1
  c1 = c1
  c2 = c2
  a1 = a1
  s1 = s1
  s2 = s2
  q1 = q1
  q2 = q2
  v1 = v1
  None = None
  Plans <- MCPlans
  Circuits <- MCOneCircuit
  SignedIsa <- MCSignedIsa
  Approvals <- MCApprovals
  Submissions <- MCOneSubmission
  Reconcilers <- MCTwoReconcilers
  Verifiers <- MCVerifiers
  Ttls <- MCTtls
  MaxTime = 1
SYMMETRY MCSymmetry
INVARIANTS
  TypeOKReconciliation
  ReceiptIsTrue
\* Every command may have ended: the system really stops.
CHECK_DEADLOCK FALSE
