\* The whole path, one run of each command, with edits, failures and kills.
SPECIFICATION PathSpec
CONSTANTS
  v1 = v1
  x1 = x1
  p1 = p1
  a1 = a1
  s1 = s1
  q1 = q1
  w1 = w1
  good = good
  other = other
  quantum = quantum
  c1 = c1
  c2 = c2
  None = None
  Verifications <- MCVerifications
  Executions <- MCExecutions
  Plans <- MCPlans
  Approvals <- MCApprovals
  Submissions <- MCSubmissions
  Reconcilers <- MCReconcilers
  Verifiers <- MCVerifiers
  Sources <- MCSources
  Sound <- MCSources
  Manifests <- MCManifests
  Classical = {}
  Circuits <- MCCircuits
  SignedIsa <- MCSignedIsa
  TranspilesTo <- MCTranspilesTo
  Ttls <- MCTtls
  MaxTime = 0
CONSTRAINT MCAtRest
INVARIANTS
  JobsReachSource
  VerifiedChainReachesSource
PROPERTIES
  ImplementsLedger
