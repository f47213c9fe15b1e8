\* Two runs of submit race for one approval, with edits, failures and kills;
\* and a run that called IBM settles its approval.
SPECIFICATION FairSpec
CONSTANTS
  p1 = p1
  c1 = c1
  c2 = c2
  a1 = a1
  s1 = s1
  s2 = s2
  None = None
  Plans <- MCPlans
  Circuits <- MCCircuits
  SignedIsa <- MCSignedIsa
  Approvals <- MCOneApproval
  Submissions <- MCTwoRuns
  Ttls <- MCTtl
  MaxTime = 1
INVARIANTS
  TypeOK
  ApprovalBindsSignedCircuit
  AtMostOneJob
  EvidenceBeforeBoundary
  ConsumedIsBacked
  JobRunsSignedCircuit
  DeniedCallIsRecorded
PROPERTIES
  ImplementsSingleUse
  ConsumptionOnlyAdvances
  CallSettles
\* Every command may have ended: the system really stops.
CHECK_DEADLOCK FALSE
