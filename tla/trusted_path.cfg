\* Verify, run, plan and verify-chain, one of each, while the project is edited.
SPECIFICATION LocalSpec
CONSTANTS
  v1 = v1
  x1 = x1
  p1 = p1
  w1 = w1
  sound = sound
  other = other
  broken = broken
  quantum = quantum
  classical = classical
  None = None
  Verifications <- OneVerification
  Executions <- OneExecution
  Plans <- OnePlan
  Readers <- OneReader
  Sources <- ThreeSources
  Sound <- SoundSources
  Manifests <- TwoManifests
  Classical <- ClassicalOnes
SYMMETRY Symmetry
INVARIANTS
  TypeOKLocalChain
  PlanTracesToVerification
  ExecutedIsVerified
  VerifiedChainIsWhatRan
  AttestedRunVerifies
PROPERTIES
  ReceiptsAreFinal
