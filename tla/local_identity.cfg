\* Two quickstarts of one empty destination and a verification that signs with KMS;
\* one of the quickstarts may be killed, or meet a full disk.
SPECIFICATION FairSpec
CONSTANTS
  q1 = q1
  q2 = q2
  v1 = v1
  kms = kms
  None = None
  Void = Void
  Processes <- AllProcesses
  Keys <- AllKeys
  Quickstarts <- TwoQuickstarts
  Signers <- OneSigner
  KmsKeys <- OneKmsKey
  Mortal <- OneQuickstart
INVARIANTS
  TypeOKQuickstart
  NamedKeyIsCached
  ActiveKeyIsKept
  AuthorizedIsGenuine
  CompleteIsOneIdentity
PROPERTIES
  IdentityIsSettled
  CommandsEnd
\* Every command may have ended: the system really stops.
CHECK_DEADLOCK FALSE
