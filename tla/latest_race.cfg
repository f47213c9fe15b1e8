\* Two verifications and two runs of verify-signature share latest.json.
SPECIFICATION LatestSpec
CONSTANTS
  v1 = v1
  v2 = v2
  c1 = c1
  c2 = c2
  sound = sound
  quantum = quantum
  None = None
  Empty = Empty
  Garbled = Garbled
  Verifications <- TwoVerifications
  Checks <- TwoChecks
  Sources <- OneSource
  Sound <- OneSource
  Manifests <- OneManifest
  Classical <- NoManifests
SYMMETRY Symmetry
INVARIANTS
  TypeOKPointer
  LatestResolves
\* Every command may have ended, and there is nothing to edit: it really stops.
CHECK_DEADLOCK FALSE
