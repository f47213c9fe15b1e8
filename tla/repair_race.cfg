\* Three runs of fix share the temporary file, may be killed, and the author saves.
SPECIFICATION RepairSpec
CONSTANTS
  f1 = f1
  f2 = f2
  f3 = f3
  defect = defect
  deferred = deferred
  doubled = doubled
  other = other
  mangled = mangled
  bell = bell
  ghz = ghz
  wrong = wrong
  Void = Void
  None = None
  Fixes <- ThreeFixes
  Texts <- FiveTexts
  Authored <- TwoTexts
  Repaired <- DeferMeasurement
  Circuit <- Circuits
SYMMETRY Symmetry
INVARIANTS
  TypeOKRepair
  OriginalIsKept
  RecordedRepairPassesGate
