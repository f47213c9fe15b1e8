------------------------------- MODULE MCRepair -------------------------------
(* TLC instance of Repair: a text with the defect that the replacements    *)
(* defer, and that they alter again when fix runs on it once more, and a   *)
(* text whose circuit they break.  Repairing stops at the second round.    *)
EXTENDS Repair, TLC

CONSTANTS f1, f2, f3, defect, deferred, doubled, other, mangled, bell, ghz, wrong

ThreeFixes == {f1, f2, f3}
FiveTexts  == {defect, deferred, doubled, other, mangled}
TwoTexts   == {defect, other}

DeferMeasurement ==
  (defect :> deferred) @@ (deferred :> doubled) @@ (doubled :> doubled)
    @@ (other :> mangled) @@ (mangled :> mangled)

Circuits ==
  (defect :> bell) @@ (deferred :> bell) @@ (doubled :> bell)
    @@ (other :> ghz) @@ (mangled :> wrong)

Symmetry == Permutations(ThreeFixes)
=============================================================================
