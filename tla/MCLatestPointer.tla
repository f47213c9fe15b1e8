---------------------------- MODULE MCLatestPointer ----------------------------
(* TLC instances of LatestPointer: one unchanging project, since what the  *)
(* pointer says does not depend on the files it is about.                  *)
EXTENDS LatestPointer, TLC

CONSTANTS v1, v2, c1, c2, sound, quantum

TwoVerifications == {v1, v2}
TwoChecks        == {c1, c2}
OneCheck         == {c1}
OneSource        == {sound}
OneManifest      == {quantum}
NoManifests      == {}

(* Runs of a command differ in nothing but their names.                    *)
Symmetry == Permutations(TwoVerifications) \cup Permutations(TwoChecks)
=============================================================================
