-------------------------- MODULE MCTrustedExecution --------------------------
(* TLC instances of LocalChain and, through it, of TrustedExecution: few   *)
(* runs of each command, two sources that pass the gates and one that does *)
(* not, one manifest whose contract a classical baseline meets and one     *)
(* whose it does not.                                                      *)
EXTENDS LocalChain, TLC

CONSTANTS v1, x1, p1, w1, sound, other, broken, quantum, classical

OneVerification == {v1}
OneExecution    == {x1}
OnePlan         == {p1}
OneReader       == {w1}
ThreeSources    == {sound, other, broken}
SoundSources    == {sound, other}
TwoManifests    == {quantum, classical}
ClassicalOnes   == {classical}

(* Sources that pass the gates differ in nothing but their names.          *)
Symmetry == Permutations(SoundSources)
=============================================================================
