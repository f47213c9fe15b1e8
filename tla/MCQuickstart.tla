----------------------------- MODULE MCQuickstart -----------------------------
(* A small instance of Quickstart: two quickstarts of one destination and  *)
(* a verification with a KMS key.                                          *)
EXTENDS Quickstart, TLC

CONSTANTS q1, q2, v1, kms

TwoQuickstarts == {q1, q2}
OneSigner      == {v1}
AllProcesses   == {q1, q2, v1}
OneQuickstart  == {q1}
OneKmsKey      == {kms}
AllKeys        == {q1, q2, kms}
=============================================================================
