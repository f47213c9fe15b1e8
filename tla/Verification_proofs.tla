-------------------------- MODULE Verification_proofs --------------------------
(***************************************************************************)
(* Lemmas about `verify` that the proofs of its readers rest on.           *)
(***************************************************************************)
EXTENDS Verification, TLAPS

(* Past its first two gates a run has both its hashes.                     *)
Hashed == {"hashed", "coded", "structured", "repaired"}

(* A decided run has its decision, and a hash of the source if it verified *)
(* it; its record is written by the last step of the gates, so that it is  *)
(* never written twice.                                                    *)
RecordsInv ==
  \A v \in Verifications :
    /\ vpc[v] \in Hashed => sourceHash[v] # None
    /\ vpc[v] = "decided" =>
         /\ decision[v] # None
         /\ decision[v] \in Verified => sourceHash[v] # None
    /\ records[v] # None =>
         /\ vpc[v] \in Pointing \cup {"done", "aborted"}
         /\ records[v].decision \in Verified => records[v].source # None

-----------------------------------------------------------------------------
(* The gates and the author of the project: records only appear.           *)

LEMMA VerifyTypeStep ==
  ASSUME TypeOKVerify, RecordsInv, VerifyNext
  PROVE  TypeOKVerify' /\ RecordsInv'
<1> USE VerificationAssumption DEF Hashed
<1>1. CASE EditSource
  BY <1>1 DEF EditSource, TypeOKVerify, RecordsInv, bundleVars
<1>2. CASE EditManifest
  BY <1>2 DEF EditManifest, TypeOKVerify, RecordsInv, bundleVars
<1>3. ASSUME NEW v \in Verifications, Verify(v)
      PROVE  TypeOKVerify' /\ RecordsInv'
  <2>1. CASE GateManifest(v)
    BY <2>1 DEF GateManifest, Step, TypeOKVerify, RecordsInv, projectVars, AtGate, Pointing
  <2>2. CASE HashSource(v)
    BY <2>2 DEF HashSource, Step, TypeOKVerify, RecordsInv, projectVars, AtGate, Pointing
  <2>3. CASE GateCode(v) \/ GateStructure(v) \/ GateRepair(v)
    BY <2>3 DEF GateCode, GateStructure, GateRepair, Step, TypeOKVerify, RecordsInv,
                projectVars, bundleVars, AtGate, Pointing
  <2>4. CASE GateBaseline(v)
    <3> DEFINE outcome == IF manifestHash[v] \in Classical
                          THEN "VERIFIED_EDUCATIONAL_ONLY"
                          ELSE "VERIFIED_FOR_EXECUTION"
    <3>1. outcome \in Decisions /\ outcome # None
      BY VerificationAssumption DEF Decisions, Verified
    <3>2. decision' = [decision EXCEPT ![v] = outcome]
      BY <2>4 DEF GateBaseline
    <3> HIDE DEF outcome
    <3> QED
      BY <2>4, <3>1, <3>2
         DEF GateBaseline, Step, TypeOKVerify, RecordsInv, projectVars, Pointing
  <2>5. CASE DenyVerification(v)
    BY <2>5, VerificationAssumption
       DEF DenyVerification, TypeOKVerify, RecordsInv, projectVars, Decisions,
           Verified, AtGate, Pointing
  <2>6. CASE Finalize(v)
    <3>1. PICK signature \in Signatures :
            records' = [records EXCEPT ![v] =
                          [manifest  |-> manifestHash[v],
                           source    |-> sourceHash[v],
                           decision  |-> decision[v],
                           signature |-> signature]]
      BY <2>6 DEF Finalize
    <3>2. decision[v] \in Decisions
      BY <2>6 DEF Finalize, Step, RecordsInv, TypeOKVerify
    <3>3. [manifest |-> manifestHash[v], source |-> sourceHash[v],
           decision |-> decision[v], signature |-> signature] \in EvidenceRecord
      BY <3>2 DEF EvidenceRecord, TypeOKVerify
    <3> QED
      BY <2>6, <3>1, <3>3
         DEF Finalize, Step, TypeOKVerify, RecordsInv, projectVars, bundleVars, Pointing
  <2>7. CASE AbortVerification(v)
    BY <2>7 DEF AbortVerification, TypeOKVerify, RecordsInv, projectVars, bundleVars,
                AtGate, Pointing
  <2> QED
    BY <1>3, <2>1, <2>2, <2>3, <2>4, <2>5, <2>6, <2>7 DEF Verify
<1> QED
  BY <1>1, <1>2, <1>3 DEF VerifyNext

(* A record, once written, is never changed.                               *)
LEMMA RecordsStay ==
  ASSUME TypeOKVerify, RecordsInv, VerifyNext,
         NEW w \in Verifications, records[w] # None
  PROVE  records'[w] = records[w]
<1>1. vpc[w] # "decided"
  BY DEF RecordsInv, Pointing
<1>2. CASE EditSource \/ EditManifest
  BY <1>2 DEF EditSource, EditManifest
<1>3. ASSUME NEW v \in Verifications, Verify(v)
      PROVE  records'[w] = records[w]
  <2>1. CASE Finalize(v)
    BY <1>1, <2>1 DEF Finalize, Step, TypeOKVerify
  <2>2. CASE ~Finalize(v)
    BY <1>3, <2>2
       DEF Verify, GateManifest, HashSource, GateCode, GateStructure, GateRepair,
           GateBaseline, DenyVerification, AbortVerification
  <2> QED BY <2>1, <2>2
<1> QED
  BY <1>2, <1>3 DEF VerifyNext
=============================================================================
