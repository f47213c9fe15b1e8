------------------------ MODULE TrustedExecution_proofs ------------------------
(***************************************************************************)
(* What `run` completes is what `verify` recorded, what `plan` plans is    *)
(* what `run` completed, and what `verify-chain` accepts is that again:    *)
(* proofs for any number of runs of each command.                          *)
(***************************************************************************)
EXTENDS LocalChain, Verification_proofs

(* What each stage of the run command has established of its copy.         *)
ExecutionsInv ==
  \A x \in Executions :
    /\ xpc[x] \notin {"idle", "finished"} => run[x] \in Verifications
    /\ run[x] # None => records[run[x]] # None
    /\ xpc[x] \in {"authorized", "identified"} \cup Running =>
         Authorized(records[run[x]], target[x])
    /\ xpc[x] \in {"identified"} \cup Running =>
         /\ snapshot[x].manifest = records[run[x]].manifest
         /\ snapshot[x].source = records[run[x]].source
    /\ xpc[x] = "executed" => circuit[x] = snapshot[x].source
    /\ receipts[x] # None => xpc[x] \in {"reported", "finished"}

(* A plan was made, or is being made, of a trusted receipt, whose circuit  *)
(* it has or will still find, unless somebody edited the file meanwhile.   *)
UpstreamInv ==
  \A p \in Plans :
    /\ plans[p] # None => ppc[p] = "planned"
    /\ upstream[p] # None => Trusted(receipts[upstream[p]])
    /\ ppc[p] \in Planning =>
         /\ upstream[p] # None
         /\ qpy[upstream[p]] # None
         /\ p \notin disturbed => qpy[upstream[p]] = receipts[upstream[p]].circuit
    /\ ppc[p] = "loaded" =>
         /\ loaded[p] # None
         /\ p \notin disturbed => loaded[p] = receipts[upstream[p]].circuit

TrustInv ==
  /\ TypeOKExecution
  /\ RecordsInv
  /\ ExecutionsInv
  /\ ExecutedIsVerified
  /\ UpstreamInv
  /\ PlanTracesToVerification

-----------------------------------------------------------------------------
(* Initially nothing is recorded.                                          *)
LEMMA TrustInitInv == TrustInit => TrustInv
BY DEF TrustInit, VerifyInit, TrustInv, TypeOKExecution, TypeOKVerify, RecordsInv,
       ExecutionsInv, ExecutedIsVerified, UpstreamInv, PlanTracesToVerification,
       Hashed, AtGate, Running, Planning

-----------------------------------------------------------------------------
(* The gates and the author of the project.                                *)

LEMMA RunIsNamed ==
  ASSUME ExecutionsInv, NEW x \in Executions, xpc[x] \notin {"idle", "finished"}
  PROVE  run[x] # None
BY VerificationAssumption DEF ExecutionsInv

LEMMA VerifyKeepsInv ==
  ASSUME TrustInv, VerifyNext, UNCHANGED <<executionVars, planVars>>
  PROVE  TrustInv'
<1>1. TypeOKVerify' /\ RecordsInv'
  BY VerifyTypeStep DEF TrustInv, TypeOKExecution
<1>2. \A v \in Verifications : records[v] # None => records'[v] = records[v]
  BY RecordsStay DEF TrustInv, TypeOKExecution
<1>3. TypeOKExecution'
  BY <1>1 DEF TrustInv, TypeOKExecution, executionVars, planVars
<1>4. ExecutionsInv'
  <2> SUFFICES ASSUME NEW x \in Executions, run[x] # None
               PROVE  records[run[x]] # None /\ records'[run[x]] = records[run[x]]
    BY RunIsNamed DEF TrustInv, ExecutionsInv, executionVars, Running
  <2> QED
    BY <1>2 DEF TrustInv, TypeOKExecution, ExecutionsInv
<1>5. ExecutedIsVerified'
  <2> SUFFICES ASSUME NEW x \in Executions,
                      receipts[x] # None, receipts[x].status = "EXECUTION_COMPLETED"
               PROVE  /\ records[receipts[x].run] # None
                      /\ records'[receipts[x].run] = records[receipts[x].run]
    BY DEF TrustInv, ExecutedIsVerified, executionVars
  <2>1. receipts[x].run \in Verifications
    BY DEF TrustInv, TypeOKExecution, ExecutionReceipt
  <2> QED
    BY <1>2, <2>1 DEF TrustInv, ExecutedIsVerified
<1>6. UpstreamInv'
  BY DEF TrustInv, UpstreamInv, Trusted, executionVars, planVars
<1>7. PlanTracesToVerification'
  <2> SUFFICES ASSUME NEW p \in Plans, plans[p] # None
               PROVE  /\ records[receipts[plans[p].execution].run] # None
                      /\ records'[receipts[plans[p].execution].run] =
                           records[receipts[plans[p].execution].run]
    BY DEF TrustInv, PlanTracesToVerification, executionVars, planVars
  <2>1. plans[p].execution \in Executions
    BY DEF TrustInv, TypeOKExecution, QPlan
  <2>2. receipts[plans[p].execution].run \in Verifications
    BY <2>1 DEF TrustInv, TypeOKExecution, ExecutionReceipt, PlanTracesToVerification
  <2> QED
    BY <1>2, <2>2 DEF TrustInv, PlanTracesToVerification
<1> QED
  BY <1>1, <1>3, <1>4, <1>5, <1>6, <1>7 DEF TrustInv

-----------------------------------------------------------------------------
(* The run command.                                                        *)

(* A step of it before any receipt: only what is said of that run's stage  *)
(* has to be shown again.                                                  *)
LEMMA QuietStep ==
  ASSUME TrustInv, UNCHANGED <<verifyVars, target, receipts, planVars>>,
         \A x \in Executions : receipts[x] # None => qpy'[x] = qpy[x]
  PROVE  /\ TypeOKVerify' /\ RecordsInv'
         /\ ExecutedIsVerified' /\ UpstreamInv' /\ PlanTracesToVerification'
<1>1. UNCHANGED <<sourceFile, manifestFile, vpc, manifestHash, sourceHash, decision,
                  records, target, receipts, ppc, upstream, loaded, plans, disturbed>>
  BY DEF verifyVars, projectVars, bundleVars, planVars
<1>2. TypeOKVerify' /\ RecordsInv' /\ ExecutedIsVerified' /\ PlanTracesToVerification'
  BY <1>1 DEF TrustInv, TypeOKExecution, TypeOKVerify, RecordsInv, ExecutedIsVerified,
              PlanTracesToVerification
<1>3. UpstreamInv'
  <2> SUFFICES ASSUME NEW p \in Plans, upstream[p] # None
               PROVE  qpy'[upstream[p]] = qpy[upstream[p]]
    BY <1>1 DEF TrustInv, UpstreamInv, Trusted
  <2> QED
    BY DEF TrustInv, TypeOKExecution, UpstreamInv, Trusted
<1> QED
  BY <1>2, <1>3

LEMMA QuietRunKeepsInv ==
  ASSUME TrustInv, NEW x \in Executions,
         \/ \E v \in Verifications : ResolveRun(x, v)
         \/ CopyManifest(x) \/ CopySource(x) \/ Copied(x)
         \/ Authorize(x) \/ CheckSnapshot(x) \/ CheckPolicy(x) \/ Execute(x)
         \/ FinishExecution(x)
  PROVE  TrustInv'
<1> USE DEF At, Prechecks, Running
<1>1. UNCHANGED <<verifyVars, target, receipts, planVars>>
  BY DEF ResolveRun, CopyManifest, CopySource, Copied, Authorize, CheckSnapshot,
         CheckPolicy, Execute, FinishExecution
<1>2. \A y \in Executions : receipts[y] # None => qpy'[y] = qpy[y]
  <2>1. CASE qpy' = qpy
    BY <2>1
  <2>2. CASE Execute(x)
    BY <2>2 DEF Execute, TrustInv, ExecutionsInv, TypeOKExecution
  <2> QED
    BY <2>1, <2>2 DEF ResolveRun, CopyManifest, CopySource, Copied, Authorize,
                      CheckSnapshot, CheckPolicy, FinishExecution
<1>3. /\ TypeOKVerify' /\ RecordsInv'
      /\ ExecutedIsVerified' /\ UpstreamInv' /\ PlanTracesToVerification'
  BY <1>1, <1>2, QuietStep
<1>4. records' = records /\ target' = target /\ receipts' = receipts
  BY <1>1 DEF verifyVars
<1>5. ASSUME CopyManifest(x)
      PROVE  /\ xpc[x] = "resolved" /\ UNCHANGED <<xpc, run, circuit, qpy>>
             /\ snapshot' = [snapshot EXCEPT ![x].manifest = manifestFile]
             /\ snapshot' \in [Executions -> [manifest : Manifests \cup {None},
                                             source   : Sources \cup {None}]]
  <2>1. /\ xpc[x] = "resolved" /\ UNCHANGED <<xpc, run, circuit, qpy>>
        /\ snapshot' = [snapshot EXCEPT ![x].manifest = manifestFile]
    BY <1>5 DEF CopyManifest
  <2>2. /\ manifestFile \in Manifests
        /\ snapshot \in [Executions -> [manifest : Manifests \cup {None},
                                        source   : Sources \cup {None}]]
    BY DEF TrustInv, TypeOKExecution, TypeOKVerify
  <2> QED
    BY <2>1, <2>2
<1>6. ASSUME CopySource(x)
      PROVE  /\ xpc[x] = "resolved" /\ UNCHANGED <<xpc, run, circuit, qpy>>
             /\ snapshot' = [snapshot EXCEPT ![x].source = sourceFile]
             /\ snapshot' \in [Executions -> [manifest : Manifests \cup {None},
                                             source   : Sources \cup {None}]]
  <2>1. /\ xpc[x] = "resolved" /\ UNCHANGED <<xpc, run, circuit, qpy>>
        /\ snapshot' = [snapshot EXCEPT ![x].source = sourceFile]
    BY <1>6 DEF CopySource
  <2>2. /\ sourceFile \in Sources
        /\ snapshot \in [Executions -> [manifest : Manifests \cup {None},
                                        source   : Sources \cup {None}]]
    BY DEF TrustInv, TypeOKExecution, TypeOKVerify
  <2> QED
    BY <2>1, <2>2
<1>7. TypeOKExecution' /\ ExecutionsInv'
  <2> SUFFICES TypeOKExecution /\ ExecutionsInv =>
                 /\ xpc' \in [Executions -> {"idle", "finished"}
                                 \cup Prechecks \cup Running \cup {"reported"}]
                 /\ run' \in [Executions -> Verifications \cup {None}]
                 /\ snapshot' \in [Executions -> [manifest : Manifests \cup {None},
                                                  source   : Sources \cup {None}]]
                 /\ circuit' \in [Executions -> Sources \cup {None}]
                 /\ qpy' \in [Executions -> Sources \cup {None}]
                 /\ ExecutionsInv'
    BY <1>1, <1>3 DEF TrustInv, TypeOKExecution, planVars
  <2> HAVE TypeOKExecution /\ ExecutionsInv
  <2> USE DEF TypeOKExecution, ExecutionsInv
  <2>1. ASSUME NEW v \in Verifications, ResolveRun(x, v)
        PROVE  /\ xpc' \in [Executions -> {"idle", "finished"}
                                 \cup Prechecks \cup Running \cup {"reported"}]
               /\ run' \in [Executions -> Verifications \cup {None}]
               /\ UNCHANGED <<snapshot, circuit, qpy>>
               /\ ExecutionsInv'
    BY <1>4, <2>1 DEF ResolveRun
  <2>2. CASE CopyManifest(x)
    BY <1>4, <1>5, <2>2
  <2>3. CASE CopySource(x)
    BY <1>4, <1>6, <2>3
  <2>4. CASE Copied(x)
    BY <1>4, <2>4 DEF Copied
  <2>5. CASE Authorize(x)
    BY <1>4, <2>5 DEF Authorize
  <2>6. CASE CheckSnapshot(x)
    BY <1>4, <2>6 DEF CheckSnapshot
  <2>7. CASE CheckPolicy(x)
    BY <1>4, <2>7 DEF CheckPolicy
  <2>8. CASE Execute(x)
    BY <1>4, <2>8 DEF Execute
  <2>9. CASE FinishExecution(x)
    BY <1>4, <2>9 DEF FinishExecution
  <2> QED
    BY <2>1, <2>2, <2>3, <2>4, <2>5, <2>6, <2>7, <2>8, <2>9
<1> QED
  BY <1>3, <1>7 DEF TrustInv

(* A receipt that says COMPLETED is written of what was authorized, copied *)
(* and run; it replaces none.                                              *)
LEMMA ReceiptStep ==
  ASSUME TrustInv, NEW x \in Executions, NEW status \in Outcomes,
         xpc[x] \notin {"idle", "finished"},
         status = "EXECUTION_COMPLETED" => xpc[x] = "executed",
         WriteReceipt(x, status),
         UNCHANGED <<verifyVars, target, qpy, planVars>>
  PROVE  /\ receipts' \in [Executions -> ExecutionReceipt \cup {None}]
         /\ ExecutedIsVerified' /\ UpstreamInv' /\ PlanTracesToVerification'
<1>1. PICK attestation \in Attestations :
        receipts' = [receipts EXCEPT ![x] = Receipt(x, status, attestation)]
  BY DEF WriteReceipt
<1>2. receipts[x] = None
  BY DEF WriteReceipt
<1>3. UNCHANGED <<records, target, qpy, ppc, upstream, loaded, plans, disturbed>>
  BY DEF verifyVars, planVars
<1> DEFINE receipt == Receipt(x, status, attestation)
<1>4. /\ run[x] \in Verifications
      /\ records[run[x]] # None
      /\ records[run[x]] \in EvidenceRecord
  BY VerificationAssumption DEF TrustInv, ExecutionsInv, TypeOKExecution, TypeOKVerify
<1>5. /\ receipt.run = run[x]
      /\ receipt.status = status
      /\ receipt.circuit = circuit[x]
      /\ receipt.source = IF circuit[x] = None THEN None ELSE records[run[x]].source
      /\ receipt.manifest = IF circuit[x] = None THEN None ELSE records[run[x]].manifest
  BY DEF Receipt
<1>6. receipt \in ExecutionReceipt
  <2>1. attestation.attested \in BOOLEAN /\ attestation.signature \in Signatures
    BY DEF Attestations, Signed, Signatures, KmsSignature, LocalSignature, NoSignature
  <2>2. circuit[x] \in Sources \cup {None}
    BY DEF TrustInv, TypeOKExecution
  <2>3. /\ records[run[x]].source \in Sources \cup {None}
        /\ records[run[x]].manifest \in Manifests \cup {None}
    BY <1>4 DEF EvidenceRecord
  <2> QED
    BY <1>4, <2>1, <2>2, <2>3 DEF Receipt, ExecutionReceipt
<1>7. receipts \in [Executions -> ExecutionReceipt \cup {None}]
  BY DEF TrustInv, TypeOKExecution
<1>8. /\ receipts'[x] = receipt
      /\ \A y \in Executions : y # x => receipts'[y] = receipts[y]
  BY <1>1, <1>7
<1>9. receipts' \in [Executions -> ExecutionReceipt \cup {None}]
  BY <1>1, <1>6, <1>7
<1>10. ExecutedIsVerified'
  <2>1. ASSUME status = "EXECUTION_COMPLETED"
        PROVE  LET record == records[run[x]] IN
                 /\ record.signature \in Signed
                 /\ record.decision \in Verified
                 /\ target[x] = "ibm" => /\ record.signature = "KMS_SIGNED"
                                         /\ record.decision = "VERIFIED_FOR_EXECUTION"
                 /\ receipt.circuit = record.source
                 /\ receipt.source = record.source
                 /\ receipt.manifest = record.manifest
    <3>1. Authorized(records[run[x]], target[x])
      BY <2>1 DEF TrustInv, ExecutionsInv, Running
    <3>2. circuit[x] = records[run[x]].source
      BY <2>1 DEF TrustInv, ExecutionsInv, Running
    <3>3. target[x] \in Targets
      BY DEF TrustInv, TypeOKExecution
    <3>4. circuit[x] # None
      BY <1>4, <3>1, <3>2, <3>3 DEF Authorized, TrustInv, RecordsInv, Verified, Targets,
                              LocalSimulationDecisions, QpuDecisions
    <3> QED
      BY <1>5, <3>1, <3>2, <3>3, <3>4
         DEF Authorized, Signed, Verified, Targets, LocalSimulationDecisions, QpuDecisions
  <2> QED
    BY <1>3, <1>4, <1>5, <1>8, <2>1 DEF TrustInv, ExecutedIsVerified
<1>11. \A y \in Executions : receipts[y] # None => receipts'[y] = receipts[y]
  BY <1>2, <1>8
<1>12. UpstreamInv'
  <2> SUFFICES ASSUME NEW p \in Plans, upstream[p] # None
               PROVE  receipts'[upstream[p]] = receipts[upstream[p]]
    BY <1>3 DEF TrustInv, UpstreamInv, Trusted, TypeOKExecution,
                Planning
  <2> QED
    BY <1>11 DEF TrustInv, TypeOKExecution, UpstreamInv, Trusted
<1>13. PlanTracesToVerification'
  <2> SUFFICES ASSUME NEW p \in Plans, plans[p] # None
               PROVE  receipts'[plans[p].execution] = receipts[plans[p].execution]
    BY <1>3 DEF TrustInv, PlanTracesToVerification
  <2> QED
    BY <1>11 DEF TrustInv, TypeOKExecution, QPlan, PlanTracesToVerification
<1> QED
  BY <1>9, <1>10, <1>12, <1>13

LEMMA ReceiptedRunKeepsInv ==
  ASSUME TrustInv, NEW x \in Executions,
         DenyExecution(x) \/ RecordSuccess(x) \/ RecordFailure(x)
  PROVE  TrustInv'
<1>1. PICK status \in Outcomes :
        /\ WriteReceipt(x, status)
        /\ xpc[x] \notin {"idle", "finished"}
        /\ status = "EXECUTION_COMPLETED" => xpc[x] = "executed"
  BY DEF DenyExecution, RecordSuccess, RecordFailure, Outcomes, At, Prechecks, Running
<1>2. UNCHANGED <<verifyVars, run, target, snapshot, circuit, qpy, planVars>>
  BY DEF DenyExecution, RecordSuccess, RecordFailure
<1>3. /\ receipts' \in [Executions -> ExecutionReceipt \cup {None}]
      /\ ExecutedIsVerified' /\ UpstreamInv' /\ PlanTracesToVerification'
  BY <1>1, <1>2, ReceiptStep
<1>4. UNCHANGED <<sourceFile, manifestFile, vpc, manifestHash, sourceHash, decision,
                  records, ppc, upstream, loaded, plans, disturbed>>
  BY <1>2 DEF verifyVars, projectVars, bundleVars, planVars
<1>5. \E stage \in {"finished", "reported"} : xpc' = [xpc EXCEPT ![x] = stage]
  BY DEF DenyExecution, RecordSuccess, RecordFailure, At
<1>6. TypeOKExecution' /\ RecordsInv'
  BY <1>2, <1>3, <1>4, <1>5 DEF TrustInv, TypeOKExecution, TypeOKVerify, RecordsInv
<1>7. ExecutionsInv'
  <2>1. \A y \in Executions : y # x => receipts'[y] = receipts[y]
    BY <1>1 DEF WriteReceipt, TrustInv, TypeOKExecution
  <2> QED
    BY <1>1, <1>2, <1>4, <1>5, <2>1 DEF TrustInv, TypeOKExecution, ExecutionsInv, Running
<1> QED
  BY <1>3, <1>6, <1>7 DEF TrustInv

-----------------------------------------------------------------------------
(* The plan command.                                                       *)

(* A step of plan writes one element of each of its functions.             *)
LEMMA PlanFrame ==
  ASSUME TrustInv, NEW p \in Plans, Plan(p)
  PROVE  /\ TypeOKVerify' /\ RecordsInv' /\ ExecutionsInv' /\ ExecutedIsVerified'
         /\ UNCHANGED <<records, xpc, run, target, snapshot, circuit, qpy, receipts,
                         disturbed>>
         /\ \A q \in Plans \ {p} :
              /\ ppc'[q] = ppc[q] /\ upstream'[q] = upstream[q]
              /\ loaded'[q] = loaded[q] /\ plans'[q] = plans[q]
<1>1. UNCHANGED <<verifyVars, executionVars, disturbed>>
  BY DEF Plan, SelectExecution, LoadLogical, PublishPlan, RefusePlan
<1>2. UNCHANGED <<sourceFile, manifestFile, vpc, manifestHash, sourceHash, decision,
                  records, xpc, run, target, snapshot, circuit, qpy, receipts>>
  BY <1>1 DEF verifyVars, projectVars, bundleVars, executionVars
<1>3. TypeOKVerify' /\ RecordsInv' /\ ExecutionsInv' /\ ExecutedIsVerified'
  BY <1>2 DEF TrustInv, TypeOKExecution, TypeOKVerify, RecordsInv, ExecutionsInv,
              ExecutedIsVerified
<1>4. \A q \in Plans \ {p} :
        /\ ppc'[q] = ppc[q] /\ upstream'[q] = upstream[q]
        /\ loaded'[q] = loaded[q] /\ plans'[q] = plans[q]
  BY DEF Plan, SelectExecution, LoadLogical, PublishPlan, RefusePlan, TrustInv,
         TypeOKExecution
<1> QED
  BY <1>1, <1>2, <1>3, <1>4

(* What the invariant says of the plan that made a step.                   *)
LEMMA PlanEstablishes ==
  ASSUME TrustInv, NEW p \in Plans, Plan(p)
  PROVE  /\ TypeOKExecution'
         /\ upstream'[p] # None => Trusted(receipts[upstream'[p]])
         /\ ppc'[p] \in Planning =>
              /\ upstream'[p] # None
              /\ qpy[upstream'[p]] # None
              /\ p \notin disturbed =>
                   qpy[upstream'[p]] = receipts[upstream'[p]].circuit
         /\ ppc'[p] = "loaded" =>
              /\ loaded'[p] # None
              /\ p \notin disturbed => loaded'[p] = receipts[upstream'[p]].circuit
         /\ \/ plans' = plans
            \/ /\ ppc[p] = "loaded"
               /\ plans'[p].execution = upstream[p]
               /\ plans'[p].source = receipts[upstream[p]].source
               /\ plans'[p].logical = qpy[upstream[p]]
               /\ plans'[p].circuit = loaded[p]
<1> USE DEF TrustInv, TypeOKExecution, Planning
<1>0. TypeOKVerify' /\ UNCHANGED <<xpc, run, target, snapshot, circuit, qpy, receipts,
                                   disturbed>>
  BY PlanFrame
<1>1. ASSUME NEW x \in Executions, SelectExecution(p, x)
      PROVE  /\ TypeOKExecution'
             /\ ppc'[p] = "selected" /\ upstream'[p] = x /\ plans' = plans
             /\ Trusted(receipts[x]) /\ qpy[x] = receipts[x].circuit
  BY <1>0, <1>1 DEF SelectExecution
<1>2. CASE LoadLogical(p)
  <2>1. /\ upstream' = upstream /\ plans' = plans
        /\ ppc'[p] = "loaded" /\ loaded'[p] = qpy[upstream[p]]
    BY <1>2 DEF LoadLogical
  <2>2. TypeOKExecution'
    BY <1>0, <1>2 DEF LoadLogical, UpstreamInv
  <2> QED
    BY <1>2, <2>1, <2>2 DEF LoadLogical, UpstreamInv
<1>3. CASE PublishPlan(p)
  <2> DEFINE x == upstream[p]
             plan == [execution |-> x,
                      source    |-> receipts[x].source,
                      logical   |-> qpy[x],
                      circuit   |-> loaded[p]]
  <2>1. /\ x \in Executions /\ Trusted(receipts[x])
        /\ qpy[x] \in Sources /\ loaded[p] \in Sources
    BY <1>3 DEF PublishPlan, UpstreamInv
  <2>2. receipts[x].source = receipts[x].circuit /\ receipts[x].circuit \in Sources
    BY <2>1 DEF Trusted, ExecutedIsVerified, ExecutionReceipt
  <2>3. plan \in QPlan
    BY <2>1, <2>2 DEF QPlan
  <2>4. /\ plans' = [plans EXCEPT ![p] = plan] /\ ppc' = [ppc EXCEPT ![p] = "planned"]
        /\ UNCHANGED <<upstream, loaded>> /\ ppc[p] = "loaded"
    BY <1>3 DEF PublishPlan
  <2>5. /\ plan.execution = x /\ plan.source = receipts[x].source
        /\ plan.logical = qpy[x] /\ plan.circuit = loaded[p]
    OBVIOUS
  <2> HIDE DEF plan
  <2>6. TypeOKExecution'
    BY <1>0, <2>3, <2>4
  <2> QED
    BY <2>1, <2>4, <2>5, <2>6
<1>4. CASE RefusePlan(p)
  BY <1>0, <1>4 DEF RefusePlan, UpstreamInv
<1> QED
  BY <1>1, <1>2, <1>3, <1>4, ExecutionAssumption DEF Plan, Trusted

LEMMA PlanKeepsInv ==
  ASSUME TrustInv, NEW p \in Plans, Plan(p)
  PROVE  TrustInv'
<1>1. UpstreamInv'
  <2> SUFFICES plans'[p] # None => ppc'[p] = "planned"
    BY PlanFrame, PlanEstablishes DEF TrustInv, UpstreamInv, Trusted
  <2> QED
    BY DEF Plan, SelectExecution, LoadLogical, PublishPlan, RefusePlan, Planning,
           TrustInv, TypeOKExecution, UpstreamInv
<1>2. PlanTracesToVerification'
  <2> SUFFICES ASSUME plans' # plans
               PROVE  LET receipt == receipts[plans'[p].execution]
                          record  == records[receipt.run] IN
                        /\ receipt # None
                        /\ receipt.status = "EXECUTION_COMPLETED"
                        /\ record # None
                        /\ record.decision \in Verified
                        /\ record.signature \in Signed
                        /\ plans'[p].source = record.source
                        /\ p \notin disturbed => /\ plans'[p].logical = record.source
                                                 /\ plans'[p].circuit = record.source
    BY PlanFrame DEF TrustInv, PlanTracesToVerification
  <2>1. /\ ppc[p] = "loaded"
        /\ plans'[p].execution = upstream[p]
        /\ plans'[p].source = receipts[upstream[p]].source
        /\ plans'[p].logical = qpy[upstream[p]]
        /\ plans'[p].circuit = loaded[p]
    BY PlanEstablishes
  <2>2. /\ upstream[p] \in Executions
        /\ Trusted(receipts[upstream[p]])
        /\ p \notin disturbed => /\ qpy[upstream[p]] = receipts[upstream[p]].circuit
                                 /\ loaded[p] = receipts[upstream[p]].circuit
    BY <2>1 DEF TrustInv, TypeOKExecution, UpstreamInv, Planning
  <2> QED
    BY <2>1, <2>2 DEF TrustInv, ExecutedIsVerified, Trusted
<1> QED
  BY <1>1, <1>2, PlanFrame, PlanEstablishes DEF TrustInv

-----------------------------------------------------------------------------
(* An edit of logical-circuit.qpy counts every plan that may still read it *)
(* as disturbed.                                                           *)
LEMMA EditKeepsInv ==
  ASSUME TrustInv, NEW x \in Executions, NEW c \in Sources, EditCircuit(x, c)
  PROVE  TrustInv'
<1>1. UNCHANGED <<sourceFile, manifestFile, vpc, manifestHash, sourceHash, decision,
                  records, xpc, run, target, snapshot, circuit, receipts,
                  ppc, upstream, loaded, plans>>
  BY DEF EditCircuit, verifyVars, projectVars, bundleVars
<1>2. /\ qpy' = [qpy EXCEPT ![x] = c]
      /\ disturbed' = disturbed \cup
                        {p \in Plans : ppc[p] \in Planning /\ upstream[p] = x}
      /\ c # None
  BY VerificationAssumption DEF EditCircuit
<1>3. TypeOKExecution' /\ RecordsInv' /\ ExecutionsInv' /\ ExecutedIsVerified'
  BY <1>1, <1>2 DEF TrustInv, TypeOKExecution, TypeOKVerify, RecordsInv, ExecutionsInv,
                    ExecutedIsVerified
<1>4. UpstreamInv'
  BY <1>1, <1>2 DEF TrustInv, TypeOKExecution, UpstreamInv, Trusted, Planning
<1>5. PlanTracesToVerification'
  BY <1>1, <1>2 DEF TrustInv, PlanTracesToVerification
<1> QED
  BY <1>3, <1>4, <1>5 DEF TrustInv

-----------------------------------------------------------------------------
(* The invariant, and what it implies.                                     *)

LEMMA TrustNextKeepsInv ==
  ASSUME TrustInv, [TrustNext]_trustVars
  PROVE  TrustInv'
<1>1. CASE VerifyNext /\ UNCHANGED <<executionVars, planVars>>
  BY <1>1, VerifyKeepsInv
<1>2. ASSUME NEW x \in Executions, Run(x)
      PROVE  TrustInv'
  BY <1>2, QuietRunKeepsInv, ReceiptedRunKeepsInv DEF Run
<1>3. ASSUME NEW p \in Plans, Plan(p)
      PROVE  TrustInv'
  BY <1>3, PlanKeepsInv
<1>4. ASSUME NEW x \in Executions, NEW c \in Sources, EditCircuit(x, c)
      PROVE  TrustInv'
  BY <1>4, EditKeepsInv
<1>5. CASE UNCHANGED trustVars
  BY <1>5 DEF trustVars, verifyVars, projectVars, bundleVars, executionVars, planVars,
              TrustInv, TypeOKExecution, TypeOKVerify, RecordsInv, ExecutionsInv,
              ExecutedIsVerified, UpstreamInv, Trusted, PlanTracesToVerification
<1> QED
  BY <1>1, <1>2, <1>3, <1>4, <1>5 DEF TrustNext

LEMMA TrustInvariant == TrustSpec => []TrustInv
<1>1. TrustInit => TrustInv
  BY TrustInitInv
<1>2. TrustInv /\ [TrustNext]_trustVars => TrustInv'
  BY TrustNextKeepsInv
<1> QED
  BY <1>1, <1>2, PTL DEF TrustSpec

(* The variables keep their types: a plan, for one, always names a source  *)
(* and a circuit, because only a completed receipt is trusted              *)
(* (planning.py).                                                          *)
THEOREM TrustTypeCorrect == TrustSpec => []TypeOKExecution
<1>1. TrustInv => TypeOKExecution
  BY DEF TrustInv
<1> QED
  BY <1>1, TrustInvariant, PTL

(* What run completes is the source its signed verification record names,  *)
(* under a decision that allows the target (authorization.py, cli.py).     *)
THEOREM ExecutedIsVerifiedCorrect == TrustSpec => []ExecutedIsVerified
<1>1. TrustInv => ExecutedIsVerified
  BY DEF TrustInv
<1> QED
  BY <1>1, TrustInvariant, PTL

(* What plan plans is what run completed of a signed verification record   *)
(* (planning.py).                                                          *)
THEOREM PlanTracesToVerificationCorrect == TrustSpec => []PlanTracesToVerification
<1>1. TrustInv => PlanTracesToVerification
  BY DEF TrustInv
<1> QED
  BY <1>1, TrustInvariant, PTL

LEMMA ReceiptKept ==
  ASSUME TypeOKExecution, [TrustNext]_trustVars,
         NEW x \in Executions, receipts[x] # None
  PROVE  receipts'[x] = receipts[x]
<1>1. CASE receipts' = receipts
  BY <1>1
<1>2. ASSUME NEW y \in Executions, NEW status \in Outcomes, WriteReceipt(y, status)
      PROVE  receipts'[x] = receipts[x]
  BY <1>2 DEF WriteReceipt, TypeOKExecution
<1>3. ASSUME NEW y \in Executions, Run(y)
      PROVE  receipts'[x] = receipts[x]
  <2>1. \/ receipts' = receipts
        \/ \E status \in Outcomes : WriteReceipt(y, status)
    BY <1>3 DEF Run, ResolveRun, CopyManifest, CopySource, Copied, Authorize,
                CheckSnapshot, CheckPolicy, Execute, FinishExecution,
                DenyExecution, RecordSuccess, RecordFailure, Outcomes
  <2> QED BY <1>1, <1>2, <2>1
<1>4. CASE \E p \in Plans : Plan(p)
  BY <1>1, <1>4 DEF Plan, SelectExecution, LoadLogical, PublishPlan, RefusePlan,
                    executionVars
<1>5. CASE \E y \in Executions, c \in Sources : EditCircuit(y, c)
  BY <1>1, <1>5 DEF EditCircuit
<1>6. CASE UNCHANGED trustVars
  BY <1>1, <1>6 DEF trustVars, executionVars
<1> QED
  BY <1>1, <1>3, <1>4, <1>5, <1>6 DEF TrustNext, executionVars

(* No step of any command rewrites a receipt (receipt.py, O_EXCL).         *)
THEOREM ReceiptsAreFinalCorrect == TrustSpec => ReceiptsAreFinal
<1> DEFINE Kept == \A x \in Executions :
                     receipts[x] # None => receipts'[x] = receipts[x]
<1>1. TypeOKExecution /\ [TrustNext]_trustVars => [Kept]_trustVars
  BY ReceiptKept
<1> QED
  BY <1>1, TrustTypeCorrect, PTL DEF TrustSpec, ReceiptsAreFinal

(* A step of these commands writes one file of the evidence at most: a     *)
(* record, a receipt or a plan, where there was none.  A published plan is *)
(* no longer disturbed by an edit.                                         *)
LEMMA EvidenceWrites ==
  ASSUME TrustInv, [TrustNext]_trustVars
  PROVE  \/ /\ UNCHANGED <<records, receipts, plans>>
            /\ \A p \in Plans :
                 plans[p] # None => (p \in disturbed' <=> p \in disturbed)
         \/ /\ UNCHANGED <<receipts, plans, disturbed>>
            /\ \E v \in Verifications, record \in EvidenceRecord :
                 /\ records[v] = None
                 /\ records' = [records EXCEPT ![v] = record]
         \/ /\ UNCHANGED <<records, plans, disturbed>>
            /\ \E x \in Executions, receipt \in ExecutionReceipt :
                 /\ receipts[x] = None
                 /\ receipts' = [receipts EXCEPT ![x] = receipt]
         \/ /\ UNCHANGED <<records, receipts, disturbed>>
            /\ \E p \in Plans, plan \in QPlan :
                 /\ plans[p] = None
                 /\ plans' = [plans EXCEPT ![p] = plan]
<1> USE DEF TrustInv, TypeOKExecution
<1>0. TypeOKExecution'
  BY TrustNextKeepsInv
<1>1. CASE VerifyNext /\ UNCHANGED <<executionVars, planVars>>
  <2>1. UNCHANGED <<receipts, plans, disturbed>>
    BY <1>1 DEF executionVars, planVars
  <2>2. CASE records' = records
    BY <2>1, <2>2
  <2>3. CASE \E v \in Verifications : Finalize(v)
    <3>1. PICK v \in Verifications : Finalize(v)
      BY <2>3
    <3>2. PICK record : records' = [records EXCEPT ![v] = record]
      BY <3>1 DEF Finalize
    <3>3. record = records'[v] /\ record \in EvidenceRecord \cup {None}
      BY <1>0, <3>2 DEF TypeOKVerify
    <3>4. records[v] = None
      BY <3>1 DEF Finalize, Step, RecordsInv, Pointing
    <3>5. CASE record = None
      BY <2>1, <3>2, <3>4, <3>5 DEF TypeOKVerify
    <3> QED
      BY <2>1, <3>2, <3>3, <3>4, <3>5
  <2> QED
    BY <1>1, <2>2, <2>3
       DEF VerifyNext, EditSource, EditManifest, Verify, GateManifest, HashSource,
           GateCode, GateStructure, GateRepair, GateBaseline, DenyVerification,
           AbortVerification
<1>2. ASSUME NEW x \in Executions, NEW status \in Outcomes, WriteReceipt(x, status),
             UNCHANGED <<verifyVars, planVars>>
      PROVE  /\ UNCHANGED <<records, plans, disturbed>>
             /\ \E receipt \in ExecutionReceipt \cup {None} :
                  /\ receipts[x] = None
                  /\ receipts' = [receipts EXCEPT ![x] = receipt]
  <2>1. PICK attestation \in Attestations :
          receipts' = [receipts EXCEPT ![x] = Receipt(x, status, attestation)]
    BY <1>2 DEF WriteReceipt
  <2>2. Receipt(x, status, attestation) = receipts'[x]
    BY <2>1
  <2>3. Receipt(x, status, attestation) \in ExecutionReceipt \cup {None}
    BY <1>0, <2>2
  <2> QED
    BY <1>2, <2>1, <2>3 DEF WriteReceipt, verifyVars, planVars
<1>3. ASSUME NEW x \in Executions, Run(x)
      PROVE  \/ UNCHANGED <<records, receipts, plans, disturbed>>
             \/ /\ UNCHANGED <<verifyVars, planVars>>
                /\ \E status \in Outcomes : WriteReceipt(x, status)
  BY <1>3 DEF Run, ResolveRun, CopyManifest, CopySource, Copied, Authorize,
              CheckSnapshot, CheckPolicy, Execute, FinishExecution, DenyExecution,
              RecordSuccess, RecordFailure, Outcomes, verifyVars, planVars
<1>4. ASSUME NEW x \in Executions, NEW c \in Sources, EditCircuit(x, c)
      PROVE  /\ UNCHANGED <<records, receipts, plans>>
             /\ \A p \in Plans :
                  plans[p] # None => (p \in disturbed' <=> p \in disturbed)
  BY <1>4 DEF EditCircuit, verifyVars, UpstreamInv, Planning
<1>5. ASSUME NEW p \in Plans, Plan(p)
      PROVE  /\ UNCHANGED <<records, receipts, disturbed>>
             /\ \/ plans' = plans
                \/ \E plan \in QPlan \cup {None} :
                     /\ plans[p] = None
                     /\ plans' = [plans EXCEPT ![p] = plan]
  <2>1. UNCHANGED <<records, receipts, disturbed>>
    BY <1>5, PlanFrame
  <2>2. CASE PublishPlan(p)
    <3>1. PICK plan : plans' = [plans EXCEPT ![p] = plan]
      BY <2>2 DEF PublishPlan
    <3>2. plan \in QPlan \cup {None}
      BY <1>0, <3>1
    <3>3. plans[p] = None
      BY <2>2 DEF PublishPlan, UpstreamInv
    <3> QED
      BY <2>1, <3>1, <3>2, <3>3
  <2> QED
    BY <1>5, <2>1, <2>2 DEF Plan, SelectExecution, LoadLogical, RefusePlan
<1>6. CASE UNCHANGED trustVars
  BY <1>6 DEF trustVars, verifyVars, executionVars, planVars
<1>7. CASE \E x \in Executions : Run(x)
  BY <1>2, <1>3, <1>7
<1>8. CASE \E p \in Plans : Plan(p)
  BY <1>5, <1>8
<1> QED
  BY <1>1, <1>4, <1>6, <1>7, <1>8 DEF TrustNext

-----------------------------------------------------------------------------
(* verify-chain.  A finished run keeps the copy that it executed.          *)
CopyInv ==
  \A x \in Executions :
    receipts[x] # None /\ receipts[x].status = "EXECUTION_COMPLETED" =>
      /\ snapshot[x].manifest = records[receipts[x].run].manifest
      /\ snapshot[x].source = records[receipts[x].run].source

(* What a run of verify-chain has established of the files it read.        *)
ReadersInv ==
  \A w \in Readers :
    /\ rpc[w] \in {"loaded", "agreed", "current", "verified"} =>
         /\ examined[w] \in Executions
         /\ IsLocalReceipt(examined[w])
         /\ FindLocalPublicKey(examined[w])
    /\ rpc[w] \in {"agreed", "current", "verified"} =>
         ExecutionAuthorized(examined[w])

LocalInv == TrustInv /\ CopyInv /\ TypeOKLocalChain /\ ReadersInv

(* A completed receipt, and the record behind it, are there for good.      *)
LEMMA ChainStays ==
  ASSUME TrustInv, [TrustNext]_trustVars, NEW x \in Executions, receipts[x] # None
  PROVE  /\ receipts'[x] = receipts[x]
         /\ target'[x] = target[x]
         /\ receipts[x].run \in Verifications
         /\ records[receipts[x].run] # None =>
              records'[receipts[x].run] = records[receipts[x].run]
<1>1. receipts[x].run \in Verifications
  BY DEF TrustInv, TypeOKExecution, ExecutionReceipt
<1>2. receipts'[x] = receipts[x]
  BY ReceiptKept DEF TrustInv
<1>3. target' = target
  BY DEF TrustNext, trustVars, verifyVars, executionVars, planVars, Run, Plan,
         ResolveRun, CopyManifest, CopySource, Copied, Authorize, CheckSnapshot,
         CheckPolicy, Execute, FinishExecution, DenyExecution, RecordSuccess,
         RecordFailure, EditCircuit, SelectExecution, LoadLogical, PublishPlan,
         RefusePlan
<1>4. records' = records \/ VerifyNext
  BY DEF TrustNext, trustVars, verifyVars, executionVars, planVars, Run, Plan,
         ResolveRun, CopyManifest, CopySource, Copied, Authorize, CheckSnapshot,
         CheckPolicy, Execute, FinishExecution, DenyExecution, RecordSuccess,
         RecordFailure, EditCircuit, SelectExecution, LoadLogical, PublishPlan,
         RefusePlan
<1>5. \A v \in Verifications : records[v] # None => records'[v] = records[v]
  BY <1>4, RecordsStay DEF TrustInv, TypeOKExecution
<1> QED
  BY <1>1, <1>2, <1>3, <1>5

LEMMA RunKeepsCopyInv ==
  ASSUME TrustInv, CopyInv, NEW x \in Executions, Run(x)
  PROVE  CopyInv'
<1> USE DEF TrustInv, TypeOKExecution, CopyInv, At, Prechecks, Running
<1>1. records' = records
  BY DEF Run, ResolveRun, CopyManifest, CopySource, Copied, Authorize, CheckSnapshot,
         CheckPolicy, Execute, FinishExecution, DenyExecution, RecordSuccess,
         RecordFailure, verifyVars
<1>2. CASE CopyManifest(x) \/ CopySource(x)
  BY <1>1, <1>2 DEF CopyManifest, CopySource, ExecutionsInv
<1>3. CASE \/ \E v \in Verifications : ResolveRun(x, v)
           \/ Copied(x) \/ Authorize(x) \/ CheckSnapshot(x)
           \/ CheckPolicy(x) \/ Execute(x) \/ FinishExecution(x)
  BY <1>1, <1>3 DEF ResolveRun, Copied, Authorize, CheckSnapshot, CheckPolicy, Execute,
                    FinishExecution
<1>4. CASE DenyExecution(x) \/ RecordSuccess(x) \/ RecordFailure(x)
  <2>1. PICK status \in Outcomes, stage \in {"reported", "finished"} :
          /\ WriteReceipt(x, status)
          /\ status = "EXECUTION_COMPLETED" => xpc[x] = "executed"
          /\ xpc' = [xpc EXCEPT ![x] = stage]
          /\ snapshot' = snapshot
    BY <1>4 DEF DenyExecution, RecordSuccess, RecordFailure, Outcomes
  <2>2. PICK attestation \in Attestations :
          receipts' = [receipts EXCEPT ![x] = Receipt(x, status, attestation)]
    BY <2>1 DEF WriteReceipt
  <2>3. /\ receipts'[x].run = run[x] /\ receipts'[x].status = status
        /\ \A y \in Executions : y # x => receipts'[y] = receipts[y]
    BY <2>2 DEF Receipt
  <2>4. status = "EXECUTION_COMPLETED" =>
          /\ snapshot[x].manifest = records[run[x]].manifest
          /\ snapshot[x].source = records[run[x]].source
    BY <2>1 DEF ExecutionsInv
  <2> QED
    BY <1>1, <2>1, <2>3, <2>4
<1> QED
  BY <1>2, <1>3, <1>4 DEF Run

LEMMA TrustKeepsCopyInv ==
  ASSUME TrustInv, CopyInv, [TrustNext]_trustVars
  PROVE  CopyInv'
<1>1. CASE UNCHANGED <<executionVars, planVars>>
  <2> SUFFICES ASSUME NEW x \in Executions, receipts[x] # None,
                      receipts[x].status = "EXECUTION_COMPLETED"
               PROVE  records'[receipts[x].run] = records[receipts[x].run]
    BY <1>1 DEF CopyInv, executionVars
  <2> QED
    BY ChainStays DEF TrustInv, ExecutedIsVerified
<1>2. CASE \E x \in Executions : Run(x)
  BY <1>2, RunKeepsCopyInv
<1>3. CASE \/ \E p \in Plans : Plan(p)
           \/ \E x \in Executions, c \in Sources : EditCircuit(x, c)
  BY <1>3 DEF Plan, SelectExecution, LoadLogical, PublishPlan, RefusePlan, EditCircuit,
              executionVars, verifyVars, CopyInv
<1> QED
  BY <1>1, <1>2, <1>3 DEF TrustNext, trustVars

(* What it established stays true while the other commands go on.          *)
LEMMA TrustKeepsReadersInv ==
  ASSUME LocalInv, [TrustNext]_trustVars, UNCHANGED readerVars
  PROVE  ReadersInv'
<1> SUFFICES ASSUME NEW w \in Readers,
                    rpc[w] \in {"loaded", "agreed", "current", "verified"}
             PROVE  /\ IsLocalReceipt(examined[w])'
                    /\ FindLocalPublicKey(examined[w])'
                    /\ ExecutionAuthorized(examined[w]) =>
                         ExecutionAuthorized(examined[w])'
  BY DEF LocalInv, ReadersInv, readerVars
<1>1. /\ examined[w] \in Executions
      /\ IsLocalReceipt(examined[w])
      /\ FindLocalPublicKey(examined[w])
  BY DEF LocalInv, ReadersInv
<1>2. records[receipts[examined[w]].run] # None
  BY <1>1 DEF LocalInv, TrustInv, ExecutedIsVerified, IsLocalReceipt
<1>3. /\ receipts'[examined[w]] = receipts[examined[w]]
      /\ target'[examined[w]] = target[examined[w]]
      /\ records'[receipts[examined[w]].run] = records[receipts[examined[w]].run]
  BY <1>1, <1>2, ChainStays DEF LocalInv, IsLocalReceipt
<1>4. examined' = examined
  BY DEF readerVars
<1> QED
  BY <1>1, <1>3, <1>4 DEF IsLocalReceipt, FindLocalPublicKey, ExecutionAuthorized

LEMMA ReaderKeepsInv ==
  ASSUME LocalInv, NEW w \in Readers, ReadChain(w)
  PROVE  LocalInv'
<1>1. UNCHANGED trustVars
  BY DEF ReadChain, LoadLocalChain, AgreeRecords, CheckCurrentManifest,
         CheckCurrentSource, RefuseLocalChain, ReadOn
<1>2. TrustInv' /\ TypeOKExecution'
  BY <1>1, TrustNextKeepsInv DEF LocalInv, TrustInv
<1>3. CopyInv'
  BY <1>1, TrustKeepsCopyInv DEF LocalInv
<1>4. UNCHANGED <<records, target, receipts>>
  BY <1>1 DEF trustVars, verifyVars, executionVars
<1>5. TypeOKLocalChain' /\ ReadersInv'
  BY <1>2, <1>4 DEF LocalInv, TypeOKLocalChain, ReadersInv, ReadChain, LoadLocalChain,
     AgreeRecords, CheckCurrentManifest, CheckCurrentSource, RefuseLocalChain, ReadOn,
     IsLocalReceipt, FindLocalPublicKey, ExecutionAuthorized
<1> QED
  BY <1>2, <1>3, <1>5 DEF LocalInv

LEMMA LocalInvariant == LocalSpec => []LocalInv
<1>1. LocalInit => LocalInv
  BY TrustInitInv DEF LocalInit, TrustInit, LocalInv, TrustInv, CopyInv, ReadersInv,
                      TypeOKLocalChain
<1>2. ASSUME LocalInv, [LocalNext]_localVars
      PROVE  LocalInv'
  <2>1. CASE [TrustNext]_trustVars /\ UNCHANGED readerVars
    <3>1. TrustInv' /\ CopyInv'
      BY <1>2, <2>1, TrustNextKeepsInv, TrustKeepsCopyInv DEF LocalInv
    <3>2. TypeOKLocalChain'
      BY <1>2, <2>1, <3>1 DEF LocalInv, TrustInv, TypeOKLocalChain, readerVars
    <3> QED
      BY <1>2, <2>1, <3>1, <3>2, TrustKeepsReadersInv DEF LocalInv
  <2>2. CASE \E w \in Readers : ReadChain(w)
    BY <1>2, <2>2, ReaderKeepsInv
  <2> QED
    BY <1>2, <2>1, <2>2 DEF LocalNext, localVars
<1> QED
  BY <1>1, <1>2, PTL DEF LocalSpec

(* The types of verify, run, plan and verify-chain (chain.py).             *)
THEOREM LocalTypeCorrect == LocalSpec => []TypeOKLocalChain
<1>1. LocalInv => TypeOKLocalChain
  BY DEF LocalInv
<1> QED
  BY <1>1, LocalInvariant, PTL

(* A local chain that was accepted is of the source its record hashed, and *)
(* one signer vouches for record and receipt (chain.py,                    *)
(* _verify_local_chain).                                                   *)
THEOREM VerifiedChainIsWhatRanCorrect == LocalSpec => []VerifiedChainIsWhatRan
<1>1. LocalInv => VerifiedChainIsWhatRan
  BY DEF LocalInv, TrustInv, ReadersInv, ExecutedIsVerified, VerifiedChainIsWhatRan,
         IsLocalReceipt, FindLocalPublicKey, ExecutionAuthorized
<1> QED
  BY <1>1, LocalInvariant, PTL

(* What run attests under one identity, verify-chain accepts while the     *)
(* project is as it was copied (cli.py, run; chain.py).                    *)
THEOREM AttestedRunVerifiesCorrect == LocalSpec => []AttestedRunVerifies
<1>1. LocalInv => AttestedRunVerifies
  BY DEF LocalInv, TrustInv, CopyInv, ExecutedIsVerified, AttestedRunVerifies,
         IsLocalReceipt, FindLocalPublicKey, ExecutionAuthorized, WorkloadIsBound
<1> QED
  BY <1>1, LocalInvariant, PTL
=============================================================================
