-------------------------- MODULE GovernedPath_proofs --------------------------
(***************************************************************************)
(* The whole governed path keeps the evidence ledger, and a chain that is  *)
(* accepted reaches a verified source: proofs for any number of runs of    *)
(* each command, from the invariants of the path's two sides.              *)
(***************************************************************************)
EXTENDS GovernedPath, Reconciliation_proofs

(* What is proved of verify, run and plan, said of the variables here; the *)
(* verify-chain of that side is not run.                                   *)
Side == INSTANCE TrustedExecution_proofs WITH
  vpc <- gate, target <- where, circuit <- simulated,
  Readers <- {}, rpc <- << >>, examined <- << >>

-----------------------------------------------------------------------------
(* The constants are what TrustedExecution assumes of its own.             *)
LEMMA SideAssumptions == Side!VerificationAssumption /\ Side!ExecutionAssumption
BY PathAssumption
   DEF Side!VerificationAssumption, Side!ExecutionAssumption,
       Side!Decisions, Side!Verified, Side!EvidenceRecord, Side!ExecutionReceipt,
       Side!QPlan, Side!Signatures, Side!KmsSignature, Side!LocalSignature,
       Side!NoSignature, Side!Outcomes,
       Project!Decisions, Project!Verified, Project!EvidenceRecord,
       Project!ExecutionReceipt, Project!QPlan, Project!Signatures,
       Project!KmsSignature, Project!LocalSignature, Project!NoSignature,
       Project!Outcomes

(* The two instances of TrustedExecution are the same.                     *)
LEMMA SameInit == Project!TrustInit => Side!TrustInit
BY DEF Project!TrustInit, Project!VerifyInit, Side!TrustInit, Side!VerifyInit,
       Project!Targets, Side!Targets

LEMMA SameVerify == Project!VerifyNext => Side!VerifyNext
<1> USE DEF Project!Step, Side!Step, Project!projectVars, Side!projectVars,
            Project!bundleVars, Side!bundleVars, Project!AtGate, Side!AtGate,
            Project!Pointing, Side!Pointing
<1>1. ASSUME NEW v \in Verifications, Project!Verify(v)
      PROVE  Side!Verify(v)
  <2>1. CASE Project!Finalize(v)
    BY <2>1 DEF Project!Finalize, Side!Finalize, Side!Verify,
                Project!Signatures, Project!KmsSignature, Project!LocalSignature,
                Project!NoSignature, Side!Signatures, Side!KmsSignature,
                Side!LocalSignature, Side!NoSignature
  <2> QED
    BY <1>1, <2>1
       DEF Project!Verify, Project!GateManifest, Project!HashSource, Project!GateCode,
           Project!GateStructure, Project!GateRepair, Project!GateBaseline,
           Project!DenyVerification, Project!AbortVerification,
           Side!Verify, Side!GateManifest, Side!HashSource, Side!GateCode,
           Side!GateStructure, Side!GateRepair, Side!GateBaseline,
           Side!DenyVerification, Side!AbortVerification
<1> QED
  BY <1>1 DEF Project!VerifyNext, Side!VerifyNext, Project!EditSource,
              Side!EditSource, Project!EditManifest, Side!EditManifest

LEMMA SameRun ==
  ASSUME NEW x \in Executions, Project!Run(x)
  PROVE  Side!Run(x)
<1> USE DEF Project!At, Side!At, Project!Prechecks, Side!Prechecks,
            Project!Running, Side!Running, Project!verifyVars, Side!verifyVars,
            Project!projectVars, Side!projectVars, Project!bundleVars,
            Side!bundleVars, Project!planVars, Side!planVars
<1>1. \A record, place : Project!Authorized(record, place) = Side!Authorized(record, place)
  BY DEF Project!Authorized, Side!Authorized, Project!Signed, Side!Signed,
         Project!LocalSimulationDecisions, Side!LocalSimulationDecisions,
         Project!QpuDecisions, Side!QpuDecisions
<1>2. ASSUME NEW status
      PROVE  Project!WriteReceipt(x, status) = Side!WriteReceipt(x, status)
  BY DEF Project!WriteReceipt, Side!WriteReceipt, Project!Receipt, Side!Receipt,
         Project!Attestations, Side!Attestations, Project!Signed, Side!Signed,
         Project!Signatures, Project!KmsSignature, Project!LocalSignature,
         Project!NoSignature, Side!Signatures, Side!KmsSignature,
         Side!LocalSignature, Side!NoSignature
<1> QED
  BY <1>1, <1>2
     DEF Project!Run, Project!ResolveRun, Project!CopyManifest, Project!CopySource,
         Project!Copied, Project!Authorize, Project!CheckSnapshot,
         Project!CheckPolicy, Project!Execute, Project!DenyExecution,
         Project!RecordSuccess, Project!RecordFailure, Project!FinishExecution,
         Side!Run, Side!ResolveRun, Side!CopyManifest, Side!CopySource,
         Side!Copied, Side!Authorize, Side!CheckSnapshot,
         Side!CheckPolicy, Side!Execute, Side!DenyExecution,
         Side!RecordSuccess, Side!RecordFailure, Side!FinishExecution

LEMMA SameStep ==
  [Project!TrustNext]_projectVars => [Side!TrustNext]_(Side!trustVars)
<1> USE DEF Project!verifyVars, Side!verifyVars, Project!projectVars,
            Side!projectVars, Project!bundleVars, Side!bundleVars,
            Project!executionVars, Side!executionVars, Project!planVars,
            Side!planVars
<1>1. ASSUME NEW p \in Plans, Project!Plan(p)
      PROVE  Side!Plan(p)
  BY <1>1 DEF Project!Plan, Project!SelectExecution, Project!LoadLogical,
              Project!PublishPlan, Project!RefusePlan, Project!Trusted,
              Project!Planning, Side!Plan, Side!SelectExecution, Side!LoadLogical,
              Side!PublishPlan, Side!RefusePlan, Side!Trusted, Side!Planning
<1>2. ASSUME NEW x \in Executions, NEW c \in Sources, Project!EditCircuit(x, c)
      PROVE  Side!EditCircuit(x, c)
  BY <1>2 DEF Project!EditCircuit, Side!EditCircuit, Project!Planning, Side!Planning
<1>3. CASE UNCHANGED projectVars
  BY <1>3 DEF projectVars, Side!trustVars
<1> QED
  BY <1>1, <1>2, <1>3, SameVerify, SameRun DEF Project!TrustNext, Side!TrustNext

-----------------------------------------------------------------------------
(* The path is a behaviour of each side: what is proved of one holds of it.*)

(* approve, submit, qexec and verify-chain run as they do alone.           *)
THEOREM PathIsVerifySpec == PathSpec => VerifySpec
<1>1. PathInit => VerifyInit
  BY DEF PathInit
<1>2. [PathNext]_pathVars => [VerifyNext]_systemVars
  BY DEF PathNext, ProjectStep, HardwareStep, pathVars
<1> QED
  BY <1>1, <1>2, PTL DEF PathSpec, VerifySpec

LEMMA PathStepsProject == [PathNext]_pathVars => [Project!TrustNext]_projectVars
BY DEF PathNext, ProjectStep, HardwareStep, pathVars

-----------------------------------------------------------------------------
(* Where the two sides meet: a published plan is of the circuit it was     *)
(* transpiled from, and only published plans are approved.                 *)
MeetInv ==
  /\ \A p \in Plans :
       Published(p) => SignedIsa[p] \in TranspilesTo[plans[p].circuit]
  /\ \A a \in Approvals :
       /\ draft[a] # None => Published(draft[a].plan)
       /\ approval[a] # None => Published(approval[a].plan)

PathInv == VerifyInv /\ Side!TrustInv /\ MeetInv

LEMMA InitPath == PathInit => PathInv
<1> SUFFICES ASSUME PathInit PROVE PathInv
  OBVIOUS
<1>1. VerifyInv
  BY InitReconcile
     DEF PathInit, VerifyInit, VerifyInv, TypeOKVerification, ReconcileInv, ChainsInv
<1>2. Side!TrustInv
  BY SameInit, Side!TrustInitInv, SideAssumptions DEF PathInit
<1>3. MeetInv
  BY DEF PathInit, VerifyInit, ReconcileInit, Init, IssuanceInit, Project!TrustInit,
         MeetInv, Published
<1> QED
  BY <1>1, <1>2, <1>3 DEF PathInv

(* What a step of verify, run or plan writes of the evidence.              *)
LEMMA ProjectWrites ==
  ASSUME PathInv, [PathNext]_pathVars
  PROVE  \/ /\ UNCHANGED <<records, receipts, plans>>
            /\ \A p \in Plans :
                 plans[p] # None => (p \in disturbed' <=> p \in disturbed)
         \/ /\ UNCHANGED <<receipts, plans, disturbed>>
            /\ \E v \in Verifications, record \in Side!EvidenceRecord :
                 /\ records[v] = None
                 /\ records' = [records EXCEPT ![v] = record]
         \/ /\ UNCHANGED <<records, plans, disturbed>>
            /\ \E x \in Executions, new \in Side!ExecutionReceipt :
                 /\ receipts[x] = None
                 /\ receipts' = [receipts EXCEPT ![x] = new]
         \/ /\ UNCHANGED <<records, receipts, disturbed>>
            /\ \E p \in Plans, plan \in Side!QPlan :
                 /\ plans[p] = None
                 /\ plans' = [plans EXCEPT ![p] = plan]
BY PathStepsProject, SameStep, Side!EvidenceWrites, SideAssumptions DEF PathInv

LEMMA PublishedStays ==
  ASSUME PathInv, [PathNext]_pathVars, NEW p \in Plans, Published(p)
  PROVE  plans'[p] = plans[p]
BY ProjectWrites DEF Published, PathInv, Side!TrustInv, Side!TypeOKExecution

LEMMA PathStep ==
  ASSUME PathInv, [PathNext]_pathVars
  PROVE  PathInv'
<1>1. VerifyInv'
  BY VerifyStep DEF PathInv, PathNext, ProjectStep, HardwareStep, pathVars
<1>2. Side!TrustInv'
  BY PathStepsProject, SameStep, Side!TrustNextKeepsInv, SideAssumptions DEF PathInv
<1>3. \A a \in Approvals :
        /\ draft[a] # None => draft[a].plan \in Plans
        /\ approval[a] # None => approval[a].plan \in Plans
  BY DEF PathInv, VerifyInv, ReconcileInv, CoreInv, IInv, TypeOK, TypeOKIssuance,
         Payload
<1>4. CASE ProjectStep
  <2>1. UNCHANGED <<draft, approval>>
    BY <1>4 DEF ProjectStep, systemVars, allVars, vars, issuanceVars
  <2>2. \A p \in Plans :
          plans'[p] # plans[p] => SignedIsa[p] \in TranspilesTo[plans'[p].circuit]
    BY <1>4 DEF ProjectStep
  <2> QED
    BY <1>1, <1>2, <1>3, <2>1, <2>2, PublishedStays DEF PathInv, MeetInv, Published
<1>5. CASE HardwareStep
  <2>1. plans' = plans
    BY <1>5 DEF HardwareStep, projectVars
  <2>2. \A a \in Approvals : draft'[a] # None => Published(draft'[a].plan)
    BY <1>5 DEF HardwareStep
  <2>3. \A a \in Approvals :
          approval'[a] # None => approval'[a] = approval[a] \/ approval'[a] = draft[a]
    <3>1. VerifyInv /\ VerifyNext
      BY <1>5 DEF PathInv, HardwareStep
    <3>2. \/ approval' = approval
          \/ \E b \in Approvals : approval' = [approval EXCEPT ![b] = draft[b]]
      BY <3>1, HardwareWrites
    <3>3. approval \in [Approvals -> Payload \cup {None}]
      BY <3>1 DEF VerifyInv, ReconcileInv, CoreInv, IInv, TypeOK, TypeOKIssuance
    <3> QED
      BY <3>2, <3>3
  <2> QED
    BY <1>1, <1>2, <2>1, <2>2, <2>3 DEF PathInv, MeetInv, Published
<1>6. CASE UNCHANGED pathVars
  BY <1>1, <1>2, <1>6
     DEF PathInv, MeetInv, Published, pathVars, systemVars, allVars, vars, issuanceVars,
         projectVars
<1> QED
  BY <1>4, <1>5, <1>6 DEF PathNext

LEMMA PathInvariant == PathSpec => []PathInv
BY InitPath, PathStep, PTL DEF PathSpec

(* verify, run and plan run as they do alone.                              *)
THEOREM PathIsTrustSpec == PathSpec => Project!TrustSpec
<1>1. PathInit => Project!TrustInit
  BY DEF PathInit
<1>2. UNCHANGED projectVars <=> UNCHANGED Project!trustVars
  BY DEF projectVars, Project!trustVars, Project!verifyVars, Project!projectVars,
         Project!bundleVars, Project!executionVars, Project!planVars
<1>3. [PathNext]_pathVars => [Project!TrustNext]_(Project!trustVars)
  BY <1>2, PathStepsProject
<1> QED
  BY <1>1, <1>3, PTL DEF PathSpec, Project!TrustSpec

-----------------------------------------------------------------------------
(* What plan wrote leads back to the verification.                         *)
PlanReachesSource(p) ==
  LET x      == plans[p].execution
      record == records[receipts[x].run] IN
    /\ x \in Executions
    /\ receipts[x].run \in Verifications
    /\ Completed(x)
    /\ Granting(record)
    /\ receipts[x].circuit = record.source
    /\ p \notin disturbed => SignedIsa[p] \in TranspilesTo[record.source]

PathFacts ==
  /\ \A p \in Plans : Published(p) => PlanReachesSource(p)
  /\ AtMostOneJob /\ JobRunsSignedCircuit /\ ApprovalBindsSignedCircuit
  /\ ReceiptIsGoverned /\ ReceiptIsTrue

LEMMA PathInvImplies == PathInv => PathFacts
<1> SUFFICES ASSUME PathInv PROVE PathFacts
  OBVIOUS
<1>1. ASSUME NEW p \in Plans, Published(p)
      PROVE  PlanReachesSource(p)
  <2> DEFINE x == plans[p].execution
             record == records[receipts[x].run]
  <2>1. x \in Executions
    BY <1>1 DEF PathInv, Side!TrustInv, Side!TypeOKExecution, Side!QPlan, Published
  <2>2. /\ receipts[x] # None /\ receipts[x].status = "EXECUTION_COMPLETED"
        /\ record # None
        /\ record.decision \in Side!Verified /\ record.signature \in Side!Signed
        /\ p \notin disturbed => plans[p].circuit = record.source
    BY <1>1 DEF PathInv, Side!TrustInv, Side!PlanTracesToVerification, Published
  <2>3. receipts[x].circuit = record.source
    BY <2>1, <2>2 DEF PathInv, Side!TrustInv, Side!ExecutedIsVerified
  <2>4. receipts[x].run \in Verifications
    BY <2>1, <2>2
       DEF PathInv, Side!TrustInv, Side!TypeOKExecution, Side!ExecutionReceipt
  <2>5. p \notin disturbed => SignedIsa[p] \in TranspilesTo[record.source]
    BY <1>1, <2>2 DEF PathInv, MeetInv
  <2> QED
    BY <2>1, <2>2, <2>3, <2>4, <2>5
       DEF PlanReachesSource, Completed, Granting, Project!Verified, Project!Signed,
           Side!Verified, Side!Signed
<1> QED
  BY <1>1, VerifyInvImplies DEF PathFacts, PathInv

(* The same, of the state that a step leads to.                            *)
LEMMA PathInvImpliesNext == PathInv' => PathFacts'
BY PathInvImplies, PTL

LEMMA JobReaches ==
  ASSUME PathInv, NEW s \in Submissions, job[s] # None
  PROVE  ReachesSource(s)
<1> DEFINE p == approval[job[s].approval].plan
<1>1. /\ job[s].approval \in Approvals
      /\ approval[job[s].approval] # None
      /\ job[s].isa = SignedIsa[p]
  BY PathInvImplies
     DEF PathFacts, PathInv, VerifyInv, ReconcileInv, CoreInv, IInv, TypeOK, IbmJob,
         JobRunsSignedCircuit
<1>2. p \in Plans
  BY <1>1 DEF PathInv, VerifyInv, ReconcileInv, CoreInv, IInv, TypeOK, TypeOKIssuance,
              Payload
<1>3. Published(p)
  BY <1>1 DEF PathInv, MeetInv
<1> QED
  BY <1>1, <1>2, <1>3, PathInvImplies
     DEF PathFacts, PlanReachesSource, ReachesSource, Published, Completed, Granting

(* Nothing unverified runs on hardware (submission.py, behind the plan     *)
(* that planning.py made of what cli.py ran and verified).                 *)
THEOREM JobsReachSourceCorrect == PathSpec => []JobsReachSource
<1>1. PathInv => JobsReachSource
  BY JobReaches DEF JobsReachSource
<1> QED
  BY <1>1, PathInvariant, PTL

(* A chain that verify-chain accepts reaches a signed verification of the  *)
(* source it runs (verify, run, plan, approve, submit, qexec, verify-chain *)
(* together).                                                              *)
THEOREM VerifiedChainReachesSourceCorrect == PathSpec => []VerifiedChainReachesSource
<1>1. ASSUME PathInv, NEW v \in Verifiers, vpc[v] = "verified"
      PROVE  LET s == receipt[chain[v]].submission IN
               s \in Submissions /\ job[s] # None /\ jobStatus[s] = "DONE"
  <2>1. /\ chain[v] \in Reconcilers
        /\ receipt[chain[v]] # None
        /\ receipt[chain[v]].outcome = "DONE"
    BY <1>1 DEF PathInv, VerifyInv, ChainsInv
  <2> QED
    BY <1>1, <2>1, PathInvImplies
       DEF PathFacts, PathInv, VerifyInv, ReconcileInv, TypeOKReconciliation, Receipt,
           ReceiptIsGoverned, ReceiptIsTrue
<1>2. PathInv => VerifiedChainReachesSource
  BY <1>1, JobReaches DEF VerifiedChainReachesSource
<1> QED
  BY <1>2, PathInvariant, PTL

-----------------------------------------------------------------------------
(* Refinement: every step of the seven commands, of IBM and of the editor  *)
(* enters one thing in the ledger, or nothing.                             *)

Granted   == [v \in Verifications |->
                IF Granting(records[v]) THEN records[v].source ELSE None]
Simulated == [x \in Executions |->
                IF Completed(x)
                THEN [run |-> receipts[x].run, source |-> receipts[x].circuit]
                ELSE None]
Planned   == [p \in Plans |->
                IF Published(p)
                THEN [execution |-> plans[p].execution, isa |-> SignedIsa[p],
                      undisturbed |-> p \notin disturbed]
                ELSE None]
Proven    == [v \in Verifiers |-> IF vpc[v] = "verified" THEN chain[v] ELSE None]

LEMMA LedgerInit == PathInit => Ledger!Init
BY DEF PathInit, VerifyInit, ReconcileInit, Init, IssuanceInit, Project!TrustInit,
       Project!VerifyInit, Ledger!Init, Granting, Completed, Published

(* Each of the seven entries.                                              *)
LEMMA GrantStep ==
  ASSUME PathInv, PathInv', NEW v \in Verifications, NEW record \in Side!EvidenceRecord,
         records[v] = None, records' = [records EXCEPT ![v] = record],
         UNCHANGED <<Simulated, Planned, approval, job, receipt, Proven>>
  PROVE  [Ledger!Next]_(Ledger!ledger)
<1>1. /\ records \in [Verifications -> Side!EvidenceRecord \cup {None}]
      /\ records'[v] = record
      /\ record # None
      /\ \A w \in Verifications : w # v => records'[w] = records[w]
  BY PathAssumption, SideAssumptions
     DEF PathInv, Side!TrustInv, Side!TypeOKExecution, Side!TypeOKVerify,
         Side!VerificationAssumption
<1>2. CASE Granting(record)
  <2>1. record.source \in Sources
    BY <1>1, <1>2
       DEF PathInv, Side!TrustInv, Side!RecordsInv, Granting, Side!EvidenceRecord,
           Project!Verified, Side!Verified
  <2>2. Granted[v] = None /\ Granted' = [Granted EXCEPT ![v] = record.source]
    BY <1>1, <1>2 DEF Granted, Granting
  <2>3. Ledger!Grant(v, record.source)
    BY <2>2 DEF Ledger!Grant, Ledger!Enter, Granted, Simulated, Planned, Proven
  <2> QED
    BY <2>1, <2>3 DEF Ledger!Next
<1>3. CASE ~Granting(record)
  <2>1. Granted' = Granted
    BY <1>1, <1>3 DEF Granted, Granting
  <2> QED
    BY <2>1 DEF Ledger!ledger, Granted, Simulated, Planned, Proven
<1> QED
  BY <1>2, <1>3

LEMMA SimulateStep ==
  ASSUME PathInv, PathInv', NEW x \in Executions, NEW new \in Side!ExecutionReceipt,
         receipts[x] = None, receipts' = [receipts EXCEPT ![x] = new],
         UNCHANGED <<records, Planned, approval, job, receipt, Proven>>
  PROVE  [Ledger!Next]_(Ledger!ledger)
<1>1. /\ receipts \in [Executions -> Side!ExecutionReceipt \cup {None}]
      /\ receipts'[x] = new
      /\ new # None
      /\ \A y \in Executions : y # x => receipts'[y] = receipts[y]
  BY SideAssumptions
     DEF PathInv, Side!TrustInv, Side!TypeOKExecution, Side!ExecutionAssumption
<1>2. Granted' = Granted
  BY DEF Granted, Granting
<1>3. CASE new.status = "EXECUTION_COMPLETED"
  <2>1. /\ new.run \in Verifications
        /\ Granting(records[new.run])
        /\ new.circuit = records[new.run].source
    BY <1>1, <1>3
       DEF PathInv, Side!TrustInv, Side!ExecutedIsVerified, Side!ExecutionReceipt,
           Granting, Project!Verified, Side!Verified, Project!Signed, Side!Signed
  <2>2. records[new.run].source # None
    BY <2>1 DEF PathInv, Side!TrustInv, Side!RecordsInv, Granting, Project!Verified,
                Side!Verified
  <2>3. Granted[new.run] # None /\ new.circuit = Granted[new.run]
    BY <2>1, <2>2 DEF Granted
  <2>4. /\ Simulated[x] = None
        /\ Simulated' = [Simulated EXCEPT ![x] = [run    |-> new.run,
                                                  source |-> Granted[new.run]]]
    BY <1>1, <1>3, <2>3 DEF Simulated, Completed
  <2>5. Ledger!Simulate(x, new.run)
    BY <1>2, <2>3, <2>4
       DEF Ledger!Simulate, Ledger!Enter, Granted, Simulated, Planned, Proven
  <2> QED
    BY <2>1, <2>5 DEF Ledger!Next
<1>4. CASE new.status # "EXECUTION_COMPLETED"
  <2>1. Simulated' = Simulated
    BY <1>1, <1>4 DEF Simulated, Completed
  <2> QED
    BY <1>2, <2>1 DEF Ledger!ledger, Granted, Simulated, Planned, Proven
<1> QED
  BY <1>3, <1>4

LEMMA PlanStep ==
  ASSUME PathInv, PathInv', NEW p \in Plans, NEW plan \in Side!QPlan,
         plans[p] = None, plans' = [plans EXCEPT ![p] = plan],
         UNCHANGED <<records, receipts, disturbed, approval, job, receipt, Proven>>
  PROVE  [Ledger!Next]_(Ledger!ledger)
<1>1. /\ plans \in [Plans -> Side!QPlan \cup {None}]
      /\ plans'[p] = plan
      /\ plan # None
      /\ \A r \in Plans : r # p => plans'[r] = plans[r]
  BY SideAssumptions
     DEF PathInv, Side!TrustInv, Side!TypeOKExecution, Side!ExecutionAssumption
<1> DEFINE x == plan.execution
<1>2. /\ x \in Executions
      /\ receipts[x].run \in Verifications
      /\ Completed(x)
      /\ receipts[x].circuit \in Sources
      /\ p \notin disturbed => SignedIsa[p] \in TranspilesTo[receipts[x].circuit]
  <2>1. PlanReachesSource(p)'
    BY <1>1, PathInvImpliesNext DEF PathFacts, Published
  <2>2. /\ x \in Executions
        /\ receipts[x].run \in Verifications
        /\ Completed(x)
        /\ Granting(records[receipts[x].run])
        /\ receipts[x].circuit = records[receipts[x].run].source
        /\ p \notin disturbed =>
             SignedIsa[p] \in TranspilesTo[records[receipts[x].run].source]
    BY <1>1, <2>1 DEF PlanReachesSource, Completed, Granting
  <2>3. records[receipts[x].run].source \in Sources
    BY <2>2 DEF PathInv, Side!TrustInv, Side!TypeOKExecution, Side!TypeOKVerify,
                Side!RecordsInv, Side!EvidenceRecord, Granting, Project!Verified,
                Side!Verified
  <2> QED
    BY <2>2, <2>3
<1>3. UNCHANGED <<Granted, Simulated>>
  BY DEF Granted, Granting, Simulated, Completed
<1>4. /\ Simulated[x] = [run |-> receipts[x].run, source |-> receipts[x].circuit]
      /\ Simulated[x] # None
  BY <1>2, PathAssumption DEF Simulated
<1>5. PICK u \in BOOLEAN : u <=> p \notin disturbed
  BY Zenon
<1> DEFINE entry == [execution |-> x, isa |-> SignedIsa[p], undisturbed |-> u]
<1>6. Planned[p] = None /\ Planned' = [Planned EXCEPT ![p] = entry]
  BY <1>1, <1>5 DEF Planned, Published
<1>7. Ledger!Plan(p, x, SignedIsa[p], u)
  BY <1>2, <1>3, <1>4, <1>5, <1>6
     DEF Ledger!Plan, Ledger!Enter, Granted, Simulated, Planned, Proven
<1>8. SignedIsa[p] \in Circuits
  BY IssuanceAssumption
<1> QED
  BY <1>2, <1>7, <1>8 DEF Ledger!Next

LEMMA ApproveStep ==
  ASSUME PathInv, PathInv', NEW a \in Approvals,
         approval[a] = None, draft[a] # None,
         approval' = [approval EXCEPT ![a] = draft[a]],
         UNCHANGED <<records, receipts, plans, disturbed, job, receipt, Proven>>
  PROVE  [Ledger!Next]_(Ledger!ledger)
<1>1. approval'[a] = draft[a]
  BY DEF PathInv, VerifyInv, ReconcileInv, CoreInv, IInv, TypeOK, TypeOKIssuance
<1> DEFINE p == draft[a].plan
<1>2. p \in Plans /\ Published(p)
  BY DEF PathInv, VerifyInv, ReconcileInv, CoreInv, IInv, TypeOK, TypeOKIssuance,
         Payload, MeetInv
<1>3. draft[a].isa = SignedIsa[p]
  BY <1>1, PathInvImpliesNext DEF PathFacts, ApprovalBindsSignedCircuit
<1>4. UNCHANGED <<Granted, Simulated, Planned>>
  BY DEF Granted, Granting, Simulated, Completed, Planned, Published
<1>5. Planned[p] # None /\ Planned[p].isa = SignedIsa[p]
  <2>1. PlanReachesSource(p)
    BY <1>2, PathInvImplies DEF PathFacts
  <2>2. plans[p].execution \in Executions /\ SignedIsa[p] \in Circuits
    BY <1>2, <2>1, IssuanceAssumption DEF PlanReachesSource
  <2>3. \A u \in BOOLEAN :
          [execution |-> plans[p].execution, isa |-> SignedIsa[p], undisturbed |-> u]
            # None
    BY <2>2, PathAssumption
  <2> QED
    BY <1>2, <2>3 DEF Planned
<1>6. Ledger!Approve(a, p)
  BY <1>1, <1>3, <1>4, <1>5
     DEF Ledger!Approve, Ledger!Enter, Granted, Simulated, Planned, Proven
<1> QED
  BY <1>2, <1>6 DEF Ledger!Next

LEMMA RunJobStep ==
  ASSUME PathInv, PathInv', NEW s \in Submissions, NEW new,
         job[s] = None, job' = [job EXCEPT ![s] = new],
         UNCHANGED <<records, receipts, plans, disturbed, approval, receipt, Proven>>
  PROVE  [Ledger!Next]_(Ledger!ledger)
<1> USE DEF PathInv, VerifyInv, ReconcileInv, CoreInv, IInv, TypeOK
<1>1. UNCHANGED <<Granted, Simulated, Planned>>
  BY DEF Granted, Granting, Simulated, Completed, Planned, Published
<1>2. CASE new = None
  <2>1. job' = job
    BY <1>2
  <2> QED
    BY <1>1, <2>1 DEF Ledger!ledger, Granted, Simulated, Planned, Proven
<1>3. CASE new # None
  <2>1. job'[s] = new /\ \A t \in Submissions : t # s => job'[t] = job[t]
    OBVIOUS
  <2>2. new.approval \in Approvals
    BY <1>3, <2>1 DEF IbmJob
  <2>3. approval[new.approval] # None /\ new.isa = approval[new.approval].isa
    BY <1>3, <2>1, PathInvImpliesNext DEF PathFacts, JobRunsSignedCircuit
  <2>4. \A t \in Submissions : job[t] # None => job[t].approval # new.approval
    BY <1>3, <2>1, PathInvImpliesNext DEF PathFacts, AtMostOneJob
  <2>5. Ledger!RunJob(s, new.approval)
    BY <1>1, <1>3, <2>1, <2>3, <2>4
       DEF Ledger!RunJob, Ledger!Enter, Granted, Simulated, Planned, Proven
  <2> QED
    BY <2>2, <2>5 DEF Ledger!Next
<1> QED
  BY <1>2, <1>3

LEMMA AttestStep ==
  ASSUME PathInv, PathInv', NEW q \in Reconcilers, NEW new,
         receipt[q] = None, receipt' = [receipt EXCEPT ![q] = new],
         UNCHANGED <<records, receipts, plans, disturbed, approval, job, Proven>>
  PROVE  [Ledger!Next]_(Ledger!ledger)
<1>1. UNCHANGED <<Granted, Simulated, Planned>>
  BY DEF Granted, Granting, Simulated, Completed, Planned, Published
<1>2. CASE new = None
  <2>1. receipt' = receipt
    BY <1>2 DEF PathInv, VerifyInv, ReconcileInv, TypeOKReconciliation
  <2> QED
    BY <1>1, <2>1 DEF Ledger!ledger, Granted, Simulated, Planned, Proven
<1>3. CASE new # None
  <2>1. receipt'[q] = new /\ \A r \in Reconcilers : r # q => receipt'[r] = receipt[r]
    BY DEF PathInv, VerifyInv, ReconcileInv, TypeOKReconciliation
  <2>2. new \in Receipt
    BY <1>3, <2>1 DEF PathInv, VerifyInv, ReconcileInv, TypeOKReconciliation
  <2> DEFINE s == new.submission
  <2>3. /\ s \in Submissions
        /\ new.outcome \in Ledger!Outcomes
    BY <2>2 DEF Receipt, Ledger!Outcomes
  <2>4. /\ job[s] # None
        /\ InWindow(approval[job[s].approval], job[s].at)
        /\ new.outcome = "DONE" =>
             new.binds.approval = job[s].approval /\ new.binds.isa = job[s].isa
    <3> DEFINE a == job[s].approval
    <3>1. ReceiptIsGoverned'
      BY PathInvImpliesNext DEF PathFacts
    <3>2. /\ job'[s] # None
          /\ job'[s].approval = qsub'[s].approval
          /\ InWindow(approval[qsub'[s].approval], job[s].at)
          /\ new.outcome = "DONE" =>
               new.binds = [approval    |-> qsub'[s].approval,
                            isa         |-> job'[s].isa,
                            consumption |-> [status |-> "CONSUMED", owner |-> s]]
      BY <1>3, <2>1, <3>1 DEF ReceiptIsGoverned, InWindow
    <3>3. QED
      BY <3>2
  <2>5. \A r \in Reconcilers :
          receipt[r] # None /\ receipt[r].submission = s =>
            receipt[r].outcome = new.outcome
    BY <1>3, <2>1, PathInvImpliesNext DEF PathFacts, ReceiptIsTrue
  <2>6. Ledger!Attest(q, s, new.outcome)
    BY <1>1, <1>3, <2>1, <2>4, <2>5
       DEF Ledger!Attest, Ledger!Enter, Ledger!InWindow, InWindow, Granted, Simulated,
           Planned, Proven
  <2> QED
    BY <2>3, <2>6 DEF Ledger!Next
<1> QED
  BY <1>2, <1>3

LEMMA ProveStep ==
  ASSUME PathInv, NEW v \in Verifiers,
         vpc[v] = "loaded", vpc' = [vpc EXCEPT ![v] = "verified"],
         UNCHANGED <<records, receipts, plans, disturbed, approval, job, receipt, chain>>
  PROVE  [Ledger!Next]_(Ledger!ledger)
<1>1. UNCHANGED <<Granted, Simulated, Planned>>
  BY DEF Granted, Granting, Simulated, Completed, Planned, Published
<1>2. PICK q \in Reconcilers :
        /\ chain[v] = q
        /\ receipt[q] # None
        /\ receipt[q].outcome = "DONE"
  BY DEF PathInv, VerifyInv, ChainsInv
<1>3. Proven[v] = None /\ Proven' = [Proven EXCEPT ![v] = q]
  BY <1>2 DEF Proven, PathInv, VerifyInv, TypeOKVerification
<1>4. Ledger!Prove(v, q)
  BY <1>1, <1>2, <1>3
     DEF Ledger!Prove, Ledger!Enter, Granted, Simulated, Planned, Proven
<1> QED
  BY <1>4 DEF Ledger!Next

-----------------------------------------------------------------------------
LEMMA LedgerStep ==
  ASSUME PathInv, [PathNext]_pathVars
  PROVE  [Ledger!Next]_(Ledger!ledger)
<1>1. PathInv'
  BY PathStep
<1>2. CASE UNCHANGED projectVars
  <2>1. UNCHANGED <<records, receipts, plans, disturbed>>
    BY <1>2 DEF projectVars
  <2>2. VerifyInv /\ [VerifyNext]_systemVars
    BY DEF PathInv, PathNext, ProjectStep, HardwareStep, pathVars
  <2>3. UNCHANGED <<vpc, chain>> => UNCHANGED Proven
    BY DEF Proven
  <2>4. CASE /\ UNCHANGED <<approval, job, receipt>>
             /\ \A v \in Verifiers :
                  /\ vpc'[v] = "verified" <=> vpc[v] = "verified"
                  /\ vpc[v] = "verified" => chain'[v] = chain[v]
    <3>1. UNCHANGED Proven
      BY <2>4 DEF Proven
    <3>2. UNCHANGED <<Granted, Simulated, Planned>>
      BY <2>1 DEF Granted, Granting, Simulated, Completed, Planned, Published
    <3> QED
      BY <2>4, <3>1, <3>2 DEF Ledger!ledger, Granted, Simulated, Planned, Proven
  <2> QED
    BY <1>1, <2>1, <2>2, <2>3, <2>4, HardwareWrites, ApproveStep, RunJobStep,
       AttestStep, ProveStep
<1>3. CASE ProjectStep
  <2>1. UNCHANGED <<approval, job, receipt, vpc, chain>>
    BY <1>3 DEF ProjectStep, systemVars, allVars, vars, issuanceVars, submitVars,
                ibmVars, reconcileVars, verifyVars
  <2>2. UNCHANGED Proven
    BY <2>1 DEF Proven
  <2>3. UNCHANGED <<receipts>> => UNCHANGED Simulated
    BY DEF Simulated, Completed
  <2>4. UNCHANGED <<plans, disturbed>> => UNCHANGED Planned
    BY DEF Planned, Published
  <2>5. CASE /\ UNCHANGED <<records, receipts, plans>>
             /\ \A p \in Plans :
                  plans[p] # None => (p \in disturbed' <=> p \in disturbed)
    <3>1. UNCHANGED <<Granted, Simulated, Planned>>
      BY <2>5 DEF Granted, Granting, Simulated, Completed, Planned, Published
    <3> QED
      BY <2>1, <2>2, <3>1 DEF Ledger!ledger, Granted, Simulated, Planned, Proven
  <2> QED
    BY <1>1, <2>1, <2>2, <2>3, <2>4, <2>5, ProjectWrites, GrantStep, SimulateStep,
       PlanStep
<1> QED
  BY <1>2, <1>3 DEF PathNext, HardwareStep, pathVars

(* The commands, their files, IBM, crashes and edits do nothing but enter  *)
(* things in the evidence ledger, each on the entry that vouches for it.   *)
THEOREM LedgerRefinement == PathSpec => ImplementsLedger
<1>1. PathInv /\ [PathNext]_pathVars => [Ledger!Next]_(Ledger!ledger)
  BY LedgerStep
<1> QED
  BY <1>1, LedgerInit, PathInvariant, PTL
     DEF PathSpec, ImplementsLedger, Ledger!Spec
=============================================================================
