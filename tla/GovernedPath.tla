----------------------------- MODULE GovernedPath -----------------------------
(***************************************************************************)
(* The whole governed path, with nothing given: verify, run and plan on    *)
(* one side (TrustedExecution), approve, submit, IBM, qexec and            *)
(* verify-chain on the other (ChainVerification), any number of runs of    *)
(* each at once.  The two sides meet in evidence/plans: what plan renames  *)
(* into place there is what approve reads.  Before that the plan has no    *)
(* directory, so nobody edits it and nobody approves it.                   *)
(*                                                                         *)
(* ChainVerification has the circuit that a plan signs as a constant.  It  *)
(* is so here too: what the transpiler will have answered, which no step   *)
(* looks at before the plan is published.                                  *)
(***************************************************************************)
EXTENDS ChainVerification

CONSTANTS
  Verifications, Sources, Sound, Manifests, Classical, Executions,
  TranspilesTo \* [Sources -> SUBSET Circuits]: what the circuit that a source
               \* builds may be transpiled to

VARIABLES
  sourceFile, manifestFile, gate, manifestHash, sourceHash, decision, records,
  xpc, run, where, snapshot, simulated, qpy, receipts,
  ppc, upstream, loaded, plans, disturbed

Project == INSTANCE TrustedExecution WITH
  vpc <- gate, target <- where, circuit <- simulated

ASSUME PathAssumption ==
  /\ TranspilesTo \in [Sources -> SUBSET Circuits]
  /\ Sound \subseteq Sources
  /\ Classical \subseteq Manifests
  /\ None \notin Sources \cup Manifests \cup Verifications \cup Project!Decisions
  /\ None \notin Project!EvidenceRecord
  /\ None \notin Executions
  /\ None \notin Project!ExecutionReceipt
  /\ None \notin Project!QPlan
  /\ None \notin [run : Verifications, source : Sources]
  /\ None \notin [execution : Executions, isa : Circuits, undisturbed : BOOLEAN]

projectVars == <<sourceFile, manifestFile, gate, manifestHash, sourceHash,
                 decision, records, xpc, run, where, snapshot, simulated, qpy,
                 receipts, ppc, upstream, loaded, plans, disturbed>>
pathVars    == <<systemVars, projectVars>>

PathInit == VerifyInit /\ Project!TrustInit

Published(p) == plans[p] # None

(* verify, run, plan.  A plan is published with the transpiler's answer    *)
(* for the circuit it loaded.                                              *)
ProjectStep ==
  /\ Project!TrustNext
  /\ \A p \in Plans :
       plans'[p] # plans[p] =>
         SignedIsa[p] \in TranspilesTo[plans'[p].circuit]
  /\ UNCHANGED systemVars

(* approve, submit, IBM, qexec, verify-chain, and who edits what plan      *)
(* published.                                                              *)
HardwareStep ==
  /\ VerifyNext
  /\ \A p \in Plans :
       ~Published(p) => planFile'[p] = planFile[p] /\ isaFile'[p] = isaFile[p]
  /\ \A a \in Approvals : draft'[a] # None => Published(draft'[a].plan)
  /\ UNCHANGED projectVars

PathNext == ProjectStep \/ HardwareStep

PathSpec == PathInit /\ [][PathNext]_pathVars

-----------------------------------------------------------------------------
(* What a job on hardware stands on: its approval's plan is of an          *)
(* execution that completed under a signed verification, of the source     *)
(* which that verification granted; and the job's circuit is what that     *)
(* source transpiles to, unless the execution's circuit file was edited    *)
(* while plan read it.                                                     *)
ReachesSource(s) ==
  LET p      == approval[job[s].approval].plan
      x      == plans[p].execution
      record == records[receipts[x].run] IN
    /\ plans[p] # None
    /\ receipts[x] # None
    /\ receipts[x].status = "EXECUTION_COMPLETED"
    /\ record # None
    /\ record.decision \in Project!Verified
    /\ record.signature \in Project!Signed
    /\ receipts[x].circuit = record.source
    /\ p \notin disturbed => job[s].isa \in TranspilesTo[record.source]

(* Nothing unverified runs on hardware, whatever the path that led there   *)
(* was edited, raced, retried or killed, and although submit looks no      *)
(* further back than the plan (submission.py, local_preflight).            *)
JobsReachSource ==
  \A s \in Submissions : job[s] # None => ReachesSource(s)

(* A chain that verify-chain accepts leads all the way back from the job   *)
(* that IBM finished, although verify-chain, too, looks no further back    *)
(* than the plan (chain.py, _verify_ibm_chain).                            *)
VerifiedChainReachesSource ==
  \A v \in Verifiers :
    vpc[v] = "verified" =>
      LET s == receipt[chain[v]].submission IN
        /\ job[s] # None
        /\ jobStatus[s] = "DONE"
        /\ ReachesSource(s)

-----------------------------------------------------------------------------
(* Refinement: what each file says of the ledger.                          *)

Granting(record) ==
  /\ record # None
  /\ record.decision \in Project!Verified
  /\ record.signature \in Project!Signed

Completed(x) ==
  /\ receipts[x] # None
  /\ receipts[x].status = "EXECUTION_COMPLETED"

Ledger == INSTANCE EvidenceLedger WITH
  granted   <- [v \in Verifications |->
                  IF Granting(records[v]) THEN records[v].source ELSE None],
  simulated <- [x \in Executions |->
                  IF Completed(x)
                  THEN [run |-> receipts[x].run, source |-> receipts[x].circuit]
                  ELSE None],
  planned   <- [p \in Plans |->
                  IF Published(p)
                  THEN [execution |-> plans[p].execution, isa |-> SignedIsa[p],
                        undisturbed |-> p \notin disturbed]
                  ELSE None],
  approved  <- approval,
  ran       <- job,
  attested  <- receipt,
  proven    <- [v \in Verifiers |->
                  IF vpc[v] = "verified" THEN chain[v] ELSE None]

(* The seven commands, their files, IBM, crashes and edits together do     *)
(* nothing but add to the ledger, an entry at a time, each on top of the   *)
(* entry that vouches for it.                                              *)
ImplementsLedger == Ledger!Spec
=============================================================================
