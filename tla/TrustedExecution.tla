--------------------------- MODULE TrustedExecution ---------------------------
(***************************************************************************)
(* `quantumd run`: a verified project is executed on the simulator and     *)
(* receipted (src/quantumd/cli.py, execution/), and `quantumd plan`, which *)
(* makes a signed hardware plan of such a receipt (ibm/planning.py).       *)
(*                                                                         *)
(* Each element of Executions is one run of the command, with its own      *)
(* QEXEC id, of Plans one run of plan.  Any number of them run at once     *)
(* with verifications and edits of the project; they meet in the evidence  *)
(* directory, whose records and receipts are created O_EXCL.               *)
(***************************************************************************)
EXTENDS Verification

CONSTANTS
  Executions, \* runs of the run command, and their QEXEC ids
  Plans       \* runs of the plan command, and their QPLAN ids

Targets == {"aer-simulator", "ibm"}

LocalSimulationDecisions == {"VERIFIED_FOR_EXECUTION", "VERIFIED_EDUCATIONAL_ONLY"}
QpuDecisions             == {"VERIFIED_FOR_EXECUTION"}

Outcomes == {"EXECUTION_COMPLETED", "EXECUTION_FAILED", "EXECUTION_DENIED_PRECHECK"}

(* receipt.json; attested is FALSE where the status ends in                *)
(* _ATTESTATION_FAILED.  It has the hashes that the record has of the      *)
(* project, and that of the circuit that ran.                              *)
ExecutionReceipt == [run       : Verifications,
                     status    : Outcomes,
                     attested  : BOOLEAN,
                     signature : Signatures,
                     manifest  : Manifests \cup {None},
                     source    : Sources \cup {None},
                     circuit   : Sources \cup {None}]

(* plan.json: the source it names, and the circuits behind the two files   *)
(* beside it, the copied logical one and the transpiled one.               *)
QPlan == [execution : Executions, source : Sources,
          logical   : Sources,    circuit : Sources]

ASSUME ExecutionAssumption ==
  /\ None \notin Executions
  /\ None \notin ExecutionReceipt
  /\ None \notin QPlan

VARIABLES
  xpc,      \* where each run of the run command is
  run,      \* the verification it was started for
  target,   \* its --target
  snapshot, \* its private copy of the project's files
  circuit,  \* the circuit it ran, named by the source that builds it
  qpy,      \* its logical-circuit.qpy: the file as it is now
  receipts, \* receipt.json of a run, or None
  ppc,      \* where each run of the plan command is
  upstream, \* the execution it plans from
  loaded,   \* the logical circuit in its memory
  plans,    \* plan.json of a plan, or None
  disturbed \* history: the plans whose execution's circuit file was edited
            \* after they hashed it and before they were done with it

executionVars == <<xpc, run, target, snapshot, circuit, qpy, receipts>>
planVars      == <<ppc, upstream, loaded, plans, disturbed>>
trustVars     == <<verifyVars, executionVars, planVars>>

Prechecks == {"resolved", "copied", "authorized", "identified"}
Running   == {"permitted", "executed"}
Planning  == {"selected", "loaded"}

TypeOKExecution ==
  /\ TypeOKVerify
  /\ xpc \in [Executions -> {"idle", "finished"}
                              \cup Prechecks \cup Running \cup {"reported"}]
  /\ run \in [Executions -> Verifications \cup {None}]
  /\ target \in [Executions -> Targets]
  /\ snapshot \in [Executions -> [manifest : Manifests \cup {None},
                                  source   : Sources \cup {None}]]
  /\ circuit \in [Executions -> Sources \cup {None}]
  /\ qpy \in [Executions -> Sources \cup {None}]
  /\ receipts \in [Executions -> ExecutionReceipt \cup {None}]
  /\ ppc \in [Plans -> Planning \cup {"idle", "planned", "refused"}]
  /\ upstream \in [Plans -> Executions \cup {None}]
  /\ loaded \in [Plans -> Sources \cup {None}]
  /\ plans \in [Plans -> QPlan \cup {None}]
  /\ disturbed \subseteq Plans

TrustInit ==
  /\ VerifyInit
  /\ xpc = [x \in Executions |-> "idle"]
  /\ run = [x \in Executions |-> None]
  /\ target \in [Executions -> Targets]
  /\ snapshot = [x \in Executions |-> [manifest |-> None, source |-> None]]
  /\ circuit = [x \in Executions |-> None]
  /\ qpy = [x \in Executions |-> None]
  /\ receipts = [x \in Executions |-> None]
  /\ ppc = [p \in Plans |-> "idle"]
  /\ upstream = [p \in Plans |-> None]
  /\ loaded = [p \in Plans |-> None]
  /\ plans = [p \in Plans |-> None]
  /\ disturbed = {}

At(x, from, to) ==
  /\ xpc[x] = from
  /\ xpc' = [xpc EXCEPT ![x] = to]

-----------------------------------------------------------------------------
(* run: a record is named by --evidence-run, or by --latest: any one.      *)
ResolveRun(x, v) ==
  /\ records[v] # None
  /\ At(x, "idle", "resolved")
  /\ run' = [run EXCEPT ![x] = v]
  /\ UNCHANGED <<verifyVars, target, snapshot, circuit, qpy, receipts, planVars>>

(* ReadOnlySnapshot copies the files one by one, in no order of its own,   *)
(* while they may be edited.                                               *)
CopyManifest(x) ==
  /\ xpc[x] = "resolved"
  /\ snapshot[x].manifest = None
  /\ snapshot' = [snapshot EXCEPT ![x].manifest = manifestFile]
  /\ UNCHANGED <<verifyVars, xpc, run, target, circuit, qpy, receipts, planVars>>

CopySource(x) ==
  /\ xpc[x] = "resolved"
  /\ snapshot[x].source = None
  /\ snapshot' = [snapshot EXCEPT ![x].source = sourceFile]
  /\ UNCHANGED <<verifyVars, xpc, run, target, circuit, qpy, receipts, planVars>>

Copied(x) ==
  /\ At(x, "resolved", "copied")
  /\ snapshot[x].manifest # None
  /\ snapshot[x].source # None
  /\ UNCHANGED <<verifyVars, run, target, snapshot, circuit, qpy, receipts, planVars>>

(* AuthorizationEngine.authorize: the signature verifies, the local        *)
(* identity is for the simulator only, and the decision allows the target. *)
Authorized(record, where) ==
  /\ record.signature \in Signed
  /\ record.signature = "LOCAL_DEVELOPMENT_SIGNED" => where = "aer-simulator"
  /\ where = "aer-simulator" => record.decision \in LocalSimulationDecisions
  /\ where = "ibm" => record.decision \in QpuDecisions

Authorize(x) ==
  /\ At(x, "copied", "authorized")
  /\ Authorized(records[run[x]], target[x])
  /\ UNCHANGED <<verifyVars, run, target, snapshot, circuit, qpy, receipts, planVars>>

(* Mutant of CheckSnapshot: the project is hashed instead of its copy.     *)
CheckProject(x) ==
  /\ At(x, "authorized", "identified")
  /\ manifestFile = records[run[x]].manifest
  /\ sourceFile = records[run[x]].source
  /\ UNCHANGED <<verifyVars, run, target, snapshot, circuit, qpy, receipts, planVars>>

(* The copy is what was verified.                                          *)
CheckSnapshot(x) ==
  /\ At(x, "authorized", "identified")
  /\ snapshot[x].manifest = records[run[x]].manifest
  /\ snapshot[x].source = records[run[x]].source
  /\ UNCHANGED <<verifyVars, run, target, snapshot, circuit, qpy, receipts, planVars>>

(* The copied manifest permits the target and the shots.                   *)
CheckPolicy(x) ==
  /\ At(x, "identified", "permitted")
  /\ UNCHANGED <<verifyVars, run, target, snapshot, circuit, qpy, receipts, planVars>>

(* The sandbox builds the circuit from the copy and Aer runs it; it is     *)
(* dumped in a file, and the file hashed.                                  *)
Execute(x) ==
  /\ At(x, "permitted", "executed")
  /\ circuit' = [circuit EXCEPT ![x] = snapshot[x].source]
  /\ qpy' = [qpy EXCEPT ![x] = snapshot[x].source]
  /\ UNCHANGED <<verifyVars, run, target, snapshot, receipts, planVars>>

(* Someone edits that file: unlike the receipt, it may be written to.      *)
EditCircuit(x, c) ==
  /\ qpy[x] \notin {None, c}
  /\ qpy' = [qpy EXCEPT ![x] = c]
  /\ disturbed' = disturbed \cup
                    {p \in Plans : ppc[p] \in Planning /\ upstream[p] = x}
  /\ UNCHANGED <<verifyVars, xpc, run, target, snapshot, circuit, receipts,
                 ppc, upstream, loaded, plans>>

-----------------------------------------------------------------------------
(* _finalize: the key answers, and unless it signed - or no key is         *)
(* configured and --allow-unsigned-receipt was given - the status says so. *)
Attestations ==
  [signature : Signed, attested : {TRUE}]
    \cup [signature : Signatures \ Signed, attested : {FALSE}]
    \cup [signature : NoSignature, attested : {TRUE}]

Receipt(x, status, attestation) ==
  [run       |-> run[x],
   status    |-> status,
   attested  |-> attestation.attested,
   signature |-> attestation.signature,
   manifest  |-> IF circuit[x] = None THEN None ELSE records[run[x]].manifest,
   source    |-> IF circuit[x] = None THEN None ELSE records[run[x]].source,
   circuit   |-> circuit[x]]

(* Mutant of WriteReceipt: an existing receipt is overwritten.             *)
OverwriteReceipt(x, status) ==
  \E attestation \in Attestations :
    receipts' = [receipts EXCEPT ![x] = Receipt(x, status, attestation)]

(* receipt.json is created only if it is absent.                           *)
WriteReceipt(x, status) ==
  /\ receipts[x] = None
  /\ \E attestation \in Attestations :
       receipts' = [receipts EXCEPT ![x] = Receipt(x, status, attestation)]

DenyExecution(x) ==
  /\ xpc[x] \in Prechecks \ {"resolved"}
  /\ xpc' = [xpc EXCEPT ![x] = "finished"]
  /\ WriteReceipt(x, "EXECUTION_DENIED_PRECHECK")
  /\ UNCHANGED <<verifyVars, run, target, snapshot, circuit, qpy, planVars>>

RecordSuccess(x) ==
  /\ At(x, "executed", "reported")
  /\ WriteReceipt(x, "EXECUTION_COMPLETED")
  /\ UNCHANGED <<verifyVars, run, target, snapshot, circuit, qpy, planVars>>

(* except Exception: the sandbox, Aer, a file or a print raises, and the   *)
(* failure is receipted ...                                                *)
RecordFailure(x) ==
  /\ xpc[x] \in Running \cup {"reported"}
  /\ xpc' = [xpc EXCEPT ![x] = "finished"]
  /\ WriteReceipt(x, "EXECUTION_FAILED")
  /\ UNCHANGED <<verifyVars, run, target, snapshot, circuit, qpy, planVars>>

(* ... unless the receipt is already there, or cannot be written; or the   *)
(* command ends well, or is killed.                                        *)
FinishExecution(x) ==
  /\ xpc[x] \in Prechecks \cup Running \cup {"reported"}
  /\ xpc' = [xpc EXCEPT ![x] = "finished"]
  /\ UNCHANGED <<verifyVars, run, target, snapshot, circuit, qpy, receipts, planVars>>

-----------------------------------------------------------------------------
(* plan.                                                                   *)

(* Mutant of Trusted: a signed receipt is taken for a completed one.       *)
TrustedBySignature(receipt) ==
  /\ receipt # None
  /\ receipt.signature = "KMS_SIGNED"

(* What _latest_trusted_execution takes: a receipt that says COMPLETED and *)
(* KMS_SIGNED of itself, and has the hash of a circuit.                    *)
Trusted(receipt) ==
  /\ receipt # None
  /\ receipt.status = "EXECUTION_COMPLETED"
  /\ receipt.attested
  /\ receipt.signature = "KMS_SIGNED"
  /\ receipt.circuit # None

(* Mutant of SelectExecution: the file is there, and is not hashed.        *)
SelectUnhashed(p, x) ==
  /\ ppc[p] = "idle"
  /\ Trusted(receipts[x])
  /\ qpy[x] # None
  /\ ppc' = [ppc EXCEPT ![p] = "selected"]
  /\ upstream' = [upstream EXCEPT ![p] = x]
  /\ UNCHANGED <<verifyVars, executionVars, loaded, plans, disturbed>>

(* The newest trusted one beside which the circuit it names lies; times    *)
(* are not modelled, so any one.                                           *)
SelectExecution(p, x) ==
  /\ ppc[p] = "idle"
  /\ Trusted(receipts[x])
  /\ qpy[x] = receipts[x].circuit
  /\ ppc' = [ppc EXCEPT ![p] = "selected"]
  /\ upstream' = [upstream EXCEPT ![p] = x]
  /\ UNCHANGED <<verifyVars, executionVars, loaded, plans, disturbed>>

(* _load_single_qpy opens the file again, for the circuit to transpile.    *)
LoadLogical(p) ==
  /\ ppc[p] = "selected"
  /\ ppc' = [ppc EXCEPT ![p] = "loaded"]
  /\ loaded' = [loaded EXCEPT ![p] = qpy[upstream[p]]]
  /\ UNCHANGED <<verifyVars, executionVars, upstream, plans, disturbed>>

(* Transpiled for the backend; the file is copied, which opens it a third  *)
(* time; all is hashed as it is now, signed in a directory of its own, and *)
(* renamed into place.                                                     *)
PublishPlan(p) ==
  /\ ppc[p] = "loaded"
  /\ ppc' = [ppc EXCEPT ![p] = "planned"]
  /\ plans' = [plans EXCEPT ![p] =
                 [execution |-> upstream[p],
                  source    |-> receipts[upstream[p]].source,
                  logical   |-> qpy[upstream[p]],
                  circuit   |-> loaded[p]]]
  /\ UNCHANGED <<verifyVars, executionVars, upstream, loaded, disturbed>>

(* Anything raises, or the process is killed: no plan.                     *)
RefusePlan(p) ==
  /\ ppc[p] \in Planning \cup {"idle"}
  /\ ppc' = [ppc EXCEPT ![p] = "refused"]
  /\ UNCHANGED <<verifyVars, executionVars, upstream, loaded, plans, disturbed>>

-----------------------------------------------------------------------------
Run(x) ==
  \/ \E v \in Verifications : ResolveRun(x, v)
  \/ CopyManifest(x) \/ CopySource(x) \/ Copied(x)
  \/ Authorize(x) \/ CheckSnapshot(x) \/ CheckPolicy(x) \/ Execute(x)
  \/ DenyExecution(x) \/ RecordSuccess(x) \/ RecordFailure(x)
  \/ FinishExecution(x)

Plan(p) ==
  \/ \E x \in Executions : SelectExecution(p, x)
  \/ LoadLogical(p) \/ PublishPlan(p) \/ RefusePlan(p)

TrustNext ==
  \/ VerifyNext /\ UNCHANGED <<executionVars, planVars>>
  \/ \E x \in Executions : Run(x) \/ \E c \in Sources : EditCircuit(x, c)
  \/ \E p \in Plans : Plan(p)

TrustSpec == TrustInit /\ [][TrustNext]_trustVars

-----------------------------------------------------------------------------
(* A completed receipt is of the circuit its verification record names,    *)
(* under a signed record whose decision allows the target, although the    *)
(* project may be edited between verify and run, and while run copies it   *)
(* (authorization.py, snapshot.py).                                        *)
ExecutedIsVerified ==
  \A x \in Executions :
    receipts[x] # None /\ receipts[x].status = "EXECUTION_COMPLETED" =>
      LET record == records[receipts[x].run] IN
        /\ record # None
        /\ record.signature \in Signed
        /\ record.decision \in Verified
        /\ target[x] = "ibm" => /\ record.signature = "KMS_SIGNED"
                                /\ record.decision = "VERIFIED_FOR_EXECUTION"
        /\ receipts[x].circuit = record.source
        /\ receipts[x].source = record.source
        /\ receipts[x].manifest = record.manifest

(* A receipt is never rewritten: a failure after the success receipt, or   *)
(* after a denial, cannot replace it (receipt.py, O_EXCL; cli.py, the      *)
(* handler that tries to).                                                 *)
ReceiptsAreFinal ==
  [][\A x \in Executions :
       receipts[x] # None => receipts'[x] = receipts[x]]_trustVars

(* A hardware plan is of an execution that completed under a signed        *)
(* verification record of the very source the plan names.  Both circuits   *)
(* in it are the one that ran, unless the execution's file was edited      *)
(* between the moment plan hashed it and the moment plan copied it: plan   *)
(* opens the file three times and compares its hash once (planning.py).    *)
PlanTracesToVerification ==
  \A p \in Plans :
    plans[p] # None =>
      LET receipt == receipts[plans[p].execution]
          record  == records[receipt.run] IN
        /\ receipt # None
        /\ receipt.status = "EXECUTION_COMPLETED"
        /\ record # None
        /\ record.decision \in Verified
        /\ record.signature \in Signed
        /\ plans[p].source = record.source
        /\ p \notin disturbed => /\ plans[p].logical = record.source
                                 /\ plans[p].circuit = record.source

-----------------------------------------------------------------------------
(* What the program says of itself, and the model refutes.                 *)

PlannedUnder(p) == records[receipts[plans[p].execution].run]

(* README.md:215 - "A local-development identity can authorize Aer         *)
(* simulation only. It cannot silently become hardware authority."         *)
LocalStaysOffHardware ==
  \A p \in Plans :
    plans[p] # None => PlannedUnder(p).signature # "LOCAL_DEVELOPMENT_SIGNED"
=============================================================================
