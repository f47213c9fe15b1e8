----------------------------- MODULE Reconciliation -----------------------------
(***************************************************************************)
(* `quantumd qexec`: how a finished IBM job becomes a signed execution     *)
(* receipt (src/quantumd/reconciliation.py), together with the submissions *)
(* whose records it reads (GovernedSubmission).                            *)
(*                                                                         *)
(* Each element of Reconcilers is one run of the command, with the random  *)
(* QEXEC id it would write under.  Runs share nothing but files, take no   *)
(* lock, and look for an existing receipt only once, before they ask IBM.  *)
(***************************************************************************)
EXTENDS GovernedSubmission

CONSTANT Reconcilers   \* runs of the qexec command, and their QEXEC ids

(* What the hashes under "chain" are of: approval.json, the circuit that   *)
(* submission.json binds, and consumption.json as it was when it was read. *)
Binding == [approval    : Approvals,
            isa         : Circuits,
            consumption : [status : Statuses, owner : Submissions \cup {None}]]

(* What receipt.json says: the submission, how its job ended, and, if it   *)
(* completed, what it is bound to.                                         *)
Receipt == [submission : Submissions,
            outcome    : {"DONE", "ERROR", "CANCELLED"},
            binds      : Binding \cup {None}]

ASSUME ReconciliationAssumption ==
  /\ None \notin Reconcilers
  /\ None \notin Receipt
  /\ None \notin Binding

VARIABLES
  jobStatus,   \* IBM's status of the job of a submission
  rpc,         \* where each run of the qexec command is
  target,      \* the submission a run was started for
  context,     \* the records it read, or None
  observed,    \* the job status a run works with
  artifacts,   \* files of a run's execution directory
  receipt      \* receipt.json of a QEXEC id, or None

reconcileVars == <<rpc, target, context, observed, artifacts, receipt>>
allVars       == <<vars, jobStatus, reconcileVars>>

Failed   == {"ERROR", "CANCELLED"}
Terminal == Failed \cup {"DONE"}
Files    == {"result.json", "counts.json", "job-metadata.json"}

ReconcilerActive == {"read", "matched", "clear", "fetched", "resulted",
                     "result.json", "counts.json", "job-metadata.json", "written"}

TypeOKReconciliation ==
  /\ TypeOK
  /\ jobStatus \in [Submissions -> Terminal \cup {"PENDING"}]
  /\ rpc \in [Reconcilers -> ReconcilerActive \cup
                {"idle", "exists", "pending", "attested", "denied", "crashed"}]
  /\ target \in [Reconcilers -> Submissions \cup {None}]
  /\ context \in [Reconcilers -> Binding \cup {None}]
  /\ observed \in [Reconcilers -> Terminal \cup {"PENDING"}]
  /\ artifacts \in [Reconcilers -> SUBSET Files]
  /\ receipt \in [Reconcilers -> Receipt \cup {None}]

ReconcileInit ==
  /\ Init
  /\ jobStatus = [s \in Submissions |-> "PENDING"]
  /\ rpc = [q \in Reconcilers |-> "idle"]
  /\ target = [q \in Reconcilers |-> None]
  /\ context = [q \in Reconcilers |-> None]
  /\ observed = [q \in Reconcilers |-> "PENDING"]
  /\ artifacts = [q \in Reconcilers |-> {}]
  /\ receipt = [q \in Reconcilers |-> None]

Move(q, from, to) ==
  /\ rpc[q] = from
  /\ rpc' = [rpc EXCEPT ![q] = to]

(* IBM finishes, fails or cancels a job.                                   *)
JobEnds(s) ==
  /\ job[s] # None
  /\ jobStatus[s] = "PENDING"
  /\ \E outcome \in Terminal :
       jobStatus' = [jobStatus EXCEPT ![s] = outcome]
  /\ UNCHANGED <<vars, reconcileVars>>

-----------------------------------------------------------------------------
(* _load_chain: submission.json, plan.json, approval.json and              *)
(* consumption.json are read one after the other, and must name each other.*)

(* The consumption says CONSUMED by this submission.                       *)
ConsumedBy(s) ==
  consumption[qsub[s].approval] = [status |-> "CONSUMED", owner |-> s]

(* What was read, and the receipt will bind.                               *)
Records(s) ==
  LET a == qsub[s].approval IN
    [approval |-> a, isa |-> approval[a].isa, consumption |-> consumption[a]]

(* Mutant of ReadChain: the time of the submission is not compared with    *)
(* the approval's window.                                                  *)
ReadChainAnyTime(q, s) ==
  /\ Move(q, "idle", "read")
  /\ qsub[s] # None
  /\ VerifiedPlan(approval[qsub[s].approval].plan)
  /\ ConsumedBy(s)
  /\ target' = [target EXCEPT ![q] = s]
  /\ context' = [context EXCEPT ![q] = Records(s)]
  /\ UNCHANGED <<vars, jobStatus, observed, artifacts, receipt>>

ReadChain(q, s) ==
  /\ Move(q, "idle", "read")
  /\ qsub[s] # None
  /\ VerifiedPlan(approval[qsub[s].approval].plan)
  /\ ConsumedBy(s)
  /\ InWindow(approval[qsub[s].approval], qsub[s].createdAt)
  /\ target' = [target EXCEPT ![q] = s]
  /\ context' = [context EXCEPT ![q] = Records(s)]
  /\ UNCHANGED <<vars, jobStatus, observed, artifacts, receipt>>

(* The artifacts are hashed against the plan and the submission's binding. *)
MatchArtifacts(q) ==
  LET p == approval[context[q].approval].plan IN
  /\ Move(q, "read", "matched")
  /\ VerifiedArtifact(p)
  /\ context[q].isa = isaFile[p]
  /\ UNCHANGED <<vars, jobStatus, target, context, observed, artifacts, receipt>>

(* Receipts on disk for a submission; also how verify-chain finds one.     *)
ReceiptsOf(s) ==
  {q \in Reconcilers : receipt[q] # None /\ receipt[q].submission = s}

(* _find_existing_receipt, the only look: a receipt found ends the run.    *)
FindExisting(q) ==
  /\ IF ReceiptsOf(target[q]) = {}
     THEN Move(q, "matched", "clear")
     ELSE Move(q, "matched", "exists")
  /\ UNCHANGED <<vars, jobStatus, target, context, observed, artifacts, receipt>>

-----------------------------------------------------------------------------
(* The job, its status and its result.                                     *)

(* service.job: the job of this submission, and its status now.            *)
FetchJob(q) ==
  /\ Move(q, "clear", "fetched")
  /\ job[target[q]] # None
  /\ observed' = [observed EXCEPT ![q] = jobStatus[target[q]]]
  /\ UNCHANGED <<vars, jobStatus, target, context, artifacts, receipt>>

(* Not terminal and no --wait: the run returns.                            *)
ReturnPending(q) ==
  /\ Move(q, "fetched", "pending")
  /\ observed[q] = "PENDING"
  /\ UNCHANGED <<vars, jobStatus, target, context, observed, artifacts, receipt>>

(* Mutant of TakeResult: a wait that ends without a result is not told     *)
(* from one that ends with it.                                             *)
TakeResultUnchecked(q) ==
  /\ Move(q, "fetched", "resulted")
  /\ observed[q] \notin Failed
  /\ observed' = [observed EXCEPT ![q] = "DONE"]
  /\ UNCHANGED <<vars, jobStatus, target, context, artifacts, receipt>>

(* job.result: returns for a job that is DONE, perhaps after --wait; the   *)
(* status is read again.  For any other end, and at the timeout, it raises.*)
TakeResult(q) ==
  /\ Move(q, "fetched", "resulted")
  /\ observed[q] \notin Failed
  /\ jobStatus[target[q]] = "DONE"
  /\ observed' = [observed EXCEPT ![q] = "DONE"]
  /\ UNCHANGED <<vars, jobStatus, target, context, artifacts, receipt>>

(* Mutant of WriteFailureReceipt: any job that is not DONE has failed.     *)
WriteFailureReceiptEarly(q) ==
  /\ Move(q, "fetched", "written")
  /\ observed[q] # "DONE"
  /\ receipt' = [receipt EXCEPT ![q] = [submission |-> target[q],
                                        outcome |-> observed[q],
                                        binds |-> None]]
  /\ UNCHANGED <<vars, jobStatus, target, context, observed, artifacts>>

(* A job that was ERROR or CANCELLED gets a receipt without results.       *)
WriteFailureReceipt(q) ==
  /\ Move(q, "fetched", "written")
  /\ observed[q] \in Failed
  /\ receipt' = [receipt EXCEPT ![q] = [submission |-> target[q],
                                        outcome |-> observed[q],
                                        binds |-> None]]
  /\ UNCHANGED <<vars, jobStatus, target, context, observed, artifacts>>

-----------------------------------------------------------------------------
(* The execution directory: three files, then the receipt that hashes them.*)

(* The result, its counts and the job's metadata, one after the other, each*)
(* renamed into place.                                                     *)
WriteArtifact(q, from, file) ==
  /\ Move(q, from, file)
  /\ artifacts' = [artifacts EXCEPT ![q] = @ \cup {file}]
  /\ UNCHANGED <<vars, jobStatus, target, context, observed, receipt>>

WriteArtifacts(q) ==
  \/ WriteArtifact(q, "resulted", "result.json")
  \/ WriteArtifact(q, "result.json", "counts.json")
  \/ WriteArtifact(q, "counts.json", "job-metadata.json")

(* Mutant of WriteReceipt: it is written ahead of the job's metadata.      *)
WriteReceiptEarly(q) ==
  /\ Move(q, "counts.json", "written")
  /\ receipt' = [receipt EXCEPT ![q] = [submission |-> target[q],
                                        outcome |-> observed[q],
                                        binds |-> context[q]]]
  /\ UNCHANGED <<vars, jobStatus, target, context, observed, artifacts>>

(* receipt.json, attested by KMS, renamed into place.                      *)
WriteReceipt(q) ==
  /\ Move(q, "job-metadata.json", "written")
  /\ receipt' = [receipt EXCEPT ![q] = [submission |-> target[q],
                                        outcome |-> observed[q],
                                        binds |-> context[q]]]
  /\ UNCHANGED <<vars, jobStatus, target, context, observed, artifacts>>

ReportReceipt(q) ==
  /\ Move(q, "written", "attested")
  /\ UNCHANGED <<vars, jobStatus, target, context, observed, artifacts, receipt>>

(* except Exception: a check, KMS, IBM, the timeout, a write or a print.   *)
(* Nothing already written is removed.                                     *)
DenyReconciliation(q) ==
  /\ rpc[q] \in {"idle"} \cup ReconcilerActive
  /\ rpc' = [rpc EXCEPT ![q] = "denied"]
  /\ UNCHANGED <<vars, jobStatus, target, context, observed, artifacts, receipt>>

CrashReconciliation(q) ==
  /\ rpc[q] \in ReconcilerActive
  /\ rpc' = [rpc EXCEPT ![q] = "crashed"]
  /\ UNCHANGED <<vars, jobStatus, target, context, observed, artifacts, receipt>>

-----------------------------------------------------------------------------
Reconcile(q) ==
  \/ \E s \in Submissions : ReadChain(q, s)
  \/ MatchArtifacts(q) \/ FindExisting(q)
  \/ FetchJob(q) \/ ReturnPending(q) \/ TakeResult(q) \/ WriteFailureReceipt(q)
  \/ WriteArtifacts(q) \/ WriteReceipt(q) \/ ReportReceipt(q)
  \/ DenyReconciliation(q) \/ CrashReconciliation(q)

ReconcileNext ==
  \/ Next /\ UNCHANGED <<jobStatus, reconcileVars>>
  \/ \E s \in Submissions : JobEnds(s)
  \/ \E q \in Reconcilers : Reconcile(q)

ReconcileSpec == ReconcileInit /\ [][ReconcileNext]_allVars

-----------------------------------------------------------------------------
(* Every receipt stands on the whole governed path, even if it was written *)
(* long after the records it read changed: the submission has its record   *)
(* and an IBM job, the approval is owned by this very submission and was   *)
(* CONSUMED (perhaps overwritten as uncertain since, never released), IBM  *)
(* took the job inside the approval's window - which a job without a       *)
(* receipt need not be - and a completed receipt binds that approval, the  *)
(* circuit IBM ran and the CONSUMED record (reconciliation.py,             *)
(* _load_chain, qexec_command).                                            *)
ReceiptIsGoverned ==
  \A q \in Reconcilers :
    receipt[q] # None =>
      LET s == receipt[q].submission
          a == qsub[s].approval IN
        /\ qsub[s] # None
        /\ job[s] # None
        /\ job[s].approval = a
        /\ job[s].isa = SignedIsa[approval[a].plan]
        /\ InWindow(approval[a], job[s].at)
        /\ consumption[a].owner = s
        /\ consumption[a].status \in {"CONSUMED", "SUBMISSION_UNCERTAIN"}
        /\ receipt[q].outcome = "DONE" =>
             receipt[q].binds =
               [approval    |-> a,
                isa         |-> job[s].isa,
                consumption |-> [status |-> "CONSUMED", owner |-> s]]

(* A receipt says how the job really ended, although runs wait, time out,  *)
(* race and read the status at different times: completed receipts only of *)
(* DONE jobs, with all three artifacts on disk, and so never two receipts  *)
(* that disagree about one job (reconciliation.py, qexec_command).         *)
ReceiptIsTrue ==
  \A q \in Reconcilers :
    receipt[q] # None =>
      /\ receipt[q].outcome = jobStatus[receipt[q].submission]
      /\ receipt[q].outcome = "DONE" <=> artifacts[q] = Files

(* chain.py:360 - "Expected one QEXEC for {submission_id}": a submission   *)
(* that was reconciled has one receipt.                                    *)
OneReceiptPerSubmission ==
  \A s \in Submissions : Cardinality(ReceiptsOf(s)) <= 1
=============================================================================
