--------------------------- MODULE ChainVerification ---------------------------
(***************************************************************************)
(* `quantumd verify-chain` for an IBM execution (src/quantumd/chain.py),   *)
(* over everything the other commands write (Reconciliation): an offline   *)
(* reader that trusts only the files, the signatures in them and the       *)
(* public key that approve left beside approval.json.                      *)
(*                                                                         *)
(* Each element of Verifiers is one run.  It reads the five records, and   *)
(* later the key and the artifacts they hash; the other commands and the   *)
(* editor of the project directory go on in between.                       *)
(***************************************************************************)
EXTENDS Reconciliation

CONSTANT Verifiers     \* runs of the verify-chain command

VARIABLES
  vpc,         \* where each run of verify-chain is
  chain        \* the QEXEC id whose records a run holds, or None

verifyVars == <<vpc, chain>>
systemVars == <<allVars, verifyVars>>

TypeOKVerification ==
  /\ TypeOKReconciliation
  /\ vpc \in [Verifiers -> {"idle", "loaded", "verified", "refused"}]
  /\ chain \in [Verifiers -> Reconcilers \cup {None}]

VerifyInit ==
  /\ ReconcileInit
  /\ vpc = [v \in Verifiers |-> "idle"]
  /\ chain = [v \in Verifiers |-> None]

(* The checks, as chain.py has them: written apart from those of submit    *)
(* and of qexec, and starting from what the receipt says, not from the     *)
(* submission.                                                             *)

(* _load_ibm_chain and the comparisons of what it read: receipt, plan,     *)
(* approval, consumption and submission are signed, complete, CONSUMED and *)
(* EXECUTION_COMPLETED, and name and hash each other.                      *)
RecordsAgree(q) ==
  /\ receipt[q] # None
  /\ receipt[q].outcome = "DONE"
  /\ LET s == receipt[q].submission
         a == receipt[q].binds.approval IN
       /\ qsub[s] # None /\ approval[a] # None
       /\ planFile[approval[a].plan] = "intact"
       /\ qsub[s].approval = a
       /\ consumption[a].status = "CONSUMED"
       /\ consumption[a].owner = s
       /\ consumption[a] = receipt[q].binds.consumption

(* Mutant of ArtifactsAgree: a submission in the first moment of the       *)
(* window is refused.                                                      *)
ArtifactsAgreeStrictly(q) ==
  LET s == receipt[q].submission
      a == receipt[q].binds.approval
      p == approval[a].plan IN
  /\ a \in keyFile
  /\ isaFile[p] = SignedIsa[p]
  /\ isaFile[p] = approval[a].isa
  /\ isaFile[p] = receipt[q].binds.isa
  /\ artifacts[q] = Files
  /\ approval[a].notBefore < qsub[s].createdAt
  /\ qsub[s].createdAt < approval[a].expiresAt

(* The public key is there; the ISA circuit on disk has the hash that the  *)
(* plan, the approval and the receipt declare; the execution's three files *)
(* are there; and the submission was inside the approval's window.         *)
ArtifactsAgree(q) ==
  LET s == receipt[q].submission
      a == receipt[q].binds.approval
      p == approval[a].plan IN
  /\ a \in keyFile
  /\ isaFile[p] = SignedIsa[p]
  /\ isaFile[p] = approval[a].isa
  /\ isaFile[p] = receipt[q].binds.isa
  /\ artifacts[q] = Files
  /\ approval[a].notBefore <= qsub[s].createdAt
  /\ qsub[s].createdAt < approval[a].expiresAt

(* A receipt is chosen by its id, as the latest, or as the only receipt of *)
(* its submission; the records are read.                                   *)
LoadIbmChain(v, q) ==
  /\ vpc[v] = "idle"
  /\ RecordsAgree(q)
  /\ vpc' = [vpc EXCEPT ![v] = "loaded"]
  /\ chain' = [chain EXCEPT ![v] = q]
  /\ UNCHANGED allVars

(* The rest of the files, as they are now: CHAIN VERIFIED.                 *)
VerifyIbmChain(v) ==
  /\ vpc[v] = "loaded"
  /\ ArtifactsAgree(chain[v])
  /\ vpc' = [vpc EXCEPT ![v] = "verified"]
  /\ UNCHANGED <<allVars, chain>>

(* A ChainVerificationError.                                               *)
RefuseChain(v) ==
  /\ vpc[v] \in {"idle", "loaded"}
  /\ vpc' = [vpc EXCEPT ![v] = "refused"]
  /\ UNCHANGED <<allVars, chain>>

VerifyNext ==
  \/ ReconcileNext /\ UNCHANGED verifyVars
  \/ \E v \in Verifiers :
       \/ \E q \in Reconcilers : LoadIbmChain(v, q)
       \/ VerifyIbmChain(v) \/ RefuseChain(v)

VerifySpec == VerifyInit /\ [][VerifyNext]_systemVars

-----------------------------------------------------------------------------
(* A chain reported verified is what the verdict claims, even if files     *)
(* changed while the verifier read them and changed again since: the one   *)
(* job IBM ever had for the approval, DONE, on the circuit the plan signs, *)
(* taken inside the approval's window, by the submission that owns the     *)
(* approval (chain.py, _verify_ibm_chain).                                 *)
VerifiedIsTheGovernedJob ==
  \A v \in Verifiers :
    vpc[v] = "verified" =>
      LET s == receipt[chain[v]].submission
          a == qsub[s].approval IN
        /\ \A t \in Submissions :
             job[t] # None /\ job[t].approval = a <=> t = s
        /\ jobStatus[s] = "DONE"
        /\ job[s].isa = SignedIsa[approval[a].plan]
        /\ InWindow(approval[a], job[s].at)
        /\ consumption[a].owner = s

(* What qexec attests, verify-chain accepts: a completed receipt verifies  *)
(* whenever plan and circuit are as they were signed, the key was          *)
(* published, and the submit handler did not replace the CONSUMED record.  *)
(* Each of the two commands has a list of checks of its own                *)
(* (reconciliation.py, _load_chain; chain.py, _verify_ibm_chain); the one  *)
(* is in ReadChain and MatchArtifacts, the other in RecordsAgree and       *)
(* ArtifactsAgree, and neither may come to ask for less, or for more.      *)
CompletedReceiptVerifies ==
  \A q \in Reconcilers :
    (receipt[q] # None /\ receipt[q].outcome = "DONE") =>
      LET a == qsub[receipt[q].submission].approval
          p == approval[a].plan IN
        (/\ planFile[p] = "intact"
         /\ isaFile[p] = SignedIsa[p]
         /\ a \in keyFile
         /\ consumption[a].status = "CONSUMED")
        => RecordsAgree(q) /\ ArtifactsAgree(q)
=============================================================================
