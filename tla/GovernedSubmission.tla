-------------------------- MODULE GovernedSubmission --------------------------
(***************************************************************************)
(* `quantumd submit --execute`: how an approval becomes at most one IBM    *)
(* job (src/quantumd/submission.py), together with the approve command     *)
(* that issues the approvals (ApprovalIssuance).                           *)
(*                                                                         *)
(* Each element of Submissions is one run of the command, with its own     *)
(* QSUB id; a retry is another run for the same approval, and any number   *)
(* run at once, each in its own OS process.  They share only files.  The   *)
(* file that matters is approvals/<id>/consumption.json, created with      *)
(* O_CREAT|O_EXCL and later replaced.  A run may be killed at any step.    *)
(* The IBM service takes a request after the run sent it, before or after  *)
(* the run stops waiting for the answer, or never.                         *)
(***************************************************************************)
EXTENDS ApprovalIssuance

CONSTANT Submissions   \* runs of the submit command, and their QSUB ids

(* What submission.json says, and what IBM knows of a job - with, for the  *)
(* record, the approval it was submitted under.                            *)
QsubRecord == [approval : Approvals, createdAt : Nat]
IbmJob     == [approval : Approvals, isa : Circuits, at : Nat]

ASSUME SubmissionAssumption ==
  /\ None \notin Submissions
  /\ None \notin QsubRecord
  /\ None \notin IbmJob

VARIABLES
  pc,          \* where each run of the submit command is
  using,       \* the approval a run was started for
  bound,       \* the approval's binding, in the run's memory
  circuit,     \* isa_bytes, in the run's memory
  stamp,       \* accepted = now(), in the run's memory
  consumption, \* consumption.json of an approval
  intents,     \* runs whose intent.json is on disk
  qsub,        \* submission.json of a run, or None
  failures,    \* runs whose failure.json is on disk
  sent,        \* runs whose sampler.run request left the machine
  job          \* IBM's side: the job that runs for a request, or None

runVars    == <<pc, using, bound, circuit, stamp>>
recordVars == <<consumption, intents, qsub, failures>>
ibmVars    == <<sent, job>>
submitVars == <<runVars, recordVars, ibmVars>>
vars       == <<issuanceVars, submitVars>>

(* The points of the command at which nothing was sent to IBM yet.         *)
BeforeCall == {"windowed", "matched", "unused", "preflighted", "live",
               "confirmed", "intended", "opened", "claimed", "loaded"}
(* attempted = True; then the answer, submission.json and CONSUMED.        *)
AfterCall  == {"attempting", "accepted", "recorded", "consumed"}
Handling   == {"handling", "marked"}
Active     == BeforeCall \cup AfterCall \cup Handling
Ended      == {"ready", "submitted", "denied", "aborted", "crashed"}

Statuses == {"ABSENT", "PARTIAL", "CLAIMED", "CONSUMED", "SUBMISSION_UNCERTAIN"}

TypeOK ==
  /\ TypeOKIssuance
  /\ pc \in [Submissions -> {"idle"} \cup Active \cup Ended]
  /\ using \in [Submissions -> Approvals \cup {None}]
  /\ bound \in [Submissions -> Payload \cup {None}]
  /\ circuit \in [Submissions -> Circuits \cup {None}]
  /\ stamp \in [Submissions -> 0..MaxTime]
  /\ consumption \in
       [Approvals -> [status : Statuses, owner : Submissions \cup {None}]]
  /\ intents \subseteq Submissions
  /\ qsub \in [Submissions -> QsubRecord \cup {None}]
  /\ failures \subseteq Submissions
  /\ sent \subseteq Submissions
  /\ job \in [Submissions -> IbmJob \cup {None}]

Init ==
  /\ IssuanceInit
  /\ pc = [s \in Submissions |-> "idle"]
  /\ using = [s \in Submissions |-> None]
  /\ bound = [s \in Submissions |-> None]
  /\ circuit = [s \in Submissions |-> None]
  /\ stamp = [s \in Submissions |-> 0]
  /\ consumption = [a \in Approvals |-> [status |-> "ABSENT", owner |-> None]]
  /\ intents = {}
  /\ qsub = [s \in Submissions |-> None]
  /\ failures = {}
  /\ sent = {}
  /\ job = [s \in Submissions |-> None]

Goto(s, from, to) ==
  /\ pc[s] = from
  /\ pc' = [pc EXCEPT ![s] = to]

(* approval_window: not_before <= now() < expires_at.                      *)
InWindow(payload, time) ==
  /\ payload.notBefore <= time
  /\ time < payload.expiresAt

-----------------------------------------------------------------------------
(* local_preflight, in its order: the approval and its window, the plan,   *)
(* artifacts and exact binding, the consumption, and the ISA bytes again.  *)

ReadApproval(s, a) ==
  /\ approval[a] # None
  /\ InWindow(approval[a], clock)
  /\ Goto(s, "idle", "windowed")
  /\ using' = [using EXCEPT ![s] = a]
  /\ bound' = [bound EXCEPT ![s] = approval[a]]
  /\ UNCHANGED <<issuanceVars, circuit, stamp, recordVars, ibmVars>>

MatchBinding(s) ==
  /\ Goto(s, "windowed", "matched")
  /\ VerifiedPlan(bound[s].plan)
  /\ VerifiedArtifact(bound[s].plan)
  /\ bound[s].isa = isaFile[bound[s].plan]
  /\ UNCHANGED <<issuanceVars, using, bound, circuit, stamp, recordVars, ibmVars>>

(* consumption.exists(): whatever the file holds, it denies.               *)
CheckUnused(s) ==
  /\ Goto(s, "matched", "unused")
  /\ consumption[using[s]].status = "ABSENT"
  /\ UNCHANGED <<issuanceVars, using, bound, circuit, stamp, recordVars, ibmVars>>

(* Mutants of LoadIsaBytes: the bytes are not hashed again after the       *)
(* artifact was verified; the bytes are not kept.                          *)
LoadIsaBytesUnhashed(s) ==
  /\ Goto(s, "unused", "preflighted")
  /\ circuit' = [circuit EXCEPT ![s] = isaFile[bound[s].plan]]
  /\ UNCHANGED <<issuanceVars, using, bound, stamp, recordVars, ibmVars>>

LoadIsaBytesDropped(s) ==
  /\ Goto(s, "unused", "preflighted")
  /\ isaFile[bound[s].plan] = bound[s].isa
  /\ UNCHANGED <<issuanceVars, using, bound, circuit, stamp, recordVars, ibmVars>>

(* The bytes that will be submitted are read now and hashed again.         *)
LoadIsaBytes(s) ==
  /\ Goto(s, "unused", "preflighted")
  /\ isaFile[bound[s].plan] = bound[s].isa
  /\ circuit' = [circuit EXCEPT ![s] = isaFile[bound[s].plan]]
  /\ UNCHANGED <<issuanceVars, using, bound, stamp, recordVars, ibmVars>>

(* Without --execute the command reports and returns.                      *)
StopAtPreflight(s) ==
  /\ Goto(s, "preflighted", "ready")
  /\ UNCHANGED <<issuanceVars, using, bound, circuit, stamp, recordVars, ibmVars>>

-----------------------------------------------------------------------------
(* submit --execute, up to the call.                                       *)

(* live_backend finds the approved target, and the window is still open.   *)
LiveCheck(s) ==
  /\ Goto(s, "preflighted", "live")
  /\ InWindow(bound[s], clock)
  /\ UNCHANGED <<issuanceVars, using, bound, circuit, stamp, recordVars, ibmVars>>

(* The typed challenge (or --yes), the last look at the window, mkdir.     *)
Confirm(s) ==
  /\ Goto(s, "live", "confirmed")
  /\ InWindow(bound[s], clock)
  /\ UNCHANGED <<issuanceVars, using, bound, circuit, stamp, recordVars, ibmVars>>

WriteIntent(s) ==
  /\ Goto(s, "confirmed", "intended")
  /\ intents' = intents \cup {s}
  /\ UNCHANGED <<issuanceVars, using, bound, circuit, stamp,
                 consumption, qsub, failures, ibmVars>>

(* Mutant of OpenClaim: the claim is written without O_EXCL.               *)
OpenClaimShared(s) ==
  /\ Goto(s, "intended", "opened")
  /\ consumption' = [consumption EXCEPT ![using[s]] =
                       [status |-> "PARTIAL", owner |-> s]]
  /\ UNCHANGED <<issuanceVars, using, bound, circuit, stamp,
                 intents, qsub, failures, ibmVars>>

(* write_json(consumption, exclusive=True): the file is created empty,     *)
(* only if it was absent ...                                               *)
OpenClaim(s) ==
  /\ Goto(s, "intended", "opened")
  /\ consumption[using[s]].status = "ABSENT"
  /\ consumption' = [consumption EXCEPT ![using[s]] =
                       [status |-> "PARTIAL", owner |-> s]]
  /\ UNCHANGED <<issuanceVars, using, bound, circuit, stamp,
                 intents, qsub, failures, ibmVars>>

(* Mutant of FillClaim: the claim stays in a buffer.                       *)
FillClaimBuffered(s) ==
  /\ Goto(s, "opened", "claimed")
  /\ UNCHANGED <<issuanceVars, using, bound, circuit, stamp, recordVars, ibmVars>>

(* ... and then written through the descriptor that created it.            *)
FillClaim(s) ==
  /\ Goto(s, "opened", "claimed")
  /\ consumption' = [consumption EXCEPT ![using[s]] =
                       [status |-> "CLAIMED", owner |-> s]]
  /\ UNCHANGED <<issuanceVars, using, bound, circuit, stamp,
                 intents, qsub, failures, ibmVars>>

(* qpy.load, one circuit with the planned qubits, SamplerV2.               *)
LoadCircuit(s) ==
  /\ Goto(s, "claimed", "loaded")
  /\ UNCHANGED <<issuanceVars, using, bound, circuit, stamp, recordVars, ibmVars>>

(* attempted = True and the request of sampler.run leaves.                 *)
CallIbm(s) ==
  /\ Goto(s, "loaded", "attempting")
  /\ sent' = sent \cup {s}
  /\ UNCHANGED <<issuanceVars, using, bound, circuit, stamp, recordVars, job>>

-----------------------------------------------------------------------------
(* The IBM service takes a request it was sent: perhaps after the run gave *)
(* up or was killed, perhaps never.                                        *)
IbmAccepts(s) ==
  /\ s \in sent
  /\ job[s] = None
  /\ job' = [job EXCEPT ![s] = [approval |-> using[s], isa |-> circuit[s],
                                at |-> clock]]
  /\ UNCHANGED <<issuanceVars, runVars, recordVars, sent>>

(* Mutant of CallReturns: an empty job id is taken for an answer.          *)
CallReturnsUnchecked(s) ==
  /\ Goto(s, "attempting", "accepted")
  /\ stamp' = [stamp EXCEPT ![s] = clock]
  /\ UNCHANGED <<issuanceVars, using, bound, circuit, recordVars, ibmVars>>

(* sampler.run returned a job id; accepted = now().                        *)
CallReturns(s) ==
  /\ job[s] # None
  /\ Goto(s, "attempting", "accepted")
  /\ stamp' = [stamp EXCEPT ![s] = clock]
  /\ UNCHANGED <<issuanceVars, using, bound, circuit, recordVars, ibmVars>>

(* submission.json, attested, renamed into place.                          *)
WriteSubmission(s) ==
  /\ Goto(s, "accepted", "recorded")
  /\ qsub' = [qsub EXCEPT ![s] = [approval |-> using[s],
                                  createdAt |-> stamp[s]]]
  /\ UNCHANGED <<issuanceVars, using, bound, circuit, stamp,
                 consumption, intents, failures, ibmVars>>

(* The claim is replaced by the signed CONSUMED record.                    *)
WriteConsumed(s) ==
  /\ Goto(s, "recorded", "consumed")
  /\ consumption' = [consumption EXCEPT ![using[s]] =
                       [status |-> "CONSUMED", owner |-> s]]
  /\ UNCHANGED <<issuanceVars, using, bound, circuit, stamp,
                 intents, qsub, failures, ibmVars>>

(* The closing messages are printed.                                       *)
Report(s) ==
  /\ Goto(s, "consumed", "submitted")
  /\ UNCHANGED <<issuanceVars, using, bound, circuit, stamp, recordVars, ibmVars>>

-----------------------------------------------------------------------------
(* except Exception: anything may raise - a check, a prompt, KMS, the      *)
(* network, a write, a print.                                              *)

(* Mutant of Attempted: the flag is set once sampler.run has returned.     *)
AttemptedLate(s) == pc[s] \in AfterCall \ {"attempting"}

(* claimed and attempted: the handler records an uncertain submission.     *)
Attempted(s) == pc[s] \in AfterCall

(* Mutant of RaiseDenied: a run that fails before the call releases its    *)
(* claim for a retry.                                                      *)
RaiseDeniedReleases(s) ==
  /\ pc[s] \in {"claimed", "loaded"}
  /\ pc' = [pc EXCEPT ![s] = "denied"]
  /\ consumption' = [consumption EXCEPT ![using[s]] =
                       [status |-> "ABSENT", owner |-> None]]
  /\ UNCHANGED <<issuanceVars, using, bound, circuit, stamp,
                 intents, qsub, failures, ibmVars>>

RaiseDenied(s) ==
  /\ pc[s] \in {"idle"} \cup BeforeCall \cup AfterCall
  /\ ~Attempted(s)
  /\ pc' = [pc EXCEPT ![s] = "denied"]
  /\ UNCHANGED <<issuanceVars, using, bound, circuit, stamp, recordVars, ibmVars>>

(* Mutant of RaiseUncertain: the handler only reports.                     *)
RaiseUncertainSilently(s) ==
  /\ Attempted(s)
  /\ pc' = [pc EXCEPT ![s] = "denied"]
  /\ UNCHANGED <<issuanceVars, using, bound, circuit, stamp, recordVars, ibmVars>>

RaiseUncertain(s) ==
  /\ Attempted(s)
  /\ pc' = [pc EXCEPT ![s] = "handling"]
  /\ UNCHANGED <<issuanceVars, using, bound, circuit, stamp, recordVars, ibmVars>>

(* The unsigned SUBMISSION_UNCERTAIN record replaces whatever is there.    *)
WriteUncertain(s) ==
  /\ Goto(s, "handling", "marked")
  /\ consumption' = [consumption EXCEPT ![using[s]] =
                       [status |-> "SUBMISSION_UNCERTAIN", owner |-> s]]
  /\ UNCHANGED <<issuanceVars, using, bound, circuit, stamp,
                 intents, qsub, failures, ibmVars>>

WriteFailure(s) ==
  /\ Goto(s, "marked", "denied")
  /\ failures' = failures \cup {s}
  /\ UNCHANGED <<issuanceVars, using, bound, circuit, stamp,
                 consumption, intents, qsub, ibmVars>>

(* A write of the handler raises: the command ends with a traceback.       *)
HandlerRaises(s) ==
  /\ pc[s] \in Handling
  /\ pc' = [pc EXCEPT ![s] = "aborted"]
  /\ UNCHANGED <<issuanceVars, using, bound, circuit, stamp, recordVars, ibmVars>>

(* The process is killed; what it wrote stays.                             *)
Crash(s) ==
  /\ pc[s] \in Active
  /\ pc' = [pc EXCEPT ![s] = "crashed"]
  /\ UNCHANGED <<issuanceVars, using, bound, circuit, stamp, recordVars, ibmVars>>

-----------------------------------------------------------------------------
Preflight(s) ==
  \/ \E a \in Approvals : ReadApproval(s, a)
  \/ MatchBinding(s) \/ CheckUnused(s) \/ LoadIsaBytes(s) \/ StopAtPreflight(s)

Execute(s) ==
  \/ LiveCheck(s) \/ Confirm(s) \/ WriteIntent(s)
  \/ OpenClaim(s) \/ FillClaim(s) \/ LoadCircuit(s) \/ CallIbm(s)
  \/ CallReturns(s) \/ WriteSubmission(s) \/ WriteConsumed(s) \/ Report(s)

Handler(s) ==
  \/ RaiseDenied(s) \/ RaiseUncertain(s)
  \/ WriteUncertain(s) \/ WriteFailure(s) \/ HandlerRaises(s)

(* One step of the command itself: not its start, not its death.           *)
Run(s) == Preflight(s) \/ Execute(s) \/ Handler(s)

SubmitNext == \E s \in Submissions : Run(s) \/ IbmAccepts(s) \/ Crash(s)

Next ==
  \/ IssuanceNext /\ UNCHANGED submitVars
  \/ SubmitNext

Spec == Init /\ [][Next]_vars

(* Every run of the command that started goes on: each call it makes to    *)
(* KMS, to IBM, to the disk or to the prompt returns or raises.  Starting, *)
(* being killed, and what IBM does are not promised.                       *)
Fairness == \A s \in Submissions : WF_vars(pc[s] # "idle" /\ Run(s))

FairSpec == Spec /\ Fairness

-----------------------------------------------------------------------------
(* Safety.                                                                 *)

(* An approval is never altered between the check of a plan and the file:  *)
(* what approval.json binds is the circuit its plan signs, although the    *)
(* artifact may be edited at any time (approval.py, _verify_artifact).     *)
ApprovalBindsSignedCircuit ==
  \A a \in Approvals :
    approval[a] # None => approval[a].isa = SignedIsa[approval[a].plan]

(* Single use: however runs race, retry, fail or die, IBM never has two    *)
(* jobs for one approval (submission.py, the exclusive claim).             *)
AtMostOneJob ==
  \A s, t \in Submissions :
    /\ job[s] # None
    /\ job[t] # None
    /\ job[s].approval = job[t].approval
    => s = t

(* Before a request leaves for IBM, the disk already says who sends it:    *)
(* the run's intent, and a complete claim of its approval in its name.  So *)
(* a crash never leaves a job that no file attributes.                     *)
EvidenceBeforeBoundary ==
  \A s \in sent :
    /\ s \in intents
    /\ consumption[using[s]].owner = s
    /\ consumption[using[s]].status \notin {"ABSENT", "PARTIAL"}

(* CONSUMED is only ever said of a job that IBM has for this approval and  *)
(* that a durable submission.json of the same run records, stamped no      *)
(* earlier than IBM took it.                                               *)
ConsumedIsBacked ==
  \A a \in Approvals :
    consumption[a].status = "CONSUMED" =>
      LET s == consumption[a].owner IN
        /\ qsub[s] # None
        /\ qsub[s].approval = a
        /\ job[s] # None
        /\ job[s].approval = a
        /\ job[s].at <= qsub[s].createdAt

(* The circuit of every job is the circuit its approval and plan bind,     *)
(* although plan and artifact files may be edited between any two reads.   *)
JobRunsSignedCircuit ==
  \A s \in Submissions :
    job[s] # None =>
      LET a == approval[job[s].approval] IN
        /\ a # None
        /\ job[s].isa = a.isa
        /\ job[s].isa = SignedIsa[a.plan]

(* A run that reports DENIED after it called IBM has left both records of  *)
(* the uncertain call; none of its approval's states permits a retry.      *)
DeniedCallIsRecorded ==
  \A s \in sent :
    pc[s] = "denied" =>
      /\ consumption[using[s]] = [status |-> "SUBMISSION_UNCERTAIN", owner |-> s]
      /\ s \in failures

Rank(status) ==
  CASE status = "ABSENT"   -> 0
    [] status = "PARTIAL"  -> 1
    [] status = "CLAIMED"  -> 2
    [] status = "CONSUMED" -> 3
    [] OTHER               -> 4

(* consumption.json is never freed and never changes hands, and its status *)
(* only moves forward: no run, retry or handler makes an approval usable   *)
(* again or takes it from the run that claimed it.                         *)
ConsumptionOnlyAdvances ==
  [][\A a \in Approvals :
       /\ consumption[a].owner # None =>
            consumption'[a].owner = consumption[a].owner
       /\ Rank(consumption[a].status) <= Rank(consumption'[a].status)]_vars

-----------------------------------------------------------------------------
(* Liveness.                                                               *)

(* A run that called IBM leaves a settled approval behind - CONSUMED or    *)
(* SUBMISSION_UNCERTAIN - unless it was killed or its handler could not    *)
(* write: an answer that never comes does not leave a bare CLAIMED.        *)
CallSettles ==
  \A s \in Submissions, a \in Approvals :
    (pc[s] = "attempting" /\ using[s] = a) ~>
      \/ pc[s] \in {"aborted", "crashed"}
      \/ /\ pc[s] \in {"submitted", "denied"}
         /\ consumption[a].status \in {"CONSUMED", "SUBMISSION_UNCERTAIN"}

-----------------------------------------------------------------------------
(* Refinement: the files and processes above implement a single-use        *)
(* approval.                                                               *)

Verdict(status) ==
  CASE status = "CONSUMED"             -> "consumed"
    [] status = "SUBMISSION_UNCERTAIN" -> "uncertain"
    [] OTHER                           -> "open"

SingleUse == INSTANCE SingleUseApproval WITH
  holder  <- [a \in Approvals |-> consumption[a].owner],
  jobs    <- {<<job[s].approval, s>> : s \in {t \in Submissions : job[t] # None}},
  verdict <- [a \in Approvals |-> Verdict(consumption[a].status)]

(* Every step of the command, of IBM and of the environment is a step of   *)
(* the abstract single-use approval, or changes nothing it can see.        *)
ImplementsSingleUse == SingleUse!Spec

-----------------------------------------------------------------------------
(* What the program says of itself, and the model refutes.                 *)

(* submission.py:1057 - "The IBM call began but no durable governed job    *)
(* record was completed.": an uncertain approval has no submission.json.   *)
UncertainHasNoRecord ==
  \A a \in Approvals :
    consumption[a].status = "SUBMISSION_UNCERTAIN" =>
      qsub[consumption[a].owner] = None
=============================================================================
