------------------------- MODULE Reconciliation_proofs -------------------------
(***************************************************************************)
(* Proofs, for any number of submissions and of qexec runs, that a receipt *)
(* stands on the whole governed path and says how its job ended; and that  *)
(* a chain reported verified is the one governed job of its approval.      *)
(*                                                                         *)
(* The argument: qexec checks the records of a submission once, at its     *)
(* start.  What it checked stays true while the other commands go on       *)
(* (GovernedStays), so it still holds when the receipt is written.         *)
(***************************************************************************)
EXTENDS ChainVerification, GovernedSubmission_proofs

USE DEF issuanceVars, fileVars, approveVars, runVars, recordVars, ibmVars,
        submitVars, vars, reconcileVars, allVars

(* Approvals start no later than now, and no later than their jobs; a      *)
(* submission's record is about its job, and written once.                 *)
TimesInv ==
  /\ \A a \in Approvals :
       /\ draft[a] # None => draft[a].notBefore <= clock
       /\ approval[a] # None => approval[a].notBefore <= clock
  /\ \A s \in Submissions :
       /\ job[s] # None => /\ approval[using[s]] # None
                           /\ approval[using[s]].notBefore <= job[s].at
       /\ qsub[s] # None =>
            /\ s \in sent
            /\ job[s] # None
            /\ qsub[s].approval = using[s]
            /\ job[s].at <= qsub[s].createdAt
            /\ pc[s] \notin {"attempting", "accepted"}

(* What _load_chain establishes of a submission.                           *)
Governed(s) ==
  LET a == qsub[s].approval IN
    /\ s \in Submissions
    /\ qsub[s] # None
    /\ approval[a] # None
    /\ InWindow(approval[a], qsub[s].createdAt)
    /\ consumption[a].owner = s
    /\ consumption[a].status \in {"CONSUMED", "SUBMISSION_UNCERTAIN"}

(* What it read of that submission, and the receipt binds.                 *)
Bound(s) ==
  LET a == qsub[s].approval IN
    [approval    |-> a,
     isa         |-> approval[a].isa,
     consumption |-> [status |-> "CONSUMED", owner |-> s]]

CoreInv == IInv /\ TimesInv

-----------------------------------------------------------------------------
LEMMA InitCore == Init => CoreInv
<1>1. Init => TimesInv
  BY DEF Init, IssuanceInit, TimesInv
<1>2. QED
  BY <1>1, InitInv DEF CoreInv

(* Numbers that the times of the model are.                                *)
LEMMA TimesAreNumbers ==
  ASSUME TypeOK
  PROVE  /\ clock \in Nat
         /\ \A s \in Submissions :
              /\ stamp[s] \in Nat
              /\ qsub[s] # None => qsub[s].createdAt \in Nat
                                   /\ qsub[s].approval \in Approvals
              /\ job[s] # None => job[s].at \in Nat
         /\ \A a \in Approvals :
              /\ draft[a] # None => draft[a].notBefore \in Nat
              /\ approval[a] # None => /\ approval[a].notBefore \in Nat
                                       /\ approval[a].expiresAt \in Nat
BY IssuanceAssumption
   DEF TypeOK, TypeOKIssuance, QsubRecord, IbmJob, Payload

(* A published approval and a written submission.json stay as they are.    *)
LEMMA RecordsStay ==
  ASSUME CoreInv, [Next]_vars
  PROVE  /\ \A a \in Approvals : approval[a] # None => approval'[a] = approval[a]
         /\ \A s \in Submissions : qsub[s] # None => qsub'[s] = qsub[s]
         /\ clock <= clock'
         /\ \A s \in Submissions : s \in sent => using'[s] = using[s] /\ s \in sent'
<1> USE DEF CoreInv, IInv
<1> DEFINE Stays ==
      /\ \A a \in Approvals : approval[a] # None => approval'[a] = approval[a]
      /\ \A s \in Submissions : qsub[s] # None => qsub'[s] = qsub[s]
      /\ clock <= clock'
      /\ \A s \in Submissions : s \in sent => using'[s] = using[s] /\ s \in sent'
<1>0. clock \in Nat /\ clock <= clock
  BY TimesAreNumbers
<1>1. CASE UNCHANGED vars
  BY <1>0, <1>1
<1>2. CASE IssuanceNext /\ UNCHANGED submitVars
  BY <1>2, IssuanceStep
<1>3. ASSUME NEW s \in Submissions, NEW a \in Approvals, ReadApproval(s, a)
      PROVE  Stays
  BY <1>0, <1>3 DEF ReadApproval, Goto, ClaimsInv, TypeOK
<1>4. ASSUME NEW s \in Submissions, WriteSubmission(s)
      PROVE  Stays
  BY <1>0, <1>4 DEF WriteSubmission, Goto, TimesInv, TypeOK
<1>5. ASSUME NEW s \in Submissions, Run(s) \/ IbmAccepts(s) \/ Crash(s)
      PROVE  \/ \E a \in Approvals : ReadApproval(s, a)
             \/ WriteSubmission(s)
             \/ UNCHANGED <<issuanceVars, using, qsub, sent>>
             \/ UNCHANGED <<issuanceVars, using, qsub>> /\ sent' = sent \cup {s}
  <2>1. CASE Preflight(s)
    BY <2>1 DEF Preflight, MatchBinding, CheckUnused, LoadIsaBytes, StopAtPreflight
  <2>2. CASE Execute(s)
    BY <2>2 DEF Execute, LiveCheck, Confirm, WriteIntent, OpenClaim, FillClaim,
                LoadCircuit, CallIbm, CallReturns, WriteConsumed, Report
  <2>3. CASE Handler(s) \/ IbmAccepts(s) \/ Crash(s)
    BY <2>3 DEF Handler, RaiseDenied, RaiseUncertain, WriteUncertain, WriteFailure,
                HandlerRaises, IbmAccepts, Crash
  <2>4. QED
    BY <1>5, <2>1, <2>2, <2>3 DEF Run
<1>6. QED
  BY <1>0, <1>1, <1>2, <1>3, <1>4, <1>5 DEF Next, SubmitNext

LEMMA TimesStep ==
  ASSUME CoreInv, [Next]_vars
  PROVE  TimesInv'
<1> USE DEF CoreInv, IInv
<1>0. TypeOK'
  BY StepInv DEF IInv
<1>1. /\ \A a \in Approvals : approval[a] # None => approval'[a] = approval[a]
      /\ \A s \in Submissions : qsub[s] # None => qsub'[s] = qsub[s]
      /\ clock <= clock'
      /\ \A s \in Submissions : s \in sent => using'[s] = using[s] /\ s \in sent'
  BY RecordsStay
<1>2. ASSUME NEW a \in Approvals
      PROVE  /\ draft'[a] # None => draft'[a].notBefore <= clock'
             /\ approval'[a] # None => approval'[a].notBefore <= clock'
  <2>0. clock \in Nat /\ clock' \in Nat
    BY <1>0, IssuanceAssumption DEF TypeOK, TypeOKIssuance
  <2>1. draft[a] # None => draft[a].notBefore <= clock'
    BY <1>1, <2>0, TimesAreNumbers DEF TimesInv
  <2>2. approval[a] # None => approval[a].notBefore <= clock'
    BY <1>1, <2>0, TimesAreNumbers DEF TimesInv
  <2>3. CASE UNCHANGED <<draft, approval>>
    BY <2>1, <2>2, <2>3
  <2>4. ASSUME NEW b \in Approvals, NEW p \in Plans, CheckPlan(b, p)
        PROVE  /\ approval' = approval
               /\ draft'[a] # None => draft'[a].notBefore <= clock'
    <3>1. draft'[a] = draft[a] \/ draft'[a].notBefore = 0
      BY <2>4 DEF CheckPlan, TypeOK, TypeOKIssuance
    <3>2. QED
      BY <2>0, <2>1, <2>4, <3>1 DEF CheckPlan
  <2>5. ASSUME NEW b \in Approvals, NEW ttl \in Ttls, DraftApproval(b, ttl)
        PROVE  /\ approval' = approval
               /\ draft'[a] # None => draft'[a].notBefore <= clock'
    <3>1. draft'[a] = draft[a] \/ draft'[a].notBefore = clock
      BY <2>5 DEF DraftApproval, TypeOK, TypeOKIssuance
    <3>2. QED
      BY <2>0, <2>1, <2>5, <3>1 DEF DraftApproval
  <2>6. ASSUME NEW b \in Approvals, PublishApproval(b)
        PROVE  /\ draft' = draft
               /\ approval'[a] # None => approval'[a].notBefore <= clock'
    <3>1. approval'[a] = approval[a] \/ approval'[a] = draft[a]
      BY <2>6 DEF PublishApproval, TypeOK, TypeOKIssuance
    <3>2. QED
      BY <2>1, <2>2, <2>6, <3>1 DEF PublishApproval
  <2>7. IssuanceNext =>
          \/ UNCHANGED <<draft, approval>>
          \/ \E b \in Approvals, p \in Plans : CheckPlan(b, p)
          \/ \E b \in Approvals, ttl \in Ttls : DraftApproval(b, ttl)
          \/ \E b \in Approvals : PublishApproval(b)
    BY DEF IssuanceNext, Tick, EditPlan, EditIsa, PublishKey, DenyApproval,
           FailApproval, CrashApproval
  <2>8. ASSUME NEW s \in Submissions, Run(s) \/ IbmAccepts(s) \/ Crash(s)
        PROVE  UNCHANGED <<draft, approval>>
    BY <2>8 DEF Run, Preflight, Execute, Handler, ReadApproval, MatchBinding,
                CheckUnused, LoadIsaBytes, StopAtPreflight, LiveCheck, Confirm,
                WriteIntent, OpenClaim, FillClaim, LoadCircuit, CallIbm,
                CallReturns, WriteSubmission, WriteConsumed, Report,
                RaiseDenied, RaiseUncertain, WriteUncertain, WriteFailure,
                HandlerRaises, IbmAccepts, Crash
  <2>9. QED
    BY <2>1, <2>2, <2>3, <2>4, <2>5, <2>6, <2>7, <2>8 DEF Next, SubmitNext
<1>3. ASSUME NEW s \in Submissions
      PROVE  job'[s] # None => /\ approval'[using'[s]] # None
                               /\ approval'[using'[s]].notBefore <= job'[s].at
  <2>1. s \in sent => /\ using[s] \in Approvals
                     /\ approval[using[s]] # None
                     /\ approval'[using'[s]] = approval[using[s]]
    BY <1>1 DEF RunsInv, TypeOK
  <2>2. CASE job'[s] = job[s]
    BY <2>1, <2>2 DEF TimesInv, JobsInv
  <2>3. CASE IbmAccepts(s)
    BY <2>1, <2>3 DEF IbmAccepts, TimesInv, TypeOK
  <2>4. ASSUME NEW t \in Submissions, Run(t) \/ IbmAccepts(t) \/ Crash(t)
        PROVE  job'[s] = job[s] \/ IbmAccepts(s)
    BY <2>4 DEF Run, Preflight, Execute, Handler, ReadApproval, MatchBinding,
                CheckUnused, LoadIsaBytes, StopAtPreflight, LiveCheck, Confirm,
                WriteIntent, OpenClaim, FillClaim, LoadCircuit, CallIbm,
                CallReturns, WriteSubmission, WriteConsumed, Report,
                RaiseDenied, RaiseUncertain, WriteUncertain, WriteFailure,
                HandlerRaises, IbmAccepts, Crash, TypeOK
  <2>5. QED
    BY <2>2, <2>3, <2>4 DEF Next, SubmitNext
<1>4. ASSUME NEW s \in Submissions, job[s] # None
      PROVE  job'[s] = job[s]
  BY <1>4 DEF Next, SubmitNext, Run, Preflight, Execute, Handler, ReadApproval,
              MatchBinding, CheckUnused, LoadIsaBytes, StopAtPreflight, LiveCheck,
              Confirm, WriteIntent, OpenClaim, FillClaim, LoadCircuit, CallIbm,
              CallReturns, WriteSubmission, WriteConsumed, Report,
              RaiseDenied, RaiseUncertain, WriteUncertain, WriteFailure,
              HandlerRaises, IbmAccepts, Crash, TypeOK
<1>5. ASSUME NEW s \in Submissions, qsub'[s] # None
      PROVE  /\ s \in sent'
             /\ job'[s] # None
             /\ qsub'[s].approval = using'[s]
             /\ job'[s].at <= qsub'[s].createdAt
             /\ pc'[s] \notin {"attempting", "accepted"}
  <2>1. CASE qsub[s] # None
    <3>1. pc[s] \notin {"attempting", "accepted"} \cup {"idle"} \cup BeforeCall
      BY <2>1 DEF TimesInv, ClaimsInv
    <3>2. pc'[s] \notin {"attempting", "accepted"}
      <4>1. CASE pc'[s] = pc[s]
        BY <3>1, <4>1
      <4>2. ASSUME NEW t \in Submissions, Preflight(t)
            PROVE  pc'[s] \notin {"attempting", "accepted"}
        BY <3>1, <4>2 DEF Preflight, ReadApproval, MatchBinding, CheckUnused,
                          LoadIsaBytes, StopAtPreflight, Goto, TypeOK
      <4>3. ASSUME NEW t \in Submissions, Execute(t)
            PROVE  pc'[s] \notin {"attempting", "accepted"}
        BY <3>1, <4>3 DEF Execute, LiveCheck, Confirm, WriteIntent, OpenClaim,
                          FillClaim, LoadCircuit, CallIbm, CallReturns,
                          WriteSubmission, WriteConsumed, Report, Goto, TypeOK,
                          BeforeCall
      <4>4. ASSUME NEW t \in Submissions, Handler(t) \/ IbmAccepts(t) \/ Crash(t)
            PROVE  pc'[s] \notin {"attempting", "accepted"}
        BY <3>1, <4>4 DEF Handler, RaiseDenied, RaiseUncertain, WriteUncertain,
                          WriteFailure, HandlerRaises, IbmAccepts, Crash, Goto,
                          TypeOK
      <4>5. QED
        BY <4>1, <4>2, <4>3, <4>4 DEF Next, SubmitNext, Run
    <3>3. QED
      BY <1>1, <1>4, <2>1, <3>2 DEF TimesInv
  <2>2. CASE qsub[s] = None
    <3>1. ASSUME NEW t \in Submissions, Run(t) \/ IbmAccepts(t) \/ Crash(t)
          PROVE  qsub' = qsub \/ WriteSubmission(t)
      BY <3>1 DEF Run, Preflight, Execute, Handler, ReadApproval, MatchBinding,
                CheckUnused, LoadIsaBytes, StopAtPreflight, LiveCheck, Confirm,
                WriteIntent, OpenClaim, FillClaim, LoadCircuit, CallIbm,
                CallReturns, WriteConsumed, Report,
                RaiseDenied, RaiseUncertain, WriteUncertain, WriteFailure,
                HandlerRaises, IbmAccepts, Crash
    <3>2. WriteSubmission(s)
      BY <1>5, <2>2, <3>1 DEF Next, SubmitNext, WriteSubmission, TypeOK
    <3>3. /\ s \in sent /\ job[s] # None /\ job[s].at <= stamp[s]
      BY <3>2 DEF WriteSubmission, Goto, ClaimsInv, JobsInv, AfterCall
    <3>4. /\ qsub'[s] = [approval |-> using[s], createdAt |-> stamp[s]]
          /\ pc'[s] = "recorded"
          /\ UNCHANGED <<using, sent, job>>
      BY <3>2 DEF WriteSubmission, Goto, TypeOK
    <3>5. QED
      BY <3>3, <3>4
  <2>3. QED
    BY <2>1, <2>2
<1>6. QED
  BY <1>2, <1>3, <1>5 DEF TimesInv

LEMMA CoreStep == CoreInv /\ [Next]_vars => CoreInv'
BY StepInv, TimesStep DEF CoreInv

-----------------------------------------------------------------------------
(* What qexec checked at its start outlives every step of the others: the  *)
(* record and the approval are written once, and the consumption keeps its *)
(* owner and never goes back behind CONSUMED.                              *)
LEMMA GovernedStays ==
  ASSUME CoreInv, [Next]_vars, NEW s \in Submissions, Governed(s)
  PROVE  Governed(s)' /\ Bound(s)' = Bound(s)
<1> DEFINE a == qsub[s].approval
<1>1. a \in Approvals
  BY TimesAreNumbers DEF CoreInv, IInv, Governed
<1>2. /\ approval'[a] = approval[a] /\ approval[a] # None
      /\ qsub'[s] = qsub[s] /\ qsub[s] # None
  BY <1>1, RecordsStay DEF Governed
<1>3. /\ consumption'[a].owner = s
      /\ Rank(consumption[a].status) <= Rank(consumption'[a].status)
  BY <1>1, AdvanceStep, SubmissionAssumption DEF CoreInv, Governed
<1>4. Rank(consumption[a].status) \in {3, 4}
  BY DEF Governed, Rank
<1>5. consumption'[a].status \in Statuses
  BY <1>1, StepInv DEF CoreInv, IInv, TypeOK
<1>6. consumption'[a].status \in {"CONSUMED", "SUBMISSION_UNCERTAIN"}
  BY <1>3, <1>4, <1>5 DEF Rank, Statuses
<1>7. QED
  BY <1>2, <1>3, <1>6 DEF Governed, InWindow, Bound

(* A governed submission has its one job, on the signed circuit, taken     *)
(* inside the window: no later than the record, no earlier than the start. *)
LEMMA GovernedJob ==
  ASSUME CoreInv, NEW s \in Submissions, Governed(s)
  PROVE  LET a == qsub[s].approval IN
           /\ qsub[s] # None
           /\ job[s] # None
           /\ job[s].approval = a
           /\ job[s].isa = SignedIsa[approval[a].plan]
           /\ InWindow(approval[a], job[s].at)
           /\ consumption[a].owner = s
           /\ consumption[a].status \in {"CONSUMED", "SUBMISSION_UNCERTAIN"}
<1> USE DEF CoreInv, IInv
<1> DEFINE a == qsub[s].approval
<1>1. /\ qsub[s] # None
      /\ s \in sent
      /\ job[s] # None
      /\ a = using[s]
      /\ job[s].approval = a
      /\ job[s].isa = circuit[s]
      /\ approval[a] # None
      /\ approval[a].notBefore <= job[s].at
      /\ job[s].at <= qsub[s].createdAt
      /\ qsub[s].createdAt < approval[a].expiresAt
  BY DEF Governed, TimesInv, JobsInv, InWindow
<1>2. job[s].isa = SignedIsa[approval[a].plan]
  BY <1>1 DEF RunsInv, ApproversInv, TypeOK
<1>3. InWindow(approval[a], job[s].at)
  <2>1. /\ a \in Approvals
        /\ job[s].at \in Nat
        /\ qsub[s].createdAt \in Nat
        /\ approval[a].expiresAt \in Nat
    BY <1>1, TimesAreNumbers
  <2>2. QED
    BY <1>1, <2>1 DEF InWindow
<1>4. QED
  BY <1>1, <1>2, <1>3 DEF Governed

-----------------------------------------------------------------------------
(* The inductive invariant of qexec.  A run in progress works for a        *)
(* governed submission, and so does a receipt ...                          *)
ReceiptsInv ==
  \A q \in Reconcilers :
    /\ rpc[q] \in ReconcilerActive => target[q] # None /\ Governed(target[q])
    /\ receipt[q] # None => Governed(receipt[q].submission)

(* ... that is what it binds ...                                           *)
BindsInv ==
  \A q \in Reconcilers :
    /\ rpc[q] \in ReconcilerActive => context[q] = Bound(target[q])
    /\ receipt[q] # None /\ receipt[q].outcome = "DONE" =>
         receipt[q].binds = Bound(receipt[q].submission)

(* ... and whose job ended as the run observed, once that is an end, with the  *)
(* files on disk that the run's place in the code says.                    *)
FilesAt(p) ==
  CASE p = "result.json"       -> {"result.json"}
    [] p = "counts.json"       -> {"result.json", "counts.json"}
    [] p = "job-metadata.json" -> Files
    [] OTHER                   -> {}

Resulted == {"resulted", "result.json", "counts.json", "job-metadata.json"}
Closed   == {"written", "attested", "denied", "crashed"}

OutcomesInv ==
  \A q \in Reconcilers :
    /\ rpc[q] \notin Closed => receipt[q] = None /\ artifacts[q] = FilesAt(rpc[q])
    /\ rpc[q] = "fetched" /\ observed[q] # "PENDING" =>
         jobStatus[target[q]] = observed[q]
    /\ rpc[q] \in Resulted =>
         observed[q] = "DONE" /\ jobStatus[target[q]] = "DONE"
    /\ receipt[q] # None =>
         /\ receipt[q].outcome = jobStatus[receipt[q].submission]
         /\ receipt[q].outcome = "DONE" <=> artifacts[q] = Files

ReconcileInv ==
  TypeOKReconciliation /\ CoreInv /\ ReceiptsInv /\ BindsInv /\ OutcomesInv

LEMMA InitReconcile == ReconcileInit => ReconcileInv
<1> SUFFICES ASSUME ReconcileInit PROVE ReconcileInv
  OBVIOUS
<1>1. CoreInv
  BY InitCore DEF ReconcileInit
<1>2. TypeOKReconciliation
  BY <1>1 DEF CoreInv, IInv, ReconcileInit, TypeOKReconciliation, Terminal, Failed
<1>3. ReceiptsInv
  BY DEF ReconcileInit, ReceiptsInv, ReconcilerActive
<1>4. BindsInv
  BY DEF ReconcileInit, BindsInv, ReconcilerActive
<1>5. OutcomesInv
  BY DEF ReconcileInit, OutcomesInv, FilesAt, Closed, Resulted
<1>6. QED
  BY <1>1, <1>2, <1>3, <1>4, <1>5 DEF ReconcileInv

(* A step of approve, submit, IBM's acceptance or the environment.         *)
LEMMA OthersStep ==
  ASSUME ReconcileInv, [Next]_vars, UNCHANGED <<jobStatus, reconcileVars>>
  PROVE  ReconcileInv'
<1> USE DEF ReconcileInv
<1>1. CoreInv'
  BY CoreStep
<1>2. TypeOKReconciliation'
  BY <1>1 DEF CoreInv, IInv, TypeOKReconciliation
<1>3. \A q \in Reconcilers :
        /\ target[q] # None => target[q] \in Submissions
        /\ receipt[q] # None => receipt[q].submission \in Submissions
  BY DEF TypeOKReconciliation, Receipt
<1>4. \A s \in Submissions : Governed(s) => Governed(s)' /\ Bound(s)' = Bound(s)
  BY GovernedStays
<1>5. ReceiptsInv'
  <2> SUFFICES ASSUME NEW q \in Reconcilers
               PROVE  /\ rpc[q] \in ReconcilerActive =>
                           target[q] # None /\ Governed(target[q])'
                      /\ receipt[q] # None => Governed(receipt[q].submission)'
    BY DEF ReceiptsInv, Governed
  <2>1. rpc[q] \in ReconcilerActive => target[q] # None /\ Governed(target[q])'
    BY <1>3, <1>4 DEF ReceiptsInv, Governed
  <2>2. receipt[q] # None => Governed(receipt[q].submission)'
    BY <1>3, <1>4 DEF ReceiptsInv, Governed
  <2>3. QED
    BY <2>1, <2>2
<1>6. BindsInv'
  <2> SUFFICES ASSUME NEW q \in Reconcilers
               PROVE  /\ rpc[q] \in ReconcilerActive =>
                           context[q] = Bound(target[q])'
                      /\ receipt[q] # None /\ receipt[q].outcome = "DONE" =>
                           receipt[q].binds = Bound(receipt[q].submission)'
    BY DEF BindsInv, Bound
  <2>1. rpc[q] \in ReconcilerActive =>
          Bound(target[q])' = Bound(target[q]) /\ context[q] = Bound(target[q])
    BY <1>3, <1>4 DEF ReceiptsInv, BindsInv, Bound
  <2>2. receipt[q] # None =>
          Bound(receipt[q].submission)' = Bound(receipt[q].submission)
    BY <1>3, <1>4 DEF ReceiptsInv, Bound
  <2>3. QED
    BY <2>1, <2>2 DEF BindsInv
<1>7. OutcomesInv'
  BY DEF OutcomesInv
<1>8. QED
  BY <1>1, <1>2, <1>5, <1>6, <1>7

LEMMA JobEndsStep ==
  ASSUME ReconcileInv, NEW s \in Submissions, JobEnds(s)
  PROVE  ReconcileInv'
<1> USE DEF ReconcileInv, JobEnds
<1>1. CoreInv'
  BY CoreStep
<1>2. TypeOKReconciliation'
  BY <1>1 DEF CoreInv, IInv, TypeOKReconciliation
<1>3. ReceiptsInv'
  BY DEF ReceiptsInv, Governed, InWindow
<1>4. BindsInv'
  BY DEF BindsInv, Bound
<1>5. OutcomesInv'
  BY DEF OutcomesInv, TypeOKReconciliation, Receipt, ReceiptsInv, Governed,
         Terminal, Failed, ReconcilerActive, Resulted
<1>6. QED
  BY <1>1, <1>2, <1>3, <1>4, <1>5

(* A step of one run of qexec: the other commands do not see it.           *)
LEMMA ReconcileStep ==
  ASSUME ReconcileInv, NEW q \in Reconcilers, Reconcile(q)
  PROVE  ReconcileInv'
<1> USE DEF ReconcileInv
<1> DEFINE Step == TypeOKReconciliation' /\ ReceiptsInv' /\ BindsInv' /\ OutcomesInv'
<1>0. UNCHANGED vars
  BY DEF Reconcile, ReadChain, MatchArtifacts, FindExisting, FetchJob,
         ReturnPending, TakeResult, WriteFailureReceipt, WriteArtifacts,
         WriteArtifact, WriteReceipt, ReportReceipt, DenyReconciliation,
         CrashReconciliation
<1>1. CoreInv' /\ TypeOK'
  BY <1>0, CoreStep DEF CoreInv, IInv
<1>2. \A t : /\ Bound(t)' = Bound(t)
             /\ Governed(t)' <=> Governed(t)
  BY <1>0 DEF Bound, Governed, InWindow
<1>3. ASSUME NEW s \in Submissions, ReadChain(q, s)
      PROVE  Step
  <2>1. Governed(s)
    <3> DEFINE a == qsub[s].approval
    <3>1. /\ qsub[s] # None
          /\ consumption[a] = [status |-> "CONSUMED", owner |-> s]
          /\ InWindow(approval[a], qsub[s].createdAt)
      BY <1>3 DEF ReadChain, ConsumedBy
    <3>2. s \in sent /\ a = using[s] /\ approval[a] # None
      BY <3>1 DEF CoreInv, IInv, TimesInv, RunsInv
    <3>3. QED
      BY <3>1, <3>2 DEF Governed
  <2>2. s # None
    BY SubmissionAssumption
  <2>3. Records(s) = Bound(s) /\ Bound(s) \in Binding
    <3> DEFINE a == qsub[s].approval
    <3>1. a \in Approvals /\ approval[a] # None
      BY <2>1, TimesAreNumbers DEF CoreInv, IInv, Governed
    <3>2. approval[a].isa \in Circuits
      BY <3>1 DEF CoreInv, IInv, TypeOK, TypeOKIssuance, Payload
    <3>3. consumption[a] = [status |-> "CONSUMED", owner |-> s]
      BY <1>3 DEF ReadChain, ConsumedBy
    <3>4. consumption[a] \in [status : Statuses, owner : Submissions \cup {None}]
      BY <3>1 DEF CoreInv, IInv, TypeOK
    <3>5. QED
      BY <3>1, <3>2, <3>3, <3>4 DEF Records, Bound, Binding
  <2>4. TypeOKReconciliation'
    BY <1>1, <1>3, <2>3 DEF ReadChain, Move, TypeOKReconciliation, ReconcilerActive
  <2>5. ReceiptsInv'
    <3>1. /\ rpc' = [rpc EXCEPT ![q] = "read"]
          /\ target' = [target EXCEPT ![q] = s]
          /\ receipt' = receipt
      BY <1>3 DEF ReadChain, Move
    <3>2. QED
      BY <1>2, <2>1, <2>2, <3>1 DEF TypeOKReconciliation, ReceiptsInv
  <2>6. BindsInv'
    <3>1. /\ rpc' = [rpc EXCEPT ![q] = "read"]
          /\ target' = [target EXCEPT ![q] = s]
          /\ context' = [context EXCEPT ![q] = Bound(s)]
          /\ receipt' = receipt
      BY <1>3, <2>3 DEF ReadChain, Move
    <3>2. QED
      BY <1>2, <3>1 DEF TypeOKReconciliation, BindsInv
  <2>7. OutcomesInv'
    BY <1>3 DEF ReadChain, Move, TypeOKReconciliation, OutcomesInv, FilesAt,
                Closed, Resulted
  <2>8. QED
    BY <2>4, <2>5, <2>6, <2>7
<1>4. ASSUME MatchArtifacts(q) \/ FindExisting(q) \/ ReturnPending(q)
             \/ ReportReceipt(q) \/ DenyReconciliation(q) \/ CrashReconciliation(q)
      PROVE  Step
  <2>1. /\ \E to \in {"matched", "clear", "exists", "pending", "attested", "denied",
                      "crashed"} :
             /\ rpc' = [rpc EXCEPT ![q] = to]
             /\ \/ to \in {"matched", "clear"} /\ rpc[q] \in {"read", "matched"}
                \/ to \in {"exists", "pending"} /\ rpc[q] \in {"matched", "fetched"}
                \/ to = "attested" /\ rpc[q] = "written"
                \/ to \in {"denied", "crashed"}
        /\ UNCHANGED <<vars, jobStatus, target, context, observed, artifacts, receipt>>
    BY <1>4 DEF MatchArtifacts, FindExisting, ReturnPending, ReportReceipt,
                DenyReconciliation, CrashReconciliation, Move
  <2>2. TypeOKReconciliation'
    BY <1>1, <2>1 DEF TypeOKReconciliation, ReconcilerActive
  <2>3. ReceiptsInv'
    BY <2>1 DEF TypeOKReconciliation, ReceiptsInv, ReconcilerActive, Governed, InWindow
  <2>4. BindsInv'
    BY <2>1, <1>2 DEF TypeOKReconciliation, BindsInv, ReconcilerActive
  <2>5. OutcomesInv'
    BY <2>1 DEF TypeOKReconciliation, OutcomesInv, FilesAt, Closed, Resulted
  <2>6. QED
    BY <2>2, <2>3, <2>4, <2>5
<1>5. ASSUME FetchJob(q) PROVE Step
  <2>1. target[q] \in Submissions /\ jobStatus[target[q]] \in Terminal \cup {"PENDING"}
    BY <1>5 DEF FetchJob, Move, ReceiptsInv, ReconcilerActive, TypeOKReconciliation
  <2>2. TypeOKReconciliation'
    BY <1>1, <1>5, <2>1 DEF FetchJob, Move, TypeOKReconciliation, ReconcilerActive
  <2>3. ReceiptsInv'
    BY <1>5 DEF FetchJob, Move, TypeOKReconciliation, ReceiptsInv, ReconcilerActive,
                Governed, InWindow
  <2>4. BindsInv'
    BY <1>5, <1>2 DEF FetchJob, Move, TypeOKReconciliation, BindsInv,
                           ReconcilerActive
  <2>5. OutcomesInv'
    BY <1>5, <2>1 DEF FetchJob, Move, TypeOKReconciliation, OutcomesInv, FilesAt,
                Closed, Resulted
  <2>6. QED
    BY <2>2, <2>3, <2>4, <2>5
<1>6. ASSUME TakeResult(q) PROVE Step
  <2>1. TypeOKReconciliation'
    BY <1>1, <1>6 DEF TakeResult, Move, TypeOKReconciliation, ReconcilerActive,
                      Terminal
  <2>2. ReceiptsInv'
    BY <1>6 DEF TakeResult, Move, TypeOKReconciliation, ReceiptsInv,
                ReconcilerActive, Governed, InWindow
  <2>3. BindsInv'
    BY <1>6, <1>2 DEF TakeResult, Move, TypeOKReconciliation, BindsInv,
                           ReconcilerActive
  <2>4. OutcomesInv'
    BY <1>6 DEF TakeResult, Move, TypeOKReconciliation, OutcomesInv, FilesAt,
                Closed, Resulted
  <2>5. QED
    BY <2>1, <2>2, <2>3, <2>4
<1>7. ASSUME NEW file \in Files, NEW from \in Resulted,
             WriteArtifact(q, from, file),
             \/ from = "resulted" /\ file = "result.json"
             \/ from = "result.json" /\ file = "counts.json"
             \/ from = "counts.json" /\ file = "job-metadata.json"
      PROVE  Step
  <2>1. TypeOKReconciliation'
    BY <1>1, <1>7 DEF WriteArtifact, Move, TypeOKReconciliation, ReconcilerActive,
                      Files
  <2>2. ReceiptsInv'
    BY <1>7 DEF WriteArtifact, Move, TypeOKReconciliation, ReceiptsInv,
                ReconcilerActive, Governed, InWindow, Resulted, Files
  <2>3. artifacts[q] = FilesAt(from) /\ FilesAt(file) = FilesAt(from) \cup {file}
    BY <1>7 DEF WriteArtifact, Move, OutcomesInv, FilesAt, Files, Closed
  <2>4. artifacts' = [artifacts EXCEPT ![q] = FilesAt(file)]
    BY <1>7, <2>3 DEF WriteArtifact
  <2>5. OutcomesInv'
    <3>1. /\ rpc'[q] = file /\ artifacts'[q] = FilesAt(file)
          /\ \A r \in Reconcilers : r # q => /\ rpc'[r] = rpc[r]
                                           /\ artifacts'[r] = artifacts[r]
      BY <1>7, <2>4 DEF WriteArtifact, Move, TypeOKReconciliation
    <3>2. UNCHANGED <<jobStatus, target, observed, receipt>>
      BY <1>7 DEF WriteArtifact
    <3>3. receipt[q] = None /\ observed[q] = "DONE" /\ jobStatus[target[q]] = "DONE"
      BY <1>7 DEF WriteArtifact, Move, OutcomesInv, Closed, Resulted
    <3>4. ASSUME NEW r \in Reconcilers
          PROVE  /\ rpc'[r] \notin Closed =>
                      receipt'[r] = None /\ artifacts'[r] = FilesAt(rpc'[r])
                 /\ rpc'[r] = "fetched" /\ observed'[r] # "PENDING" =>
                      jobStatus'[target'[r]] = observed'[r]
                 /\ rpc'[r] \in Resulted =>
                      observed'[r] = "DONE" /\ jobStatus'[target'[r]] = "DONE"
                 /\ receipt'[r] # None =>
                      /\ receipt'[r].outcome = jobStatus'[receipt'[r].submission]
                      /\ receipt'[r].outcome = "DONE" <=> artifacts'[r] = Files
      <4>1. CASE r = q
        BY <1>7, <3>1, <3>2, <3>3, <4>1
      <4>2. CASE r # q
        BY <3>1, <3>2, <4>2 DEF OutcomesInv
      <4>3. QED
        BY <4>1, <4>2
    <3>5. QED
      BY <3>4 DEF OutcomesInv
  <2>6. BindsInv'
    BY <1>7, <1>2 DEF WriteArtifact, Move, TypeOKReconciliation, BindsInv,
                           ReconcilerActive, Resulted, Files
  <2>7. QED
    BY <2>1, <2>2, <2>5, <2>6
<1>8. ASSUME WriteFailureReceipt(q) \/ WriteReceipt(q) PROVE Step
  <2> DEFINE binds == IF observed[q] = "DONE" THEN Bound(target[q]) ELSE None
             new   == [submission |-> target[q], outcome |-> observed[q],
                       binds |-> binds]
  <2>1. /\ target[q] \in Submissions
        /\ target[q] # None
        /\ Governed(target[q])
        /\ observed[q] \in Terminal
        /\ jobStatus[target[q]] = observed[q]
        /\ observed[q] = "DONE" <=> artifacts[q] = Files
    <3>1. CASE WriteFailureReceipt(q)
      <4>1. rpc[q] = "fetched" /\ observed[q] \in Failed
        BY <3>1 DEF WriteFailureReceipt, Move
      <4>2. artifacts[q] = {}
        BY <4>1 DEF OutcomesInv, FilesAt, Closed
      <4>3. QED
        BY <4>1, <4>2 DEF TypeOKReconciliation, ReceiptsInv, OutcomesInv,
                          ReconcilerActive, Terminal, Failed, Files
    <3>2. CASE WriteReceipt(q)
      <4>1. rpc[q] = "job-metadata.json"
        BY <3>2 DEF WriteReceipt, Move
      <4>2. artifacts[q] = Files /\ observed[q] = "DONE"
        BY <4>1 DEF OutcomesInv, FilesAt, Closed, Resulted
      <4>3. QED
        BY <4>1, <4>2 DEF TypeOKReconciliation, ReceiptsInv, OutcomesInv,
                          ReconcilerActive, Terminal, Resulted
    <3>3. QED
      BY <1>8, <3>1, <3>2
  <2>2. /\ rpc' = [rpc EXCEPT ![q] = "written"]
        /\ receipt' = [receipt EXCEPT ![q] = new]
        /\ UNCHANGED <<vars, jobStatus, target, context, observed, artifacts>>
        /\ rpc[q] \in ReconcilerActive
    <3>1. CASE WriteFailureReceipt(q)
      BY <3>1 DEF WriteFailureReceipt, Move, Failed, ReconcilerActive
    <3>2. CASE WriteReceipt(q)
      <4>1. rpc[q] = "job-metadata.json"
        BY <3>2 DEF WriteReceipt, Move
      <4>2. observed[q] = "DONE" /\ context[q] = Bound(target[q])
        BY <4>1 DEF OutcomesInv, Resulted, BindsInv, ReconcilerActive
      <4>3. QED
        BY <3>2, <4>1, <4>2 DEF WriteReceipt, Move, ReconcilerActive
    <3>3. QED
      BY <1>8, <3>1, <3>2
  <2>3. new \in Receipt
    <3>1. context[q] \in Binding \cup {None}
      BY DEF TypeOKReconciliation
    <3>2. binds \in Binding \cup {None}
      <4>1. observed[q] = "DONE" => binds = context[q]
        BY <2>2 DEF BindsInv
      <4>2. QED
        BY <3>1, <4>1
    <3> HIDE DEF binds
    <3>3. QED
      BY <2>1, <3>2 DEF Receipt, Terminal, Failed
  <2>4. /\ new.submission = target[q] /\ new.outcome = observed[q]
        /\ new.outcome = "DONE" => new.binds = Bound(target[q])
    OBVIOUS
  <2> HIDE DEF new
  <2>5. TypeOKReconciliation'
    BY <1>1, <2>2, <2>3 DEF TypeOKReconciliation, ReconcilerActive
  <2>6. ReceiptsInv'
    BY <1>2, <2>1, <2>2, <2>4 DEF TypeOKReconciliation, ReceiptsInv
  <2>7. OutcomesInv'
    <3>1. /\ rpc'[q] = "written" /\ receipt'[q] = new
          /\ \A r \in Reconcilers : r # q => /\ rpc'[r] = rpc[r]
                                           /\ receipt'[r] = receipt[r]
      BY <2>2 DEF TypeOKReconciliation
    <3>2. UNCHANGED <<jobStatus, target, observed, artifacts>>
      BY <2>2
    <3>3. ASSUME NEW r \in Reconcilers
          PROVE  /\ rpc'[r] \notin Closed =>
                      receipt'[r] = None /\ artifacts'[r] = FilesAt(rpc'[r])
                 /\ rpc'[r] = "fetched" /\ observed'[r] # "PENDING" =>
                      jobStatus'[target'[r]] = observed'[r]
                 /\ rpc'[r] \in Resulted =>
                      observed'[r] = "DONE" /\ jobStatus'[target'[r]] = "DONE"
                 /\ receipt'[r] # None =>
                      /\ receipt'[r].outcome = jobStatus'[receipt'[r].submission]
                      /\ receipt'[r].outcome = "DONE" <=> artifacts'[r] = Files
      <4>1. CASE r = q
        BY <2>1, <2>4, <3>1, <3>2, <4>1 DEF Closed, Resulted
      <4>2. CASE r # q
        BY <3>1, <3>2, <4>2 DEF OutcomesInv
      <4>3. QED
        BY <4>1, <4>2
    <3>4. QED
      BY <3>3 DEF OutcomesInv
  <2>8. BindsInv'
    BY <2>2, <2>4, <1>2 DEF TypeOKReconciliation, BindsInv, ReconcilerActive
  <2>9. QED
    BY <2>5, <2>6, <2>7, <2>8
<1>9. CASE WriteArtifacts(q)
  BY <1>1, <1>7, <1>9 DEF WriteArtifacts, Files, Resulted
<1>10. QED
  BY <1>1, <1>3, <1>4, <1>5, <1>6, <1>8, <1>9 DEF Reconcile

LEMMA ReconcileNextInv == ReconcileInv /\ [ReconcileNext]_allVars => ReconcileInv'
<1> SUFFICES ASSUME ReconcileInv, [ReconcileNext]_allVars PROVE ReconcileInv'
  OBVIOUS
<1>1. CASE UNCHANGED allVars
  BY <1>1, OthersStep
<1>2. CASE Next /\ UNCHANGED <<jobStatus, reconcileVars>>
  BY <1>2, OthersStep
<1>3. QED
  BY <1>1, <1>2, JobEndsStep, ReconcileStep DEF ReconcileNext

LEMMA ReconcileInvariant == ReconcileSpec => []ReconcileInv
<1>1. QED
  BY InitReconcile, ReconcileNextInv, PTL DEF ReconcileSpec

-----------------------------------------------------------------------------
LEMMA GovernedReceipts == ReconcileInv => ReceiptIsGoverned
<1> SUFFICES ASSUME ReconcileInv, NEW q \in Reconcilers, receipt[q] # None
             PROVE  LET s == receipt[q].submission
                        a == qsub[s].approval IN
                      /\ qsub[s] # None
                      /\ job[s] # None
                      /\ job[s].approval = a
                      /\ job[s].isa = SignedIsa[approval[a].plan]
                      /\ InWindow(approval[a], job[s].at)
                      /\ consumption[a].owner = s
                      /\ consumption[a].status \in {"CONSUMED", "SUBMISSION_UNCERTAIN"}
                      /\ receipt[q].outcome = "DONE" =>
                           receipt[q].binds =
                             [approval    |-> a,
                              isa         |-> job[s].isa,
                              consumption |-> [status |-> "CONSUMED", owner |-> s]]
  BY DEF ReceiptIsGoverned
<1> DEFINE s == receipt[q].submission
           a == qsub[s].approval
<1>1. s \in Submissions /\ Governed(s)
  BY DEF ReconcileInv, ReceiptsInv, TypeOKReconciliation, Receipt
<1>2. a \in Approvals /\ approval[a].isa = SignedIsa[approval[a].plan]
  BY <1>1, TimesAreNumbers DEF Governed, ReconcileInv, CoreInv, IInv, ApproversInv
<1>3. job[s].isa = approval[a].isa
  BY <1>1, <1>2, GovernedJob DEF ReconcileInv
<1>4. receipt[q].outcome = "DONE" =>
        receipt[q].binds = [approval    |-> a,
                            isa         |-> job[s].isa,
                            consumption |-> [status |-> "CONSUMED", owner |-> s]]
  BY <1>3 DEF ReconcileInv, BindsInv, Bound
<1>5. QED
  BY <1>1, <1>4, GovernedJob DEF ReconcileInv

(* Types of the files and memories of qexec, for every size.               *)
THEOREM ReconciliationTypeCorrect == ReconcileSpec => []TypeOKReconciliation
<1>1. ReconcileInv => TypeOKReconciliation
  BY DEF ReconcileInv
<1>2. QED
  BY <1>1, ReconcileInvariant, PTL

(* However many runs of submit and qexec race, every receipt stands on an  *)
(* approval that its submission owns and a job IBM took inside its window. *)
THEOREM ReceiptIsGovernedCorrect == ReconcileSpec => []ReceiptIsGoverned
<1>1. QED
  BY GovernedReceipts, ReconcileInvariant, PTL

(* Every receipt says how its job ended, and completed ones are complete.  *)
THEOREM ReceiptIsTrueCorrect == ReconcileSpec => []ReceiptIsTrue
<1>1. ReconcileInv => ReceiptIsTrue
  BY DEF ReconcileInv, OutcomesInv, ReceiptIsTrue
<1>2. QED
  BY <1>1, ReconcileInvariant, PTL

-----------------------------------------------------------------------------
(* verify-chain only adds readers.                                         *)
LEMMA VerifySpecIsReconcileSpec == VerifySpec => ReconcileSpec
<1>1. VerifyInit => ReconcileInit
  BY DEF VerifyInit
<1>2. [VerifyNext]_systemVars => [ReconcileNext]_allVars
  BY DEF VerifyNext, systemVars, LoadIbmChain, VerifyIbmChain, RefuseChain
<1>3. QED
  BY <1>1, <1>2, PTL DEF VerifySpec, ReconcileSpec

(* A verifier past its reading holds a completed receipt.                  *)
ChainsInv ==
  \A v \in Verifiers :
    vpc[v] \in {"loaded", "verified"} =>
      /\ chain[v] \in Reconcilers
      /\ receipt[chain[v]] # None
      /\ receipt[chain[v]].outcome = "DONE"

VerifyInv == TypeOKVerification /\ ReconcileInv /\ ChainsInv

(* A receipt is written once.                                              *)
LEMMA ReceiptsStay ==
  ASSUME ReconcileInv, [ReconcileNext]_allVars, NEW q \in Reconcilers,
         receipt[q] # None
  PROVE  receipt'[q] = receipt[q]
<1>1. ASSUME NEW r \in Reconcilers, WriteFailureReceipt(r) \/ WriteReceipt(r)
      PROVE  receipt'[q] = receipt[q]
  <2>1. rpc[r] \notin Closed
    BY <1>1 DEF WriteFailureReceipt, WriteReceipt, Move, Closed
  <2>2. r # q
    BY <2>1 DEF ReconcileInv, OutcomesInv
  <2>3. QED
    BY <1>1, <2>2 DEF WriteFailureReceipt, WriteReceipt, ReconcileInv,
                      TypeOKReconciliation
<1>2. ASSUME NEW r \in Reconcilers, Reconcile(r)
      PROVE  UNCHANGED receipt \/ WriteFailureReceipt(r) \/ WriteReceipt(r)
  BY <1>2 DEF Reconcile, ReadChain, MatchArtifacts, FindExisting, FetchJob,
              ReturnPending, TakeResult, WriteArtifacts, WriteArtifact,
              ReportReceipt, DenyReconciliation, CrashReconciliation
<1>3. QED
  BY <1>1, <1>2 DEF ReconcileNext, JobEnds

LEMMA VerifyStep == VerifyInv /\ [VerifyNext]_systemVars => VerifyInv'
<1> SUFFICES ASSUME VerifyInv, [VerifyNext]_systemVars PROVE VerifyInv'
  OBVIOUS
<1> USE DEF VerifyInv, systemVars, verifyVars
<1>1. [ReconcileNext]_allVars
  BY DEF VerifyNext, LoadIbmChain, VerifyIbmChain, RefuseChain
<1>2. ReconcileInv' /\ TypeOKReconciliation'
  BY <1>1, ReconcileNextInv DEF ReconcileInv
<1>3. \A q \in Reconcilers : receipt[q] # None => receipt'[q] = receipt[q]
  BY <1>1, ReceiptsStay
<1>4. CASE UNCHANGED verifyVars
  BY <1>2, <1>3, <1>4 DEF TypeOKVerification, ChainsInv
<1>5. ASSUME NEW v \in Verifiers, NEW q \in Reconcilers, LoadIbmChain(v, q)
      PROVE  VerifyInv'
  BY <1>2, <1>3, <1>5 DEF LoadIbmChain, RecordsAgree, TypeOKVerification, ChainsInv
<1>6. ASSUME NEW v \in Verifiers, VerifyIbmChain(v) \/ RefuseChain(v)
      PROVE  VerifyInv'
  BY <1>2, <1>3, <1>6 DEF VerifyIbmChain, RefuseChain, TypeOKVerification, ChainsInv
<1>7. QED
  BY <1>4, <1>5, <1>6 DEF VerifyNext

LEMMA VerifyInvariant == VerifySpec => []VerifyInv
<1>1. VerifyInit => VerifyInv
  BY InitReconcile
     DEF VerifyInit, VerifyInv, TypeOKVerification, ReconcileInv, ChainsInv
<1>2. QED
  BY <1>1, VerifyStep, PTL DEF VerifySpec

(* A chain reported verified is the only job IBM ever had for its approval,*)
(* done, on the signed circuit, inside the window, for the owner.          *)
THEOREM VerifiedIsTheGovernedJobCorrect == VerifySpec => []VerifiedIsTheGovernedJob
<1>1. ASSUME VerifyInv, NEW v \in Verifiers, vpc[v] = "verified"
      PROVE  LET s == receipt[chain[v]].submission
                 a == qsub[s].approval IN
               /\ \A t \in Submissions :
                    job[t] # None /\ job[t].approval = a <=> t = s
               /\ jobStatus[s] = "DONE"
               /\ job[s].isa = SignedIsa[approval[a].plan]
               /\ InWindow(approval[a], job[s].at)
               /\ consumption[a].owner = s
  <2> DEFINE s == receipt[chain[v]].submission
             a == qsub[s].approval
  <2>1. /\ receipt[chain[v]] # None
        /\ chain[v] \in Reconcilers
        /\ receipt[chain[v]].outcome = "DONE"
    BY <1>1 DEF VerifyInv, ChainsInv
  <2>2. s \in Submissions /\ Governed(s) /\ jobStatus[s] = "DONE"
    BY <1>1, <2>1 DEF VerifyInv, ReconcileInv, ReceiptsInv, OutcomesInv,
                      TypeOKReconciliation, Receipt
  <2>3. /\ job[s] # None
        /\ job[s].approval = a
        /\ job[s].isa = SignedIsa[approval[a].plan]
        /\ InWindow(approval[a], job[s].at)
        /\ consumption[a].owner = s
    BY <1>1, <2>2, GovernedJob DEF VerifyInv, ReconcileInv
  <2>4. ASSUME NEW t \in Submissions, job[t] # None, job[t].approval = a
        PROVE  t = s
    <3>1. t \in sent /\ job[t].approval = using[t]
      BY <1>1, <2>4 DEF VerifyInv, ReconcileInv, CoreInv, IInv, JobsInv
    <3>2. consumption[using[t]].owner = t
      BY <1>1, <3>1 DEF VerifyInv, ReconcileInv, CoreInv, IInv, ClaimsInv
    <3>3. QED
      BY <2>3, <2>4, <3>1, <3>2
  <2>5. QED
    BY <2>2, <2>3, <2>4
<1>2. VerifyInv => VerifiedIsTheGovernedJob
  BY <1>1 DEF VerifiedIsTheGovernedJob
<1>3. QED
  BY <1>2, VerifyInvariant, PTL

(* What qexec attests, verify-chain accepts: the checks of the one command *)
(* follow from those of the other and from what the invariant keeps.       *)
THEOREM CompletedReceiptVerifiesCorrect == VerifySpec => []CompletedReceiptVerifies
<1>1. ASSUME VerifyInv, NEW q \in Reconcilers, receipt[q] # None,
             receipt[q].outcome = "DONE"
      PROVE  LET s == receipt[q].submission
                 a == qsub[s].approval
                 p == approval[a].plan IN
               (/\ planFile[p] = "intact"
                /\ isaFile[p] = SignedIsa[p]
                /\ a \in keyFile
                /\ consumption[a].status = "CONSUMED")
               => RecordsAgree(q) /\ ArtifactsAgree(q)
  <2> DEFINE s == receipt[q].submission
             a == qsub[s].approval
             p == approval[a].plan
  <2>1. /\ s \in Submissions
        /\ Governed(s)
        /\ receipt[q].binds = Bound(s)
        /\ artifacts[q] = Files
    BY <1>1 DEF VerifyInv, ReconcileInv, ReceiptsInv, BindsInv, OutcomesInv,
                TypeOKReconciliation, Receipt
  <2>2. /\ receipt[q].binds.approval = a
        /\ receipt[q].binds.isa = approval[a].isa
        /\ receipt[q].binds.consumption = [status |-> "CONSUMED", owner |-> s]
    BY <2>1 DEF Bound
  <2>3. a \in Approvals
    BY <2>1, TimesAreNumbers, <1>1 DEF Governed, VerifyInv, ReconcileInv, CoreInv, IInv
  <2>4. approval[a] # None /\ approval[a].isa = SignedIsa[p]
    BY <1>1, <2>1, <2>3 DEF Governed, VerifyInv, ReconcileInv, CoreInv, IInv,
                            ApproversInv
  <2>5. ASSUME consumption[a].status = "CONSUMED"
        PROVE  consumption[a] = [status |-> "CONSUMED", owner |-> s]
    <3>1. consumption[a] \in [status : Statuses, owner : Submissions \cup {None}]
      BY <1>1, <2>3 DEF VerifyInv, ReconcileInv, CoreInv, IInv, TypeOK
    <3>2. consumption[a].owner = s
      BY <2>1 DEF Governed
    <3>3. QED
      BY <2>5, <3>1, <3>2
  <2>6. ASSUME planFile[p] = "intact", consumption[a].status = "CONSUMED"
        PROVE  RecordsAgree(q)
    BY <1>1, <2>1, <2>2, <2>4, <2>5, <2>6 DEF RecordsAgree, Governed
  <2>7. ASSUME isaFile[p] = SignedIsa[p], a \in keyFile
        PROVE  ArtifactsAgree(q)
    BY <2>1, <2>2, <2>4, <2>7 DEF ArtifactsAgree, Governed, InWindow
  <2>8. QED
    BY <2>6, <2>7
<1>2. VerifyInv => CompletedReceiptVerifies
  BY <1>1 DEF CompletedReceiptVerifies
<1>3. QED
  BY <1>2, VerifyInvariant, PTL
-----------------------------------------------------------------------------
(* What the invariant says of jobs and receipts, in the model's own words. *)
LEMMA VerifyInvImplies ==
  ASSUME VerifyInv
  PROVE  /\ AtMostOneJob /\ JobRunsSignedCircuit /\ ApprovalBindsSignedCircuit
         /\ ReceiptIsGoverned /\ ReceiptIsTrue
<1> USE DEF VerifyInv, ReconcileInv, CoreInv, IInv
<1>1. \A s \in Submissions : job[s] # None => consumption[job[s].approval].owner = s
  BY DEF JobsInv, ClaimsInv
<1>2. AtMostOneJob
  BY <1>1 DEF AtMostOneJob
<1>3. JobRunsSignedCircuit /\ ApprovalBindsSignedCircuit
  BY DEF TypeOK, ApproversInv, RunsInv, JobsInv, JobRunsSignedCircuit,
         ApprovalBindsSignedCircuit
<1>4. ReceiptIsGoverned
  BY GovernedReceipts
<1>5. ReceiptIsTrue
  BY DEF OutcomesInv, ReceiptIsTrue
<1> QED
  BY <1>2, <1>3, <1>4, <1>5

(* A step of submit or of IBM brings one job at most, for a request that   *)
(* had none.                                                               *)
LEMMA JobWrites ==
  ASSUME SubmitNext
  PROVE  /\ approval' = approval
         /\ \/ job' = job
            \/ \E s \in Submissions : \E new :
                 job[s] = None /\ job' = [job EXCEPT ![s] = new]
<1>1. ASSUME NEW s \in Submissions, Preflight(s)
      PROVE  UNCHANGED <<approval, job>>
  BY <1>1 DEF Preflight, ReadApproval, MatchBinding, CheckUnused, LoadIsaBytes,
              StopAtPreflight
<1>2. ASSUME NEW s \in Submissions, Execute(s)
      PROVE  UNCHANGED <<approval, job>>
  BY <1>2 DEF Execute, LiveCheck, Confirm, WriteIntent, OpenClaim, FillClaim,
              LoadCircuit, CallIbm, CallReturns, WriteSubmission, WriteConsumed, Report
<1>3. ASSUME NEW s \in Submissions, Handler(s) \/ Crash(s)
      PROVE  UNCHANGED <<approval, job>>
  BY <1>3 DEF Handler, RaiseDenied, RaiseUncertain, WriteUncertain, WriteFailure,
              HandlerRaises, Crash
<1>4. ASSUME NEW s \in Submissions, IbmAccepts(s)
      PROVE  /\ approval' = approval
             /\ \E new : job[s] = None /\ job' = [job EXCEPT ![s] = new]
  BY <1>4 DEF IbmAccepts
<1> QED
  BY <1>1, <1>2, <1>3, <1>4 DEF SubmitNext, Run

(* What one step of approve, submit, IBM, qexec or verify-chain adds to    *)
(* what the others read: an approval, a job, a receipt or a verdict, where *)
(* there was none, and never two of them.                                  *)
LEMMA HardwareWrites ==
  ASSUME VerifyInv, [VerifyNext]_systemVars
  PROVE  \/ /\ UNCHANGED <<approval, job, receipt>>
            /\ \A v \in Verifiers :
                 /\ vpc'[v] = "verified" <=> vpc[v] = "verified"
                 /\ vpc[v] = "verified" => chain'[v] = chain[v]
         \/ /\ UNCHANGED <<job, receipt, vpc, chain>>
            /\ \E a \in Approvals :
                 /\ approval[a] = None /\ draft[a] # None
                 /\ approval' = [approval EXCEPT ![a] = draft[a]]
         \/ /\ UNCHANGED <<approval, receipt, vpc, chain>>
            /\ \E s \in Submissions : \E new :
                 job[s] = None /\ job' = [job EXCEPT ![s] = new]
         \/ /\ UNCHANGED <<approval, job, vpc, chain>>
            /\ \E q \in Reconcilers : \E new :
                 receipt[q] = None /\ receipt' = [receipt EXCEPT ![q] = new]
         \/ /\ UNCHANGED <<approval, job, receipt, chain>>
            /\ \E v \in Verifiers :
                 vpc[v] = "loaded" /\ vpc' = [vpc EXCEPT ![v] = "verified"]
<1> USE DEF VerifyInv, verifyVars
<1>1. ASSUME IssuanceNext, UNCHANGED submitVars
      PROVE  /\ job' = job
             /\ \/ approval' = approval
                \/ \E a \in Approvals :
                     /\ approval[a] = None /\ draft[a] # None
                     /\ approval' = [approval EXCEPT ![a] = draft[a]]
  <2>1. ASSUME NEW a \in Approvals, PublishApproval(a)
        PROVE  /\ approval[a] = None /\ draft[a] # None
               /\ approval' = [approval EXCEPT ![a] = draft[a]]
    BY <2>1 DEF PublishApproval, ReconcileInv, CoreInv, IInv, ApproversInv
  <2> QED
    BY <1>1, <2>1 DEF IssuanceNext, Tick, EditPlan, EditIsa, CheckPlan, DraftApproval,
                      PublishKey, DenyApproval, FailApproval, CrashApproval
<1>2. ASSUME NEW q \in Reconcilers, Reconcile(q)
      PROVE  /\ UNCHANGED <<approval, job>>
             /\ \/ receipt' = receipt
                \/ \E new : receipt[q] = None /\ receipt' = [receipt EXCEPT ![q] = new]
  <2>1. ASSUME WriteFailureReceipt(q) \/ WriteReceipt(q)
        PROVE  /\ UNCHANGED <<approval, job>>
               /\ \E new : receipt[q] = None /\ receipt' = [receipt EXCEPT ![q] = new]
    <3>1. receipt[q] = None
      BY <2>1 DEF WriteFailureReceipt, WriteReceipt, Move, Closed, ReconcileInv,
                  OutcomesInv
    <3> QED
      BY <2>1, <3>1 DEF WriteFailureReceipt, WriteReceipt
  <2> QED
    BY <1>2, <2>1 DEF Reconcile, ReadChain, MatchArtifacts, FindExisting, FetchJob,
              ReturnPending, TakeResult, WriteArtifacts, WriteArtifact,
              ReportReceipt, DenyReconciliation, CrashReconciliation
<1>3. CASE ReconcileNext /\ UNCHANGED verifyVars
  <2>1. CASE Next /\ UNCHANGED <<jobStatus, reconcileVars>>
    BY <1>1, <1>3, <2>1, JobWrites DEF Next
  <2>2. CASE \E s \in Submissions : JobEnds(s)
    BY <1>3, <2>2 DEF JobEnds
  <2> QED
    BY <1>2, <1>3, <2>1, <2>2 DEF ReconcileNext
<1>4. ASSUME NEW v \in Verifiers, NEW q \in Reconcilers, LoadIbmChain(v, q)
      PROVE  /\ UNCHANGED <<approval, job, receipt>>
             /\ \A w \in Verifiers :
                  /\ vpc'[w] = "verified" <=> vpc[w] = "verified"
                  /\ vpc[w] = "verified" => chain'[w] = chain[w]
  BY <1>4 DEF LoadIbmChain, TypeOKVerification
<1>5. ASSUME NEW v \in Verifiers, VerifyIbmChain(v)
      PROVE  /\ UNCHANGED <<approval, job, receipt, chain>>
             /\ vpc[v] = "loaded" /\ vpc' = [vpc EXCEPT ![v] = "verified"]
  BY <1>5 DEF VerifyIbmChain
<1>6. ASSUME NEW v \in Verifiers, RefuseChain(v)
      PROVE  /\ UNCHANGED <<approval, job, receipt, chain>>
             /\ \A w \in Verifiers : vpc'[w] = "verified" <=> vpc[w] = "verified"
  BY <1>6 DEF RefuseChain, TypeOKVerification
<1>7. CASE UNCHANGED systemVars
  BY <1>7 DEF systemVars
<1> QED
  BY <1>3, <1>4, <1>5, <1>6, <1>7 DEF VerifyNext
=============================================================================
