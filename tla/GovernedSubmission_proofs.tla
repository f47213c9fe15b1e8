---------------------- MODULE GovernedSubmission_proofs ----------------------
(***************************************************************************)
(* Proofs, for every set of approvals, runs, plans, circuits and every     *)
(* bound of the clock, that GovernedSubmission keeps its safety promises   *)
(* and implements SingleUseApproval.                                       *)
(***************************************************************************)
EXTENDS GovernedSubmission, TLAPS

(* The inductive invariant.  An approve command holds a payload that binds *)
(* the signed circuit, and publishes once.                                 *)
ApproversInv ==
  \A a \in Approvals :
    /\ approver[a] \in {"idle", "checking", "challenge"} => approval[a] = None
    /\ approver[a] \in {"checking", "challenge"} =>
         /\ draft[a] # None
         /\ draft[a].isa = SignedIsa[draft[a].plan]
    /\ approval[a] # None => approval[a].isa = SignedIsa[approval[a].plan]

(* A run in progress, or one whose request is out, works for a published   *)
(* approval, from the moment it is past preflight with its bound circuit.  *)
BeforeLoad == {"windowed", "matched", "unused"}

RunsInv ==
  \A s \in Submissions :
    /\ pc[s] \in Active \/ s \in sent =>
         /\ using[s] # None
         /\ bound[s] # None
         /\ approval[using[s]] = bound[s]
    /\ pc[s] \in Active \ BeforeLoad \/ s \in sent =>
         circuit[s] # None /\ circuit[s] = bound[s].isa

(* A run between its claim and its end owns its approval's consumption,    *)
(* and the status is the one it wrote last; so does a run that sent.       *)
StatusAt(p) ==
  CASE p = "opened"   -> "PARTIAL"
    [] p = "consumed" -> "CONSUMED"
    [] p = "marked"   -> "SUBMISSION_UNCERTAIN"
    [] OTHER          -> "CLAIMED"

ClaimsInv ==
  /\ \A a \in Approvals :
       consumption[a].owner = None <=> consumption[a].status = "ABSENT"
  /\ \A s \in Submissions :
       /\ pc[s] \in {"opened", "claimed", "loaded"} \cup AfterCall \cup Handling =>
            consumption[using[s]].owner = s
       /\ pc[s] \in {"opened", "claimed", "loaded", "marked"} \cup AfterCall =>
            consumption[using[s]].status = StatusAt(pc[s])
       /\ pc[s] \in {"intended", "opened", "claimed", "loaded"} => s \in intents
       /\ pc[s] \in AfterCall \cup Handling => s \in sent
       /\ s \in sent =>
            /\ pc[s] \notin {"idle"} \cup BeforeCall
            /\ s \in intents
            /\ consumption[using[s]].owner = s
            /\ consumption[using[s]].status \notin {"ABSENT", "PARTIAL"}

(* A job is its request's job; a run that says it was accepted has one.    *)
JobsInv ==
  /\ \A s \in Submissions :
       /\ job[s] # None =>
            /\ s \in sent
            /\ job[s].approval = using[s]
            /\ job[s].isa = circuit[s]
            /\ job[s].at <= clock
       /\ pc[s] \in {"accepted", "recorded"} =>
            job[s] # None /\ job[s].at <= stamp[s]
       /\ pc[s] = "recorded" =>
            qsub[s] = [approval |-> using[s], createdAt |-> stamp[s]]
  /\ ConsumedIsBacked

IInv == TypeOK /\ ApproversInv /\ RunsInv /\ ClaimsInv /\ JobsInv

USE DEF issuanceVars, fileVars, approveVars, runVars, recordVars, ibmVars,
        submitVars, vars

-----------------------------------------------------------------------------
LEMMA InitInv == Init => IInv
<1> SUFFICES ASSUME Init PROVE IInv
  OBVIOUS
<1> USE IssuanceAssumption, SubmissionAssumption DEF Init, IssuanceInit
<1>1. TypeOK
  BY DEF TypeOK, TypeOKIssuance, Payload, ApproverActive, Active, Ended,
         BeforeCall, AfterCall, Handling, Statuses
<1>2. ApproversInv
  BY DEF ApproversInv
<1>3. RunsInv
  BY DEF RunsInv, Active, BeforeCall, AfterCall, Handling
<1>4. ClaimsInv
  BY DEF ClaimsInv, BeforeCall, AfterCall, Handling
<1>5. JobsInv
  BY DEF JobsInv, ConsumedIsBacked
<1>6. QED
  BY <1>1, <1>2, <1>3, <1>4, <1>5 DEF IInv

-----------------------------------------------------------------------------
(* Steps of the approve command and of the environment.                    *)

(* What the submit command can see of them: an approval that is published  *)
(* stays as it is, and time does not go back.                              *)
LEMMA IssuanceStep ==
  ASSUME TypeOK, ApproversInv, IssuanceNext, UNCHANGED submitVars
  PROVE  /\ TypeOK'
         /\ ApproversInv'
         /\ \A a \in Approvals : approval[a] # None => approval'[a] = approval[a]
         /\ clock <= clock'
<1> DEFINE Frame == /\ \A a \in Approvals :
                         approval[a] # None => approval'[a] = approval[a]
                    /\ clock <= clock'
<1> USE IssuanceAssumption DEF TypeOK, TypeOKIssuance, Statuses
<1>1. ASSUME Tick PROVE TypeOK' /\ ApproversInv' /\ Frame
  BY <1>1 DEF Tick, ApproversInv
<1>2. ASSUME NEW p \in Plans, EditPlan(p)
      PROVE  TypeOK' /\ ApproversInv' /\ Frame
  BY <1>2 DEF EditPlan, ApproversInv
<1>3. ASSUME NEW p \in Plans, NEW c \in Circuits, EditIsa(p, c)
      PROVE  TypeOK' /\ ApproversInv' /\ Frame
  BY <1>3 DEF EditIsa, ApproversInv
<1>4. ASSUME NEW a \in Approvals, NEW p \in Plans, CheckPlan(a, p)
      PROVE  TypeOK' /\ ApproversInv' /\ Frame
  <2> DEFINE new == [plan |-> p, isa |-> isaFile[p],
                     notBefore |-> 0, expiresAt |-> 0]
  <2>1. new \in Payload /\ new.isa = SignedIsa[p] /\ new.plan = p
    BY <1>4 DEF CheckPlan, VerifiedArtifact, Payload
  <2>2. draft' = [draft EXCEPT ![a] = new]
    BY <1>4 DEF CheckPlan
  <2> HIDE DEF new
  <2>3. TypeOK'
    BY <1>4, <2>1, <2>2 DEF CheckPlan, ApproverActive
  <2>4. ApproversInv'
    BY <1>4, <2>1, <2>2 DEF CheckPlan, ApproversInv
  <2>5. QED
    BY <1>4, <2>3, <2>4 DEF CheckPlan
<1>5. ASSUME NEW a \in Approvals, NEW ttl \in Ttls, DraftApproval(a, ttl)
      PROVE  TypeOK' /\ ApproversInv' /\ Frame
  <2> DEFINE new == [plan |-> draft[a].plan, isa |-> draft[a].isa,
                     notBefore |-> clock, expiresAt |-> clock + ttl]
  <2>1. draft[a] \in Payload /\ draft[a].isa = SignedIsa[draft[a].plan]
    BY <1>5 DEF DraftApproval, ApproversInv
  <2>2. draft[a].plan \in Plans /\ draft[a].isa \in Circuits
    BY <2>1 DEF Payload
  <2>3. clock \in Nat /\ clock + ttl \in Nat
    OBVIOUS
  <2>4. new \in Payload /\ new.isa = SignedIsa[new.plan]
    BY <2>1, <2>2, <2>3 DEF Payload
  <2>5. draft' = [draft EXCEPT ![a] = new]
    BY <1>5 DEF DraftApproval
  <2> HIDE DEF new
  <2>6. TypeOK'
    BY <1>5, <2>4, <2>5 DEF DraftApproval, ApproverActive
  <2>7. ApproversInv'
    BY <1>5, <2>4, <2>5 DEF DraftApproval, ApproversInv
  <2>8. QED
    BY <1>5, <2>6, <2>7 DEF DraftApproval
<1>6. ASSUME NEW a \in Approvals, PublishApproval(a)
      PROVE  TypeOK' /\ ApproversInv' /\ Frame
  <2>1. TypeOK'
    BY <1>6 DEF PublishApproval, ApproverActive
  <2>2. ApproversInv'
    BY <1>6 DEF PublishApproval, ApproversInv
  <2>3. Frame
    BY <1>6 DEF PublishApproval, ApproversInv
  <2>4. QED
    BY <2>1, <2>2, <2>3
<1>7. ASSUME NEW a \in Approvals, PublishKey(a)
      PROVE  TypeOK' /\ ApproversInv' /\ Frame
  BY <1>7 DEF PublishKey, ApproversInv, ApproverActive
<1>8. ASSUME NEW a \in Approvals,
             DenyApproval(a) \/ FailApproval(a) \/ CrashApproval(a)
      PROVE  TypeOK' /\ ApproversInv' /\ Frame
  <2>1. /\ \E end \in {"denied", "failed", "crashed"} :
             approver' = [approver EXCEPT ![a] = end]
        /\ UNCHANGED <<clock, fileVars, draft, approval, keyFile>>
    BY <1>8 DEF DenyApproval, FailApproval, CrashApproval
  <2>2. QED
    BY <2>1 DEF ApproversInv
<1>9. QED
  BY <1>1, <1>2, <1>3, <1>4, <1>5, <1>6, <1>7, <1>8 DEF IssuanceNext

LEMMA IssuancePreservesInv ==
  ASSUME IInv, IssuanceNext, UNCHANGED submitVars
  PROVE  IInv'
<1> USE DEF IInv
<1>1. /\ TypeOK'
      /\ ApproversInv'
      /\ \A a \in Approvals : approval[a] # None => approval'[a] = approval[a]
      /\ clock <= clock'
  BY IssuanceStep
<1>2. RunsInv'
  BY <1>1, SubmissionAssumption DEF RunsInv, TypeOK
<1>3. ClaimsInv'
  BY DEF ClaimsInv
<1>4. ConsumedIsBacked'
  BY DEF JobsInv, ConsumedIsBacked
<1>5. \A s \in Submissions : job[s] # None => job[s].at <= clock'
  <2> SUFFICES ASSUME NEW s \in Submissions, job[s] # None
               PROVE  job[s].at <= clock'
    OBVIOUS
  <2>1. job[s].at \in Nat /\ job[s].at <= clock
    BY DEF JobsInv, TypeOK, IbmJob
  <2>2. clock \in Nat /\ clock' \in Nat
    BY <1>1, IssuanceAssumption DEF TypeOK, TypeOKIssuance
  <2>3. QED
    BY <1>1, <2>1, <2>2
<1>6. JobsInv'
  BY <1>4, <1>5 DEF JobsInv
<1>7. QED
  BY <1>1, <1>2, <1>3, <1>6

-----------------------------------------------------------------------------
(* Steps of the submit command and of IBM.                                 *)

(* A step that only moves a run to its next point, with no new duty there. *)
Quiet(s, to) ==
  /\ \/ to \in Ended
     \/ pc[s] = "windowed" /\ to = "matched"
     \/ pc[s] = "matched" /\ to = "unused"
     \/ pc[s] = "preflighted" /\ to = "live"
     \/ pc[s] = "live" /\ to = "confirmed"
     \/ pc[s] = "claimed" /\ to = "loaded"
     \/ pc[s] \in AfterCall /\ to = "handling"
  /\ pc' = [pc EXCEPT ![s] = to]
  /\ UNCHANGED <<issuanceVars, using, bound, circuit, stamp, recordVars, ibmVars>>

LEMMA QuietStep ==
  ASSUME IInv, NEW s \in Submissions, NEW to, Quiet(s, to)
  PROVE  IInv'
<1> USE DEF IInv, Quiet, Active, Ended, BeforeCall, AfterCall, Handling
<1>1. TypeOK'
  BY DEF TypeOK, TypeOKIssuance
<1>2. ApproversInv'
  BY DEF ApproversInv
<1>3. RunsInv'
  BY DEF RunsInv, TypeOK, BeforeLoad
<1>4. ClaimsInv'
  BY DEF ClaimsInv, TypeOK, StatusAt
<1>5. JobsInv'
  BY DEF JobsInv, ConsumedIsBacked, TypeOK
<1>6. QED
  BY <1>1, <1>2, <1>3, <1>4, <1>5

LEMMA QuietActions ==
  ASSUME NEW s \in Submissions,
         \/ MatchBinding(s) \/ CheckUnused(s) \/ StopAtPreflight(s)
         \/ LiveCheck(s) \/ Confirm(s) \/ LoadCircuit(s) \/ Report(s)
         \/ RaiseDenied(s) \/ RaiseUncertain(s) \/ HandlerRaises(s) \/ Crash(s)
  PROVE  \E to : Quiet(s, to)
BY DEF MatchBinding, CheckUnused, StopAtPreflight, LiveCheck, Confirm,
       LoadCircuit, Report, RaiseDenied, RaiseUncertain, HandlerRaises, Crash,
       Goto, Quiet, Ended, Attempted

LEMMA ReadApprovalStep ==
  ASSUME IInv, NEW s \in Submissions, NEW a \in Approvals, ReadApproval(s, a)
  PROVE  IInv'
<1> USE IssuanceAssumption
    DEF IInv, ReadApproval, Goto, Active, Ended, BeforeCall, AfterCall, Handling
<1>1. s \notin sent /\ job[s] = None
  BY DEF ClaimsInv, JobsInv
<1>2. TypeOK'
  BY DEF TypeOK, TypeOKIssuance
<1>3. ApproversInv'
  BY DEF ApproversInv
<1>4. RunsInv'
  BY <1>1 DEF RunsInv, TypeOK, TypeOKIssuance, BeforeLoad
<1>5. ClaimsInv'
  BY <1>1 DEF ClaimsInv, TypeOK, StatusAt
<1>6. JobsInv'
  BY <1>1 DEF JobsInv, ConsumedIsBacked, TypeOK
<1>7. QED
  BY <1>2, <1>3, <1>4, <1>5, <1>6

LEMMA LoadIsaBytesStep ==
  ASSUME IInv, NEW s \in Submissions, LoadIsaBytes(s)
  PROVE  IInv'
<1> USE IssuanceAssumption
    DEF IInv, LoadIsaBytes, Goto, Active, Ended, BeforeCall, AfterCall, Handling
<1>1. s \notin sent /\ job[s] = None
  BY DEF ClaimsInv, JobsInv
<1>2. bound[s] \in Payload /\ bound[s].plan \in Plans
  BY DEF RunsInv, TypeOK, Payload
<1>3. isaFile[bound[s].plan] \in Circuits
  BY <1>2 DEF TypeOK, TypeOKIssuance
<1>4. TypeOK'
  BY <1>3 DEF TypeOK, TypeOKIssuance
<1>5. ApproversInv'
  BY DEF ApproversInv
<1>6. RunsInv'
  BY <1>1, <1>3 DEF RunsInv, TypeOK, BeforeLoad
<1>7. ClaimsInv'
  BY <1>1 DEF ClaimsInv, TypeOK, StatusAt
<1>8. JobsInv'
  BY <1>1 DEF JobsInv, ConsumedIsBacked, TypeOK
<1>9. QED
  BY <1>4, <1>5, <1>6, <1>7, <1>8

LEMMA WriteIntentStep ==
  ASSUME IInv, NEW s \in Submissions, WriteIntent(s)
  PROVE  IInv'
<1> USE DEF IInv, WriteIntent, Goto, Active, Ended, BeforeCall, AfterCall, Handling
<1>1. TypeOK'
  BY DEF TypeOK, TypeOKIssuance
<1>2. ApproversInv'
  BY DEF ApproversInv
<1>3. RunsInv'
  BY DEF RunsInv, TypeOK, BeforeLoad
<1>4. ClaimsInv'
  BY DEF ClaimsInv, TypeOK, StatusAt
<1>5. JobsInv'
  BY DEF JobsInv, ConsumedIsBacked, TypeOK
<1>6. QED
  BY <1>1, <1>2, <1>3, <1>4, <1>5

(* The four writes of consumption.json.  Each needs that nobody else owns  *)
(* the file: it is absent, or the writer owns it already.                  *)
Writes(s, from, to, status) ==
  /\ \/ from = "intended" /\ to = "opened" /\ status = "PARTIAL"
     \/ from = "opened" /\ to = "claimed" /\ status = "CLAIMED"
     \/ from = "recorded" /\ to = "consumed" /\ status = "CONSUMED"
     \/ from = "handling" /\ to = "marked" /\ status = "SUBMISSION_UNCERTAIN"
  /\ from = "intended" => consumption[using[s]].status = "ABSENT"
  /\ Goto(s, from, to)
  /\ consumption' = [consumption EXCEPT ![using[s]] =
                       [status |-> status, owner |-> s]]
  /\ UNCHANGED <<issuanceVars, using, bound, circuit, stamp,
                 intents, qsub, failures, ibmVars>>

LEMMA WriteActions ==
  ASSUME NEW s \in Submissions,
         OpenClaim(s) \/ FillClaim(s) \/ WriteConsumed(s) \/ WriteUncertain(s)
  PROVE  \E from, to, status : Writes(s, from, to, status)
BY DEF OpenClaim, FillClaim, WriteConsumed, WriteUncertain, Goto, Writes

LEMMA ConsumptionStep ==
  ASSUME IInv, NEW s \in Submissions, NEW from, NEW to, NEW status,
         Writes(s, from, to, status)
  PROVE  IInv'
<1> USE SubmissionAssumption
    DEF IInv, Writes, Goto, Active, Ended, BeforeCall, AfterCall, Handling
<1>1. /\ using[s] \in Approvals
      /\ status \in Statuses \ {"ABSENT"}
      /\ consumption[using[s]].owner \in {None, s}
  BY DEF RunsInv, ClaimsInv, TypeOK, Statuses
<1> DEFINE a == using[s]
           new == [status |-> status, owner |-> s]
<1>2. new \in [status : Statuses, owner : Submissions \cup {None}]
  BY <1>1
<1>3. /\ consumption' = [consumption EXCEPT ![a] = new]
      /\ new.status = status /\ new.owner = s
  OBVIOUS
<1>4. /\ consumption'[a].status = status
      /\ consumption'[a].owner = s
      /\ \A b \in Approvals : b # a => consumption'[b] = consumption[b]
  BY <1>1, <1>3 DEF TypeOK
<1>5. TypeOK'
  BY <1>1, <1>2, <1>3 DEF TypeOK, TypeOKIssuance
<1>6. ApproversInv'
  BY DEF ApproversInv
<1>7. RunsInv'
  BY DEF RunsInv, TypeOK, BeforeLoad
<1>8. ClaimsInv'
  BY <1>1, <1>4 DEF ClaimsInv, RunsInv, TypeOK, StatusAt
<1>9. JobsInv'
  <2>1. ASSUME NEW b \in Approvals, consumption'[b].status = "CONSUMED"
        PROVE  LET t == consumption'[b].owner IN
                 /\ qsub[t] # None
                 /\ qsub[t].approval = b
                 /\ job[t] # None
                 /\ job[t].approval = b
                 /\ job[t].at <= qsub[t].createdAt
    <3>1. CASE b # a
      BY <1>4, <2>1, <3>1 DEF JobsInv, ConsumedIsBacked
    <3>2. CASE b = a
      <4>1. pc[s] = "recorded"
        BY <1>4, <2>1, <3>2
      <4>2. /\ qsub[s] = [approval |-> a, createdAt |-> stamp[s]]
            /\ job[s] # None
            /\ job[s].approval = a
            /\ job[s].at <= stamp[s]
        BY <4>1 DEF JobsInv
      <4>3. qsub[s] # None
        BY <1>1, <4>2, IssuanceAssumption DEF QsubRecord, TypeOK
      <4>4. QED
        BY <1>4, <3>2, <4>2, <4>3
    <3>3. QED
      BY <3>1, <3>2
  <2>2. ConsumedIsBacked'
    BY <2>1 DEF ConsumedIsBacked
  <2>3. QED
    BY <2>2 DEF JobsInv, TypeOK
<1>10. QED
  BY <1>5, <1>6, <1>7, <1>8, <1>9

LEMMA CallIbmStep ==
  ASSUME IInv, NEW s \in Submissions, CallIbm(s)
  PROVE  IInv'
<1> USE DEF IInv, CallIbm, Goto, Active, Ended, BeforeCall, AfterCall, Handling
<1>1. TypeOK'
  BY DEF TypeOK, TypeOKIssuance
<1>2. ApproversInv'
  BY DEF ApproversInv
<1>3. RunsInv'
  BY DEF RunsInv, TypeOK, BeforeLoad
<1>4. ClaimsInv'
  BY DEF ClaimsInv, TypeOK, StatusAt
<1>5. JobsInv'
  BY DEF JobsInv, ConsumedIsBacked, TypeOK
<1>6. QED
  BY <1>1, <1>2, <1>3, <1>4, <1>5

LEMMA IbmAcceptsStep ==
  ASSUME IInv, NEW s \in Submissions, IbmAccepts(s)
  PROVE  IInv'
<1> USE DEF IInv, IbmAccepts
<1> DEFINE new == [approval |-> using[s], isa |-> circuit[s], at |-> clock]
<1>1. /\ using[s] \in Approvals
      /\ circuit[s] \in Circuits
      /\ clock \in Nat
  BY IssuanceAssumption DEF RunsInv, TypeOK, TypeOKIssuance
<1>2. /\ new \in IbmJob
      /\ new.approval = using[s] /\ new.isa = circuit[s] /\ new.at = clock
  BY <1>1 DEF IbmJob
<1>3. /\ job'[s] = new
      /\ \A t \in Submissions : t # s => job'[t] = job[t]
      /\ job' \in [Submissions -> IbmJob \cup {None}]
  BY <1>2 DEF TypeOK
<1> HIDE DEF new
<1>4. TypeOK'
  BY <1>3 DEF TypeOK, TypeOKIssuance
<1>5. ApproversInv'
  BY DEF ApproversInv
<1>6. RunsInv'
  BY DEF RunsInv
<1>7. ClaimsInv'
  BY DEF ClaimsInv
<1>8. ConsumedIsBacked'
  BY <1>3 DEF JobsInv, ConsumedIsBacked, ClaimsInv, TypeOK
<1>9. JobsInv'
  BY <1>1, <1>2, <1>3, <1>8 DEF JobsInv, TypeOK
<1>10. QED
  BY <1>4, <1>5, <1>6, <1>7, <1>9

LEMMA CallReturnsStep ==
  ASSUME IInv, NEW s \in Submissions, CallReturns(s)
  PROVE  IInv'
<1> USE DEF IInv, CallReturns, Goto, Active, Ended, BeforeCall, AfterCall, Handling
<1>1. TypeOK'
  BY DEF TypeOK, TypeOKIssuance
<1>2. ApproversInv'
  BY DEF ApproversInv
<1>3. RunsInv'
  BY DEF RunsInv, TypeOK, BeforeLoad
<1>4. ClaimsInv'
  BY DEF ClaimsInv, TypeOK, StatusAt
<1>5. JobsInv'
  BY DEF JobsInv, ConsumedIsBacked, TypeOK
<1>6. QED
  BY <1>1, <1>2, <1>3, <1>4, <1>5

LEMMA WriteSubmissionStep ==
  ASSUME IInv, NEW s \in Submissions, WriteSubmission(s)
  PROVE  IInv'
<1> USE DEF IInv, WriteSubmission, Goto, Active, Ended, BeforeCall, AfterCall,
            Handling
<1> DEFINE new == [approval |-> using[s], createdAt |-> stamp[s]]
<1>1. using[s] \in Approvals /\ stamp[s] \in Nat
  BY IssuanceAssumption DEF RunsInv, TypeOK
<1>2. /\ new \in QsubRecord
      /\ qsub' = [qsub EXCEPT ![s] = new]
  BY <1>1 DEF QsubRecord
<1>3. consumption[using[s]].status = "CLAIMED" /\ consumption[using[s]].owner = s
  BY DEF ClaimsInv, StatusAt
<1>4. TypeOK'
  BY <1>2 DEF TypeOK, TypeOKIssuance
<1>5. ApproversInv'
  BY DEF ApproversInv
<1>6. RunsInv'
  BY DEF RunsInv, TypeOK, BeforeLoad
<1>7. ClaimsInv'
  BY DEF ClaimsInv, TypeOK, StatusAt
<1>8. ConsumedIsBacked'
  <2>1. SUFFICES ASSUME NEW b \in Approvals, consumption[b].status = "CONSUMED"
                 PROVE  consumption[b].owner # s
    BY <1>2 DEF JobsInv, ConsumedIsBacked, TypeOK
  <2>2. job[s].approval = using[s]
    BY DEF JobsInv
  <2>3. consumption[b].owner = s => job[s].approval = b
    BY <2>1 DEF JobsInv, ConsumedIsBacked
  <2>4. QED
    BY <1>3, <2>1, <2>2, <2>3
<1>9. JobsInv'
  BY <1>2, <1>8 DEF JobsInv, TypeOK
<1>10. QED
  BY <1>4, <1>5, <1>6, <1>7, <1>9

LEMMA WriteFailureStep ==
  ASSUME IInv, NEW s \in Submissions, WriteFailure(s)
  PROVE  IInv'
<1> USE DEF IInv, WriteFailure, Goto, Active, Ended, BeforeCall, AfterCall,
            Handling
<1>1. TypeOK'
  BY DEF TypeOK, TypeOKIssuance
<1>2. ApproversInv'
  BY DEF ApproversInv
<1>3. RunsInv'
  BY DEF RunsInv, TypeOK, BeforeLoad
<1>4. ClaimsInv'
  BY DEF ClaimsInv, TypeOK, StatusAt
<1>5. JobsInv'
  BY DEF JobsInv, ConsumedIsBacked, TypeOK
<1>6. QED
  BY <1>1, <1>2, <1>3, <1>4, <1>5

-----------------------------------------------------------------------------
LEMMA StepInv == IInv /\ [Next]_vars => IInv'
<1> SUFFICES ASSUME IInv, [Next]_vars PROVE IInv'
  OBVIOUS
<1>1. CASE UNCHANGED vars
  BY <1>1 DEF IInv, TypeOK, TypeOKIssuance, ApproversInv, RunsInv, ClaimsInv,
              JobsInv, ConsumedIsBacked
<1>2. CASE IssuanceNext /\ UNCHANGED submitVars
  BY <1>2, IssuancePreservesInv
<1>3. ASSUME NEW s \in Submissions, Run(s) PROVE IInv'
  <2>1. CASE \E a \in Approvals : ReadApproval(s, a)
    BY <2>1, ReadApprovalStep
  <2>2. CASE \/ MatchBinding(s) \/ CheckUnused(s) \/ StopAtPreflight(s)
             \/ LiveCheck(s) \/ Confirm(s) \/ LoadCircuit(s) \/ Report(s)
             \/ RaiseDenied(s) \/ RaiseUncertain(s) \/ HandlerRaises(s)
    BY <2>2, QuietActions, QuietStep
  <2>3. CASE OpenClaim(s) \/ FillClaim(s) \/ WriteConsumed(s) \/ WriteUncertain(s)
    BY <2>3, WriteActions, ConsumptionStep
  <2>4. CASE LoadIsaBytes(s)
    BY <2>4, LoadIsaBytesStep
  <2>5. CASE WriteIntent(s)
    BY <2>5, WriteIntentStep
  <2>6. CASE CallIbm(s)
    BY <2>6, CallIbmStep
  <2>7. CASE CallReturns(s)
    BY <2>7, CallReturnsStep
  <2>8. CASE WriteSubmission(s)
    BY <2>8, WriteSubmissionStep
  <2>9. CASE WriteFailure(s)
    BY <2>9, WriteFailureStep
  <2>10. QED
    BY <1>3, <2>1, <2>2, <2>3, <2>4, <2>5, <2>6, <2>7, <2>8, <2>9
       DEF Run, Preflight, Execute, Handler
<1>4. ASSUME NEW s \in Submissions, IbmAccepts(s) PROVE IInv'
  BY <1>4, IbmAcceptsStep
<1>5. ASSUME NEW s \in Submissions, Crash(s) PROVE IInv'
  BY <1>5, QuietActions, QuietStep
<1>6. QED
  BY <1>1, <1>2, <1>3, <1>4, <1>5 DEF Next, SubmitNext

(* The invariant holds of every reachable state.                           *)
LEMMA Invariant == Spec => []IInv
<1>1. QED
  BY InitInv, StepInv, PTL DEF Spec

-----------------------------------------------------------------------------
(* Type correctness, for every size of the system: every file, every       *)
(* command's memory and IBM's jobs only ever hold values of their kind.    *)
THEOREM TypeCorrect == Spec => []TypeOK
<1>1. IInv => TypeOK
  BY DEF IInv
<1>2. QED
  BY <1>1, Invariant, PTL

(* What an approval binds, for every size: the circuit its plan signs,     *)
(* although the artifact may be edited while approve reads it.             *)
THEOREM ApprovalBindsSignedCircuitCorrect == Spec => []ApprovalBindsSignedCircuit
<1>1. IInv => ApprovalBindsSignedCircuit
  BY DEF IInv, ApproversInv, ApprovalBindsSignedCircuit
<1>2. QED
  BY <1>1, Invariant, PTL

(* Single use: any number of runs of submit, racing, failing, retried or   *)
(* killed, get at most one IBM job out of one approval.                    *)
THEOREM AtMostOneJobCorrect == Spec => []AtMostOneJob
<1>1. ASSUME IInv, NEW s \in Submissions, job[s] # None
      PROVE  consumption[job[s].approval].owner = s
  BY <1>1 DEF IInv, JobsInv, ClaimsInv
<1>2. IInv => AtMostOneJob
  BY <1>1 DEF AtMostOneJob
<1>3. QED
  BY <1>2, Invariant, PTL

(* No request leaves before the intent and a complete claim name its run.  *)
THEOREM EvidenceBeforeBoundaryCorrect == Spec => []EvidenceBeforeBoundary
<1>1. IInv => EvidenceBeforeBoundary
  BY DEF IInv, TypeOK, ClaimsInv, EvidenceBeforeBoundary
<1>2. QED
  BY <1>1, Invariant, PTL

(* A CONSUMED approval has a job at IBM and a durable submission record.   *)
THEOREM ConsumedIsBackedCorrect == Spec => []ConsumedIsBacked
<1>1. IInv => ConsumedIsBacked
  BY DEF IInv, JobsInv
<1>2. QED
  BY <1>1, Invariant, PTL

(* Every job runs the circuit that the plan and the approval signed,       *)
(* however plan and artifact files are edited meanwhile.                   *)
THEOREM JobRunsSignedCircuitCorrect == Spec => []JobRunsSignedCircuit
<1>1. IInv => JobRunsSignedCircuit
  BY DEF IInv, TypeOK, ApproversInv, RunsInv, JobsInv, JobRunsSignedCircuit
<1>2. QED
  BY <1>1, Invariant, PTL

(* What a step may do to consumption.json.                                 *)
LEMMA AdvanceStep ==
  ASSUME IInv, [Next]_vars
  PROVE  \A a \in Approvals :
           /\ consumption[a].owner # None =>
                consumption'[a].owner = consumption[a].owner
           /\ Rank(consumption[a].status) <= Rank(consumption'[a].status)
<1> DEFINE Good == \A a \in Approvals :
             /\ consumption[a].owner # None =>
                  consumption'[a].owner = consumption[a].owner
             /\ Rank(consumption[a].status) <= Rank(consumption'[a].status)
<1> USE DEF IInv
<1>1. CASE UNCHANGED consumption
  <2>1. \A a \in Approvals : Rank(consumption[a].status) \in Nat
    BY DEF Rank
  <2>2. QED
    BY <1>1, <2>1
<1>2. ASSUME NEW s \in Submissions, NEW from, NEW to, NEW status,
             Writes(s, from, to, status)
      PROVE  Good
  <2>1. /\ using[s] \in Approvals
        /\ consumption[using[s]].owner \in {None, s}
    BY <1>2 DEF Writes, Goto, RunsInv, ClaimsInv, TypeOK, Active, BeforeCall,
                AfterCall, Handling
  <2>2. /\ consumption'[using[s]] = [status |-> status, owner |-> s]
        /\ \A b \in Approvals : b # using[s] => consumption'[b] = consumption[b]
    BY <1>2, <2>1 DEF Writes, TypeOK
  <2>3. Rank(consumption[using[s]].status) <= Rank(status)
    <3>1. CASE from = "intended"
      BY <1>2, <3>1 DEF Writes, Rank
    <3>2. CASE from = "opened"
      BY <1>2, <3>2 DEF Writes, Goto, ClaimsInv, StatusAt, Rank
    <3>3. CASE from = "recorded"
      BY <1>2, <3>3 DEF Writes, Goto, ClaimsInv, StatusAt, Rank, AfterCall
    <3>4. CASE from = "handling"
      <4>1. status = "SUBMISSION_UNCERTAIN"
        BY <1>2, <3>4 DEF Writes
      <4>2. QED
        BY <4>1 DEF Rank
    <3>5. QED
      BY <1>2, <3>1, <3>2, <3>3, <3>4 DEF Writes
  <2>4. \A b \in Approvals : Rank(consumption[b].status) \in Nat
    BY DEF Rank
  <2>5. QED
    BY <2>1, <2>2, <2>3, <2>4
<1>3. ASSUME NEW s \in Submissions,
             OpenClaim(s) \/ FillClaim(s) \/ WriteConsumed(s) \/ WriteUncertain(s)
      PROVE  Good
  BY <1>2, <1>3, WriteActions
<1>4. CASE IssuanceNext /\ UNCHANGED submitVars
  BY <1>1, <1>4
<1>5. ASSUME NEW s \in Submissions, Run(s) \/ IbmAccepts(s) \/ Crash(s)
      PROVE  \/ UNCHANGED consumption
             \/ OpenClaim(s) \/ FillClaim(s) \/ WriteConsumed(s) \/ WriteUncertain(s)
  <2>1. CASE Preflight(s)
    BY <2>1 DEF Preflight, ReadApproval, MatchBinding, CheckUnused, LoadIsaBytes,
                StopAtPreflight
  <2>2. CASE Execute(s)
    BY <2>2 DEF Execute, LiveCheck, Confirm, WriteIntent, LoadCircuit, CallIbm,
                CallReturns, WriteSubmission, Report
  <2>3. CASE Handler(s)
    BY <2>3 DEF Handler, RaiseDenied, RaiseUncertain, WriteFailure, HandlerRaises
  <2>4. CASE IbmAccepts(s) \/ Crash(s)
    BY <2>4 DEF IbmAccepts, Crash
  <2>5. QED
    BY <1>5, <2>1, <2>2, <2>3, <2>4 DEF Run
<1>6. QED
  BY <1>1, <1>3, <1>4, <1>5 DEF Next, SubmitNext

(* consumption.json is never freed, never changes hands and its status     *)
(* never goes back, whatever run or handler writes it.                     *)
THEOREM ConsumptionOnlyAdvancesCorrect == Spec => ConsumptionOnlyAdvances
<1>1. IInv /\ [Next]_vars =>
        [\A a \in Approvals :
           /\ consumption[a].owner # None =>
                consumption'[a].owner = consumption[a].owner
           /\ Rank(consumption[a].status) <= Rank(consumption'[a].status)]_vars
  BY AdvanceStep
<1>2. QED
  BY <1>1, Invariant, PTL DEF Spec, ConsumptionOnlyAdvances

-----------------------------------------------------------------------------
(* A run that ended DENIED with a request out: who may disturb its records *)
(* is itself only, and it ended.                                           *)
LEMMA DeniedStep ==
  ASSUME IInv, DeniedCallIsRecorded, [Next]_vars
  PROVE  DeniedCallIsRecorded'
<1> USE DEF IInv
<1> SUFFICES ASSUME NEW s \in Submissions, s \in sent', pc'[s] = "denied"
             PROVE  /\ consumption'[using'[s]] =
                         [status |-> "SUBMISSION_UNCERTAIN", owner |-> s]
                    /\ s \in failures'
  BY StepInv DEF DeniedCallIsRecorded, TypeOK
<1> DEFINE Recorded == /\ consumption[using[s]] =
                            [status |-> "SUBMISSION_UNCERTAIN", owner |-> s]
                       /\ s \in failures
<1>1. s \in sent /\ pc[s] = "denied" => Recorded
  BY DEF DeniedCallIsRecorded
<1>2. s \in sent => /\ using[s] \in Approvals
                    /\ consumption[using[s]].owner = s
                    /\ pc[s] \notin {"idle"} \cup BeforeCall
  BY DEF RunsInv, ClaimsInv, TypeOK
<1>3. CASE UNCHANGED <<pc, using, consumption, failures, sent>>
  BY <1>1, <1>3
<1>4. ASSUME NEW t \in Submissions, NEW to, Quiet(t, to), t # s
      PROVE  Recorded /\ UNCHANGED <<using, consumption, failures>>
  BY <1>1, <1>4 DEF Quiet, TypeOK
<1>5. ASSUME NEW t \in Submissions, NEW from, NEW to, NEW status,
             Writes(t, from, to, status)
      PROVE  consumption'[using'[s]] = consumption[using[s]] /\ Recorded
             /\ UNCHANGED <<using, failures>>
  <2>1. s # t
    BY <1>5 DEF Writes, Goto, TypeOK
  <2>2. s \in sent /\ pc[s] = "denied"
    BY <1>5, <2>1 DEF Writes, Goto, TypeOK
  <2>3. using[t] # using[s]
    BY <1>2, <1>5, <2>1, <2>2, SubmissionAssumption
       DEF Writes, Goto, ClaimsInv, AfterCall, Handling
  <2>4. QED
    BY <1>1, <1>2, <1>5, <2>2, <2>3 DEF Writes, TypeOK
<1>6. ASSUME NEW t \in Submissions, WriteFailure(t)
      PROVE  /\ consumption'[using'[s]] =
                  [status |-> "SUBMISSION_UNCERTAIN", owner |-> s]
             /\ s \in failures'
  <2>1. CASE t # s
    BY <1>1, <1>6, <2>1 DEF WriteFailure, Goto, TypeOK
  <2>2. CASE t = s
    <3>1. /\ consumption[using[s]].owner = s
          /\ consumption[using[s]].status = "SUBMISSION_UNCERTAIN"
          /\ using[s] \in Approvals
      BY <1>6, <2>2 DEF WriteFailure, Goto, ClaimsInv, RunsInv, StatusAt, Handling,
                        Active, TypeOK
    <3>2. consumption[using[s]] \in
            [status : Statuses, owner : Submissions \cup {None}]
      BY <3>1 DEF TypeOK
    <3>3. consumption[using[s]] = [status |-> "SUBMISSION_UNCERTAIN", owner |-> s]
      BY <3>1, <3>2
    <3>4. QED
      BY <1>6, <2>2, <3>3 DEF WriteFailure
  <2>3. QED
    BY <2>1, <2>2
<1>7. ASSUME NEW t \in Submissions,
             \/ RaiseDenied(t) \/ RaiseUncertain(t) \/ HandlerRaises(t) \/ Crash(t)
             \/ MatchBinding(t) \/ CheckUnused(t) \/ StopAtPreflight(t)
             \/ LiveCheck(t) \/ Confirm(t) \/ LoadCircuit(t) \/ Report(t)
      PROVE  Recorded /\ UNCHANGED <<using, consumption, failures>>
  <2>1. CASE t # s
    BY <1>4, <1>7, <2>1, QuietActions
  <2>2. CASE t = s
    <3>1. s \in sent
      BY <1>7 DEF RaiseDenied, RaiseUncertain, HandlerRaises, Crash, MatchBinding,
                  CheckUnused, StopAtPreflight, LiveCheck, Confirm, LoadCircuit,
                  Report
    <3>2. pc[s] \notin BeforeCall
      BY <1>2, <3>1
    <3>3. FALSE
      BY <1>2, <1>7, <2>2, <3>1, <3>2
         DEF RaiseDenied, RaiseUncertain, HandlerRaises, Crash, MatchBinding,
             CheckUnused, StopAtPreflight, LiveCheck, Confirm, LoadCircuit, Report,
             Goto, Attempted, AfterCall, BeforeCall, TypeOK
    <3>4. QED
      BY <3>3
  <2>3. QED
    BY <2>1, <2>2
<1>8. ASSUME NEW t \in Submissions,
             \/ \E a \in Approvals : ReadApproval(t, a)
             \/ LoadIsaBytes(t) \/ WriteIntent(t) \/ CallIbm(t)
             \/ CallReturns(t) \/ WriteSubmission(t)
      PROVE  Recorded /\ using'[s] = using[s] /\ UNCHANGED <<consumption, failures>>
  BY <1>1, <1>8 DEF ReadApproval, LoadIsaBytes, WriteIntent, CallIbm, CallReturns,
                    WriteSubmission, Goto, TypeOK
<1>9. ASSUME NEW t \in Submissions, Run(t) \/ Crash(t)
      PROVE  /\ consumption'[using'[s]] =
                  [status |-> "SUBMISSION_UNCERTAIN", owner |-> s]
             /\ s \in failures'
  <2>1. CASE OpenClaim(t) \/ FillClaim(t) \/ WriteConsumed(t) \/ WriteUncertain(t)
    BY <1>5, <2>1, WriteActions
  <2>2. CASE WriteFailure(t)
    BY <1>6, <2>2
  <2>3. QED
    BY <1>7, <1>8, <1>9, <2>1, <2>2 DEF Run, Preflight, Execute, Handler
<1>10. QED
  BY <1>3, <1>9 DEF Next, SubmitNext, IbmAccepts

(* A DENIED run that had called IBM always left SUBMISSION_UNCERTAIN and   *)
(* failure.json: no code path reports a denial over a bare claim.          *)
THEOREM DeniedCallIsRecordedCorrect == Spec => []DeniedCallIsRecorded
<1>1. Init => DeniedCallIsRecorded
  BY DEF Init, DeniedCallIsRecorded
<1>2. IInv /\ DeniedCallIsRecorded /\ [Next]_vars => DeniedCallIsRecorded'
  BY DeniedStep
<1>3. QED
  BY <1>1, <1>2, Invariant, PTL DEF Spec

-----------------------------------------------------------------------------
(* Refinement: the submit command, its files and IBM implement             *)
(* SingleUseApproval.                                                      *)

Holder   == [a \in Approvals |-> consumption[a].owner]
Jobs     == {<<job[s].approval, s>> : s \in {t \in Submissions : job[t] # None}}
Verdicts == [a \in Approvals |-> Verdict(consumption[a].status)]

LEMMA RefinesInit == Init => SingleUse!Init
BY DEF Init, SingleUse!Init, Verdict

(* What the abstract specification sees changes only when consumption.json *)
(* or the jobs do.                                                         *)
LEMMA RefinesStutter ==
  ASSUME UNCHANGED <<consumption, job>>
  PROVE  UNCHANGED SingleUse!absVars
BY DEF SingleUse!absVars

LEMMA RefinesWrite ==
  ASSUME IInv, NEW s \in Submissions, NEW from, NEW to, NEW status,
         Writes(s, from, to, status)
  PROVE  [SingleUse!Next]_(SingleUse!absVars)
<1> USE DEF IInv
<1> DEFINE a == using[s]
<1>1. a \in Approvals /\ consumption[a].owner \in {None, s}
  BY DEF Writes, Goto, RunsInv, ClaimsInv, TypeOK, Active, BeforeCall,
         AfterCall, Handling
<1>2. /\ consumption'[a].owner = s
      /\ consumption'[a].status = status
      /\ \A b \in Approvals : b # a => consumption'[b] = consumption[b]
  BY <1>1 DEF Writes, TypeOK
<1>3. UNCHANGED Jobs
  BY DEF Writes, Jobs
<1>4. CASE from = "intended"
  <2>1. consumption[a].owner = None /\ status = "PARTIAL"
        /\ consumption[a].status = "ABSENT"
    BY <1>1, <1>4 DEF Writes, ClaimsInv
  <2>2. Holder' = [Holder EXCEPT ![a] = s]
    BY <1>1, <1>2 DEF Holder
  <2>3. UNCHANGED Verdicts
    BY <1>1, <1>2, <2>1 DEF Verdicts, Verdict
  <2>4. SingleUse!Claim(a, s)
    BY <1>1, <1>3, <2>1, <2>2, <2>3
       DEF SingleUse!Claim, Holder, Jobs, Verdicts
  <2>5. QED
    BY <1>1, <2>4 DEF SingleUse!Next
<1>5. CASE from # "intended"
  <2>1. consumption[a].owner = s
    BY <1>5 DEF Writes, Goto, ClaimsInv, AfterCall, Handling
  <2>2. UNCHANGED Holder
    BY <1>1, <1>2, <2>1 DEF Holder
  <2>3. CASE from = "opened"
    <3>1. consumption[a].status = "PARTIAL" /\ status = "CLAIMED"
      BY <2>3 DEF Writes, Goto, ClaimsInv, StatusAt
    <3>2. UNCHANGED Verdicts
      BY <1>1, <1>2, <3>1 DEF Verdicts, Verdict
    <3>3. QED
      BY <1>3, <2>2, <3>2 DEF SingleUse!absVars, Holder, Jobs, Verdicts
  <2>4. CASE from = "recorded"
    <3>1. consumption[a].status = "CLAIMED" /\ status = "CONSUMED"
      BY <2>4 DEF Writes, Goto, ClaimsInv, StatusAt, AfterCall
    <3>2. Verdicts' = [Verdicts EXCEPT ![a] = "consumed"]
      BY <1>1, <1>2, <3>1 DEF Verdicts, Verdict
    <3>3. Verdicts[a] = "open" /\ Holder[a] = s
      BY <1>1, <2>1, <3>1 DEF Verdicts, Verdict, Holder
    <3>4. <<a, s>> \in Jobs
      BY <2>4 DEF Writes, Goto, JobsInv, Jobs
    <3>5. SingleUse!Consume(a)
      BY <1>3, <2>2, <3>2, <3>3, <3>4
         DEF SingleUse!Consume, Holder, Jobs, Verdicts
    <3>6. QED
      BY <1>1, <3>5 DEF SingleUse!Next
  <2>5. CASE from = "handling"
    <3>1. status = "SUBMISSION_UNCERTAIN"
      BY <2>5 DEF Writes
    <3>2. Verdicts' = [Verdicts EXCEPT ![a] = "uncertain"]
      BY <1>1, <1>2, <3>1 DEF Verdicts, Verdict
    <3>3. CASE Verdicts[a] = "uncertain"
      <4>1. UNCHANGED Verdicts
        BY <3>2, <3>3 DEF Verdicts
      <4>2. QED
        BY <1>3, <2>2, <4>1 DEF SingleUse!absVars, Holder, Jobs, Verdicts
    <3>4. CASE Verdicts[a] # "uncertain"
      <4>1. Holder[a] # None
        BY <1>1, <2>1, SubmissionAssumption DEF Holder
      <4>2. SingleUse!Doubt(a)
        BY <1>3, <2>2, <3>2, <3>4, <4>1
           DEF SingleUse!Doubt, Holder, Jobs, Verdicts
      <4>3. QED
        BY <1>1, <4>2 DEF SingleUse!Next
    <3>5. QED
      BY <3>3, <3>4
  <2>6. QED
    BY <1>5, <2>3, <2>4, <2>5 DEF Writes
<1>6. QED
  BY <1>4, <1>5

LEMMA RefinesAccept ==
  ASSUME IInv, NEW s \in Submissions, IbmAccepts(s)
  PROVE  SingleUse!Next
<1> USE DEF IInv, IbmAccepts
<1> DEFINE a == using[s]
<1>1. a \in Approvals /\ circuit[s] \in Circuits /\ clock \in Nat
      /\ consumption[a].owner = s
  BY IssuanceAssumption DEF RunsInv, ClaimsInv, TypeOK, TypeOKIssuance
<1>2. /\ job'[s] # None
      /\ job'[s].approval = a
      /\ \A t \in Submissions : t # s => job'[t] = job[t]
  BY <1>1, SubmissionAssumption DEF TypeOK, IbmJob
<1>3. Jobs' = Jobs \cup {<<a, s>>}
  BY <1>2 DEF Jobs
<1>4. <<a, s>> \notin Jobs
  BY DEF Jobs
<1>5. UNCHANGED Holder /\ UNCHANGED Verdicts /\ Holder[a] = s
  BY <1>1 DEF Holder, Verdicts
<1>6. SingleUse!Accept(a, s)
  BY <1>3, <1>4, <1>5 DEF SingleUse!Accept, Holder, Jobs, Verdicts
<1>7. QED
  BY <1>1, <1>6 DEF SingleUse!Next

LEMMA RefinesNext ==
  ASSUME IInv, [Next]_vars
  PROVE  [SingleUse!Next]_(SingleUse!absVars)
<1>1. CASE UNCHANGED <<consumption, job>>
  BY <1>1, RefinesStutter
<1>2. ASSUME NEW s \in Submissions, IbmAccepts(s)
      PROVE  [SingleUse!Next]_(SingleUse!absVars)
  BY <1>2, RefinesAccept
<1>3. ASSUME NEW s \in Submissions,
             OpenClaim(s) \/ FillClaim(s) \/ WriteConsumed(s) \/ WriteUncertain(s)
      PROVE  [SingleUse!Next]_(SingleUse!absVars)
  BY <1>3, WriteActions, RefinesWrite
<1>4. ASSUME NEW s \in Submissions, Run(s) \/ Crash(s)
      PROVE  \/ UNCHANGED <<consumption, job>>
             \/ OpenClaim(s) \/ FillClaim(s) \/ WriteConsumed(s) \/ WriteUncertain(s)
  <2>1. CASE Preflight(s)
    BY <2>1 DEF Preflight, ReadApproval, MatchBinding, CheckUnused, LoadIsaBytes,
                StopAtPreflight
  <2>2. CASE Execute(s)
    BY <2>2 DEF Execute, LiveCheck, Confirm, WriteIntent, LoadCircuit, CallIbm,
                CallReturns, WriteSubmission, Report
  <2>3. CASE Handler(s)
    BY <2>3 DEF Handler, RaiseDenied, RaiseUncertain, WriteFailure, HandlerRaises
  <2>4. CASE Crash(s)
    BY <2>4 DEF Crash
  <2>5. QED
    BY <1>4, <2>1, <2>2, <2>3, <2>4 DEF Run
<1>5. QED
  BY <1>1, <1>2, <1>3, <1>4 DEF Next, SubmitNext

(* Processes that race, retry, fail and die over shared files implement an *)
(* approval that one run holds, for which it gets one job, and whose       *)
(* verdict is consumed only after that job and uncertain for good.         *)
THEOREM SingleUseRefinement == Spec => ImplementsSingleUse
<1>1. IInv /\ [Next]_vars => [SingleUse!Next]_(SingleUse!absVars)
  BY RefinesNext
<1>2. QED
  BY <1>1, RefinesInit, Invariant, PTL
     DEF Spec, ImplementsSingleUse, SingleUse!Spec
=============================================================================
