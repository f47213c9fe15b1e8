--------------------------- MODULE ApprovalIssuance ---------------------------
(***************************************************************************)
(* `quantumd approve`: how one signed plan becomes an expiring, single-use *)
(* approval on disk (src/quantumd/approval.py).                            *)
(*                                                                         *)
(* The command verifies the plan and its artifacts, takes the time that    *)
(* starts the approval window, may wait at a typed challenge, signs, and   *)
(* then publishes approval.json, signature.der and public-key.pem one      *)
(* after the other.  Files under the project directory may be edited by    *)
(* anybody between any two steps: a plan file is either as it was signed   *)
(* or altered, an ISA artifact holds one of a few circuits.                *)
(***************************************************************************)
EXTENDS Naturals, FiniteSets

CONSTANTS
  Plans,       \* plan ids whose signed directories exist
  Circuits,    \* contents an ISA circuit artifact may have
  SignedIsa,   \* [Plans -> Circuits]: the circuit whose hash the plan signs
  Approvals,   \* approval ids, one for each run of the approve command
  Ttls,        \* values of --ttl-minutes that are tried
  MaxTime,     \* bound of the clock
  None         \* no value

(* What approval.json says: the plan and circuit it binds, and its window. *)
Payload == [plan : Plans, isa : Circuits, notBefore : Nat, expiresAt : Nat]

ASSUME IssuanceAssumption ==
  /\ SignedIsa \in [Plans -> Circuits]
  /\ Ttls \subseteq Nat \ {0}
  /\ MaxTime \in Nat
  /\ None \notin Plans \cup Circuits \cup Approvals
  /\ None \notin Payload

VARIABLES
  clock,       \* the time that datetime.now(timezone.utc) returns
  planFile,    \* plan.json of a plan: as signed, or altered since
  isaFile,     \* bytes of a plan's ISA circuit artifact
  approver,    \* where each run of the approve command is
  draft,       \* its approval_payload, in memory
  approval,    \* approval.json of an approval id, or None
  keyFile      \* approvals with signature.der and public-key.pem on disk

issuanceVars == <<clock, planFile, isaFile, approver, draft, approval, keyFile>>
fileVars     == <<planFile, isaFile>>
approveVars  == <<approver, draft, approval, keyFile>>

(* An approve command still running, in the order of the code.             *)
ApproverActive == {"checking", "challenge", "published"}

TypeOKIssuance ==
  /\ clock \in 0..MaxTime
  /\ planFile \in [Plans -> {"intact", "altered"}]
  /\ isaFile \in [Plans -> Circuits]
  /\ approver \in [Approvals ->
       ApproverActive \cup {"idle", "created", "denied", "failed", "crashed"}]
  /\ draft \in [Approvals -> Payload \cup {None}]
  /\ approval \in [Approvals -> Payload \cup {None}]
  /\ keyFile \subseteq Approvals

IssuanceInit ==
  /\ clock = 0
  /\ planFile = [p \in Plans |-> "intact"]
  /\ isaFile = SignedIsa
  /\ approver = [a \in Approvals |-> "idle"]
  /\ draft = [a \in Approvals |-> None]
  /\ approval = [a \in Approvals |-> None]
  /\ keyFile = {}

-----------------------------------------------------------------------------
(* The environment: time, and whoever edits the project directory.         *)

Tick ==
  /\ clock < MaxTime
  /\ clock' = clock + 1
  /\ UNCHANGED <<fileVars, approveVars>>

(* plan.json stops being, or is again, the file that was signed.           *)
EditPlan(p) ==
  /\ planFile' = [planFile EXCEPT ![p] =
                    IF @ = "intact" THEN "altered" ELSE "intact"]
  /\ UNCHANGED <<clock, isaFile, approveVars>>

EditIsa(p, c) ==
  /\ isaFile[p] # c
  /\ isaFile' = [isaFile EXCEPT ![p] = c]
  /\ UNCHANGED <<clock, planFile, approveVars>>

-----------------------------------------------------------------------------
(* The checks approve and submit share: plan id, status and signature hold *)
(* only of the plan that was signed; an artifact's bytes hash to what the  *)
(* plan declares.                                                          *)

VerifiedPlan(p)     == planFile[p] = "intact"
VerifiedArtifact(p) == isaFile[p] = SignedIsa[p]

(* Mutant of CheckPlan: the artifact's hash is recorded and not compared.  *)
CheckPlanUncompared(a, p) ==
  /\ approver[a] = "idle"
  /\ VerifiedPlan(p)
  /\ approver' = [approver EXCEPT ![a] = "checking"]
  /\ draft' = [draft EXCEPT ![a] = [plan |-> p, isa |-> isaFile[p],
                                    notBefore |-> 0, expiresAt |-> 0]]
  /\ UNCHANGED <<clock, fileVars, approval, keyFile>>

(* Read plan.json once, check it, its artifacts and its signature; the     *)
(* binding records the hash that was observed.                             *)
CheckPlan(a, p) ==
  /\ approver[a] = "idle"
  /\ VerifiedPlan(p)
  /\ VerifiedArtifact(p)
  /\ approver' = [approver EXCEPT ![a] = "checking"]
  /\ draft' = [draft EXCEPT ![a] = [plan |-> p, isa |-> isaFile[p],
                                    notBefore |-> 0, expiresAt |-> 0]]
  /\ UNCHANGED <<clock, fileVars, approval, keyFile>>

(* now, expires_at and the payload, once the approver identity is known.   *)
DraftApproval(a, ttl) ==
  /\ approver[a] = "checking"
  /\ approver' = [approver EXCEPT ![a] = "challenge"]
  /\ draft' = [draft EXCEPT ![a] =
                 [plan |-> draft[a].plan, isa |-> draft[a].isa,
                  notBefore |-> clock, expiresAt |-> clock + ttl]]
  /\ UNCHANGED <<clock, fileVars, approval, keyFile>>

(* The typed challenge (or --yes), the signature, mkdir, and approval.json *)
(* renamed into place.                                                     *)
PublishApproval(a) ==
  /\ approver[a] = "challenge"
  /\ approver' = [approver EXCEPT ![a] = "published"]
  /\ approval' = [approval EXCEPT ![a] = draft[a]]
  /\ UNCHANGED <<clock, fileVars, draft, keyFile>>

(* signature.der, public-key.pem, chmod, and the closing message.          *)
PublishKey(a) ==
  /\ approver[a] = "published"
  /\ approver' = [approver EXCEPT ![a] = "created"]
  /\ keyFile' = keyFile \cup {a}
  /\ UNCHANGED <<clock, fileVars, draft, approval>>

(* An ApprovalError: a check, the challenge or KMS says no.                *)
DenyApproval(a) ==
  /\ approver[a] \in {"idle", "checking", "challenge"}
  /\ approver' = [approver EXCEPT ![a] = "denied"]
  /\ UNCHANGED <<clock, fileVars, draft, approval, keyFile>>

(* Any other exception, a write that fails among them.                     *)
FailApproval(a) ==
  /\ approver[a] \in ApproverActive
  /\ approver' = [approver EXCEPT ![a] = "failed"]
  /\ UNCHANGED <<clock, fileVars, draft, approval, keyFile>>

CrashApproval(a) ==
  /\ approver[a] \in ApproverActive
  /\ approver' = [approver EXCEPT ![a] = "crashed"]
  /\ UNCHANGED <<clock, fileVars, draft, approval, keyFile>>

-----------------------------------------------------------------------------
IssuanceNext ==
  \/ Tick
  \/ \E p \in Plans : EditPlan(p) \/ \E c \in Circuits : EditIsa(p, c)
  \/ \E a \in Approvals :
       \/ \E p \in Plans : CheckPlan(a, p)
       \/ \E ttl \in Ttls : DraftApproval(a, ttl)
       \/ PublishApproval(a) \/ PublishKey(a)
       \/ DenyApproval(a) \/ FailApproval(a) \/ CrashApproval(a)

IssuanceSpec == IssuanceInit /\ [][IssuanceNext]_issuanceVars
=============================================================================
