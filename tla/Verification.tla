----------------------------- MODULE Verification -----------------------------
(***************************************************************************)
(* `quantumd verify`: the gates and the evidence record they end in        *)
(* (src/quantumd/cli.py, evidence/builder.py, gates/).                     *)
(*                                                                         *)
(* Each element of Verifications is one run of the command, with its own   *)
(* run id.  The project's experiment.yaml and its entrypoint are ordinary  *)
(* files that may be edited at any time; every gate opens them anew.  A    *)
(* record is evidence/runs/<run id>.json: created O_EXCL, never replaced.  *)
(* A record cut short by a crash has no reader that accepts it, so it is   *)
(* the same as none.                                                       *)
(***************************************************************************)
CONSTANTS
  Verifications, \* runs of the verify command, and their run ids
  Sources,       \* contents of the entrypoint, told apart by their hash
  Sound,         \* the sources that pass the code and structure gates
  Manifests,     \* contents of experiment.yaml, told apart by their hash
  Classical,     \* manifests whose contract a classical baseline meets
  None

Verified  == {"VERIFIED_FOR_EXECUTION", "VERIFIED_EDUCATIONAL_ONLY"}
Decisions == Verified \cup {"VERIFICATION_DENIED"}

(* What the configured key says when a digest is to be signed.  A KMS key  *)
(* in the environment comes first, then the project's local identity; each *)
(* command runs in an environment of its own, so any may answer.           *)
KmsSignature   == {"KMS_SIGNED", "PUBLIC_KEY_VERIFICATION_FAILED", "FAILED"}
LocalSignature == {"LOCAL_DEVELOPMENT_SIGNED", "LOCAL_DEVELOPMENT_SIGNING_FAILED"}
NoSignature    == {"NO_KEY_PROVIDED"}
Signatures     == KmsSignature \cup LocalSignature \cup NoSignature
Signed         == {"KMS_SIGNED", "LOCAL_DEVELOPMENT_SIGNED"}

EvidenceRecord == [manifest  : Manifests \cup {None},
                   source    : Sources \cup {None},
                   decision  : Decisions,
                   signature : Signatures]

ASSUME VerificationAssumption ==
  /\ Sound \subseteq Sources
  /\ Classical \subseteq Manifests
  /\ None \notin Sources \cup Manifests \cup Verifications \cup Decisions
  /\ None \notin EvidenceRecord

VARIABLES
  sourceFile,   \* the entrypoint on disk
  manifestFile, \* experiment.yaml on disk
  vpc,          \* where each run of the verify command is
  manifestHash, \* hashes.manifest_sha256 of its bundle
  sourceHash,   \* hashes.source.sha256 of its bundle
  decision,     \* the decision it passes to finalize
  records       \* evidence/runs/<run id>.json, or None

projectVars == <<sourceFile, manifestFile>>
bundleVars  == <<manifestHash, sourceHash, decision>>
verifyVars  == <<projectVars, vpc, bundleVars, records>>

AtGate == {"idle", "manifest", "hashed", "coded", "structured", "repaired"}
Pointing == {"recorded", "opened", "filled"}

TypeOKVerify ==
  /\ sourceFile \in Sources
  /\ manifestFile \in Manifests
  /\ vpc \in [Verifications ->
                AtGate \cup {"decided"} \cup Pointing \cup {"done", "aborted"}]
  /\ manifestHash \in [Verifications -> Manifests \cup {None}]
  /\ sourceHash \in [Verifications -> Sources \cup {None}]
  /\ decision \in [Verifications -> Decisions \cup {None}]
  /\ records \in [Verifications -> EvidenceRecord \cup {None}]

VerifyInit ==
  /\ sourceFile \in Sources
  /\ manifestFile \in Manifests
  /\ vpc = [v \in Verifications |-> "idle"]
  /\ manifestHash = [v \in Verifications |-> None]
  /\ sourceHash = [v \in Verifications |-> None]
  /\ decision = [v \in Verifications |-> None]
  /\ records = [v \in Verifications |-> None]

Step(v, from, to) ==
  /\ vpc[v] = from
  /\ vpc' = [vpc EXCEPT ![v] = to]

-----------------------------------------------------------------------------
(* Gate 1 reads experiment.yaml once: what it validates is what it hashes. *)
GateManifest(v) ==
  /\ Step(v, "idle", "manifest")
  /\ manifestHash' = [manifestHash EXCEPT ![v] = manifestFile]
  /\ UNCHANGED <<projectVars, sourceHash, decision, records>>

(* Gate 2 hashes the entrypoint ...                                        *)
HashSource(v) ==
  /\ Step(v, "manifest", "hashed")
  /\ sourceHash' = [sourceHash EXCEPT ![v] = sourceFile]
  /\ UNCHANGED <<projectVars, manifestHash, decision, records>>

(* ... and opens it again to parse it.                                     *)
GateCode(v) ==
  /\ Step(v, "hashed", "coded")
  /\ sourceFile \in Sound
  /\ UNCHANGED <<projectVars, bundleVars, records>>

(* Gate 3 has the sandbox load it once more and looks at the circuit.      *)
GateStructure(v) ==
  /\ Step(v, "coded", "structured")
  /\ sourceFile \in Sound
  /\ UNCHANGED <<projectVars, bundleVars, records>>

(* Gate 4 is skipped, or finds the repair that led to this source.         *)
GateRepair(v) ==
  /\ Step(v, "structured", "repaired")
  /\ UNCHANGED <<projectVars, bundleVars, records>>

(* Gate 8: a contract that a classical model meets is for education only.  *)
GateBaseline(v) ==
  /\ Step(v, "repaired", "decided")
  /\ decision' = [decision EXCEPT ![v] =
                    IF manifestHash[v] \in Classical
                    THEN "VERIFIED_EDUCATIONAL_ONLY"
                    ELSE "VERIFIED_FOR_EXECUTION"]
  /\ UNCHANGED <<projectVars, manifestHash, sourceHash, records>>

(* deny: any gate may raise.                                               *)
DenyVerification(v) ==
  /\ vpc[v] \in AtGate
  /\ vpc' = [vpc EXCEPT ![v] = "decided"]
  /\ decision' = [decision EXCEPT ![v] = "VERIFICATION_DENIED"]
  /\ UNCHANGED <<projectVars, manifestHash, sourceHash, records>>

(* finalize, up to the record: whatever the key answers, the record is     *)
(* written and says so.                                                    *)
Finalize(v) ==
  /\ Step(v, "decided", "recorded")
  /\ \E signature \in Signatures :
       records' = [records EXCEPT ![v] =
                     [manifest  |-> manifestHash[v],
                      source    |-> sourceHash[v],
                      decision  |-> decision[v],
                      signature |-> signature]]
  /\ UNCHANGED <<projectVars, bundleVars>>

(* The process is killed, or a write of finalize fails: the command ends   *)
(* in a traceback, for a finalize that began cannot begin again.           *)
AbortVerification(v) ==
  /\ vpc[v] \in (AtGate \ {"idle"}) \cup {"decided"} \cup Pointing
  /\ vpc' = [vpc EXCEPT ![v] = "aborted"]
  /\ UNCHANGED <<projectVars, bundleVars, records>>

(* Someone edits the project.                                              *)
EditSource ==
  /\ sourceFile' \in Sources \ {sourceFile}
  /\ UNCHANGED <<manifestFile, vpc, bundleVars, records>>

EditManifest ==
  /\ manifestFile' \in Manifests \ {manifestFile}
  /\ UNCHANGED <<sourceFile, vpc, bundleVars, records>>

Verify(v) ==
  \/ GateManifest(v) \/ HashSource(v) \/ GateCode(v) \/ GateStructure(v)
  \/ GateRepair(v) \/ GateBaseline(v) \/ DenyVerification(v) \/ Finalize(v)
  \/ AbortVerification(v)

VerifyNext == EditSource \/ EditManifest \/ \E v \in Verifications : Verify(v)

=============================================================================
