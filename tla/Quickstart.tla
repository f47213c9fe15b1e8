------------------------------ MODULE Quickstart ------------------------------
(***************************************************************************)
(* `quantumd quickstart` (quickstart.py): it makes a project, a local      *)
(* identity, and runs verify, run and verify-chain in it, each a process   *)
(* of its own that it waits for.  What matters of them here is who signed  *)
(* what under which name (LocalTrust) and whether an offline verifier      *)
(* finds the key (PublicKeyCache); the gates and the execution are in      *)
(* Verification and TrustedExecution.                                      *)
(*                                                                         *)
(* Each element of Quickstarts is one run, on one destination; each of     *)
(* Signers is a verify in the same project that signs with Cloud KMS.      *)
(***************************************************************************)
EXTENDS LocalTrust

CONSTANTS
  Signers,  \* verifications with a KMS key configured
  Mortal,   \* the processes that may be killed, or meet a full disk
  Void      \* a record, or receipt, that is unsigned or of a denied run

ASSUME QuickstartAssumption ==
  /\ Processes = Quickstarts \cup Signers
  /\ Keys = Quickstarts \cup KmsKeys
  /\ Quickstarts \cap Signers = {}
  /\ Quickstarts \cap KmsKeys = {}
  /\ None \notin Keys
  /\ None \notin Processes
  /\ Mortal \subseteq Processes

(* The key version a signature reports, and the key that made it.          *)
Signature == [names : Keys, by : Keys]
Receipt   == [record : Processes, signature : Signature]

ASSUME VoidAssumption ==
  /\ Void # None
  /\ Void \notin Signature \cup Receipt
  /\ None \notin Signature \cup Receipt

VARIABLES
  created,  \* the project's files are there
  record,   \* the verification record each process wrote, Void, or None
  receipt,  \* the execution receipt each process wrote, Void, or None
  chosen,   \* the record that the run of each quickstart resolved
  proved    \* the receipt whose chain each quickstart found verified

evidenceVars == <<record, receipt, chosen, proved>>
vars         == <<identityVars, created, evidenceVars>>

Stages == {"create", "admit", "record", "authorize", "receipt", "denial", "kms",
           "ended"}
Ends   == {"complete", "failed", "signed"}
Steps  == {"idle", "creating", "looking", "cached", "raised", "resolving",
           "validating", "verifying", "asking"}
            \cup CacheSteps \cup Writing \cup Inspecting \cup Ends

TypeOKQuickstart ==
  /\ TypeOKIdentity
  /\ created \in BOOLEAN
  /\ pc \in [Processes -> Steps]
  /\ stage \in [Processes -> Stages]
  /\ record \in [Processes -> Signature \cup {Void, None}]
  /\ receipt \in [Processes -> Receipt \cup {Void, None}]
  /\ chosen \in [Processes -> Processes \cup {None}]
  /\ proved \in [Processes -> Processes \cup {None}]

Init ==
  /\ IdentityInit
  /\ created = FALSE
  /\ pc = [p \in Processes |-> "idle"]
  /\ key = [p \in Processes |-> None]
  /\ stage = [p \in Processes |-> IF p \in Quickstarts THEN "create" ELSE "kms"]
  /\ record = [p \in Processes |-> None]
  /\ receipt = [p \in Processes |-> None]
  /\ chosen = [p \in Processes |-> None]
  /\ proved = [p \in Processes |-> None]

Enter(p, from, s, to) ==
  /\ Move(p, from, to)
  /\ stage' = [stage EXCEPT ![p] = s]

(* The process ends, and its memory with it.                               *)
End(p, from, to) ==
  /\ Enter(p, from, "ended", to)
  /\ key' = [key EXCEPT ![p] = None]
  /\ chosen' = [chosen EXCEPT ![p] = None]

-----------------------------------------------------------------------------
(* The destination is empty, and none of the template's files is there ... *)
StartQuickstart(p) ==
  /\ ~created
  /\ Move(p, "idle", "creating")
  /\ UNCHANGED <<cacheVars, key, identity, stage, created, evidenceVars>>

(* ... and initialize_project writes them; initialize comes next.          *)
CreateProject(p) ==
  /\ Move(p, "creating", "looking")
  /\ created' = TRUE
  /\ UNCHANGED <<cacheVars, key, identity, stage, evidenceVars>>

-----------------------------------------------------------------------------
(* verify.  The identity was admitted; verify inspects it again to sign.   *)
StartVerify(p) ==
  /\ stage[p] = "admit"
  /\ Enter(p, "cached", "record", "inspecting")
  /\ UNCHANGED <<cacheVars, key, identity, created, evidenceVars>>

SignRecord(p) ==
  /\ stage[p] = "record"
  /\ Enter(p, "cached", "authorize", "resolving")
  /\ record' = [record EXCEPT ![p] = SignDigest(p)]
  /\ UNCHANGED <<cacheVars, key, identity, created, receipt, chosen, proved>>

(* Mutant of LeaveRecordUnsigned: a failed signature is recorded as one.    *)
RecordFailedSignature(p) ==
  /\ stage[p] = "record"
  /\ Enter(p, "raised", "authorize", "resolving")
  /\ record' = [record EXCEPT ![p] = [names |-> key[p], by |-> None]]
  /\ UNCHANGED <<cacheVars, key, identity, created, receipt, chosen, proved>>

(* The signature failed; the record is written without it, and verify ends *)
(* well all the same.                                                      *)
LeaveRecordUnsigned(p) ==
  /\ stage[p] = "record"
  /\ Enter(p, "raised", "authorize", "resolving")
  /\ record' = [record EXCEPT ![p] = Void]
  /\ UNCHANGED <<cacheVars, key, identity, created, receipt, chosen, proved>>

-----------------------------------------------------------------------------
(* run --latest: the record that latest.json names, of whoever published   *)
(* last.  A local one takes another look at the identity.                  *)
ResolveLocal(p, r) ==
  /\ record[r] \notin {None, Void}
  /\ record[r].names \in Quickstarts
  /\ Move(p, "resolving", "inspecting")
  /\ chosen' = [chosen EXCEPT ![p] = r]
  /\ UNCHANGED <<cacheVars, key, identity, stage, created, record, receipt, proved>>

(* KMS gives the public key of the version that a KMS record names.        *)
ResolveKms(p, r) ==
  /\ record[r] \notin {None, Void}
  /\ record[r].names \in KmsKeys
  /\ record[r].by = record[r].names
  /\ Enter(p, "resolving", "receipt", "inspecting")
  /\ chosen' = [chosen EXCEPT ![p] = r]
  /\ UNCHANGED <<cacheVars, key, identity, created, record, receipt, proved>>

(* An unsigned record, or a KMS that does not answer.                      *)
DenyRecord(p, r) ==
  /\ record[r] # None
  /\ record[r] # Void => record[r].names \in KmsKeys
  /\ Enter(p, "resolving", "denial", "inspecting")
  /\ UNCHANGED <<cacheVars, key, identity, created, evidenceVars>>

AuthorizeRecord(p) ==
  /\ stage[p] = "authorize"
  /\ Enter(p, "cached", "receipt", "inspecting")
  /\ VerifiesLocally(p, record[chosen[p]])
  /\ UNCHANGED <<cacheVars, key, identity, created, evidenceVars>>

(* The lineage or the signature does not fit, or the identity was rejected:*)
(* the denial is receipted too, and inspects once more to be signed.       *)
DenyAuthorization(p) ==
  /\ stage[p] = "authorize"
  /\ pc[p] = "cached" => ~VerifiesLocally(p, record[chosen[p]])
  /\ pc[p] \in {"cached", "raised"}
  /\ Enter(p, pc[p], "denial", "inspecting")
  /\ UNCHANGED <<cacheVars, key, identity, created, evidenceVars>>

(* A later check of run denies, or the workload fails.                     *)
FailWorkload(p) ==
  /\ stage[p] = "receipt"
  /\ Enter(p, "inspecting", "denial", "inspecting")
  /\ UNCHANGED <<cacheVars, key, identity, created, evidenceVars>>

(* The workload ran, and the receipt is signed.                            *)
SignReceipt(p) ==
  /\ stage[p] = "receipt"
  /\ Move(p, "cached", "validating")
  /\ receipt' = [receipt EXCEPT ![p] =
                   [record |-> chosen[p], signature |-> SignDigest(p)]]
  /\ UNCHANGED <<cacheVars, key, identity, stage, created, record, chosen, proved>>

(* The receipt of a denial or a failure, or one whose status ends in       *)
(* _ATTESTATION_FAILED: run does not end well, and quickstart stops.       *)
LeaveReceiptVoid(p) ==
  /\ \/ stage[p] = "denial" /\ pc[p] \in {"cached", "raised"}
     \/ stage[p] = "receipt" /\ pc[p] = "raised"
  /\ End(p, pc[p], "failed")
  /\ receipt' = [receipt EXCEPT ![p] = Void]
  /\ UNCHANGED <<cacheVars, identity, created, record, proved>>

-----------------------------------------------------------------------------
(* _validate_local_artifacts: the latest record and the latest receipt,    *)
(* each whoever's it is, are local and name one key version.               *)
Local(e, x) ==
  /\ record[e] # Void
  /\ receipt[x] # Void
  /\ record[e].names \in Quickstarts
  /\ record[e].names = receipt[x].signature.names
  /\ active # None

ValidateArtifacts(p, e, x) ==
  /\ record[e] # None
  /\ receipt[x] # None
  /\ Local(e, x)
  /\ Move(p, "validating", "verifying")
  /\ UNCHANGED <<cacheVars, key, identity, stage, created, evidenceVars>>

RejectArtifacts(p, e, x) ==
  /\ record[e] # None
  /\ receipt[x] # None
  /\ ~Local(e, x)
  /\ End(p, "validating", "failed")
  /\ UNCHANGED <<cacheVars, identity, created, record, receipt, proved>>

(* Every .pem under evidence/ that holds a key.                            *)
CachedKeys ==
  {k \in Keys : cached[k]["public-key.pem"] = "full" \/ active = k}

(* Mutant of ChainVerifies: the key need only verify the record.           *)
RecordVerifies(x) ==
  /\ receipt[x] # Void
  /\ record[receipt[x].record].by \in CachedKeys
  /\ record[receipt[x].record].names = receipt[x].signature.names

(* _find_local_public_key and the key-version lineage: one cached key      *)
(* verifies the record and the receipt, and they name one key version.     *)
ChainVerifies(x) ==
  /\ receipt[x] # Void
  /\ \E k \in CachedKeys :
       record[receipt[x].record].by = k /\ receipt[x].signature.by = k
  /\ record[receipt[x].record].names = receipt[x].signature.names

(* verify-chain --latest: QUANTUMD LOCAL QUICKSTART COMPLETE.              *)
CompleteQuickstart(p, x) ==
  /\ receipt[x] # None
  /\ ChainVerifies(x)
  /\ End(p, "verifying", "complete")
  /\ proved' = [proved EXCEPT ![p] = x]
  /\ UNCHANGED <<cacheVars, identity, created, record, receipt>>

RefuseChain(p, x) ==
  /\ receipt[x] # None
  /\ ~ChainVerifies(x)
  /\ End(p, "verifying", "failed")
  /\ UNCHANGED <<cacheVars, identity, created, record, receipt, proved>>

(* initialize or its inspect raised.                                       *)
FailQuickstart(p) ==
  /\ stage[p] \in {"create", "admit"}
  /\ End(p, "raised", "failed")
  /\ UNCHANGED <<cacheVars, identity, created, record, receipt, proved>>

-----------------------------------------------------------------------------
(* sign_payload_with_kms: KMS is asked to sign under a key version ...     *)
AskKms(p, k) ==
  /\ created
  /\ Move(p, "idle", "asking")
  /\ key' = [key EXCEPT ![p] = k]
  /\ UNCHANGED <<cacheVars, identity, stage, created, evidenceVars>>

(* ... and did; the signature verifies under the version's public key,     *)
(* which goes to the cache.                                                *)
SignWithKms(p) ==
  /\ Move(p, "asking", "public-key.pem")
  /\ UNCHANGED <<cacheVars, key, identity, stage, created, evidenceVars>>

WriteKmsRecord(p) ==
  /\ stage[p] = "kms"
  /\ End(p, "cached", "signed")
  /\ record' = [record EXCEPT ![p] = [names |-> key[p], by |-> key[p]]]
  /\ UNCHANGED <<cacheVars, identity, created, receipt, proved>>

(* No answer, one that does not verify, or the cache raised: FAILED, even  *)
(* though KMS may have signed.                                             *)
FailKmsRecord(p) ==
  /\ stage[p] = "kms"
  /\ pc[p] \in {"asking", "raised"}
  /\ End(p, pc[p], "signed")
  /\ record' = [record EXCEPT ![p] = Void]
  /\ UNCHANGED <<cacheVars, identity, created, receipt, proved>>

-----------------------------------------------------------------------------
(* A process is killed, or something raises that nothing here handles.     *)
Interrupt(p) ==
  /\ pc[p] \notin {"idle"} \cup Ends
  /\ End(p, pc[p], "failed")
  /\ UNCHANGED <<cacheVars, identity, created, record, receipt, proved>>

Trust(p) ==
  /\ Initialize(p) \/ Inspect(p)
  /\ UNCHANGED <<created, evidenceVars>>

Cache(p) ==
  /\ CacheKey(p)
  /\ UNCHANGED <<identity, stage, created, evidenceVars>>

Commands(p) ==
  \/ CreateProject(p) \/ StartVerify(p)
  \/ SignRecord(p) \/ LeaveRecordUnsigned(p)
  \/ \E r \in Processes : ResolveLocal(p, r) \/ ResolveKms(p, r) \/ DenyRecord(p, r)
  \/ AuthorizeRecord(p) \/ DenyAuthorization(p) \/ FailWorkload(p)
  \/ SignReceipt(p) \/ LeaveReceiptVoid(p)
  \/ \E e, x \in Processes : ValidateArtifacts(p, e, x) \/ RejectArtifacts(p, e, x)
  \/ \E x \in Processes : CompleteQuickstart(p, x) \/ RefuseChain(p, x)
  \/ FailQuickstart(p)

Advance(p) ==
  \/ Cache(p)
  \/ p \in Quickstarts /\ (Trust(p) \/ Commands(p))
  \/ p \in Signers /\ (SignWithKms(p) \/ WriteKmsRecord(p) \/ FailKmsRecord(p))

Start(p) ==
  \/ p \in Quickstarts /\ StartQuickstart(p)
  \/ p \in Signers /\ \E k \in KmsKeys : AskKms(p, k)

Fail(p) ==
  /\ p \in Mortal
  /\ \/ Interrupt(p)
     \/ FailCaching(p) /\ UNCHANGED <<identity, stage, created, evidenceVars>>

Next == \E p \in Processes : Start(p) \/ Advance(p) \/ Fail(p)

Spec == Init /\ [][Next]_vars

(* While a command that was started can go on, one of them does.           *)
FairSpec == Spec /\ WF_vars(\E p \in Processes : Advance(p))

-----------------------------------------------------------------------------
(* Whatever record or receipt says it is signed under a key version has    *)
(* that version's key and metadata complete in the cache, where an offline *)
(* verifier looks for it, although signers race, fail and die while they   *)
(* fill it (signing.py, sign_payload_with_kms; "public_key_cached": True). *)
(* Plans and approvals are signed without the cache.                       *)
NamedKeyIsCached ==
  \A p \in Processes :
    /\ record[p] \notin {None, Void} => Whole(record[p].names)
    /\ receipt[p] \notin {None, Void} => Whole(receipt[p].signature.names)

(* The root copy tracks rotations, the versioned copies keep them: what    *)
(* evidence/public-key.pem holds is kept under its version as well.        *)
ActiveKeyIsKept == active # None => Whole(active)

(* A run goes on only under a record that was signed by the very key it    *)
(* names, although two initializations may replace each other's files and  *)
(* a signer reads the private key again after it inspected the identity    *)
(* (local_trust.py, sign_digest; authorization.py, _verify_local).         *)
AuthorizedIsGenuine ==
  \A p \in Processes :
    stage[p] = "receipt" =>
      /\ record[chosen[p]] \notin {None, Void}
      /\ record[chosen[p]].by = record[chosen[p]].names

(* What a finished quickstart shows is one identity's: one key signed the  *)
(* record and the receipt, they name it, and it is in the cache.           *)
CompleteIsOneIdentity ==
  \A p \in Processes :
    pc[p] = "complete" =>
      LET x == receipt[proved[p]]
          e == record[x.record] IN
        /\ e.names \in Quickstarts
        /\ e.by = e.names
        /\ x.signature = e
        /\ Whole(e.names)

(* No command waits for another: each one that is started ends, whatever   *)
(* half-written files the others left.                                     *)
CommandsEnd == <>[](\A p \in Processes : pc[p] \in {"idle"} \cup Ends)
=============================================================================
