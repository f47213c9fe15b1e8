------------------------------ MODULE LocalChain ------------------------------
(***************************************************************************)
(* `quantumd verify-chain`, and `chain`, for an execution on the simulator *)
(* (chain.py, _load_local_chain and _verify_local_chain), over everything  *)
(* that verify, run and plan write (TrustedExecution): an offline reader   *)
(* of a receipt, its verification record, the key that signed both, and    *)
(* the project's files as they are now.                                    *)
(*                                                                         *)
(* Each element of Readers is one run.  Receipts and records never change, *)
(* but the project may be edited between and after its looks at it.  Which *)
(* key signed is told apart only as far as TrustedExecution does, by who   *)
(* signed; Quickstart has the keys themselves.                             *)
(***************************************************************************)
EXTENDS TrustedExecution

CONSTANT Readers \* runs of verify-chain

VARIABLES
  rpc,      \* where each run of verify-chain is
  examined  \* the execution whose receipt it holds, or None

readerVars == <<rpc, examined>>
localVars  == <<trustVars, readerVars>>

TypeOKLocalChain ==
  /\ TypeOKExecution
  /\ rpc \in [Readers -> {"idle", "loaded", "agreed", "current", "verified",
                          "refused"}]
  /\ examined \in [Readers -> Executions \cup {None}]

LocalInit ==
  /\ TrustInit
  /\ rpc = [w \in Readers |-> "idle"]
  /\ examined = [w \in Readers |-> None]

ReadOn(w, from, to) ==
  /\ rpc[w] = from
  /\ rpc' = [rpc EXCEPT ![w] = to]
  /\ UNCHANGED trustVars

-----------------------------------------------------------------------------
(* _is_local_receipt: only an execution that ended well has a target; a    *)
(* denial or a failure is taken for a remote execution and refused.        *)
IsLocalReceipt(x) ==
  /\ receipts[x] # None
  /\ receipts[x].status = "EXECUTION_COMPLETED"

(* Mutant of FindLocalPublicKey: a key is found for the receipt alone.     *)
FindReceiptKey(x) == receipts[x].signature \in Signed

(* A cached key verifies the record and the receipt both.                  *)
FindLocalPublicKey(x) ==
  /\ receipts[x].signature \in Signed
  /\ receipts[x].signature = records[receipts[x].run].signature

(* The receipt attests a completed execution on the simulator, under a     *)
(* record that says VERIFIED.                                              *)
ExecutionAuthorized(x) ==
  /\ receipts[x].attested
  /\ records[receipts[x].run].decision \in Verified
  /\ target[x] = "aer-simulator"

(* The receipt is bound to the manifest and the source that the record     *)
(* hashed.                                                                 *)
WorkloadIsBound(x) ==
  /\ receipts[x].manifest = records[receipts[x].run].manifest
  /\ receipts[x].source = records[receipts[x].run].source

(* By id, or the latest; the record it names, and a key.                   *)
LoadLocalChain(w, x) ==
  /\ IsLocalReceipt(x)
  /\ records[receipts[x].run] # None
  /\ FindLocalPublicKey(x)
  /\ ReadOn(w, "idle", "loaded")
  /\ examined' = [examined EXCEPT ![w] = x]

AgreeRecords(w) ==
  /\ ReadOn(w, "loaded", "agreed")
  /\ ExecutionAuthorized(examined[w])
  /\ UNCHANGED examined

(* The project is still the one that was verified: first experiment.yaml,  *)
(* then the entrypoint; and the receipt is bound to it.                    *)
CheckCurrentManifest(w) ==
  /\ ReadOn(w, "agreed", "current")
  /\ manifestFile = records[receipts[examined[w]].run].manifest
  /\ UNCHANGED examined

CheckCurrentSource(w) ==
  /\ ReadOn(w, "current", "verified")
  /\ sourceFile = records[receipts[examined[w]].run].source
  /\ WorkloadIsBound(examined[w])
  /\ UNCHANGED examined

(* A ChainVerificationError, for any of this or an unreadable file; or for *)
(* what is not modelled of the results, their counts and the times.        *)
RefuseLocalChain(w) ==
  /\ \E from \in {"idle", "loaded", "agreed", "current"} :
       ReadOn(w, from, "refused")
  /\ UNCHANGED examined

ReadChain(w) ==
  \/ \E x \in Executions : LoadLocalChain(w, x)
  \/ AgreeRecords(w) \/ CheckCurrentManifest(w) \/ CheckCurrentSource(w)
  \/ RefuseLocalChain(w)

LocalNext ==
  \/ TrustNext /\ UNCHANGED readerVars
  \/ \E w \in Readers : ReadChain(w)

LocalSpec == LocalInit /\ [][LocalNext]_localVars

-----------------------------------------------------------------------------
(* A local chain that verifies is what the verdict says, for good: the     *)
(* circuit that ran on the simulator was built from the source the record  *)
(* hashed, the decision allowed it, and one signer vouches for both, so    *)
(* that a record of the local identity under a receipt of KMS - which plan *)
(* takes - is not such a chain (chain.py, _verify_local_chain).            *)
VerifiedChainIsWhatRan ==
  \A w \in Readers :
    rpc[w] = "verified" =>
      LET receipt == receipts[examined[w]]
          record  == records[receipt.run] IN
        /\ receipt.status = "EXECUTION_COMPLETED"
        /\ receipt.circuit = record.source
        /\ record.decision \in Verified
        /\ target[examined[w]] = "aer-simulator"
        /\ receipt.signature = record.signature

(* What run attests, verify-chain accepts: the chain of an attested        *)
(* simulation verifies as long as one identity signed it and the project   *)
(* is still, or is again, as it was copied.  run compares its copy of the  *)
(* project with the record (authorization.py); verify-chain compares the   *)
(* receipt's hashes, and the project's own files (chain.py), and neither   *)
(* may come to ask for less than the other.                                *)
AttestedRunVerifies ==
  \A x \in Executions :
    /\ IsLocalReceipt(x)
    /\ receipts[x].attested
    /\ receipts[x].signature = records[receipts[x].run].signature
    /\ target[x] = "aer-simulator"
    /\ manifestFile = snapshot[x].manifest
    /\ sourceFile = snapshot[x].source
    => /\ FindLocalPublicKey(x)
       /\ ExecutionAuthorized(x)
       /\ manifestFile = records[receipts[x].run].manifest
       /\ sourceFile = records[receipts[x].run].source
       /\ WorkloadIsBound(x)
=============================================================================
