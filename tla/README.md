# QuantumD: TLA+ models and proofs

QuantumD is a command line program that takes a quantum experiment from source code to a
job on IBM hardware, and leaves at every step a signed file that says what was done. Each
command is a short-lived process. Commands share nothing but files, a KMS key, and IBM's
service. What makes them hard is that any number of them run at once, without locks; that
files are edited between two reads; that a process may die, or an exception may be raised,
between any two writes; and that IBM may take a job although the client saw an error.

This directory holds TLA+ modules translated from `src/src/quantumd`, configurations that
TLC checks on small instances, and proofs that TLAPS checks for every size.

    tlc -config submit_race.cfg MCGovernedSubmission
    tlapm GovernedSubmission_proofs.tla

`PROJECT.json` lists, for each definition, the source lines it stands for.

## 1. The system

The governed path, left to right; every arrow is a file that the next command reads.

    verify --QVERIFY record--> run --QEXEC receipt--> plan --QPLAN--> approve
           --approval--> submit --QSUB, consumption--> qexec --receipt--> verify-chain

| Component (source) | State it keeps | Operations | What makes it correct |
| --- | --- | --- | --- |
| verify (`cli.py`, `evidence/builder.py`, `gates/`) | `evidence/runs/<id>.json`, created O_EXCL | gates 1-4, 8; deny; finalize | records are written once; what they name is what later commands execute |
| pointer, verify-signature (`evidence/builder.py`, `evidence/verifier.py`) | `latest.json`, `.latest.json.tmp` shared by all runs | publish; check a signature; mark the pointer | the pointer resolves to a record; the mark is about the record that was checked |
| run (`cli.py`, `execution/`) | `executions/<id>/receipt.json`, O_EXCL; a private copy of the project | resolve, copy, authorize, compare, execute, receipt | what runs is what was verified; receipts are final |
| plan (`ibm/planning.py`) | `plans/<id>/` renamed into place | choose an execution, transpile, sign | a plan traces to a verified, completed execution |
| approve (`approval.py`) | `approvals/<id>/approval.json`, `public-key.pem` | check the plan, window, challenge, sign, publish | an approval binds the circuit that the plan signs |
| submit (`submission.py`) | `consumption.json` of an approval (O_EXCL, later replaced), `intent.json`, `submission.json`, `failure.json` | preflight, live check, intent, claim, IBM call, records, exception handler | at most one job per approval; evidence before the call; no silent loss |
| qexec (`reconciliation.py`) | an execution directory of three artifacts and a receipt | read the chain, ask IBM, wait, write | receipts are true, governed and complete |
| verify-chain, chain (`chain.py`) | none | read everything, compare | a chain reported valid is the governed job, or the simulation that was verified |
| KMS signing, key cache (`evidence/signing.py`) | `evidence/keys/<version>/`, two write-once files each; `evidence/public-key.pem` | sign, verify, cache | what is signed has its key, whole, in the cache |
| local identity (`local_trust.py`) | a private key, its public half and its metadata, replaced one by one | initialize, inspect, sign | keys are not replaced; a signature that is relied on is of the key it names |
| quickstart (`quickstart.py`) | a new project | initialize, verify, run, verify-chain as processes | what it shows complete is one identity's |
| fix (`cli.py`) | `src/experiment.py`, its backups, one temporary file, `.repairs/<id>.json` | propose, compare, back up, rename, record | the original is kept; the record is of what was replaced |
| report (`evidence/renderer.py`) | `report.html` | render the pointer and a record | it changes no evidence |
| adapters, sandbox, secrets, `adversarial.py`, demo, init, doctor | none, or files outside the chain of evidence; doctor, which inspects the local identity, may fill the key cache | compute, set up, look | pure computation, or steps of the commands above |

How they interact, beyond the files: approve, submit, qexec, run and verify ask KMS for a
signature, which may fail or be absent; submit and qexec call IBM; the project directory
belongs to its user, who edits it at any time. There are no threads and no callbacks: all
concurrency is between processes, and between a process and IBM.

The behaviours that are hard to test are listed one by one, with their lines, under
`hazards` in `PROJECT.json`. The main ones: two submits that both found no
`consumption.json`; a death, or an exception, between the claim, the call and the three
records after it; an IBM call that fails in the client and succeeds at IBM; a window that
closes during a prompt; an artifact edited between its hash and its use; two `qexec --wait`
that both found no receipt; a temporary file shared by all verifications, and one shared
by all repairs; a pointer rewritten in place; two initializations that replace each other's
key files one by one; a key file created but not yet filled, by a signer that died.

## 2. Modules

| Module | What it is |
| --- | --- |
| `ApprovalIssuance` | approve; the clock; edits of plans and artifacts |
| `GovernedSubmission` | extends it with submit, its files and IBM's side of a submission |
| `SingleUseApproval` | the abstract promise: holders, jobs and verdicts of approvals |
| `Reconciliation` | extends `GovernedSubmission` with qexec and the end of jobs |
| `ChainVerification` | extends `Reconciliation` with verify-chain over all of the above |
| `Verification` | verify: gates, denial, finalize; edits of the project |
| `LatestPointer` | extends `Verification` with `latest.json` and verify-signature |
| `TrustedExecution` | extends `Verification` with run and plan |
| `LocalChain` | extends `TrustedExecution` with verify-chain over a simulation |
| `PublicKeyCache` | the cache of public keys, file by file |
| `LocalTrust` | extends it with the local identity: initialize, inspect, signature |
| `Quickstart` | extends that with quickstart's processes and with KMS signers |
| `Repair` | fix, its files, and gate 4 |
| `EvidenceLedger` | the abstract promise of the whole: who vouches for what, entry by entry |
| `GovernedPath` | composes `TrustedExecution` and `ChainVerification` at the published plan; shown to implement `EvidenceLedger` |
| `MC*` | constants of the TLC instances |
| `*_proofs` | invariants, lemmas and theorems (section 5) |

The two families meet in `evidence/plans`: `TrustedExecution` ends with `plans`, and
`ApprovalIssuance` begins with `Plans` and the circuit that each signs (`SignedIsa`).
`GovernedPath` runs both at once. It extends `ChainVerification` and instantiates
`TrustedExecution` over the same `Plans`, with three variables renamed (`vpc` to `gate`,
`target` to `where`, `circuit` to `simulated`). A step of it is a step of one of the two,
with two conditions where they meet. Nobody approves or edits a plan that is not published,
as there is no directory yet. And a plan is published with what the transpiler answers for the
circuit it loaded: `TranspilesTo` says what a source's circuit may become, and `SignedIsa`,
which stays a constant, what the transpiler's answer will have been; no step reads it before
the plan is published.
`Quickstart` takes apart what `TrustedExecution` and `LocalChain` call a signature, "LOCAL"
or "KMS": here a signature names one key and was made by a key, and the two may differ.
`Repair` is what happens to a source between two verifications.

### The correspondence with the code

One element of `Submissions`, `Reconcilers`, `Verifications`, ... is one process, named by
the random id it writes under. Its control state (`pc`, `rpc`, `vpc`, `xpc`, ...) says which
statement it is at, cut at each read or write that others can see or disturb; its local
variables that matter later are state (`bound`, `circuit`, `stamp`, `observed`,
`snapshot`). A retry is another element started for the same approval or submission.

*approve.* `CheckPlan` is everything up to the approver's identity (plan, artifacts,
signature, binding), `DraftApproval` takes the time and fixes the window,
`PublishApproval` covers the challenge, the KMS signature and the rename of
`approval.json`, and `PublishKey` the signature and key files written after it. `DenyApproval` is an
`ApprovalError`, `FailApproval` any other exception, and `CrashApproval` the death of the
process.

*submit.* `ReadApproval`, `MatchBinding`, `CheckUnused`, `LoadIsaBytes` are
`local_preflight` in its order; `LiveCheck`, `Confirm`, `WriteIntent`, `OpenClaim`,
`FillClaim`, `LoadCircuit`, `CallIbm`, `CallReturns`, `WriteSubmission`, `WriteConsumed`,
`Report` are `submit --execute`. The claim is two steps, since `O_CREAT|O_EXCL` creates an
empty file (`PARTIAL`) that is filled afterwards. The handler is `RaiseDenied` when the
call was not attempted, and otherwise `RaiseUncertain`, `WriteUncertain`, `WriteFailure`;
`HandlerRaises` is a write of the handler that fails. `IbmAccepts` is IBM's: it may come
while the client waits, after it gave up, after it was killed, or never.

*qexec.* `ReadChain` reads the four records and keeps what it read as `context`, which a
completed receipt `binds` at the end: the approval, the circuit, and the consumption as it
was then. `MatchArtifacts` hashes, `FindExisting` is the only look for an earlier receipt, `FetchJob` and `TakeResult` are the calls to IBM
(`TakeResult` also stands for `--wait`, and for a status that changed since), then come
the three artifacts in order and the receipt.

*verify-chain.* `LoadIbmChain` reads the five records and compares them (`RecordsAgree`),
`VerifyIbmChain` reads the key and hashes the artifacts later (`ArtifactsAgree`). The two
lists of checks are `chain.py`'s own: they share no operator with those of qexec, as the two
files share no function, and they start from what the receipt binds.

*verify.* One action per gate and per opening of a file: gate 2 is two, because it hashes
the entrypoint and then opens it again. `Finalize` signs and writes the record.

*latest.json.* The module keeps files apart from names. `OpenPointer` creates, or
truncates, whatever file `.latest.json.tmp` names; `FillPointer` writes into the file that
the run opened, which another run may have renamed by then; a file written twice may end
up with the tail of the other text (`Garbled`). `RereadPointer`, `OpenMark`, `FillMark`
are lines 68-80 of `verifier.py`.

*run and plan.* `CopyManifest` and `CopySource` happen in either order, as the snapshot
copies file by file; `Authorize`, `CheckSnapshot`, `CheckPolicy`, `Execute` follow `cli.py`.
`WriteReceipt` needs `receipts[x] = None`: the receipt is created exclusively, so that the
handler's second receipt cannot be written after a success. `SelectExecution` takes what a
receipt says of itself, as `_latest_trusted_execution` does, and hashes the circuit beside it
(`qpy`, a file that `EditCircuit` may write to at any time); `LoadLogical` opens that file
again to transpile it, and `PublishPlan` a third time to copy it. `disturbed` is history: the
plans whose file was edited in between.

*The local chain.* `LoadLocalChain` reads the receipt, its record and the key;
`AgreeRecords` compares the two, the manifest and the source to which the receipt is bound
included (`WorkloadIsBound`); `CheckCurrentManifest` and `CheckCurrentSource` hash the
project's files as they are by then. `RefuseLocalChain` is any `ChainVerificationError`.

*The key cache.* `CreateCached` is the `O_CREAT|O_EXCL`, `FillCached` the write and
`fsync` after it, `KeepCached` and `RefuseCached` the comparison when the file was there.
"empty" stands for every content that is not all of the file. `KeepActive`, `MissActive`,
`ReplaceActive` are the comparison and the replacement of `evidence/public-key.pem`.

*The local identity.* `WritePrivate`, `WritePublic`, `WriteMetadata` are the three renames of
`initialize`; `ReadMetadata`, `ReadPrivate`, `ReadPublic` the reads of `inspect` in the
order of the code. `SignDigest` reads the private key once more, after `inspect` returned.
`stage` says what the caller wanted of `inspect` and of the cache.

*quickstart.* An element of `Quickstarts` is the command and, one after the other, the
processes it waits for: `create` and `admit` are initialize, `record` is verify's
signature, `authorize`, `receipt` and `denial` are run, `validating` reads the latest
record and receipt, `verifying` is verify-chain. `End` clears what a process had in memory.
An element of `Signers` is a verify of the same project with a KMS key.

*fix.* One action per read or write. `OpenTemporary` and `FillTemporary` are the two halves
of `write_text`; `handle` says which file an open temporary file is by now, since a rename
takes it along. `before` and `after` are the two hashes of the record; `alone` and `saved`
are history variables for the properties.

### What is abstracted

- *Data.* A circuit, a source, a manifest is told apart from another by its hash, so it is
  a model value; a logical circuit goes by the source that builds it. What gates compute is
  a constant set (`Sound`, `Classical`), what the transpiler may compute another
  (`TranspilesTo`), and its answer part of one step of plan.
- *Dump and hash.* run writes its circuit file and hashes what it wrote in one step
  (`Execute`): an edit between the two would be of a file whose hash is not yet anywhere.
- *Signatures.* A plan file is as signed or altered; an altered one fails its check. The
  signature outcome of verify and run is any of those the code knows, since KMS, the
  environment and the local identity are different from command to command.
- *Files the user may edit.* Sources, manifests, plan and ISA files may change at any
  time. Signed records (approval, submission, consumption, receipts, evidence records) are
  not edited by hand in the model: their signatures are what the checks would find.
- *Partial files.* Records written with a temporary file and a rename appear at once. A
  record that is created exclusively and cut short by a crash is refused by every reader
  for being unreadable, and counts as absent in `Verification` and `TrustedExecution`. It
  is a state of its own where the mere existence of the file matters (`consumption.json`,
  `latest.json`).
- *Crashes* are deaths of processes. Power failures that undo a rename are not modelled.
- *IBM.* The live check of the target, `job.result` on a job that did not finish, network
  and credentials are denials that may always happen (`RaiseDenied`,
  `DenyReconciliation`); INITIALIZING, QUEUED and RUNNING are one status, `PENDING`.
- *Ghosts.* `consumption[a].owner` of a claim still empty, and `job[s].approval`, are
  there to state properties. No action's guard reads them before the file has them.
- *Choices.* `run --latest` picks one record by the pointer, and plan the newest receipt;
  the models allow any record and any receipt, which includes the one picked.
- The clock is read once for lines 762 and 765 of `submission.py`.
- *What a simulation measured.* The hash of the results, the number of shots and the order of
  the times in a local chain (`chain.py` 1501-1566) are not modelled. They can only make
  verify-chain refuse, which `RefuseLocalChain` may do at any time.
- *One look at three files.* `initialize` asks for the private key, the public key and the
  metadata in this order, and none is ever removed, so every outcome of three looks is one
  of one look: all found is the last look's, none found is the first's, and a mixed result
  means that at some look in between a partial set was there, on which one look raises too.
- *The cache and the content of its files.* A key version has one public key, and the
  directory is named by the version, so two signers never mean different bytes.
- *Overwritten files.* A file that two writers had open holds the text of the last, or,
  where the other text was longer, a rest that is no program (`Written` in `Repair`,
  `Garbled` in `LatestPointer`).
- *Circuits of texts.* `Repaired` and `Circuit` are constant functions: what the string
  replacements make of a text, and what the sandbox builds of it.

## 3. Runs

Runs marked * are refutations (section 6). All others pass, in seconds to about a minute
and a half.

| Run | Instance | Question |
| --- | --- | --- |
| `submit_race` | 1 approval, 2 submits, 2 circuits, clock to 1, fair | do racing, failing, dying runs ever get two jobs, or get the order of evidence wrong; is each step one of `SingleUseApproval`; does a call to IBM always settle its approval |
| `qexec_race` | 1 submission, 2 qexec | are receipts true, whoever else reconciles |
| `verify_chain` | 1 approval, 2 submits, 1 qexec, 1 verify-chain; 2 circuits | is a verified chain the governed job; do qexec and verify-chain agree |
| `trusted_path` | 1 verify, 1 run, 1 plan, 1 verify-chain; 3 sources, one with a defect; 2 manifests | is what runs, and what is planned, what was verified; does a verified local chain tell what ran, and does verify-chain accept what run attests |
| `latest_race` | 2 verify, 2 verify-signature | does the pointer ever name a run without a record |
| `local_identity` | 2 quickstarts of one destination, one may die; 1 KMS signer; fair | is what is signed, authorized and shown complete of the key it names, and is that key cached; does every command end |
| `repair_race` | 3 fixes, 5 texts, 2 of them the author's | is anything lost that the author saved; does a recorded repair pass gate 4 |
| `governed_path` | 1 run of each of the seven commands of the path; 2 sources, 2 circuits, 1 manifest | does every job on hardware, and every accepted chain, reach a signed verification of its source; is each step at most one entry of `EvidenceLedger` |
| `finding_*` * | the smallest of the above that shows it | see section 6 |

*Properties.* Besides one type invariant per component:

- `ApprovalBindsSignedCircuit`, `JobRunsSignedCircuit`: from plan to approval to job, the
  circuit is the one that was signed, although artifacts are edited between hashes.
- `AtMostOneJob`: no two runs of submit get a job for one approval.
- `EvidenceBeforeBoundary`: a request only leaves when intent and claim are on disk in the
  name of its run.
- `ConsumedIsBacked`, `DeniedCallIsRecorded`: neither a success nor a failure is claimed
  without the files behind it.
- `ConsumptionOnlyAdvances`: an approval is never freed, and never changes hands.
- `ImplementsSingleUse`: submit, its files and IBM refine `SingleUseApproval`, with the
  owner of `consumption.json` as holder and its status as verdict.
- `CallSettles` (liveness): a run that called IBM leaves CONSUMED or SUBMISSION_UNCERTAIN
  behind, unless it is killed or its handler cannot write.
- `ReceiptIsGoverned`, `ReceiptIsTrue`: a receipt is of the job of its approval, tells how
  it ended, and has its artifacts; a completed one binds the approval, the circuit that IBM
  ran and the CONSUMED record, whatever became of the files since they were read.
- `VerifiedIsTheGovernedJob`: what verify-chain accepts is the one job of its approval.
- `CompletedReceiptVerifies`: the two lists of checks agree. While plan and circuit are as
  signed, the key is published and the record still says CONSUMED, verify-chain's own list
  has nothing against a completed receipt of qexec. It breaks when either side changes alone:
  if qexec drops a check that verify-chain makes (the window), or verify-chain asks for more.
- `ExecutedIsVerified`, `ReceiptsAreFinal`, `PlanTracesToVerification`: the simulator runs
  what was verified, its receipt is never rewritten, and plans come of such receipts.
  A plan's two circuits are the one that ran, unless it was `disturbed`.
- `JobsReachSource`, `VerifiedChainReachesSource`: behind every job on hardware, and behind
  every chain that verify-chain accepts, are an approval, a plan, a completed execution and a
  signed verification, of the source whose transpilation ran. No single command checks this:
  submit and verify-chain look no further back than the plan.
- `ImplementsLedger`: all commands together refine `EvidenceLedger`. A record that verified
  and is signed is a grant, a completed receipt a simulation, a published plan, an approval
  and a job are themselves, a QEXEC receipt an attestation and a verdict a proof.
- `LatestResolves`: the pointer, when it can be read, names a run with a record.
- `VerifiedChainIsWhatRan`, `AttestedRunVerifies`: what verify-chain accepts of a simulation
  ran under an authorizing record of the same source, although project and copies were
  edited; and while the project's files are, or are again, as they were copied, it has
  nothing against what run completes: manifest, source, decision, target and signature of
  its list are all established by run's.
- `NamedKeyIsCached`, `ActiveKeyIsKept`: a record or receipt whose signature names a key
  version finds its key and metadata whole in the cache, although signers race and die over
  its files. Plans and approvals are signed without the cache.
- `AuthorizedIsGenuine`, `CompleteIsOneIdentity`: a run goes on only under a record signed by
  the key it names, and a finished quickstart shows a record and a receipt of one key,
  although another initialization may have replaced it in between.
- `IdentityIsSettled` (action property): once the identity is whole and no initialization is
  under way, its keys are not replaced.
- `CommandsEnd` (liveness): no half-written file of another command keeps one from ending.
- `OriginalIsKept`: what the author saved last is in the entrypoint or in a backup, whatever
  other runs of fix do to the file they share.
- `RecordedRepairPassesGate`: a run of fix that had the project to itself, and recorded its
  repair, is bound to the hashes that gate 4 compares.

Each of these is shown to depend on the code by a mutant: an operator, defined next to the
one it replaces, with the flaw that the property is meant to catch (no O_EXCL; a hash that
is not compared; a flag set too late; a receipt written too early; a copy that is not the
one checked; ...). `PROJECT.json` pairs them, and TLC finds every mutant.

*Bounds.* The races in most of this code are between two processes over one file: in
`submit_race` a run and its retry, or a run that gave up and one that did not; that a third
adds nothing is proved. One approval is enough
where approvals share no file (that holds for any number is proved). Two circuits, sources
and manifests are what an edit needs: the right one and a wrong one. The clock needs two
values and approvals a lifetime of one, so that a window can close between any two steps;
`MaxTime` bounds only `Tick`. In `verify_chain` a second qexec would add nothing that
`qexec_race` does not have, and in `qexec_race` a second submit nothing that `verify_chain`
does not. In `trusted_path` two runs, or two verifications, share nothing but the project:
an edit stands for the other; one of each leaves room for three sources, so that a sound
source can be edited into another sound one as well as into a broken one. In
`local_identity` two initializations are what it takes to replace each other's files, a KMS
signer makes the root copy of the public key change hands, and one quickstart must survive
for something to be complete. In `repair_race` three fixes are one that was killed and left
its temporary file, one under way and one more; the deferred text is altered again by a
second fix, and one text of the author is broken by the replacements. `latest_race` has one unchanging project, as the pointer does not
depend on it.
In `governed_path` the clock stands still, since windows are `verify_chain`'s; `MCAtRest` has
TLC go on from a published plan only if verify and run had come to rest and the files they
read are the right ones by then: no later command sees what they would still do. Both limits
are the run's alone, the theorems have neither.
Symmetry is used among the elements of one set of processes, in safety runs only.

*Deadlock.* Every command ends, and when all have ended the system stops:
`CHECK_DEADLOCK FALSE` where nothing, such as an edit, remains to be done.

*Fairness.* `FairSpec` has weak fairness of the steps of each submit that was started. The
code justifies it: after the start every step is a call to KMS, IBM, the disk or the
prompt, and each of these returns or raises. That a command is started, that it is killed,
that IBM takes a request or answers, that time passes, are not promised. `CallSettles`
rests on one more fact that the step relation expresses: while IBM has not answered, the
enabled step is the exception of the client. In `Quickstart` it is weak fairness of the
disjunction: as long as some started command can take a step, one of them does. That is
less than every command's own fairness, and enough, since no command waits for another.

## 4. Assumptions of the modules

`IssuanceAssumption`, `SubmissionAssumption`, `ReconciliationAssumption`,
`VerificationAssumption`, `PointerAssumption`, `ExecutionAssumption`, `QuickstartAssumption`,
`VoidAssumption`, `RepairAssumption`, `PathAssumption`: the constants have their kinds, lifetimes are positive
(`--ttl-minutes` is checked to be), `None`, `Void` and the two unreadable contents are none
of the values they stand beside, and the keys of KMS are none of those that a quickstart
makes (a local key version is `quantumd-local-development:` and a fingerprint). Of
`TranspilesTo` only its kind is assumed: a source may have any number of transpilations, or
none, or share them with others. `PathAssumption` repeats what `TrustedExecution` assumes, as
that module is instantiated (`SideAssumptions` proves that it does). No set is
assumed to be finite and no number is fixed.

## 5. Proofs

| Theorem | Says |
| --- | --- |
| `TypeCorrect`, `ApprovalBindsSignedCircuitCorrect`, `AtMostOneJobCorrect`, `EvidenceBeforeBoundaryCorrect`, `ConsumedIsBackedCorrect`, `JobRunsSignedCircuitCorrect`, `DeniedCallIsRecordedCorrect`, `ConsumptionOnlyAdvancesCorrect` (`GovernedSubmission_proofs`) | `Spec => []...` for each property of submit of that name |
| `SingleUseRefinement` (`GovernedSubmission_proofs`) | `Spec => SingleUse!Spec` |
| `ReconciliationTypeCorrect`, `ReceiptIsGovernedCorrect`, `ReceiptIsTrueCorrect`, `VerifiedIsTheGovernedJobCorrect`, `CompletedReceiptVerifiesCorrect` (`Reconciliation_proofs`) | the same for qexec and verify-chain |
| `ExecutedIsVerifiedCorrect`, `PlanTracesToVerificationCorrect`, `ReceiptsAreFinalCorrect` (`TrustedExecution_proofs`) | the same for run and plan |
| `LocalTypeCorrect`, `VerifiedChainIsWhatRanCorrect`, `AttestedRunVerifiesCorrect` (`TrustedExecution_proofs`) | the same for verify-chain over a simulation |
| `PointerTypeCorrect`, `LatestResolvesCorrect` (`LatestPointer_proofs`) | the same for `latest.json` |
| `QuickstartTypeCorrect`, `NamedKeyIsCachedCorrect`, `ActiveKeyIsKeptCorrect`, `AuthorizedIsGenuineCorrect`, `CompleteIsOneIdentityCorrect`, `IdentityIsSettledCorrect` (`Quickstart_proofs`) | the same for quickstart, the local identity and the key cache |
| `RepairTypeCorrect`, `OriginalIsKeptCorrect`, `RecordedRepairPassesGateCorrect` (`Repair_proofs`) | the same for fix |
| `JobsReachSourceCorrect`, `VerifiedChainReachesSourceCorrect` (`GovernedPath_proofs`) | `PathSpec => []...` for the whole path |
| `LedgerRefinement` (`GovernedPath_proofs`) | `PathSpec => Ledger!Spec` |
| `PathIsVerifySpec`, `PathIsTrustSpec` (`GovernedPath_proofs`) | `PathSpec => VerifySpec` and `PathSpec => Project!TrustSpec`: what is proved of a side holds of the whole |

The arguments:

- *Submit.* `AtMostOneJob` alone is not inductive, as a state with two runs at the call is
  not excluded by it. `IInv` adds: what a run remembers is the published approval
  (`RunsInv`); between its claim and its end a run owns the consumption, with the status it
  wrote last, and a request is only ever sent by an owner (`ClaimsInv`); a job is its
  request's job, and what was recorded of it is true (`JobsInv`); an approver holds a
  payload that binds the signed circuit (`ApproversInv`). Ownership is exclusive because
  `OpenClaim` needs the file to be absent and nothing removes it, so two runs with jobs for
  one approval are one run. The preservation proof has one step for each kind of action;
  writes of `consumption.json` share one lemma.
- *Refinement.* Under `IInv`, the exclusive creation is `Claim`, the filling of the claim a
  stutter, IBM's acceptance `Accept`, the CONSUMED record `Consume`, the handler's record
  `Doubt` (or a stutter); everything else leaves the mapped variables alone.
- *Reconciliation.* `CoreInv` is `IInv` with the times (a job is taken after its window
  opened and before its record's stamp). `ReconcileInv` adds that an active qexec has a
  target whose consumption was CONSUMED and stays at least that (`Governed`, kept by every
  step, `GovernedStays`), and how far its artifacts and its observation of the job are.
  `BindsInv` adds that what qexec keeps, and a completed receipt binds, is the target's
  approval, that approval's circuit and the consumption as CONSUMED by it. A consumption
  that is CONSUMED now is therefore the one that was bound, and verify-chain's checks follow
  one by one (`CompletedReceiptVerifiesCorrect`).
- *Run and plan.* `TrustInv` says what each stage established: authorized means that the
  record allows the target, identified that the copy is the recorded source. Records are
  never rewritten, which rests on a run writing its record last (`RecordsInv`). A receipt is
  only there once its run reported or ended (`ExecutionsInv`), so its circuit file is no longer
  written by run, and what plan holds is what it hashed unless somebody else wrote to the file
  (`UpstreamInv`).
- *The whole path.* `PathInv` is the invariant of each side, and `MeetInv` of what they share:
  an approval, drafted or published, is of a published plan, and what a published plan signs
  is a transpilation of the circuit it loaded. The sides are proved apart: `Side` is the proof
  module of run and plan, instantiated, and the lemmas `SameInit` and `SameStep` carry its
  facts over. A job then has, by `JobRunsSignedCircuit`, an approval and its plan's circuit;
  by `MeetInv` a published plan; and by `PlanTracesToVerification` and `ExecutedIsVerified`
  the rest.
- *The ledger.* Two lemmas say what one step may write: `EvidenceWrites` for verify, run and
  plan (a record, a receipt or a plan, where there was none), `HardwareWrites` for the others
  (an approval, a job, a receipt or a verdict). A step of the path keeps one side still, so at
  most one entry is written, and each of `GrantStep` to `ProveStep` shows, from the facts of
  the state reached (`PathInvImpliesNext`), that the entry it stands on was there.
- *Pointer.* Every pointer in any file and in any memory names a record (`NamesInv`), not
  only the one in `latest.json`; that makes it inductive, since files change names.
- *Local chain.* `LocalInv` is `TrustInv` with two facts. A finished run keeps the copy
  that it executed, so a completed receipt still speaks of it (`CopyInv`); and what a reader
  established of the records it loaded stays true, as no record is rewritten (`ReadersInv`).
- *Quickstart.* Only the process that makes key k writes it as private key, once. A private
  key that was replaced therefore never comes back (`Past`, `ReplacedStays`). A record whose
  signature names one key and was made by another names a key whose private half was
  replaced in between, so no later inspection admits it: that is `RecordFact`, and what
  makes `AuthorizedIsGenuine` inductive. `CacheFact` follows each signer file by file; a
  file once whole stays so (`FullStays`).
- *Fix.* While a run is about to rename, or still writes what is the entrypoint by now, the
  author's last text is in a backup (`BackupsInv`). `AloneFact` says, stage by stage, how the
  files relate to what a run remembers, for a run that had the project to itself.

All theorems are for any number of runs of each command, of sources, circuits, plans and
approvals. `SignedIsa` as a constant is no restriction: the theorems hold for each of its
values, hence for whatever the transpiler answers.

Only model-checked: `CallSettles` and `CommandsEnd`, because liveness under fairness is out
of the prover's reach. Every other property of section 3 is also a theorem. Refutations are
TLC's.

## 6. Where code and words differ

Each is a run that TLC ends with a counterexample; `findings` in `PROJECT.json` quotes the
lines.

- `finding_uncertain`: an exception after `submission.json` was written replaces a CONSUMED
  record by one that says that no record was completed.
- `finding_two_receipts`: two `qexec --wait` of one submission both write a receipt, and
  from then on `verify-chain --submission-id` refuses it.
- `finding_marked`: verify-signature marks a pointer whose record it did not check.
- `finding_local_trust`: plan reads the receipt of an execution and never the verification
  behind it, so a project that only the local identity verified gets a hardware plan if a
  KMS key is configured when it runs.

More gaps are in the models and have no run of their own:

- For the same reason as `finding_local_trust`, the restriction of a verification to
  education does not reach the plan.
- The approval's window is checked last before the prompt: a job may reach IBM after the
  approval expired, and its evidence is then refused for ever.
- An approve command that fails after `approval.json` was renamed prints APPROVAL FAILED
  CLOSED, and submit takes that approval (`FailApproval` at `"published"`); without its key
  file the chain can never be verified.
- verify hashes the entrypoint before its gates open it again, so an edit in between leaves
  a signed record of a source that no gate saw (`HashSource`, `EditSource`, `GateCode`); what
  runs later is still the recorded source, as `ExecutedIsVerified` says.
- plan compares the hash of the execution's circuit file once and opens the file twice more
  (`planning.py` 112, 209, 253). An edit in between is transpiled, signed and run under the
  receipt of another circuit; and the signed plan's copy may differ from what it transpiled.
  The properties say `p \notin disturbed` for this reason and for no other.
- A fix that is killed between rename and record (`StopFix` at `"renamed"`) leaves a repair
  without provenance, on which gate 4 is skipped. A text that the author saves between the
  backup and the rename is lost (`Settled`).
- Two initializations, or one that is killed between its renames, can leave an identity
  whose three files are not of one key. Every later command then refuses it (`inspect`), as
  `AuthorizedIsGenuine` needs; nothing repairs it.

## 7. Not modelled, and what is left

Not modelled: transpilation and the observation of the backend, the simulator, the sandbox
and the equivalence checker (computations; a failure is a denial of the caller); report, which
writes `report.html` and no evidence; doctor, which prints what it finds, and by inspecting
the local identity may fill the key cache as any signer may; `adversarial.py` and demo, which work in a temporary
directory of their own and test what the modules above state; init, which writes a template;
credentials; reserved empty packages, scripts, packaging and documentation.

What plan computes is not modelled either, only what it takes, what it signs and when it opens
what.

Left to do: the local chains, the pointer and fix on the composed path, as `GovernedPath` has
verify-chain for hardware only; and a second local identity of another user, for the chains
that are verified on a machine where no key was made.
