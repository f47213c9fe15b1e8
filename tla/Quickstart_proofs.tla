--------------------------- MODULE Quickstart_proofs ---------------------------
(***************************************************************************)
(* The key that is named is the key that signed, wherever the program goes *)
(* on, and it is in the cache: proofs for any number of quickstarts of one *)
(* destination, of KMS signers and of keys.                                *)
(***************************************************************************)
EXTENDS Quickstart, TLAPS

Inspections == {"admit", "record", "authorize", "receipt", "denial"}

(* Of the key it inspected, or made, a process has read everything.        *)
Held == {"read private", "cached"} \cup CacheSteps

(* The process that makes key k has written its private key, for the first *)
(* and last time.                                                          *)
Past(k) == pc[k] \notin {"idle", "creating", "looking", "write private"}

Present == \A f \in IdentityFiles : identity[f] # None

Signs(signature) == signature \notin {None, Void}

(* Where each process is in what it does.                                  *)
StageFact(p) ==
  /\ p \in Signers => /\ stage[p] \in {"kms", "ended"}
                      /\ pc[p] \in {"idle", "asking", "cached", "raised"}
                                     \cup CacheSteps \cup Ends
  /\ p \in Quickstarts => stage[p] # "kms" /\ pc[p] # "asking"
  /\ stage[p] = "ended" <=> pc[p] \in Ends
  /\ pc[p] \in {"creating", "looking"} \cup Writing => stage[p] = "create"
  /\ pc[p] \in Inspecting => stage[p] \in Inspections
  /\ pc[p] = "idle" => stage[p] \in {"create", "kms"}
  /\ pc[p] = "resolving" => stage[p] = "authorize"
  /\ pc[p] \in {"validating", "verifying"} => stage[p] = "receipt"

(* The key it works with.                                                  *)
KeyFact(p) ==
  /\ p \in Quickstarts => key[p] \in Quickstarts \cup {None}
  /\ p \in Signers /\ pc[p] \notin {"idle"} \cup Ends => key[p] \in KmsKeys
  /\ pc[p] \in Writing => key[p] = p
  /\ pc[p] \in Held => key[p] \in Keys
  /\ stage[p] \in Inspections /\ pc[p] \in Held => Past(key[p])

(* The files it relies on.                                                 *)
IdentityFact(p) ==
  /\ stage[p] \in Inspections => Present
  /\ stage[p] = "create" /\ pc[p] \in {"cached"} \cup CacheSteps => Present
  /\ pc[p] \in {"write public", "write metadata"} => identity["private"] # None
  /\ pc[p] = "write metadata" => identity["public"] # None

CacheFact(p) ==
  /\ pc[p] \in {"metadata.json", "filling metadata", "active", "replacing", "cached"}
       => cached[key[p]]["public-key.pem"] = "full"
  /\ pc[p] \in {"active", "replacing", "cached"} => Whole(key[p])

(* A record that names another key than the one that made it names a key   *)
(* whose private half was replaced, and is never read again.               *)
RecordFact(p) ==
  /\ record[p] # None => stage[p] \in {"authorize", "receipt", "denial", "ended"}
  /\ Signs(record[p]) =>
       /\ record[p] \in Signature
       /\ Whole(record[p].names)
       /\ record[p].by # record[p].names =>
            /\ record[p].names \in Quickstarts
            /\ Past(record[p].names)
            /\ identity["private"] # record[p].names

Genuine(r) == Signs(record[r]) /\ record[r].by = record[r].names

ChosenFact(p) ==
  /\ stage[p] = "authorize" /\ pc[p] # "resolving" =>
       chosen[p] \in Processes /\ Signs(record[chosen[p]])
  /\ stage[p] = "authorize" /\ pc[p] \in Held
       /\ record[chosen[p]].names = key[p] => Genuine(chosen[p])
  /\ stage[p] = "receipt" => chosen[p] \in Processes /\ Genuine(chosen[p])

ReceiptFact(p) ==
  /\ receipt[p] # None => pc[p] \in {"validating", "verifying"} \cup Ends
  /\ Signs(receipt[p]) =>
       /\ receipt[p] \in Receipt
       /\ receipt[p].signature.names \in Quickstarts
       /\ Whole(receipt[p].signature.names)
       /\ Genuine(receipt[p].record)
  /\ pc[p] = "complete" =>
       /\ proved[p] \in Processes
       /\ Signs(receipt[proved[p]])
       /\ receipt[proved[p]].signature = record[receipt[proved[p]].record]

Fact(p) ==
  /\ StageFact(p) /\ KeyFact(p) /\ IdentityFact(p) /\ CacheFact(p)
  /\ RecordFact(p) /\ ChosenFact(p) /\ ReceiptFact(p)

(* The private key on disk is there because its maker wrote it.            *)
PrivateInv == identity["private"] # None => Past(identity["private"])

Inv ==
  /\ TypeOKQuickstart
  /\ PrivateInv
  /\ ActiveKeyIsKept
  /\ \A p \in Processes : Fact(p)

Act(p) == Start(p) \/ Advance(p) \/ Fail(p)

-----------------------------------------------------------------------------
(* The facts hold initially: nothing was read, written or made.            *)
LEMMA InitInv == Init => Inv
<1> SUFFICES ASSUME Init PROVE Inv
  OBVIOUS
<1> USE QuickstartAssumption
<1>1. TypeOKQuickstart
  BY DEF Init, IdentityInit, CacheInit, TypeOKQuickstart, TypeOKIdentity,
     TypeOKCache,
         IdentityFiles, Stages, Steps
<1>2. PrivateInv /\ ActiveKeyIsKept
  BY DEF Init, IdentityInit, CacheInit, PrivateInv, ActiveKeyIsKept,
     IdentityFiles
<1>3. \A p \in Processes : Fact(p)
  BY DEF Init, IdentityInit, Fact, StageFact, KeyFact, IdentityFact, CacheFact,
     RecordFact,
         ChosenFact, ReceiptFact, Signs, Inspections, Held, CacheSteps, Versioned,
         Writing, Inspecting, Ends
<1> QED
  BY <1>1, <1>2, <1>3 DEF Inv

-----------------------------------------------------------------------------
(* A process changes nothing that is another's.                            *)
LEMMA OthersAreLeft ==
  ASSUME TypeOKQuickstart, NEW p \in Processes, Act(p),
         NEW q \in Processes, q # p
  PROVE  /\ pc'[q] = pc[q] /\ stage'[q] = stage[q] /\ key'[q] = key[q]
         /\ record'[q] = record[q] /\ receipt'[q] = receipt[q]
         /\ chosen'[q] = chosen[q] /\ proved'[q] = proved[q]
<1> USE DEF TypeOKQuickstart, TypeOKIdentity, TypeOKCache, Enter, End, Move,
            evidenceVars, cacheVars
<1>1. CASE Start(p)
  BY <1>1 DEF Start, StartQuickstart, AskKms
<1>2. CASE Cache(p)
  BY <1>2 DEF Cache, CacheKey, CreateCached, FillCached, KeepCached,
     RefuseCached,
              KeepActive, MissActive, ReplaceActive
<1>3. CASE Trust(p)
  BY <1>3 DEF Trust, Initialize, Inspect, FindPartial, FindIdentity,
     FindNothing,
              WriteIdentity, WritePrivate, WritePublic, WriteMetadata, InspectOwn,
              ReadMetadata, ReadPrivate, ReadPublic, RejectIdentity
<1>4. CASE Commands(p)
  BY <1>4 DEF Commands, CreateProject, StartVerify, SignRecord,
     LeaveRecordUnsigned,
              ResolveLocal, ResolveKms, DenyRecord, AuthorizeRecord, DenyAuthorization,
              FailWorkload, SignReceipt, LeaveReceiptVoid, ValidateArtifacts,
              RejectArtifacts, CompleteQuickstart, RefuseChain, FailQuickstart
<1>5. CASE SignWithKms(p) \/ WriteKmsRecord(p) \/ FailKmsRecord(p)
  BY <1>5 DEF SignWithKms, WriteKmsRecord, FailKmsRecord
<1>6. CASE Fail(p)
  BY <1>6 DEF Fail, Interrupt, FailCaching
<1> QED
  BY <1>1, <1>2, <1>3, <1>4, <1>5, <1>6 DEF Act, Advance

-----------------------------------------------------------------------------
(* What was written stays: files of the identity are only replaced, a full *)
(* cached file is final, and so are a record and a receipt.                *)
LEMMA FilesStay ==
  ASSUME Inv, NEW p \in Processes, Act(p)
  PROVE  /\ \A f \in IdentityFiles : identity[f] # None => identity'[f] # None
         /\ identity'["private"] # identity["private"] =>
              /\ p \in Quickstarts
              /\ pc[p] = "write private" /\ pc'[p] = "write public"
              /\ identity'["private"] = p
<1> USE QuickstartAssumption DEF Inv, TypeOKQuickstart, TypeOKIdentity,
    TypeOKCache, Move
<1>1. CASE p \in Quickstarts /\ Trust(p)
  <2>1. pc[p] \in Writing => key[p] = p
    BY DEF Fact, KeyFact
  <2>2. CASE Initialize(p)
    BY <1>1, <2>1, <2>2 DEF Initialize, FindPartial, FindIdentity, FindNothing,
       Writing,
            WriteIdentity, WritePrivate, WritePublic, WriteMetadata, InspectOwn,
            IdentityFiles
  <2>3. CASE Inspect(p)
    BY <2>3 DEF Inspect, ReadMetadata, ReadPrivate, ReadPublic, RejectIdentity
  <2> QED
    BY <1>1, <2>2, <2>3 DEF Trust
<1>2. CASE UNCHANGED identity
  BY <1>2
<1>3. CASE Start(p)
  BY <1>2, <1>3 DEF Start, StartQuickstart, AskKms
<1>4. CASE Cache(p)
  BY <1>2, <1>4 DEF Cache
<1>5. CASE Commands(p)
  BY <1>2, <1>5 DEF Commands, CreateProject, StartVerify, SignRecord,
     LeaveRecordUnsigned,
              ResolveLocal, ResolveKms, DenyRecord, AuthorizeRecord, DenyAuthorization,
              FailWorkload, SignReceipt, LeaveReceiptVoid, ValidateArtifacts,
              RejectArtifacts, CompleteQuickstart, RefuseChain, FailQuickstart
<1>6. CASE SignWithKms(p) \/ WriteKmsRecord(p) \/ FailKmsRecord(p)
  BY <1>2, <1>6 DEF SignWithKms, WriteKmsRecord, FailKmsRecord
<1>7. CASE Fail(p)
  BY <1>2, <1>7 DEF Fail, Interrupt
<1> QED
  BY <1>1, <1>3, <1>4, <1>5, <1>6, <1>7 DEF Act, Advance

LEMMA FullStays ==
  ASSUME Inv, NEW p \in Processes, Act(p)
  PROVE  \A k \in Keys :
           /\ \A f \in Versioned : cached[k][f] = "full" => cached'[k][f] = "full"
           /\ Whole(k) => Whole(k)'
<1> USE QuickstartAssumption DEF Inv, TypeOKQuickstart, TypeOKIdentity,
    TypeOKCache, Move
<1>1. SUFFICES \A k \in Keys, f \in Versioned :
                 cached[k][f] = "full" => cached'[k][f] = "full"
  BY DEF Whole
<1>2. CASE UNCHANGED cached
  BY <1>2
<1>3. CASE Start(p)
  BY <1>2, <1>3 DEF Start, StartQuickstart, AskKms, cacheVars
<1>4. CASE Cache(p)
  <2>1. pc[p] \in CacheSteps => key[p] \in Keys
    BY DEF Fact, KeyFact, Held
  <2>2. ASSUME NEW f \in Versioned, CreateCached(p, f) \/ FillCached(p, f)
        PROVE  \A k \in Keys, g \in Versioned :
                 cached[k][g] = "full" => cached'[k][g] = "full"
    <3>1. key[p] \in Keys
      BY <2>1, <2>2 DEF CreateCached, FillCached, CacheSteps, Versioned,
         Filling
    <3>2. CASE CreateCached(p, f)
      BY <3>1, <3>2 DEF CreateCached
    <3>3. CASE FillCached(p, f)
      BY <3>1, <3>3 DEF FillCached
    <3> QED
      BY <2>2, <3>2, <3>3
  <2> QED
    BY <1>2, <1>4, <2>2 DEF Cache, CacheKey, KeepCached, RefuseCached,
       KeepActive,
              MissActive, ReplaceActive, cacheVars
<1>5. CASE Trust(p)
  BY <1>2, <1>5 DEF Trust, Initialize, Inspect, FindPartial, FindIdentity,
     FindNothing,
              WriteIdentity, WritePrivate, WritePublic, WriteMetadata, InspectOwn,
              ReadMetadata, ReadPrivate, ReadPublic, RejectIdentity, cacheVars
<1>6. CASE Commands(p)
  BY <1>2, <1>6 DEF Commands, CreateProject, StartVerify, SignRecord,
     LeaveRecordUnsigned,
              ResolveLocal, ResolveKms, DenyRecord, AuthorizeRecord, DenyAuthorization,
              FailWorkload, SignReceipt, LeaveReceiptVoid, ValidateArtifacts,
              RejectArtifacts, CompleteQuickstart, RefuseChain, FailQuickstart, cacheVars
<1>7. CASE SignWithKms(p) \/ WriteKmsRecord(p) \/ FailKmsRecord(p)
  BY <1>2, <1>7 DEF SignWithKms, WriteKmsRecord, FailKmsRecord, cacheVars
<1>8. CASE Fail(p)
  BY <1>2, <1>8 DEF Fail, Interrupt, FailCaching, cacheVars
<1> QED
  BY <1>3, <1>4, <1>5, <1>6, <1>7, <1>8 DEF Act, Advance

LEMMA PastStays ==
  ASSUME Inv, NEW p \in Processes, Act(p), NEW k \in Processes, Past(k)
  PROVE  Past(k)'
<1> USE DEF Move, Enter, End, Past
<1>0. pc = [q \in Processes |-> pc[q]]
  BY DEF Inv, TypeOKQuickstart
<1>1. CASE k # p
  BY <1>1, OthersAreLeft DEF Inv
<1>2. CASE k = p
  <2>1. CASE Start(p)
    BY <1>0, <1>2, <2>1 DEF Start, StartQuickstart, AskKms
  <2>2. CASE Cache(p)
    BY <1>0, <1>2, <2>2 DEF Cache, CacheKey, CreateCached, FillCached,
       KeepCached, RefuseCached,
              KeepActive, MissActive, ReplaceActive, Versioned, Filling, After
  <2>3. CASE Trust(p)
    BY <1>0, <1>2, <2>3 DEF Trust, Initialize, Inspect, FindPartial,
       FindIdentity, FindNothing,
              WriteIdentity, WritePrivate, WritePublic, WriteMetadata, InspectOwn,
              ReadMetadata, ReadPrivate, ReadPublic, RejectIdentity
  <2>4. CASE Commands(p)
    BY <1>0, <1>2, <2>4 DEF Commands, CreateProject, StartVerify, SignRecord,
              LeaveRecordUnsigned,
              ResolveLocal, ResolveKms, DenyRecord, AuthorizeRecord, DenyAuthorization,
              FailWorkload, SignReceipt, LeaveReceiptVoid, ValidateArtifacts,
              RejectArtifacts, CompleteQuickstart, RefuseChain, FailQuickstart
  <2>5. CASE SignWithKms(p) \/ WriteKmsRecord(p) \/ FailKmsRecord(p)
    BY <1>0, <1>2, <2>5 DEF SignWithKms, WriteKmsRecord, FailKmsRecord
  <2>6. CASE Fail(p)
    BY <1>0, <1>2, <2>6 DEF Fail, Interrupt, FailCaching
  <2> QED
    BY <2>1, <2>2, <2>3, <2>4, <2>5, <2>6 DEF Act, Advance
<1> QED
  BY <1>1, <1>2

LEMMA EvidenceStays ==
  ASSUME Inv, NEW p \in Processes, Act(p), NEW r \in Processes
  PROVE  /\ record[r] # None => record'[r] = record[r]
         /\ receipt[r] # None => receipt'[r] = receipt[r]
<1> USE QuickstartAssumption
    DEF Inv, TypeOKQuickstart, Move, Enter, End, evidenceVars
<1>1. CASE r # p
  BY <1>1, OthersAreLeft
<1>2. CASE r = p
  <2>1. /\ record[p] # None => stage[p] \in {"authorize", "receipt", "denial", "ended"}
        /\ receipt[p] # None => pc[p] \in {"validating", "verifying"} \cup Ends
        /\ stage[p] = "ended" <=> pc[p] \in Ends
    BY DEF Fact, RecordFact, ReceiptFact, StageFact
  <2>2. CASE Start(p)
    BY <2>2 DEF Start, StartQuickstart, AskKms
  <2>3. CASE Cache(p)
    BY <2>3 DEF Cache
  <2>4. CASE Trust(p)
    BY <2>4 DEF Trust
  <2>5. CASE Commands(p)
    BY <1>2, <2>1, <2>5 DEF Commands, CreateProject, StartVerify, SignRecord,
              LeaveRecordUnsigned,
              ResolveLocal, ResolveKms, DenyRecord, AuthorizeRecord, DenyAuthorization,
              FailWorkload, SignReceipt, LeaveReceiptVoid, ValidateArtifacts,
              RejectArtifacts, CompleteQuickstart, RefuseChain, FailQuickstart, Ends
  <2>6. CASE SignWithKms(p) \/ WriteKmsRecord(p) \/ FailKmsRecord(p)
    BY <1>2, <2>1, <2>6 DEF SignWithKms, WriteKmsRecord, FailKmsRecord
  <2>7. CASE Fail(p)
    BY <2>7 DEF Fail, Interrupt, FailCaching
  <2> QED
    BY <2>2, <2>3, <2>4, <2>5, <2>6, <2>7 DEF Act, Advance
<1> QED
  BY <1>1, <1>2

-----------------------------------------------------------------------------
(* Every step keeps the types.                                             *)
LEMMA TypeStep ==
  ASSUME Inv, NEW p \in Processes, Act(p)
  PROVE  TypeOKQuickstart'
<1> USE QuickstartAssumption
    DEF TypeOKQuickstart, TypeOKIdentity, TypeOKCache, Move, Enter, End, Stages,
        evidenceVars, cacheVars
<1>a. {"idle", "creating", "looking", "cached", "raised", "resolving", "validating",
       "verifying", "asking", "complete", "failed", "signed"}
         \cup CacheSteps \cup Writing \cup Inspecting \subseteq Steps
  BY DEF Steps, Ends
<1>0. TypeOKQuickstart /\ KeyFact(p) /\ IdentityFact(p)
  BY DEF Inv, Fact
<1>1. CASE Start(p)
  BY <1>a, <1>0, <1>1 DEF Start, StartQuickstart, AskKms
<1>2. CASE Cache(p)
  <2>1. pc[p] \in CacheSteps => key[p] \in Keys
    BY <1>0 DEF KeyFact, Held
  <2>2. ASSUME NEW f \in Versioned, CreateCached(p, f) \/ FillCached(p, f)
        PROVE  TypeOKQuickstart'
    <3>1. key[p] \in Keys /\ Filling(f) \in Steps /\ After(f) \in Steps
      BY <1>a, <2>1, <2>2 DEF CreateCached, FillCached, Filling, After,
         CacheSteps, Versioned
    <3>2. PICK to \in Steps, content \in {"empty", "full"} :
            /\ cached' = [cached EXCEPT ![key[p]][f] = content]
            /\ pc' = [pc EXCEPT ![p] = to]
            /\ UNCHANGED <<active, key>>
      BY <2>2, <3>1 DEF CreateCached, FillCached
    <3>3. cached' \in [Keys -> [Versioned -> {"absent", "empty", "full"}]]
      BY <1>0, <3>1, <3>2
    <3> QED
      BY <1>0, <1>2, <3>2, <3>3 DEF Cache
  <2>3. ASSUME NEW f \in Versioned, KeepCached(p, f) \/ RefuseCached(p, f)
        PROVE  TypeOKQuickstart'
    <3>1. After(f) \in Steps
      BY <1>a DEF After, CacheSteps, Versioned
    <3> QED
      BY <1>a, <1>0, <1>2, <2>3, <3>1 DEF Cache, KeepCached, RefuseCached
  <2>4. CASE KeepActive(p) \/ MissActive(p) \/ ReplaceActive(p)
    <3>1. CASE KeepActive(p)
      BY <1>a, <1>0, <1>2, <2>1, <3>1 DEF Cache, KeepActive
    <3>2. CASE MissActive(p)
      BY <1>a, <1>0, <1>2, <2>1, <3>2 DEF Cache, MissActive, CacheSteps
    <3>3. CASE ReplaceActive(p)
      BY <1>a, <1>0, <1>2, <2>1, <3>3 DEF Cache, ReplaceActive, CacheSteps
    <3> QED
      BY <2>4, <3>1, <3>2, <3>3
  <2> QED
    BY <1>2, <2>2, <2>3, <2>4 DEF Cache, CacheKey
<1>3. CASE p \in Quickstarts /\ Trust(p)
  <2>1. CASE FindPartial(p)
             \/ FindIdentity(p)
             \/ FindNothing(p)
             \/ InspectOwn(p)
    <3>1. CASE FindPartial(p)
      BY <1>a, <1>0, <1>3, <3>1 DEF FindPartial, Trust
    <3>2. CASE FindIdentity(p)
      BY <1>a, <1>0, <1>3, <3>2 DEF FindIdentity, Trust, Inspecting
    <3>3. CASE FindNothing(p)
      BY <1>a, <1>0, <1>3, <3>3 DEF FindNothing, Trust, Writing
    <3>4. CASE InspectOwn(p)
      BY <1>a, <1>0, <1>3, <3>4 DEF InspectOwn, Trust, Inspecting
    <3> QED
      BY <2>1, <3>1, <3>2, <3>3, <3>4
  <2>3. CASE WritePrivate(p) \/ WritePublic(p) \/ WriteMetadata(p)
    <3>1. pc[p] \in Writing /\ key[p] = p
      BY <1>0, <2>3 DEF KeyFact, WriteIdentity, WritePrivate, WritePublic,
         WriteMetadata,
            Writing
    <3>2. PICK f \in IdentityFiles, to \in Steps :
            /\ identity' = [identity EXCEPT ![f] = p]
            /\ pc' = [pc EXCEPT ![p] = to]
            /\ UNCHANGED <<cacheVars, key, stage>>
      BY <1>a, <2>3, <3>1 DEF WriteIdentity, WritePrivate, WritePublic,
         WriteMetadata,
            Writing, IdentityFiles, CacheSteps, Versioned
    <3> QED
      BY <1>0, <1>3, <3>2 DEF Trust
  <2>2. CASE Inspect(p)
    <3>1. CASE ReadMetadata(p)
      BY <1>a, <1>0, <1>3, <3>1 DEF Trust, ReadMetadata, IdentityFiles,
            Inspecting
    <3>2. CASE ReadPrivate(p)
      BY <1>a, <1>0, <1>3, <3>2 DEF Trust, ReadPrivate, Inspecting
    <3>3. CASE ReadPublic(p)
      BY <1>a, <1>0, <1>3, <3>3 DEF Trust, ReadPublic, CacheSteps,
            Versioned
    <3>4. CASE RejectIdentity(p)
      BY <1>a, <1>0, <1>3, <3>4 DEF Trust, RejectIdentity
    <3> QED
      BY <2>2, <3>1, <3>2, <3>3, <3>4 DEF Inspect
  <2> QED
    BY <1>3, <2>1, <2>2, <2>3 DEF Trust, Initialize
<1>4. CASE p \in Quickstarts /\ Commands(p)
  <2>1. CASE CreateProject(p)
             \/ StartVerify(p)
             \/ LeaveRecordUnsigned(p)
             \/ AuthorizeRecord(p)
    <3>1. CASE CreateProject(p)
      BY <1>a, <1>0, <3>1 DEF CreateProject
    <3>2. CASE StartVerify(p)
      BY <1>a, <1>0, <3>2 DEF StartVerify, Inspecting
    <3>3. CASE LeaveRecordUnsigned(p)
      BY <1>a, <1>0, <3>3 DEF LeaveRecordUnsigned
    <3>4. CASE AuthorizeRecord(p)
      BY <1>a, <1>0, <3>4 DEF AuthorizeRecord, Inspecting
    <3> QED
      BY <2>1, <3>1, <3>2, <3>3, <3>4
  <2>7. CASE DenyAuthorization(p) \/ FailWorkload(p)
    BY <1>a, <1>0, <2>7 DEF DenyAuthorization, FailWorkload, Inspecting
  <2>8. CASE LeaveReceiptVoid(p) \/ FailQuickstart(p)
    <3>1. CASE LeaveReceiptVoid(p)
      BY <1>a, <1>0, <3>1 DEF LeaveReceiptVoid
    <3>2. CASE FailQuickstart(p)
      BY <1>a, <1>0, <3>2 DEF FailQuickstart
    <3> QED
      BY <2>8, <3>1, <3>2
  <2>2. CASE SignRecord(p)
    <3>1. SignDigest(p) \in Signature
      BY <1>a, <1>0, <2>2 DEF SignRecord, SignDigest, Signature, KeyFact,
         IdentityFact, Held,
              Inspections, Present, IdentityFiles
    <3> QED
      BY <1>a, <1>0, <2>2, <3>1 DEF SignRecord
  <2>3. CASE SignReceipt(p)
    <3>1. SignDigest(p) \in Signature
      BY <1>a, <1>0, <2>3 DEF SignReceipt, SignDigest, Signature, KeyFact,
         IdentityFact, Held,
              Inspections, Present, IdentityFiles
    <3>2. chosen[p] \in Processes
      BY <2>3 DEF SignReceipt, Inv, Fact, ChosenFact
    <3>3. [record |-> chosen[p], signature |-> SignDigest(p)] \in Receipt
      BY <3>1, <3>2 DEF Receipt
    <3> QED
      BY <1>a, <1>0, <2>3, <3>3 DEF SignReceipt
  <2>4. ASSUME NEW r \in Processes,
               ResolveLocal(p, r) \/ ResolveKms(p, r) \/ DenyRecord(p, r)
        PROVE  TypeOKQuickstart'
    <3>1. CASE ResolveLocal(p, r)
      BY <1>a, <1>0, <3>1 DEF ResolveLocal, Inspecting
    <3>2. CASE ResolveKms(p, r)
      BY <1>a, <1>0, <3>2 DEF ResolveKms, Inspecting
    <3>3. CASE DenyRecord(p, r)
      BY <1>a, <1>0, <3>3 DEF DenyRecord, Inspecting
    <3> QED
      BY <2>4, <3>1, <3>2, <3>3
  <2>5. ASSUME NEW e \in Processes, NEW x \in Processes,
               ValidateArtifacts(p, e, x) \/ RejectArtifacts(p, e, x)
        PROVE  TypeOKQuickstart'
    <3>1. CASE ValidateArtifacts(p, e, x)
      BY <1>a, <1>0, <3>1 DEF ValidateArtifacts
    <3>2. CASE RejectArtifacts(p, e, x)
      BY <1>a, <1>0, <3>2 DEF RejectArtifacts
    <3> QED
      BY <2>5, <3>1, <3>2
  <2>6. ASSUME NEW x \in Processes, CompleteQuickstart(p, x) \/ RefuseChain(p, x)
        PROVE  TypeOKQuickstart'
    <3>1. CASE CompleteQuickstart(p, x)
      BY <1>a, <1>0, <3>1 DEF CompleteQuickstart
    <3>2. CASE RefuseChain(p, x)
      BY <1>a, <1>0, <3>2 DEF RefuseChain
    <3> QED
      BY <2>6, <3>1, <3>2
  <2> QED
    BY <1>4, <2>1, <2>2, <2>3, <2>4, <2>5, <2>6, <2>7, <2>8 DEF Commands
<1>5. CASE /\ p \in Signers
           /\ SignWithKms(p) \/ WriteKmsRecord(p) \/ FailKmsRecord(p)
  <2>1. pc[p] = "cached" => [names |-> key[p], by |-> key[p]] \in Signature
    BY <1>0, <1>5 DEF KeyFact, Signature, Ends
  <2>2. CASE SignWithKms(p)
    BY <1>a, <1>0, <2>2 DEF SignWithKms, CacheSteps, Versioned
  <2>3. CASE WriteKmsRecord(p)
    BY <1>a, <1>0, <2>1, <2>3 DEF WriteKmsRecord
  <2>4. CASE FailKmsRecord(p)
    BY <1>a, <1>0, <2>4 DEF FailKmsRecord
  <2> QED
    BY <1>5, <2>2, <2>3, <2>4
<1>6. CASE Fail(p)
  BY <1>a, <1>0, <1>6 DEF Fail, Interrupt, FailCaching
<1> QED
  BY <1>1, <1>2, <1>3, <1>4, <1>5, <1>6 DEF Act, Advance

(* A record that is genuine stays so.                                      *)
LEMMA GenuineStays ==
  ASSUME Inv, NEW p \in Processes, Act(p), NEW r \in Processes, Genuine(r)
  PROVE  Genuine(r)'
BY EvidenceStays DEF Genuine, Signs

LEMMA WholeStays ==
  ASSUME Inv, NEW p \in Processes, Act(p), NEW k \in Keys, Whole(k)
  PROVE  Whole(k)'
BY FullStays DEF Whole

(* A private key that was replaced does not come back.                     *)
LEMMA ReplacedStays ==
  ASSUME Inv, NEW p \in Processes, Act(p), NEW k \in Quickstarts, Past(k),
         identity["private"] # k
  PROVE  Past(k)' /\ identity'["private"] # k
BY PastStays, FilesStay, QuickstartAssumption DEF Past

-----------------------------------------------------------------------------
(* The step of the process itself, one lemma for each part of its fact.     *)
LEMMA StageStep ==
  ASSUME Inv, NEW p \in Processes, Act(p)
  PROVE  StageFact(p)'
<1> USE QuickstartAssumption DEF Move, Enter, End, StageFact
<1>0. /\ StageFact(p)
      /\ pc = [q \in Processes |-> pc[q]]
      /\ stage = [q \in Processes |-> stage[q]]
  BY DEF Inv, Fact, TypeOKQuickstart
<1> USE DEF Inspections, Writing, Inspecting, CacheSteps, Versioned, Ends
<1>1. CASE Start(p)
  BY <1>0, <1>1 DEF Start, StartQuickstart, AskKms
<1>2. CASE Cache(p)
  <2>1. CASE KeepActive(p) \/ MissActive(p) \/ ReplaceActive(p)
    BY <1>0, <1>2, <2>1 DEF Cache, KeepActive, MissActive, ReplaceActive
  <2>2. ASSUME NEW f \in Versioned, CreateCached(p, f) \/ FillCached(p, f)
        PROVE  StageFact(p)'
    BY <1>0, <1>2, <2>2 DEF Cache, CreateCached, FillCached, Filling, After
  <2>3. ASSUME NEW f \in Versioned, KeepCached(p, f) \/ RefuseCached(p, f)
        PROVE  StageFact(p)'
    BY <1>0, <1>2, <2>3 DEF Cache, KeepCached, RefuseCached, After
  <2> QED
    BY <1>2, <2>1, <2>2, <2>3 DEF Cache, CacheKey
<1>3. CASE Trust(p) /\ p \in Quickstarts
  BY <1>0, <1>3 DEF Trust, Initialize, Inspect, FindPartial, FindIdentity,
     FindNothing, WriteIdentity, WritePrivate, WritePublic, WriteMetadata,
     InspectOwn, ReadMetadata, ReadPrivate, ReadPublic, RejectIdentity
<1>4. CASE Commands(p) /\ p \in Quickstarts
  BY <1>0, <1>4 DEF Commands, CreateProject, StartVerify, SignRecord,
     LeaveRecordUnsigned, ResolveLocal, ResolveKms, DenyRecord,
     AuthorizeRecord, DenyAuthorization, FailWorkload, SignReceipt,
     LeaveReceiptVoid, ValidateArtifacts, RejectArtifacts, CompleteQuickstart,
     RefuseChain, FailQuickstart
<1>5. CASE /\ p \in Signers
           /\ SignWithKms(p) \/ WriteKmsRecord(p) \/ FailKmsRecord(p)
  BY <1>0, <1>5 DEF SignWithKms, WriteKmsRecord, FailKmsRecord
<1>6. CASE Fail(p)
  BY <1>0, <1>6 DEF Fail, Interrupt, FailCaching
<1> QED
  BY <1>1, <1>2, <1>3, <1>4, <1>5, <1>6 DEF Act, Advance

LEMMA KeyStep ==
  ASSUME Inv, NEW p \in Processes, Act(p)
  PROVE  KeyFact(p)'
<1> USE QuickstartAssumption DEF Move, Enter, End
<1>0. /\ StageFact(p) /\ KeyFact(p) /\ IdentityFact(p)
      /\ pc = [q \in Processes |-> pc[q]]
      /\ key = [q \in Processes |-> key[q]]
      /\ stage = [q \in Processes |-> stage[q]]
      /\ \A f \in IdentityFiles : identity[f] \in Quickstarts \cup {None}
  BY DEF Inv, Fact, TypeOKQuickstart, TypeOKIdentity, TypeOKCache
<1>a. StageFact(p)'
  BY StageStep
<1>b. key[p] \in Processes /\ Past(key[p]) =>
        pc'[key[p]] \notin {"idle", "creating", "looking", "write private"}
  BY PastStays DEF Past
<1>c. identity["private"] # None =>
        pc'[identity["private"]] \notin {"idle", "creating", "looking", "write private"}
  BY <1>0, PastStays DEF Inv, PrivateInv, Past, IdentityFiles
<1> USE DEF StageFact, KeyFact, IdentityFact, Present, Past, Held, Inspections,
    IdentityFiles, Writing, Inspecting, CacheSteps, Versioned, Ends
<1>1. CASE Start(p)
  BY <1>0, <1>a, <1>b, <1>c, <1>1 DEF Start, StartQuickstart, AskKms
<1>2. CASE Cache(p)
  BY <1>0, <1>a, <1>b, <1>c, <1>2 DEF Cache, CacheKey, CreateCached,
     FillCached, KeepCached, RefuseCached, KeepActive, MissActive,
     ReplaceActive, Filling, After
<1>3. CASE Trust(p) /\ p \in Quickstarts
  BY <1>0, <1>a, <1>b, <1>c, <1>3 DEF Trust, Initialize, Inspect, FindPartial,
     FindIdentity, FindNothing, WriteIdentity, WritePrivate, WritePublic,
     WriteMetadata, InspectOwn, ReadMetadata, ReadPrivate, ReadPublic,
     RejectIdentity
<1>4. CASE Commands(p) /\ p \in Quickstarts
  BY <1>0, <1>a, <1>b, <1>c, <1>4 DEF Commands, CreateProject, StartVerify,
     SignRecord, LeaveRecordUnsigned, ResolveLocal, ResolveKms, DenyRecord,
     AuthorizeRecord, DenyAuthorization, FailWorkload, SignReceipt,
     LeaveReceiptVoid, ValidateArtifacts, RejectArtifacts, CompleteQuickstart,
     RefuseChain, FailQuickstart
<1>5. CASE /\ p \in Signers
           /\ SignWithKms(p) \/ WriteKmsRecord(p) \/ FailKmsRecord(p)
  BY <1>0, <1>a, <1>b, <1>c, <1>5 DEF SignWithKms, WriteKmsRecord,
     FailKmsRecord
<1>6. CASE Fail(p)
  BY <1>0, <1>a, <1>b, <1>c, <1>6 DEF Fail, Interrupt, FailCaching
<1> QED
  BY <1>1, <1>2, <1>3, <1>4, <1>5, <1>6 DEF Act, Advance

LEMMA IdentityStep ==
  ASSUME Inv, NEW p \in Processes, Act(p)
  PROVE  IdentityFact(p)'
<1> USE QuickstartAssumption DEF Move, Enter, End
<1>0. /\ StageFact(p) /\ KeyFact(p) /\ IdentityFact(p)
      /\ pc = [q \in Processes |-> pc[q]]
      /\ stage = [q \in Processes |-> stage[q]]
      /\ identity = [f \in IdentityFiles |-> identity[f]]
  BY DEF Inv, Fact, TypeOKQuickstart, TypeOKIdentity
<1>a. \A f \in IdentityFiles : identity[f] # None => identity'[f] # None
  BY FilesStay
<1> USE DEF StageFact, KeyFact, IdentityFact, Present, Inspections,
    IdentityFiles, Writing, Inspecting, CacheSteps, Versioned, Ends
<1>1. CASE Start(p)
  BY <1>0, <1>a, <1>1 DEF Start, StartQuickstart, AskKms
<1>2. CASE Cache(p)
  BY <1>0, <1>a, <1>2 DEF Cache, CacheKey, CreateCached, FillCached,
     KeepCached, RefuseCached, KeepActive, MissActive, ReplaceActive, Filling,
     After
<1>3. CASE Trust(p) /\ p \in Quickstarts
  <2>1. CASE FindPartial(p) \/ FindIdentity(p) \/ FindNothing(p) \/ InspectOwn(p)
    BY <1>0, <1>a, <1>3, <2>1 DEF Trust, FindPartial, FindIdentity, FindNothing,
       InspectOwn
  <2>2. CASE WritePrivate(p)
    BY <1>0, <1>a, <1>3, <2>2 DEF Trust, WriteIdentity, WritePrivate
  <2>3. CASE WritePublic(p)
    BY <1>0, <1>a, <1>3, <2>3 DEF Trust, WriteIdentity, WritePublic
  <2>4. CASE WriteMetadata(p)
    BY <1>0, <1>a, <1>3, <2>4 DEF Trust, WriteIdentity, WriteMetadata
  <2>5. CASE Inspect(p)
    BY <1>0, <1>a, <1>3, <2>5 DEF Trust, Inspect, ReadMetadata, ReadPrivate,
       ReadPublic, RejectIdentity
  <2> QED
    BY <1>3, <2>1, <2>2, <2>3, <2>4, <2>5 DEF Trust, Initialize
<1>4. CASE Commands(p) /\ p \in Quickstarts
  BY <1>0, <1>a, <1>4 DEF Commands, CreateProject, StartVerify, SignRecord,
     LeaveRecordUnsigned, ResolveLocal, ResolveKms, DenyRecord,
     AuthorizeRecord, DenyAuthorization, FailWorkload, SignReceipt,
     LeaveReceiptVoid, ValidateArtifacts, RejectArtifacts, CompleteQuickstart,
     RefuseChain, FailQuickstart
<1>5. CASE /\ p \in Signers
           /\ SignWithKms(p) \/ WriteKmsRecord(p) \/ FailKmsRecord(p)
  BY <1>0, <1>a, <1>5 DEF SignWithKms, WriteKmsRecord, FailKmsRecord
<1>6. CASE Fail(p)
  BY <1>0, <1>a, <1>6 DEF Fail, Interrupt, FailCaching
<1> QED
  BY <1>1, <1>2, <1>3, <1>4, <1>5, <1>6 DEF Act, Advance

LEMMA CacheStep ==
  ASSUME Inv, NEW p \in Processes, Act(p)
  PROVE  CacheFact(p)'
<1> USE QuickstartAssumption DEF Move, Enter, End
<1>0. /\ KeyFact(p) /\ CacheFact(p)
      /\ pc = [q \in Processes |-> pc[q]]
      /\ cached = [k \in Keys |-> [f \in Versioned |-> cached[k][f]]]
  BY DEF Inv, Fact, TypeOKQuickstart, TypeOKIdentity, TypeOKCache
<1>a. pc[p] \in Held =>
        /\ key[p] \in Keys
        /\ \A f \in Versioned :
             cached[key[p]][f] = "full" => cached'[key[p]][f] = "full"
  BY <1>0, FullStays DEF KeyFact
<1> USE DEF KeyFact, CacheFact, Whole, Held, Writing, Inspecting, CacheSteps,
    Versioned, Ends
<1>1. CASE Start(p)
  BY <1>0, <1>a, <1>1 DEF Start, StartQuickstart, AskKms
<1>2. CASE Cache(p)
  <2>1. CASE KeepActive(p) \/ MissActive(p) \/ ReplaceActive(p)
    BY <1>0, <1>a, <1>2, <2>1 DEF Cache, KeepActive, MissActive, ReplaceActive
  <2>2. ASSUME NEW f \in Versioned, CreateCached(p, f) \/ RefuseCached(p, f)
        PROVE  CacheFact(p)'
    BY <1>0, <1>a, <1>2, <2>2 DEF Cache, CreateCached, RefuseCached, Filling
  <2>3. ASSUME NEW f \in Versioned, FillCached(p, f)
        PROVE  CacheFact(p)'
    <3>1. CASE f = "public-key.pem"
      BY <1>0, <1>a, <1>2, <2>3, <3>1 DEF Cache, FillCached, Filling, After
    <3>2. CASE f = "metadata.json"
      BY <1>0, <1>a, <1>2, <2>3, <3>2 DEF Cache, FillCached, Filling, After
    <3> QED
      BY <3>1, <3>2 DEF Versioned
  <2>4. ASSUME NEW f \in Versioned, KeepCached(p, f)
        PROVE  CacheFact(p)'
    BY <1>0, <1>a, <1>2, <2>4 DEF Cache, KeepCached, After, cacheVars
  <2> QED
    BY <1>2, <2>1, <2>2, <2>3, <2>4 DEF Cache, CacheKey
<1>3. CASE Trust(p) /\ p \in Quickstarts
  BY <1>0, <1>a, <1>3 DEF Trust, Initialize, Inspect, FindPartial,
     FindIdentity, FindNothing, WriteIdentity, WritePrivate, WritePublic,
     WriteMetadata, InspectOwn, ReadMetadata, ReadPrivate, ReadPublic,
     RejectIdentity
<1>4. CASE Commands(p) /\ p \in Quickstarts
  BY <1>0, <1>a, <1>4 DEF Commands, CreateProject, StartVerify, SignRecord,
     LeaveRecordUnsigned, ResolveLocal, ResolveKms, DenyRecord,
     AuthorizeRecord, DenyAuthorization, FailWorkload, SignReceipt,
     LeaveReceiptVoid, ValidateArtifacts, RejectArtifacts, CompleteQuickstart,
     RefuseChain, FailQuickstart
<1>5. CASE /\ p \in Signers
           /\ SignWithKms(p) \/ WriteKmsRecord(p) \/ FailKmsRecord(p)
  BY <1>0, <1>a, <1>5 DEF SignWithKms, WriteKmsRecord, FailKmsRecord
<1>6. CASE Fail(p)
  BY <1>0, <1>a, <1>6 DEF Fail, Interrupt, FailCaching
<1> QED
  BY <1>1, <1>2, <1>3, <1>4, <1>5, <1>6 DEF Act, Advance

LEMMA RecordStays ==
  ASSUME Inv, NEW p \in Processes, Act(p)
  PROVE  /\ record'[p] # None => stage'[p] \in {"authorize", "receipt", "denial", "ended"}
         /\ \/ record'[p] = record[p]
            \/ record'[p] = Void
            \/ SignRecord(p)
            \/ p \in Signers /\ WriteKmsRecord(p)
<1> USE QuickstartAssumption DEF Move, Enter, End, evidenceVars, cacheVars
<1>0. /\ StageFact(p) /\ RecordFact(p)
      /\ pc = [q \in Processes |-> pc[q]]
      /\ stage = [q \in Processes |-> stage[q]]
      /\ record = [q \in Processes |-> record[q]]
  BY DEF Inv, Fact, TypeOKQuickstart
<1> USE DEF StageFact, RecordFact, Inspections, Writing, Inspecting,
    CacheSteps, Versioned, Ends
<1>1. CASE Start(p)
  BY <1>0, <1>1 DEF Start, StartQuickstart, AskKms
<1>2. CASE Cache(p)
  BY <1>0, <1>2 DEF Cache, CacheKey, CreateCached, FillCached, KeepCached,
     RefuseCached, KeepActive, MissActive, ReplaceActive, Filling, After
<1>3. CASE Trust(p) /\ p \in Quickstarts
  BY <1>0, <1>3 DEF Trust, Initialize, Inspect, FindPartial, FindIdentity,
     FindNothing, WriteIdentity, WritePrivate, WritePublic, WriteMetadata,
     InspectOwn, ReadMetadata, ReadPrivate, ReadPublic, RejectIdentity
<1>4. CASE Commands(p) /\ p \in Quickstarts
  BY <1>0, <1>4 DEF Commands, CreateProject, StartVerify, SignRecord,
     LeaveRecordUnsigned, ResolveLocal, ResolveKms, DenyRecord,
     AuthorizeRecord, DenyAuthorization, FailWorkload, SignReceipt,
     LeaveReceiptVoid, ValidateArtifacts, RejectArtifacts, CompleteQuickstart,
     RefuseChain, FailQuickstart
<1>5. CASE /\ p \in Signers
           /\ SignWithKms(p) \/ WriteKmsRecord(p) \/ FailKmsRecord(p)
  BY <1>0, <1>5 DEF SignWithKms, WriteKmsRecord, FailKmsRecord
<1>6. CASE Fail(p)
  BY <1>0, <1>6 DEF Fail, Interrupt, FailCaching
<1> QED
  BY <1>1, <1>2, <1>3, <1>4, <1>5, <1>6 DEF Act, Advance

(* What a signed record shows it goes on showing.                          *)
LEMMA SignedStays ==
  ASSUME Inv, NEW p \in Processes, Act(p),
         NEW q \in Processes, Signs(record[q])
  PROVE  /\ record'[q] = record[q]
         /\ record'[q] \in Signature
         /\ Whole(record[q].names)'
         /\ record'[q].by # record'[q].names =>
              /\ record'[q].names \in Quickstarts
              /\ Past(record[q].names)'
              /\ identity'["private"] # record'[q].names
<1>1. record'[q] = record[q] /\ RecordFact(q)
  BY EvidenceStays DEF Signs, Inv, Fact
<1>2. PICK k \in Keys : k = record[q].names /\ Whole(k)
  BY <1>1 DEF RecordFact, Signature
<1>3. Whole(k)'
  BY <1>2, WholeStays
<1>4. record[q].by # k => /\ k \in Quickstarts
                         /\ Past(k)' /\ identity'["private"] # k
  <2>1. record[q].by # k => k \in Quickstarts /\ Past(k) /\ identity["private"] # k
    BY <1>1, <1>2 DEF RecordFact
  <2> QED
    BY <2>1, ReplacedStays
<1> QED
  BY <1>1, <1>2, <1>3, <1>4 DEF RecordFact, Past, Whole

LEMMA RecordStep ==
  ASSUME Inv, NEW p \in Processes, Act(p)
  PROVE  RecordFact(p)'
<1> USE DEF Signs
<1>0. /\ StageFact(p) /\ KeyFact(p) /\ CacheFact(p) /\ RecordFact(p)
      /\ record = [q \in Processes |-> record[q]]
      /\ record'[p] \in Signature \cup {Void, None}
  BY TypeStep DEF Inv, Fact, TypeOKQuickstart
<1>1. record'[p] # None => stage'[p] \in {"authorize", "receipt", "denial", "ended"}
  BY RecordStays
<1>2. CASE record'[p] = Void
  BY <1>1, <1>2 DEF RecordFact
<1>3. CASE record'[p] = record[p]
  BY <1>1, <1>3, SignedStays DEF RecordFact
<1>4. CASE SignRecord(p)
  <2>1. /\ record'[p] = [names |-> key[p], by |-> identity["private"]]
        /\ UNCHANGED <<cached, identity, key>>
        /\ stage[p] = "record" /\ pc[p] = "cached"
    BY <1>0, <1>4 DEF SignRecord, SignDigest, Enter, Move, cacheVars
  <2>2. key[p] \in Quickstarts /\ Past(key[p]) /\ Whole(key[p])
    BY <1>0, <2>1, QuickstartAssumption DEF StageFact, KeyFact, CacheFact,
       Held, Inspections
  <2>3. Past(key[p])'
    BY <2>1, <2>2, PastStays, QuickstartAssumption DEF Past
  <2>4. record'[p].names = key[p] /\ record'[p].by = identity["private"]
    BY <2>1
  <2>5. Signs(record'[p]) => record'[p] \in Signature
    BY <1>0
  <2>6. Whole(record[p].names)'
    BY <2>1, <2>2, <2>4 DEF Whole
  <2>7. record'[p].by # record'[p].names =>
          /\ record'[p].names \in Quickstarts
          /\ Past(record[p].names)'
          /\ identity'["private"] # record'[p].names
    BY <2>1, <2>2, <2>3, <2>4 DEF Past
  <2> QED
    BY <1>1, <2>5, <2>6, <2>7 DEF RecordFact
<1>5. CASE p \in Signers /\ WriteKmsRecord(p)
  <2>1. /\ record'[p] = [names |-> key[p], by |-> key[p]]
        /\ cached' = cached
        /\ pc[p] = "cached"
    BY <1>0, <1>5 DEF WriteKmsRecord, End, Enter, Move, cacheVars
  <2> QED
    BY <1>0, <1>1, <2>1, VoidAssumption DEF RecordFact, CacheFact, Whole
<1> QED
  BY <1>2, <1>3, <1>4, <1>5, RecordStays

LEMMA ChosenStep ==
  ASSUME Inv, NEW p \in Processes, Act(p)
  PROVE  ChosenFact(p)'
<1> USE QuickstartAssumption DEF Move, Enter, End, evidenceVars, cacheVars
<1>0. /\ StageFact(p) /\ KeyFact(p) /\ ChosenFact(p)
      /\ pc = [q \in Processes |-> pc[q]]
      /\ key = [q \in Processes |-> key[q]]
      /\ stage = [q \in Processes |-> stage[q]]
      /\ chosen = [q \in Processes |-> chosen[q]]
  BY DEF Inv, Fact, TypeOKQuickstart, TypeOKIdentity, TypeOKCache
<1>a. \A r \in Processes :
        Signs(record[r]) =>
          /\ record'[r] = record[r]
          /\ record[r].by # record[r].names => identity["private"] # record[r].names
  BY EvidenceStays DEF Inv, Fact, RecordFact, Signs
<1> USE DEF StageFact, KeyFact, ChosenFact, Genuine, Signs, VerifiesLocally,
    Held, Inspections, Writing, Inspecting, CacheSteps, Versioned, Ends
<1>1. CASE Start(p)
  BY <1>0, <1>a, <1>1 DEF Start, StartQuickstart, AskKms
<1>2. CASE Cache(p)
  BY <1>0, <1>a, <1>2 DEF Cache, CacheKey, CreateCached, FillCached,
     KeepCached, RefuseCached, KeepActive, MissActive, ReplaceActive, Filling,
     After
<1>3. CASE Trust(p) /\ p \in Quickstarts
  <2>1. CASE Initialize(p)
    BY <1>0, <1>3, <2>1 DEF Trust, Initialize, FindPartial, FindIdentity,
       FindNothing, WriteIdentity, WritePrivate, WritePublic, WriteMetadata,
       InspectOwn
  <2>2. CASE ReadPrivate(p)
    BY <1>0, <1>a, <1>3, <2>2 DEF Trust, ReadPrivate
  <2>3. CASE ReadMetadata(p) \/ ReadPublic(p) \/ RejectIdentity(p)
    BY <1>0, <1>3, <2>3 DEF Trust, ReadMetadata, ReadPublic, RejectIdentity
  <2> QED
    BY <1>3, <2>1, <2>2, <2>3 DEF Trust, Inspect
<1>4. CASE Commands(p) /\ p \in Quickstarts
  <2>1. CASE CreateProject(p) \/ StartVerify(p) \/ SignRecord(p)
               \/ LeaveRecordUnsigned(p)
    BY <1>0, <1>a, <2>1 DEF CreateProject, StartVerify, SignRecord,
       LeaveRecordUnsigned
  <2>2. ASSUME NEW r \in Processes,
               ResolveLocal(p, r) \/ ResolveKms(p, r) \/ DenyRecord(p, r)
        PROVE  ChosenFact(p)'
    BY <1>0, <1>a, <2>2 DEF ResolveLocal, ResolveKms, DenyRecord
  <2>3. CASE AuthorizeRecord(p)
    BY <1>0, <1>a, <2>3 DEF AuthorizeRecord
  <2>4. CASE DenyAuthorization(p) \/ FailWorkload(p)
    BY <1>0, <1>a, <2>4 DEF DenyAuthorization, FailWorkload
  <2>5. CASE SignReceipt(p) \/ LeaveReceiptVoid(p) \/ FailQuickstart(p)
    BY <1>0, <1>a, <2>5 DEF SignReceipt, LeaveReceiptVoid, FailQuickstart
  <2>6. ASSUME NEW e \in Processes, NEW x \in Processes,
               \/ ValidateArtifacts(p, e, x) \/ RejectArtifacts(p, e, x)
               \/ CompleteQuickstart(p, x) \/ RefuseChain(p, x)
        PROVE  ChosenFact(p)'
    BY <1>0, <1>a, <2>6 DEF ValidateArtifacts, RejectArtifacts,
       CompleteQuickstart, RefuseChain
  <2> QED
    BY <1>4, <2>1, <2>2, <2>3, <2>4, <2>5, <2>6 DEF Commands
<1>5. CASE /\ p \in Signers
           /\ SignWithKms(p) \/ WriteKmsRecord(p) \/ FailKmsRecord(p)
  BY <1>0, <1>a, <1>5 DEF SignWithKms, WriteKmsRecord, FailKmsRecord
<1>6. CASE Fail(p)
  BY <1>0, <1>a, <1>6 DEF Fail, Interrupt, FailCaching
<1> QED
  BY <1>1, <1>2, <1>3, <1>4, <1>5, <1>6 DEF Act, Advance

LEMMA ReceiptStays ==
  ASSUME Inv, NEW p \in Processes, Act(p)
  PROVE  /\ receipt'[p] # None => pc'[p] \in {"validating", "verifying"} \cup Ends
         /\ \/ receipt'[p] = receipt[p]
            \/ receipt'[p] = Void
            \/ p \in Quickstarts /\ SignReceipt(p)
         /\ pc'[p] = "complete" =>
              \/ pc[p] = "complete" /\ proved'[p] = proved[p]
              \/ \E x \in Processes : CompleteQuickstart(p, x)
<1> USE QuickstartAssumption DEF Move, Enter, End, evidenceVars, cacheVars
<1>0. /\ StageFact(p) /\ ReceiptFact(p)
      /\ pc = [q \in Processes |-> pc[q]]
      /\ receipt = [q \in Processes |-> receipt[q]]
      /\ proved = [q \in Processes |-> proved[q]]
  BY DEF Inv, Fact, TypeOKQuickstart
<1> USE DEF StageFact, ReceiptFact, Inspections, Writing, Inspecting,
    CacheSteps, Versioned, Ends
<1>1. CASE Start(p)
  BY <1>0, <1>1 DEF Start, StartQuickstart, AskKms
<1>2. CASE Cache(p)
  BY <1>0, <1>2 DEF Cache, CacheKey, CreateCached, FillCached, KeepCached,
     RefuseCached, KeepActive, MissActive, ReplaceActive, Filling, After
<1>3. CASE Trust(p) /\ p \in Quickstarts
  BY <1>0, <1>3 DEF Trust, Initialize, Inspect, FindPartial, FindIdentity,
     FindNothing, WriteIdentity, WritePrivate, WritePublic, WriteMetadata,
     InspectOwn, ReadMetadata, ReadPrivate, ReadPublic, RejectIdentity
<1>4. CASE Commands(p) /\ p \in Quickstarts
  BY <1>0, <1>4 DEF Commands, CreateProject, StartVerify, SignRecord,
     LeaveRecordUnsigned, ResolveLocal, ResolveKms, DenyRecord,
     AuthorizeRecord, DenyAuthorization, FailWorkload, SignReceipt,
     LeaveReceiptVoid, ValidateArtifacts, RejectArtifacts, CompleteQuickstart,
     RefuseChain, FailQuickstart
<1>5. CASE /\ p \in Signers
           /\ SignWithKms(p) \/ WriteKmsRecord(p) \/ FailKmsRecord(p)
  BY <1>0, <1>5 DEF SignWithKms, WriteKmsRecord, FailKmsRecord
<1>6. CASE Fail(p)
  BY <1>0, <1>6 DEF Fail, Interrupt, FailCaching
<1> QED
  BY <1>1, <1>2, <1>3, <1>4, <1>5, <1>6 DEF Act, Advance

(* ... and so does a signed receipt, with the record it names.             *)
LEMMA AttestedStays ==
  ASSUME Inv, NEW p \in Processes, Act(p),
         NEW q \in Processes, Signs(receipt[q])
  PROVE  /\ receipt'[q] = receipt[q]
         /\ record'[receipt[q].record] = record[receipt[q].record]
         /\ receipt'[q] \in Receipt
         /\ receipt'[q].signature.names \in Quickstarts
         /\ Whole(receipt[q].signature.names)'
         /\ Genuine(receipt[q].record)'
<1>1. receipt'[q] = receipt[q] /\ ReceiptFact(q)
  BY EvidenceStays DEF Signs, Inv, Fact
<1>2. PICK k \in Quickstarts, r \in Processes :
        /\ k = receipt[q].signature.names /\ Whole(k)
        /\ r = receipt[q].record /\ Genuine(r)
  BY <1>1 DEF ReceiptFact, Receipt
<1>3. Whole(k)' /\ Genuine(r)' /\ record'[r] = record[r]
  BY <1>2, WholeStays, GenuineStays, EvidenceStays, QuickstartAssumption DEF
     Genuine, Signs
<1> QED
  BY <1>1, <1>2, <1>3 DEF ReceiptFact, Whole, Genuine

LEMMA ReceiptStep ==
  ASSUME Inv, NEW p \in Processes, Act(p)
  PROVE  ReceiptFact(p)'
<1> USE DEF Signs
<1>0. /\ StageFact(p) /\ KeyFact(p) /\ CacheFact(p) /\ ChosenFact(p) /\ ReceiptFact(p)
      /\ receipt = [q \in Processes |-> receipt[q]]
      /\ proved = [q \in Processes |-> proved[q]]
      /\ receipt'[p] \in Receipt \cup {Void, None}
  BY TypeStep DEF Inv, Fact, TypeOKQuickstart
<1>1. receipt'[p] # None => pc'[p] \in {"validating", "verifying"} \cup Ends
  BY ReceiptStays
<1>2. ASSUME Signs(receipt'[p])
      PROVE  /\ receipt'[p] \in Receipt
             /\ receipt'[p].signature.names \in Quickstarts
             /\ Whole(receipt[p].signature.names)'
             /\ Genuine(receipt[p].record)'
  <2>1. receipt'[p] \in Receipt
    BY <1>0, <1>2
  <2>2. CASE receipt'[p] = receipt[p]
    BY <1>2, <2>2, AttestedStays
  <2>3. CASE p \in Quickstarts /\ SignReceipt(p)
    <3>1. /\ receipt'[p] = [record |-> chosen[p],
                            signature |-> [names |-> key[p],
                                           by |-> identity["private"]]]
          /\ UNCHANGED <<cached, record>>
          /\ stage[p] = "receipt" /\ pc[p] = "cached"
      BY <1>0, <2>3 DEF SignReceipt, SignDigest, Move, cacheVars
    <3>2. key[p] \in Quickstarts /\ Whole(key[p]) /\ Genuine(chosen[p])
      BY <1>0, <2>3, <3>1, QuickstartAssumption DEF KeyFact, CacheFact,
         ChosenFact, Held
    <3> QED
      BY <2>1, <3>1, <3>2 DEF Whole, Genuine
  <2> QED
    BY <1>2, <2>2, <2>3, ReceiptStays
<1>3. ASSUME pc'[p] = "complete"
      PROVE  /\ proved'[p] \in Processes
             /\ Signs(receipt'[proved'[p]])
             /\ receipt'[proved'[p]].signature =
                  record'[receipt'[proved'[p]].record]
  <2>1. PICK x \in Processes :
          /\ proved'[p] = x /\ Signs(receipt[x])
          /\ receipt[x].signature = record[receipt[x].record]
    <3>1. CASE pc[p] = "complete" /\ proved'[p] = proved[p]
      BY <1>0, <3>1 DEF ReceiptFact
    <3>2. ASSUME NEW x \in Processes, CompleteQuickstart(p, x)
          PROVE  /\ proved'[p] = x /\ Signs(receipt[x])
                 /\ receipt[x].signature = record[receipt[x].record]
      <4>1. /\ proved'[p] = x /\ Signs(receipt[x]) /\ ChainVerifies(x)
        BY <1>0, <3>2 DEF CompleteQuickstart, ChainVerifies
      <4>2. receipt[x].signature \in Signature /\ record[receipt[x].record] \in Signature
        <5>1. receipt[x] \in Receipt /\ Genuine(receipt[x].record)
          BY <4>1 DEF Inv, Fact, ReceiptFact
        <5> QED
          BY <5>1 DEF Receipt, Genuine, Inv, Fact, RecordFact
      <4> QED
        BY <4>1, <4>2 DEF ChainVerifies, Signature
    <3> QED
      BY <1>3, <3>1, <3>2, ReceiptStays
  <2>2. /\ receipt'[x] = receipt[x]
        /\ record'[receipt[x].record] = record[receipt[x].record]
    BY <2>1, AttestedStays
  <2> QED
    BY <2>1, <2>2
<1> QED
  BY <1>1, <1>2, <1>3 DEF ReceiptFact

-----------------------------------------------------------------------------
(* The facts of the other processes.                                       *)
LEMMA OtherStep ==
  ASSUME Inv, NEW p \in Processes, Act(p), NEW q \in Processes, q # p
  PROVE  Fact(q)'
<1>0. Fact(q)
  BY DEF Inv
<1>1. /\ pc'[q] = pc[q] /\ stage'[q] = stage[q] /\ key'[q] = key[q]
      /\ record'[q] = record[q] /\ receipt'[q] = receipt[q]
      /\ chosen'[q] = chosen[q] /\ proved'[q] = proved[q]
  BY OthersAreLeft DEF Inv
<1>2. StageFact(q)'
  BY <1>0, <1>1 DEF Fact, StageFact
<1>3. KeyFact(q)'
  <2>1. stage[q] \in Inspections /\ pc[q] \in Held => Past(key[q])'
    <3>1. stage[q] \in Inspections /\ pc[q] \in Held =>
            key[q] \in Quickstarts /\ Past(key[q])
      BY <1>0, QuickstartAssumption DEF Fact, StageFact, KeyFact, Inspections
    <3>2. ASSUME NEW k \in Quickstarts, k = key[q], Past(k)
          PROVE  Past(k)'
      BY <3>2, PastStays, QuickstartAssumption
    <3> QED
      BY <1>1, <3>1, <3>2 DEF Past
  <2> QED
    BY <1>0, <1>1, <2>1 DEF Fact, KeyFact
<1>4. IdentityFact(q)'
  BY <1>0, <1>1, FilesStay DEF Fact, IdentityFact, Present, IdentityFiles
<1>5. CacheFact(q)'
  <2>1. pc[q] \in Held =>
          /\ key[q] \in Keys
          /\ \A f \in Versioned :
               cached[key[q]][f] = "full" => cached'[key[q]][f] = "full"
    BY <1>0, FullStays DEF Fact, KeyFact
  <2> QED
    BY <1>0, <1>1, <2>1 DEF Fact, CacheFact, Whole, Held, CacheSteps, Versioned
<1>6. RecordFact(q)'
  BY <1>0, <1>1, SignedStays DEF Fact, RecordFact
<1>7. ChosenFact(q)'
  <2>1. \A r \in Processes : Signs(record[r]) => record'[r] = record[r]
    BY EvidenceStays DEF Signs
  <2> QED
    BY <1>0, <1>1, <2>1 DEF Fact, ChosenFact, Genuine, Signs, Held, CacheSteps,
       Versioned
<1>8. ReceiptFact(q)'
  BY <1>0, <1>1, AttestedStays DEF Fact, ReceiptFact
<1> QED
  BY <1>2, <1>3, <1>4, <1>5, <1>6, <1>7, <1>8 DEF Fact

(* What is shared by all.                                                  *)
LEMMA PrivateStep ==
  ASSUME Inv, NEW p \in Processes, Act(p)
  PROVE  PrivateInv'
<1>1. CASE identity'["private"] = identity["private"]
  <2>1. ASSUME NEW k \in Quickstarts, k = identity["private"]
        PROVE  Past(k)'
    BY <2>1, PastStays, QuickstartAssumption DEF Inv, PrivateInv
  <2>2. identity["private"] \in Quickstarts \cup {None}
    BY DEF Inv, TypeOKQuickstart, TypeOKIdentity, IdentityFiles
  <2> QED
    BY <1>1, <2>1, <2>2, QuickstartAssumption DEF PrivateInv, Past
<1>2. CASE identity'["private"] # identity["private"]
  BY <1>2, FilesStay DEF PrivateInv, Past
<1> QED
  BY <1>1, <1>2

LEMMA ActiveStep ==
  ASSUME Inv, NEW p \in Processes, Act(p)
  PROVE  ActiveKeyIsKept'
<1>1. CASE active' = active
  <2>1. \A k \in Keys : \A f \in Versioned :
          cached[k][f] = "full" => cached'[k][f] = "full"
    BY FullStays
  <2> QED
    BY <1>1, <2>1 DEF Inv, ActiveKeyIsKept, Whole, TypeOKQuickstart,
       TypeOKIdentity, TypeOKCache
<1>2. CASE ReplaceActive(p)
  <2>1. active' = key[p] /\ cached' = cached /\ pc[p] = "replacing"
    BY <1>2 DEF ReplaceActive, Move
  <2> QED
    BY <2>1 DEF Inv, Fact, CacheFact, ActiveKeyIsKept, Whole
<1>3. CASE Cache(p)
  BY <1>1, <1>2, <1>3 DEF Cache, CacheKey, CreateCached, FillCached,
     KeepCached, RefuseCached, KeepActive, MissActive, cacheVars
<1>4. CASE Start(p)
  BY <1>1, <1>4 DEF Start, StartQuickstart, AskKms, cacheVars
<1>5. CASE Trust(p)
  BY <1>1, <1>5 DEF Trust, Initialize, Inspect, FindPartial, FindIdentity,
     FindNothing, WriteIdentity, WritePrivate, WritePublic, WriteMetadata,
     InspectOwn, ReadMetadata, ReadPrivate, ReadPublic, RejectIdentity,
     cacheVars
<1>6. CASE Commands(p)
  BY <1>1, <1>6 DEF Commands, CreateProject, StartVerify, SignRecord,
     LeaveRecordUnsigned, ResolveLocal, ResolveKms, DenyRecord,
     AuthorizeRecord, DenyAuthorization, FailWorkload, SignReceipt,
     LeaveReceiptVoid, ValidateArtifacts, RejectArtifacts, CompleteQuickstart,
     RefuseChain, FailQuickstart, cacheVars
<1>7. CASE /\ p \in Signers
           /\ SignWithKms(p) \/ WriteKmsRecord(p) \/ FailKmsRecord(p)
  BY <1>1, <1>7 DEF SignWithKms, WriteKmsRecord, FailKmsRecord, cacheVars
<1>8. CASE Fail(p)
  BY <1>1, <1>8 DEF Fail, Interrupt, FailCaching, cacheVars
<1> QED
  BY <1>3, <1>4, <1>5, <1>6, <1>7, <1>8 DEF Act, Advance

-----------------------------------------------------------------------------
(* The facts are an inductive invariant of every quickstart and signer.    *)
THEOREM Invariant == Spec => []Inv
<1>1. Init => Inv
  BY InitInv
<1>2. Inv /\ [Next]_vars => Inv'
  <2> SUFFICES ASSUME Inv, [Next]_vars
               PROVE  Inv'
    OBVIOUS
  <2>1. ASSUME NEW p \in Processes, Act(p)
        PROVE  Inv'
    <3>1. Fact(p)'
      BY <2>1, StageStep, KeyStep, IdentityStep, CacheStep, RecordStep,
         ChosenStep,
         ReceiptStep DEF Fact
    <3>2. \A q \in Processes : Fact(q)'
      BY <2>1, <3>1, OtherStep
    <3> QED
      BY <2>1, <3>2, TypeStep, PrivateStep, ActiveStep DEF Inv
  <2>2. CASE UNCHANGED vars
    <3> USE <2>2 DEF Inv, vars, identityVars, evidenceVars
    <3>1. TypeOKQuickstart'
      BY DEF TypeOKQuickstart, TypeOKIdentity, TypeOKCache
    <3>2. PrivateInv' /\ ActiveKeyIsKept'
      BY DEF PrivateInv, ActiveKeyIsKept, Past, Whole
    <3>3. ASSUME NEW p \in Processes
          PROVE  Fact(p)'
      <4>1. StageFact(p)' /\ KeyFact(p)' /\ IdentityFact(p)'
        BY DEF Fact, StageFact, KeyFact, IdentityFact, Past, Present
      <4>2. CacheFact(p)' /\ RecordFact(p)'
        BY DEF Fact, CacheFact, RecordFact, Past, Whole
      <4>3. ChosenFact(p)' /\ ReceiptFact(p)'
        BY DEF Fact, ChosenFact, ReceiptFact, Genuine, Whole
      <4> QED
        BY <4>1, <4>2, <4>3 DEF Fact
    <3> QED
      BY <3>1, <3>2, <3>3
  <2> QED
    BY <2>1, <2>2 DEF Next, Act
<1> QED
  BY <1>1, <1>2, PTL DEF Spec

(* Types.                                                                  *)
THEOREM QuickstartTypeCorrect == Spec => []TypeOKQuickstart
BY Invariant, PTL DEF Inv

(* Whatever record or receipt says it is signed under a key version has    *)
(* that version's key complete in the cache, where an offline verifier     *)
(* looks for it (evidence/signing.py), for any number of signers that race *)
(* and die.                                                                *)
THEOREM NamedKeyIsCachedCorrect == Spec => []NamedKeyIsCached
<1>1. Inv => NamedKeyIsCached
  BY DEF Inv, Fact, RecordFact, ReceiptFact, NamedKeyIsCached, Signs
<1> QED
  BY <1>1, Invariant, PTL

(* The key in evidence/public-key.pem is kept under its version as well.   *)
THEOREM ActiveKeyIsKeptCorrect == Spec => []ActiveKeyIsKept
BY Invariant, PTL DEF Inv

(* A run goes on only under a record signed by the very key it names       *)
(* (local_trust.py, authorization.py), however initializations interleave. *)
THEOREM AuthorizedIsGenuineCorrect == Spec => []AuthorizedIsGenuine
<1>1. Inv => AuthorizedIsGenuine
  BY DEF Inv, Fact, ChosenFact, AuthorizedIsGenuine, Genuine, Signs
<1> QED
  BY <1>1, Invariant, PTL

(* What a finished quickstart shows is one identity's.                     *)
THEOREM CompleteIsOneIdentityCorrect == Spec => []CompleteIsOneIdentity
<1>1. ASSUME Inv, NEW p \in Processes, pc[p] = "complete"
      PROVE  LET x == receipt[proved[p]]
                 e == record[x.record] IN
               /\ e.names \in Quickstarts
               /\ e.by = e.names
               /\ x.signature = e
               /\ Whole(e.names)
  <2>1. PICK x \in Processes : /\ x = proved[p] /\ Signs(receipt[x])
                              /\ receipt[x].signature = record[receipt[x].record]
    BY <1>1 DEF Inv, Fact, ReceiptFact
  <2> QED
    BY <2>1, <1>1 DEF Inv, Fact, ReceiptFact, Genuine
<1>2. Inv => CompleteIsOneIdentity
  BY <1>1 DEF CompleteIsOneIdentity
<1> QED
  BY <1>2, Invariant, PTL

(* Key material is never replaced or completed by anyone once there is     *)
(* some and nobody is making some (local_trust.py, initialize).            *)
THEOREM IdentityIsSettledCorrect == Spec => IdentityIsSettled
<1> DEFINE Kept == /\ \E f \in IdentityFiles : identity[f] # None
                   /\ \A p \in Processes : pc[p] \notin Writing
                   => /\ UNCHANGED identity
                      /\ \A p \in Processes : pc'[p] \notin Writing
<1>1. ASSUME Inv, [Next]_vars, \E f \in IdentityFiles : identity[f] # None,
             \A q \in Processes : pc[q] \notin Writing
      PROVE  UNCHANGED identity /\ \A q \in Processes : pc'[q] \notin Writing
  <2>1. CASE UNCHANGED vars
    BY <1>1, <2>1 DEF vars, identityVars
  <2>2. ASSUME NEW p \in Processes, Act(p)
        PROVE  UNCHANGED identity /\ pc'[p] \notin Writing
    <3> USE DEF Move, Enter, End
    <3>0. pc = [q \in Processes |-> pc[q]]
      BY <1>1 DEF Inv, TypeOKQuickstart
    <3>1. CASE Start(p)
      BY <1>1, <3>0, <3>1 DEF Start, StartQuickstart, AskKms, Writing,
         Inspecting, CacheSteps, Versioned, Ends
    <3>2. CASE Cache(p)
      BY <1>1, <3>0, <3>2 DEF Cache, CacheKey, CreateCached, FillCached,
         KeepCached, RefuseCached, KeepActive, MissActive, ReplaceActive,
         Filling, After, Writing, Inspecting, CacheSteps, Versioned, Ends
    <3>3. CASE Trust(p) /\ p \in Quickstarts
      BY <1>1, <3>0, <3>3 DEF Trust, Initialize, Inspect, FindPartial,
         FindIdentity, FindNothing, WriteIdentity, WritePrivate, WritePublic,
         WriteMetadata, InspectOwn, ReadMetadata, ReadPrivate, ReadPublic,
         RejectIdentity, Writing, Inspecting, CacheSteps, Versioned, Ends
    <3>4. CASE Commands(p) /\ p \in Quickstarts
      BY <1>1, <3>0, <3>4 DEF Commands, CreateProject, StartVerify, SignRecord,
         LeaveRecordUnsigned, ResolveLocal, ResolveKms, DenyRecord,
         AuthorizeRecord, DenyAuthorization, FailWorkload, SignReceipt,
         LeaveReceiptVoid, ValidateArtifacts, RejectArtifacts,
         CompleteQuickstart, RefuseChain, FailQuickstart, Writing, Inspecting,
         CacheSteps, Versioned, Ends
    <3>5. CASE /\ p \in Signers
               /\ SignWithKms(p) \/ WriteKmsRecord(p) \/ FailKmsRecord(p)
      BY <1>1, <3>0, <3>5 DEF SignWithKms, WriteKmsRecord, FailKmsRecord,
         Writing, Inspecting, CacheSteps, Versioned, Ends
    <3>6. CASE Fail(p)
      BY <1>1, <3>0, <3>6 DEF Fail, Interrupt, FailCaching, Writing,
         Inspecting, CacheSteps, Versioned, Ends
    <3> QED
      BY <2>2, <3>1, <3>2, <3>3, <3>4, <3>5, <3>6 DEF Act, Advance
  <2>3. ASSUME NEW p \in Processes, Act(p)
        PROVE  \A q \in Processes : pc'[q] \notin Writing
    BY <1>1, <2>2, <2>3, OthersAreLeft DEF Inv
  <2> QED
    BY <1>1, <2>1, <2>2, <2>3 DEF Next, Act
<1>2. Inv /\ [Next]_vars => [Kept]_identityVars
  BY <1>1
<1> QED
  BY <1>2, Invariant, PTL DEF IdentityIsSettled, Spec
=============================================================================
