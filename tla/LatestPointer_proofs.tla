------------------------- MODULE LatestPointer_proofs -------------------------
(***************************************************************************)
(* latest.json never names a run without a record: proof for any number of *)
(* verifications and signature checks.                                     *)
(***************************************************************************)
EXTENDS LatestPointer, Verification_proofs

(* A run that reached the pointer has its record.                          *)
PointingInv == \A v \in Verifications : vpc[v] \in Pointing => records[v] # None

(* Every pointer in any file - latest.json, the temporary file, or one     *)
(* that was renamed away - and every pointer in memory names a record.     *)
NamesInv ==
  /\ \A f \in Verifications :
       content[f] \in Pointer => records[content[f].run] # None
  /\ \A c \in Checks : reread[c] # None => records[reread[c]] # None

(* A check that is about to write read a pointer, from a latest.json that  *)
(* never goes away, and a writer has its file open.                        *)
HandlesInv ==
  /\ \A v \in Verifications : vpc[v] = "opened" => handle[v] # None
  /\ \A c \in Checks :
       /\ cpc[c] \in {"reread", "opened"} => reread[c] # None /\ latest # None
       /\ cpc[c] = "opened" => handle[c] # None

PointerInv ==
  /\ TypeOKPointer
  /\ RecordsInv
  /\ PointingInv
  /\ NamesInv
  /\ HandlesInv

LEMMA LatestInitInv == LatestInit => PointerInv
BY PointerAssumption
   DEF LatestInit, VerifyInit, PointerInv, TypeOKPointer, TypeOKVerify, Contents,
       RecordsInv, Hashed, PointingInv, NamesInv, HandlesInv, AtGate, Pointing

-----------------------------------------------------------------------------
(* The gates: records only appear.                                         *)
LEMMA GatesKeepInv ==
  ASSUME PointerInv, VerifyNext, UNCHANGED <<pointerVars, checkVars>>
  PROVE  PointerInv'
<1>1. TypeOKVerify' /\ RecordsInv'
  BY VerifyTypeStep DEF PointerInv, TypeOKPointer
<1>2. \A v \in Verifications : records[v] # None => records'[v] = records[v]
  BY RecordsStay DEF PointerInv, TypeOKPointer
<1>3. UNCHANGED <<tmp, latest, content, handle, cpc, seen, reread>>
  BY DEF pointerVars, checkVars
<1>4. TypeOKPointer'
  BY <1>1, <1>3 DEF PointerInv, TypeOKPointer
<1>5. \A v \in Verifications :
        vpc'[v] \in Pointing =>
          \/ vpc[v] \in Pointing /\ vpc'[v] = vpc[v]
          \/ vpc'[v] = "recorded" /\ records'[v] # None
  <2>1. ASSUME NEW v \in Verifications, Finalize(v)
        PROVE  records'[v] # None
    <3>1. PICK signature \in Signatures :
            records' = [records EXCEPT ![v] =
                          [manifest  |-> manifestHash[v],
                           source    |-> sourceHash[v],
                           decision  |-> decision[v],
                           signature |-> signature]]
      BY <2>1 DEF Finalize
    <3>2. decision[v] \in Decisions
      BY <2>1 DEF Finalize, Step, RecordsInv, PointerInv, TypeOKPointer, TypeOKVerify
    <3>3. [manifest |-> manifestHash[v], source |-> sourceHash[v],
           decision |-> decision[v], signature |-> signature] \in EvidenceRecord
      BY <3>2 DEF EvidenceRecord, PointerInv, TypeOKPointer, TypeOKVerify
    <3> QED
      BY <3>1, <3>3, VerificationAssumption DEF PointerInv, TypeOKPointer, TypeOKVerify
  <2>2. CASE EditSource \/ EditManifest
    BY <2>2 DEF EditSource, EditManifest
  <2>3. ASSUME NEW w \in Verifications, Finalize(w)
        PROVE  vpc' = [vpc EXCEPT ![w] = "recorded"]
    BY <2>3 DEF Finalize, Step
  <2>4. ASSUME NEW w \in Verifications, Verify(w), ~Finalize(w)
        PROVE  \E stage \in AtGate \cup {"decided", "aborted"} :
                 vpc' = [vpc EXCEPT ![w] = stage]
    BY <2>4 DEF Verify, GateManifest, HashSource, GateCode, GateStructure, GateRepair,
                GateBaseline, DenyVerification, AbortVerification, Step, AtGate
  <2>5. ASSUME NEW w \in Verifications, Verify(w), NEW v \in Verifications,
               vpc'[v] \in Pointing
        PROVE  \/ vpc[v] \in Pointing /\ vpc'[v] = vpc[v]
               \/ vpc'[v] = "recorded" /\ records'[v] # None
    BY <2>1, <2>3, <2>4, <2>5
       DEF PointerInv, TypeOKPointer, TypeOKVerify, AtGate, Pointing
  <2> QED
    BY <2>2, <2>5 DEF VerifyNext
<1>6. PointingInv'
  BY <1>2, <1>5 DEF PointerInv, PointingInv
<1>7. NamesInv'
  <2>1. \A f \in Verifications : content[f] \in Pointer => content[f].run \in Verifications
    BY DEF Pointer
  <2>2. \A c \in Checks : reread[c] # None => reread[c] \in Verifications
    BY DEF PointerInv, TypeOKPointer
  <2> QED
    BY <1>2, <1>3, <2>1, <2>2 DEF PointerInv, NamesInv
<1>8. HandlesInv'
  BY <1>3, <1>5 DEF PointerInv, HandlesInv, Pointing
<1> QED
  BY <1>1, <1>4, <1>6, <1>7, <1>8 DEF PointerInv

-----------------------------------------------------------------------------
(* A text that is written into an open file: the whole of it, or garbage.  *)
LEMMA WriteKeepsNames ==
  ASSUME PointerInv, NEW f \in Verifications,
         NEW pointer \in Pointer, records[pointer.run] # None,
         NEW text \in Overwritten(f, pointer),
         content' = [content EXCEPT ![f] = text],
         UNCHANGED <<records, reread>>
  PROVE  NamesInv' /\ content' \in [Verifications -> Contents]
<1>1. text = pointer \/ text = Garbled
  BY DEF Overwritten
<1> QED
  BY <1>1, PointerAssumption DEF PointerInv, TypeOKPointer, NamesInv, Contents

(* A file that is opened for writing is empty.                             *)
LEMMA OpenKeepsNames ==
  ASSUME PointerInv, NEW f \in Verifications,
         content' = [content EXCEPT ![f] = Empty],
         UNCHANGED <<records, reread>>
  PROVE  NamesInv' /\ content' \in [Verifications -> Contents]
BY PointerAssumption DEF PointerInv, TypeOKPointer, NamesInv, Contents

LEMMA PublishKeepsInv ==
  ASSUME PointerInv, NEW v \in Verifications, Publish(v)
  PROVE  PointerInv'
<1>1. UNCHANGED <<sourceFile, manifestFile, manifestHash, sourceHash, decision,
                  records, cpc, seen, reread>>
  BY DEF Publish, OpenPointer, FillPointer, PublishPointer, PublishFails,
         projectVars, bundleVars, checkVars, pointerVars
<1>2. \E stage \in {"opened", "filled", "done", "aborted"} :
        vpc' = [vpc EXCEPT ![v] = stage]
  BY DEF Publish, OpenPointer, FillPointer, PublishPointer, PublishFails, Step
<1>3. vpc[v] \in Pointing /\ records[v] # None
  BY DEF Publish, OpenPointer, FillPointer, PublishPointer, PublishFails, Step,
         Pointing, PointerInv, PointingInv
<1>4. TypeOKVerify' /\ RecordsInv' /\ PointingInv'
  BY <1>1, <1>2, <1>3
     DEF PointerInv, TypeOKPointer, TypeOKVerify, RecordsInv, Hashed, PointingInv,
         Pointing
<1>5. CASE OpenPointer(v)
  <2> DEFINE file == IF tmp = None THEN v ELSE tmp
  <2>1. /\ tmp' = file /\ latest' = latest
        /\ content' = [content EXCEPT ![file] = Empty]
        /\ handle' = [handle EXCEPT ![v] = file]
    BY <1>5 DEF OpenPointer
  <2>2. file \in Verifications /\ file # None
    BY VerificationAssumption DEF PointerInv, TypeOKPointer
  <2>3. vpc' = [vpc EXCEPT ![v] = "opened"]
    BY <1>5 DEF OpenPointer, Step
  <2> HIDE DEF file
  <2>4. NamesInv' /\ content' \in [Verifications -> Contents]
    BY <1>1, <2>1, <2>2, OpenKeepsNames
  <2>5. TypeOKPointer'
    BY <1>1, <1>4, <2>1, <2>2, <2>4 DEF PointerInv, TypeOKPointer
  <2>6. HandlesInv'
    BY <1>1, <2>1, <2>2, <2>3, PointerAssumption
       DEF PointerInv, TypeOKPointer, TypeOKVerify, HandlesInv
  <2> QED
    BY <1>4, <2>4, <2>5, <2>6 DEF PointerInv
<1>6. CASE FillPointer(v)
  <2>1. PICK text \in Overwritten(handle[v], [run |-> v, verified |-> FALSE]) :
          content' = [content EXCEPT ![handle[v]] = text]
    BY <1>6 DEF FillPointer
  <2>2. handle[v] \in Verifications
    BY <1>6 DEF FillPointer, Step, PointerInv, TypeOKPointer, HandlesInv
  <2>3. [run |-> v, verified |-> FALSE] \in Pointer
    BY DEF Pointer
  <2>4. NamesInv' /\ content' \in [Verifications -> Contents]
    BY <1>1, <1>3, <2>1, <2>2, <2>3, WriteKeepsNames
  <2>5. /\ UNCHANGED <<tmp, latest, handle>>
        /\ vpc' = [vpc EXCEPT ![v] = "filled"]
    BY <1>6 DEF FillPointer, Step
  <2>6. TypeOKPointer' /\ HandlesInv'
    BY <1>1, <1>4, <2>4, <2>5 DEF PointerInv, TypeOKPointer, TypeOKVerify, HandlesInv
  <2> QED
    BY <1>4, <2>4, <2>6 DEF PointerInv
<1>7. CASE PublishPointer(v) \/ PublishFails(v)
  <2>1. /\ UNCHANGED <<content, handle>>
        /\ tmp' \in {tmp, None}
        /\ latest' = latest \/ (tmp # None /\ latest' = tmp)
        /\ \E stage \in {"done", "aborted"} : vpc' = [vpc EXCEPT ![v] = stage]
    BY <1>7 DEF PublishPointer, PublishFails, Step, pointerVars
  <2>2. TypeOKPointer' /\ NamesInv' /\ HandlesInv'
    BY <1>1, <1>4, <2>1
       DEF PointerInv, TypeOKPointer, TypeOKVerify, NamesInv, HandlesInv
  <2> QED
    BY <1>4, <2>2 DEF PointerInv
<1> QED
  BY <1>5, <1>6, <1>7 DEF Publish

LEMMA CheckKeepsInv ==
  ASSUME PointerInv, NEW c \in Checks, Check(c)
  PROVE  PointerInv'
<1>1. UNCHANGED <<sourceFile, manifestFile, vpc, manifestHash, sourceHash, decision,
                  records, tmp, latest>>
  BY DEF Check, LoadRecord, CheckSignature, RereadPointer, OpenMark, FillMark,
         FailCheck, verifyVars, projectVars, bundleVars, pointerVars
<1>2. TypeOKVerify' /\ RecordsInv' /\ PointingInv'
  BY <1>1 DEF PointerInv, TypeOKPointer, TypeOKVerify, RecordsInv, PointingInv
<1>3. c \notin Verifications
  BY PointerAssumption
<1>4. CASE LoadRecord(c) \/ CheckSignature(c) \/ FailCheck(c)
  <2>1. /\ UNCHANGED <<content, handle, reread>>
        /\ \E stage \in {"loaded", "valid", "failed"} : cpc' = [cpc EXCEPT ![c] = stage]
    BY <1>4 DEF LoadRecord, CheckSignature, FailCheck, CheckStep, pointerVars
  <2>2. seen' \in [Checks -> Verifications \cup {None}]
    BY <1>4 DEF LoadRecord, CheckSignature, FailCheck, Readable, Pointer,
                PointerInv, TypeOKPointer
  <2> QED
    BY <1>1, <1>2, <2>1, <2>2 DEF PointerInv, TypeOKPointer, NamesInv, HandlesInv
<1>5. CASE RereadPointer(c)
  <2>1. /\ UNCHANGED <<content, handle, seen>>
        /\ cpc' = [cpc EXCEPT ![c] = "reread"]
        /\ reread' = [reread EXCEPT ![c] = content[latest].run]
        /\ latest # None /\ content[latest] \in Pointer
    BY <1>5 DEF RereadPointer, CheckStep, Readable, pointerVars
  <2>2. /\ content[latest].run \in Verifications
        /\ content[latest].run # None
        /\ records[content[latest].run] # None
    BY <2>1, VerificationAssumption DEF Pointer, PointerInv, TypeOKPointer, NamesInv
  <2> QED
    BY <1>1, <1>2, <2>1, <2>2 DEF PointerInv, TypeOKPointer, NamesInv, HandlesInv
<1>6. CASE OpenMark(c)
  <2>1. /\ UNCHANGED <<seen, reread>>
        /\ cpc' = [cpc EXCEPT ![c] = "opened"]
        /\ content' = [content EXCEPT ![latest] = Empty]
        /\ handle' = [handle EXCEPT ![c] = latest]
    BY <1>6 DEF OpenMark, CheckStep
  <2>2. latest \in Verifications /\ latest # None /\ reread[c] # None
    BY <1>6 DEF OpenMark, CheckStep, PointerInv, TypeOKPointer, HandlesInv
  <2>3. NamesInv' /\ content' \in [Verifications -> Contents]
    BY <1>1, <2>1, <2>2, OpenKeepsNames
  <2>4. TypeOKPointer'
    BY <1>1, <1>2, <2>1, <2>2, <2>3 DEF PointerInv, TypeOKPointer
  <2>5. HandlesInv'
    BY <1>1, <1>3, <2>1, <2>2 DEF PointerInv, TypeOKPointer, HandlesInv
  <2> QED
    BY <1>2, <2>3, <2>4, <2>5 DEF PointerInv
<1>7. CASE FillMark(c)
  <2>1. PICK text \in Overwritten(handle[c], [run |-> reread[c], verified |-> TRUE]) :
          content' = [content EXCEPT ![handle[c]] = text]
    BY <1>7 DEF FillMark
  <2>2. /\ handle[c] \in Verifications
        /\ reread[c] \in Verifications
        /\ records[reread[c]] # None
    BY <1>7 DEF FillMark, CheckStep, PointerInv, TypeOKPointer, HandlesInv, NamesInv
  <2>3. [run |-> reread[c], verified |-> TRUE] \in Pointer
    BY <2>2 DEF Pointer
  <2>4. /\ UNCHANGED <<handle, seen, reread>>
        /\ cpc' = [cpc EXCEPT ![c] = "verified"]
    BY <1>7 DEF FillMark, CheckStep
  <2>5. NamesInv' /\ content' \in [Verifications -> Contents]
    BY <1>1, <2>1, <2>2, <2>3, <2>4, WriteKeepsNames
  <2>6. TypeOKPointer' /\ HandlesInv'
    BY <1>1, <1>2, <2>4, <2>5 DEF PointerInv, TypeOKPointer, HandlesInv
  <2> QED
    BY <1>2, <2>5, <2>6 DEF PointerInv
<1> QED
  BY <1>4, <1>5, <1>6, <1>7 DEF Check

LEMMA PointerInvariant == LatestSpec => []PointerInv
<1>1. LatestInit => PointerInv
  BY LatestInitInv
<1>2. ASSUME PointerInv, [LatestNext]_latestVars
      PROVE  PointerInv'
  <2>1. CASE UNCHANGED latestVars
    BY <1>2, <2>1
       DEF latestVars, verifyVars, projectVars, bundleVars, pointerVars, checkVars,
           PointerInv, TypeOKPointer, TypeOKVerify, RecordsInv, PointingInv, NamesInv,
           HandlesInv
  <2> QED
    BY <1>2, <2>1, GatesKeepInv, PublishKeepsInv, CheckKeepsInv DEF LatestNext
<1> QED
  BY <1>1, <1>2, PTL DEF LatestSpec

(* Files and memory keep their types, whoever writes into whose file       *)
(* (builder.py, finalize; verifier.py).                                    *)
THEOREM PointerTypeCorrect == LatestSpec => []TypeOKPointer
<1>1. PointerInv => TypeOKPointer
  BY DEF PointerInv
<1> QED
  BY <1>1, PointerInvariant, PTL

(* However many runs share the temporary file, what latest.json says when  *)
(* it can be read is a run whose record is on disk (builder.py, finalize). *)
THEOREM LatestResolvesCorrect == LatestSpec => []LatestResolves
<1>1. PointerInv => LatestResolves
  BY DEF PointerInv, TypeOKPointer, NamesInv, LatestResolves, Readable
<1> QED
  BY <1>1, PointerInvariant, PTL
=============================================================================
