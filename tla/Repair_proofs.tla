----------------------------- MODULE Repair_proofs -----------------------------
(***************************************************************************)
(* fix loses nothing the author saved, and a run that had the project to   *)
(* itself is bound to its hashes: proofs for any number of runs, texts and *)
(* replacements.                                                           *)
(***************************************************************************)
EXTENDS Repair, TLAPS

(* Before it backs up, a run has no backup; while one is about to replace  *)
(* the entrypoint, or writes what is the entrypoint by now, what the       *)
(* author saved is in a backup.                                            *)
Replacing(f) == fpc[f] = "backed up" \/ handle[f] = "entrypoint"

BackupsInv ==
  /\ \A f \in Fixes : fpc[f] \in {"idle", "started", "hashed", "read", "opened",
                                  "filled", "proposed", "loaded", "equivalent"}
                      => backup[f] = None
  /\ \A f \in Fixes : Replacing(f) => \E g \in Fixes : saved = backup[g]
  /\ OriginalIsKept

(* What a run that is alone knows, stage by stage.                         *)
Proposal(f) ==
  /\ content[f] = Repair(before[f])
  /\ temporary = content[f]

AloneFact(f) ==
  /\ fpc[f] \in {"hashed", "read", "opened", "filled", "proposed", "loaded",
                 "equivalent", "backed up"}
       => before[f] = entrypoint
  /\ fpc[f] = "read" => content[f] = Repair(before[f])
  /\ fpc[f] = "opened" => /\ content[f] = Repair(before[f])
                          /\ handle[f] = "temporary"
                          /\ temporary = Void
  /\ fpc[f] \in {"filled", "proposed", "loaded", "equivalent", "backed up"}
       => Proposal(f)
  /\ fpc[f] \in {"proposed", "loaded", "equivalent", "backed up"}
       => after[f] = temporary
  /\ fpc[f] = "loaded" => original[f] = before[f]
  /\ fpc[f] \in {"equivalent", "backed up", "renamed"} \/ recorded[f]
       => Equivalent(before[f], after[f])
  /\ fpc[f] \in {"backed up", "renamed"} \/ recorded[f]
       => backup[f] = before[f]
  /\ fpc[f] = "renamed" \/ recorded[f]
       => after[f] = Repair(before[f])

AloneInv == \A f \in Fixes : alone[f] => AloneFact(f)

(* Only a run that ended has its record.                                   *)
RecordedInv == \A f \in Fixes : recorded[f] => fpc[f] = "ended"

(* What it writes is a text.                                               *)
ContentInv == \A f \in Fixes : fpc[f] \in {"read", "opened"} => content[f] \in Contents

RepairInv == TypeOKRepair /\ ContentInv /\ BackupsInv /\ RecordedInv /\ AloneInv

-----------------------------------------------------------------------------
LEMMA RepairInitInv == RepairInit => RepairInv
BY RepairAssumption DEF RepairInit, RepairInv, TypeOKRepair, ContentInv, BackupsInv,
   Replacing, OriginalIsKept, RecordedInv, AloneInv, AloneFact, Contents, Live

(* The replacements make a text of a text.                                 *)
LEMMA RepairType == \A text \in Contents : Repair(text) \in Contents
BY RepairAssumption DEF Repair, Contents

LEMMA TypeStep ==
  ASSUME TypeOKRepair, ContentInv, RepairNext
  PROVE  TypeOKRepair' /\ ContentInv'
<1> USE DEF TypeOKRepair, ContentInv, Go, Disturb, Live, memory
<1>1. CASE SaveEntrypoint
  BY <1>1, RepairAssumption DEF SaveEntrypoint, Contents
<1>2. ASSUME NEW f \in Fixes, Fix(f)
      PROVE  TypeOKRepair' /\ ContentInv'
  <2>1. CASE StartFix(f)
    BY <2>1 DEF StartFix
  <2>2. CASE HashBefore(f)
    BY <2>2 DEF HashBefore
  <2>3. CASE ReadText(f)
    BY <2>3, RepairType DEF ReadText
  <2>4. CASE OpenTemporary(f)
    BY <2>4 DEF OpenTemporary, Contents
  <2>5. CASE FillTemporary(f)
    <3>1. content[f] \in Contents /\ Void \in Contents
      BY <2>5 DEF FillTemporary, Contents
    <3>2. /\ temporary' \in Contents \cup {None}
          /\ entrypoint' \in Contents
      BY <2>5, <3>1 DEF FillTemporary, Written
    <3> QED
      BY <2>5, <3>2 DEF FillTemporary
  <2>6. CASE HashAfter(f)
    BY <2>6 DEF HashAfter
  <2>7. CASE LoadOriginal(f)
    BY <2>7 DEF LoadOriginal
  <2>8. CASE CheckRepair(f)
    BY <2>8 DEF CheckRepair
  <2>9. CASE BackUp(f)
    BY <2>9 DEF BackUp
  <2>10. CASE Install(f)
    BY <2>10 DEF Install
  <2>11. CASE WriteRepairRecord(f)
    BY <2>11 DEF WriteRepairRecord, ForgetText
  <2>12. CASE AbandonRepair(f)
    BY <2>12 DEF AbandonRepair, ForgetText, ForgetRepair
  <2>13. CASE StopFix(f)
    BY <2>13 DEF StopFix, ForgetText, ForgetRepair
  <2> QED
    BY <1>2, <2>1, <2>2, <2>3, <2>4, <2>5, <2>6, <2>7, <2>8, <2>9, <2>10, <2>11,
       <2>12, <2>13 DEF Fix
<1> QED
  BY <1>1, <1>2 DEF RepairNext

-----------------------------------------------------------------------------
(* Backups.  They are made once and stay.                                  *)

LEMMA BackupsStep ==
  ASSUME TypeOKRepair, BackupsInv, RepairNext
  PROVE  BackupsInv'
<1> USE DEF TypeOKRepair, BackupsInv, Replacing, OriginalIsKept, Go, Live
<1>1. CASE SaveEntrypoint
  <2>1. CASE Settled
    BY <1>1, <2>1 DEF SaveEntrypoint, Settled
  <2>2. CASE ~Settled
    <3>1. \E g \in Fixes : saved = backup[g]
      BY <2>2 DEF Settled
    <3> QED
      BY <1>1, <2>2, <3>1 DEF SaveEntrypoint
  <2> QED
    BY <2>1, <2>2
<1>2. ASSUME NEW f \in Fixes, Fix(f)
      PROVE  BackupsInv'
  <2>1. CASE \/ StartFix(f) \/ HashBefore(f) \/ ReadText(f) \/ HashAfter(f)
             \/ LoadOriginal(f) \/ CheckRepair(f) \/ OpenTemporary(f)
             \/ WriteRepairRecord(f) \/ AbandonRepair(f) \/ StopFix(f)
    <3>1. UNCHANGED <<entrypoint, saved, backup>>
      BY <2>1 DEF StartFix, HashBefore, ReadText, HashAfter, LoadOriginal, CheckRepair,
                  OpenTemporary, WriteRepairRecord, AbandonRepair, StopFix
    <3>2. \A g \in Fixes : Replacing(g)' => Replacing(g)
      <4>1. CASE StartFix(f) \/ HashBefore(f) \/ ReadText(f)
        BY <4>1 DEF StartFix, HashBefore, ReadText
      <4>2. CASE HashAfter(f) \/ LoadOriginal(f) \/ CheckRepair(f)
        BY <4>2 DEF HashAfter, LoadOriginal, CheckRepair
      <4>3. CASE OpenTemporary(f)
        BY <4>3 DEF OpenTemporary
      <4>4. CASE WriteRepairRecord(f)
        BY <4>4 DEF WriteRepairRecord
      <4>5. CASE AbandonRepair(f)
        BY <4>5 DEF AbandonRepair
      <4>6. CASE StopFix(f)
        BY <4>6 DEF StopFix
      <4> QED
        BY <2>1, <4>1, <4>2, <4>3, <4>4, <4>5, <4>6
    <3>3. \A g \in Fixes :
            fpc'[g] \in {"idle", "started", "hashed", "read", "opened", "filled",
                        "proposed", "loaded", "equivalent"}
              => backup[g] = None
      BY <2>1 DEF StartFix, HashBefore, ReadText, HashAfter, LoadOriginal, CheckRepair,
                  OpenTemporary, WriteRepairRecord, AbandonRepair, StopFix
    <3> QED
      BY <3>1, <3>2, <3>3
  <2>2. CASE FillTemporary(f)
    BY <2>2 DEF FillTemporary
  <2>3. CASE BackUp(f)
    <3>1. /\ backup'[f] = entrypoint
          /\ \A g \in Fixes \ {f} : backup'[g] = backup[g]
          /\ backup[f] = None
          /\ saved # None
          /\ saved' = saved /\ entrypoint' = entrypoint
      BY <2>3, RepairAssumption DEF BackUp, Contents
    <3>2. \E g \in Fixes : saved' = backup'[g]
      BY <3>1
    <3> QED
      BY <2>3, <3>1, <3>2 DEF BackUp
  <2>4. CASE Install(f)
    <3>1. \E g \in Fixes : saved' = backup'[g]
      BY <2>4 DEF Install
    <3> QED
      BY <2>4, <3>1 DEF Install
  <2> QED
    BY <1>2, <2>1, <2>2, <2>3, <2>4 DEF Fix
<1> QED
  BY <1>1, <1>2 DEF RepairNext

-----------------------------------------------------------------------------
(* A run that had the project to itself.                                   *)

LEMMA RecordedStep ==
  ASSUME TypeOKRepair, RecordedInv, RepairNext
  PROVE  RecordedInv'
<1> USE DEF TypeOKRepair, RecordedInv, Go, Live
<1>1. CASE SaveEntrypoint
  BY <1>1 DEF SaveEntrypoint
<1>2. ASSUME NEW f \in Fixes, Fix(f), ~WriteRepairRecord(f)
      PROVE  RecordedInv'
  <2>1. recorded' = recorded /\ fpc[f] # "ended"
    BY <1>2 DEF Fix, StartFix, HashBefore, ReadText, OpenTemporary, FillTemporary,
                HashAfter, LoadOriginal, CheckRepair, BackUp, Install, AbandonRepair,
                StopFix
  <2>2. \A g \in Fixes \ {f} : fpc'[g] = fpc[g]
    BY <1>2 DEF Fix, StartFix, HashBefore, ReadText, OpenTemporary, FillTemporary,
                HashAfter, LoadOriginal, CheckRepair, BackUp, Install, AbandonRepair,
                StopFix
  <2> QED
    BY <2>1, <2>2
<1>3. ASSUME NEW f \in Fixes, WriteRepairRecord(f)
      PROVE  RecordedInv'
  BY <1>3 DEF WriteRepairRecord
<1> QED
  BY <1>1, <1>2, <1>3 DEF RepairNext

(* The step of a run ends the solitude of every other live one, and takes  *)
(* nothing from a run that ended.                                          *)
LEMMA OthersStep ==
  ASSUME RepairInv, NEW f \in Fixes, Fix(f), NEW g \in Fixes \ {f}, alone'[g]
  PROVE  /\ alone[g] /\ fpc[g] \notin Live
         /\ fpc'[g] = fpc[g] /\ recorded'[g] = recorded[g]
         /\ before'[g] = before[g] /\ after'[g] = after[g]
         /\ backup'[g] = backup[g]
<1>1. \E from, to \in {"idle", "ended"} \cup Live : Go(f, from, to)
  BY DEF Fix, StartFix, HashBefore, ReadText, OpenTemporary, FillTemporary, HashAfter,
         LoadOriginal, CheckRepair, BackUp, Install, WriteRepairRecord, AbandonRepair,
         StopFix, Live
<1>2. /\ alone[g] /\ fpc[g] \notin Live
      /\ fpc'[g] = fpc[g]
  BY <1>1 DEF Go, Disturb, RepairInv, TypeOKRepair
<1>3. /\ recorded'[g] = recorded[g]
      /\ before'[g] = before[g] /\ after'[g] = after[g]
      /\ backup'[g] = backup[g]
  BY DEF Fix, StartFix, HashBefore, ReadText, OpenTemporary, FillTemporary, HashAfter,
         LoadOriginal, CheckRepair, BackUp, Install, WriteRepairRecord, AbandonRepair,
         StopFix, ForgetRepair, ForgetText, memory, RepairInv, TypeOKRepair
<1> QED
  BY <1>2, <1>3

LEMMA OwnStep ==
  ASSUME RepairInv, NEW f \in Fixes, Fix(f), alone'[f]
  PROVE  AloneFact(f)'
<1> USE DEF Go, Disturb, Live, AloneFact, Proposal, memory
<1>1. AloneFact(f) /\ RecordedInv /\ TypeOKRepair
  BY DEF RepairInv, AloneInv, Fix, StartFix, HashBefore, ReadText, OpenTemporary,
         FillTemporary, HashAfter, LoadOriginal, CheckRepair, BackUp, Install,
         WriteRepairRecord, AbandonRepair, StopFix, TypeOKRepair
<1> USE DEF TypeOKRepair, RecordedInv
<1>2. CASE StartFix(f)
  BY <1>1, <1>2 DEF StartFix
<1>3. CASE HashBefore(f)
  BY <1>1, <1>3 DEF HashBefore
<1>4. CASE ReadText(f)
  BY <1>1, <1>4 DEF ReadText
<1>5. CASE OpenTemporary(f)
  BY <1>1, <1>5 DEF OpenTemporary
<1>6. CASE FillTemporary(f)
  BY <1>1, <1>6 DEF FillTemporary, Written
<1>7. CASE HashAfter(f)
  BY <1>1, <1>7 DEF HashAfter
<1>8. CASE LoadOriginal(f)
  BY <1>1, <1>8 DEF LoadOriginal
<1>9. CASE CheckRepair(f)
  BY <1>1, <1>9 DEF CheckRepair
<1>10. CASE BackUp(f)
  BY <1>1, <1>10 DEF BackUp
<1>11. CASE Install(f)
  BY <1>1, <1>11 DEF Install
<1>12. CASE WriteRepairRecord(f)
  BY <1>1, <1>12 DEF WriteRepairRecord, ForgetText
<1>13. CASE AbandonRepair(f)
  BY <1>1, <1>13 DEF AbandonRepair, ForgetRepair, ForgetText
<1>14. CASE StopFix(f)
  BY <1>1, <1>14 DEF StopFix, ForgetRepair, ForgetText
<1> QED
  BY <1>2, <1>3, <1>4, <1>5, <1>6, <1>7, <1>8, <1>9, <1>10, <1>11, <1>12, <1>13, <1>14
     DEF Fix

LEMMA AloneStep ==
  ASSUME RepairInv, RepairNext
  PROVE  AloneInv'
<1>1. CASE SaveEntrypoint
  BY <1>1 DEF SaveEntrypoint, RepairInv, TypeOKRepair, AloneInv, AloneFact, RecordedInv,
              Live, memory
<1>2. ASSUME NEW f \in Fixes, Fix(f)
      PROVE  AloneInv'
  <2> SUFFICES ASSUME NEW g \in Fixes, alone'[g]
               PROVE  AloneFact(g)'
    BY DEF AloneInv
  <2>1. CASE g = f
    BY <1>2, <2>1, OwnStep
  <2>2. CASE g # f
    <3>1. /\ alone[g] /\ fpc[g] \notin Live
          /\ fpc'[g] = fpc[g] /\ recorded'[g] = recorded[g]
          /\ before'[g] = before[g] /\ after'[g] = after[g]
          /\ backup'[g] = backup[g]
      BY <1>2, <2>2, OthersStep
    <3> QED
      BY <3>1 DEF RepairInv, AloneInv, AloneFact, Live
  <2> QED
    BY <2>1, <2>2
<1> QED
  BY <1>1, <1>2 DEF RepairNext

-----------------------------------------------------------------------------
LEMMA RepairInvariant == RepairSpec => []RepairInv
<1>1. RepairInit => RepairInv
  BY RepairInitInv
<1>2. ASSUME RepairInv, [RepairNext]_repairVars
      PROVE  RepairInv'
  <2>1. CASE RepairNext
    BY <1>2, <2>1, TypeStep, BackupsStep, RecordedStep, AloneStep DEF RepairInv
  <2>2. CASE UNCHANGED repairVars
    BY <1>2, <2>2 DEF repairVars, memory, RepairInv, TypeOKRepair, ContentInv, BackupsInv,
       Replacing, OriginalIsKept, RecordedInv, AloneInv, AloneFact, Proposal
  <2> QED
    BY <1>2, <2>1, <2>2
<1> QED
  BY <1>1, <1>2, PTL DEF RepairSpec

(* The types of fix: it holds its temporary file open only to write it     *)
(* (cli.py, fix).                                                          *)
THEOREM RepairTypeCorrect == RepairSpec => []TypeOKRepair
<1>1. RepairInv => TypeOKRepair
  BY DEF RepairInv
<1> QED
  BY <1>1, RepairInvariant, PTL

(* What the author saved is the entrypoint or in a backup, for any number  *)
(* of runs that share the temporary file and die anywhere (cli.py, fix).   *)
THEOREM OriginalIsKeptCorrect == RepairSpec => []OriginalIsKept
<1>1. RepairInv => OriginalIsKept
  BY DEF RepairInv, BackupsInv
<1> QED
  BY <1>1, RepairInvariant, PTL

(* A repair that nobody disturbed is bound to its hashes and passes gate 4 *)
(* (cli.py, fix and verify).                                               *)
THEOREM RecordedRepairPassesGateCorrect == RepairSpec => []RecordedRepairPassesGate
<1>1. RepairInv => RecordedRepairPassesGate
  BY DEF RepairInv, AloneInv, AloneFact, RecordedRepairPassesGate, GateFinds, GateAccepts
<1> QED
  BY <1>1, RepairInvariant, PTL
=============================================================================
