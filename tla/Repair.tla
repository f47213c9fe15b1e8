-------------------------------- MODULE Repair --------------------------------
(***************************************************************************)
(* `quantumd fix` (src/quantumd/cli.py, fix) and the gate of verify that   *)
(* reads what it leaves (gate 4): the entrypoint is rewritten by string    *)
(* replacement into a temporary file, compared with the original by the    *)
(* equivalence checker, backed up, replaced by a rename, and a record with *)
(* the hashes of both is put into .repairs.                                *)
(*                                                                         *)
(* Each element of Fixes is one run of fix, with its own QFIX id.  All     *)
(* share one temporary file, whose name is fixed; a run may be killed at   *)
(* any step, and the author may save the entrypoint.  fix starts from the  *)
(* latest evidence record, which may be of an earlier entrypoint, so that  *)
(* it may start at any time.                                               *)
(***************************************************************************)
CONSTANTS
  Fixes,    \* runs of fix, and their QFIX ids
  Texts,    \* contents of the entrypoint, told apart by their hash
  Authored, \* those the author writes
  Repaired, \* what the string replacements make of a text
  Circuit,  \* the circuit a text builds, or None where it builds none
  Void,     \* a file that was opened for writing and is still empty
  None

Contents == Texts \cup {Void}

(* The replacements find nothing in an empty file.                         *)
Repair(text) == IF text = Void THEN Void ELSE Repaired[text]

(* load_circuit_isolated: an empty file defines no function to call.       *)
Loads(text) == text \in Texts /\ Circuit[text] # None

(* check_equivalence says PASS.                                            *)
Equivalent(original, candidate) ==
  /\ Loads(original)
  /\ Loads(candidate)
  /\ Circuit[original] = Circuit[candidate]

ASSUME RepairAssumption ==
  /\ Authored \subseteq Texts
  /\ Repaired \in [Texts -> Texts]
  /\ Void \notin Texts
  /\ None \notin Contents

VARIABLES
  entrypoint, \* src/experiment.py
  temporary,  \* src/.experiment_repair.tmp.py, or None
  fpc,        \* where each run of fix is
  before,     \* its source_before_hash
  content,    \* the repaired text it holds in memory
  handle,     \* the file its open temporary file is by now
  after,      \* its source_after_hash
  original,   \* the text whose circuit it compares with the repaired one
  backup,     \* experiment.py.bak.<repair id>.py, or None
  recorded,   \* whether .repairs/<repair id>.json is there
  alone,      \* whether nobody else touched the project while it ran
  saved       \* what the author saved last while fix had no window open

memory     == <<before, content, after, original>>
repairVars == <<entrypoint, temporary, fpc, memory, handle, backup, recorded,
                alone, saved>>

Live == {"started", "hashed", "read", "opened", "filled", "proposed",
         "loaded", "equivalent", "backed up", "renamed"}

TypeOKRepair ==
  /\ entrypoint \in Contents
  /\ temporary \in Contents \cup {None}
  /\ fpc \in [Fixes -> {"idle", "ended"} \cup Live]
  /\ before \in [Fixes -> Contents \cup {None}]
  /\ content \in [Fixes -> Contents \cup {None}]
  /\ handle \in [Fixes -> {"none", "temporary", "entrypoint", "gone"}]
  /\ after \in [Fixes -> Contents \cup {None}]
  /\ original \in [Fixes -> Contents \cup {None}]
  /\ backup \in [Fixes -> Contents \cup {None}]
  /\ recorded \in [Fixes -> BOOLEAN]
  /\ alone \in [Fixes -> BOOLEAN]
  /\ saved \in Texts
  /\ \A f \in Fixes : handle[f] # "none" <=> fpc[f] = "opened"

RepairInit ==
  /\ entrypoint \in Authored
  /\ saved = entrypoint
  /\ temporary = None
  /\ fpc = [f \in Fixes |-> "idle"]
  /\ before = [f \in Fixes |-> None]
  /\ content = [f \in Fixes |-> None]
  /\ handle = [f \in Fixes |-> "none"]
  /\ after = [f \in Fixes |-> None]
  /\ original = [f \in Fixes |-> None]
  /\ backup = [f \in Fixes |-> None]
  /\ recorded = [f \in Fixes |-> FALSE]
  /\ alone = [f \in Fixes |-> TRUE]

(* A step of one run disturbs every other that is under way, and is itself *)
(* not alone if there is one.                                              *)
Disturb(f) ==
  alone' = [g \in Fixes |->
              /\ alone[g]
              /\ g # f => fpc[g] \notin Live
              /\ g = f => \A h \in Fixes \ {f} : fpc[h] \notin Live]

Go(f, from, to) ==
  /\ fpc[f] = from
  /\ fpc' = [fpc EXCEPT ![f] = to]
  /\ Disturb(f)
  /\ UNCHANGED saved

(* A run that ends forgets its text; its record keeps the two hashes.      *)
ForgetText(f) ==
  /\ content' = [content EXCEPT ![f] = None]
  /\ original' = [original EXCEPT ![f] = None]

ForgetRepair(f) ==
  /\ ForgetText(f)
  /\ before' = [before EXCEPT ![f] = None]
  /\ after' = [after EXCEPT ![f] = None]

-----------------------------------------------------------------------------
(* The latest record blames a measurement in the middle of the circuit.    *)
StartFix(f) ==
  /\ Go(f, "idle", "started")
  /\ UNCHANGED <<entrypoint, temporary, memory, handle, backup, recorded>>

HashBefore(f) ==
  /\ Go(f, "started", "hashed")
  /\ before' = [before EXCEPT ![f] = entrypoint]
  /\ UNCHANGED <<entrypoint, temporary, content, after, original, handle,
                 backup, recorded>>

ReadText(f) ==
  /\ Go(f, "hashed", "read")
  /\ content' = [content EXCEPT ![f] = Repair(entrypoint)]
  /\ UNCHANGED <<entrypoint, temporary, before, after, original, handle,
                 backup, recorded>>

(* Mutant of OpenTemporary: a temporary file that is there is kept.        *)
KeepTemporary(f) ==
  /\ Go(f, "read", "opened")
  /\ temporary' = IF temporary = None THEN Void ELSE temporary
  /\ handle' = [handle EXCEPT ![f] =
                  IF temporary = None THEN "temporary" ELSE "gone"]
  /\ UNCHANGED <<entrypoint, memory, backup, recorded>>

(* write_text opens the temporary file, which cuts it, whoever made it ... *)
OpenTemporary(f) ==
  /\ Go(f, "read", "opened")
  /\ temporary' = Void
  /\ handle' = [handle EXCEPT ![f] = "temporary"]
  /\ UNCHANGED <<entrypoint, memory, backup, recorded>>

(* ... and writes the file it opened, wherever it is by now.  A text that  *)
(* another run wrote there may be longer: the rest of it builds nothing.   *)
Written(file, text) == IF file \in {Void, text} THEN {text} ELSE {text, Void}

(* Mutant of FillTemporary: the file is left open.                         *)
LeaveOpen(f) ==
  /\ Go(f, "opened", "filled")
  /\ handle[f] = "temporary"
  /\ temporary' \in Written(temporary, content[f])
  /\ UNCHANGED <<entrypoint, handle, memory, backup, recorded>>

FillTemporary(f) ==
  /\ Go(f, "opened", "filled")
  /\ IF handle[f] = "temporary"
     THEN temporary' \in Written(temporary, content[f])
     ELSE UNCHANGED temporary
  /\ IF handle[f] = "entrypoint"
     THEN entrypoint' \in Written(entrypoint, content[f])
     ELSE UNCHANGED entrypoint
  /\ handle' = [handle EXCEPT ![f] = "none"]
  /\ UNCHANGED <<memory, backup, recorded>>

HashAfter(f) ==
  /\ Go(f, "filled", "proposed")
  /\ temporary # None
  /\ after' = [after EXCEPT ![f] = temporary]
  /\ UNCHANGED <<entrypoint, temporary, before, content, original, handle,
                 backup, recorded>>

(* The sandbox builds the circuit of the entrypoint, then that of the      *)
(* temporary file, and the checker finds them equivalent.                  *)
LoadOriginal(f) ==
  /\ Go(f, "proposed", "loaded")
  /\ original' = [original EXCEPT ![f] = entrypoint]
  /\ UNCHANGED <<entrypoint, temporary, before, content, after, handle, backup,
                 recorded>>

CheckRepair(f) ==
  /\ Go(f, "loaded", "equivalent")
  /\ Equivalent(original[f], temporary)
  /\ UNCHANGED <<entrypoint, temporary, memory, handle, backup, recorded>>

(* Mutant of BackUp: the repaired text is backed up.                       *)
BackUpRepaired(f) ==
  /\ Go(f, "equivalent", "backed up")
  /\ backup' = [backup EXCEPT ![f] = content[f]]
  /\ UNCHANGED <<entrypoint, temporary, memory, handle, recorded>>

BackUp(f) ==
  /\ Go(f, "equivalent", "backed up")
  /\ backup' = [backup EXCEPT ![f] = entrypoint]
  /\ UNCHANGED <<entrypoint, temporary, memory, handle, recorded>>

(* The rename takes along whoever still writes the temporary file.         *)
Install(f) ==
  /\ Go(f, "backed up", "renamed")
  /\ temporary # None
  /\ entrypoint' = temporary
  /\ temporary' = None
  /\ handle' = [g \in Fixes |-> CASE handle[g] = "temporary"  -> "entrypoint"
                                  [] handle[g] = "entrypoint" -> "gone"
                                  [] OTHER                    -> handle[g]]
  /\ UNCHANGED <<memory, backup, recorded>>

(* .repairs/<repair id>.json names the backup and both hashes.             *)
WriteRepairRecord(f) ==
  /\ Go(f, "renamed", "ended")
  /\ recorded' = [recorded EXCEPT ![f] = TRUE]
  /\ ForgetText(f)
  /\ UNCHANGED <<entrypoint, temporary, before, after, handle, backup>>

(* The circuits differ, or anything from the check on raises: the          *)
(* temporary file that is there is removed.                                *)
AbandonRepair(f) ==
  /\ \E from \in {"proposed", "loaded", "equivalent", "backed up", "renamed"} :
       Go(f, from, "ended")
  /\ temporary' = None
  /\ handle' = [g \in Fixes |->
                  IF handle[g] = "temporary" THEN "gone" ELSE handle[g]]
  /\ ForgetRepair(f)
  /\ UNCHANGED <<entrypoint, backup, recorded>>

(* The process is killed, or a read or write before the check raises.      *)
StopFix(f) ==
  /\ \E from \in Live : Go(f, from, "ended")
  /\ handle' = [handle EXCEPT ![f] = "none"]
  /\ ForgetRepair(f)
  /\ UNCHANGED <<entrypoint, temporary, backup, recorded>>

(* No run is between its backup and its rename, nor writes what is the     *)
(* entrypoint by now.                                                      *)
Settled == \A f \in Fixes : fpc[f] # "backed up" /\ handle[f] # "entrypoint"

(* The author saves the entrypoint at any time.  What is saved while it is *)
(* not settled may be lost, and does not count as saved.                   *)
SaveEntrypoint ==
  /\ entrypoint' \in Authored \ {entrypoint}
  /\ saved' = IF Settled THEN entrypoint' ELSE saved
  /\ alone' = [f \in Fixes |-> alone[f] /\ fpc[f] \notin Live]
  /\ UNCHANGED <<temporary, fpc, memory, handle, backup, recorded>>

Fix(f) ==
  \/ StartFix(f) \/ HashBefore(f) \/ ReadText(f) \/ OpenTemporary(f)
  \/ FillTemporary(f) \/ HashAfter(f) \/ LoadOriginal(f) \/ CheckRepair(f)
  \/ BackUp(f) \/ Install(f) \/ WriteRepairRecord(f) \/ AbandonRepair(f)
  \/ StopFix(f)

RepairNext == SaveEntrypoint \/ \E f \in Fixes : Fix(f)

RepairSpec == RepairInit /\ [][RepairNext]_repairVars

-----------------------------------------------------------------------------
(* Gate 4 of verify: of the records that name the source it hashed it      *)
(* takes any, and compares the backup with the entrypoint; where there is  *)
(* none, the gate is skipped.                                              *)
GateFinds(f) == recorded[f] /\ after[f] = entrypoint

GateAccepts(f) == Equivalent(backup[f], entrypoint)

(* What the author saved before fix opened a window is never lost: it is   *)
(* the entrypoint, or some run of fix keeps it, however many share the     *)
(* temporary file and wherever they are killed (cli.py, fix: the copy      *)
(* before the rename).                                                     *)
OriginalIsKept ==
  \/ saved = entrypoint
  \/ \E f \in Fixes : saved = backup[f]

(* A run of fix that had the project to itself, after whatever runs were   *)
(* killed before it and left behind, records the text it replaced, the     *)
(* text it put there, and two circuits that gate 4 finds equivalent again  *)
(* - fix compares the entrypoint with the temporary file, gate 4 the       *)
(* backup with the entrypoint (cli.py, fix and verify).                    *)
RecordedRepairPassesGate ==
  \A f \in Fixes :
    recorded[f] /\ alone[f] =>
      /\ backup[f] = before[f]
      /\ after[f] = Repair(before[f])
      /\ GateFinds(f) => GateAccepts(f)
=============================================================================
