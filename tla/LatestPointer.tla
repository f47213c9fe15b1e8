---------------------------- MODULE LatestPointer ----------------------------
(***************************************************************************)
(* evidence/latest.json: how `verify` publishes it                         *)
(* (evidence/builder.py, finalize) and how `evidence verify-signature`     *)
(* marks it (evidence/verifier.py).                                        *)
(*                                                                         *)
(* All runs of verify share one temporary file, .latest.json.tmp, and      *)
(* rename it over latest.json; verify-signature rewrites latest.json in    *)
(* place.  Which bytes a name shows depends on the file behind it, so      *)
(* files are named here by the run that created them, and a run keeps the  *)
(* file it opened although the name moves on.                              *)
(***************************************************************************)
EXTENDS Verification

CONSTANTS
  Checks,  \* runs of `quantumd evidence verify-signature`
  Empty,   \* a file that was opened for writing and not written yet
  Garbled  \* one that holds the tail of another text, and is not JSON

Pointer  == [run : Verifications, verified : BOOLEAN]
Contents == Pointer \cup {Empty, Garbled}

ASSUME PointerAssumption ==
  /\ Empty # Garbled
  /\ Empty \notin Pointer
  /\ Garbled \notin Pointer
  /\ Verifications \cap Checks = {}

VARIABLES
  tmp,      \* the file named .latest.json.tmp, or None
  latest,   \* the file named latest.json, or None
  content,  \* what each file holds
  handle,   \* the file a run of verify, or of verify-signature, has open
  cpc,      \* where each run of verify-signature is
  seen,     \* the run whose record it checks
  reread    \* pointer_data, in its memory

pointerVars == <<tmp, latest, content, handle>>
checkVars   == <<cpc, seen, reread>>
latestVars  == <<verifyVars, pointerVars, checkVars>>

TypeOKPointer ==
  /\ TypeOKVerify
  /\ tmp \in Verifications \cup {None}
  /\ latest \in Verifications \cup {None}
  /\ content \in [Verifications -> Contents]
  /\ handle \in [Verifications \cup Checks -> Verifications \cup {None}]
  /\ cpc \in [Checks -> {"idle", "loaded", "valid", "reread", "opened",
                         "verified", "failed"}]
  /\ seen \in [Checks -> Verifications \cup {None}]
  /\ reread \in [Checks -> Verifications \cup {None}]

LatestInit ==
  /\ VerifyInit
  /\ tmp = None
  /\ latest = None
  /\ content = [v \in Verifications |-> Empty]
  /\ handle = [p \in Verifications \cup Checks |-> None]
  /\ cpc = [c \in Checks |-> "idle"]
  /\ seen = [c \in Checks |-> None]
  /\ reread = [c \in Checks |-> None]

(* Writing from the start of a file that another run wrote in the meantime *)
(* leaves the tail of the longer text behind.                              *)
Overwritten(file, pointer) ==
  IF content[file] = Empty THEN {pointer} ELSE {pointer, Garbled}

Readable == latest # None /\ content[latest] \in Pointer

-----------------------------------------------------------------------------
(* finalize, after the record.                                             *)

(* Mutant of OpenPointer: the pointer goes out before the record.          *)
OpenPointerEarly(v) ==
  /\ Step(v, "decided", "opened")
  /\ LET file == IF tmp = None THEN v ELSE tmp IN
       /\ tmp' = file
       /\ content' = [content EXCEPT ![file] = Empty]
       /\ handle' = [handle EXCEPT ![v] = file]
  /\ UNCHANGED <<projectVars, bundleVars, records, latest, checkVars>>

(* write_text opens the temporary file - creating it, or cutting the one   *)
(* another run has open - ...                                              *)
OpenPointer(v) ==
  /\ Step(v, "recorded", "opened")
  /\ LET file == IF tmp = None THEN v ELSE tmp IN
       /\ tmp' = file
       /\ content' = [content EXCEPT ![file] = Empty]
       /\ handle' = [handle EXCEPT ![v] = file]
  /\ UNCHANGED <<projectVars, bundleVars, records, latest, checkVars>>

(* ... and writes the pointer into the file it opened.                     *)
FillPointer(v) ==
  /\ Step(v, "opened", "filled")
  /\ \E text \in Overwritten(handle[v], [run |-> v, verified |-> FALSE]) :
       content' = [content EXCEPT ![handle[v]] = text]
  /\ UNCHANGED <<projectVars, bundleVars, records, tmp, latest, handle, checkVars>>

(* os.replace; the temporary file may be another run's by now.             *)
PublishPointer(v) ==
  /\ tmp # None
  /\ Step(v, "filled", "done")
  /\ latest' = tmp
  /\ tmp' = None
  /\ UNCHANGED <<projectVars, bundleVars, records, content, handle, checkVars>>

(* Another run renamed it away: FileNotFoundError.                         *)
PublishFails(v) ==
  /\ tmp = None
  /\ Step(v, "filled", "aborted")
  /\ UNCHANGED <<projectVars, bundleVars, records, pointerVars, checkVars>>

-----------------------------------------------------------------------------
(* verify_signature.                                                       *)

CheckStep(c, from, to) ==
  /\ cpc[c] = from
  /\ cpc' = [cpc EXCEPT ![c] = to]

(* The pointer and the record it names are read.                           *)
LoadRecord(c) ==
  /\ CheckStep(c, "idle", "loaded")
  /\ Readable
  /\ records[content[latest].run] # None
  /\ seen' = [seen EXCEPT ![c] = content[latest].run]
  /\ UNCHANGED <<verifyVars, pointerVars, reread>>

(* Only a signature that KMS's public key verifies passes.                 *)
CheckSignature(c) ==
  /\ CheckStep(c, "loaded", "valid")
  /\ records[seen[c]].signature = "KMS_SIGNED"
  /\ UNCHANGED <<verifyVars, pointerVars, seen, reread>>

(* Mutant of RereadPointer: what was read is not kept.                     *)
RereadPointerDropped(c) ==
  /\ CheckStep(c, "valid", "reread")
  /\ Readable
  /\ UNCHANGED <<verifyVars, pointerVars, seen, reread>>

(* The pointer is read again ...                                           *)
RereadPointer(c) ==
  /\ CheckStep(c, "valid", "reread")
  /\ Readable
  /\ reread' = [reread EXCEPT ![c] = content[latest].run]
  /\ UNCHANGED <<verifyVars, pointerVars, seen>>

(* ... latest.json is opened in place, which cuts it ...                   *)
OpenMark(c) ==
  /\ CheckStep(c, "reread", "opened")
  /\ content' = [content EXCEPT ![latest] = Empty]
  /\ handle' = [handle EXCEPT ![c] = latest]
  /\ UNCHANGED <<verifyVars, tmp, latest, seen, reread>>

(* ... and what was read is written back, marked as verified.              *)
FillMark(c) ==
  /\ CheckStep(c, "opened", "verified")
  /\ \E text \in Overwritten(handle[c], [run |-> reread[c], verified |-> TRUE]) :
       content' = [content EXCEPT ![handle[c]] = text]
  /\ UNCHANGED <<verifyVars, tmp, latest, handle, seen, reread>>

(* A check, KMS or a file access raises, or the process is killed.         *)
FailCheck(c) ==
  /\ cpc[c] \notin {"verified", "failed"}
  /\ cpc' = [cpc EXCEPT ![c] = "failed"]
  /\ UNCHANGED <<verifyVars, pointerVars, seen, reread>>

Publish(v) ==
  OpenPointer(v) \/ FillPointer(v) \/ PublishPointer(v) \/ PublishFails(v)

Check(c) ==
  \/ LoadRecord(c) \/ CheckSignature(c) \/ RereadPointer(c)
  \/ OpenMark(c) \/ FillMark(c) \/ FailCheck(c)

LatestNext ==
  \/ VerifyNext /\ UNCHANGED <<pointerVars, checkVars>>
  \/ \E v \in Verifications : Publish(v)
  \/ \E c \in Checks : Check(c)

LatestSpec == LatestInit /\ [][LatestNext]_latestVars

-----------------------------------------------------------------------------
(* However runs share the temporary file, are renamed away or die, what    *)
(* latest.json says - when it can be read at all - is a run whose record   *)
(* is on disk (builder.py: the record before the pointer).                 *)
LatestResolves ==
  Readable => records[content[latest].run] # None

(* verifier.py:69 - "We update the mutable pointer (latest.json) to        *)
(* reflect offline verification status.": a pointer marked as verified     *)
(* names a record that KMS signed.                                         *)
MarkedIsSigned ==
  Readable /\ content[latest].verified =>
    records[content[latest].run].signature = "KMS_SIGNED"
=============================================================================
