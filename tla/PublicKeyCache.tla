---------------------------- MODULE PublicKeyCache ----------------------------
(***************************************************************************)
(* The cache of public keys under evidence/ (evidence/signing.py,          *)
(* cache_verified_public_key): whoever signs leaves there what an offline  *)
(* verifier needs.  Each key version has a directory of two write-once     *)
(* files; evidence/public-key.pem is a copy of the key used last.          *)
(*                                                                         *)
(* A write-once file is created O_EXCL and filled by a later step, so that *)
(* another process, or a later one after a crash, can find it "empty": the *)
(* word stands for every content that is not yet all of it.  The directory *)
(* is named by the key version and a key version has one public key, so    *)
(* there is no other way for the bytes to differ.                          *)
(*                                                                         *)
(* A process calls with pc at "public-key.pem" and key at the key version, *)
(* and returns at "cached", or at "raised".                                *)
(***************************************************************************)
EXTENDS Naturals

CONSTANTS
  Processes,  \* the processes that sign
  Keys,       \* key versions, each with its key pair
  None

VARIABLES
  cached,     \* keys/<key version>/: what each of its files holds
  active,     \* the key in evidence/public-key.pem, or None
  pc,         \* where each process is
  key         \* the key version it works with, or None

cacheVars == <<cached, active>>

Versioned == {"public-key.pem", "metadata.json"}

Filling(f) == IF f = "public-key.pem" THEN "filling key" ELSE "filling metadata"

(* Mutant of After: the root copy follows the key file at once.            *)
AfterKey(f) == "active"

After(f) == IF f = "public-key.pem" THEN "metadata.json" ELSE "active"

CacheSteps == Versioned \cup {"filling key", "filling metadata", "active", "replacing"}

Whole(k) == \A f \in Versioned : cached[k][f] = "full"

TypeOKCache ==
  /\ cached \in [Keys -> [Versioned -> {"absent", "empty", "full"}]]
  /\ active \in Keys \cup {None}
  /\ key \in [Processes -> Keys \cup {None}]

CacheInit ==
  /\ cached = [k \in Keys |-> [f \in Versioned |-> "absent"]]
  /\ active = None

Move(p, from, to) ==
  /\ pc[p] = from
  /\ pc' = [pc EXCEPT ![p] = to]

-----------------------------------------------------------------------------
(* _write_once_or_require_identical.                                       *)
CreateCached(p, f) ==
  /\ Move(p, f, Filling(f))
  /\ cached[key[p]][f] = "absent"
  /\ cached' = [cached EXCEPT ![key[p]][f] = "empty"]
  /\ UNCHANGED <<active, key>>

FillCached(p, f) ==
  /\ Move(p, Filling(f), After(f))
  /\ cached' = [cached EXCEPT ![key[p]][f] = "full"]
  /\ UNCHANGED <<active, key>>

(* Mutant of KeepCached: a file that is there is taken for the right one.  *)
KeepAnyCached(p, f) ==
  /\ Move(p, f, After(f))
  /\ cached[key[p]][f] # "absent"
  /\ UNCHANGED <<cacheVars, key>>

(* The file is there, and identical.                                       *)
KeepCached(p, f) ==
  /\ Move(p, f, After(f))
  /\ cached[key[p]][f] = "full"
  /\ UNCHANGED <<cacheVars, key>>

(* Mutant of RefuseCached: a signer waits until the file is complete.      *)
WaitForCached(p, f) ==
  /\ pc[p] = f
  /\ cached[key[p]][f] = "full"
  /\ UNCHANGED <<cacheVars, pc, key>>

(* "Refusing to replace cached public-key material with different bytes".  *)
RefuseCached(p, f) ==
  /\ Move(p, f, "raised")
  /\ cached[key[p]][f] = "empty"
  /\ UNCHANGED <<cacheVars, key>>

(* The root copy is compared, and replaced by a rename if it differs.      *)
KeepActive(p) ==
  /\ Move(p, "active", "cached")
  /\ active = key[p]
  /\ UNCHANGED <<cacheVars, key>>

MissActive(p) ==
  /\ Move(p, "active", "replacing")
  /\ active # key[p]
  /\ UNCHANGED <<cacheVars, key>>

ReplaceActive(p) ==
  /\ Move(p, "replacing", "cached")
  /\ active' = key[p]
  /\ UNCHANGED <<cached, key>>

(* A disk that is full, a permission that is missing: the call raises, and *)
(* leaves what it created as it is.                                        *)
FailCaching(p) ==
  /\ pc[p] \in CacheSteps
  /\ pc' = [pc EXCEPT ![p] = "raised"]
  /\ UNCHANGED <<cacheVars, key>>

CacheKey(p) ==
  \/ \E f \in Versioned :
       CreateCached(p, f) \/ FillCached(p, f) \/ KeepCached(p, f) \/ RefuseCached(p, f)
  \/ KeepActive(p) \/ MissActive(p) \/ ReplaceActive(p)
=============================================================================
