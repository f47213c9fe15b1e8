------------------------------ MODULE LocalTrust ------------------------------
(***************************************************************************)
(* The local development identity of a project (local_trust.py): three     *)
(* files under .quantumd/local-trust/, written once by initialize and read *)
(* again by every signature and every authorization.                       *)
(*                                                                         *)
(* Each file is replaced by a rename, so it is absent or whole; the three  *)
(* are neither written nor read together, and nothing locks them.  A file  *)
(* is named by the key it holds, or speaks of.  An initialization makes a  *)
(* key of its own, so the key has the name of the process that made it.    *)
(*                                                                         *)
(* "stage" is what a process calls inspect, or the cache, for; it is the   *)
(* caller (Quickstart) that goes on where inspect returns, at "cached", or *)
(* at "raised".                                                            *)
(***************************************************************************)
EXTENDS PublicKeyCache

CONSTANTS
  Quickstarts, \* processes that initialize an identity; also the keys they make
  KmsKeys      \* key versions of Cloud KMS

VARIABLES
  identity,    \* private-key.pem, public-key.pem and trust.json: each a key or None
  stage        \* what each process is doing

identityVars == <<cached, active, pc, key, identity, stage>>

IdentityFiles == {"private", "public", "metadata"}
Writing       == {"write private", "write public", "write metadata"}
Inspecting    == {"inspecting", "read metadata", "read private"}

TypeOKIdentity ==
  /\ TypeOKCache
  /\ identity \in [IdentityFiles -> Quickstarts \cup {None}]

IdentityInit ==
  /\ CacheInit
  /\ identity = [f \in IdentityFiles |-> None]

-----------------------------------------------------------------------------
(* initialize.  The files are looked at one after the other in the order   *)
(* they are written in, and none is ever removed: what is found is what a  *)
(* look at the first of them would have found, or a reason to raise.       *)

(* Mutant of FindPartial: what is missing is made anew.                    *)
RepairPartial(p) ==
  /\ \E f, g \in IdentityFiles : identity[f] = None /\ identity[g] # None
  /\ Move(p, "looking", "write private")
  /\ key' = [key EXCEPT ![p] = p]
  /\ UNCHANGED <<cacheVars, identity, stage>>

(* "Local trust is partially configured; refusing to regenerate or replace *)
(* key material."                                                          *)
FindPartial(p) ==
  /\ \E f, g \in IdentityFiles : identity[f] = None /\ identity[g] # None
  /\ Move(p, "looking", "raised")
  /\ UNCHANGED <<cacheVars, key, identity, stage>>

FindIdentity(p) ==
  /\ \A f \in IdentityFiles : identity[f] # None
  /\ Move(p, "looking", "inspecting")
  /\ stage' = [stage EXCEPT ![p] = "admit"]
  /\ UNCHANGED <<cacheVars, key, identity>>

(* A key is generated for the files that are not there ...                 *)
FindNothing(p) ==
  /\ \A f \in IdentityFiles : identity[f] = None
  /\ Move(p, "looking", "write private")
  /\ key' = [key EXCEPT ![p] = p]
  /\ UNCHANGED <<cacheVars, identity, stage>>

(* ... and written whether or not they are there by now.                   *)
WriteIdentity(p, f, from, to) ==
  /\ Move(p, from, to)
  /\ identity' = [identity EXCEPT ![f] = key[p]]
  /\ UNCHANGED <<cacheVars, key, stage>>

WritePrivate(p)  == WriteIdentity(p, "private", "write private", "write public")
WritePublic(p)   == WriteIdentity(p, "public", "write public", "write metadata")
WriteMetadata(p) == WriteIdentity(p, "metadata", "write metadata", "public-key.pem")

(* The key is in the cache: initialize inspects what it wrote.             *)
InspectOwn(p) ==
  /\ stage[p] = "create"
  /\ Move(p, "cached", "inspecting")
  /\ stage' = [stage EXCEPT ![p] = "admit"]
  /\ UNCHANGED <<cacheVars, key, identity>>

-----------------------------------------------------------------------------
(* inspect: metadata, private key and public key, read in this order, are  *)
(* of one key; it is cached, and returned.                                 *)
ReadMetadata(p) ==
  /\ Move(p, "inspecting", "read metadata")
  /\ key' = [key EXCEPT ![p] = identity["metadata"]]
  /\ UNCHANGED <<cacheVars, identity, stage>>

(* Mutant of ReadPrivate: the private key is not compared with the others. *)
ReadAnyPrivate(p) ==
  /\ Move(p, "read metadata", "read private")
  /\ UNCHANGED <<cacheVars, key, identity, stage>>

ReadPrivate(p) ==
  /\ Move(p, "read metadata", "read private")
  /\ identity["private"] = key[p]
  /\ UNCHANGED <<cacheVars, key, identity, stage>>

ReadPublic(p) ==
  /\ Move(p, "read private", "public-key.pem")
  /\ identity["public"] = key[p]
  /\ UNCHANGED <<cacheVars, key, identity, stage>>

(* Another key: "Local public key does not match private key", "Local      *)
(* public-key hash mismatch", "Local key-version mismatch".                *)
RejectIdentity(p) ==
  /\ \/ pc[p] = "read metadata" /\ identity["private"] # key[p]
     \/ pc[p] = "read private" /\ identity["public"] # key[p]
  /\ pc' = [pc EXCEPT ![p] = "raised"]
  /\ UNCHANGED <<cacheVars, key, identity, stage>>

Initialize(p) ==
  \/ FindPartial(p) \/ FindIdentity(p) \/ FindNothing(p)
  \/ WritePrivate(p) \/ WritePublic(p) \/ WriteMetadata(p) \/ InspectOwn(p)

Inspect(p) ==
  ReadMetadata(p) \/ ReadPrivate(p) \/ ReadPublic(p) \/ RejectIdentity(p)

-----------------------------------------------------------------------------
(* sign_digest: the private key is read again, and the signature verified  *)
(* against that key's own public half; it is reported under the version    *)
(* that inspect returned.                                                  *)
SignDigest(p) == [names |-> key[p], by |-> identity["private"]]

(* AuthorizationEngine._verify_local: the record names the key inspect     *)
(* returned, and verifies under the public key, which is read again.       *)
VerifiesLocally(p, signature) ==
  /\ signature.names = key[p]
  /\ signature.by = identity["public"]

-----------------------------------------------------------------------------
(* Once there is key material and nobody is in the middle of making some,  *)
(* it is never replaced or completed by anyone: initialize refuses what is *)
(* partial, and adopts what is whole (local_trust.py, initialize; the doc  *)
(* says "rejected rather than silently repaired").                         *)
IdentityIsSettled ==
  [][/\ \E f \in IdentityFiles : identity[f] # None
     /\ \A p \in Processes : pc[p] \notin Writing
     => /\ UNCHANGED identity
        /\ \A p \in Processes : pc'[p] \notin Writing]_identityVars
=============================================================================
