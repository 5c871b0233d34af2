--------------------------- MODULE BlobAccounting ---------------------------
(***************************************************************************)
(* The encrypted blobs of a space in one of its two stores, and the rows   *)
(* that account for them (apps/worker/src/blobs.ts, routes/files.ts).      *)
(* The store is chosen at the start: "files" for message files, whose rows *)
(* go before their blobs, "vault" for items, whose blobs go first under a  *)
(* row reserved for deletion.  R2 and D1 are two systems: every await between  *)
(* them is a step.  The client uploads the same ciphertext on every        *)
(* attempt, so a key has one size and a row is only there, fresh, old or   *)
(* reserved.                                                               *)
(***************************************************************************)
EXTENDS Naturals, FiniteSets, FiniteSetsExt

CONSTANTS
  Keys,        \* blob keys
  Size,        \* bytes of each blob
  Quota,       \* the cap of the store
  Stores,      \* the stores looked at
  MaxUploads,  \* attempts to upload one key
  MaxFailures  \* bound on transfers and bucket deletions that fail

ASSUME BlobAssumption ==
  /\ Size \in [Keys -> Nat \ {0}] /\ Quota \in Nat
  /\ Stores \subseteq {"files", "vault"} /\ MaxUploads \in Nat /\ MaxFailures \in Nat

VARIABLES
  store,     \* one of Stores, for good
  row,       \* uploads or vault_blobs: "none", "fresh", "old" (past the orphan TTL), "reserved"
  object,    \* the keys R2 holds an object for
  expiring,  \* those whose deletion failed, left to the bucket's lifecycle rule
  claimed,   \* the keys a message or a live vault item owns
  puts,      \* uploads executing: reserved and writing, or written
  claims,    \* saves executing between their check and their insert
  dels,      \* deletions executing: to reserve, to delete the object, to forget the row
  client,    \* what the device saving a key last heard
  tries,     \* upload attempts per key
  failures,  \* failures so far
  raced      \* history: the vault keys of which an upload and a deletion executed together

vars == <<store, row, object, expiring, claimed, puts, claims, dels, client, tries, failures, raced>>

-----------------------------------------------------------------------------
Counted == {k \in Keys : row[k] # "none"}
Expires == store = "files"   \* the bucket has a lifecycle rule
Bytes(S) == MapThenSumSet(LAMBDA k : Size[k], S)

Init ==
  /\ store \in Stores
  /\ row = [k \in Keys |-> "none"] /\ object = {} /\ expiring = {} /\ claimed = {}
  /\ puts = {} /\ claims = {} /\ dels = {}
  /\ client = [k \in Keys |-> "idle"]
  /\ tries = [k \in Keys |-> 0] /\ failures = 0 /\ raced = {}

-----------------------------------------------------------------------------
(***************************************************************************)
(* receiveBlob.                                                            *)
(***************************************************************************)
\* Mutant: a key already counted is not counted again.
AdmittedIfKnown(k) ==
  /\ Counted # {} => row[k] # "none" \/ Bytes(Counted) < Quota
  /\ row[k] # "reserved"

\* reserveBlob: one statement checks the quota and counts the blob.
Admitted(k) == Bytes(Counted \cup {k}) <= Quota /\ row[k] # "reserved"

\* An attempt: the first, a retry of one whose answer was lost or was a 500, or for a
\* message another flush of the outbox.  A vault key is minted for one save, whose
\* request is retried all the same.
Starting(k) ==
  \/ client[k] = "uploading"
  \/ client[k] = "idle" /\ tries[k] = 0
  \/ Expires /\ client[k] \in {"idle", "posted"}

\* "Deleting the blob before its row races no write": a deletion of a vault key that has
\* reserved its row, and an upload of that key.
Reserved(k) == ~Expires /\ \E x \in dels : x.key = k /\ x.stage # "reserve"
Writing(k)  == \E p \in puts : p.key = k

Upload(k) ==
  /\ tries[k] < MaxUploads /\ Starting(k)
  /\ tries' = [tries EXCEPT ![k] = @ + 1]
  /\ IF Admitted(k)
     THEN /\ row' = [row EXCEPT ![k] = "fresh"]
          /\ puts' = puts \cup {[key |-> k, n |-> tries'[k], stage |-> "writing"]}
          /\ client' = [client EXCEPT ![k] = "uploading"]
          /\ raced' = IF Reserved(k) THEN raced \cup {k} ELSE raced
     ELSE client' = [client EXCEPT ![k] = "idle"] /\ UNCHANGED <<row, puts, raced>>
  /\ UNCHANGED <<store, object, expiring, claimed, claims, dels, failures>>

PutDone(p) ==
  /\ p \in puts /\ p.stage = "writing"
  /\ puts' = (puts \ {p}) \cup {[p EXCEPT !.stage = "written"]}
  /\ object' = object \cup {p.key} /\ expiring' = expiring \ {p.key}
  /\ UNCHANGED <<store, row, claimed, claims, dels, client, tries, failures, raced>>

Answered(p, outcome) ==
  client' = IF client[p.key] = "uploading" /\ p.n = tries[p.key]
            THEN [client EXCEPT ![p.key] = outcome] ELSE client

Deletion(k, why, stage) == [key |-> k, why |-> why, stage |-> stage]

\* discardUpload: the transfer broke off.  A body that does not match is a 400, for good;
\* an error of the bucket is a 500, retried while the client has attempts left.
PutFails(p) ==
  /\ p \in puts /\ p.stage = "writing" /\ failures < MaxFailures
  /\ failures' = failures + 1
  /\ puts' = puts \ {p}
  /\ row' = IF Expires THEN [row EXCEPT ![p.key] = "none"] ELSE row
  /\ dels' = dels \cup {Deletion(p.key, "discard", IF Expires THEN "object" ELSE "reserve")}
  /\ \E heard \in {"idle", "uploading"} : Answered(p, heard)
  /\ UNCHANGED <<store, object, expiring, claimed, claims, tries, raced>>

\* Mutant: the row is not recorded again.
RecordsNothing(p) ==
  /\ p \in puts /\ p.stage = "written"
  /\ puts' = puts \ {p}
  /\ Answered(p, "uploaded")
  /\ UNCHANGED <<store, row, object, expiring, claimed, claims, dels, tries, failures, raced>>

\* recordBlob: count the blob whatever happened to its row meanwhile, unless the
\* row is reserved.  No quota check.
Record(p) ==
  /\ p \in puts /\ p.stage = "written"
  /\ puts' = puts \ {p}
  /\ row' = IF row[p.key] = "reserved" THEN row ELSE [row EXCEPT ![p.key] = "fresh"]
  /\ Answered(p, "uploaded")
  /\ UNCHANGED <<store, object, expiring, claimed, claims, dels, tries, failures, raced>>

-----------------------------------------------------------------------------
(***************************************************************************)
(* What owns a blob: sendMessage's HEAD and insert, createVaultItem and    *)
(* updateVaultItem's requireFreeBlob and guarded write.                    *)
(***************************************************************************)
Present(k) == IF Expires THEN k \in object ELSE row[k] # "none"

ClaimCheck(k) ==
  /\ client[k] = "uploaded"
  /\ client' = [client EXCEPT ![k] = IF k \in claimed \/ Present(k) THEN "posted" ELSE "idle"]
  /\ claims' = IF k \notin claimed /\ Present(k) THEN claims \cup {k} ELSE claims
  /\ UNCHANGED <<store, row, object, expiring, claimed, puts, dels, tries, failures, raced>>

\* Mutant: the vault insert trusts the check made before it.
Trusting(k) == TRUE

\* BLOB_CLAIMABLE, in the statement that claims.  A message has no such guard.
Claimable(k) == Expires \/ row[k] \notin {"none", "reserved"}

ClaimInsert(k) ==
  /\ k \in claims
  /\ claims' = claims \ {k}
  /\ claimed' = IF Claimable(k) THEN claimed \cup {k} ELSE claimed
  /\ UNCHANGED <<store, row, object, expiring, puts, dels, client, tries, failures, raced>>

\* A message is delivered or deleted, an item purged or given new content.
Release(k) ==
  /\ k \in claimed
  /\ claimed' = claimed \ {k}
  /\ row' = IF Expires THEN [row EXCEPT ![k] = "none"] ELSE row
  /\ dels' = dels \cup {Deletion(k, "release", IF Expires THEN "object" ELSE "reserve")}
  /\ UNCHANGED <<store, object, expiring, puts, claims, client, tries, failures, raced>>

-----------------------------------------------------------------------------
(***************************************************************************)
(* Deletions.                                                              *)
(***************************************************************************)
\* Mutant: whether anything claims the blob was decided earlier.
ReservesAnyway(x) ==
  /\ x \in dels /\ x.stage = "reserve"
  /\ IF row[x.key] # "none"
     THEN /\ row' = [row EXCEPT ![x.key] = "reserved"]
          /\ dels' = (dels \ {x}) \cup {[x EXCEPT !.stage = "object"]}
          /\ raced' = IF Writing(x.key) THEN raced \cup {x.key} ELSE raced
     ELSE dels' = dels \ {x} /\ UNCHANGED <<row, raced>>
  /\ UNCHANGED <<store, object, expiring, claimed, puts, claims, client, tries, failures>>

\* deleteUnclaimedBlobs: reserved only while nothing claims the blob.
ReserveForDeletion(x) ==
  /\ x \in dels /\ x.stage = "reserve"
  /\ IF row[x.key] # "none" /\ x.key \notin claimed
     THEN /\ row' = [row EXCEPT ![x.key] = "reserved"]
          /\ dels' = (dels \ {x}) \cup {[x EXCEPT !.stage = "object"]}
          /\ raced' = IF Writing(x.key) THEN raced \cup {x.key} ELSE raced
     ELSE dels' = dels \ {x} /\ UNCHANGED <<row, raced>>
  /\ UNCHANGED <<store, object, expiring, claimed, puts, claims, client, tries, failures>>

DeleteObject(x) ==
  /\ x \in dels /\ x.stage = "object"
  /\ object' = object \ {x.key} /\ expiring' = expiring \ {x.key}
  /\ dels' = (dels \ {x}) \cup (IF Expires THEN {} ELSE {[x EXCEPT !.stage = "row"]})
  /\ UNCHANGED <<store, row, claimed, puts, claims, client, tries, failures, raced>>

\* Mutant: the row is dropped although the object could not be.
ForgetsAnyway(x) ==
  /\ x \in dels /\ x.stage = "object" /\ failures < MaxFailures
  /\ failures' = failures + 1
  /\ dels' = dels \ {x}
  /\ row' = [row EXCEPT ![x.key] = "none"]
  /\ UNCHANGED <<store, object, expiring, claimed, puts, claims, client, tries, raced>>

\* The bucket refuses: a row stays reserved, an expiring object is left to expire.
DeleteFails(x) ==
  /\ x \in dels /\ x.stage = "object" /\ failures < MaxFailures
  /\ failures' = failures + 1
  /\ dels' = dels \ {x}
  /\ expiring' = IF Expires THEN expiring \cup ({x.key} \cap object) ELSE expiring
  /\ UNCHANGED <<store, row, object, claimed, puts, claims, client, tries, raced>>

\* The lifecycle rule of the bucket.
Expire(k) ==
  /\ k \in expiring
  /\ expiring' = expiring \ {k} /\ object' = object \ {k}
  /\ UNCHANGED <<store, row, claimed, puts, claims, dels, client, tries, failures, raced>>

ForgetRow(x) ==
  /\ x \in dels /\ x.stage = "row"
  /\ dels' = dels \ {x}
  /\ row' = IF row[x.key] = "reserved" THEN [row EXCEPT ![x.key] = "none"] ELSE row
  /\ UNCHANGED <<store, object, expiring, claimed, puts, claims, client, tries, failures, raced>>

Sweeping(k) == \E x \in dels : x.key = k /\ x.why = "sweep"

\* Mutant: a failed deletion is not found again.
SweepsOldOnly(k) ==
  /\ row[k] = "old" /\ k \notin claimed /\ ~Sweeping(k)
  /\ row' = IF Expires THEN [row EXCEPT ![k] = "none"] ELSE row
  /\ dels' = dels \cup {Deletion(k, "sweep", IF Expires THEN "object" ELSE "reserve")}
  /\ UNCHANGED <<store, object, expiring, claimed, puts, claims, client, tries, failures, raced>>

\* purgeOrphanBlobs, in a cron that has finished its previous pass.
Sweep(k) ==
  /\ row[k] \in {"old", "reserved"} /\ k \notin claimed /\ ~Sweeping(k)
  /\ row' = IF Expires THEN [row EXCEPT ![k] = "none"] ELSE row
  /\ dels' = dels \cup {Deletion(k, "sweep", IF Expires THEN "object" ELSE "reserve")}
  /\ UNCHANGED <<store, object, expiring, claimed, puts, claims, client, tries, failures, raced>>

\* An hour passes; no transfer and no save takes that long.
Age(k) ==
  /\ row[k] = "fresh" /\ k \notin claims /\ ~\E p \in puts : p.key = k
  /\ row' = [row EXCEPT ![k] = "old"]
  /\ UNCHANGED <<store, object, expiring, claimed, puts, claims, dels, client, tries, failures, raced>>

-----------------------------------------------------------------------------
Receiving(p) == PutDone(p) \/ Record(p)
Deleting(x)  == ReserveForDeletion(x) \/ DeleteObject(x) \/ ForgetRow(x)
Cleaning(k)  == Age(k) \/ Sweep(k) \/ Expire(k)

Next ==
  \/ \E k \in Keys : Upload(k) \/ ClaimCheck(k) \/ ClaimInsert(k) \/ Release(k) \/ Cleaning(k)
  \/ \E p \in puts : Receiving(p) \/ PutFails(p)
  \/ \E x \in dels : Deleting(x) \/ DeleteFails(x)

Spec == Init /\ [][Next]_vars

\* The Worker finishes what it executes and its cron runs.  Devices and users owe
\* nothing.
FairSpec ==
  /\ Spec
  /\ WF_vars(\E p \in puts : Receiving(p)) /\ WF_vars(\E x \in dels : Deleting(x))
  /\ \A k \in Keys : WF_vars(Cleaning(k)) /\ WF_vars(ClaimInsert(k))

-----------------------------------------------------------------------------
(***************************************************************************)
(* Properties.                                                             *)
(***************************************************************************)
Quiet(k) == (\A p \in puts : p.key # k) /\ (\A x \in dels : x.key # k)

\* What a message or an item owns is there to be downloaded: a save racing the
\* cleanup fails instead of claiming content about to vanish.
ClaimedHasObject == claimed \subseteq object

\* "An object is never left in R2 without its row", once the uploads and the
\* deletions of its key are over (unless the lifecycle rule is to expire it).
ObjectsHaveRows ==
  \A k \in object : Quiet(k) /\ k \notin expiring => row[k] # "none"

\* It holds of message files, however their attempts overlap, and in the vault of every
\* key whose deletion raced no write.
ObjectHasRow ==
  \A k \in object \ raced : Quiet(k) /\ k \notin expiring => row[k] # "none"

\* The row of an owned blob is neither swept nor uncounted.
ClaimedIsCounted == \A k \in claimed : row[k] \in {"fresh", "old"}

\* A message checks its file before it is inserted, and no more.  A vault item claims its
\* content with the guard BLOB_CLAIMABLE in the statement that does: its content is always
\* counted, and is there unless a deletion of the key raced a write.
VaultClaimsHold == ~Expires => claimed \ raced \subseteq object /\ ClaimedIsCounted

\* "Each space may hold at most 2 GiB of uploaded blobs at once": what R2 holds,
\* counted or not.  A message file loses its row before its bytes, so its store
\* is only judged when no deletion is under way.
QuotaHeld ==
  (Expires => dels = {}) => Bytes(object \ expiring) <= Quota

\* The vault's cap, at every moment, whatever is uploaded, deleted and admitted meanwhile,
\* for the keys whose deletion raced no write.
VaultQuotaHeld == ~Expires => Bytes(object \ raced) <= Quota

\* An upload nothing claims leaves R2, and the quota with it, even when a bucket
\* deletion failed; in the vault, unless its deletion raced a write.
Reclaimed ==
  \A k \in Keys : []<>(k \in claimed \cup raced \/ (k \notin object /\ row[k] = "none"))
=============================================================================
