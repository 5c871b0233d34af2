----------------------------- MODULE VaultServer -----------------------------
(***************************************************************************)
(* The vault on the Worker (apps/worker/src/routes/vault.ts, vault.ts): a  *)
(* tree of folders, notes and files that several devices change at once,   *)
(* and a cron that purges what has been in the trash too long.             *)
(*                                                                         *)
(* A handler is one step up to its write, which works from what that step  *)
(* read, and one step per D1 batch.  A request starts from the row its     *)
(* device has on screen.  Time is abstracted: when a cron run starts, it   *)
(* may find any of the trashed items and of the tombstones past their TTL. *)
(*                                                                         *)
(* An edit is named after the request that made it.  The metadata of an    *)
(* item is the set of edits it includes and the content it carries the key *)
(* to; sealing a row again keeps both.                                     *)
(***************************************************************************)
EXTENDS Naturals, FiniteSets

CONSTANTS
  Items,       \* item ids
  Folders,     \* the items that are folders; the others have content
  Nil,         \* parent_id NULL, and no id
  Writers,     \* requests that may be in progress at once
  Cron,        \* the scheduled cleanup
  Parents,     \* the tree at the start: a function from the items in it
  Trashed,     \* the items in the trash at the start
  Requests,    \* what devices ask for in this instance
  PurgeBatch,  \* PURGE_BATCH_SIZE
  MaxItems,    \* VAULT_MAX_ITEMS
  MaxEpoch,    \* bound on key rotations
  MaxSeq,      \* bound on changes: only re-seals start once the counter is there
  MaxNumber,   \* bound on the counter, which no behaviour of an instance reaches
  MaxFaults    \* bound on lost answers and on handlers that die half-way

ASSUME VaultAssumption ==
  /\ Folders \subseteq Items /\ Nil \notin Items /\ Cron \notin Writers /\ Nil \notin Writers
  /\ IsFiniteSet(Items)
  /\ DOMAIN Parents \subseteq Items /\ Trashed \subseteq DOMAIN Parents
  /\ \A i \in DOMAIN Parents : Parents[i] \in (Folders \cap DOMAIN Parents) \cup {Nil}
  /\ \A S \in SUBSET DOMAIN Parents : S # {} => \E i \in S : Parents[i] \notin S  \* a tree
  /\ Requests \subseteq {"create", "rename", "edit", "trash", "restore", "restoreToRoot", "move",
                      "delete", "reseal"}
  /\ PurgeBatch \in Nat \ {0} /\ MaxItems \in Nat /\ MaxFaults \in Nat
  /\ MaxEpoch \in Nat \ {0} /\ MaxSeq \in Nat /\ MaxNumber \in Nat

VARIABLES
  vaultSeq,    \* groups.vault_seq
  vaultFloor,  \* groups.vault_floor
  groupEpoch,  \* groups.key_epoch
  rows,        \* vault_items
  expired,     \* trashed items and tombstones past their TTL for the running cron
  call,        \* what each request, and the cron, is doing; "stored" is VaultSync's
  faults       \* faults so far

server == <<vaultSeq, vaultFloor, groupEpoch, rows, expired>>
serverVars == <<server, call, faults>>

-----------------------------------------------------------------------------
States == {"absent", "live", "gone", "forgotten"}  \* no row, live, tombstone, deleted row
Actors == Writers \cup {Cron}

NoRow == [state |-> "absent", parent |-> Nil, revision |-> 0, seq |-> 0, epoch |-> 0,
          edits |-> {}, opens |-> Nil, blob |-> Nil, trashed |-> FALSE]

NoCall == [op |-> "none", stage |-> "idle", id |-> Nil, to |-> Nil, epoch |-> 0,
           saw |-> [i \in {} |-> NoRow], row |-> NoRow, todo |-> {}, purged |-> {}]

Live == {i \in Items : rows[i].state = "live"}
Kept == {i \in Items : rows[i].state \in {"live", "gone"}}  \* the rows that exist

\* SUBTREE: an item and every row under it, tombstones included.
Subtree(id) ==
  LET within[n \in 0..Cardinality(Items)] ==
        IF n = 0 THEN {id}
        ELSE within[n - 1] \cup {i \in Kept : rows[i].parent \in within[n - 1]}
  IN  within[Cardinality(Items)]

LiveFolder(id) == id \in Folders \cap Live

\* The statements of a batch, in some order: nextVaultSeq gives each a number of its own.
Numbering(S) == CHOOSE f \in [S -> 1..Cardinality(S)] : \A i, j \in S : i # j => f[i] # f[j]

\* Mutant: the counter is read but not raised.
NumbersNothing(n) == UNCHANGED vaultSeq

\* nextVaultSeq, before each of the n statements of a batch.
NextVaultSeq(n) == vaultSeq + n <= MaxNumber /\ vaultSeq' = vaultSeq + n

Seals   == {"rename", "edit"}                       \* the changes that carry new metadata
Trashes == {"trash", "restore", "restoreToRoot"}    \* the changes with trashed
Moves   == {"move", "restoreToRoot"}                \* the changes with a parentId
Updates == Seals \cup Trashes \cup Moves

Becomes(p, c) == call' = [call EXCEPT ![p] = c]
At(p, op, stage) == call[p].op = op /\ call[p].stage = stage
Goes(p, stage) == Becomes(p, [call[p] EXCEPT !.stage = stage])
Answers(p, row) == Becomes(p, [call[p] EXCEPT !.stage = "ok", !.row = row])

Init ==
  /\ vaultSeq = Cardinality(DOMAIN Parents) /\ vaultFloor = 0 /\ groupEpoch = 1
  /\ rows = [i \in Items |->
       IF i \in DOMAIN Parents
       THEN [state |-> "live", parent |-> Parents[i], revision |-> 1,
             seq |-> Numbering(DOMAIN Parents)[i], epoch |-> 1, edits |-> {},
             opens |-> Nil, blob |-> Nil, trashed |-> i \in Trashed]
       ELSE NoRow]
  /\ expired = {}
  /\ call = [p \in Actors |-> NoCall]
  /\ faults = 0

-----------------------------------------------------------------------------
(***************************************************************************)
(* createVaultItem.  The content of a new item is that of its creation.    *)
(***************************************************************************)
NewRow(c, seq) ==
  [state |-> "live", parent |-> c.to, revision |-> 1, seq |-> seq, epoch |-> c.epoch,
   edits |-> {}, opens |-> Nil, blob |-> Nil, trashed |-> FALSE]

\* The same id with the same metadata is this request again.
CreateCheck(w) ==
  LET c == call[w] IN
  /\ At(w, "create", "sent")
  /\ IF c.epoch # groupEpoch THEN Goes(w, "key_rotated")
     ELSE IF c.id \in Live
     THEN IF rows[c.id].edits = {} /\ rows[c.id].epoch = c.epoch
          THEN Answers(w, rows[c.id])
          ELSE Goes(w, "conflict")
     ELSE IF c.to # Nil /\ ~LiveFolder(c.to) THEN Goes(w, "not_found")
     ELSE Goes(w, "checked")
  /\ UNCHANGED <<server, faults>>

\* Mutant: the folder is only checked before the insert.
CreatesAnywhere(c) == Cardinality(Live) < MaxItems /\ c.id \notin Kept

CreateLands(c) ==
  /\ Cardinality(Live) < MaxItems
  /\ c.to # Nil => LiveFolder(c.to)
  /\ c.id \notin Kept

CreateWrite(w) ==
  LET c   == call[w]
      row == NewRow(c, vaultSeq + 1)
  IN /\ At(w, "create", "checked")
     /\ NextVaultSeq(1)
     /\ IF CreateLands(c)
        THEN rows' = [rows EXCEPT ![c.id] = row] /\ Answers(w, row)
        ELSE UNCHANGED rows /\ Goes(w, "conflict")
     /\ UNCHANGED <<vaultFloor, groupEpoch, expired, faults>>

-----------------------------------------------------------------------------
(***************************************************************************)
(* updateVaultItem: rename, edit, move, trash or restore.                  *)
(***************************************************************************)
Changed(w, op, row, c, seq) ==
  [state    |-> row.state,
   parent   |-> IF op \in Moves THEN c.to ELSE row.parent,
   revision |-> row.revision + 1,
   seq      |-> seq,
   epoch    |-> IF op \in Seals THEN c.epoch ELSE row.epoch,
   edits    |-> IF op \in Seals THEN c.saw[c.id].edits \cup {w} ELSE row.edits,
   opens    |-> IF op = "edit" THEN w ELSE IF op = "rename" THEN c.saw[c.id].opens ELSE row.opens,
   blob     |-> IF op = "edit" THEN w ELSE row.blob,
   trashed  |-> IF op \in Trashes THEN op = "trash" ELSE row.trashed]

\* The parent changes, and to a folder.
Nests(op, c) == op \in Moves /\ c.to # rows[c.id].parent /\ c.to # Nil

UpdateCheck(w, op) ==
  LET c == call[w] IN
  /\ At(w, op, "sent")
  /\ IF c.id \notin Live THEN Goes(w, "not_found")
     ELSE IF rows[c.id].revision # c.saw[c.id].revision THEN Goes(w, "conflict")
     ELSE IF Nests(op, c) /\ ~LiveFolder(c.to) THEN Goes(w, "not_found")
     ELSE IF op \in Seals /\ c.epoch # groupEpoch THEN Goes(w, "key_rotated")
     ELSE Goes(w, "checked")
  /\ UNCHANGED <<server, faults>>

\* Mutant: the new parent is checked before the write and not in it.
LandsInside(op, c) ==
  /\ c.id \in Live
  /\ rows[c.id].revision = c.saw[c.id].revision
  /\ Nests(op, c) => LiveFolder(c.to)

\* Mutant: the revision is only checked before the write.
LandsOverOthers(op, c) ==
  /\ c.id \in Live
  /\ Nests(op, c) => LiveFolder(c.to) /\ c.to \notin Subtree(c.id)

\* The guards of the UPDATE.
UpdateLands(op, c) ==
  /\ c.id \in Live
  /\ rows[c.id].revision = c.saw[c.id].revision
  /\ Nests(op, c) => LiveFolder(c.to) /\ c.to \notin Subtree(c.id)

UpdateWrite(w, op) ==
  LET c   == call[w]
      row == Changed(w, op, rows[c.id], c, vaultSeq + 1)
  IN /\ At(w, op, "checked")
     /\ NextVaultSeq(1)
     /\ IF UpdateLands(op, c)
        THEN /\ rows' = [rows EXCEPT ![c.id] = row]
             /\ expired' = IF row.trashed THEN expired ELSE expired \ {c.id}
             /\ Answers(w, row)
        ELSE UNCHANGED <<rows, expired>> /\ Goes(w, "conflict")
     /\ UNCHANGED <<vaultFloor, groupEpoch, faults>>

-----------------------------------------------------------------------------
(***************************************************************************)
(* resealVaultItems: one batch, one statement per item.                    *)
(***************************************************************************)
ResealCheck(w) ==
  /\ At(w, "reseal", "sent")
  /\ Goes(w, IF call[w].epoch = groupEpoch THEN "checked" ELSE "key_rotated")
  /\ UNCHANGED <<server, faults>>

\* Mutant: the re-seal does not ask for the revision it read.
ResealsEdited(c, i) == i \in Live /\ rows[i].epoch < c.epoch

\* Mutant: an item one epoch behind is not behind.
ResealsOlder(c, i) ==
  /\ i \in Live
  /\ rows[i].revision = c.saw[i].revision
  /\ rows[i].epoch < c.epoch - 1

Resealable(c, i) ==
  /\ i \in Live
  /\ rows[i].revision = c.saw[i].revision
  /\ rows[i].epoch < c.epoch

ResealBatch(w) ==
  LET c == call[w]
      S == DOMAIN c.saw
  IN /\ At(w, "reseal", "checked")
     /\ NextVaultSeq(Cardinality(S))
     /\ rows' = [i \in Items |->
          IF i \in S /\ Resealable(c, i)
          THEN [rows[i] EXCEPT !.epoch = c.epoch, !.seq = vaultSeq + Numbering(S)[i],
                               !.edits = c.saw[i].edits, !.opens = c.saw[i].opens]
          ELSE rows[i]]
     /\ Goes(w, "ok")
     /\ UNCHANGED <<vaultFloor, groupEpoch, expired, faults>>

-----------------------------------------------------------------------------
(***************************************************************************)
(* deleteVaultItem and purgeVaultItem: the walk repeats until it finds     *)
(* nothing alive.                                                          *)
(***************************************************************************)
Tombstone(row, seq) ==
  [state |-> "gone", parent |-> row.parent, revision |-> row.revision, seq |-> seq, epoch |-> 0,
   edits |-> {}, opens |-> Nil, blob |-> Nil, trashed |-> FALSE]

Purging(p) == call[p].op = "delete" /\ call[p].stage \in {"walk", "batch"}

DeleteCheck(w) ==
  /\ At(w, "delete", "sent")
  /\ Goes(w, IF call[w].id \in Live THEN "walk" ELSE "not_found")
  /\ UNCHANGED <<server, faults>>

PurgeWalk(p) ==
  LET alive == Subtree(call[p].id) \cap Live IN
  /\ At(p, "delete", "walk")
  /\ IF alive = {} THEN Goes(p, "ok")
     ELSE Becomes(p, [call[p] EXCEPT !.stage = "batch", !.todo = alive])
  /\ UNCHANGED <<server, faults>>

\* Mutant: what the walk found goes, wherever it is by now.
DoneAsWalked(c, S) == S \cap Live

\* The rows of a batch that are still inside the item.
Done(c, S) == S \cap Live \cap Subtree(c.id)

PurgeWrite(p) ==
  LET c == call[p] IN
  /\ At(p, "delete", "batch")
  /\ \E S \in SUBSET c.todo :
       LET done == Done(c, S) IN
       /\ Cardinality(S) = PurgeBatch \/ (S = c.todo /\ Cardinality(S) < PurgeBatch)
       /\ NextVaultSeq(Cardinality(S))
       /\ rows' = [i \in Items |->
            IF i \in done THEN Tombstone(rows[i], vaultSeq + Numbering(S)[i]) ELSE rows[i]]
       /\ expired' = expired \ done
       /\ Becomes(p, [c EXCEPT !.todo = @ \ S, !.purged = @ \cup done,
                               !.stage = IF S = c.todo THEN "walk" ELSE "batch"])
  /\ UNCHANGED <<vaultFloor, groupEpoch, faults>>

-----------------------------------------------------------------------------
(***************************************************************************)
(* cleanUpVault.  S is what has passed its TTL.  Tombstones are kept for   *)
(* 90 days: none of an item that a request still in progress is about.     *)
(***************************************************************************)
Overdue == {i \in expired : rows[i].state = "live"}
InUse(w) == {call[w].id} \cup DOMAIN call[w].saw \cup call[w].purged

CronStarts(S) ==
  /\ call[Cron].stage = "idle"
  /\ S # {} /\ Overdue \subseteq S
  /\ S \subseteq {i \in Kept : rows[i].state = "gone" \/ rows[i].trashed}
  /\ \A w \in Writers : S \cap InUse(w) \subseteq Live
  /\ expired' = S
  /\ Becomes(Cron, [NoCall EXCEPT !.op = "clean", !.stage = "choose"])
  /\ UNCHANGED <<vaultSeq, vaultFloor, groupEpoch, rows, faults>>

\* purgeExpiredVaultItem: read the item that is to go,
CronChooses(i) ==
  /\ At(Cron, "clean", "choose")
  /\ i \in Overdue
  /\ Becomes(Cron, [call[Cron] EXCEPT !.stage = "claim", !.id = i, !.saw = [j \in {i} |-> rows[i]]])
  /\ UNCHANGED <<server, faults>>

\* Mutant: the content is compared with = and not with IS, which NULL never passes.
ClaimableWithContent(c) ==
  /\ c.id \in Overdue
  /\ rows[c.id].blob = c.saw[c.id].blob /\ rows[c.id].blob # Nil

ClaimableStill(c) == c.id \in Overdue /\ rows[c.id].blob = c.saw[c.id].blob

\* claim it if it is still in the trash with that content,
CronClaims ==
  LET c == call[Cron] IN
  /\ At(Cron, "clean", "claim")
  /\ NextVaultSeq(1)
  /\ IF ClaimableStill(c)
     THEN /\ rows' = [rows EXCEPT ![c.id] = Tombstone(@, vaultSeq + 1)]
          /\ expired' = expired \ {c.id}
          /\ Becomes(Cron, [NoCall EXCEPT !.op = "delete", !.stage = "walk", !.id = c.id])
     ELSE /\ UNCHANGED <<rows, expired>>
          /\ Becomes(Cron, [NoCall EXCEPT !.op = "clean", !.stage = "choose"])
  /\ UNCHANGED <<vaultFloor, groupEpoch, faults>>

\* and purge what is in it; then the next.
CronGoesOn ==
  /\ At(Cron, "delete", "ok")
  /\ Becomes(Cron, [NoCall EXCEPT !.op = "clean", !.stage = "choose"])
  /\ UNCHANGED <<server, faults>>

\* Forget the tombstones that are old enough, raising the floor in the same batch.
\* The number of a forgotten row is kept as history; nothing reads it.
CronForgets ==
  LET old  == {i \in expired : rows[i].state = "gone"}
      tops == {rows[i].seq : i \in old} \cup {vaultFloor}
  IN /\ At(Cron, "clean", "choose") /\ Overdue = {}
     /\ vaultFloor' \in tops /\ \A n \in tops : n <= vaultFloor'
     /\ rows' = [i \in Items |-> IF i \in old THEN [NoRow EXCEPT !.state = "forgotten", !.seq = rows[i].seq] ELSE rows[i]]
     /\ expired' = {}
     /\ Becomes(Cron, NoCall)
     /\ UNCHANGED <<vaultSeq, groupEpoch, faults>>

-----------------------------------------------------------------------------
(***************************************************************************)
(* Devices, as far as the Worker can tell: a request is about the row its  *)
(* device has on screen when it starts.                                    *)
(***************************************************************************)
Send(w, op, id, to, saw) ==
  /\ call[w] = NoCall /\ op \in Requests
  /\ vaultSeq < MaxSeq \/ op = "reseal"
  /\ Becomes(w, [NoCall EXCEPT !.op = op, !.stage = "sent", !.id = id, !.to = to,
                               !.epoch = groupEpoch, !.saw = saw])
  /\ UNCHANGED <<server, faults>>

Create(w, id, to) ==
  /\ rows[id].state = "absent" /\ \A v \in Writers : call[v].id # id
  /\ Send(w, "create", id, to, NoCall.saw)

\* What the views offer for an item, in the state a device has on screen.
Offered(w, op, id, to, saw) ==
  /\ op \in Seals => w \notin saw.edits
  /\ op = "edit" => id \notin Folders
  /\ op \in Trashes => saw.trashed = (op # "trash")
  /\ IF op = "move" THEN to \notin {id, saw.parent} ELSE to = Nil

Update(w, op, id, to) ==
  /\ id \in Live /\ Offered(w, op, id, to, rows[id])
  /\ Send(w, op, id, to, [i \in {id} |-> rows[id]])

Delete(w, id) == id \in Live /\ Send(w, "delete", id, Nil, NoCall.saw)

Reseal(w) ==
  LET stale == {i \in Live : rows[i].epoch < groupEpoch}
  IN  stale # {} /\ Send(w, "reseal", Nil, Nil, [i \in stale |-> rows[i]])

Codes == {"ok", "conflict", "not_found", "key_rotated"}

Receive(w) ==
  /\ call[w].stage \in Codes
  /\ Becomes(w, NoCall)
  /\ UNCHANGED <<server, faults>>

\* The answer is lost.  The client posts the request again, but a PATCH, which could
\* only come back as a conflict with itself.
AnswerLost(w) ==
  /\ call[w].stage \in Codes
  /\ faults < MaxFaults /\ faults' = faults + 1
  /\ Becomes(w, IF call[w].op \in Updates THEN NoCall
                ELSE [call[w] EXCEPT !.stage = "sent", !.row = NoRow, !.purged = {}])
  /\ UNCHANGED server

\* A handler, or the cron, is stopped between two of its batches.
Dies(p) ==
  /\ Purging(p) \/ (p = Cron /\ call[p] # NoCall)
  /\ faults < MaxFaults /\ faults' = faults + 1
  /\ Becomes(p, NoCall)
  /\ UNCHANGED server

Rotate ==
  /\ groupEpoch < MaxEpoch /\ groupEpoch' = groupEpoch + 1
  /\ UNCHANGED <<vaultSeq, vaultFloor, rows, expired, call, faults>>

-----------------------------------------------------------------------------
Handlers(p) ==
  \/ CreateCheck(p) \/ CreateWrite(p)
  \/ \E op \in Updates : UpdateCheck(p, op) \/ UpdateWrite(p, op)
  \/ ResealCheck(p) \/ ResealBatch(p)
  \/ DeleteCheck(p) \/ PurgeWalk(p) \/ PurgeWrite(p)

CronRuns ==
  \/ \E i \in Items : CronChooses(i)
  \/ CronClaims \/ CronGoesOn \/ CronForgets

Sends(w) ==
  \/ \E id \in Items, to \in Folders \cup {Nil} :
       \/ Create(w, id, to)
       \/ \E op \in Updates : Update(w, op, id, to)
  \/ \E id \in Items : Delete(w, id)
  \/ Reseal(w)

ServerNext ==
  \/ \E p \in Actors : Handlers(p) \/ Dies(p)
  \/ CronRuns
  \/ \E S \in SUBSET Items : CronStarts(S)
  \/ Rotate

Next == ServerNext \/ \E w \in Writers : Sends(w) \/ Receive(w) \/ AnswerLost(w)

ServerFairness ==
  /\ \A p \in Actors : WF_serverVars(Handlers(p))
  /\ WF_serverVars(CronRuns) /\ WF_serverVars(\E S \in SUBSET Items : CronStarts(S))

\* Each sync pass of a device re-seals what is still sealed under an older key.
DeviceFairness ==
  /\ \A w \in Writers : WF_serverVars(Receive(w))
  /\ WF_serverVars(\E w \in Writers : Reseal(w))

Spec == Init /\ [][Next]_serverVars /\ ServerFairness /\ DeviceFairness

-----------------------------------------------------------------------------
(***************************************************************************)
(* Properties.                                                             *)
(***************************************************************************)
Row == [state : States, parent : Items \cup {Nil}, revision : Nat, seq : Nat, epoch : Nat,
        edits : SUBSET Writers, opens : Writers \cup {Nil}, blob : Writers \cup {Nil},
        trashed : BOOLEAN]

Call(c) ==
  /\ DOMAIN c = DOMAIN NoCall
  /\ c.op \in {"none", "create", "reseal", "delete", "clean"} \cup Updates
  /\ c.stage \in {"idle", "sent", "checked", "walk", "batch", "choose", "claim", "stored"} \cup Codes
  /\ c.id \in Items \cup {Nil} /\ c.to \in Folders \cup {Nil} /\ c.epoch \in Nat
  /\ DOMAIN c.saw \subseteq Items /\ c.saw \in [DOMAIN c.saw -> Row] /\ c.row \in Row
  /\ c.todo \subseteq Items /\ c.purged \subseteq Items

\* Every variable keeps its type: a row is numbered up to the counter, and the
\* floor is no higher (vault_items, groups.vault_seq, groups.vault_floor).
TypeOK ==
  /\ vaultSeq \in Nat /\ vaultFloor \in 0..vaultSeq /\ groupEpoch \in 1..MaxEpoch
  /\ rows \in [Items -> Row] /\ \A i \in Items : rows[i].seq <= vaultSeq
  /\ expired \subseteq Items
  /\ DOMAIN call = Actors /\ \A p \in Actors : Call(call[p])
  /\ faults \in 0..MaxFaults

\* No folder ever holds itself, whatever moves race each other, through deleted
\* folders too (routes/vault.ts:324-326).
NoCycle == \A i \in Kept : rows[i].parent # Nil => rows[i].parent \notin Subtree(i)

\* What a delete reports as done is empty, and stays so: a walk that finds nothing alive
\* is the last one, for nothing is created in a tombstone or moved into it (vault.ts:53-57).
DeletedIsEmpty ==
  \A p \in Actors : At(p, "delete", "ok") => Subtree(call[p].id) \cap Live = {}

\* What is left under any deleted folder is being purged by somebody.  It is not, when
\* a folder between the two is moved out while its purge is between two batches.
NothingStranded ==
  \A a \in Items : rows[a].state \in {"gone", "forgotten"} =>
    \A i \in Subtree(a) \cap Live : \E p \in Actors : Purging(p) /\ i \in Subtree(call[p].id)

\* Only what is under a deleted or overdue item at that moment is purged: an item
\* moved out or restored after the decision is kept (vault.ts:85-93, 138-140).
PurgedOnlyInside ==
  [][\A i \in Live : rows'[i].state = "gone" =>
       \E a \in Items :
         /\ i \in Subtree(a)
         /\ \/ rows[a].state = "gone"
            \/ a \in Overdue
            \/ \E w \in Writers : Purging(w) /\ call[w].id = a]_serverVars

\* No edit of an item is ever lost to another one, nor to a re-seal that had read
\* the item before (routes/vault.ts:284-288, 440-442).
NoEditLost ==
  [][\A i \in Live : rows'[i].state = "live" => rows[i].edits \subseteq rows'[i].edits]_serverVars

\* The metadata of an item carries the key to the content it has (routes/vault.ts:351).
MetaOpensContent == \A i \in Live : rows[i].opens = rows[i].blob

\* After the last rotation every item ends under the current key, whatever edits
\* sealed under the previous one land late (vault.ts:323-327).
ResealCompletes == <>[](\A i \in Live : rows[i].epoch = groupEpoch)

\* What is past its time in the trash goes, unless somebody takes it out.
TrashEmpties == \A i \in Items : (i \in Overdue) ~> (i \notin Overdue)
==============================================================================
