------------------------------ MODULE VaultSync ------------------------------
(***************************************************************************)
(* One device's copy of the vault (apps/web/src/state/vaultItems.ts,       *)
(* packages/client/src/vault.ts, apps/web/src/db/store.ts) against the     *)
(* Worker of VaultServer and the writes of other devices.                  *)
(*                                                                         *)
(* A sync pass pulls pages, stores the changes with their cursor in one    *)
(* transaction, applies them in memory, opens what it has and publishes    *)
(* it.  In between, the answers to the device's own writes are stored and  *)
(* shown, the user leaves the space and comes back, and the page reloads.  *)
(* A pass of a space that was left goes on until its next check.           *)
(***************************************************************************)
EXTENDS VaultServer

CONSTANTS
  Own,            \* the requests this device makes
  PageSize,       \* VAULT_PAGE_SIZE
  MaxLeaves,      \* bound on leaving the space and on reloads
  PurgeOvertakes  \* may a listing without an item overtake the answer to a write of it?

ASSUME SyncAssumption ==
  /\ Own \subseteq Writers /\ PageSize \in Nat \ {0} /\ MaxLeaves \in Nat
  /\ PurgeOvertakes \in BOOLEAN

VARIABLES
  disk,        \* the vault store of IndexedDB
  diskCursor,  \* META_VAULT_CURSOR
  mem,         \* vaultEntries
  cursor,
  view,        \* vaultSpace: "closed", "loading" or "open"
  loaded,      \* what loadVault has read
  passes,      \* the pass of this generation and one of a former one
  again,       \* another pass was asked for while one was running
  deaf,        \* own requests whose page is gone
  leaves

stored == <<disk, diskCursor>>
shown  == <<mem, cursor, view, loaded>>
client == <<stored, shown, passes, again, deaf, leaves>>
vars   == <<serverVars, client>>

Empty  == [i \in Items |-> NoRow]
NoPass == [phase |-> "idle", at |-> 0, began |-> 0, rebuilding |-> FALSE, removed |-> {},
           items |-> Empty, records |-> Empty, before |-> Empty]

SyncInit ==
  /\ Init
  /\ disk = rows /\ diskCursor = vaultSeq
  /\ mem = Empty /\ cursor = 0 /\ view = "closed" /\ loaded = [copy |-> Empty, cursor |-> 0]
  /\ passes = [k \in {"now", "old"} |-> NoPass]
  /\ again = FALSE /\ deaf = {} /\ leaves = 0

-----------------------------------------------------------------------------
(***************************************************************************)
(* vaultChanges and pullVaultChanges: one page.                            *)
(***************************************************************************)
Listed(since) == {i \in Kept : rows[i].seq > since}
Page(since) ==
  {i \in Listed(since) :
     Cardinality({j \in Listed(since) : rows[j].seq <= rows[i].seq}) <= PageSize}
LastOf(S) == CHOOSE n \in {rows[i].seq : i \in S} : \A i \in S : rows[i].seq <= n

NewPass == [NoPass EXCEPT !.phase = "pull", !.at = cursor, !.began = vaultSeq,
                          !.rebuilding = (cursor = 0)]

Pass(k, p) == passes' = [passes EXCEPT ![k] = p]

\* Mutant: the cursor is the counter, whether or not another page follows.
ReachesCounter(page, more, since) == IF vaultSeq > since THEN vaultSeq ELSE since

Reaches(page, more, since) ==
  IF more THEN LastOf(page) ELSE IF vaultSeq > since THEN vaultSeq ELSE since

PullPage(k) ==
  LET p     == passes[k]
      full  == p.rebuilding /\ p.at > 0
      reset == ~full /\ p.at > 0 /\ p.at < vaultFloor
      since == IF reset THEN 0 ELSE p.at
      page  == Page(since)
      more  == page # Listed(since)
      known == IF reset THEN [p EXCEPT !.rebuilding = TRUE, !.removed = {}, !.items = Empty] ELSE p
  IN /\ p.phase = "pull"
     /\ Pass(k, [known EXCEPT
          !.removed = (@ \cup (page \ Live)) \ (page \cap Live),
          !.items   = [i \in Items |-> IF i \notin page THEN @[i]
                                       ELSE IF i \in Live THEN rows[i] ELSE NoRow],
          !.at      = Reaches(page, more, since),
          !.phase   = IF more THEN "pull" ELSE "store"])
     /\ UNCHANGED <<serverVars, stored, shown, again, deaf, leaves>>

-----------------------------------------------------------------------------
(***************************************************************************)
(* runSync.                                                                *)
(***************************************************************************)
\* syncVault, when the poll reports another counter than the cursor.
StartSync ==
  /\ view = "open" /\ passes["now"].phase = "idle" /\ vaultSeq # cursor
  /\ Pass("now", NewPass)
  /\ UNCHANGED <<serverVars, stored, shown, again, deaf, leaves>>

\* The pass is over: another one, if it was asked for meanwhile.
Ends(k) ==
  IF k = "now" /\ again
  THEN Pass(k, [NewPass EXCEPT !.at = cursor', !.rebuilding = (cursor' = 0)]) /\ again' = FALSE
  ELSE Pass(k, NoPass) /\ UNCHANGED again

PullFails(k) ==
  /\ passes[k].phase = "pull"
  /\ faults < MaxFaults /\ faults' = faults + 1
  /\ UNCHANGED cursor /\ Ends(k)
  /\ UNCHANGED <<server, call, stored, mem, view, loaded, deaf, leaves>>

Newer(item, known) == known = NoRow \/ known.seq < item.seq

\* storeVaultChanges: one transaction.
Merged(copy, p) ==
  LET kept == [i \in Items |-> IF p.rebuilding \/ i \in p.removed THEN NoRow ELSE copy[i]]
  IN  [i \in Items |->
         IF p.items[i] # NoRow /\ Newer(p.items[i], kept[i]) THEN p.items[i] ELSE kept[i]]

Landed(w) == call[w].stage \in {"ok", "stored"} /\ call[w].row # NoRow /\ w \notin deaf
Drops(p, i) == i \in p.removed \/ (p.rebuilding /\ p.items[i] = NoRow)
Overtakes(p) ==
  \E w \in Own : Landed(w) /\ Drops(p, call[w].id) /\ call[w].row.seq <= p.at

\* Mutant: a pass does not ask whether its space is still open.
GoesOnAnyway(k) == TRUE

StillCurrent(k) == k = "now"

StartStore(k) ==
  /\ passes[k].phase = "store"
  /\ Pass(k, IF StillCurrent(k) THEN [passes[k] EXCEPT !.phase = "storing"] ELSE NoPass)
  /\ UNCHANGED <<serverVars, stored, shown, again, deaf, leaves>>

\* The transaction, whose space may have been left since it was asked for.
Store(k) ==
  LET p == passes[k] IN
  /\ p.phase = "storing"
  /\ PurgeOvertakes \/ ~Overtakes(p)
  /\ disk' = Merged(disk, p) /\ diskCursor' = p.at
  /\ Pass(k, [p EXCEPT !.phase = "apply"])
  /\ UNCHANGED <<serverVars, shown, again, deaf, leaves>>

\* applyVaultChanges to what is in memory now.
Apply(k) ==
  LET p == passes[k] IN
  /\ p.phase = "apply"
  /\ IF StillCurrent(k)
     THEN /\ cursor' = p.at
          /\ Pass(k, [p EXCEPT !.phase = "open", !.records = Merged(mem, p), !.before = mem])
     ELSE Pass(k, NoPass) /\ UNCHANGED cursor
  /\ UNCHANGED <<serverVars, stored, mem, view, loaded, again, deaf, leaves>>

\* Mutant: whatever is in memory and not in the listing is kept.
KeepsLeftovers(p) ==
  [i \in Items |->
     IF mem[i] # NoRow /\ Newer(mem[i], p.records[i]) THEN mem[i] ELSE p.records[i]]

\* What was opened, and what this device wrote while it was.
Opened(p) ==
  [i \in Items |->
     IF mem[i] \notin {p.before[i], NoRow} /\ Newer(mem[i], p.records[i]) THEN mem[i]
     ELSE p.records[i]]

Publish(k) ==
  LET p == passes[k] IN
  /\ p.phase = "open"
  /\ mem' = IF StillCurrent(k) THEN Opened(p) ELSE mem
  /\ UNCHANGED cursor /\ Ends(k)
  /\ UNCHANGED <<serverVars, stored, view, loaded, deaf, leaves>>

-----------------------------------------------------------------------------
(***************************************************************************)
(* This device's own writes.                                               *)
(***************************************************************************)
OwnCreate(w, id) ==
  /\ w \in Own /\ view = "open"
  /\ Create(w, id, Nil) /\ UNCHANGED client

OwnUpdate(w, op, id) ==
  /\ w \in Own /\ view = "open" /\ mem[id] # NoRow
  /\ Offered(w, op, id, Nil, mem[id])
  /\ Send(w, op, id, Nil, [i \in {id} |-> mem[id]])
  /\ UNCHANGED client

OwnDelete(w, id) ==
  /\ w \in Own /\ view = "open" /\ mem[id] # NoRow
  /\ Send(w, "delete", id, Nil, NoCall.saw)
  /\ UNCHANGED client

\* remember and forget store the answer first,
StoreAnswer(w) ==
  LET c == call[w] IN
  /\ w \in Own \ deaf /\ c.stage = "ok"
  /\ disk' = IF c.op = "delete"
             THEN [i \in Items |-> IF i \in c.purged THEN NoRow ELSE disk[i]]
             ELSE [disk EXCEPT ![c.id] = IF Newer(c.row, @) THEN c.row ELSE @]
  /\ Goes(w, "stored")
  /\ UNCHANGED <<server, faults, diskCursor, shown, passes, again, deaf, leaves>>

\* then show it and sync.
ShowAnswer(w) ==
  LET c == call[w] IN
  /\ w \in Own \ deaf /\ c.stage = "stored"
  /\ IF view = "open"
     THEN /\ mem' = IF c.op = "delete"
                    THEN [i \in Items |-> IF i \in c.purged THEN NoRow ELSE mem[i]]
                    ELSE [mem EXCEPT ![c.id] = IF Newer(c.row, @) THEN c.row ELSE @]
          /\ IF passes["now"].phase = "idle"
             THEN Pass("now", NewPass) /\ UNCHANGED again
             ELSE again' = TRUE /\ UNCHANGED passes
     ELSE UNCHANGED <<mem, passes, again>>
  /\ Becomes(w, NoCall)
  /\ UNCHANGED <<server, faults, stored, cursor, view, loaded, deaf, leaves>>

\* A refusal is shown as a toast; an answer to a page that is gone is lost.
DropAnswer(w) ==
  /\ w \in Own /\ call[w].stage \in Codes /\ (w \in deaf \/ call[w].stage # "ok")
  /\ deaf' = deaf \ {w}
  /\ Becomes(w, NoCall)
  /\ UNCHANGED <<server, faults, stored, shown, passes, again, leaves>>

-----------------------------------------------------------------------------
(***************************************************************************)
(* loadVault and clearVault.                                               *)
(***************************************************************************)
\* It reads after the transactions that were created before it.
Load ==
  /\ view = "closed" /\ passes["old"].phase # "storing"
  /\ view' = "loading" /\ loaded' = [copy |-> disk, cursor |-> diskCursor]
  /\ UNCHANGED <<serverVars, stored, mem, cursor, passes, again, deaf, leaves>>

Loaded ==
  /\ view = "loading"
  /\ view' = "open" /\ mem' = loaded.copy /\ cursor' = loaded.cursor
  /\ loaded' = [copy |-> Empty, cursor |-> 0]
  /\ UNCHANGED <<serverVars, stored, passes, again, deaf, leaves>>

Clears(old) ==
  /\ leaves < MaxLeaves /\ leaves' = leaves + 1
  /\ view # "closed" /\ view' = "closed"
  /\ mem' = Empty /\ cursor' = 0 /\ loaded' = [copy |-> Empty, cursor |-> 0]
  /\ passes' = [now |-> NoPass, old |-> old]
  /\ again' = FALSE

\* The user opens another space: the pass under way is of a former generation.
Leave ==
  /\ passes["old"].phase = "idle"
  /\ Clears(passes["now"])
  /\ UNCHANGED <<serverVars, stored, deaf>>

\* The page is closed and opened again: only IndexedDB is left.
Reload ==
  /\ Clears(NoPass)
  /\ deaf' = deaf \cup {w \in Own : call[w].stage \notin {"idle", "stored"}}
  /\ call' = [p \in Actors |-> IF p \in Own /\ call[p].stage = "stored" THEN NoCall ELSE call[p]]
  /\ UNCHANGED <<server, faults, stored>>

-----------------------------------------------------------------------------
\* A listing does not take as long as a tombstone is kept.
Remembered(S) ==
  \A k \in DOMAIN passes : passes[k].phase = "pull" =>
    \A i \in S : rows[i].seq <= passes[k].began

Others == Writers \ Own

PassSteps(k) == PullPage(k) \/ StartStore(k) \/ Store(k) \/ Apply(k) \/ Publish(k)
OwnSteps(w) == StoreAnswer(w) \/ ShowAnswer(w) \/ DropAnswer(w)

SyncNext ==
  \/ /\ \/ \E p \in Actors : Handlers(p)
        \/ CronRuns
        \/ \E S \in SUBSET Items : Remembered(S) /\ CronStarts(S)
        \/ \E w \in Others : Sends(w) \/ Receive(w)
     /\ UNCHANGED client
  \/ StartSync
  \/ \E k \in DOMAIN passes : PassSteps(k) \/ PullFails(k)
  \/ \E w \in Own : OwnSteps(w)
  \/ \E w \in Own, id \in Items :
       OwnCreate(w, id) \/ OwnDelete(w, id) \/ \E op \in Updates : OwnUpdate(w, op, id)
  \/ Load \/ Loaded \/ Leave \/ Reload

\* An open page polls, and goes on after every await; the Worker finishes what it does.
SyncFairness ==
  /\ \A p \in Actors : WF_vars(Handlers(p) /\ UNCHANGED client)
  /\ WF_vars(StartSync) /\ WF_vars(Load \/ Loaded)
  /\ \A k \in {"now", "old"} : WF_vars(PassSteps(k))
  /\ \A w \in Own : WF_vars(OwnSteps(w))

SyncSpec == SyncInit /\ [][SyncNext]_vars /\ SyncFairness

-----------------------------------------------------------------------------
(***************************************************************************)
(* Properties.                                                             *)
(***************************************************************************)
Seqs(copy) == [i \in Items |-> copy[i].seq]

Disk == INSTANCE VaultListing WITH
  head <- vaultSeq, changed <- Seqs(rows), alive <- [i \in Items |-> i \in Live],
  copy <- Seqs(disk), at <- diskCursor

\* While a pass opens its records, what it is about to publish is what counts.
Memory == INSTANCE VaultListing WITH
  head <- vaultSeq, changed <- Seqs(rows), alive <- [i \in Items |-> i \in Live],
  copy <- Seqs(IF passes["now"].phase = "open" THEN Opened(passes["now"]) ELSE mem), at <- cursor

\* The copy in IndexedDB never misses a change its cursor has passed, and never holds
\* an item that was purged before it, across reloads, resets and pages (store.ts:645-649).
DiskListing == Disk!Spec

\* The same of the copy in memory, whatever this device wrote while a listing was being
\* fetched, stored or opened (vaultItems.ts:225-226, 248-250, 307-308).
MemoryListing == Memory!Spec

\* No answer puts an item back that a listing has already reported purged ("never
\* newer-for-older", vaultItems.ts:307-308).
NothingResurrected == \A i \in Items \ Live : disk[i] # NoRow => diskCursor < rows[i].seq

\* Once nobody changes the vault any more, both copies are the vault.
CopyConverges == <>[](view = "open" /\ Disk!CaughtUp /\ Memory!CaughtUp)
==============================================================================
