# SendSelf in TLA+

SendSelf moves messages and files between the devices of one person, or of one
small group, through a Cloudflare Worker that sees ciphertext only. The Worker
keeps relational state in D1 and blobs in R2; each device keeps its keys and its
history in IndexedDB. There is no server-side session: every device polls.

This directory models that program in TLA+, checks the models with TLC on small
instances and proves theorems about six of them with TLAPS. Paths below are
relative to the repository's root; short ones name a file under
`apps/worker/src/`, `apps/web/src/` or `packages/client/src/`.

## 1. The system

### Components and their state

| Component | Code | State it keeps | Operations |
|---|---|---|---|
| Group key rotation (Worker) | `apps/worker/src/routes/keys.ts` | `groups.key_epoch`, `groups.rotation_pending`, `devices.key_epoch`, `key_distribution` | `rotateKey`, `ackKey`, listing of pending keys |
| Key rotation (client) | `apps/web/src/sync/rekey.ts`, `packages/client/src/keyring.ts` | keyring signal, persisted keyring | `rotateGroupKey`, `adoptPendingKeys` |
| Devices and roles | `routes/devices.ts` | `devices` | list, rename, revoke, role, signing key |
| Pairing | `routes/pairing.ts`, `actions.ts` | `pairing`, `devices`; the linking flow and its polls | request, poll, complete, delete, expiry; pause, resume, cancel |
| Messages and deliveries | `routes/messages.ts`, `db.ts` | `messages`, `delivery_status` | `sendMessage`, `pendingMessages`, `ackMessage`, delete, purge |
| Outbox | `sync/outbox.ts` | rows `queued`, `failed`, `sent`, pinned epoch and IV | flush, upload, send, `update` |
| Incoming messages | `sync/sync.ts`, `db/deletions.ts`, `actions.ts` | history rows, `acked`, tombstones | poll, register, download, ack, delete here, delete everywhere |
| Blob accounting | `blobs.ts`, `routes/files.ts` | `uploads`, `vault_blobs`, R2 objects | receive, record, discard, claim, release, sweep |
| Vault (Worker) | `routes/vault.ts`, `vault.ts` | items, revisions, change counter, floor | create, update, move, trash, restore, purge, list |
| Vault (client) | `packages/client/src/vault.ts`, `state/vaultItems.ts` | listing and its cursor | refresh, open, write |
| Space name | `sync/spaceName.ts`, `routes/space.ts` | sealed name and its time | rename, re-seal |
| Scheduled cleanup | `cron.ts` | none of its own | expiry, orphan sweeps, trash |
| Realtime, push | `realtime.ts`, `sync/realtime.ts`, `push.ts` | sockets, subscriptions | wake-ups |
| Local database | `db/store.ts` | message rows, the outbox index, the vault's copy | writes, scan that builds the index, rewrite of all rows |
| At-rest lock, recovery | `state/lock.ts`, `db/atrest.ts`, `recovery.ts` | the secrets, in the clear or in an envelope; content key | enable, disable, lock, unlock, refresh; export |
| Service worker | `sw.ts` | none of its own | background flush, push, share target |
| CLI, UI | `apps/cli`, `ui/` | none modelled | one-shot send, presentation |

### How they interact

* A device calls the Worker over HTTP. A handler authenticates first and then
  works from that snapshot of the caller and its group; every later `await` lets
  other handlers run. A D1 batch is atomic; R2 and D1 are not atomic together.
* A sync pass (`syncNow`) polls, adopts keys, performs a rotation that is owed,
  flushes the outbox, registers what is pending and downloads it. The outbox, the
  pass and the user's actions interleave at every `await` of the page.
* The epoch of the group key links the components. A message is accepted only
  under the current epoch, so a rotation sends queued messages back to be
  encrypted anew, and a revocation both orders a rotation and releases what the
  revoked device had not read.
* The page and the service worker flush one outbox in one IndexedDB, under a Web
  Lock that a frozen page may hold. The at-rest lock rewrites that database and takes
  the secrets out of it while both go on.
* The vault's change counter is what a device's copy is built on: every change gets
  a number, a listing asks for what came after a cursor, and tombstones below the
  floor are forgotten.
* The last ack of a message deletes its rows and then its blob; the hourly cron
  sweeps what such a sequence leaves behind.

### What is hard

* **Interleaving:** two devices rotate at once; a revocation lands between a
  handler's check and its batch; two recipients ack the same message at once.
* **Retries:** a request whose answer is lost is posted again while its first copy
  still executes. Compare-and-swap, primary keys and "conflict means sent" are
  what make that harmless, where they do.
* **Snapshots:** the pass holds its batch, its tombstones and its keyring from the
  moment it read them, and writes whole rows back.
* **Two systems:** a blob and its row are written and deleted in two steps.
* **Crash:** a page closes anywhere; only IndexedDB survives.

### What makes each component correct

* Keys: one key per epoch; every device that stays gets it; no revoked device
  does; a rotation that is owed completes; a wrap is dropped only once stored.
* Delivery: "sent" means the others have it or are still offered it; a delivery row
  goes only when it is settled; a file stays readable until everyone has it; the
  outbox drains; "delete for everyone" reaches everyone; the server forgets.
* Blobs: what is owned has its bytes and is counted; nothing is in R2 uncounted;
  the cap holds; what nothing owns leaves.
* Vault: a listing from any cursor converges to the server's tree; a write at a
  stale revision is refused; no cycle of folders; a purge takes a whole subtree and
  nothing else; the metadata of an item opens its content.
* Pairing: a device that joined holds the token of its row; a revocation stands; a
  package that was deposited arrives.
* Local database and lock: what is owed is in the outbox index; the secrets are
  always stored somewhere; what is queued is sent.
* Space name: every device ends with the last name written.

`PROJECT.json` lists all components, and under `hazards` each of these dangers at
the line where it bites with the properties that cover it.

## 2. What is modelled

| Module | Models | Composes |
|---|---|---|
| `SpaceKeys` | rotation and adoption of the group key, both sides | |
| `SpaceKeyLog` | abstract: one log of keys that every device follows | implemented by `SpaceKeys` |
| `MessageDelivery` | a message and its file from the outbox to the last ack, both sides | |
| `BlobAccounting` | R2 objects and the rows that count them, both stores | |
| `VaultServer` | the vault on the Worker | |
| `VaultSync` | a device's two copies of the vault and its own writes | EXTENDS `VaultServer` |
| `VaultListing` | abstract: what a listing promises a copy | implemented by `VaultSync`, twice |
| `LocalStore` | message rows, the outbox index, two flushers | |
| `AtRestLock` | the lock, the secrets, key adoption, kills | EXTENDS `LocalStore` |
| `PairingSlots` | a pairing slot and the linking flow | |
| `MC_*` | the constants of the instances | |
| `SpaceKeysProofs`, `VaultServerProofs`, `VaultSyncProofs`, `AtRestLockProofs`, `PairingSlotsProofs`, `BlobAccountingProofs`, `MessageDeliveryProofs`, `VaultTreeProofs` | the theorems | `VaultSyncProofs` and `VaultTreeProofs` build on `VaultServerProofs` |

`map` in `PROJECT.json` gives the source lines of every definition. One convention
holds throughout: a handler is split where it awaits something that lets the state it
read change, a D1 batch or an IndexedDB transaction is one step, and a definition
marked as a mutant is not part of the specification.

### `SpaceKeys`: the group key

One module for both sides, because the guarantees are about the pair.

* The Worker's tables are `groupEpoch`, `rotationPending`, `status` and `keyEpoch`
  of the devices, and `kd`, the rows of `key_distribution`.
* `rotateKey` is three actions, as it has three awaits that decide something:
  `RotateKeyAuth` (the snapshot and its checks), `RotateKeyCheck` (the set of
  active devices must be exactly the set wrapped for) and `RotateKeyBatch` (the
  statements of the batch one after the other: inserts for active recipients, the
  caller's own epoch, the compare-and-swap, the primary key that aborts it all).
* `revokeDevice` is `RevokeAuth` and `RevokeBatch`; `completePairing` is `PairAuth`
  and `PairBatch`; `ackKey` is `AckKey`.
* A page has a keyring in memory (`keyring`), one on disk (`stored`) and two tasks
  that may hold a copy of either: its sync pass and its revoke action. `Overlap`
  says whether both may run at once on one device.
* `AckKeyFails`, `RotateConnectionLost` and `Reload` are the faults: an answer lost
  whether or not the call executes, and a page closed and opened again.

Merged steps. `listDevices` reads the group and the roster in two statements and
is one step here; the ack's authentication and its batch are one step; the joining
device stores its keyring in the step that registers it. A request that gets a 500
is posted again by the client, so `MaxTries` bounds those attempts too. The initial
state may already owe a rotation: a device outside the instance was revoked.

`SpaceKeyLog` says what all this owes the devices, as long as nobody joins: the keys
that won are one `log`, a key to an epoch, and a device stores keys of it. What a
rotation that lost leaves behind is in the abstract specification too, because the code
lets devices adopt it: a ring may be one epoch ahead of the log, and then the log stays as
it is unless a single member is left (`Commit`'s guard). The mapping `KeyLog` takes
`committed` for the log and what the active devices have on disk for the rings, and
`KeysFollowLog` is the abstract specification under it.

### `MessageDelivery`: a message and its file

* The Worker's side is `stored`, `waiting` (delivery rows not yet downloaded),
  `object` and `doomed` (blobs whose rows are gone and whose deletion follows).
  `sendMessage` is `SendCheck`, `SendRecipients` and `SendBatch`; `ackMessage` is
  `AckUpdate` and `AckCount`, after which `DeleteObject` follows;
  `revokeDevice` is `Revoke` and `PurgeDelivered`.
* A device's side is `local` (the state of each history row), `acked`, `pin` (the
  epoch stored with a queued row), `deleted` (its tombstones), `flight` (the send its
  flush waits for) and `pass`. A pass is `SyncPoll`, `LoadDeletions`, `TakePending`
  one message at a time, then a job for each download (`JobBegin`, `JobGot`,
  `JobFails`, `JobAcked`), side by side as `downloadAndAck` is.
* `Upsert` writes the whole row as the job remembers it, as `upsertMessage` does.
* An upload is a request of its own (`puts`). `FlushBegin` sends it, `UploadLands` writes
  the object and lets a flush that still waits post the message, `UploadBreaks` and
  `UploadFails` break it off and discard what is stored under its key, whoever stored it
  (`files.ts:130-139`), and then try again or give the message back to the outbox. One
  that was given up (`SendLost`, `Reload`) still executes, or never arrives
  (`UploadVanishes`). A discard is one step and deletes the object; that its two halves
  may fail apart is in `BlobAccounting`, and so is the row that counts the object.
* Users compose, retry, delete on one device (`DeleteLocally`, which acks first) and
  delete for everyone: `DeleteEverywhere` forgets the message here, then
  `QueueDeletion` queues the tombstone, unless the page closes in between.

Abstractions. A device knows an epoch, not a keyring. A file is the epoch its bytes
are encrypted under; the IV is minted with it. Left out: the 24-hour expiry and
pruning of tombstones, view-once, the timing of backoff, several tabs of one
device. The decrypt attempts of a message are spent in one step. Writing the pin
before the upload is one step with the start of the flush.

### `BlobAccounting`: bytes and rows

The initial state chooses the store: message files (the row goes before the object,
and a lifecycle rule of the bucket expires what a failed deletion leaves) or the vault
(a row is reserved, the object goes, then the row). `Upload`, `PutDone`, `PutFails`
and `Record` are `receiveBlob`, one step per await; `ClaimCheck` and `ClaimInsert`
are what `sendMessage` and the vault's writes do with a blob; `Release` and the
deletions are `deleteMessages`, `deleteUnclaimedBlobs` and the sweep of the cron,
each object and each row in a step. `Expire` is the lifecycle rule, which is outside
the repository. A key has one size: an attempt uploads the same ciphertext again. A
statement on many keys is modelled key by key. The client's requests are retried in both
stores (`api.ts:114`), so attempts at one key overlap: `Starting` is a first attempt or one
after a lost answer or a 500, and for a message another flush.

`blobs.ts:36-37` says of a vault key that "deleting the blob before its row races no
write". The history variable `raced` collects the keys for which that is not so: a deletion
that has reserved the row and an attempt to upload the same key executed together, as when
the first attempt breaks off and its discard meets the second. What such a deletion leads
to is shown by three of the instances below; the properties of the vault hold of every
other key, and `VaultClaimsHold` says besides that what is claimed is always counted.

### `VaultServer`: the vault on the Worker

* The tables are `vaultSeq`, `vaultFloor`, `groupEpoch` and `rows`. A row has its
  parent, its revision, the number of its last change, its epoch and whether it is in
  the trash. Its metadata is the set of edits it includes (each named after the
  request that made it) and the content whose key it carries (`opens`); `blob` is the
  content the row names. An id goes from absent to live to a tombstone (`gone`) to a
  deleted row (`forgotten`).
* Each handler is a check, which reads, and a write, which is guarded on what was
  read: `CreateCheck`/`CreateWrite`, `UpdateCheck`/`UpdateWrite`, `ResealCheck`/
  `ResealBatch`. A deletion walks: `DeleteCheck`, then `PurgeWalk` and `PurgeWrite`
  in turn, a batch at a time, until the walk finds nothing alive.
* The cron is an actor like the requests: `CronStarts`, `CronChooses` an overdue root,
  `CronClaims` it if it is still overdue, purges it as a deletion does, `CronGoesOn`,
  and `CronForgets` old tombstones and raises the floor. Time is the set `expired`,
  which a run of the cron draws among what is in the trash.
* `AnswerLost` and `Dies` are the faults: the answer or the handler is lost. A creation,
  a deletion and a re-seal are then posted again; an update, the one request without
  retries (`api.ts:289-290`), is not. The copies of a request do not overlap here.
* The rows at the start are a tree (`Parents`, which `VaultAssumption` says has no cycle),
  as the rows of any vault that starts empty are by `NoCycle`.

Left out: uploading content (in `BlobAccounting`), names, sizes, and validation.

### `VaultListing` and `VaultSync`: a device's copy

`VaultListing` says what `GET /api/vault?since=` owes to one reader: of everything
that has not changed since its cursor, the copy has exactly what the vault has; what
it has besides is never newer than the vault. Its steps are a change of the vault,
learning something, and starting over.

`VaultSync` extends the Worker with one device in detail. Its vault lives in
IndexedDB (`disk`, `diskCursor`) and in memory (`mem`, `cursor`, `view`). A sync pass
is `StartSync`, `PullPage` until the last page (with the reset below the floor and the
rebuilding pass), `StartStore`, which looks whether the space is still open
(`vaultItems.ts:222`), `Store`, the transaction, `Apply`, and `Publish` once everything is
opened. A space that is left between the look and the transaction is stored all the same,
before `Load` reads it again: the transaction is created a microtask after the look, and
the read waits for it. Its own writes are the Worker's requests, made from what is on screen, whose
answers it stores (`StoreAnswer`) and then shows (`ShowAnswer`). `Load`/`Loaded` open
a space, `Leave` closes it with a pass still under way (the pass of a former
generation, `passes["old"]`), and `Reload` kills the page.

It implements `VaultListing` through two refinement mappings: `Disk` maps the copy to
IndexedDB and its cursor, and `Memory` to what is on screen or, while a pass is being
opened, to what it is about to publish. Both are properties of `vault_sync`, and
theorems.

### `LocalStore` and `AtRestLock`: one device's storage

`LocalStore` has the rows of the messages a device writes, the index of those it owes
(`META_OUTBOX`: `complete` and `ids`), the content key in memory, and a flush in each
of the two contexts. A step is one transaction: reading the index (`ReadIndex`), the scan that builds it, dropping ids that looked stale, putting a row that
was sealed earlier. Only the reads of the rows that the index names are one step together
(`ListQueued`). `rewrite` is `rewriteLocalContent`. The service worker sends one
message per flush and never has the content key; the outbox lock is `holder`.

`AtRestLock` adds the secrets in the clear (`plain`) or in the envelope (`vault`), the
page's own view of them, `enableLock` and `disableLock` (`op`, one step per await,
with the set of secrets they have yet to delete), `refreshVault`, `lockNow`, unlocking,
a sync pass adopting rotated keys, and a kill of either context at any step. A refresh
reads the space's secrets, seals, stores the envelope and deletes what is in the clear;
`live` says whether the map it writes to is still `unlocked`, and a device locked under
it seals nothing and deletes all the same (`lock.ts:365`, `401-406`). `cut` remembers
the keys a device was still storing when it was locked, killed or given the next one.
`exportContentKey` and `sealVault` (`lock.ts:366-376`) are one await here. There is one
space; `recovery.ts`, `forget` and `forgetLock` are left out.

### `PairingSlots`: a slot and the flow that waits for it

The Worker's side is `slot`, `device` and `epoch`; a completion is `AddDevice` (an
administrator who saw the code), `CompleteCheck` and `CompleteBatch`, whose statements
share one guard. The joining page's side is `link`, `pending` (what it persisted of the
flow), its polls in flight, and the spaces it created. `Answered`, `BeginSpace`,
`Persist`, `ForgetPending` and `Joined` are one poll from its answer to the new space,
and another poll may overtake it anywhere. The flow is left, resumed, cancelled and
reloaded; a slot expires. `RequestLands` is a copy of the request whose answer never came,
executed when the slot is gone. A token is named after the completion that minted it.

### Not modelled

* Realtime and push only hasten a poll, and every model lets a poll happen at any
  time. The socket's own reconnection is left out.
* The space name is one row with last-write-wins by server time. What can go wrong is
  an order of clocks, which the models leave out. So are the 24-hour expiry of
  messages and the pruning of tombstones by age.
* Roles (`updateDeviceRole`, `publishSigningKey`) are single updates by an
  administrator. Their one race, a role decided against a role that changed, is listed
  as a hazard without a property.
* Cryptography and attestations are taken to be perfect; authentication is the snapshot
  each handler starts from; rate limits and validation keep no protocol state.
* Group creation is one insert, and its result is every module's initial state.
* The UI, the site, the Android shell and the command line client: presentation, and a
  one-shot send that `MessageDelivery` covers as one try.

## 3. What the runs check

The passing runs together take every action of every module.

| Run | Instance | Properties | States |
|---|---|---|---|
| `keys_live` | 3 that rotate, one may be revoked, fair | `TypeOK`, `WrapsOnlyForActive`, `OneKeyPerEpoch`, `NoSplitBrain`, `RevokedLeftBehind`, `KeysFollowLog`, `CleanRotationCompletes`, `KeyReachesEveryone` | 166 000 |
| `keys_open` | 2 founders, one device pairs, one may be revoked, one fault, 2 tries | `JoinsAtCurrentEpoch`, `AckAfterStore` | 2.1 M |
| `delivery_space` | 3 devices, a file, 2 epochs, a revocation, fair | `FileReadable`, `FileMatchesRow`, `OutboxDrains` | 261 000 |
| `delivery_faults` | 2 founders, one joins, one fault, 2 tries | `TypeOK`, `NoLostMessage`, `NothingDroppedUnread` | 2.6 M |
| `delivery_retract` | 3 devices, a file and its deletion, fair | `Retracts`, `ServerForgets` | 116 000 |
| `blobs_stores` | either store, 2 blobs that do not fit together, 2 failures, fair | `VaultClaimsHold`, `ObjectHasRow`, `VaultQuotaHeld`, `Reclaimed` | 1.5 M |
| `vault_tree` | 2 requests and the cron on a tree of 4 items | `TypeOK`, `NoCycle`, `DeletedIsEmpty`, `PurgedOnlyInside` | 182 000 |
| `vault_edits` | 2 requests and the cron on a note, a rotation, one fault, fair | `MetaOpensContent`, `NoEditLost`, `ResealCompletes`, `TrashEmpties` | 89 000 |
| `vault_sync` | 2 items, a device and another one, pages of one item, one failed listing, one leave, fair | `DiskListing`, `MemoryListing`, `CopyConverges` | 144 000 |
| `lock_store` | 1 message, 1 use of the lock, 1 rotation, one fault, fair | `IndexCovers`, `SecretsKept`, `RingIsStored`, `QueuedIsFlushed` | 939 000 |
| `pairing_link` | 1 flow, 2 completions, 2 polls in flight, 2 epochs, 2 faults, fair | `TokenFits`, `RevocationStands`, `PackageReachesJoiner` | 897 000 |
| `lock_outbox` | the lock, no faults, fair | `OutboxFlushes`: violated | |

### Bounds, and why they are enough

* Three devices: one acts, one races it, one is acted upon. Two founders and a
  third that pairs give the open roster.
* Eight key names in `Keys` are more than the three devices can mint and still
  hold: a name nobody holds is reused, which renames a fresh key. Were they too few,
  a rotation could not start, and `keys_live` would fail.
* `MaxFaults = 1` places one fault at any step. Counterexamples that need more are
  among the further instances below, with the budget they need.
* `MaxTries = 2` is the least with a retry that meets its own first copy.
* `MaxEpoch = 2` in `delivery_space` lets a message be refused and re-pinned between
  its upload and its post, and in `lock_store` lets a key be adopted under the lock.
* Two blobs of sizes 2 and 1 under a cap of 2 make the cap decide. Every key gets two
  attempts, which overlap; two failures break off a transfer and refuse a deletion.
* Four items (two folders, a note in one, one more to create) let a folder move into
  another while it is purged; `PurgeBatch = 1` makes a purge as interruptible as it
  can be. `MaxSeq` stops new requests, `MaxNumber` is above any number they reach.
  `vault_tree` swaps the two requests as a symmetry; its properties are safety.
* `PageSize = 1` makes a listing of two changes take two pages, so that writes, resets
  and forgotten tombstones fall between them. `MaxLeaves = 1` leaves or reloads once,
  at any await.
* `PurgeOvertakes = FALSE` is an assumption: the answer of a device's own write is
  stored before a listing that reports that item purged. Without it the copy keeps an
  item that no longer exists (`vault_zombie`).
* `Overlaps = FALSE` is another: no key is adopted while the lock is being turned on
  or off, which the UI's pace makes likely and nothing enforces (`lock_adopt`). Refreshes
  are not kept apart: the device may be locked, unlocked and given the next key while
  one is under way. With one rotation, two never overlap; with two, the envelopes may be
  stored in the wrong order (`lock_lag`). `RingIsStored` holds with two as well.
* `Reopens = FALSE` is a third: a copy of the request for a slot that executes after its
  device was registered and the slot expired does not reserve it again. Nothing in the
  code prevents it; it takes a request that is delayed by more than the slot's life.
* `MaxPolls = 2` is the least with one poll overtaking another. One flow in
  `pairing_link`, since flows with slots of their own share nothing but the epoch; the
  theorems of section 4 are for any number.
* `CHECK_DEADLOCK FALSE` stands where the system may stop: once nothing is queued,
  owed, waiting or being purged, there is no step left.

### Fairness

Weak fairness only, on three kinds of step: a page that is open goes on (its poll
timer starts a pass, an `await` that can resolve does, and a page with an open vault
re-seals what is under an older key), the Worker finishes a request it executes, and
the cron runs. Nobody is obliged to compose, edit, revoke, pair, lock or delete. A
liveness property under faults has a bounded number of them: a network that fails
forever lets nothing happen.

Two liveness properties of the keys are conditional. `CleanRotationCompletes` and
`KeyReachesEveryone` hold as long as no wrap of a rotation that lost stays behind
(`LoserLeavesNothing`). In `keys_live` that condition fails only when the device that
rotates is revoked between its authentication and its batch; without the condition
`RotationCompletes` fails there, as the first rows below show.

### A disagreement between the code and its comment

`lock_outbox` (`sync/outbox.ts:148`). `doFlush` reads the session and the keyring from
IndexedDB and returns when they are missing. With the lock on they are not there:
`enableLock` and `refreshVault` delete them (`state/lock.ts:311-318`, `401-406`) and
unlocking restores them in memory only (`lock.ts:425-440`). An unlocked device never
flushes its outbox, against `outbox.ts:120-124`. `lock_store` checks the same liveness
while the secrets are in the clear.

### Further instances

These configurations are kept for a reader who wants the trace. Each checks one
property that a comment suggests and that the code does not give in general (or, where
the table says so, one that holds); run `tlc -config <name>.cfg MC_<module>.tla`.

| Configuration | Property | What the trace shows |
|---|---|---|
| `keys_live` with `Revocable = {o, b, c}`, `SPECIFICATION Spec` | `NoSplitBrain` and others | holds: three founders, all of whom may be revoked |
| `keys_live` with `RotationCompletes` in place of its own | `RotationCompletes` | a device revoked inside its own rotation deposits wraps for an epoch the group never reaches: their acks are refused, which ends each pass before it can rotate, and they collide with every later rotation (`keys.ts:107`, `rekey.ts:16-17`) |
| `keys_split` | `NoSplitBrain` | wraps of an abandoned rotation satisfy the coverage check of the next (`keys.ts:121`), so two devices store different keys of one epoch; a third device has to pair before the first batch |
| `keys_lost` | `NoneStranded` | a committed rotation whose answer is lost is retried, meets a conflict, and the key its device minted is dropped (`rekey.ts:140`) |
| `keys_overlap` | `KeyringsOnlyGrow` | a pass and a revocation on one device each save the keyring they read (`rekey.ts:147`) |
| `keys_secret` | `RevokedLeftBehind` | a device that stored a key of a rotation that lost is revoked, and then the second copy of the same request commits that very key (`keys.ts:113`) |
| `delivery_undelete` | `DeletedStaysDeleted` | a message deleted for everyone while this device downloads its file is written back by the download (`sync.ts:614`) |
| `delivery_revive` | `NotResurrected` | `update` reads and writes in two transactions; the user deletes in between (`outbox.ts:247-249`) |
| `delivery_failed` | `FailedNotDelivered` | the retry of a file that everyone has read finds no blob and is marked failed (`outbox.ts:254-256`) |
| `delivery_mixed` | `FileMatchesRow` | an upload that was given up breaks off after the next one landed and the message was posted; its discard deletes the file of the stored message (`files.ts:130-139`) |
| `delivery_mixed` with `FileMatchesRow` for the files that are there | | the key rotates and the file is uploaded anew, then an upload that was given up lands over it, or a post that was given up stores the older row, against `outbox.ts:301-305` |
| `delivery_stale` | `NoStaleEpochStored` | the epoch is checked against a snapshot and the insert comes later (`messages.ts:104`) |
| `delivery_unacked` | `UnackedIsPending` | an executed ack without an answer leaves a message that cannot be deleted here (`actions.ts:986-999`) |
| `delivery_retract` with `Messages = {m}`, `Revocable = {c}` | `ServerForgets` | a recipient revoked between `messageRecipients` and the batch keeps a message until it expires (`messages.ts:125`) |
| `blobs_discard` | `ClaimedHasObject` | two attempts at one vault key overlap: the second puts the object, the discard of the first deletes object and row, `recordBlob` inserts the row again, and an item claims content that is not there (`files.ts:138`, `blobs.ts:135`), against `blobs.ts:56-60` |
| `blobs_discard` with `Stores = {"files"}` | `ClaimedHasObject` | a broken attempt discards the file a later one uploaded and a message names |
| `blobs_swept` | `ClaimedIsCounted` | the sweep takes an old upload between the HEAD and the insert (`messages.ts:136`) |
| `blobs_orphan` | `ObjectsHaveRows` | two attempts at one vault key, the first of which finishes after a deletion reserved its row |
| `blobs_quota` | `QuotaHeld` | the discard of one attempt at a vault key frees its place, another key is admitted, and then the second attempt lands and is recorded without the cap (`blobs.ts:135`) |
| `blobs_quota` with `Stores = {"files"}`, `MaxFailures = 0` | `QuotaHeld` | the same in the other store, where a delivered message frees the place |
| `vault_stranded` | `NothingStranded` | in a chain of three folders a note is created in the innermost after the walk of a purge has read the tree; one batch deletes that folder, then the one above it is moved out. The next walk does not reach the note, which stays alive in a tombstone, against `vault.ts:53-57` ("caught by the next round rather than left stranded under a parent that no longer exists"). It needs a purge of more than one batch. What is under the deleted folder itself is caught: `DeletedIsEmpty` |
| `vault_tree` with `INVARIANT NothingStranded`, `MaxFaults = 1` | | a handler dies in the middle of its purge: what is below the tombstone stays alive |
| `vault_zombie` | `NothingResurrected` | a listing reports an item purged before the answer of an earlier write of it is stored, which puts it back |
| `lock_outbox` with `INVARIANT OffIsClear` in place of its property | `OffIsClear` | a message sealed before the content key is dropped is put after the rewrite has passed (`lock.ts:337`) |
| `lock_keys` | `KeysKept` | the device is locked while `refreshVault` reads the secrets of a key it has acked: `reseal` returns early (`lock.ts:365`), and the plaintext copy of the new keyring is deleted all the same (`401-406`). The key is nowhere and the server has dropped its wrap |
| `lock_keys` with `MaxFaults = 1` | `KeysKept` | also when the page is killed between acking a key and refreshing the envelope, and the lock is then turned off: the older keyring is put back |
| `lock_keys` with `INVARIANT SealedOnly` | `SealedOnly` | a key is adopted while the device is being locked: the keyring it wrote in the clear stays there, under a lock, until the next refresh, against `lock.ts:397-400` ("clearing them here keeps the invariant true no matter which order things happened in") |
| `lock_adopt` | `SecretsKept` | a key is adopted while the lock is being turned off: `refreshVault` deletes the copies `disableLock` has just put back (`lock.ts:401-406` after `338-339`), which then deletes the envelope, and the session and the keyring are nowhere. The window is the rest of the loop over the spaces |
| `lock_adopt` | `KeysKept` in its place | a key adopted while the lock is turned on is in neither place when the page is killed |
| `lock_lag` | `VaultIsCurrent` | two keys are adopted, and the envelope sealed first is stored last: `refreshVault` is not awaited (`lock.ts:460`), so the next start has the older keyring, against `lock.ts:397-400` ("no matter which order things happened in") |
| `pairing_twice` | `JoinsOnce` | two polls in flight both open the package; or the page is killed before it forgets the flow |
| `pairing_twice` with `INVARIANT CancelledStays` in place of its own | `CancelledStays` | a poll in flight joins after the flow was cancelled |
| `pairing_invite` | `RevocationStands` | with one invitation for two machines, a slot that expired is taken again, and a late completion re-activates a device that was revoked (`pairing.ts:189-195`) |
| `pairing_link` with `Reopens = TRUE` | `RevocationStands`, `TokenFits` | a slot expires after its completion and the device is revoked; a late copy of its request reserves the slot again, and another administrator completes it (`pairing.ts:55-68`) |

For the same reason the passing runs name their bounds: `NoSplitBrain` and `KeysFollowLog` are claimed
for a closed roster without a device that joins after an abandoned rotation,
`RevokedLeftBehind` for as long as no rotation that lost leaves a wrap behind, `AckAfterStore` for a device that
does one thing at a time (the theorems of section 4 name the same conditions),
`FileReadable` and `FileMatchesRow` for a reliable network, `RevocationStands` and `TokenFits` for flows with slots of their
own and no late request, and the vault's blob
properties for keys whose deletion raced no write.

## 4. What is proved

All theorems are of the specifications the runs use, for every value of their
constants. Each module assumes what it names (`SpaceAssumption`, `DeliveryAssumption`,
`BlobAssumption`, `VaultAssumption`, `StoreAssumption`, `LockAssumption`, `PairingAssumption`), and TLC
evaluates those assumptions in every run. Each inductive invariant was checked as an
invariant of an instance before it was proved.

### `SpaceKeysProofs`

* `SpaceKeysTypeCorrect`: `TypeOK` always holds. `TypeOK` is inductive as it stands;
  the proof has a lemma per group of actions and a step per action, over lemmas on
  keyrings (`WithEpochType`, `MergedType`), on moving one task (`BecomeType`) and on
  answering a call (`AnswerType`).
* `SpaceKeysWrapsOnlyForActive`: inductive together with `TypeOK`. The lemma
  `ServerSteps` reduces a step to the four that touch the tables; each either
  deposits for active devices only, or revokes and clears that device's rows.
* `SpaceKeysOneKeyPerEpoch`: not inductive alone, since nothing in it says that the
  epoch about to be won has no winner yet. The invariant proved is `OneKeyInv`, which
  adds `WinnersNotAhead`: every committed key is of an epoch the group has reached.
  The swap asks for the previous epoch, so the key it adds is of an epoch above all
  those committed before.
* `SpaceKeysEpochBySteps`: the action property `EpochBySteps`, from `TypeOK` and
  `RotationOutcome`, which says what a batch may do to the group. That the epoch moves by
  one is also in `KeysFollowLog`; this adds that a rotation was owed and is settled.
* `SpaceKeysJoinsAtCurrentEpoch`: of the steps on the Worker (`ServerSteps`) only the batch
  of a pairing registers a device, and its statements are guarded on the epoch.
* `SpaceKeysAckAfterStore`, under `~Overlap` (a device does one thing at a time, as in
  `keys_open`; `keys_overlap` shows what two tasks do to a keyring). The invariant is
  `MailInv`: no wrap is of an epoch beyond the next, a device has one wrap per epoch, and
  each pass satisfies `MailFits`: what it polled is still in the mailbox, what came since
  is of a later epoch, and once it has saved, the epochs it polled are on disk. The second
  part is what makes an ack by *epoch number* safe.
* `SpaceKeysNoSplitBrain`, for a closed roster (`Founders = Devices`; `keys_split` shows what
  a later device can do), with any faults, repeated posts, overlapping tasks and kills. That
  no two devices have different keys of one epoch is far from inductive, because wraps of a
  rotation that lost stay in the mailboxes and are adopted. `SplitInv` says when they exist:
  every wrap and every key an active device has is `Sound`, that is, of an epoch the group
  has reached and then the one that won it, or else the space is `Wedged`, and every active
  device has a wrap of the next epoch, with which any later rotation collides. `CallFits`
  says what the checks of a rotation still guarantee when its batch runs. Two lemmas carry
  it: `LostByRevoked`, that wraps deposited by a swap that lost were sent by a device revoked
  meanwhile, and so for every device left; and `WonUnwedged`, that a rotation which wins met
  no such wrap. `KeySteps` says where every key on a device comes from: its mailbox, its
  pairing, its own fresh key, or what it had. With one active device left there is nobody to
  disagree with (`Alone`).
* `SpaceKeysFollowLog`: for a closed roster, `SpaceKeys` implements `SpaceKeyLog`. Beside
  `SplitInv` it needs `NotFarAhead`: no key a device has, in a keyring, in a task or in what
  it polled, is more than one epoch ahead of the group. Each step is mapped by a lemma: a
  batch that wins is a `Commit`, whose guard is `WonUnwedged` again (`WinExtendsLog`); a
  revocation is a `Leave`, or stutters when the device had gone (`RevokeLeavesLog`); whatever
  a device does for its keys is a `Store` (`ClientFollowsLog`), since every key it then has
  is `Sound`; everything else leaves the log and the rings alone (`LogStep`).
* `KeyLogAgrees` is about the abstract specification: in each of its behaviours two members
  that are left have, up to the log's epoch, keys of the log only. It is the guard of
  `Commit` that makes this inductive.
* `SpaceKeysRevokedLeftBehind`, with the client's retries, for any roster, faults and
  overlap, for as long as no rotation that lost has left a wrap behind
  (`[]LoserLeavesNothing`, the condition of the liveness properties; `keys_secret` shows
  what such a wrap and a second copy of its call can do). `LeftInv` says that the copies of
  a call carry one key for one epoch (`Twins`), and that until the group reaches that epoch
  no table, pairing or device knows the key (`Private`); so what is won after a revocation
  is a key the revoked device has never seen. A rotation which reports success won before
  its device was revoked (`Answered`). `TableSteps` says that under the condition a batch
  either moves the group or deposits nothing, so after one copy has executed the other
  cannot; `FreshUnknown` and `UnknownStep` say how a key becomes known.

### `MessageDeliveryProofs`

* `DeliveryTypeCorrect`, over lemmas on the sequence of rows: `Ranked` (the places in a
  set have the ranks one to its size) gives `AtRows` and `WithoutRows`, that filtering
  rows keeps them rows and keeps ids unique.
* `DeliveryNoLostMessage` and `DeliveryNothingDroppedUnread`, for any number of devices,
  messages, faults, attempts and rotations. Neither is inductive. The invariant `Inv` has
  a part for each place a message is known at. `HistoryInv`: an author's row is never an
  incoming one, and an incoming row was registered (`Cell`); what a device deleted was
  retracted. `ServerInv`: what is stored, called for or in a flush was composed, by its
  author. `PassInv`: a job of a pass knows what the history says, unless the user has
  forgotten the message or a deletion came since, and no message is twice in a pass
  (`PassFits`). `AckInv`: an ack, also one nobody waits for any more, is for a message that
  is complete, unobtainable or to be forgotten (`AckFits`), and a job that is acking has its
  one call. `AskInv`: a tombstone about to be queued is this device's. `CoverInv`: everybody a stored, answered or "sent" message is meant for is
  still offered it or has registered it (`Covered`).
* The two meet in `Leaving`: a delivery row goes because its device left or because the
  message is settled there, and then the device has registered it, or it was retracted.
  `CoverKept` follows, that what is covered stays covered, which is what lets "conflict"
  count as sent: the duplicate check finds a stored row, and a stored row is covered. A
  device that joins later is not among those the message is meant for (`Expected`), since
  the recipients may have been read before.
* `DeliveryFileMatchesRow` and `DeliveryFileReadable`, on two conditions. One is
  `PostsAreAnswered`: no call that posts a message with a file is given up, or its page
  closed, before its answer is saved. The other is `StaleUploadsEnd`: an upload that was
  given up has landed, been discarded or vanished when the message is posted.
  `delivery_mixed` shows that both are needed. Everything else may fail, for any number of
  devices, messages, rotations and attempts: uploads break off, are discarded and tried
  again, or are given up and land over a later attempt before the post; downloads, acks and
  posts of messages without a file fail, and pages close at any other moment. `PutsInv`
  says which upload a flush waits for. The invariant is `FileInv`, beside `Inv`. `FilePosts` says that the one call of a file message is the
  one its flush waits for, and that until it is answered what it describes is in R2.
  `Once` says that a message which may still be stored (`Pending`) is known to nobody but
  its author (`Touched`), so it is stored at most once and its file is not uploaded again
  afterwards. From it, `RowsFit`: a stored row describes its file, which is not to be
  deleted, and so does every copy of the row in a batch or a job; and `NoneLost`: nobody
  has given up a file that is still offered. The proofs go through what a step can do to
  one place at a time: `TableMoves` (rows leave, or one is added), `OwnRow` (the author's
  row, which also gives `Sent` above), `PassMoves`, `PendingStep` and `TouchedStep`.

### `VaultServerProofs`

* `VaultTypeCorrect`, `VaultMetaOpensContent`, `VaultNoEditLost`. The invariant is
  `VaultInv`: the counters bound the rows' numbers, which are distinct (`Table`), and
  each call satisfies `CallInv`. What matters there is `Aged`: a row a request read is
  still what the table has, as far as edits and content go, for as long as the
  revision is the same. Without it a write guarded on the revision could not be shown
  to keep the edits it did not read. `Once` says that an id being created is neither
  forgotten nor about to be. The lemma `RowsLive` sums up what one step may do to a
  row: leave it, create, edit, re-seal, bury or forget it.
* `VaultChangesAreListed`: every step of the Worker is a `Change` of `VaultListing` or
  leaves the vault as it was. This is the server's half of the refinement; it rests on
  each changed row getting a number of its own above all those given out (`Numbered`).

### `VaultTreeProofs`

* `Subtree` is a walk of as many steps as there are items, and so a recursive function.
  `UnderIs` replaces it: what is under an item is the least set with the item that is
  `Closed` under "in a row of the set". Its proof needs induction over the steps, which
  `LeastNatural` gives (a set of naturals has a least element, from the library's
  `WFMin`): there is such a function (`WithinExists`), and because a step that adds
  nothing is the last to add anything and each of the others adds an item, it is closed
  after as many steps as there are items. `SubtreeIsUnder` makes it a function of the
  table, so that two states can be compared.
* `VaultNoCycle`. `NoCycle` is not inductive: an item may be created under an id that
  rows from another life are in. `Placed` says that every row is in a row that is or was,
  so nothing is in an id never used. A step then leaves the tree alone, takes rows away
  (`Fewer`), adds a leaf (`Added`) or moves one row to a place that is not under it
  (`Moved`): `TreeStep`. A cycle after a move would go through the new parent, and would
  have made that parent an item under the one that moves.
* `VaultDeletedIsEmpty`. The invariant `Deletes` says that what a deletion is about is or
  was a row, and that it is empty once the last walk found it so. `EmptyStays` is why it
  stays so: whatever comes to life or moves lands in a live folder, and nothing under the
  deleted item is one. `OnlyMoves` says how a call begins, goes on and ends.
* `VaultPurgedOnlyInside`. The guard of the batch gives that the item is under what its
  purge is about. For a device's deletion that is the property; for the cron `Deletes`
  says that the item it has claimed is still a tombstone, since only the cron forgets
  tombstones and not while it purges (`GoneStays`).

### `VaultSyncProofs`

* `VaultDiskFollows` and `VaultMemoryFollows`: both copies of a device implement
  `VaultListing`, for any vault, any page size and any number of devices, leaves,
  reloads and failed listings. They are proved under `~PurgeOvertakes`, which
  `vault_zombie` shows to be needed, and use that a listing takes less time than a
  tombstone is kept (`Remembered`, part of `SyncNext`).
* The refinement needs to know that a copy is right up to its cursor, and a step of a
  pass changes both. The invariant is `SyncInv`. `Copies` says that each copy, also one
  being loaded or opened, is `Right` up to its cursor. `PassFits` says what a pass has
  collected: of every item not changed since where the pass is, `Knows` that it has the
  last version or that the copy in memory has it, and `Mourned` that an item it listed
  and that died since cannot be forgotten before the pass lists its tombstone. `Awaited`
  says that the answer of an own write is of an item that is there, or that no listing
  has reported gone; this is where the hypothesis comes in (`StoreAwaited`). `FormerInv`
  says that the transaction of a space that was left finds the space closed and may be
  written (`Storable`): it takes the copy on disk further, to what is right. `History`
  says that numbers are distinct and that forgotten rows are below the floor.
* `WorkerKeeps` covers every step of the Worker at once, from `RowsLive`. For the
  device's own steps, `PageFits` shows that a page extends what a pass knows (a page is
  everything listed up to its last number, `PageStarts`), `MergedRight` that storing a
  pass takes a copy to the pass's cursor, and `AppliedRight` that an answer does not
  undo it.

### `AtRestLockProofs`

* `AtRestLockIndexCovers`: a message that is queued is in the index, or the index is
  known to be incomplete. The invariant `IndexInv` adds that what a flush has seen as
  stale was not queued when it looked (`SeenIsDone`) and that a complete scan and the
  ids added since cover what is queued (`ScanCovers`). Nothing in it mentions the
  outbox lock: the second look of `dropStale` and the merge of `rebuildOutboxIndex`
  are enough, also if the lock is stolen.
* `AtRestLockSecretsKept`, under `~Overlaps`, which `lock_adopt` shows to be needed. The
  invariant is `SecretsInv`: while the lock is turned on, the plaintext stays until the
  envelope holds the same keyring (`Enabling`); while it is turned off, the envelope stays
  until the plaintext is back (`Disabling`); in between one of the two is whole, and what
  a refresh has sealed, or is to clear, is covered by an envelope.
* `AtRestLockRingIsStored`, under `~Overlaps`, for any number of rotations and refreshes,
  where the run has one. `RingInv` follows each key that is not in `cut`: one that the
  stored envelope has is in everything that may be sealed or stored next
  (`VaultReaches`, `Everywhere`); one that the page has, or that the server dropped the
  wrap of, is in the envelope, or comes with the adoption or the only refresh there is
  (`VaultCovers`, `AckedKept`, `InFlight`); without an envelope the keyring in the clear
  is the one (`ClearHolds`). A key leaves this chain only by a lock, a kill or a second
  refresh in between, and those are the steps that put it into `cut`.

### `PairingSlotsProofs`

* `PairingTokenFits` and `PairingRevocationStands`, under `OwnSlots` (no two flows
  share a slot) and `~Reopens`, which `pairing_invite` and the row after it show to be
  needed. The invariant `PairInv`
  adds that a slot which has been filled is never open again for the same device
  (`Registered`), because a slot is reserved for a flow that begins (`Begun`), or again for one whose device is not registered; that a
  package in a slot is that of the call which registered its device (`Packaged`); and
  that every poll and every space carries no other token (`Carried`).

### `BlobAccountingProofs`

* `BlobVaultClaimsHold` and `BlobObjectHasRow`, for any number of attempts at a key, in
  both stores. For the vault, the invariant follows the life of a key whose deletion raced
  no write: unused; being received, in attempts that overlap, while no deletion of it has
  reserved its row (`Receives`); and then kept or deleted, with its row reserved before
  its object goes and its object gone before its row does (`Stays`). That an owned key is
  counted needs none of it (`Item`). For message files it says that a file without a row
  is about to get it back, to be deleted, or left to expire (`File`).
* `BlobVaultQuotaHeld`. An object has a row (`Stays`), so it is enough that what is counted
  fits (`Capped`), of the keys whose deletion raced no write (`Settled`). `CountedStep` says
  that a step adds nothing to them unless the cap admits it: a record finds the row its
  upload reserved (`Receives`). The rest is arithmetic: `Bytes` is a fold over a finite
  set, whose defining function `SumsExist` and `SumsAgree` supply; it does not depend on
  the order (`BytesWithout`) and a part holds no more than the whole (`BytesMonotone`), by
  induction on the number of keys (`LeastSet`).

### Model-checked only

The liveness properties (fairness and ENABLED are outside the prover).

## 5. What is left

1. Roles against revocations (the owner and the last administrator), and the space name
   and the expiry of messages and tombstones over a model of clocks.
2. View-once messages, and several tabs of one device.
