----------------------------- MODULE SpaceKeys -----------------------------
(***************************************************************************)
(* The life of a space's GroupKey: how the Worker and the devices agree on *)
(* one key per epoch while devices are revoked, paired and offline.        *)
(*                                                                         *)
(* Server side (apps/worker/src/routes/keys.ts, devices.ts, pairing.ts):   *)
(* every D1 batch is one step, and a handler that reads before its batch   *)
(* takes one step per read that decides something.  Client side            *)
(* (apps/web/src/sync/rekey.ts, sync.ts, packages/client/src/keyring.ts):  *)
(* a device has a keyring in memory and a keyring in IndexedDB, and two    *)
(* tasks that may run at once, the sync pass and the revoke action, each   *)
(* working from the keyring it read when it started.                       *)
(*                                                                         *)
(* A GroupKey is an element of Keys; wrapping one for a device is the row  *)
(* that carries it.  A key that nobody holds any more may be minted again, *)
(* which only renames a fresh key and keeps the set finite.                *)
(***************************************************************************)
EXTENDS Naturals, FiniteSets

CONSTANTS
  Devices,    \* every device id of the instance
  Founders,   \* the devices in the space at the start
  Owner,      \* the device whose role is "owner"
  Admins,     \* the devices whose role is "owner" or "admin"
  SendOnly,   \* the devices with send_only = 1 (the CLI)
  Revocable,  \* the devices someone decides to revoke
  OwedAtStart,\* whether a rotation may, or may not, be owed at the start
  Keys,       \* names for GroupKeys
  FirstKey,   \* the key of INITIAL_KEY_EPOCH
  MaxTries,   \* attempts of one API request (retries + 1)
  Overlap,    \* may a device's sync pass and its revoke action run at once?
  MaxFaults   \* bound on lost replies, give-ups and page closures

ASSUME SpaceAssumption ==
  /\ Owner \in Admins /\ Admins \subseteq Founders /\ Founders \subseteq Devices
  /\ Owner \notin SendOnly /\ Revocable \subseteq Devices
  /\ OwedAtStart \subseteq BOOLEAN
  /\ Keys \subseteq Nat /\ FirstKey \in Keys
  /\ MaxTries \in Nat \ {0} /\ Overlap \in BOOLEAN /\ MaxFaults \in Nat

VARIABLES
  groupEpoch,       \* groups.key_epoch
  rotationPending,  \* groups.rotation_pending
  status,           \* devices: "new" (no row), "active", "revoked" (revoked_at)
  keyEpoch,         \* devices.key_epoch
  kd,               \* key_distribution rows
  requests,         \* rotateKey calls: on their way, executing, or answered
  revoking,         \* revokeDevice calls that passed their checks
  pairings,         \* completePairing calls that passed their checks
  keyring,          \* the keyring signal of each device's page
  stored,           \* the keyring in each device's IndexedDB
  task,             \* the sync pass and the revoke action of each device
  committed,        \* history: the keys that won the compare-and-swap
  revokedAt,        \* history: the group's epoch when a device was revoked
  faults            \* network failures and page closures so far

server  == <<groupEpoch, rotationPending, status, keyEpoch, kd>>
client  == <<keyring, stored, task>>
history == <<committed, revokedAt>>
vars == <<server, requests, revoking, pairings, client, history, faults>>

\* Mutant: epochs counted from zero.
InitialEpochZero == 0

INITIAL_KEY_EPOCH == 1
Epochs == Nat \ {0}
Kinds  == {"sync", "revoke"}

(***************************************************************************)
(* Keyrings are maps from epochs to keys, kept as sets of entries.         *)
(***************************************************************************)
Entry(e, k) == [epoch |-> e, key |-> k]
EpochsOf(S) == {x.epoch : x \in S}

\* The entries new content may be encrypted with: the newest epoch held.
Current(ring) == {x \in ring : \A y \in ring : y.epoch <= x.epoch}

withEpoch(ring, e, k) == {x \in ring : x.epoch # e} \cup {Entry(e, k)}

\* The deliveries are merged oldest first; an epoch already held is skipped.
Merged(ring, rows) ==
  ring \cup {Entry(x.epoch, x.key) : x \in {y \in rows : y.epoch \notin EpochsOf(ring)}}

\* The epoch of the newest delivery: the one the ack names.
Highest(rows) == {e \in EpochsOf(rows) : \A f \in EpochsOf(rows) : f <= e}

(***************************************************************************)
(* Tables and calls.                                                       *)
(***************************************************************************)
Row(d, e, k) == [device |-> d, epoch |-> e, key |-> k]
Active == {d \in Devices : status[d] = "active"}

Idle == [phase |-> "idle", ring |-> {}, rows |-> {}, due |-> FALSE,
         epoch |-> 0, key |-> FirstKey, try |-> 0]
Dead == [Idle EXCEPT !.phase = "dead"]
At(d, kind, phase) == task[d][kind].phase = phase
Rests(d, kind) == At(d, kind, "idle") \/ At(d, kind, "dead")
Become(d, kind, t) == task' = [task EXCEPT ![d][kind] = t]

Answers == {"ok", "refused", "error"}
Awaited(q) ==
  LET t == task[q.by][q.kind] IN t.phase = "rotating" /\ t.key = q.key /\ t.try = q.try

\* Answering a call: the answer reaches the client only if it still waits for it.
Answer(q, code) ==
  requests' = (requests \ {q}) \cup (IF Awaited(q) THEN {[q EXCEPT !.stage = code]} ELSE {})

\* What is left of the calls when a task of d stops waiting for its answer.
Unanswered(d, kinds) ==
  {q \in requests : ~(q.by = d /\ q.kind \in kinds /\ q.stage \in Answers)}

\* Every key someone may still use: a new key is none of these.
KeysOf(S)     == {x.key : x \in S}
TaskKeys(t)   == KeysOf(t.ring \cup t.rows) \cup {t.key}
DeviceKeys(d) ==
  KeysOf(keyring[d] \cup stored[d]) \cup UNION {TaskKeys(task[d][kind]) : kind \in Kinds}
KeysInUse ==
  KeysOf(kd \cup requests \cup pairings \cup committed) \cup UNION {DeviceKeys(d) : d \in Devices}
Fresh(k) == k \in Keys \ KeysInUse /\ \A j \in Keys \ KeysInUse : k <= j

-----------------------------------------------------------------------------
(***************************************************************************)
(* A space whose founders all hold the first key.  A rotation may already  *)
(* be owed: a device outside this instance was revoked before.             *)
(***************************************************************************)
Init ==
  /\ groupEpoch = INITIAL_KEY_EPOCH
  /\ rotationPending \in OwedAtStart
  /\ status = [d \in Devices |-> IF d \in Founders THEN "active" ELSE "new"]
  /\ keyEpoch = [d \in Devices |-> INITIAL_KEY_EPOCH]
  /\ kd = {}
  /\ requests = {} /\ revoking = {} /\ pairings = {}
  /\ keyring = [d \in Devices |->
                  IF d \in Founders THEN {Entry(INITIAL_KEY_EPOCH, FirstKey)} ELSE {}]
  /\ stored = keyring
  /\ task = [d \in Devices |-> [kind \in Kinds |-> Idle]]
  /\ committed = {Entry(INITIAL_KEY_EPOCH, FirstKey)}
  /\ revokedAt = [d \in Devices |-> 0]
  /\ faults = 0

-----------------------------------------------------------------------------
(***************************************************************************)
(* The sync pass (syncNow).                                                *)
(***************************************************************************)
\* The pass reads the keyring signal once, then flushes the outbox.
SyncBegin(d) ==
  /\ At(d, "sync", "idle") /\ keyring[d] # {}
  /\ Overlap \/ Rests(d, "revoke")
  /\ Become(d, "sync", [Idle EXCEPT !.phase = "begun", !.ring = keyring[d]])
  /\ UNCHANGED <<server, requests, revoking, pairings, keyring, stored, history, faults>>

\* GET /messages/pending: the rows waiting for this device and the debt flag.
\* A revoked device is told so, and stops for good.
PendingMessages(d) ==
  /\ At(d, "sync", "begun")
  /\ Become(d, "sync",
       IF status[d] # "active" THEN Dead
       ELSE [task[d]["sync"] EXCEPT !.phase = "polled",
                                    !.rows = {x \in kd : x.device = d},
                                    !.due = rotationPending])
  /\ UNCHANGED <<server, requests, revoking, pairings, keyring, stored, history, faults>>

\* Mutant: the ack goes out without the save.
AdoptWithoutSave(d) ==
  LET t == task[d]["sync"] IN
  /\ t.phase = "polled" /\ t.rows # {}
  /\ Become(d, "sync", [t EXCEPT !.phase = "saved", !.ring = Merged(t.ring, t.rows)])
  /\ UNCHANGED <<server, requests, revoking, pairings, keyring, stored, history, faults>>

\* adoptPendingKeys up to its save: persist before acking.
AdoptPendingKeys(d) ==
  LET t == task[d]["sync"] IN
  /\ t.phase = "polled" /\ t.rows # {}
  /\ stored' = [stored EXCEPT ![d] = Merged(t.ring, t.rows)]
  /\ Become(d, "sync", [t EXCEPT !.phase = "saved", !.ring = Merged(t.ring, t.rows)])
  /\ UNCHANGED <<server, requests, revoking, pairings, keyring, history, faults>>

\* Mutant: the ack empties the mailbox, whatever epoch it names.
AckEmptiesMailbox(d, e) ==
  /\ keyEpoch' = [keyEpoch EXCEPT ![d] = IF keyEpoch[d] < e THEN e ELSE keyEpoch[d]]
  /\ kd' = {x \in kd : x.device # d}
  /\ UNCHANGED <<groupEpoch, rotationPending, status>>

\* What POST /keys/:epoch/ack does to the tables.
AckBatch(d, e) ==
  /\ keyEpoch' = [keyEpoch EXCEPT ![d] = IF keyEpoch[d] < e THEN e ELSE keyEpoch[d]]
  /\ kd' = {x \in kd : ~(x.device = d /\ x.epoch <= e)}
  /\ UNCHANGED <<groupEpoch, rotationPending, status>>

AckAccepted(d, e) == status[d] = "active" /\ e <= groupEpoch

\* The ack, and applyKeyring once it succeeded: a refused ack throws, so the
\* pass ends with the new keys on disk but not in the keyring signal.
AckKey(d) ==
  LET t == task[d]["sync"] IN
  /\ t.phase = "saved"
  /\ \E e \in Highest(t.rows) :
       IF AckAccepted(d, e)
       THEN /\ AckBatch(d, e)
            /\ keyring' = [keyring EXCEPT ![d] = t.ring]
            /\ Become(d, "sync", [t EXCEPT !.phase = "adopted", !.rows = {}])
       ELSE /\ Become(d, "sync", IF status[d] = "active" THEN Idle ELSE Dead)
            /\ UNCHANGED <<server, keyring>>
  /\ UNCHANGED <<requests, revoking, pairings, stored, history, faults>>

\* The ack's attempts all fail on the network, executed or not.
AckKeyFails(d) ==
  LET t == task[d]["sync"] IN
  /\ t.phase = "saved" /\ faults < MaxFaults
  /\ \/ \E e \in Highest(t.rows) : AckAccepted(d, e) /\ AckBatch(d, e)
     \/ UNCHANGED server
  /\ Become(d, "sync", Idle)
  /\ faults' = faults + 1
  /\ UNCHANGED <<requests, revoking, pairings, keyring, stored, history>>

\* The keys are dealt with: this pass may rotate.
KeysSettled(d) ==
  LET t == task[d]["sync"] IN t.phase = "adopted" \/ (t.phase = "polled" /\ t.rows = {})

\* No rotation is owed, or this device never rotates: the pass ends.
SyncEnd(d) ==
  /\ KeysSettled(d)
  /\ ~task[d]["sync"].due \/ d \in SendOnly
  /\ Become(d, "sync", Idle)
  /\ UNCHANGED <<server, requests, revoking, pairings, keyring, stored, history, faults>>

-----------------------------------------------------------------------------
(***************************************************************************)
(* rotateGroupKey, run by the sync pass and by the revoke action.          *)
(***************************************************************************)
\* Mutant: only the device that revoked performs the rotation.
OnlyRevokerRotates(d, kind) == kind = "revoke" /\ At(d, "revoke", "due")

MayRotate(d, kind) ==
  \/ kind = "sync" /\ KeysSettled(d) /\ task[d]["sync"].due /\ d \notin SendOnly
  \/ kind = "revoke" /\ At(d, "revoke", "due")

\* listDevices, the new key, its wraps, and the POST on its way.
RotateGroupKey(d, kind) ==
  /\ MayRotate(d, kind)
  /\ status[d] = "active" /\ rotationPending
  /\ \E k \in Keys :
       LET call == [by |-> d, kind |-> kind, key |-> k, epoch |-> groupEpoch + 1,
                    wraps |-> Active \ {d}, try |-> 1, stage |-> "sent"]
       IN
       /\ Fresh(k)
       /\ requests' = requests \cup {call}
       /\ Become(d, kind, [Idle EXCEPT !.phase = "rotating", !.ring = task[d][kind].ring,
                                       !.epoch = call.epoch, !.key = k, !.try = 1])
  /\ UNCHANGED <<server, revoking, pairings, keyring, stored, history, faults>>

\* listDevices is refused, or reports that nothing is owed any more.
RotateNothingDue(d, kind) ==
  /\ MayRotate(d, kind)
  /\ status[d] # "active" \/ ~rotationPending
  /\ Become(d, kind, IF status[d] = "active" \/ kind = "revoke" THEN Idle ELSE Dead)
  /\ UNCHANGED <<server, requests, revoking, pairings, keyring, stored, history, faults>>

\* authenticate and the checks on its snapshot.
RotateKeyAuth(q) ==
  /\ q \in requests /\ q.stage = "sent"
  /\ IF /\ status[q.by] = "active" /\ rotationPending
        /\ keyEpoch[q.by] = groupEpoch /\ q.epoch = groupEpoch + 1
     THEN requests' = (requests \ {q}) \cup {[q EXCEPT !.stage = "authed"]}
     ELSE Answer(q, "refused")
  /\ UNCHANGED <<server, revoking, pairings, client, history, faults>>

\* activeDevices and the exact-set check on the wraps.
RotateKeyCheck(q) ==
  /\ q \in requests /\ q.stage = "authed"
  /\ IF q.wraps = Active \ {q.by}
     THEN requests' = (requests \ {q}) \cup {[q EXCEPT !.stage = "checked"]}
     ELSE Answer(q, "refused")
  /\ UNCHANGED <<server, revoking, pairings, client, history, faults>>

\* Mutants: wraps deposited for whoever is named; no primary key; a swap that
\* is not one; a swap that forgets to check the rotating device.
DepositedForAll(q) ==
  {Row(d, q.epoch, q.key) : d \in {w \in q.wraps : groupEpoch = q.epoch - 1}}
NoPrimaryKey(q) == FALSE
SwapUnguarded(q) == q.by \in Active
SwapByAnyone(q) ==
  /\ groupEpoch = q.epoch - 1 /\ rotationPending
  /\ \A d \in Active \ {q.by} :
       \E x \in kd \cup DepositedForAll(q) : x.device = d /\ x.epoch = q.epoch

\* The batch, statement by statement.
Deposited(q) ==
  {Row(d, q.epoch, q.key) : d \in {w \in q.wraps \cap Active : groupEpoch = q.epoch - 1}}
PrimaryKeyTaken(q) ==
  \E x \in kd, y \in Deposited(q) : x.device = y.device /\ x.epoch = y.epoch
EpochAfterOwnUpdate(q) ==
  IF q.by \in Active /\ keyEpoch[q.by] = q.epoch - 1 THEN q.epoch ELSE keyEpoch[q.by]
SwapSucceeds(q) ==
  /\ groupEpoch = q.epoch - 1 /\ rotationPending
  /\ q.by \in Active /\ EpochAfterOwnUpdate(q) = q.epoch
  /\ \A d \in Active \ {q.by} :
       \E x \in kd \cup Deposited(q) : x.device = d /\ x.epoch = q.epoch

\* A row that already exists aborts the whole batch; a compare-and-swap that
\* changes nothing does not, and leaves the other statements' rows behind.
RotateKeyBatch(q) ==
  /\ q \in requests /\ q.stage = "checked"
  /\ IF PrimaryKeyTaken(q)
     THEN Answer(q, "error") /\ UNCHANGED <<server, committed>>
     ELSE /\ kd' = kd \cup Deposited(q)
          /\ keyEpoch' = [keyEpoch EXCEPT ![q.by] = EpochAfterOwnUpdate(q)]
          /\ UNCHANGED status
          /\ IF SwapSucceeds(q)
             THEN /\ groupEpoch' = q.epoch /\ rotationPending' = FALSE
                  /\ committed' = committed \cup {Entry(q.epoch, q.key)}
                  /\ Answer(q, "ok")
             ELSE /\ UNCHANGED <<groupEpoch, rotationPending, committed>>
                  /\ Answer(q, "refused")
  /\ UNCHANGED <<revoking, pairings, client, revokedAt, faults>>

\* The answer arrives.  Only an accepted key is adopted; a 500 is retried.
RotateAnswered(d, kind) ==
  LET t == task[d][kind] IN
  /\ t.phase = "rotating"
  /\ \E q \in requests :
       /\ q.by = d /\ q.kind = kind /\ q.stage \in Answers /\ Awaited(q)
       /\ IF q.stage = "error" /\ q.try < MaxTries
          THEN /\ requests' = (requests \ {q})
                                \cup {[q EXCEPT !.stage = "sent", !.try = q.try + 1]}
               /\ Become(d, kind, [t EXCEPT !.try = q.try + 1])
               /\ UNCHANGED <<keyring, stored>>
          ELSE /\ requests' = requests \ {q}
               /\ Become(d, kind, Idle)
               /\ IF q.stage = "ok"
                  THEN /\ stored' = [stored EXCEPT ![d] = withEpoch(t.ring, q.epoch, q.key)]
                       /\ keyring' = [keyring EXCEPT ![d] = withEpoch(t.ring, q.epoch, q.key)]
                  ELSE UNCHANGED <<keyring, stored>>
  /\ UNCHANGED <<server, revoking, pairings, history, faults>>

\* The connection fails while the call is out: the same body is posted again,
\* whether or not the first one is still executing, until the tries run out.
RotateConnectionLost(d, kind) ==
  LET t == task[d][kind] IN
  /\ t.phase = "rotating" /\ faults < MaxFaults
  /\ faults' = faults + 1
  /\ IF t.try < MaxTries
     THEN /\ \E q \in requests :
               /\ q.by = d /\ q.kind = kind /\ Awaited(q)
               /\ requests' = Unanswered(d, {kind})
                                \cup {[q EXCEPT !.stage = "sent", !.try = q.try + 1]}
          /\ Become(d, kind, [t EXCEPT !.try = t.try + 1])
     ELSE /\ requests' = Unanswered(d, {kind})
          /\ Become(d, kind, Idle)
  /\ UNCHANGED <<server, revoking, pairings, keyring, stored, history>>

-----------------------------------------------------------------------------
(***************************************************************************)
(* Revoking a device (the action, then revokeDevice on the server).        *)
(***************************************************************************)
\* authenticate, requireAdmin and the checks on the target.
RevokeAuth(d, target) ==
  /\ At(d, "revoke", "idle") /\ keyring[d] # {}
  /\ Overlap \/ Rests(d, "sync")
  /\ d \in Active \cap Admins
  /\ target \in (Active \cap Revocable) \ {d, Owner}
  /\ target \in Admins => d = Owner
  /\ revoking' = revoking \cup {[by |-> d, target |-> target]}
  /\ Become(d, "revoke", [Idle EXCEPT !.phase = "revoking"])
  /\ UNCHANGED <<server, requests, pairings, keyring, stored, history, faults>>

\* The batch.  rotateNow follows, from the keyring signal of that moment.
RevokeBatch(r) ==
  /\ r \in revoking
  /\ revoking' = revoking \ {r}
  /\ status' = [status EXCEPT ![r.target] = "revoked"]
  /\ revokedAt' = [revokedAt EXCEPT ![r.target] = IF @ = 0 THEN groupEpoch ELSE @]
  /\ kd' = {x \in kd : x.device # r.target}
  /\ rotationPending' = TRUE
  /\ IF At(r.by, "revoke", "revoking")
     THEN Become(r.by, "revoke", [Idle EXCEPT !.phase = "due", !.ring = keyring[r.by]])
     ELSE UNCHANGED task
  /\ UNCHANGED <<groupEpoch, keyEpoch, requests, pairings, keyring, stored, committed, faults>>

(***************************************************************************)
(* Pairing, as far as keys are concerned: the adding device hands over its *)
(* current key; the batch re-checks the epoch and that the slot is open.   *)
(***************************************************************************)
PairAuth(d, joiner) ==
  /\ d \in Active \cap Admins
  /\ status[joiner] = "new"
  /\ \E x \in Current(keyring[d]) :
       /\ x.epoch = groupEpoch
       /\ pairings' = pairings \cup {[joiner |-> joiner, epoch |-> x.epoch, key |-> x.key]}
  /\ UNCHANGED <<server, requests, revoking, client, history, faults>>

\* Mutant: the batch trusts the epoch check made before it.
PairWithoutEpochGuard(p) ==
  /\ p \in pairings
  /\ pairings' = pairings \ {p}
  /\ IF status[p.joiner] = "new"
     THEN /\ status' = [status EXCEPT ![p.joiner] = "active"]
          /\ keyEpoch' = [keyEpoch EXCEPT ![p.joiner] = p.epoch]
          /\ keyring' = [keyring EXCEPT ![p.joiner] = {Entry(p.epoch, p.key)}]
          /\ stored' = [stored EXCEPT ![p.joiner] = {Entry(p.epoch, p.key)}]
     ELSE UNCHANGED <<status, keyEpoch, keyring, stored>>
  /\ UNCHANGED <<groupEpoch, rotationPending, kd, requests, revoking, task, history, faults>>

PairBatch(p) ==
  /\ p \in pairings
  /\ pairings' = pairings \ {p}
  /\ IF groupEpoch = p.epoch /\ status[p.joiner] = "new"
     THEN /\ status' = [status EXCEPT ![p.joiner] = "active"]
          /\ keyEpoch' = [keyEpoch EXCEPT ![p.joiner] = p.epoch]
          /\ keyring' = [keyring EXCEPT ![p.joiner] = {Entry(p.epoch, p.key)}]
          /\ stored' = [stored EXCEPT ![p.joiner] = {Entry(p.epoch, p.key)}]
     ELSE UNCHANGED <<status, keyEpoch, keyring, stored>>
  /\ UNCHANGED <<groupEpoch, rotationPending, kd, requests, revoking, task, history, faults>>

\* The page is closed and opened again: only IndexedDB survives.
Reload(d) ==
  /\ faults < MaxFaults /\ stored[d] # {}
  /\ faults' = faults + 1
  /\ keyring' = [keyring EXCEPT ![d] = stored[d]]
  /\ task' = [task EXCEPT ![d] =
                [kind \in Kinds |-> IF task[d][kind].phase = "dead" THEN Dead ELSE Idle]]
  /\ requests' = Unanswered(d, Kinds)
  /\ UNCHANGED <<server, revoking, pairings, stored, history>>

-----------------------------------------------------------------------------
Sync(d) ==
  \/ SyncBegin(d) \/ PendingMessages(d) \/ AdoptPendingKeys(d)
  \/ AckKey(d) \/ SyncEnd(d)
Rotation(d, kind) ==
  RotateGroupKey(d, kind) \/ RotateNothingDue(d, kind) \/ RotateAnswered(d, kind)
RotateKey(q) == RotateKeyAuth(q) \/ RotateKeyCheck(q) \/ RotateKeyBatch(q)

Next ==
  \/ \E d \in Devices : Sync(d) \/ AckKeyFails(d) \/ Reload(d)
  \/ \E d \in Devices, kind \in Kinds : Rotation(d, kind) \/ RotateConnectionLost(d, kind)
  \/ \E q \in requests : RotateKey(q)
  \/ \E d, other \in Devices : RevokeAuth(d, other) \/ PairAuth(d, other)
  \/ \E r \in revoking : RevokeBatch(r)
  \/ \E p \in pairings : PairBatch(p)

Spec == Init /\ [][Next]_vars

(***************************************************************************)
(* Every device keeps its page open: the poll timer keeps starting passes, *)
(* a task that started goes on, and the Worker finishes what it executes.  *)
(* Nobody is obliged to revoke or to pair.                                 *)
(***************************************************************************)
Fairness ==
  /\ \A d \in Devices :
       /\ WF_vars(Sync(d))
       /\ \A kind \in Kinds : WF_vars(Rotation(d, kind))
       /\ WF_vars(\E q \in requests : q.by = d /\ RotateKey(q))
  /\ WF_vars(\E r \in revoking : RevokeBatch(r))
FairSpec == Spec /\ Fairness

-----------------------------------------------------------------------------
Entries == [epoch : Epochs, key : Keys]
Rows    == [device : Devices, epoch : Epochs, key : Keys]
Phases  == {"idle", "begun", "polled", "saved", "adopted", "revoking", "due", "rotating", "dead"}
Tasks   == [phase : Phases, ring : SUBSET Entries, rows : SUBSET Rows, due : BOOLEAN,
            epoch : Nat, key : Keys, try : Nat]
Calls   == [by : Devices, kind : Kinds, key : Keys, epoch : Epochs, wraps : SUBSET Devices,
            try : Nat, stage : {"sent", "authed", "checked"} \cup Answers]

\* The tables, calls, keyrings and tasks have the shapes the code gives them.
TypeOK ==
  /\ groupEpoch \in Epochs /\ rotationPending \in BOOLEAN
  /\ status \in [Devices -> {"new", "active", "revoked"}]
  /\ keyEpoch \in [Devices -> Epochs]
  /\ kd \subseteq Rows
  /\ requests \subseteq Calls
  /\ revoking \subseteq [by : Devices, target : Devices]
  /\ pairings \subseteq [joiner : Devices, epoch : Epochs, key : Keys]
  /\ keyring \in [Devices -> SUBSET Entries]
  /\ stored \in [Devices -> SUBSET Entries]
  /\ task \in [Devices -> [Kinds -> Tasks]]
  /\ committed \subseteq Entries
  /\ revokedAt \in [Devices -> Nat]
  /\ faults \in Nat

\* A wrapped key never waits for a device that was revoked or never joined:
\* rotateKey deposits for active recipients only and revokeDevice clears the
\* mailbox in the batch that revokes, however their batches interleave.
WrapsOnlyForActive == \A x \in kd : status[x.device] = "active"

\* Rotations are serialized: an epoch has one winning key, however many devices
\* race for it (docs/security.md, "cannot create competing current epochs").
OneKeyPerEpoch == \A x, y \in committed : x.epoch = y.epoch => x.key = y.key

\* Two active devices never store different keys for an epoch the group has
\* reached (keys.ts, "never a split brain").
NoSplitBrain ==
  \A d, e \in Active : \A x \in stored[d], y \in stored[e] :
    x.epoch = y.epoch /\ x.epoch <= groupEpoch => x.key = y.key

\* What a revocation is for: a key that won the swap after a device was revoked
\* is not held by that device (keys.ts, "a revoked device cannot read anything
\* sent from now on").
RevokedLeftBehind ==
  \A d \in Devices : status[d] = "revoked" =>
    \A x \in committed \cap (stored[d] \cup keyring[d]) : x.epoch <= revokedAt[d]

\* An active device that lacks the group's key can still get it: its wrap waits
\* in the mailbox, or it minted the key and the answer is on its way.
Reaches(d, x) ==
  \/ x \in stored[d]
  \/ Row(d, x.epoch, x.key) \in kd
  \/ \E q \in requests : q.by = d /\ q.stage = "ok" /\ Entry(q.epoch, q.key) = x
NoneStranded ==
  \A d \in Active : \A x \in committed : x.epoch = groupEpoch => Reaches(d, x)

\* A rotation that did not win leaves no wrapped key behind: nothing waits for
\* an epoch the group has not reached (keys.test.ts, "no blob from it survives").
LoserLeavesNothing == \A x \in kd : x.epoch <= groupEpoch

\* The server drops an active device's wrap only when that device has stored a
\* key of that epoch (rekey.ts, "persist before acking").
AckAfterStore ==
  [][\A x \in kd \ kd' : status'[x.device] = "active" =>
        x.epoch \in EpochsOf(stored[x.device])]_vars

\* The group's epoch moves by exactly one, and a move settles a rotation that was
\* owed (migrations/0005, "bumped by exactly one per rotation").
EpochBySteps ==
  [][groupEpoch' # groupEpoch =>
        groupEpoch' = groupEpoch + 1 /\ rotationPending /\ ~rotationPending']_vars

\* A device is registered with the key of the epoch the group is in at that
\* moment (pairing.ts, "never be registered with a stale wrapped key").
JoinsAtCurrentEpoch ==
  [][\A d \in Devices : status[d] = "new" /\ status'[d] = "active" =>
        keyEpoch'[d] = groupEpoch' /\ EpochsOf(stored'[d]) = {groupEpoch'}]_vars

\* A device keeps every epoch it ever stored (keyring.ts).
KeyringsOnlyGrow ==
  [][\A d \in Devices : EpochsOf(stored[d]) \subseteq EpochsOf(stored'[d])]_vars

\* In a space that nobody joins, the winners are one log that only grows, and two devices
\* that are left only ever store what is in it, or a key ahead of it that keeps it as it
\* is (keys.ts:113-121, rekey.ts:133-150), whoever rotates, is revoked or polls meanwhile.
KeyLog == INSTANCE SpaceKeyLog WITH
  epoch <- groupEpoch, log <- committed, rings <- [d \in Active |-> stored[d]]
KeysFollowLog == KeyLog!Spec

\* An owed rotation is eventually performed by somebody (rekey.ts, "the next
\* device to poll finishes the job").
RotationCompletes == rotationPending ~> ~rotationPending

\* The same, as long as no rotation that lost leaves a wrapped key behind: the
\* wrap of a device revoked in the middle of its own rotation is the one thing
\* that keeps the others from finishing the job.
CleanRotationCompletes == []LoserLeavesNothing => RotationCompletes

\* Under the same condition every device that stays active ends up storing the
\* group's current key.
KeyReachesEveryone ==
  []LoserLeavesNothing =>
    \A d \in Devices :
      []<>(status[d] = "active" => \E x \in committed : x.epoch = groupEpoch /\ x \in stored[d])
=============================================================================
