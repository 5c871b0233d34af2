----------------------------- MODULE AtRestLock -----------------------------
(***************************************************************************)
(* The at-rest lock of a device with one space (apps/web/src/state/lock.ts)*)
(* over its LocalStore: turning it on and off, locking and unlocking, and  *)
(* the envelope that holds the secrets meanwhile, while sync passes adopt  *)
(* rotated keys, both contexts flush the outbox, the user writes, and the  *)
(* page may be killed at any await.                                        *)
(*                                                                         *)
(* The secrets are the session and the keyring, a set of epochs; keypairs  *)
(* go where the session goes.  An envelope is named by the content key     *)
(* derived from the same secret, which the user can always supply again.   *)
(***************************************************************************)
EXTENDS LocalStore

CONSTANTS
  MaxEpoch,  \* bound on key rotations
  Overlaps   \* may a key be adopted while the lock is being turned on or off?

ASSUME LockAssumption == MaxEpoch \in Nat \ {0} /\ Overlaps \in BOOLEAN

VARIABLES
  plain,      \* META_SESSION and META_KEYRING
  vault,      \* GLOBAL_VAULT
  page,       \* the page: its keyring, `unlocked`, `envelope`, `vaultKey`
  op,         \* enableLock or disableLock
  refreshes,  \* refreshVault calls
  adopt,      \* a sync pass adopting keys
  wraps,      \* the keys the server still holds for this device
  acked,      \* history: the keys whose wrap it dropped
  cut         \* history: the keys the device was storing when it was locked, killed or
              \* given the next one

secrets == <<plain, vault>>
lockVars == <<secrets, page, op, refreshes, adopt, wraps, acked, cut>>
vars == <<storeVars, lockVars>>

NoVault == [key |-> Clear, ring |-> {}]
NoOp    == [name |-> "none", stage |-> "idle", key |-> Clear, ring |-> {}, left |-> {}]
NoAdopt == [stage |-> "idle", ring |-> {}]

InClear == plain.session /\ plain.ring # {}
Configured == page.envelope # NoVault

\* The keyring the next start finds, and those that are on their way there.
Kept    == IF vault # NoVault THEN vault.ring ELSE plain.ring
Carried == UNION ({adopt.ring} \cup {r.ring : r \in refreshes})

LockInit ==
  /\ StoreInit
  /\ plain = [session |-> TRUE, ring |-> {1}] /\ vault = NoVault
  /\ page = [ring |-> {1}, unlocked |-> {}, envelope |-> NoVault, vaultKey |-> Clear]
  /\ op = NoOp /\ refreshes = {} /\ adopt = NoAdopt /\ wraps = {} /\ acked = {1} /\ cut = {}

-----------------------------------------------------------------------------
(***************************************************************************)
(* Key adoption (sync/rekey.ts) and refreshVault.                          *)
(***************************************************************************)
Rotated ==
  /\ \E e \in 2 .. MaxEpoch : /\ e - 1 \in acked \cup wraps /\ e \notin acked \cup wraps
                              /\ wraps' = wraps \cup {e}
  /\ UNCHANGED <<storeVars, secrets, page, op, refreshes, adopt, acked, cut>>

\* adoptPendingKeys persists the extended keyring,
AdoptSaves ==
  /\ adopt = NoAdopt /\ ~locked /\ page.ring # {} /\ wraps # {}
  /\ Overlaps \/ op = NoOp
  /\ adopt' = [stage |-> "saved", ring |-> page.ring \cup wraps]
  /\ plain' = [plain EXCEPT !.ring = page.ring \cup wraps]
  /\ UNCHANGED <<storeVars, vault, page, op, refreshes, wraps, acked, cut>>

\* acks it,
AdoptAcks ==
  /\ adopt.stage = "saved"
  /\ adopt' = [adopt EXCEPT !.stage = "acked"]
  /\ wraps' = wraps \ adopt.ring /\ acked' = acked \cup (wraps \cap adopt.ring)
  /\ UNCHANGED <<storeVars, secrets, page, op, refreshes, cut>>

\* and applyKeyring shows it, which calls refreshVault.
ApplyKeyring ==
  /\ adopt.stage = "acked"
  /\ adopt' = NoAdopt
  /\ page' = [page EXCEPT !.ring = adopt.ring]
  /\ IF Configured /\ page.vaultKey # Clear /\ page.unlocked # {} /\ ~locked
     THEN /\ refreshes' = refreshes \cup {[stage |-> "secrets", ring |-> adopt.ring, live |-> TRUE,
                                           vault |-> NoVault, left |-> {"session", "ring"}]}
          /\ cut' = IF refreshes = {} THEN cut ELSE cut \cup (Carried \ Kept)
     ELSE UNCHANGED <<refreshes, cut>>
  /\ UNCHANGED <<storeVars, secrets, op, wraps, acked>>

Goes(r, s) == refreshes' = (refreshes \ {r}) \cup s

\* Mutant: the envelope is written again as it was.
SealsAgain(r) ==
  /\ r.stage = "secrets"
  /\ Goes(r, {[r EXCEPT !.stage = "sealing", !.vault = page.envelope]})
  /\ UNCHANGED <<storeVars, secrets, page, op, adopt, wraps, acked, cut>>

\* The space's secrets are read for the map `unlocked` was when refreshVault began (`live`
\* if it still is), and reseal seals what `unlocked` holds now, unless the device was
\* locked or the lock turned off meanwhile.  What follows is done in any case.
RefreshReads(r) ==
  /\ r.stage = "secrets"
  /\ page' = IF r.live THEN [page EXCEPT !.unlocked = r.ring] ELSE page
  /\ IF Configured /\ page.vaultKey # Clear /\ page'.unlocked # {} /\ contentKey # Clear
     THEN Goes(r, {[r EXCEPT !.stage = "sealing",
                             !.vault = [key |-> contentKey, ring |-> page'.unlocked]]})
     ELSE Goes(r, {[r EXCEPT !.stage = "clear"]})
  /\ UNCHANGED <<storeVars, secrets, op, adopt, wraps, acked, cut>>

RefreshSeals(r) ==
  /\ r.stage = "sealing"
  /\ page' = [page EXCEPT !.envelope = r.vault]
  /\ Goes(r, {[r EXCEPT !.stage = "put"]})
  /\ UNCHANGED <<storeVars, secrets, op, adopt, wraps, acked, cut>>

\* Another map takes the place of `unlocked`, or none.
Superseded == refreshes' = {[r EXCEPT !.live = FALSE] : r \in refreshes}

RefreshPuts(r) ==
  /\ r.stage = "put"
  /\ vault' = r.vault
  /\ Goes(r, {[r EXCEPT !.stage = "clear"]})
  /\ UNCHANGED <<storeVars, plain, page, op, adopt, wraps, acked, cut>>

\* metaDelete of the session or of the keyring, in either order.
Without(what) == [plain EXCEPT !.session = @ /\ what # "session",
                               !.ring = IF what = "ring" THEN {} ELSE @]

RefreshClears(r, what) ==
  /\ r.stage = "clear" /\ what \in r.left
  /\ plain' = Without(what)
  /\ Goes(r, IF r.left = {what} THEN {} ELSE {[r EXCEPT !.left = @ \ {what}]})
  /\ UNCHANGED <<storeVars, vault, page, op, adopt, wraps, acked, cut>>

-----------------------------------------------------------------------------
(***************************************************************************)
(* enableLock.                                                             *)
(***************************************************************************)
At(name, stage) == op.name = name /\ op.stage = stage
Stage(stage) == op' = [op EXCEPT !.stage = stage]
Free == op = NoOp /\ (Overlaps \/ (adopt = NoAdopt /\ refreshes = {}))

\* A fresh key each time: the secret is salted.  A space in use without a lock has
\* its secrets in the clear.
EnableLock(k) ==
  /\ Free /\ ~locked /\ ~Configured /\ page.ring # {} /\ InClear
  /\ k # vault.key /\ k # contentKey /\ \A m \in Messages : row[m].key # k
  /\ op' = [NoOp EXCEPT !.name = "enable", !.stage = "rows", !.key = k,
                        !.ring = plain.ring, !.left = {"session", "ring"}]
  /\ RewriteStart(k)
  /\ UNCHANGED <<store, memory, outbox, deleted, faults, secrets, page, refreshes, adopt, wraps, acked, cut>>

EnableKeys ==
  /\ At("enable", "rows") /\ RewriteDone
  /\ Stage("seal")
  /\ rewrite' = NoRewrite /\ contentKey' = op.key /\ locked' = FALSE
  /\ page' = [page EXCEPT !.vaultKey = op.key, !.unlocked = op.ring]
  /\ Superseded
  /\ UNCHANGED <<store, writes, outbox, deleted, faults, secrets, adopt, wraps, acked, cut>>

\* Mutant: the plaintext copies go before the envelope is written.
EnableClearsFirst ==
  /\ At("enable", "seal")
  /\ plain' = [session |-> FALSE, ring |-> {}]
  /\ Stage("put")
  /\ UNCHANGED <<storeVars, vault, page, refreshes, adopt, wraps, acked, cut>>

EnableSeals ==
  /\ At("enable", "seal")
  /\ vault' = [key |-> op.key, ring |-> op.ring]
  /\ Stage("clear")
  /\ UNCHANGED <<storeVars, plain, page, refreshes, adopt, wraps, acked, cut>>

EnableClears(what) ==
  /\ At("enable", "clear") /\ what \in op.left
  /\ plain' = Without(what)
  /\ op' = [op EXCEPT !.left = @ \ {what}]
  /\ UNCHANGED <<storeVars, vault, page, refreshes, adopt, wraps, acked, cut>>

EnableEnds ==
  /\ At("enable", "clear") /\ op.left = {}
  /\ op' = NoOp
  /\ page' = [page EXCEPT !.envelope = [key |-> op.key, ring |-> op.ring]]
  /\ UNCHANGED <<storeVars, secrets, refreshes, adopt, wraps, acked, cut>>

-----------------------------------------------------------------------------
(***************************************************************************)
(* disableLock.                                                            *)
(***************************************************************************)
DisableLock ==
  /\ Free /\ ~locked /\ page.unlocked # {} /\ Configured
  /\ op' = [NoOp EXCEPT !.name = "disable", !.stage = "rows", !.ring = page.unlocked]
  /\ RewriteStart(Clear)
  /\ UNCHANGED <<store, memory, outbox, deleted, faults, secrets, page, refreshes, adopt, wraps, acked, cut>>

DisableSession ==
  /\ At("disable", "rows") /\ RewriteDone
  /\ plain' = [plain EXCEPT !.session = TRUE]
  /\ rewrite' = NoRewrite
  /\ Stage("ring")
  /\ UNCHANGED <<store, memory, outbox, deleted, faults, vault, page, refreshes, adopt, wraps, acked, cut>>

DisableKeyring ==
  /\ At("disable", "ring")
  /\ plain' = [plain EXCEPT !.ring = op.ring]
  /\ Stage("off")
  /\ UNCHANGED <<storeVars, vault, page, refreshes, adopt, wraps, acked, cut>>

DisableKeys ==
  /\ At("disable", "off")
  /\ contentKey' = Clear /\ locked' = FALSE
  /\ page' = [page EXCEPT !.vaultKey = Clear]
  /\ Stage("vault")
  /\ UNCHANGED <<store, writes, outbox, rewrite, deleted, faults, secrets, refreshes, adopt, wraps, acked, cut>>

DisableEnds ==
  /\ At("disable", "vault")
  /\ vault' = NoVault
  /\ page' = [page EXCEPT !.envelope = NoVault]
  /\ op' = NoOp
  /\ UNCHANGED <<storeVars, plain, refreshes, adopt, wraps, acked, cut>>

\* rewriteLocalContent threw: nothing that follows it happens.
OpFails ==
  /\ op.stage = "rows" /\ RewriteThrows
  /\ op' = NoOp /\ rewrite' = NoRewrite
  /\ UNCHANGED <<store, memory, outbox, deleted, faults, secrets, page, refreshes, adopt, wraps, acked, cut>>

-----------------------------------------------------------------------------
(***************************************************************************)
(* Locking, unlocking, and contexts that die.                              *)
(***************************************************************************)
\* lockNow.
LockNow ==
  /\ Configured /\ ~locked
  /\ contentKey' = Clear /\ locked' = TRUE
  /\ page' = [page EXCEPT !.ring = {}, !.unlocked = {}, !.vaultKey = Clear]
  /\ Superseded
  /\ cut' = cut \cup (Carried \ Kept)
  /\ UNCHANGED <<store, writes, outbox, rewrite, deleted, faults, secrets, op, adopt, wraps, acked>>

\* unlockWithPassphrase, hydrate and the bridge's load.
Unlock ==
  /\ locked /\ Configured
  /\ contentKey' = page.envelope.key /\ locked' = FALSE
  /\ page' = [page EXCEPT !.ring = page.envelope.ring, !.unlocked = page.envelope.ring,
                          !.vaultKey = page.envelope.key]
  /\ UNCHANGED <<store, writes, outbox, rewrite, deleted, faults, secrets, op, refreshes, adopt, wraps, acked, cut>>

Abandoned(c) ==
  /\ flush' = [flush EXCEPT ![c] = NoFlush]
  /\ holder' = IF holder = c THEN Clear ELSE holder

\* The page is killed and opened again: loadLockState, then loadSession.
Reload ==
  /\ faults < MaxFaults /\ faults' = faults + 1
  /\ contentKey' = Clear /\ locked' = (vault # NoVault) /\ writes' = {}
  /\ Abandoned(Page) /\ rewrite' = NoRewrite
  /\ page' = [ring |-> IF vault = NoVault /\ InClear THEN plain.ring ELSE {},
              unlocked |-> {}, envelope |-> vault, vaultKey |-> Clear]
  /\ op' = NoOp /\ refreshes' = {} /\ adopt' = NoAdopt
  /\ cut' = cut \cup ((acked \cap Carried) \ Kept)
  /\ UNCHANGED <<store, server, deleted, secrets, wraps, acked>>

WorkerDies ==
  /\ flush[Worker] # NoFlush
  /\ faults < MaxFaults /\ faults' = faults + 1
  /\ Abandoned(Worker)
  /\ UNCHANGED <<store, memory, server, rewrite, deleted, lockVars>>

-----------------------------------------------------------------------------
Refreshing == \E r \in refreshes :
  RefreshReads(r) \/ RefreshSeals(r) \/ RefreshPuts(r) \/ \E what \in r.left : RefreshClears(r, what)

Switching ==
  \/ EnableKeys \/ EnableSeals \/ EnableEnds \/ \E what \in op.left : EnableClears(what)
  \/ DisableSession \/ DisableKeyring \/ DisableKeys \/ DisableEnds \/ OpFails
  \/ RewriteSteps /\ UNCHANGED lockVars

Adopting == AdoptSaves \/ AdoptAcks \/ ApplyKeyring

Users(m) == Compose(m) \/ Retry(m) \/ Delete(m)
Flushing(c) == FlushSteps(c) /\ UNCHANGED lockVars
Begins(c) == FlushBegin(c, InClear) /\ UNCHANGED lockVars
Landing == \E x \in writes : WriteLands(x) /\ UNCHANGED lockVars

Next ==
  \/ \E m \in Messages : Users(m) /\ UNCHANGED lockVars
  \/ Landing
  \/ \E c \in Contexts :
       Begins(c) \/ Flushing(c) \/ \E st \in {"queued", "failed"} : PostFails(c, st) /\ UNCHANGED lockVars
  \/ Rotated \/ Adopting \/ Refreshing
  \/ \E k \in ContentKeys : EnableLock(k)
  \/ DisableLock \/ Switching \/ LockNow \/ Unlock
  \/ Reload \/ WorkerDies

\* What was started goes on, and an open page keeps polling.
Fairness ==
  /\ WF_vars(Landing) /\ WF_vars(Switching) /\ WF_vars(Refreshing) /\ WF_vars(Adopting)
  /\ WF_vars(Begins(Page)) /\ \A c \in Contexts : WF_vars(Flushing(c))

Spec == LockInit /\ [][Next]_vars /\ Fairness

-----------------------------------------------------------------------------
(***************************************************************************)
(* Properties.                                                             *)
(***************************************************************************)
\* Whatever step the page is killed at, the secrets are in storage: in the clear or
\* in the envelope (lock.ts:262-266, "rather than one ... with no way in").
SecretsKept == InClear \/ vault.ring # {}

\* When nothing is under way, an unlocked page has every key whose wrap the server dropped,
\* and the next start will find the keyring the page runs on: in the envelope if there is a
\* lock, in the clear otherwise (lock.ts:383-386).  Only a key the device was still storing
\* when it was locked, killed or given the next one may be missing.
RingIsStored ==
  ~locked /\ page.ring # {} /\ op = NoOp /\ adopt = NoAdopt /\ refreshes = {} =>
    /\ acked \ cut \subseteq page.ring /\ page.ring \ cut \subseteq Kept
    /\ IF Configured THEN vault # NoVault ELSE vault = NoVault /\ InClear

\* The same without exception, as far as storage goes (lock.ts:397-400, "no matter which
\* order things happened in").
VaultIsCurrent ==
  ~locked /\ op = NoOp /\ adopt = NoAdopt /\ refreshes = {} => page.ring \subseteq Kept

\* With a lock, no keyring is in the clear when nothing is under way (lock.ts:397-400,
\* "clearing them here keeps the invariant true").
SealedOnly ==
  Configured /\ op = NoOp /\ adopt = NoAdopt /\ refreshes = {} => plain.ring = {}

\* A queued message leaves the outbox, whichever context flushes it and whatever is
\* rewritten, retried or killed meanwhile, unless the lock is in the way.
QueuedIsFlushed ==
  \A m \in Messages :
    Queued(row[m]) ~> (~Queued(row[m]) \/ row[m].key # Clear \/ locked \/ ~InClear)

\* The same with the lock on, as long as the device is unlocked (outbox.ts:120-124).
OutboxFlushes ==
  \A m \in Messages : Queued(row[m]) ~> (~Queued(row[m]) \/ locked)

\* "Turn the lock off, putting ... local content back in the clear" (lock.ts:328-329).
OffIsClear ==
  vault = NoVault /\ ~Configured /\ op = NoOp /\ writes = {}
    => \A m \in Messages : row[m].key = Clear

\* No unlock rolls the device back to keys from before a rotation (lock.ts:383-386).
KeysKept ==
  acked \subseteq UNION ({plain.ring, vault.ring, page.ring, adopt.ring} \cup {r.ring : r \in refreshes})
=============================================================================
