-------------------------- MODULE AtRestLockProofs --------------------------
(***************************************************************************)
(* What holds of AtRestLock for any messages, content keys and bounds.     *)
(*                                                                         *)
(* The outbox index misses no queued message, whichever transactions       *)
(* interleave; nothing below uses the outbox lock for it: the merge in     *)
(* rebuildOutboxIndex and the second look in dropStale are enough.         *)
(*                                                                         *)
(* The secrets are in storage at every step, and the keyring of an open    *)
(* page is the one the next start finds.                                   *)
(***************************************************************************)
EXTENDS AtRestLock, TLAPS

(***************************************************************************)
(* The index: the inductive invariant.                                     *)
(***************************************************************************)
Fields == {"stage", "due", "id", "st", "copy", "seen", "complete", "last"}

\* A flush has the fields of NoFlush.
IsFlush(f) == f = [x \in Fields |-> f[x]]

Shape ==
  /\ row = [m \in Messages |-> row[m]]
  /\ index = [complete |-> index.complete, ids |-> index.ids]
  /\ flush = [c \in Contexts |-> flush[c]]
  /\ \A c \in Contexts : IsFlush(flush[c])

\* What a context has seen as stale was not queued when it looked.
SeenIsDone(f) == \A m \in DOMAIN f.seen : ~Queued(f.seen[m])

\* A complete scan that is about to become the index, and the ids others have kept in
\* the index since, have every queued message between them.
ScanCovers(f, rows, ids) ==
  f.stage = "rebuild" /\ f.complete
    => \A m \in Messages : Queued(rows[m]) => m \in ids \cup f.due

IndexInv ==
  /\ Shape /\ IndexCovers
  /\ \A c \in Contexts : SeenIsDone(flush[c]) /\ ScanCovers(flush[c], row, index.ids)

(***************************************************************************)
(* Lemmas on the pieces of a step.                                         *)
(***************************************************************************)
\* A step that leaves the store and the flushes alone.
LEMMA Elsewhere == IndexInv /\ UNCHANGED <<row, index, flush>> => IndexInv'
BY DEF IndexInv, Shape, IndexCovers, ScanCovers

\* NoFlush is a flush.
LEMMA NoFlushShape == IsFlush(NoFlush) /\ SeenIsDone(NoFlush) /\ NoFlush.stage = "idle"
BY DEF IsFlush, Fields, NoFlush, SeenIsDone

\* A context moves on to f, and the other stays where it is.
LEMMA Moves ==
  ASSUME Shape, NEW c \in Contexts, NEW f, Becomes(c, f)
  PROVE  /\ flush' = [d \in Contexts |-> flush'[d]]
         /\ flush'[c] = f /\ \A d \in Contexts \ {c} : flush'[d] = flush[d]
BY DEF Shape, Becomes

\* A context moves on, and the store does not change.
LEMMA MovesOnly ==
  ASSUME IndexInv, NEW c \in Contexts, NEW f, Becomes(c, f), UNCHANGED store,
         IsFlush(f), SeenIsDone(f), ScanCovers(f, row, index.ids)
  PROVE  IndexInv'
BY Moves DEF IndexInv, Shape, IndexCovers, store

\* Writing a row with the index in step (trackOutbox, store.ts).
LEMMA Tracks ==
  ASSUME IndexInv, NEW m, NEW r, NEW addOnly \in BOOLEAN,
         row' = [row EXCEPT ![m] = r],
         index' = [index EXCEPT !.ids = Tracked([x \in {m} |-> r], addOnly)]
  PROVE  /\ row' = [x \in Messages |-> row'[x]]
         /\ index' = [complete |-> index'.complete, ids |-> index'.ids]
         /\ IndexCovers'
         /\ \A c \in Contexts : ScanCovers(flush[c], row', index'.ids)
<1>1. index'.complete = index.complete /\ index'.ids = Tracked([x \in {m} |-> r], addOnly)
  BY DEF IndexInv, Shape
<1>2. index' = [complete |-> index'.complete, ids |-> index'.ids]
  BY DEF IndexInv, Shape
<1>3. \A x \in Messages : row'[x] = IF x = m THEN r ELSE row[x]
  BY DEF IndexInv, Shape
<1>4. row' = [x \in Messages |-> row'[x]]
  BY DEF IndexInv, Shape
<1>5. \A x : x # m /\ x \in index.ids => x \in index'.ids
  BY <1>1 DEF Tracked
<1>6. Queued(r) => m \in index'.ids
  BY <1>1 DEF Tracked
<1>7. IndexCovers'
  BY <1>1, <1>3, <1>5, <1>6 DEF IndexInv, IndexCovers
<1>8. \A c \in Contexts : ScanCovers(flush[c], row', index'.ids)
  BY <1>3, <1>5, <1>6 DEF IndexInv, ScanCovers
<1> QED
  BY <1>2, <1>4, <1>7, <1>8

(***************************************************************************)
(* Steps that write rows.                                                  *)
(***************************************************************************)
\* Such a step keeps the invariant if it leaves the flushes alone.
LEMMA WritesOnly ==
  ASSUME IndexInv, NEW m, NEW r, NEW addOnly \in BOOLEAN,
         row' = [row EXCEPT ![m] = r],
         index' = [index EXCEPT !.ids = Tracked([x \in {m} |-> r], addOnly)],
         UNCHANGED flush
  PROVE  IndexInv'
BY Tracks DEF IndexInv, Shape

\* deleteMessage drops the id with the row.
LEMMA DeleteKeeps == ASSUME IndexInv, NEW m \in Messages, Delete(m) PROVE IndexInv'
<1>1. /\ row' = [x \in Messages |-> row'[x]]
      /\ \A x \in Messages : row'[x] = IF x = m THEN NoRow ELSE row[x]
  BY DEF Delete, IndexInv, Shape
<1>2. /\ index' = [complete |-> index'.complete, ids |-> index'.ids]
      /\ index'.complete = index.complete /\ index'.ids = index.ids \ {m}
  BY DEF Delete, IndexInv, Shape
<1>3. ~Queued(NoRow)
  BY DEF Queued, NoRow
<1>4. UNCHANGED flush
  BY DEF Delete, outbox
<1> QED
  BY <1>1, <1>2, <1>3, <1>4 DEF IndexInv, Shape, IndexCovers, ScanCovers

LEMMA PutKeeps == ASSUME IndexInv, NEW m, NEW r, Put(m, r), UNCHANGED flush PROVE IndexInv'
BY WritesOnly DEF Put

LEMMA RewritePutsKeeps == ASSUME IndexInv, RewritePuts PROVE IndexInv'
<1> DEFINE r == [st |-> rewrite.st, key |-> rewrite.target]
<1>1. /\ row' = [row EXCEPT ![rewrite.id] = r]
      /\ index' = [index EXCEPT !.ids = Tracked([x \in {rewrite.id} |-> r], TRUE)]
      /\ UNCHANGED flush
  BY DEF RewritePuts, outbox
<1> QED
  BY <1>1, WritesOnly

(***************************************************************************)
(* The steps of a flush.                                                   *)
(***************************************************************************)
LEMMA ReleasesKeeps ==
  ASSUME IndexInv, NEW c \in Contexts, Releases(c), UNCHANGED store PROVE IndexInv'
BY NoFlushShape, MovesOnly DEF Releases, ScanCovers

\* A context whose record changes in other fields than `seen`, to a stage other than
\* "rebuild".
LEMMA StageKeeps ==
  ASSUME IndexInv, NEW c \in Contexts, NEW f, Becomes(c, f), UNCHANGED store,
         IsFlush(f), f.seen = flush[c].seen, f.stage # "rebuild"
  PROVE  IndexInv'
<1>1. SeenIsDone(f)
  BY DEF IndexInv, SeenIsDone
<1>2. ScanCovers(f, row, index.ids)
  BY DEF ScanCovers
<1> QED
  BY <1>1, <1>2, MovesOnly

LEMMA FlushBeginKeeps ==
  ASSUME IndexInv, NEW c \in Contexts, FlushBegin(c, InClear) PROVE IndexInv'
<1> DEFINE f == [NoFlush EXCEPT !.stage = "list"]
<1>1. IsFlush(f) /\ SeenIsDone(f) /\ f.stage = "list"
  BY DEF NoFlush, IsFlush, Fields, SeenIsDone
<1> QED
  BY <1>1, MovesOnly DEF FlushBegin, ScanCovers

LEMMA ReadIndexKeeps ==
  ASSUME IndexInv, NEW c \in Contexts, ReadIndex(c) PROVE IndexInv'
<1> DEFINE g == [flush[c] EXCEPT !.stage = "read", !.complete = index.complete, !.due = index.ids]
<1>1. IsFlush(g) /\ g.seen = flush[c].seen /\ g.stage = "read"
  BY DEF IndexInv, Shape, IsFlush, Fields
<1>2. Becomes(c, g) /\ UNCHANGED store
  BY DEF ReadIndex
<1> QED
  BY <1>1, <1>2, StageKeeps

\* queuedMessages: what a scan finds is all there is, what it finds stale was not queued.
LEMMA ListQueuedKeeps ==
  ASSUME IndexInv, NEW c \in Contexts, ListQueued(c) PROVE IndexInv'
<1> DEFINE f     == flush[c]
           ids   == IF f.complete THEN f.due ELSE {m \in Messages : IsRow(row[m])}
           mine  == {m \in ids : Opens(c, row[m])}
           due   == {m \in mine : Queued(row[m])}
           stale == IF f.complete THEN mine \ due ELSE {}
           next  == IF f.last THEN "done" ELSE "next"
           g     == [f EXCEPT !.due = due, !.seen = [m \in stale |-> row[m]],
                       !.complete = (mine = ids),
                       !.stage = IF ~f.complete THEN "rebuild"
                                 ELSE IF stale # {} THEN "drop" ELSE next]
<1>0. UNCHANGED store
  BY DEF ListQueued
<1>1. CASE \E m \in ids : Throws(c, row[m])
  BY <1>0, <1>1, ReleasesKeeps DEF ListQueued
<1>2. CASE ~\E m \in ids : Throws(c, row[m])
  <2>1. Becomes(c, g)
    BY <1>2 DEF ListQueued
  <2>2. IsFlush(f)
    BY DEF IndexInv, Shape
  <2>3. /\ g.due = due /\ g.seen = [m \in stale |-> row[m]] /\ g.complete = (mine = ids)
        /\ g.stage = "rebuild" <=> ~f.complete
        /\ IsFlush(g)
    BY <2>2 DEF IsFlush, Fields
  <2>4. SeenIsDone(g)
    BY <2>3 DEF SeenIsDone
  <2>5. \A m \in Messages : Queued(row[m]) => IsRow(row[m])
    BY DEF Queued, IsRow, NoRow
  <2>6. ScanCovers(g, row, index.ids)
    BY <2>3, <2>5 DEF ScanCovers
  <2> QED
    BY <1>0, <2>1, <2>3, <2>4, <2>6, MovesOnly
<1> QED
  BY <1>1, <1>2

\* dropStale takes out ids whose row is still the one seen, which was not queued.
LEMMA DropStaleKeeps ==
  ASSUME IndexInv, NEW c \in Contexts, DropStale(c) PROVE IndexInv'
<1> DEFINE g == [flush[c] EXCEPT !.stage = IF flush[c].last THEN "done" ELSE "next",
                                 !.seen = NoFlush.seen]
<1>1. Becomes(c, g) /\ UNCHANGED row
  BY DEF DropStale
<1>2. IsFlush(g) /\ SeenIsDone(g) /\ g.stage # "rebuild"
  BY DEF IndexInv, Shape, IsFlush, Fields, SeenIsDone, NoFlush
<1>3. /\ index' = [complete |-> index'.complete, ids |-> index'.ids]
      /\ index'.complete = index.complete
      /\ index'.ids = index.ids \ StillStale(flush[c].seen)
  BY DEF DropStale, IndexInv, Shape
<1>4. \A m \in Messages : Queued(row[m]) /\ m \in index.ids => m \in index'.ids
  BY <1>3 DEF StillStale, IndexInv, SeenIsDone
<1>5. IndexCovers'
  BY <1>1, <1>3, <1>4 DEF IndexInv, IndexCovers
<1>6. \A d \in Contexts : ScanCovers(flush[d], row', index'.ids)
  BY <1>1, <1>4 DEF IndexInv, ScanCovers
<1>7. ScanCovers(g, row', index'.ids)
  BY <1>2 DEF ScanCovers
<1>8. Shape'
  BY <1>1, <1>2, <1>3, Moves DEF IndexInv, Shape
<1>9. \A d \in Contexts : SeenIsDone(flush'[d]) /\ ScanCovers(flush'[d], row', index'.ids)
  BY <1>1, <1>2, <1>6, <1>7, Moves DEF IndexInv
<1> QED
  BY <1>5, <1>8, <1>9 DEF IndexInv

\* rebuildOutboxIndex adds, so that what others have written since the scan stays.
LEMMA RebuildIndexKeeps ==
  ASSUME IndexInv, NEW c \in Contexts, RebuildIndex(c) PROVE IndexInv'
<1> DEFINE g == [flush[c] EXCEPT !.stage = IF flush[c].last THEN "done" ELSE "next"]
<1>1. Becomes(c, g) /\ UNCHANGED row /\ flush[c].stage = "rebuild"
  BY DEF RebuildIndex, InFlush
<1>2. IsFlush(g) /\ SeenIsDone(g) /\ g.stage # "rebuild"
  BY DEF IndexInv, Shape, IsFlush, Fields, SeenIsDone
<1>3. index' = [complete |-> flush[c].complete \/ index.complete,
                ids |-> index.ids \cup flush[c].due]
  BY DEF RebuildIndex
<1>4. IndexCovers'
  BY <1>1, <1>3 DEF IndexInv, IndexCovers, ScanCovers
<1>5. \A d \in Contexts : ScanCovers(flush[d], row', index'.ids)
  BY <1>1, <1>3 DEF IndexInv, ScanCovers
<1>6. ScanCovers(g, row', index'.ids)
  BY <1>2 DEF ScanCovers
<1>7. Shape'
  BY <1>1, <1>2, <1>3, Moves DEF IndexInv, Shape
<1>8. \A d \in Contexts : SeenIsDone(flush'[d]) /\ ScanCovers(flush'[d], row', index'.ids)
  BY <1>1, <1>2, <1>5, <1>6, Moves DEF IndexInv
<1> QED
  BY <1>4, <1>7, <1>8 DEF IndexInv

LEMMA NextMessageKeeps ==
  ASSUME IndexInv, NEW c \in Contexts, NextMessage(c) PROVE IndexInv'
<1> DEFINE f == flush[c]
<1>f. IsFlush(f) /\ f.stage = "next" /\ UNCHANGED store
  BY DEF IndexInv, Shape, NextMessage, InFlush
<1>1. CASE Becomes(c, [NoFlush EXCEPT !.stage = "list", !.last = TRUE])
  <2> DEFINE g == [NoFlush EXCEPT !.stage = "list", !.last = TRUE]
  <2>1. IsFlush(g) /\ SeenIsDone(g) /\ g.stage = "list"
    BY DEF NoFlush, IsFlush, Fields, SeenIsDone
  <2> QED
    BY <1>1, <1>f, <2>1, MovesOnly DEF ScanCovers
<1>2. ASSUME NEW m \in f.due,
             LET rest == [f EXCEPT !.due = IF c = Worker THEN {} ELSE @ \ {m}] IN
             Becomes(c, IF Opens(c, row[m]) /\ Queued(row[m])
                        THEN [rest EXCEPT !.stage = "post", !.id = m] ELSE rest)
      PROVE IndexInv'
  <2> DEFINE rest == [f EXCEPT !.due = IF c = Worker THEN {} ELSE f.due \ {m}]
             post == [rest EXCEPT !.stage = "post", !.id = m]
  <2>1. IsFlush(rest) /\ rest.seen = f.seen /\ rest.stage = "next"
    BY <1>f DEF IsFlush, Fields
  <2>2. IsFlush(post) /\ post.seen = f.seen /\ post.stage = "post"
    BY <2>1 DEF IsFlush, Fields
  <2>3. Becomes(c, rest) \/ Becomes(c, post)
    BY <1>2
  <2> QED
    BY <1>f, <2>1, <2>2, <2>3, StageKeeps
<1> QED
  BY <1>1, <1>2 DEF NextMessage

\* The request, its failure, and the first half of update, leave the store alone.
LEMMA RequestKeeps ==
  ASSUME IndexInv, NEW c \in Contexts,
         Posted(c) \/ (\E st \in {"queued", "failed"} : PostFails(c, st)) \/ UpdateReads(c)
  PROVE  IndexInv'
<1> DEFINE f == flush[c]
<1>f. IsFlush(f)
  BY DEF IndexInv, Shape
<1>1. ASSUME NEW st, Becomes(c, [f EXCEPT !.stage = "update", !.st = st]), UNCHANGED store
      PROVE  IndexInv'
  <2> DEFINE g == [f EXCEPT !.stage = "update", !.st = st]
  <2>1. IsFlush(g) /\ g.seen = f.seen /\ g.stage = "update"
    BY <1>f DEF IsFlush, Fields
  <2> QED
    BY <1>1, <2>1, StageKeeps
<1>2. CASE UpdateReads(c)
  <2> DEFINE put  == [f EXCEPT !.stage = "put", !.copy = [st |-> f.st, key |-> KeyOf(c)]]
             next == [f EXCEPT !.stage = "next"]
  <2>1. IsFlush(put) /\ put.seen = f.seen /\ put.stage = "put"
    BY <1>f DEF IsFlush, Fields
  <2>2. IsFlush(next) /\ next.seen = f.seen /\ next.stage = "next"
    BY <1>f DEF IsFlush, Fields
  <2>3. (Becomes(c, put) \/ Becomes(c, next)) /\ UNCHANGED store
    BY <1>2 DEF UpdateReads
  <2> QED
    BY <2>1, <2>2, <2>3, StageKeeps
<1> QED
  BY <1>1, <1>2 DEF Posted, PostFails

\* The second half of update writes the row with the index in step.
LEMMA UpdatePutsKeeps ==
  ASSUME IndexInv, NEW c \in Contexts, UpdatePuts(c) PROVE IndexInv'
<1> DEFINE f == flush[c]
           g == [f EXCEPT !.stage = "next", !.copy = NoRow]
<1>1. Becomes(c, g) /\ Put(f.id, f.copy)
  BY DEF UpdatePuts
<1>2. IsFlush(g) /\ g.seen = f.seen /\ g.stage = "next"
  BY DEF IndexInv, Shape, IsFlush, Fields
<1>3. /\ row' = [row EXCEPT ![f.id] = f.copy]
      /\ index' = [index EXCEPT !.ids = Tracked([x \in {f.id} |-> f.copy], FALSE)]
  BY <1>1 DEF Put
<1>4. /\ row' = [x \in Messages |-> row'[x]]
      /\ index' = [complete |-> index'.complete, ids |-> index'.ids]
      /\ IndexCovers'
      /\ \A d \in Contexts : ScanCovers(flush[d], row', index'.ids)
  BY <1>3, Tracks
<1>5. Shape'
  BY <1>1, <1>2, <1>4, Moves DEF IndexInv, Shape
<1>6. SeenIsDone(g) /\ ScanCovers(g, row', index'.ids)
  BY <1>2 DEF IndexInv, SeenIsDone, ScanCovers
<1>7. \A d \in Contexts : SeenIsDone(flush'[d]) /\ ScanCovers(flush'[d], row', index'.ids)
  BY <1>1, <1>4, <1>6, Moves DEF IndexInv
<1> QED
  BY <1>4, <1>5, <1>7 DEF IndexInv

LEMMA FlushStepsKeep ==
  ASSUME IndexInv, NEW c \in Contexts, FlushSteps(c) PROVE IndexInv'
<1>0. CASE ReadIndex(c)
  BY <1>0, ReadIndexKeeps
<1>1. CASE ListQueued(c)
  BY <1>1, ListQueuedKeeps
<1>2. CASE DropStale(c)
  BY <1>2, DropStaleKeeps
<1>3. CASE RebuildIndex(c)
  BY <1>3, RebuildIndexKeeps
<1>4. CASE NextMessage(c)
  BY <1>4, NextMessageKeeps
<1>5. CASE Posted(c) \/ UpdateReads(c)
  BY <1>5, RequestKeeps
<1>6. CASE UpdatePuts(c)
  BY <1>6, UpdatePutsKeeps
<1>7. CASE FlushEnds(c)
  BY <1>7, ReleasesKeeps DEF FlushEnds
<1> QED
  BY <1>0, <1>1, <1>2, <1>3, <1>4, <1>5, <1>6, <1>7 DEF FlushSteps

\* A context that dies forgets its flush.
LEMMA AbandonedKeeps ==
  ASSUME IndexInv, NEW c \in Contexts, Abandoned(c), UNCHANGED store PROVE IndexInv'
<1>1. Becomes(c, NoFlush)
  BY DEF Abandoned, Becomes
<1> QED
  BY <1>1, NoFlushShape, MovesOnly DEF ScanCovers

(***************************************************************************)
(* The theorem.                                                            *)
(***************************************************************************)
LEMMA InitIndexInv == LockInit => IndexInv
<1> SUFFICES ASSUME LockInit PROVE IndexInv
  OBVIOUS
<1>1. /\ row = [m \in Messages |-> NoRow] /\ flush = [c \in Contexts |-> NoFlush]
      /\ index \in [complete : BOOLEAN, ids : {{}}]
  BY DEF LockInit, StoreInit
<1>2. Shape
  BY <1>1, NoFlushShape DEF Shape
<1>3. IndexCovers
  BY <1>1 DEF IndexCovers, Queued, NoRow
<1>4. \A c \in Contexts : SeenIsDone(flush[c]) /\ ScanCovers(flush[c], row, index.ids)
  BY <1>1, NoFlushShape DEF ScanCovers
<1> QED
  BY <1>2, <1>3, <1>4 DEF IndexInv

LEMMA NextIndexInv == IndexInv /\ [Next]_vars => IndexInv'
<1> SUFFICES ASSUME IndexInv, [Next]_vars PROVE IndexInv'
  OBVIOUS
<1> USE DEF store, outbox
<1>1. ASSUME NEW m \in Messages, Users(m) PROVE IndexInv'
  <2>1. CASE Compose(m) \/ Retry(m)
    BY <2>1, Elsewhere DEF Compose, Retry
  <2>2. CASE Delete(m)
    BY <2>2, DeleteKeeps
  <2> QED
    BY <1>1, <2>1, <2>2 DEF Users
<1>2. CASE Landing
  BY <1>2, PutKeeps DEF Landing, WriteLands
<1>3. ASSUME NEW c \in Contexts,
             \/ Begins(c) \/ Flushing(c)
             \/ \E st \in {"queued", "failed"} : PostFails(c, st) /\ UNCHANGED lockVars
      PROVE IndexInv'
  BY <1>3, FlushBeginKeeps, FlushStepsKeep, RequestKeeps DEF Begins, Flushing
<1>4. CASE Rotated \/ Adopting \/ Refreshing
  <2>1. UNCHANGED storeVars
    BY <1>4 DEF Rotated, Adopting, AdoptSaves, AdoptAcks, ApplyKeyring, Refreshing,
                RefreshReads, RefreshSeals, RefreshPuts, RefreshClears
  <2> QED
    BY <2>1, Elsewhere DEF storeVars
<1>5. CASE DisableLock \/ \E k \in ContentKeys : EnableLock(k)
  BY <1>5, Elsewhere DEF DisableLock, EnableLock
<1>6. CASE Switching
  <2>1. CASE EnableKeys \/ DisableSession \/ DisableKeys \/ OpFails
    BY <2>1, Elsewhere DEF EnableKeys, DisableSession, DisableKeys, OpFails
  <2>2. CASE \/ EnableSeals \/ EnableEnds \/ \E what \in op.left : EnableClears(what)
             \/ DisableKeyring \/ DisableEnds
    BY <2>2, Elsewhere DEF EnableSeals, EnableEnds, EnableClears, DisableKeyring,
                           DisableEnds, storeVars
  <2>3. CASE RewriteSteps
    BY <2>3, Elsewhere, RewritePutsKeeps DEF RewriteSteps, RewriteReads
  <2> QED
    BY <1>6, <2>1, <2>2, <2>3 DEF Switching
<1>7. CASE LockNow \/ Unlock
  BY <1>7, Elsewhere DEF LockNow, Unlock
<1>8. CASE Reload
  BY <1>8, AbandonedKeeps DEF Reload, Contexts
<1>9. CASE WorkerDies
  BY <1>9, AbandonedKeeps DEF WorkerDies, Contexts
<1>10. CASE UNCHANGED vars
  BY <1>10, Elsewhere DEF vars, storeVars
<1> QED
  BY <1>1, <1>2, <1>3, <1>4, <1>5, <1>6, <1>7, <1>8, <1>9, <1>10 DEF Next

\* However the transactions of the page, of the service worker and of a rewrite of all
\* rows interleave, and whenever a context dies, a complete index has every queued
\* message (store.ts:155-158, "It must never *miss* one").
THEOREM AtRestLockIndexCovers == Spec => []IndexCovers
<1>1. IndexInv => IndexCovers
  BY DEF IndexInv
<1> QED
  BY <1>1, InitIndexInv, NextIndexInv, PTL DEF Spec

(***************************************************************************)
(* The secrets: the inductive invariant.                                   *)
(***************************************************************************)
\* The records of the lock have the fields they start with.
RefreshFields == {"stage", "ring", "live", "vault", "left"}
IsRefresh(r) == r = [x \in RefreshFields |-> r[x]]

LockShape ==
  /\ plain = [session |-> plain.session, ring |-> plain.ring] /\ plain.session \in BOOLEAN
  /\ page = [ring |-> page.ring, unlocked |-> page.unlocked, envelope |-> page.envelope,
             vaultKey |-> page.vaultKey]
  /\ op = [name |-> op.name, stage |-> op.stage, key |-> op.key, ring |-> op.ring,
           left |-> op.left]
  /\ adopt = [stage |-> adopt.stage, ring |-> adopt.ring]
  /\ \A r \in refreshes : IsRefresh(r)

\* An envelope that opens, to a keyring.
Seals(v) == v.key # Clear /\ v.ring # {}

\* While the lock is turned on, the plaintext copies stay until the envelope is there.
Enabling ==
  /\ op.name = "enable" /\ ~Configured /\ op.key # Clear /\ op.ring # {}
  /\ \/ op.stage \in {"rows", "seal"} /\ vault = NoVault /\ InClear
     \/ op.stage = "clear" /\ vault = [key |-> op.key, ring |-> op.ring]

\* While it is turned off, the envelope stays until they are back.
Disabling ==
  /\ op.name = "disable" /\ Configured /\ Seals(vault) /\ op.ring # {}
  /\ \/ op.stage = "rows"
     \/ op.stage = "ring" /\ plain.session
     \/ op.stage \in {"off", "vault"} /\ plain.session /\ plain.ring = op.ring

SecretsInv ==
  /\ LockShape
  /\ op = NoOp \/ Enabling \/ Disabling
  /\ op = NoOp => IF Configured THEN Seals(vault) ELSE vault = NoVault /\ InClear
  /\ op # NoOp => adopt = NoAdopt /\ refreshes = {}
  /\ adopt # NoAdopt => adopt.ring # {}
  /\ refreshes # {} => Configured
  /\ \A r \in refreshes : r.ring # {} /\ (r.stage \in {"sealing", "put"} => Seals(r.vault))
  /\ Configured => Seals(page.envelope)

\* What the invariant is about.
LockState == <<plain, vault, page, op, refreshes, adopt>>

LEMMA NoVaultFacts == NoVault.key = Clear /\ NoVault.ring = {} /\ ~Seals(NoVault)
BY DEF NoVault, Seals

LEMMA SecretsInvKept == SecretsInv => SecretsKept
BY DEF SecretsInv, SecretsKept, Enabling, Disabling, Seals, InClear

LEMMA SecretsElsewhere == SecretsInv /\ UNCHANGED LockState => SecretsInv'
BY DEF SecretsInv, LockState, LockShape, Enabling, Disabling, InClear, Configured

LEMMA InitSecretsInv == LockInit => SecretsInv
BY DEF LockInit, SecretsInv, LockShape, NoOp, NoAdopt, InClear, Configured

\* One lemma per step: adoption and refreshVault, then enableLock and disableLock, then
\* locking, unlocking and the death of the page.
USE DEF SecretsInv, LockShape, secrets, At, Stage, NoOp, NoAdopt

LEMMA AdoptSavesSecrets == ASSUME ~Overlaps, SecretsInv, AdoptSaves PROVE SecretsInv'
BY DEF AdoptSaves, InClear, Configured, Seals

LEMMA AdoptAcksSecrets == ASSUME SecretsInv, AdoptAcks PROVE SecretsInv'
BY DEF AdoptAcks, InClear, Configured, Seals

\* What a refresh starts as, and what it becomes.
LEMMA NewRefresh ==
  ASSUME NEW ring
  PROVE  LET q == [stage |-> "secrets", ring |-> ring, live |-> TRUE, vault |-> NoVault,
                   left |-> {"session", "ring"}]
         IN  IsRefresh(q) /\ q.stage = "secrets" /\ q.ring = ring /\ q.live /\ q.vault = NoVault
BY DEF IsRefresh, RefreshFields

LEMMA StagedRefresh ==
  ASSUME NEW r, IsRefresh(r), NEW stage
  PROVE  LET q == [r EXCEPT !.stage = stage]
         IN  /\ IsRefresh(q) /\ q.stage = stage
             /\ q.ring = r.ring /\ q.live = r.live /\ q.vault = r.vault
BY DEF IsRefresh, RefreshFields

LEMMA SealingRefresh ==
  ASSUME NEW r, IsRefresh(r), NEW v
  PROVE  LET q == [r EXCEPT !.stage = "sealing", !.vault = v]
         IN  /\ IsRefresh(q) /\ q.stage = "sealing"
             /\ q.ring = r.ring /\ q.live = r.live /\ q.vault = v
BY DEF IsRefresh, RefreshFields

LEMMA ClearedRefresh ==
  ASSUME NEW r, IsRefresh(r), NEW what
  PROVE  LET q == [r EXCEPT !.left = @ \ {what}]
         IN  /\ IsRefresh(q) /\ q.stage = r.stage
             /\ q.ring = r.ring /\ q.live = r.live /\ q.vault = r.vault
BY DEF IsRefresh, RefreshFields

LEMMA DeadRefresh ==
  ASSUME NEW r, IsRefresh(r)
  PROVE  LET q == [r EXCEPT !.live = FALSE]
         IN  /\ IsRefresh(q) /\ q.stage = r.stage
             /\ q.ring = r.ring /\ ~q.live /\ q.vault = r.vault
BY DEF IsRefresh, RefreshFields

LEMMA ApplyKeyringSecrets == ASSUME SecretsInv, ApplyKeyring PROVE SecretsInv'
<1> DEFINE r == [stage |-> "secrets", ring |-> adopt.ring, live |-> TRUE, vault |-> NoVault,
                 left |-> {"session", "ring"}]
<1>1. IsRefresh(r) /\ r.ring = adopt.ring /\ r.stage = "secrets"
  BY NewRefresh
<1>2. /\ UNCHANGED <<plain, vault, op>> /\ adopt' = NoAdopt
      /\ page' = [ring |-> adopt.ring, unlocked |-> page.unlocked, envelope |-> page.envelope,
                  vaultKey |-> page.vaultKey]
      /\ refreshes' = refreshes \/ (Configured /\ refreshes' = refreshes \cup {r})
  BY DEF ApplyKeyring
<1>3. adopt # NoAdopt
  BY DEF ApplyKeyring
<1> HIDE DEF r
<1> QED
  BY <1>1, <1>2, <1>3 DEF InClear, Configured, Seals

\* A refresh goes on as q, and what the page and the envelope hold stays sealed.
LEMMA GoesSecrets ==
  ASSUME SecretsInv, NEW r \in refreshes, NEW q, IsRefresh(q), Goes(r, {q}),
         q.ring = r.ring, q.stage \in {"sealing", "put"} => Seals(q.vault),
         UNCHANGED <<plain, op, adopt>>, vault' = vault \/ Seals(vault'),
         page' = [ring |-> page'.ring, unlocked |-> page'.unlocked, envelope |-> page'.envelope,
                  vaultKey |-> page'.vaultKey],
         page'.envelope = page.envelope \/ Seals(page'.envelope)
  PROVE  SecretsInv'
<1>1. op = NoOp /\ Configured /\ r.ring # {}
  BY DEF Enabling, Disabling
<1>2. Seals(vault') /\ Seals(page'.envelope) /\ Configured'
  BY <1>1, NoVaultFacts DEF Configured
<1>3. \A x \in refreshes' :
        IsRefresh(x) /\ x.ring # {} /\ (x.stage \in {"sealing", "put"} => Seals(x.vault))
  BY <1>1 DEF Goes
<1> QED
  BY <1>1, <1>2, <1>3

LEMMA RefreshReadsSecrets ==
  ASSUME SecretsInv, NEW r \in refreshes, RefreshReads(r)
  PROVE  SecretsInv'
<1> DEFINE sealed == [key |-> contentKey, ring |-> page'.unlocked]
<1>1. /\ UNCHANGED <<plain, vault, op, adopt>> /\ page'.envelope = page.envelope
      /\ page' = [ring |-> page'.ring, unlocked |-> page'.unlocked,
                  envelope |-> page'.envelope, vaultKey |-> page'.vaultKey]
  BY DEF RefreshReads
<1>2. IsRefresh(r)
  OBVIOUS
<1>3. CASE page'.unlocked # {} /\ contentKey # Clear
           /\ Goes(r, {[r EXCEPT !.stage = "sealing", !.vault = sealed]})
  <2> DEFINE q == [r EXCEPT !.stage = "sealing", !.vault = sealed]
  <2>1. Seals(sealed)
    BY <1>3 DEF Seals
  <2> HIDE DEF sealed, SecretsInv, LockShape
  <2>2. IsRefresh(q) /\ q.ring = r.ring /\ q.vault = sealed
    BY <1>2, SealingRefresh
  <2>3. Goes(r, {q})
    BY <1>3
  <2> HIDE DEF q
  <2> QED
    BY <1>1, <2>1, <2>2, <2>3, GoesSecrets
<1>4. CASE Goes(r, {[r EXCEPT !.stage = "clear"]})
  <2> DEFINE q == [r EXCEPT !.stage = "clear"]
  <2> HIDE DEF SecretsInv, LockShape
  <2>1. IsRefresh(q) /\ q.ring = r.ring /\ q.stage = "clear"
    BY <1>2, StagedRefresh
  <2>2. Goes(r, {q})
    BY <1>4
  <2> HIDE DEF q
  <2> QED
    BY <1>1, <2>1, <2>2, GoesSecrets
<1> QED
  BY <1>3, <1>4 DEF RefreshReads

LEMMA RefreshSealsSecrets ==
  ASSUME SecretsInv, NEW r \in refreshes, RefreshSeals(r)
  PROVE  SecretsInv'
<1> DEFINE q == [r EXCEPT !.stage = "put"]
<1>1. /\ UNCHANGED <<plain, vault, op, adopt>> /\ page'.envelope = r.vault /\ Seals(r.vault)
      /\ page' = [ring |-> page'.ring, unlocked |-> page'.unlocked,
                  envelope |-> page'.envelope, vaultKey |-> page'.vaultKey]
  BY DEF RefreshSeals
<1>2. Goes(r, {q}) /\ IsRefresh(r)
  BY DEF RefreshSeals
<1> HIDE DEF SecretsInv, LockShape
<1>3. IsRefresh(q) /\ q.ring = r.ring /\ q.vault = r.vault
  BY <1>2, StagedRefresh
<1> HIDE DEF q
<1> QED
  BY <1>1, <1>2, <1>3, GoesSecrets

LEMMA RefreshPutsSecrets ==
  ASSUME SecretsInv, NEW r \in refreshes, RefreshPuts(r)
  PROVE  SecretsInv'
<1> DEFINE q == [r EXCEPT !.stage = "clear"]
<1>1. UNCHANGED <<plain, page, op, adopt>> /\ vault' = r.vault /\ Seals(r.vault)
  BY DEF RefreshPuts
<1>2. Goes(r, {q}) /\ IsRefresh(r)
  BY DEF RefreshPuts
<1>3. page' = [ring |-> page'.ring, unlocked |-> page'.unlocked,
               envelope |-> page'.envelope, vaultKey |-> page'.vaultKey]
  BY <1>1
<1> HIDE DEF SecretsInv, LockShape
<1>4. IsRefresh(q) /\ q.ring = r.ring /\ q.stage = "clear"
  BY <1>2, StagedRefresh
<1> HIDE DEF q
<1> QED
  BY <1>1, <1>2, <1>3, <1>4, GoesSecrets

LEMMA RefreshClearsSecrets ==
  ASSUME SecretsInv, NEW r \in refreshes, NEW what, RefreshClears(r, what) PROVE SecretsInv'
<1> DEFINE next == [r EXCEPT !.left = @ \ {what}]
<1>1. IsRefresh(next) /\ next.ring = r.ring /\ next.stage = "clear"
  <2>1. IsRefresh(r) /\ r.stage = "clear"
    BY DEF RefreshClears
  <2> HIDE DEF SecretsInv, LockShape
  <2> QED
    BY <2>1, ClearedRefresh
<1>2. UNCHANGED <<vault, page, op, adopt>> /\ op = NoOp /\ Configured /\ r.ring # {}
  BY DEF RefreshClears
<1>3. refreshes' = refreshes \ {r} \/ refreshes' = (refreshes \ {r}) \cup {next}
  BY DEF RefreshClears, Goes
<1>4. plain' = [session |-> plain'.session, ring |-> plain'.ring] /\ plain'.session \in BOOLEAN
  BY DEF RefreshClears, Without
<1> HIDE DEF next
<1> QED
  BY <1>1, <1>2, <1>3, <1>4 DEF InClear, Configured, Seals

LEMMA EnableLockSecrets ==
  ASSUME ~Overlaps, SecretsInv, NEW k \in ContentKeys, EnableLock(k) PROVE SecretsInv'
BY StoreAssumption DEF EnableLock, Free, InClear, Configured, Seals, Enabling

LEMMA EnableSecrets ==
  ASSUME SecretsInv,
         \/ EnableKeys \/ EnableSeals \/ EnableEnds
         \/ \E what \in op.left : EnableClears(what)
  PROVE  SecretsInv'
<1>1. CASE EnableKeys
  <2>1. op' = [name |-> op.name, stage |-> "seal", key |-> op.key, ring |-> op.ring,
               left |-> op.left]
    BY <1>1 DEF EnableKeys
  <2>2. page' = [ring |-> page.ring, unlocked |-> op.ring, envelope |-> page.envelope,
                 vaultKey |-> op.key]
    BY <1>1 DEF EnableKeys
  <2>3. UNCHANGED <<plain, vault, adopt>> /\ op.name = "enable" /\ op.stage = "rows"
    BY <1>1 DEF EnableKeys
  <2>4. refreshes = {} /\ refreshes' = {}
    BY <1>1 DEF EnableKeys, Superseded
  <2> QED
    BY <2>1, <2>2, <2>3, <2>4 DEF InClear, Configured, Seals, Enabling, Disabling
<1>2. CASE EnableSeals
  BY <1>2 DEF EnableSeals, InClear, Configured, Seals, Enabling, Disabling
<1>3. CASE EnableEnds
  BY <1>3, NoVaultFacts DEF EnableEnds, InClear, Configured, Seals, Enabling, Disabling
<1>4. CASE \E what \in op.left : EnableClears(what)
  <2>1. UNCHANGED <<vault, page, refreshes, adopt>> /\ op.name = "enable" /\ op.stage = "clear"
    BY <1>4 DEF EnableClears
  <2>2. /\ op' = [name |-> op.name, stage |-> op.stage, key |-> op.key, ring |-> op.ring,
                  left |-> op'.left]
        /\ plain' = [session |-> plain'.session, ring |-> plain'.ring]
        /\ plain'.session \in BOOLEAN
    BY <1>4 DEF EnableClears, Without
  <2> QED
    BY <2>1, <2>2 DEF InClear, Configured, Seals, Enabling, Disabling
<1> QED
  BY <1>1, <1>2, <1>3, <1>4

LEMMA DisableLockSecrets == ASSUME ~Overlaps, SecretsInv, DisableLock PROVE SecretsInv'
BY DEF DisableLock, Free, InClear, Configured, Seals, Disabling

LEMMA DisableSecrets ==
  ASSUME SecretsInv, DisableSession \/ DisableKeyring \/ DisableKeys \/ DisableEnds
  PROVE  SecretsInv'
<1>1. CASE DisableSession
  <2>1. /\ UNCHANGED <<vault, page, refreshes, adopt>>
        /\ op.name = "disable" /\ op.stage = "rows"
        /\ op' = [name |-> op.name, stage |-> "ring", key |-> op.key, ring |-> op.ring,
                  left |-> op.left]
        /\ plain' = [session |-> TRUE, ring |-> plain.ring]
    BY <1>1 DEF DisableSession
  <2> QED
    BY <2>1 DEF InClear, Configured, Seals, Enabling, Disabling
<1>2. CASE DisableKeyring
  BY <1>2 DEF DisableKeyring, InClear, Configured, Seals, Enabling, Disabling
<1>3. CASE DisableKeys
  BY <1>3 DEF DisableKeys, InClear, Configured, Seals, Enabling, Disabling
<1>4. CASE DisableEnds
  BY <1>4 DEF DisableEnds, InClear, Configured, Seals, Enabling, Disabling
<1> QED
  BY <1>1, <1>2, <1>3, <1>4

LEMMA OpFailsSecrets == ASSUME SecretsInv, OpFails PROVE SecretsInv'
BY DEF OpFails, InClear, Configured, Seals, Enabling, Disabling

\* Refreshes go on with another map than `unlocked`.
LEMMA SupersededRefreshes ==
  ASSUME SecretsInv, Superseded
  PROVE  \A q \in refreshes' : IsRefresh(q) /\ \E r \in refreshes :
           q.stage = r.stage /\ q.ring = r.ring /\ ~q.live /\ q.vault = r.vault
<1> SUFFICES ASSUME NEW q \in refreshes'
             PROVE  IsRefresh(q) /\ \E r \in refreshes :
                      q.stage = r.stage /\ q.ring = r.ring /\ ~q.live /\ q.vault = r.vault
  OBVIOUS
<1>1. PICK r \in refreshes : q = [r EXCEPT !.live = FALSE]
  BY DEF Superseded
<1>2. IsRefresh(r)
  OBVIOUS
<1> HIDE DEF SecretsInv, LockShape
<1> QED
  BY <1>1, <1>2, DeadRefresh

LEMMA LockNowSecrets == ASSUME SecretsInv, LockNow PROVE SecretsInv'
<1>1. /\ UNCHANGED <<plain, vault, op, adopt>> /\ Configured /\ page'.envelope = page.envelope
      /\ page' = [ring |-> page'.ring, unlocked |-> page'.unlocked,
                  envelope |-> page'.envelope, vaultKey |-> page'.vaultKey]
  BY DEF LockNow
<1>2. /\ \A q \in refreshes' : /\ IsRefresh(q) /\ q.ring # {}
                               /\ q.stage \in {"sealing", "put"} => Seals(q.vault)
      /\ refreshes = {} => refreshes' = {}
  <2>1. Superseded
    BY DEF LockNow
  <2>2. \A q \in refreshes' : IsRefresh(q) /\ \E r \in refreshes :
           q.stage = r.stage /\ q.ring = r.ring /\ ~q.live /\ q.vault = r.vault
    BY <2>1, SupersededRefreshes
  <2>3. \A r \in refreshes : r.ring # {} /\ (r.stage \in {"sealing", "put"} => Seals(r.vault))
    OBVIOUS
  <2> QED
    BY <2>2, <2>3
<1> QED
  BY <1>1, <1>2 DEF InClear, Configured, Enabling, Disabling

LEMMA UnlockSecrets == ASSUME SecretsInv, Unlock PROVE SecretsInv'
BY DEF Unlock, InClear, Configured, Seals, Enabling, Disabling

LEMMA ReloadSecrets == ASSUME SecretsInv, Reload PROVE SecretsInv'
BY NoVaultFacts DEF Reload, InClear, Configured, Seals, Enabling, Disabling

HIDE DEF SecretsInv, LockShape, secrets, At, Stage, NoOp, NoAdopt

LEMMA NextSecretsInv == ~Overlaps /\ SecretsInv /\ [Next]_vars => SecretsInv'
<1> SUFFICES ASSUME ~Overlaps, SecretsInv, [Next]_vars PROVE SecretsInv'
  OBVIOUS
<1>1. CASE UNCHANGED LockState
  BY <1>1, SecretsElsewhere
<1>2. CASE Adopting \/ Refreshing
  BY <1>2, AdoptSavesSecrets, AdoptAcksSecrets, ApplyKeyringSecrets, RefreshReadsSecrets,
     RefreshSealsSecrets, RefreshPutsSecrets, RefreshClearsSecrets DEF Adopting, Refreshing
<1>3. CASE DisableLock \/ \E k \in ContentKeys : EnableLock(k)
  BY <1>3, EnableLockSecrets, DisableLockSecrets
<1>4. CASE Switching
  <2>1. CASE RewriteSteps /\ UNCHANGED lockVars
    BY <1>1, <2>1 DEF lockVars, secrets, LockState
  <2> QED
    BY <1>4, <2>1, EnableSecrets, DisableSecrets, OpFailsSecrets DEF Switching
<1>5. CASE LockNow \/ Unlock \/ Reload
  BY <1>5, LockNowSecrets, UnlockSecrets, ReloadSecrets
<1>6. CASE Rotated
  BY <1>1, <1>6 DEF Rotated, secrets, LockState
<1>7. CASE UNCHANGED lockVars
  BY <1>1, <1>7 DEF lockVars, secrets, LockState
<1> QED
  BY <1>2, <1>3, <1>4, <1>5, <1>6, <1>7
     DEF Next, Landing, Flushing, Begins, WorkerDies, vars

\* Whatever step of enableLock, disableLock, refreshVault or a key adoption the page is
\* killed at, the session and the keyring are in storage, in the clear or in the envelope
\* (lock.ts:262-266), however many keys are adopted and re-sealed at once, as long as none
\* is while the lock is being turned on or off.
THEOREM AtRestLockSecretsKept == ~Overlaps => (Spec => []SecretsKept)
<1> SUFFICES ASSUME ~Overlaps PROVE Spec => []SecretsKept
  OBVIOUS
<1>1. SecretsInv /\ [Next]_vars => SecretsInv'
  BY NextSecretsInv
<1> QED
  BY <1>1, InitSecretsInv, SecretsInvKept, PTL DEF Spec

(***************************************************************************)
(* The keyring: the inductive invariant, key by key.                       *)
(***************************************************************************)
\* The only refresh there is brings the key to the envelope, and nothing has come between.
InFlight(e) == \E r \in refreshes :
  /\ refreshes = {r} /\ ~locked
  /\ e \in r.ring \cap page.ring /\ (adopt # NoAdopt => e \in adopt.ring)
  /\ \/ r.stage = "secrets" /\ r.live
     \/ r.stage = "sealing" /\ e \in page.unlocked \cap r.vault.ring
     \/ r.stage = "put" /\ e \in page.unlocked \cap r.vault.ring \cap page.envelope.ring

\* Nothing that may be sealed or stored next lacks the key.
Everywhere(e) ==
  /\ page.ring # {} => e \in page.ring
  /\ page.unlocked # {} => e \in page.unlocked
  /\ Configured => e \in page.envelope.ring
  /\ adopt # NoAdopt => e \in adopt.ring
  /\ op # NoOp => e \in op.ring
  /\ \A r \in refreshes : e \in r.ring /\ (r.stage \in {"sealing", "put"} => e \in r.vault.ring)

\* Where the page has keys.
Held == UNION ({page.ring, page.unlocked, page.envelope.ring, op.ring}
                 \cup {r.ring : r \in refreshes} \cup {r.vault.ring : r \in refreshes})

\* The page of an unlocked device with a lock.
KeysHeld ==
  /\ locked => page.unlocked = {} /\ \A r \in refreshes : ~r.live
  /\ Configured /\ ~locked /\ ~At("disable", "vault") =>
       page.vaultKey # Clear /\ contentKey # Clear /\ page.unlocked # {}
  /\ op.name = "enable" /\ op.stage # "rows" =>
       ~locked /\ contentKey = op.key /\ page.vaultKey = op.key /\ page.unlocked = op.ring

VaultReaches == vault # NoVault => \A e \in vault.ring \ cut : Everywhere(e)

VaultCovers ==
  vault # NoVault =>
    /\ \A e \in Held \ cut : e \in vault.ring \/ InFlight(e)
    /\ locked => adopt.ring \ cut \subseteq vault.ring

AckedKept == \A e \in acked \ cut : e \in Kept \/ InFlight(e) \/ e \in adopt.ring

\* Without an envelope, the keyring in the clear is the one.
ClearHolds ==
  vault = NoVault =>
    /\ acked \cup page.ring \subseteq plain.ring \cup cut
    /\ adopt # NoAdopt => plain.ring = adopt.ring
    /\ adopt = NoAdopt /\ page.ring # {} => plain.ring \subseteq page.ring \cup cut
    /\ op.name = "enable" => op.ring = plain.ring

RingInv ==
  /\ SecretsInv /\ KeysHeld /\ VaultReaches /\ VaultCovers /\ AckedKept /\ ClearHolds

\* What it is about.
RingState == <<LockState, locked, contentKey, acked, cut>>

LEMMA RingInvStored == RingInv => RingIsStored
<1> SUFFICES ASSUME RingInv, ~locked, page.ring # {}, op = NoOp, adopt = NoAdopt, refreshes = {}
             PROVE  /\ acked \ cut \subseteq page.ring /\ page.ring \ cut \subseteq Kept
                    /\ IF Configured THEN vault # NoVault ELSE vault = NoVault /\ InClear
  BY DEF RingIsStored
<1>1. \A e : ~InFlight(e)
  BY DEF InFlight
<1>2. adopt.ring = {}
  BY DEF NoAdopt
<1>3. IF Configured THEN vault # NoVault ELSE vault = NoVault /\ InClear
  BY NoVaultFacts DEF RingInv, SecretsInv
<1>4. CASE vault # NoVault
  <2>1. Kept = vault.ring
    BY <1>4 DEF Kept
  <2>2. page.ring \ cut \subseteq Kept
    BY <1>1, <1>4, <2>1 DEF RingInv, VaultCovers, Held
  <2>3. acked \ cut \subseteq vault.ring
    BY <1>1, <1>2, <2>1 DEF RingInv, AckedKept
  <2>4. acked \ cut \subseteq page.ring
    BY <1>4, <2>3 DEF RingInv, VaultReaches, Everywhere
  <2> QED
    BY <1>3, <2>2, <2>4
<1>5. CASE vault = NoVault
  BY <1>3, <1>5 DEF RingInv, ClearHolds, Kept
<1> QED
  BY <1>4, <1>5

LEMMA RingElsewhere == RingInv /\ SecretsInv' /\ UNCHANGED RingState => RingInv'
<1> SUFFICES ASSUME RingInv, SecretsInv', UNCHANGED RingState PROVE RingInv'
  OBVIOUS
<1>1. UNCHANGED <<plain, vault, page, op, refreshes, adopt, locked, contentKey, acked, cut>>
  BY DEF RingState, LockState
<1>2. UNCHANGED <<Configured, Kept, Held>> /\ \A e : InFlight(e)' = InFlight(e)
  BY <1>1 DEF Configured, Kept, Held, InFlight, NoVault, NoAdopt
<1>3. KeysHeld' /\ ClearHolds'
  BY <1>1, <1>2 DEF RingInv, KeysHeld, ClearHolds, At, NoVault, NoAdopt
<1>4. VaultReaches' /\ VaultCovers' /\ AckedKept'
  BY <1>1, <1>2 DEF RingInv, VaultReaches, VaultCovers, AckedKept, Everywhere, NoVault, NoAdopt, NoOp
<1> QED
  BY <1>3, <1>4 DEF RingInv

LEMMA InitRingInv == LockInit => RingInv
<1> SUFFICES ASSUME LockInit PROVE RingInv
  OBVIOUS
<1>1. SecretsInv
  BY InitSecretsInv
<1> QED
  BY <1>1 DEF LockInit, StoreInit, RingInv, KeysHeld, VaultReaches, VaultCovers, AckedKept,
              ClearHolds, Kept, Configured, At, NoOp, NoAdopt

(***************************************************************************)
(* One lemma per step, in the same order.                                  *)
(***************************************************************************)
LEMMA AdoptSavesRing ==
  ASSUME ~Overlaps, RingInv, SecretsInv', AdoptSaves
  PROVE  RingInv'
<1>1. /\ UNCHANGED <<vault, page, op, refreshes, locked, contentKey, acked, cut>>
      /\ op = NoOp /\ adopt = NoAdopt /\ ~locked /\ page.ring # {}
      /\ adopt'.ring = page.ring \cup wraps /\ plain'.ring = page.ring \cup wraps
      /\ adopt'.stage = "saved" /\ adopt.ring = {}
  BY DEF AdoptSaves, storeVars, memory, RingInv, SecretsInv, LockShape, NoAdopt
<1>2. adopt' # NoAdopt /\ UNCHANGED <<Configured, Held>>
  BY <1>1 DEF NoAdopt, Configured, Held
<1>3. \A e : InFlight(e) => InFlight(e)'
  BY <1>1 DEF InFlight
<1>4. KeysHeld' /\ ClearHolds'
  BY <1>1, <1>2 DEF RingInv, KeysHeld, ClearHolds, At, NoOp
<1>5. VaultReaches'
  BY <1>1, <1>2 DEF RingInv, VaultReaches, Everywhere
<1>6. VaultCovers'
  BY <1>1, <1>2, <1>3 DEF RingInv, VaultCovers
<1>7. AckedKept'
  <2>1. CASE vault = NoVault
    BY <1>1, <2>1 DEF RingInv, AckedKept, ClearHolds, Kept
  <2>2. CASE vault # NoVault
    BY <1>1, <1>3, <2>2 DEF RingInv, AckedKept, Kept
  <2> QED
    BY <2>1, <2>2
<1> QED
  BY <1>4, <1>5, <1>6, <1>7 DEF RingInv

LEMMA AdoptAcksRing == ASSUME RingInv, SecretsInv', AdoptAcks PROVE RingInv'
<1>1. /\ UNCHANGED <<plain, vault, page, op, refreshes, locked, contentKey, cut>>
      /\ adopt # NoAdopt /\ adopt'.ring = adopt.ring /\ adopt'.stage = "acked"
      /\ acked' = acked \cup (wraps \cap adopt.ring)
  BY DEF AdoptAcks, storeVars, memory, secrets, RingInv, SecretsInv, LockShape, NoAdopt
<1>2. adopt' # NoAdopt /\ UNCHANGED <<Configured, Held, Kept>>
  BY <1>1 DEF NoAdopt, Configured, Held, Kept
<1>3. \A e : InFlight(e) => InFlight(e)'
  BY <1>1 DEF InFlight
<1>4. KeysHeld' /\ ClearHolds'
  BY <1>1, <1>2 DEF RingInv, KeysHeld, ClearHolds, At
<1>5. VaultReaches' /\ VaultCovers'
  BY <1>1, <1>2, <1>3 DEF RingInv, VaultReaches, VaultCovers, Everywhere
<1>6. AckedKept'
  BY <1>1, <1>2, <1>3 DEF RingInv, AckedKept
<1> QED
  BY <1>4, <1>5, <1>6 DEF RingInv

LEMMA ApplyKeyringRing == ASSUME RingInv, SecretsInv', ApplyKeyring PROVE RingInv'
<1> DEFINE r == [stage |-> "secrets", ring |-> adopt.ring, live |-> TRUE, vault |-> NoVault,
                 left |-> {"session", "ring"}]
           refreshed == Configured /\ page.vaultKey # Clear /\ page.unlocked # {} /\ ~locked
<1>1. IsRefresh(r) /\ r.ring = adopt.ring /\ r.stage = "secrets" /\ r.live /\ r.vault = NoVault
  BY NewRefresh
<1>2. /\ UNCHANGED <<plain, vault, op, locked, contentKey, acked>>
      /\ adopt' = NoAdopt /\ adopt'.ring = {} /\ adopt # NoAdopt /\ op = NoOp
      /\ page'.ring = adopt.ring /\ page'.unlocked = page.unlocked
      /\ page'.envelope = page.envelope /\ page'.vaultKey = page.vaultKey
  BY DEF ApplyKeyring, storeVars, memory, secrets, RingInv, SecretsInv, LockShape, NoAdopt
<1>3. /\ refreshed => refreshes' = refreshes \cup {r}
      /\ ~refreshed => refreshes' = refreshes /\ cut' = cut
      /\ cut' = IF refreshed /\ refreshes # {} THEN cut \cup (Carried \ Kept) ELSE cut
  BY DEF ApplyKeyring
<1> HIDE DEF r
<1>4. UNCHANGED <<Configured, Kept>> /\ NoVault.ring = {}
  BY <1>2, NoVaultFacts DEF Configured, Kept
<1>5. Configured /\ ~locked => refreshed
  BY <1>2 DEF RingInv, KeysHeld, At, NoOp
<1>6. KeysHeld' /\ ClearHolds'
  BY <1>1, <1>2, <1>3, <1>4 DEF RingInv, KeysHeld, ClearHolds, At, NoOp
<1>7. VaultReaches'
  BY <1>1, <1>2, <1>3, <1>4 DEF RingInv, VaultReaches, Everywhere
<1>8. ~refreshed => \A e : InFlight(e) => FALSE
  BY <1>5 DEF RingInv, SecretsInv, InFlight
<1>9. refreshed /\ refreshes = {} => \A e \in adopt.ring : InFlight(e)'
  BY <1>1, <1>2, <1>3 DEF InFlight
<1>10. \A e : InFlight(e) \/ e \in adopt.ring => e \in Carried
  BY DEF InFlight, Carried
<1>11. CASE refreshed /\ refreshes # {}
  <2>1. cut' = cut \cup (Carried \ Kept) /\ refreshes' = refreshes \cup {r}
    BY <1>3, <1>11
  <2>2. vault # NoVault /\ Kept = vault.ring
    BY <1>11, NoVaultFacts DEF RingInv, SecretsInv, Enabling, Disabling, Kept
  <2>3. \A e \in Held' : e \in Held \/ e \in adopt.ring
    BY <1>1, <1>2, <1>4, <2>1 DEF Held
  <2>4. VaultCovers'
    BY <1>2, <1>4, <1>10, <1>11, <2>1, <2>2, <2>3 DEF RingInv, VaultCovers
  <2>5. AckedKept'
    BY <1>2, <1>4, <1>10, <2>1, <2>2 DEF RingInv, AckedKept
  <2> QED
    BY <1>6, <1>7, <2>4, <2>5 DEF RingInv
<1>12. CASE refreshed /\ refreshes = {}
  <2>1. cut' = cut /\ refreshes' = {r} /\ \A e : ~InFlight(e)
    BY <1>3, <1>12 DEF InFlight
  <2>2. \A e \in Held' : e \in Held \/ e \in adopt.ring
    BY <1>1, <1>2, <1>4, <2>1 DEF Held
  <2>3. VaultCovers'
    BY <1>2, <1>4, <1>9, <1>12, <2>1, <2>2 DEF RingInv, VaultCovers
  <2>4. AckedKept'
    BY <1>2, <1>4, <1>9, <1>12, <2>1 DEF RingInv, AckedKept
  <2> QED
    BY <1>6, <1>7, <2>3, <2>4 DEF RingInv
<1>13. CASE ~refreshed
  <2>1. cut' = cut /\ refreshes' = refreshes /\ \A e : ~InFlight(e)
    BY <1>3, <1>8, <1>13
  <2>2. \A e \in Held' : e \in Held \/ e \in adopt.ring
    BY <1>2, <2>1 DEF Held
  <2>3. vault # NoVault => locked
    BY <1>2, <1>5, <1>13 DEF RingInv, SecretsInv
  <2>4. VaultCovers'
    BY <1>2, <1>4, <2>1, <2>2, <2>3 DEF RingInv, VaultCovers
  <2>5. AckedKept'
    BY <1>2, <1>4, <2>1, <2>3 DEF RingInv, AckedKept, VaultCovers, ClearHolds, Kept
  <2> QED
    BY <1>6, <1>7, <2>4, <2>5 DEF RingInv
<1> QED
  BY <1>11, <1>12, <1>13

\* A device refreshes the envelope of a lock, with no switch under way.
LEMMA RefreshContext ==
  ASSUME RingInv, NEW r \in refreshes
  PROVE  /\ op = NoOp /\ Configured /\ vault # NoVault /\ Kept = vault.ring
         /\ IsRefresh(r) /\ r.ring # {} /\ op.name = "none"
         /\ ~locked => page.vaultKey # Clear /\ contentKey # Clear /\ page.unlocked # {}
<1>1. op = NoOp /\ Configured /\ IsRefresh(r) /\ r.ring # {}
  BY DEF RingInv, SecretsInv, LockShape
<1>2. vault # NoVault
  BY <1>1, NoVaultFacts DEF RingInv, SecretsInv
<1> QED
  BY <1>1, <1>2 DEF RingInv, KeysHeld, Kept, At, NoOp

LEMMA RefreshReadsRing ==
  ASSUME RingInv, SecretsInv', NEW r \in refreshes, RefreshReads(r)
  PROVE  RingInv'
<1> DEFINE sealed == [key |-> contentKey, ring |-> page'.unlocked]
           sealing == [r EXCEPT !.stage = "sealing", !.vault = sealed]
           clear == [r EXCEPT !.stage = "clear"]
<1>1. /\ UNCHANGED <<plain, vault, op, adopt, locked, contentKey, acked, cut>>
      /\ page'.ring = page.ring /\ page'.envelope = page.envelope
      /\ page'.vaultKey = page.vaultKey /\ r.stage = "secrets"
      /\ page'.unlocked = IF r.live THEN r.ring ELSE page.unlocked
  BY DEF RefreshReads, storeVars, memory, secrets, RingInv, SecretsInv, LockShape
<1>2. /\ op = NoOp /\ Configured /\ vault # NoVault /\ Kept = vault.ring
      /\ IsRefresh(r) /\ r.ring # {} /\ op.name = "none"
      /\ ~locked => page.vaultKey # Clear /\ contentKey # Clear /\ page.unlocked # {}
  BY RefreshContext
<1>3. UNCHANGED <<Configured, Kept>>
  BY <1>1 DEF Configured, Kept
<1>4. PICK q : /\ Goes(r, {q}) /\ q.ring = r.ring /\ q.live = r.live
               /\ \/ q.stage = "sealing" /\ q.vault.ring = page'.unlocked /\ page'.unlocked # {}
                  \/ q.stage = "clear" /\ q.vault = r.vault /\ locked
  <2>1. CASE Goes(r, {sealing}) /\ page'.unlocked # {}
    <3>1. sealing.stage = "sealing" /\ sealing.ring = r.ring /\ sealing.live = r.live
          /\ sealing.vault = sealed
      <4> HIDE DEF sealed
      <4> QED
        BY <1>2, SealingRefresh
    <3>2. sealing.vault.ring = page'.unlocked
      BY <3>1
    <3> HIDE DEF sealing, sealed
    <3> QED
      BY <2>1, <3>1, <3>2
  <2>2. CASE Goes(r, {clear}) /\ locked
    <3>1. clear.stage = "clear" /\ clear.ring = r.ring /\ clear.live = r.live
          /\ clear.vault = r.vault
      BY <1>2, StagedRefresh
    <3> HIDE DEF clear
    <3> QED
      BY <2>2, <3>1
  <2>3. ~locked => page'.unlocked # {} /\ contentKey # Clear /\ page.vaultKey # Clear
    BY <1>1, <1>2
  <2> QED
    BY <1>2, <2>1, <2>2, <2>3 DEF RefreshReads
<1>5. refreshes' = (refreshes \ {r}) \cup {q}
  BY <1>4 DEF Goes
<1>6. \A e : InFlight(e) => InFlight(e)'
  BY <1>1, <1>4, <1>5 DEF InFlight
<1>7. KeysHeld' /\ ClearHolds'
  BY <1>1, <1>2, <1>3, <1>4, <1>5 DEF RingInv, KeysHeld, ClearHolds, At
<1>8. VaultReaches'
  BY <1>1, <1>2, <1>3, <1>4, <1>5 DEF RingInv, VaultReaches, Everywhere
<1>9. VaultCovers'
  <2>1. Held' \subseteq Held
    BY <1>1, <1>4, <1>5 DEF Held
  <2> QED
    BY <1>1, <1>3, <1>6, <2>1 DEF RingInv, VaultCovers
<1>10. AckedKept'
  BY <1>1, <1>3, <1>6 DEF RingInv, AckedKept
<1> QED
  BY <1>7, <1>8, <1>9, <1>10 DEF RingInv

LEMMA RefreshSealsRing ==
  ASSUME RingInv, SecretsInv', NEW r \in refreshes, RefreshSeals(r)
  PROVE  RingInv'
<1> DEFINE q == [r EXCEPT !.stage = "put"]
<1>1. /\ UNCHANGED <<plain, vault, op, adopt, locked, contentKey, acked, cut>>
      /\ page'.ring = page.ring /\ page'.unlocked = page.unlocked
      /\ page'.vaultKey = page.vaultKey /\ page'.envelope = r.vault
      /\ r.stage = "sealing" /\ Goes(r, {q})
  BY DEF RefreshSeals, storeVars, memory, secrets, RingInv, SecretsInv, LockShape
<1>2. /\ op = NoOp /\ Configured /\ vault # NoVault /\ Kept = vault.ring
      /\ IsRefresh(r) /\ r.ring # {} /\ op.name = "none"
      /\ ~locked => page.vaultKey # Clear /\ contentKey # Clear /\ page.unlocked # {}
  BY RefreshContext
<1>3. Kept' = Kept /\ Configured'
  BY <1>1, <1>2 DEF Kept, SecretsInv
<1>4. q.stage = "put" /\ q.ring = r.ring /\ q.live = r.live /\ q.vault = r.vault
  BY <1>2, StagedRefresh
<1>5. refreshes' = (refreshes \ {r}) \cup {q}
  BY <1>1 DEF Goes
<1> HIDE DEF q
<1>6. \A e : InFlight(e) => InFlight(e)'
  BY <1>1, <1>4, <1>5 DEF InFlight
<1>7. KeysHeld' /\ ClearHolds'
  BY <1>1, <1>2, <1>3, <1>4, <1>5 DEF RingInv, KeysHeld, ClearHolds, At
<1>8. VaultReaches'
  BY <1>1, <1>2, <1>3, <1>4, <1>5 DEF RingInv, VaultReaches, Everywhere
<1>9. VaultCovers'
  <2>1. Held' \subseteq Held
    BY <1>1, <1>4, <1>5 DEF Held
  <2> QED
    BY <1>1, <1>3, <1>6, <2>1 DEF RingInv, VaultCovers
<1>10. AckedKept'
  BY <1>1, <1>3, <1>6 DEF RingInv, AckedKept
<1> QED
  BY <1>7, <1>8, <1>9, <1>10 DEF RingInv

LEMMA RefreshPutsRing ==
  ASSUME RingInv, SecretsInv', NEW r \in refreshes, RefreshPuts(r)
  PROVE  RingInv'
<1> DEFINE q == [r EXCEPT !.stage = "clear"]
<1>1. /\ UNCHANGED <<plain, page, op, adopt, locked, contentKey, acked, cut>>
      /\ vault' = r.vault /\ r.stage = "put" /\ Goes(r, {q})
  BY DEF RefreshPuts, storeVars, memory
<1>2. /\ op = NoOp /\ Configured /\ vault # NoVault /\ Kept = vault.ring
      /\ IsRefresh(r) /\ r.ring # {} /\ op.name = "none"
  BY RefreshContext
<1>3. Configured' = Configured /\ vault' # NoVault /\ Kept' = r.vault.ring
  BY <1>1, NoVaultFacts DEF Kept, Configured, RingInv, SecretsInv
<1>4. q.stage = "clear" /\ q.ring = r.ring /\ q.live = r.live /\ q.vault = r.vault
  BY <1>2, StagedRefresh
<1>5. refreshes' = (refreshes \ {r}) \cup {q}
  BY <1>1 DEF Goes
<1> HIDE DEF q
<1>6. \A e \in vault.ring \ cut : e \in vault'.ring /\ Everywhere(e)'
  BY <1>1, <1>2, <1>3, <1>4, <1>5 DEF RingInv, VaultReaches, Everywhere
<1>7. \A e : InFlight(e) => e \in vault'.ring /\ Everywhere(e)'
  BY <1>1, <1>2, <1>3, <1>4, <1>5 DEF InFlight, Everywhere
<1>8. KeysHeld' /\ ClearHolds'
  BY <1>1, <1>2, <1>3, <1>4, <1>5 DEF RingInv, KeysHeld, ClearHolds, At
<1>9. VaultReaches'
  <2>1. \A e \in vault'.ring : e \in Held
    BY <1>1 DEF Held
  <2> QED
    BY <1>1, <1>2, <1>6, <1>7, <2>1 DEF RingInv, VaultReaches, VaultCovers
<1>10. VaultCovers'
  <2>1. Held' \subseteq Held
    BY <1>1, <1>4, <1>5 DEF Held
  <2>2. locked => \A e : ~InFlight(e)
    BY DEF InFlight
  <2> QED
    BY <1>1, <1>2, <1>6, <1>7, <2>1, <2>2 DEF RingInv, VaultCovers
<1>11. AckedKept'
  BY <1>1, <1>2, <1>3, <1>6, <1>7 DEF RingInv, AckedKept
<1> QED
  BY <1>8, <1>9, <1>10, <1>11 DEF RingInv

LEMMA RefreshClearsRing ==
  ASSUME RingInv, SecretsInv', NEW r \in refreshes, NEW what, RefreshClears(r, what)
  PROVE  RingInv'
<1> DEFINE next == [r EXCEPT !.left = @ \ {what}]
<1>1. /\ UNCHANGED <<vault, page, op, adopt, locked, contentKey, acked, cut>>
      /\ r.stage = "clear"
  BY DEF RefreshClears, storeVars, memory
<1>2. /\ op = NoOp /\ Configured /\ vault # NoVault /\ Kept = vault.ring
      /\ IsRefresh(r) /\ r.ring # {} /\ op.name = "none"
  BY RefreshContext
<1>3. UNCHANGED <<Configured, Kept>>
  BY <1>1, <1>2 DEF Kept, Configured
<1>4. next.stage = "clear" /\ next.ring = r.ring /\ next.live = r.live /\ next.vault = r.vault
  BY <1>1, <1>2, ClearedRefresh
<1>5. refreshes' = refreshes \ {r} \/ refreshes' = (refreshes \ {r}) \cup {next}
  BY DEF RefreshClears, Goes
<1> HIDE DEF next
<1>6. \A e : ~InFlight(e)
  BY <1>1 DEF InFlight
<1>7. KeysHeld' /\ ClearHolds'
  BY <1>1, <1>2, <1>3, <1>4, <1>5 DEF RingInv, KeysHeld, ClearHolds, At
<1>8. VaultReaches'
  BY <1>1, <1>2, <1>3, <1>4, <1>5 DEF RingInv, VaultReaches, Everywhere
<1>9. VaultCovers'
  <2>1. Held' \subseteq Held
    BY <1>1, <1>4, <1>5 DEF Held
  <2> QED
    BY <1>1, <1>3, <1>6, <2>1 DEF RingInv, VaultCovers
<1>10. AckedKept'
  BY <1>1, <1>3, <1>6 DEF RingInv, AckedKept
<1> QED
  BY <1>7, <1>8, <1>9, <1>10 DEF RingInv

LEMMA EnableLockRing ==
  ASSUME ~Overlaps, RingInv, SecretsInv', NEW k \in ContentKeys, EnableLock(k) PROVE RingInv'
<1>1. /\ UNCHANGED <<plain, vault, page, refreshes, adopt, locked, contentKey, acked, cut>>
      /\ op'.name = "enable" /\ op'.stage = "rows" /\ op'.ring = plain.ring
      /\ ~Configured /\ op = NoOp /\ adopt = NoAdopt /\ refreshes = {}
  BY DEF EnableLock, Free, memory, secrets, NoOp
<1>2. UNCHANGED <<Configured, Kept>> /\ vault = NoVault
  BY <1>1 DEF Configured, Kept, RingInv, SecretsInv
<1>3. \A e : ~InFlight(e)
  BY <1>1 DEF InFlight
<1>4. KeysHeld' /\ ClearHolds' /\ VaultReaches' /\ VaultCovers'
  BY <1>1, <1>2 DEF RingInv, KeysHeld, ClearHolds, VaultReaches, VaultCovers, At
<1>5. AckedKept'
  BY <1>1, <1>2, <1>3 DEF RingInv, AckedKept
<1> QED
  BY <1>4, <1>5 DEF RingInv

\* While the lock is turned on or off, no key is on its way.
LEMMA SwitchContext ==
  ASSUME RingInv, op # NoOp
  PROVE  /\ adopt = NoAdopt /\ adopt.ring = {} /\ refreshes = {} /\ \A e : ~InFlight(e)
         /\ Enabling \/ Disabling
BY DEF RingInv, SecretsInv, InFlight, NoAdopt

LEMMA EnableKeysRing == ASSUME RingInv, SecretsInv', EnableKeys PROVE RingInv'
<1>1. /\ UNCHANGED <<plain, vault, adopt, acked, cut>> /\ ~locked' /\ contentKey' = op.key
      /\ op'.name = "enable" /\ op'.stage = "seal" /\ op'.ring = op.ring /\ op'.key = op.key
      /\ page'.ring = page.ring /\ page'.unlocked = op.ring /\ page'.vaultKey = op.key
      /\ page'.envelope = page.envelope /\ op.name = "enable" /\ op.stage = "rows" /\ op # NoOp
  BY DEF EnableKeys, secrets, At, Stage, NoOp, RingInv, SecretsInv, LockShape
<1>2. /\ adopt = NoAdopt /\ refreshes = {} /\ \A e : ~InFlight(e)
      /\ vault = NoVault /\ ~Configured
  BY <1>1, SwitchContext DEF Enabling, Disabling
<1>3. refreshes' = {} /\ UNCHANGED <<Configured, Kept>>
  BY <1>1, <1>2 DEF EnableKeys, Superseded, Configured, Kept
<1>4. KeysHeld' /\ ClearHolds' /\ VaultReaches' /\ VaultCovers'
  BY <1>1, <1>2, <1>3 DEF RingInv, KeysHeld, ClearHolds, VaultReaches, VaultCovers, At
<1>5. AckedKept'
  BY <1>1, <1>2, <1>3 DEF RingInv, AckedKept
<1> QED
  BY <1>4, <1>5 DEF RingInv

LEMMA EnableSealsRing == ASSUME RingInv, SecretsInv', EnableSeals PROVE RingInv'
<1>1. /\ UNCHANGED <<plain, page, refreshes, adopt, locked, contentKey, acked, cut>>
      /\ op'.name = "enable" /\ op'.stage = "clear" /\ op'.ring = op.ring /\ op'.key = op.key
      /\ op.name = "enable" /\ op.stage = "seal" /\ op # NoOp
      /\ vault' = [key |-> op.key, ring |-> op.ring]
  BY DEF EnableSeals, storeVars, memory, At, Stage, NoOp, RingInv, SecretsInv, LockShape
<1>2. /\ adopt = NoAdopt /\ adopt.ring = {} /\ refreshes = {} /\ \A e : ~InFlight(e)
      /\ vault = NoVault /\ ~Configured /\ op.ring # {}
  BY <1>1, SwitchContext DEF Enabling, Disabling
<1>3. /\ UNCHANGED Configured /\ vault'.ring = op.ring /\ vault' # NoVault /\ Kept' = op.ring
      /\ Kept = plain.ring /\ op.ring = plain.ring /\ page.unlocked = op.ring
      /\ page.envelope.ring = {}
  BY <1>1, <1>2, NoVaultFacts DEF Configured, Kept, RingInv, ClearHolds, KeysHeld
<1>4. KeysHeld' /\ ClearHolds'
  BY <1>1, <1>3 DEF RingInv, KeysHeld, ClearHolds, At
<1>5. VaultReaches'
  BY <1>1, <1>2, <1>3 DEF RingInv, ClearHolds, VaultReaches, Everywhere
<1>6. VaultCovers'
  BY <1>1, <1>2, <1>3 DEF RingInv, ClearHolds, VaultCovers, Held
<1>7. AckedKept'
  BY <1>1, <1>2, <1>3 DEF RingInv, AckedKept
<1> QED
  BY <1>4, <1>5, <1>6, <1>7 DEF RingInv

LEMMA EnableClearsRing ==
  ASSUME RingInv, SecretsInv', NEW what, EnableClears(what)
  PROVE  RingInv'
<1>1. /\ UNCHANGED <<vault, page, refreshes, adopt, locked, contentKey, acked, cut>>
      /\ op'.name = "enable" /\ op'.stage = "clear" /\ op'.ring = op.ring /\ op'.key = op.key
      /\ op.name = "enable" /\ op.stage = "clear" /\ op # NoOp
  BY DEF EnableClears, storeVars, memory, At, NoOp, RingInv, SecretsInv, LockShape
<1>2. /\ adopt = NoAdopt /\ refreshes = {} /\ \A e : ~InFlight(e)
      /\ vault # NoVault
  BY <1>1, SwitchContext, NoVaultFacts DEF Enabling, Disabling, Seals
<1>3. UNCHANGED <<Configured, Kept, Held>>
  BY <1>1, <1>2 DEF Configured, Kept, Held
<1>4. KeysHeld' /\ ClearHolds'
  BY <1>1, <1>2, <1>3 DEF RingInv, KeysHeld, ClearHolds, At
<1>5. VaultReaches' /\ VaultCovers'
  BY <1>1, <1>2, <1>3 DEF RingInv, VaultCovers, VaultReaches, Everywhere
<1>6. AckedKept'
  BY <1>1, <1>2, <1>3 DEF RingInv, AckedKept
<1> QED
  BY <1>4, <1>5, <1>6 DEF RingInv

LEMMA EnableEndsRing == ASSUME RingInv, SecretsInv', EnableEnds PROVE RingInv'
<1>1. /\ UNCHANGED <<plain, vault, refreshes, adopt, locked, contentKey, acked, cut>> /\ op' = NoOp
      /\ page'.ring = page.ring /\ page'.unlocked = page.unlocked
      /\ page'.envelope = [key |-> op.key, ring |-> op.ring] /\ page'.vaultKey = page.vaultKey
      /\ op.name = "enable" /\ op.stage = "clear" /\ op # NoOp
      /\ op'.name = "none" /\ op'.ring = {}
  BY DEF EnableEnds, storeVars, memory, secrets, At, NoOp, RingInv, SecretsInv, LockShape
<1>2. /\ adopt = NoAdopt /\ refreshes = {} /\ \A e : ~InFlight(e)
      /\ vault = [key |-> op.key, ring |-> op.ring] /\ op.ring # {} /\ op.key # Clear
  BY <1>1, SwitchContext DEF Enabling, Disabling
<1>3. vault.ring = op.ring /\ page'.envelope.ring = op.ring /\ vault # NoVault /\ Kept' = Kept
  BY <1>1, <1>2 DEF Kept, NoVault
<1>4. KeysHeld' /\ ClearHolds'
  BY <1>1, <1>2, <1>3 DEF RingInv, KeysHeld, ClearHolds, At
<1>5. VaultReaches'
  BY <1>1, <1>2, <1>3 DEF RingInv, VaultReaches, Everywhere
<1>6. VaultCovers'
  <2>1. Held' \subseteq Held
    BY <1>1, <1>3 DEF Held
  <2> QED
    BY <1>1, <1>2, <1>3, <2>1 DEF RingInv, VaultCovers
<1>7. AckedKept'
  BY <1>1, <1>2, <1>3 DEF RingInv, AckedKept
<1> QED
  BY <1>4, <1>5, <1>6, <1>7 DEF RingInv

LEMMA DisableLockRing == ASSUME ~Overlaps, RingInv, SecretsInv', DisableLock PROVE RingInv'
<1>1. /\ UNCHANGED <<plain, vault, page, refreshes, adopt, locked, contentKey, acked, cut>>
      /\ op'.name = "disable" /\ op'.stage = "rows" /\ op'.ring = page.unlocked
      /\ Configured /\ op = NoOp /\ adopt = NoAdopt /\ refreshes = {} /\ page.unlocked # {}
  BY DEF DisableLock, Free, memory, secrets, NoOp
<1>2. UNCHANGED <<Configured, Kept>> /\ vault # NoVault /\ \A e : ~InFlight(e)
  BY <1>1, NoVaultFacts DEF Configured, Kept, RingInv, SecretsInv, InFlight
<1>3. KeysHeld' /\ ClearHolds'
  BY <1>1, <1>2 DEF RingInv, KeysHeld, ClearHolds, At, NoOp
<1>4. VaultReaches'
  BY <1>1, <1>2 DEF RingInv, VaultReaches, Everywhere
<1>5. VaultCovers'
  <2>1. Held' \subseteq Held
    BY <1>1 DEF Held
  <2> QED
    BY <1>1, <1>2, <2>1 DEF RingInv, VaultCovers
<1>6. AckedKept'
  BY <1>1, <1>2 DEF RingInv, AckedKept
<1> QED
  BY <1>3, <1>4, <1>5, <1>6 DEF RingInv

LEMMA DisableStepsRing ==
  ASSUME RingInv, SecretsInv', DisableSession \/ DisableKeyring \/ DisableKeys
  PROVE  RingInv'
<1>1. /\ UNCHANGED <<vault, refreshes, adopt, acked, cut>>
      /\ op.name = "disable" /\ op'.name = "disable" /\ op'.ring = op.ring /\ op # NoOp
      /\ op.stage # "vault" /\ op' # NoOp
      /\ page'.ring = page.ring /\ page'.unlocked = page.unlocked /\ page'.envelope = page.envelope
      /\ \/ /\ UNCHANGED <<page, locked, contentKey>> /\ op'.stage # "vault"
         \/ /\ ~locked' /\ op'.stage = "vault"
  BY DEF DisableSession, DisableKeyring, DisableKeys, storeVars, memory, secrets, At, Stage, NoOp,
         RingInv, SecretsInv, LockShape
<1>2. /\ adopt = NoAdopt /\ refreshes = {} /\ \A e : ~InFlight(e)
      /\ vault # NoVault /\ Configured
  BY <1>1, SwitchContext, NoVaultFacts DEF Enabling, Disabling
<1>3. UNCHANGED <<Configured, Kept, Held>>
  BY <1>1, <1>2 DEF Configured, Kept, Held
<1>4. KeysHeld' /\ ClearHolds'
  BY <1>1, <1>2, <1>3 DEF RingInv, KeysHeld, ClearHolds, At
<1>5. VaultReaches'
  BY <1>1, <1>2, <1>3 DEF RingInv, VaultReaches, Everywhere
<1>6. VaultCovers'
  BY <1>1, <1>2, <1>3, SwitchContext DEF RingInv, VaultCovers
<1>7. AckedKept'
  BY <1>1, <1>2, <1>3 DEF RingInv, AckedKept
<1> QED
  BY <1>4, <1>5, <1>6, <1>7 DEF RingInv

LEMMA DisableEndsRing == ASSUME RingInv, SecretsInv', DisableEnds PROVE RingInv'
<1>1. /\ UNCHANGED <<plain, refreshes, adopt, locked, contentKey, acked, cut>>
      /\ vault' = NoVault /\ op' = NoOp /\ op'.name = "none"
      /\ op.name = "disable" /\ op.stage = "vault" /\ op # NoOp
      /\ page'.ring = page.ring /\ page'.unlocked = page.unlocked
      /\ page'.envelope = NoVault /\ page'.vaultKey = page.vaultKey
  BY DEF DisableEnds, storeVars, memory, At, NoOp, RingInv, SecretsInv, LockShape
<1>2. /\ adopt = NoAdopt /\ adopt.ring = {} /\ refreshes = {} /\ \A e : ~InFlight(e)
      /\ vault # NoVault /\ plain.ring = op.ring
  BY <1>1, SwitchContext, NoVaultFacts DEF Enabling, Disabling
<1>3. ~Configured' /\ Kept' = plain.ring /\ Kept = vault.ring
  BY <1>1, <1>2 DEF Configured, Kept
<1>4. \A e \in vault.ring \ cut : e \in op.ring /\ (page.ring # {} => e \in page.ring)
  BY <1>1, <1>2 DEF RingInv, VaultReaches, Everywhere
<1>5. \A e \in (page.ring \cup op.ring) \ cut : e \in vault.ring
  BY <1>2 DEF RingInv, VaultCovers, Held
<1>6. \A e \in acked \ cut : e \in vault.ring
  BY <1>2, <1>3 DEF RingInv, AckedKept
<1>7. KeysHeld' /\ VaultReaches' /\ VaultCovers'
  BY <1>1, <1>2, <1>3 DEF RingInv, KeysHeld, VaultReaches, VaultCovers, At
<1>8. ClearHolds'
  BY <1>1, <1>2, <1>4, <1>5, <1>6 DEF ClearHolds
<1>9. AckedKept'
  BY <1>1, <1>2, <1>3, <1>4, <1>6 DEF AckedKept
<1> QED
  BY <1>7, <1>8, <1>9 DEF RingInv

LEMMA OpFailsRing == ASSUME RingInv, SecretsInv', OpFails PROVE RingInv'
<1>1. /\ UNCHANGED <<plain, vault, page, refreshes, adopt, locked, contentKey, acked, cut>>
      /\ op' = NoOp /\ op'.name = "none" /\ op'.ring = {} /\ op.stage = "rows" /\ op # NoOp
  BY DEF OpFails, memory, secrets, NoOp
<1>2. adopt = NoAdopt /\ refreshes = {} /\ \A e : ~InFlight(e)
  BY <1>1, SwitchContext
<1>3. UNCHANGED <<Configured, Kept>> /\ Held' \subseteq Held
  BY <1>1 DEF Configured, Kept, Held
<1>4. KeysHeld' /\ ClearHolds'
  BY <1>1, <1>2, <1>3 DEF RingInv, KeysHeld, ClearHolds, At
<1>5. VaultReaches' /\ VaultCovers'
  BY <1>1, <1>2, <1>3 DEF RingInv, VaultCovers, VaultReaches, Everywhere
<1>6. AckedKept'
  BY <1>1, <1>2, <1>3 DEF RingInv, AckedKept
<1> QED
  BY <1>4, <1>5, <1>6 DEF RingInv

LEMMA LockNowRing == ASSUME RingInv, SecretsInv', LockNow PROVE RingInv'
<1>1. /\ UNCHANGED <<plain, vault, op, adopt, acked>> /\ locked' /\ Configured /\ ~locked
      /\ page'.ring = {} /\ page'.unlocked = {} /\ page'.envelope = page.envelope
      /\ cut' = cut \cup (Carried \ Kept) /\ Superseded
  BY DEF LockNow, secrets, RingInv, SecretsInv, LockShape
<1>2. vault # NoVault /\ Kept = vault.ring /\ op.name # "enable"
  BY <1>1, NoVaultFacts DEF RingInv, SecretsInv, Enabling, Disabling, Kept, NoOp
<1>3. UNCHANGED <<Configured, Kept>>
  BY <1>1 DEF Configured, Kept
<1>4. \A q \in refreshes' : IsRefresh(q) /\ \E r \in refreshes :
         q.stage = r.stage /\ q.ring = r.ring /\ ~q.live /\ q.vault = r.vault
  BY <1>1, SupersededRefreshes DEF RingInv
<1>5. \A e : InFlight(e) => e \in cut' \cup vault.ring
  BY <1>1, <1>2 DEF InFlight, Carried
<1>6. KeysHeld' /\ ClearHolds'
  BY <1>1, <1>2, <1>3, <1>4 DEF KeysHeld, ClearHolds, At
<1>7. VaultReaches'
  BY <1>1, <1>2, <1>3, <1>4 DEF RingInv, VaultReaches, Everywhere
<1>8. VaultCovers'
  <2>1. Held' \subseteq Held
    BY <1>1, <1>4 DEF Held
  <2>2. adopt.ring \ cut' \subseteq vault.ring
    BY <1>1, <1>2 DEF Carried
  <2> QED
    BY <1>1, <1>2, <1>5, <2>1, <2>2 DEF RingInv, VaultCovers
<1>9. AckedKept'
  BY <1>1, <1>2, <1>3, <1>5 DEF RingInv, AckedKept
<1> QED
  BY <1>6, <1>7, <1>8, <1>9 DEF RingInv

LEMMA UnlockRing == ASSUME RingInv, SecretsInv', Unlock PROVE RingInv'
<1>1. /\ UNCHANGED <<plain, vault, op, refreshes, adopt, acked, cut>>
      /\ locked /\ ~locked' /\ Configured /\ contentKey' = page.envelope.key
      /\ page'.ring = page.envelope.ring /\ page'.unlocked = page.envelope.ring
      /\ page'.envelope = page.envelope /\ page'.vaultKey = page.envelope.key
  BY DEF Unlock, secrets, RingInv, SecretsInv, LockShape
<1>2. /\ vault # NoVault /\ Kept = vault.ring /\ op.name # "enable"
      /\ page.envelope.key # Clear /\ page.envelope.ring # {}
  BY <1>1, NoVaultFacts DEF RingInv, SecretsInv, Enabling, Disabling, Kept, NoOp, Seals
<1>3. UNCHANGED <<Configured, Kept>> /\ \A e : ~InFlight(e)
  BY <1>1 DEF Configured, Kept, InFlight
<1>4. KeysHeld' /\ ClearHolds'
  BY <1>1, <1>2 DEF KeysHeld, ClearHolds
<1>5. VaultReaches'
  BY <1>1, <1>2, <1>3 DEF RingInv, VaultReaches, Everywhere
<1>6. VaultCovers'
  <2>1. Held' \subseteq Held
    BY <1>1 DEF Held
  <2> QED
    BY <1>1, <1>2, <1>3, <2>1 DEF RingInv, VaultCovers
<1>7. AckedKept'
  BY <1>1, <1>3 DEF RingInv, AckedKept
<1> QED
  BY <1>4, <1>5, <1>6, <1>7 DEF RingInv

LEMMA ReloadRing == ASSUME RingInv, SecretsInv', Reload PROVE RingInv'
<1>1. /\ UNCHANGED <<plain, vault, acked>> /\ locked' = (vault # NoVault)
      /\ page'.ring = IF vault = NoVault /\ InClear THEN plain.ring ELSE {}
      /\ page'.unlocked = {} /\ page'.envelope = vault /\ page'.vaultKey = Clear
      /\ op' = NoOp /\ refreshes' = {} /\ adopt' = NoAdopt
      /\ op'.name = "none" /\ op'.ring = {} /\ adopt'.ring = {}
      /\ cut' = cut \cup ((acked \cap Carried) \ Kept)
  BY DEF Reload, secrets, NoOp, NoAdopt
<1>2. Kept' = Kept /\ (Configured' <=> vault # NoVault)
  BY <1>1 DEF Configured, Kept
<1>3. \A e \in acked \ cut' : e \in Kept
  BY <1>1 DEF RingInv, AckedKept, InFlight, Carried
<1>4. vault = NoVault => InClear
  BY NoVaultFacts DEF RingInv, SecretsInv, Enabling, Disabling
<1>5. KeysHeld'
  BY <1>1, <1>2 DEF KeysHeld
<1>6. VaultReaches' /\ VaultCovers'
  BY <1>1, <1>2 DEF VaultReaches, VaultCovers, Everywhere, Held
<1>7. ClearHolds'
  BY <1>1, <1>3, <1>4 DEF ClearHolds, Kept
<1>8. AckedKept'
  BY <1>1, <1>2, <1>3 DEF AckedKept
<1> QED
  BY <1>5, <1>6, <1>7, <1>8 DEF RingInv

LEMMA NextRingInv == ~Overlaps /\ RingInv /\ [Next]_vars => RingInv'
<1> SUFFICES ASSUME ~Overlaps, RingInv, [Next]_vars PROVE RingInv'
  OBVIOUS
<1>0. SecretsInv'
  BY NextSecretsInv DEF RingInv
<1>1. CASE UNCHANGED RingState
  BY <1>0, <1>1, RingElsewhere
<1>2. CASE Adopting \/ Refreshing
  BY <1>0, <1>2, AdoptSavesRing, AdoptAcksRing, ApplyKeyringRing, RefreshReadsRing,
     RefreshSealsRing, RefreshPutsRing, RefreshClearsRing DEF Adopting, Refreshing
<1>3. CASE DisableLock \/ \E k \in ContentKeys : EnableLock(k)
  BY <1>0, <1>3, EnableLockRing, DisableLockRing
<1>4. CASE Switching
  <2>1. CASE RewriteSteps /\ UNCHANGED lockVars
    BY <1>1, <2>1 DEF RewriteSteps, RewriteReads, RewritePuts, memory, lockVars, secrets,
                      LockState, RingState
  <2> QED
    BY <1>0, <1>4, <2>1, EnableKeysRing, EnableSealsRing, EnableClearsRing, EnableEndsRing,
       DisableStepsRing, DisableEndsRing, OpFailsRing DEF Switching
<1>5. CASE LockNow \/ Unlock \/ Reload
  BY <1>0, <1>5, LockNowRing, UnlockRing, ReloadRing
<1>6. CASE Rotated
  BY <1>1, <1>6 DEF Rotated, storeVars, memory, secrets, LockState, RingState
<1>7. ASSUME NEW m \in Messages, Users(m), UNCHANGED lockVars PROVE RingInv'
  BY <1>1, <1>7 DEF Users, Compose, Retry, Delete, memory, lockVars, secrets, LockState, RingState
<1>8. CASE Landing
  BY <1>1, <1>8 DEF Landing, WriteLands, lockVars, secrets, LockState, RingState
<1>9. ASSUME NEW c \in Contexts, UNCHANGED lockVars,
             \/ FlushBegin(c, InClear) \/ FlushSteps(c)
             \/ \E st \in {"queued", "failed"} : PostFails(c, st)
      PROVE RingInv'
  <2>1. UNCHANGED memory
    BY <1>9 DEF FlushBegin, FlushSteps, PostFails, ReadIndex, ListQueued, DropStale, RebuildIndex,
                NextMessage, Posted, UpdateReads, UpdatePuts, FlushEnds
  <2> QED
    BY <1>1, <1>9, <2>1 DEF memory, lockVars, secrets, LockState, RingState
<1>10. CASE WorkerDies
  BY <1>1, <1>10 DEF WorkerDies, memory, lockVars, secrets, LockState, RingState
<1>11. CASE UNCHANGED vars
  BY <1>1, <1>11 DEF vars, storeVars, memory, lockVars, secrets, LockState, RingState
<1> QED
  BY <1>2, <1>3, <1>4, <1>5, <1>6, <1>7, <1>8, <1>9, <1>10, <1>11 DEF Next, Begins, Flushing

\* However often keys are rotated, the lock turned on and off, and the page locked,
\* unlocked and killed, and however refreshes of the envelope overlap, an unlocked page at
\* rest has every key whose wrap the server dropped, and storage has the keyring it runs
\* on: in the envelope, or in the clear when there is no lock (lock.ts:383-386).  Only a
\* key that the device was still storing when it was locked, killed or given the next one
\* may be missing.  No key is adopted while the lock is switched.
THEOREM AtRestLockRingIsStored == ~Overlaps => (Spec => []RingIsStored)
<1> SUFFICES ASSUME ~Overlaps PROVE Spec => []RingIsStored
  OBVIOUS
<1>1. RingInv /\ [Next]_vars => RingInv'
  BY NextRingInv
<1> QED
  BY <1>1, InitRingInv, RingInvStored, PTL DEF Spec
=============================================================================
