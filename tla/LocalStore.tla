----------------------------- MODULE LocalStore -----------------------------
(***************************************************************************)
(* The messages a device keeps in IndexedDB, the index of those it still   *)
(* owes to the server, and the two contexts that flush them: the page and  *)
(* the service worker (apps/web/src/db/store.ts, db/atrest.ts,             *)
(* sync/outbox.ts).                                                        *)
(*                                                                         *)
(* A step is one IndexedDB transaction or one request.  Whatever a context *)
(* read in an earlier transaction may be out of date: sealing and opening  *)
(* a row are awaits, and no transaction survives one.  Rows are sealed     *)
(* with the content key of the at-rest lock or are in the clear; the       *)
(* service worker never has the key.                                       *)
(***************************************************************************)
EXTENDS Naturals, FiniteSets

CONSTANTS
  Messages,     \* messages this device writes; those it receives stay out of the index
  Page, Worker, \* the contexts
  ContentKeys,  \* content keys, each of one use of the lock
  Clear,        \* no key
  MaxFaults     \* bound on failed requests, refusals and contexts that die

ASSUME StoreAssumption ==
  /\ Page # Worker /\ Clear \notin ContentKeys
  /\ MaxFaults \in Nat

Contexts == {Page, Worker}

VARIABLES
  row,         \* the messages store
  index,       \* META_OUTBOX
  contentKey,  \* db/atrest.ts in the page
  locked,      \* contentLocked, with the lock screen
  writes,      \* rows the page has sealed and not yet put
  flush,       \* doFlush in each context
  holder,      \* who holds OUTBOX_LOCK
  server,      \* the messages that arrived there
  rewrite,     \* rewriteLocalContent
  deleted,     \* history: messages the user deleted here
  faults       \* faults so far

store == <<row, index>>
memory == <<contentKey, locked, writes>>
outbox == <<flush, holder, server>>
storeVars == <<store, memory, outbox, rewrite, deleted, faults>>

-----------------------------------------------------------------------------
NoRow == [st |-> "none", key |-> Clear]
IsRow(r) == r # NoRow
Queued(r) == r.st = "queued"          \* isQueuedMessages

KeyOf(c) == IF c = Page THEN contentKey ELSE Clear

\* fromStored: a row in the clear, or one this context has the key of.
Opens(c, r) == r.key \in {Clear, KeyOf(c)}

\* Decrypting with another key throws, and ends whatever was reading.
Throws(c, r) == KeyOf(c) # Clear /\ ~Opens(c, r)

\* Mutant: the index is written after the row, if the context lives.
TracksNothing(S, addOnly) == index.ids

\* trackOutbox: the index after writing the rows S, a function from ids.
Tracked(S, addOnly) ==
  (index.ids \cup {m \in DOMAIN S : Queued(S[m])})
    \ (IF addOnly THEN {} ELSE {m \in DOMAIN S : ~Queued(S[m])})

\* putMessage's transaction.
Put(m, r) ==
  /\ row' = [row EXCEPT ![m] = r]
  /\ index' = [index EXCEPT !.ids = Tracked([x \in {m} |-> r], FALSE)]

NoFlush == [stage |-> "idle", due |-> {}, id |-> Clear, st |-> "none", copy |-> NoRow,
            seen |-> [m \in {} |-> NoRow], complete |-> FALSE, last |-> FALSE]
NoRewrite == [stage |-> "off", target |-> Clear, todo |-> {}, id |-> Clear, st |-> "none"]

StoreInit ==
  /\ row = [m \in Messages |-> NoRow]
  /\ index \in [complete : BOOLEAN, ids : {{}}]
  /\ contentKey = Clear /\ locked = FALSE /\ writes = {}
  /\ flush = [c \in Contexts |-> NoFlush] /\ holder = Clear /\ server = {}
  /\ rewrite = NoRewrite /\ deleted = {} /\ faults = 0

-----------------------------------------------------------------------------
(***************************************************************************)
(* The user and the sync pass, in the page.                                *)
(***************************************************************************)
Written(m, st) == writes' = writes \cup {[id |-> m, row |-> [st |-> st, key |-> contentKey]]}
Idle(m) == \A x \in writes : x.id # m

\* sendComposerMessage, up to toStored.
Compose(m) ==
  /\ ~locked /\ ~IsRow(row[m]) /\ m \notin deleted \cup server /\ Idle(m)
  /\ Written(m, "queued")
  /\ UNCHANGED <<store, contentKey, locked, outbox, rewrite, deleted, faults>>

\* retryMessage.
Retry(m) ==
  /\ ~locked /\ row[m].st = "failed" /\ Opens(Page, row[m]) /\ Idle(m)
  /\ Written(m, "queued")
  /\ UNCHANGED <<store, contentKey, locked, outbox, rewrite, deleted, faults>>

WriteLands(x) ==
  /\ x \in writes
  /\ Put(x.id, x.row)
  /\ writes' = writes \ {x}
  /\ UNCHANGED <<contentKey, locked, outbox, rewrite, deleted, faults>>

\* deleteMessage, with untrackOutbox.
Delete(m) ==
  /\ ~locked /\ IsRow(row[m]) /\ Opens(Page, row[m]) /\ Idle(m)
  /\ row' = [row EXCEPT ![m] = NoRow]
  /\ index' = [index EXCEPT !.ids = @ \ {m}]
  /\ deleted' = deleted \cup {m}
  /\ UNCHANGED <<memory, outbox, rewrite, faults>>

-----------------------------------------------------------------------------
(***************************************************************************)
(* doFlush.  `secrets` says whether the session and the keyring are in     *)
(* storage, which is where both contexts look for them.                    *)
(***************************************************************************)
InFlush(c, stage) == flush[c].stage = stage
Becomes(c, f) == flush' = [flush EXCEPT ![c] = f]
Releases(c) == Becomes(c, NoFlush) /\ holder' = Clear

FlushBegin(c, secrets) ==
  /\ holder = Clear /\ secrets
  /\ c = Page => ~locked
  /\ ~index.complete \/ index.ids # {}   \* nothing changes otherwise
  /\ holder' = c
  /\ Becomes(c, [NoFlush EXCEPT !.stage = "list"])
  /\ UNCHANGED <<store, memory, server, rewrite, deleted, faults>>

\* queuedMessages reads the index,
ReadIndex(c) ==
  /\ InFlush(c, "list")
  /\ Becomes(c, [flush[c] EXCEPT !.stage = "read", !.complete = index.complete, !.due = index.ids])
  /\ UNCHANGED <<store, memory, holder, server, rewrite, deleted, faults>>

\* then the rows: those it names if it was complete, all of them otherwise.
ListQueued(c) ==
  LET f     == flush[c]
      ids   == IF f.complete THEN f.due ELSE {m \in Messages : IsRow(row[m])}
      mine  == {m \in ids : Opens(c, row[m])}
      due   == {m \in mine : Queued(row[m])}
      stale == IF f.complete THEN mine \ due ELSE {}
      next  == IF f.last THEN "done" ELSE "next"
  IN /\ InFlush(c, "read")
     /\ IF \E m \in ids : Throws(c, row[m])
        THEN Releases(c)
        ELSE /\ Becomes(c, [f EXCEPT !.due = due, !.seen = [m \in stale |-> row[m]],
                              !.complete = (mine = ids),
                              !.stage = IF ~f.complete THEN "rebuild"
                                        ELSE IF stale # {} THEN "drop" ELSE next])
             /\ UNCHANGED holder
     /\ UNCHANGED <<store, memory, server, rewrite, deleted, faults>>

\* Mutant: what was read decides.
UnchangedOrNot(S) == DOMAIN S

\* The stale entries whose row is still what was read.
StillStale(S) == {m \in DOMAIN S : row[m] = S[m]}

DropStale(c) ==
  LET f == flush[c] IN
  /\ InFlush(c, "drop")
  /\ index' = [index EXCEPT !.ids = @ \ StillStale(f.seen)]
  /\ Becomes(c, [f EXCEPT !.stage = IF f.last THEN "done" ELSE "next", !.seen = NoFlush.seen])
  /\ UNCHANGED <<row, memory, holder, server, rewrite, deleted, faults>>

\* rebuildOutboxIndex: merge what the scan found.
RebuildIndex(c) ==
  LET f == flush[c] IN
  /\ InFlush(c, "rebuild")
  /\ index' = [complete |-> f.complete \/ index.complete, ids |-> index.ids \cup f.due]
  /\ Becomes(c, [f EXCEPT !.stage = IF f.last THEN "done" ELSE "next"])
  /\ UNCHANGED <<row, memory, holder, server, rewrite, deleted, faults>>

\* The worker takes one message per pass; then both count what is left.
NextMessage(c) ==
  LET f == flush[c] IN
  /\ InFlush(c, "next")
  /\ \/ /\ f.due = {}
        /\ Becomes(c, [NoFlush EXCEPT !.stage = "list", !.last = TRUE])
     \/ \E m \in f.due :
          LET rest == [f EXCEPT !.due = IF c = Worker THEN {} ELSE @ \ {m}] IN
          /\ ~Throws(c, row[m])
          /\ Becomes(c, IF Opens(c, row[m]) /\ Queued(row[m])
                        THEN [rest EXCEPT !.stage = "post", !.id = m] ELSE rest)
  /\ UNCHANGED <<store, memory, holder, server, rewrite, deleted, faults>>

\* The message arrives (or had already: conflict is read as sent),
Posted(c) ==
  /\ InFlush(c, "post")
  /\ server' = server \cup {flush[c].id}
  /\ Becomes(c, [flush[c] EXCEPT !.stage = "update", !.st = "sent"])
  /\ UNCHANGED <<store, memory, holder, rewrite, deleted, faults>>

\* or the request fails or is aborted, whether or not it arrived, or is refused.
PostFails(c, st) ==
  /\ InFlush(c, "post") /\ faults < MaxFaults /\ faults' = faults + 1
  /\ server' \in {server} \cup (IF st = "queued" THEN {server \cup {flush[c].id}} ELSE {})
  /\ Becomes(c, [flush[c] EXCEPT !.stage = "update", !.st = st])
  /\ UNCHANGED <<store, memory, holder, rewrite, deleted>>

\* update reads the row, so as not to put back one the user deleted, and seals;
UpdateReads(c) ==
  LET f == flush[c]
      r == row[f.id]
      seals == IsRow(r) /\ Opens(c, r)
  IN /\ InFlush(c, "update")
     /\ ~Throws(c, r) /\ ~(seals /\ c = Page /\ locked)
     /\ Becomes(c, IF seals THEN [f EXCEPT !.stage = "put", !.copy = [st |-> f.st, key |-> KeyOf(c)]]
                   ELSE [f EXCEPT !.stage = "next"])
     /\ UNCHANGED <<store, memory, holder, server, rewrite, deleted, faults>>

\* then it writes.
UpdatePuts(c) ==
  LET f == flush[c] IN
  /\ InFlush(c, "put")
  /\ Put(f.id, f.copy)
  /\ Becomes(c, [f EXCEPT !.stage = "next", !.copy = NoRow])
  /\ UNCHANGED <<memory, holder, server, rewrite, deleted, faults>>

\* The pass is over, or a row does not decrypt, or the device is locked under it.
FlushThrows(c) ==
  \/ /\ InFlush(c, "next")
     /\ \E m \in flush[c].due : Throws(c, row[m])
  \/ /\ InFlush(c, "update")
     /\ LET r == row[flush[c].id] IN
        Throws(c, r) \/ (c = Page /\ locked /\ IsRow(r) /\ r.key = Clear)

FlushEnds(c) ==
  /\ InFlush(c, "done") \/ FlushThrows(c)
  /\ Releases(c)
  /\ UNCHANGED <<store, memory, server, rewrite, deleted, faults>>

FlushSteps(c) ==
  \/ ReadIndex(c) \/ ListQueued(c) \/ DropStale(c) \/ RebuildIndex(c) \/ NextMessage(c)
  \/ Posted(c) \/ UpdateReads(c) \/ UpdatePuts(c) \/ FlushEnds(c)

-----------------------------------------------------------------------------
(***************************************************************************)
(* rewriteLocalContent: the rows there are at the start, one at a time.    *)
(***************************************************************************)
RewriteStart(target) ==
  rewrite' = [NoRewrite EXCEPT !.stage = "rows", !.target = target,
                               !.todo = {m \in Messages : IsRow(row[m])}]

RewriteReads(m) ==
  /\ rewrite.stage = "rows" /\ m \in rewrite.todo /\ ~Throws(Page, row[m])
  /\ rewrite' = IF IsRow(row[m]) /\ Opens(Page, row[m])
                THEN [rewrite EXCEPT !.stage = "row", !.todo = @ \ {m}, !.id = m, !.st = row[m].st]
                ELSE [rewrite EXCEPT !.todo = @ \ {m}]
  /\ UNCHANGED <<store, memory, outbox, deleted, faults>>

\* Mutant: the rewrite does not keep the index in step.
RewritesRowOnly ==
  /\ rewrite.stage = "row" /\ ~(locked /\ rewrite.target = Clear)
  /\ row' = [row EXCEPT ![rewrite.id] = [st |-> rewrite.st, key |-> rewrite.target]]
  /\ rewrite' = [rewrite EXCEPT !.stage = "rows"]
  /\ UNCHANGED <<index, memory, outbox, deleted, faults>>

RewritePuts ==
  /\ rewrite.stage = "row" /\ ~(locked /\ rewrite.target = Clear)
  /\ LET r == [st |-> rewrite.st, key |-> rewrite.target] IN
     /\ row' = [row EXCEPT ![rewrite.id] = r]
     /\ index' = [index EXCEPT !.ids = Tracked([x \in {rewrite.id} |-> r], TRUE)]
  /\ rewrite' = [rewrite EXCEPT !.stage = "rows"]
  /\ UNCHANGED <<memory, outbox, deleted, faults>>

RewriteDone == rewrite.stage = "rows" /\ rewrite.todo = {}

\* A row sealed under another key, or a device locked before the row is written.
RewriteThrows ==
  \/ rewrite.stage = "rows" /\ \E m \in rewrite.todo : Throws(Page, row[m])
  \/ rewrite.stage = "row" /\ locked /\ rewrite.target = Clear

RewriteSteps == (\E m \in Messages : RewriteReads(m)) \/ RewritePuts

-----------------------------------------------------------------------------
(***************************************************************************)
(* The index may hold extra ids, and "must never miss one".                *)
(***************************************************************************)
IndexCovers == index.complete => \A m \in Messages : Queued(row[m]) => m \in index.ids
=============================================================================
