--------------------------- MODULE VaultSyncProofs ---------------------------
(***************************************************************************)
(* A device's copies of the vault, on disk and in memory, implement        *)
(* VaultListing: for any number of items, pages, devices, reloads and      *)
(* failures, as long as no listing without an item overtakes the answer to *)
(* a write of it.                                                          *)
(***************************************************************************)
EXTENDS VaultSync, VaultServerProofs, WellFoundedInduction

now == passes["now"]
former == passes["old"]

(***************************************************************************)
(* The inductive invariant.                                                *)
(***************************************************************************)
\* A row the device has held is of the row's only life, and as good as it was read for as
\* long as the revision stays.
Seen(row, kept) ==
  /\ row \in Row /\ row.seq <= kept.seq
  /\ row # NoRow =>
       /\ kept.state # "absent"
       /\ kept.state = "live" =>
            /\ row.revision <= kept.revision
            /\ row.revision = kept.revision => row.edits = kept.edits /\ row.opens = kept.opens

Copy(copy, table) ==
  copy \in [Items -> Row] /\ \A i \in Items : Seen(copy[i], table[i])

\* Of what has not changed since n, the copy has exactly what the vault has.
Right(copy, n, table) ==
  \A i \in Items :
    table[i].seq <= n => copy[i].seq = IF table[i].state = "live" THEN table[i].seq ELSE 0

Dead == {"gone", "forgotten"}

\* Only an answer carries a row, and what a call has purged stays dead.
Carries(c, table) ==
  /\ c.row # NoRow =>
       c.stage \in {"ok", "stored"} /\ c.id \in Items /\ Seen(c.row, table[c.id])
  /\ \A i \in c.purged : table[i].state \in Dead

\* Numbers are of one row each, none of a row that never was, and no forgotten row is above
\* the floor.
History ==
  /\ \A i, j \in Items : i # j /\ rows[i].seq = rows[j].seq => rows[i].seq = 0
  /\ \A i \in Items : rows[i].state = "absent" => rows[i].seq = 0
  /\ \A i \in Items : rows[i].state = "forgotten" => rows[i].seq <= vaultFloor
  /\ \A p \in Actors : Carries(call[p], rows)

\* An answer that is still to be stored or shown is of an item that is there, or that no
\* listing has reported gone.
Awaited ==
  \A w \in Own : Landed(w) /\ rows[call[w].id].state # "live" =>
    diskCursor < rows[call[w].id].seq

Phases == {"idle", "pull", "store", "storing", "apply", "open"}

PassRecord ==
  [phase : Phases, at : Nat, began : Nat, rebuilding : BOOLEAN, removed : SUBSET Items,
   items : [Items -> Row], records : [Items -> Row], before : [Items -> Row]]

\* What a pass may have of an item: what it listed last is the item's last change up to
\* where the pass is, and what it did not list has not changed since it started, from n.
KnowsFrom(p, i, n) ==
  IF rows[i].state = "live"
  THEN \/ p.items[i].seq = rows[i].seq
       \/ ~p.rebuilding /\ i \notin p.removed /\ rows[i].seq <= n
  ELSE /\ p.items[i] = NoRow
       /\ p.rebuilding \/ i \in p.removed \/ rows[i].seq <= n

Knows(p, i) == KnowsFrom(p, i, cursor)

\* An item listed as live that has died since is not about to be forgotten.
Mourned(p) ==
  \A i \in Items : p.items[i] # NoRow /\ rows[i].state # "live" =>
    rows[i].state = "gone" /\ i \notin expired /\ p.began < rows[i].seq

PassFits(p) ==
  /\ p \in PassRecord /\ p.at <= vaultSeq /\ p.began <= vaultSeq
  /\ Copy(p.items, rows) /\ Copy(p.records, rows)
  /\ p.phase \in {"pull", "store", "storing", "apply"} =>
       \A i \in Items : rows[i].seq <= p.at => Knows(p, i)
  /\ p.phase = "pull" => Mourned(p) /\ (p.rebuilding \/ p.at > 0)

PassInv == PassFits(now)

\* What a transaction may write: it brings the copy on disk further, and to what is right.
Storable(p) ==
  /\ p \in PassRecord /\ p.at <= vaultSeq /\ diskCursor <= p.at /\ Copy(p.items, rows)
  /\ \A i \in Items : rows[i].seq <= p.at => KnowsFrom(p, i, diskCursor)

\* The transaction of a space that was left is written before the space is opened again.
FormerInv ==
  /\ "phase" \in DOMAIN former
  /\ former.phase = "storing" => view = "closed" /\ Storable(former)

\* Disk and memory stand at one cursor, but for the step between storing and applying.
Cursors ==
  /\ diskCursor \in 0..vaultSeq /\ cursor \in 0..vaultSeq /\ loaded.cursor \in 0..vaultSeq
  /\ view \in {"closed", "loading", "open"}
  /\ view # "open" => now.phase = "idle" /\ mem = Empty /\ cursor = 0
  /\ view = "loading" => loaded.cursor = diskCursor
  /\ view = "open" /\ now.phase # "apply" => cursor = diskCursor
  /\ now.phase \in {"store", "storing"} => diskCursor <= now.at
  /\ now.phase = "apply" => now.at = diskCursor /\ cursor <= diskCursor

Copies ==
  /\ Copy(disk, rows) /\ Copy(mem, rows) /\ Copy(loaded.copy, rows)
  /\ Right(disk, diskCursor, rows) /\ Right(loaded.copy, loaded.cursor, rows)
  /\ IF now.phase = "open"
     THEN Right(now.records, cursor, rows) /\ Right(Opened(now), cursor, rows)
     ELSE Right(mem, cursor, rows)

SyncInv ==
  /\ VaultInv /\ History /\ Awaited
  /\ DOMAIN passes = {"now", "old"} /\ PassInv /\ FormerInv
  /\ Cursors /\ Copies

(***************************************************************************)
(* What a step of the Worker leaves of a copy.                             *)
(***************************************************************************)
\* A row that changes is numbered anew, above the counter; a dead one stays dead.
LEMMA SeqsLive ==
  ASSUME VaultInv, VaultInv', RowsLive, NEW i \in Items
  PROVE  /\ rows[i].seq \in Nat /\ rows'[i].seq \in Nat /\ rows[i].seq <= rows'[i].seq
         /\ rows'[i].seq <= vaultSeq =>
              rows'[i].seq = rows[i].seq /\ (rows'[i].state = "live" <=> rows[i].state = "live")
         /\ rows[i].state \in Dead => rows'[i].state \in Dead
<1>1. /\ rows[i] \in Row /\ rows'[i] \in Row /\ rows[i].seq <= vaultSeq /\ vaultSeq \in Nat
      /\ vaultSeq' \in Nat /\ Lives(i)
  BY DEF VaultInv, Table, Counters, RowsLive
<1>2. rows[i].seq \in Nat /\ rows'[i].seq \in Nat
  BY <1>1 DEF Row
<1>3. CASE Untouched(i) \/ Forgotten(i)
  BY <1>1, <1>2, <1>3 DEF Untouched, Forgotten, Dead
<1>4. CASE (Born(i) \/ Edited(i) \/ Resealed(i) \/ Buried(i)) /\ Numbered(i)
  <2>1. rows'[i].seq > vaultSeq
    BY <1>1, <1>4 DEF Numbered
  <2> QED
    BY <1>1, <1>2, <1>4, <2>1 DEF Born, Edited, Resealed, Buried, Dead
<1> QED
  BY <1>1, <1>3, <1>4 DEF Lives

LEMMA SeenLives ==
  ASSUME VaultInv, VaultInv', RowsLive, NEW i \in Items, NEW row, Seen(row, rows[i])
  PROVE  Seen(row, rows'[i])
<1>1. /\ rows[i] \in Row /\ rows'[i] \in Row /\ row \in Row /\ Lives(i)
  BY DEF VaultInv, Table, RowsLive, Seen
<1>2. /\ row.seq \in Nat /\ row.revision \in Nat /\ rows[i].revision \in Nat
      /\ rows'[i].revision \in Nat
  BY <1>1 DEF Row
<1>3. row.seq <= rows'[i].seq
  BY <1>2, SeqsLive DEF Seen
<1>4. ASSUME row # NoRow
      PROVE  /\ rows'[i].state # "absent"
             /\ rows'[i].state = "live" =>
                  /\ row.revision <= rows'[i].revision
                  /\ row.revision = rows'[i].revision =>
                       row.edits = rows'[i].edits /\ row.opens = rows'[i].opens
  <2>1. /\ rows[i].state # "absent"
        /\ rows[i].state = "live" =>
             /\ row.revision <= rows[i].revision
             /\ row.revision = rows[i].revision =>
                  row.edits = rows[i].edits /\ row.opens = rows[i].opens
    BY <1>4 DEF Seen
  <2> QED
    BY <1>1, <1>2, <2>1 DEF Lives, Untouched, Born, Edited, Resealed, Buried, Forgotten
<1> QED
  BY <1>1, <1>3, <1>4 DEF Seen

LEMMA CopyLives ==
  ASSUME VaultInv, VaultInv', RowsLive, NEW copy, Copy(copy, rows)
  PROVE  Copy(copy, rows')
BY SeenLives DEF Copy

LEMMA RightLives ==
  ASSUME VaultInv, VaultInv', RowsLive, NEW copy, NEW n \in 0..vaultSeq, Right(copy, n, rows)
  PROVE  Right(copy, n, rows')
<1> SUFFICES ASSUME NEW i \in Items, rows'[i].seq <= n
             PROVE  copy[i].seq = IF rows'[i].state = "live" THEN rows'[i].seq ELSE 0
  BY DEF Right
<1>1. vaultSeq \in Nat
  BY DEF VaultInv, Counters
<1>2. rows'[i].seq = rows[i].seq /\ (rows'[i].state = "live" <=> rows[i].state = "live")
  BY <1>1, SeqsLive
<1> QED
  BY <1>2 DEF Right

(***************************************************************************)
(* What a step of the Worker adds to the history.                          *)
(***************************************************************************)
\* A call that has moved carries nothing, or the row as it is now.
NewCall(c) ==
  /\ c.row # NoRow =>
       c.stage = "ok" /\ c.id \in Items /\ c.row = rows'[c.id] /\ c.row.state = "live"
  /\ \A i \in c.purged : rows'[i].state \in Dead

Moved(p) == (\A q \in Actors \ {p} : call'[q] = call[q]) /\ NewCall(call'[p])

\* What is newly past its time is of before any listing under way, and what is forgotten
\* is not above the floor.
Ages ==
  /\ \A i \in expired' \ expired : now.phase = "pull" => rows[i].seq <= now.began
  /\ vaultFloor <= vaultFloor'
  /\ \A i \in Items : rows'[i].state = "forgotten" =>
       rows[i].state = "forgotten" \/ rows'[i].seq <= vaultFloor'

LEMMA HistoryLives ==
  ASSUME SyncInv, VaultInv', RowsLive, Ages, NEW p \in Actors, Moved(p)
  PROVE  History'
<1>1. VaultInv /\ History
  BY DEF SyncInv
<1>2. ASSUME NEW i \in Items, NEW j \in Items, i # j, rows'[i].seq = rows'[j].seq
      PROVE  rows'[i].seq = 0
  <2>1. Lives(i) /\ Lives(j)
    BY DEF RowsLive
  <2>2. ~Numbered(i) /\ ~Numbered(j)
    BY <1>2 DEF Numbered
  <2>3. rows'[i].seq = rows[i].seq /\ rows'[j].seq = rows[j].seq
    BY <2>1, <2>2 DEF Lives, Untouched, Forgotten
  <2> QED
    BY <1>1, <1>2, <2>3 DEF History
<1>3. ASSUME NEW i \in Items, rows'[i].state = "forgotten" PROVE rows'[i].seq <= vaultFloor'
  <2>1. CASE rows[i].state = "forgotten"
    <3>1. rows[i].seq <= vaultFloor /\ Lives(i)
      BY <1>1, <2>1 DEF History, RowsLive
    <3>2. rows'[i].seq = rows[i].seq
      BY <2>1, <3>1 DEF Lives, Untouched, Born, Edited, Resealed, Buried, Forgotten
    <3>3. vaultFloor \in Nat /\ vaultFloor' \in Nat /\ rows[i].seq \in Nat
      BY <1>1, SeqsLive DEF VaultInv, Counters
    <3> QED
      BY <3>1, <3>2, <3>3 DEF Ages
  <2> QED
    BY <1>3, <2>1 DEF Ages
<1>4. ASSUME NEW q \in Actors PROVE Carries(call'[q], rows')
  <2>1. CASE q = p
    <3> DEFINE c == call'[p]
    <3>1. NewCall(c) /\ c.row \in Row /\ rows' \in [Items -> Row]
      BY DEF Moved, VaultInv, CallInv, Call, Table
    <3>2. c.row # NoRow => Seen(c.row, rows'[c.id])
      BY <3>1 DEF NewCall, Seen, Row
    <3> QED
      BY <2>1, <3>1, <3>2 DEF NewCall, Carries
  <2>2. CASE q # p
    <3>1. call'[q] = call[q] /\ Carries(call[q], rows) /\ call[q].purged \subseteq Items
      BY <1>1, <2>2 DEF Moved, History, VaultInv, CallInv, Call
    <3>2. call[q].row # NoRow => Seen(call[q].row, rows'[call[q].id])
      BY <1>1, <3>1, SeenLives DEF Carries
    <3>3. \A i \in call[q].purged : rows'[i].state \in Dead
      BY <1>1, <3>1, SeqsLive DEF Carries
    <3> QED
      BY <3>1, <3>2, <3>3 DEF Carries
  <2> QED
    BY <2>1, <2>2
<1>5. ASSUME NEW i \in Items, rows'[i].state = "absent" PROVE rows'[i].seq = 0
  <2>1. Lives(i)
    BY DEF RowsLive
  <2>2. rows'[i] = rows[i]
    BY <1>5, <2>1 DEF Lives, Untouched, Born, Edited, Resealed, Buried, Forgotten
  <2> QED
    BY <1>1, <1>5, <2>2 DEF History
<1> QED
  BY <1>2, <1>3, <1>4, <1>5 DEF History

LEMMA AwaitedLives ==
  ASSUME SyncInv, VaultInv', RowsLive, UNCHANGED client, NEW p \in Actors, Moved(p)
  PROVE  Awaited'
<1>1. VaultInv /\ History /\ Awaited /\ diskCursor \in 0..vaultSeq /\ vaultSeq \in Nat
  BY DEF SyncInv, Cursors, VaultInv, Counters
<1>2. diskCursor' = diskCursor /\ deaf' = deaf
  BY DEF client, stored
<1> SUFFICES ASSUME NEW w \in Own, Landed(w)', rows'[call'[w].id].state # "live"
             PROVE  diskCursor < rows'[call'[w].id].seq
  BY <1>2 DEF Awaited
<1> DEFINE c == call'[w]
<1>3. w \in Actors /\ c.row # NoRow
  BY SyncAssumption DEF Actors, Landed
<1>4. w # p
  BY <1>3 DEF Moved, NewCall
<1>5. /\ c = call[w] /\ Landed(w) /\ c.id \in Items
  BY <1>1, <1>2, <1>3, <1>4 DEF Moved, Landed, History, Carries
<1>6. /\ rows[c.id].seq \in Nat /\ rows'[c.id].seq \in Nat /\ rows[c.id].seq <= rows'[c.id].seq
      /\ rows'[c.id].seq <= vaultSeq => (rows'[c.id].state = "live" <=> rows[c.id].state = "live")
  BY <1>1, <1>5, SeqsLive
<1>7. rows[c.id].state # "live" => diskCursor < rows[c.id].seq
  BY <1>1, <1>5 DEF Awaited
<1> QED
  BY <1>1, <1>6, <1>7

LEMMA PassLives ==
  ASSUME SyncInv, VaultInv', RowsLive, Ages, UNCHANGED client
  PROVE  PassInv'
<1>1. /\ VaultInv /\ PassInv /\ vaultSeq \in Nat /\ vaultSeq' \in Nat /\ vaultSeq <= vaultSeq'
  BY DEF SyncInv, VaultInv, Counters, RowsLive
<1>2. now' = now /\ cursor' = cursor
  BY DEF client, shown, now
<1>3. now \in PassRecord /\ now.at \in Nat /\ now.began \in Nat
  BY <1>1 DEF PassInv, PassFits, PassRecord
<1>4. now.at <= vaultSeq' /\ now.began <= vaultSeq'
  BY <1>1, <1>3 DEF PassInv, PassFits
<1>5. Copy(now.items, rows') /\ Copy(now.records, rows')
  BY <1>1, CopyLives DEF PassInv, PassFits
<1>6. ASSUME NEW i \in Items, rows'[i].seq <= now.at, now.phase \in {"pull", "store", "storing", "apply"}
      PROVE  Knows(now, i)'
  <2>1. rows'[i].seq = rows[i].seq /\ (rows'[i].state = "live" <=> rows[i].state = "live")
    BY <1>1, <1>3, <1>6, SeqsLive DEF PassInv, PassFits
  <2>2. Knows(now, i)
    BY <1>1, <1>6, <2>1 DEF PassInv, PassFits
  <2> QED
    BY <1>2, <2>1, <2>2 DEF Knows, KnowsFrom
<1>7. ASSUME now.phase = "pull", NEW i \in Items, now.items[i] # NoRow, rows'[i].state # "live"
      PROVE  rows'[i].state = "gone" /\ i \notin expired' /\ now.began < rows'[i].seq
  <2>1. Lives(i) /\ rows[i].seq \in Nat /\ rows'[i].seq \in Nat
    BY <1>1, SeqsLive DEF RowsLive
  <2>2. CASE rows[i].state = "live"
    <3>1. Buried(i) /\ Numbered(i)
      BY <1>7, <2>1, <2>2 DEF Lives, Untouched, Born, Edited, Resealed, Forgotten
    <3> QED
      BY <1>1, <1>3, <3>1 DEF Buried, Numbered, PassInv, PassFits
  <2>3. CASE rows[i].state # "live"
    <3>1. rows[i].state = "gone" /\ i \notin expired /\ now.began < rows[i].seq
      BY <1>1, <1>7, <2>3 DEF PassInv, PassFits, Mourned
    <3>2. rows'[i] = rows[i]
      BY <2>1, <3>1 DEF Lives, Untouched, Born, Edited, Resealed, Buried, Forgotten
    <3>3. i \notin expired'
      BY <1>3, <1>7, <2>1, <3>1 DEF Ages
    <3> QED
      BY <3>1, <3>2, <3>3
  <2> QED
    BY <2>2, <2>3
<1> QED
  BY <1>1, <1>2, <1>3, <1>4, <1>5, <1>6, <1>7 DEF PassInv, PassFits, Mourned

LEMMA FormerLives ==
  ASSUME SyncInv, VaultInv', RowsLive, UNCHANGED client
  PROVE  FormerInv'
<1>1. /\ VaultInv /\ FormerInv /\ vaultSeq \in Nat /\ vaultSeq' \in Nat /\ vaultSeq <= vaultSeq'
  BY DEF SyncInv, VaultInv, Counters, RowsLive
<1>2. former' = former /\ view' = view /\ diskCursor' = diskCursor
  BY DEF client, stored, shown, former
<1>3. ASSUME Storable(former) PROVE Storable(former)'
  <2>1. former \in PassRecord /\ former.at \in Nat /\ former.at <= vaultSeq'
    BY <1>1, <1>3 DEF Storable, PassRecord
  <2>2. Copy(former.items, rows')
    BY <1>1, <1>3, CopyLives DEF Storable
  <2>3. ASSUME NEW i \in Items, rows'[i].seq <= former.at PROVE KnowsFrom(former, i, diskCursor)'
    <3>1. rows'[i].seq = rows[i].seq /\ (rows'[i].state = "live" <=> rows[i].state = "live")
      BY <1>1, <1>3, <2>1, <2>3, SeqsLive DEF Storable
    <3>2. KnowsFrom(former, i, diskCursor)
      BY <1>3, <2>3, <3>1 DEF Storable
    <3> QED
      BY <1>2, <3>1, <3>2 DEF KnowsFrom
  <2> QED
    BY <1>2, <1>3, <2>1, <2>2, <2>3 DEF Storable
<1> QED
  BY <1>1, <1>2, <1>3 DEF FormerInv

\* A step of the Worker, or of another device, leaves the copies as good as they were.
LEMMA WorkerKeeps ==
  ASSUME SyncInv, VaultInv', RowsLive, Ages, UNCHANGED client, NEW p \in Actors, Moved(p)
  PROVE  SyncInv'
<1>1. VaultInv /\ Cursors /\ Copies /\ vaultSeq \in Nat /\ vaultSeq' \in Nat /\ vaultSeq <= vaultSeq'
  BY DEF SyncInv, VaultInv, Counters, RowsLive
<1>2. /\ now' = now /\ cursor' = cursor /\ diskCursor' = diskCursor /\ loaded' = loaded
      /\ view' = view /\ mem' = mem /\ disk' = disk /\ passes' = passes
  BY DEF client, stored, shown, now
<1>3. Cursors'
  BY <1>1, <1>2 DEF Cursors
<1>4. Opened(now)' = Opened(now)
  BY <1>2 DEF Opened
<1>5. Copies'
  <2>1. Copy(disk, rows') /\ Copy(mem, rows') /\ Copy(loaded.copy, rows')
    BY <1>1, CopyLives DEF Copies
  <2>2. Right(disk, diskCursor, rows') /\ Right(loaded.copy, loaded.cursor, rows')
    BY <1>1, RightLives DEF Copies, Cursors
  <2>3. IF now.phase = "open"
        THEN Right(now.records, cursor, rows') /\ Right(Opened(now), cursor, rows')
        ELSE Right(mem, cursor, rows')
    BY <1>1, RightLives DEF Copies, Cursors
  <2> QED
    BY <1>2, <1>4, <2>1, <2>2, <2>3 DEF Copies
<1> QED
  BY <1>2, <1>3, <1>5, HistoryLives, AwaitedLives, PassLives, FormerLives DEF SyncInv

(***************************************************************************)
(* The actions of the Worker and of other devices.                         *)
(***************************************************************************)
\* Most steps leave the floor and make nothing older.
Quiet ==
  /\ expired' \subseteq expired /\ vaultFloor' = vaultFloor
  /\ \A i \in Items : rows'[i].state = "forgotten" => rows[i].state = "forgotten"

LEMMA QuietAges == ASSUME VaultInv, Quiet PROVE Ages
BY DEF VaultInv, Counters, Quiet, Ages

LEMMA ServerQuiet == ASSUME UNCHANGED server PROVE Quiet
BY DEF server, Quiet

\* What a call has purged stays dead.
LEMMA PurgedStay ==
  ASSUME SyncInv, VaultInv', RowsLive, NEW p \in Actors
  PROVE  \A i \in call[p].purged : rows'[i].state \in Dead
<1>1. VaultInv /\ Carries(call[p], rows) /\ call[p].purged \subseteq Items
  BY DEF SyncInv, History, VaultInv, CallInv, Call
<1> QED
  BY <1>1, SeqsLive DEF Carries

\* A call that is not answered yet goes on with what it has.
LEMMA GoesMoves ==
  ASSUME SyncInv, VaultInv', RowsLive, NEW p \in Actors, call[p].stage \notin {"ok", "stored"},
         NEW stage, Goes(p, stage)
  PROVE  Moved(p)
<1>1. Carries(call[p], rows) /\ DOMAIN call = Actors /\ DOMAIN call[p] = DOMAIN NoCall
  BY DEF SyncInv, History, VaultInv, CallInv, Call
<1>2. /\ call'[p].row = call[p].row /\ call'[p].purged = call[p].purged
      /\ \A q \in Actors \ {p} : call'[q] = call[q]
  BY <1>1 DEF Goes, Becomes, NoCall
<1> QED
  BY <1>1, <1>2, PurgedStay DEF Carries, Moved, NewCall

LEMMA AnswersMove ==
  ASSUME SyncInv, VaultInv', RowsLive, NEW p \in Actors, NEW row, Answers(p, row),
         call[p].id \in Items, row = rows'[call[p].id], row.state = "live"
  PROVE  Moved(p)
<1>1. DOMAIN call = Actors /\ DOMAIN call[p] = DOMAIN NoCall
  BY DEF SyncInv, VaultInv, CallInv, Call
<1>2. /\ call'[p].row = row /\ call'[p].purged = call[p].purged /\ call'[p].id = call[p].id
      /\ call'[p].stage = "ok"
      /\ \A q \in Actors \ {p} : call'[q] = call[q]
  BY <1>1 DEF Answers, Becomes, NoCall
<1> QED
  BY <1>2, PurgedStay DEF Moved, NewCall

\* A new call, or none, carries nothing.
LEMMA StartsMove ==
  ASSUME SyncInv, NEW p \in Actors, NEW c, Becomes(p, c), c.row = NoRow, c.purged = {}
  PROVE  Moved(p)
<1>1. DOMAIN call = Actors
  BY DEF SyncInv, VaultInv
<1> QED
  BY <1>1 DEF Becomes, Moved, NewCall

LEMMA HandlersMove ==
  ASSUME SyncInv, VaultInv', RowsLive, NEW p \in Actors, Handlers(p)
  PROVE  Ages /\ Moved(p)
<1> DEFINE c == call[p]
<1>1. VaultInv /\ CallInv(p, c, rows, expired) /\ Call(c) /\ rows \in [Items -> Row]
  BY CallOf DEF SyncInv, VaultInv, Table
<1>2. CASE CreateCheck(p)
  <2>1. UNCHANGED server /\ c.stage = "sent" /\ Quiet
    BY <1>2, ServerQuiet DEF CreateCheck, At
  <2>2. CASE \E stage : Goes(p, stage)
    BY <1>1, <2>1, <2>2, QuietAges, GoesMoves
  <2>3. CASE c.id \in Live /\ Answers(p, rows[c.id])
    BY <1>1, <2>1, <2>3, QuietAges, AnswersMove DEF Live, server
  <2> QED
    BY <1>1, <1>2, <2>1, <2>2, <2>3, QuietAges DEF CreateCheck
<1>3. CASE CreateWrite(p)
  <2> DEFINE row == NewRow(c, vaultSeq + 1)
  <2>1. /\ c.stage = "checked" /\ c.id \in Items /\ row.state = "live"
        /\ UNCHANGED <<vaultFloor, expired>>
    BY <1>1, <1>3 DEF CreateWrite, At, CallInv, Fits, NewRow
  <2>2. CASE rows' = [rows EXCEPT ![c.id] = row] /\ Answers(p, row)
    <3>1. rows'[c.id] = row /\ \A i \in Items \ {c.id} : rows'[i] = rows[i]
      BY <1>1, <2>1, <2>2
    <3> HIDE DEF row
    <3>2. Quiet
      BY <2>1, <3>1 DEF Quiet
    <3> QED
      BY <1>1, <2>1, <2>2, <3>1, <3>2, QuietAges, AnswersMove
  <2>3. CASE UNCHANGED rows /\ Goes(p, "conflict")
    <3>1. Quiet
      BY <2>1, <2>3 DEF Quiet
    <3> QED
      BY <1>1, <2>1, <2>3, <3>1, QuietAges, GoesMoves
  <2> QED
    BY <1>3, <2>2, <2>3 DEF CreateWrite
<1>4. ASSUME NEW op \in Updates, UpdateCheck(p, op) PROVE Ages /\ Moved(p)
  <2>1. UNCHANGED server /\ c.stage = "sent" /\ Quiet /\ \E stage : Goes(p, stage)
    BY <1>4, ServerQuiet DEF UpdateCheck, At
  <2> QED
    BY <1>1, <2>1, QuietAges, GoesMoves
<1>5. ASSUME NEW op \in Updates, UpdateWrite(p, op) PROVE Ages /\ Moved(p)
  <2> DEFINE row == Changed(p, op, rows[c.id], c, vaultSeq + 1)
  <2>1. c.stage = "checked" /\ UNCHANGED vaultFloor
    BY <1>5 DEF UpdateWrite, At
  <2>2. CASE UpdateLands(op, c)
    <3>1. /\ rows' = [rows EXCEPT ![c.id] = row] /\ expired' \subseteq expired /\ Answers(p, row)
      BY <1>5, <2>2 DEF UpdateWrite
    <3>2. c.id \in Items /\ rows[c.id].state = "live" /\ row.state = "live"
      BY <2>2 DEF UpdateLands, Live, Changed
    <3> HIDE DEF row
    <3>3. rows'[c.id] = row /\ \A i \in Items \ {c.id} : rows'[i] = rows[i]
      BY <1>1, <3>1, <3>2
    <3>4. Quiet
      BY <2>1, <3>1, <3>2, <3>3 DEF Quiet
    <3> QED
      BY <1>1, <3>1, <3>2, <3>3, <3>4, QuietAges, AnswersMove
  <2>3. CASE ~UpdateLands(op, c)
    <3>1. UNCHANGED <<rows, expired>> /\ Goes(p, "conflict")
      BY <1>5, <2>3 DEF UpdateWrite
    <3>2. Quiet
      BY <2>1, <3>1 DEF Quiet
    <3> QED
      BY <1>1, <2>1, <3>1, <3>2, QuietAges, GoesMoves
  <2> QED
    BY <2>2, <2>3
<1>6. CASE ResealCheck(p) \/ DeleteCheck(p)
  <2>1. UNCHANGED server /\ c.stage = "sent" /\ Quiet /\ \E stage : Goes(p, stage)
    BY <1>6, ServerQuiet DEF ResealCheck, DeleteCheck, At
  <2> QED
    BY <1>1, <2>1, QuietAges, GoesMoves
<1>7. CASE ResealBatch(p)
  <2> DEFINE S == DOMAIN c.saw
             anew(i) == [rows[i] EXCEPT !.epoch = c.epoch, !.seq = vaultSeq + Numbering(S)[i],
                                        !.edits = c.saw[i].edits, !.opens = c.saw[i].opens]
  <2>1. /\ c.stage = "checked" /\ UNCHANGED <<vaultFloor, expired>> /\ Goes(p, "ok")
        /\ rows' = [i \in Items |-> IF i \in S /\ Resealable(c, i) THEN anew(i) ELSE rows[i]]
    BY <1>7 DEF ResealBatch, At
  <2>2. \A i \in Items : anew(i).state = rows[i].state
    BY <1>1 DEF Row
  <2> HIDE DEF anew
  <2>3. Quiet
    BY <2>1, <2>2 DEF Quiet
  <2> QED
    BY <1>1, <2>1, <2>3, QuietAges, GoesMoves
<1>8. CASE PurgeWalk(p)
  <2>1. UNCHANGED server /\ c.stage = "walk" /\ Quiet
    BY <1>8, ServerQuiet DEF PurgeWalk, At
  <2>2. CASE Goes(p, "ok")
    BY <1>1, <2>1, <2>2, QuietAges, GoesMoves
  <2>3. CASE Becomes(p, [c EXCEPT !.stage = "batch", !.todo = Subtree(c.id) \cap Live])
    <3>1. /\ \A q \in Actors \ {p} : call'[q] = call[q]
          /\ call'[p].row = c.row /\ call'[p].purged = c.purged
      BY <1>1, <2>3 DEF Becomes, Call, NoCall, VaultInv
    <3>2. c.row = NoRow
      BY <2>1 DEF SyncInv, History, Carries
    <3> QED
      BY <1>1, <2>1, <3>1, <3>2, QuietAges, PurgedStay DEF Moved, NewCall
  <2> QED
    BY <1>1, <1>8, <2>1, <2>2, <2>3, QuietAges DEF PurgeWalk
<1>9. CASE PurgeWrite(p)
  <2>1. PICK S \in SUBSET c.todo :
          /\ rows' = [i \in Items |-> IF i \in Done(c, S)
                        THEN Tombstone(rows[i], vaultSeq + Numbering(S)[i]) ELSE rows[i]]
          /\ expired' = expired \ Done(c, S)
          /\ Becomes(p, [c EXCEPT !.todo = c.todo \ S, !.purged = c.purged \cup Done(c, S),
                                  !.stage = IF S = c.todo THEN "walk" ELSE "batch"])
    BY <1>9 DEF PurgeWrite
  <2>2. c.stage = "batch" /\ UNCHANGED vaultFloor /\ Done(c, S) \subseteq Items
    BY <1>9 DEF PurgeWrite, At, Done, Live
  <2>3. \A i \in Items : rows'[i].state = IF i \in Done(c, S) THEN "gone" ELSE rows[i].state
    BY <2>1 DEF Tombstone
  <2>4. Quiet
    BY <2>1, <2>2, <2>3 DEF Quiet
  <2>5. /\ \A q \in Actors \ {p} : call'[q] = call[q]
        /\ call'[p].row = c.row /\ call'[p].purged = c.purged \cup Done(c, S)
    BY <1>1, <2>1 DEF Becomes, Call, NoCall, VaultInv
  <2>6. c.row = NoRow
    BY <2>2 DEF SyncInv, History, Carries
  <2>7. \A i \in call'[p].purged : rows'[i].state \in Dead
    BY <2>2, <2>3, <2>5, PurgedStay DEF Dead
  <2> QED
    BY <1>1, <2>4, <2>5, <2>6, <2>7, QuietAges DEF Moved, NewCall
<1> QED
  BY <1>2, <1>3, <1>4, <1>5, <1>6, <1>7, <1>8, <1>9 DEF Handlers

LEMMA CronMoves ==
  ASSUME SyncInv, VaultInv', RowsLive, CronRuns
  PROVE  Ages /\ Moved(Cron)
<1> DEFINE c == call[Cron]
<1>0. NoCall.row = NoRow /\ NoCall.purged = {}
  BY DEF NoCall
<1>1. /\ VaultInv /\ Cron \in Actors /\ CallInv(Cron, c, rows, expired) /\ Call(c)
      /\ rows \in [Items -> Row]
  BY CallOf DEF SyncInv, VaultInv, Table, Actors
<1>2. ASSUME NEW i \in Items, CronChooses(i) PROVE Ages /\ Moved(Cron)
  <2>1. /\ UNCHANGED server /\ c.stage = "choose" /\ Quiet
        /\ Becomes(Cron, [c EXCEPT !.stage = "claim", !.id = i, !.saw = [j \in {i} |-> rows[i]]])
    BY <1>2, ServerQuiet DEF CronChooses, At
  <2>2. /\ \A q \in Actors \ {Cron} : call'[q] = call[q]
        /\ call'[Cron].row = c.row /\ call'[Cron].purged = c.purged
    BY <1>1, <2>1 DEF Becomes, Call, NoCall, VaultInv
  <2>3. c.row = NoRow
    BY <1>1, <2>1 DEF SyncInv, History, Carries
  <2> QED
    BY <1>1, <2>1, <2>2, <2>3, QuietAges, PurgedStay DEF Moved, NewCall
<1>3. CASE CronClaims
  <2>1. CASE ClaimableStill(c)
    <3>1. /\ c.id \in Items /\ UNCHANGED vaultFloor
          /\ rows' = [rows EXCEPT ![c.id] = Tombstone(rows[c.id], vaultSeq + 1)]
          /\ expired' = expired \ {c.id}
          /\ Becomes(Cron, [NoCall EXCEPT !.op = "delete", !.stage = "walk", !.id = c.id])
      BY <1>1, <1>3, <2>1 DEF CronClaims, ClaimableStill, Overdue, VaultInv, Counters
    <3>2. rows'[c.id].state = "gone" /\ \A i \in Items \ {c.id} : rows'[i] = rows[i]
      BY <1>1, <3>1 DEF Tombstone
    <3>3. Quiet
      BY <3>1, <3>2 DEF Quiet
    <3> QED
      BY <1>1, <3>1, <3>3, QuietAges, StartsMove DEF NoCall
  <2>2. CASE ~ClaimableStill(c)
    <3>1. /\ UNCHANGED <<rows, expired, vaultFloor>>
          /\ Becomes(Cron, [NoCall EXCEPT !.op = "clean", !.stage = "choose"])
      BY <1>3, <2>2 DEF CronClaims
    <3>2. Quiet
      BY <3>1 DEF Quiet
    <3> QED
      BY <1>1, <3>1, <3>2, QuietAges, StartsMove DEF NoCall
  <2> QED
    BY <2>1, <2>2
<1>4. CASE CronGoesOn
  <2>1. UNCHANGED server /\ Becomes(Cron, [NoCall EXCEPT !.op = "clean", !.stage = "choose"])
    BY <1>4 DEF CronGoesOn
  <2> QED
    BY <1>1, <2>1, ServerQuiet, QuietAges, StartsMove DEF NoCall
<1>5. CASE CronForgets
  <2> DEFINE old  == {i \in expired : rows[i].state = "gone"}
             tops == {rows[i].seq : i \in old} \cup {vaultFloor}
  <2>1. /\ vaultFloor' \in tops /\ \A n \in tops : n <= vaultFloor'
        /\ rows' = [i \in Items |-> IF i \in old
              THEN [NoRow EXCEPT !.state = "forgotten", !.seq = rows[i].seq] ELSE rows[i]]
        /\ expired' = {} /\ Becomes(Cron, NoCall)
    BY <1>5 DEF CronForgets
  <2>2. \A i \in Items : rows'[i].state = "forgotten" =>
          rows[i].state = "forgotten" \/ rows'[i].seq <= vaultFloor'
    BY <2>1 DEF NoRow
  <2>3. vaultFloor <= vaultFloor'
    BY <2>1
  <2> QED
    BY <1>0, <1>1, <2>1, <2>2, <2>3, StartsMove DEF Ages
<1> QED
  BY <1>2, <1>3, <1>4, <1>5 DEF CronRuns

\* The cron starts with tombstones that no listing under way could still need.
LEMMA CronStartsMoves ==
  ASSUME SyncInv, NEW S \in SUBSET Items, Remembered(S), CronStarts(S)
  PROVE  Ages /\ Moved(Cron)
<1>1. VaultInv /\ Cron \in Actors /\ DOMAIN passes = {"now", "old"} /\ vaultFloor \in Nat
  BY DEF SyncInv, VaultInv, Counters, Actors
<1>2. /\ expired' = S /\ UNCHANGED <<rows, vaultFloor>>
      /\ Becomes(Cron, [NoCall EXCEPT !.op = "clean", !.stage = "choose"])
  BY DEF CronStarts
<1>3. Ages
  BY <1>1, <1>2 DEF Ages, Remembered, now
<1> QED
  BY <1>1, <1>2, <1>3, StartsMove DEF NoCall

LEMMA SendMoves ==
  ASSUME SyncInv, NEW w \in Writers, NEW op, NEW id, NEW to, NEW saw, Send(w, op, id, to, saw)
  PROVE  Ages /\ Moved(w)
<1>1. VaultInv /\ w \in Actors
  BY DEF SyncInv, Actors
<1> QED
  BY <1>1, ServerQuiet, QuietAges, StartsMove DEF Send, NoCall

LEMMA OthersMove ==
  ASSUME SyncInv, NEW w \in Writers, Sends(w) \/ Receive(w)
  PROVE  Ages /\ Moved(w)
<1>1. VaultInv /\ w \in Actors
  BY DEF SyncInv, Actors
<1>2. CASE Sends(w)
  BY <1>2, SendMoves DEF Sends, Create, Update, Delete, Reseal
<1>3. CASE Receive(w)
  BY <1>1, <1>3, ServerQuiet, QuietAges, StartsMove DEF Receive, NoCall
<1> QED
  BY <1>2, <1>3

(***************************************************************************)
(* A page.                                                                 *)
(***************************************************************************)
LEMMA LeastOf == ASSUME NEW T, T \subseteq Nat, T # {} PROVE \E n \in T : \A m \in T : n <= m
<1> DEFINE below == {0..n : n \in T}
<1>1. below \subseteq FiniteSubsetsOf(Nat) /\ below # {}
  <2>1. \A n \in T : 0..n \in SUBSET Nat /\ IsFiniteSet(0..n)
    BY FS_Interval
  <2> QED
    BY <2>1 DEF FiniteSubsetsOf
<1>2. \E s \in below : \A r \in below : <<r, s>> \notin StrictSubsetOrdering(Nat)
  <2>1. IsWellFoundedOn(StrictSubsetOrdering(Nat), FiniteSubsetsOf(Nat))
    BY FS_StrictSubsetOrderingWellFounded
  <2> HIDE DEF below
  <2> QED
    BY <1>1, <2>1, WFMin
<1>3. PICK n \in T : \A m \in T : <<0..m, 0..n>> \notin StrictSubsetOrdering(Nat)
  BY <1>2
<1>4. ASSUME NEW m \in T, m < n PROVE FALSE
  <2>1. m \in Nat /\ n \in Nat /\ 0..m \subseteq 0..n /\ n \in 0..n /\ n \notin 0..m
    BY <1>4
  <2>2. <<0..m, 0..n>> \in (SUBSET Nat) \X (SUBSET Nat) /\ 0..m # 0..n
    BY <2>1
  <2> QED
    BY <1>3, <2>1, <2>2 DEF StrictSubsetOrdering
<1> QED
  BY <1>4

LEMMA GreatestOf ==
  ASSUME NEW N \in Nat, NEW T, T \subseteq 0..N, T # {} PROVE \E n \in T : \A m \in T : m <= n
<1> DEFINE U == {N - n : n \in T}
<1>1. U \subseteq Nat /\ U # {}
  <2>1. \A n \in T : N - n \in Nat
    OBVIOUS
  <2>2. \E n : n \in T
    OBVIOUS
  <2> QED
    BY <2>1, <2>2
<1>2. \E u \in U : \A v \in U : u <= v
  <2> HIDE DEF U
  <2> QED
    BY <1>1, LeastOf
<1> QED
  BY <1>2

\* A page is the beginning of what is listed: whatever is listed up to its last number is
\* in it, and it is not empty.
LEMMA PageStarts ==
  ASSUME VaultInv, History, NEW since \in Nat, Page(since) # Listed(since)
  PROVE  /\ LastOf(Page(since)) \in since + 1 .. vaultSeq
         /\ \A i \in Listed(since) : rows[i].seq <= LastOf(Page(since)) => i \in Page(since)
<1> DEFINE listed == Listed(since)
           page   == Page(since)
           upTo(i) == {j \in listed : rows[j].seq <= rows[i].seq}
           top    == LastOf(page)
<1>1. /\ vaultSeq \in Nat /\ PageSize \in Nat /\ PageSize >= 1
      /\ \A i \in Items : rows[i].seq \in Nat /\ rows[i].seq <= vaultSeq
  BY SyncAssumption DEF VaultInv, Counters, Table, Row
<1>2. /\ listed \subseteq Items /\ IsFiniteSet(listed) /\ page \subseteq listed
      /\ \A i \in listed : rows[i].seq > since
  <2>1. listed \subseteq Items /\ page \subseteq listed /\ \A i \in listed : rows[i].seq > since
    BY DEF Listed, Page, Kept
  <2> QED
    BY <2>1, FS_Subset, VaultAssumption DEF VaultAssumption
<1>3. \A i \in listed : i \in page <=> Cardinality(upTo(i)) <= PageSize
  BY DEF Page
<1>4. \A i \in listed : IsFiniteSet(upTo(i)) /\ Cardinality(upTo(i)) \in Nat
  <2> TAKE i \in listed
  <2>1. upTo(i) \in SUBSET listed
    OBVIOUS
  <2>2. IsFiniteSet(upTo(i))
    BY <1>2, <2>1, FS_Subset
  <2> QED
    BY <2>2, FS_CardinalityType
<1>5. ASSUME NEW i \in page, NEW j \in listed, rows[j].seq <= rows[i].seq PROVE j \in page
  <2>1. i \in listed /\ upTo(j) \in SUBSET upTo(i)
    BY <1>1, <1>2, <1>5
  <2>2. Cardinality(upTo(j)) <= Cardinality(upTo(i))
    <3> HIDE DEF upTo
    <3> QED
      BY <1>4, <2>1, FS_Subset
  <2>3. /\ Cardinality(upTo(i)) <= PageSize
        /\ Cardinality(upTo(i)) \in Nat /\ Cardinality(upTo(j)) \in Nat
    BY <1>3, <1>4, <1>5, <2>1
  <2>4. Cardinality(upTo(j)) <= PageSize
    BY <1>1, <2>2, <2>3
  <2> QED
    BY <1>3, <2>4
<1>6. page # {}
  <2>1. listed # {}
    BY <1>2
  <2> DEFINE T == {rows[i].seq : i \in listed}
  <2>2. T \subseteq Nat /\ T # {}
    BY <1>1, <1>2, <2>1
  <2>3. PICK n \in T : \A m \in T : n <= m
    BY <2>2, LeastOf
  <2>4. PICK i \in listed : rows[i].seq = n
    BY <2>3
  <2>5. upTo(i) = {i}
    <3>1. ASSUME NEW j \in upTo(i) PROVE j = i
      <4>1. j \in listed /\ rows[j].seq \in T /\ rows[j].seq <= rows[i].seq
        BY <3>1
      <4>2. n <= rows[j].seq
        BY <2>3, <4>1
      <4>3. j \in Items /\ i \in Items /\ rows[j].seq = rows[i].seq /\ rows[i].seq # 0
        BY <1>1, <1>2, <2>4, <4>1, <4>2
      <4> QED
        BY <4>3 DEF History
    <3> QED
      BY <1>1, <1>2, <3>1
  <2>6. Cardinality(upTo(i)) = 1
    BY <2>5, FS_Singleton
  <2> QED
    BY <1>1, <1>3, <2>6
<1>7. PICK i \in page : rows[i].seq = top /\ \A j \in page : rows[j].seq <= top
  <2> DEFINE T == {rows[j].seq : j \in page}
  <2>1. T \subseteq 0..vaultSeq /\ T # {}
    BY <1>1, <1>2, <1>6
  <2>2. \E n \in T : \A m \in T : m <= n
    BY <1>1, <2>1, GreatestOf
  <2>3. \E n \in T : \A j \in page : rows[j].seq <= n
    BY <2>2
  <2>4. top \in T /\ \A j \in page : rows[j].seq <= top
    BY <2>3 DEF LastOf
  <2> QED
    BY <2>4
<1>8. top \in since + 1 .. vaultSeq
  BY <1>1, <1>2, <1>7
<1> QED
  BY <1>5, <1>7, <1>8

(***************************************************************************)
(* Copies.                                                                 *)
(***************************************************************************)
LEMMA EmptyCopy == ASSUME VaultInv PROVE Copy(Empty, rows) /\ Right(Empty, 0, rows)
<1>1. NoRow \in Row /\ NoRow.seq = 0
  BY NoRowType, VaultAssumption DEF NoRow
<1>2. \A i \in Items : rows[i].seq \in Nat
  BY DEF VaultInv, Table, Row
<1> QED
  BY <1>1, <1>2 DEF Empty, Copy, Right, Seen

LEMMA MergedCopy ==
  ASSUME VaultInv, NEW p, NEW copy, Copy(copy, rows), Copy(p.items, rows)
  PROVE  Copy(Merged(copy, p), rows)
<1>1. \A i \in Items : Seen(NoRow, rows[i]) /\ Seen(copy[i], rows[i]) /\ Seen(p.items[i], rows[i])
  BY EmptyCopy DEF Copy, Empty
<1>2. \A i \in Items : Merged(copy, p)[i] \in {NoRow, copy[i], p.items[i]}
  BY DEF Merged
<1>3. Merged(copy, p) = [i \in Items |-> Merged(copy, p)[i]]
  BY DEF Merged
<1>4. \A i \in Items : Seen(Merged(copy, p)[i], rows[i])
  BY <1>1, <1>2
<1>5. \A i \in Items : Merged(copy, p)[i] \in Row
  BY <1>4 DEF Seen
<1> QED
  BY <1>3, <1>4, <1>5 DEF Copy

\* What a pass knows, over a copy that is right up to where the pass started, is right up
\* to where it got.
LEMMA MergedRight ==
  ASSUME VaultInv, NEW p, NEW copy, NEW n, Copy(copy, rows), Copy(p.items, rows),
         Right(copy, n, rows), \A i \in Items : rows[i].seq <= p.at => KnowsFrom(p, i, n)
  PROVE  Right(Merged(copy, p), p.at, rows)
<1> SUFFICES ASSUME NEW i \in Items, rows[i].seq <= p.at
             PROVE  Merged(copy, p)[i].seq
                      = IF rows[i].state = "live" THEN rows[i].seq ELSE 0
  BY DEF Right
<1> DEFINE kept == IF p.rebuilding \/ i \in p.removed THEN NoRow ELSE copy[i]
<1>1. Merged(copy, p)[i] = IF p.items[i] # NoRow /\ Newer(p.items[i], kept) THEN p.items[i] ELSE kept
  BY DEF Merged
<1>2. /\ NoRow.seq = 0 /\ rows[i].seq \in Nat
      /\ copy[i].seq \in Nat /\ copy[i].seq <= rows[i].seq
      /\ p.items[i].seq \in Nat /\ p.items[i].seq <= rows[i].seq
  BY DEF VaultInv, Table, Row, Copy, Seen, NoRow
<1>3. KnowsFrom(p, i, n)
  OBVIOUS
<1>4. kept.seq \in Nat /\ kept.seq <= rows[i].seq
  BY <1>2
<1>5. CASE rows[i].state = "live"
  <2>1. CASE p.items[i].seq = rows[i].seq
    BY <1>1, <1>2, <1>4, <1>5, <2>1 DEF Newer
  <2>2. CASE ~p.rebuilding /\ i \notin p.removed /\ rows[i].seq <= n
    <3>1. kept.seq = rows[i].seq
      BY <1>5, <2>2 DEF Right
    <3> QED
      BY <1>1, <1>2, <1>5, <3>1 DEF Newer
  <2> QED
    BY <1>3, <1>5, <2>1, <2>2 DEF KnowsFrom
<1>6. CASE rows[i].state # "live"
  <2>1. kept.seq = 0
    BY <1>2, <1>3, <1>6 DEF KnowsFrom, Right
  <2> QED
    BY <1>1, <1>3, <1>6, <2>1 DEF KnowsFrom
<1> QED
  BY <1>5, <1>6

LEMMA OpenedCopy ==
  ASSUME VaultInv, NEW p, Copy(mem, rows), Copy(p.records, rows)
  PROVE  Copy(Opened(p), rows)
<1>1. \A i \in Items : Opened(p)[i] \in {mem[i], p.records[i]}
  BY DEF Opened
<1>2. Opened(p) = [i \in Items |-> Opened(p)[i]]
  BY DEF Opened
<1>3. \A i \in Items : Seen(Opened(p)[i], rows[i])
  BY <1>1 DEF Copy
<1>4. \A i \in Items : Opened(p)[i] \in Row
  BY <1>3 DEF Seen
<1> QED
  BY <1>2, <1>3, <1>4 DEF Copy

\* The answer to a write, in a copy.
Applied(c, copy) ==
  IF c.op = "delete" THEN [i \in Items |-> IF i \in c.purged THEN NoRow ELSE copy[i]]
  ELSE [copy EXCEPT ![c.id] = IF Newer(c.row, @) THEN c.row ELSE @]

LEMMA AppliedItems ==
  ASSUME SyncInv, NEW w \in Own, NEW copy, Copy(copy, rows), NEW i \in Items
  PROVE  LET c == call[w] IN
         \/ Applied(c, copy)[i] = copy[i]
         \/ Applied(c, copy)[i] = NoRow /\ rows[i].state \in Dead
         \/ /\ c.row # NoRow /\ i = c.id /\ Newer(c.row, copy[i])
            /\ Applied(c, copy)[i] = c.row
<1> DEFINE c == call[w]
<1>1. w \in Actors /\ DOMAIN copy = Items /\ copy[i] \in Row /\ NoRow.seq = 0
  BY SyncAssumption DEF Actors, Copy, NoRow
<1>2. Carries(c, rows)
  BY <1>1 DEF SyncInv, History
<1>3. CASE c.op = "delete"
  BY <1>2, <1>3 DEF Applied, Carries
<1>4. CASE c.op # "delete"
  <2>1. Applied(c, copy)[i] = IF i = c.id /\ Newer(c.row, copy[i]) THEN c.row ELSE copy[i]
    BY <1>1, <1>4 DEF Applied
  <2>2. c.row = NoRow /\ Newer(c.row, copy[i]) => copy[i] = NoRow
    BY <1>1 DEF Newer, Row
  <2> QED
    BY <2>1, <2>2
<1> QED
  BY <1>3, <1>4

LEMMA AppliedCopy ==
  ASSUME SyncInv, NEW w \in Own, NEW copy, Copy(copy, rows)
  PROVE  Copy(Applied(call[w], copy), rows)
<1> DEFINE next == Applied(call[w], copy)
<1>1. w \in Actors /\ VaultInv /\ Carries(call[w], rows)
  BY SyncAssumption DEF Actors, SyncInv, History
<1>2. \A i \in Items : Seen(next[i], rows[i])
  <2> TAKE i \in Items
  <2>1. Seen(copy[i], rows[i]) /\ Seen(NoRow, rows[i])
    BY <1>1, EmptyCopy DEF Copy, Empty
  <2>2. call[w].row # NoRow => Seen(call[w].row, rows[call[w].id])
    BY <1>1 DEF Carries
  <2> QED
    BY <2>1, <2>2, AppliedItems
<1>3. next = [i \in Items |-> next[i]]
  BY DEF Applied, Copy
<1>4. \A i \in Items : next[i] \in Row
  BY <1>2 DEF Seen
<1> HIDE DEF next
<1>5. next \in [Items -> Row]
  BY <1>3, <1>4
<1> QED
  BY <1>2, <1>5 DEF Copy, next

\* An answer is never newer than the vault, and none that a listing has overtaken is left:
\* what was right stays right.
LEMMA AppliedItem ==
  ASSUME SyncInv, NEW w \in Own \ deaf, NEW copy, Copy(copy, rows), NEW i \in Items,
         rows[i].seq <= diskCursor, call[w].row # NoRow, i = call[w].id
  PROVE  /\ rows[i].state = "live" /\ call[w].row.seq \in Nat /\ rows[i].seq \in Nat
         /\ call[w].row.seq <= rows[i].seq
<1>1. w \in Actors /\ VaultInv /\ Carries(call[w], rows) /\ diskCursor \in Nat
  BY SyncAssumption DEF Actors, SyncInv, History, Cursors
<1>2. Landed(w) /\ Seen(call[w].row, rows[i]) /\ rows[i].seq \in Nat
  BY <1>1 DEF Carries, Landed, VaultInv, Table, Row
<1>3. rows[i].state = "live"
  BY <1>1, <1>2 DEF SyncInv, Awaited
<1> QED
  BY <1>2, <1>3 DEF Seen, Row

LEMMA AppliedRight ==
  ASSUME SyncInv, NEW w \in Own \ deaf, NEW copy, Copy(copy, rows),
         NEW n \in Nat, n <= diskCursor, Right(copy, n, rows)
  PROVE  Right(Applied(call[w], copy), n, rows)
<1> SUFFICES ASSUME NEW i \in Items, rows[i].seq <= n
             PROVE  Applied(call[w], copy)[i].seq
                      = IF rows[i].state = "live" THEN rows[i].seq ELSE 0
  BY DEF Right
<1>1. copy[i].seq = IF rows[i].state = "live" THEN rows[i].seq ELSE 0
  BY DEF Right
<1>2. /\ rows[i].seq \in Nat /\ diskCursor \in Nat /\ NoRow.seq = 0
      /\ rows[i].seq <= diskCursor
  BY DEF SyncInv, VaultInv, Table, Row, Cursors, NoRow
<1>3. CASE Applied(call[w], copy)[i] = copy[i]
  BY <1>1, <1>3
<1>4. CASE Applied(call[w], copy)[i] = NoRow /\ rows[i].state \in Dead
  BY <1>2, <1>4 DEF Dead
<1>5. CASE /\ call[w].row # NoRow /\ i = call[w].id /\ Newer(call[w].row, copy[i])
           /\ Applied(call[w], copy)[i] = call[w].row
  BY <1>1, <1>2, <1>5, AppliedItem DEF Newer
<1> QED
  BY <1>3, <1>4, <1>5, AppliedItems

(***************************************************************************)
(* The passes of the device.                                               *)
(***************************************************************************)
\* What a step of the device itself may do: no change to the vault, and no cursor goes
\* back but to the start.
Advances ==
  /\ UNCHANGED <<vaultSeq, rows>>
  /\ diskCursor <= diskCursor' /\ (cursor <= cursor' \/ cursor' = 0)

Begun == [NoPass EXCEPT !.phase = "pull", !.at = cursor, !.began = vaultSeq,
                        !.rebuilding = (cursor = 0)]

LEMMA Bounds ==
  ASSUME SyncInv
  PROVE  /\ vaultSeq \in Nat /\ vaultFloor \in Nat /\ VaultInv
         /\ diskCursor \in 0..vaultSeq /\ cursor \in 0..vaultSeq /\ cursor <= diskCursor
         /\ now \in PassRecord /\ PassFits(now)
         /\ \A i \in Items : rows[i] \in Row /\ rows[i].seq \in Nat /\ rows[i].seq <= vaultSeq
<1>1. /\ VaultInv /\ Cursors /\ PassFits(now) /\ vaultSeq \in Nat /\ vaultFloor \in Nat
      /\ \A i \in Items : rows[i] \in Row /\ rows[i].seq \in Nat /\ rows[i].seq <= vaultSeq
  BY DEF SyncInv, PassInv, VaultInv, Counters, Table, Row
<1>2. now \in PassRecord
  BY <1>1 DEF PassFits
<1>3. cursor <= diskCursor
  BY <1>1 DEF Cursors
<1> QED
  BY <1>1, <1>2, <1>3 DEF Cursors

LEMMA NoPassFits == ASSUME VaultInv PROVE PassFits(NoPass) /\ NoPass.phase = "idle"
<1>1. Copy(Empty, rows) /\ vaultSeq \in Nat
  BY EmptyCopy DEF VaultInv, Counters
<1>2. /\ NoPass.phase = "idle" /\ NoPass.at = 0 /\ NoPass.began = 0
      /\ NoPass.items = Empty /\ NoPass.records = Empty
  BY DEF NoPass
<1>3. NoPass \in PassRecord
  BY <1>1 DEF NoPass, PassRecord, Phases, Copy
<1> QED
  BY <1>1, <1>2, <1>3 DEF PassFits

\* A pass starts where the copy in memory stands, and from nothing if that is the start.
LEMMA BegunFits == ASSUME SyncInv PROVE PassFits(Begun) /\ Begun.phase = "pull"
<1>1. Copy(Empty, rows) /\ vaultSeq \in Nat /\ cursor \in Nat /\ cursor <= vaultSeq
  BY Bounds, EmptyCopy
<1>2. /\ Begun.phase = "pull" /\ Begun.at = cursor /\ Begun.began = vaultSeq
      /\ Begun.rebuilding = (IF cursor = 0 THEN TRUE ELSE FALSE) /\ Begun.removed = {}
      /\ Begun.items = Empty /\ Begun.records = Empty /\ Begun.before = Empty
  BY DEF Begun, NoPass
<1>3. Begun \in PassRecord
  BY <1>1 DEF Begun, NoPass, PassRecord, Phases, Copy
<1>4. \A i \in Items : Empty[i] = NoRow /\ NoRow.seq = 0 /\ rows[i].seq \in Nat
  BY Bounds DEF Empty, NoRow
<1>5. ASSUME NEW i \in Items, rows[i].seq <= cursor PROVE Knows(Begun, i)
  BY <1>1, <1>2, <1>4, <1>5 DEF Knows, KnowsFrom
<1>6. Mourned(Begun)
  BY <1>2, <1>4 DEF Mourned
<1>7. Begun.rebuilding \/ Begun.at > 0
  BY <1>1, <1>2
<1> QED
  BY <1>1, <1>2, <1>3, <1>5, <1>6, <1>7 DEF PassFits

\* A step of the device that leaves the vault and its own calls alone.
LEMMA VaultRests ==
  ASSUME SyncInv, UNCHANGED <<server, call>>, faults' \in 0..MaxFaults
  PROVE  /\ VaultInv' /\ History' /\ UNCHANGED <<vaultSeq, rows, expired>>
         /\ deaf' = deaf /\ diskCursor' = diskCursor => Awaited'
BY DEF SyncInv, server, VaultInv, Counters, Table, CallInv, History, Carries, Awaited, Landed

\* Where the vault and the cursor on disk stay, a transaction still to be written is as good
\* as it was.
LEMMA FormerRests ==
  ASSUME SyncInv, UNCHANGED <<rows, vaultSeq, diskCursor>>,
         former' = former \/ ("phase" \in DOMAIN former' /\ former'.phase # "storing"),
         view' = view \/ view # "closed" \/ former.phase # "storing"
  PROVE  FormerInv'
BY DEF SyncInv, FormerInv, Storable, KnowsFrom

LEMMA NowStorable == ASSUME SyncInv, now.phase = "storing" PROVE Storable(now) /\ view = "open"
<1>1. view = "open" /\ cursor = diskCursor /\ diskCursor <= now.at
  BY DEF SyncInv, Cursors
<1> QED
  BY <1>1, Bounds DEF PassFits, Storable, Knows

\* The current pass moves on, and nothing else.
LEMMA PassMoves ==
  ASSUME SyncInv, UNCHANGED <<server, call, stored, shown, deaf>>, faults' \in 0..MaxFaults,
         DOMAIN passes' = {"now", "old"}, NEW p, now' = p, PassFits(p), former' = former,
         view = "open", now.phase \in {"idle", "pull", "store"},
         p.phase \in {"idle", "pull", "store", "storing"},
         p.phase \in {"store", "storing"} => diskCursor <= p.at
  PROVE  SyncInv' /\ Advances
<1>1. /\ VaultInv' /\ History' /\ Awaited' /\ UNCHANGED <<vaultSeq, rows, expired>>
  BY VaultRests DEF stored
<1>2. UNCHANGED <<disk, diskCursor, mem, cursor, view, loaded>>
  BY DEF stored, shown
<1>3. PassInv'
  BY <1>1, <1>2 DEF PassInv, PassFits, Knows, KnowsFrom, Mourned
<1>4. Cursors'
  BY <1>1, <1>2 DEF SyncInv, Cursors
<1>5. Copies'
  BY <1>1, <1>2 DEF SyncInv, Copies
<1>6. Advances
  BY <1>1, <1>2, Bounds DEF Advances
<1>7. FormerInv'
  BY <1>1, <1>2, FormerRests
<1> QED
  BY <1>1, <1>3, <1>4, <1>5, <1>6, <1>7 DEF SyncInv

\* What a pass of a former generation does changes nothing, but for its transaction.
LEMMA OldMoves ==
  ASSUME SyncInv, UNCHANGED <<server, call, stored, shown, deaf>>, faults' \in 0..MaxFaults,
         NEW p, Pass("old", p), "phase" \in DOMAIN p, p.phase # "storing"
  PROVE  SyncInv' /\ Advances
<1>1. /\ VaultInv' /\ History' /\ Awaited' /\ UNCHANGED <<vaultSeq, rows, expired>>
  BY VaultRests DEF stored
<1>2. UNCHANGED <<disk, diskCursor, mem, cursor, view, loaded>>
  BY DEF stored, shown
<1>3. now' = now /\ former' = p /\ DOMAIN passes' = {"now", "old"}
  BY DEF SyncInv, Pass, now, former
<1>4. PassInv'
  BY <1>1, <1>2, <1>3 DEF SyncInv, PassInv, PassFits, Knows, KnowsFrom, Mourned
<1>5. Opened(now)' = Opened(now)
  BY <1>2, <1>3 DEF Opened
<1>6. Cursors' /\ Copies'
  BY <1>1, <1>2, <1>3, <1>5 DEF SyncInv, Cursors, Copies
<1>7. Advances
  BY <1>1, <1>2, Bounds DEF Advances
<1>8. FormerInv'
  BY <1>1, <1>2, <1>3, FormerRests
<1> QED
  BY <1>1, <1>3, <1>4, <1>6, <1>7, <1>8 DEF SyncInv

LEMMA StartSyncKeeps == ASSUME SyncInv, StartSync PROVE SyncInv' /\ Advances
<1>1. /\ view = "open" /\ now.phase = "idle" /\ UNCHANGED <<serverVars, stored, shown, deaf>>
      /\ passes' = [passes EXCEPT !["now"] = NewPass]
  BY DEF StartSync, Pass, now
<1>2. now' = Begun /\ former' = former /\ DOMAIN passes' = {"now", "old"}
  BY <1>1 DEF SyncInv, now, former, NewPass, Begun
<1>3. UNCHANGED <<server, call>> /\ faults' \in 0..MaxFaults
  BY <1>1, FaultsStay DEF serverVars, SyncInv
<1> QED
  BY <1>1, <1>2, <1>3, BegunFits, PassMoves

(***************************************************************************)
(* A page extends what a pass knows.                                       *)
(***************************************************************************)
\* From where a pass is, or from the start if it has to start over.
Known(p, since, reset) ==
  IF reset THEN [p EXCEPT !.rebuilding = TRUE, !.removed = {}, !.items = Empty] ELSE p

LEMMA KnownFits ==
  ASSUME SyncInv, now.phase = "pull", NEW reset \in BOOLEAN, NEW since,
         since = IF reset THEN 0 ELSE now.at,
         ~reset => now.rebuilding \/ now.at = 0 \/ vaultFloor <= now.at
  PROVE  LET k == Known(now, since, reset) IN
         /\ k \in PassRecord /\ Copy(k.items, rows) /\ k.began = now.began
         /\ k.records = now.records
         /\ since \in 0..vaultSeq
         /\ \A i \in Items : rows[i].seq <= since => Knows(k, i)
         /\ Mourned(k)
         /\ k.rebuilding \/ (since > 0 /\ vaultFloor <= since)
<1> DEFINE k == Known(now, since, reset)
<1>1. /\ now \in PassRecord /\ PassFits(now) /\ vaultSeq \in Nat /\ vaultFloor \in Nat
      /\ Copy(Empty, rows)
      /\ \A i \in Items : rows[i].seq \in Nat /\ Empty[i] = NoRow /\ NoRow.seq = 0
  BY Bounds, EmptyCopy DEF Empty, NoRow
<1>2. CASE reset
  <2>1. /\ k.rebuilding = TRUE /\ k.removed = {} /\ k.items = Empty /\ k.began = now.began
        /\ k.records = now.records /\ k \in PassRecord /\ since = 0
    BY <1>1, <1>2 DEF Known, PassRecord, Copy
  <2> HIDE DEF k
  <2>2. \A i \in Items : rows[i].seq <= since => Knows(k, i)
    BY <1>1, <2>1 DEF Knows, KnowsFrom
  <2>3. Mourned(k)
    BY <1>1, <2>1 DEF Mourned
  <2> QED
    BY <1>1, <2>1, <2>2, <2>3 DEF k
<1>3. CASE ~reset
  <2>1. k = now /\ since = now.at /\ since \in Nat
    BY <1>1, <1>3 DEF Known, PassRecord
  <2> HIDE DEF k
  <2> QED
    BY <1>1, <1>3, <2>1 DEF PassFits, k
<1> QED
  BY <1>2, <1>3

LEMMA PageFits ==
  ASSUME SyncInv, NEW k \in PassRecord, Copy(k.items, rows), Copy(k.records, rows),
         k.began <= vaultSeq, NEW since \in 0..vaultSeq,
         \A i \in Items : rows[i].seq <= since => Knows(k, i),
         Mourned(k), k.rebuilding \/ (since > 0 /\ vaultFloor <= since),
         NEW more, more = (Page(since) # Listed(since)), NEW p,
         p = [k EXCEPT
           !.removed = (k.removed \cup (Page(since) \ Live)) \ (Page(since) \cap Live),
           !.items   = [i \in Items |-> IF i \notin Page(since) THEN k.items[i]
                                        ELSE IF i \in Live THEN rows[i] ELSE NoRow],
           !.at      = Reaches(Page(since), more, since),
           !.phase   = IF more THEN "pull" ELSE "store"]
  PROVE  PassFits(p) /\ p.phase \in {"pull", "store"} /\ (p.phase = "store" => diskCursor <= p.at)
<1> DEFINE page   == Page(since)
           listed == Listed(since)
           next   == Reaches(page, more, since)
           removed == (k.removed \cup (page \ Live)) \ (page \cap Live)
           items  == [i \in Items |-> IF i \notin page THEN k.items[i]
                                      ELSE IF i \in Live THEN rows[i] ELSE NoRow]
<1>1. /\ vaultSeq \in Nat /\ vaultFloor \in Nat /\ diskCursor \in 0..vaultSeq /\ VaultInv /\ History
      /\ since \in Nat /\ since <= vaultSeq
      /\ \A i \in Items : rows[i] \in Row /\ rows[i].seq \in Nat /\ rows[i].seq <= vaultSeq
  BY Bounds DEF SyncInv
<1>2. /\ page \subseteq listed /\ listed \subseteq Items
      /\ \A i \in Items : i \in listed <=> rows[i].state \in {"live", "gone"} /\ rows[i].seq > since
  BY DEF Page, Listed, Kept
<1>3. /\ next \in since..vaultSeq
      /\ ~more => next = vaultSeq
      /\ \A i \in listed : rows[i].seq <= next => i \in page
  <2>1. CASE more
    <3>1. next = LastOf(page) /\ page # listed
      BY <2>1 DEF Reaches
    <3>2. /\ LastOf(page) \in since + 1 .. vaultSeq
          /\ \A i \in listed : rows[i].seq <= LastOf(page) => i \in page
      BY <1>1, <3>1, PageStarts
    <3> HIDE DEF page, listed, next
    <3> QED
      BY <1>1, <2>1, <3>1, <3>2
  <2>2. CASE ~more
    <3>1. page = listed /\ next = IF vaultSeq > since THEN vaultSeq ELSE since
      BY <2>2 DEF Reaches
    <3> HIDE DEF page, listed, next
    <3> QED
      BY <1>1, <1>2, <2>2, <3>1
  <2> QED
    BY <2>1, <2>2
<1>4. NoRow \in Row /\ NoRow.seq = 0 /\ DOMAIN k = {"phase", "at", "began", "rebuilding", "removed",
        "items", "records", "before"}
  BY NoRowType, VaultAssumption DEF NoRow, PassRecord
<1>5. \A i \in Items : Seen(k.items[i], rows[i]) /\ Seen(NoRow, rows[i]) /\ k.items[i] \in Row
  BY <1>1, EmptyCopy DEF Copy, Empty
<1>6. \A i \in Live : i \in Items /\ rows[i].state = "live" /\ Seen(rows[i], rows[i])
  BY <1>1 DEF Live, Seen, Row
<1>7. items \in [Items -> Row] /\ Copy(items, rows)
  <2>1. \A i \in Items : items[i] \in Row /\ Seen(items[i], rows[i])
    BY <1>1, <1>4, <1>5, <1>6
  <2>2. items = [i \in Items |-> items[i]]
    OBVIOUS
  <2> HIDE DEF items
  <2>3. items \in [Items -> Row]
    BY <2>1, <2>2
  <2> QED
    BY <2>1, <2>3 DEF Copy
<1>8. /\ p.removed = removed /\ p.items = items /\ p.at = next
      /\ p.phase = (IF more THEN "pull" ELSE "store")
      /\ p.began = k.began /\ p.rebuilding = k.rebuilding /\ p.records = k.records
      /\ p.before = k.before
      /\ p = [phase |-> p.phase, at |-> next, began |-> k.began, rebuilding |-> k.rebuilding,
              removed |-> removed, items |-> items, records |-> k.records, before |-> k.before]
  BY <1>4 DEF PassRecord
<1>9. /\ removed \subseteq Items /\ next \in Nat /\ next <= vaultSeq
      /\ \A i \in Items : /\ i \in removed <=> (i \in page /\ i \notin Live) \/ (i \notin page /\ i \in k.removed)
                          /\ items[i] = IF i \notin page THEN k.items[i]
                                        ELSE IF i \in Live THEN rows[i] ELSE NoRow
  BY <1>1, <1>2, <1>3 DEF PassRecord
<1> HIDE DEF page, listed, next, removed, items
<1>10. p \in PassRecord
  BY <1>7, <1>8, <1>9 DEF PassRecord, Phases
<1>11. ASSUME NEW i \in Items, rows[i].seq <= next PROVE Knows(p, i)
  <2>1. CASE i \in page
    BY <1>1, <1>4, <1>8, <1>9, <2>1 DEF Knows, KnowsFrom, Live
  <2>2. CASE i \notin page /\ rows[i].seq <= since
    <3>1. Knows(k, i)
      BY <2>2
    <3> QED
      BY <1>8, <1>9, <2>2, <3>1 DEF Knows, KnowsFrom
  <2>3. CASE i \notin page /\ rows[i].seq > since
    <3>1. i \notin listed
      BY <1>3, <1>11, <2>3
    <3>2. rows[i].state \notin {"live", "gone"}
      BY <1>2, <2>3, <3>1
    <3>3. k.items[i] = NoRow
      BY <3>2 DEF Mourned
    <3>4. k.rebuilding
      <4>1. rows[i].state \in States
        BY <1>1 DEF Row
      <4>2. CASE rows[i].state = "absent"
        <5>1. rows[i].seq # 0
          BY <1>1, <2>3
        <5> QED
          BY <1>1, <4>2, <5>1 DEF History
      <4>3. CASE rows[i].state = "forgotten"
        BY <1>1, <2>3, <4>3 DEF History
      <4> QED
        BY <3>2, <4>1, <4>2, <4>3 DEF States
    <3> QED
      BY <1>8, <1>9, <2>3, <3>2, <3>3, <3>4 DEF Knows, KnowsFrom
  <2> QED
    BY <1>1, <2>1, <2>2, <2>3
<1>12. Mourned(p)
  BY <1>6, <1>8, <1>9 DEF Mourned, Live
<1>13. p.rebuilding \/ p.at > 0
  BY <1>1, <1>3, <1>8
<1>14. PassFits(p)
  BY <1>7, <1>8, <1>9, <1>10, <1>11, <1>12, <1>13 DEF PassFits
<1> QED
  BY <1>1, <1>3, <1>8, <1>14

LEMMA PullPageKeeps ==
  ASSUME SyncInv, NEW k \in {"now", "old"}, PullPage(k) PROVE SyncInv' /\ Advances
<1> DEFINE p     == passes[k]
           full  == p.rebuilding /\ p.at > 0
           reset == ~full /\ p.at > 0 /\ p.at < vaultFloor
           since == IF reset THEN 0 ELSE p.at
           more  == Page(since) # Listed(since)
           known == Known(p, since, reset)
           next  == [known EXCEPT
             !.removed = (known.removed \cup (Page(since) \ Live)) \ (Page(since) \cap Live),
             !.items   = [i \in Items |-> IF i \notin Page(since) THEN known.items[i]
                                          ELSE IF i \in Live THEN rows[i] ELSE NoRow],
             !.at      = Reaches(Page(since), more, since),
             !.phase   = IF more THEN "pull" ELSE "store"]
<1>1. /\ UNCHANGED <<server, call, stored, shown, deaf>> /\ faults' \in 0..MaxFaults
  BY FaultsStay DEF PullPage, serverVars, SyncInv
<1>2. p.phase = "pull" /\ Pass(k, next)
  BY DEF PullPage, Known
<1>3. CASE k = "old"
  <2>1. "phase" \in DOMAIN known
    BY <1>3 DEF SyncInv, FormerInv, former, Known
  <2> HIDE DEF known
  <2>2. "phase" \in DOMAIN next /\ next.phase # "storing"
    BY <2>1
  <2> HIDE DEF next
  <2> QED
    BY <1>1, <1>2, <1>3, <2>2, OldMoves
<1>4. CASE k = "now"
  <2>1. p = now /\ now \in PassRecord /\ PassFits(now) /\ vaultFloor \in Nat /\ now.at \in Nat
        /\ now.began <= vaultSeq /\ Copy(now.records, rows)
    BY <1>4, Bounds DEF now, PassRecord, PassFits
  <2>2. reset \in BOOLEAN /\ (~reset => now.rebuilding \/ now.at = 0 \/ vaultFloor <= now.at)
    BY <2>1
  <2>3. Pass("now", next)
    BY <1>2, <1>4
  <2>4. now' = next /\ former' = former /\ DOMAIN passes' = {"now", "old"}
    <3> HIDE DEF next
    <3> QED
      BY <2>3 DEF SyncInv, Pass, now, former
  <2>5. view = "open"
    BY <1>2, <2>1 DEF SyncInv, Cursors
  <2> HIDE DEF reset, next
  <2>6. /\ known \in PassRecord /\ Copy(known.items, rows) /\ known.began = now.began
        /\ known.records = now.records
        /\ since \in 0..vaultSeq
        /\ \A i \in Items : rows[i].seq <= since => Knows(known, i)
        /\ Mourned(known)
        /\ known.rebuilding \/ (since > 0 /\ vaultFloor <= since)
    BY <1>2, <2>1, <2>2, KnownFits
  <2> HIDE DEF known, since, p
  <2>7. PassFits(next) /\ next.phase \in {"pull", "store"} /\ (next.phase = "store" => diskCursor <= next.at)
    BY <2>1, <2>6, PageFits DEF next
  <2> QED
    BY <1>1, <1>2, <2>1, <2>4, <2>5, <2>7, PassMoves
<1> QED
  BY <1>3, <1>4

\* The end of a pass is the beginning of the next, or none.
LEMMA EndsBegun ==
  ASSUME SyncInv, UNCHANGED cursor, Ends("now")
  PROVE  /\ DOMAIN passes' = {"now", "old"} /\ former' = former
         /\ now' \in {NoPass, Begun} /\ PassFits(now') /\ now'.phase \in {"idle", "pull"}
<1>1. DOMAIN passes = {"now", "old"}
  BY DEF SyncInv
<1>2. CASE Pass("now", [NewPass EXCEPT !.at = cursor', !.rebuilding = (cursor' = 0)])
  <2>1. now' = Begun /\ former' = former /\ DOMAIN passes' = {"now", "old"}
    BY <1>1, <1>2 DEF Pass, now, former, NewPass, NoPass, Begun
  <2> QED
    BY <2>1, BegunFits
<1>3. CASE Pass("now", NoPass)
  <2>1. now' = NoPass /\ former' = former /\ DOMAIN passes' = {"now", "old"}
    BY <1>1, <1>3 DEF Pass, now, former
  <2> QED
    BY <2>1, NoPassFits, Bounds
<1> QED
  BY <1>2, <1>3 DEF Ends

LEMMA PullFailsKeeps ==
  ASSUME SyncInv, NEW k \in {"now", "old"}, PullFails(k) PROVE SyncInv' /\ Advances
<1>1. /\ UNCHANGED <<server, call, stored, shown, deaf>> /\ faults' \in 0..MaxFaults
      /\ UNCHANGED cursor /\ Ends(k) /\ passes[k].phase = "pull"
  BY FaultType, VaultAssumption DEF PullFails, SyncInv, shown
<1>2. CASE k = "old"
  <2>1. Pass("old", NoPass)
    BY <1>1, <1>2 DEF Ends
  <2> QED
    BY <1>1, <2>1, OldMoves DEF NoPass
<1>3. CASE k = "now"
  <2>1. now.phase = "pull" /\ view = "open"
    BY <1>1, <1>3 DEF SyncInv, Cursors, now
  <2> QED
    BY <1>1, <1>3, <2>1, EndsBegun, PassMoves
<1> QED
  BY <1>2, <1>3

LEMMA StartStoreKeeps ==
  ASSUME SyncInv, NEW k \in {"now", "old"}, StartStore(k) PROVE SyncInv' /\ Advances
<1>1. /\ UNCHANGED <<server, call, stored, shown, deaf>> /\ faults' \in 0..MaxFaults
      /\ passes[k].phase = "store"
  BY FaultsStay DEF StartStore, serverVars, SyncInv
<1>2. CASE k = "old"
  <2>1. Pass("old", NoPass)
    BY <1>2 DEF StartStore, StillCurrent
  <2> QED
    BY <1>1, <2>1, OldMoves DEF NoPass
<1>3. CASE k = "now"
  <2> DEFINE p == [now EXCEPT !.phase = "storing"]
  <2>1. now.phase = "store" /\ Pass("now", p)
    BY <1>1, <1>3 DEF StartStore, StillCurrent, now
  <2>2. now' = p /\ former' = former /\ DOMAIN passes' = {"now", "old"}
    BY <2>1 DEF SyncInv, Pass, now, former
  <2>3. PassFits(now) /\ now \in PassRecord /\ view = "open" /\ diskCursor <= now.at
    BY <2>1, Bounds DEF SyncInv, Cursors
  <2>4. /\ p.phase = "storing" /\ p.at = now.at /\ p.began = now.began /\ p.items = now.items
        /\ p.records = now.records /\ p.rebuilding = now.rebuilding /\ p.removed = now.removed
        /\ p \in PassRecord
    BY <2>3 DEF PassRecord, Phases
  <2> HIDE DEF p
  <2>5. PassFits(p)
    BY <2>1, <2>3, <2>4 DEF PassFits, Knows, KnowsFrom
  <2> QED
    BY <1>1, <2>1, <2>2, <2>3, <2>4, <2>5, PassMoves
<1> QED
  BY <1>2, <1>3

\* What a listing has overtaken is not stored while its answer is on the way.
LEMMA StoreAwaited ==
  ASSUME SyncInv, NEW p, Storable(p), ~Overtakes(p), diskCursor' = p.at,
         UNCHANGED <<rows, call, deaf>>
  PROVE  Awaited'
<1> SUFFICES ASSUME NEW w \in Own, Landed(w), rows[call[w].id].state # "live"
             PROVE  p.at < rows[call[w].id].seq
  BY DEF Awaited, Landed
<1> DEFINE i == call[w].id
<1>1. w \in Actors /\ diskCursor < rows[i].seq
  BY SyncAssumption DEF Actors, SyncInv, Awaited
<1>2. i \in Items /\ call[w].row \in Row /\ call[w].row.seq <= rows[i].seq
  BY <1>1 DEF SyncInv, History, Carries, Landed, Seen
<1>3. /\ rows[i].seq \in Nat /\ p.at \in Nat /\ call[w].row.seq \in Nat
      /\ diskCursor \in Nat /\ vaultSeq \in Nat
  BY <1>2, Bounds DEF Storable, PassRecord, Row
<1> SUFFICES ASSUME rows[i].seq <= p.at PROVE FALSE
  BY <1>3
<1>4. KnowsFrom(p, i, diskCursor)
  BY <1>2 DEF Storable
<1>5. Drops(p, i)
  BY <1>1, <1>3, <1>4 DEF KnowsFrom, Drops
<1> QED
  BY <1>2, <1>3, <1>5 DEF Overtakes

LEMMA StoreKeeps ==
  ASSUME ~PurgeOvertakes, SyncInv, NEW k \in {"now", "old"}, Store(k) PROVE SyncInv' /\ Advances
<1> DEFINE p == passes[k]
           q == [p EXCEPT !.phase = "apply"]
<1>1. /\ UNCHANGED <<server, call, shown, deaf>> /\ faults' \in 0..MaxFaults
      /\ p.phase = "storing" /\ ~Overtakes(p)
      /\ disk' = Merged(disk, p) /\ diskCursor' = p.at /\ Pass(k, q)
  BY FaultsStay DEF Store, serverVars, SyncInv
<1>2. /\ VaultInv' /\ History' /\ UNCHANGED <<vaultSeq, rows, expired>>
  BY <1>1, VaultRests
<1>3. UNCHANGED <<mem, cursor, view, loaded>>
  BY <1>1 DEF shown
<1>4. Storable(p) /\ view = IF k = "now" THEN "open" ELSE "closed"
  BY <1>1, NowStorable DEF SyncInv, FormerInv, now, former
<1>5. Awaited'
  <2> HIDE DEF p, q
  <2> QED
    BY <1>1, <1>2, <1>4, StoreAwaited DEF server
<1>6. /\ VaultInv /\ PassFits(now) /\ Copies /\ Cursors /\ FormerInv
      /\ vaultSeq \in Nat /\ now \in PassRecord
  BY Bounds DEF SyncInv
<1>7. Copy(disk', rows) /\ Right(disk', diskCursor', rows)
  <2> HIDE DEF p, q
  <2> QED
    BY <1>1, <1>4, <1>6, MergedCopy, MergedRight DEF Copies, Storable
<1>8. Advances
  BY <1>1, <1>2, <1>3, <1>4, Bounds DEF Advances, Storable
<1>9. /\ q.phase = "apply" /\ q.at = p.at /\ q.began = p.began /\ q.items = p.items
      /\ q.records = p.records /\ q.rebuilding = p.rebuilding /\ q.removed = p.removed
      /\ q \in PassRecord /\ "phase" \in DOMAIN q /\ p.at \in Nat /\ p.at <= vaultSeq
  BY <1>4 DEF Storable, PassRecord, Phases
<1>10. CASE k = "old"
  <2> HIDE DEF q
  <2>1. now' = now /\ former' = q /\ DOMAIN passes' = {"now", "old"}
    BY <1>1, <1>10 DEF SyncInv, Pass, now, former
  <2>2. view = "closed" /\ now.phase = "idle"
    BY <1>4, <1>6, <1>10 DEF Cursors
  <2>3. FormerInv'
    BY <1>9, <2>1 DEF FormerInv
  <2>4. PassInv'
    BY <1>2, <1>3, <1>6, <2>1, <2>2 DEF PassInv, PassFits
  <2>5. Cursors'
    BY <1>1, <1>2, <1>3, <1>6, <1>9, <2>1, <2>2 DEF Cursors
  <2>6. Copies'
    BY <1>2, <1>3, <1>6, <1>7, <2>1, <2>2 DEF Copies
  <2> QED
    BY <1>2, <1>5, <1>8, <2>1, <2>3, <2>4, <2>5, <2>6 DEF SyncInv
<1>11. CASE k = "now"
  <2> HIDE DEF q
  <2>1. now' = q /\ former' = former /\ DOMAIN passes' = {"now", "old"} /\ p = now
    BY <1>1, <1>11 DEF SyncInv, Pass, now, former
  <2>2. view = "open" /\ cursor = diskCursor /\ diskCursor <= now.at
    BY <1>1, <1>4, <1>6, <1>11, <2>1 DEF Cursors
  <2>3. FormerInv'
    BY <1>3, <1>6, <2>1, <2>2 DEF FormerInv
  <2> HIDE DEF p
  <2>4. PassInv'
    BY <1>1, <1>2, <1>3, <1>6, <1>9, <2>1 DEF PassInv, PassFits, Knows, KnowsFrom
  <2>5. Cursors'
    BY <1>1, <1>2, <1>3, <1>6, <1>9, <2>1, <2>2 DEF Cursors
  <2>6. Copies'
    BY <1>1, <1>2, <1>3, <1>6, <1>7, <1>9, <2>1 DEF Copies
  <2> QED
    BY <1>2, <1>5, <1>8, <2>1, <2>3, <2>4, <2>5, <2>6 DEF SyncInv
<1> QED
  BY <1>10, <1>11

LEMMA ApplyKeeps ==
  ASSUME SyncInv, NEW k \in {"now", "old"}, Apply(k) PROVE SyncInv' /\ Advances
<1>1. /\ UNCHANGED <<server, call, stored, mem, view, loaded, deaf>> /\ faults' \in 0..MaxFaults
      /\ passes[k].phase = "apply"
  BY FaultsStay DEF Apply, serverVars, SyncInv
<1>2. CASE k = "old"
  <2>1. Pass("old", NoPass) /\ UNCHANGED cursor
    BY <1>2 DEF Apply, StillCurrent
  <2> QED
    BY <1>1, <2>1, OldMoves DEF shown, NoPass
<1>3. CASE k = "now"
  <2> DEFINE p == [now EXCEPT !.phase = "open", !.records = Merged(mem, now), !.before = mem]
  <2>1. cursor' = now.at /\ Pass("now", p) /\ now.phase = "apply"
    BY <1>3 DEF Apply, StillCurrent, now
  <2>2. now' = p /\ former' = former /\ DOMAIN passes' = {"now", "old"}
    BY <2>1 DEF SyncInv, Pass, now, former
  <2>3. /\ VaultInv /\ PassFits(now) /\ Copies /\ Cursors
        /\ vaultSeq \in Nat /\ now \in PassRecord /\ now.at \in Nat /\ now.at <= vaultSeq
    BY Bounds DEF SyncInv, PassFits, PassRecord
  <2>4. /\ VaultInv' /\ History' /\ Awaited' /\ UNCHANGED <<vaultSeq, rows, expired>>
    BY <1>1, VaultRests DEF stored
  <2>5. UNCHANGED <<disk, diskCursor>>
    BY <1>1 DEF stored
  <2>6. view = "open" /\ now.at = diskCursor /\ cursor <= diskCursor
    BY <2>1, <2>3 DEF Cursors
  <2>7. Copy(Merged(mem, now), rows) /\ Right(Merged(mem, now), now.at, rows)
    BY <2>1, <2>3, MergedCopy, MergedRight DEF Copies, PassFits, Knows
  <2>8. /\ p.phase = "open" /\ p.at = now.at /\ p.began = now.began /\ p.items = now.items
        /\ p.records = Merged(mem, now) /\ p.before = mem
        /\ p \in PassRecord
    BY <2>3, <2>7 DEF PassRecord, Phases, Copies, Copy
  <2> HIDE DEF p
  <2>9. PassInv'
    BY <2>2, <2>3, <2>4, <2>7, <2>8 DEF PassInv, PassFits
  <2>10. Cursors'
    BY <1>1, <2>1, <2>2, <2>3, <2>4, <2>5, <2>6, <2>8 DEF Cursors
  <2>11. Opened(now)' = p.records
    <3>1. Opened(now)' = [i \in Items |-> p.records[i]]
      BY <1>1, <2>2, <2>8 DEF Opened
    <3>2. p.records \in [Items -> Row]
      BY <2>8 DEF PassRecord
    <3> QED
      BY <3>1, <3>2
  <2>12. Copies'
    BY <1>1, <2>1, <2>2, <2>3, <2>4, <2>5, <2>7, <2>8, <2>11 DEF Copies
  <2>13. Advances
    BY <2>1, <2>3, <2>4, <2>5, <2>6, Bounds DEF Advances
  <2>14. FormerInv'
    BY <1>1, <2>2, <2>4, <2>5, FormerRests
  <2> QED
    BY <2>2, <2>4, <2>9, <2>10, <2>12, <2>13, <2>14 DEF SyncInv
<1> QED
  BY <1>2, <1>3

LEMMA PublishKeeps ==
  ASSUME SyncInv, NEW k \in {"now", "old"}, Publish(k) PROVE SyncInv' /\ Advances
<1>1. /\ UNCHANGED <<server, call, stored, cursor, view, loaded, deaf>> /\ faults' \in 0..MaxFaults
      /\ passes[k].phase = "open" /\ Ends(k)
  BY FaultsStay DEF Publish, serverVars, SyncInv
<1>2. CASE k = "old"
  <2>1. Pass("old", NoPass) /\ UNCHANGED mem
    BY <1>1, <1>2 DEF Publish, Ends, StillCurrent
  <2> QED
    BY <1>1, <2>1, OldMoves DEF shown, NoPass
<1>3. CASE k = "now"
  <2>1. mem' = Opened(now) /\ now.phase = "open"
    BY <1>1, <1>3 DEF Publish, StillCurrent, now
  <2>2. /\ VaultInv /\ PassFits(now) /\ Copies /\ Cursors
    BY Bounds DEF SyncInv
  <2>3. /\ DOMAIN passes' = {"now", "old"} /\ PassFits(now') /\ now'.phase \in {"idle", "pull"}
        /\ former' = former
    BY <1>1, <1>3, EndsBegun
  <2>4. /\ VaultInv' /\ History' /\ Awaited' /\ UNCHANGED <<vaultSeq, rows, expired>>
    BY <1>1, VaultRests DEF stored
  <2>5. UNCHANGED <<disk, diskCursor>>
    BY <1>1 DEF stored
  <2>6. PassInv'
    BY <1>1, <2>3, <2>4 DEF PassInv, PassFits, Knows, KnowsFrom, Mourned
  <2>7. view = "open" /\ cursor = diskCursor
    BY <2>1, <2>2 DEF Cursors
  <2>8. Cursors'
    BY <1>1, <2>2, <2>3, <2>4, <2>5, <2>7 DEF Cursors
  <2>9. Copy(Opened(now), rows) /\ Right(Opened(now), cursor, rows)
    BY <2>1, <2>2, OpenedCopy DEF Copies, PassFits
  <2>10. Copies'
    BY <1>1, <2>1, <2>2, <2>3, <2>4, <2>5, <2>9 DEF Copies
  <2>11. Advances
    BY <1>1, <2>4, <2>5, Bounds DEF Advances
  <2>12. FormerInv'
    BY <1>1, <2>3, <2>4, <2>5, FormerRests
  <2> QED
    BY <2>3, <2>4, <2>6, <2>8, <2>10, <2>11, <2>12 DEF SyncInv
<1> QED
  BY <1>2, <1>3

(***************************************************************************)
(* The requests of the device, and their answers.                          *)
(***************************************************************************)
\* A request from what is on screen is of the row's only life as well.
LEMMA SeenSendKeeps ==
  ASSUME SyncInv, NEW w \in Writers, NEW op \in Updates, op \in Requests, NEW id \in Items,
         NEW row, row # NoRow, Seen(row, rows[id]),
         Send(w, op, id, Nil, [i \in {id} |-> row])
  PROVE  VaultInv' /\ RowsLive
<1> DEFINE saw == [i \in {id} |-> row]
           c == [NoCall EXCEPT !.op = op, !.stage = "sent", !.id = id, !.to = Nil,
                               !.epoch = groupEpoch, !.saw = saw]
<1>1. /\ w \in Actors /\ w # Cron /\ Becomes(w, c) /\ UNCHANGED server
      /\ faults' \in 0..MaxFaults /\ VaultInv
  BY FaultsStay, VaultAssumption DEF Send, Actors, VaultAssumption, SyncInv
<1>2. DOMAIN saw = {id} /\ saw[id] = row /\ saw \in [{id} -> Row] /\ row \in Row
  BY DEF Seen
<1> HIDE DEF saw
<1>3. /\ DOMAIN c = DOMAIN NoCall /\ c.op = op /\ c.stage = "sent" /\ c.id = id /\ c.to = Nil
      /\ c.epoch = groupEpoch /\ c.saw = saw /\ c.row = NoRow /\ c.todo = {} /\ c.purged = {}
  BY DEF NoCall
<1> HIDE DEF c
<1>4. groupEpoch \in Nat /\ NoRow \in Row
  BY <1>1, NoRowType, VaultAssumption DEF VaultInv, Counters, VaultAssumption
<1>5. Call(c)
  BY <1>2, <1>3, <1>4 DEF Call
<1>6. Aged(c, rows)
  BY <1>2, <1>3 DEF Aged, Seen
<1>7. Fits(w, c) /\ Once(c, rows, expired)
  BY <1>1, <1>2, <1>3 DEF Fits, Once, Updates, Seals, Trashes, Moves
<1> QED
  BY <1>1, <1>5, <1>6, <1>7, StepsOnly DEF CallInv

LEMMA OwnRequestsKeep ==
  ASSUME SyncInv, NEW w \in Own, NEW id \in Items,
         OwnCreate(w, id) \/ OwnDelete(w, id) \/ \E op \in Updates : OwnUpdate(w, op, id)
  PROVE  SyncInv' /\ RowsLive /\ UNCHANGED client
<1>1. w \in Writers /\ w \in Actors /\ VaultInv /\ Nil \in Folders \cup {Nil}
  BY SyncAssumption DEF Actors, SyncInv
<1>2. UNCHANGED client
  BY DEF OwnCreate, OwnDelete, OwnUpdate
<1>3. CASE OwnCreate(w, id)
  <2>1. Create(w, id, Nil)
    BY <1>3 DEF OwnCreate
  <2>2. Sends(w)
    BY <1>1, <2>1 DEF Sends
  <2>3. VaultInv' /\ RowsLive
    BY <1>1, <2>2, DevicesKeep, VaultAssumption
  <2> QED
    BY <1>1, <1>2, <2>2, <2>3, OthersMove, WorkerKeeps
<1>4. CASE OwnDelete(w, id)
  <2>1. Send(w, "delete", id, Nil, NoCall.saw) /\ "delete" \in Requests
    BY <1>4 DEF OwnDelete, Send
  <2>2. DOMAIN NoCall.saw = {} /\ NoCall.saw \in [DOMAIN NoCall.saw -> Row]
    BY DEF NoCall
  <2>3. "delete" \notin Updates /\ "delete" # "create"
    BY DEF Updates, Seals, Trashes, Moves
  <2>4. VaultInv' /\ RowsLive
    BY <1>1, <2>1, <2>2, <2>3, SendKeeps, VaultAssumption
  <2> QED
    BY <1>1, <1>2, <2>1, <2>4, SendMoves, WorkerKeeps
<1>5. ASSUME NEW op \in Updates, OwnUpdate(w, op, id)
      PROVE  SyncInv' /\ RowsLive
  <2>1. /\ Send(w, op, id, Nil, [i \in {id} |-> mem[id]]) /\ op \in Requests
        /\ mem[id] # NoRow
    BY <1>5 DEF OwnUpdate, Send
  <2>2. Seen(mem[id], rows[id])
    BY DEF SyncInv, Copies, Copy
  <2> DEFINE row == mem[id]
  <2>3. Send(w, op, id, Nil, [i \in {id} |-> row]) /\ row # NoRow /\ Seen(row, rows[id])
    BY <2>1, <2>2
  <2> HIDE DEF row
  <2>4. VaultInv' /\ RowsLive
    BY <1>1, <2>1, <2>3, SeenSendKeeps
  <2> QED
    BY <1>1, <1>2, <2>1, <2>4, SendMoves, WorkerKeeps
<1> QED
  BY <1>2, <1>3, <1>4, <1>5

\* What an answer leaves of a call of the device's own.
LEMMA AnswerMoves ==
  ASSUME SyncInv, NEW w \in Own, NEW c, Becomes(w, c), Carries(c, rows),
         UNCHANGED <<vaultFloor, rows>>
  PROVE  /\ w \in Actors /\ call'[w] = c /\ \A q \in Actors \ {w} : call'[q] = call[q]
         /\ History'
<1>1. w \in Actors /\ DOMAIN call = Actors
  BY SyncAssumption DEF Actors, SyncInv, VaultInv
<1>2. call'[w] = c /\ \A q \in Actors \ {w} : call'[q] = call[q]
  BY <1>1 DEF Becomes
<1>3. \A q \in Actors : Carries(call'[q], rows')
  BY <1>1, <1>2 DEF SyncInv, History
<1> QED
  BY <1>1, <1>2, <1>3 DEF SyncInv, History

LEMMA StoreAnswerKeeps ==
  ASSUME SyncInv, NEW w \in Own, StoreAnswer(w) PROVE SyncInv' /\ Advances
<1> DEFINE c == call[w]
           d == [c EXCEPT !.stage = "stored"]
<1>1. /\ w \in Own \ deaf /\ c.stage = "ok" /\ disk' = Applied(c, disk) /\ Goes(w, "stored")
      /\ UNCHANGED <<server, faults, diskCursor, shown, passes, deaf>>
  BY DEF StoreAnswer, Applied
<1>2. UNCHANGED <<vaultSeq, vaultFloor, rows, expired, mem, cursor, view, loaded>>
  BY <1>1 DEF server, shown
<1>3. w \in Actors /\ "stored" \in Stages /\ faults' \in 0..MaxFaults /\ VaultInv
  BY <1>1, FaultsStay, SyncAssumption DEF Actors, Stages, SyncInv
<1>4. VaultInv'
  BY <1>1, <1>3, GoesKeeps
<1>5. Call(c) /\ Carries(c, rows)
  BY <1>3, CallOf DEF SyncInv, History
<1>6. /\ d.row = c.row /\ d.id = c.id /\ d.purged = c.purged /\ d.stage = "stored"
      /\ Becomes(w, d)
  BY <1>1, <1>5 DEF Call, NoCall, Goes
<1> HIDE DEF d
<1>7. Carries(d, rows)
  BY <1>5, <1>6 DEF Carries
<1>8. /\ call'[w] = d /\ \A q \in Actors \ {w} : call'[q] = call[q]
      /\ History'
  BY <1>2, <1>6, <1>7, AnswerMoves
<1>9. Awaited'
  <2> SUFFICES ASSUME NEW v \in Own, Landed(v)', rows[call'[v].id].state # "live"
               PROVE  diskCursor < rows[call'[v].id].seq
    BY <1>1, <1>2 DEF Awaited
  <2>1. v \in Actors /\ call'[v].row = call[v].row /\ call'[v].id = call[v].id /\ v \notin deaf
    BY <1>1, <1>6, <1>8, SyncAssumption DEF Actors, Landed
  <2>2. Landed(v)
    BY <1>1, <1>6, <1>8, <2>1 DEF Landed
  <2> QED
    BY <2>1, <2>2 DEF SyncInv, Awaited
<1>10. now' = now /\ Opened(now)' = Opened(now)
  BY <1>1, <1>2 DEF now, Opened
<1>11. PassInv' /\ Cursors'
  BY <1>1, <1>2, <1>10 DEF SyncInv, PassInv, PassFits, Knows, KnowsFrom, Mourned, Cursors
<1>12. Copy(disk', rows) /\ Right(disk', diskCursor, rows)
  BY <1>1, Bounds, AppliedCopy, AppliedRight DEF SyncInv, Copies
<1>13. Copies'
  BY <1>1, <1>2, <1>10, <1>12 DEF SyncInv, Copies
<1>14. Advances
  BY <1>1, <1>2, Bounds DEF Advances
<1>15. FormerInv'
  BY <1>1, <1>2, FormerRests DEF former
<1> QED
  BY <1>1, <1>4, <1>8, <1>9, <1>11, <1>13, <1>14, <1>15 DEF SyncInv

\* An answer that is over is awaited no more.
LEMMA AnswerEnds ==
  ASSUME SyncInv, NEW w \in Own, Becomes(w, NoCall), UNCHANGED <<server, faults, diskCursor>>,
         deaf' \in {deaf, deaf \ {w}}
  PROVE  VaultInv' /\ History' /\ Awaited' /\ UNCHANGED <<vaultSeq, vaultFloor, rows, expired>>
<1>1. /\ w \in Actors /\ VaultInv /\ faults' \in 0..MaxFaults
      /\ UNCHANGED <<vaultSeq, vaultFloor, rows, expired>>
  BY FaultsStay, SyncAssumption DEF Actors, SyncInv, server
<1>2. VaultInv'
  BY <1>1, EndsKeeps, VaultAssumption
<1>3. NoCall.row = NoRow /\ NoCall.purged = {}
  BY DEF NoCall
<1>4. Carries(NoCall, rows)
  BY <1>3 DEF Carries
<1>5. call'[w] = NoCall /\ (\A q \in Actors \ {w} : call'[q] = call[q]) /\ History'
  BY <1>1, <1>4, AnswerMoves
<1>6. Awaited'
  <2> SUFFICES ASSUME NEW v \in Own, Landed(v)', rows[call'[v].id].state # "live"
               PROVE  diskCursor < rows[call'[v].id].seq
    BY <1>1 DEF Awaited
  <2>1. v # w /\ v \in Actors
    BY <1>3, <1>5, SyncAssumption DEF Actors, Landed
  <2>2. call'[v] = call[v] /\ Landed(v)
    BY <1>5, <2>1 DEF Landed
  <2> QED
    BY <2>2 DEF SyncInv, Awaited
<1> QED
  BY <1>1, <1>2, <1>5, <1>6

LEMMA DropAnswerKeeps ==
  ASSUME SyncInv, NEW w \in Own, DropAnswer(w) PROVE SyncInv' /\ Advances
<1>1. /\ Becomes(w, NoCall) /\ UNCHANGED <<server, faults, stored, shown, passes>>
      /\ deaf' = deaf \ {w}
  BY DEF DropAnswer
<1>2. UNCHANGED <<disk, diskCursor, mem, cursor, view, loaded>>
  BY <1>1 DEF stored, shown
<1>3. VaultInv' /\ History' /\ Awaited' /\ UNCHANGED <<vaultSeq, vaultFloor, rows, expired>>
  BY <1>1, <1>2, AnswerEnds
<1>4. now' = now /\ Opened(now)' = Opened(now)
  BY <1>1, <1>2 DEF now, Opened
<1>5. PassInv' /\ Cursors' /\ Copies'
  BY <1>2, <1>3, <1>4 DEF SyncInv, PassInv, PassFits, Knows, KnowsFrom, Mourned, Cursors, Copies
<1>6. Advances
  BY <1>2, <1>3, Bounds DEF Advances
<1>7. FormerInv'
  BY <1>1, <1>2, <1>3, FormerRests DEF former
<1> QED
  BY <1>1, <1>3, <1>5, <1>6, <1>7 DEF SyncInv

\* While a pass opens its records, the answer is kept until they are published.
LEMMA AppliedOpened ==
  ASSUME SyncInv, NEW w \in Own \ deaf, now.phase = "open", cursor = diskCursor,
         mem' = Applied(call[w], mem), now' = now
  PROVE  Right(Opened(now)', cursor, rows)
<1>1. /\ Copy(mem, rows) /\ Copy(mem', rows) /\ Right(now.records, cursor, rows)
      /\ Right(Opened(now), cursor, rows) /\ Copy(now.records, rows)
  BY Bounds, AppliedCopy DEF SyncInv, Copies, PassFits
<1> SUFFICES ASSUME NEW i \in Items, rows[i].seq <= cursor
             PROVE  Opened(now)'[i].seq = IF rows[i].state = "live" THEN rows[i].seq ELSE 0
  BY DEF Right
<1> DEFINE c == call[w]
           r == now.records[i]
           before == now.before[i]
<1>2. /\ Opened(now)[i] = IF mem[i] \notin {before, NoRow} /\ Newer(mem[i], r)
                          THEN mem[i] ELSE r
      /\ Opened(now)'[i] = IF mem'[i] \notin {before, NoRow} /\ Newer(mem'[i], r)
                           THEN mem'[i] ELSE r
  BY DEF Opened
<1>3. /\ Opened(now)[i].seq = IF rows[i].state = "live" THEN rows[i].seq ELSE 0
      /\ r.seq = IF rows[i].state = "live" THEN rows[i].seq ELSE 0
      /\ r.seq \in Nat /\ rows[i].seq \in Nat /\ NoRow.seq = 0
  BY <1>1, Bounds DEF Right, Copy, Seen, Row, NoRow
<1>4. CASE mem'[i] = mem[i]
  BY <1>2, <1>3, <1>4
<1>5. CASE mem'[i] = NoRow
  BY <1>2, <1>3, <1>5
<1>6. CASE c.row # NoRow /\ i = c.id /\ mem'[i] = c.row
  <2>1. rows[i].state = "live" /\ c.row.seq \in Nat /\ c.row.seq <= rows[i].seq
    BY <1>1, <1>6, AppliedItem
  <2> QED
    BY <1>2, <1>3, <1>6, <2>1 DEF Newer
<1> QED
  BY <1>1, <1>4, <1>5, <1>6, AppliedItems

LEMMA ShowAnswerKeeps ==
  ASSUME SyncInv, NEW w \in Own, ShowAnswer(w) PROVE SyncInv' /\ Advances
<1> DEFINE c == call[w]
<1>1. /\ w \in Own \ deaf /\ c.stage = "stored" /\ Becomes(w, NoCall)
      /\ UNCHANGED <<server, faults, stored, cursor, view, loaded, deaf>>
  BY DEF ShowAnswer
<1>2. UNCHANGED <<disk, diskCursor, cursor, view, loaded>>
  BY <1>1 DEF stored
<1>3. VaultInv' /\ History' /\ Awaited' /\ UNCHANGED <<vaultSeq, vaultFloor, rows, expired>>
  BY <1>1, <1>2, AnswerEnds
<1>4. Advances
  BY <1>2, <1>3, Bounds DEF Advances
<1>5. CASE view # "open"
  <2>1. UNCHANGED <<mem, passes>>
    BY <1>5 DEF ShowAnswer
  <2>2. now' = now /\ Opened(now)' = Opened(now)
    BY <2>1 DEF now, Opened
  <2>3. PassInv' /\ Cursors' /\ Copies'
    BY <1>2, <1>3, <2>1, <2>2 DEF SyncInv, PassInv, PassFits, Knows, KnowsFrom, Mourned, Cursors, Copies
  <2>4. FormerInv'
    BY <1>2, <1>3, <2>1, FormerRests DEF former
  <2> QED
    BY <1>1, <1>3, <1>4, <2>1, <2>3, <2>4 DEF SyncInv
<1>6. CASE view = "open"
  <2>1. /\ mem' = Applied(c, mem)
        /\ \/ now.phase = "idle" /\ Pass("now", NewPass)
           \/ now.phase # "idle" /\ UNCHANGED passes
    BY <1>6 DEF ShowAnswer, Applied, now
  <2>2. /\ DOMAIN passes' = {"now", "old"} /\ PassFits(now') /\ former' = former
        /\ \/ now.phase = "idle" /\ now'.phase = "pull"
           \/ now.phase # "idle" /\ now' = now
    <3>1. CASE now.phase = "idle" /\ Pass("now", NewPass)
      <4>1. now' = Begun /\ former' = former /\ DOMAIN passes' = {"now", "old"}
        BY <3>1 DEF SyncInv, Pass, now, former, NewPass, Begun
      <4> QED
        BY <3>1, <4>1, BegunFits
    <3>2. CASE now.phase # "idle" /\ UNCHANGED passes
      BY <3>2, Bounds DEF SyncInv, now, former
    <3> QED
      BY <2>1, <3>1, <3>2
  <2>3. PassInv'
    BY <1>2, <1>3, <2>2 DEF PassInv, PassFits, Knows, KnowsFrom, Mourned
  <2>4. Cursors'
    BY <1>2, <1>3, <1>6, <2>2 DEF SyncInv, Cursors
  <2>5. Copy(mem', rows) /\ FormerInv'
    BY <1>2, <1>3, <2>1, <2>2, AppliedCopy, FormerRests DEF SyncInv, Copies
  <2>6. CASE now.phase = "open"
    <3>1. now' = now /\ cursor = diskCursor
      BY <1>6, <2>2, <2>6 DEF SyncInv, Cursors
    <3>2. Right(Opened(now)', cursor, rows)
      BY <1>1, <2>1, <2>6, <3>1, AppliedOpened
    <3>3. Copies'
      BY <1>2, <1>3, <2>5, <2>6, <3>1, <3>2 DEF SyncInv, Copies
    <3> QED
      BY <1>1, <1>3, <1>4, <2>2, <2>3, <2>4, <2>5, <3>3 DEF SyncInv
  <2>7. CASE now.phase # "open"
    <3>1. Right(mem', cursor, rows) /\ now'.phase # "open"
      BY <1>1, <2>1, <2>2, <2>7, Bounds, AppliedRight DEF SyncInv, Copies
    <3>2. Copies'
      BY <1>2, <1>3, <2>5, <3>1 DEF SyncInv, Copies
    <3> QED
      BY <1>1, <1>3, <1>4, <2>2, <2>3, <2>4, <2>5, <3>2 DEF SyncInv
  <2> QED
    BY <2>6, <2>7
<1> QED
  BY <1>5, <1>6

(***************************************************************************)
(* Opening, leaving and reloading.                                         *)
(***************************************************************************)
LEMMA LoadKeeps == ASSUME SyncInv, Load PROVE SyncInv' /\ Advances
<1>1. /\ view = "closed" /\ view' = "loading" /\ loaded' = [copy |-> disk, cursor |-> diskCursor]
      /\ former.phase # "storing"
      /\ UNCHANGED <<server, call, disk, diskCursor, mem, cursor, passes, deaf>>
      /\ faults' \in 0..MaxFaults
  BY FaultsStay DEF Load, serverVars, stored, SyncInv, former
<1>2. /\ VaultInv' /\ History' /\ Awaited' /\ UNCHANGED <<vaultSeq, rows, expired>>
  BY <1>1, VaultRests
<1>3. now' = now /\ Opened(now)' = Opened(now)
  BY <1>1 DEF now, Opened
<1>4. PassInv' /\ Cursors' /\ Copies'
  BY <1>1, <1>2, <1>3 DEF SyncInv, PassInv, PassFits, Knows, KnowsFrom, Mourned, Cursors, Copies
<1>5. Advances
  BY <1>1, <1>2, Bounds DEF Advances
<1>6. FormerInv'
  BY <1>1, <1>2, FormerRests DEF former
<1> QED
  BY <1>1, <1>2, <1>4, <1>5, <1>6 DEF SyncInv

LEMMA LoadedKeeps == ASSUME SyncInv, Loaded PROVE SyncInv' /\ Advances
<1>1. /\ view = "loading" /\ view' = "open" /\ mem' = loaded.copy /\ cursor' = loaded.cursor
      /\ loaded' = [copy |-> Empty, cursor |-> 0]
      /\ UNCHANGED <<server, call, disk, diskCursor, passes, deaf>>
      /\ faults' \in 0..MaxFaults
  BY FaultsStay DEF Loaded, serverVars, stored, SyncInv
<1>2. /\ VaultInv' /\ History' /\ Awaited' /\ UNCHANGED <<vaultSeq, rows, expired>>
  BY <1>1, VaultRests
<1>3. /\ now' = now /\ now.phase = "idle" /\ cursor = 0 /\ loaded.cursor = diskCursor
      /\ vaultSeq \in Nat
  BY <1>1, Bounds DEF now, SyncInv, Cursors
<1>4. Copy(Empty, rows) /\ Right(Empty, 0, rows)
  BY EmptyCopy DEF SyncInv
<1>5. PassInv'
  BY <1>1, <1>2, <1>3 DEF SyncInv, PassInv, PassFits, Mourned
<1>6. Cursors' /\ Copies'
  BY <1>1, <1>2, <1>3, <1>4 DEF SyncInv, Cursors, Copies
<1>7. Advances
  BY <1>1, <1>2, <1>3, Bounds DEF Advances
<1>8. FormerInv'
  BY <1>1, <1>2, FormerRests DEF former
<1> QED
  BY <1>1, <1>2, <1>5, <1>6, <1>7, <1>8 DEF SyncInv

\* Nothing is left of the space but what is stored.
LEMMA ClearsKeeps ==
  ASSUME SyncInv, NEW old, Clears(old), UNCHANGED stored, VaultInv', History', Awaited',
         UNCHANGED <<vaultSeq, rows, expired>>,
         "phase" \in DOMAIN old, old.phase = "storing" => Storable(old)
  PROVE  SyncInv' /\ Advances
<1>1. /\ view' = "closed" /\ mem' = Empty /\ cursor' = 0
      /\ loaded' = [copy |-> Empty, cursor |-> 0]
      /\ passes' = [now |-> NoPass, old |-> old]
      /\ UNCHANGED <<disk, diskCursor>>
  BY DEF Clears, stored
<1>2. DOMAIN passes' = {"now", "old"} /\ now' = NoPass /\ former' = old
  BY <1>1 DEF now, former
<1>3. PassFits(NoPass) /\ NoPass.phase = "idle"
  BY NoPassFits, Bounds
<1>4. Copy(Empty, rows) /\ Right(Empty, 0, rows) /\ vaultSeq \in Nat
  BY EmptyCopy, Bounds DEF SyncInv
<1>5. PassInv'
  BY <1>2, <1>3 DEF PassInv, PassFits
<1>6. Cursors' /\ Copies'
  BY <1>1, <1>2, <1>3, <1>4 DEF SyncInv, Cursors, Copies
<1>7. Advances
  BY <1>1, Bounds DEF Advances
<1>8. FormerInv'
  BY <1>1, <1>2 DEF FormerInv, Storable, KnowsFrom
<1> QED
  BY <1>2, <1>5, <1>6, <1>7, <1>8 DEF SyncInv

LEMMA LeaveKeeps == ASSUME SyncInv, Leave PROVE SyncInv' /\ Advances
<1>1. /\ Clears(passes["now"]) /\ UNCHANGED <<server, call, stored, deaf>>
      /\ faults' \in 0..MaxFaults
  BY FaultsStay DEF Leave, serverVars, SyncInv
<1>2. /\ VaultInv' /\ History' /\ Awaited' /\ UNCHANGED <<vaultSeq, rows, expired>>
  BY <1>1, VaultRests DEF stored
<1>3. "phase" \in DOMAIN now /\ (now.phase = "storing" => Storable(now))
  BY Bounds, NowStorable DEF PassRecord
<1> QED
  BY <1>1, <1>2, <1>3, ClearsKeeps DEF now

\* The answers on their way are lost with the page.
LEMMA ReloadKeeps == ASSUME SyncInv, Reload PROVE SyncInv' /\ Advances
<1>1. /\ Clears(NoPass) /\ UNCHANGED <<server, faults, stored>>
      /\ deaf' = deaf \cup {w \in Own : call[w].stage \notin {"idle", "stored"}}
      /\ call' = [p \in Actors |->
                    IF p \in Own /\ call[p].stage = "stored" THEN NoCall ELSE call[p]]
  BY DEF Reload
<1>2. UNCHANGED <<vaultSeq, vaultFloor, groupEpoch, rows, expired, faults, diskCursor>>
  BY <1>1 DEF server, stored
<1>3. VaultInv'
  <2>1. \A p \in Actors : CallInv(p, call'[p], rows, expired)
    BY <1>1, NoCallInv, VaultAssumption DEF SyncInv, VaultInv
  <2>2. Counters' /\ Table' /\ DOMAIN call' = Actors
    BY <1>1, <1>2 DEF SyncInv, VaultInv, Counters, Table
  <2> QED
    BY <1>2, <2>1, <2>2 DEF VaultInv
<1>4. NoCall.row = NoRow /\ NoCall.purged = {}
  BY DEF NoCall
<1>5. History'
  <2>1. \A p \in Actors : Carries(call'[p], rows)
    BY <1>1, <1>4 DEF SyncInv, History, Carries
  <2> QED
    BY <1>2, <2>1 DEF SyncInv, History
<1>6. Awaited'
  <2> SUFFICES ASSUME NEW w \in Own, Landed(w)' PROVE FALSE
    BY DEF Awaited
  <2>1. w \in Actors
    BY SyncAssumption DEF Actors
  <2>2. call[w].stage = "ok" /\ call'[w] = call[w]
    BY <1>1, <1>4, <2>1 DEF Landed
  <2> QED
    BY <1>1, <2>2 DEF Landed
<1> QED
  BY <1>1, <1>2, <1>3, <1>5, <1>6, ClearsKeeps DEF NoPass

(***************************************************************************)
(* The invariant.                                                          *)
(***************************************************************************)
LEMMA SyncInitInv == ASSUME SyncInit PROVE SyncInv
<1> DEFINE D == DOMAIN Parents
<1>1. /\ Init /\ disk = rows /\ diskCursor = vaultSeq /\ mem = Empty /\ cursor = 0
      /\ view = "closed" /\ loaded = [copy |-> Empty, cursor |-> 0]
      /\ passes = [k \in {"now", "old"} |-> NoPass] /\ deaf = {}
  BY DEF SyncInit
<1>2. VaultInv
  BY <1>1, InitVaultInv, VaultAssumption
<1>3. /\ IsFiniteSet(D) /\ D \subseteq Items
      /\ vaultSeq = Cardinality(D) /\ call = [p \in Actors |-> NoCall]
      /\ \A i \in Items : IF i \in D THEN rows[i].state = "live" /\ rows[i].seq = Numbering(D)[i]
                          ELSE rows[i] = NoRow
  BY <1>1, FS_Subset, VaultAssumption DEF VaultAssumption, Init
<1>4. /\ Numbering(D) \in [D -> 1..Cardinality(D)]
      /\ \A i, j \in D : i # j => Numbering(D)[i] # Numbering(D)[j]
      /\ Cardinality(D) \in Nat
  BY <1>3, NumberingFits
<1>5. NoRow.seq = 0 /\ NoRow.state = "absent" /\ NoCall.row = NoRow /\ NoCall.purged = {}
  BY DEF NoRow, NoCall
<1> HIDE DEF D
<1>6. \A i \in Items : rows[i] \in Row /\ rows[i].seq \in Nat
  BY <1>2 DEF VaultInv, Table, Row
<1>7. History
  <2>1. \A i, j \in Items : i # j /\ rows[i].seq = rows[j].seq => rows[i].seq = 0
    BY <1>3, <1>4, <1>5
  <2>2. \A i \in Items : /\ rows[i].state = "absent" => rows[i].seq = 0
                         /\ rows[i].state # "forgotten"
    BY <1>3, <1>5
  <2>3. \A p \in Actors : Carries(call[p], rows)
    BY <1>3, <1>5 DEF Carries
  <2> QED
    BY <2>1, <2>2, <2>3 DEF History
<1>8. Awaited
  <2>1. \A w \in Own : w \in Actors
    BY SyncAssumption DEF Actors
  <2> QED
    BY <1>3, <1>5, <2>1 DEF Awaited, Landed
<1>9. now = NoPass /\ DOMAIN passes = {"now", "old"} /\ PassFits(NoPass) /\ NoPass.phase = "idle"
  BY <1>1, <1>2, NoPassFits DEF now
<1>10. PassInv /\ FormerInv /\ Cursors
  BY <1>1, <1>3, <1>4, <1>9 DEF PassInv, FormerInv, former, NoPass, Cursors
<1>11. Copy(rows, rows) /\ Right(rows, vaultSeq, rows)
  <2>1. \A i \in Items : Seen(rows[i], rows[i])
    BY <1>3, <1>5, <1>6 DEF Seen, Row
  <2>2. rows \in [Items -> Row]
    BY <1>2 DEF VaultInv, Table
  <2> QED
    BY <1>3, <1>5, <2>1, <2>2 DEF Copy, Right
<1>12. Copies
  BY <1>1, <1>2, <1>9, <1>11, EmptyCopy DEF Copies
<1> QED
  BY <1>2, <1>7, <1>8, <1>9, <1>10, <1>12 DEF SyncInv

\* A step is one of the Worker, which leaves the device alone, or one of the device,
\* which leaves the vault alone.
LEMMA SyncStep ==
  ASSUME ~PurgeOvertakes, SyncInv, SyncNext
  PROVE  SyncInv' /\ (Advances \/ (RowsLive /\ UNCHANGED client))
<1>1. VaultInv /\ DOMAIN passes = {"now", "old"}
  BY DEF SyncInv
<1>2. ASSUME NEW p \in Actors, Handlers(p), UNCHANGED client PROVE SyncInv' /\ RowsLive
  BY <1>1, <1>2, HandlersKeep, HandlersMove, WorkerKeeps, VaultAssumption
<1>3. ASSUME CronRuns, UNCHANGED client PROVE SyncInv' /\ RowsLive
  <2>1. VaultInv' /\ RowsLive
    BY <1>1, <1>3, CronChoosesKeeps, CronClaimsKeeps, CronGoesOnKeeps, CronForgetsKeeps,
       VaultAssumption DEF CronRuns
  <2> QED
    BY <1>3, <2>1, CronMoves, WorkerKeeps DEF Actors
<1>4. ASSUME NEW S \in SUBSET Items, Remembered(S), CronStarts(S), UNCHANGED client
      PROVE  SyncInv' /\ RowsLive
  <2>1. VaultInv' /\ RowsLive
    BY <1>1, <1>4, CronStartsKeeps, VaultAssumption
  <2> QED
    BY <1>4, <2>1, CronStartsMoves, WorkerKeeps DEF Actors
<1>5. ASSUME NEW w \in Others, Sends(w) \/ Receive(w), UNCHANGED client
      PROVE  SyncInv' /\ RowsLive
  <2>1. w \in Writers
    BY DEF Others
  <2>2. VaultInv' /\ RowsLive
    BY <1>1, <1>5, <2>1, DevicesKeep, VaultAssumption
  <2> QED
    BY <1>5, <2>1, <2>2, OthersMove, WorkerKeeps DEF Actors
<1>6. CASE StartSync
  BY <1>6, StartSyncKeeps
<1>7. ASSUME NEW k \in DOMAIN passes, PassSteps(k) \/ PullFails(k) PROVE SyncInv' /\ Advances
  <2>1. k \in {"now", "old"}
    BY <1>1
  <2>2. CASE PullPage(k)
    BY <2>1, <2>2, PullPageKeeps
  <2>3. CASE Store(k)
    BY <2>1, <2>3, StoreKeeps
  <2>4. CASE Apply(k)
    BY <2>1, <2>4, ApplyKeeps
  <2>5. CASE Publish(k)
    BY <2>1, <2>5, PublishKeeps
  <2>6. CASE PullFails(k)
    BY <2>1, <2>6, PullFailsKeeps
  <2>7. CASE StartStore(k)
    BY <2>1, <2>7, StartStoreKeeps
  <2> QED
    BY <1>7, <2>2, <2>3, <2>4, <2>5, <2>6, <2>7 DEF PassSteps
<1>8. ASSUME NEW w \in Own, OwnSteps(w) PROVE SyncInv' /\ Advances
  BY <1>8, StoreAnswerKeeps, ShowAnswerKeeps, DropAnswerKeeps DEF OwnSteps
<1>9. ASSUME NEW w \in Own, NEW id \in Items,
             OwnCreate(w, id) \/ OwnDelete(w, id) \/ \E op \in Updates : OwnUpdate(w, op, id)
      PROVE  SyncInv' /\ RowsLive /\ UNCHANGED client
  BY <1>9, OwnRequestsKeep
<1>10. CASE Load
  BY <1>10, LoadKeeps
<1>11. CASE Loaded
  BY <1>11, LoadedKeeps
<1>12. CASE Leave
  BY <1>12, LeaveKeeps
<1>13. CASE Reload
  BY <1>13, ReloadKeeps
<1> QED
  BY <1>2, <1>3, <1>4, <1>5, <1>6, <1>7, <1>8, <1>9, <1>10, <1>11, <1>12, <1>13 DEF SyncNext

LEMMA SyncStutters == ASSUME SyncInv, UNCHANGED vars PROVE SyncInv'
<1>1. /\ UNCHANGED <<server, call, faults>>
      /\ UNCHANGED <<disk, diskCursor, mem, cursor, view, loaded, passes, deaf>>
  BY DEF vars, serverVars, client, stored, shown
<1>2. /\ VaultInv' /\ History' /\ Awaited' /\ UNCHANGED <<vaultSeq, rows, expired>>
  BY <1>1, VaultRests, FaultsStay DEF SyncInv
<1>3. now' = now /\ Opened(now)' = Opened(now)
  BY <1>1 DEF now, Opened
<1>4. PassInv' /\ Cursors' /\ Copies'
  BY <1>1, <1>2, <1>3 DEF SyncInv, PassInv, PassFits, Knows, KnowsFrom, Mourned, Cursors, Copies
<1>5. FormerInv'
  BY <1>1, <1>2, FormerRests DEF former
<1> QED
  BY <1>1, <1>2, <1>4, <1>5 DEF SyncInv

LEMMA SyncInvariant == ~PurgeOvertakes => (SyncSpec => []SyncInv)
<1> SUFFICES ASSUME ~PurgeOvertakes PROVE SyncSpec => []SyncInv
  OBVIOUS
<1>1. SyncInit => SyncInv
  BY SyncInitInv
<1>2. SyncInv /\ [SyncNext]_vars => SyncInv'
  BY SyncStep, SyncStutters
<1> QED
  BY <1>1, <1>2, PTL DEF SyncSpec

(***************************************************************************)
(* The refinement.                                                         *)
(***************************************************************************)
\* A step of the Worker is a batch of changes, or changes nothing that is listed.
Listing ==
  \/ /\ vaultSeq' = vaultSeq
     /\ \A i \in Items : rows'[i].seq = rows[i].seq /\ (i \in Live' <=> i \in Live)
  \/ /\ vaultSeq' > vaultSeq
     /\ \A i \in Items :
          IF rows'[i].seq = rows[i].seq THEN i \in Live' <=> i \in Live
          ELSE /\ rows'[i].seq \in vaultSeq + 1 .. vaultSeq'
               /\ \A j \in Items \ {i} : rows'[j].seq # rows'[i].seq

LEMMA RowsListed == ASSUME VaultInv, VaultInv', RowsLive PROVE Listing
<1>1. /\ vaultSeq \in Nat /\ vaultSeq' \in Nat /\ vaultSeq <= vaultSeq'
      /\ \A i \in Items : rows[i].seq \in Nat /\ rows[i].seq <= vaultSeq
      /\ \A i \in Items : rows'[i].seq \in Nat /\ rows'[i].seq <= vaultSeq'
  BY DEF VaultInv, Counters, Table, Row, RowsLive
<1>2. ASSUME NEW i \in Items, rows'[i].seq = rows[i].seq PROVE i \in Live' <=> i \in Live
  BY <1>1, <1>2, SeqsLive DEF Live
<1>3. ASSUME NEW i \in Items, rows'[i].seq # rows[i].seq PROVE Numbered(i)
  BY <1>3 DEF RowsLive, Lives, Untouched, Forgotten
<1>4. CASE vaultSeq' = vaultSeq
  <2>1. \A i \in Items : rows'[i].seq = rows[i].seq
    BY <1>1, <1>3, <1>4 DEF Numbered
  <2> QED
    BY <1>2, <1>4, <2>1 DEF Listing
<1>5. CASE vaultSeq' > vaultSeq
  BY <1>2, <1>3, <1>5 DEF Listing, Numbered
<1> QED
  BY <1>1, <1>4, <1>5

\* What a reader holds, and what is to be shown.
Showing == IF now.phase = "open" THEN Opened(now) ELSE mem

LEMMA DiskFaithful == SyncInv => Disk!Faithful
<1> SUFFICES ASSUME SyncInv PROVE Disk!Faithful
  OBVIOUS
<1>1. /\ diskCursor \in 0..vaultSeq
      /\ \A i \in Items : Seen(disk[i], rows[i])
      /\ Right(disk, diskCursor, rows)
  BY Bounds DEF SyncInv, Copies, Copy
<1> QED
  BY <1>1 DEF Disk!Faithful, Disk!Version, Seqs, Seen, Right, Live

LEMMA MemoryFaithful == SyncInv => Memory!Faithful
<1> SUFFICES ASSUME SyncInv PROVE Memory!Faithful
  OBVIOUS
<1>1. /\ cursor \in 0..vaultSeq /\ Copy(mem, rows) /\ Copy(now.records, rows) /\ VaultInv
      /\ Right(Showing, cursor, rows)
  BY Bounds DEF SyncInv, Copies, PassFits, Showing
<1>2. \A i \in Items : Seen(Showing[i], rows[i])
  BY <1>1, OpenedCopy DEF Showing, Copy
<1> QED
  BY <1>1, <1>2 DEF Memory!Faithful, Memory!Version, Seqs, Seen, Right, Live, Showing, now

LEMMA DiskStep ==
  ASSUME ~PurgeOvertakes, SyncInv, SyncNext
  PROVE  Disk!Change \/ Disk!Learn \/ Disk!StartOver \/ UNCHANGED Disk!listing
<1>1. SyncInv' /\ (Advances \/ (RowsLive /\ UNCHANGED client))
  BY SyncStep
<1>2. CASE Advances
  <2>1. Disk!Faithful'
    BY <1>1, DiskFaithful, PTL
  <2>2. /\ diskCursor' >= diskCursor /\ UNCHANGED <<vaultSeq, rows>>
    BY <1>1, <1>2, Bounds DEF Advances
  <2>3. UNCHANGED Disk!vault
    BY <2>2 DEF Disk!vault, Seqs, Live
  <2> QED
    BY <2>1, <2>2, <2>3 DEF Disk!Learn
<1>3. CASE RowsLive /\ UNCHANGED client
  <2>1. Listing /\ UNCHANGED <<disk, diskCursor>>
    BY <1>1, <1>3, RowsListed DEF SyncInv, client, stored
  <2> QED
    BY <2>1 DEF Listing, Disk!Change, Disk!listing, Disk!vault, Seqs
<1> QED
  BY <1>1, <1>2, <1>3

LEMMA MemoryStep ==
  ASSUME ~PurgeOvertakes, SyncInv, SyncNext
  PROVE  Memory!Change \/ Memory!Learn \/ Memory!StartOver \/ UNCHANGED Memory!listing
<1>1. SyncInv' /\ (Advances \/ (RowsLive /\ UNCHANGED client))
  BY SyncStep
<1>2. CASE Advances
  <2>1. Memory!Faithful'
    BY <1>1, MemoryFaithful, PTL
  <2>2. /\ cursor' >= cursor \/ cursor' = 0
        /\ UNCHANGED <<vaultSeq, rows>>
    BY <1>1, <1>2, Bounds DEF Advances
  <2>3. UNCHANGED Memory!vault
    BY <2>2 DEF Memory!vault, Seqs, Live
  <2> QED
    BY <2>1, <2>2, <2>3 DEF Memory!Learn, Memory!StartOver
<1>3. CASE RowsLive /\ UNCHANGED client
  <2>1. Listing /\ UNCHANGED <<mem, cursor, passes>>
    BY <1>1, <1>3, RowsListed DEF SyncInv, client, shown
  <2>2. UNCHANGED (IF passes["now"].phase = "open" THEN Opened(passes["now"]) ELSE mem)
    BY <2>1 DEF Opened
  <2> QED
    BY <2>1, <2>2 DEF Listing, Memory!Change, Memory!listing, Memory!vault, Seqs
<1> QED
  BY <1>1, <1>2, <1>3

\* DiskListing: for any vault, any page size and any number of devices, the copy in
\* IndexedDB has of everything up to its cursor exactly what the vault has, across pages,
\* resets, failures and reloads (store.ts:645-649), unless a listing without an item
\* overtakes the answer to a write of it.
THEOREM VaultDiskFollows == ~PurgeOvertakes => (SyncSpec => DiskListing)
<1> SUFFICES ASSUME ~PurgeOvertakes PROVE SyncSpec => DiskListing
  OBVIOUS
<1>1. SyncInit => Disk!Init
  BY SyncInitInv, DiskFaithful DEF Disk!Init
<1>2. SyncInv /\ [SyncNext]_vars => [Disk!Change \/ Disk!Learn \/ Disk!StartOver]_(Disk!listing)
  <2>1. UNCHANGED vars => UNCHANGED Disk!listing
    BY DEF vars, serverVars, server, client, stored, Disk!listing, Disk!vault, Seqs, Live
  <2> QED
    BY <2>1, DiskStep
<1>3. SyncSpec => []SyncInv
  BY SyncInvariant
<1> QED
  BY <1>1, <1>2, <1>3, PTL DEF SyncSpec, DiskListing, Disk!Spec

\* MemoryListing: the same of the copy in memory, or of the one about to be published while
\* its records are opened, whatever the device wrote meanwhile, and starting over whenever
\* the space is left or the page reloads (vaultItems.ts:225-226, 248-250, 307-308).
THEOREM VaultMemoryFollows == ~PurgeOvertakes => (SyncSpec => MemoryListing)
<1> SUFFICES ASSUME ~PurgeOvertakes PROVE SyncSpec => MemoryListing
  OBVIOUS
<1>1. SyncInit => Memory!Init
  BY SyncInitInv, MemoryFaithful DEF Memory!Init
<1>2. SyncInv /\ [SyncNext]_vars
        => [Memory!Change \/ Memory!Learn \/ Memory!StartOver]_(Memory!listing)
  <2>1. UNCHANGED vars => UNCHANGED Memory!listing
    BY DEF vars, serverVars, server, client, shown, Memory!listing, Memory!vault, Seqs, Live,
           Opened
  <2> QED
    BY <2>1, MemoryStep
<1>3. SyncSpec => []SyncInv
  BY SyncInvariant
<1> QED
  BY <1>1, <1>2, <1>3, PTL DEF SyncSpec, MemoryListing, Memory!Spec
==============================================================================
