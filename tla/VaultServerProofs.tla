-------------------------- MODULE VaultServerProofs --------------------------
(***************************************************************************)
(* What VaultServer promises for any tree, any number of requests at once  *)
(* and any number of lost answers and dead handlers: the shapes of its     *)
(* tables, and that the revision is enough to keep edits, keys and content *)
(* together.                                                               *)
(***************************************************************************)
EXTENDS VaultServer, FiniteSetTheorems, FunctionTheorems, TLAPS

(***************************************************************************)
(* The inductive invariant.                                                *)
(***************************************************************************)
Stages == {"idle", "sent", "checked", "walk", "batch", "choose", "claim", "stored"} \cup Codes

\* The cron deletes and cleans; an update is about the one row it read.
Fits(p, c) ==
  /\ p = Cron => c.op \in {"none", "clean", "delete"}
  /\ c.op \in Updates => DOMAIN c.saw = {c.id}
  /\ c.op = "create" => c.id \in Items

\* What a call has read of a row is of the row's only life, and still holds for as long
\* as the revision does.
Aged(c, table) ==
  \A i \in DOMAIN c.saw :
    /\ table[i].state # "absent"
    /\ table[i].state = "live" =>
         /\ c.saw[i].revision <= table[i].revision
         /\ c.saw[i].revision = table[i].revision =>
              c.saw[i].edits = table[i].edits /\ c.saw[i].opens = table[i].opens

\* While an id is being created, it is neither forgotten nor about to be.
Once(c, table, due) ==
  c.op = "create" =>
    table[c.id].state # "forgotten" /\ (table[c.id].state = "gone" => c.id \notin due)

CallInv(p, c, table, due) == Call(c) /\ Fits(p, c) /\ Aged(c, table) /\ Once(c, table, due)

Counters ==
  /\ vaultSeq \in Nat /\ vaultFloor \in 0..vaultSeq /\ groupEpoch \in 1..MaxEpoch
  /\ expired \subseteq Items /\ faults \in 0..MaxFaults

Table ==
  /\ rows \in [Items -> Row]
  /\ \A i \in Items : rows[i].seq <= vaultSeq
  /\ \A i \in Items : rows[i].state = "live" => rows[i].opens = rows[i].blob

VaultInv ==
  /\ Counters /\ Table /\ DOMAIN call = Actors
  /\ \A p \in Actors : CallInv(p, call[p], rows, expired)

(***************************************************************************)
(* The life of a row: what one step may do to it.                          *)
(***************************************************************************)
Untouched(i)  == rows'[i] = rows[i]
Born(i)   == rows[i].state = "absent" /\ rows'[i].state = "live"
Edited(i) == /\ rows[i].state = "live" /\ rows'[i].state = "live"
             /\ rows[i].revision < rows'[i].revision
             /\ rows[i].edits \subseteq rows'[i].edits
Resealed(i) == /\ rows[i].state = "live" /\ rows'[i].state = "live"
               /\ rows'[i].revision = rows[i].revision
               /\ rows'[i].edits = rows[i].edits /\ rows'[i].opens = rows[i].opens
Buried(i) == rows[i].state = "live" /\ rows'[i].state = "gone" /\ i \notin expired'
Forgotten(i) == /\ rows[i].state = "gone" /\ i \in expired
                /\ rows'[i].state = "forgotten" /\ rows'[i].seq = rows[i].seq

\* A row that changes gets a number of its own, above all those given out before.
Numbered(i) ==
  /\ rows'[i].seq \in vaultSeq + 1 .. vaultSeq'
  /\ \A j \in Items \ {i} : rows'[j].seq # rows'[i].seq

Lives(i) ==
  \/ Untouched(i)
  \/ (Born(i) \/ Edited(i) \/ Resealed(i) \/ Buried(i)) /\ Numbered(i)
  \/ Forgotten(i)

RowsLive == vaultSeq <= vaultSeq' /\ \A i \in Items : Lives(i)

(***************************************************************************)
(* Lemmas.                                                                 *)
(***************************************************************************)
\* The statements of a batch can be numbered (nextVaultSeq).
LEMMA NumberingFits ==
  ASSUME NEW S, IsFiniteSet(S)
  PROVE  /\ Cardinality(S) \in Nat
         /\ Numbering(S) \in [S -> 1..Cardinality(S)]
         /\ \A i, j \in S : i # j => Numbering(S)[i] # Numbering(S)[j]
<1>1. Cardinality(S) \in Nat /\ ExistsBijection(S, 1..Cardinality(S))
  BY FS_CardinalityType, Fun_ExistsBijSymmetric
<1>2. PICK f \in [S -> 1..Cardinality(S)] : \A i, j \in S : i # j => f[i] # f[j]
  BY <1>1 DEF ExistsBijection, Bijection, Injection, IsInjective
<1> QED
  BY <1>1, <1>2 DEF Numbering

\* One row is written, with the next number.
LEMMA RowWritten ==
  ASSUME Table, NEW i \in Items, NEW row \in Row, rows' = [rows EXCEPT ![i] = row],
         vaultSeq \in Nat, vaultSeq' = vaultSeq + 1, row.seq = vaultSeq + 1,
         row.state = "live" => row.opens = row.blob
  PROVE  rows'[i] = row /\ Numbered(i) /\ Table'
<1>1. rows \in [Items -> Row] /\ rows' \in [Items -> Row] /\ rows'[i] = row
  BY DEF Table
<1>2. \A j \in Items \ {i} : rows'[j] = rows[j]
  BY <1>1
<1>3. \A j \in Items : rows[j].seq <= vaultSeq /\ rows[j].seq \in Nat
  BY <1>1 DEF Table, Row
<1>4. Numbered(i)
  BY <1>1, <1>2, <1>3 DEF Numbered
<1>5. Table'
  <2>1. \A j \in Items : rows'[j].seq <= vaultSeq'
    BY <1>1, <1>2, <1>3
  <2>2. \A j \in Items : rows'[j].state = "live" => rows'[j].opens = rows'[j].blob
    BY <1>1, <1>2 DEF Table
  <2> QED
    BY <1>1, <2>1, <2>2 DEF Table
<1> QED
  BY <1>1, <1>4, <1>5

LEMMA NoRowType == VaultAssumption => NoRow \in Row
BY DEF NoRow, Row, States

LEMMA NoCallInv ==
  ASSUME VaultAssumption, NEW p, NEW table, NEW due
  PROVE  CallInv(p, NoCall, table, due)
BY NoRowType DEF CallInv, Call, Fits, Aged, Once, NoCall, Updates, Seals, Trashes, Moves

\* Calls of others outlive a step of the rows: an edit raises the revision they read, and
\* no row is forgotten while it is being created.
LEMMA CallsAge ==
  ASSUME Table, NEW p, NEW c, CallInv(p, c, rows, expired), RowsLive, expired' \subseteq expired,
         Table'
  PROVE  CallInv(p, c, rows', expired')
<1>1. ASSUME NEW i \in DOMAIN c.saw
      PROVE  /\ rows'[i].state # "absent"
             /\ rows'[i].state = "live" =>
                  /\ c.saw[i].revision <= rows'[i].revision
                  /\ c.saw[i].revision = rows'[i].revision =>
                       c.saw[i].edits = rows'[i].edits /\ c.saw[i].opens = rows'[i].opens
  <2>1. i \in Items /\ Lives(i) /\ c.saw[i].revision \in Nat
    BY DEF CallInv, Call, Row, RowsLive
  <2>2. rows[i].revision \in Nat /\ rows'[i].revision \in Nat
    BY <2>1 DEF Table, Row
  <2>3. /\ rows[i].state # "absent"
        /\ rows[i].state = "live" =>
             /\ c.saw[i].revision <= rows[i].revision
             /\ c.saw[i].revision = rows[i].revision =>
                  c.saw[i].edits = rows[i].edits /\ c.saw[i].opens = rows[i].opens
    BY DEF CallInv, Aged
  <2> QED
    BY <2>1, <2>2, <2>3 DEF Lives, Untouched, Born, Edited, Resealed, Buried, Forgotten
<1>2. Aged(c, rows')
  BY <1>1 DEF Aged
<1>3. Once(c, rows', expired')
  <2> SUFFICES ASSUME c.op = "create"
               PROVE  rows'[c.id].state # "forgotten"
                      /\ (rows'[c.id].state = "gone" => c.id \notin expired')
    BY DEF Once
  <2>1. c.id \in Items /\ Lives(c.id)
    BY DEF CallInv, Fits, RowsLive
  <2>2. rows[c.id].state # "forgotten" /\ (rows[c.id].state = "gone" => c.id \notin expired)
    BY DEF CallInv, Once
  <2> QED
    BY <2>1, <2>2 DEF Lives, Untouched, Born, Edited, Resealed, Buried, Forgotten
<1> QED
  BY <1>2, <1>3 DEF CallInv

\* A step of one call that writes rows.
LEMMA Steps ==
  ASSUME VaultInv, NEW p \in Actors, NEW c, Becomes(p, c), CallInv(p, c, rows', expired'),
         RowsLive, expired' \subseteq expired, Table', Counters'
  PROVE  VaultInv'
<1>1. DOMAIN call' = Actors /\ call'[p] = c /\ \A q \in Actors \ {p} : call'[q] = call[q]
  BY DEF VaultInv, Becomes
<1>2. ASSUME NEW q \in Actors PROVE CallInv(q, call'[q], rows', expired')
  <2>1. CASE q = p
    BY <1>1, <2>1
  <2>2. CASE q # p
    BY <1>1, <2>2, CallsAge DEF VaultInv
  <2> QED
    BY <2>1, <2>2
<1> QED
  BY <1>1, <1>2 DEF VaultInv, CallInv, Call

\* A step of one call that leaves the tables alone.
LEMMA StepsOnly ==
  ASSUME VaultInv, NEW p \in Actors, NEW c, Becomes(p, c), CallInv(p, c, rows, expired),
         UNCHANGED server, faults' \in 0..MaxFaults
  PROVE  VaultInv' /\ RowsLive
<1>1. RowsLive
  BY DEF server, VaultInv, Counters, RowsLive, Lives, Untouched
<1>2. Table' /\ Counters'
  BY DEF server, VaultInv, Counters, Table
<1> QED
  BY <1>1, <1>2, Steps DEF server

LEMMA CallOf ==
  ASSUME VaultInv, NEW p \in Actors
  PROVE  CallInv(p, call[p], rows, expired) /\ Call(call[p])
BY DEF VaultInv, CallInv

\* Another stage, todo, purged or answer leaves a call fit.
LEMMA Restaged ==
  ASSUME NEW p, NEW c, NEW table, NEW due, CallInv(p, c, table, due),
         NEW stage \in Stages, NEW row \in Row, NEW todo \in SUBSET Items,
         NEW purged \in SUBSET Items
  PROVE  /\ CallInv(p, [c EXCEPT !.stage = stage], table, due)
         /\ CallInv(p, [c EXCEPT !.stage = stage, !.row = row], table, due)
         /\ CallInv(p, [c EXCEPT !.stage = stage, !.todo = todo], table, due)
         /\ CallInv(p, [c EXCEPT !.todo = todo, !.purged = purged, !.stage = stage], table, due)
BY DEF CallInv, Call, Fits, Aged, Once, NoCall, Stages

LEMMA GoesKeeps ==
  ASSUME VaultInv, NEW p \in Actors, NEW stage \in Stages, Goes(p, stage), UNCHANGED server,
         faults' \in 0..MaxFaults
  PROVE  VaultInv' /\ RowsLive
<1>1. CallInv(p, [call[p] EXCEPT !.stage = stage], rows, expired)
  BY CallOf DEF CallInv, Call, Fits, Aged, Once, NoCall, Stages
<1> QED
  BY <1>1, StepsOnly DEF Goes

LEMMA AnswersKeeps ==
  ASSUME VaultInv, NEW p \in Actors, NEW row \in Row, Answers(p, row), UNCHANGED <<server, faults>>
  PROVE  VaultInv' /\ RowsLive
<1>1. "ok" \in Stages
  BY DEF Stages, Codes
<1>2. CallInv(p, [call[p] EXCEPT !.stage = "ok", !.row = row], rows, expired)
  BY <1>1, CallOf, Restaged
<1>3. faults' \in 0..MaxFaults
  BY DEF VaultInv, Counters
<1> QED
  BY <1>2, <1>3, StepsOnly DEF Answers

LEMMA FaultsStay == ASSUME VaultInv, UNCHANGED faults PROVE faults' \in 0..MaxFaults
BY DEF VaultInv, Counters

(***************************************************************************)
(* createVaultItem.                                                        *)
(***************************************************************************)
LEMMA CreateCheckKeeps ==
  ASSUME VaultInv, NEW p \in Actors, CreateCheck(p) PROVE VaultInv' /\ RowsLive
<1> USE DEF Stages, Codes
<1>1. UNCHANGED server /\ faults' \in 0..MaxFaults /\ UNCHANGED faults
  BY FaultsStay DEF CreateCheck
<1>2. CASE \E stage \in Stages : Goes(p, stage)
  BY <1>1, <1>2, GoesKeeps
<1>3. CASE call[p].id \in Live /\ Answers(p, rows[call[p].id])
  <2>1. rows[call[p].id] \in Row
    BY <1>3 DEF VaultInv, Table, Live
  <2> QED
    BY <1>1, <1>3, <2>1, AnswersKeeps
<1> QED
  BY <1>2, <1>3 DEF CreateCheck

\* The insert is of a row that never was: the id is not kept, and not forgotten.
LEMMA CreateWriteKeeps ==
  ASSUME VaultAssumption, VaultInv, NEW p \in Actors, CreateWrite(p) PROVE VaultInv' /\ RowsLive
<1> DEFINE c   == call[p]
           row == NewRow(c, vaultSeq + 1)
<1>1. /\ CallInv(p, c, rows, expired) /\ c.op = "create" /\ c.id \in Items /\ c.to \in Items \cup {Nil}
      /\ c.epoch \in Nat /\ Call(c)
  BY CallOf DEF CreateWrite, At, CallInv, Fits, Call, VaultAssumption
<1>2. vaultSeq \in Nat /\ vaultSeq' = vaultSeq + 1
  BY DEF CreateWrite, NextVaultSeq, VaultInv, Counters
<1>3. row \in Row /\ row.state = "live" /\ row.seq = vaultSeq + 1 /\ row.opens = row.blob
  BY <1>1, <1>2 DEF NewRow, Row, States
<1>4. Counters'
  BY <1>2 DEF CreateWrite, VaultInv, Counters
<1>5. "ok" \in Stages /\ "conflict" \in Stages
  BY DEF Stages, Codes
<1>6. CASE CreateLands(c)
  <2>1. rows' = [rows EXCEPT ![c.id] = row] /\ Answers(p, row) /\ UNCHANGED expired
    BY <1>6 DEF CreateWrite
  <2>2. rows[c.id].state = "absent"
    <3>1. c.id \notin Kept /\ rows[c.id].state # "forgotten"
      BY <1>1, <1>6 DEF CreateLands, CallInv, Once
    <3> QED
      BY <1>1, <3>1 DEF Kept, VaultInv, Table, Row, States
  <2>3. rows'[c.id] = row /\ Numbered(c.id) /\ Table'
    <3>1. Table
      BY DEF VaultInv
    <3> HIDE DEF row, c
    <3> QED
      BY <1>1, <1>2, <1>3, <2>1, <3>1, RowWritten
  <2>4. Born(c.id) /\ Numbered(c.id)
    BY <1>3, <2>2, <2>3 DEF Born
  <2>5. RowsLive
    BY <1>2, <2>1, <2>4 DEF RowsLive, Lives, Untouched, VaultInv, Table
  <2>6. CallInv(p, [c EXCEPT !.stage = "ok", !.row = row], rows', expired')
    <3>1. Table /\ expired' \subseteq expired
      BY <2>1 DEF VaultInv
    <3> HIDE DEF row, c
    <3>2. CallInv(p, c, rows', expired')
      BY <1>1, <2>3, <2>5, <3>1, CallsAge
    <3>3. {} \in SUBSET Items
      OBVIOUS
    <3> QED
      BY <1>3, <1>5, <3>2, <3>3, Restaged, ZenonT(90)
  <2> QED
    BY <1>4, <2>1, <2>3, <2>5, <2>6, Steps DEF Answers
<1>7. CASE ~CreateLands(c)
  <2>1. UNCHANGED <<rows, expired>> /\ Goes(p, "conflict")
    BY <1>7 DEF CreateWrite
  <2>2. Table' /\ RowsLive
    BY <1>2, <2>1 DEF VaultInv, Table, Row, RowsLive, Lives, Untouched
  <2>3. CallInv(p, [c EXCEPT !.stage = "conflict"], rows', expired')
    BY <1>1, <1>5, <2>1 DEF CallInv, Call, Fits, Aged, Once, NoCall, Stages
  <2> QED
    BY <1>4, <2>1, <2>2, <2>3, Steps DEF Goes
<1> QED
  BY <1>6, <1>7

(***************************************************************************)
(* updateVaultItem.                                                        *)
(***************************************************************************)
LEMMA UpdateCheckKeeps ==
  ASSUME VaultInv, NEW p \in Actors, NEW op \in Updates, UpdateCheck(p, op)
  PROVE  VaultInv' /\ RowsLive
<1>1. UNCHANGED server /\ faults' \in 0..MaxFaults
  BY FaultsStay DEF UpdateCheck
<1>2. \E stage \in Stages : Goes(p, stage)
  BY DEF UpdateCheck, Stages, Codes
<1> QED
  BY <1>1, <1>2, GoesKeeps

\* An update that lands has the metadata of the row it replaces, and adds to it.
LEMMA UpdateWriteKeeps ==
  ASSUME VaultAssumption, VaultInv, NEW p \in Actors, NEW op \in Updates, UpdateWrite(p, op)
  PROVE  VaultInv' /\ RowsLive
<1> DEFINE c   == call[p]
           row == Changed(p, op, rows[c.id], c, vaultSeq + 1)
           saw == c.saw[c.id]
<1>1. /\ CallInv(p, c, rows, expired) /\ Call(c) /\ c.op = op
      /\ DOMAIN c.saw = {c.id} /\ c.id \in Items /\ saw \in Row
      /\ c.to \in Items \cup {Nil} /\ c.epoch \in Nat
  BY CallOf DEF UpdateWrite, At, CallInv, Fits, Call, VaultAssumption
<1>2. p \in Writers
  BY <1>1 DEF CallInv, Fits, Actors, Updates, Seals, Trashes, Moves
<1>3. vaultSeq \in Nat /\ vaultSeq' = vaultSeq + 1
  BY DEF UpdateWrite, NextVaultSeq, VaultInv, Counters
<1>4. rows[c.id] \in Row
  BY <1>1 DEF VaultInv, Table
<1>5. /\ row \in Row /\ row.seq = vaultSeq + 1 /\ row.revision = rows[c.id].revision + 1
      /\ row.state = rows[c.id].state
  <2> DEFINE r       == rows[c.id]
             parent  == IF op \in Moves THEN c.to ELSE r.parent
             epoch   == IF op \in Seals THEN c.epoch ELSE r.epoch
             edits   == IF op \in Seals THEN c.saw[c.id].edits \cup {p} ELSE r.edits
             opens   == IF op = "edit" THEN p
                        ELSE IF op = "rename" THEN c.saw[c.id].opens ELSE r.opens
             blob    == IF op = "edit" THEN p ELSE r.blob
             trashed == IF op \in Trashes THEN op = "trash" ELSE r.trashed
  <2>1. /\ parent \in Items \cup {Nil} /\ epoch \in Nat /\ edits \in SUBSET Writers
        /\ opens \in Writers \cup {Nil} /\ blob \in Writers \cup {Nil}
    BY <1>1, <1>2, <1>4 DEF Row
  <2>2. trashed \in BOOLEAN
    BY <1>4 DEF Row
  <2>3. r.revision + 1 \in Nat /\ vaultSeq + 1 \in Nat
    BY <1>3, <1>4 DEF Row
  <2>4. row = [state |-> r.state, parent |-> parent, revision |-> r.revision + 1,
               seq |-> vaultSeq + 1, epoch |-> epoch, edits |-> edits, opens |-> opens,
               blob |-> blob, trashed |-> trashed]
    BY DEF Changed
  <2> HIDE DEF parent, epoch, edits, opens, blob, trashed
  <2> QED
    BY <1>4, <2>1, <2>2, <2>3, <2>4 DEF Row
<1>6. /\ row.edits = IF op \in Seals THEN saw.edits \cup {p} ELSE rows[c.id].edits
      /\ row.opens = IF op = "edit" THEN p ELSE IF op = "rename" THEN saw.opens
                     ELSE rows[c.id].opens
      /\ row.blob = IF op = "edit" THEN p ELSE rows[c.id].blob
  BY <1>1, <1>4 DEF Changed, Row
<1>7. Counters'
  BY <1>3 DEF UpdateWrite, VaultInv, Counters
<1>8. "ok" \in Stages /\ "conflict" \in Stages
  BY DEF Stages, Codes
<1>9. CASE UpdateLands(op, c)
  <2>1. /\ rows' = [rows EXCEPT ![c.id] = row] /\ Answers(p, row)
        /\ expired' \subseteq expired
    BY <1>9 DEF UpdateWrite
  <2>2. /\ rows[c.id].state = "live" /\ saw.revision = rows[c.id].revision
        /\ saw.edits = rows[c.id].edits /\ saw.opens = rows[c.id].opens
        /\ rows[c.id].opens = rows[c.id].blob
    BY <1>1, <1>9 DEF UpdateLands, Live, CallInv, Aged, VaultInv, Table
  <2>3. row.opens = row.blob /\ rows[c.id].edits \subseteq row.edits
    <3> HIDE DEF row, saw
    <3> QED
      BY <1>6, <2>2 DEF Seals
  <2>4. rows'[c.id] = row /\ Numbered(c.id) /\ Table'
    <3>1. Table /\ c.id \in Items
      BY <1>1 DEF VaultInv
    <3> HIDE DEF row, c
    <3> QED
      BY <1>3, <1>5, <2>1, <2>3, <3>1, RowWritten
  <2>5. Edited(c.id)
    <3>1. rows[c.id].revision \in Nat
      BY <1>4 DEF Row
    <3> HIDE DEF row, saw, c
    <3> QED
      BY <1>5, <2>2, <2>3, <2>4, <3>1 DEF Edited
  <2>6. RowsLive
    BY <1>3, <2>1, <2>4, <2>5 DEF RowsLive, Lives, Untouched, VaultInv, Table
  <2>7. CallInv(p, [c EXCEPT !.stage = "ok", !.row = row], rows', expired')
    <3>1. Table /\ expired' \subseteq expired
      BY <2>1 DEF VaultInv
    <3> HIDE DEF row, c
    <3>2. CallInv(p, c, rows', expired')
      BY <1>1, <2>4, <2>6, <3>1, CallsAge
    <3>3. {} \in SUBSET Items
      OBVIOUS
    <3> QED
      BY <1>5, <1>8, <3>2, <3>3, Restaged, ZenonT(90)
  <2>8. Counters'
    BY <1>7
  <2> QED
    BY <2>1, <2>4, <2>6, <2>7, <2>8, Steps DEF Answers
<1>10. CASE ~UpdateLands(op, c)
  <2>1. UNCHANGED <<rows, expired>> /\ Goes(p, "conflict")
    BY <1>10 DEF UpdateWrite
  <2>2. Table' /\ RowsLive
    BY <1>3, <2>1 DEF VaultInv, Table, Row, RowsLive, Lives, Untouched
  <2>3. CallInv(p, [c EXCEPT !.stage = "conflict"], rows', expired')
    BY <1>1, <1>8, <2>1 DEF CallInv, Call, Fits, Aged, Once, NoCall, Stages
  <2> QED
    BY <1>7, <2>1, <2>2, <2>3, Steps DEF Goes
<1> QED
  BY <1>9, <1>10

(***************************************************************************)
(* resealVaultItems.                                                       *)
(***************************************************************************)
LEMMA ResealCheckKeeps ==
  ASSUME VaultInv, NEW p \in Actors, ResealCheck(p) PROVE VaultInv' /\ RowsLive
<1>1. UNCHANGED server /\ faults' \in 0..MaxFaults
  BY FaultsStay DEF ResealCheck
<1>2. \E stage \in Stages : Goes(p, stage)
  BY DEF ResealCheck, Stages, Codes
<1> QED
  BY <1>1, <1>2, GoesKeeps

\* Rows are sealed anew as they are, since the revision is the one that was read.
LEMMA ResealBatchKeeps ==
  ASSUME VaultAssumption, VaultInv, NEW p \in Actors, ResealBatch(p)
  PROVE  VaultInv' /\ RowsLive
<1> DEFINE c == call[p]
           S == DOMAIN c.saw
           anew(i) == [rows[i] EXCEPT !.epoch = c.epoch, !.seq = vaultSeq + Numbering(S)[i],
                                      !.edits = c.saw[i].edits, !.opens = c.saw[i].opens]
<1>1. /\ CallInv(p, c, rows, expired) /\ Call(c) /\ S \subseteq Items /\ c.epoch \in Nat
      /\ \A i \in S : c.saw[i] \in Row
  BY CallOf DEF Call
<1>2. IsFiniteSet(S)
  BY <1>1, FS_Subset DEF VaultAssumption
<1>3. /\ Cardinality(S) \in Nat /\ Numbering(S) \in [S -> 1..Cardinality(S)]
      /\ \A i, j \in S : i # j => Numbering(S)[i] # Numbering(S)[j]
  BY <1>2, NumberingFits
<1>4. vaultSeq \in Nat /\ vaultSeq' = vaultSeq + Cardinality(S)
  BY DEF ResealBatch, NextVaultSeq, VaultInv, Counters
<1>5. Counters' /\ UNCHANGED expired
  <2>1. UNCHANGED <<vaultFloor, groupEpoch, expired, faults>>
    BY DEF ResealBatch
  <2> QED
    BY <1>3, <1>4, <2>1 DEF VaultInv, Counters
<1>6. ASSUME NEW i \in S, Resealable(c, i)
      PROVE  /\ anew(i) \in Row /\ anew(i).seq = vaultSeq + Numbering(S)[i]
             /\ anew(i).state = rows[i].state /\ anew(i).revision = rows[i].revision
             /\ anew(i).edits = rows[i].edits /\ anew(i).opens = rows[i].opens
             /\ anew(i).blob = rows[i].blob /\ rows[i].state = "live"
  <2>1. /\ c.saw[i].edits = rows[i].edits /\ c.saw[i].opens = rows[i].opens
        /\ rows[i].state = "live"
    BY <1>1, <1>6 DEF Resealable, Live, CallInv, Aged
  <2>2. rows[i] \in Row /\ vaultSeq + Numbering(S)[i] \in Nat
    BY <1>1, <1>3, <1>4 DEF VaultInv, Table
  <2> QED
    BY <1>1, <2>1, <2>2 DEF Row
<1>7. rows' = [i \in Items |-> IF i \in S /\ Resealable(c, i) THEN anew(i) ELSE rows[i]]
  BY DEF ResealBatch
<1> HIDE DEF anew
<1>8. \A i \in S : vaultSeq + Numbering(S)[i] \in vaultSeq + 1 .. vaultSeq'
  BY <1>3, <1>4
<1>9. Table'
  BY <1>1, <1>3, <1>4, <1>6, <1>7, <1>8 DEF VaultInv, Table, Row
<1>10. ASSUME NEW i \in S, Resealable(c, i) PROVE Resealed(i) /\ Numbered(i)
  <2>1. i \in Items /\ rows'[i] = anew(i)
    BY <1>1, <1>7, <1>10
  <2>2. Resealed(i)
    BY <1>6, <1>10, <2>1 DEF Resealed
  <2>3. ASSUME NEW j \in Items \ {i} PROVE rows'[j].seq # rows'[i].seq
    <3>1. CASE j \in S /\ Resealable(c, j)
      BY <1>3, <1>4, <1>6, <1>7, <1>10, <2>1, <3>1
    <3>2. CASE ~(j \in S /\ Resealable(c, j))
      <4>1. rows'[j] = rows[j] /\ rows[j].seq <= vaultSeq /\ rows[j].seq \in Nat
        BY <1>7, <3>2 DEF VaultInv, Table, Row
      <4> QED
        BY <1>4, <1>6, <1>8, <1>10, <2>1, <4>1
    <3> QED
      BY <3>1, <3>2
  <2> QED
    BY <1>6, <1>8, <1>10, <2>1, <2>2, <2>3 DEF Numbered
<1>11. RowsLive
  BY <1>3, <1>4, <1>7, <1>10 DEF RowsLive, Lives, Untouched
<1>12. "ok" \in Stages /\ Goes(p, "ok")
  BY DEF Stages, Codes, ResealBatch
<1>13. CallInv(p, c, rows', expired')
  BY <1>1, <1>5, <1>9, <1>11, CallsAge DEF VaultInv
<1>14. CallInv(p, [c EXCEPT !.stage = "ok"], rows', expired')
  BY <1>12, <1>13 DEF CallInv, Call, Fits, Aged, Once, NoCall, Stages
<1> QED
  BY <1>5, <1>9, <1>11, <1>12, <1>14, Steps DEF Goes

(***************************************************************************)
(* deleteVaultItem and purgeVaultItem.                                     *)
(***************************************************************************)
LEMMA TombstoneType ==
  ASSUME NEW row \in Row, NEW n \in Nat
  PROVE  /\ Tombstone(row, n) \in Row /\ Tombstone(row, n).state = "gone"
         /\ Tombstone(row, n).seq = n
BY DEF Tombstone, Row, States

LEMMA DeleteCheckKeeps ==
  ASSUME VaultInv, NEW p \in Actors, DeleteCheck(p) PROVE VaultInv' /\ RowsLive
<1>1. UNCHANGED server /\ faults' \in 0..MaxFaults
  BY FaultsStay DEF DeleteCheck
<1>2. \E stage \in Stages : Goes(p, stage)
  BY DEF DeleteCheck, Stages, Codes
<1> QED
  BY <1>1, <1>2, GoesKeeps

LEMMA PurgeWalkKeeps ==
  ASSUME VaultInv, NEW p \in Actors, PurgeWalk(p) PROVE VaultInv' /\ RowsLive
<1> DEFINE alive == Subtree(call[p].id) \cap Live
<1>1. UNCHANGED server /\ faults' \in 0..MaxFaults
  BY FaultsStay DEF PurgeWalk
<1>2. "ok" \in Stages /\ "batch" \in Stages /\ alive \subseteq Items
  BY DEF Stages, Codes, Live
<1>3. CASE Goes(p, "ok")
  BY <1>1, <1>2, <1>3, GoesKeeps
<1>4. CASE Becomes(p, [call[p] EXCEPT !.stage = "batch", !.todo = alive])
  <2>1. CallInv(p, call[p], rows, expired)
    BY CallOf
  <2>2. CallInv(p, [call[p] EXCEPT !.stage = "batch", !.todo = alive], rows, expired)
    BY <1>2, <2>1 DEF CallInv, Call, Fits, Aged, Once, NoCall, Stages
  <2> QED
    BY <1>1, <1>4, <2>2, StepsOnly
<1> QED
  BY <1>3, <1>4 DEF PurgeWalk

LEMMA PurgeWriteKeeps ==
  ASSUME VaultAssumption, VaultInv, NEW p \in Actors, PurgeWrite(p)
  PROVE  VaultInv' /\ RowsLive
<1> DEFINE c == call[p]
<1>1. /\ CallInv(p, c, rows, expired) /\ Call(c)
      /\ c.todo \subseteq Items /\ c.purged \subseteq Items
  BY CallOf DEF Call
<1>2. PICK S \in SUBSET c.todo :
        /\ NextVaultSeq(Cardinality(S))
        /\ rows' = [i \in Items |-> IF i \in Done(c, S)
                      THEN Tombstone(rows[i], vaultSeq + Numbering(S)[i]) ELSE rows[i]]
        /\ expired' = expired \ Done(c, S)
        /\ Becomes(p, [c EXCEPT !.todo = c.todo \ S, !.purged = c.purged \cup Done(c, S),
                                !.stage = IF S = c.todo THEN "walk" ELSE "batch"])
  BY DEF PurgeWrite
<1> DEFINE done == Done(c, S)
<1>3. /\ done \subseteq S /\ S \subseteq Items
      /\ \A i \in done : rows[i].state = "live"
  BY <1>1 DEF Done, Live
<1>4. IsFiniteSet(S)
  BY <1>3, FS_Subset DEF VaultAssumption
<1>5. /\ Cardinality(S) \in Nat /\ Numbering(S) \in [S -> 1..Cardinality(S)]
      /\ \A i, j \in S : i # j => Numbering(S)[i] # Numbering(S)[j]
  BY <1>4, NumberingFits
<1>6. vaultSeq \in Nat /\ vaultSeq' = vaultSeq + Cardinality(S)
  BY <1>2 DEF NextVaultSeq, VaultInv, Counters
<1>7. Counters' /\ expired' \subseteq expired
  BY <1>2, <1>5, <1>6 DEF PurgeWrite, VaultInv, Counters
<1> HIDE DEF done
<1>8. ASSUME NEW i \in done
      PROVE  /\ i \in Items /\ rows'[i] = Tombstone(rows[i], vaultSeq + Numbering(S)[i])
             /\ rows'[i] \in Row /\ rows'[i].state = "gone"
             /\ rows'[i].seq = vaultSeq + Numbering(S)[i]
             /\ rows'[i].seq \in vaultSeq + 1 .. vaultSeq'
  <2>1. /\ i \in Items /\ rows[i] \in Row
        /\ rows'[i] = Tombstone(rows[i], vaultSeq + Numbering(S)[i])
    BY <1>2, <1>3 DEF done, VaultInv, Table
  <2>2. /\ vaultSeq + Numbering(S)[i] \in Nat
        /\ vaultSeq + Numbering(S)[i] \in vaultSeq + 1 .. vaultSeq'
    BY <1>3, <1>5, <1>6
  <2> DEFINE n == vaultSeq + Numbering(S)[i]
  <2>3. Tombstone(rows[i], n) \in Row /\ Tombstone(rows[i], n).state = "gone" /\ Tombstone(rows[i], n).seq = n
    BY <2>1, <2>2, TombstoneType, ZenonT(90)
  <2> QED
    BY <2>1, <2>2, <2>3, ZenonT(90)
<1>9. \A i \in Items \ done : rows'[i] = rows[i]
  BY <1>2 DEF done
<1>10. DOMAIN rows' = Items /\ rows' = [i \in Items |-> rows'[i]]
  BY <1>2
<1>11. Table'
  BY <1>5, <1>6, <1>8, <1>9, <1>10 DEF VaultInv, Table, Row
<1>12. ASSUME NEW i \in done PROVE Buried(i) /\ Numbered(i)
  <2>1. Buried(i)
    BY <1>2, <1>3, <1>8 DEF Buried, done
  <2>2. ASSUME NEW j \in Items \ {i} PROVE rows'[j].seq # rows'[i].seq
    <3>1. CASE j \in done
      BY <1>3, <1>5, <1>6, <1>8, <3>1
    <3>2. CASE j \notin done
      <4>1. rows'[j] = rows[j] /\ rows[j].seq <= vaultSeq /\ rows[j].seq \in Nat
        BY <1>9, <3>2 DEF VaultInv, Table, Row
      <4> QED
        BY <1>6, <1>8, <4>1
    <3> QED
      BY <3>1, <3>2
  <2> QED
    BY <1>8, <2>1, <2>2 DEF Numbered
<1>13. RowsLive
  BY <1>5, <1>6, <1>9, <1>12 DEF RowsLive, Lives, Untouched
<1>14. CallInv(p, c, rows', expired')
  BY <1>1, <1>7, <1>11, <1>13, CallsAge DEF VaultInv
<1> DEFINE stage == IF S = c.todo THEN "walk" ELSE "batch"
<1>15. /\ stage \in Stages /\ c.todo \ S \in SUBSET Items /\ c.purged \cup done \in SUBSET Items
       /\ Becomes(p, [c EXCEPT !.todo = c.todo \ S, !.purged = c.purged \cup done, !.stage = stage])
  BY <1>1, <1>2, <1>3 DEF Stages, done
<1> HIDE DEF stage
<1>16. CallInv(p, [c EXCEPT !.todo = c.todo \ S, !.purged = c.purged \cup done, !.stage = stage],
               rows', expired')
  BY <1>14, <1>15 DEF CallInv, Call, Fits, Aged, Once, NoCall, Stages
<1> QED
  BY <1>7, <1>11, <1>13, <1>15, <1>16, Steps

(***************************************************************************)
(* cleanUpVault.                                                           *)
(***************************************************************************)
\* A request in progress, one that creates among them, is not about a row to be forgotten.
LEMMA CronStartsKeeps ==
  ASSUME VaultAssumption, VaultInv, NEW S \in SUBSET Items, CronStarts(S)
  PROVE  VaultInv' /\ RowsLive
<1> DEFINE c == [NoCall EXCEPT !.op = "clean", !.stage = "choose"]
<1>1. RowsLive /\ Table' /\ Counters'
  BY DEF CronStarts, VaultInv, Counters, Table, RowsLive, Lives, Untouched
<1>2. CallInv(Cron, c, rows', expired')
  BY NoRowType DEF CallInv, Call, Fits, Aged, Once, NoCall, Updates, Seals, Trashes, Moves
<1>3. /\ DOMAIN call' = Actors /\ call'[Cron] = c
      /\ \A q \in Actors \ {Cron} : call'[q] = call[q] /\ q \in Writers
  BY DEF CronStarts, Becomes, VaultInv, Actors
<1>4. ASSUME NEW q \in Writers PROVE CallInv(q, call[q], rows', expired')
  <2>1. CallInv(q, call[q], rows, expired)
    BY DEF VaultInv, Actors
  <2>2. S \cap InUse(q) \subseteq Live /\ expired' = S /\ rows' = rows
    BY DEF CronStarts
  <2>3. call[q].id \in S => rows[call[q].id].state = "live"
    BY <2>2 DEF InUse, Live
  <2> QED
    BY <2>1, <2>2, <2>3 DEF CallInv, Once
<1> QED
  BY <1>1, <1>2, <1>3, <1>4 DEF VaultInv

LEMMA CronChoosesKeeps ==
  ASSUME VaultAssumption, VaultInv, NEW i \in Items, CronChooses(i) PROVE VaultInv' /\ RowsLive
<1> DEFINE c == [call[Cron] EXCEPT !.stage = "claim", !.id = i, !.saw = [j \in {i} |-> rows[i]]]
<1>1. Cron \in Actors /\ UNCHANGED server /\ faults' \in 0..MaxFaults /\ Becomes(Cron, c)
  BY FaultsStay DEF CronChooses, Actors
<1>2. CallInv(Cron, call[Cron], rows, expired) /\ call[Cron].op = "clean"
  BY <1>1, CallOf DEF CronChooses, At
<1>3. rows[i].state = "live" /\ rows[i] \in Row
  BY DEF CronChooses, Overdue, VaultInv, Table
<1>4. /\ DOMAIN c = DOMAIN NoCall /\ c.op = "clean" /\ c.stage = "claim" /\ c.id = i
      /\ c.saw = [j \in {i} |-> rows[i]] /\ c.to = call[Cron].to /\ c.epoch = call[Cron].epoch
      /\ c.row = call[Cron].row /\ c.todo = call[Cron].todo /\ c.purged = call[Cron].purged
  BY <1>2 DEF CallInv, Call, NoCall
<1> HIDE DEF c
<1>5. Call(c)
  BY <1>2, <1>3, <1>4 DEF CallInv, Call
<1>6. Aged(c, rows)
  BY <1>3, <1>4 DEF Aged, Row
<1>7. Fits(Cron, c) /\ Once(c, rows, expired)
  BY <1>4 DEF Fits, Once, Updates, Seals, Trashes, Moves
<1> QED
  BY <1>1, <1>5, <1>6, <1>7, StepsOnly DEF CallInv

LEMMA CronClaimsKeeps == ASSUME VaultAssumption, VaultInv, CronClaims PROVE VaultInv' /\ RowsLive
<1> DEFINE c     == call[Cron]
           purge == [NoCall EXCEPT !.op = "delete", !.stage = "walk", !.id = c.id]
           next  == [NoCall EXCEPT !.op = "clean", !.stage = "choose"]
<1>1. Cron \in Actors
  BY DEF Actors
<1>2. vaultSeq \in Nat /\ vaultSeq' = vaultSeq + 1
  BY DEF CronClaims, NextVaultSeq, VaultInv, Counters
<1>3. CASE ClaimableStill(c)
  <2>1. /\ c.id \in Items /\ rows[c.id].state = "live" /\ rows[c.id] \in Row
        /\ rows' = [rows EXCEPT ![c.id] = Tombstone(rows[c.id], vaultSeq + 1)]
        /\ expired' = expired \ {c.id} /\ Becomes(Cron, purge)
    BY <1>3 DEF CronClaims, ClaimableStill, Overdue, VaultInv, Table, Counters
  <2>2. /\ rows'[c.id] \in Row /\ rows'[c.id].state = "gone" /\ rows'[c.id].seq = vaultSeq + 1
        /\ \A j \in Items \ {c.id} : rows'[j] = rows[j]
        /\ rows' = [j \in Items |-> rows'[j]]
    <3> DEFINE r == rows[c.id]
               n == vaultSeq + 1
               t == Tombstone(r, n)
    <3>0. n \in Nat /\ r \in Row
      BY <1>2, <2>1
    <3> HIDE DEF r, n
    <3>1. t \in Row /\ t.state = "gone" /\ t.seq = n
      BY <3>0, TombstoneType
    <3> HIDE DEF t
    <3> USE DEF r, n
    <3>2. rows' = [rows EXCEPT ![c.id] = t]
      BY <2>1 DEF t
    <3>3. rows = [j \in Items |-> rows[j]] /\ c.id \in Items
      BY <2>1 DEF VaultInv, Table
    <3> HIDE DEF VaultInv, c
    <3> QED
      BY <3>1, <3>2, <3>3
  <2>3. Table'
    BY <1>2, <2>2 DEF VaultInv, Table, Row
  <2>4. Counters'
    BY <1>2, <2>1 DEF CronClaims, VaultInv, Counters
  <2>5. Buried(c.id) /\ Numbered(c.id)
    BY <1>2, <2>1, <2>2 DEF Buried, Numbered, VaultInv, Table, Row
  <2>6. RowsLive
    BY <1>2, <2>2, <2>5 DEF RowsLive, Lives, Untouched
  <2>7. CallInv(Cron, purge, rows', expired')
    BY <2>1, NoRowType DEF CallInv, Call, Fits, Aged, Once, NoCall, Updates, Seals, Trashes, Moves
  <2> QED
    BY <1>1, <2>1, <2>3, <2>4, <2>6, <2>7, Steps
<1>4. CASE ~ClaimableStill(c)
  <2>1. UNCHANGED <<rows, expired>> /\ Becomes(Cron, next)
    BY <1>4 DEF CronClaims
  <2>2. Table' /\ RowsLive
    BY <1>2, <2>1 DEF VaultInv, Table, Row, RowsLive, Lives, Untouched
  <2>3. Counters'
    BY <1>2, <2>1 DEF CronClaims, VaultInv, Counters
  <2>4. CallInv(Cron, next, rows', expired')
    BY NoRowType DEF CallInv, Call, Fits, Aged, Once, NoCall, Updates, Seals, Trashes, Moves
  <2> QED
    BY <1>1, <2>1, <2>2, <2>3, <2>4, Steps
<1> QED
  BY <1>3, <1>4

LEMMA CronGoesOnKeeps ==
  ASSUME VaultAssumption, VaultInv, CronGoesOn PROVE VaultInv' /\ RowsLive
<1>1. Cron \in Actors /\ UNCHANGED server /\ faults' \in 0..MaxFaults
  BY FaultsStay DEF CronGoesOn, Actors
<1>2. CallInv(Cron, [NoCall EXCEPT !.op = "clean", !.stage = "choose"], rows, expired)
  BY NoRowType DEF CallInv, Call, Fits, Aged, Once, NoCall, Updates, Seals, Trashes, Moves
<1> QED
  BY <1>1, <1>2, StepsOnly DEF CronGoesOn

\* Only tombstones past their time are forgotten, none of an id that is being created.
LEMMA CronForgetsKeeps ==
  ASSUME VaultAssumption, VaultInv, CronForgets PROVE VaultInv' /\ RowsLive
<1> DEFINE old  == {i \in expired : rows[i].state = "gone"}
           tops == {rows[i].seq : i \in old} \cup {vaultFloor}
           bare(i) == [NoRow EXCEPT !.state = "forgotten", !.seq = rows[i].seq]
<1>1. Cron \in Actors /\ old \subseteq Items
  BY DEF Actors, VaultInv, Counters
<1>2. /\ rows' = [i \in Items |-> IF i \in old THEN bare(i) ELSE rows[i]]
      /\ vaultFloor' \in tops /\ expired' = {} /\ Becomes(Cron, NoCall)
      /\ UNCHANGED <<vaultSeq, groupEpoch, faults>>
  BY DEF CronForgets
<1>3. vaultSeq \in Nat /\ tops \subseteq 0..vaultSeq
  BY <1>1 DEF VaultInv, Counters, Table, Row
<1>4. Counters'
  BY <1>2, <1>3 DEF VaultInv, Counters
<1>5. \A i \in old : bare(i) \in Row /\ bare(i).state = "forgotten" /\ bare(i).seq = rows[i].seq
  BY <1>1, NoRowType DEF VaultInv, Table, Row, States, NoRow
<1> HIDE DEF bare
<1>6. Table'
  BY <1>1, <1>2, <1>5 DEF VaultInv, Table
<1>7. RowsLive
  BY <1>1, <1>2, <1>3, <1>5 DEF RowsLive, Lives, Untouched, Forgotten
<1> QED
  BY <1>1, <1>2, <1>4, <1>6, <1>7, NoCallInv, Steps

(***************************************************************************)
(* Devices, and what is lost.                                              *)
(***************************************************************************)
\* A request starts from rows as they are, and creates what never was.
LEMMA SendKeeps ==
  ASSUME VaultAssumption, VaultInv, NEW w \in Writers, NEW op \in Requests,
         NEW id \in Items \cup {Nil}, NEW to \in Folders \cup {Nil}, NEW saw,
         Send(w, op, id, to, saw),
         DOMAIN saw \subseteq Items, saw \in [DOMAIN saw -> Row],
         \A i \in DOMAIN saw : rows[i].state # "absent" /\ saw[i] = rows[i],
         op \in Updates => DOMAIN saw = {id},
         op = "create" => id \in Items /\ rows[id].state = "absent"
  PROVE  VaultInv' /\ RowsLive
<1> DEFINE c == [NoCall EXCEPT !.op = op, !.stage = "sent", !.id = id, !.to = to,
                               !.epoch = groupEpoch, !.saw = saw]
<1>1. /\ w \in Actors /\ w # Cron /\ Becomes(w, c) /\ UNCHANGED server
      /\ faults' \in 0..MaxFaults
  BY FaultsStay DEF Send, Actors, VaultAssumption
<1>2. /\ DOMAIN c = DOMAIN NoCall /\ c.op = op /\ c.stage = "sent" /\ c.id = id /\ c.to = to
      /\ c.epoch = groupEpoch /\ c.saw = saw /\ c.row = NoRow /\ c.todo = {} /\ c.purged = {}
  BY DEF NoCall
<1> HIDE DEF c
<1>3. op \in {"none", "create", "reseal", "delete", "clean"} \cup Updates
  BY DEF VaultAssumption, Updates, Seals, Trashes, Moves
<1>4. groupEpoch \in Nat
  BY DEF VaultInv, Counters, VaultAssumption
<1>5. Call(c)
  BY <1>2, <1>3, <1>4, NoRowType DEF Call
<1>6. Aged(c, rows)
  BY <1>2 DEF Aged, Row
<1>7. Fits(w, c) /\ Once(c, rows, expired)
  BY <1>1, <1>2 DEF Fits, Once
<1> QED
  BY <1>1, <1>5, <1>6, <1>7, StepsOnly DEF CallInv

\* A call that is over, or whose handler died.
LEMMA EndsKeeps ==
  ASSUME VaultAssumption, VaultInv, NEW p \in Actors, Becomes(p, NoCall), UNCHANGED server,
         faults' \in 0..MaxFaults
  PROVE  VaultInv' /\ RowsLive
BY NoCallInv, StepsOnly

LEMMA FaultType == ASSUME VaultAssumption, VaultInv, faults < MaxFaults, faults' = faults + 1
                   PROVE  faults' \in 0..MaxFaults
BY DEF VaultAssumption, VaultInv, Counters

LEMMA DevicesKeep ==
  ASSUME VaultAssumption, VaultInv, NEW w \in Writers, Sends(w) \/ Receive(w) \/ AnswerLost(w)
  PROVE  VaultInv' /\ RowsLive
<1>0. w \in Actors /\ (\A i \in Live : i \in Items /\ rows[i] \in Row /\ rows[i].state = "live")
  BY DEF Actors, Live, VaultInv, Table
<1>1. ASSUME NEW id \in Items, NEW to \in Folders \cup {Nil}, Create(w, id, to)
      PROVE  VaultInv' /\ RowsLive
  <2>1. "create" \in Requests /\ rows[id].state = "absent"
    BY <1>1 DEF Create, Send
  <2>2. DOMAIN NoCall.saw = {}
    BY DEF NoCall
  <2>3. "create" \notin Updates
    BY DEF Updates, Seals, Trashes, Moves
  <2>4. NoCall.saw \in [DOMAIN NoCall.saw -> Row]
    BY DEF NoCall
  <2> QED
    BY <1>1, <2>1, <2>2, <2>3, <2>4, SendKeeps DEF Create
<1>2. ASSUME NEW id \in Items, NEW to \in Folders \cup {Nil}, NEW op \in Updates,
             Update(w, op, id, to)
      PROVE  VaultInv' /\ RowsLive
  <2> DEFINE saw == [i \in {id} |-> rows[id]]
  <2>1. id \in Live /\ Send(w, op, id, to, saw) /\ op \in Requests
    <3>1. id \in Live /\ Send(w, op, id, to, [i \in {id} |-> rows[i]])
      BY <1>2 DEF Update
    <3>2. saw = [i \in {id} |-> rows[i]]
      OBVIOUS
    <3> QED
      BY <3>1, <3>2 DEF Send
  <2>2. DOMAIN saw = {id} /\ saw \in [{id} -> Row] /\ saw[id] = rows[id]
    BY <1>0, <2>1
  <2>3. op # "create"
    BY DEF Updates, Seals, Trashes, Moves
  <2> HIDE DEF saw
  <2> QED
    BY <1>0, <2>1, <2>2, <2>3, SendKeeps
<1>3. ASSUME NEW id \in Items, Delete(w, id) PROVE VaultInv' /\ RowsLive
  <2>1. "delete" \in Requests /\ Nil \in Folders \cup {Nil}
    BY <1>3 DEF Delete, Send
  <2>2. DOMAIN NoCall.saw = {}
    BY DEF NoCall
  <2>3. "delete" \notin Updates /\ "delete" # "create"
    BY DEF Updates, Seals, Trashes, Moves
  <2>4. NoCall.saw \in [DOMAIN NoCall.saw -> Row]
    BY DEF NoCall
  <2> QED
    BY <1>3, <2>1, <2>2, <2>3, <2>4, SendKeeps DEF Delete
<1>4. CASE Reseal(w)
  <2> DEFINE stale == {i \in Live : rows[i].epoch < groupEpoch}
             saw   == [i \in stale |-> rows[i]]
  <2>1. "reseal" \in Requests /\ Send(w, "reseal", Nil, Nil, saw) /\ Nil \in Folders \cup {Nil}
    BY <1>4 DEF Reseal, Send
  <2>2. /\ DOMAIN saw = stale /\ stale \subseteq Items /\ saw \in [stale -> Row]
        /\ \A i \in stale : rows[i].state = "live" /\ saw[i] = rows[i]
    BY <1>0
  <2>3. "reseal" \notin Updates /\ "reseal" # "create"
    BY DEF Updates, Seals, Trashes, Moves
  <2> HIDE DEF saw, stale
  <2> QED
    BY <2>1, <2>2, <2>3, SendKeeps, ZenonT(90)
<1>5. CASE Receive(w)
  BY <1>0, <1>5, EndsKeeps, FaultsStay DEF Receive
<1>6. CASE AnswerLost(w)
  <2> DEFINE again == [call[w] EXCEPT !.stage = "sent", !.row = NoRow, !.purged = {}]
  <2>1. UNCHANGED server /\ faults' \in 0..MaxFaults
    BY <1>6, FaultType DEF AnswerLost
  <2>2. CASE Becomes(w, NoCall)
    BY <1>0, <2>1, <2>2, EndsKeeps
  <2>3. CASE Becomes(w, again)
    <3>1. CallInv(w, again, rows, expired)
      BY <1>0, NoRowType, CallOf DEF CallInv, Call, Fits, Aged, Once, NoCall
    <3> HIDE DEF again
    <3> QED
      BY <1>0, <2>1, <2>3, <3>1, StepsOnly
  <2> QED
    BY <1>6, <2>2, <2>3 DEF AnswerLost
<1> QED
  BY <1>1, <1>2, <1>3, <1>4, <1>5, <1>6 DEF Sends

LEMMA HandlersKeep ==
  ASSUME VaultAssumption, VaultInv, NEW p \in Actors, Handlers(p) PROVE VaultInv' /\ RowsLive
BY CreateCheckKeeps, CreateWriteKeeps, UpdateCheckKeeps, UpdateWriteKeeps, ResealCheckKeeps,
   ResealBatchKeeps, DeleteCheckKeeps, PurgeWalkKeeps, PurgeWriteKeeps DEF Handlers

LEMMA RotateKeeps == ASSUME VaultAssumption, VaultInv, Rotate PROVE VaultInv' /\ RowsLive
<1>1. RowsLive
  BY DEF Rotate, VaultInv, Counters, RowsLive, Lives, Untouched
<1>2. Counters' /\ Table'
  BY DEF Rotate, VaultInv, Counters, Table, VaultAssumption
<1>3. UNCHANGED <<call, rows, expired>>
  BY DEF Rotate
<1> QED
  BY <1>1, <1>2, <1>3 DEF VaultInv

(***************************************************************************)
(* The invariant, and what follows from it.                                *)
(***************************************************************************)
LEMMA NextKeeps ==
  ASSUME VaultAssumption, VaultInv, Next PROVE VaultInv' /\ RowsLive
<1>1. ASSUME NEW p \in Actors, Handlers(p) \/ Dies(p) PROVE VaultInv' /\ RowsLive
  <2>1. CASE Dies(p)
    BY <2>1, EndsKeeps, FaultType DEF Dies
  <2> QED
    BY <1>1, <2>1, HandlersKeep
<1>2. CASE CronRuns
  BY <1>2, CronChoosesKeeps, CronClaimsKeeps, CronGoesOnKeeps, CronForgetsKeeps DEF CronRuns
<1>3. ASSUME NEW S \in SUBSET Items, CronStarts(S) PROVE VaultInv' /\ RowsLive
  BY <1>3, CronStartsKeeps
<1>4. CASE Rotate
  BY <1>4, RotateKeeps
<1>5. ASSUME NEW w \in Writers, Sends(w) \/ Receive(w) \/ AnswerLost(w)
      PROVE  VaultInv' /\ RowsLive
  BY <1>5, DevicesKeep
<1> QED
  BY <1>1, <1>2, <1>3, <1>4, <1>5 DEF Next, ServerNext

LEMMA InitVaultInv == ASSUME VaultAssumption, Init PROVE VaultInv
<1> DEFINE D == DOMAIN Parents
           first(i) == [state |-> "live", parent |-> Parents[i], revision |-> 1,
                        seq |-> Numbering(D)[i], epoch |-> 1, edits |-> {},
                        opens |-> Nil, blob |-> Nil, trashed |-> i \in Trashed]
<1>1. IsFiniteSet(D) /\ D \subseteq Items
  BY FS_Subset DEF VaultAssumption
<1>2. Cardinality(D) \in Nat /\ Numbering(D) \in [D -> 1..Cardinality(D)]
  BY <1>1, NumberingFits
<1>3. /\ vaultSeq = Cardinality(D) /\ vaultFloor = 0 /\ groupEpoch = 1 /\ faults = 0
      /\ expired = {} /\ call = [p \in Actors |-> NoCall]
      /\ rows = [i \in Items |-> IF i \in D THEN first(i) ELSE NoRow]
  BY DEF Init
<1>4. Counters
  BY <1>2, <1>3 DEF Counters, VaultAssumption
<1>5. ASSUME NEW i \in D
      PROVE  first(i) \in Row /\ first(i).seq <= vaultSeq /\ first(i).opens = first(i).blob
  <2>1. /\ Parents[i] \in Items \cup {Nil} /\ Numbering(D)[i] \in Nat
        /\ Numbering(D)[i] <= vaultSeq /\ (i \in Trashed) \in BOOLEAN
    BY <1>2, <1>3 DEF VaultAssumption
  <2> QED
    BY <2>1 DEF Row, States
<1> HIDE DEF first
<1>6. NoRow \in Row /\ NoRow.seq = 0 /\ NoRow.state = "absent"
  BY NoRowType DEF NoRow
<1>7. Table
  BY <1>1, <1>2, <1>3, <1>5, <1>6 DEF Table
<1> QED
  BY <1>3, <1>4, <1>7, NoCallInv DEF VaultInv

LEMMA StutterKeeps == VaultInv /\ UNCHANGED serverVars => VaultInv'
BY DEF serverVars, server, VaultInv, Counters, Table, CallInv

LEMMA VaultInvariant == Spec => []VaultInv
<1>1. Init => VaultInv
  BY InitVaultInv, VaultAssumption
<1>2. VaultInv /\ [Next]_serverVars => VaultInv'
  BY NextKeeps, StutterKeeps, VaultAssumption
<1> QED
  BY <1>1, <1>2, PTL DEF Spec

\* Every table keeps its type, and a row is numbered up to the counter, whatever the
\* batches of several handlers do in between (vault_items, groups.vault_seq).
THEOREM VaultTypeCorrect == Spec => []TypeOK
<1>1. VaultInv => TypeOK
  BY DEF VaultInv, CallInv, Counters, Table, TypeOK
<1> QED
  BY <1>1, VaultInvariant, PTL

\* However edits, renames and re-seals of one item race or are retried, its metadata
\* carries the key to the content it has (routes/vault.ts:351).
THEOREM VaultMetaOpensContent == Spec => []MetaOpensContent
<1>1. VaultInv => MetaOpensContent
  BY DEF VaultInv, Table, MetaOpensContent, Live
<1> QED
  BY <1>1, VaultInvariant, PTL

\* No write takes out an edit it has not seen: the guard on the revision, in the
\* statement that writes, is enough (routes/vault.ts:284-288, 440-442).
THEOREM VaultNoEditLost == Spec => NoEditLost
<1> DEFINE A == \A i \in Live : rows'[i].state = "live" => rows[i].edits \subseteq rows'[i].edits
<1>1. VaultInv /\ [Next]_serverVars => [A]_serverVars
  <2> SUFFICES ASSUME VaultInv, Next PROVE A
    OBVIOUS
  <2>1. RowsLive
    BY NextKeeps, VaultAssumption
  <2> QED
    BY <2>1 DEF RowsLive, Lives, Untouched, Born, Edited, Resealed, Buried, Forgotten, Live
<1>2. [][A]_serverVars => NoEditLost
  BY DEF NoEditLost
<1> QED
  BY <1>1, <1>2, VaultInvariant, PTL DEF Spec, NoEditLost

\* The vault as VaultListing has it, with a reader that does not read.
Unread == INSTANCE VaultListing WITH
  head <- vaultSeq, changed <- [i \in Items |-> rows[i].seq],
  alive <- [i \in Items |-> i \in Live], copy <- [i \in Items |-> 0], at <- 0

\* Every step of the Worker is a batch of changes as VaultListing defines it: each row that
\* changes gets a number of its own above all earlier ones, so that no listing from a
\* cursor misses one (routes/vault.ts:163-167).
THEOREM VaultChangesAreListed == Spec => [][Unread!Change]_(Unread!vault)
<1>1. ASSUME VaultInv, Next PROVE Unread!Change \/ UNCHANGED Unread!vault
  <2>1. VaultInv' /\ RowsLive /\ vaultSeq \in Nat /\ vaultSeq' \in Nat
    BY <1>1, NextKeeps, VaultAssumption DEF VaultInv, Counters
  <2> DEFINE changed == [i \in Items |-> rows[i].seq]
             alive   == [i \in Items |-> i \in Live]
  <2>2. CASE vaultSeq' = vaultSeq
    <3>1. \A i \in Items : rows'[i].seq = rows[i].seq /\ (i \in Live' <=> i \in Live)
      BY <2>1, <2>2 DEF RowsLive, Lives, Untouched, Numbered, Forgotten, Live
    <3>2. changed' = changed /\ alive' = alive
      BY <3>1
    <3> QED
      BY <2>2, <3>2 DEF Unread!vault
  <2>3. CASE vaultSeq' # vaultSeq
    <3>1. vaultSeq' > vaultSeq
      BY <2>1, <2>3 DEF RowsLive
    <3>2. ASSUME NEW i \in Items, rows'[i].seq = rows[i].seq
          PROVE  i \in Live' <=> i \in Live
      <4>1. rows[i].seq \in Nat /\ rows[i].seq <= vaultSeq
        BY <1>1 DEF VaultInv, Table, Row
      <4> QED
        BY <2>1, <3>2, <4>1 DEF RowsLive, Lives, Untouched, Numbered, Forgotten, Live
    <3>3. ASSUME NEW i \in Items, rows'[i].seq # rows[i].seq PROVE Numbered(i)
      BY <2>1, <3>3 DEF RowsLive, Lives, Untouched, Forgotten
    <3> QED
      BY <3>1, <3>2, <3>3 DEF Unread!Change, Numbered
  <2> QED
    BY <2>2, <2>3
<1>2. VaultInv /\ [Next]_serverVars => [Unread!Change]_(Unread!vault)
  <2>1. UNCHANGED serverVars => UNCHANGED Unread!vault
    BY DEF serverVars, server, Unread!vault, Live
  <2> QED
    BY <1>1, <2>1
<1> QED
  BY <1>2, VaultInvariant, PTL DEF Spec
=============================================================================
