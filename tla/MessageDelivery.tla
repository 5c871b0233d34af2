-------------------------- MODULE MessageDelivery --------------------------
(***************************************************************************)
(* A message from the outbox of one device, through the Worker's tables,   *)
(* to the history of every other device, and back out of all three when it *)
(* is acknowledged or deleted for everyone.                                *)
(*                                                                         *)
(* Server side (apps/worker/src/routes/messages.ts, db.ts): a handler      *)
(* takes one step per await that decides something; a D1 batch is one      *)
(* step.  Client side (apps/web/src/sync/outbox.ts, sync.ts, actions.ts,   *)
(* db/deletions.ts): a device has one outbox flush and one sync pass at a  *)
(* time, and its user acts in between their awaits.  The keys a device     *)
(* holds are abstracted to the newest epoch it knows (SpaceKeys has the    *)
(* rest).  A file is the epoch its bytes are encrypted under: pinning a    *)
(* new epoch is also a new IV.  The quota of the space and the rows that   *)
(* count its files are BlobAccounting's.                                   *)
(***************************************************************************)
EXTENDS Naturals, Sequences, FiniteSets

CONSTANTS
  Devices,    \* every device id of the instance
  Founders,   \* the devices in the space at the start
  SendOnly,   \* the devices with send_only = 1
  Revocable,  \* the devices someone decides to revoke
  Messages,   \* message ids
  None,       \* no message
  Author,     \* the device that composes each message
  Target,     \* what a tombstone deletes; None for a message with content
  WithFile,   \* the messages that carry a file
  MaxEpoch,   \* bound on key rotations
  MaxTries,   \* attempts of one API request
  MaxFaults,  \* bound on lost answers, failed transfers and page closures
  Forgetful   \* devices whose user deletes messages there only

ASSUME DeliveryAssumption ==
  /\ Founders \subseteq Devices /\ SendOnly \subseteq Devices /\ Revocable \subseteq Devices
  /\ None \notin Messages
  /\ Author \in [Messages -> Devices] /\ Target \in [Messages -> Messages \cup {None}]
  /\ WithFile \subseteq {m \in Messages : Target[m] = None}
  /\ MaxEpoch \in Nat \ {0} /\ MaxTries \in Nat \ {0}
  /\ MaxFaults \in Nat /\ Forgetful \subseteq Devices

VARIABLES
  epoch,     \* groups.key_epoch
  status,    \* devices: "new", "active", "revoked"
  stored,    \* messages rows, in created_at order
  waiting,   \* delivery_status rows with downloaded_at NULL
  object,    \* R2: the epoch a message's blob is encrypted under, 0 for no blob
  doomed,    \* messages whose rows are gone and whose blob deleteMessages deletes next
  puts,      \* uploadFile calls the Worker executes, waited for or not
  sweeping,  \* revokeDevice has yet to run purgeDeliveredMessages
  sends,     \* sendMessage calls: on their way, executing, or answered
  acks,      \* ackMessage calls
  known,     \* the newest key epoch a device holds
  local,     \* a device's history: the state of each message's row
  acked,     \* the rows with acked: true
  pin,       \* the keyEpoch in a queued row, 0 for undefined
  deleted,   \* META_DELETED_MESSAGES of each device
  flight,    \* the send an outbox flush is waiting for
  pass,      \* the sync pass of each device
  asking,    \* deleteMessageEverywhere calls between their two awaits
  born,      \* history: ids ever composed, or asked for
  seen,      \* history: who ever registered what
  faults     \* faults so far

tables  == <<epoch, status, stored, waiting, sweeping>>
blobs   == <<object, doomed, puts>>
calls   == <<sends, acks>>
rows    == <<local, acked, pin, deleted>>
tasks   == <<flight, pass>>
history == <<asking, born, seen>>
vars == <<tables, blobs, calls, known, rows, tasks, history, faults>>

-----------------------------------------------------------------------------
Tombstones == {m \in Messages : Target[m] # None}
Incoming   == {"remote", "held", "lost"}  \* direction "in": to download, complete, unobtainable
Ids(s)     == {s[i].id : i \in DOMAIN s}
Active     == {d \in Devices : status[d] = "active"}

\* The rows of s at the places in K, in their order.
At(s, K) ==
  LET place(k) == CHOOSE i \in K : Cardinality({j \in K : j <= i}) = k
  IN [k \in 1 .. Cardinality(K) |-> s[place(k)]]
Without(s, S) == At(s, {i \in DOMAIN s : s[i].id \notin S})

\* Every active device except the sender and the send-only ones.
messageRecipients(d) == Active \ (SendOnly \cup {d})

NoFlight == [id |-> None, n |-> 0, epoch |-> 0, try |-> 0, phase |-> "idle"]
NoPass   == [phase |-> "idle", batch |-> <<>>, dels |-> {}, jobs |-> {}]

\* An answer reaches the flush that waits for it, or nobody.
Awaited(q) == flight[q.by].id = q.id /\ flight[q.by].n = q.n
Reply(q, code) ==
  sends' = (sends \ {q}) \cup (IF Awaited(q) THEN {[q EXCEPT !.stage = code]} ELSE {})
Codes == {"ok", "conflict", "key_rotated", "bad_request", "refused"}

\* What the rows and the delivery_status rows of the messages in S leave behind.
Drop(S) ==
  /\ stored' = Without(stored, S)
  /\ waiting' = {w \in waiting : w[1] \notin S}
  /\ doomed' = doomed \cup (S \cap WithFile)

Init ==
  /\ epoch = 1
  /\ status = [d \in Devices |-> IF d \in Founders THEN "active" ELSE "new"]
  /\ stored = <<>> /\ waiting = {} /\ sweeping = FALSE
  /\ object = [m \in Messages |-> 0] /\ doomed = {} /\ puts = {}
  /\ sends = {} /\ acks = {}
  /\ known = [d \in Devices |-> 1]
  /\ local = [d \in Devices |-> [m \in Messages |-> "absent"]]
  /\ acked = [d \in Devices |-> {}]
  /\ pin = [m \in Messages |-> 0]
  /\ deleted = [d \in Devices |-> {}]
  /\ flight = [d \in Devices |-> NoFlight] /\ pass = [d \in Devices |-> NoPass]
  /\ asking = [d \in Devices |-> {}] /\ born = {} /\ seen = {}
  /\ faults = 0

-----------------------------------------------------------------------------
(***************************************************************************)
(* The user.                                                               *)
(***************************************************************************)
Sets(d, m, s) == local' = [local EXCEPT ![d][m] = s]

\* sendComposerMessage.
Compose(d, m) ==
  /\ Author[m] = d /\ m \notin Tombstones \cup born
  /\ status[d] = "active"
  /\ born' = born \cup {m}
  /\ Sets(d, m, "queued")
  /\ UNCHANGED <<tables, blobs, calls, known, acked, pin, deleted, tasks, asking, seen, faults>>

\* deleteMessageEverywhere: remember the id and forget the message here,
DeleteEverywhere(d, t) ==
  /\ t \in Tombstones \ born /\ Author[t] = d
  /\ local[d][Target[t]] \in Incoming \cup {"sent"}
  /\ Active \ {d} # {}
  /\ born' = born \cup {t}
  /\ asking' = [asking EXCEPT ![d] = @ \cup {t}]
  /\ deleted' = [deleted EXCEPT ![d] = @ \cup {Target[t]}]
  /\ Sets(d, Target[t], "absent")
  /\ acked' = [acked EXCEPT ![d] = @ \ {Target[t]}]
  /\ UNCHANGED <<tables, blobs, calls, known, pin, tasks, seen, faults>>

\* then queue the tombstone.
QueueDeletion(d, t) ==
  /\ t \in asking[d]
  /\ asking' = [asking EXCEPT ![d] = @ \ {t}]
  /\ Sets(d, t, "queued")
  /\ UNCHANGED <<tables, blobs, calls, known, acked, pin, deleted, tasks, born, seen, faults>>

Ack(d, m, kind) == acks' = acks \cup {[by |-> d, id |-> m, kind |-> kind, stage |-> "sent"]}

\* deleteMessageLocally: what the server may still offer is acked first.
DeleteLocally(d, m) ==
  /\ d \in Forgetful /\ local[d][m] # "absent" /\ m \notin Tombstones
  /\ IF local[d][m] \in Incoming /\ m \notin acked[d]
     THEN /\ ~\E a \in acks : a.by = d /\ a.id = m /\ a.kind = "user"
          /\ Ack(d, m, "user")
          /\ UNCHANGED <<local, acked>>
     ELSE /\ Sets(d, m, "absent")
          /\ acked' = [acked EXCEPT ![d] = @ \ {m}]
          /\ UNCHANGED acks
  /\ UNCHANGED <<tables, blobs, sends, known, pin, deleted, tasks, history, faults>>

\* retryMessage.
RetryMessage(d, m) ==
  /\ local[d][m] = "failed" /\ status[d] = "active"
  /\ Sets(d, m, "queued")
  /\ UNCHANGED <<tables, blobs, calls, known, acked, pin, deleted, tasks, history, faults>>

-----------------------------------------------------------------------------
(***************************************************************************)
(* The outbox flush, one message of it (sendQueuedContent and              *)
(* sendQueuedDeletion).                                                    *)
(***************************************************************************)
\* Calls of a device are told apart by a number: another one goes out when the one
\* before is answered, or was lost or failed, which is a fault.
Number == faults + 1
Call(d, m, e, n) ==
  [by |-> d, id |-> m, epoch |-> e, n |-> n, to |-> {}, stage |-> "sent"]

\* PUT /files/:r2key: authenticated, it writes the object.
Put(d, m, e, n) ==
  [by |-> d, id |-> m, epoch |-> e, n |-> n,
   stage |-> IF status[d] = "active" THEN "writing" ELSE "refused"]

\* Mutant: a file that was uploaded before is not uploaded again.
SkipsUpload(d, m) ==
  LET e == IF pin[m] = 0 THEN known[d] ELSE pin[m]
      upload == m \in WithFile /\ object[m] = 0
  IN
  /\ flight[d] = NoFlight /\ local[d][m] = "queued"
  /\ pin' = [pin EXCEPT ![m] = e]
  /\ flight' = [flight EXCEPT ![d] =
       [id |-> m, n |-> Number, epoch |-> e, try |-> 1,
        phase |-> IF upload THEN "uploading" ELSE "posted"]]
  /\ sends' = IF upload THEN sends ELSE sends \cup {Call(d, m, e, Number)}
  /\ puts' = IF upload THEN puts \cup {Put(d, m, e, Number)} ELSE puts
  /\ UNCHANGED <<tables, object, doomed, acks, known, local, acked, deleted, pass, history, faults>>

\* The epoch is pinned on the first attempt and persisted with the row.
FlushBegin(d, m) ==
  LET e == IF pin[m] = 0 THEN known[d] ELSE pin[m] IN
  /\ flight[d] = NoFlight /\ local[d][m] = "queued"
  /\ pin' = [pin EXCEPT ![m] = e]
  /\ flight' = [flight EXCEPT ![d] =
       [id |-> m, n |-> Number, epoch |-> e, try |-> 1,
        phase |-> IF m \in WithFile THEN "uploading" ELSE "posted"]]
  /\ sends' = IF m \in WithFile THEN sends ELSE sends \cup {Call(d, m, e, Number)}
  /\ puts' = IF m \in WithFile THEN puts \cup {Put(d, m, e, Number)} ELSE puts
  /\ UNCHANGED <<tables, object, doomed, acks, known, local, acked, deleted, pass, history, faults>>

\* The object is written; a flush that still waits for it posts the message.
UploadLands(p) ==
  /\ p \in puts /\ p.stage = "writing"
  /\ object' = [object EXCEPT ![p.id] = p.epoch]
  /\ puts' = puts \ {p}
  /\ IF Awaited(p)
     THEN /\ flight' = [flight EXCEPT ![p.by].phase = "posted", ![p.by].try = 1]
          /\ sends' = sends \cup {Call(p.by, p.id, p.epoch, p.n)}
     ELSE UNCHANGED <<flight, sends>>
  /\ UNCHANGED <<tables, doomed, acks, known, rows, pass, history, faults>>

\* The body breaks off, or R2 refuses it.  One nobody waits for may always break.
UploadBreaks(p) ==
  /\ p \in puts /\ p.stage = "writing"
  /\ IF Awaited(p) THEN faults < MaxFaults /\ faults' = faults + 1 ELSE UNCHANGED faults
  /\ puts' = (puts \ {p}) \cup {[p EXCEPT !.stage = "broken"]}
  /\ UNCHANGED <<tables, object, doomed, calls, known, rows, tasks, history>>

\* One nobody waits for may never have reached the Worker.
UploadVanishes(p) ==
  /\ p \in puts /\ ~Awaited(p)
  /\ puts' = puts \ {p}
  /\ UNCHANGED <<tables, object, doomed, calls, known, rows, tasks, history, faults>>

\* discardUpload after a broken one deletes what is stored under the key, whoever
\* stored it.  An error is retried; a refusal is kept for the row, like a post's.
UploadFails(p) ==
  LET d == p.by
      refusal == IF p.stage = "refused" THEN "refused" ELSE "bad_request"
  IN
  /\ p \in puts /\ p.stage # "writing"
  /\ object' = [object EXCEPT ![p.id] = IF p.stage = "broken" THEN 0 ELSE @]
  /\ \/ /\ Awaited(p) /\ p.stage = "broken"
        /\ flight[d].try < MaxTries
        /\ flight' = [flight EXCEPT ![d].n = Number, ![d].try = @ + 1]
        /\ puts' = (puts \ {p}) \cup {Put(d, p.id, p.epoch, Number)}
        /\ UNCHANGED sends
     \/ /\ Awaited(p) /\ p.stage = "broken"
        /\ flight[d].try = MaxTries
        /\ flight' = [flight EXCEPT ![d] = NoFlight]
        /\ puts' = puts \ {p} /\ UNCHANGED sends
     \/ /\ Awaited(p)
        /\ flight' = [flight EXCEPT ![d].phase = "posted"]
        /\ sends' = sends \cup {[Call(d, p.id, p.epoch, p.n) EXCEPT !.stage = refusal]}
        /\ puts' = puts \ {p}
     \/ /\ ~Awaited(p)
        /\ puts' = puts \ {p} /\ UNCHANGED <<flight, sends>>
  /\ UNCHANGED <<tables, doomed, acks, known, rows, pass, history, faults>>

\* Mutant: every refusal is final but a rotated key, which counts as sent.
RotatedIsSent(code) == IF code \in {"ok", "conflict", "key_rotated"} THEN "sent" ELSE "failed"

\* The row after the answer: already sent counts as sent, a rotated key drops
\* the pin, anything permanent fails.
RowAfter(code) ==
  IF code \in {"ok", "conflict"} THEN "sent"
  ELSE IF code = "key_rotated" THEN "queued" ELSE "failed"

\* Mutant: the message keeps the epoch the server refused.
KeepsPin(d) ==
  \E q \in sends :
    /\ q.by = d /\ Awaited(q) /\ flight[d].phase = "saving"
    /\ sends' = sends \ {q}
    /\ flight' = [flight EXCEPT ![d] = NoFlight]
    /\ Sets(d, q.id, RowAfter(q.stage))
    /\ UNCHANGED <<tables, blobs, acks, known, acked, pin, deleted, pass, history, faults>>

\* The answer.  A row the user deleted meanwhile is not written back: update
\* looks for it first, and writes it in a transaction of its own.
SendAnswered(d) ==
  \E q \in sends :
    /\ q.by = d /\ Awaited(q) /\ q.stage \in Codes /\ flight[d].phase = "posted"
    /\ IF local[d][q.id] = "absent"
       THEN sends' = sends \ {q} /\ flight' = [flight EXCEPT ![d] = NoFlight]
       ELSE flight' = [flight EXCEPT ![d].phase = "saving"] /\ UNCHANGED sends
    /\ UNCHANGED <<tables, blobs, acks, known, rows, pass, history, faults>>

AnswerSaved(d) ==
  \E q \in sends :
    /\ q.by = d /\ Awaited(q) /\ flight[d].phase = "saving"
    /\ sends' = sends \ {q}
    /\ flight' = [flight EXCEPT ![d] = NoFlight]
    /\ Sets(d, q.id, RowAfter(q.stage))
    /\ pin' = [pin EXCEPT ![q.id] = IF q.stage = "key_rotated" THEN 0 ELSE @]
    /\ UNCHANGED <<tables, blobs, acks, known, acked, deleted, pass, history, faults>>

Unanswered(d) == {q \in sends : ~(q.by = d /\ q.stage \in Codes)}

\* The upload or the call fails on the network.  It is made again, whether or not
\* its first copy still executes; then the row waits its turn.
SendLost(d) ==
  LET f == flight[d] IN
  /\ f.phase \in {"uploading", "posted"} /\ faults < MaxFaults
  /\ faults' = faults + 1
  /\ \/ /\ f.try < MaxTries
        /\ flight' = [flight EXCEPT ![d].n = Number', ![d].try = f.try + 1]
        /\ IF f.phase = "uploading"
           THEN puts' = puts \cup {Put(d, f.id, f.epoch, Number')} /\ UNCHANGED sends
           ELSE sends' = Unanswered(d) \cup {Call(d, f.id, f.epoch, Number')} /\ UNCHANGED puts
     \/ /\ f.try = MaxTries
        /\ flight' = [flight EXCEPT ![d] = NoFlight]
        /\ sends' = Unanswered(d) /\ UNCHANGED puts
  /\ UNCHANGED <<tables, object, doomed, acks, known, rows, pass, history>>

-----------------------------------------------------------------------------
(***************************************************************************)
(* sendMessage.                                                            *)
(***************************************************************************)
\* authenticate, the duplicate check, then the epoch check on its snapshot.
Verdict(q) ==
  IF status[q.by] # "active" THEN "refused"
  ELSE IF q.id \in Ids(stored) THEN "conflict"
  ELSE IF q.epoch # epoch THEN "key_rotated" ELSE "checked"

SendCheck(q) ==
  /\ q \in sends /\ q.stage = "sent"
  /\ IF Verdict(q) = "checked"
     THEN sends' = (sends \ {q}) \cup {[q EXCEPT !.stage = "checked"]}
     ELSE Reply(q, Verdict(q))
  /\ UNCHANGED <<tables, blobs, acks, known, rows, tasks, history, faults>>

\* Mutant: a tombstone leaves its target to the devices.
KeepsTarget(q) ==
  LET to == messageRecipients(q.by) IN
  /\ q \in sends /\ q.stage = "checked"
  /\ doomed' = doomed \cup (IF to = {} THEN {q.id} \cap WithFile ELSE {})
  /\ IF to = {} THEN Reply(q, "ok")
     ELSE IF q.id \in WithFile /\ object[q.id] = 0 THEN Reply(q, "bad_request")
     ELSE sends' = (sends \ {q}) \cup {[q EXCEPT !.stage = "ready", !.to = to]}
  /\ UNCHANGED <<tables, object, puts, acks, known, rows, tasks, history, faults>>

\* The target of a tombstone goes first; then who receives, and is the file there.
SendRecipients(q) ==
  LET to == messageRecipients(q.by)
      gone == {Target[q.id]} \cap Ids(stored)
  IN
  /\ q \in sends /\ q.stage = "checked"
  /\ stored' = Without(stored, gone)
  /\ waiting' = {w \in waiting : w[1] \notin gone}
  /\ doomed' = doomed \cup (gone \cap WithFile)
                 \cup (IF to = {} THEN {q.id} \cap WithFile ELSE {})
  /\ IF to = {} THEN Reply(q, "ok")
     ELSE IF q.id \in WithFile /\ object[q.id] = 0 THEN Reply(q, "bad_request")
     ELSE sends' = (sends \ {q}) \cup {[q EXCEPT !.stage = "ready", !.to = to]}
  /\ UNCHANGED <<epoch, status, sweeping, object, puts, acks, known, rows, tasks, history, faults>>

\* Mutant: the message is inserted without its unique id.
InsertsTwice(q) ==
  /\ q \in sends /\ q.stage = "ready"
  /\ stored' = Append(stored, [id |-> q.id, epoch |-> q.epoch])
  /\ waiting' = waiting \cup ({q.id} \X q.to)
  /\ Reply(q, "ok")
  /\ UNCHANGED <<epoch, status, sweeping, blobs, acks, known, rows, tasks, history, faults>>

\* The batch: the message and one delivery row per recipient, or a conflict.
SendBatch(q) ==
  /\ q \in sends /\ q.stage = "ready"
  /\ IF q.id \in Ids(stored)
     THEN Reply(q, "conflict") /\ UNCHANGED <<stored, waiting>>
     ELSE /\ stored' = Append(stored, [id |-> q.id, epoch |-> q.epoch])
          /\ waiting' = waiting \cup ({q.id} \X q.to)
          /\ Reply(q, "ok")
  /\ UNCHANGED <<epoch, status, sweeping, blobs, acks, known, rows, tasks, history, faults>>

(***************************************************************************)
(* ackMessage, and the other ways a message leaves the server.             *)
(***************************************************************************)
Advance(a, stage) ==
  acks' = (acks \ {a})
            \cup (IF a.kind = "nobody" /\ stage \in {"ok", "not_found"} THEN {}
                  ELSE {[a EXCEPT !.stage = stage]})

\* Is it this group's message?  Then this device's row is downloaded.
AckUpdate(a) ==
  /\ a \in acks /\ a.stage = "sent"
  /\ IF status[a.by] = "active" /\ a.id \in Ids(stored)
     THEN waiting' = waiting \ {<<a.id, a.by>>} /\ Advance(a, "marked")
     ELSE UNCHANGED waiting /\ Advance(a, "not_found")
  /\ UNCHANGED <<epoch, status, stored, sweeping, blobs, sends, known, rows, tasks, history,
                 faults>>

\* Mutant: the message goes with the first ack.
FirstAckDeletes(a) ==
  /\ a \in acks /\ a.stage = "marked"
  /\ Drop({a.id} \cap Ids(stored))
  /\ Advance(a, "ok")
  /\ UNCHANGED <<epoch, status, sweeping, object, puts, sends, known, rows, tasks, history, faults>>

\* Mutant: the file goes with the first ack.
FirstAckDropsFile(a) ==
  /\ a \in acks /\ a.stage = "marked"
  /\ IF \E w \in waiting : w[1] = a.id
     THEN doomed' = doomed \cup ({a.id} \cap WithFile) /\ UNCHANGED <<stored, waiting>>
     ELSE Drop({a.id} \cap Ids(stored))
  /\ Advance(a, "ok")
  /\ UNCHANGED <<epoch, status, sweeping, object, puts, sends, known, rows, tasks, history, faults>>

\* Mutant: the rows go and the file stays.
KeepsFile(a) ==
  /\ a \in acks /\ a.stage = "marked"
  /\ stored' = IF \E w \in waiting : w[1] = a.id THEN stored ELSE Without(stored, {a.id})
  /\ Advance(a, "ok")
  /\ UNCHANGED <<epoch, status, waiting, sweeping, blobs, sends, known, rows, tasks, history,
                 faults>>

\* Nobody is waiting any more: the message goes.
AckCount(a) ==
  /\ a \in acks /\ a.stage = "marked"
  /\ IF \E w \in waiting : w[1] = a.id
     THEN UNCHANGED <<stored, waiting, doomed>>
     ELSE Drop({a.id} \cap Ids(stored))
  /\ Advance(a, "ok")
  /\ UNCHANGED <<epoch, status, sweeping, object, puts, sends, known, rows, tasks, history, faults>>

\* deleteMessages: the blob after its rows.
DeleteObject(m) ==
  /\ m \in doomed
  /\ doomed' = doomed \ {m}
  /\ object' = [object EXCEPT ![m] = 0]
  /\ UNCHANGED <<tables, puts, calls, known, rows, tasks, history, faults>>

\* revokeDevice's batch: the device, and what only it was waiting for.
Revoke(d) ==
  /\ d \in Active \cap Revocable
  /\ status' = [status EXCEPT ![d] = "revoked"]
  /\ waiting' = {w \in waiting : w[2] # d}
  /\ sweeping' = TRUE
  /\ UNCHANGED <<epoch, stored, blobs, calls, known, rows, tasks, history, faults>>

\* purgeDeliveredMessages.
PurgeDelivered ==
  /\ sweeping
  /\ sweeping' = FALSE
  /\ Drop({m \in Ids(stored) : ~\E w \in waiting : w[1] = m})
  /\ UNCHANGED <<epoch, status, object, puts, calls, known, rows, tasks, history, faults>>

\* completePairing and a committed rotation, as far as messages see them.
Join(d) ==
  /\ status[d] = "new"
  /\ status' = [status EXCEPT ![d] = "active"]
  /\ known' = [known EXCEPT ![d] = epoch]
  /\ UNCHANGED <<epoch, stored, waiting, sweeping, blobs, calls, rows, tasks, history, faults>>

Rotate ==
  /\ epoch < MaxEpoch
  /\ epoch' = epoch + 1
  /\ UNCHANGED <<status, stored, waiting, sweeping, blobs, calls, known, rows, tasks, history,
                 faults>>

-----------------------------------------------------------------------------
(***************************************************************************)
(* The sync pass: poll, then one pending message after the other, then the *)
(* downloads and acks side by side.                                        *)
(***************************************************************************)
Looping(d) == \E a \in acks : a.by = d /\ a.kind = "loop"

\* GET /messages/pending; the keys in the answer are adopted first.
SyncPoll(d) ==
  LET mine == At(stored, {i \in DOMAIN stored : <<stored[i].id, d>> \in waiting}) IN
  /\ pass[d].phase = "idle" /\ status[d] = "active"
  /\ mine # <<>> \/ known[d] # epoch
  /\ known' = [known EXCEPT ![d] = epoch]
  /\ pass' = [pass EXCEPT ![d] = [NoPass EXCEPT !.phase = "polled", !.batch = mine]]
  /\ UNCHANGED <<tables, blobs, calls, rows, flight, history, faults>>

\* loadDeletions, once for the whole batch.
LoadDeletions(d) ==
  /\ pass[d].phase = "polled"
  /\ pass' = [pass EXCEPT ![d].phase = "reading", ![d].dels = deleted[d]]
  /\ UNCHANGED <<tables, blobs, calls, known, rows, flight, history, faults>>

Job(x, state, ack) ==
  [id |-> x.id, epoch |-> x.epoch, state |-> state, acked |-> ack, stage |-> "registered"]

\* The next of the batch.  A tombstone deletes its target, whatever is known of
\* it; a message deleted before is only acked; the rest is registered.
TakePending(d) ==
  LET p == pass[d]
      x == Head(p.batch)
      row == local[d][x.id]
      done == [p EXCEPT !.batch = Tail(p.batch)]
  IN
  /\ p.phase = "reading" /\ p.batch # <<>> /\ ~Looping(d)
  /\ \/ /\ x.id \in Tombstones
        /\ deleted' = [deleted EXCEPT ![d] = @ \cup {Target[x.id]}]
        /\ Sets(d, Target[x.id], "absent")
        /\ acked' = [acked EXCEPT ![d] = @ \ {Target[x.id]}]
        /\ Ack(d, x.id, "loop")
        /\ pass' = [pass EXCEPT ![d] = done]
        /\ UNCHANGED seen
     \/ /\ x.id \in p.dels
        /\ Ack(d, x.id, "loop")
        /\ pass' = [pass EXCEPT ![d] = done]
        /\ UNCHANGED <<local, acked, deleted, seen>>
     \/ /\ x.id \notin Tombstones \cup p.dels
        /\ LET state == IF row # "absent" THEN row
                        ELSE IF x.id \in WithFile THEN "remote" ELSE "held"
           IN /\ Sets(d, x.id, state)
              /\ pass' = [pass EXCEPT ![d] =
                   [done EXCEPT !.jobs = @ \cup {Job(x, state, x.id \in acked[d])}]]
        /\ seen' = seen \cup {<<x.id, d>>}
        /\ UNCHANGED <<acked, deleted, acks>>
  /\ UNCHANGED <<tables, blobs, sends, known, pin, flight, asking, born, faults>>

\* An ack of the loop comes back; if it failed the message stays pending.
LoopAcked(d) ==
  /\ \E a \in acks : /\ a.by = d /\ a.kind = "loop" /\ a.stage \in {"ok", "not_found"}
                     /\ acks' = acks \ {a}
  /\ UNCHANGED <<tables, blobs, sends, known, rows, tasks, history, faults>>

\* upsertMessage: the row as this job knows it, whatever happened to it since.
Upsert(d, j) ==
  /\ Sets(d, j.id, j.state)
  /\ acked' = [acked EXCEPT ![d] = IF j.acked THEN @ \cup {j.id} ELSE @ \ {j.id}]
JobBecomes(d, j, new) == pass' = [pass EXCEPT ![d].jobs = (@ \ {j}) \cup new]

\* Mutant: the ack goes out before the download.
AckFirst(d, j) ==
  /\ pass[d].batch = <<>> /\ ~Looping(d) /\ j.stage = "registered"
  /\ Ack(d, j.id, "job") /\ UNCHANGED <<local, acked>>
  /\ JobBecomes(d, j, {[j EXCEPT !.stage = "acking"]})
  /\ UNCHANGED <<tables, blobs, sends, known, pin, deleted, flight, history, faults>>

\* downloadAndAck: fetch what is missing, or go straight to the ack.
JobBegin(d, j) ==
  /\ pass[d].batch = <<>> /\ ~Looping(d) /\ j.stage = "registered"
  /\ \/ /\ j.state = "remote"
        /\ Upsert(d, j) /\ UNCHANGED acks
        /\ JobBecomes(d, j, {[j EXCEPT !.stage = "getting"]})
     \/ /\ j.state # "remote" /\ ~j.acked
        /\ Ack(d, j.id, "job") /\ UNCHANGED <<local, acked>>
        /\ JobBecomes(d, j, {[j EXCEPT !.stage = "acking"]})
     \/ /\ j.state # "remote" /\ j.acked
        /\ JobBecomes(d, j, {}) /\ UNCHANGED <<local, acked, acks>>
  /\ UNCHANGED <<tables, blobs, sends, known, pin, deleted, flight, history, faults>>

\* The file is here, or is gone, or cannot be opened with its row's epoch and IV
\* (the decrypt budget is spent in one go).  Either way the ack follows.
JobGot(d, j) ==
  LET new == [j EXCEPT !.state = IF object[j.id] = j.epoch THEN "held" ELSE "lost",
                       !.stage = "acking"]
  IN
  /\ j.stage = "getting" /\ status[d] = "active"
  /\ Upsert(d, new) /\ Ack(d, j.id, "job")
  /\ JobBecomes(d, j, {new})
  /\ UNCHANGED <<tables, blobs, sends, known, pin, deleted, flight, history, faults>>

\* The transfer fails, or is refused to a revoked device: no ack, the next pass
\* tries again.
JobFails(d, j) ==
  /\ j.stage = "getting"
  /\ \/ faults < MaxFaults /\ faults' = faults + 1
     \/ status[d] # "active" /\ UNCHANGED faults
  /\ Upsert(d, j)
  /\ JobBecomes(d, j, {})
  /\ UNCHANGED <<tables, blobs, calls, known, pin, deleted, flight, history>>

\* The ack of a job: acked is recorded only when it succeeded.
JobAcked(d, j) ==
  /\ j.stage = "acking"
  /\ \E a \in acks :
       /\ a.by = d /\ a.id = j.id /\ a.kind = "job" /\ a.stage \in {"ok", "not_found"}
       /\ acks' = acks \ {a}
       /\ IF a.stage = "ok" THEN Upsert(d, [j EXCEPT !.acked = TRUE]) ELSE UNCHANGED <<local, acked>>
  /\ JobBecomes(d, j, {})
  /\ UNCHANGED <<tables, blobs, sends, known, pin, deleted, flight, history, faults>>

SyncEnd(d) ==
  /\ pass[d].phase = "reading" /\ pass[d].batch = <<>> /\ pass[d].jobs = {} /\ ~Looping(d)
  /\ pass' = [pass EXCEPT ![d] = NoPass]
  /\ UNCHANGED <<tables, blobs, calls, known, rows, flight, history, faults>>

\* deleteMessageLocally after its ack: a refusal is shown and nothing is deleted.
UserAcked(d) ==
  /\ \E a \in acks :
       /\ a.by = d /\ a.kind = "user" /\ a.stage \in {"ok", "not_found"}
       /\ acks' = acks \ {a}
       /\ IF a.stage = "ok"
          THEN /\ Sets(d, a.id, "absent")
               /\ acked' = [acked EXCEPT ![d] = @ \ {a.id}]
          ELSE UNCHANGED <<local, acked>>
  /\ UNCHANGED <<tables, blobs, sends, known, pin, deleted, tasks, history, faults>>

\* The Worker finishes an ack nobody waits for.
Abandoned(A) == {[a EXCEPT !.kind = "nobody"] : a \in {b \in A : b.stage \in {"sent", "marked"}}}

\* The answer of an ack is lost, executed or not.  The call is made again, and
\* after the last attempt it throws, as any error answer does.
AckLost(a) ==
  /\ a \in acks /\ a.kind # "nobody" /\ a.stage # "not_found" /\ faults < MaxFaults
  /\ faults' = faults + 1
  /\ \E stage \in {"sent", "not_found"} :
       acks' = (acks \ {a}) \cup Abandoned({a}) \cup {[a EXCEPT !.stage = stage]}
  /\ UNCHANGED <<tables, blobs, sends, known, rows, tasks, history>>

\* The page is closed and opened again; the Worker finishes what it executes.
Reload(d) ==
  /\ faults < MaxFaults
  /\ flight[d] # NoFlight \/ pass[d] # NoPass \/ asking[d] # {}
  /\ faults' = faults + 1
  /\ flight' = [flight EXCEPT ![d] = NoFlight]
  /\ pass' = [pass EXCEPT ![d] = NoPass]
  /\ asking' = [asking EXCEPT ![d] = {}]
  /\ sends' = Unanswered(d)
  /\ acks' = {a \in acks : a.by # d} \cup Abandoned({a \in acks : a.by = d})
  /\ UNCHANGED <<tables, blobs, known, rows, born, seen>>

-----------------------------------------------------------------------------
User(d) ==
  \E m \in Messages :
    \/ Compose(d, m) \/ DeleteLocally(d, m) \/ RetryMessage(d, m)
    \/ DeleteEverywhere(d, m) \/ QueueDeletion(d, m)
Outbox(d) == (\E m \in Messages : FlushBegin(d, m)) \/ SendAnswered(d) \/ AnswerSaved(d)
uploadFile(p) == UploadLands(p) \/ UploadFails(p)
Uploads(d) == \E p \in puts : p.by = d /\ uploadFile(p)
Sync(d) ==
  \/ SyncPoll(d) \/ LoadDeletions(d) \/ TakePending(d) \/ LoopAcked(d) \/ SyncEnd(d)
  \/ UserAcked(d)
  \/ \E j \in pass[d].jobs : JobBegin(d, j) \/ JobGot(d, j) \/ JobAcked(d, j)
sendMessage(q) == SendCheck(q) \/ SendRecipients(q) \/ SendBatch(q)
ackMessage(a)  == AckUpdate(a) \/ AckCount(a)
Sending == \E q \in sends : sendMessage(q)
Acking  == \E a \in acks : ackMessage(a)
Purging == PurgeDelivered \/ \E m \in Messages : DeleteObject(m)

Next ==
  \/ \E d \in Devices : User(d) \/ Outbox(d) \/ Sync(d) \/ SendLost(d) \/ Reload(d)
  \/ \E d \in Devices : Revoke(d) \/ Join(d) \/ \E j \in pass[d].jobs : JobFails(d, j)
  \/ \E p \in puts : uploadFile(p) \/ UploadBreaks(p) \/ UploadVanishes(p)
  \/ \E a \in acks : AckLost(a)
  \/ Sending \/ Acking \/ Purging \/ Rotate

Spec == Init /\ [][Next]_vars

(***************************************************************************)
(* Pages stay open: the poll timer starts passes and flushes, what started *)
(* goes on, and the Worker finishes what it executes.  Users owe nothing.  *)
(***************************************************************************)
Fairness ==
  /\ \A d \in Devices : WF_vars(Sync(d)) /\ WF_vars(Outbox(d)) /\ WF_vars(Uploads(d))
  /\ \A d \in Devices : WF_vars(\E t \in Messages : QueueDeletion(d, t))
  /\ WF_vars(Sending) /\ WF_vars(Acking) /\ WF_vars(Purging)
FairSpec == Spec /\ Fairness

-----------------------------------------------------------------------------
(***************************************************************************)
(* Properties.                                                             *)
(***************************************************************************)
Calls == [by : Devices, id : Messages, epoch : 1 .. MaxEpoch, n : 1 .. (MaxFaults + 1),
          to : SUBSET Devices,
          stage : {"sent", "checked", "ready"} \cup Codes]
Puts  == [by : Devices, id : Messages, epoch : 1 .. MaxEpoch, n : 1 .. (MaxFaults + 1),
          stage : {"writing", "broken", "refused"}]
Acks  == [by : Devices, id : Messages, kind : {"loop", "job", "user", "nobody"},
          stage : {"sent", "marked", "ok", "not_found"}]
Rows  == [id : Messages, epoch : 1 .. MaxEpoch]
Jobs  == [id : Messages, epoch : 1 .. MaxEpoch, acked : BOOLEAN,
          state : Incoming \cup {"sent", "queued", "failed"},
          stage : {"registered", "getting", "acking"}]
Flights == [id : Messages, n : 1 .. (MaxFaults + 1), epoch : 1 .. MaxEpoch, try : 1 .. MaxTries,
            phase : {"uploading", "posted", "saving"}]
Passes  == [phase : {"idle", "polled", "reading"}, batch : Seq(Rows), dels : SUBSET Messages,
            jobs : SUBSET Jobs]

\* Every variable has its type, and a message has at most one row.
TypeOK ==
  /\ epoch \in 1 .. MaxEpoch /\ known \in [Devices -> 1 .. MaxEpoch]
  /\ status \in [Devices -> {"new", "active", "revoked"}] /\ sweeping \in BOOLEAN
  /\ stored \in Seq(Rows) /\ \A i, k \in DOMAIN stored : stored[i].id = stored[k].id => i = k
  /\ waiting \subseteq Messages \X Devices
  /\ object \in [Messages -> 0 .. MaxEpoch] /\ doomed \subseteq WithFile
  /\ puts \subseteq Puts
  /\ sends \subseteq Calls /\ acks \subseteq Acks
  /\ local \in [Devices -> [Messages -> Incoming \cup {"absent", "queued", "sent", "failed"}]]
  /\ acked \in [Devices -> SUBSET Messages] /\ deleted \in [Devices -> SUBSET Messages]
  /\ pin \in [Messages -> 0 .. MaxEpoch]
  /\ flight \in [Devices -> Flights \cup {NoFlight}] /\ pass \in [Devices -> Passes]
  /\ asking \in [Devices -> SUBSET Messages] /\ born \subseteq Messages /\ seen \subseteq Messages \X Devices
  /\ faults \in 0 .. MaxFaults

Retracted(m) == \E t \in born : Target[t] = m

\* ackMessage is called for a device only once it holds the content, knows it
\* will never get it, or was told to forget it: a delivery row of a device still
\* in the space does not go in any other way.
Settled(m, d) ==
  \/ local[d][m] \in {"held", "lost"}
  \/ m \in deleted[d] \/ (m \in Tombstones /\ Target[m] \in deleted[d])
  \/ Retracted(m)
  \/ /\ d \in Forgetful /\ <<m, d>> \in seen
     /\ local[d][m] = "absent" \/ \E a \in acks : a.by = d /\ a.id = m /\ a.kind # "job"
NothingDroppedUnread ==
  [][\A w \in waiting \ waiting' : status'[w[2]] = "active" => Settled(w[1], w[2])]_vars

\* The outbox says "sent" only of a message that every other device it was meant
\* for has read or is still offered, whatever was lost or retried on the way.
NoLostMessage ==
  \A m \in Messages \ Tombstones, d \in Active \cap Founders :
    /\ local[Author[m]][m] = "sent" /\ ~Retracted(m)
    /\ d \notin SendOnly \cup {Author[m]}
    => <<m, d>> \in waiting \cup seen

\* acked is never recorded of a file that is still to be downloaded
\* (downloadAndAck acks after the download and the decryption).
AckedIsSettled ==
  \A d \in Devices : \A m \in acked[d] : local[d][m] \in {"held", "lost"}

\* A device the server still waits for finds the file of a message nobody
\* retracted, and can open it, whatever the users forget meanwhile.
FileReadable ==
  \A m \in WithFile, d \in Devices :
    local[d][m] = "lost" /\ <<m, d>> \in waiting => Retracted(m)

\* The blob and the row that describes it are encrypted alike while a device of
\* the space waits for them: a message re-pinned after a superseded epoch is
\* uploaded anew before it is sent again (pinEpoch mints a new IV with the epoch).
FileMatchesRow ==
  \A i \in DOMAIN stored :
    /\ stored[i].id \in WithFile
    /\ \E d \in Active : <<stored[i].id, d>> \in waiting
    => object[stored[i].id] = stored[i].epoch

\* "The API rejects messages encrypted under a superseded key epoch."
NoStaleEpochStored ==
  [][Len(stored') > Len(stored) => stored'[Len(stored')].epoch = epoch]_vars

\* "drop the message if we still have it, and remember the id either way so a
\* copy still in flight is dropped when it lands" (applyGlobalDeletion).
DeletedStaysDeleted ==
  \A d \in Devices : \A m \in deleted[d] : local[d][m] = "absent"

\* "If the user deleted the message locally mid-flush, don't resurrect it." (update)
NotResurrected ==
  [][\A m \in born :
       local[Author[m]][m] = "absent" => local'[Author[m]][m] = "absent"]_vars

\* retrying cannot fix a message marked failed: nobody was given it.
FailedNotDelivered ==
  \A m \in Messages : local[Author[m]][m] = "failed" => \A d \in Devices : <<m, d>> \notin seen

\* Deleting on this device is refused only of a message the server still lists
\* as pending: what is not acknowledged here is still offered there.
UnackedIsPending ==
  \A d \in Active, m \in Messages :
    /\ local[d][m] \in Incoming /\ m \notin acked[d]
    /\ pass[d] = NoPass /\ ~Retracted(m) /\ ~\E a \in acks : a.by = d /\ a.id = m
    => <<m, d>> \in waiting

\* What is queued leaves the queue (sent, failed, or deleted by its user).
OutboxDrains ==
  \A m \in Messages : (local[Author[m]][m] = "queued") ~> (local[Author[m]][m] # "queued")

\* "When every active recipient has acknowledged, the Worker deletes the message
\* row and its R2 object."
ServerForgets ==
  \A m \in Messages :
    (m \in Ids(stored) \/ object[m] # 0) ~> (m \notin Ids(stored) /\ object[m] = 0)

\* "Delete for everyone" reaches every other device the message was sent to, and
\* holds there (what its author may still write back is NotResurrected's subject).
Retracts ==
  \A t \in Tombstones : \A d \in Founders \ (SendOnly \cup {Author[t], Author[Target[t]]}) :
    (t \in born) ~> [](local[d][Target[t]] = "absent")

=============================================================================
