-------------------------- MODULE SpaceKeysProofs --------------------------
(***************************************************************************)
(* What SpaceKeys promises for every set of devices and keys, and however  *)
(* many faults: the shapes of its tables, the facts the rest of the        *)
(* rotation protocol leans on, and, each under the condition it needs and  *)
(* names, what rotation is for.                                            *)
(***************************************************************************)
EXTENDS SpaceKeys, TLAPS

(***************************************************************************)
(* Lemmas on the keyring operators.                                        *)
(***************************************************************************)
\* withEpoch and Merged return keyrings (keyring.ts, rekey.ts).
LEMMA WithEpochType ==
  ASSUME NEW ring \in SUBSET Entries, NEW e \in Epochs, NEW k \in Keys
  PROVE  withEpoch(ring, e, k) \in SUBSET Entries
BY DEF withEpoch, Entry, Entries

LEMMA MergedType ==
  ASSUME NEW ring \in SUBSET Entries, NEW rows \in SUBSET Rows
  PROVE  Merged(ring, rows) \in SUBSET Entries
BY DEF Merged, Entry, Entries, Rows

\* Idle and Dead are task records.
LEMMA RestTypes == ASSUME SpaceAssumption PROVE Idle \in Tasks /\ Dead \in Tasks
BY DEF SpaceAssumption, Idle, Dead, Tasks, Phases

\* Moving one task of a device keeps every task a task.
LEMMA BecomeType ==
  ASSUME TypeOK, NEW d \in Devices, NEW kind \in Kinds, NEW t \in Tasks, Become(d, kind, t)
  PROVE  task' \in [Devices -> [Kinds -> Tasks]]
BY DEF TypeOK, Become

\* Answering a call keeps the calls calls.
LEMMA AnswerType ==
  ASSUME TypeOK, NEW q \in requests, NEW code \in Answers, Answer(q, code)
  PROVE  requests' \subseteq Calls
BY DEF TypeOK, Answer, Calls, Answers

\* What TypeOK says of one task and of one call.
LEMMA TaskType ==
  ASSUME TypeOK, NEW d \in Devices, NEW kind \in Kinds
  PROVE  /\ task[d][kind] \in Tasks
         /\ task[d][kind].ring \in SUBSET Entries /\ task[d][kind].rows \in SUBSET Rows
BY DEF TypeOK, Tasks

LEMMA CallType ==
  ASSUME TypeOK, NEW q \in requests
  PROVE  /\ q.by \in Devices /\ q.kind \in Kinds /\ q.key \in Keys /\ q.epoch \in Epochs
         /\ q.wraps \subseteq Devices /\ q.try \in Nat
         /\ \A s \in {"sent", "authed", "checked"} \cup Answers : [q EXCEPT !.stage = s] \in Calls
BY DEF TypeOK, Calls

\* Posting a call again counts one more try.
LEMMA RetryType ==
  ASSUME TypeOK, NEW q \in requests
  PROVE  [q EXCEPT !.stage = "sent", !.try = q.try + 1] \in Calls
<1>1. [q EXCEPT !.stage = "sent"] \in Calls
  BY CallType
<1>2. ASSUME NEW c \in Calls, NEW n \in Nat PROVE [c EXCEPT !.try = n] \in Calls
  BY DEF Calls
<1>3. q.try + 1 \in Nat
  BY CallType
<1> QED
  BY <1>1, <1>2, <1>3

(***************************************************************************)
(* Type correctness, action by action.                                     *)
(***************************************************************************)
LEMMA InitType == SpaceAssumption /\ Init => TypeOK
<1> SUFFICES ASSUME SpaceAssumption, Init PROVE TypeOK
  OBVIOUS
<1>1. Entry(INITIAL_KEY_EPOCH, FirstKey) \in Entries
  BY DEF SpaceAssumption, Entry, Entries, INITIAL_KEY_EPOCH, Epochs
<1>2. task \in [Devices -> [Kinds -> Tasks]]
  BY RestTypes DEF Init
<1> QED
  BY <1>1, <1>2 DEF Init, TypeOK, SpaceAssumption, INITIAL_KEY_EPOCH, Epochs

LEMMA SyncType ==
  ASSUME SpaceAssumption, TypeOK, NEW d \in Devices, Sync(d) \/ AckKeyFails(d) \/ Reload(d)
  PROVE  TypeOK'
<1> DEFINE t == task[d]["sync"]
<1>0. "sync" \in Kinds /\ Idle \in Tasks /\ Dead \in Tasks
  BY RestTypes DEF Kinds
<1>t. t \in Tasks /\ t.ring \in SUBSET Entries /\ t.rows \in SUBSET Rows
  BY <1>0, TaskType
<1>1. CASE SyncBegin(d)
  <2>1. [Idle EXCEPT !.phase = "begun", !.ring = keyring[d]] \in Tasks
    BY <1>0 DEF TypeOK, Tasks, Phases
  <2>2. task' \in [Devices -> [Kinds -> Tasks]]
    BY <1>0, <1>1, <2>1, BecomeType DEF SyncBegin
  <2> QED
    BY <1>1, <2>2 DEF SyncBegin, TypeOK, server, history
<1>2. CASE PendingMessages(d)
  <2>1. [t EXCEPT !.phase = "polled", !.rows = {x \in kd : x.device = d},
                  !.due = rotationPending] \in Tasks
    BY <1>t DEF TypeOK, Tasks, Phases
  <2>2. task' \in [Devices -> [Kinds -> Tasks]]
    BY <1>0, <1>2, <2>1, BecomeType DEF PendingMessages
  <2> QED
    BY <1>2, <2>2 DEF PendingMessages, TypeOK, server, history
<1>3. CASE AdoptPendingKeys(d)
  <2>1. Merged(t.ring, t.rows) \in SUBSET Entries
    BY <1>t, MergedType
  <2>2. [t EXCEPT !.phase = "saved", !.ring = Merged(t.ring, t.rows)] \in Tasks
    BY <1>t, <2>1 DEF Tasks, Phases
  <2>3. task' \in [Devices -> [Kinds -> Tasks]]
    BY <1>0, <1>3, <2>2, BecomeType DEF AdoptPendingKeys
  <2> QED
    BY <1>3, <2>1, <2>3 DEF AdoptPendingKeys, TypeOK, server, history
<1>4. ASSUME NEW e \in Highest(t.rows), AckBatch(d, e)
      PROVE  (groupEpoch \in Epochs /\ rotationPending \in BOOLEAN
              /\ status \in [Devices -> {"new", "active", "revoked"}]
              /\ keyEpoch \in [Devices -> Epochs] /\ kd \subseteq Rows)'
  <2>1. e \in Epochs
    BY <1>t DEF Highest, EpochsOf, Rows
  <2> QED
    BY <1>4, <2>1 DEF AckBatch, TypeOK
<1>5. CASE AckKey(d)
  <2>1. PICK e \in Highest(t.rows) :
          IF AckAccepted(d, e)
          THEN /\ AckBatch(d, e)
               /\ keyring' = [keyring EXCEPT ![d] = t.ring]
               /\ Become(d, "sync", [t EXCEPT !.phase = "adopted", !.rows = {}])
          ELSE /\ Become(d, "sync", IF status[d] = "active" THEN Idle ELSE Dead)
               /\ UNCHANGED <<server, keyring>>
    BY <1>5 DEF AckKey
  <2>2. [t EXCEPT !.phase = "adopted", !.rows = {}] \in Tasks
    BY <1>t DEF Tasks, Phases
  <2>3. task' \in [Devices -> [Kinds -> Tasks]]
    BY <1>0, <2>1, <2>2, BecomeType
  <2>4. UNCHANGED <<requests, revoking, pairings, stored, history, faults>>
    BY <1>5 DEF AckKey
  <2>5. CASE AckAccepted(d, e)
    BY <1>4, <1>t, <2>1, <2>3, <2>4, <2>5 DEF TypeOK, history
  <2>6. CASE ~AckAccepted(d, e)
    BY <2>1, <2>3, <2>4, <2>6 DEF TypeOK, server, history
  <2> QED
    BY <2>5, <2>6
<1>6. CASE AckKeyFails(d)
  <2>1. task' \in [Devices -> [Kinds -> Tasks]]
    BY <1>0, <1>6, BecomeType DEF AckKeyFails
  <2>2. UNCHANGED <<requests, revoking, pairings, keyring, stored, history>> /\ faults' \in Nat
    BY <1>6 DEF AckKeyFails, TypeOK
  <2>3. CASE UNCHANGED server
    BY <2>1, <2>2, <2>3 DEF TypeOK, server, history
  <2>4. CASE \E e \in Highest(t.rows) : AckAccepted(d, e) /\ AckBatch(d, e)
    BY <1>4, <2>1, <2>2, <2>4 DEF TypeOK, history
  <2> QED
    BY <1>6, <2>3, <2>4 DEF AckKeyFails
<1>7. CASE SyncEnd(d)
  <2>1. task' \in [Devices -> [Kinds -> Tasks]]
    BY <1>0, <1>7, BecomeType DEF SyncEnd
  <2> QED
    BY <1>7, <2>1 DEF SyncEnd, TypeOK, server, history
<1>8. CASE Reload(d)
  <2>1. task' \in [Devices -> [Kinds -> Tasks]]
    BY <1>0, <1>8 DEF Reload, TypeOK
  <2>2. requests' \subseteq Calls
    BY <1>8 DEF Reload, Unanswered, TypeOK
  <2> QED
    BY <1>8, <2>1, <2>2 DEF Reload, TypeOK, server, history
<1> QED
  BY <1>1, <1>2, <1>3, <1>5, <1>6, <1>7, <1>8 DEF Sync

LEMMA RotationType ==
  ASSUME SpaceAssumption, TypeOK, NEW d \in Devices, NEW kind \in Kinds,
         Rotation(d, kind) \/ RotateConnectionLost(d, kind)
  PROVE  TypeOK'
<1> DEFINE t == task[d][kind]
<1>0. Idle \in Tasks /\ Dead \in Tasks
  BY RestTypes
<1>t. t \in Tasks /\ t.ring \in SUBSET Entries
  BY TaskType
<1>1. CASE RotateGroupKey(d, kind)
  <2> DEFINE call(k) == [by |-> d, kind |-> kind, key |-> k, epoch |-> groupEpoch + 1,
                         wraps |-> Active \ {d}, try |-> 1, stage |-> "sent"]
             out(k)  == [Idle EXCEPT !.phase = "rotating", !.ring = t.ring,
                                     !.epoch = groupEpoch + 1, !.key = k, !.try = 1]
  <2>1. PICK k \in Keys : /\ requests' = requests \cup {call(k)}
                          /\ Become(d, kind, out(k))
    BY <1>1 DEF RotateGroupKey
  <2>2. call(k) \in Calls
    BY DEF Calls, TypeOK, Active, Epochs
  <2>3. out(k) \in Tasks
    <3>1. groupEpoch + 1 \in Nat /\ k \in Keys /\ 1 \in Nat /\ "rotating" \in Phases
      BY DEF TypeOK, Epochs, Phases
    <3> QED
      BY <1>0, <1>t, <3>1 DEF Tasks
  <2>4. task' \in [Devices -> [Kinds -> Tasks]]
    BY <2>1, <2>3, BecomeType
  <2>5. requests' \subseteq Calls
    BY <2>1, <2>2 DEF TypeOK
  <2> QED
    BY <1>1, <2>4, <2>5 DEF RotateGroupKey, TypeOK, server, history
<1>2. CASE RotateNothingDue(d, kind)
  <2>1. task' \in [Devices -> [Kinds -> Tasks]]
    BY <1>0, <1>2, BecomeType DEF RotateNothingDue
  <2> QED
    BY <1>2, <2>1 DEF RotateNothingDue, TypeOK, server, history
<1>3. CASE RotateAnswered(d, kind)
  <2>1. PICK q \in requests :
          IF q.stage = "error" /\ q.try < MaxTries
          THEN /\ requests' = (requests \ {q})
                                \cup {[q EXCEPT !.stage = "sent", !.try = q.try + 1]}
               /\ Become(d, kind, [t EXCEPT !.try = q.try + 1])
               /\ UNCHANGED <<keyring, stored>>
          ELSE /\ requests' = requests \ {q}
               /\ Become(d, kind, Idle)
               /\ IF q.stage = "ok"
                  THEN /\ stored' = [stored EXCEPT ![d] = withEpoch(t.ring, q.epoch, q.key)]
                       /\ keyring' = [keyring EXCEPT ![d] = withEpoch(t.ring, q.epoch, q.key)]
                  ELSE UNCHANGED <<keyring, stored>>
    BY <1>3 DEF RotateAnswered
  <2>2. [q EXCEPT !.stage = "sent", !.try = q.try + 1] \in Calls /\ requests \subseteq Calls
    BY RetryType DEF TypeOK
  <2>3. [t EXCEPT !.try = q.try + 1] \in Tasks
    BY <1>t, CallType DEF Tasks
  <2>4. withEpoch(t.ring, q.epoch, q.key) \in SUBSET Entries
    BY <1>t, CallType, WithEpochType
  <2>5. task' \in [Devices -> [Kinds -> Tasks]] /\ requests' \subseteq Calls
    BY <1>0, <2>1, <2>2, <2>3, BecomeType
  <2>6. keyring' \in [Devices -> SUBSET Entries] /\ stored' \in [Devices -> SUBSET Entries]
    BY <2>1, <2>4, ZenonT(90) DEF TypeOK
  <2> QED
    BY <1>3, <2>5, <2>6 DEF RotateAnswered, TypeOK, server, history
<1>4. CASE RotateConnectionLost(d, kind)
  <2>1. Unanswered(d, {kind}) \subseteq Calls
    BY DEF Unanswered, TypeOK
  <2>2. ASSUME NEW q \in requests
        PROVE  [q EXCEPT !.stage = "sent", !.try = q.try + 1] \in Calls
    BY RetryType
  <2>3. [t EXCEPT !.try = t.try + 1] \in Tasks
    BY <1>t DEF Tasks
  <2>4. task' \in [Devices -> [Kinds -> Tasks]]
    BY <1>0, <1>4, <2>3, BecomeType DEF RotateConnectionLost
  <2>5. requests' \subseteq Calls
    BY <1>4, <2>1, <2>2 DEF RotateConnectionLost
  <2>6. faults' \in Nat
    <3>1. faults \in Nat
      BY DEF TypeOK
    <3>2. faults' = faults + 1
      BY <1>4 DEF RotateConnectionLost
    <3> QED
      BY <3>1, <3>2
  <2> QED
    BY <1>4, <2>4, <2>5, <2>6 DEF RotateConnectionLost, TypeOK, server, history
<1> QED
  BY <1>1, <1>2, <1>3, <1>4 DEF Rotation

LEMMA RotateKeyType ==
  ASSUME SpaceAssumption, TypeOK, NEW q \in requests, RotateKey(q)
  PROVE  TypeOK'
<1>1. q.by \in Devices /\ q.epoch \in Epochs /\ q.key \in Keys /\ q.wraps \subseteq Devices
  BY CallType
<1>2. ASSUME NEW code \in Answers, Answer(q, code) PROVE requests' \subseteq Calls
  BY <1>2, AnswerType
<1>3. ASSUME NEW s \in {"authed", "checked"},
             requests' = (requests \ {q}) \cup {[q EXCEPT !.stage = s]}
      PROVE  requests' \subseteq Calls
  BY <1>3, CallType, ZenonT(90) DEF TypeOK
<1>4. CASE RotateKeyAuth(q)
  <2>1. requests' \subseteq Calls
    BY <1>2, <1>3, <1>4 DEF RotateKeyAuth, Answers
  <2> QED
    BY <1>4, <2>1 DEF RotateKeyAuth, TypeOK, server, client, history
<1>5. CASE RotateKeyCheck(q)
  <2>1. requests' \subseteq Calls
    BY <1>2, <1>3, <1>5 DEF RotateKeyCheck, Answers
  <2> QED
    BY <1>5, <2>1 DEF RotateKeyCheck, TypeOK, server, client, history
<1>6. CASE RotateKeyBatch(q)
  <2>1. requests' \subseteq Calls
    BY <1>2, <1>6 DEF RotateKeyBatch, Answers
  <2>2. UNCHANGED <<revoking, pairings, client, revokedAt, faults>>
    BY <1>6 DEF RotateKeyBatch
  <2>3. CASE PrimaryKeyTaken(q)
    BY <1>6, <2>1, <2>2, <2>3 DEF RotateKeyBatch, TypeOK, server, client
  <2>4. CASE ~PrimaryKeyTaken(q)
    <3>1. Deposited(q) \subseteq Rows
      BY <1>1 DEF Deposited, Row, Rows
    <3>2. EpochAfterOwnUpdate(q) \in Epochs
      BY <1>1 DEF EpochAfterOwnUpdate, TypeOK
    <3>3. kd' \subseteq Rows /\ keyEpoch' \in [Devices -> Epochs] /\ status' = status
      BY <1>6, <2>4, <3>1, <3>2 DEF RotateKeyBatch, TypeOK
    <3>4. Entry(q.epoch, q.key) \in Entries
      BY <1>1 DEF Entry, Entries
    <3>5. groupEpoch' \in Epochs /\ rotationPending' \in BOOLEAN /\ committed' \subseteq Entries
      BY <1>1, <1>6, <2>4, <3>4 DEF RotateKeyBatch, TypeOK
    <3> QED
      BY <2>1, <2>2, <3>3, <3>5 DEF TypeOK, client
  <2> QED
    BY <2>3, <2>4
<1> QED
  BY <1>4, <1>5, <1>6 DEF RotateKey

LEMMA RosterType ==
  ASSUME SpaceAssumption, TypeOK,
         \/ \E d, other \in Devices : RevokeAuth(d, other) \/ PairAuth(d, other)
         \/ \E r \in revoking : RevokeBatch(r)
         \/ \E p \in pairings : PairBatch(p)
  PROVE  TypeOK'
<1>0. Idle \in Tasks
  BY RestTypes
<1>1. ASSUME NEW d \in Devices, NEW target \in Devices, RevokeAuth(d, target) PROVE TypeOK'
  <2>1. [Idle EXCEPT !.phase = "revoking"] \in Tasks /\ "revoke" \in Kinds
    BY <1>0 DEF Tasks, Phases, Kinds
  <2>2. task' \in [Devices -> [Kinds -> Tasks]]
    BY <1>1, <2>1, BecomeType DEF RevokeAuth
  <2> QED
    BY <1>1, <2>2 DEF RevokeAuth, TypeOK, server, history
<1>2. ASSUME NEW d \in Devices, NEW joiner \in Devices, PairAuth(d, joiner) PROVE TypeOK'
  <2>1. pairings' \subseteq [joiner : Devices, epoch : Epochs, key : Keys]
    BY <1>2 DEF PairAuth, TypeOK, Current, Entries
  <2> QED
    BY <1>2, <2>1 DEF PairAuth, TypeOK, server, client, history
<1>3. ASSUME NEW r \in revoking, RevokeBatch(r) PROVE TypeOK'
  <2>1. r.by \in Devices /\ r.target \in Devices /\ "revoke" \in Kinds
    BY DEF TypeOK, Kinds
  <2>2. [Idle EXCEPT !.phase = "due", !.ring = keyring[r.by]] \in Tasks
    BY <1>0, <2>1 DEF Tasks, Phases, TypeOK
  <2>3. task' \in [Devices -> [Kinds -> Tasks]]
    BY <1>3, <2>1, <2>2, BecomeType DEF RevokeBatch, TypeOK
  <2> QED
    BY <1>3, <2>1, <2>3 DEF RevokeBatch, TypeOK, Epochs
<1>4. ASSUME NEW p \in pairings, PairBatch(p) PROVE TypeOK'
  <2>1. p.joiner \in Devices /\ p.epoch \in Epochs /\ Entry(p.epoch, p.key) \in Entries
    BY DEF TypeOK, Entry, Entries
  <2>2. status' \in [Devices -> {"new", "active", "revoked"}] /\ keyEpoch' \in [Devices -> Epochs]
    BY <1>4, <2>1, ZenonT(90) DEF PairBatch, TypeOK
  <2>3. {Entry(p.epoch, p.key)} \in SUBSET Entries
    BY <2>1
  <2>4. keyring' \in [Devices -> SUBSET Entries] /\ stored' \in [Devices -> SUBSET Entries]
    <3>1. CASE groupEpoch = p.epoch /\ status[p.joiner] = "new"
      <4>1. /\ keyring' = [keyring EXCEPT ![p.joiner] = {Entry(p.epoch, p.key)}]
            /\ stored' = [stored EXCEPT ![p.joiner] = {Entry(p.epoch, p.key)}]
        BY <1>4, <3>1 DEF PairBatch
      <4>2. keyring \in [Devices -> SUBSET Entries] /\ stored \in [Devices -> SUBSET Entries]
        BY DEF TypeOK
      <4> QED
        BY <2>3, <4>1, <4>2
    <3>2. CASE ~(groupEpoch = p.epoch /\ status[p.joiner] = "new")
      BY <1>4, <3>2 DEF PairBatch, TypeOK
    <3> QED
      BY <3>1, <3>2
  <2>5. pairings' \subseteq [joiner : Devices, epoch : Epochs, key : Keys]
    BY <1>4 DEF PairBatch, TypeOK
  <2>6. UNCHANGED <<groupEpoch, rotationPending, kd, requests, revoking, task, committed,
                    revokedAt, faults>>
    BY <1>4 DEF PairBatch, history
  <2> QED
    BY <2>2, <2>4, <2>5, <2>6 DEF TypeOK
<1> QED
  BY <1>1, <1>2, <1>3, <1>4

\* Every step keeps them.
LEMMA TypeInductive == ASSUME SpaceAssumption, TypeOK, [Next]_vars PROVE TypeOK'
<1>1. CASE Next
  BY <1>1, SyncType, RotationType, RotateKeyType, RosterType DEF Next
<1>2. CASE UNCHANGED vars
  BY <1>2 DEF vars, server, client, history, TypeOK
<1> QED
  BY <1>1, <1>2

\* The tables, calls, keyrings and tasks always have the shapes the code gives
\* them, for every roster, key set and number of faults.
THEOREM SpaceKeysTypeCorrect == Spec => []TypeOK
<1>1. Init => TypeOK
  BY InitType, SpaceAssumption
<1>2. TypeOK /\ [Next]_vars => TypeOK'
  BY TypeInductive, SpaceAssumption
<1> QED
  BY <1>1, <1>2, PTL DEF Spec

(***************************************************************************)
(* The steps that touch the server's tables: everything else a client or a *)
(* handler does leaves them, and the history of winners, as they were.     *)
(***************************************************************************)
\* An ack, a rotation's batch, a revocation's and a pairing's are all there is.
LEMMA ServerSteps ==
  ASSUME TypeOK, Next
  PROVE  \/ UNCHANGED <<server, committed>>
         \/ \E d \in Devices : \E e \in Epochs : AckBatch(d, e) /\ UNCHANGED committed
         \/ \E q \in requests : RotateKeyBatch(q)
         \/ \E r \in revoking : RevokeBatch(r)
         \/ \E p \in pairings : PairBatch(p)
<1> DEFINE Quiet == UNCHANGED <<server, committed>>
           Acked == \E d \in Devices : \E e \in Epochs : AckBatch(d, e) /\ UNCHANGED committed
<1>1. ASSUME NEW d \in Devices, NEW e \in Highest(task[d]["sync"].rows) PROVE e \in Epochs
  <2>1. task[d]["sync"].rows \in SUBSET Rows
    BY TaskType DEF Kinds
  <2> QED
    BY <2>1 DEF Highest, EpochsOf, Rows
<1>2. ASSUME NEW d \in Devices, AckKey(d) PROVE Quiet \/ Acked
  <2>1. UNCHANGED committed
    BY <1>2 DEF AckKey, history
  <2>2. PICK e \in Highest(task[d]["sync"].rows) :
          (AckAccepted(d, e) /\ AckBatch(d, e)) \/ (~AckAccepted(d, e) /\ UNCHANGED server)
    BY <1>2 DEF AckKey
  <2> QED
    BY <1>1, <2>1, <2>2
<1>3. ASSUME NEW d \in Devices, AckKeyFails(d) PROVE Quiet \/ Acked
  <2>1. UNCHANGED committed
    BY <1>3 DEF AckKeyFails, history
  <2>2. \/ \E e \in Highest(task[d]["sync"].rows) : AckBatch(d, e)
        \/ UNCHANGED server
    BY <1>3 DEF AckKeyFails
  <2> QED
    BY <1>1, <2>1, <2>2
<1>4. ASSUME NEW d \in Devices, Sync(d) \/ AckKeyFails(d) \/ Reload(d) PROVE Quiet \/ Acked
  BY <1>2, <1>3, <1>4
     DEF Sync, SyncBegin, PendingMessages, AdoptPendingKeys, SyncEnd, Reload, history
<1>5. ASSUME NEW d \in Devices, NEW kind \in Kinds,
             Rotation(d, kind) \/ RotateConnectionLost(d, kind)
      PROVE  Quiet
  BY <1>5 DEF Rotation, RotateGroupKey, RotateNothingDue, RotateAnswered,
              RotateConnectionLost, history
<1>6. ASSUME NEW q \in requests, RotateKey(q) PROVE Quiet \/ RotateKeyBatch(q)
  BY <1>6 DEF RotateKey, RotateKeyAuth, RotateKeyCheck, history
<1>7. ASSUME NEW d \in Devices, NEW o \in Devices, RevokeAuth(d, o) \/ PairAuth(d, o) PROVE Quiet
  BY <1>7 DEF RevokeAuth, PairAuth, history
<1> QED
  BY <1>4, <1>5, <1>6, <1>7 DEF Next

(***************************************************************************)
(* Wrapped keys wait for active devices only.                              *)
(***************************************************************************)
LEMMA WrapsInductive ==
  ASSUME TypeOK, WrapsOnlyForActive, [Next]_vars
  PROVE  WrapsOnlyForActive'
<1>1. CASE UNCHANGED <<server, committed>>
  BY <1>1 DEF server, WrapsOnlyForActive
<1>2. ASSUME NEW d \in Devices, NEW e \in Epochs, AckBatch(d, e) PROVE WrapsOnlyForActive'
  BY <1>2 DEF AckBatch, WrapsOnlyForActive
<1>3. ASSUME NEW q \in requests, RotateKeyBatch(q) PROVE WrapsOnlyForActive'
  <2>1. status' = status /\ kd' \subseteq kd \cup Deposited(q)
    BY <1>3 DEF RotateKeyBatch, server
  <2>2. \A x \in Deposited(q) : status[x.device] = "active"
    BY DEF Deposited, Row, Active
  <2> QED
    BY <2>1, <2>2 DEF WrapsOnlyForActive
<1>4. ASSUME NEW r \in revoking, RevokeBatch(r) PROVE WrapsOnlyForActive'
  BY <1>4 DEF RevokeBatch, WrapsOnlyForActive, TypeOK, Rows
<1>5. ASSUME NEW p \in pairings, PairBatch(p) PROVE WrapsOnlyForActive'
  <2>1. kd' = kd /\ \A d \in Devices : status[d] = "active" => status'[d] = "active"
    BY <1>5 DEF PairBatch, TypeOK
  <2> QED
    BY <2>1 DEF WrapsOnlyForActive, TypeOK, Rows
<1>6. CASE UNCHANGED vars
  BY <1>1, <1>6 DEF vars, history
<1> QED
  BY <1>1, <1>2, <1>3, <1>4, <1>5, <1>6, ServerSteps

\* Whatever the order of the rotations', revocations', acks' and pairings' batches,
\* no wrapped key ever waits for a device that is not active.
THEOREM SpaceKeysWrapsOnlyForActive == Spec => []WrapsOnlyForActive
<1>1. Init => WrapsOnlyForActive
  BY DEF Init, WrapsOnlyForActive
<1> QED
  BY <1>1, WrapsInductive, SpaceKeysTypeCorrect, PTL DEF Spec

(***************************************************************************)
(* One key per epoch.  Alone it is not inductive: a winner could reuse an  *)
(* epoch of the past.  With the fact that no winner is ahead of the group, *)
(* the compare-and-swap (epoch = group + 1) makes every winner's epoch new.*)
(***************************************************************************)
WinnersNotAhead == \A x \in committed : x.epoch <= groupEpoch
OneKeyInv == WinnersNotAhead /\ OneKeyPerEpoch

\* What the batch of rotateKey does to the group's epoch and to the winners.
LEMMA RotationOutcome ==
  ASSUME TypeOK, NEW q \in requests, RotateKeyBatch(q)
  PROVE  \/ UNCHANGED <<groupEpoch, rotationPending, committed>>
         \/ /\ groupEpoch' = groupEpoch + 1 /\ q.epoch = groupEpoch + 1
            /\ rotationPending /\ ~rotationPending'
            /\ committed' = committed \cup {Entry(q.epoch, q.key)}
<1>1. q.epoch \in Epochs /\ groupEpoch \in Epochs
  BY CallType DEF TypeOK
<1>2. CASE ~PrimaryKeyTaken(q) /\ SwapSucceeds(q)
  <2>1. /\ groupEpoch' = q.epoch /\ rotationPending' = FALSE
        /\ committed' = committed \cup {Entry(q.epoch, q.key)}
    BY <1>2 DEF RotateKeyBatch
  <2>2. groupEpoch = q.epoch - 1 /\ rotationPending
    BY <1>2 DEF SwapSucceeds
  <2>3. q.epoch = groupEpoch + 1
    BY <1>1, <2>2 DEF Epochs
  <2> QED
    BY <2>1, <2>2, <2>3, Zenon
<1>3. CASE PrimaryKeyTaken(q) \/ ~SwapSucceeds(q)
  BY <1>3 DEF RotateKeyBatch, server
<1> QED
  BY <1>2, <1>3

\* The other steps leave the group's epoch and the winners alone.
LEMMA EpochSteps ==
  ASSUME TypeOK, [Next]_vars
  PROVE  \/ UNCHANGED <<groupEpoch, committed>>
         \/ \E q \in requests : RotateKeyBatch(q)
<1>1. CASE UNCHANGED vars
  BY <1>1 DEF vars, server, history
<1>2. CASE Next
  BY <1>2, ServerSteps DEF server, AckBatch, RevokeBatch, PairBatch, history
<1> QED
  BY <1>1, <1>2

LEMMA OneKeyInductive == ASSUME TypeOK, OneKeyInv, [Next]_vars PROVE OneKeyInv'
<1>1. CASE UNCHANGED <<groupEpoch, committed>>
  BY <1>1 DEF OneKeyInv, WinnersNotAhead, OneKeyPerEpoch
<1>2. ASSUME NEW q \in requests, RotateKeyBatch(q) PROVE OneKeyInv'
  <2>1. CASE UNCHANGED <<groupEpoch, rotationPending, committed>>
    BY <1>1, <2>1
  <2>2. CASE /\ groupEpoch' = groupEpoch + 1 /\ q.epoch = groupEpoch + 1
             /\ committed' = committed \cup {Entry(q.epoch, q.key)}
    <3>1. groupEpoch \in Nat /\ \A x \in committed : x.epoch \in Nat
      BY DEF TypeOK, Entries, Epochs
    <3>2. Entry(q.epoch, q.key).epoch = groupEpoch + 1
      BY <2>2 DEF Entry
    <3>3. \A x \in committed : x.epoch # groupEpoch + 1 /\ x.epoch <= groupEpoch + 1
      BY <3>1 DEF OneKeyInv, WinnersNotAhead
    <3>4. WinnersNotAhead'
      BY <2>2, <3>1, <3>2, <3>3 DEF WinnersNotAhead
    <3>5. OneKeyPerEpoch'
      BY <2>2, <3>2, <3>3 DEF OneKeyInv, OneKeyPerEpoch
    <3> QED
      BY <3>4, <3>5 DEF OneKeyInv
  <2> QED
    BY <1>2, <2>1, <2>2, RotationOutcome
<1> QED
  BY <1>1, <1>2, EpochSteps

\* Two rotations never both win an epoch, whoever races whom and whatever is
\* retried (keys.ts, the guarded UPDATE of groups.key_epoch).
THEOREM SpaceKeysOneKeyPerEpoch == Spec => []OneKeyPerEpoch
<1>1. Init => OneKeyInv
  BY DEF Init, OneKeyInv, WinnersNotAhead, OneKeyPerEpoch, Entry, INITIAL_KEY_EPOCH
<1>2. OneKeyInv => OneKeyPerEpoch
  BY DEF OneKeyInv
<1> QED
  BY <1>1, <1>2, OneKeyInductive, SpaceKeysTypeCorrect, PTL DEF Spec

\* The group's epoch moves by exactly one and only to settle an owed rotation
\* (migrations/0005, "bumped by exactly one per rotation").
THEOREM SpaceKeysEpochBySteps == Spec => EpochBySteps
<1>1. ASSUME TypeOK, [Next]_vars
      PROVE  [groupEpoch' # groupEpoch =>
                groupEpoch' = groupEpoch + 1 /\ rotationPending /\ ~rotationPending']_vars
  BY <1>1, EpochSteps, RotationOutcome
<1> QED
  BY <1>1, SpaceKeysTypeCorrect, PTL DEF Spec, EpochBySteps

(***************************************************************************)
(* Who joins.                                                              *)
(***************************************************************************)
\* A device is registered by the batch of completePairing only, which asks that the epoch
\* is still the one of the key it was handed (pairing.ts, "never be registered with a
\* stale wrapped key"), whatever rotations are on their way.
THEOREM SpaceKeysJoinsAtCurrentEpoch == Spec => JoinsAtCurrentEpoch
<1>1. ASSUME TypeOK, [Next]_vars, NEW d \in Devices, status[d] = "new", status'[d] = "active"
      PROVE  keyEpoch'[d] = groupEpoch' /\ EpochsOf(stored'[d]) = {groupEpoch'}
  <2>1. ASSUME NEW p \in pairings, PairBatch(p)
        PROVE  keyEpoch'[d] = groupEpoch' /\ EpochsOf(stored'[d]) = {groupEpoch'}
    <3>1. p.joiner = d /\ groupEpoch = p.epoch
      BY <1>1, <2>1 DEF PairBatch, TypeOK
    <3>2. keyEpoch'[d] = groupEpoch' /\ stored'[d] = {Entry(p.epoch, p.key)}
      BY <1>1, <2>1, <3>1 DEF PairBatch, TypeOK
    <3> QED
      BY <3>1, <3>2, <2>1 DEF PairBatch, EpochsOf, Entry
  <2>2. ASSUME NEW r \in revoking, RevokeBatch(r) PROVE FALSE
    BY <1>1, <2>2 DEF RevokeBatch, TypeOK
  <2>3. ASSUME UNCHANGED status PROVE FALSE
    BY <1>1, <2>3
  <2>4. CASE Next
    BY <1>1, <2>1, <2>2, <2>3, <2>4, ServerSteps DEF server, AckBatch, RotateKeyBatch
  <2> QED
    BY <1>1, <2>3, <2>4 DEF vars, server
<1>2. TypeOK /\ [Next]_vars
        => [\A d \in Devices : status[d] = "new" /\ status'[d] = "active" =>
              keyEpoch'[d] = groupEpoch' /\ EpochsOf(stored'[d]) = {groupEpoch'}]_vars
  BY <1>1
<1> QED
  BY <1>2, SpaceKeysTypeCorrect, PTL DEF Spec, JoinsAtCurrentEpoch

(***************************************************************************)
(* The tables and the calls.                                               *)
(***************************************************************************)
\* A wrap is of an epoch the group has reached, or of the next one; a device has one of
\* an epoch.
MailAhead  == \A x \in kd : x.epoch <= groupEpoch + 1
MailKey    == \A x, y \in kd : x.device = y.device /\ x.epoch = y.epoch => x = y
TableInv   == MailAhead /\ MailKey

\* A batch deposits one wrap of the next epoch for a device that has none of it.
LEMMA DepositsNext ==
  ASSUME TypeOK, NEW q \in requests, NEW x \in Deposited(q)
  PROVE  /\ x.epoch = q.epoch /\ x.key = q.key /\ x.epoch = groupEpoch + 1 /\ x \in Rows
         /\ x.device \in q.wraps /\ x.device \in Active
         /\ ~PrimaryKeyTaken(q) => \A y \in kd : y.device = x.device => y.epoch # x.epoch
<1>1. q.epoch \in Epochs /\ q.key \in Keys /\ groupEpoch \in Epochs
  BY CallType DEF TypeOK
<1>2. PICK d \in q.wraps \cap Active : x = Row(d, q.epoch, q.key) /\ groupEpoch = q.epoch - 1
  BY DEF Deposited
<1>3. d \in Devices /\ x.device = d /\ x.epoch = q.epoch /\ x.key = q.key
  BY <1>2 DEF Row, Active
<1>4. x.epoch = groupEpoch + 1
  BY <1>1, <1>2, <1>3 DEF Epochs
<1>5. x \in Rows
  BY <1>1, <1>2, <1>3 DEF Row, Rows
<1> QED
  BY <1>2, <1>3, <1>4, <1>5 DEF PrimaryKeyTaken

\* What the batch of a rotation does to the mailboxes.
LEMMA BatchMail ==
  ASSUME TypeOK, NEW q \in requests, RotateKeyBatch(q)
  PROVE  kd' = kd \/ (~PrimaryKeyTaken(q) /\ kd' = kd \cup Deposited(q))
BY DEF RotateKeyBatch, server

LEMMA TableStep == ASSUME TypeOK, TableInv, [Next]_vars PROVE TableInv'
<1>0. groupEpoch \in Epochs /\ groupEpoch' \in Nat /\ groupEpoch <= groupEpoch'
      /\ \A x \in kd : x.epoch \in Epochs
  BY EpochSteps, RotationOutcome DEF TypeOK, Epochs, Rows
<1>1. ASSUME kd' \subseteq kd PROVE TableInv'
  BY <1>0, <1>1 DEF TableInv, MailAhead, MailKey, Epochs
<1>2. ASSUME NEW q \in requests, RotateKeyBatch(q) PROVE TableInv'
  <2>1. CASE ~PrimaryKeyTaken(q) /\ kd' = kd \cup Deposited(q)
    <3>1. \A x \in Deposited(q) : x.epoch = groupEpoch + 1 /\ \A y \in kd : y.device = x.device => y.epoch # x.epoch
      BY <2>1, DepositsNext
    <3>2. \A x, y \in Deposited(q) : x.device = y.device => x = y
      BY DEF Deposited, Row
    <3>3. MailAhead'
      BY <1>0, <2>1, <3>1 DEF TableInv, MailAhead, Epochs
    <3>4. MailKey'
      BY <2>1, <3>1, <3>2 DEF TableInv, MailKey
    <3> QED
      BY <3>3, <3>4 DEF TableInv
  <2> QED
    BY <1>1, <1>2, <2>1, BatchMail
<1>3. CASE Next
  BY <1>1, <1>2, <1>3, ServerSteps DEF server, AckBatch, RevokeBatch, PairBatch
<1> QED
  BY <1>1, <1>3 DEF vars, server

(***************************************************************************)
(* What a device does to its own keyrings and tasks.                       *)
(***************************************************************************)
\* What a device that is not in the space yet has.
NewIsEmpty ==
  \A d \in Devices : status[d] = "new" =>
    keyring[d] = {} /\ stored[d] = {} /\ \A kind \in Kinds : task[d][kind] = Idle

\* Everything a device does for its keys.
Client(d) ==
  \/ Sync(d) \/ AckKeyFails(d) \/ Reload(d)
  \/ \E kind \in Kinds : Rotation(d, kind) \/ RotateConnectionLost(d, kind)
  \/ \E target \in Devices : RevokeAuth(d, target)

\* Moving one task leaves the others.
LEMMA Becomes ==
  ASSUME TypeOK, NEW d \in Devices, NEW kind \in Kinds, NEW t, Become(d, kind, t)
  PROVE  /\ task'[d][kind] = t
         /\ \A k \in Kinds : k # kind => task'[d][k] = task[d][k]
         /\ \A c \in Devices : c # d => task'[c] = task[c]
BY DEF TypeOK, Become

LEMMA Resting ==
  /\ Idle.phase = "idle" /\ Idle.rows = {} /\ Idle.ring = {}
  /\ Dead.phase = "dead" /\ Dead.rows = {} /\ Dead.ring = {}
  /\ "sync" \in Kinds /\ "revoke" \in Kinds
BY DEF Idle, Dead, Kinds

\* It acts on its own, and once it is in the space.
LEMMA ClientSteps ==
  ASSUME TypeOK, NewIsEmpty, NEW d \in Devices, Client(d)
  PROVE  /\ status[d] # "new" /\ status' = status
         /\ \A c \in Devices \ {d} :
              keyring'[c] = keyring[c] /\ stored'[c] = stored[c] /\ task'[c] = task[c]
<1> DEFINE Kept(c) == keyring'[c] = keyring[c] /\ stored'[c] = stored[c] /\ task'[c] = task[c]
           Right == status[d] # "new" /\ status' = status /\ \A c \in Devices \ {d} : Kept(c)
<1>0. /\ "sync" \in Kinds /\ "revoke" \in Kinds /\ Idle.phase = "idle"
      /\ status[d] = "new" =>
           keyring[d] = {} /\ stored[d] = {} /\ \A kind \in Kinds : task[d][kind].phase = "idle"
  BY Resting DEF NewIsEmpty
<1>1. ASSUME SyncBegin(d) PROVE Right
  BY <1>0, <1>1, Becomes DEF SyncBegin, server
<1>2. ASSUME PendingMessages(d) \/ SyncEnd(d) PROVE Right
  <2>1. task[d]["sync"].phase # "idle" /\ UNCHANGED <<server, keyring, stored>> /\ \E t : Become(d, "sync", t)
    BY <1>2 DEF PendingMessages, SyncEnd, At, KeysSettled
  <2> QED
    BY <1>0, <2>1, Becomes DEF server
<1>3. ASSUME AdoptPendingKeys(d) PROVE Right
  <2>1. task[d]["sync"].phase # "idle" /\ UNCHANGED <<server, keyring>> /\ \E t : Become(d, "sync", t)
    BY <1>3 DEF AdoptPendingKeys
  <2>2. \A c \in Devices \ {d} : stored'[c] = stored[c]
    BY <1>3 DEF AdoptPendingKeys, TypeOK
  <2> QED
    BY <1>0, <2>1, <2>2, Becomes DEF server
<1>4. ASSUME AckKey(d) PROVE Right
  <2>1. /\ task[d]["sync"].phase # "idle" /\ UNCHANGED <<stored, status>>
        /\ \E t : Become(d, "sync", t)
    BY <1>4 DEF AckKey, AckBatch, server
  <2>2. \A c \in Devices \ {d} : keyring'[c] = keyring[c]
    BY <1>4 DEF AckKey, TypeOK
  <2> QED
    BY <1>0, <2>1, <2>2, Becomes
<1>5. ASSUME AckKeyFails(d) PROVE Right
  <2>1. /\ task[d]["sync"].phase # "idle" /\ UNCHANGED <<stored, keyring, status>>
        /\ \E t : Become(d, "sync", t)
    BY <1>5 DEF AckKeyFails, AckBatch, server
  <2> QED
    BY <1>0, <2>1, Becomes
<1>6. ASSUME Reload(d) PROVE Right
  BY <1>0, <1>6 DEF Reload, TypeOK, server
<1>7. ASSUME NEW kind \in Kinds, RotateGroupKey(d, kind) \/ RotateNothingDue(d, kind) PROVE Right
  <2>1. /\ task[d][kind].phase # "idle" /\ UNCHANGED <<stored, keyring, status>>
        /\ \E t : Become(d, kind, t)
    BY <1>7 DEF RotateGroupKey, RotateNothingDue, MayRotate, KeysSettled, At, server
  <2> QED
    BY <1>0, <2>1, Becomes
<1>8. ASSUME NEW kind \in Kinds, RotateAnswered(d, kind) PROVE Right
  <2>1. /\ task[d][kind].phase # "idle" /\ UNCHANGED status
        /\ \E t : Become(d, kind, t)
    BY <1>8 DEF RotateAnswered, server
  <2>2. \A c \in Devices \ {d} : keyring'[c] = keyring[c] /\ stored'[c] = stored[c]
    BY <1>8 DEF RotateAnswered, TypeOK
  <2> QED
    BY <1>0, <2>1, <2>2, Becomes
<1>9. ASSUME NEW kind \in Kinds, RotateConnectionLost(d, kind) PROVE Right
  <2>1. /\ task[d][kind].phase # "idle" /\ UNCHANGED <<status, keyring, stored>>
        /\ \E t : Become(d, kind, t)
    BY <1>9 DEF RotateConnectionLost, server
  <2> QED
    BY <1>0, <2>1, Becomes
<1>10. ASSUME NEW target \in Devices, RevokeAuth(d, target) PROVE Right
  <2>1. /\ status[d] = "active" /\ UNCHANGED <<status, keyring, stored>>
        /\ \E t : Become(d, "revoke", t)
    BY <1>10 DEF RevokeAuth, server, Active
  <2> QED
    BY <1>0, <2>1, Becomes
<1>11. Right
  BY <1>1, <1>2, <1>3, <1>4, <1>5, <1>6, <1>7, <1>8, <1>9, <1>10 DEF Client, Sync, Rotation
<1> QED
  BY <1>11

\* The other steps: calls executing, and pairings checked.
LEMMA Steps ==
  ASSUME Next
  PROVE  \/ \E d \in Devices : Client(d)
         \/ \E q \in requests : RotateKey(q)
         \/ \E d, joiner \in Devices : PairAuth(d, joiner)
         \/ \E r \in revoking : RevokeBatch(r)
         \/ \E p \in pairings : PairBatch(p)
BY DEF Next, Client

\* The batch of a revocation moves the revoke action of the device that called it.
LEMMA RevokeTasks ==
  ASSUME TypeOK, NEW r \in revoking, RevokeBatch(r)
  PROVE  /\ r.by \in Devices /\ r.target \in Devices
         /\ \A c \in Devices : task'[c]["sync"] = task[c]["sync"]
         /\ \A c \in Devices : \/ task'[c]["revoke"] = task[c]["revoke"]
                               \/ /\ c = r.by /\ task[c]["revoke"].phase = "revoking"
                                  /\ task'[c]["revoke"] =
                                       [Idle EXCEPT !.phase = "due", !.ring = keyring[c]]
<1>1. r.by \in Devices /\ r.target \in Devices
  BY DEF TypeOK
<1>2. CASE At(r.by, "revoke", "revoking")
  <2>1. Become(r.by, "revoke", [Idle EXCEPT !.phase = "due", !.ring = keyring[r.by]])
    BY <1>2 DEF RevokeBatch
  <2>2. /\ task'[r.by]["revoke"] = [Idle EXCEPT !.phase = "due", !.ring = keyring[r.by]]
        /\ task'[r.by]["sync"] = task[r.by]["sync"]
        /\ \A c \in Devices : c # r.by => task'[c] = task[c]
    BY <1>1, <2>1, Becomes, Resting
  <2> QED
    BY <1>1, <1>2, <2>2 DEF At
<1>3. CASE ~At(r.by, "revoke", "revoking")
  BY <1>1, <1>3 DEF RevokeBatch
<1> QED
  BY <1>1, <1>2, <1>3

LEMMA NewStep == ASSUME TypeOK, NewIsEmpty, [Next]_vars PROVE NewIsEmpty'
<1>1. ASSUME UNCHANGED <<status, keyring, stored, task>> PROVE NewIsEmpty'
  BY <1>1 DEF NewIsEmpty
<1>2. ASSUME NEW d \in Devices, Client(d) PROVE NewIsEmpty'
  BY <1>2, ClientSteps DEF NewIsEmpty
<1>3. ASSUME NEW q \in requests, RotateKey(q) PROVE NewIsEmpty'
  BY <1>1, <1>3 DEF RotateKey, RotateKeyAuth, RotateKeyCheck, RotateKeyBatch, server, client
<1>4. ASSUME NEW r \in revoking, RevokeBatch(r) PROVE NewIsEmpty'
  <2> SUFFICES ASSUME NEW d \in Devices, status'[d] = "new"
               PROVE  keyring'[d] = {} /\ stored'[d] = {} /\ \A kind \in Kinds : task'[d][kind] = Idle
    BY DEF NewIsEmpty
  <2>1. status[d] = "new" /\ UNCHANGED <<keyring, stored>>
    BY <1>4 DEF RevokeBatch, TypeOK
  <2>2. \A kind \in Kinds : task[d][kind] = Idle
    BY <2>1 DEF NewIsEmpty
  <2>3. \A kind \in Kinds : task'[d][kind] = Idle
    BY <1>4, <2>2, RevokeTasks, Resting DEF Kinds
  <2> QED
    BY <2>1, <2>3 DEF NewIsEmpty
<1>5. ASSUME NEW p \in pairings, PairBatch(p) PROVE NewIsEmpty'
  BY <1>5 DEF PairBatch, NewIsEmpty, TypeOK
<1>6. ASSUME \E d, joiner \in Devices : PairAuth(d, joiner) PROVE NewIsEmpty'
  BY <1>1, <1>6 DEF PairAuth, server, client
<1> QED
  BY <1>1, <1>2, <1>3, <1>4, <1>5, <1>6, Steps DEF vars, server, client

(***************************************************************************)
(* A wrap is dropped once its key is stored.                               *)
(***************************************************************************)
\* A device does one thing at a time.
OneTask == \A d \in Devices : Rests(d, "sync") \/ Rests(d, "revoke")

\* What is in the mailbox of a device.
Mail(d) == {x \in kd : x.device = d}

\* What a pass t of an active device polled is in its mailbox M still, and what came
\* since is of a later epoch; once saved it is in the keyring s on disk.
MailFits(t, s, M, active) ==
  /\ t.phase \in {"polled", "saved"} /\ active =>
       t.rows \subseteq M /\ \A x \in M \ t.rows : \A y \in t.rows : y.epoch < x.epoch
  /\ t.phase = "saved" => EpochsOf(t.rows) \subseteq EpochsOf(s)

MailInv ==
  /\ TypeOK /\ TableInv /\ NewIsEmpty /\ OneTask
  /\ \A d \in Devices : MailFits(task[d]["sync"], stored[d], Mail(d), status[d] = "active")

LEMMA RestFits ==
  ASSUME NEW t, t.phase \notin {"polled", "saved"}, NEW s, NEW M, NEW a
  PROVE  MailFits(t, s, M, a)
BY DEF MailFits

\* Merging deliveries into a keyring makes it have their epochs.
LEMMA MergedHas ==
  ASSUME NEW ring, NEW rows PROVE EpochsOf(rows) \subseteq EpochsOf(Merged(ring, rows))
<1> SUFFICES ASSUME NEW x \in rows PROVE x.epoch \in EpochsOf(Merged(ring, rows))
  BY DEF EpochsOf
<1>1. CASE x.epoch \in EpochsOf(ring)
  BY <1>1 DEF EpochsOf, Merged
<1>2. CASE x.epoch \notin EpochsOf(ring)
  <2>1. Entry(x.epoch, x.key) \in Merged(ring, rows) /\ Entry(x.epoch, x.key).epoch = x.epoch
    BY <1>2 DEF Merged, Entry
  <2> QED
    BY <2>1 DEF EpochsOf
<1> QED
  BY <1>1, <1>2

\* A device doing something for its keys still does one thing at a time.
LEMMA ClientOneTask ==
  ASSUME MailInv, ~Overlap, NEW d \in Devices, Client(d) PROVE OneTask'
<1> DEFINE AtRest(t) == t.phase = "idle" \/ t.phase = "dead"
           Right == AtRest(task'[d]["sync"]) \/ AtRest(task'[d]["revoke"])
<1>0. /\ AtRest(task[d]["sync"]) \/ AtRest(task[d]["revoke"])
      /\ "sync" \in Kinds /\ "revoke" \in Kinds /\ AtRest(Idle) /\ AtRest(Dead)
      /\ \A k, l \in Kinds : k # l => {k, l} = {"sync", "revoke"}
  BY Resting DEF MailInv, OneTask, Rests, At, Kinds
<1>t. TypeOK
  BY DEF MailInv
<1>1. ASSUME NEW kind \in Kinds, NEW t, Become(d, kind, t),
             ~AtRest(task[d][kind]) \/ \A k \in Kinds \ {kind} : AtRest(task[d][k])
      PROVE  Right
  <2>1. \A k \in Kinds \ {kind} : AtRest(task[d][k])
    BY <1>0, <1>1 DEF Kinds
  <2>2. \A k \in Kinds \ {kind} : task'[d][k] = task[d][k]
    BY <1>t, <1>1, Becomes
  <2>3. kind = "sync" \/ kind = "revoke"
    BY DEF Kinds
  <2> HIDE DEF AtRest
  <2> QED
    BY <1>0, <2>1, <2>2, <2>3
<1>2. ASSUME Sync(d) \/ AckKeyFails(d) PROVE Right
  <2>1. \/ ~AtRest(task[d]["sync"]) \/ \A k \in Kinds \ {"sync"} : AtRest(task[d][k])
    BY <1>2 DEF Sync, SyncBegin, PendingMessages, AdoptPendingKeys, AckKey, SyncEnd, AckKeyFails,
       KeysSettled, At, Rests, Kinds
  <2>2. \E t : Become(d, "sync", t)
    BY <1>2 DEF Sync, SyncBegin, PendingMessages, AdoptPendingKeys, AckKey, SyncEnd, AckKeyFails
  <2> QED
    BY <1>0, <1>1, <2>1, <2>2
<1>3. ASSUME NEW kind \in Kinds, Rotation(d, kind) \/ RotateConnectionLost(d, kind) PROVE Right
  <2>1. ~AtRest(task[d][kind])
    BY <1>3 DEF Rotation, RotateGroupKey, RotateNothingDue, RotateAnswered, RotateConnectionLost,
       MayRotate, KeysSettled, At
  <2>2. \E t : Become(d, kind, t)
    BY <1>3 DEF Rotation, RotateGroupKey, RotateNothingDue, RotateAnswered, RotateConnectionLost
  <2> QED
    BY <1>1, <2>1, <2>2
<1>4. ASSUME NEW target \in Devices, RevokeAuth(d, target) PROVE Right
  <2>1. \A k \in Kinds \ {"revoke"} : AtRest(task[d][k])
    BY <1>4 DEF RevokeAuth, Rests, At, Kinds
  <2>2. \E t : Become(d, "revoke", t)
    BY <1>4 DEF RevokeAuth
  <2> QED
    BY <1>0, <1>1, <2>1, <2>2
<1>5. ASSUME Reload(d) PROVE Right
  BY <1>0, <1>5, <1>t DEF Reload, TypeOK
<1>6. Right
  BY <1>2, <1>3, <1>4, <1>5 DEF Client
<1>7. \A c \in Devices \ {d} : task'[c] = task[c]
  BY ClientSteps DEF MailInv
<1> QED
  BY <1>6, <1>7 DEF MailInv, OneTask, Rests, At

\* What a device does leaves the wraps of the others, and its own unless it acks.
LEMMA ClientMail ==
  ASSUME TypeOK, NEW d \in Devices, Client(d)
  PROVE  /\ \A c \in Devices \ {d} : Mail(c)' = Mail(c)
         /\ kd' = kd \/ (task[d]["sync"].phase = "saved" /\ task'[d]["sync"].phase \in {"adopted", "idle"})
<1>1. CASE UNCHANGED server
  BY <1>1 DEF server, Mail
<1>2. ASSUME NEW e, AckBatch(d, e), NEW t, t.phase \in {"adopted", "idle"}, Become(d, "sync", t),
             task[d]["sync"].phase = "saved"
      PROVE  /\ \A c \in Devices \ {d} : Mail(c)' = Mail(c)
             /\ task[d]["sync"].phase = "saved" /\ task'[d]["sync"].phase \in {"adopted", "idle"}
  BY <1>2, Becomes, Resting DEF AckBatch, Mail
<1>3. CASE AckKey(d)
  <2>1. CASE UNCHANGED server
    BY <1>1, <2>1
  <2> DEFINE u == [task[d]["sync"] EXCEPT !.phase = "adopted", !.rows = {}]
  <2>2. u.phase = "adopted" /\ task[d]["sync"].phase = "saved"
    <3>1. task[d]["sync"] \in Tasks
      BY TaskType, Resting
    <3> QED
      BY <1>3, <3>1 DEF Tasks, AckKey
  <2>3. ~(UNCHANGED server) => \E e : AckBatch(d, e) /\ Become(d, "sync", u)
    BY <1>3 DEF AckKey
  <2> HIDE DEF u
  <2> QED
    BY <1>2, <2>1, <2>2, <2>3
<1>4. CASE AckKeyFails(d)
  BY <1>1, <1>2, <1>4, Resting DEF AckKeyFails
<1>5. CASE Client(d) /\ ~AckKey(d) /\ ~AckKeyFails(d)
  BY <1>1, <1>5 DEF Client, Sync, SyncBegin, PendingMessages, AdoptPendingKeys, SyncEnd, Reload,
     Rotation, RotateGroupKey, RotateNothingDue, RotateAnswered, RotateConnectionLost, RevokeAuth
<1> QED
  BY <1>3, <1>4, <1>5

LEMMA ClientFits ==
  ASSUME SpaceAssumption, MailInv, ~Overlap, NEW d \in Devices, Client(d)
  PROVE  MailFits(task'[d]["sync"], stored'[d], Mail(d)', status'[d] = "active")
<1> DEFINE t == task[d]["sync"]
           new == task'[d]["sync"]
           Right == MailFits(new, stored'[d], Mail(d)', status'[d] = "active")
<1>0. /\ TypeOK /\ t \in Tasks /\ MailFits(t, stored[d], Mail(d), status[d] = "active")
      /\ "sync" \in Kinds /\ "revoke" \in Kinds
  BY TaskType, Resting DEF MailInv
<1>r. ASSUME new.phase \notin {"polled", "saved"} PROVE Right
  BY <1>r, RestFits
<1>1. ASSUME NEW u, Become(d, "sync", u), u.phase \notin {"polled", "saved"} PROVE Right
  BY <1>0, <1>1, <1>r, Becomes
<1>2. ASSUME SyncBegin(d) PROVE Right
  <2>1. [Idle EXCEPT !.phase = "begun", !.ring = keyring[d]].phase = "begun"
    BY DEF Idle
  <2> QED
    BY <1>1, <1>2, <2>1 DEF SyncBegin
<1>3. ASSUME PendingMessages(d) PROVE Right
  <2> DEFINE u == [t EXCEPT !.phase = "polled", !.rows = {x \in kd : x.device = d},
                            !.due = rotationPending]
  <2>1. CASE Become(d, "sync", Dead)
    BY <1>1, <2>1, Resting
  <2>2. CASE Become(d, "sync", u)
    <3>1. u.phase = "polled" /\ u.rows = Mail(d)
      BY <1>0 DEF Tasks, Mail
    <3>2. new = u /\ Mail(d)' = Mail(d)
      BY <1>0, <1>3, <2>2, Becomes DEF PendingMessages, Mail, server
    <3> QED
      BY <3>1, <3>2 DEF MailFits
  <2> QED
    BY <1>3, <2>1, <2>2 DEF PendingMessages
<1>4. ASSUME AdoptPendingKeys(d) PROVE Right
  <2> DEFINE u == [t EXCEPT !.phase = "saved", !.ring = Merged(t.ring, t.rows)]
  <2>1. u.phase = "saved" /\ u.rows = t.rows /\ new = u
    <3>1. Become(d, "sync", u)
      BY <1>4 DEF AdoptPendingKeys
    <3>2. new = u
      BY <1>0, <3>1, Becomes
    <3> QED
      BY <1>0, <3>2 DEF Tasks
  <2>2. stored'[d] = Merged(t.ring, t.rows) /\ Mail(d)' = Mail(d) /\ status' = status
    BY <1>0, <1>4 DEF AdoptPendingKeys, Mail, server, TypeOK
  <2>3. EpochsOf(t.rows) \subseteq EpochsOf(stored'[d])
    BY <2>2, MergedHas
  <2>4. t.phase = "polled"
    BY <1>4 DEF AdoptPendingKeys
  <2> HIDE DEF u, t, new
  <2> QED
    BY <1>0, <2>1, <2>2, <2>3, <2>4 DEF MailFits
<1>5. ASSUME AckKey(d) PROVE Right
  <2>1. [t EXCEPT !.phase = "adopted", !.rows = {}].phase = "adopted"
    BY <1>0 DEF Tasks
  <2> QED
    BY <1>1, <1>5, <2>1, Resting DEF AckKey
<1>6. ASSUME AckKeyFails(d) \/ SyncEnd(d) PROVE Right
  BY <1>1, <1>6, Resting DEF AckKeyFails, SyncEnd
<1>7. ASSUME Reload(d) PROVE Right
  BY <1>0, <1>7, <1>r, Resting DEF Reload, TypeOK
<1>8. ASSUME NEW kind \in Kinds, Rotation(d, kind) \/ RotateConnectionLost(d, kind) PROVE Right
  <2>1. task[d][kind].phase \notin {"idle", "dead"}
    BY <1>8 DEF Rotation, RotateGroupKey, RotateNothingDue, RotateAnswered, RotateConnectionLost,
       MayRotate, KeysSettled, At
  <2>2. PICK u : Become(d, kind, u) /\ (kind = "sync" => u.phase \notin {"polled", "saved"})
    <3>1. CASE RotateGroupKey(d, kind)
      <4>1. PICK e, k : Become(d, kind, [Idle EXCEPT !.phase = "rotating", !.ring = task[d][kind].ring,
                                         !.epoch = e, !.key = k, !.try = 1])
        BY <3>1 DEF RotateGroupKey
      <4>2. [Idle EXCEPT !.phase = "rotating", !.ring = task[d][kind].ring,
                         !.epoch = e, !.key = k, !.try = 1].phase = "rotating"
        BY DEF Idle
      <4> QED
        BY <4>1, <4>2
    <3>2. CASE RotateNothingDue(d, kind)
      BY <3>2, Resting DEF RotateNothingDue
    <3>3. CASE RotateAnswered(d, kind) \/ RotateConnectionLost(d, kind)
      <4>1. task[d][kind].phase = "rotating" /\ task[d][kind] \in Tasks
        BY <1>0, <3>3, TaskType DEF RotateAnswered, RotateConnectionLost
      <4>2. \A n : [task[d][kind] EXCEPT !.try = n].phase = "rotating"
        BY <4>1 DEF Tasks
      <4>3. Become(d, kind, Idle) \/ \E n : Become(d, kind, [task[d][kind] EXCEPT !.try = n])
        BY <3>3 DEF RotateAnswered, RotateConnectionLost
      <4> QED
        BY <4>2, <4>3, Resting
    <3> QED
      BY <1>8, <3>1, <3>2, <3>3 DEF Rotation
  <2>3. CASE kind = "sync"
    BY <1>1, <2>2, <2>3
  <2>4. CASE kind # "sync"
    <3>1. t.phase \in {"idle", "dead"}
      BY <1>8, <2>1, <2>4 DEF MailInv, OneTask, Rests, At, Kinds
    <3>2. new = t
      BY <1>0, <2>2, <2>4, Becomes
    <3> QED
      BY <1>r, <3>1, <3>2
  <2> QED
    BY <2>3, <2>4
<1>9. ASSUME NEW target \in Devices, RevokeAuth(d, target) PROVE Right
  <2>1. Become(d, "revoke", [Idle EXCEPT !.phase = "revoking"]) /\ UNCHANGED <<server, stored>>
    BY <1>9 DEF RevokeAuth
  <2>2. new = t
    BY <1>0, <2>1, Becomes
  <2> QED
    BY <1>0, <2>1, <2>2 DEF server, Mail
<1> QED
  BY <1>2, <1>3, <1>4, <1>5, <1>6, <1>7, <1>8, <1>9 DEF Client, Sync

\* A batch puts at most one wrap in a mailbox, of an epoch the mailbox has nothing of.
LEMMA BatchFits ==
  ASSUME MailInv, NEW q \in requests, RotateKeyBatch(q), NEW d \in Devices
  PROVE  MailFits(task[d]["sync"], stored[d], Mail(d)', status[d] = "active")
<1> DEFINE t == task[d]["sync"]
<1>1. MailFits(t, stored[d], Mail(d), status[d] = "active") /\ TypeOK /\ TableInv
  BY DEF MailInv
<1>2. CASE kd' = kd
  BY <1>1, <1>2 DEF Mail
<1>3. CASE ~PrimaryKeyTaken(q) /\ kd' = kd \cup Deposited(q)
  <2>1. ASSUME status[d] = "active", t.phase \in {"polled", "saved"}
        PROVE  t.rows \subseteq Mail(d)' /\ \A x \in Mail(d)' \ t.rows : \A y \in t.rows : y.epoch < x.epoch
    <3>1. t.rows \subseteq Mail(d) /\ \A x \in Mail(d) \ t.rows : \A y \in t.rows : y.epoch < x.epoch
      BY <1>1, <2>1 DEF MailFits
    <3>2. ASSUME NEW x \in Deposited(q), x.device = d, NEW y \in t.rows PROVE y.epoch < x.epoch
      <4>1. x.epoch = groupEpoch + 1 /\ \A z \in kd : z.device = d => z.epoch # x.epoch
        BY <1>1, <1>3, <3>2, DepositsNext
      <4>2. y \in kd /\ y.device = d /\ y.epoch <= groupEpoch + 1
        BY <1>1, <3>1 DEF Mail, TableInv, MailAhead
      <4>3. y.epoch \in Nat /\ groupEpoch \in Nat
        BY <1>1, <4>2 DEF TypeOK, Rows, Epochs
      <4> QED
        BY <4>1, <4>2, <4>3
    <3> QED
      BY <1>3, <3>1, <3>2 DEF Mail
  <2> QED
    BY <1>1, <2>1 DEF MailFits
<1> QED
  BY <1>1, <1>2, <1>3, BatchMail

LEMMA MailStep == ASSUME SpaceAssumption, MailInv, ~Overlap, [Next]_vars PROVE MailInv'
<1>0. TypeOK' /\ TableInv' /\ NewIsEmpty'
  BY TypeInductive, TableStep, NewStep DEF MailInv
<1> DEFINE Fits(d) == MailFits(task[d]["sync"], stored[d], Mail(d), status[d] = "active")
<1>1. ASSUME UNCHANGED <<status, kd, stored, task>> PROVE MailInv'
  BY <1>0, <1>1 DEF MailInv, Mail, OneTask, Rests, At
<1>2. ASSUME NEW d \in Devices, Client(d) PROVE MailInv'
  <2>1. OneTask'
    BY <1>2, ClientOneTask
  <2>2. MailFits(task'[d]["sync"], stored'[d], Mail(d)', status'[d] = "active")
    BY <1>2, ClientFits
  <2>3. \A c \in Devices \ {d} : Fits(c)'
    BY <1>2, ClientSteps, ClientMail DEF MailInv
  <2> QED
    BY <1>0, <2>1, <2>2, <2>3 DEF MailInv
<1>3. ASSUME NEW q \in requests, RotateKeyBatch(q) PROVE MailInv'
  <2>1. UNCHANGED <<status, stored, task>>
    BY <1>3 DEF RotateKeyBatch, server, client
  <2>2. \A d \in Devices : Fits(d)'
    BY <1>3, <2>1, BatchFits
  <2> QED
    BY <1>0, <2>1, <2>2 DEF MailInv, OneTask, Rests, At
<1>4. ASSUME NEW r \in revoking, RevokeBatch(r) PROVE MailInv'
  <2>1. OneTask'
    BY <1>4, RevokeTasks DEF MailInv, OneTask, Rests, At
  <2>2. ASSUME NEW d \in Devices PROVE Fits(d)'
    <3>1. task'[d]["sync"] = task[d]["sync"] /\ stored' = stored
      BY <1>4, RevokeTasks DEF RevokeBatch, MailInv
    <3>2. CASE d = r.target
      <4>1. status'[d] # "active"
        BY <1>4, <3>2 DEF RevokeBatch, MailInv, TypeOK
      <4> QED
        BY <3>1, <4>1 DEF MailFits, MailInv
    <3>3. CASE d # r.target
      <4>1. status'[d] = status[d] /\ r.target \in Devices
        BY <1>4, <3>3 DEF RevokeBatch, MailInv, TypeOK
      <4>2. Mail(d)' = Mail(d)
        BY <1>4, <3>3 DEF RevokeBatch, Mail
      <4> QED
        BY <3>1, <4>1, <4>2 DEF MailInv
    <3> QED
      BY <3>2, <3>3
  <2> QED
    BY <1>0, <2>1, <2>2 DEF MailInv
<1>5. ASSUME NEW p \in pairings, PairBatch(p) PROVE MailInv'
  <2>1. UNCHANGED <<task, kd>>
    BY <1>5 DEF PairBatch
  <2>2. ASSUME NEW d \in Devices PROVE Fits(d)'
    <3>1. CASE d = p.joiner /\ status[d] = "new"
      <4>1. task'[d]["sync"].phase = "idle"
        BY <2>1, <3>1, Resting DEF MailInv, NewIsEmpty
      <4> QED
        BY <4>1, RestFits
    <3>2. CASE ~(d = p.joiner /\ status[d] = "new")
      <4>1. stored'[d] = stored[d] /\ status'[d] = status[d]
        BY <1>5, <3>2 DEF PairBatch, MailInv, TypeOK
      <4> QED
        BY <2>1, <4>1 DEF MailInv, Mail
    <3> QED
      BY <3>1, <3>2
  <2> QED
    BY <1>0, <2>1, <2>2 DEF MailInv, OneTask, Rests, At
<1>6. ASSUME NEW q \in requests, RotateKeyAuth(q) \/ RotateKeyCheck(q) PROVE MailInv'
  BY <1>1, <1>6 DEF RotateKeyAuth, RotateKeyCheck, server, client
<1>7. ASSUME \E d, joiner \in Devices : PairAuth(d, joiner) PROVE MailInv'
  BY <1>1, <1>7 DEF PairAuth, server, client
<1> QED
  BY <1>1, <1>2, <1>3, <1>4, <1>5, <1>6, <1>7, Steps DEF RotateKey, vars, server, client

LEMMA MailHolds == ~Overlap => (Spec => []MailInv)
<1> SUFFICES ASSUME ~Overlap PROVE Spec => []MailInv
  OBVIOUS
<1>1. Init => MailInv
  <2> SUFFICES ASSUME Init PROVE MailInv
    OBVIOUS
  <2>1. TypeOK
    BY SpaceAssumption, InitType
  <2>2. TableInv
    BY DEF Init, TableInv, MailAhead, MailKey
  <2>3. NewIsEmpty
    BY DEF Init, NewIsEmpty
  <2>4. \A d \in Devices : task[d]["sync"] = Idle
    BY DEF Init, Kinds
  <2> QED
    BY <2>1, <2>2, <2>3, <2>4, Resting, RestFits DEF MailInv, OneTask, Rests, At
<1>2. MailInv /\ [Next]_vars => MailInv'
  BY SpaceAssumption, MailStep
<1> QED
  BY <1>1, <1>2, PTL DEF Spec

\* The server drops the wrap of a device that stays only when the device has stored a key
\* of that epoch (rekey.ts:60-80, "persist before acking"): an ack names the newest epoch
\* of what was polled and empties the mailbox up to it, and no rotation, lost ack or closed
\* page puts another wrap in its range in between.  A device does one thing at a time.
THEOREM SpaceKeysAckAfterStore == ~Overlap => (Spec => AckAfterStore)
<1> SUFFICES ASSUME ~Overlap PROVE Spec => AckAfterStore
  OBVIOUS
<1>1. ASSUME MailInv, [Next]_vars, NEW x \in kd \ kd', status'[x.device] = "active"
      PROVE  x.epoch \in EpochsOf(stored[x.device])
  <2>0. x \in Rows /\ x.device \in Devices
    BY <1>1 DEF MailInv, TypeOK, Rows
  <2>1. ASSUME NEW r \in revoking, RevokeBatch(r) PROVE FALSE
    BY <1>1, <2>0, <2>1 DEF RevokeBatch, MailInv, TypeOK
  <2>2. ASSUME NEW d \in Devices, NEW e \in Highest(task[d]["sync"].rows), AckBatch(d, e),
               task[d]["sync"].phase = "saved"
        PROVE  x.epoch \in EpochsOf(stored[x.device])
    <3> DEFINE t == task[d]["sync"]
    <3>1. x.device = d /\ x.epoch <= e /\ status[d] = "active" /\ x \in Mail(d)
      BY <1>1, <2>2 DEF AckBatch, Mail
    <3>2. PICK y \in t.rows : y.epoch = e
      BY <2>2 DEF Highest, EpochsOf
    <3>3. /\ MailFits(t, stored[d], Mail(d), TRUE) /\ t.rows \in SUBSET Rows
      BY <3>1, <1>1, <2>2, TaskType, Resting DEF MailInv
    <3>4. x \in t.rows
      <4>1. x \notin t.rows => y.epoch < x.epoch
        BY <2>2, <3>1, <3>2, <3>3 DEF MailFits
      <4>2. y.epoch \in Nat /\ x.epoch \in Nat
        BY <2>0, <3>2, <3>3 DEF Rows, Epochs
      <4> QED
        BY <3>1, <3>2, <4>1, <4>2
    <3> QED
      BY <2>2, <3>1, <3>3, <3>4 DEF MailFits, EpochsOf
  <2>3. ASSUME NEW d \in Devices, AckKey(d) \/ AckKeyFails(d) PROVE x.epoch \in EpochsOf(stored[x.device])
    <3>1. UNCHANGED server => FALSE
      BY <1>1 DEF server
    <3> QED
      BY <2>2, <2>3, <3>1 DEF AckKey, AckKeyFails
  <2>4. ASSUME kd \subseteq kd' PROVE FALSE
    BY <1>1, <2>4
  <2>5. ASSUME NEW d \in Devices, Client(d), ~AckKey(d), ~AckKeyFails(d) PROVE FALSE
    BY <2>4, <2>5 DEF Client, Sync, SyncBegin, PendingMessages, AdoptPendingKeys, SyncEnd, Reload,
       Rotation, RotateGroupKey, RotateNothingDue, RotateAnswered, RotateConnectionLost, RevokeAuth, server
  <2>6. ASSUME NEW q \in requests, RotateKey(q) PROVE FALSE
    BY <1>1, <2>4, <2>6, BatchMail DEF RotateKey, RotateKeyAuth, RotateKeyCheck, server, MailInv
  <2>7. ASSUME \/ \E d, joiner \in Devices : PairAuth(d, joiner)
               \/ \E p \in pairings : PairBatch(p)
               \/ UNCHANGED vars
        PROVE  FALSE
    BY <2>4, <2>7 DEF PairAuth, PairBatch, server, vars
  <2> QED
    BY <1>1, <2>1, <2>3, <2>5, <2>6, <2>7, Steps
<1>2. MailInv /\ [Next]_vars
        => [\A x \in kd \ kd' : status'[x.device] = "active" =>
              x.epoch \in EpochsOf(stored[x.device])]_vars
  BY <1>1
<1> QED
  BY <1>2, MailHolds, PTL DEF Spec, AckAfterStore

(***************************************************************************)
(* Where a device's keys come from.                                        *)
(***************************************************************************)
OwnOk(d) == {q \in requests : q.by = d /\ q.stage = "ok"}

\* A keyring of a device after a step is one it had, merged with a poll or with the key of
\* a rotation it won.
Rings(d) ==
  {{}, keyring[d], stored[d]}
    \cup {task[d][kind].ring : kind \in Kinds}
    \cup {Merged(task[d][kind].ring, task[d][kind].rows) : kind \in Kinds}
    \cup {withEpoch(task[d][kind].ring, q.epoch, q.key) : kind \in Kinds, q \in OwnOk(d)}

\* What a pass has polled after a step: what it had, or the mailbox of an active device.
Polls(d) ==
  {{}} \cup {task[d][kind].rows : kind \in Kinds} \cup {x \in {Mail(d)} : status[d] = "active"}

KeyMoves(d) ==
  /\ keyring'[d] \in Rings(d) /\ stored'[d] \in Rings(d)
  /\ \A kind \in Kinds : task'[d][kind].ring \in Rings(d) /\ task'[d][kind].rows \in Polls(d)

LEMMA RingsOf ==
  ASSUME NEW d
  PROVE  /\ {} \in Rings(d) /\ keyring[d] \in Rings(d) /\ stored[d] \in Rings(d)
         /\ \A kind \in Kinds :
              /\ task[d][kind].ring \in Rings(d) /\ task[d][kind].rows \in Polls(d)
              /\ Merged(task[d][kind].ring, task[d][kind].rows) \in Rings(d)
              /\ \A q \in OwnOk(d) : withEpoch(task[d][kind].ring, q.epoch, q.key) \in Rings(d)
         /\ {} \in Polls(d) /\ (status[d] = "active" => Mail(d) \in Polls(d))
<1>1. \A kind \in Kinds : \A q \in OwnOk(d) : withEpoch(task[d][kind].ring, q.epoch, q.key) \in Rings(d)
  BY DEF Rings
<1>2. /\ {} \in Rings(d) /\ keyring[d] \in Rings(d) /\ stored[d] \in Rings(d)
      /\ \A kind \in Kinds : /\ task[d][kind].ring \in Rings(d)
                             /\ Merged(task[d][kind].ring, task[d][kind].rows) \in Rings(d)
  BY DEF Rings
<1> QED
  BY <1>1, <1>2 DEF Polls

\* One task moves to t, and the two keyrings may change.
LEMMA OneMove ==
  ASSUME TypeOK, NEW d \in Devices, NEW kind \in Kinds, NEW t, Become(d, kind, t),
         t.ring \in Rings(d), t.rows \in Polls(d), keyring'[d] \in Rings(d), stored'[d] \in Rings(d)
  PROVE  KeyMoves(d)
BY Becomes, RingsOf DEF KeyMoves

\* The tasks as records, field by field.
LEMMA TaskFields ==
  ASSUME NEW t \in Tasks
  PROVE  /\ \A n : [t EXCEPT !.try = n].ring = t.ring /\ [t EXCEPT !.try = n].rows = t.rows
         /\ \A R : /\ [t EXCEPT !.phase = "saved", !.ring = R].ring = R
                   /\ [t EXCEPT !.phase = "saved", !.ring = R].rows = t.rows
         /\ [t EXCEPT !.phase = "adopted", !.rows = {}].ring = t.ring
         /\ [t EXCEPT !.phase = "adopted", !.rows = {}].rows = {}
         /\ \A M, b : /\ [t EXCEPT !.phase = "polled", !.rows = M, !.due = b].ring = t.ring
                      /\ [t EXCEPT !.phase = "polled", !.rows = M, !.due = b].rows = M
BY DEF Tasks

LEMMA FreshFields ==
  /\ \A R : /\ [Idle EXCEPT !.phase = "begun", !.ring = R].ring = R
            /\ [Idle EXCEPT !.phase = "begun", !.ring = R].rows = {}
  /\ [Idle EXCEPT !.phase = "revoking"].ring = {} /\ [Idle EXCEPT !.phase = "revoking"].rows = {}
BY DEF Idle

LEMMA SyncMoves ==
  ASSUME TypeOK, NEW d \in Devices, Sync(d) \/ AckKeyFails(d) PROVE KeyMoves(d)
<1> DEFINE t == task[d]["sync"]
<1>0. t \in Tasks /\ "sync" \in Kinds /\ t.ring \in Rings(d) /\ t.rows \in Polls(d)
  BY TaskType, Resting, RingsOf
<1>1. ASSUME NEW u, Become(d, "sync", u), u.ring \in Rings(d), u.rows \in Polls(d),
             UNCHANGED <<keyring, stored>>
      PROVE  KeyMoves(d)
  BY <1>0, <1>1, OneMove, RingsOf
<1>2. ASSUME Become(d, "sync", Idle) \/ Become(d, "sync", Dead), UNCHANGED <<keyring, stored>>
      PROVE  KeyMoves(d)
  BY <1>1, <1>2, Resting, RingsOf
<1>3. CASE SyncBegin(d)
  BY <1>1, <1>3, FreshFields, RingsOf DEF SyncBegin
<1>4. CASE PendingMessages(d)
  <2> DEFINE u == [t EXCEPT !.phase = "polled", !.rows = Mail(d), !.due = rotationPending]
  <2>1. status[d] = "active" => u.ring \in Rings(d) /\ u.rows \in Polls(d)
    BY <1>0, TaskFields, RingsOf
  <2>2. IF status[d] = "active" THEN Become(d, "sync", u) ELSE Become(d, "sync", Dead)
    BY <1>4 DEF PendingMessages, Mail
  <2>3. UNCHANGED <<keyring, stored>>
    BY <1>4 DEF PendingMessages
  <2> HIDE DEF u
  <2> QED
    BY <1>1, <1>2, <2>1, <2>2, <2>3
<1>5. CASE AdoptPendingKeys(d)
  <2> DEFINE R == Merged(t.ring, t.rows)
             u == [t EXCEPT !.phase = "saved", !.ring = R]
  <2>1. R \in Rings(d)
    BY <1>0, RingsOf
  <2>2. u.ring \in Rings(d) /\ u.rows \in Polls(d)
    BY <1>0, <2>1, TaskFields
  <2>3. Become(d, "sync", u) /\ stored'[d] = R /\ keyring' = keyring
    BY <1>5 DEF AdoptPendingKeys, TypeOK
  <2> HIDE DEF u, R
  <2> QED
    BY <1>0, <2>1, <2>2, <2>3, OneMove, RingsOf
<1>6. CASE AckKey(d)
  <2> DEFINE u == [t EXCEPT !.phase = "adopted", !.rows = {}]
  <2>1. u.ring \in Rings(d) /\ u.rows \in Polls(d)
    BY <1>0, TaskFields, RingsOf
  <2>2. CASE Become(d, "sync", u) /\ keyring' = [keyring EXCEPT ![d] = t.ring] /\ UNCHANGED stored
    <3>1. keyring'[d] = t.ring
      BY <2>2 DEF TypeOK
    <3> HIDE DEF u
    <3> QED
      BY <1>0, <2>1, <2>2, <3>1, OneMove, RingsOf
  <2>3. CASE (Become(d, "sync", Idle) \/ Become(d, "sync", Dead)) /\ UNCHANGED <<keyring, stored>>
    BY <1>2, <2>3
  <2> QED
    BY <1>6, <2>2, <2>3 DEF AckKey
<1>7. CASE AckKeyFails(d) \/ SyncEnd(d)
  BY <1>2, <1>7 DEF AckKeyFails, SyncEnd
<1> QED
  BY <1>3, <1>4, <1>5, <1>6, <1>7 DEF Sync

LEMMA RotationMoves ==
  ASSUME TypeOK, NEW d \in Devices, NEW kind \in Kinds, Rotation(d, kind) \/ RotateConnectionLost(d, kind)
  PROVE  KeyMoves(d)
<1> DEFINE t == task[d][kind]
<1>0. t \in Tasks /\ t.ring \in Rings(d) /\ t.rows \in Polls(d)
  BY TaskType, RingsOf
<1>1. ASSUME NEW u, Become(d, kind, u), u.ring \in Rings(d), u.rows \in Polls(d),
             keyring'[d] \in Rings(d), stored'[d] \in Rings(d)
      PROVE  KeyMoves(d)
  BY <1>1, OneMove
<1>2. ASSUME Become(d, kind, Idle) \/ Become(d, kind, Dead), UNCHANGED <<keyring, stored>>
      PROVE  KeyMoves(d)
  BY <1>1, <1>2, Resting, RingsOf
<1>3. CASE RotateGroupKey(d, kind)
  <2>1. PICK e, k : Become(d, kind, [Idle EXCEPT !.phase = "rotating", !.ring = t.ring,
                                     !.epoch = e, !.key = k, !.try = 1])
    BY <1>3 DEF RotateGroupKey
  <2>2. UNCHANGED <<keyring, stored>>
    BY <1>3 DEF RotateGroupKey
  <2> DEFINE u == [Idle EXCEPT !.phase = "rotating", !.ring = t.ring, !.epoch = e, !.key = k, !.try = 1]
  <2>3. u.ring = t.ring /\ u.rows = {}
    BY DEF Idle
  <2>4. Become(d, kind, u)
    BY <2>1
  <2> HIDE DEF u
  <2> QED
    BY <1>0, <1>1, <2>2, <2>3, <2>4, RingsOf
<1>4. CASE RotateNothingDue(d, kind)
  BY <1>2, <1>4 DEF RotateNothingDue
<1>5. ASSUME NEW n, Become(d, kind, [t EXCEPT !.try = n]), UNCHANGED <<keyring, stored>>
      PROVE  KeyMoves(d)
  <2> DEFINE u == [t EXCEPT !.try = n]
  <2>1. u.ring \in Rings(d) /\ u.rows \in Polls(d) /\ Become(d, kind, u)
    BY <1>0, <1>5, TaskFields
  <2> HIDE DEF u
  <2> QED
    BY <1>1, <1>5, <2>1, RingsOf
<1>6. CASE RotateAnswered(d, kind)
  <2>1. CASE \E n : Become(d, kind, [t EXCEPT !.try = n]) /\ UNCHANGED <<keyring, stored>>
    BY <1>5, <2>1
  <2>2. CASE Become(d, kind, Idle) /\ UNCHANGED <<keyring, stored>>
    BY <1>2, <2>2
  <2>3. ASSUME NEW q \in OwnOk(d), Become(d, kind, Idle),
               stored' = [stored EXCEPT ![d] = withEpoch(t.ring, q.epoch, q.key)],
               keyring' = [keyring EXCEPT ![d] = withEpoch(t.ring, q.epoch, q.key)]
        PROVE  KeyMoves(d)
    <3>1. stored'[d] = withEpoch(t.ring, q.epoch, q.key) /\ keyring'[d] = withEpoch(t.ring, q.epoch, q.key)
      BY <2>3 DEF TypeOK
    <3> QED
      BY <1>1, <2>3, <3>1, Resting, RingsOf
  <2> QED
    BY <1>6, <2>1, <2>2, <2>3 DEF RotateAnswered, OwnOk
<1>7. CASE RotateConnectionLost(d, kind)
  BY <1>2, <1>5, <1>7 DEF RotateConnectionLost
<1> QED
  BY <1>3, <1>4, <1>6, <1>7 DEF Rotation

LEMMA StillMoves ==
  ASSUME NEW d \in Devices, keyring'[d] = keyring[d], stored'[d] = stored[d], task'[d] = task[d]
  PROVE  KeyMoves(d)
BY RingsOf DEF KeyMoves

LEMMA ClientMoves ==
  ASSUME TypeOK, NEW d \in Devices, Client(d) PROVE KeyMoves(d)
<1>1. ASSUME Reload(d) PROVE KeyMoves(d)
  <2>1. /\ stored' = stored /\ keyring'[d] = stored[d]
        /\ \A kind \in Kinds : task'[d][kind] \in {Idle, Dead}
    BY <1>1 DEF Reload, TypeOK
  <2> QED
    BY <2>1, Resting, RingsOf DEF KeyMoves
<1>2. ASSUME NEW target \in Devices, RevokeAuth(d, target) PROVE KeyMoves(d)
  BY <1>2, Resting, FreshFields, OneMove, RingsOf DEF RevokeAuth
<1> QED
  BY <1>1, <1>2, SyncMoves, RotationMoves DEF Client

\* A step moves keys within a device, or hands the current key to one that joins.
LEMMA KeySteps ==
  ASSUME TypeOK, NewIsEmpty, [Next]_vars, NEW d \in Devices
  PROVE  \/ KeyMoves(d)
         \/ \E p \in pairings :
              /\ PairBatch(p) /\ p.joiner = d /\ status[d] = "new" /\ status'[d] = "active"
              /\ keyring'[d] = {Entry(p.epoch, p.key)} /\ stored'[d] = {Entry(p.epoch, p.key)}
              /\ task' = task
<1> DEFINE Joins(p) == /\ PairBatch(p) /\ p.joiner = d /\ status[d] = "new" /\ status'[d] = "active"
                       /\ keyring'[d] = {Entry(p.epoch, p.key)} /\ stored'[d] = {Entry(p.epoch, p.key)}
                       /\ task' = task
<1>1. ASSUME UNCHANGED <<keyring, stored, task>> PROVE KeyMoves(d)
  BY <1>1, StillMoves
<1>2. ASSUME NEW c \in Devices, Client(c) PROVE KeyMoves(d)
  BY <1>2, ClientSteps, ClientMoves, StillMoves
<1>3. ASSUME NEW r \in revoking, RevokeBatch(r) PROVE KeyMoves(d)
  <2> DEFINE u == [Idle EXCEPT !.phase = "due", !.ring = keyring[d]]
  <2>1. \A kind \in Kinds : task'[d][kind] = task[d][kind] \/ task'[d][kind] = u
    BY <1>3, RevokeTasks DEF Kinds
  <2>2. UNCHANGED <<keyring, stored>>
    BY <1>3 DEF RevokeBatch
  <2>3. u.ring = keyring[d] /\ u.rows = {}
    BY DEF Idle
  <2> HIDE DEF u
  <2> QED
    BY <2>1, <2>2, <2>3, RingsOf DEF KeyMoves
<1>4. ASSUME NEW p \in pairings, PairBatch(p) PROVE KeyMoves(d) \/ Joins(p)
  <2>1. CASE groupEpoch = p.epoch /\ status[p.joiner] = "new" /\ p.joiner = d
    BY <1>4, <2>1 DEF PairBatch, TypeOK
  <2>2. CASE ~(groupEpoch = p.epoch /\ status[p.joiner] = "new" /\ p.joiner = d)
    <3>1. keyring'[d] = keyring[d] /\ stored'[d] = stored[d] /\ task' = task
      BY <1>4, <2>2 DEF PairBatch, TypeOK
    <3> QED
      BY <3>1, StillMoves
  <2> QED
    BY <2>1, <2>2
<1>5. ASSUME NEW q \in requests, RotateKey(q) PROVE KeyMoves(d)
  BY <1>1, <1>5 DEF RotateKey, RotateKeyAuth, RotateKeyCheck, RotateKeyBatch, client
<1>6. ASSUME \E c, joiner \in Devices : PairAuth(c, joiner) PROVE KeyMoves(d)
  BY <1>1, <1>6 DEF PairAuth, client
<1> QED
  BY <1>1, <1>2, <1>3, <1>4, <1>5, <1>6, Steps DEF vars, client

\* Every key a device has, in a keyring or in what a pass has polled.
EntriesOf(rows) == {Entry(x.epoch, x.key) : x \in rows}
Held(d) ==
  keyring[d] \cup stored[d]
    \cup UNION {task[d][kind].ring \cup EntriesOf(task[d][kind].rows) : kind \in Kinds}

\* Where a key a device has after a step was: with the device, in the mailbox of the active
\* device, or in its own rotation that won.
Source(d, x) ==
  \/ x \in Held(d)
  \/ status[d] = "active" /\ x \in EntriesOf(Mail(d))
  \/ x \in {Entry(q.epoch, q.key) : q \in OwnOk(d)}

LEMMA HeldType == ASSUME TypeOK, NEW d \in Devices PROVE Held(d) \subseteq Entries
<1>1. \A kind \in Kinds : /\ task[d][kind].ring \subseteq Entries
                         /\ EntriesOf(task[d][kind].rows) \subseteq Entries
  <2> SUFFICES ASSUME NEW kind \in Kinds
               PROVE  /\ task[d][kind].ring \subseteq Entries
                      /\ EntriesOf(task[d][kind].rows) \subseteq Entries
    OBVIOUS
  <2>1. task[d][kind].ring \subseteq Entries /\ task[d][kind].rows \subseteq Rows
    BY TaskType
  <2> QED
    BY <2>1 DEF EntriesOf, Entry, Entries, Rows
<1>2. keyring[d] \subseteq Entries /\ stored[d] \subseteq Entries
  BY DEF TypeOK
<1> QED
  BY <1>1, <1>2 DEF Held

LEMMA HeldParts ==
  ASSUME NEW d
  PROVE  /\ keyring[d] \subseteq Held(d) /\ stored[d] \subseteq Held(d)
         /\ \A kind \in Kinds : /\ task[d][kind].ring \subseteq Held(d)
                                /\ EntriesOf(task[d][kind].rows) \subseteq Held(d)
BY DEF Held

LEMMA RingSources ==
  ASSUME NEW d, NEW ring \in Rings(d), NEW x \in ring PROVE Source(d, x)
<1>1. ASSUME NEW kind \in Kinds, ring = Merged(task[d][kind].ring, task[d][kind].rows)
      PROVE  Source(d, x)
  <2>1. x \in task[d][kind].ring \/ x \in EntriesOf(task[d][kind].rows)
    BY <1>1 DEF Merged, EntriesOf
  <2> QED
    BY <2>1, HeldParts DEF Source
<1>2. ASSUME NEW kind \in Kinds, NEW q \in OwnOk(d), ring = withEpoch(task[d][kind].ring, q.epoch, q.key)
      PROVE  Source(d, x)
  <2>1. x \in task[d][kind].ring \/ x = Entry(q.epoch, q.key)
    BY <1>2 DEF withEpoch
  <2> QED
    BY <2>1, HeldParts DEF Source
<1>3. ASSUME \/ ring \in {{}, keyring[d], stored[d]}
             \/ ring \in {task[d][kind].ring : kind \in Kinds}
      PROVE  Source(d, x)
  BY <1>3, HeldParts DEF Source
<1> QED
  BY <1>1, <1>2, <1>3 DEF Rings

LEMMA PollSources ==
  ASSUME NEW d, NEW rows \in Polls(d), NEW x \in EntriesOf(rows) PROVE Source(d, x)
<1>1. CASE rows = {}
  BY <1>1 DEF EntriesOf
<1>2. CASE \E kind \in Kinds : rows = task[d][kind].rows
  BY <1>2, HeldParts DEF Source
<1>3. CASE rows = Mail(d) /\ status[d] = "active"
  BY <1>3 DEF Source
<1> QED
  BY <1>1, <1>2, <1>3 DEF Polls

LEMMA HeldSources ==
  ASSUME NEW d \in Devices, KeyMoves(d), NEW x \in Held(d)' PROVE Source(d, x)
<1>1. \/ x \in keyring'[d] \/ x \in stored'[d]
      \/ \E kind \in Kinds : x \in task'[d][kind].ring \/ x \in EntriesOf(task'[d][kind].rows)
  BY DEF Held, EntriesOf
<1> QED
  BY <1>1, RingSources, PollSources DEF KeyMoves

\* The same with the device that joins.
LEMMA HeldSteps ==
  ASSUME TypeOK, NewIsEmpty, [Next]_vars, NEW d \in Devices, NEW x \in Held(d)'
  PROVE  \/ Source(d, x)
         \/ status[d] = "new" /\ status'[d] = "active"
              /\ \E p \in pairings : PairBatch(p) /\ p.joiner = d /\ x = Entry(p.epoch, p.key)
<1>1. CASE KeyMoves(d)
  BY <1>1, HeldSources
<1>2. ASSUME NEW p \in pairings, PairBatch(p), p.joiner = d, status[d] = "new", status'[d] = "active",
             keyring'[d] = {Entry(p.epoch, p.key)}, stored'[d] = {Entry(p.epoch, p.key)}, task' = task
      PROVE  Source(d, x) \/ x = Entry(p.epoch, p.key)
  <2>1. \/ x \in keyring'[d] \/ x \in stored'[d]
        \/ \E kind \in Kinds : x \in task[d][kind].ring \/ x \in EntriesOf(task[d][kind].rows)
    BY <1>2 DEF Held, EntriesOf
  <2> QED
    BY <1>2, <2>1, HeldParts DEF Source
<1> QED
  BY <1>1, <1>2, KeySteps

(***************************************************************************)
(* One key of an epoch in a keyring.                                       *)
(***************************************************************************)
Functional(S) == \A x, y \in S : x.epoch = y.epoch => x = y
FunInv ==
  \A d \in Devices :
    /\ Functional(keyring[d]) /\ Functional(stored[d])
    /\ \A kind \in Kinds : Functional(task[d][kind].ring) /\ Functional(task[d][kind].rows)

LEMMA MergedFunctional ==
  ASSUME NEW ring, Functional(ring), NEW rows, Functional(rows)
  PROVE  Functional(Merged(ring, rows))
<1> SUFFICES ASSUME NEW x \in Merged(ring, rows), NEW y \in Merged(ring, rows), x.epoch = y.epoch
             PROVE  x = y
  BY DEF Functional
<1> DEFINE Added(z, w) == w \in rows /\ w.epoch \notin EpochsOf(ring) /\ z = Entry(w.epoch, w.key)
<1>1. \A z \in Merged(ring, rows) : z \in ring \/ \E w : Added(z, w)
  BY DEF Merged
<1>2. ASSUME NEW z, NEW w, Added(z, w) PROVE z.epoch = w.epoch
  BY <1>2 DEF Entry
<1>3. ASSUME NEW z \in ring, NEW v, NEW w, Added(v, w), z.epoch = v.epoch PROVE FALSE
  BY <1>2, <1>3 DEF EpochsOf
<1>4. ASSUME NEW v, NEW w, Added(x, v), Added(y, w) PROVE x = y
  <2>1. v.epoch = w.epoch
    BY <1>2, <1>4
  <2>2. v = w
    BY <1>4, <2>1 DEF Functional
  <2> QED
    BY <1>4, <2>2
<1>5. CASE x \in ring /\ y \in ring
  BY <1>5 DEF Functional
<1> HIDE DEF Added
<1> QED
  BY <1>1, <1>3, <1>4, <1>5

LEMMA WithEpochFunctional ==
  ASSUME NEW ring, Functional(ring), NEW e, NEW k PROVE Functional(withEpoch(ring, e, k))
BY DEF Functional, withEpoch, Entry

LEMMA RingsFunctional ==
  ASSUME FunInv, MailKey, NEW d \in Devices
  PROVE  (\A ring \in Rings(d) : Functional(ring)) /\ (\A rows \in Polls(d) : Functional(rows))
<1>1. /\ Functional(keyring[d]) /\ Functional(stored[d]) /\ Functional({})
      /\ \A kind \in Kinds : Functional(task[d][kind].ring) /\ Functional(task[d][kind].rows)
  BY DEF FunInv, Functional
<1>2. Functional(Mail(d))
  BY DEF MailKey, Mail, Functional
<1>3. \A kind \in Kinds : Functional(Merged(task[d][kind].ring, task[d][kind].rows))
  BY <1>1, MergedFunctional
<1>4. \A kind \in Kinds : \A q \in OwnOk(d) : Functional(withEpoch(task[d][kind].ring, q.epoch, q.key))
  BY <1>1, WithEpochFunctional
<1>5. ASSUME NEW ring \in Rings(d) PROVE Functional(ring)
  <2>1. CASE \E kind \in Kinds, q \in OwnOk(d) : ring = withEpoch(task[d][kind].ring, q.epoch, q.key)
    BY <1>4, <2>1
  <2>2. CASE \E kind \in Kinds : ring = Merged(task[d][kind].ring, task[d][kind].rows)
    BY <1>3, <2>2
  <2> QED
    BY <1>1, <2>1, <2>2 DEF Rings
<1>6. ASSUME NEW rows \in Polls(d) PROVE Functional(rows)
  BY <1>1, <1>2 DEF Polls
<1> QED
  BY <1>5, <1>6

LEMMA FunStep == ASSUME TypeOK, NewIsEmpty, FunInv, MailKey, [Next]_vars PROVE FunInv'
<1> SUFFICES ASSUME NEW d \in Devices
             PROVE  /\ Functional(keyring'[d]) /\ Functional(stored'[d])
                    /\ \A kind \in Kinds :
                         Functional(task'[d][kind].ring) /\ Functional(task'[d][kind].rows)
  BY DEF FunInv, Functional
<1>1. CASE KeyMoves(d)
  BY <1>1, RingsFunctional DEF KeyMoves
<1>2. ASSUME NEW p \in pairings, keyring'[d] = {Entry(p.epoch, p.key)},
             stored'[d] = {Entry(p.epoch, p.key)}, task' = task
      PROVE  /\ Functional(keyring'[d]) /\ Functional(stored'[d])
             /\ \A kind \in Kinds : Functional(task'[d][kind].ring) /\ Functional(task'[d][kind].rows)
  BY <1>2 DEF FunInv, Functional
<1> QED
  BY <1>1, <1>2, KeySteps

(***************************************************************************)
(* Where the calls come from.                                              *)
(***************************************************************************)
SameCall(q, r) ==
  q.by = r.by /\ q.key = r.key /\ q.epoch = r.epoch /\ q.wraps = r.wraps

\* r goes, and q is r at another stage.
Moved(r, q) == requests' \subseteq (requests \ {r}) \cup {q} /\ SameCall(q, r) /\ q.try = r.try
NewCall(q)  == requests' \subseteq requests \cup {q} /\ Fresh(q.key) /\ q.stage = "sent"
Retried(r, q) ==
  /\ requests' \subseteq requests \cup {q} /\ SameCall(q, r)
  /\ q.stage = "sent" /\ r.try < MaxTries /\ q.try = r.try + 1

\* A client starts a call, drops some, or posts one again while it has attempts left.
LEMMA ClientCalls ==
  ASSUME TypeOK, NEW d \in Devices, Client(d)
  PROVE  \/ requests' \subseteq requests
         \/ \E q : NewCall(q) /\ q.try = 1
         \/ \E r \in requests : \E q : Retried(r, q)
<1> DEFINE Right == \/ requests' \subseteq requests
                    \/ \E q : NewCall(q) /\ q.try = 1
                    \/ \E r \in requests : \E q : Retried(r, q)
<1>1. ASSUME NEW kind \in Kinds, RotateGroupKey(d, kind) PROVE Right
  <2>1. PICK k : /\ Fresh(k)
                 /\ requests' = requests \cup
                      {[by |-> d, kind |-> kind, key |-> k, epoch |-> groupEpoch + 1,
                        wraps |-> Active \ {d}, try |-> 1, stage |-> "sent"]}
    BY <1>1 DEF RotateGroupKey
  <2> DEFINE q == [by |-> d, kind |-> kind, key |-> k, epoch |-> groupEpoch + 1,
                   wraps |-> Active \ {d}, try |-> 1, stage |-> "sent"]
  <2>2. q.key = k /\ q.stage = "sent" /\ q.try = 1
    OBVIOUS
  <2>3. requests' \subseteq requests \cup {q}
    BY <2>1
  <2> HIDE DEF q
  <2>4. NewCall(q)
    BY <2>1, <2>2, <2>3 DEF NewCall
  <2> QED
    BY <2>2, <2>4
<1>2. ASSUME NEW r \in requests, r.try < MaxTries,
             requests' \subseteq requests \cup {[r EXCEPT !.stage = "sent", !.try = r.try + 1]}
      PROVE  Right
  <2> DEFINE q == [r EXCEPT !.stage = "sent", !.try = r.try + 1]
  <2>1. SameCall(q, r) /\ q.stage = "sent" /\ q.try = r.try + 1
    <3>1. r \in Calls
      BY DEF TypeOK
    <3> QED
      BY <3>1 DEF Calls, SameCall
  <2>2. requests' \subseteq requests \cup {q}
    BY <1>2
  <2> HIDE DEF q
  <2>3. Retried(r, q)
    BY <1>2, <2>1, <2>2 DEF Retried
  <2> QED
    BY <2>3
<1>3. ASSUME NEW kind \in Kinds, RotateAnswered(d, kind) PROVE Right
  <2>1. PICK q \in requests : IF q.stage = "error" /\ q.try < MaxTries
                              THEN requests' = (requests \ {q})
                                     \cup {[q EXCEPT !.stage = "sent", !.try = q.try + 1]}
                              ELSE requests' = requests \ {q}
    BY <1>3 DEF RotateAnswered
  <2>2. CASE q.stage = "error" /\ q.try < MaxTries
    <3>1. requests' \subseteq requests \cup {[q EXCEPT !.stage = "sent", !.try = q.try + 1]}
      BY <2>1, <2>2
    <3> QED
      BY <1>2, <2>2, <3>1
  <2>3. CASE ~(q.stage = "error" /\ q.try < MaxTries)
    BY <2>1, <2>3
  <2> QED
    BY <2>2, <2>3
<1>4. ASSUME NEW kind \in Kinds, RotateConnectionLost(d, kind) PROVE Right
  <2>1. Unanswered(d, {kind}) \subseteq requests
    BY DEF Unanswered
  <2>2. CASE requests' = Unanswered(d, {kind})
    BY <2>1, <2>2
  <2>3. CASE \E q \in requests :
               /\ q.by = d /\ q.kind = kind /\ Awaited(q) /\ task[d][kind].try < MaxTries
               /\ requests' = Unanswered(d, {kind})
                               \cup {[q EXCEPT !.stage = "sent", !.try = q.try + 1]}
    <3>1. PICK q \in requests :
               /\ q.by = d /\ q.kind = kind /\ Awaited(q) /\ task[d][kind].try < MaxTries
               /\ requests' = Unanswered(d, {kind})
                               \cup {[q EXCEPT !.stage = "sent", !.try = q.try + 1]}
      BY <2>3
    <3>2. q.try < MaxTries
      BY <3>1 DEF Awaited
    <3>3. requests' \subseteq requests \cup {[q EXCEPT !.stage = "sent", !.try = q.try + 1]}
      BY <2>1, <3>1
    <3> QED
      BY <1>2, <3>2, <3>3
  <2> QED
    BY <1>4, <2>2, <2>3 DEF RotateConnectionLost
<1>5. ASSUME Reload(d) PROVE Right
  BY <1>5 DEF Reload, Unanswered
<1>6. CASE UNCHANGED requests
  BY <1>6
<1>7. CASE Sync(d) \/ AckKeyFails(d) \/ \E target \in Devices : RevokeAuth(d, target)
  <2>1. UNCHANGED requests
    BY <1>7 DEF Sync, SyncBegin, PendingMessages, AdoptPendingKeys, AckKey, SyncEnd, AckKeyFails, RevokeAuth
  <2> QED
    BY <1>6, <2>1
<1>8. ASSUME NEW kind \in Kinds, RotateNothingDue(d, kind) PROVE Right
  BY <1>6, <1>8 DEF RotateNothingDue
<1>9. \/ Sync(d) \/ AckKeyFails(d) \/ \E target \in Devices : RevokeAuth(d, target)
      \/ Reload(d)
      \/ \E kind \in Kinds : \/ RotateGroupKey(d, kind) \/ RotateNothingDue(d, kind)
                             \/ RotateAnswered(d, kind) \/ RotateConnectionLost(d, kind)
  BY DEF Client, Rotation
<1> QED
  BY <1>1, <1>3, <1>4, <1>5, <1>7, <1>8, <1>9

\* A call that passes a check, or is answered.
LEMMA AnswerMoves ==
  ASSUME TypeOK, NEW r \in requests, NEW code, Answer(r, code)
  PROVE  \E q : Moved(r, q) /\ q.stage = code
<1> DEFINE q == [r EXCEPT !.stage = code]
<1>1. SameCall(q, r) /\ q.stage = code /\ q.try = r.try
  <2>1. r \in Calls
    BY DEF TypeOK
  <2> QED
    BY <2>1 DEF Calls, SameCall
<1>2. requests' \subseteq (requests \ {r}) \cup {q}
  BY DEF Answer
<1> HIDE DEF q
<1> QED
  BY <1>1, <1>2 DEF Moved

LEMMA CheckCalls ==
  ASSUME TypeOK, NEW r \in requests, RotateKeyAuth(r) \/ RotateKeyCheck(r)
  PROVE  \E q : /\ Moved(r, q) /\ r.stage \in {"sent", "authed"}
                /\ \/ q.stage = "refused"
                   \/ /\ q.stage = "authed" /\ status[r.by] = "active" /\ rotationPending
                      /\ keyEpoch[r.by] = groupEpoch /\ r.epoch = groupEpoch + 1
                   \/ q.stage = "checked" /\ r.stage = "authed" /\ r.wraps = Active \ {r.by}
<1> DEFINE Right(q) ==
             /\ Moved(r, q) /\ r.stage \in {"sent", "authed"}
             /\ \/ q.stage = "refused"
                \/ /\ q.stage = "authed" /\ status[r.by] = "active" /\ rotationPending
                   /\ keyEpoch[r.by] = groupEpoch /\ r.epoch = groupEpoch + 1
                \/ q.stage = "checked" /\ r.stage = "authed" /\ r.wraps = Active \ {r.by}
<1>1. ASSUME NEW s, requests' = (requests \ {r}) \cup {[r EXCEPT !.stage = s]}
      PROVE  \E q : Moved(r, q) /\ q.stage = s
  <2> DEFINE q == [r EXCEPT !.stage = s]
  <2>1. SameCall(q, r) /\ q.stage = s /\ q.try = r.try
    <3>1. r \in Calls
      BY DEF TypeOK
    <3> QED
      BY <3>1 DEF Calls, SameCall
  <2>2. requests' \subseteq (requests \ {r}) \cup {q}
    BY <1>1
  <2> HIDE DEF q
  <2> QED
    BY <2>1, <2>2 DEF Moved
<1>2. r.stage \in {"sent", "authed"}
  BY DEF RotateKeyAuth, RotateKeyCheck
<1>3. CASE Answer(r, "refused")
  BY <1>2, <1>3, AnswerMoves
<1>4. CASE RotateKeyAuth(r) /\ ~Answer(r, "refused")
  <2>1. /\ status[r.by] = "active" /\ rotationPending
        /\ keyEpoch[r.by] = groupEpoch /\ r.epoch = groupEpoch + 1
        /\ requests' = (requests \ {r}) \cup {[r EXCEPT !.stage = "authed"]}
    BY <1>4 DEF RotateKeyAuth
  <2> QED
    BY <1>1, <1>2, <2>1
<1>5. CASE RotateKeyCheck(r) /\ ~Answer(r, "refused")
  <2>1. /\ r.wraps = Active \ {r.by} /\ r.stage = "authed"
        /\ requests' = (requests \ {r}) \cup {[r EXCEPT !.stage = "checked"]}
    BY <1>5 DEF RotateKeyCheck
  <2> QED
    BY <1>1, <1>2, <2>1
<1> QED
  BY <1>3, <1>4, <1>5

\* The batch and its answer.
LEMMA BatchCalls ==
  ASSUME TypeOK, NEW r \in requests, RotateKeyBatch(r)
  PROVE  /\ r.stage = "checked" /\ UNCHANGED <<status, pairings, client>>
         /\ \/ PrimaryKeyTaken(r) /\ UNCHANGED <<server, committed>>
               /\ \E q : Moved(r, q) /\ q.stage = "error"
            \/ /\ ~PrimaryKeyTaken(r) /\ SwapSucceeds(r) /\ kd' = kd \cup Deposited(r)
               /\ keyEpoch' = [keyEpoch EXCEPT ![r.by] = EpochAfterOwnUpdate(r)]
               /\ groupEpoch' = r.epoch /\ committed' = committed \cup {Entry(r.epoch, r.key)}
               /\ \E q : Moved(r, q) /\ q.stage = "ok"
            \/ /\ ~PrimaryKeyTaken(r) /\ ~SwapSucceeds(r) /\ kd' = kd \cup Deposited(r)
               /\ keyEpoch' = [keyEpoch EXCEPT ![r.by] = EpochAfterOwnUpdate(r)]
               /\ UNCHANGED <<groupEpoch, rotationPending, committed>>
               /\ \E q : Moved(r, q) /\ q.stage = "refused"
<1>1. r.stage = "checked" /\ UNCHANGED <<status, pairings, client>>
  BY DEF RotateKeyBatch, server
<1>2. CASE PrimaryKeyTaken(r)
  <2>1. Answer(r, "error") /\ UNCHANGED <<server, committed>>
    BY <1>2 DEF RotateKeyBatch
  <2>2. \E q : Moved(r, q) /\ q.stage = "error"
    BY <2>1, AnswerMoves
  <2> QED
    BY <1>1, <1>2, <2>1, <2>2
<1>3. CASE ~PrimaryKeyTaken(r) /\ SwapSucceeds(r)
  <2>1. /\ kd' = kd \cup Deposited(r)
        /\ keyEpoch' = [keyEpoch EXCEPT ![r.by] = EpochAfterOwnUpdate(r)]
        /\ groupEpoch' = r.epoch /\ committed' = committed \cup {Entry(r.epoch, r.key)}
        /\ Answer(r, "ok")
    BY <1>3 DEF RotateKeyBatch
  <2>2. \E q : Moved(r, q) /\ q.stage = "ok"
    BY <2>1, AnswerMoves
  <2> QED
    BY <1>1, <1>3, <2>1, <2>2
<1>4. CASE ~PrimaryKeyTaken(r) /\ ~SwapSucceeds(r)
  <2>1. /\ kd' = kd \cup Deposited(r)
        /\ keyEpoch' = [keyEpoch EXCEPT ![r.by] = EpochAfterOwnUpdate(r)]
        /\ UNCHANGED <<groupEpoch, rotationPending, committed>>
        /\ Answer(r, "refused")
    BY <1>4 DEF RotateKeyBatch
  <2>2. \E q : Moved(r, q) /\ q.stage = "refused"
    BY <2>1, AnswerMoves
  <2> QED
    BY <1>1, <1>4, <2>1, <2>2
<1> QED
  BY <1>2, <1>3, <1>4

(***************************************************************************)
(* No split brain.  In a space that nobody joins, a rotation that loses    *)
(* without a row in its way was sent by a device revoked since, so it      *)
(* leaves a wrap with every device that is left: these wraps stand in the  *)
(* way of every later rotation, unless only one device is left.            *)
(***************************************************************************)
Everyone == \A d \in Devices : status[d] # "new"
Alone    == \A d, e \in Active : d = e

\* The mailbox of every active device holds a wrap of the epoch to come.
Wedged == \A d \in Active : \E x \in kd : x.device = d /\ x.epoch = groupEpoch + 1

\* A key of an epoch the group has reached won it; others exist only if no rotation can win.
Sound(x) == IF x.epoch <= groupEpoch THEN Entry(x.epoch, x.key) \in committed ELSE Wedged

\* What the checks of a rotation that executes still guarantee.
CallFits(q) ==
  /\ q.stage \in {"authed", "checked"} =>
       /\ q.epoch <= groupEpoch + 1
       /\ q.epoch = groupEpoch + 1 =>
            rotationPending /\ (status[q.by] = "active" => keyEpoch[q.by] = groupEpoch)
  /\ q.stage = "checked" => Active \ {q.by} \subseteq q.wraps
  /\ q.stage = "ok" => Entry(q.epoch, q.key) \in committed
CallsFit == \A q \in requests : CallFits(q)

MailSound == \A x \in kd : Sound(x)
HeldSound == \A d \in Active : \A x \in Held(d) : Sound(x)

SplitInv ==
  /\ TypeOK /\ TableInv /\ NewIsEmpty /\ OneKeyInv
  /\ Everyone /\ FunInv /\ CallsFit
  /\ Alone \/ (MailSound /\ HeldSound)

\* A device moves the tables by an ack only.
LEMMA ClientTables ==
  ASSUME TypeOK, NEW d \in Devices, Client(d)
  PROVE  /\ UNCHANGED <<committed, pairings>>
         /\ \/ UNCHANGED server
            \/ \E e \in Epochs : e <= groupEpoch /\ AckBatch(d, e)
<1> DEFINE Right == /\ UNCHANGED committed
                    /\ UNCHANGED server \/ \E e \in Epochs : e <= groupEpoch /\ AckBatch(d, e)
<1>1. ASSUME NEW e \in Highest(task[d]["sync"].rows) PROVE e \in Epochs
  <2>1. task[d]["sync"].rows \in SUBSET Rows
    BY TaskType DEF Kinds
  <2> QED
    BY <2>1 DEF Highest, EpochsOf, Rows
<1>2. ASSUME AckKey(d) PROVE Right
  <2>1. UNCHANGED committed
    BY <1>2 DEF AckKey, history
  <2>2. PICK e \in Highest(task[d]["sync"].rows) :
          (AckAccepted(d, e) /\ AckBatch(d, e)) \/ (~AckAccepted(d, e) /\ UNCHANGED server)
    BY <1>2 DEF AckKey
  <2> QED
    BY <1>1, <2>1, <2>2 DEF AckAccepted
<1>3. ASSUME AckKeyFails(d) PROVE Right
  <2>1. UNCHANGED committed
    BY <1>3 DEF AckKeyFails, history
  <2>2. \/ \E e \in Highest(task[d]["sync"].rows) : AckAccepted(d, e) /\ AckBatch(d, e)
        \/ UNCHANGED server
    BY <1>3 DEF AckKeyFails
  <2> QED
    BY <1>1, <2>1, <2>2 DEF AckAccepted
<1>4. ASSUME Client(d), ~AckKey(d), ~AckKeyFails(d) PROVE Right
  BY <1>4 DEF Client, Sync, SyncBegin, PendingMessages, AdoptPendingKeys, SyncEnd, Reload, history,
     Rotation, RotateGroupKey, RotateNothingDue, RotateAnswered, RotateConnectionLost, RevokeAuth
<1>5. UNCHANGED pairings
  BY DEF Client, Sync, SyncBegin, PendingMessages, AdoptPendingKeys, SyncEnd, Reload, AckKey, AckKeyFails,
     Rotation, RotateGroupKey, RotateNothingDue, RotateAnswered, RotateConnectionLost, RevokeAuth
<1> QED
  BY <1>2, <1>3, <1>4, <1>5

\* A batch that loses the swap with the epoch to come was sent by a device revoked since.
LEMMA LostByRevoked ==
  ASSUME TypeOK, NEW r \in requests, r.stage = "checked", CallFits(r), r.epoch = groupEpoch + 1,
         ~SwapSucceeds(r)
  PROVE  r.by \notin Active /\ \A d \in Active : Row(d, r.epoch, r.key) \in Deposited(r)
<1>0. groupEpoch \in Nat /\ r.by \in Devices
  BY CallType DEF TypeOK, Epochs
<1>1. /\ rotationPending /\ Active \ {r.by} \subseteq r.wraps
      /\ r.by \in Active => keyEpoch[r.by] = groupEpoch
  BY DEF CallFits, Active
<1>2. \A d \in Active \ {r.by} : Row(d, r.epoch, r.key) \in Deposited(r)
  BY <1>0, <1>1 DEF Deposited
<1>3. \A d \in Active \ {r.by} : \E x \in kd \cup Deposited(r) : x.device = d /\ x.epoch = r.epoch
  <2> SUFFICES ASSUME NEW d \in Active \ {r.by}
               PROVE  \E x \in kd \cup Deposited(r) : x.device = d /\ x.epoch = r.epoch
    OBVIOUS
  <2>1. Row(d, r.epoch, r.key).device = d /\ Row(d, r.epoch, r.key).epoch = r.epoch
    BY DEF Row
  <2> QED
    BY <1>2, <2>1
<1>4. r.by \in Active => EpochAfterOwnUpdate(r) = r.epoch
  BY <1>0, <1>1 DEF EpochAfterOwnUpdate
<1>5. r.by \notin Active
  BY <1>0, <1>1, <1>3, <1>4 DEF SwapSucceeds
<1> QED
  BY <1>2, <1>5

\* One that wins finds a device without a wrap of the epoch to come.
LEMMA WonUnwedged ==
  ASSUME TypeOK, NEW r \in requests, r.stage = "checked", CallFits(r), ~PrimaryKeyTaken(r),
         SwapSucceeds(r), ~Alone
  PROVE  ~Wedged
<1>0. groupEpoch \in Nat /\ r.epoch = groupEpoch + 1
  BY CallType DEF TypeOK, Epochs, SwapSucceeds
<1>1. PICK d \in Active : d # r.by
  BY DEF Alone
<1>2. d \in r.wraps \cap Active
  BY <1>1 DEF CallFits
<1>3. Row(d, r.epoch, r.key) \in Deposited(r)
  BY <1>0, <1>2 DEF Deposited
<1>4. Row(d, r.epoch, r.key).device = d /\ Row(d, r.epoch, r.key).epoch = r.epoch
  BY DEF Row
<1> QED
  BY <1>0, <1>1, <1>3, <1>4 DEF Wedged, PrimaryKeyTaken

\* What every step does to a call that goes on.
LEMMA KeptFits ==
  ASSUME SplitInv, [Next]_vars, NEW q \in requests
  PROVE  CallFits(q)'
<1>0. TypeOK /\ CallFits(q) /\ groupEpoch \in Nat /\ q.by \in Devices /\ q.epoch \in Nat /\ Everyone
  BY CallType DEF SplitInv, CallsFit, TypeOK, Epochs
<1>1. ASSUME UNCHANGED <<server, committed>> PROVE CallFits(q)'
  BY <1>0, <1>1 DEF server, CallFits, Active
<1>2. ASSUME NEW d \in Devices, NEW e \in Epochs, e <= groupEpoch, AckBatch(d, e), UNCHANGED committed
      PROVE  CallFits(q)'
  <2>1. UNCHANGED <<groupEpoch, rotationPending, status>>
    BY <1>2 DEF AckBatch
  <2>2. keyEpoch[q.by] = groupEpoch => keyEpoch'[q.by] = groupEpoch
    BY <1>0, <1>2 DEF AckBatch, TypeOK, Epochs
  <2> QED
    BY <1>0, <1>2, <2>1, <2>2 DEF CallFits, Active
<1>3. ASSUME NEW r \in revoking, RevokeBatch(r) PROVE CallFits(q)'
  <2>1. /\ UNCHANGED <<groupEpoch, keyEpoch, committed>> /\ rotationPending' = TRUE
        /\ \A d \in Devices : status'[d] = "active" => status[d] = "active"
    BY <1>0, <1>3 DEF RevokeBatch, TypeOK
  <2>2. Active' \subseteq Active
    BY <2>1 DEF Active
  <2> QED
    BY <1>0, <2>1, <2>2 DEF CallFits
<1>4. ASSUME NEW p \in pairings, PairBatch(p) PROVE CallFits(q)'
  <2>1. UNCHANGED <<server, committed>>
    BY <1>0, <1>4 DEF PairBatch, Everyone, server, history, TypeOK
  <2> QED
    BY <1>1, <2>1
<1>5. ASSUME NEW r \in requests, RotateKeyBatch(r) PROVE CallFits(q)'
  <2>0. r.stage = "checked" /\ CallFits(r) /\ r.by \in Devices /\ r.epoch \in Nat /\ status' = status
    BY <1>0, <1>5, BatchCalls, CallType DEF SplitInv, CallsFit, Epochs
  <2>1. CASE SwapSucceeds(r) /\ groupEpoch' = r.epoch /\ committed \subseteq committed'
    <3>1. groupEpoch' = groupEpoch + 1
      BY <1>0, <2>0, <2>1 DEF SwapSucceeds
    <3>2. Active' = Active
      BY <2>0 DEF Active
    <3> QED
      BY <1>0, <2>0, <2>1, <3>1, <3>2 DEF CallFits
  <2>2. CASE /\ ~SwapSucceeds(r) /\ UNCHANGED <<groupEpoch, rotationPending, committed>>
             /\ keyEpoch' = [keyEpoch EXCEPT ![r.by] = EpochAfterOwnUpdate(r)]
    <3>1. Active' = Active
      BY <2>0 DEF Active
    <3>2. ASSUME status[q.by] = "active", keyEpoch[q.by] = groupEpoch PROVE keyEpoch'[q.by] = groupEpoch
      <4>1. CASE q.by # r.by
        BY <1>0, <2>2, <3>2, <4>1 DEF TypeOK
      <4>2. CASE q.by = r.by
        <5>1. r.by \in Active
          BY <2>0, <3>2, <4>2 DEF Active
        <5>2. r.epoch # groupEpoch + 1
          BY <1>0, <2>0, <2>2, <5>1, LostByRevoked
        <5>3. EpochAfterOwnUpdate(r) = keyEpoch[r.by]
          BY <1>0, <2>0, <3>2, <4>2, <5>2 DEF EpochAfterOwnUpdate
        <5> QED
          BY <1>0, <2>0, <2>2, <3>2, <4>2, <5>3 DEF TypeOK
      <4> QED
        BY <4>1, <4>2
    <3> QED
      BY <1>0, <2>0, <2>2, <3>1, <3>2 DEF CallFits
  <2> QED
    BY <1>0, <1>1, <1>5, <2>1, <2>2, BatchCalls
<1>6. ASSUME NEW r \in requests, RotateKeyAuth(r) \/ RotateKeyCheck(r) PROVE CallFits(q)'
  BY <1>1, <1>6 DEF RotateKeyAuth, RotateKeyCheck, history
<1>7. ASSUME NEW d \in Devices, Client(d) PROVE CallFits(q)'
  BY <1>0, <1>1, <1>2, <1>7, ClientTables
<1>8. ASSUME \E d, joiner \in Devices : PairAuth(d, joiner) PROVE CallFits(q)'
  BY <1>1, <1>8 DEF PairAuth, history
<1> QED
  BY <1>1, <1>3, <1>4, <1>5, <1>6, <1>7, <1>8, Steps DEF RotateKey, vars, history

LEMMA CallsFitStep == ASSUME SplitInv, [Next]_vars PROVE CallsFit'
<1> SUFFICES ASSUME NEW q \in requests' PROVE CallFits(q)'
  BY DEF CallsFit
<1>0. TypeOK /\ groupEpoch \in Nat /\ NewIsEmpty
  BY DEF SplitInv, TypeOK, Epochs
<1>1. ASSUME q \in requests PROVE CallFits(q)'
  BY <1>1, KeptFits
<1>2. ASSUME q.stage \in {"sent", "refused", "error"} PROVE CallFits(q)'
  BY <1>2 DEF CallFits
<1>3. ASSUME UNCHANGED requests PROVE CallFits(q)'
  BY <1>1, <1>3
<1>4. ASSUME NEW d \in Devices, Client(d) PROVE CallFits(q)'
  BY <1>0, <1>1, <1>2, <1>4, ClientCalls DEF NewCall, Retried
<1>5. ASSUME NEW r \in requests, RotateKeyAuth(r) \/ RotateKeyCheck(r) PROVE CallFits(q)'
  <2>1. PICK u : /\ Moved(r, u) /\ r.stage \in {"sent", "authed"}
                 /\ \/ u.stage = "refused"
                    \/ /\ u.stage = "authed" /\ status[r.by] = "active" /\ rotationPending
                       /\ keyEpoch[r.by] = groupEpoch /\ r.epoch = groupEpoch + 1
                    \/ u.stage = "checked" /\ r.stage = "authed" /\ r.wraps = Active \ {r.by}
    BY <1>0, <1>5, CheckCalls
  <2>2. /\ q \in requests \/ q = u
        /\ u.by = r.by /\ u.epoch = r.epoch /\ u.wraps = r.wraps
    BY <2>1 DEF Moved, SameCall
  <2>3. UNCHANGED server /\ Active' = Active
    BY <1>5 DEF RotateKeyAuth, RotateKeyCheck, server, Active
  <2>4. CASE q = u /\ u.stage = "authed" /\ r.stage = "sent"
    BY <1>0, <2>1, <2>2, <2>3, <2>4 DEF CallFits, server
  <2>5. CASE q = u /\ u.stage = "authed" /\ r.stage = "authed"
    BY <1>0, <2>1, <2>2, <2>3, <2>5 DEF CallFits, server
  <2>6. CASE q = u /\ u.stage = "checked"
    BY <1>0, <2>1, <2>2, <2>3, <2>6 DEF CallFits, server, SplitInv, CallsFit
  <2> QED
    BY <1>1, <1>2, <2>1, <2>2, <2>4, <2>5, <2>6
<1>6. ASSUME NEW r \in requests, RotateKeyBatch(r) PROVE CallFits(q)'
  <2>1. CASE \E u : Moved(r, u) /\ u.stage \in {"refused", "error"}
    BY <1>1, <1>2, <2>1 DEF Moved
  <2>2. CASE /\ committed' = committed \cup {Entry(r.epoch, r.key)}
             /\ \E u : Moved(r, u) /\ u.stage = "ok"
    <3>1. PICK u : Moved(r, u) /\ u.stage = "ok"
      BY <2>2
    <3>2. u.epoch = r.epoch /\ u.key = r.key /\ (q \in requests \/ q = u)
      BY <3>1 DEF Moved, SameCall
    <3> QED
      BY <1>1, <2>2, <3>1, <3>2 DEF CallFits
  <2> QED
    BY <1>0, <1>6, <2>1, <2>2, BatchCalls
<1>7. ASSUME \/ \E r \in revoking : RevokeBatch(r)
             \/ \E p \in pairings : PairBatch(p)
             \/ \E d, joiner \in Devices : PairAuth(d, joiner)
             \/ UNCHANGED vars
      PROVE  CallFits(q)'
  BY <1>3, <1>7 DEF RevokeBatch, PairBatch, PairAuth, vars
<1> QED
  BY <1>4, <1>5, <1>6, <1>7, Steps DEF RotateKey

\* A sound key stays sound, wherever it is.
LEMMA SoundStep ==
  ASSUME SplitInv, [Next]_vars, ~Alone', NEW x, x.epoch \in Nat, Sound(x)
  PROVE  Sound(x)'
<1>0. /\ TypeOK /\ Everyone /\ groupEpoch \in Nat /\ groupEpoch' \in Nat /\ groupEpoch <= groupEpoch'
      /\ committed \subseteq committed'
  BY EpochSteps, RotationOutcome DEF SplitInv, TypeOK, Epochs
<1>1. CASE x.epoch <= groupEpoch
  BY <1>0, <1>1 DEF Sound
<1>2. ASSUME x.epoch > groupEpoch, groupEpoch' = groupEpoch, Wedged' PROVE Sound(x)'
  BY <1>0, <1>2 DEF Sound
<1>3. ASSUME x.epoch > groupEpoch PROVE Wedged
  BY <1>0, <1>3 DEF Sound
<1>4. ASSUME UNCHANGED <<groupEpoch, status>>, kd \subseteq kd' PROVE Sound(x)'
  <2>1. Wedged => Wedged'
    BY <1>4 DEF Wedged, Active
  <2> QED
    BY <1>0, <1>1, <1>2, <1>3, <1>4, <2>1
<1>5. ASSUME NEW d \in Devices, Client(d) PROVE Sound(x)'
  <2>1. CASE UNCHANGED server
    BY <1>4, <2>1 DEF server
  <2>2. ASSUME NEW e \in Epochs, e <= groupEpoch, AckBatch(d, e) PROVE Sound(x)'
    <3>1. Active' = Active /\ groupEpoch' = groupEpoch
      BY <2>2 DEF AckBatch, Active
    <3>2. \A y \in kd : y.epoch = groupEpoch + 1 => y \in kd'
      BY <1>0, <2>2 DEF AckBatch, Epochs
    <3>3. Wedged => Wedged'
      BY <3>1, <3>2 DEF Wedged
    <3> QED
      BY <1>0, <1>1, <1>2, <1>3, <3>1, <3>3
  <2> QED
    BY <1>0, <1>5, <2>1, <2>2, ClientTables
<1>6. ASSUME NEW r \in requests, RotateKeyBatch(r) PROVE Sound(x)'
  <2>1. CASE SwapSucceeds(r) /\ ~PrimaryKeyTaken(r)
    <3>1. ~Alone
      BY <1>0, <1>6, BatchCalls DEF Alone, Active
    <3>2. ~Wedged
      BY <1>0, <1>6, <2>1, <3>1, WonUnwedged, BatchCalls DEF SplitInv, CallsFit
    <3> QED
      BY <1>0, <1>1, <1>3, <3>2
  <2>2. CASE UNCHANGED <<groupEpoch, status>> /\ kd \subseteq kd'
    BY <1>4, <2>2
  <2> QED
    BY <1>0, <1>6, <2>1, <2>2, BatchCalls DEF server
<1>7. ASSUME NEW r \in revoking, RevokeBatch(r) PROVE Sound(x)'
  <2>1. groupEpoch' = groupEpoch /\ \A d \in Active' : d \in Active /\ d # r.target
    BY <1>0, <1>7 DEF RevokeBatch, TypeOK, Active
  <2>2. Wedged => Wedged'
    BY <1>7, <2>1 DEF RevokeBatch, Wedged
  <2> QED
    BY <1>0, <1>1, <1>2, <1>3, <2>1, <2>2
<1>8. ASSUME NEW p \in pairings, PairBatch(p) PROVE Sound(x)'
  <2>1. UNCHANGED server
    BY <1>0, <1>8 DEF PairBatch, Everyone, server, TypeOK
  <2> QED
    BY <1>4, <2>1 DEF server
<1>9. ASSUME NEW r \in requests, RotateKeyAuth(r) \/ RotateKeyCheck(r) PROVE Sound(x)'
  BY <1>4, <1>9 DEF RotateKeyAuth, RotateKeyCheck, server
<1>10. ASSUME \E d, joiner \in Devices : PairAuth(d, joiner) PROVE Sound(x)'
  BY <1>4, <1>10 DEF PairAuth, server
<1> QED
  BY <1>4, <1>5, <1>6, <1>7, <1>8, <1>9, <1>10, Steps DEF RotateKey, vars, server

LEMMA EveryoneStep ==
  ASSUME SplitInv, [Next]_vars PROVE Everyone' /\ Active' \subseteq Active
<1>0. TypeOK /\ Everyone /\ NewIsEmpty
  BY DEF SplitInv
<1>1. CASE UNCHANGED status
  BY <1>0, <1>1 DEF Everyone, Active
<1>2. ASSUME NEW r \in revoking, RevokeBatch(r) PROVE Everyone' /\ Active' \subseteq Active
  BY <1>0, <1>2 DEF RevokeBatch, TypeOK, Everyone, Active
<1>3. ASSUME NEW p \in pairings, PairBatch(p) PROVE UNCHANGED status
  BY <1>0, <1>3 DEF PairBatch, TypeOK, Everyone
<1> QED
  BY <1>0, <1>1, <1>2, <1>3, ServerSteps DEF vars, server, AckBatch, RotateKeyBatch

\* What a rotation deposits is sound too.
LEMMA MailSoundStep ==
  ASSUME SplitInv, [Next]_vars, ~Alone', MailSound PROVE MailSound'
<1>0. TypeOK /\ groupEpoch \in Nat /\ NewIsEmpty /\ kd \subseteq Rows /\ Everyone
  BY DEF SplitInv, TypeOK, Epochs
<1> SUFFICES ASSUME NEW x \in kd' PROVE Sound(x)'
  BY DEF MailSound
<1>1. ASSUME x \in kd PROVE Sound(x)'
  BY <1>0, <1>1, SoundStep DEF MailSound, Rows, Epochs
<1>2. ASSUME NEW r \in requests, RotateKeyBatch(r), x \in Deposited(r), kd' = kd \cup Deposited(r),
             ~PrimaryKeyTaken(r)
      PROVE  Sound(x)'
  <2>0. r.stage = "checked" /\ CallFits(r) /\ status' = status /\ x.epoch = r.epoch /\ x.key = r.key
        /\ x.epoch = groupEpoch + 1
    BY <1>0, <1>2, BatchCalls, DepositsNext DEF SplitInv, CallsFit
  <2>1. CASE groupEpoch' = r.epoch /\ committed' = committed \cup {Entry(r.epoch, r.key)}
    <3>1. Entry(x.epoch, x.key) \in committed'
      BY <2>0, <2>1
    <3>2. groupEpoch' = r.epoch /\ r.epoch = x.epoch /\ x.epoch = groupEpoch + 1 /\ groupEpoch \in Nat
      BY <1>0, <2>0, <2>1
    <3>3. x.epoch <= groupEpoch'
      BY <3>2
    <3> QED
      BY <3>1, <3>3 DEF Sound
  <2>2. CASE ~SwapSucceeds(r) /\ groupEpoch' = groupEpoch
    <3>1. \A d \in Active : Row(d, r.epoch, r.key) \in Deposited(r)
      BY <1>0, <2>0, <2>2, LostByRevoked
    <3>2. \A d \in Active : Row(d, r.epoch, r.key).device = d /\ Row(d, r.epoch, r.key).epoch = groupEpoch + 1
      BY <2>0 DEF Row
    <3>3. Active' = Active
      BY <2>0 DEF Active
    <3>4. Wedged'
      BY <1>2, <2>2, <3>1, <3>2, <3>3 DEF Wedged
    <3> QED
      BY <1>0, <2>0, <2>2, <3>4 DEF Sound
  <2> QED
    BY <1>0, <1>2, <2>1, <2>2, BatchCalls
<1>3. ASSUME NEW r \in requests, RotateKeyBatch(r), x \notin kd PROVE Sound(x)'
  BY <1>0, <1>2, <1>3, BatchMail
<1>4. ASSUME kd' \subseteq kd PROVE Sound(x)'
  BY <1>1, <1>4
<1> QED
  BY <1>0, <1>1, <1>3, <1>4, ServerSteps DEF vars, server, AckBatch, RevokeBatch, PairBatch

LEMMA HeldSoundStep ==
  ASSUME SplitInv, [Next]_vars, ~Alone', MailSound, HeldSound PROVE HeldSound'
<1>0. /\ TypeOK /\ groupEpoch \in Nat /\ NewIsEmpty /\ kd \subseteq Rows /\ Everyone /\ WinnersNotAhead
      /\ committed \subseteq Entries
  BY DEF SplitInv, TypeOK, Epochs, OneKeyInv
<1> SUFFICES ASSUME NEW d \in Active', NEW x \in Held(d)' PROVE Sound(x)'
  BY DEF HeldSound
<1>1. d \in Active /\ d \in Devices
  BY EveryoneStep DEF Active
<1>2. Source(d, x)
  BY <1>0, <1>1, HeldSteps DEF Everyone
<1>3. CASE x \in Held(d)
  <2>1. x.epoch \in Nat
    <3>1. Held(d) \subseteq Entries
      BY <1>0, <1>1, HeldType
    <3> QED
      BY <1>3, <3>1 DEF Entries, Epochs
  <2> QED
    BY <1>1, <1>3, <2>1, SoundStep DEF HeldSound
<1>4. ASSUME NEW y \in kd, x = Entry(y.epoch, y.key) PROVE Sound(x)'
  <2>1. x.epoch = y.epoch /\ x.key = y.key /\ x.epoch \in Nat
    BY <1>0, <1>4 DEF Entry, Rows, Epochs
  <2>2. Sound(x)
    BY <2>1 DEF MailSound, Sound
  <2> QED
    BY <2>1, <2>2, SoundStep
<1>5. ASSUME NEW q \in OwnOk(d), x = Entry(q.epoch, q.key) PROVE Sound(x)'
  <2>1. x \in committed
    BY <1>5 DEF OwnOk, SplitInv, CallsFit, CallFits
  <2>2. x.epoch <= groupEpoch /\ x.epoch \in Nat /\ Entry(x.epoch, x.key) = x
    BY <1>0, <1>5, <2>1 DEF WinnersNotAhead, Entries, Entry, Epochs
  <2>3. Sound(x)
    BY <2>1, <2>2 DEF Sound
  <2> QED
    BY <2>2, <2>3, SoundStep
<1> QED
  BY <1>2, <1>3, <1>4, <1>5 DEF Source, EntriesOf, Mail

LEMMA SplitStep == ASSUME SpaceAssumption, SplitInv, [Next]_vars PROVE SplitInv'
<1>1. TypeOK' /\ TableInv' /\ NewIsEmpty' /\ OneKeyInv'
  BY TypeInductive, TableStep, NewStep, OneKeyInductive DEF SplitInv
<1>2. Everyone' /\ FunInv' /\ CallsFit'
  BY EveryoneStep, FunStep, CallsFitStep DEF SplitInv, TableInv
<1>3. Alone => Alone'
  BY EveryoneStep DEF Alone
<1>4. Alone' \/ (MailSound' /\ HeldSound')
  BY <1>3, MailSoundStep, HeldSoundStep DEF SplitInv
<1> QED
  BY <1>1, <1>2, <1>4 DEF SplitInv

\* Such a space starts out sound: everyone has the key of the first epoch.
LEMMA SplitInit == ASSUME SpaceAssumption, Founders = Devices, Init PROVE SplitInv
<1>1. TypeOK /\ TableInv /\ NewIsEmpty /\ CallsFit /\ MailSound
  BY SpaceAssumption, InitType
     DEF Init, TableInv, MailAhead, MailKey, NewIsEmpty, CallsFit, MailSound
<1>2. OneKeyInv
  BY DEF Init, OneKeyInv, WinnersNotAhead, OneKeyPerEpoch, Entry, INITIAL_KEY_EPOCH
<1>3. Everyone
  BY DEF Init, Everyone
<1>4. ASSUME NEW d \in Devices
      PROVE  /\ keyring[d] = committed /\ stored[d] = committed
             /\ \A kind \in Kinds : task[d][kind].ring = {} /\ task[d][kind].rows = {}
  BY Resting DEF Init
<1>5. FunInv
  BY <1>4 DEF FunInv, Functional, Init
<1>6. \A d \in Devices : \A x \in Held(d) : x \in committed
  BY <1>4 DEF Held, EntriesOf
<1>7. HeldSound
  BY <1>6 DEF HeldSound, Sound, Active, Init, Entry, INITIAL_KEY_EPOCH
<1> QED
  BY <1>1, <1>2, <1>3, <1>5, <1>7 DEF SplitInv

\* Two devices that are left never store different keys of an epoch the group has reached
\* (keys.ts:113-121, "never a split brain"), in a space that nobody joins: whatever calls
\* overlap, are lost and repeated, whoever is revoked in between, and whatever pages close.
THEOREM SpaceKeysNoSplitBrain == Founders = Devices => (Spec => []NoSplitBrain)
<1> SUFFICES ASSUME Founders = Devices PROVE Spec => []NoSplitBrain
  OBVIOUS
<1>1. Init => SplitInv
  BY SpaceAssumption, SplitInit
<1>2. SplitInv /\ [Next]_vars => SplitInv'
  BY SpaceAssumption, SplitStep
<1>3. SplitInv => NoSplitBrain
  <2> SUFFICES ASSUME SplitInv, NEW d \in Active, NEW e \in Active, NEW x \in stored[d], NEW y \in stored[e],
                      x.epoch = y.epoch, x.epoch <= groupEpoch
               PROVE  x.key = y.key
    BY DEF NoSplitBrain
  <2>1. CASE d = e
    BY <2>1 DEF SplitInv, FunInv, Functional, Active
  <2>2. CASE ~Alone
    <3>1. Sound(x) /\ Sound(y)
      BY <2>2, HeldParts DEF SplitInv, HeldSound
    <3>2. Entry(x.epoch, x.key) \in committed /\ Entry(y.epoch, y.key) \in committed
      BY <3>1 DEF Sound
    <3>3. Entry(x.epoch, x.key).epoch = Entry(y.epoch, y.key).epoch
      BY DEF Entry
    <3>4. Entry(x.epoch, x.key).key = Entry(y.epoch, y.key).key
      BY <3>2, <3>3 DEF SplitInv, OneKeyInv, OneKeyPerEpoch
    <3> QED
      BY <3>4 DEF Entry
  <2> QED
    BY <2>1, <2>2 DEF Alone
<1> QED
  BY <1>1, <1>2, <1>3, PTL DEF Spec

(***************************************************************************)
(* One log of keys.  A device never has a key more than one epoch ahead of *)
(* the group: its mailbox has none, and what it minted itself it only      *)
(* keeps once it has won.                                                  *)
(***************************************************************************)
NotFarAhead == \A d \in Devices : \A x \in Held(d) : x.epoch <= groupEpoch + 1

LEMMA NotFarAheadStep ==
  ASSUME SplitInv, NotFarAhead, [Next]_vars PROVE NotFarAhead'
<1>0. /\ TypeOK /\ NewIsEmpty /\ Everyone /\ MailAhead /\ WinnersNotAhead /\ CallsFit
      /\ groupEpoch \in Nat /\ groupEpoch' \in Nat /\ groupEpoch <= groupEpoch'
  BY EpochSteps, RotationOutcome DEF SplitInv, TypeOK, Epochs, TableInv, OneKeyInv
<1> SUFFICES ASSUME NEW d \in Devices, NEW x \in Held(d)' PROVE x.epoch <= groupEpoch' + 1
  BY DEF NotFarAhead
<1>1. Source(d, x)
  BY <1>0, HeldSteps DEF Everyone
<1>2. ASSUME x.epoch \in Nat, x.epoch <= groupEpoch + 1 PROVE x.epoch <= groupEpoch' + 1
  BY <1>0, <1>2
<1>3. CASE x \in Held(d)
  <2>1. x.epoch \in Nat
    BY <1>0, <1>3, HeldType DEF Entries, Epochs
  <2> QED
    BY <1>2, <1>3, <2>1 DEF NotFarAhead
<1>4. ASSUME NEW y \in kd, x = Entry(y.epoch, y.key) PROVE x.epoch <= groupEpoch' + 1
  <2>1. x.epoch = y.epoch /\ y.epoch \in Nat
    BY <1>0, <1>4 DEF Entry, TypeOK, Rows, Epochs
  <2> QED
    BY <1>0, <1>2, <2>1 DEF MailAhead
<1>5. ASSUME NEW q \in OwnOk(d), x = Entry(q.epoch, q.key) PROVE x.epoch <= groupEpoch' + 1
  <2>1. x \in committed
    BY <1>0, <1>5 DEF OwnOk, CallsFit, CallFits
  <2>2. x.epoch \in Nat /\ x.epoch <= groupEpoch
    BY <1>0, <2>1 DEF WinnersNotAhead, TypeOK, Entries, Epochs
  <2> QED
    BY <1>0, <1>2, <2>2
<1> QED
  BY <1>1, <1>3, <1>4, <1>5 DEF Source, EntriesOf, Mail

\* Two devices are left exactly when the log has two members.
LEMMA SameAlone == KeyLog!Members = Active /\ (KeyLog!Alone <=> Alone)
BY DEF KeyLog!Members, KeyLog!Alone, Alone

\* A rotation that wins extends the log: nobody stores a key that is ahead of it.
LEMMA WinExtendsLog ==
  ASSUME SplitInv, NEW r \in requests, RotateKeyBatch(r), ~PrimaryKeyTaken(r), SwapSucceeds(r)
  PROVE  KeyLog!Commit
<1>0. TypeOK /\ groupEpoch \in Nat /\ r.epoch \in Nat
  BY CallType DEF SplitInv, TypeOK, Epochs
<1>1. /\ r.stage = "checked" /\ CallFits(r) /\ UNCHANGED <<status, stored>>
      /\ groupEpoch' = r.epoch /\ committed' = committed \cup {Entry(r.epoch, r.key)}
  BY <1>0, BatchCalls DEF SplitInv, CallsFit, client
<1>2. groupEpoch' = groupEpoch + 1
  BY <1>0, <1>1 DEF SwapSucceeds
<1>3. ASSUME ~Alone, NEW d \in Active, NEW x \in stored[d] PROVE x.epoch <= groupEpoch
  <2>1. Sound(x) /\ ~Wedged
    BY <1>0, <1>1, <1>3, WonUnwedged, HeldParts DEF SplitInv, HeldSound
  <2> QED
    BY <2>1 DEF Sound
<1>4. Alone \/ \A d \in Active : \A x \in stored[d] : x.epoch <= groupEpoch
  BY <1>3
<1>5. \E x \in committed' : x.epoch = groupEpoch' /\ committed' = committed \cup {x}
  <2>1. Entry(r.epoch, r.key) \in committed' /\ Entry(r.epoch, r.key).epoch = groupEpoch'
    BY <1>1 DEF Entry
  <2> QED
    BY <1>1, <2>1
<1>6. Active' = Active
  BY <1>1 DEF Active
<1>7. [d \in Active |-> stored[d]]' = [d \in Active |-> stored[d]]
  BY <1>1, <1>6
<1> QED
  BY <1>2, <1>4, <1>5, <1>7, SameAlone DEF KeyLog!Commit

\* A revocation takes the device out of it.
LEMMA RevokeLeavesLog ==
  ASSUME SplitInv, NEW r \in revoking, RevokeBatch(r)
  PROVE  \/ \E d \in KeyLog!Members : KeyLog!Leave(d)
         \/ UNCHANGED <<groupEpoch, committed, [d \in Active |-> stored[d]]>>
<1>0. TypeOK /\ r.target \in Devices
  BY RevokeTasks DEF SplitInv
<1>1. /\ UNCHANGED <<groupEpoch, committed, stored>>
      /\ status' = [status EXCEPT ![r.target] = "revoked"]
  BY DEF RevokeBatch
<1>2. Active' = Active \ {r.target}
  BY <1>0, <1>1 DEF Active, TypeOK
<1>3. [d \in Active |-> stored[d]]' = [d \in Active \ {r.target} |-> stored[d]]
  BY <1>1, <1>2
<1>4. CASE r.target \in Active
  <2>1. [d \in Active \ {r.target} |-> stored[d]]
          = [e \in Active \ {r.target} |-> [d \in Active |-> stored[d]][e]]
    OBVIOUS
  <2> QED
    BY <1>1, <1>3, <1>4, <2>1, SameAlone DEF KeyLog!Leave
<1>5. CASE r.target \notin Active
  <2>1. Active \ {r.target} = Active
    BY <1>5
  <2> QED
    BY <1>1, <1>3, <2>1
<1> QED
  BY <1>4, <1>5

\* What a device does for its keys stores keys of the log, or one of the epoch to come.
LEMMA ClientFollowsLog ==
  ASSUME SplitInv, SplitInv', NotFarAhead', NEW d \in Devices, Client(d)
  PROVE  \/ \E e \in KeyLog!Members : KeyLog!Store(e)
         \/ UNCHANGED <<groupEpoch, committed, [e \in Active |-> stored[e]]>>
<1> DEFINE rings == [e \in Active |-> stored[e]]
<1>0. TypeOK /\ NewIsEmpty /\ TypeOK' /\ groupEpoch \in Nat
  BY DEF SplitInv, TypeOK, Epochs
<1>1. UNCHANGED <<groupEpoch, committed, status>> /\ \A c \in Devices \ {d} : stored'[c] = stored[c]
  BY <1>0, ClientTables, ClientSteps DEF server, AckBatch
<1>2. Active' = Active /\ Active \subseteq Devices
  BY <1>1 DEF Active
<1>3. CASE d \notin Active
  <2>1. \A e \in Active : stored'[e] = stored[e]
    BY <1>1, <1>2, <1>3
  <2>2. rings' = rings
    BY <1>2, <2>1
  <2> QED
    BY <1>1, <2>2
<1>4. CASE d \in Active
  <2>1. DOMAIN rings' = Active /\ \A e \in Active : rings'[e] = stored'[e]
    BY <1>2
  <2>2. rings' = [rings EXCEPT ![d] = rings'[d]]
    BY <1>1, <1>2, <1>4, <2>1
  <2>3. KeyLog!OneKeyEach(rings'[d])
    BY <1>4, <1>2, <2>1 DEF SplitInv, FunInv, Functional, KeyLog!OneKeyEach
  <2>4. ASSUME ~Alone, NEW x \in rings'[d] PROVE x \in committed \/ x.epoch = groupEpoch + 1
    <3>1. ~Alone' /\ x \in stored'[d] /\ x \in Held(d)'
      BY <1>2, <1>4, <2>1, <2>4 DEF Alone, Held
    <3>2. Sound(x)' /\ x.epoch <= groupEpoch + 1
      BY <1>1, <1>2, <1>4, <3>1 DEF SplitInv, HeldSound, NotFarAhead
    <3>3. x.epoch \in Nat /\ Entry(x.epoch, x.key) = x
      BY <1>0, <1>2, <1>4, <3>1 DEF TypeOK, Entries, Entry, Epochs
    <3> QED
      BY <1>0, <1>1, <3>2, <3>3 DEF Sound
  <2>5. Alone \/ \A x \in rings'[d] \ rings[d] : x \in committed \/ x.epoch = groupEpoch + 1
    BY <2>4
  <2>6. KeyLog!Store(d)
    BY <1>1, <2>1, <2>2, <2>3, <2>5, SameAlone DEF KeyLog!Store
  <2> QED
    BY <1>4, <2>6, SameAlone
<1> QED
  BY <1>3, <1>4

LEMMA LogStep ==
  ASSUME SplitInv, SplitInv', NotFarAhead', [Next]_vars
  PROVE  KeyLog!Next \/ UNCHANGED <<groupEpoch, committed, [d \in Active |-> stored[d]]>>
<1> DEFINE Still == UNCHANGED <<groupEpoch, committed, [d \in Active |-> stored[d]]>>
<1>0. TypeOK /\ Everyone
  BY DEF SplitInv
<1>1. ASSUME UNCHANGED <<groupEpoch, committed, status, stored>> PROVE Still
  <2>1. Active' = Active
    BY <1>1 DEF Active
  <2> QED
    BY <1>1, <2>1
<1>2. ASSUME NEW d \in Devices, Client(d) PROVE KeyLog!Next \/ Still
  BY <1>2, ClientFollowsLog DEF KeyLog!Next
<1>3. ASSUME NEW r \in revoking, RevokeBatch(r) PROVE KeyLog!Next \/ Still
  BY <1>3, RevokeLeavesLog DEF KeyLog!Next
<1>4. ASSUME NEW r \in requests, RotateKeyBatch(r) PROVE KeyLog!Next \/ Still
  <2>1. CASE ~PrimaryKeyTaken(r) /\ SwapSucceeds(r)
    BY <1>4, <2>1, WinExtendsLog DEF KeyLog!Next
  <2>2. CASE UNCHANGED <<groupEpoch, committed, status, stored>>
    BY <1>1, <2>2
  <2> QED
    BY <1>0, <1>4, <2>1, <2>2, BatchCalls DEF server, client
<1>5. ASSUME NEW p \in pairings, PairBatch(p) PROVE Still
  BY <1>0, <1>1, <1>5 DEF PairBatch, Everyone, history, TypeOK
<1>6. ASSUME NEW r \in requests, RotateKeyAuth(r) \/ RotateKeyCheck(r) PROVE Still
  BY <1>1, <1>6 DEF RotateKeyAuth, RotateKeyCheck, server, client, history
<1>7. ASSUME \E d, joiner \in Devices : PairAuth(d, joiner) PROVE Still
  BY <1>1, <1>7 DEF PairAuth, server, client, history
<1>8. ASSUME UNCHANGED vars PROVE Still
  BY <1>1, <1>8 DEF vars, server, client, history
<1> HIDE DEF Still
<1>9. KeyLog!Next \/ Still
  BY <1>2, <1>3, <1>4, <1>5, <1>6, <1>7, <1>8, Steps DEF RotateKey
<1> QED
  BY <1>9 DEF Still

\* KeysFollowLog: in a space that nobody joins, however many devices rotate at once, lose
\* answers, post calls twice, are revoked or close their pages, the winners are one log,
\* and what a device stores is in it (keys.ts:113-121, rekey.ts:133-150): a key of a
\* rotation that lost is one epoch ahead, and then no rotation wins until it is gone.
THEOREM SpaceKeysFollowLog == Founders = Devices => (Spec => KeysFollowLog)
<1> SUFFICES ASSUME Founders = Devices PROVE Spec => KeysFollowLog
  OBVIOUS
<1>1. ASSUME Init PROVE SplitInv /\ NotFarAhead /\ KeyLog!Init
  <2>1. SplitInv
    BY <1>1, SpaceAssumption, SplitInit
  <2>2. committed = {Entry(groupEpoch, FirstKey)} /\ Entry(groupEpoch, FirstKey).epoch = groupEpoch
    BY <1>1 DEF Init, Entry
  <2>3. ASSUME NEW d \in Devices
        PROVE  /\ keyring[d] = committed /\ stored[d] = committed
               /\ \A kind \in Kinds : task[d][kind].ring = {} /\ task[d][kind].rows = {}
    BY <1>1, Resting DEF Init
  <2>4. \A d \in Devices : \A x \in Held(d) : x \in committed
    BY <2>3 DEF Held, EntriesOf
  <2>5. NotFarAhead
    BY <1>1, <2>2, <2>4 DEF NotFarAhead, Init, INITIAL_KEY_EPOCH
  <2>6. \E x \in committed : committed = {x} /\ x.epoch = groupEpoch
    BY <2>2
  <2>7. [d \in Active |-> stored[d]] = [d \in Active |-> committed]
    BY <2>3 DEF Active
  <2>8. KeyLog!Init
    BY <2>1, <2>6, <2>7, SameAlone DEF KeyLog!Init, SplitInv, TypeOK, Epochs
  <2> QED
    BY <2>1, <2>5, <2>8
<1>2. SplitInv /\ NotFarAhead /\ [Next]_vars => SplitInv' /\ NotFarAhead'
  BY SpaceAssumption, SplitStep, NotFarAheadStep
<1>3. SplitInv /\ SplitInv' /\ NotFarAhead' /\ [Next]_vars
        => [KeyLog!Next]_<<groupEpoch, committed, [d \in Active |-> stored[d]]>>
  BY LogStep
<1> QED
  BY <1>1, <1>2, <1>3, PTL DEF Spec, KeysFollowLog, KeyLog!Spec

\* What such a log gives its readers, whatever keeps it: as long as two are left, the keys
\* they store of the epochs it has reached are its keys (keys.ts:113-121), because no key
\* is added to it while somebody may store another one of that epoch.
THEOREM KeyLogAgrees == KeyLog!Spec => []KeyLog!Agreed
<1> DEFINE Good == \A d \in Active : \A x \in stored[d] : x.epoch <= groupEpoch => x \in committed
           Inv  == groupEpoch \in Nat /\ (Alone \/ Good)
           Step == KeyLog!Next \/ UNCHANGED <<groupEpoch, committed, [d \in Active |-> stored[d]]>>
<1>1. KeyLog!Init => Inv
  <2> SUFFICES ASSUME KeyLog!Init PROVE Inv
    OBVIOUS
  <2>1. groupEpoch \in Nat /\ [d \in Active |-> stored[d]] = [d \in Active |-> committed]
    BY SameAlone DEF KeyLog!Init
  <2>2. \A d \in Active : stored[d] = committed
    BY <2>1
  <2> QED
    BY <2>1, <2>2
<1>2. ASSUME Inv, Step PROVE Inv'
  <2>1. ASSUME UNCHANGED <<groupEpoch, committed, [d \in Active |-> stored[d]]>> PROVE Inv'
    <3>1. Active' = Active /\ \A d \in Active : stored'[d] = stored[d]
      BY <2>1
    <3> QED
      BY <1>2, <2>1, <3>1 DEF Alone
  <2>2. ASSUME KeyLog!Commit PROVE Inv'
    <3>1. /\ Active' = Active /\ \A d \in Active : stored'[d] = stored[d]
          /\ groupEpoch' = groupEpoch + 1 /\ committed \subseteq committed'
      BY <2>2 DEF KeyLog!Commit
    <3>2. Alone \/ \A d \in Active : \A x \in stored[d] : x.epoch <= groupEpoch
      BY <2>2, SameAlone DEF KeyLog!Commit
    <3> QED
      BY <1>2, <3>1, <3>2 DEF Alone
  <2>3. ASSUME NEW d \in KeyLog!Members, KeyLog!Store(d) PROVE Inv'
    <3>1. UNCHANGED <<groupEpoch, committed>> /\ Active' = Active /\ d \in Active
      BY <2>3, SameAlone DEF KeyLog!Store
    <3>2. \A e \in Active \ {d} : stored'[e] = stored[e]
      BY <2>3, <3>1 DEF KeyLog!Store
    <3>3. Alone \/ \A x \in stored'[d] \ stored[d] : x \in committed \/ x.epoch = groupEpoch + 1
      BY <2>3, <3>1, SameAlone DEF KeyLog!Store
    <3>4. ASSUME ~Alone PROVE Good'
      <4>1. Good /\ groupEpoch \in Nat
        BY <1>2, <3>4
      <4>2. ASSUME NEW x \in stored'[d], x.epoch <= groupEpoch PROVE x \in committed
        BY <3>1, <3>3, <3>4, <4>1, <4>2
      <4> QED
        BY <3>1, <3>2, <4>1, <4>2
    <3> QED
      BY <1>2, <3>1, <3>4 DEF Alone
  <2>4. ASSUME NEW d \in KeyLog!Members, KeyLog!Leave(d) PROVE Inv'
    <3>1. UNCHANGED <<groupEpoch, committed>> /\ Active' = Active \ {d}
      BY <2>4, SameAlone DEF KeyLog!Leave
    <3>2. \A e \in Active' : e \in Active /\ stored'[e] = stored[e]
      BY <2>4, <3>1, SameAlone DEF KeyLog!Leave
    <3> QED
      BY <1>2, <3>1, <3>2 DEF Alone
  <2> QED
    BY <1>2, <2>1, <2>2, <2>3, <2>4 DEF KeyLog!Next
<1>3. Inv => KeyLog!Agreed
  BY SameAlone DEF KeyLog!Agreed
<1> HIDE DEF Inv
<1>4. Inv /\ [KeyLog!Next]_<<groupEpoch, committed, [d \in Active |-> stored[d]]>> => Inv'
  BY <1>2
<1> QED
  BY <1>1, <1>3, <1>4, PTL DEF KeyLog!Spec

(***************************************************************************)
(* A revocation leaves the device behind.  While the group has not reached *)
(* the epoch a rotation is for, its key is known to nobody, and a call     *)
(* posted again carries the same key for the same epoch: of its copies one *)
(* at most moves the group, and after that none can.  What breaks this is  *)
(* a rotation that lost and left its wraps behind, so the argument holds   *)
(* for as long as none does.                                               *)
(***************************************************************************)
\* No table, no pairing and no device has the key.
Unknown(k) ==
  /\ \A x \in kd : x.key # k
  /\ \A p \in pairings : p.key # k
  /\ \A x \in committed : x.key # k
  /\ \A d \in Devices : \A x \in Held(d) : x.key # k

Twins   == \A q, r \in requests : q.key = r.key => q.epoch = r.epoch
Private == \A q \in requests : q.epoch > groupEpoch => Unknown(q.key)

\* A rotation that won did so before its device was revoked.
Answered ==
  \A q \in requests : q.stage = "ok" =>
    /\ Entry(q.epoch, q.key) \in committed
    /\ status[q.by] = "revoked" => q.epoch <= revokedAt[q.by]

Left ==
  \A d \in Devices :
    IF status[d] = "revoked"
    THEN \A x \in committed \cap Held(d) : x.epoch <= revokedAt[d]
    ELSE revokedAt[d] = 0

LeftInv ==
  /\ TypeOK /\ NewIsEmpty /\ OneKeyInv
  /\ Twins /\ Private /\ Answered /\ Left

LEMMA FreshUnknown ==
  ASSUME NEW k, Fresh(k) PROVE Unknown(k) /\ \A q \in requests : q.key # k
<1>0. k \notin KeysInUse
  BY DEF Fresh
<1>1. /\ \A x \in kd : x.key # k
      /\ \A p \in pairings : p.key # k
      /\ \A x \in committed : x.key # k
      /\ \A q \in requests : q.key # k
  BY <1>0 DEF KeysInUse, KeysOf
<1>2. \A d \in Devices : k \notin DeviceKeys(d)
  BY <1>0 DEF KeysInUse
<1>3. ASSUME NEW d \in Devices, NEW x \in keyring[d] \cup stored[d] PROVE x.key # k
  BY <1>2 DEF DeviceKeys, KeysOf
<1>4. ASSUME NEW d \in Devices, NEW kind \in Kinds
      PROVE  \A x \in task[d][kind].ring \cup task[d][kind].rows : x.key # k
  <2>1. k \notin TaskKeys(task[d][kind])
    BY <1>2 DEF DeviceKeys
  <2> QED
    BY <2>1 DEF TaskKeys, KeysOf
<1>5. ASSUME NEW d \in Devices, NEW x \in Held(d) PROVE x.key # k
  <2>1. CASE x \in keyring[d] \cup stored[d]
    BY <1>3, <2>1
  <2>2. CASE \E kind \in Kinds : x \in task[d][kind].ring
    BY <1>4, <2>2
  <2>3. CASE \E kind \in Kinds : \E y \in task[d][kind].rows : x = Entry(y.epoch, y.key)
    BY <1>4, <2>3 DEF Entry
  <2> QED
    BY <2>1, <2>2, <2>3 DEF Held, EntriesOf
<1> QED
  BY <1>1, <1>5 DEF Unknown

\* What a step does to the tables: nothing a rotation does, or the batch of one that won.
NoBatch  == kd' \subseteq kd /\ committed' = committed
Batch(r) ==
  /\ kd' \subseteq kd \cup Deposited(r) /\ committed' \subseteq committed \cup {Entry(r.epoch, r.key)}
  /\ r.epoch = groupEpoch + 1 /\ groupEpoch' = r.epoch

\* A key that no batch of this step commits, and no answer on its way brings, stays unknown.
LEMMA UnknownStep ==
  ASSUME TypeOK, NewIsEmpty, [Next]_vars, NEW k, Unknown(k),
         \A q \in requests : q.stage = "ok" => q.key # k,
         NoBatch \/ \E r \in requests : Batch(r) /\ r.key # k
  PROVE  Unknown(k)'
<1>1. (\A x \in kd' : x.key # k) /\ (\A x \in committed' : x.key # k)
  <2>1. CASE NoBatch
    BY <2>1 DEF NoBatch, Unknown
  <2>2. ASSUME NEW r \in requests, Batch(r), r.key # k
        PROVE  (\A x \in kd' : x.key # k) /\ (\A x \in committed' : x.key # k)
    <3>1. \A x \in Deposited(r) : x.key # k
      BY <2>2, DepositsNext
    <3> QED
      BY <2>2, <3>1 DEF Batch, Unknown, Entry
  <2> QED
    BY <2>1, <2>2
<1>2. \A p \in pairings' : p.key # k
  <2>1. ASSUME NEW d \in Devices, NEW joiner \in Devices, PairAuth(d, joiner) PROVE \A p \in pairings' : p.key # k
    <3>1. PICK x \in Current(keyring[d]) :
            pairings' = pairings \cup {[joiner |-> joiner, epoch |-> x.epoch, key |-> x.key]}
      BY <2>1 DEF PairAuth
    <3>2. x.key # k
      BY <3>1, HeldParts DEF Current, Unknown
    <3> QED
      BY <3>1, <3>2 DEF Unknown
  <2>2. ASSUME pairings' \subseteq pairings PROVE \A p \in pairings' : p.key # k
    BY <2>2 DEF Unknown
  <2>3. ASSUME NEW d \in Devices, Client(d) PROVE pairings' = pairings
    BY <2>3, ClientTables
  <2>4. ASSUME NEW q \in requests, RotateKey(q) PROVE pairings' = pairings
    BY <2>4 DEF RotateKey, RotateKeyAuth, RotateKeyCheck, RotateKeyBatch
  <2> QED
    BY <2>1, <2>2, <2>3, <2>4, Steps DEF vars, RevokeBatch, PairBatch
<1>3. ASSUME NEW d \in Devices, NEW x \in Held(d)' PROVE x.key # k
  <2>1. CASE x \in Held(d)
    BY <2>1 DEF Unknown
  <2>2. CASE \E y \in kd : x = Entry(y.epoch, y.key)
    BY <2>2 DEF Unknown, Entry
  <2>3. CASE \E q \in requests : q.stage = "ok" /\ x = Entry(q.epoch, q.key)
    BY <2>3 DEF Entry
  <2>4. CASE \E p \in pairings : x = Entry(p.epoch, p.key)
    BY <2>4 DEF Unknown, Entry
  <2> QED
    BY <2>1, <2>2, <2>3, <2>4, HeldSteps DEF Source, EntriesOf, Mail, OwnOk
<1> QED
  BY <1>1, <1>2, <1>3 DEF Unknown

\* A batch that loses would leave a wrap ahead of the group: it deposits nothing.
LEMMA TableSteps ==
  ASSUME TypeOK, [Next]_vars, LoserLeavesNothing'
  PROVE  NoBatch \/ \E r \in requests : Batch(r)
<1>1. ASSUME UNCHANGED committed, kd' \subseteq kd PROVE NoBatch
  BY <1>1 DEF NoBatch
<1>2. ASSUME NEW d \in Devices, Client(d) PROVE NoBatch
  BY <1>2, ClientTables DEF NoBatch, server, AckBatch
<1>3. ASSUME NEW r \in requests, RotateKeyAuth(r) \/ RotateKeyCheck(r) PROVE NoBatch
  BY <1>3 DEF RotateKeyAuth, RotateKeyCheck, NoBatch, server, history
<1>4. ASSUME NEW r \in requests, RotateKeyBatch(r) PROVE NoBatch \/ Batch(r)
  <2>1. kd' \subseteq kd \cup Deposited(r)
    BY <1>4, BatchMail
  <2>2. CASE UNCHANGED <<groupEpoch, committed>>
    <3>1. ASSUME kd' = kd \cup Deposited(r), NEW x \in Deposited(r) PROVE FALSE
      <4>1. x.epoch = groupEpoch + 1 /\ x \in kd' /\ groupEpoch \in Nat
        BY <3>1, DepositsNext DEF TypeOK, Epochs
      <4>2. x.epoch <= groupEpoch
        BY <2>2, <4>1 DEF LoserLeavesNothing
      <4> QED
        BY <4>1, <4>2
    <3> QED
      BY <1>4, <2>2, <3>1, BatchMail DEF NoBatch
  <2>3. CASE /\ groupEpoch' = groupEpoch + 1 /\ r.epoch = groupEpoch + 1
             /\ committed' = committed \cup {Entry(r.epoch, r.key)}
    BY <2>1, <2>3 DEF Batch
  <2> QED
    BY <1>4, <2>2, <2>3, RotationOutcome
<1>5. ASSUME \E r \in revoking : RevokeBatch(r) PROVE NoBatch
  BY <1>1, <1>5 DEF RevokeBatch
<1>6. ASSUME \/ \E p \in pairings : PairBatch(p)
             \/ \E d, joiner \in Devices : PairAuth(d, joiner)
             \/ UNCHANGED vars
      PROVE  NoBatch
  BY <1>1, <1>6 DEF PairBatch, PairAuth, vars, server, history
<1> QED
  BY <1>2, <1>3, <1>4, <1>5, <1>6, Steps DEF RotateKey

\* What the calls are after a step: the calls that were, with a new one, a second copy of
\* one, or one that takes the place of another.
CallMoves(r, q) ==
  /\ Moved(r, q)
  /\ q.stage = "ok" => r.by \in Active /\ status' = status /\ Entry(r.epoch, r.key) \in committed'

LEMMA CallSteps ==
  ASSUME TypeOK, [Next]_vars
  PROVE  \/ requests' \subseteq requests
         \/ \E q : NewCall(q)
         \/ \E r \in requests : \E q : Retried(r, q) \/ CallMoves(r, q)
<1> DEFINE Right == \/ requests' \subseteq requests
                    \/ \E q : NewCall(q)
                    \/ \E r \in requests : \E q : Retried(r, q) \/ CallMoves(r, q)
<1>1. ASSUME NEW d \in Devices, Client(d) PROVE Right
  BY <1>1, ClientCalls
<1>2. ASSUME NEW r \in requests, RotateKeyAuth(r) \/ RotateKeyCheck(r) PROVE Right
  <2>1. PICK q : Moved(r, q) /\ q.stage \in {"refused", "authed", "checked"}
    BY <1>2, CheckCalls
  <2>2. CallMoves(r, q)
    BY <2>1 DEF CallMoves
  <2> QED
    BY <2>2
<1>3. ASSUME NEW r \in requests, RotateKeyBatch(r) PROVE Right
  <2>1. status' = status
    BY <1>3, BatchCalls
  <2>2. PICK q : /\ Moved(r, q)
                 /\ q.stage = "ok" => r.by \in Active /\ Entry(r.epoch, r.key) \in committed'
    <3>1. CASE \E q : Moved(r, q) /\ q.stage \in {"refused", "error"}
      BY <3>1
    <3>2. CASE /\ SwapSucceeds(r) /\ committed' = committed \cup {Entry(r.epoch, r.key)}
               /\ \E q : Moved(r, q) /\ q.stage = "ok"
      BY <3>2 DEF SwapSucceeds
    <3> QED
      BY <1>3, <3>1, <3>2, BatchCalls
  <2>3. CallMoves(r, q)
    BY <2>1, <2>2 DEF CallMoves
  <2> QED
    BY <2>3
<1>4. ASSUME \/ \E r \in revoking : RevokeBatch(r)
             \/ \E p \in pairings : PairBatch(p)
             \/ \E d, joiner \in Devices : PairAuth(d, joiner)
             \/ UNCHANGED vars
      PROVE  Right
  BY <1>4 DEF RevokeBatch, PairBatch, PairAuth, vars
<1> QED
  BY <1>1, <1>2, <1>3, <1>4, Steps DEF RotateKey

LEMMA TwinsStep ==
  ASSUME LeftInv, [Next]_vars PROVE Twins'
<1>0. TypeOK /\ Twins
  BY DEF LeftInv
<1>1. CASE requests' \subseteq requests
  BY <1>0, <1>1 DEF Twins
<1>2. ASSUME NEW q, NewCall(q) PROVE Twins'
  <2>1. \A r \in requests : r.key # q.key
    BY <1>2, FreshUnknown DEF NewCall
  <2> QED
    BY <1>0, <1>2, <2>1 DEF NewCall, Twins
<1>3. ASSUME NEW r \in requests, NEW q, Retried(r, q) \/ CallMoves(r, q) PROVE Twins'
  <2>1. requests' \subseteq requests \cup {q} /\ q.key = r.key /\ q.epoch = r.epoch
    BY <1>3 DEF Retried, CallMoves, Moved, SameCall
  <2> QED
    BY <1>0, <2>1 DEF Twins
<1> QED
  BY <1>0, <1>1, <1>2, <1>3, CallSteps

LEMMA PrivateStep ==
  ASSUME LeftInv, [Next]_vars, LoserLeavesNothing' PROVE Private'
<1>0. TypeOK /\ NewIsEmpty /\ Twins /\ Private /\ Answered
  BY DEF LeftInv
<1>1. groupEpoch \in Nat /\ groupEpoch' \in Nat /\ groupEpoch <= groupEpoch'
  BY <1>0, EpochSteps, RotationOutcome DEF TypeOK, Epochs
\* An unknown key is no answer's, and stays unknown unless the batch is of its own call.
<1>2. ASSUME NEW k, Unknown(k), \A r \in requests : r.key = k => r.epoch > groupEpoch'
      PROVE  Unknown(k)'
  <2>1. \A q \in requests : q.stage = "ok" => q.key # k
    BY <1>0, <1>2 DEF Answered, Unknown, Entry
  <2>2. NoBatch \/ \E r \in requests : Batch(r) /\ r.key # k
    <3>1. ASSUME NEW r \in requests, Batch(r) PROVE r.key # k
      BY <1>1, <1>2, <3>1 DEF Batch
    <3> QED
      BY <1>0, <3>1, TableSteps
  <2> QED
    BY <1>0, <1>2, <2>1, <2>2, UnknownStep
<1>3. ASSUME NEW v \in requests, v.epoch > groupEpoch' PROVE Unknown(v.key)'
  <2>1. v.epoch \in Nat
    BY <1>0, CallType DEF Epochs
  <2>2. Unknown(v.key)
    BY <1>0, <1>1, <1>3, <2>1 DEF Private
  <2>3. \A r \in requests : r.key = v.key => r.epoch > groupEpoch'
    BY <1>0, <1>3 DEF Twins
  <2> QED
    BY <1>2, <2>2, <2>3
<1> SUFFICES ASSUME NEW u \in requests', u.epoch > groupEpoch' PROVE Unknown(u.key)'
  BY DEF Private
<1>4. CASE requests' \subseteq requests
  BY <1>3, <1>4
<1>5. ASSUME NEW q, NewCall(q) PROVE Unknown(u.key)'
  <2>1. CASE u \in requests
    BY <1>3, <2>1
  <2>2. CASE u = q
    <3>1. Unknown(q.key) /\ \A v \in requests : v.key # q.key
      BY <1>5, FreshUnknown DEF NewCall
    <3> QED
      BY <1>2, <2>2, <3>1
  <2> QED
    BY <1>5, <2>1, <2>2 DEF NewCall
<1>6. ASSUME NEW r \in requests, NEW q, Retried(r, q) \/ CallMoves(r, q) PROVE Unknown(u.key)'
  <2>1. requests' \subseteq requests \cup {q} /\ q.key = r.key /\ q.epoch = r.epoch
    BY <1>6 DEF Retried, CallMoves, Moved, SameCall
  <2> QED
    BY <1>3, <2>1
<1> QED
  BY <1>0, <1>4, <1>5, <1>6, CallSteps

\* What a step does to a device's place in the space.
LEMMA StatusSteps ==
  ASSUME TypeOK, [Next]_vars, NEW d \in Devices
  PROVE  \/ status'[d] = status[d] /\ revokedAt'[d] = revokedAt[d]
         \/ status[d] = "new" /\ status'[d] = "active" /\ revokedAt'[d] = revokedAt[d]
         \/ /\ status'[d] = "revoked" /\ committed' = committed
            /\ revokedAt'[d] = IF revokedAt[d] = 0 THEN groupEpoch ELSE revokedAt[d]
<1>1. ASSUME NEW r \in revoking, RevokeBatch(r)
      PROVE  \/ status'[d] = status[d] /\ revokedAt'[d] = revokedAt[d]
             \/ /\ status'[d] = "revoked" /\ committed' = committed
                /\ revokedAt'[d] = IF revokedAt[d] = 0 THEN groupEpoch ELSE revokedAt[d]
  BY <1>1 DEF RevokeBatch, TypeOK
<1>2. ASSUME NEW p \in pairings, PairBatch(p)
      PROVE  /\ revokedAt' = revokedAt
             /\ status'[d] = status[d] \/ (status[d] = "new" /\ status'[d] = "active")
  BY <1>2 DEF PairBatch, TypeOK, history
<1>3. ASSUME NEW q \in requests, RotateKey(q) PROVE UNCHANGED <<status, revokedAt>>
  BY <1>3 DEF RotateKey, RotateKeyAuth, RotateKeyCheck, RotateKeyBatch, server, history
<1>4. ASSUME NEW c \in Devices, Client(c) PROVE UNCHANGED <<status, revokedAt>>
  <2>1. UNCHANGED status
    BY <1>4, ClientTables DEF server, AckBatch
  <2>2. UNCHANGED revokedAt
    BY <1>4 DEF Client, Sync, SyncBegin, PendingMessages, AdoptPendingKeys, SyncEnd, Reload, AckKey, AckKeyFails,
       Rotation, RotateGroupKey, RotateNothingDue, RotateAnswered, RotateConnectionLost, RevokeAuth, history
  <2> QED
    BY <2>1, <2>2
<1>5. ASSUME \E c, joiner \in Devices : PairAuth(c, joiner) PROVE UNCHANGED <<status, revokedAt>>
  BY <1>5 DEF PairAuth, server, history
<1> QED
  BY <1>1, <1>2, <1>3, <1>4, <1>5, Steps DEF vars, server, history

\* Keys that won come with an epoch the group had reached.
LEMMA WonBefore ==
  ASSUME LeftInv, NEW d \in Devices, status[d] # "revoked"
  PROVE  /\ revokedAt[d] = 0 /\ groupEpoch \in Nat
         /\ \A x \in committed : x.epoch <= groupEpoch
BY DEF LeftInv, Left, OneKeyInv, WinnersNotAhead, TypeOK, Epochs

LEMMA AnsweredStep ==
  ASSUME LeftInv, [Next]_vars PROVE Answered'
<1>0. TypeOK /\ NewIsEmpty /\ Answered /\ committed \subseteq committed'
  BY EpochSteps, RotationOutcome DEF LeftInv
<1>1. ASSUME NEW q \in requests, q.stage = "ok"
      PROVE  /\ Entry(q.epoch, q.key) \in committed'
             /\ status'[q.by] = "revoked" => q.epoch <= revokedAt'[q.by]
  <2>1. Entry(q.epoch, q.key) \in committed /\ q.by \in Devices /\ q.epoch \in Nat
    BY <1>0, <1>1, CallType DEF Answered, Epochs
  <2>2. CASE status[q.by] = "revoked"
    <3>1. q.epoch <= revokedAt[q.by] /\ revokedAt[q.by] \in Nat /\ groupEpoch \in Nat
      BY <1>0, <1>1, <2>1, <2>2 DEF Answered, TypeOK, Epochs
    <3> QED
      BY <1>0, <2>1, <2>2, <3>1, StatusSteps
  <2>3. CASE status[q.by] # "revoked"
    <3>1. revokedAt[q.by] = 0 /\ q.epoch <= groupEpoch
      <4>1. Entry(q.epoch, q.key).epoch <= groupEpoch
        BY <2>1, <2>3, WonBefore
      <4> QED
        BY <2>1, <2>3, <4>1, WonBefore DEF Entry
    <3> QED
      BY <1>0, <2>1, <2>3, <3>1, StatusSteps
  <2> QED
    BY <1>0, <2>1, <2>2, <2>3
<1>2. ASSUME NEW r \in requests, NEW q, CallMoves(r, q), q.stage = "ok"
      PROVE  /\ Entry(q.epoch, q.key) \in committed'
             /\ status'[q.by] = "revoked" => q.epoch <= revokedAt'[q.by]
  BY <1>2 DEF CallMoves, Moved, SameCall, Active
<1> SUFFICES ASSUME NEW q \in requests', q.stage = "ok"
             PROVE  /\ Entry(q.epoch, q.key) \in committed'
                    /\ status'[q.by] = "revoked" => q.epoch <= revokedAt'[q.by]
  BY DEF Answered
<1>3. CASE q \in requests
  BY <1>1, <1>3
<1>4. CASE q \notin requests
  <2>1. ~NewCall(q)
    BY DEF NewCall
  <2>2. PICK r \in requests : CallMoves(r, q)
    BY <1>0, <1>4, <2>1, CallSteps DEF NewCall, Retried, CallMoves, Moved
  <2> QED
    BY <1>2, <2>2
<1> QED
  BY <1>3, <1>4

LEMMA LeftStep ==
  ASSUME LeftInv, [Next]_vars, LoserLeavesNothing' PROVE Left'
<1>0. /\ TypeOK /\ NewIsEmpty /\ Answered /\ Private /\ Left
      /\ groupEpoch \in Nat /\ revokedAt \in [Devices -> Nat]
  BY DEF LeftInv, TypeOK, Epochs
\* Of the keys a revoked device has, none is committed from now on.
<1>1. ASSUME NEW d \in Devices, NEW x \in Held(d), x \in committed' PROVE x \in committed
  <2>1. CASE NoBatch
    BY <1>1, <2>1 DEF NoBatch
  <2>2. ASSUME NEW r \in requests, Batch(r) PROVE x \in committed
    <3>1. r.epoch > groupEpoch
      BY <1>0, <2>2 DEF Batch
    <3>2. x.key # r.key
      BY <1>0, <1>1, <3>1 DEF Private, Unknown
    <3>3. x # Entry(r.epoch, r.key)
      BY <3>2 DEF Entry
    <3> QED
      BY <1>1, <2>2, <3>3 DEF Batch
  <2> QED
    BY <1>0, <2>1, <2>2, TableSteps
<1>2. ASSUME NEW d \in Devices, status[d] = "revoked", NEW x \in committed' \cap Held(d)'
      PROVE  x.epoch <= revokedAt[d] /\ x.epoch \in Nat
  <2>1. x \in Held(d) \/ \E q \in OwnOk(d) : x = Entry(q.epoch, q.key)
    BY <1>0, <1>2, HeldSteps DEF Source
  <2>2. CASE x \in Held(d)
    <3>1. x \in committed
      BY <1>1, <1>2, <2>2
    <3> QED
      BY <1>0, <1>2, <2>2, <3>1 DEF Left, TypeOK, Entries, Epochs
  <2>3. ASSUME NEW q \in OwnOk(d), x = Entry(q.epoch, q.key) PROVE x.epoch <= revokedAt[d] /\ x.epoch \in Nat
    <3>1. q \in requests /\ q.by = d /\ q.stage = "ok"
      BY DEF OwnOk
    <3>2. q.epoch <= revokedAt[d] /\ q.epoch \in Nat
      BY <1>0, <1>2, <3>1, CallType DEF Answered, Epochs
    <3> QED
      BY <2>3, <3>2 DEF Entry
  <2> QED
    BY <2>1, <2>2, <2>3
<1> SUFFICES ASSUME NEW d \in Devices
             PROVE  IF status'[d] = "revoked"
                    THEN \A x \in committed' \cap Held(d)' : x.epoch <= revokedAt'[d]
                    ELSE revokedAt'[d] = 0
  BY DEF Left
<1>3. CASE status'[d] = status[d] /\ revokedAt'[d] = revokedAt[d]
  BY <1>0, <1>2, <1>3 DEF Left
<1>4. CASE status[d] = "new" /\ status'[d] = "active" /\ revokedAt'[d] = revokedAt[d]
  BY <1>0, <1>4 DEF Left
<1>5. CASE /\ status'[d] = "revoked" /\ committed' = committed
           /\ revokedAt'[d] = IF revokedAt[d] = 0 THEN groupEpoch ELSE revokedAt[d]
  <2>1. CASE status[d] = "revoked"
    BY <1>0, <1>2, <1>5, <2>1
  <2>2. CASE status[d] # "revoked"
    BY <1>5, <2>2, WonBefore
  <2> QED
    BY <2>1, <2>2
<1> QED
  BY <1>0, <1>3, <1>4, <1>5, StatusSteps

\* A key that won the swap after a device was revoked is never that device's
\* (keys.ts:10-12, "a revoked device cannot read anything sent from now on"), whoever joins,
\* is revoked and rotates, whatever runs at once, whatever is lost and however often a call
\* is posted again, for as long as no rotation that lost has left a wrapped key behind.
THEOREM SpaceKeysRevokedLeftBehind == Spec /\ []LoserLeavesNothing => []RevokedLeftBehind
<1>1. Init => LeftInv
  <2> SUFFICES ASSUME Init PROVE LeftInv
    OBVIOUS
  <2>1. TypeOK /\ NewIsEmpty /\ requests = {}
    BY SpaceAssumption, InitType DEF Init, NewIsEmpty
  <2>2. OneKeyInv
    BY DEF Init, OneKeyInv, WinnersNotAhead, OneKeyPerEpoch, Entry, INITIAL_KEY_EPOCH
  <2>3. \A d \in Devices : status[d] # "revoked" /\ revokedAt[d] = 0
    BY DEF Init
  <2> QED
    BY <2>1, <2>2, <2>3 DEF LeftInv, Twins, Private, Answered, Left
<1>2. LeftInv /\ LoserLeavesNothing' /\ [Next]_vars => LeftInv'
  <2> SUFFICES ASSUME LeftInv, LoserLeavesNothing', [Next]_vars PROVE LeftInv'
    OBVIOUS
  <2>1. TypeOK' /\ NewIsEmpty' /\ OneKeyInv'
    BY SpaceAssumption, TypeInductive, NewStep, OneKeyInductive DEF LeftInv
  <2>2. Twins' /\ Private' /\ Answered' /\ Left'
    BY TwinsStep, PrivateStep, AnsweredStep, LeftStep
  <2> QED
    BY <2>1, <2>2 DEF LeftInv
<1>3. LeftInv => RevokedLeftBehind
  BY HeldParts DEF LeftInv, Left, RevokedLeftBehind
<1> QED
  BY <1>1, <1>2, <1>3, PTL DEF Spec
=============================================================================
