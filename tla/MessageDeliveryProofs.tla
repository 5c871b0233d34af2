----------------------- MODULE MessageDeliveryProofs -----------------------
(***************************************************************************)
(* What holds of MessageDelivery for any devices, messages and bounds.     *)
(*                                                                         *)
(* The invariant ties the four places a message is known at: the rows of   *)
(* the server, the calls that make and release them, the histories, and    *)
(* what a sync pass remembers of both.  From it follow, for any number of  *)
(* lost answers, failed transfers and closed pages: what the outbox calls  *)
(* "sent" is read or still offered, and nothing leaves the server before   *)
(* the device it waits for is done with it.                                *)
(*                                                                         *)
(* A second invariant follows the uploads of a device, which numbers tell  *)
(* apart, and a third the file of a message, where no post of a message    *)
(* with a file is given up and no upload that was given up outlives the    *)
(* next post: the message is stored at most once, so that what is offered  *)
(* stays the file its row describes and can be read.                       *)
(***************************************************************************)
EXTENDS MessageDelivery, FiniteSetTheorems, SequenceTheorems, TLAPS

(***************************************************************************)
(* The rows at some places of a sequence.                                  *)
(***************************************************************************)
Distinct(s) == \A i, k \in DOMAIN s : s[i].id = s[k].id => i = k

\* The places in K have the ranks 1 to Cardinality(K).
LEMMA Ranked ==
  ASSUME NEW n \in Nat, NEW K \in SUBSET (1 .. n), NEW k \in 1 .. Cardinality(K)
  PROVE  \E i \in K : Cardinality({j \in K : j <= i}) = k
<1> DEFINE upTo(i) == {j \in K : j <= i}
           rank == [i \in K |-> Cardinality(upTo(i))]
<1>1. IsFiniteSet(K) /\ \A i \in K : i \in Nat
  <2>1. IsFiniteSet(1 .. n)
    BY FS_Interval
  <2>2. IsFiniteSet(K)
    BY <2>1, FS_Subset
  <2> QED
    BY <2>2
<1>2. Cardinality(K) \in Nat
  BY <1>1, FS_CardinalityType
<1>3. ASSUME NEW i \in K
      PROVE  IsFiniteSet(upTo(i)) /\ Cardinality(upTo(i)) \in 1 .. Cardinality(K)
  <2>1. upTo(i) \in SUBSET K /\ i \in upTo(i)
    BY <1>1
  <2>2. IsFiniteSet(upTo(i)) /\ Cardinality(upTo(i)) <= Cardinality(K)
    BY <1>1, <2>1, FS_Subset
  <2>3. Cardinality(upTo(i)) \in Nat /\ Cardinality(upTo(i)) # 0
    BY <2>1, <2>2, FS_CardinalityType, FS_EmptySet
  <2> HIDE DEF upTo
  <2> QED
    BY <1>2, <2>2, <2>3
<1>4. ASSUME NEW i \in K, NEW l \in K, i < l
      PROVE  Cardinality(upTo(i)) # Cardinality(upTo(l))
  <2>1. l \in upTo(l) /\ l \notin upTo(i) /\ \A j \in K : j <= i => j <= l
    BY <1>1, <1>4
  <2>3. upTo(i) \in SUBSET upTo(l)
    BY <2>1
  <2>2. Cardinality(upTo(l)) = Cardinality(upTo(i)) => upTo(l) = upTo(i)
    BY <1>3, <2>3, FS_Subset
  <2> QED
    BY <2>1, <2>2
<1>5. rank \in [K -> 1 .. Cardinality(K)]
  BY <1>3
<1>6. \A i, l \in K : rank[i] = rank[l] => i = l
  <2> SUFFICES ASSUME NEW i \in K, NEW l \in K, rank[i] = rank[l] PROVE i = l
    OBVIOUS
  <2>1. i < l \/ l < i \/ i = l
    BY <1>1
  <2>2. Cardinality(upTo(i)) = Cardinality(upTo(l))
    OBVIOUS
  <2> HIDE DEF upTo
  <2> QED
    BY <1>4, <2>1, <2>2
<1> HIDE DEF rank
<1>7. rank \in Injection(K, 1 .. Cardinality(K))
  BY <1>5, <1>6 DEF Injection, IsInjective
<1>8. IsFiniteSet(1 .. Cardinality(K)) /\ Cardinality(1 .. Cardinality(K)) = Cardinality(K)
  BY <1>2, FS_Interval
<1>9. rank \in Surjection(K, 1 .. Cardinality(K))
  BY <1>7, <1>8, FS_Injection
<1>10. PICK i \in K : rank[i] = k
  BY <1>9 DEF Surjection
<1> QED
  BY <1>10 DEF rank

\* At(s, K) has rows of s at places in K, each place once.
LEMMA AtRows ==
  ASSUME NEW s \in Seq(Rows), NEW K \in SUBSET DOMAIN s
  PROVE  /\ At(s, K) \in Seq(Rows)
         /\ \A k \in DOMAIN At(s, K) : \E i \in K : At(s, K)[k] = s[i]
         /\ Distinct(s) => Distinct(At(s, K))
<1> DEFINE rank(i) == Cardinality({j \in K : j <= i})
           place(k) == CHOOSE i \in K : rank(i) = k
           n == Cardinality(K)
<1>1. K \in SUBSET (1 .. Len(s)) /\ Len(s) \in Nat
  OBVIOUS
<1>2. n \in Nat
  <2>1. IsFiniteSet(1 .. Len(s))
    BY <1>1, FS_Interval
  <2>2. IsFiniteSet(K)
    BY <1>1, <2>1, FS_Subset
  <2> QED
    BY <2>2, FS_CardinalityType
<1>3. \A k \in 1 .. n : place(k) \in K /\ rank(place(k)) = k
  <2> SUFFICES ASSUME NEW k \in 1 .. n PROVE place(k) \in K /\ rank(place(k)) = k
    OBVIOUS
  <2>1. \E i \in K : rank(i) = k
    <3>1. \A l \in Nat : \A J \in SUBSET (1 .. l) : \A h \in 1 .. Cardinality(J) :
             \E i \in J : Cardinality({j \in J : j <= i}) = h
      BY Ranked
    <3> QED
      BY <1>1, <3>1
  <2> HIDE DEF rank
  <2> QED
    BY <2>1
<1> DEFINE at == [k \in 1 .. n |-> s[place(k)]]
<1>4. At(s, K) = at
  BY DEF At
<1> HIDE DEF rank, place, n
<1>5. at \in Seq(Rows) /\ DOMAIN at = 1 .. n
  <2>1. \A k \in 1 .. n : s[place(k)] \in Rows
    BY <1>3
  <2> QED
    BY <1>2, <2>1
<1>6. ASSUME Distinct(s) PROVE Distinct(at)
  BY <1>3, <1>5, <1>6 DEF Distinct
<1>7. \A k \in DOMAIN at : at[k] = s[place(k)] /\ place(k) \in K
  BY <1>3, <1>5
<1> QED
  BY <1>4, <1>5, <1>6, <1>7

LEMMA WithoutRows ==
  ASSUME NEW s \in Seq(Rows), NEW S
  PROVE  /\ Without(s, S) \in Seq(Rows)
         /\ \A k \in DOMAIN Without(s, S) :
              \E i \in DOMAIN s : Without(s, S)[k] = s[i] /\ s[i].id \notin S
         /\ Distinct(s) => Distinct(Without(s, S))
<1> DEFINE K == {i \in DOMAIN s : s[i].id \notin S}
<1>1. /\ At(s, K) \in Seq(Rows)
      /\ \A k \in DOMAIN At(s, K) : \E i \in K : At(s, K)[k] = s[i]
      /\ Distinct(s) => Distinct(At(s, K))
  <2>1. K \in SUBSET DOMAIN s
    OBVIOUS
  <2> HIDE DEF K
  <2> QED
    BY <2>1, AtRows
<1>2. Without(s, S) = At(s, K)
  BY DEF Without
<1>3. \A i \in K : i \in DOMAIN s /\ s[i].id \notin S
  OBVIOUS
<1> HIDE DEF K
<1> QED
  BY <1>1, <1>2, <1>3

\* Every place in K has a rank, so At(s, K) has every row of s at a place in K.
LEMMA AtCovers ==
  ASSUME NEW s \in Seq(Rows), NEW K \in SUBSET DOMAIN s, NEW i \in K
  PROVE  \E k \in DOMAIN At(s, K) : At(s, K)[k] = s[i]
<1> DEFINE upTo(l) == {j \in K : j <= l}
           place(k) == CHOOSE l \in K : Cardinality(upTo(l)) = k
<1>1. /\ IsFiniteSet(K) /\ \A l \in K : l \in Nat
  <2>1. IsFiniteSet(1 .. Len(s)) /\ K \in SUBSET (1 .. Len(s))
    BY FS_Interval
  <2> QED
    BY <2>1, FS_Subset
<1>2. Cardinality(K) \in Nat
  BY <1>1, FS_CardinalityType
<1>3. IsFiniteSet(upTo(i)) /\ Cardinality(upTo(i)) \in 1 .. Cardinality(K)
  <2>1. upTo(i) \in SUBSET K /\ i \in upTo(i)
    BY <1>1
  <2>2. IsFiniteSet(upTo(i)) /\ Cardinality(upTo(i)) <= Cardinality(K)
    BY <1>1, <2>1, FS_Subset
  <2>3. Cardinality(upTo(i)) \in Nat /\ Cardinality(upTo(i)) # 0
    BY <2>1, <2>2, FS_CardinalityType, FS_EmptySet
  <2> HIDE DEF upTo
  <2> QED
    BY <1>2, <2>2, <2>3
<1>4. ASSUME NEW l \in K, Cardinality(upTo(l)) = Cardinality(upTo(i)) PROVE l = i
  <2>1. upTo(i) \in SUBSET upTo(l) \/ upTo(l) \in SUBSET upTo(i)
    BY <1>1
  <2>2. IsFiniteSet(upTo(l))
    <3>1. upTo(l) \in SUBSET K
      OBVIOUS
    <3> QED
      BY <1>1, <3>1, FS_Subset
  <2>3. upTo(l) = upTo(i)
    BY <1>3, <1>4, <2>1, <2>2, FS_Subset
  <2>4. i \in upTo(l) /\ l \in upTo(i)
    <3>1. i \in upTo(i) /\ l \in upTo(l)
      BY <1>1
    <3> HIDE DEF upTo
    <3> QED
      BY <2>3, <3>1
  <2> QED
    BY <1>1, <2>4
<1>5. place(Cardinality(upTo(i))) = i
  <2> HIDE DEF upTo
  <2> QED
    BY <1>4
<1>6. At(s, K) = [k \in 1 .. Cardinality(K) |-> s[place(k)]]
  BY DEF At
<1> HIDE DEF upTo, place
<1> QED
  BY <1>3, <1>5, <1>6

\* A row that is not dropped is still there.
LEMMA WithoutKeeps ==
  ASSUME NEW s \in Seq(Rows), NEW S, NEW i \in DOMAIN s, s[i].id \notin S
  PROVE  \E k \in DOMAIN Without(s, S) : Without(s, S)[k] = s[i]
<1> DEFINE K == {l \in DOMAIN s : s[l].id \notin S}
<1>1. K \in SUBSET DOMAIN s /\ i \in K /\ Without(s, S) = At(s, K)
  BY DEF Without
<1> HIDE DEF K
<1> QED
  BY <1>1, AtCovers

\* A row of another message at the end.
LEMMA AppendRow ==
  ASSUME NEW s \in Seq(Rows), NEW x \in Rows
  PROVE  /\ Append(s, x) \in Seq(Rows)
         /\ \A k \in DOMAIN Append(s, x) :
              Append(s, x)[k] = x \/ \E i \in DOMAIN s : Append(s, x)[k] = s[i]
         /\ Distinct(s) /\ x.id \notin Ids(s) => Distinct(Append(s, x))
<1>1. /\ Append(s, x) \in Seq(Rows) /\ DOMAIN Append(s, x) = 1 .. (Len(s) + 1)
      /\ DOMAIN s = 1 .. Len(s) /\ Len(s) \in Nat
      /\ \A k \in 1 .. Len(s) : Append(s, x)[k] = s[k]
      /\ Append(s, x)[Len(s) + 1] = x
  OBVIOUS
<1>2. \A k \in 1 .. (Len(s) + 1) : k \in 1 .. Len(s) \/ k = Len(s) + 1
  BY <1>1
<1> QED
  BY <1>1, <1>2 DEF Distinct, Ids

\* The rows after the first.
LEMMA TailRows ==
  ASSUME NEW s \in Seq(Rows), s # <<>>
  PROVE  /\ 1 \in DOMAIN s /\ Head(s) = s[1] /\ Head(s) \in Rows /\ Tail(s) \in Seq(Rows)
         /\ \A k \in DOMAIN Tail(s) : k + 1 \in DOMAIN s /\ Tail(s)[k] = s[k + 1]
         /\ Distinct(s) => /\ Distinct(Tail(s))
                           /\ \A k \in DOMAIN Tail(s) : Tail(s)[k].id # Head(s).id
<1>1. /\ Len(s) \in Nat \ {0} /\ Head(s) = s[1] /\ Head(s) \in Rows
      /\ Tail(s) \in Seq(Rows) /\ Len(Tail(s)) = Len(s) - 1
      /\ \A i \in 1 .. Len(Tail(s)) : Tail(s)[i] = s[i + 1]
  BY HeadTailProperties
<1>2. DOMAIN s = 1 .. Len(s) /\ DOMAIN Tail(s) = 1 .. Len(Tail(s))
  BY <1>1
<1>3. \A k \in DOMAIN Tail(s) : k \in Nat \ {0} /\ k + 1 \in DOMAIN s /\ k + 1 # 1
  BY <1>1, <1>2
<1> QED
  BY <1>1, <1>2, <1>3 DEF Distinct

(***************************************************************************)
(* Types.                                                                  *)
(***************************************************************************)
USE DeliveryAssumption DEF tables, blobs, calls, rows, tasks, history, Sets

LocalStates == Incoming \cup {"absent", "queued", "sent", "failed"}

LEMMA CallType ==
  ASSUME NEW d \in Devices, NEW m \in Messages, NEW e \in 1 .. MaxEpoch, NEW n \in 1 .. (MaxFaults + 1)
  PROVE  Call(d, m, e, n) \in Calls
BY DEF Call, Calls, Codes

LEMMA FlightType ==
  ASSUME NEW m \in Messages, NEW e \in 1 .. MaxEpoch, NEW n \in 1 .. (MaxFaults + 1),
         NEW k \in 1 .. MaxTries, NEW p \in {"uploading", "posted", "saving"}
  PROVE  [id |-> m, n |-> n, epoch |-> e, try |-> k, phase |-> p] \in Flights
BY DEF Flights

LEMMA AckType ==
  ASSUME TypeOK, NEW d \in Devices, NEW m \in Messages, NEW k \in {"loop", "job", "user", "nobody"},
         Ack(d, m, k)
  PROVE  acks' \subseteq Acks
BY DEF TypeOK, Ack, Acks

LEMMA PutType ==
  ASSUME NEW d \in Devices, NEW m \in Messages, NEW e \in 1 .. MaxEpoch, NEW n \in 1 .. (MaxFaults + 1)
  PROVE  Put(d, m, e, n) \in Puts
BY DEF Put, Puts

LEMMA InFlight ==
  ASSUME TypeOK, NEW d \in Devices, flight[d].phase # "idle" PROVE flight[d] \in Flights
BY DEF TypeOK, NoFlight

LEMMA NoPassType == NoPass \in Passes
BY DEF NoPass, Passes

LEMMA TypeInit == Init => TypeOK
<1> SUFFICES ASSUME Init PROVE TypeOK
  OBVIOUS
<1>1. stored \in Seq(Rows) /\ DOMAIN stored = {}
  BY DEF Init
<1>2. pass \in [Devices -> Passes] /\ flight \in [Devices -> Flights \cup {NoFlight}]
  BY NoPassType DEF Init
<1>3. epoch \in 1 .. MaxEpoch /\ 1 \in 1 .. MaxEpoch /\ 0 \in 0 .. MaxEpoch /\ faults \in 0 .. MaxFaults
  BY DEF Init
<1> QED
  BY <1>1, <1>2, <1>3 DEF Init, TypeOK

LEMMA ComposeType ==
  ASSUME TypeOK, NEW d \in Devices, NEW m \in Messages, Compose(d, m)
  PROVE  TypeOK'
BY DEF Compose, TypeOK

LEMMA DeleteEverywhereType ==
  ASSUME TypeOK, NEW d \in Devices, NEW m \in Messages, DeleteEverywhere(d, m)
  PROVE  TypeOK'
<1>1. Target[m] \in Messages
  BY DEF DeleteEverywhere, Tombstones
<1>2. local' \in [Devices -> [Messages -> LocalStates]]
  BY <1>1 DEF DeleteEverywhere, TypeOK, LocalStates
<1>3. deleted' \in [Devices -> SUBSET Messages] /\ acked' \in [Devices -> SUBSET Messages]
  BY <1>1 DEF DeleteEverywhere, TypeOK
<1>4. asking' \in [Devices -> SUBSET Messages]
  BY DEF DeleteEverywhere, TypeOK
<1> QED
  BY <1>2, <1>3, <1>4, ZenonT(90) DEF DeleteEverywhere, TypeOK, LocalStates

LEMMA QueueDeletionType ==
  ASSUME TypeOK, NEW d \in Devices, NEW m \in Messages, QueueDeletion(d, m)
  PROVE  TypeOK'
<1>1. local' \in [Devices -> [Messages -> LocalStates]] /\ asking' \in [Devices -> SUBSET Messages]
  BY DEF QueueDeletion, TypeOK, LocalStates
<1> QED
  BY <1>1 DEF QueueDeletion, TypeOK, LocalStates

LEMMA DeleteLocallyType ==
  ASSUME TypeOK, NEW d \in Devices, NEW m \in Messages, DeleteLocally(d, m)
  PROVE  TypeOK'
<1>1. CASE Ack(d, m, "user") /\ UNCHANGED <<local, acked>>
  BY <1>1, AckType DEF DeleteLocally, TypeOK
<1>2. CASE Sets(d, m, "absent") /\ acked' = [acked EXCEPT ![d] = @ \ {m}] /\ UNCHANGED acks
  <2>1. local' \in [Devices -> [Messages -> LocalStates]]
    BY <1>2 DEF TypeOK, LocalStates
  <2>2. acked' \in [Devices -> SUBSET Messages]
    BY <1>2 DEF TypeOK
  <2> QED
    BY <1>2, <2>1, <2>2 DEF DeleteLocally, TypeOK, LocalStates
<1> QED
  BY <1>1, <1>2 DEF DeleteLocally

LEMMA RetryMessageType ==
  ASSUME TypeOK, NEW d \in Devices, NEW m \in Messages, RetryMessage(d, m)
  PROVE  TypeOK'
BY DEF RetryMessage, TypeOK

LEMMA FlushBeginType ==
  ASSUME TypeOK, NEW d \in Devices, NEW m \in Messages, FlushBegin(d, m)
  PROVE  TypeOK'
<1> DEFINE e == IF pin[m] = 0 THEN known[d] ELSE pin[m]
<1>1. e \in 1 .. MaxEpoch /\ Number \in 1 .. (MaxFaults + 1)
  BY DEF TypeOK, Number
<1> HIDE DEF e
<1>2. pin' = [pin EXCEPT ![m] = e] /\ pin' \in [Messages -> 0 .. MaxEpoch]
  BY <1>1 DEF FlushBegin, TypeOK, e
<1>3. flight' \in [Devices -> Flights \cup {NoFlight}]
  <2> DEFINE f == [id |-> m, n |-> Number, epoch |-> e, try |-> 1,
                   phase |-> IF m \in WithFile THEN "uploading" ELSE "posted"]
  <2>1. 1 \in 1 .. MaxTries
    OBVIOUS
  <2>3. f \in Flights
    BY <1>1, <2>1, FlightType
  <2>2. flight' = [flight EXCEPT ![d] = f]
    BY DEF FlushBegin, e
  <2> HIDE DEF f
  <2> QED
    BY <2>2, <2>3 DEF TypeOK
<1>4. sends' \subseteq Calls
  BY <1>1, CallType DEF FlushBegin, TypeOK, e
<1>5. puts' \subseteq Puts
  BY <1>1, PutType DEF FlushBegin, TypeOK, e
<1> QED
  BY <1>2, <1>3, <1>4, <1>5 DEF FlushBegin, TypeOK

\* What becomes of an upload the Worker executes.
PutStep(p) == uploadFile(p) \/ UploadBreaks(p) \/ UploadVanishes(p)

LEMMA PutIs ==
  ASSUME TypeOK, NEW p \in puts
  PROVE  /\ p \in Puts /\ p.by \in Devices /\ p.id \in Messages /\ p.epoch \in 1 .. MaxEpoch
         /\ p.n \in 1 .. (MaxFaults + 1)
         /\ Awaited(p) => flight[p.by] \in Flights
BY DEF TypeOK, Puts, Awaited, NoFlight

\* An upload leaves the tables and the histories alone.
LEMMA PutKeeps ==
  ASSUME NEW p \in puts, PutStep(p)
  PROVE  UNCHANGED <<tables, doomed, acks, known, rows, pass, history>>
BY DEF PutStep, uploadFile, UploadLands, UploadFails, UploadBreaks, UploadVanishes

\* It moves the flush that waits for it, and no other.
FlightAfter(f, g) ==
  \/ g = NoFlight
  \/ g = [f EXCEPT !.phase = "posted", !.try = 1]
  \/ g = [f EXCEPT !.phase = "posted"]
  \/ f.try < MaxTries /\ g = [f EXCEPT !.n = Number, !.try = f.try + 1]

LEMMA PutFlight ==
  ASSUME TypeOK, NEW p \in puts, PutStep(p)
  PROVE  \/ flight' = flight
         \/ /\ Awaited(p) /\ flight[p.by] \in Flights
            /\ \A d \in Devices \ {p.by} : flight'[d] = flight[d]
            /\ FlightAfter(flight[p.by], flight'[p.by])
            /\ flight' = [flight EXCEPT ![p.by] = flight'[p.by]]
<1>1. CASE Awaited(p) /\ flight' # flight
  <2>1. flight[p.by] \in Flights /\ p.by \in Devices /\ p.stage \in {"writing", "broken", "refused"}
    BY <1>1, PutIs DEF Puts
  <2>2. CASE UploadLands(p)
    BY <1>1, <2>1, <2>2 DEF UploadLands, TypeOK, FlightAfter
  <2>3. CASE UploadFails(p)
    <3>1. \/ flight' = [flight EXCEPT ![p.by] = NoFlight]
          \/ flight' = [flight EXCEPT ![p.by].phase = "posted"]
          \/ /\ flight[p.by].try < MaxTries
             /\ flight' = [flight EXCEPT ![p.by].n = Number, ![p.by].try = @ + 1]
      BY <1>1, <2>3 DEF UploadFails
    <3> QED
      BY <1>1, <2>1, <3>1 DEF TypeOK, FlightAfter
  <2> QED
    BY <1>1, <2>2, <2>3 DEF PutStep, uploadFile, UploadBreaks, UploadVanishes
<1> QED
  BY <1>1 DEF PutStep, uploadFile, UploadLands, UploadFails, UploadBreaks, UploadVanishes

\* It leaves a call where the flush that waits for it posts, or learns of a refusal.
PostedFor(p, q) ==
  /\ q \in Calls /\ q.by = p.by /\ q.id = p.id /\ q.epoch = p.epoch /\ q.n = p.n /\ q.to = {}
  /\ q.stage \in {"sent", "bad_request", "refused"}

LEMMA PutSends ==
  ASSUME TypeOK, NEW p \in puts, PutStep(p)
  PROVE  \/ sends' = sends
         \/ /\ Awaited(p) /\ flight'[p.by].phase = "posted"
            /\ flight'[p.by].id = p.id /\ flight'[p.by].n = p.n
            /\ flight'[p.by].epoch = flight[p.by].epoch
            /\ \E q : /\ sends' = sends \cup {q} /\ PostedFor(p, q)
                      /\ q.stage = "sent" => object' = [object EXCEPT ![p.id] = p.epoch]
<1>1. p \in Puts /\ p.by \in Devices /\ p.id \in Messages /\ p.epoch \in 1 .. MaxEpoch /\ p.n \in 1 .. (MaxFaults + 1)
  BY PutIs
<1>2. CASE Awaited(p) /\ sends' # sends
  <2>1. flight[p.by] \in Flights /\ flight[p.by].id = p.id /\ flight[p.by].n = p.n
    BY <1>2, PutIs DEF Awaited
  <2> DEFINE c == Call(p.by, p.id, p.epoch, p.n)
  <2>2. c \in Calls /\ PostedFor(p, c) /\ c.stage = "sent"
    BY <1>1, CallType DEF PostedFor, Call
  <2>3. \A r \in {"bad_request", "refused"} :
          PostedFor(p, [c EXCEPT !.stage = r]) /\ [c EXCEPT !.stage = r].stage # "sent"
    BY <2>2 DEF PostedFor, Calls, Codes
  <2>4. CASE UploadLands(p)
    <3>1. sends' = sends \cup {c} /\ object' = [object EXCEPT ![p.id] = p.epoch]
      BY <1>2, <2>4 DEF UploadLands
    <3>2. flight' = [flight EXCEPT ![p.by].phase = "posted", ![p.by].try = 1]
      BY <1>2, <2>4 DEF UploadLands
    <3>3. /\ flight'[p.by].phase = "posted" /\ flight'[p.by].id = p.id /\ flight'[p.by].n = p.n
          /\ flight'[p.by].epoch = flight[p.by].epoch
      BY <1>1, <2>1, <3>2 DEF TypeOK, Flights
    <3> HIDE DEF c
    <3> QED
      BY <1>2, <2>2, <3>1, <3>3
  <2>5. CASE UploadFails(p)
    <3>1. PICK r \in {"bad_request", "refused"} : sends' = sends \cup {[c EXCEPT !.stage = r]}
      BY <1>2, <2>5 DEF UploadFails
    <3>2. flight' = [flight EXCEPT ![p.by].phase = "posted"]
      BY <1>2, <2>5 DEF UploadFails
    <3>3. /\ flight'[p.by].phase = "posted" /\ flight'[p.by].id = p.id /\ flight'[p.by].n = p.n
          /\ flight'[p.by].epoch = flight[p.by].epoch
      BY <1>1, <2>1, <3>2 DEF TypeOK, Flights
    <3> HIDE DEF c
    <3> QED
      BY <1>2, <2>3, <3>1, <3>3
  <2> QED
    BY <1>2, <2>4, <2>5 DEF PutStep, uploadFile, UploadBreaks, UploadVanishes
<1> QED
  BY <1>2 DEF PutStep, uploadFile, UploadLands, UploadFails, UploadBreaks, UploadVanishes

LEMMA PutStepType == ASSUME TypeOK, NEW p \in puts, PutStep(p) PROVE TypeOK'
<1>1. p \in Puts /\ p.by \in Devices /\ p.id \in Messages /\ p.epoch \in 1 .. MaxEpoch
  BY PutIs
<1>2. flight' \in [Devices -> Flights \cup {NoFlight}]
  <2>1. CASE flight' = flight
    BY <2>1 DEF TypeOK
  <2>2. CASE /\ flight[p.by] \in Flights /\ FlightAfter(flight[p.by], flight'[p.by])
             /\ flight' = [flight EXCEPT ![p.by] = flight'[p.by]]
    <3> DEFINE f == flight[p.by]
               g == flight'[p.by]
    <3>1. Number \in 1 .. (MaxFaults + 1) /\ 1 \in 1 .. MaxTries
      BY DEF Number, TypeOK
    <3>2. f \in Flights /\ FlightAfter(f, g)
      BY <2>2
    <3> HIDE DEF f, g
    <3>3. g \in Flights \cup {NoFlight}
      <4>1. f.try < MaxTries => f.try + 1 \in 1 .. MaxTries
        BY <3>2 DEF Flights
      <4>2. /\ [f EXCEPT !.phase = "posted", !.try = 1] \in Flights
            /\ [f EXCEPT !.phase = "posted"] \in Flights
        BY <3>1, <3>2 DEF Flights
      <4>3. f.try < MaxTries => [f EXCEPT !.n = Number, !.try = f.try + 1] \in Flights
        BY <3>1, <3>2, <4>1 DEF Flights
      <4> QED
        BY <3>2, <4>2, <4>3 DEF FlightAfter
    <3> QED
      BY <2>2, <3>3 DEF g, TypeOK
  <2> QED
    BY <2>1, <2>2, PutFlight
<1>3. sends' \subseteq Calls
  <2>1. sends' = sends \/ \E q \in Calls : sends' = sends \cup {q}
    BY PutSends DEF PostedFor
  <2>2. sends \subseteq Calls
    BY DEF TypeOK
  <2> QED
    BY <2>1, <2>2
<1>4. object' \in [Messages -> 0 .. MaxEpoch]
  <2>1. object' = object \/ \E e \in 0 .. MaxEpoch : object' = [object EXCEPT ![p.id] = e]
    <3>1. UploadFails(p) => object' = object \/ object' = [object EXCEPT ![p.id] = 0]
      BY <1>1 DEF UploadFails, TypeOK
    <3> QED
      BY <1>1, <3>1 DEF PutStep, uploadFile, UploadLands, UploadBreaks, UploadVanishes
  <2>2. object \in [Messages -> 0 .. MaxEpoch]
    BY DEF TypeOK
  <2> QED
    BY <2>1, <2>2
<1>5. puts' \subseteq Puts
  <2>1. Number \in 1 .. (MaxFaults + 1)
    BY DEF Number, TypeOK
  <2>2. [p EXCEPT !.stage = "broken"] \in Puts /\ Put(p.by, p.id, p.epoch, Number) \in Puts
    BY <1>1, <2>1, PutType DEF Puts
  <2>3. puts' \subseteq puts \cup {[p EXCEPT !.stage = "broken"], Put(p.by, p.id, p.epoch, Number)}
    BY DEF PutStep, uploadFile, UploadLands, UploadFails, UploadBreaks, UploadVanishes
  <2> QED
    BY <2>2, <2>3 DEF TypeOK
<1>6. faults' \in 0 .. MaxFaults
  BY DEF PutStep, uploadFile, UploadLands, UploadFails, UploadBreaks, UploadVanishes, TypeOK
<1> QED
  BY <1>2, <1>3, <1>4, <1>5, <1>6, PutKeeps DEF TypeOK

LEMMA SendAnsweredType == ASSUME TypeOK, NEW d \in Devices, SendAnswered(d) PROVE TypeOK'
<1>1. CASE flight' = [flight EXCEPT ![d] = NoFlight]
  <2>1. flight' \in [Devices -> Flights \cup {NoFlight}]
    BY <1>1 DEF TypeOK
  <2> QED
    BY <2>1, ZenonT(90) DEF SendAnswered, TypeOK
<1>2. CASE flight[d].phase = "posted" /\ flight' = [flight EXCEPT ![d].phase = "saving"]
  <2>1. flight[d] \in Flights
    BY <1>2, InFlight
  <2>2. [flight[d] EXCEPT !.phase = "saving"] \in Flights
    BY <2>1 DEF Flights
  <2>3. flight' = [flight EXCEPT ![d] = [flight[d] EXCEPT !.phase = "saving"]]
    BY <1>2
  <2>4. flight' \in [Devices -> Flights \cup {NoFlight}]
    BY <2>2, <2>3 DEF TypeOK
  <2> QED
    BY <2>4, ZenonT(90) DEF SendAnswered, TypeOK
<1> QED
  BY <1>1, <1>2 DEF SendAnswered

LEMMA AnswerSavedType == ASSUME TypeOK, NEW d \in Devices, AnswerSaved(d) PROVE TypeOK'
<1> PICK q \in sends :
    /\ sends' = sends \ {q}
    /\ flight' = [flight EXCEPT ![d] = NoFlight]
    /\ Sets(d, q.id, RowAfter(q.stage))
    /\ pin' = [pin EXCEPT ![q.id] = IF q.stage = "key_rotated" THEN 0 ELSE @]
    /\ UNCHANGED <<tables, blobs, acks, known, acked, deleted, pass, history, faults>>
  BY DEF AnswerSaved
<1>1. q.id \in Messages
  BY DEF TypeOK, Calls
<1>2. local' \in [Devices -> [Messages -> LocalStates]]
  BY <1>1 DEF TypeOK, LocalStates, RowAfter
<1>3. pin' \in [Messages -> 0 .. MaxEpoch]
  BY <1>1 DEF TypeOK
<1> QED
  BY <1>2, <1>3 DEF TypeOK, LocalStates

LEMMA SendLostType == ASSUME TypeOK, NEW d \in Devices, SendLost(d) PROVE TypeOK'
<1>1. flight[d] \in Flights /\ faults < MaxFaults /\ faults' = faults + 1
  BY InFlight DEF SendLost
<1>2. /\ flight[d].id \in Messages /\ flight[d].epoch \in 1 .. MaxEpoch
      /\ flight[d].try \in 1 .. MaxTries
      /\ faults' \in 0 .. MaxFaults /\ Number' \in 1 .. (MaxFaults + 1)
  BY <1>1 DEF Flights, Number, TypeOK
<1>3. sends' \subseteq Calls
  <2> DEFINE c == Call(d, flight[d].id, flight[d].epoch, Number')
  <2>1. c \in Calls
    BY <1>2, CallType
  <2> HIDE DEF c
  <2>2. sends' \subseteq Unanswered(d) \cup {c} \/ UNCHANGED sends
    BY ZenonT(90) DEF SendLost, c
  <2>3. Unanswered(d) \subseteq Calls
    BY ZenonT(90) DEF Unanswered, TypeOK
  <2> QED
    BY <2>1, <2>2, <2>3 DEF TypeOK
<1>5. puts' \subseteq Puts
  <2> DEFINE p == Put(d, flight[d].id, flight[d].epoch, Number')
  <2>1. CASE flight[d].phase = "uploading"
    <3>1. p \in Puts
      BY <1>2, <2>1, PutType DEF TypeOK
    <3> HIDE DEF p
    <3>2. puts' = puts \cup {p} \/ puts' = puts
      BY <2>1 DEF SendLost, p
    <3>3. puts \subseteq Puts
      BY DEF TypeOK
    <3> QED
      BY <3>1, <3>2, <3>3
  <2> QED
    BY <2>1 DEF SendLost, TypeOK
<1>4. flight' \in [Devices -> Flights \cup {NoFlight}]
  <2>1. CASE flight' = [flight EXCEPT ![d] = NoFlight]
    BY <2>1 DEF TypeOK
  <2>2. CASE /\ flight[d].try < MaxTries
             /\ flight' = [flight EXCEPT ![d].n = Number', ![d].try = flight[d].try + 1]
    <3> DEFINE f == flight'[d]
    <3>1. flight[d].try + 1 \in 1 .. MaxTries
      BY <1>2, <2>2
    <3>2. f = [flight[d] EXCEPT !.n = Number', !.try = flight[d].try + 1]
      BY <2>2 DEF TypeOK
    <3>3. f \in Flights
      BY <1>1, <1>2, <3>1, <3>2 DEF Flights
    <3>4. flight' = [flight EXCEPT ![d] = f]
      BY <2>2 DEF TypeOK
    <3> HIDE DEF f
    <3> QED
      BY <3>3, <3>4 DEF TypeOK
  <2> QED
    BY <2>1, <2>2 DEF SendLost
<1> QED
  BY <1>2, <1>3, <1>4, <1>5 DEF SendLost, TypeOK

LEMMA AbandonedType == ASSUME NEW A \in SUBSET Acks PROVE Abandoned(A) \subseteq Acks
BY DEF Abandoned, Acks

LEMMA ReloadType == ASSUME TypeOK, NEW d \in Devices, Reload(d) PROVE TypeOK'
<1>1. acks' \subseteq Acks
  BY AbandonedType DEF Reload, TypeOK
<1>2. pass' \in [Devices -> Passes]
  BY NoPassType DEF Reload, TypeOK
<1>3. faults' \in 0 .. MaxFaults
  BY DEF Reload, TypeOK
<1> QED
  BY <1>1, <1>2, <1>3 DEF Reload, TypeOK, Unanswered

LEMMA ReplyType ==
  ASSUME TypeOK, NEW q \in sends, NEW code \in Codes, Reply(q, code) PROVE sends' \subseteq Calls
BY ZenonT(90) DEF Reply, TypeOK, Calls

LEMMA SendCheckType == ASSUME TypeOK, NEW q \in sends, SendCheck(q) PROVE TypeOK'
<1>1. Verdict(q) \in Codes \/ Verdict(q) = "checked"
  BY DEF Verdict, Codes
<1>2. sends' \subseteq Calls
  <2>1. CASE Verdict(q) = "checked"
    <3>1. q \in Calls
      BY DEF TypeOK
    <3>2. [q EXCEPT !.stage = "checked"] \in Calls
      BY <3>1 DEF Calls
    <3> QED
      BY <2>1, <3>2, ZenonT(90) DEF SendCheck, TypeOK
  <2>2. CASE Verdict(q) # "checked"
    BY <1>1, <2>2, ReplyType DEF SendCheck
  <2> QED
    BY <2>1, <2>2
<1> QED
  BY <1>2 DEF SendCheck, TypeOK

LEMMA DropType ==
  ASSUME TypeOK, NEW S, stored' = Without(stored, S), waiting' \subseteq waiting
  PROVE  /\ stored' \in Seq(Rows) /\ \A i, k \in DOMAIN stored' : stored'[i].id = stored'[k].id => i = k
         /\ waiting' \subseteq Messages \X Devices
<1>1. stored \in Seq(Rows) /\ Distinct(stored) /\ waiting \subseteq Messages \X Devices
  BY DEF TypeOK, Distinct
<1>2. stored' \in Seq(Rows) /\ Distinct(stored')
  BY <1>1, WithoutRows
<1> QED
  BY <1>1, <1>2 DEF Distinct

LEMMA SendRecipientsType == ASSUME TypeOK, NEW q \in sends, SendRecipients(q) PROVE TypeOK'
<1> DEFINE to == messageRecipients(q.by)
           gone == {Target[q.id]} \cap Ids(stored)
<1>1. stored' = Without(stored, gone) /\ waiting' \subseteq waiting /\ doomed' \subseteq WithFile
  BY DEF SendRecipients, TypeOK
<1>2. to \in SUBSET Devices
  BY DEF messageRecipients, Active
<1>3. sends' \subseteq Calls
  <2>1. CASE Reply(q, "ok") \/ Reply(q, "bad_request")
    BY <2>1, ReplyType DEF Codes
  <2>2. CASE sends' = (sends \ {q}) \cup {[q EXCEPT !.stage = "ready", !.to = to]}
    <3>1. [q EXCEPT !.stage = "ready", !.to = to] \in Calls
      <4>1. q \in Calls
        BY DEF TypeOK
      <4>2. [q EXCEPT !.to = to] \in Calls
        BY <1>2, <4>1 DEF Calls
      <4>3. \A r \in Calls : [r EXCEPT !.stage = "ready"] \in Calls
        BY DEF Calls
      <4>4. [q EXCEPT !.stage = "ready", !.to = to] = [[q EXCEPT !.to = to] EXCEPT !.stage = "ready"]
        BY <4>1 DEF Calls
      <4> QED
        BY <4>2, <4>3, <4>4
    <3> QED
      BY <2>2, <3>1 DEF TypeOK
  <2> QED
    BY <2>1, <2>2 DEF SendRecipients
<1> HIDE DEF gone
<1> QED
  BY <1>1, <1>3, DropType DEF SendRecipients, TypeOK

LEMMA SendBatchType == ASSUME TypeOK, NEW q \in sends, SendBatch(q) PROVE TypeOK'
<1>1. sends' \subseteq Calls
  BY ReplyType DEF SendBatch, Codes
<1>2. CASE UNCHANGED <<stored, waiting>>
  BY <1>1, <1>2 DEF SendBatch, TypeOK
<1>3. CASE /\ q.id \notin Ids(stored)
           /\ stored' = Append(stored, [id |-> q.id, epoch |-> q.epoch])
           /\ waiting' = waiting \cup ({q.id} \X q.to)
  <2> DEFINE x == [id |-> q.id, epoch |-> q.epoch]
  <2>1. x \in Rows /\ x.id = q.id
    BY DEF TypeOK, Calls, Rows
  <2>2. waiting' \subseteq Messages \X Devices
    BY <1>3 DEF TypeOK, Calls
  <2> HIDE DEF x
  <2>3. stored' \in Seq(Rows) /\ \A i, k \in DOMAIN stored' : stored'[i].id = stored'[k].id => i = k
    <3>1. stored \in Seq(Rows) /\ Distinct(stored)
      BY DEF TypeOK, Distinct
    <3>2. stored' = Append(stored, x)
      BY <1>3 DEF x
    <3>3. stored' \in Seq(Rows) /\ Distinct(stored')
      BY <1>3, <2>1, <3>1, <3>2, AppendRow
    <3> QED
      BY <3>3 DEF Distinct
  <2> QED
    BY <1>1, <2>2, <2>3 DEF SendBatch, TypeOK
<1> QED
  BY <1>2, <1>3 DEF SendBatch

LEMMA AdvanceType ==
  ASSUME TypeOK, NEW a \in acks, NEW stage \in {"marked", "ok", "not_found"}, Advance(a, stage)
  PROVE  acks' \subseteq Acks
BY DEF Advance, TypeOK, Acks

LEMMA AckUpdateType == ASSUME TypeOK, NEW a \in acks, AckUpdate(a) PROVE TypeOK'
<1>1. acks' \subseteq Acks
  BY AdvanceType DEF AckUpdate
<1> QED
  BY <1>1 DEF AckUpdate, TypeOK

LEMMA AckCountType == ASSUME TypeOK, NEW a \in acks, AckCount(a) PROVE TypeOK'
<1>1. acks' \subseteq Acks
  BY AdvanceType DEF AckCount
<1>2. CASE UNCHANGED <<stored, waiting, doomed>>
  BY <1>1, <1>2 DEF AckCount, TypeOK
<1>3. CASE Drop({a.id} \cap Ids(stored))
  BY <1>1, <1>3, DropType DEF AckCount, Drop, TypeOK
<1> QED
  BY <1>2, <1>3 DEF AckCount

LEMMA PurgeDeliveredType == ASSUME TypeOK, PurgeDelivered PROVE TypeOK'
<1> DEFINE S == {m \in Ids(stored) : ~\E w \in waiting : w[1] = m}
<1>1. Drop(S)
  BY DEF PurgeDelivered
<1> HIDE DEF S
<1> QED
  BY <1>1, DropType DEF PurgeDelivered, Drop, TypeOK

LEMMA ServerType ==
  ASSUME TypeOK,
         \/ \E m \in Messages : DeleteObject(m)
         \/ \E d \in Devices : Revoke(d) \/ Join(d)
         \/ Rotate
  PROVE  TypeOK'
<1>1. ASSUME NEW m \in Messages, DeleteObject(m) PROVE TypeOK'
  BY <1>1 DEF DeleteObject, TypeOK
<1>2. ASSUME NEW d \in Devices, Revoke(d) PROVE TypeOK'
  BY <1>2 DEF Revoke, TypeOK
<1>3. ASSUME NEW d \in Devices, Join(d) PROVE TypeOK'
  BY <1>3 DEF Join, TypeOK
<1>4. ASSUME Rotate PROVE TypeOK'
  BY <1>4 DEF Rotate, TypeOK
<1> QED
  BY <1>1, <1>2, <1>3, <1>4

LEMMA SyncPollType == ASSUME TypeOK, NEW d \in Devices, SyncPoll(d) PROVE TypeOK'
<1> DEFINE mine == At(stored, {i \in DOMAIN stored : <<stored[i].id, d>> \in waiting})
           p == [NoPass EXCEPT !.phase = "polled", !.batch = mine]
<1>1. mine \in Seq(Rows)
  <2> DEFINE K == {i \in DOMAIN stored : <<stored[i].id, d>> \in waiting}
  <2>1. stored \in Seq(Rows) /\ K \in SUBSET DOMAIN stored
    BY DEF TypeOK
  <2> HIDE DEF K
  <2> QED
    BY <2>1, AtRows DEF K
<1>2. known' \in [Devices -> 1 .. MaxEpoch]
  BY DEF SyncPoll, TypeOK
<1>3. pass' = [pass EXCEPT ![d] = p]
  BY DEF SyncPoll
<1> HIDE DEF mine
<1>4. p = [[NoPass EXCEPT !.phase = "polled"] EXCEPT !.batch = mine]
  BY DEF NoPass
<1>5. p \in Passes
  <2>1. [NoPass EXCEPT !.phase = "polled"] \in Passes
    BY NoPassType DEF Passes
  <2> QED
    BY <1>1, <1>4, <2>1 DEF Passes
<1> HIDE DEF p
<1>6. pass' \in [Devices -> Passes]
  BY <1>3, <1>5 DEF TypeOK
<1> QED
  BY <1>2, <1>6 DEF SyncPoll, TypeOK

LEMMA LoadDeletionsType == ASSUME TypeOK, NEW d \in Devices, LoadDeletions(d) PROVE TypeOK'
<1> DEFINE p == pass'[d]
<1>1. pass[d] \in Passes /\ deleted[d] \in SUBSET Messages
  BY DEF TypeOK
<1>2. p = [pass[d] EXCEPT !.phase = "reading", !.dels = deleted[d]]
  BY DEF LoadDeletions, TypeOK
<1>3. p \in Passes
  BY <1>1, <1>2 DEF Passes
<1>4. pass' = [pass EXCEPT ![d] = p]
  BY DEF LoadDeletions, TypeOK
<1> HIDE DEF p
<1>5. pass' \in [Devices -> Passes]
  BY <1>3, <1>4 DEF TypeOK
<1> QED
  BY <1>5 DEF LoadDeletions, TypeOK

LEMMA JobBecomesType ==
  ASSUME TypeOK, NEW d \in Devices, NEW j, NEW new \in SUBSET Jobs, JobBecomes(d, j, new)
  PROVE  pass' \in [Devices -> Passes]
<1>1. pass[d] \in Passes
  BY DEF TypeOK
<1>2. [pass[d] EXCEPT !.jobs = (@ \ {j}) \cup new] \in Passes
  BY <1>1 DEF Passes
<1> QED
  BY <1>2 DEF JobBecomes, TypeOK

LEMMA UpsertType ==
  ASSUME TypeOK, NEW d \in Devices, NEW j \in Jobs, Upsert(d, j)
  PROVE  /\ local' \in [Devices -> [Messages -> Incoming \cup {"absent", "queued", "sent", "failed"}]]
         /\ acked' \in [Devices -> SUBSET Messages]
<1>1. j.id \in Messages /\ j.state \in Incoming \cup {"absent", "queued", "sent", "failed"}
  BY DEF Jobs
<1> QED
  BY <1>1 DEF Upsert, TypeOK

LEMMA JobIs ==
  ASSUME TypeOK, NEW d \in Devices, NEW j \in pass[d].jobs
  PROVE  j \in Jobs /\ j.id \in Messages
BY DEF TypeOK, Passes, Jobs

LEMMA JobBeginType ==
  ASSUME TypeOK, NEW d \in Devices, NEW j \in pass[d].jobs, JobBegin(d, j) PROVE TypeOK'
<1>1. j \in Jobs /\ j.id \in Messages
  BY JobIs
<1>2. /\ [j EXCEPT !.stage = "getting"] \in Jobs
      /\ [j EXCEPT !.stage = "acking"] \in Jobs
  BY <1>1 DEF Jobs
<1>3. pass' \in [Devices -> Passes]
  BY <1>2, JobBecomesType DEF JobBegin
<1>4. acks' \subseteq Acks
  BY <1>1, AckType DEF JobBegin, TypeOK
<1>5. /\ local' \in [Devices -> [Messages -> Incoming \cup {"absent", "queued", "sent", "failed"}]]
      /\ acked' \in [Devices -> SUBSET Messages]
  BY <1>1, UpsertType DEF JobBegin, TypeOK
<1> QED
  BY <1>3, <1>4, <1>5 DEF JobBegin, TypeOK

LEMMA JobGotType ==
  ASSUME TypeOK, NEW d \in Devices, NEW j \in pass[d].jobs, JobGot(d, j) PROVE TypeOK'
<1> DEFINE new == [j EXCEPT !.state = IF object[j.id] = j.epoch THEN "held" ELSE "lost",
                            !.stage = "acking"]
<1>1. j \in Jobs /\ j.id \in Messages
  BY JobIs
<1>2. \A s \in {"held", "lost"} : [j EXCEPT !.state = s, !.stage = "acking"] \in Jobs
  <2> TAKE s \in {"held", "lost"}
  <2>1. [j EXCEPT !.state = s] \in Jobs
    BY <1>1 DEF Jobs, Incoming
  <2>2. [j EXCEPT !.state = s, !.stage = "acking"] = [[j EXCEPT !.state = s] EXCEPT !.stage = "acking"]
    BY <1>1 DEF Jobs
  <2>3. \A k \in Jobs : [k EXCEPT !.stage = "acking"] \in Jobs
    BY DEF Jobs
  <2> QED
    BY <2>1, <2>2, <2>3
<1>3. new \in Jobs
  BY <1>2
<1>4. Upsert(d, new) /\ Ack(d, j.id, "job") /\ JobBecomes(d, j, {new})
  BY DEF JobGot
<1> HIDE DEF new
<1>5. pass' \in [Devices -> Passes]
  BY <1>3, <1>4, JobBecomesType
<1>6. acks' \subseteq Acks
  BY <1>1, <1>4, AckType
<1>7. /\ local' \in [Devices -> [Messages -> Incoming \cup {"absent", "queued", "sent", "failed"}]]
      /\ acked' \in [Devices -> SUBSET Messages]
  BY <1>3, <1>4, UpsertType
<1> QED
  BY <1>5, <1>6, <1>7 DEF JobGot, TypeOK

LEMMA JobFailsType ==
  ASSUME TypeOK, NEW d \in Devices, NEW j \in pass[d].jobs, JobFails(d, j) PROVE TypeOK'
<1>1. j \in Jobs
  BY JobIs
<1>2. pass' \in [Devices -> Passes]
  BY JobBecomesType DEF JobFails
<1>3. /\ local' \in [Devices -> [Messages -> Incoming \cup {"absent", "queued", "sent", "failed"}]]
      /\ acked' \in [Devices -> SUBSET Messages]
  BY <1>1, UpsertType DEF JobFails
<1>4. faults' \in 0 .. MaxFaults
  BY DEF JobFails, TypeOK
<1> QED
  BY <1>2, <1>3, <1>4 DEF JobFails, TypeOK

LEMMA JobAckedType ==
  ASSUME TypeOK, NEW d \in Devices, NEW j \in pass[d].jobs, JobAcked(d, j) PROVE TypeOK'
<1>1. j \in Jobs
  BY JobIs
<1>2. [j EXCEPT !.acked = TRUE] \in Jobs
  BY <1>1 DEF Jobs
<1>3. pass' \in [Devices -> Passes]
  BY JobBecomesType DEF JobAcked
<1>4. /\ local' \in [Devices -> [Messages -> Incoming \cup {"absent", "queued", "sent", "failed"}]]
      /\ acked' \in [Devices -> SUBSET Messages]
  <2>1. Upsert(d, [j EXCEPT !.acked = TRUE]) \/ UNCHANGED <<local, acked>>
    BY DEF JobAcked
  <2> QED
    BY <1>2, <2>1, UpsertType DEF TypeOK
<1> QED
  BY <1>3, <1>4 DEF JobAcked, TypeOK

LEMMA SyncEndType == ASSUME TypeOK, NEW d \in Devices, SyncEnd(d) PROVE TypeOK'
BY NoPassType DEF SyncEnd, TypeOK

LEMMA LoopAckedType == ASSUME TypeOK, NEW d \in Devices, LoopAcked(d) PROVE TypeOK'
BY DEF LoopAcked, TypeOK

LEMMA UserAckedType == ASSUME TypeOK, NEW d \in Devices, UserAcked(d) PROVE TypeOK'
<1> PICK a \in acks :
       /\ acks' = acks \ {a}
       /\ IF a.stage = "ok"
          THEN /\ Sets(d, a.id, "absent")
               /\ acked' = [acked EXCEPT ![d] = @ \ {a.id}]
          ELSE UNCHANGED <<local, acked>>
  BY DEF UserAcked
<1>1. a.id \in Messages
  BY DEF TypeOK, Acks
<1>2. local' \in [Devices -> [Messages -> LocalStates]] /\ acked' \in [Devices -> SUBSET Messages]
  <2>1. CASE UNCHANGED <<local, acked>>
    BY <2>1 DEF TypeOK, LocalStates
  <2>2. CASE Sets(d, a.id, "absent") /\ acked' = [acked EXCEPT ![d] = @ \ {a.id}]
    BY <1>1, <2>2 DEF TypeOK, LocalStates
  <2> QED
    BY <2>1, <2>2
<1> QED
  BY <1>2 DEF UserAcked, TypeOK, LocalStates

LEMMA AckLostType == ASSUME TypeOK, NEW a \in acks, AckLost(a) PROVE TypeOK'
<1>1. a \in Acks /\ {a} \in SUBSET Acks
  BY DEF TypeOK
<1>2. \A stage \in {"sent", "not_found"} : [a EXCEPT !.stage = stage] \in Acks
  BY <1>1 DEF Acks
<1>3. acks' \subseteq Acks
  BY <1>1, <1>2, AbandonedType DEF AckLost, TypeOK
<1>4. faults' \in 0 .. MaxFaults
  BY DEF AckLost, TypeOK
<1> QED
  BY <1>3, <1>4 DEF AckLost, TypeOK

LEMMA TakePendingType == ASSUME TypeOK, NEW d \in Devices, TakePending(d) PROVE TypeOK'
<1> DEFINE p == pass[d]
           x == Head(p.batch)
           done == [p EXCEPT !.batch = Tail(p.batch)]
<1>1. p \in Passes /\ p.batch \in Seq(Rows) /\ p.batch # <<>>
  BY DEF TypeOK, Passes, TakePending
<1>2. x \in Rows /\ x.id \in Messages /\ x.epoch \in 1 .. MaxEpoch /\ Tail(p.batch) \in Seq(Rows)
  BY <1>1, TailRows DEF Rows
<1>3. done \in Passes
  BY <1>1, <1>2 DEF Passes
<1>4. CASE /\ x.id \in Tombstones
           /\ deleted' = [deleted EXCEPT ![d] = @ \cup {Target[x.id]}]
           /\ Sets(d, Target[x.id], "absent")
           /\ acked' = [acked EXCEPT ![d] = @ \ {Target[x.id]}]
           /\ Ack(d, x.id, "loop")
           /\ pass' = [pass EXCEPT ![d] = done]
           /\ UNCHANGED seen
  <2> HIDE DEF x, done
  <2>1. Target[x.id] \in Messages
    BY <1>2, <1>4 DEF Tombstones
  <2>2. deleted' \in [Devices -> SUBSET Messages] /\ acked' \in [Devices -> SUBSET Messages]
    BY <1>4, <2>1 DEF TypeOK
  <2>3. local' \in [Devices -> [Messages -> LocalStates]]
    BY <1>4, <2>1 DEF TypeOK, LocalStates
  <2>4. acks' \subseteq Acks
    BY <1>2, <1>4, AckType
  <2>5. pass' \in [Devices -> Passes]
    BY <1>3, <1>4 DEF TypeOK
  <2> QED
    BY <1>4, <2>2, <2>3, <2>4, <2>5 DEF TakePending, TypeOK, LocalStates
<1>5. CASE /\ Ack(d, x.id, "loop")
           /\ pass' = [pass EXCEPT ![d] = done]
           /\ UNCHANGED <<local, acked, deleted, seen>>
  <2> HIDE DEF x, done
  <2>1. acks' \subseteq Acks
    BY <1>2, <1>5, AckType
  <2>2. pass' \in [Devices -> Passes]
    BY <1>3, <1>5 DEF TypeOK
  <2> QED
    BY <1>5, <2>1, <2>2 DEF TakePending, TypeOK
<1>6. CASE \E state \in LocalStates \ {"absent"} :
             /\ Sets(d, x.id, state)
             /\ pass' = [pass EXCEPT ![d] =
                  [done EXCEPT !.jobs = @ \cup {Job(x, state, x.id \in acked[d])}]]
             /\ seen' = seen \cup {<<x.id, d>>}
             /\ UNCHANGED <<acked, deleted, acks>>
  <2> PICK state \in LocalStates \ {"absent"} :
             /\ Sets(d, x.id, state)
             /\ pass' = [pass EXCEPT ![d] =
                  [done EXCEPT !.jobs = @ \cup {Job(x, state, x.id \in acked[d])}]]
             /\ seen' = seen \cup {<<x.id, d>>}
             /\ UNCHANGED <<acked, deleted, acks>>
    BY <1>6
  <2> HIDE DEF x, done
  <2>1. Job(x, state, x.id \in acked[d]) \in Jobs
    BY <1>2 DEF Job, Jobs, LocalStates
  <2>2. [done EXCEPT !.jobs = @ \cup {Job(x, state, x.id \in acked[d])}] \in Passes
    BY <1>3, <2>1 DEF Passes
  <2>3. pass' \in [Devices -> Passes]
    BY <2>2 DEF TypeOK
  <2>4. local' \in [Devices -> [Messages -> LocalStates]]
    BY <1>2 DEF TypeOK, LocalStates
  <2>5. seen' \subseteq Messages \X Devices
    BY <1>2 DEF TypeOK
  <2> QED
    BY <2>3, <2>4, <2>5 DEF TakePending, TypeOK, LocalStates
<1>7. LET state == IF local[d][x.id] # "absent" THEN local[d][x.id]
                   ELSE IF x.id \in WithFile THEN "remote" ELSE "held"
      IN  state \in LocalStates \ {"absent"}
  BY <1>2 DEF TypeOK, LocalStates, Incoming
<1> QED
  BY <1>4, <1>5, <1>6, <1>7, ZenonT(90) DEF TakePending

\* The step of one device, by action.
LEMMA TypeStep == TypeOK /\ [Next]_vars => TypeOK'
<1> SUFFICES ASSUME TypeOK, [Next]_vars PROVE TypeOK'
  OBVIOUS
<1>1. ASSUME NEW d \in Devices, User(d) PROVE TypeOK'
  BY <1>1, ComposeType, DeleteEverywhereType, QueueDeletionType, DeleteLocallyType, RetryMessageType DEF User
<1>2. ASSUME NEW d \in Devices, Outbox(d) PROVE TypeOK'
  BY <1>2, FlushBeginType, SendAnsweredType, AnswerSavedType DEF Outbox
<1>3. ASSUME NEW d \in Devices, Sync(d) PROVE TypeOK'
  BY <1>3, SyncPollType, LoadDeletionsType, TakePendingType, LoopAckedType, SyncEndType,
     UserAckedType, JobBeginType, JobGotType, JobAckedType DEF Sync
<1>4. ASSUME NEW d \in Devices, \/ SendLost(d) \/ Reload(d)
                                \/ \E j \in pass[d].jobs : JobFails(d, j) PROVE TypeOK'
  BY <1>4, SendLostType, ReloadType, JobFailsType
<1>5. ASSUME Sending PROVE TypeOK'
  BY <1>5, SendCheckType, SendRecipientsType, SendBatchType DEF Sending, sendMessage
<1>6. ASSUME Acking PROVE TypeOK'
  BY <1>6, AckUpdateType, AckCountType DEF Acking, ackMessage
<1>7. ASSUME Purging PROVE TypeOK'
  BY <1>7, PurgeDeliveredType, ServerType DEF Purging
<1>8. CASE UNCHANGED vars
  BY <1>8 DEF vars, TypeOK
<1>9. ASSUME NEW p \in puts, uploadFile(p) \/ UploadBreaks(p) \/ UploadVanishes(p) PROVE TypeOK'
  BY <1>9, PutStepType DEF PutStep
<1> QED
  BY <1>1, <1>2, <1>3, <1>4, <1>5, <1>6, <1>7, <1>8, <1>9, AckLostType, ServerType DEF Next

\* Every variable has its type, and the messages table has at most one row of a message:
\* a retry of a post that was stored meets its primary key (messages.ts:149-189).
THEOREM DeliveryTypeCorrect == Spec => []TypeOK
BY TypeInit, TypeStep, PTL DEF Spec

(***************************************************************************)
(* The inductive invariant.                                                *)
(***************************************************************************)
\* The device was told to forget the message, or the message told it to forget one.
Told(d, m) == m \in deleted[d] \/ (m \in Tombstones /\ Target[m] \in deleted[d])

\* The state s a history may have of a message, when b was composed and r registered.
Cell(d, m, s, b, r) ==
  /\ Author[m] = d => s \notin Incoming /\ (s # "absent" => m \in b)
  /\ Author[m] # d => s \in Incoming \cup {"absent"}
  /\ s \in Incoming => <<m, d>> \in r

HistoryInv ==
  /\ \A d \in Devices, m \in Messages : Cell(d, m, local[d][m], born, seen)
  /\ \A d \in Devices : \A m \in deleted[d] : Retracted(m)
  /\ \A s \in seen : Author[s[1]] # s[2]

\* Nothing is offered to its author, and calls are made by authors.
ServerInv ==
  /\ Ids(stored) \subseteq born
  /\ \A w \in waiting : Author[w[1]] # w[2]
  /\ \A q \in sends : q.id \in born /\ q.by = Author[q.id] /\ q.by \notin q.to
  /\ \A d \in Devices :
       flight[d].phase # "idle" => flight[d].id \in born /\ Author[flight[d].id] = d

\* What a job in a pass p of d knows is what the history h of d says, unless its user
\* forgot it; x are the ids deleted for everyone, r what was registered.
JobFits(d, j, p, h, x, r) ==
  /\ <<j.id, d>> \in r /\ j.id \notin Tombstones /\ j.state \in Incoming
  /\ \/ j.id \in x \/ h[j.id] = j.state
     \/ d \in Forgetful /\ h[j.id] = "absent"
  /\ j.stage = "acking" => j.state # "remote"
  /\ j.stage # "registered" => p.batch = <<>>

\* A message is at most once in a pass, in the batch or as a job.
PassFits(d, p, h, x, r, b) ==
  /\ \A i \in DOMAIN p.batch : p.batch[i].id \in b /\ Author[p.batch[i].id] # d
  /\ Distinct(p.batch)
  /\ \A j \in p.jobs : JobFits(d, j, p, h, x, r) /\ \A i \in DOMAIN p.batch : p.batch[i].id # j.id
  /\ \A j, k \in p.jobs : j.id = k.id => j = k
  /\ p.jobs # {} => p.phase = "reading"
  /\ p.dels \subseteq x
PassInv == \A d \in Devices : PassFits(d, pass[d], local[d], deleted[d], seen, born)

\* An ack is out for what is complete, unobtainable, or to be forgotten.
AckFits(a) ==
  \/ Told(a.by, a.id)
  \/ /\ <<a.id, a.by>> \in seen
     /\ \/ local[a.by][a.id] \in {"held", "lost"}
        \/ a.by \in Forgetful /\ (a.kind # "job" \/ local[a.by][a.id] = "absent")

AckInv ==
  /\ \A a \in acks : AckFits(a) /\ (a.kind = "user" => a.by \in Forgetful)
  /\ \A a \in acks : a.kind = "job" =>
       \E j \in pass[a.by].jobs : j.id = a.id /\ j.stage = "acking"
  /\ \A a, b \in acks :
       a.kind = "job" /\ b.kind = "job" /\ a.by = b.by /\ a.id = b.id => a = b

\* Who is to get a message, of those here from the start, and whether they do.
Expected(m) == (Active \cap Founders) \ (SendOnly \cup {Author[m]})
Covered(m) ==
  m \in Tombstones \/ Retracted(m) \/ \A d \in Expected(m) : <<m, d>> \in waiting \cup seen

CoverInv ==
  /\ \A d \in Founders : status[d] # "new"
  /\ \A i \in DOMAIN stored : Covered(stored[i].id)
  /\ \A q \in sends : /\ q.stage \in {"ok", "conflict"} => Covered(q.id)
                      /\ q.stage = "ready" => Expected(q.id) \subseteq q.to
  /\ \A m \in Messages : local[Author[m]][m] = "sent" => Covered(m)

\* What a device is about to queue is a deletion of its own.
AskInv == \A d \in Devices : \A t \in asking[d] : t \in Tombstones \cap born /\ Author[t] = d

Inv == TypeOK /\ HistoryInv /\ ServerInv /\ PassInv /\ AckInv /\ CoverInv /\ AskInv

(***************************************************************************)
(* The histories.                                                          *)
(***************************************************************************)
\* Absent suits every message.
LEMMA AbsentFits == ASSUME NEW d, NEW m, NEW b, NEW r PROVE Cell(d, m, "absent", b, r)
BY DEF Cell, Incoming

\* A step that only adds to what was composed and registered, and writes histories
\* cell by cell.
LEMMA HistoryStep ==
  ASSUME HistoryInv, born \subseteq born', seen \subseteq seen',
         \A s \in seen' : s \in seen \/ Author[s[1]] # s[2],
         \A d \in Devices, m \in Messages :
           local'[d][m] = local[d][m] \/ Cell(d, m, local'[d][m], born', seen'),
         \A d \in Devices : \A m \in deleted'[d] : m \in deleted[d] \/ Retracted(m)'
  PROVE  HistoryInv'
<1>1. \A d \in Devices, m \in Messages : Cell(d, m, local'[d][m], born', seen')
  BY DEF HistoryInv, Cell
<1>2. \A m : Retracted(m) => Retracted(m)'
  BY DEF Retracted
<1> QED
  BY <1>1, <1>2 DEF HistoryInv

LEMMA HistoryElsewhere == HistoryInv /\ UNCHANGED <<local, deleted, born, seen>> => HistoryInv'
BY DEF HistoryInv, Retracted

LEMMA ComposeHistory ==
  ASSUME Inv, NEW d \in Devices, NEW m \in Messages, Compose(d, m) PROVE HistoryInv'
<1>1. \A e \in Devices, x \in Messages :
        local'[e][x] = IF e = d /\ x = m THEN "queued" ELSE local[e][x]
  BY DEF Inv, TypeOK, Compose
<1>2. Cell(d, m, "queued", born', seen')
  BY DEF Compose, Cell, Incoming
<1>3. HistoryInv /\ born \subseteq born' /\ UNCHANGED <<seen, deleted>>
  BY DEF Inv, Compose
<1>4. \A e \in Devices, x \in Messages :
        local'[e][x] = local[e][x] \/ Cell(e, x, local'[e][x], born', seen')
  BY <1>1, <1>2
<1> QED
  BY <1>3, <1>4, HistoryStep

LEMMA DeleteEverywhereHistory ==
  ASSUME Inv, NEW d \in Devices, NEW m \in Messages, DeleteEverywhere(d, m) PROVE HistoryInv'
<1>1. Target[m] \in Messages
  BY DEF DeleteEverywhere, Tombstones
<1>2. \A e \in Devices, x \in Messages :
        local'[e][x] = IF e = d /\ x = Target[m] THEN "absent" ELSE local[e][x]
  BY <1>1 DEF Inv, TypeOK, DeleteEverywhere
<1>3. Retracted(Target[m])'
  BY DEF DeleteEverywhere, Retracted
<1>4. \A e \in Devices : deleted'[e] \subseteq deleted[e] \cup {Target[m]}
  BY DEF DeleteEverywhere, Inv, TypeOK
<1>5. HistoryInv /\ born \subseteq born' /\ UNCHANGED seen
  BY DEF Inv, DeleteEverywhere
<1>6. \A e \in Devices, x \in Messages :
        local'[e][x] = local[e][x] \/ Cell(e, x, local'[e][x], born', seen')
  BY <1>2, AbsentFits
<1>7. \A e \in Devices : \A x \in deleted'[e] : x \in deleted[e] \/ Retracted(x)'
  BY <1>3, <1>4
<1> QED
  BY <1>5, <1>6, <1>7, HistoryStep

\* A step that writes one cell, and nothing else of this.
LEMMA OneCell ==
  ASSUME TypeOK, HistoryInv, NEW d \in Devices, NEW m \in Messages, NEW s, Sets(d, m, s),
         Cell(d, m, s, born, seen), UNCHANGED <<deleted, born, seen>>
  PROVE  HistoryInv'
<1>1. \A e \in Devices, x \in Messages :
        local'[e][x] = IF e = d /\ x = m THEN s ELSE local[e][x]
  BY DEF TypeOK
<1> QED
  BY <1>1, HistoryStep

LEMMA QueueDeletionHistory ==
  ASSUME Inv, NEW d \in Devices, NEW m \in Messages, QueueDeletion(d, m) PROVE HistoryInv'
<1>1. Cell(d, m, "queued", born, seen)
  BY DEF Inv, AskInv, QueueDeletion, Cell, Incoming
<1> QED
  BY <1>1, OneCell DEF QueueDeletion, Inv

LEMMA DeleteLocallyHistory ==
  ASSUME Inv, NEW d \in Devices, NEW m \in Messages, DeleteLocally(d, m) PROVE HistoryInv'
<1>1. CASE UNCHANGED local
  BY <1>1, HistoryElsewhere DEF DeleteLocally, Inv
<1>2. CASE Sets(d, m, "absent")
  BY <1>2, OneCell, AbsentFits DEF DeleteLocally, Inv
<1> QED
  BY <1>1, <1>2 DEF DeleteLocally

LEMMA UserAckedHistory == ASSUME Inv, NEW d \in Devices, UserAcked(d) PROVE HistoryInv'
<1>1. PICK a \in acks : UNCHANGED local \/ Sets(d, a.id, "absent")
  BY DEF UserAcked
<1>2. a.id \in Messages
  BY DEF Inv, TypeOK, Acks
<1>3. CASE UNCHANGED local
  BY <1>3, HistoryElsewhere DEF UserAcked, Inv
<1>4. CASE Sets(d, a.id, "absent")
  BY <1>2, <1>4, OneCell, AbsentFits DEF UserAcked, Inv
<1> QED
  BY <1>1, <1>3, <1>4

LEMMA RetryMessageHistory ==
  ASSUME Inv, NEW d \in Devices, NEW m \in Messages, RetryMessage(d, m) PROVE HistoryInv'
<1>1. Cell(d, m, "queued", born, seen)
  BY DEF Inv, HistoryInv, RetryMessage, Cell, Incoming
<1> QED
  BY <1>1, OneCell DEF RetryMessage, Inv

LEMMA AnswerSavedHistory == ASSUME Inv, NEW d \in Devices, AnswerSaved(d) PROVE HistoryInv'
<1>1. PICK q \in sends : q.by = d /\ Sets(d, q.id, RowAfter(q.stage))
  BY DEF AnswerSaved
<1>2. q.id \in Messages /\ q.id \in born /\ Author[q.id] = d
  BY <1>1 DEF Inv, ServerInv, TypeOK
<1>3. Cell(d, q.id, RowAfter(q.stage), born, seen)
  BY <1>2 DEF Cell, RowAfter, Incoming
<1> QED
  BY <1>1, <1>2, <1>3, OneCell DEF AnswerSaved, Inv

\* What TakePending takes: x, the first of the batch of d, which is not its own.
LEMMA Takes ==
  ASSUME Inv, NEW d \in Devices, TakePending(d)
  PROVE  LET x == Head(pass[d].batch) IN
         /\ x \in Rows /\ x.id \in Messages /\ x.id \in born /\ Author[x.id] # d
         /\ x.id \in Tombstones => Target[x.id] \in Messages
         /\ \A j \in pass[d].jobs : j.id # x.id
<1> DEFINE x == Head(pass[d].batch)
<1>1. pass[d].batch \in Seq(Rows) /\ pass[d].batch # <<>>
  BY DEF TakePending, Inv, TypeOK, Passes
<1>2. 1 \in DOMAIN pass[d].batch /\ x = pass[d].batch[1] /\ x \in Rows
  BY <1>1, TailRows
<1> HIDE DEF x
<1>3. x.id \in Messages /\ (x.id \in Tombstones => Target[x.id] \in Messages)
  BY <1>2 DEF Rows, Tombstones
<1>4. x.id \in born /\ Author[x.id] # d /\ \A j \in pass[d].jobs : j.id # x.id
  BY <1>2 DEF Inv, PassInv, PassFits
<1> QED
  BY <1>2, <1>3, <1>4 DEF x

LEMMA TakePendingHistory == ASSUME Inv, NEW d \in Devices, TakePending(d) PROVE HistoryInv'
<1> DEFINE x == Head(pass[d].batch)
           state == IF local[d][x.id] # "absent" THEN local[d][x.id]
                    ELSE IF x.id \in WithFile THEN "remote" ELSE "held"
<1>1. /\ x.id \in Messages /\ x.id \in born /\ Author[x.id] # d
      /\ x.id \in Tombstones => Target[x.id] \in Messages
  BY Takes
<1>2. born' = born
  BY DEF TakePending
<1>3. CASE /\ x.id \in Tombstones
           /\ deleted' = [deleted EXCEPT ![d] = @ \cup {Target[x.id]}]
           /\ Sets(d, Target[x.id], "absent")
           /\ UNCHANGED seen
  <2> HIDE DEF x
  <2>1. \A e \in Devices, m \in Messages :
          local'[e][m] = IF e = d /\ m = Target[x.id] THEN "absent" ELSE local[e][m]
    BY <1>1, <1>3 DEF Inv, TypeOK
  <2>2. \E u \in born' : Target[u] = Target[x.id]
    BY <1>1, <1>2
  <2>3. \A e \in Devices : deleted'[e] \subseteq deleted[e] \cup {Target[x.id]}
    BY <1>3 DEF Inv, TypeOK
  <2>4. \A e \in Devices, m \in Messages :
          local'[e][m] = local[e][m] \/ Cell(e, m, local'[e][m], born', seen')
    BY <2>1, AbsentFits
  <2>5. \A e \in Devices : \A m \in deleted'[e] : m \in deleted[e] \/ Retracted(m)'
    BY <2>2, <2>3 DEF Retracted
  <2> QED
    BY <1>2, <1>3, <2>4, <2>5, HistoryStep DEF Inv
<1>4. CASE UNCHANGED <<local, acked, deleted, seen>>
  BY <1>2, <1>4, HistoryElsewhere DEF Inv
<1>5. CASE Sets(d, x.id, state) /\ seen' = seen \cup {<<x.id, d>>} /\ UNCHANGED deleted
  <2>1. Cell(d, x.id, state, born', seen')
    BY <1>1, <1>5 DEF Inv, HistoryInv, Cell, Incoming
  <2> HIDE DEF x, state
  <2>2. \A e \in Devices, m \in Messages :
          local'[e][m] = IF e = d /\ m = x.id THEN state ELSE local[e][m]
    BY <1>1, <1>5 DEF Inv, TypeOK
  <2>3. \A e \in Devices, m \in Messages :
          local'[e][m] = local[e][m] \/ Cell(e, m, local'[e][m], born', seen')
    BY <2>1, <2>2
  <2>4. seen \subseteq seen' /\ \A r \in seen' : r \in seen \/ Author[r[1]] # r[2]
    BY <1>1, <1>5
  <2> QED
    BY <1>2, <1>5, <2>3, <2>4, HistoryStep DEF Inv
<1> QED
  BY <1>3, <1>4, <1>5 DEF TakePending

\* What a job writes suits the history.
LEMMA JobWrites ==
  ASSUME Inv, NEW d \in Devices, NEW j \in pass[d].jobs, NEW k, k.id = j.id, k.state \in Incoming,
         Upsert(d, k), UNCHANGED <<deleted, born, seen>>
  PROVE  HistoryInv'
<1>1. j.id \in Messages
  BY JobIs DEF Inv
<1>2. <<j.id, d>> \in seen
  BY DEF Inv, PassInv, PassFits, JobFits
<1>3. Author[j.id] # d
  BY <1>2 DEF Inv, HistoryInv
<1>4. Cell(d, k.id, k.state, born, seen)
  BY <1>2, <1>3 DEF Cell
<1> QED
  BY <1>1, <1>4, OneCell DEF Inv, Upsert

LEMMA HistoryStepAll == Inv /\ [Next]_vars => HistoryInv'
<1> SUFFICES ASSUME Inv, [Next]_vars PROVE HistoryInv'
  OBVIOUS
<1>1. ASSUME NEW d \in Devices, User(d) PROVE HistoryInv'
  BY <1>1, ComposeHistory, DeleteEverywhereHistory, QueueDeletionHistory, DeleteLocallyHistory, RetryMessageHistory DEF User
<1>2. ASSUME NEW d \in Devices, \/ AnswerSaved(d) \/ TakePending(d) \/ UserAcked(d)
      PROVE  HistoryInv'
  BY <1>2, AnswerSavedHistory, TakePendingHistory, UserAckedHistory
<1>3. ASSUME NEW d \in Devices, NEW j \in pass[d].jobs,
             JobBegin(d, j) \/ JobGot(d, j) \/ JobFails(d, j) \/ JobAcked(d, j)
      PROVE  HistoryInv'
  <2>1. j \in Jobs /\ j.state \in Incoming
    BY JobIs DEF Inv, PassInv, PassFits, JobFits
  <2>2. CASE JobBegin(d, j)
    BY <2>1, <2>2, JobWrites, HistoryElsewhere DEF JobBegin, Inv
  <2>3. CASE JobGot(d, j)
    <3> DEFINE new == [j EXCEPT !.state = IF object[j.id] = j.epoch THEN "held" ELSE "lost",
                                !.stage = "acking"]
    <3>1. new.id = j.id /\ new.state \in Incoming /\ Upsert(d, new)
      BY <2>1, <2>3 DEF JobGot, Jobs, Incoming
    <3> HIDE DEF new
    <3> QED
      BY <2>3, <3>1, JobWrites DEF JobGot
  <2>4. CASE JobFails(d, j)
    BY <2>1, <2>4, JobWrites DEF JobFails
  <2>5. CASE JobAcked(d, j)
    <3> DEFINE new == [j EXCEPT !.acked = TRUE]
    <3>1. new.id = j.id /\ new.state \in Incoming
      BY <2>1 DEF Jobs
    <3>2. Upsert(d, new) \/ UNCHANGED <<local, acked>>
      BY <2>5 DEF JobAcked
    <3> HIDE DEF new
    <3> QED
      BY <2>5, <3>1, <3>2, JobWrites, HistoryElsewhere DEF JobAcked, Inv
  <2> QED
    BY <1>3, <2>2, <2>3, <2>4, <2>5
<1>4. UNCHANGED <<local, deleted, born, seen>> => HistoryInv'
  BY HistoryElsewhere DEF Inv
<1>5. ASSUME NEW d \in Devices, \/ SyncPoll(d) \/ LoadDeletions(d) \/ LoopAcked(d) \/ SyncEnd(d)
                                \/ SendLost(d) \/ Reload(d) \/ Revoke(d) \/ Join(d)
                                \/ SendAnswered(d)
                                \/ \E m \in Messages : FlushBegin(d, m)
      PROVE  HistoryInv'
  BY <1>4, <1>5 DEF SyncPoll, LoadDeletions, LoopAcked, SyncEnd, SendLost, Reload, Revoke, Join,
     SendAnswered, FlushBegin
<1>6. ASSUME Sending PROVE HistoryInv'
  BY <1>4, <1>6 DEF Sending, sendMessage, SendCheck, SendRecipients, SendBatch
<1>7. ASSUME Acking PROVE HistoryInv'
  BY <1>4, <1>7 DEF Acking, ackMessage, AckUpdate, AckCount
<1>8. ASSUME Purging PROVE HistoryInv'
  BY <1>4, <1>8 DEF Purging, PurgeDelivered, DeleteObject
<1>9. ASSUME (\E a \in acks : AckLost(a)) \/ Rotate \/ UNCHANGED vars PROVE HistoryInv'
  BY <1>4, <1>9 DEF AckLost, Rotate, vars
<1>10. ASSUME NEW p \in puts, PutStep(p) PROVE HistoryInv'
  BY <1>4, <1>10, PutKeeps
<1> QED
  BY <1>1, <1>2, <1>3, <1>5, <1>6, <1>7, <1>8, <1>9, <1>10 DEF Next, Outbox, Sync, PutStep

(***************************************************************************)
(* The server's rows, the calls and the flushes.                           *)
(***************************************************************************)
\* The call q and the flush f of d, when b was composed.
Honest(q, b) == q.id \in b /\ q.by = Author[q.id] /\ q.by \notin q.to
Own(d, f, b) == f.phase # "idle" => f.id \in b /\ Author[f.id] = d

LEMMA ServerStep ==
  ASSUME ServerInv, born \subseteq born',
         \A i \in DOMAIN stored' : stored'[i].id \in born',
         \A w \in waiting' : w \in waiting \/ Author[w[1]] # w[2],
         \A q \in sends' : q \in sends \/ Honest(q, born'),
         \A d \in Devices : flight'[d] = flight[d] \/ Own(d, flight'[d], born')
  PROVE  ServerInv'
<1>1. Ids(stored)' \subseteq born'
  BY DEF Ids
<1>2. \A w \in waiting' : Author[w[1]] # w[2]
  BY DEF ServerInv
<1>3. \A q \in sends' : Honest(q, born')
  BY DEF ServerInv, Honest
<1>4. \A d \in Devices : Own(d, flight'[d], born')
  BY DEF ServerInv, Own
<1> QED
  BY <1>1, <1>2, <1>3, <1>4 DEF ServerInv, Honest, Own

LEMMA StoredBorn == ServerInv => \A i \in DOMAIN stored : stored[i].id \in born
BY DEF ServerInv, Ids

LEMMA ServerElsewhere ==
  ServerInv /\ born \subseteq born' /\ UNCHANGED <<stored, waiting, sends, flight>> => ServerInv'
BY ServerStep, StoredBorn

\* A step of the tables that only drops rows.
LEMMA ServerDrops ==
  ASSUME TypeOK, ServerInv, NEW S, stored' = Without(stored, S) \/ UNCHANGED stored, waiting' \subseteq waiting,
         UNCHANGED <<born, flight>>, \A q \in sends' : q \in sends \/ Honest(q, born')
  PROVE  ServerInv'
<1>1. \A i \in DOMAIN stored' : stored'[i].id \in born'
  <2>1. stored \in Seq(Rows)
    BY DEF TypeOK
  <2> QED
    BY <2>1, StoredBorn, WithoutRows
<1> QED
  BY <1>1, ServerStep

LEMMA FlushBeginServer ==
  ASSUME Inv, NEW d \in Devices, NEW m \in Messages, FlushBegin(d, m) PROVE ServerInv'
<1> DEFINE e == IF pin[m] = 0 THEN known[d] ELSE pin[m]
           f == [id |-> m, n |-> Number, epoch |-> e, try |-> 1,
                 phase |-> IF m \in WithFile THEN "uploading" ELSE "posted"]
<1>1. m \in born /\ Author[m] = d
  <2>1. local[d][m] = "queued" /\ Cell(d, m, local[d][m], born, seen)
    BY DEF FlushBegin, Inv, HistoryInv
  <2> QED
    BY <2>1 DEF Cell, Incoming
<1>2. \A q \in sends' : q \in sends \/ Honest(q, born')
  BY <1>1 DEF FlushBegin, Honest, Call
<1>3. \A c \in Devices : flight'[c] = flight[c] \/ Own(c, flight'[c], born')
  <2>1. flight' = [flight EXCEPT ![d] = f]
    BY DEF FlushBegin
  <2>2. Own(d, f, born')
    BY <1>1 DEF Own, FlushBegin
  <2> HIDE DEF f
  <2> QED
    BY <2>1, <2>2 DEF Inv, TypeOK
<1> QED
  BY <1>2, <1>3, ServerStep, StoredBorn DEF FlushBegin, Inv

LEMMA PutStepServer == ASSUME Inv, NEW p \in puts, PutStep(p) PROVE ServerInv'
<1>1. p.by \in Devices /\ UNCHANGED <<stored, waiting, born>> /\ TypeOK
  BY PutIs, PutKeeps DEF Inv
<1>2. Awaited(p) => /\ flight[p.by] \in Flights /\ flight[p.by].id = p.id /\ p.id \in born
                    /\ Author[p.id] = p.by
  BY <1>1, PutIs DEF Inv, ServerInv, Flights, Awaited
<1>3. \A q \in sends' : q \in sends \/ Honest(q, born')
  BY <1>1, <1>2, PutSends DEF PostedFor, Honest
<1>4. \A c \in Devices : flight'[c] = flight[c] \/ Own(c, flight'[c], born')
  <2>1. CASE flight' # flight
    <3>1. /\ Awaited(p) /\ FlightAfter(flight[p.by], flight'[p.by])
          /\ \A d \in Devices \ {p.by} : flight'[d] = flight[d]
      BY <1>1, <2>1, PutFlight
    <3>2. flight'[p.by] = NoFlight \/ flight'[p.by].id = p.id
      BY <1>2, <3>1 DEF FlightAfter, Flights
    <3> QED
      BY <1>1, <1>2, <3>1, <3>2 DEF Own, NoFlight
  <2> QED
    BY <2>1
<1> QED
  BY <1>1, <1>3, <1>4, ServerStep, StoredBorn DEF Inv

LEMMA AnswersServer ==
  ASSUME Inv, NEW d \in Devices, SendAnswered(d) \/ AnswerSaved(d) \/ Reload(d) PROVE ServerInv'
<1>1. sends' \subseteq sends /\ UNCHANGED <<stored, waiting, born>>
  BY DEF SendAnswered, AnswerSaved, Reload, Unanswered
<1>2. \A c \in Devices : flight'[c] = flight[c] \/ Own(c, flight'[c], born')
  <2>1. CASE flight' = [flight EXCEPT ![d] = NoFlight]
    BY <2>1 DEF Own, NoFlight, Inv, TypeOK
  <2>2. CASE flight[d].phase = "posted" /\ flight' = [flight EXCEPT ![d].phase = "saving"]
    <3>1. flight[d] \in Flights /\ flight[d].id \in born /\ Author[flight[d].id] = d
      BY <2>2, InFlight DEF Inv, ServerInv
    <3>2. \A c \in Devices : flight'[c] = IF c = d THEN [flight[d] EXCEPT !.phase = "saving"] ELSE flight[c]
      BY <2>2 DEF Inv, TypeOK
    <3> QED
      BY <1>1, <3>1, <3>2 DEF Own, Flights
  <2> QED
    BY <2>1, <2>2 DEF SendAnswered, AnswerSaved, Reload
<1> QED
  BY <1>1, <1>2, ServerStep, StoredBorn DEF Inv

LEMMA SendLostServer == ASSUME Inv, NEW d \in Devices, SendLost(d) PROVE ServerInv'
<1>1. flight[d] \in Flights /\ flight[d].id \in born /\ Author[flight[d].id] = d
  BY InFlight DEF SendLost, Inv, ServerInv
<1>2. UNCHANGED <<stored, waiting, born>>
  BY DEF SendLost
<1>3. \A q \in sends' : q \in sends \/ Honest(q, born')
  BY <1>1, <1>2 DEF SendLost, Unanswered, Honest, Call
<1>4. \A c \in Devices : flight'[c] = flight[c] \/ Own(c, flight'[c], born')
  <2>1. CASE flight' = [flight EXCEPT ![d] = NoFlight]
    BY <2>1 DEF Own, NoFlight, Inv, TypeOK
  <2>2. CASE flight' = [flight EXCEPT ![d].n = Number', ![d].try = flight[d].try + 1]
    <3>1. \A c \in Devices : flight'[c] = IF c = d
            THEN [flight[d] EXCEPT !.n = Number', !.try = flight[d].try + 1] ELSE flight[c]
      BY <2>2 DEF Inv, TypeOK
    <3> QED
      BY <1>1, <1>2, <3>1 DEF Own, Flights
  <2> QED
    BY <2>1, <2>2 DEF SendLost
<1> QED
  BY <1>2, <1>3, <1>4, ServerStep, StoredBorn DEF Inv

LEMMA ReplyHonest ==
  ASSUME Inv, NEW q \in sends, NEW code, Reply(q, code), UNCHANGED born
  PROVE  \A r \in sends' : r \in sends \/ Honest(r, born')
<1>1. q \in Calls /\ Honest(q, born)
  BY DEF Inv, TypeOK, ServerInv, Honest
<1>2. Honest([q EXCEPT !.stage = code], born')
  BY <1>1 DEF Honest, Calls
<1> QED
  BY <1>2 DEF Reply

LEMMA SendingServer ==
  ASSUME Inv, NEW q \in sends, sendMessage(q) PROVE ServerInv'
<1>1. q \in Calls /\ Honest(q, born) /\ q.id \in Messages
  BY DEF Inv, TypeOK, ServerInv, Honest, Calls
<1>2. UNCHANGED <<born, flight>>
  BY DEF sendMessage, SendCheck, SendRecipients, SendBatch
<1>3. CASE SendCheck(q)
  <2>1. \A r \in sends' : r \in sends \/ Honest(r, born')
    <3>1. Honest([q EXCEPT !.stage = "checked"], born')
      BY <1>1, <1>2 DEF Honest, Calls
    <3> QED
      BY <1>2, <1>3, <3>1, ReplyHonest DEF SendCheck
  <2> QED
    BY <1>2, <1>3, <2>1, ServerStep, StoredBorn DEF SendCheck, Inv
<1>4. CASE SendRecipients(q)
  <2> DEFINE to == messageRecipients(q.by)
             gone == {Target[q.id]} \cap Ids(stored)
             new == [q EXCEPT !.stage = "ready", !.to = to]
  <2>1. stored' = Without(stored, gone) /\ waiting' \subseteq waiting
    BY <1>4 DEF SendRecipients
  <2>2. Honest(new, born')
    <3>1. q.by \notin to
      BY DEF messageRecipients
    <3>2. new.id = q.id /\ new.by = q.by /\ new.to = to
      BY <1>1 DEF Calls
    <3> HIDE DEF new, to
    <3> QED
      BY <1>1, <1>2, <3>1, <3>2 DEF Honest
  <2>3. \A r \in sends' : r \in sends \/ Honest(r, born')
    <3>1. Reply(q, "ok") \/ Reply(q, "bad_request") \/ sends' = (sends \ {q}) \cup {new}
      BY <1>4 DEF SendRecipients
    <3> HIDE DEF new, to
    <3> QED
      BY <1>2, <2>2, <3>1, ReplyHonest
  <2> HIDE DEF gone
  <2> QED
    BY <1>2, <2>1, <2>3, ServerDrops DEF Inv
<1>5. CASE SendBatch(q)
  <2>1. \A r \in sends' : r \in sends \/ Honest(r, born')
    BY <1>2, <1>5, ReplyHonest DEF SendBatch
  <2>2. CASE UNCHANGED <<stored, waiting>>
    BY <1>2, <2>1, <2>2, ServerStep, StoredBorn DEF Inv
  <2>3. CASE /\ stored' = Append(stored, [id |-> q.id, epoch |-> q.epoch])
             /\ waiting' = waiting \cup ({q.id} \X q.to)
    <3>1. [id |-> q.id, epoch |-> q.epoch] \in Rows /\ stored \in Seq(Rows)
      BY <1>1 DEF Calls, Rows, Inv, TypeOK
    <3>2. \A i \in DOMAIN stored' : stored'[i].id \in born'
      BY <1>1, <1>2, <2>3, <3>1, AppendRow, StoredBorn DEF Honest, Inv
    <3>3. \A w \in waiting' : w \in waiting \/ Author[w[1]] # w[2]
      BY <1>1, <2>3 DEF Honest
    <3> QED
      BY <1>2, <2>1, <3>2, <3>3, ServerStep DEF Inv
  <2> QED
    BY <1>5, <2>2, <2>3 DEF SendBatch
<1> QED
  BY <1>3, <1>4, <1>5 DEF sendMessage

\* Other ways rows leave.
LEMMA LeavingServer ==
  ASSUME Inv, \/ \E a \in acks : ackMessage(a)
              \/ PurgeDelivered \/ \E d \in Devices : Revoke(d)
  PROVE  ServerInv'
<1>1. UNCHANGED <<born, flight, sends>>
  BY DEF ackMessage, AckUpdate, AckCount, PurgeDelivered, Revoke
<1>2. waiting' \subseteq waiting
  BY DEF ackMessage, AckUpdate, AckCount, PurgeDelivered, Revoke, Drop
<1>3. UNCHANGED stored \/ \E S : stored' = Without(stored, S)
  BY DEF ackMessage, AckUpdate, AckCount, PurgeDelivered, Revoke, Drop
<1> QED
  BY <1>1, <1>2, <1>3, ServerDrops DEF Inv

LEMMA ServerStepAll == Inv /\ [Next]_vars => ServerInv'
<1> SUFFICES ASSUME Inv, [Next]_vars PROVE ServerInv'
  OBVIOUS
<1>1. born \subseteq born' /\ UNCHANGED <<stored, waiting, sends, flight>> => ServerInv'
  BY ServerElsewhere DEF Inv
<1>2. ASSUME NEW d \in Devices, User(d) PROVE ServerInv'
  BY <1>1, <1>2 DEF User, Compose, DeleteEverywhere, QueueDeletion, DeleteLocally, RetryMessage, Ack
<1>3. ASSUME NEW d \in Devices, Outbox(d) PROVE ServerInv'
  BY <1>3, FlushBeginServer, AnswersServer DEF Outbox
<1>4. ASSUME NEW d \in Devices, Sync(d) PROVE ServerInv'
  <2>1. CASE \E j \in pass[d].jobs : JobBegin(d, j) \/ JobGot(d, j) \/ JobAcked(d, j)
    BY <1>1, <2>1 DEF JobBegin, JobGot, JobAcked
  <2>2. CASE \/ SyncPoll(d) \/ LoadDeletions(d) \/ TakePending(d) \/ LoopAcked(d) \/ SyncEnd(d)
             \/ UserAcked(d)
    BY <1>1, <2>2 DEF SyncPoll, LoadDeletions, TakePending, LoopAcked, SyncEnd, UserAcked
  <2> QED
    BY <1>4, <2>1, <2>2 DEF Sync
<1>5. ASSUME NEW d \in Devices, \/ SendLost(d) \/ Reload(d) \/ Revoke(d) \/ Join(d)
                                \/ \E j \in pass[d].jobs : JobFails(d, j)
      PROVE ServerInv'
  BY <1>1, <1>5, SendLostServer, AnswersServer, LeavingServer DEF Join, JobFails
<1>6. ASSUME Sending PROVE ServerInv'
  BY <1>6, SendingServer DEF Sending
<1>7. ASSUME Acking \/ Purging PROVE ServerInv'
  BY <1>1, <1>7, LeavingServer DEF Acking, Purging, DeleteObject
<1>8. ASSUME (\E a \in acks : AckLost(a)) \/ Rotate \/ UNCHANGED vars PROVE ServerInv'
  BY <1>1, <1>8 DEF AckLost, Rotate, vars
<1> QED
  BY <1>2, <1>3, <1>4, <1>5, <1>6, <1>7, <1>8, PutStepServer DEF Next, PutStep

(***************************************************************************)
(* The sync passes.                                                        *)
(***************************************************************************)
\* Nothing of a pass fails when more is composed, registered and deleted, and the
\* history changes as the jobs know or as its user wants.
LEMMA PassKept ==
  ASSUME NEW d, NEW p, NEW h, NEW x, NEW r, NEW b, PassFits(d, p, h, x, r, b),
         NEW h2, NEW x2, NEW r2, NEW b2, x \subseteq x2, r \subseteq r2, b \subseteq b2,
         \A j \in p.jobs : \/ h2[j.id] = h[j.id] \/ h2[j.id] = j.state \/ j.id \in x2
                           \/ d \in Forgetful /\ h2[j.id] = "absent"
  PROVE  PassFits(d, p, h2, x2, r2, b2)
<1>1. \A j \in p.jobs : JobFits(d, j, p, h2, x2, r2)
  BY DEF PassFits, JobFits
<1> QED
  BY <1>1 DEF PassFits

\* A step of one device.
LEMMA PassStep ==
  ASSUME PassInv, NEW d \in Devices, born \subseteq born', seen \subseteq seen',
         \A e \in Devices \ {d} : /\ pass'[e] = pass[e] /\ local'[e] = local[e]
                                  /\ deleted'[e] = deleted[e],
         PassFits(d, pass'[d], local'[d], deleted'[d], seen', born')
  PROVE  PassInv'
<1>1. ASSUME NEW e \in Devices \ {d}
      PROVE  PassFits(e, pass'[e], local'[e], deleted'[e], seen', born')
  <2>1. PassFits(e, pass[e], local[e], deleted[e], seen, born)
    BY DEF PassInv
  <2> QED
    BY <2>1, PassKept
<1> QED
  BY <1>1 DEF PassInv

LEMMA PassElsewhere ==
  PassInv /\ born \subseteq born' /\ UNCHANGED <<pass, local, deleted, seen>> => PassInv'
<1> SUFFICES ASSUME PassInv, born \subseteq born', UNCHANGED <<pass, local, deleted, seen>>,
                    NEW d \in Devices
             PROVE  PassFits(d, pass[d], local[d], deleted[d], seen, born')
  BY DEF PassInv
<1>1. PassFits(d, pass[d], local[d], deleted[d], seen, born)
  BY DEF PassInv
<1> QED
  BY <1>1, PassKept

\* A job is never about a message of one's own.
LEMMA JobIsNotOwn ==
  ASSUME Inv, NEW d \in Devices, NEW j \in pass[d].jobs
  PROVE  Author[j.id] # d /\ j.id \in Messages /\ local[d][j.id] \in Incoming \cup {"absent"}
<1>1. j.id \in Messages /\ <<j.id, d>> \in seen
  BY JobIs DEF Inv, PassInv, PassFits, JobFits
<1>2. Author[j.id] # d
  BY <1>1 DEF Inv, HistoryInv
<1>3. Cell(d, j.id, local[d][j.id], born, seen)
  BY <1>1 DEF Inv, HistoryInv
<1> QED
  BY <1>1, <1>2, <1>3 DEF Cell

\* The user and the outbox write what is one's own, or what is deleted.
LEMMA UserPass ==
  ASSUME Inv, NEW d \in Devices, NEW m \in Messages, NEW s,
         \/ Author[m] = d \/ local[d][m] \notin Incoming \cup {"absent"}
         \/ s = "absent" /\ d \in Forgetful,
         Sets(d, m, s), born \subseteq born', UNCHANGED <<pass, deleted, seen>>
  PROVE  PassInv'
<1>1. \A e \in Devices, x \in Messages :
        local'[e][x] = IF e = d /\ x = m THEN s ELSE local[e][x]
  BY DEF Inv, TypeOK
<1>2. \A e \in Devices \ {d} : local'[e] = local[e]
  BY DEF Inv, TypeOK
<1>3. \A j \in pass[d].jobs : \/ local'[d][j.id] = local[d][j.id]
                              \/ d \in Forgetful /\ local'[d][j.id] = "absent"
  BY <1>1, JobIsNotOwn
<1>4. PassFits(d, pass[d], local[d], deleted[d], seen, born)
  BY DEF Inv, PassInv
<1>5. PassFits(d, pass[d], local'[d], deleted[d], seen, born')
  BY <1>3, <1>4, PassKept
<1> QED
  BY <1>2, <1>5, PassStep DEF Inv

LEMMA DeleteEverywherePass ==
  ASSUME Inv, NEW d \in Devices, NEW m \in Messages, DeleteEverywhere(d, m) PROVE PassInv'
<1>1. Target[m] \in Messages
  BY DEF DeleteEverywhere, Tombstones
<1>2. \A e \in Devices, x \in Messages :
        local'[e][x] = IF e = d /\ x = Target[m] THEN "absent" ELSE local[e][x]
  BY <1>1 DEF Inv, TypeOK, DeleteEverywhere
<1>3. /\ \A e \in Devices \ {d} : local'[e] = local[e] /\ deleted'[e] = deleted[e]
      /\ deleted'[d] = deleted[d] \cup {Target[m]}
      /\ born \subseteq born' /\ UNCHANGED <<seen, pass>>
  BY DEF Inv, TypeOK, DeleteEverywhere
<1>4. \A j \in pass[d].jobs : local'[d][j.id] = local[d][j.id] \/ j.id \in deleted'[d]
  BY <1>1, <1>2, <1>3, JobIsNotOwn
<1>5. PassFits(d, pass[d], local[d], deleted[d], seen, born)
  BY DEF Inv, PassInv
<1>6. PassFits(d, pass[d], local'[d], deleted'[d], seen, born')
  BY <1>3, <1>4, <1>5, PassKept
<1> QED
  BY <1>3, <1>6, PassStep DEF Inv

LEMMA UserPasses ==
  ASSUME Inv, NEW d \in Devices, User(d) \/ AnswerSaved(d) \/ UserAcked(d) PROVE PassInv'
<1>1. ASSUME NEW m \in Messages, Compose(d, m) PROVE PassInv'
  BY <1>1, UserPass DEF Compose
<1>2. ASSUME NEW m \in Messages, DeleteLocally(d, m) PROVE PassInv'
  BY <1>2, UserPass, PassElsewhere DEF DeleteLocally, Inv
<1>3. ASSUME NEW m \in Messages, RetryMessage(d, m) PROVE PassInv'
  BY <1>3, UserPass DEF RetryMessage, Incoming
<1>4. ASSUME AnswerSaved(d) PROVE PassInv'
  <2>1. PICK q \in sends : q.by = d /\ Sets(d, q.id, RowAfter(q.stage))
    BY <1>4 DEF AnswerSaved
  <2>2. q.id \in Messages /\ Author[q.id] = d
    BY <2>1 DEF Inv, ServerInv, TypeOK
  <2> QED
    BY <1>4, <2>1, <2>2, UserPass DEF AnswerSaved
<1>5. ASSUME UserAcked(d) PROVE PassInv'
  <2>1. PICK a \in acks : a.by = d /\ a.kind = "user" /\ (UNCHANGED local \/ Sets(d, a.id, "absent"))
    BY <1>5 DEF UserAcked
  <2>2. a.id \in Messages /\ d \in Forgetful
    BY <2>1 DEF Inv, AckInv, TypeOK, Acks
  <2> QED
    <3>1. UNCHANGED <<pass, deleted, born, seen>>
      BY <1>5 DEF UserAcked
    <3>2. PassInv
      BY DEF Inv
    <3> QED
      BY <2>1, <2>2, <3>1, <3>2, UserPass, PassElsewhere
<1>6. ASSUME NEW m \in Messages, QueueDeletion(d, m) PROVE PassInv'
  <2>1. Author[m] = d
    BY <1>6 DEF QueueDeletion, Inv, AskInv
  <2> QED
    BY <1>6, <2>1, UserPass DEF QueueDeletion
<1> QED
  BY <1>1, <1>2, <1>3, <1>4, <1>5, <1>6, DeleteEverywherePass DEF User

\* Polling, reading what was deleted, and ending.
LEMMA EmptyPass ==
  ASSUME NEW d, NEW h, NEW x, NEW r, NEW b
  PROVE  PassFits(d, NoPass, h, x, r, b)
<1>1. NoPass.batch = <<>> /\ NoPass.jobs = {} /\ NoPass.dels = {} /\ DOMAIN <<>> = {}
  BY DEF NoPass
<1> QED
  BY <1>1 DEF PassFits, Distinct

LEMMA PassEnds ==
  ASSUME Inv, NEW d \in Devices, SyncEnd(d) \/ Reload(d) PROVE PassInv'
<1>1. /\ pass' = [pass EXCEPT ![d] = NoPass] /\ UNCHANGED <<local, deleted, born, seen>>
  BY DEF SyncEnd, Reload
<1>2. pass'[d] = NoPass /\ \A e \in Devices \ {d} : pass'[e] = pass[e]
  BY <1>1 DEF Inv, TypeOK
<1> QED
  BY <1>1, <1>2, EmptyPass, PassStep DEF Inv

LEMMA SyncPollPass == ASSUME Inv, NEW d \in Devices, SyncPoll(d) PROVE PassInv'
<1> DEFINE K == {i \in DOMAIN stored : <<stored[i].id, d>> \in waiting}
           mine == At(stored, K)
           p == [NoPass EXCEPT !.phase = "polled", !.batch = mine]
<1>1. /\ p.batch = mine /\ p.jobs = {} /\ p.dels = {}
  BY DEF NoPass
<1>2. /\ stored \in Seq(Rows) /\ K \in SUBSET DOMAIN stored /\ Distinct(stored)
      /\ \A i \in K : stored[i].id \in born /\ Author[stored[i].id] # d
  BY StoredBorn DEF Inv, TypeOK, Distinct, ServerInv
<1>3. pass' = [pass EXCEPT ![d] = p] /\ UNCHANGED <<local, deleted, seen, born>>
  BY DEF SyncPoll
<1> HIDE DEF K
<1>4. /\ Distinct(mine)
      /\ \A k \in DOMAIN mine : mine[k].id \in born /\ Author[mine[k].id] # d
  BY <1>2, AtRows
<1> HIDE DEF mine, p
<1>5. PassFits(d, p, local'[d], deleted'[d], seen', born')
  BY <1>1, <1>3, <1>4 DEF PassFits
<1>6. pass'[d] = p /\ \A e \in Devices \ {d} : pass'[e] = pass[e]
  BY <1>3 DEF Inv, TypeOK
<1> QED
  BY <1>3, <1>5, <1>6, PassStep DEF Inv

LEMMA LoadDeletionsPass == ASSUME Inv, NEW d \in Devices, LoadDeletions(d) PROVE PassInv'
<1> DEFINE p == pass[d]
           q == pass'[d]
<1>1. p \in Passes
  BY DEF Inv, TypeOK
<1>2. /\ q = [p EXCEPT !.phase = "reading", !.dels = deleted[d]]
      /\ \A e \in Devices \ {d} : pass'[e] = pass[e]
      /\ UNCHANGED <<local, deleted, born, seen>>
  BY DEF LoadDeletions, Inv, TypeOK
<1>3. q.batch = p.batch /\ q.jobs = p.jobs /\ q.phase = "reading" /\ q.dels = deleted[d]
  BY <1>1, <1>2 DEF Passes
<1>4. PassFits(d, p, local[d], deleted[d], seen, born)
  BY DEF Inv, PassInv
<1> HIDE DEF p, q
<1>5. PassFits(d, q, local[d], deleted[d], seen, born)
  BY <1>3, <1>4 DEF PassFits, JobFits
<1> QED
  BY <1>2, <1>5, PassStep DEF Inv, q

\* Taking the first of the batch leaves a pass that fits without it.
LEMMA TailFits ==
  ASSUME NEW d, NEW p \in Passes, NEW h, NEW x, NEW r, NEW b, PassFits(d, p, h, x, r, b),
         p.batch # <<>>
  PROVE  LET done == [p EXCEPT !.batch = Tail(p.batch)] IN
         /\ done \in Passes /\ done.batch = Tail(p.batch) /\ done.jobs = p.jobs
         /\ done.phase = p.phase /\ done.dels = p.dels
         /\ PassFits(d, done, h, x, r, b)
         /\ \A i \in DOMAIN done.batch : done.batch[i].id # Head(p.batch).id
         /\ \A j \in p.jobs : j.id # Head(p.batch).id /\ j.stage = "registered"
<1> DEFINE done == [p EXCEPT !.batch = Tail(p.batch)]
<1>1. p.batch \in Seq(Rows) /\ Distinct(p.batch)
  BY DEF Passes, PassFits
<1>2. /\ 1 \in DOMAIN p.batch /\ Head(p.batch) = p.batch[1] /\ Tail(p.batch) \in Seq(Rows)
      /\ \A k \in DOMAIN Tail(p.batch) : k + 1 \in DOMAIN p.batch /\ Tail(p.batch)[k] = p.batch[k + 1]
      /\ Distinct(Tail(p.batch))
      /\ \A k \in DOMAIN Tail(p.batch) : Tail(p.batch)[k].id # Head(p.batch).id
  BY <1>1, TailRows
<1>3. /\ done \in Passes /\ done.batch = Tail(p.batch) /\ done.jobs = p.jobs
      /\ done.phase = p.phase /\ done.dels = p.dels
  BY <1>2 DEF Passes
<1> HIDE DEF done
<1>4. \A j \in p.jobs : j.id # Head(p.batch).id /\ j.stage = "registered" /\ JobFits(d, j, done, h, x, r)
  BY <1>2 DEF PassFits, JobFits
<1>5. PassFits(d, done, h, x, r, b)
  BY <1>2, <1>3, <1>4 DEF PassFits
<1> QED
  BY <1>2, <1>3, <1>4, <1>5 DEF done

LEMMA TakePendingPass == ASSUME Inv, NEW d \in Devices, TakePending(d) PROVE PassInv'
<1> DEFINE p == pass[d]
           x == Head(p.batch)
           done == [p EXCEPT !.batch = Tail(p.batch)]
           state == IF local[d][x.id] # "absent" THEN local[d][x.id]
                    ELSE IF x.id \in WithFile THEN "remote" ELSE "held"
<1>1. /\ x.id \in Messages /\ x.id \in born /\ Author[x.id] # d
      /\ x.id \in Tombstones => Target[x.id] \in Messages
  BY Takes
<1>2. /\ done.jobs = p.jobs /\ done.phase = "reading" /\ done \in Passes
      /\ PassFits(d, done, local[d], deleted[d], seen, born)
      /\ \A i \in DOMAIN done.batch : done.batch[i].id # x.id
      /\ \A j \in p.jobs : j.id # x.id
  <2>1. PassFits(d, p, local[d], deleted[d], seen, born) /\ p \in Passes
    BY DEF Inv, PassInv, TypeOK
  <2>2. p.batch # <<>> /\ p.phase = "reading"
    BY DEF TakePending
  <2> QED
    BY <2>1, <2>2, TailFits, ZenonT(90)
<1>3. born' = born
  BY DEF TakePending
<1>4. CASE /\ x.id \in Tombstones
           /\ deleted' = [deleted EXCEPT ![d] = @ \cup {Target[x.id]}]
           /\ Sets(d, Target[x.id], "absent")
           /\ pass' = [pass EXCEPT ![d] = done]
           /\ UNCHANGED seen
  <2> HIDE DEF x, done
  <2>1. \A m \in Messages : local'[d][m] = IF m = Target[x.id] THEN "absent" ELSE local[d][m]
    BY <1>1, <1>4 DEF Inv, TypeOK
  <2>2. /\ deleted'[d] = deleted[d] \cup {Target[x.id]} /\ pass'[d] = done
        /\ \A e \in Devices \ {d} : /\ pass'[e] = pass[e] /\ local'[e] = local[e]
                                    /\ deleted'[e] = deleted[e]
    BY <1>4 DEF Inv, TypeOK
  <2>3. \A j \in done.jobs : local'[d][j.id] = local[d][j.id] \/ j.id \in deleted'[d]
    BY <1>2, <2>1, <2>2, JobIsNotOwn
  <2>4. PassFits(d, done, local'[d], deleted'[d], seen', born')
    <3>1. PassFits(d, done, local[d], deleted[d], seen, born)
      BY <1>2
    <3>2. deleted[d] \subseteq deleted'[d] /\ seen \subseteq seen' /\ born \subseteq born'
      BY <1>3, <1>4, <2>2
    <3> QED
      BY <2>3, <3>1, <3>2, PassKept
  <2> QED
    BY <1>3, <1>4, <2>2, <2>4, PassStep DEF Inv
<1>5. CASE pass' = [pass EXCEPT ![d] = done] /\ UNCHANGED <<local, deleted, seen>>
  <2> HIDE DEF x, done
  <2>1. pass'[d] = done /\ \A e \in Devices \ {d} : pass'[e] = pass[e]
    BY <1>5 DEF Inv, TypeOK
  <2> QED
    BY <1>2, <1>3, <1>5, <2>1, PassStep DEF Inv
<1>6. CASE /\ x.id \notin Tombstones \cup p.dels
           /\ Sets(d, x.id, state)
           /\ pass' = [pass EXCEPT ![d] =
                [done EXCEPT !.jobs = @ \cup {Job(x, state, x.id \in acked[d])}]]
           /\ seen' = seen \cup {<<x.id, d>>}
           /\ UNCHANGED deleted
  <2> DEFINE new == Job(x, state, x.id \in acked[d])
             q == [done EXCEPT !.jobs = @ \cup {new}]
  <2>1. state \in Incoming
    BY <1>1 DEF Inv, HistoryInv, Cell, Incoming
  <2>2. new.id = x.id /\ new.state = state /\ new.stage = "registered"
    BY DEF Job
  <2> HIDE DEF x, done, state, new
  <2>3. /\ q.jobs = done.jobs \cup {new} /\ q.batch = done.batch /\ q.phase = done.phase
        /\ q.dels = done.dels
    BY <1>2 DEF Passes
  <2>4. pass' = [pass EXCEPT ![d] = q]
    BY <1>6 DEF new
  <2> HIDE DEF q
  <2>5. \A m \in Messages : local'[d][m] = IF m = x.id THEN state ELSE local[d][m]
    BY <1>1, <1>6 DEF Inv, TypeOK
  <2>6. /\ pass'[d] = q /\ \A e \in Devices \ {d} : pass'[e] = pass[e] /\ local'[e] = local[e]
    BY <1>6, <2>4 DEF Inv, TypeOK
  <2>7. PassFits(d, done, local'[d], deleted'[d], seen', born')
    <3>1. \A j \in done.jobs : local'[d][j.id] = local[d][j.id]
      BY <1>2, <2>5, JobIsNotOwn
    <3>2. PassFits(d, done, local[d], deleted[d], seen, born)
      BY <1>2
    <3>3. deleted[d] \subseteq deleted'[d] /\ seen \subseteq seen' /\ born \subseteq born'
      BY <1>3, <1>6
    <3> QED
      BY <3>1, <3>2, <3>3, PassKept
  <2>8. \A j \in done.jobs : JobFits(d, j, q, local'[d], deleted'[d], seen')
    BY <2>3, <2>7 DEF PassFits, JobFits
  <2>9. JobFits(d, new, q, local'[d], deleted'[d], seen')
    BY <1>1, <1>6, <2>1, <2>2, <2>5 DEF JobFits
  <2>10. PassFits(d, q, local'[d], deleted'[d], seen', born')
    BY <1>2, <2>2, <2>3, <2>7, <2>8, <2>9 DEF PassFits
  <2> QED
    BY <1>3, <1>6, <2>6, <2>10, PassStep DEF Inv
<1> QED
  BY <1>4, <1>5, <1>6 DEF TakePending

\* A job takes another form, or ends; only what it is about may change.
LEMMA JobStep ==
  ASSUME Inv, NEW d \in Devices, NEW j \in pass[d].jobs, NEW new, JobBecomes(d, j, new),
         \A k \in new : k.id = j.id /\ JobFits(d, k, pass[d], local'[d], deleted[d], seen),
         \A k, l \in new : k = l,
         \A m \in Messages : m = j.id \/ local'[d][m] = local[d][m],
         \A e \in Devices \ {d} : local'[e] = local[e],
         UNCHANGED <<deleted, born, seen>>
  PROVE  PassInv'
<1> DEFINE p == pass[d]
           q == [p EXCEPT !.jobs = (@ \ {j}) \cup new]
<1>1. p \in Passes
  BY DEF Inv, TypeOK
<1>2. /\ q.jobs = (p.jobs \ {j}) \cup new /\ q.batch = p.batch /\ q.phase = p.phase /\ q.dels = p.dels
  BY <1>1 DEF Passes
<1>3. pass'[d] = q /\ \A e \in Devices \ {d} : pass'[e] = pass[e]
  BY DEF JobBecomes, Inv, TypeOK
<1> HIDE DEF q
<1>4. PassFits(d, p, local[d], deleted[d], seen, born)
  BY DEF Inv, PassInv
<1>5. \A k \in p.jobs \ {j} : local'[d][k.id] = local[d][k.id] /\ k.id # j.id
  BY <1>4, JobIsNotOwn DEF PassFits
<1>6. \A k \in p.jobs \ {j} : JobFits(d, k, q, local'[d], deleted[d], seen)
  BY <1>2, <1>4, <1>5 DEF PassFits, JobFits
<1>7. \A k \in new : JobFits(d, k, q, local'[d], deleted[d], seen)
  BY <1>2 DEF JobFits
<1>8. \A k, l \in q.jobs : k.id = l.id => k = l
  BY <1>2, <1>4, <1>5 DEF PassFits
<1>9. \A k \in q.jobs : /\ JobFits(d, k, q, local'[d], deleted[d], seen)
                        /\ \A i \in DOMAIN q.batch : q.batch[i].id # k.id
  BY <1>2, <1>4, <1>6, <1>7 DEF PassFits
<1>10. PassFits(d, q, local'[d], deleted'[d], seen', born')
  BY <1>2, <1>4, <1>8, <1>9 DEF PassFits
<1> QED
  BY <1>3, <1>10, PassStep DEF Inv

\* What Upsert does to the histories.
LEMMA UpsertLocal ==
  ASSUME Inv, NEW d \in Devices, NEW k, k.id \in Messages, Upsert(d, k)
  PROVE  /\ local'[d][k.id] = k.state
         /\ \A m \in Messages : m = k.id \/ local'[d][m] = local[d][m]
         /\ \A e \in Devices \ {d} : local'[e] = local[e]
BY DEF Upsert, Inv, TypeOK

LEMMA JobPasses ==
  ASSUME Inv, NEW d \in Devices, NEW j \in pass[d].jobs,
         JobBegin(d, j) \/ JobGot(d, j) \/ JobFails(d, j) \/ JobAcked(d, j)
  PROVE  PassInv'
<1>1. j \in Jobs /\ j.id \in Messages
  BY JobIs DEF Inv
<1>2. JobFits(d, j, pass[d], local[d], deleted[d], seen)
  BY DEF Inv, PassInv, PassFits
<1>3. CASE JobBegin(d, j)
  <2> DEFINE getting == [j EXCEPT !.stage = "getting"]
             acking == [j EXCEPT !.stage = "acking"]
  <2>1. /\ getting.id = j.id /\ getting.state = j.state /\ getting.stage = "getting"
        /\ acking.id = j.id /\ acking.state = j.state /\ acking.stage = "acking"
    BY <1>1 DEF Jobs
  <2>2. UNCHANGED <<deleted, born, seen>> /\ pass[d].batch = <<>>
    BY <1>3 DEF JobBegin
  <2>3. CASE j.state = "remote" /\ Upsert(d, j) /\ JobBecomes(d, j, {getting})
    <3> HIDE DEF getting
    <3>1. JobFits(d, getting, pass[d], local'[d], deleted[d], seen)
      BY <1>1, <1>2, <2>1, <2>2, <2>3, UpsertLocal DEF JobFits
    <3> QED
      BY <1>1, <2>1, <2>2, <2>3, <3>1, UpsertLocal, JobStep
  <2>4. CASE j.state # "remote" /\ UNCHANGED local /\ JobBecomes(d, j, {acking})
    <3> HIDE DEF acking
    <3>1. JobFits(d, acking, pass[d], local'[d], deleted[d], seen)
      BY <1>2, <2>1, <2>2, <2>4 DEF JobFits
    <3> QED
      BY <2>1, <2>2, <2>4, <3>1, JobStep
  <2>5. CASE UNCHANGED local /\ JobBecomes(d, j, {})
    BY <2>2, <2>5, JobStep
  <2> QED
    BY <1>3, <2>3, <2>4, <2>5 DEF JobBegin
<1>4. CASE JobGot(d, j)
  <2> DEFINE new == [j EXCEPT !.state = IF object[j.id] = j.epoch THEN "held" ELSE "lost",
                              !.stage = "acking"]
  <2>1. new.id = j.id /\ new.state \in {"held", "lost"} /\ new.stage = "acking"
    BY <1>1 DEF Jobs
  <2>2. Upsert(d, new) /\ JobBecomes(d, j, {new}) /\ j.stage = "getting" /\ UNCHANGED <<deleted, born, seen>>
    BY <1>4 DEF JobGot
  <2> HIDE DEF new
  <2>3. JobFits(d, new, pass[d], local'[d], deleted[d], seen)
    BY <1>1, <1>2, <2>1, <2>2, UpsertLocal DEF JobFits, Incoming
  <2> QED
    BY <1>1, <2>1, <2>2, <2>3, UpsertLocal, JobStep
<1>5. CASE JobFails(d, j)
  BY <1>1, <1>5, UpsertLocal, JobStep DEF JobFails
<1>6. CASE JobAcked(d, j)
  <2> DEFINE new == [j EXCEPT !.acked = TRUE]
  <2>1. new.id = j.id
    BY <1>1 DEF Jobs
  <2>2. /\ Upsert(d, new) \/ UNCHANGED local
        /\ JobBecomes(d, j, {}) /\ UNCHANGED <<deleted, born, seen>>
    BY <1>6 DEF JobAcked
  <2> HIDE DEF new
  <2> QED
    BY <1>1, <2>1, <2>2, UpsertLocal, JobStep
<1> QED
  BY <1>3, <1>4, <1>5, <1>6

LEMMA PassStepAll == Inv /\ [Next]_vars => PassInv'
<1> SUFFICES ASSUME Inv, [Next]_vars PROVE PassInv'
  OBVIOUS
<1>1. UNCHANGED <<pass, local, deleted, born, seen>> => PassInv'
  BY PassElsewhere DEF Inv
<1>2. ASSUME NEW d \in Devices, \/ User(d) \/ Reload(d) \/ SendLost(d) \/ Revoke(d) \/ Join(d)
                                \/ \E j \in pass[d].jobs : JobFails(d, j)
      PROVE  PassInv'
  BY <1>1, <1>2, UserPasses, PassEnds, JobPasses DEF SendLost, Revoke, Join
<1>3. ASSUME NEW d \in Devices, Outbox(d) PROVE PassInv'
  BY <1>1, <1>3, UserPasses DEF Outbox, FlushBegin, SendAnswered
<1>4. ASSUME NEW d \in Devices, Sync(d) PROVE PassInv'
  BY <1>1, <1>4, SyncPollPass, LoadDeletionsPass, TakePendingPass, PassEnds, UserPasses, JobPasses
     DEF Sync, LoopAcked
<1>5. ASSUME Sending PROVE PassInv'
  BY <1>1, <1>5 DEF Sending, sendMessage, SendCheck, SendRecipients, SendBatch
<1>6. ASSUME Acking \/ Purging PROVE PassInv'
  BY <1>1, <1>6 DEF Acking, ackMessage, AckUpdate, AckCount, Purging, PurgeDelivered, DeleteObject
<1>7. ASSUME (\E a \in acks : AckLost(a)) \/ Rotate \/ UNCHANGED vars PROVE PassInv'
  BY <1>1, <1>7 DEF AckLost, Rotate, vars
<1>8. ASSUME NEW p \in puts, PutStep(p) PROVE PassInv'
  BY <1>1, <1>8, PutKeeps
<1> QED
  BY <1>2, <1>3, <1>4, <1>5, <1>6, <1>7, <1>8 DEF Next, PutStep

(***************************************************************************)
(* The acks.                                                               *)
(***************************************************************************)
\* Acks fit as long as their messages stay complete, or are forgotten.
LEMMA AckKept ==
  ASSUME NEW a, AckFits(a), seen \subseteq seen', deleted[a.by] \subseteq deleted'[a.by],
         <<a.id, a.by>> \in seen =>
           \/ local'[a.by][a.id] = local[a.by][a.id]
           \/ local'[a.by][a.id] \in {"held", "lost"}
           \/ a.id \in deleted'[a.by]
           \/ a.by \in Forgetful /\ (a.kind # "job" \/ local'[a.by][a.id] = "absent")
  PROVE  AckFits(a)'
BY DEF AckFits, Told

JobsOfAcks(A, p) ==
  \A a \in A : a.kind = "job" => \E j \in p[a.by].jobs : j.id = a.id /\ j.stage = "acking"
OneJobAck(A) ==
  \A a, b \in A : a.kind = "job" /\ b.kind = "job" /\ a.by = b.by /\ a.id = b.id => a = b

LEMMA AckIs == ASSUME TypeOK, NEW a \in acks
               PROVE  a \in Acks /\ a.by \in Devices /\ a.id \in Messages /\ <<a.id, a.by>> \in Messages \X Devices
BY DEF TypeOK, Acks

\* A step that makes no ack but those in new.
LEMMA AckStep ==
  ASSUME Inv, NEW new, acks' \subseteq acks \cup new,
         \A a \in new : AckFits(a)' /\ (a.kind = "user" => a.by \in Forgetful),
         \A a \in acks : a \in acks' => AckFits(a)',
         JobsOfAcks(acks', pass'), OneJobAck(acks')
  PROVE  AckInv'
<1>1. \A a \in acks' : AckFits(a)' /\ (a.kind = "user" => a.by \in Forgetful)
  BY DEF Inv, AckInv
<1> QED
  BY <1>1 DEF AckInv, JobsOfAcks, OneJobAck

LEMMA AckFacts ==
  Inv => /\ \A a \in acks : AckFits(a) /\ (a.kind = "user" => a.by \in Forgetful)
         /\ JobsOfAcks(acks, pass) /\ OneJobAck(acks)
BY DEF Inv, AckInv, JobsOfAcks, OneJobAck

LEMMA AckElsewhere == Inv /\ UNCHANGED <<acks, local, deleted, seen, pass>> => AckInv'
<1> SUFFICES ASSUME Inv, UNCHANGED <<acks, local, deleted, seen, pass>> PROVE AckInv'
  OBVIOUS
<1>1. \A a \in acks : AckFits(a)'
  BY AckFacts DEF AckFits, Told
<1> QED
  BY <1>1, AckFacts, AckStep DEF JobsOfAcks

(***************************************************************************)
(* Acks on their way.                                                      *)
(***************************************************************************)
\* a is the ack b, or what the Worker goes on with when nobody waits for b.
From(a, b) == a.by = b.by /\ a.id = b.id /\ (a.kind = b.kind \/ a.kind = "nobody")

LEMMA AckMoves ==
  ASSUME Inv, UNCHANGED <<local, deleted, seen, pass>>,
         \A a \in acks' : \E b \in acks : From(a, b), OneJobAck(acks')
  PROVE  AckInv'
<1>1. \A a \in acks' : AckFits(a)' /\ (a.kind = "user" => a.by \in Forgetful)
  BY AckFacts, ZenonT(90) DEF AckFits, Told, From
<1>2. JobsOfAcks(acks', pass')
  BY AckFacts DEF JobsOfAcks, From
<1> QED
  BY <1>1, <1>2, AckStep

LEMMA AckingMoves == ASSUME Inv, NEW a \in acks, ackMessage(a) PROVE AckInv'
<1>1. UNCHANGED <<local, deleted, seen, pass>>
  BY DEF ackMessage, AckUpdate, AckCount
<1>2. \E stage \in {"marked", "not_found", "ok"} : Advance(a, stage)
  BY DEF ackMessage, AckUpdate, AckCount
<1>3. PICK stage \in {"marked", "not_found", "ok"} : acks' \subseteq (acks \ {a}) \cup {[a EXCEPT !.stage = stage]}
  BY <1>2 DEF Advance
<1> DEFINE b == [a EXCEPT !.stage = stage]
<1>4. b.by = a.by /\ b.id = a.id /\ b.kind = a.kind
  BY AckIs DEF Inv, Acks
<1> HIDE DEF b
<1>5. acks' \subseteq (acks \ {a}) \cup {b}
  BY <1>3 DEF b
<1>6. \A c \in acks' : \E e \in acks : From(c, e)
  BY <1>4, <1>5 DEF From
<1>7. OneJobAck(acks')
  BY <1>4, <1>5, AckFacts DEF OneJobAck
<1> QED
  BY <1>1, <1>6, <1>7, AckMoves

LEMMA AbandonedFrom ==
  ASSUME NEW A \in SUBSET Acks PROVE \A a \in Abandoned(A) : a.kind = "nobody" /\ \E b \in A : From(a, b)
BY DEF Abandoned, From, Acks

LEMMA AckLostMoves == ASSUME Inv, NEW a \in acks, AckLost(a) PROVE AckInv'
<1>1. UNCHANGED <<local, deleted, seen, pass>>
  BY DEF AckLost
<1>2. PICK stage \in {"sent", "not_found"} :
        acks' = (acks \ {a}) \cup Abandoned({a}) \cup {[a EXCEPT !.stage = stage]}
  BY DEF AckLost
<1> DEFINE b == [a EXCEPT !.stage = stage]
<1>3. b.by = a.by /\ b.id = a.id /\ b.kind = a.kind
  BY AckIs DEF Inv, Acks
<1>4. \A c \in Abandoned({a}) : c.kind = "nobody" /\ From(c, a)
  <2>1. {a} \in SUBSET Acks
    BY AckIs DEF Inv
  <2> QED
    BY <2>1, AbandonedFrom
<1> HIDE DEF b
<1>5. acks' = (acks \ {a}) \cup Abandoned({a}) \cup {b}
  BY <1>2 DEF b
<1>6. \A c \in acks' : \E e \in acks : From(c, e)
  BY <1>3, <1>4, <1>5 DEF From
<1>7. OneJobAck(acks')
  BY <1>3, <1>4, <1>5, AckFacts DEF OneJobAck
<1> QED
  BY <1>1, <1>6, <1>7, AckMoves

LEMMA ReloadAcks == ASSUME Inv, NEW d \in Devices, Reload(d) PROVE AckInv'
<1> DEFINE gone == {a \in acks : a.by = d}
           new == Abandoned(gone)
<1>1. /\ UNCHANGED <<local, deleted, seen>>
      /\ acks' = {a \in acks : a.by # d} \cup new
      /\ \A e \in Devices \ {d} : pass'[e] = pass[e]
  BY DEF Reload, Inv, TypeOK
<1>2. \A a \in new : a.kind = "nobody" /\ \E b \in gone : From(a, b)
  <2>1. gone \in SUBSET Acks
    BY DEF Inv, TypeOK
  <2> QED
    BY <2>1, AbandonedFrom
<1> HIDE DEF new
<1>3. \A a \in new : AckFits(a)'
  BY <1>1, <1>2, AckFacts, ZenonT(90) DEF AckFits, Told, From
<1>4. \A a \in acks : AckFits(a)'
  BY <1>1, AckFacts DEF AckFits, Told
<1>5. JobsOfAcks(acks', pass')
  <2>1. \A a \in acks' : a.kind = "job" => a \in acks /\ a.by \in Devices \ {d}
    BY <1>1, <1>2, AckIs DEF Inv
  <2>2. \A a \in acks' : a.kind = "job" => pass'[a.by] = pass[a.by]
    BY <1>1, <2>1
  <2> QED
    BY <2>1, <2>2, AckFacts DEF JobsOfAcks
<1>6. OneJobAck(acks')
  BY <1>1, <1>2, AckFacts DEF OneJobAck
<1> QED
  BY <1>1, <1>2, <1>3, <1>4, <1>5, <1>6, AckStep

(***************************************************************************)
(* Acks and histories.                                                     *)
(***************************************************************************)
\* A step that writes histories.
LEMMA AckWrites ==
  ASSUME Inv, NEW new, acks' \subseteq acks \cup new, \A a \in new : a.kind # "job" /\ AckFits(a)',
         \A a \in new : a.kind = "user" => a.by \in Forgetful,
         seen \subseteq seen', \A e \in Devices : deleted[e] \subseteq deleted'[e],
         \A e \in Devices : pass[e].jobs \subseteq pass'[e].jobs,
         \A a \in acks : <<a.id, a.by>> \in seen =>
           \/ local'[a.by][a.id] = local[a.by][a.id]
           \/ local'[a.by][a.id] \in {"held", "lost"}
           \/ a.id \in deleted'[a.by]
           \/ a.by \in Forgetful /\ (a.kind # "job" \/ local'[a.by][a.id] = "absent")
  PROVE  AckInv'
<1>1. \A a \in acks : AckFits(a)'
  BY AckFacts, AckIs, AckKept DEF Inv
<1>2. \A a \in acks' : a.kind = "job" => a \in acks /\ a.by \in Devices
  BY AckIs DEF Inv
<1>3. JobsOfAcks(acks', pass')
  BY <1>2, AckFacts DEF JobsOfAcks
<1>4. OneJobAck(acks')
  BY <1>2, AckFacts DEF OneJobAck
<1> QED
  BY <1>1, <1>3, <1>4, AckStep

LEMMA AckWritesOnly ==
  ASSUME Inv, acks' \subseteq acks,
         seen \subseteq seen', \A e \in Devices : deleted[e] \subseteq deleted'[e],
         \A e \in Devices : pass[e].jobs \subseteq pass'[e].jobs,
         \A a \in acks : <<a.id, a.by>> \in seen =>
           \/ local'[a.by][a.id] = local[a.by][a.id]
           \/ local'[a.by][a.id] \in {"held", "lost"}
           \/ a.id \in deleted'[a.by]
           \/ a.by \in Forgetful /\ (a.kind # "job" \/ local'[a.by][a.id] = "absent")
  PROVE  AckInv'
<1>1. PICK new : new = {}
  OBVIOUS
<1>2. /\ acks' \subseteq acks \cup new
      /\ \A a \in new : a.kind # "job" /\ AckFits(a)'
      /\ \A a \in new : a.kind = "user" => a.by \in Forgetful
  BY <1>1
<1> QED
  BY <1>2, AckWrites

\* One's own messages, and what a Forgetful user deletes.
LEMMA OwnWrites ==
  ASSUME Inv, NEW d \in Devices, NEW m \in Messages, NEW s, Sets(d, m, s),
         \/ Author[m] = d \/ local[d][m] \notin Incoming \cup {"absent"}
         \/ s = "absent" /\ d \in Forgetful,
         acks' \subseteq acks, UNCHANGED <<pass, deleted, seen>>
  PROVE  AckInv'
<1>1. \A e \in Devices, x \in Messages :
        local'[e][x] = IF e = d /\ x = m THEN s ELSE local[e][x]
  BY DEF Inv, TypeOK
<1>2. ASSUME NEW a \in acks, <<a.id, a.by>> \in seen
      PROVE  \/ local'[a.by][a.id] = local[a.by][a.id]
             \/ a.by \in Forgetful /\ local'[a.by][a.id] = "absent"
  <2>1. Author[a.id] # a.by /\ a.id \in Messages /\ a.by \in Devices
    BY <1>2, AckIs DEF Inv, HistoryInv
  <2>2. local[a.by][a.id] \in Incoming \cup {"absent"}
    BY <2>1 DEF Inv, HistoryInv, Cell
  <2> QED
    BY <1>1, <2>1, <2>2
<1> QED
  BY <1>2, AckWritesOnly

LEMMA DeleteEverywhereAcks ==
  ASSUME Inv, NEW d \in Devices, NEW m \in Messages, DeleteEverywhere(d, m) PROVE AckInv'
<1>1. Target[m] \in Messages
  BY DEF DeleteEverywhere, Tombstones
<1>2. \A e \in Devices, x \in Messages :
        local'[e][x] = IF e = d /\ x = Target[m] THEN "absent" ELSE local[e][x]
  BY <1>1 DEF Inv, TypeOK, DeleteEverywhere
<1>3. /\ \A e \in Devices : deleted[e] \subseteq deleted'[e]
      /\ Target[m] \in deleted'[d]
      /\ UNCHANGED <<seen, pass, acks>>
  BY DEF Inv, TypeOK, DeleteEverywhere
<1>4. ASSUME NEW a \in acks, <<a.id, a.by>> \in seen
      PROVE  local'[a.by][a.id] = local[a.by][a.id] \/ a.id \in deleted'[a.by]
  <2>1. Author[a.id] # a.by /\ a.id \in Messages /\ a.by \in Devices
    BY <1>4, AckIs DEF Inv, HistoryInv
  <2> QED
    BY <1>1, <1>2, <1>3, <2>1
<1> QED
  BY <1>3, <1>4, AckWritesOnly

LEMMA DeleteLocallyAcks ==
  ASSUME Inv, NEW d \in Devices, NEW m \in Messages, DeleteLocally(d, m) PROVE AckInv'
<1>1. CASE /\ local[d][m] \in Incoming /\ Ack(d, m, "user") /\ UNCHANGED <<local, acked>>
  <2> DEFINE a == [by |-> d, id |-> m, kind |-> "user", stage |-> "sent"]
  <2>1. acks' \subseteq acks \cup {a} /\ UNCHANGED <<pass, deleted, seen, local>>
    BY <1>1 DEF DeleteLocally, Ack
  <2>2. a.by = d /\ a.id = m /\ a.kind = "user" /\ d \in Forgetful
    BY DEF DeleteLocally
  <2>3. <<m, d>> \in seen
    BY <1>1 DEF Inv, HistoryInv, Cell
  <2>4. \A b \in {a} : b.kind # "job" /\ AckFits(b)'
    BY <2>1, <2>2, <2>3 DEF AckFits
  <2> HIDE DEF a
  <2> QED
    BY <2>1, <2>2, <2>4, AckWrites, ZenonT(90)
<1>2. CASE Sets(d, m, "absent") /\ UNCHANGED acks
  BY <1>2, OwnWrites DEF DeleteLocally
<1> QED
  BY <1>1, <1>2 DEF DeleteLocally

LEMMA UserAcks ==
  ASSUME Inv, NEW d \in Devices, User(d) \/ AnswerSaved(d) \/ UserAcked(d) PROVE AckInv'
<1>1. ASSUME NEW m \in Messages, Compose(d, m) PROVE AckInv'
  BY <1>1, OwnWrites DEF Compose
<1>2. ASSUME NEW m \in Messages, RetryMessage(d, m) PROVE AckInv'
  BY <1>2, OwnWrites DEF RetryMessage, Incoming
<1>3. ASSUME AnswerSaved(d) PROVE AckInv'
  <2>1. PICK q \in sends : q.by = d /\ Sets(d, q.id, RowAfter(q.stage))
    BY <1>3 DEF AnswerSaved
  <2>2. q.id \in Messages /\ Author[q.id] = d
    BY <2>1 DEF Inv, ServerInv, TypeOK
  <2> QED
    BY <1>3, <2>1, <2>2, OwnWrites DEF AnswerSaved
<1>4. ASSUME UserAcked(d) PROVE AckInv'
  <2>1. PICK a \in acks : /\ a.by = d /\ a.kind = "user" /\ (UNCHANGED local \/ Sets(d, a.id, "absent"))
                          /\ acks' = acks \ {a}
    BY <1>4 DEF UserAcked
  <2>2. a.id \in Messages /\ d \in Forgetful
    BY <2>1 DEF Inv, AckInv, TypeOK, Acks
  <2>3. CASE UNCHANGED local
    BY <1>4, <2>1, <2>3, AckWritesOnly DEF UserAcked
  <2>4. CASE Sets(d, a.id, "absent")
    BY <1>4, <2>1, <2>2, <2>4, OwnWrites DEF UserAcked
  <2> QED
    BY <2>1, <2>3, <2>4
<1>5. ASSUME NEW m \in Messages, QueueDeletion(d, m) PROVE AckInv'
  <2>1. Author[m] = d
    BY <1>5 DEF QueueDeletion, Inv, AskInv
  <2> QED
    BY <1>5, <2>1, OwnWrites DEF QueueDeletion
<1> QED
  BY <1>1, <1>2, <1>3, <1>4, <1>5, DeleteEverywhereAcks, DeleteLocallyAcks DEF User

\* A pass begins or ends when no job waits for an ack.
LEMMA PassAcks ==
  ASSUME Inv, NEW d \in Devices, SyncPoll(d) \/ LoadDeletions(d) \/ LoopAcked(d) \/ SyncEnd(d)
  PROVE  AckInv'
<1>1. UNCHANGED <<local, deleted, seen>> /\ acks' \subseteq acks
  BY DEF SyncPoll, LoadDeletions, LoopAcked, SyncEnd
<1>2. \A e \in Devices : pass[e].jobs \subseteq pass'[e].jobs
  <2>1. pass[d] \in Passes
    BY DEF Inv, TypeOK
  <2>2. pass[d].phase = "idle" => pass[d].jobs = {}
    BY DEF Inv, PassInv, PassFits
  <2>3. \A e \in Devices \ {d} : pass'[e] = pass[e]
    BY DEF SyncPoll, LoadDeletions, LoopAcked, SyncEnd, Inv, TypeOK
  <2>4. pass[d].jobs \subseteq pass'[d].jobs
    <3>1. CASE pass[d].jobs = {}
      BY <3>1
    <3>2. CASE LoadDeletions(d)
      <4>1. pass'[d] = [pass[d] EXCEPT !.phase = "reading", !.dels = deleted[d]]
        BY <3>2 DEF LoadDeletions, Inv, TypeOK
      <4> QED
        BY <2>1, <4>1 DEF Passes
    <3>3. CASE LoopAcked(d)
      BY <3>3 DEF LoopAcked
    <3> QED
      BY <2>2, <3>1, <3>2, <3>3 DEF SyncPoll, SyncEnd
  <2> QED
    BY <2>3, <2>4
<1> QED
  BY <1>1, <1>2, AckWritesOnly

LEMMA TakePendingAcks == ASSUME Inv, NEW d \in Devices, TakePending(d) PROVE AckInv'
<1> DEFINE p == pass[d]
           x == Head(p.batch)
           done == [p EXCEPT !.batch = Tail(p.batch)]
           state == IF local[d][x.id] # "absent" THEN local[d][x.id]
                    ELSE IF x.id \in WithFile THEN "remote" ELSE "held"
           a == [by |-> d, id |-> x.id, kind |-> "loop", stage |-> "sent"]
<1>1. /\ x.id \in Messages /\ \A j \in p.jobs : j.id # x.id
      /\ x.id \in Tombstones => Target[x.id] \in Messages
  BY Takes
<1>2. done.jobs = p.jobs /\ done \in Passes /\ PassFits(d, p, local[d], deleted[d], seen, born)
  <2>1. PassFits(d, p, local[d], deleted[d], seen, born) /\ p \in Passes
    BY DEF Inv, PassInv, TypeOK
  <2>2. p.batch # <<>>
    BY DEF TakePending
  <2> QED
    BY <2>1, <2>2, TailFits
<1>3. a.by = d /\ a.id = x.id /\ a.kind = "loop"
  OBVIOUS
<1>4. CASE /\ x.id \in Tombstones
           /\ deleted' = [deleted EXCEPT ![d] = @ \cup {Target[x.id]}]
           /\ Sets(d, Target[x.id], "absent")
           /\ acks' = acks \cup {a}
           /\ pass' = [pass EXCEPT ![d] = done]
           /\ UNCHANGED seen
  <2> PICK y : y = x.id
    OBVIOUS
  <2> PICK b : b = a
    OBVIOUS
  <2> HIDE DEF x, done, a
  <2>1. \A e \in Devices, m \in Messages :
          local'[e][m] = IF e = d /\ m = Target[y] THEN "absent" ELSE local[e][m]
    BY <1>1, <1>4 DEF Inv, TypeOK
  <2>2. /\ Target[y] \in deleted'[d] /\ \A e \in Devices : deleted[e] \subseteq deleted'[e]
        /\ \A e \in Devices : pass[e].jobs \subseteq pass'[e].jobs
    BY <1>2, <1>4 DEF Inv, TypeOK
  <2>3. AckFits(b)'
    BY <1>3, <1>4, <2>2 DEF AckFits, Told
  <2>4. ASSUME NEW c \in acks
        PROVE  local'[c.by][c.id] = local[c.by][c.id] \/ c.id \in deleted'[c.by]
    <3>1. c.by \in Devices /\ c.id \in Messages
      BY AckIs DEF Inv
    <3> QED
      BY <2>1, <2>2, <3>1
  <2> PICK new : new = {b}
    OBVIOUS
  <2>5. /\ acks' \subseteq acks \cup new /\ \A c \in new : c.kind # "job" /\ AckFits(c)'
        /\ \A c \in new : c.kind = "user" => c.by \in Forgetful
    BY <1>3, <1>4, <2>3
  <2>6. seen \subseteq seen'
    BY <1>4
  <2> QED
    BY <2>2, <2>4, <2>5, <2>6, AckWrites
<1>5. CASE /\ x.id \in p.dels /\ acks' = acks \cup {a}
           /\ pass' = [pass EXCEPT ![d] = done]
           /\ UNCHANGED <<local, deleted, seen>>
  <2> PICK b : b = a
    OBVIOUS
  <2> HIDE DEF x, done, a
  <2>1. x.id \in deleted[d]
    BY <1>2, <1>5 DEF PassFits
  <2>2. AckFits(b)'
    BY <1>3, <1>5, <2>1 DEF AckFits, Told
  <2>3. \A e \in Devices : pass[e].jobs \subseteq pass'[e].jobs
    BY <1>2, <1>5 DEF Inv, TypeOK
  <2> PICK new : new = {b}
    OBVIOUS
  <2>4. /\ acks' \subseteq acks \cup new /\ \A c \in new : c.kind # "job" /\ AckFits(c)'
        /\ \A c \in new : c.kind = "user" => c.by \in Forgetful
    BY <1>3, <1>5, <2>2
  <2> QED
    BY <1>5, <2>3, <2>4, AckWrites
<1>6. CASE /\ Sets(d, x.id, state)
           /\ pass' = [pass EXCEPT ![d] =
                [done EXCEPT !.jobs = @ \cup {Job(x, state, x.id \in acked[d])}]]
           /\ seen' = seen \cup {<<x.id, d>>}
           /\ UNCHANGED <<deleted, acks>>
  <2> DEFINE new == Job(x, state, x.id \in acked[d])
             q == [done EXCEPT !.jobs = @ \cup {new}]
  <2>1. local[d][x.id] # "absent" => state = local[d][x.id]
    OBVIOUS
  <2>2. pass' = [pass EXCEPT ![d] = q]
    BY <1>6
  <2> HIDE DEF x, done, state, new
  <2>3. q.jobs = p.jobs \cup {new}
    BY <1>2 DEF Passes
  <2> HIDE DEF q
  <2>4. \A e \in Devices : pass[e].jobs \subseteq pass'[e].jobs
    BY <2>2, <2>3 DEF Inv, TypeOK
  <2>5. \A e \in Devices, m \in Messages :
          local'[e][m] = IF e = d /\ m = x.id THEN state ELSE local[e][m]
    BY <1>1, <1>6 DEF Inv, TypeOK
  <2>6. ASSUME NEW c \in acks, AckFits(c) PROVE AckFits(c)'
    <3>1. c.by \in Devices /\ c.id \in Messages
      BY AckIs DEF Inv
    <3>2. CASE local'[c.by][c.id] = local[c.by][c.id]
      BY <1>6, <2>6, <3>2 DEF AckFits, Told
    <3>3. CASE c.by = d /\ c.id = x.id /\ local[d][x.id] = "absent"
      <4>1. c.kind # "job"
        BY <1>1, <3>3, AckFacts DEF JobsOfAcks
      <4> QED
        BY <1>6, <2>6, <3>3, <4>1 DEF AckFits, Told
    <3> QED
      BY <2>1, <2>5, <3>1, <3>2, <3>3
  <2>7. \A c \in acks : AckFits(c)'
    BY <2>6, AckFacts
  <2>8. JobsOfAcks(acks', pass')
    BY <1>6, <2>4, AckFacts, AckIs DEF JobsOfAcks, Inv
  <2> QED
    BY <1>6, <2>7, <2>8, AckFacts, AckStep
<1> QED
  BY <1>4, <1>5, <1>6 DEF TakePending, Ack

\* The acks a step makes are in new.
Makes(new) == acks' \subseteq acks \cup new

\* A job takes another form, or ends: its ack is new, or is the one that came back.
LEMMA JobAckStep ==
  ASSUME Inv, NEW d \in Devices, NEW j \in pass[d].jobs, NEW new, JobBecomes(d, j, new),
         NEW made, Makes(made),
         \A a \in made : a.kind = "job" /\ a.by = d /\ a.id = j.id /\ AckFits(a)',
         made = {} \/ \E k \in new : k.id = j.id /\ k.stage = "acking",
         \A a, b \in made : a = b,
         j.stage = "acking" => /\ made = {}
                               /\ \A a \in acks' : a.kind = "job" /\ a.by = d => a.id # j.id,
         \A a \in acks : AckFits(a)'
  PROVE  AckInv'
<1>1. /\ \A e \in Devices \ {d} : pass'[e].jobs = pass[e].jobs
      /\ pass'[d].jobs = (pass[d].jobs \ {j}) \cup new
  <2>1. pass'[d] = [pass[d] EXCEPT !.jobs = (@ \ {j}) \cup new] /\ pass[d] \in Passes
    BY DEF JobBecomes, Inv, TypeOK
  <2>2. \A e \in Devices \ {d} : pass'[e] = pass[e]
    BY DEF JobBecomes, Inv, TypeOK
  <2> QED
    BY <2>1, <2>2 DEF Passes
<1>2. ASSUME NEW a \in acks, a.kind = "job", a \in acks'
      PROVE  /\ \E k \in pass'[a.by].jobs : k.id = a.id /\ k.stage = "acking"
             /\ a.by = d /\ a.id = j.id => j.stage = "acking"
  <2>1. PICK k \in pass[a.by].jobs : k.id = a.id /\ k.stage = "acking"
    BY <1>2, AckFacts DEF JobsOfAcks
  <2>2. a.by = d /\ a.id = j.id => k = j
    BY <2>1 DEF Inv, PassInv, PassFits
  <2>3. a.by \in Devices
    BY AckIs DEF Inv
  <2> QED
    BY <1>1, <1>2, <2>1, <2>2, <2>3
<1>3. JobsOfAcks(acks', pass')
  BY <1>1, <1>2 DEF JobsOfAcks, Makes
<1>4. OneJobAck(acks')
  BY <1>2, AckFacts DEF OneJobAck, Makes
<1> QED
  BY <1>3, <1>4, AckStep DEF Makes

\* What a job writes of what it knows takes nothing from an ack.
LEMMA UpsertAcks ==
  ASSUME Inv, NEW d \in Devices, NEW j \in pass[d].jobs, NEW k, k.id = j.id,
         k.state = j.state \/ k.state \in {"held", "lost"}, Upsert(d, k), UNCHANGED <<deleted, seen>>
  PROVE  \A a \in acks : AckFits(a)'
<1> TAKE a \in acks
<1>1. AckFits(a) /\ a.by \in Devices /\ a.id \in Messages
  BY AckFacts, AckIs DEF Inv
<1>2. j.id \in Messages /\ JobFits(d, j, pass[d], local[d], deleted[d], seen)
  BY JobIs DEF Inv, PassInv, PassFits
<1>3. /\ local'[d][j.id] = k.state
      /\ \A m \in Messages : m = j.id \/ local'[d][m] = local[d][m]
      /\ \A e \in Devices \ {d} : local'[e] = local[e]
  BY <1>2, UpsertLocal
<1>4. CASE a.by # d \/ a.id # j.id
  BY <1>1, <1>3, <1>4, AckKept
<1>5. CASE a.by = d /\ a.id = j.id /\ k.state \in {"held", "lost"}
  BY <1>1, <1>3, <1>5, AckKept
<1>6. CASE a.by = d /\ a.id = j.id /\ k.state \notin {"held", "lost"} /\ k.state = j.state
  <2>1. a.kind # "job"
    <3> SUFFICES ASSUME a.kind = "job" PROVE FALSE
      OBVIOUS
    <3>1. PICK l \in pass[d].jobs : l.id = j.id /\ l.stage = "acking"
      BY <1>6, AckFacts DEF JobsOfAcks
    <3>2. l = j
      BY <3>1 DEF Inv, PassInv, PassFits
    <3> QED
      BY <1>2, <1>6, <3>1, <3>2 DEF JobFits, Incoming
  <2>2. \/ j.id \in deleted[d] \/ local[d][j.id] = j.state
        \/ d \in Forgetful
    BY <1>2 DEF JobFits
  <2> QED
    BY <1>1, <1>3, <1>6, <2>1, <2>2, AckKept
<1> QED
  BY <1>4, <1>5, <1>6

\* A job that asks for its ack.
LEMMA JobAsks ==
  ASSUME Inv, NEW d \in Devices, NEW j \in pass[d].jobs, NEW k, JobBecomes(d, j, {k}),
         k.id = j.id, k.stage = "acking", j.stage # "acking",
         NEW a, a.kind = "job", a.by = d, a.id = j.id, AckFits(a)', acks' \subseteq acks \cup {a},
         \A b \in acks : AckFits(b)'
  PROVE  AckInv'
<1> PICK new : new = {k}
  OBVIOUS
<1> PICK made : made = {a}
  OBVIOUS
<1>1. JobBecomes(d, j, new) /\ Makes(made)
  BY DEF Makes
<1>2. /\ \A b \in made : b.kind = "job" /\ b.by = d /\ b.id = j.id /\ AckFits(b)'
      /\ made = {} \/ \E l \in new : l.id = j.id /\ l.stage = "acking"
  OBVIOUS
<1>3. \A b, c \in made : b = c
  OBVIOUS
<1> QED
  BY <1>1, <1>2, <1>3, JobAckStep

LEMMA JobAcks ==
  ASSUME Inv, NEW d \in Devices, NEW j \in pass[d].jobs,
         JobBegin(d, j) \/ JobGot(d, j) \/ JobFails(d, j) \/ JobAcked(d, j)
  PROVE  AckInv'
<1>1. j \in Jobs /\ j.id \in Messages
  BY JobIs DEF Inv
<1>2. JobFits(d, j, pass[d], local[d], deleted[d], seen)
  BY DEF Inv, PassInv, PassFits
<1> DEFINE a == [by |-> d, id |-> j.id, kind |-> "job", stage |-> "sent"]
           acking == [j EXCEPT !.stage = "acking"]
<1>3. /\ acking.id = j.id /\ acking.stage = "acking"
      /\ a.by = d /\ a.id = j.id /\ a.kind = "job"
  BY <1>1 DEF Jobs
<1> PICK none : none = {}
  OBVIOUS
<1> HIDE DEF a, acking
<1>4. UNCHANGED <<deleted, seen>>
  BY DEF JobBegin, JobGot, JobFails, JobAcked
\* A job that ends, or goes on, without an ack of its own.
<1>5. ASSUME NEW new, JobBecomes(d, j, new), acks' \subseteq acks, \A b \in acks : AckFits(b)',
             j.stage = "acking" => \A b \in acks' : b.kind = "job" /\ b.by = d => b.id # j.id
      PROVE  AckInv'
  <2>1. /\ Makes(none) /\ \A b, c \in none : b = c
        /\ \A b \in none : b.kind = "job" /\ b.by = d /\ b.id = j.id /\ AckFits(b)'
        /\ none = {} \/ \E k \in new : k.id = j.id /\ k.stage = "acking"
    BY <1>5 DEF Makes
  <2>2. j.stage = "acking" => /\ none = {}
                              /\ \A b \in acks' : b.kind = "job" /\ b.by = d => b.id # j.id
    BY <1>5
  <2>3. JobBecomes(d, j, new) /\ \A b \in acks : AckFits(b)'
    BY <1>5
  <2> QED
    BY <2>1, <2>2, <2>3, JobAckStep
\* A job that asks for its ack.
<1>6. ASSUME NEW new, JobBecomes(d, j, {new}), new.id = j.id, new.stage = "acking",
             acks' \subseteq acks \cup {a}, j.stage # "acking", AckFits(a)',
             \A b \in acks : AckFits(b)'
      PROVE  AckInv'
  BY <1>3, <1>6, JobAsks DEF a
<1>7. \A b \in acks : UNCHANGED local => AckFits(b)'
  BY <1>4, AckFacts DEF AckFits, Told
<1>8. CASE JobBegin(d, j)
  <2>1. j.stage = "registered"
    BY <1>8 DEF JobBegin
  <2>2. CASE UNCHANGED <<local, acks>> /\ JobBecomes(d, j, {})
    BY <1>5, <1>7, <2>1, <2>2
  <2>3. CASE Upsert(d, j) /\ UNCHANGED acks /\ JobBecomes(d, j, {[j EXCEPT !.stage = "getting"]})
    <3>1. \A b \in acks : AckFits(b)'
      BY <1>4, <2>3, UpsertAcks
    <3> QED
      BY <1>5, <2>1, <2>3, <3>1
  <2>4. CASE j.state # "remote" /\ Ack(d, j.id, "job") /\ UNCHANGED local /\ JobBecomes(d, j, {acking})
    <3>1. AckFits(a)'
      BY <1>2, <1>3, <1>4, <2>4 DEF AckFits, Told, JobFits, Incoming, a
    <3>2. acks' \subseteq acks \cup {a}
      BY <2>4 DEF Ack, a
    <3> QED
      BY <1>3, <1>6, <1>7, <2>1, <2>4, <3>1, <3>2
  <2> QED
    BY <1>8, <2>2, <2>3, <2>4 DEF JobBegin, acking
<1>9. CASE JobGot(d, j)
  <2> DEFINE new == [j EXCEPT !.state = IF object[j.id] = j.epoch THEN "held" ELSE "lost",
                              !.stage = "acking"]
  <2>1. new.id = j.id /\ new.state \in {"held", "lost"} /\ new.stage = "acking"
    BY <1>1 DEF Jobs
  <2>2. Upsert(d, new) /\ JobBecomes(d, j, {new}) /\ Ack(d, j.id, "job") /\ j.stage = "getting"
    BY <1>9 DEF JobGot
  <2> HIDE DEF new
  <2>3. \A b \in acks : AckFits(b)'
    BY <1>4, <2>1, <2>2, UpsertAcks
  <2>4. local'[d][j.id] \in {"held", "lost"} /\ <<j.id, d>> \in seen'
    BY <1>1, <1>2, <1>4, <2>1, <2>2, UpsertLocal DEF JobFits
  <2>5. AckFits(a)'
    BY <2>4 DEF AckFits, a
  <2>6. acks' \subseteq acks \cup {a}
    BY <2>2 DEF Ack, a
  <2> QED
    BY <1>6, <2>1, <2>2, <2>3, <2>5, <2>6
<1>10. CASE JobFails(d, j)
  <2>1. \A b \in acks : AckFits(b)'
    BY <1>4, <1>10, UpsertAcks DEF JobFails
  <2> QED
    BY <1>5, <1>10, <2>1 DEF JobFails
<1>11. CASE JobAcked(d, j)
  <2> DEFINE new == [j EXCEPT !.acked = TRUE]
  <2>1. new.id = j.id /\ new.state = j.state
    BY <1>1 DEF Jobs
  <2>2. PICK b \in acks : /\ b.by = d /\ b.id = j.id /\ b.kind = "job" /\ acks' = acks \ {b}
                          /\ Upsert(d, new) \/ UNCHANGED local
    BY <1>11 DEF JobAcked
  <2> HIDE DEF new
  <2>3. \A c \in acks : AckFits(c)'
    BY <1>4, <1>7, <2>1, <2>2, UpsertAcks
  <2>4. \A c \in acks' : c.kind = "job" /\ c.by = d => c.id # j.id
    BY <2>2, AckFacts DEF OneJobAck
  <2> QED
    BY <1>5, <1>11, <2>2, <2>3, <2>4 DEF JobAcked
<1> QED
  BY <1>8, <1>9, <1>10, <1>11

LEMMA AckStepAll == Inv /\ [Next]_vars => AckInv'
<1> SUFFICES ASSUME Inv, [Next]_vars PROVE AckInv'
  OBVIOUS
<1>1. UNCHANGED <<acks, pass, local, deleted, seen>> => AckInv'
  BY AckElsewhere
<1>2. ASSUME NEW d \in Devices, \/ User(d) \/ Reload(d) \/ SendLost(d) \/ Revoke(d) \/ Join(d)
                                \/ \E j \in pass[d].jobs : JobFails(d, j)
      PROVE  AckInv'
  BY <1>1, <1>2, UserAcks, ReloadAcks, JobAcks DEF SendLost, Revoke, Join
<1>3. ASSUME NEW d \in Devices, Outbox(d) PROVE AckInv'
  BY <1>1, <1>3, UserAcks DEF Outbox, FlushBegin, SendAnswered
<1>4. ASSUME NEW d \in Devices, Sync(d) PROVE AckInv'
  BY <1>4, PassAcks, TakePendingAcks, UserAcks, JobAcks DEF Sync
<1>5. ASSUME Sending PROVE AckInv'
  BY <1>1, <1>5 DEF Sending, sendMessage, SendCheck, SendRecipients, SendBatch
<1>6. ASSUME Acking PROVE AckInv'
  BY <1>6, AckingMoves DEF Acking
<1>7. ASSUME Purging \/ Rotate \/ UNCHANGED vars PROVE AckInv'
  BY <1>1, <1>7 DEF Purging, PurgeDelivered, DeleteObject, Rotate, vars
<1>8. ASSUME NEW p \in puts, PutStep(p) PROVE AckInv'
  BY <1>1, <1>8, PutKeeps
<1> QED
  BY <1>2, <1>3, <1>4, <1>5, <1>6, <1>7, <1>8, AckLostMoves DEF Next, PutStep

(***************************************************************************)
(* What leaves the delivery rows.                                          *)
(***************************************************************************)
\* An ack is out for what is settled; whoever sent it was offered the message, unless
\* it is a tombstone or was retracted.
LEMMA AckSettles ==
  ASSUME Inv, NEW a \in acks
  PROVE  /\ Settled(a.id, a.by)
         /\ <<a.id, a.by>> \in seen \/ a.id \in Tombstones \/ Retracted(a.id)
<1>1. AckFits(a) /\ a.by \in Devices /\ a.id \in Messages
  BY AckFacts, AckIs DEF Inv
<1>2. CASE Told(a.by, a.id)
  BY <1>1, <1>2 DEF Told, Settled, Inv, HistoryInv
<1>3. CASE /\ <<a.id, a.by>> \in seen
           /\ \/ local[a.by][a.id] \in {"held", "lost"}
              \/ a.by \in Forgetful /\ (a.kind # "job" \/ local[a.by][a.id] = "absent")
  BY <1>3 DEF Settled
<1> QED
  BY <1>1, <1>2, <1>3 DEF AckFits

\* The row w left for a reason.
Leaves(w) ==
  \/ status'[w[2]] # "active"
  \/ Settled(w[1], w[2]) /\ (w \in seen \/ w[1] \in Tombstones \/ Retracted(w[1]))

LEMMA Leaving == Inv /\ [Next]_vars => \A w \in waiting \ waiting' : Leaves(w)
<1> SUFFICES ASSUME Inv, [Next]_vars PROVE \A w \in waiting \ waiting' : Leaves(w)
  OBVIOUS
<1>1. waiting' = waiting => \A w \in waiting \ waiting' : Leaves(w)
  OBVIOUS
<1>2. ASSUME NEW q \in sends, SendRecipients(q) PROVE \A w \in waiting \ waiting' : Leaves(w)
  <2> SUFFICES ASSUME NEW w \in waiting \ waiting' PROVE Leaves(w)
    OBVIOUS
  <2>1. w[1] = Target[q.id]
    BY <1>2 DEF SendRecipients
  <2>2. q.id \in born
    BY DEF Inv, ServerInv
  <2>3. Retracted(w[1])
    BY <2>1, <2>2 DEF Retracted
  <2> QED
    BY <2>3 DEF Leaves, Settled
<1>3. ASSUME NEW q \in sends, SendCheck(q) \/ SendBatch(q)
      PROVE  \A w \in waiting \ waiting' : Leaves(w)
  BY <1>3 DEF SendCheck, SendBatch
<1>4. ASSUME NEW a \in acks, AckUpdate(a) PROVE \A w \in waiting \ waiting' : Leaves(w)
  <2> SUFFICES ASSUME NEW w \in waiting \ waiting' PROVE Leaves(w)
    OBVIOUS
  <2>1. w = <<a.id, a.by>>
    BY <1>4 DEF AckUpdate
  <2> QED
    BY <2>1, AckSettles DEF Leaves
<1>5. ASSUME NEW a \in acks, AckCount(a) PROVE \A w \in waiting \ waiting' : Leaves(w)
  BY <1>5 DEF AckCount, Drop
<1>6. ASSUME PurgeDelivered PROVE \A w \in waiting \ waiting' : Leaves(w)
  BY <1>6 DEF PurgeDelivered, Drop
<1>7. ASSUME NEW d \in Devices, Revoke(d) PROVE \A w \in waiting \ waiting' : Leaves(w)
  BY <1>7 DEF Revoke, Leaves, Inv, TypeOK
<1>8. ASSUME NEW d \in Devices, User(d) \/ Outbox(d)
      PROVE  \A w \in waiting \ waiting' : Leaves(w)
  BY <1>1, <1>8 DEF User, Compose, DeleteEverywhere, QueueDeletion, DeleteLocally, RetryMessage,
     Outbox, FlushBegin, SendAnswered, AnswerSaved
<1>9. ASSUME NEW d \in Devices, Sync(d) PROVE \A w \in waiting \ waiting' : Leaves(w)
  <2>1. CASE \E j \in pass[d].jobs : JobBegin(d, j) \/ JobGot(d, j) \/ JobAcked(d, j)
    BY <1>1, <2>1 DEF JobBegin, JobGot, JobAcked
  <2>2. CASE \/ SyncPoll(d) \/ LoadDeletions(d) \/ TakePending(d) \/ LoopAcked(d) \/ SyncEnd(d)
             \/ UserAcked(d)
    BY <1>1, <2>2 DEF SyncPoll, LoadDeletions, TakePending, LoopAcked, SyncEnd, UserAcked
  <2> QED
    BY <1>9, <2>1, <2>2 DEF Sync
<1>10. ASSUME NEW d \in Devices, \/ SendLost(d) \/ Reload(d) \/ Join(d)
                                 \/ \E j \in pass[d].jobs : JobFails(d, j)
       PROVE \A w \in waiting \ waiting' : Leaves(w)
  BY <1>1, <1>10 DEF SendLost, Reload, Join, JobFails
<1>11. ASSUME \/ \E a \in acks : AckLost(a)
              \/ \E m \in Messages : DeleteObject(m)
              \/ Rotate \/ UNCHANGED vars
       PROVE  \A w \in waiting \ waiting' : Leaves(w)
  BY <1>1, <1>11 DEF AckLost, DeleteObject, Rotate, vars
<1>12. ASSUME NEW p \in puts, PutStep(p) PROVE \A w \in waiting \ waiting' : Leaves(w)
  BY <1>1, <1>12, PutKeeps
<1> QED
  BY <1>2, <1>3, <1>4, <1>5, <1>6, <1>7, <1>8, <1>9, <1>10, <1>11, <1>12
     DEF Next, PutStep, Sending, sendMessage, Acking, ackMessage, Purging

(***************************************************************************)
(* Who gets a message.                                                     *)
(***************************************************************************)
\* What was composed or registered stays so, and a founder comes only once.
LEMMA Growing ==
  ASSUME Inv, [Next]_vars
  PROVE  /\ born \subseteq born' /\ seen \subseteq seen'
         /\ \A d \in Founders : status'[d] # "new" /\ (status'[d] = "active" => status[d] = "active")
<1>1. \A d \in Founders : d \in Devices /\ status[d] # "new"
  BY DEF Inv, CoverInv
<1>2. born' = born /\ seen' = seen /\ status' = status
        => /\ born \subseteq born' /\ seen \subseteq seen'
           /\ \A d \in Founders : status'[d] # "new" /\ (status'[d] = "active" => status[d] = "active")
  BY <1>1
<1>3. ASSUME NEW d \in Devices, User(d) \/ Outbox(d)
      PROVE  born \subseteq born' /\ UNCHANGED <<seen, status>>
  BY <1>3 DEF User, Compose, DeleteEverywhere, QueueDeletion, DeleteLocally, RetryMessage,
     Outbox, FlushBegin, SendAnswered, AnswerSaved
<1>4. ASSUME NEW d \in Devices, Sync(d)
      PROVE  seen \subseteq seen' /\ UNCHANGED <<born, status>>
  <2>1. CASE \E j \in pass[d].jobs : JobBegin(d, j) \/ JobGot(d, j) \/ JobAcked(d, j)
    BY <2>1 DEF JobBegin, JobGot, JobAcked
  <2>2. CASE \/ SyncPoll(d) \/ LoadDeletions(d) \/ TakePending(d) \/ LoopAcked(d) \/ SyncEnd(d)
             \/ UserAcked(d)
    BY <2>2 DEF SyncPoll, LoadDeletions, TakePending, LoopAcked, SyncEnd, UserAcked
  <2> QED
    BY <1>4, <2>1, <2>2 DEF Sync
<1>5. ASSUME NEW d \in Devices, \/ SendLost(d) \/ Reload(d) \/ \E j \in pass[d].jobs : JobFails(d, j)
      PROVE UNCHANGED <<born, seen, status>>
  BY <1>5 DEF SendLost, Reload, JobFails
<1>6. ASSUME NEW d \in Devices, Revoke(d) \/ Join(d)
      PROVE  /\ UNCHANGED <<born, seen>>
             /\ \A e \in Founders : status'[e] # "new" /\ (status'[e] = "active" => status[e] = "active")
  BY <1>1, <1>6 DEF Revoke, Join, Inv, TypeOK
<1>7. ASSUME \/ \E a \in acks : AckLost(a)
             \/ Sending \/ Acking \/ Purging \/ Rotate \/ UNCHANGED vars
      PROVE  UNCHANGED <<born, seen, status>>
  BY <1>7 DEF AckLost, Sending, sendMessage, SendCheck, SendRecipients, SendBatch,
     Acking, ackMessage, AckUpdate, AckCount, Purging, PurgeDelivered, DeleteObject, Rotate, vars
<1>8. ASSUME NEW p \in puts, PutStep(p) PROVE UNCHANGED <<born, seen, status>>
  BY <1>8, PutKeeps
<1> QED
  BY <1>1, <1>2, <1>3, <1>4, <1>5, <1>6, <1>7, <1>8 DEF Next, PutStep

\* What is covered stays covered.
LEMMA CoverKept ==
  ASSUME Inv, [Next]_vars, NEW m
  PROVE  /\ Expected(m)' \subseteq Expected(m)
         /\ Covered(m) => Covered(m)'
<1>1. Expected(m)' \subseteq Expected(m)
  BY Growing DEF Expected, Active
<1>2. Retracted(m) => Retracted(m)'
  BY Growing DEF Retracted
<1>3. ASSUME NEW d \in Expected(m)', <<m, d>> \in waiting \cup seen, m \notin Tombstones, ~Retracted(m)
      PROVE  <<m, d>> \in waiting' \cup seen'
  <2>1. status'[d] = "active"
    BY DEF Expected, Active
  <2>2. <<m, d>> \in waiting \ waiting' => <<m, d>> \in seen
    BY <1>3, <2>1, Leaving DEF Leaves
  <2> QED
    BY <1>3, <2>2, Growing
<1> QED
  BY <1>1, <1>2, <1>3 DEF Covered

\* How a step may change the row of an author.
LEMMA OwnRow ==
  ASSUME Inv, [Next]_vars, NEW m \in Messages
  PROVE  LET a == Author[m] IN
         \/ local'[a][m] \in {local[a][m], "absent"}
         \/ local'[a][m] = "queued" /\ (m \in Tombstones \/ m \notin born \/ local[a][m] = "failed")
         \/ \E q \in sends : q.id = m /\ local'[a][m] = RowAfter(q.stage)
<1> DEFINE a == Author[m]
           Right == \/ local'[a][m] \in {local[a][m], "absent"}
                    \/ local'[a][m] = "queued" /\ (m \in Tombstones \/ m \notin born \/ local[a][m] = "failed")
                    \/ \E q \in sends : q.id = m /\ local'[a][m] = RowAfter(q.stage)
<1>0. a \in Devices
  OBVIOUS
<1> HIDE DEF a
<1>1. local' = local => Right
  OBVIOUS
<1>2. ASSUME NEW d \in Devices, NEW x \in Messages, NEW s, Sets(d, x, s), d # Author[x] \/ s = "absent"
      PROVE  Right
  BY <1>0, <1>2 DEF Inv, TypeOK, a
<1>3. ASSUME NEW d \in Devices, NEW x \in Messages,
             \/ Compose(d, x) \/ DeleteEverywhere(d, x) \/ QueueDeletion(d, x)
             \/ DeleteLocally(d, x) \/ RetryMessage(d, x)
      PROVE  Right
  <2>1. CASE Compose(d, x)
    BY <1>0, <2>1 DEF Compose, Inv, TypeOK
  <2>2. CASE DeleteEverywhere(d, x)
    BY <1>0, <2>2 DEF DeleteEverywhere, Tombstones, Inv, TypeOK
  <2>3. CASE DeleteLocally(d, x)
    <3>1. local' = local \/ Sets(d, x, "absent")
      BY <2>3 DEF DeleteLocally
    <3> HIDE DEF Sets, Right
    <3> QED
      BY <1>1, <1>2, <3>1
  <2>4. CASE RetryMessage(d, x)
    BY <1>0, <2>4 DEF RetryMessage, Inv, TypeOK
  <2>5. CASE QueueDeletion(d, x)
    <3>1. x \in Tombstones
      BY <2>5 DEF QueueDeletion, Inv, AskInv
    <3> QED
      BY <1>0, <2>5, <3>1 DEF QueueDeletion, Inv, TypeOK
  <2> QED
    BY <1>3, <2>1, <2>2, <2>3, <2>4, <2>5
<1>4. ASSUME NEW d \in Devices, Outbox(d) PROVE Right
  <2>1. CASE AnswerSaved(d)
    <3>1. PICK q \in sends : Sets(d, q.id, RowAfter(q.stage))
      BY <2>1 DEF AnswerSaved
    <3>2. q.id \in Messages
      BY DEF Inv, TypeOK, Calls
    <3> QED
      BY <1>0, <3>1, <3>2 DEF Inv, TypeOK
  <2>2. CASE (\E x \in Messages : FlushBegin(d, x)) \/ SendAnswered(d)
    BY <1>1, <2>2 DEF FlushBegin, SendAnswered
  <2> QED
    BY <1>4, <2>1, <2>2 DEF Outbox
<1>5. ASSUME NEW d \in Devices, NEW j \in pass[d].jobs,
             JobBegin(d, j) \/ JobGot(d, j) \/ JobFails(d, j) \/ JobAcked(d, j)
      PROVE  Right
  <2>1. j \in Jobs /\ j.id \in Messages /\ Author[j.id] # d
    BY JobIs, JobIsNotOwn DEF Inv
  <2>2. PICK s : UNCHANGED local \/ Sets(d, j.id, s)
    <3>1. CASE JobGot(d, j)
      BY <2>1, <3>1 DEF JobGot, Upsert, Jobs
    <3>2. CASE JobAcked(d, j)
      BY <2>1, <3>2 DEF JobAcked, Upsert, Jobs
    <3> QED
      BY <1>5, <3>1, <3>2 DEF JobBegin, JobFails, Upsert
  <2> HIDE DEF Sets, Right
  <2> QED
    BY <1>1, <1>2, <2>1, <2>2
<1>6. ASSUME NEW d \in Devices, TakePending(d) PROVE Right
  <2> DEFINE x == Head(pass[d].batch)
  <2>1. /\ x.id \in Messages /\ Author[x.id] # d
        /\ x.id \in Tombstones => Target[x.id] \in Messages
    BY <1>6, Takes
  <2>2. \/ x.id \in Tombstones /\ Sets(d, Target[x.id], "absent")
        \/ UNCHANGED local
        \/ \E s : Sets(d, x.id, s)
    BY <1>6 DEF TakePending
  <2> HIDE DEF x, Sets, Right
  <2> QED
    BY <1>1, <1>2, <2>1, <2>2
<1>7. ASSUME NEW d \in Devices, UserAcked(d) PROVE Right
  <2>1. PICK k \in acks : UNCHANGED local \/ Sets(d, k.id, "absent")
    BY <1>7 DEF UserAcked
  <2>2. k.id \in Messages
    BY DEF Inv, TypeOK, Acks
  <2> HIDE DEF Sets, Right
  <2> QED
    BY <1>1, <1>2, <2>1, <2>2
<1>8. ASSUME NEW d \in Devices, \/ SyncPoll(d) \/ LoadDeletions(d) \/ LoopAcked(d) \/ SyncEnd(d)
                                \/ SendLost(d) \/ Reload(d) \/ Revoke(d) \/ Join(d)
      PROVE  Right
  BY <1>1, <1>8 DEF SyncPoll, LoadDeletions, LoopAcked, SyncEnd, SendLost, Reload, Revoke, Join
<1>9. ASSUME Sending \/ Acking \/ Purging PROVE Right
  BY <1>1, <1>9 DEF Sending, sendMessage, SendCheck, SendRecipients, SendBatch,
     Acking, ackMessage, AckUpdate, AckCount, Purging, PurgeDelivered, DeleteObject
<1>10. ASSUME (\E k \in acks : AckLost(k)) \/ Rotate \/ UNCHANGED vars PROVE Right
  BY <1>1, <1>10 DEF AckLost, Rotate, vars
<1>12. ASSUME NEW p \in puts, PutStep(p) PROVE Right
  BY <1>1, <1>12, PutKeeps
<1>11. Right
  BY <1>3, <1>4, <1>5, <1>6, <1>7, <1>8, <1>9, <1>10, <1>12 DEF Next, PutStep, Sync, User
<1> QED
  BY <1>11 DEF a

\* Only an answered call makes a message "sent".
LEMMA Sent ==
  ASSUME Inv, [Next]_vars, NEW m \in Messages, local'[Author[m]][m] = "sent"
  PROVE  \/ local[Author[m]][m] = "sent"
         \/ \E q \in sends : q.id = m /\ q.stage \in {"ok", "conflict"}
BY OwnRow DEF RowAfter

\* A step that stores and answers what is covered.
LEMMA CoverStep ==
  ASSUME Inv, [Next]_vars,
         \A i \in DOMAIN stored' : \A m : stored'[i].id = m => m \in Ids(stored) \/ Covered(m)',
         \A q \in sends' : \/ q \in sends
                           \/ /\ q.stage \in {"ok", "conflict"} => Covered(q.id)'
                              /\ q.stage = "ready" => Expected(q.id)' \subseteq q.to
  PROVE  CoverInv'
<1>1. ASSUME NEW i \in DOMAIN stored' PROVE Covered(stored[i].id)'
  <2>1. PICK m : m = stored'[i].id
    OBVIOUS
  <2>2. m \in Ids(stored) => Covered(m)
    BY DEF Inv, CoverInv, Ids
  <2>3. Covered(m)'
    BY <2>1, <2>2, CoverKept
  <2> QED
    BY <2>1, <2>3
<1>2. ASSUME NEW q \in sends'
      PROVE  /\ q.stage \in {"ok", "conflict"} => Covered(q.id)'
             /\ q.stage = "ready" => Expected(q.id)' \subseteq q.to
  <2>1. CASE q \in sends
    BY <2>1, CoverKept DEF Inv, CoverInv
  <2> QED
    BY <1>2, <2>1
<1>3. ASSUME NEW m \in Messages, local'[Author[m]][m] = "sent" PROVE Covered(m)'
  <2>1. Covered(m)
    BY <1>3, Sent DEF Inv, CoverInv
  <2> QED
    BY <2>1, CoverKept
<1>4. \A d \in Founders : status'[d] # "new"
  BY Growing
<1> QED
  BY <1>1, <1>2, <1>3, <1>4 DEF CoverInv
\* A step that stores nothing, and makes no call anew but as "sent" or "checked".
LEMMA CoverElsewhere ==
  ASSUME Inv, [Next]_vars, \A i \in DOMAIN stored' : stored'[i].id \in Ids(stored),
         \A q \in sends' : q \in sends \/ q.stage \in {"sent", "checked", "refused", "key_rotated", "bad_request"}
  PROVE  CoverInv'
BY CoverStep

LEMMA StoredIds == \A i \in DOMAIN stored : stored[i].id \in Ids(stored)
BY DEF Ids

\* Rows that are dropped are no others.
LEMMA DroppedIds ==
  ASSUME Inv, NEW S, stored' = Without(stored, S)
  PROVE  \A i \in DOMAIN stored' : stored'[i].id \in Ids(stored)
<1>1. stored \in Seq(Rows)
  BY DEF Inv, TypeOK
<1> QED
  BY <1>1, WithoutRows, StoredIds

\* The reply to q is about the same message, and says what it says.
LEMMA Replied ==
  ASSUME Inv, NEW q \in sends, NEW code, Reply(q, code), NEW r \in sends'
  PROVE  r \in sends \/ (r.id = q.id /\ r.stage = code)
<1>1. q \in Calls
  BY DEF Inv, TypeOK
<1>2. [q EXCEPT !.stage = code].id = q.id /\ [q EXCEPT !.stage = code].stage = code
  BY <1>1 DEF Calls
<1> QED
  BY <1>2 DEF Reply

\* Whom a message is to reach is whom its sender's call is sent to.
LEMMA Recipients ==
  ASSUME Inv, NEW q \in sends
  PROVE  Expected(q.id) \subseteq messageRecipients(q.by)
BY DEF Inv, ServerInv, Expected, messageRecipients

LEMMA SendCheckCover == ASSUME Inv, [Next]_vars, NEW q \in sends, SendCheck(q) PROVE CoverInv'
<1>1. \A i \in DOMAIN stored' : \A m : stored'[i].id = m => m \in Ids(stored) \/ Covered(m)'
  BY StoredIds DEF SendCheck
<1>2. ASSUME NEW r \in sends'
      PROVE  \/ r \in sends
             \/ /\ r.stage \in {"ok", "conflict"} => Covered(r.id)'
                /\ r.stage = "ready" => Expected(r.id)' \subseteq r.to
  <2>1. CASE r = [q EXCEPT !.stage = "checked"]
    <3>1. q \in Calls
      BY DEF Inv, TypeOK
    <3>2. r.stage = "checked"
      BY <2>1, <3>1 DEF Calls
    <3> QED
      BY <3>2
  <2>2. CASE Reply(q, Verdict(q))
    <3>1. r \in sends \/ (r.id = q.id /\ r.stage = Verdict(q))
      BY <2>2, Replied
    <3>2. Verdict(q) \notin {"ok", "ready"} /\ (Verdict(q) = "conflict" => q.id \in Ids(stored))
      BY DEF Verdict
    <3>3. q.id \in Ids(stored) => Covered(q.id)
      BY DEF Inv, CoverInv, Ids
    <3>4. PICK m : m = q.id
      OBVIOUS
    <3>5. Covered(m) => Covered(m)'
      BY CoverKept
    <3> QED
      BY <3>1, <3>2, <3>3, <3>4, <3>5
  <2> QED
    BY <2>1, <2>2 DEF SendCheck
<1> QED
  BY <1>1, <1>2, CoverStep

LEMMA SendRecipientsCover ==
  ASSUME Inv, [Next]_vars, NEW q \in sends, SendRecipients(q) PROVE CoverInv'
<1> DEFINE to == messageRecipients(q.by)
           gone == {Target[q.id]} \cap Ids(stored)
<1>1. \A i \in DOMAIN stored' : \A m : stored'[i].id = m => m \in Ids(stored) \/ Covered(m)'
  <2>1. stored' = Without(stored, gone)
    BY DEF SendRecipients
  <2> HIDE DEF gone
  <2> QED
    BY <2>1, DroppedIds
<1>2. PICK m : m = q.id
  OBVIOUS
<1>3. Expected(m)' \subseteq to
  BY <1>2, CoverKept, Recipients
<1>4. to = {} => Covered(m)'
  BY <1>3 DEF Covered
<1>5. q \in Calls
  BY DEF Inv, TypeOK
<1>6. /\ Reply(q, "ok") /\ to = {}
      \/ Reply(q, "bad_request")
      \/ sends' = (sends \ {q}) \cup {[q EXCEPT !.stage = "ready", !.to = to]}
  BY DEF SendRecipients
<1> HIDE DEF to
<1>7. ASSUME NEW r \in sends'
      PROVE  \/ r \in sends
             \/ /\ r.stage \in {"ok", "conflict"} => Covered(r.id)'
                /\ r.stage = "ready" => Expected(r.id)' \subseteq r.to
  <2>1. CASE Reply(q, "ok") /\ to = {}
    BY <1>2, <1>4, <2>1, Replied
  <2>2. CASE Reply(q, "bad_request")
    BY <2>2, Replied
  <2>3. CASE r = [q EXCEPT !.stage = "ready", !.to = to]
    <3>1. r.id = q.id /\ r.stage = "ready" /\ r.to = to
      BY <1>5, <2>3 DEF Calls
    <3> QED
      BY <1>2, <1>3, <3>1
  <2> QED
    BY <1>6, <2>1, <2>2, <2>3
<1> QED
  BY <1>1, <1>7, CoverStep

LEMMA SendBatchCover == ASSUME Inv, [Next]_vars, NEW q \in sends, SendBatch(q) PROVE CoverInv'
<1>1. PICK m : m = q.id
  OBVIOUS
<1>2. q \in Calls /\ q.stage = "ready" /\ stored \in Seq(Rows)
  BY DEF Inv, TypeOK, SendBatch
<1>3. Expected(m)' \subseteq q.to
  BY <1>1, <1>2, CoverKept DEF Inv, CoverInv
<1>4. m \in Ids(stored) => Covered(m)'
  <2>1. m \in Ids(stored) => Covered(m)
    BY DEF Inv, CoverInv, Ids
  <2> QED
    BY <2>1, CoverKept
<1>5. CASE Reply(q, "conflict") /\ m \in Ids(stored) /\ UNCHANGED stored
  <2>1. \A r \in sends' : r \in sends \/ (r.id = m /\ r.stage = "conflict")
    BY <1>1, <1>5, Replied
  <2> QED
    BY <1>4, <1>5, <2>1, StoredIds, CoverStep
<1>6. CASE /\ stored' = Append(stored, [id |-> q.id, epoch |-> q.epoch])
           /\ waiting' = waiting \cup ({q.id} \X q.to)
           /\ Reply(q, "ok")
  <2>1. \A r \in sends' : r \in sends \/ (r.id = m /\ r.stage = "ok")
    BY <1>1, <1>6, Replied
  <2>2. Covered(m)'
    BY <1>1, <1>3, <1>6 DEF Covered
  <2>3. [id |-> q.id, epoch |-> q.epoch] \in Rows
    BY <1>2 DEF Calls, Rows
  <2>4. \A i \in DOMAIN stored' : stored'[i].id = m \/ stored'[i].id \in Ids(stored)
    BY <1>1, <1>2, <1>6, <2>3, AppendRow, StoredIds
  <2> QED
    BY <2>1, <2>2, <2>4, CoverStep
<1> QED
  BY <1>1, <1>5, <1>6 DEF SendBatch

LEMMA CoverStepAll == Inv /\ [Next]_vars => CoverInv'
<1> SUFFICES ASSUME Inv, [Next]_vars PROVE CoverInv'
  OBVIOUS
<1>1. UNCHANGED stored /\ sends' \subseteq sends => CoverInv'
  BY StoredIds, CoverElsewhere
<1>2. ASSUME NEW d \in Devices, User(d) PROVE CoverInv'
  BY <1>1, <1>2 DEF User, Compose, DeleteEverywhere, QueueDeletion, DeleteLocally, RetryMessage, Ack
<1>3. ASSUME NEW d \in Devices, Outbox(d) \/ SendLost(d) \/ Reload(d) PROVE CoverInv'
  <2>1. UNCHANGED stored
    BY <1>3 DEF Outbox, FlushBegin, SendAnswered, AnswerSaved, SendLost, Reload
  <2>2. \A q \in sends' : q \in sends \/ q.stage = "sent"
    BY <1>3 DEF Outbox, FlushBegin, SendAnswered, AnswerSaved, SendLost, Reload,
       Unanswered, Call
  <2> QED
    BY <2>1, <2>2, StoredIds, CoverElsewhere
<1>4. ASSUME NEW d \in Devices, Sync(d) PROVE CoverInv'
  <2>1. CASE \E j \in pass[d].jobs : JobBegin(d, j) \/ JobGot(d, j) \/ JobAcked(d, j)
    BY <1>1, <2>1 DEF JobBegin, JobGot, JobAcked
  <2>2. CASE \/ SyncPoll(d) \/ LoadDeletions(d) \/ TakePending(d) \/ LoopAcked(d) \/ SyncEnd(d)
             \/ UserAcked(d)
    BY <1>1, <2>2 DEF SyncPoll, LoadDeletions, TakePending, LoopAcked, SyncEnd, UserAcked
  <2> QED
    BY <1>4, <2>1, <2>2 DEF Sync
<1>5. ASSUME NEW d \in Devices, Revoke(d) \/ Join(d) \/ \E j \in pass[d].jobs : JobFails(d, j)
      PROVE  CoverInv'
  BY <1>1, <1>5 DEF Revoke, Join, JobFails
<1>6. ASSUME NEW q \in sends, sendMessage(q) PROVE CoverInv'
  BY <1>6, SendCheckCover, SendRecipientsCover, SendBatchCover DEF sendMessage
<1>7. ASSUME Acking \/ PurgeDelivered PROVE CoverInv'
  <2>1. UNCHANGED sends /\ (UNCHANGED stored \/ \E S : stored' = Without(stored, S))
    BY <1>7 DEF Acking, ackMessage, AckUpdate, AckCount, PurgeDelivered, Drop
  <2> QED
    BY <2>1, DroppedIds, StoredIds, CoverElsewhere
<1>8. ASSUME \/ \E m \in Messages : DeleteObject(m)
             \/ \E a \in acks : AckLost(a)
             \/ Rotate \/ UNCHANGED vars
      PROVE  CoverInv'
  BY <1>1, <1>8 DEF DeleteObject, AckLost, Rotate, vars
<1>9. ASSUME NEW p \in puts, PutStep(p) PROVE CoverInv'
  <2>1. TypeOK /\ UNCHANGED stored
    BY <1>9, PutKeeps DEF Inv
  <2>2. \A q \in sends' : q \in sends \/ q.stage \in {"sent", "bad_request", "refused"}
    BY <1>9, <2>1, PutSends DEF PostedFor
  <2> QED
    BY <2>1, <2>2, StoredIds, CoverElsewhere
<1> QED
  BY <1>2, <1>3, <1>4, <1>5, <1>6, <1>7, <1>8, <1>9 DEF Next, PutStep, Sending, Acking, Purging

(***************************************************************************)
(* The invariant holds.                                                    *)
(***************************************************************************)
LEMMA AskStep == ASSUME AskInv, \A d \in Devices : asking'[d] \subseteq asking[d], born \subseteq born' PROVE AskInv'
BY DEF AskInv

LEMMA AskStepAll == Inv /\ [Next]_vars => AskInv'
<1> SUFFICES ASSUME Inv, [Next]_vars PROVE AskInv'
  OBVIOUS
<1>1. UNCHANGED asking => AskInv'
  BY AskStep, Growing DEF Inv
<1>2. ASSUME NEW d \in Devices, NEW m \in Messages, DeleteEverywhere(d, m) PROVE AskInv'
  <2>1. /\ \A e \in Devices : asking'[e] \subseteq asking[e] \cup (IF e = d THEN {m} ELSE {})
        /\ born' = born \cup {m} /\ m \in Tombstones /\ Author[m] = d
    BY <1>2 DEF DeleteEverywhere, Inv, TypeOK
  <2> QED
    BY <2>1 DEF Inv, AskInv
<1>3. ASSUME NEW d \in Devices, Reload(d) \/ \E m \in Messages : QueueDeletion(d, m) PROVE AskInv'
  <2>1. \E S \in SUBSET asking[d] : asking' = [asking EXCEPT ![d] = S]
    BY <1>3 DEF Reload, QueueDeletion
  <2>2. \A e \in Devices : asking'[e] \subseteq asking[e]
    BY <2>1 DEF Inv, TypeOK
  <2> QED
    BY <2>2, AskStep, Growing DEF Inv
<1>4. ASSUME NEW d \in Devices,
             \/ \E m \in Messages : Compose(d, m) \/ DeleteLocally(d, m) \/ RetryMessage(d, m)
             \/ Outbox(d) \/ SendLost(d) \/ Revoke(d) \/ Join(d)
      PROVE  AskInv'
  BY <1>1, <1>4 DEF Compose, DeleteLocally, RetryMessage, Outbox, FlushBegin, SendAnswered,
     AnswerSaved, SendLost, Revoke, Join
<1>5. ASSUME NEW d \in Devices, Sync(d) \/ \E j \in pass[d].jobs : JobFails(d, j) PROVE AskInv'
  <2>1. CASE \E j \in pass[d].jobs : JobBegin(d, j) \/ JobGot(d, j) \/ JobAcked(d, j) \/ JobFails(d, j)
    BY <1>1, <2>1 DEF JobBegin, JobGot, JobAcked, JobFails
  <2>2. CASE \/ SyncPoll(d) \/ LoadDeletions(d) \/ TakePending(d) \/ LoopAcked(d) \/ SyncEnd(d)
             \/ UserAcked(d)
    BY <1>1, <2>2 DEF SyncPoll, LoadDeletions, TakePending, LoopAcked, SyncEnd, UserAcked
  <2> QED
    BY <1>5, <2>1, <2>2 DEF Sync
<1>6. ASSUME Sending \/ Acking \/ Purging \/ (\E a \in acks : AckLost(a)) \/ Rotate \/ UNCHANGED vars
      PROVE  AskInv'
  BY <1>1, <1>6 DEF Sending, sendMessage, SendCheck, SendRecipients, SendBatch, Acking, ackMessage,
     AckUpdate, AckCount, Purging, PurgeDelivered, DeleteObject, AckLost, Rotate, vars
<1>7. ASSUME NEW p \in puts, PutStep(p) PROVE AskInv'
  BY <1>1, <1>7, PutKeeps
<1> QED
  BY <1>2, <1>3, <1>4, <1>5, <1>6, <1>7 DEF Next, PutStep, User

LEMMA InitInv == Init => Inv
<1> SUFFICES ASSUME Init PROVE Inv
  OBVIOUS
<1>1. TypeOK
  BY TypeInit
<1>2. HistoryInv
  BY DEF Init, HistoryInv, Cell, Incoming
<1>3. ServerInv
  BY DEF Init, ServerInv, Ids, NoFlight
<1>4. PassInv
  BY DEF Init, PassInv, PassFits, NoPass, Distinct
<1>5. AckInv
  BY DEF Init, AckInv
<1>6. CoverInv
  BY DEF Init, CoverInv
<1>7. AskInv
  BY DEF Init, AskInv
<1> QED
  BY <1>1, <1>2, <1>3, <1>4, <1>5, <1>6, <1>7 DEF Inv

LEMMA InvStep == Inv /\ [Next]_vars => Inv'
BY TypeStep, HistoryStepAll, ServerStepAll, PassStepAll, AckStepAll, CoverStepAll, AskStepAll DEF Inv

LEMMA InvHolds == Spec => []Inv
BY InitInv, InvStep, PTL DEF Spec

\* What the outbox has marked "sent" every other device that was to get it, and is still in
\* the space, has registered or is still offered (outbox.ts:246-258, messages.ts:115-189):
\* "conflict" counts as sent, and however often a call is lost, posted again or executed
\* after it was given up, it answers so only of a message whose deliveries were made.
THEOREM DeliveryNoLostMessage == Spec => []NoLostMessage
<1>1. Inv => NoLostMessage
  <2> SUFFICES ASSUME Inv, NEW m \in Messages \ Tombstones, NEW d \in Active \cap Founders,
                      local[Author[m]][m] = "sent", ~Retracted(m), d \notin SendOnly \cup {Author[m]}
               PROVE  <<m, d>> \in waiting \cup seen
    BY DEF NoLostMessage
  <2>1. Covered(m) /\ d \in Expected(m)
    BY DEF Inv, CoverInv, Expected
  <2> QED
    BY <2>1 DEF Covered
<1> QED
  BY <1>1, InvHolds, PTL

\* A delivery row of a device that stays in the space goes only when that device holds the
\* content, knows it will never get it, was told to forget it, or its user did
\* (sync.ts:599-667, messages.ts:254-289): no ack overtakes a download, whichever pass,
\* call or closed page it belongs to.
THEOREM DeliveryNothingDroppedUnread == Spec => NothingDroppedUnread
<1>1. Inv /\ [Next]_vars
        => [\A w \in waiting \ waiting' : status'[w[2]] = "active" => Settled(w[1], w[2])]_vars
  BY Leaving DEF Leaves
<1> QED
  BY <1>1, InvHolds, PTL DEF Spec, NothingDroppedUnread

(***************************************************************************)
(* The uploads of a device.                                                *)
(***************************************************************************)
\* The upload p, the flush f of its device and the faults k so far.
PutFits(p, f, k) ==
  /\ p.n <= k \/ (f.id = p.id /\ f.n = p.n)
  /\ f.id = p.id /\ f.n = p.n => f.phase = "uploading" /\ f.epoch = p.epoch

\* A flush that waits for an upload is uploading what the upload writes, and numbers tell
\* the uploads of a device apart.
PutsInv ==
  /\ \A d \in Devices : flight[d].n <= faults + 1
  /\ \A p \in puts : PutFits(p, flight[p.by], faults)
  /\ \A p, r \in puts : p.by = r.by /\ p.n = r.n => p = r

\* The numbers, and what they are compared with.
LEMMA PutNumbers ==
  ASSUME Inv, PutsInv
  PROVE  /\ faults \in Nat /\ \A d \in Devices : flight[d].n \in Nat /\ flight[d].n <= faults + 1
         /\ \A p \in puts : /\ p.by \in Devices /\ p.id \in Messages /\ p.n \in Nat /\ p.n <= faults + 1
                            /\ Awaited(p) \/ p.n <= faults
                            /\ Awaited(p) => /\ flight[p.by].phase = "uploading"
                                            /\ flight[p.by].epoch = p.epoch
<1>1. faults \in Nat
  BY DEF Inv, TypeOK
<1>2. ASSUME NEW d \in Devices PROVE flight[d].n \in Nat /\ flight[d].n <= faults + 1
  BY DEF Inv, TypeOK, PutsInv, Flights, NoFlight
<1>3. ASSUME NEW p \in puts
      PROVE  /\ p.by \in Devices /\ p.id \in Messages /\ p.n \in Nat
             /\ Awaited(p) \/ p.n <= faults
             /\ Awaited(p) => flight[p.by].phase = "uploading" /\ flight[p.by].epoch = p.epoch
  <2>1. TypeOK /\ PutFits(p, flight[p.by], faults)
    BY DEF Inv, PutsInv
  <2> QED
    BY <2>1, PutIs DEF PutFits, Awaited
<1>4. ASSUME NEW p \in puts PROVE p.n <= faults + 1
  BY <1>1, <1>2, <1>3 DEF Awaited
<1> QED
  BY <1>1, <1>2, <1>3, <1>4

\* Uploads that stay, of devices whose flush stays as it is or waits for none of them.
LEMMA PutsStay ==
  ASSUME Inv, PutsInv, puts' \subseteq puts, faults' \in Nat, faults <= faults',
         \A d \in Devices : flight'[d].n = flight[d].n \/ flight'[d].n \in 0 .. (faults' + 1),
         \A p \in puts' : \/ flight'[p.by] = flight[p.by]
                          \/ p.n <= faults' /\ ~(flight'[p.by].id = p.id /\ flight'[p.by].n = p.n)
  PROVE  PutsInv'
<1>1. ASSUME NEW p \in puts' PROVE PutFits(p, flight'[p.by], faults')
  <2>1. p \in puts /\ PutFits(p, flight[p.by], faults) /\ p.n \in Nat /\ faults \in Nat
    BY PutNumbers DEF PutsInv
  <2>2. p.n <= faults => p.n <= faults'
    BY <2>1
  <2> QED
    BY <1>1, <2>1, <2>2 DEF PutFits
<1>2. ASSUME NEW d \in Devices PROVE flight'[d].n <= faults' + 1
  BY PutNumbers
<1> QED
  BY <1>1, <1>2 DEF PutsInv

\* One more upload, of a flush that waits for it under a number of its own.
LEMMA PutsGrow ==
  ASSUME Inv, PutsInv, NEW d \in Devices, NEW r, puts' \subseteq puts \cup {r}, faults' \in Nat, faults <= faults',
         r.by = d, r.n \in Nat, flight'[d].id = r.id, flight'[d].n = r.n, flight'[d].phase = "uploading",
         flight'[d].epoch = r.epoch, r.n <= faults' + 1,
         \A e \in Devices \ {d} : flight'[e] = flight[e],
         \A p \in puts' \ {r} : p.by = d => p.n <= faults' /\ p.n < r.n
  PROVE  PutsInv'
<1>1. ASSUME NEW p \in puts' PROVE PutFits(p, flight'[p.by], faults')
  <2>1. CASE p = r
    BY <2>1 DEF PutFits
  <2>2. CASE p # r
    <3>1. p \in puts /\ PutFits(p, flight[p.by], faults) /\ p.n \in Nat /\ faults \in Nat /\ p.by \in Devices
      BY <1>1, <2>2, PutNumbers DEF PutsInv
    <3>2. p.by = d => p.n <= faults' /\ p.n # r.n
      BY <1>1, <2>2, <3>1
    <3>3. p.n <= faults => p.n <= faults'
      BY <3>1
    <3> QED
      BY <3>1, <3>2, <3>3 DEF PutFits
  <2> QED
    BY <2>1, <2>2
<1>2. ASSUME NEW p \in puts', NEW q \in puts', p.by = q.by, p.n = q.n PROVE p = q
  <2>1. \A x \in puts' \ {r} : x \in puts /\ x.n \in Nat
    BY PutNumbers
  <2>2. \A x \in puts' \ {r} : x.by = d => x.n # r.n
    BY <2>1
  <2> QED
    BY <1>2, <2>1, <2>2 DEF PutsInv
<1>3. ASSUME NEW e \in Devices PROVE flight'[e].n <= faults' + 1
  <2>1. flight[e].n <= faults + 1 /\ flight[e].n \in Nat /\ faults \in Nat
    BY PutNumbers
  <2> QED
    BY <2>1
<1> QED
  BY <1>1, <1>2, <1>3 DEF PutsInv

LEMMA FlushBeginPuts ==
  ASSUME Inv, PutsInv, NEW d \in Devices, NEW m \in Messages, FlushBegin(d, m) PROVE PutsInv'
<1> DEFINE e == IF pin[m] = 0 THEN known[d] ELSE pin[m]
           r == Put(d, m, e, Number)
<1>1. /\ flight[d] = NoFlight /\ faults' = faults /\ faults \in Nat /\ Number = faults + 1
      /\ \A c \in Devices \ {d} : flight'[c] = flight[c]
  BY PutNumbers DEF FlushBegin, Number, Inv, TypeOK
<1>2. \A p \in puts : p.by = d => p.n \in Nat /\ p.n <= faults
  <2>1. \A p \in puts : p.by = d => ~Awaited(p)
    BY <1>1, PutNumbers DEF Awaited, NoFlight
  <2> QED
    BY <2>1, PutNumbers
<1>3. /\ flight'[d].id = m /\ flight'[d].n = Number /\ flight'[d].epoch = e
      /\ flight'[d].phase = IF m \in WithFile THEN "uploading" ELSE "posted"
  BY DEF FlushBegin, Inv, TypeOK
<1>4. r.by = d /\ r.id = m /\ r.n = Number /\ r.epoch = e
  BY DEF Put
<1>5. puts' = IF m \in WithFile THEN puts \cup {r} ELSE puts
  BY DEF FlushBegin
<1> HIDE DEF e, r
<1>6. CASE m \in WithFile
  <2>1. \A p \in puts' \ {r} : p.by = d => p.n <= faults' /\ p.n < r.n
    BY <1>1, <1>2, <1>4, <1>5, <1>6
  <2> QED
    BY <1>1, <1>3, <1>4, <1>5, <1>6, <2>1, PutsGrow
<1>7. CASE m \notin WithFile
  <2>1. \A c \in Devices : flight'[c].n = flight[c].n \/ flight'[c].n \in 0 .. (faults' + 1)
    <3>1. flight'[d].n \in 0 .. (faults' + 1)
      BY <1>1, <1>3
    <3> QED
      BY <1>1, <3>1
  <2>2. \A p \in puts' : \/ flight'[p.by] = flight[p.by]
                         \/ p.n <= faults' /\ ~(flight'[p.by].id = p.id /\ flight'[p.by].n = p.n)
    BY <1>1, <1>2, <1>3, <1>5, <1>7, PutNumbers
  <2> QED
    BY <1>1, <1>5, <1>7, <2>1, <2>2, PutsStay
<1> QED
  BY <1>6, <1>7

LEMMA AnswersPuts ==
  ASSUME Inv, PutsInv, NEW d \in Devices, SendAnswered(d) \/ AnswerSaved(d) PROVE PutsInv'
<1>1. /\ flight[d].phase \in {"posted", "saving"} /\ UNCHANGED <<puts, faults>>
      /\ \/ flight' = [flight EXCEPT ![d] = NoFlight]
         \/ flight' = [flight EXCEPT ![d].phase = "saving"]
  BY DEF SendAnswered, AnswerSaved
<1>2. \A p \in puts : p.by = d => ~Awaited(p) /\ p.n <= faults
  BY <1>1, PutNumbers
<1>3. /\ \A e \in Devices \ {d} : flight'[e] = flight[e]
      /\ flight'[d] = NoFlight \/ (flight'[d].id = flight[d].id /\ flight'[d].n = flight[d].n)
  <2>1. flight[d] \in Flights
    BY <1>1, InFlight DEF Inv
  <2> QED
    BY <1>1, <2>1 DEF Inv, TypeOK, Flights
<1>4. \A e \in Devices : flight'[e].n = flight[e].n \/ flight'[e].n \in 0 .. (faults' + 1)
  <2>1. 0 \in 0 .. (faults' + 1)
    BY <1>1, PutNumbers
  <2> QED
    BY <1>3, <2>1 DEF NoFlight
<1>5. \A p \in puts' : \/ flight'[p.by] = flight[p.by]
                       \/ p.n <= faults' /\ ~(flight'[p.by].id = p.id /\ flight'[p.by].n = p.n)
  <2> SUFFICES ASSUME NEW p \in puts, p.by = d
               PROVE  p.n <= faults /\ ~(flight'[d].id = p.id /\ flight'[d].n = p.n)
    BY <1>1, <1>3, PutNumbers
  <2>1. p.id # None /\ p.n <= faults /\ ~(flight[d].id = p.id /\ flight[d].n = p.n)
    BY <1>2, PutNumbers DEF Awaited
  <2> QED
    BY <1>3, <2>1 DEF NoFlight
<1> QED
  BY <1>1, <1>4, <1>5, PutNumbers, PutsStay

LEMMA FaultPuts ==
  ASSUME Inv, PutsInv, NEW d \in Devices, SendLost(d) \/ Reload(d) PROVE PutsInv'
<1>1. /\ faults \in Nat /\ faults' = faults + 1
      /\ \A e \in Devices \ {d} : flight'[e] = flight[e]
  BY PutNumbers DEF SendLost, Reload, Inv, TypeOK
<1>2. \A p \in puts : p.n \in Nat /\ p.n <= faults' /\ p.by \in Devices /\ p.id \in Messages
  BY <1>1, PutNumbers
<1>3. CASE UNCHANGED puts /\ flight'[d] = NoFlight
  <2>1. \A e \in Devices : flight'[e].n = flight[e].n \/ flight'[e].n \in 0 .. (faults' + 1)
    <3>1. 0 \in 0 .. (faults' + 1)
      BY <1>1
    <3> QED
      BY <1>1, <1>3, <3>1 DEF NoFlight
  <2>2. \A p \in puts' : \/ flight'[p.by] = flight[p.by]
                         \/ p.n <= faults' /\ ~(flight'[p.by].id = p.id /\ flight'[p.by].n = p.n)
    BY <1>1, <1>2, <1>3 DEF NoFlight
  <2> QED
    BY <1>1, <1>3, <2>1, <2>2, PutsStay
<1>4. CASE UNCHANGED puts /\ flight'[d].n = faults + 2
  <2>1. \A e \in Devices : flight'[e].n = flight[e].n \/ flight'[e].n \in 0 .. (faults' + 1)
    <3>1. faults + 2 \in 0 .. (faults' + 1)
      BY <1>1
    <3> QED
      BY <1>1, <1>4, <3>1
  <2>2. \A p \in puts' : \/ flight'[p.by] = flight[p.by]
                         \/ p.n <= faults' /\ ~(flight'[p.by].id = p.id /\ flight'[p.by].n = p.n)
    BY <1>1, <1>2, <1>4
  <2> QED
    BY <1>1, <1>4, <2>1, <2>2, PutsStay
<1>5. ASSUME SendLost(d), flight[d].phase = "uploading", flight[d].try < MaxTries PROVE PutsInv'
  <2> DEFINE r == Put(d, flight[d].id, flight[d].epoch, Number')
  <2>1. flight[d] \in Flights /\ Number' = faults + 2
    BY <1>1, <1>5, InFlight DEF Inv, Number
  <2>2. /\ flight'[d].id = flight[d].id /\ flight'[d].n = faults + 2 /\ flight'[d].phase = "uploading"
        /\ flight'[d].epoch = flight[d].epoch
    <3>1. flight[d].try # MaxTries
      BY <1>5, <2>1 DEF Flights
    <3>2. flight' = [flight EXCEPT ![d].n = Number', ![d].try = flight[d].try + 1]
      BY <1>5, <3>1 DEF SendLost
    <3>3. flight'[d] = [flight[d] EXCEPT !.n = Number', !.try = flight[d].try + 1]
      BY <3>2 DEF Inv, TypeOK
    <3> QED
      BY <1>5, <2>1, <3>3 DEF Flights
  <2>3. puts' = puts \cup {r}
    <3>1. flight[d].try # MaxTries
      BY <1>5, <2>1 DEF Flights
    <3> QED
      BY <1>5, <3>1 DEF SendLost
  <2>4. r.by = d /\ r.id = flight[d].id /\ r.n = faults + 2 /\ r.epoch = flight[d].epoch
    BY <2>1 DEF Put
  <2> HIDE DEF r
  <2>5. \A p \in puts' \ {r} : p.by = d => p.n <= faults' /\ p.n < r.n
    BY <1>1, <1>2, <2>3, <2>4
  <2> QED
    BY <1>1, <2>2, <2>3, <2>4, <2>5, PutsGrow
<1>6. CASE SendLost(d)
  <2>1. flight[d] \in Flights /\ Number' = faults + 2
    BY <1>1, <1>6, InFlight DEF SendLost, Inv, Number
  <2>2. CASE flight[d].try < MaxTries /\ flight[d].phase = "posted"
    <3>1. UNCHANGED puts /\ flight' = [flight EXCEPT ![d].n = Number', ![d].try = flight[d].try + 1]
      BY <1>6, <2>1, <2>2 DEF SendLost, Flights
    <3>2. flight'[d].n = faults + 2
      BY <2>1, <3>1 DEF Inv, TypeOK, Flights
    <3> QED
      BY <1>4, <3>1, <3>2
  <2>3. CASE flight[d].try = MaxTries
    <3>1. UNCHANGED puts /\ flight' = [flight EXCEPT ![d] = NoFlight]
      BY <1>6, <2>1, <2>3 DEF SendLost, Flights
    <3> QED
      BY <1>3, <3>1 DEF Inv, TypeOK
  <2> QED
    BY <1>5, <1>6, <2>1, <2>2, <2>3 DEF SendLost, Flights
<1>7. CASE Reload(d)
  BY <1>3, <1>7 DEF Reload, Inv, TypeOK
<1> QED
  BY <1>6, <1>7

\* An upload breaks: it is the same upload to its flush.
LEMMA UploadBreaksPuts == ASSUME Inv, PutsInv, NEW p \in puts, UploadBreaks(p) PROVE PutsInv'
<1>1. /\ UNCHANGED flight /\ faults \in Nat /\ faults' \in {faults, faults + 1}
      /\ puts' = (puts \ {p}) \cup {[p EXCEPT !.stage = "broken"]}
  BY PutNumbers DEF UploadBreaks
<1>2. PICK b : b = [p EXCEPT !.stage = "broken"]
  OBVIOUS
<1>3. b.by = p.by /\ b.id = p.id /\ b.n = p.n /\ b.epoch = p.epoch
  BY <1>2, PutIs DEF Inv, Puts
<1>4. \A r \in puts' : \E o \in puts : /\ r.by = o.by /\ r.id = o.id /\ r.n = o.n /\ r.epoch = o.epoch
                                       /\ r = b \/ r = o
                                       /\ r = b => o = p
                                       /\ r # b => o # p
  BY <1>1, <1>2, <1>3
<1>5. ASSUME NEW r \in puts' PROVE PutFits(r, flight'[r.by], faults')
  <2>1. PICK o \in puts : r.by = o.by /\ r.id = o.id /\ r.n = o.n /\ r.epoch = o.epoch
    BY <1>4
  <2>2. PutFits(o, flight[o.by], faults) /\ o.n \in Nat
    BY PutNumbers DEF PutsInv
  <2> QED
    BY <1>1, <2>1, <2>2 DEF PutFits
<1>6. ASSUME NEW r \in puts', NEW s \in puts', r.by = s.by, r.n = s.n PROVE r = s
  BY <1>4, <1>6 DEF PutsInv
<1>7. ASSUME NEW d \in Devices PROVE flight'[d].n <= faults' + 1
  BY <1>1, PutNumbers
<1> QED
  BY <1>5, <1>6, <1>7 DEF PutsInv

\* An upload ends, and with it what its flush waited for.
LEMMA UploadEndsPuts ==
  ASSUME Inv, PutsInv, NEW p \in puts, uploadFile(p) \/ UploadVanishes(p), puts' = puts \ {p}
  PROVE  PutsInv'
<1>1. PutStep(p) /\ UNCHANGED faults /\ faults \in Nat /\ p.by \in Devices
  BY PutNumbers DEF PutStep, uploadFile, UploadLands, UploadFails, UploadVanishes
<1>2. /\ \A d \in Devices \ {p.by} : flight'[d] = flight[d]
      /\ \/ flight'[p.by] = flight[p.by]
         \/ /\ Awaited(p)
            /\ \/ flight'[p.by] = NoFlight
               \/ flight'[p.by].id = flight[p.by].id /\ flight'[p.by].n = flight[p.by].n
  <2>1. CASE flight' = flight
    BY <2>1
  <2>2. CASE flight' # flight
    <3>1. /\ Awaited(p) /\ flight[p.by] \in Flights
      BY <1>1, <2>2, PutFlight DEF Inv
    <3>2. \/ flight' = [flight EXCEPT ![p.by] = NoFlight]
          \/ flight' = [flight EXCEPT ![p.by].phase = "posted"]
          \/ flight' = [flight EXCEPT ![p.by].phase = "posted", ![p.by].try = 1]
      <4>1. CASE UploadLands(p)
        BY <2>2, <4>1 DEF UploadLands
      <4>2. CASE UploadFails(p)
        <5>1. p.stage = "broken" => Put(p.by, p.id, p.epoch, Number) \notin puts
          <6> SUFFICES ASSUME p.stage = "broken", NEW o \in puts, o = Put(p.by, p.id, p.epoch, Number)
                       PROVE  FALSE
            OBVIOUS
          <6>1. o.by = p.by /\ o.n = faults + 1 /\ o.stage # "broken"
            BY DEF Put, Number
          <6>2. Awaited(o)
            BY <1>1, <6>1, PutNumbers
          <6> QED
            BY <3>1, <6>1, <6>2 DEF Awaited, PutsInv
        <5> QED
          BY <2>2, <4>2, <5>1 DEF UploadFails
      <4> QED
        BY <2>2, <4>1, <4>2 DEF uploadFile, UploadVanishes
    <3>3. /\ flight \in [Devices -> Flights \cup {NoFlight}]
          /\ \A d \in Devices \ {p.by} : flight'[d] = flight[d]
          /\ \/ flight'[p.by] = NoFlight
             \/ flight'[p.by] = [flight[p.by] EXCEPT !.phase = "posted"]
             \/ flight'[p.by] = [flight[p.by] EXCEPT !.phase = "posted", !.try = 1]
      BY <1>1, <3>2 DEF Inv, TypeOK
    <3> QED
      BY <3>1, <3>3 DEF Flights
  <2> QED
    BY <2>1, <2>2
<1>3. \A d \in Devices : flight'[d].n = flight[d].n \/ flight'[d].n \in 0 .. (faults' + 1)
  <2>1. 0 \in 0 .. (faults' + 1)
    BY <1>1
  <2> QED
    BY <1>2, <2>1 DEF NoFlight
<1>4. ASSUME NEW r \in puts'
      PROVE  \/ flight'[r.by] = flight[r.by]
             \/ r.n <= faults' /\ ~(flight'[r.by].id = r.id /\ flight'[r.by].n = r.n)
  <2>1. r \in puts /\ r # p /\ r.by \in Devices /\ r.id \in Messages
    BY <1>4, PutNumbers
  <2>2. CASE r.by = p.by /\ Awaited(p)
    <3>1. ~Awaited(r)
      BY <2>1, <2>2 DEF Awaited, PutsInv
    <3>2. r.n <= faults
      BY <2>1, <3>1, PutNumbers
    <3> QED
      BY <1>1, <1>2, <2>1, <2>2, <3>1, <3>2 DEF Awaited, NoFlight
  <2> QED
    BY <1>2, <2>1, <2>2
<1> QED
  BY <1>1, <1>3, <1>4, PutsStay

\* An upload that broke is made again, under a new number.
LEMMA UploadAgainPuts ==
  ASSUME Inv, PutsInv, NEW p \in puts, UploadFails(p), Awaited(p), p.stage = "broken",
         flight' = [flight EXCEPT ![p.by].n = Number, ![p.by].try = @ + 1],
         puts' = (puts \ {p}) \cup {Put(p.by, p.id, p.epoch, Number)}
  PROVE  PutsInv'
<1> DEFINE d == p.by
<1>1. PICK r : r = Put(d, p.id, p.epoch, Number)
  OBVIOUS
<1>2. r.by = d /\ r.id = p.id /\ r.n = faults + 1 /\ r.epoch = p.epoch
  BY <1>1 DEF Put, Number
<1>3. UNCHANGED faults /\ faults \in Nat /\ d \in Devices /\ flight[d] \in Flights
  BY PutNumbers, PutIs DEF UploadFails, Inv
<1>4. flight[d].id = p.id /\ flight[d].phase = "uploading" /\ flight[d].epoch = p.epoch
  BY PutNumbers DEF Awaited
<1>5. /\ flight'[d].id = r.id /\ flight'[d].n = r.n /\ flight'[d].phase = "uploading"
      /\ flight'[d].epoch = r.epoch
      /\ \A e \in Devices \ {d} : flight'[e] = flight[e]
  BY <1>2, <1>3, <1>4 DEF Inv, TypeOK, Flights, Number
<1>6. ASSUME NEW o \in puts' \ {r}, o.by = d PROVE o.n <= faults' /\ o.n < r.n
  <2>1. o \in puts /\ o # p
    BY <1>1, <1>6
  <2>2. ~Awaited(o)
    BY <1>6, <2>1 DEF Awaited, PutsInv
  <2> QED
    BY <1>2, <1>3, <2>1, <2>2, PutNumbers
<1>7. puts' \subseteq puts \cup {r}
  BY <1>1
<1>8. /\ faults' \in Nat /\ faults <= faults' /\ d \in Devices
      /\ r.by = d /\ r.n \in Nat /\ r.n <= faults' + 1
  BY <1>2, <1>3
<1>9. \A o \in puts' \ {r} : o.by = d => o.n <= faults' /\ o.n < r.n
  BY <1>6
<1> HIDE DEF d
<1> QED
  BY <1>5, <1>7, <1>8, <1>9, PutsGrow

LEMMA PutsStepAll == ASSUME Inv, PutsInv, [Next]_vars PROVE PutsInv'
<1>1. ASSUME NEW p \in puts, PutStep(p) PROVE PutsInv'
  <2>1. CASE UploadBreaks(p)
    BY <2>1, UploadBreaksPuts
  <2>2. CASE uploadFile(p) \/ UploadVanishes(p)
    <3>1. CASE puts' = puts \ {p}
      BY <2>2, <3>1, UploadEndsPuts
    <3>2. CASE puts' # puts \ {p}
      <4>1. UploadFails(p)
        BY <2>2, <3>2 DEF uploadFile, UploadLands, UploadVanishes
      <4> QED
        BY <3>2, <4>1, UploadAgainPuts DEF UploadFails
    <3> QED
      BY <3>1, <3>2
  <2> QED
    BY <1>1, <2>1, <2>2 DEF PutStep
<1>2. ASSUME UNCHANGED <<puts, flight>>, faults' \in {faults, faults + 1} PROVE PutsInv'
  <2>1. faults' \in Nat /\ faults <= faults' /\ faults \in Nat
    BY <1>2, PutNumbers
  <2> QED
    BY <1>2, <2>1, PutsStay
<1>3. ASSUME NEW d \in Devices, Outbox(d) PROVE PutsInv'
  BY <1>3, FlushBeginPuts, AnswersPuts DEF Outbox
<1>4. ASSUME NEW d \in Devices, SendLost(d) \/ Reload(d) PROVE PutsInv'
  BY <1>4, FaultPuts
<1>5. ASSUME NEW d \in Devices, User(d) \/ Revoke(d) \/ Join(d) PROVE PutsInv'
  BY <1>2, <1>5 DEF User, Compose, DeleteEverywhere, QueueDeletion, DeleteLocally, RetryMessage, Revoke, Join
<1>6. ASSUME NEW d \in Devices, Sync(d) \/ \E j \in pass[d].jobs : JobFails(d, j) PROVE PutsInv'
  <2>1. CASE \E j \in pass[d].jobs : JobBegin(d, j) \/ JobGot(d, j) \/ JobAcked(d, j) \/ JobFails(d, j)
    BY <1>2, <2>1 DEF JobBegin, JobGot, JobAcked, JobFails
  <2>2. CASE \/ SyncPoll(d) \/ LoadDeletions(d) \/ TakePending(d) \/ LoopAcked(d) \/ SyncEnd(d)
             \/ UserAcked(d)
    BY <1>2, <2>2 DEF SyncPoll, LoadDeletions, TakePending, LoopAcked, SyncEnd, UserAcked
  <2> QED
    BY <1>6, <2>1, <2>2 DEF Sync
<1>7. ASSUME Sending \/ Acking \/ Purging \/ (\E a \in acks : AckLost(a)) \/ Rotate \/ UNCHANGED vars
      PROVE  PutsInv'
  BY <1>2, <1>7 DEF Sending, sendMessage, SendCheck, SendRecipients, SendBatch, Acking, ackMessage,
     AckUpdate, AckCount, Purging, PurgeDelivered, DeleteObject, AckLost, Rotate, vars
<1> QED
  BY <1>1, <1>3, <1>4, <1>5, <1>6, <1>7 DEF Next, PutStep

LEMMA PutsInit == Init => PutsInv
BY DEF Init, PutsInv, NoFlight

LEMMA PutsInvHolds == Spec => []PutsInv
BY InvHolds, PutsInit, PutsStepAll, PTL DEF Spec

(***************************************************************************)
(* The file of a message.                                                  *)
(***************************************************************************)
\* No flush gives up the post of a message with a file: its answer arrives and is saved
\* before the call is lost or the page closed.
PostsAreAnswered ==
  \A d \in Devices :
    flight[d].id \in WithFile /\ flight[d].phase \in {"posted", "saving"} => ~SendLost(d) /\ ~Reload(d)

\* The Worker is done with every upload of a message when the message is posted, whoever
\* still waits for the upload: what was given up has ended before another attempt succeeds.
StaleUploadsEnd == \A p \in puts, q \in sends : p.id # q.id

Offered == \A w \in waiting : w[1] \in Ids(stored)

\* The call q is the one its flush f waits for, and what it describes is what is stored.
PostOf(q, f, obj) ==
  /\ f.id = q.id /\ f.n = q.n /\ f.epoch = q.epoch /\ f.phase \in {"posted", "saving"}
  /\ f.phase = "saving" => q.stage \in Codes
  /\ q.stage \notin Codes => obj = q.epoch
FilePosts ==
  /\ \A q \in sends : q.id \in WithFile => PostOf(q, flight[q.by], object[q.id])
  /\ \A q, r \in sends : q.id = r.id /\ q.id \in WithFile => q = r

\* The message m may still be stored, and is known to its author only.
Pending(m) ==
  \/ \E d \in Devices : flight[d].id = m /\ flight[d].phase = "uploading"
  \/ \E p \in puts : p.id = m
  \/ \E q \in sends : q.id = m /\ q.stage \notin {"ok", "conflict"}
  \/ local[Author[m]][m] \in {"queued", "failed"} /\ \A q \in sends : q.id # m
Touched(m) ==
  \/ m \in Ids(stored) \cup doomed
  \/ \E d \in Devices : <<m, d>> \in seen \/ m \in Ids(pass[d].batch)
Once == \A m \in WithFile : /\ Touched(m) => m \in born
                            /\ Pending(m) => ~Touched(m)

\* A row of a batch, or a job, is of the row y that is stored, and so is the file.
Copies(x, y) == x.id = y.id => x.epoch = y.epoch
RowFits(y) ==
  /\ object[y.id] = y.epoch /\ y.id \notin doomed
  /\ \A d \in Devices : /\ \A k \in DOMAIN pass[d].batch : Copies(pass[d].batch[k], y)
                        /\ \A j \in pass[d].jobs : Copies(j, y)
RowsFit == \A i \in DOMAIN stored : stored[i].id \in WithFile => RowFits(stored[i])

\* Nobody has given up a file that is still offered.
NoneLost ==
  \A m \in WithFile, d \in Devices : <<m, d>> \in waiting =>
    /\ local[d][m] # "lost"
    /\ \A j \in pass[d].jobs : j.id = m => j.state # "lost"

FileInv == Offered /\ FilePosts /\ Once /\ RowsFit /\ NoneLost

LEMMA FilePost ==
  ASSUME Inv, FilePosts, NEW q \in sends
  PROVE  /\ q \in Calls /\ q.by \in Devices /\ q.id \in Messages /\ q.by = Author[q.id]
         /\ q.id \in WithFile => /\ Awaited(q) /\ flight[q.by].phase \in {"posted", "saving"}
                                 /\ PostOf(q, flight[q.by], object[q.id])
BY DEF Inv, TypeOK, ServerInv, Calls, FilePosts, PostOf, Awaited

\* Calls of files that go on, or end.
LEMMA PostsKept ==
  ASSUME Inv, FilePosts,
         \A r \in sends' : r.id \in WithFile =>
           \E q \in sends : /\ r.id = q.id /\ r.by = q.by /\ r.n = q.n /\ r.epoch = q.epoch
                            /\ r.stage \notin Codes => q.stage \notin Codes
                            /\ flight'[q.by] = flight[q.by] /\ object'[q.id] = object[q.id],
         \A r, s \in sends' : r.id = s.id /\ r.id \in WithFile => r = s
  PROVE  FilePosts'
<1>1. ASSUME NEW r \in sends', r.id \in WithFile
      PROVE  PostOf(r, flight'[r.by], object'[r.id])
  <2>1. PICK q \in sends : /\ r.id = q.id /\ r.by = q.by /\ r.n = q.n /\ r.epoch = q.epoch
                           /\ r.stage \notin Codes => q.stage \notin Codes
                           /\ flight'[q.by] = flight[q.by] /\ object'[q.id] = object[q.id]
    BY <1>1
  <2>2. PostOf(q, flight[q.by], object[q.id])
    BY <1>1, <2>1 DEF FilePosts
  <2> QED
    BY <2>1, <2>2 DEF PostOf
<1> QED
  BY <1>1 DEF FilePosts

\* Calls of files that stay.
LEMMA PostsStay ==
  ASSUME Inv, FilePosts, \A r \in sends' : r.id \in WithFile => r \in sends,
         \A q \in sends' : q.id \in WithFile =>
           flight'[q.by] = flight[q.by] /\ object'[q.id] = object[q.id]
  PROVE  FilePosts'
<1>1. \A r, s \in sends' : r.id = s.id /\ r.id \in WithFile => r = s
  BY DEF FilePosts
<1> QED
  BY <1>1, PostsKept

\* A device has no call for a file but the one it waits for.
LEMMA NoPostOf ==
  ASSUME Inv, FilePosts, NEW d \in Devices,
         flight[d].id \notin WithFile \/ flight[d].phase \notin {"posted", "saving"}
  PROVE  \A q \in sends : q.id \in WithFile => q.by # d
BY FilePost DEF Awaited

LEMMA FlushBeginPosts ==
  ASSUME Inv, FilePosts, NEW d \in Devices, NEW m \in Messages, FlushBegin(d, m) PROVE FilePosts'
<1>1. \A q \in sends : q.id \in WithFile => q.by # d
  BY NoPostOf DEF FlushBegin, NoFlight
<1>2. \A r \in sends' : r.id \in WithFile => r \in sends
  BY DEF FlushBegin, Call
<1>3. UNCHANGED object /\ \A e \in Devices \ {d} : flight'[e] = flight[e]
  BY DEF FlushBegin, Inv, TypeOK
<1> QED
  BY <1>1, <1>2, <1>3, FilePost, PostsStay

\* An upload is of a message without a call; where it lands, or is refused, the call begins.
LEMMA PutPosts ==
  ASSUME Inv, PutsInv, FilePosts, StaleUploadsEnd, NEW p \in puts, PutStep(p) PROVE FilePosts'
<1>1. p.by \in Devices /\ p.id \in Messages /\ TypeOK
  BY PutNumbers DEF Inv
<1>2. \A r \in sends : r.id # p.id
  BY DEF StaleUploadsEnd
<1>3. ASSUME NEW r \in sends, r.id \in WithFile PROVE PostOf(r, flight'[r.by], object'[r.id])
  <2>1. PostOf(r, flight[r.by], object[r.id]) /\ r.by \in Devices /\ r.id \in Messages \ {p.id}
    BY <1>2, <1>3, FilePost
  <2>2. object'[r.id] = object[r.id]
    BY <1>1, <2>1 DEF PutStep, uploadFile, UploadLands, UploadFails, UploadBreaks, UploadVanishes, TypeOK
  <2>3. flight'[r.by] = flight[r.by]
    <3>1. CASE r.by = p.by
      <4>1. ~Awaited(p)
        BY <2>1, <3>1 DEF PostOf, Awaited
      <4> QED
        BY <1>1, <4>1, PutFlight
    <3>2. CASE r.by # p.by
      BY <1>1, <2>1, <3>2, PutFlight
    <3> QED
      BY <3>1, <3>2
  <2> QED
    BY <2>1, <2>2, <2>3
<1>4. CASE sends' = sends
  BY <1>3, <1>4 DEF FilePosts
<1>5. ASSUME NEW q, sends' = sends \cup {q}, PostedFor(p, q), Awaited(p),
             q.stage = "sent" => object' = [object EXCEPT ![p.id] = p.epoch],
             flight'[p.by].phase = "posted", flight'[p.by].id = p.id, flight'[p.by].n = p.n,
             flight'[p.by].epoch = flight[p.by].epoch
      PROVE  FilePosts'
  <2>1. flight[p.by].epoch = p.epoch
    BY <1>5, PutNumbers
  <2>2. q.by = p.by /\ q.id = p.id /\ q.epoch = p.epoch /\ q.n = p.n /\ (q.stage \notin Codes => q.stage = "sent")
    BY <1>5 DEF PostedFor, Codes
  <2>3. q.stage = "sent" => object'[q.id] = q.epoch
    BY <1>1, <1>5, <2>2 DEF TypeOK
  <2>4. PostOf(q, flight'[q.by], object'[q.id])
    BY <1>5, <2>1, <2>2, <2>3 DEF PostOf
  <2>5. \A r, o \in sends' : r.id = o.id /\ r.id \in WithFile => r = o
    BY <1>2, <1>5, <2>2 DEF FilePosts
  <2> QED
    BY <1>3, <1>5, <2>4, <2>5 DEF FilePosts
<1> QED
  BY <1>1, <1>4, <1>5, PutSends

LEMMA AnswersPosts ==
  ASSUME Inv, FilePosts, NEW d \in Devices, SendAnswered(d) \/ AnswerSaved(d) PROVE FilePosts'
<1>1. PICK q \in sends :
        /\ q.by = d /\ Awaited(q)
        /\ \/ sends' = sends \ {q} /\ flight' = [flight EXCEPT ![d] = NoFlight]
           \/ /\ q.stage \in Codes /\ flight[d].phase = "posted" /\ UNCHANGED sends
              /\ flight' = [flight EXCEPT ![d].phase = "saving"]
  BY DEF SendAnswered, AnswerSaved
<1>2. UNCHANGED object /\ \A e \in Devices \ {d} : flight'[e] = flight[e]
  BY <1>1 DEF SendAnswered, AnswerSaved, Inv, TypeOK
<1>3. \A r \in sends : r.id \in WithFile /\ r.by = d => r = q
  BY <1>1, FilePost DEF Awaited, FilePosts
<1>4. CASE sends' = sends \ {q}
  BY <1>2, <1>3, <1>4, FilePost, PostsStay
<1>5. CASE /\ q.stage \in Codes /\ flight[d].phase = "posted" /\ UNCHANGED sends
           /\ flight' = [flight EXCEPT ![d].phase = "saving"]
  <2>1. flight'[d] = [flight[d] EXCEPT !.phase = "saving"] /\ flight[d] \in Flights
    BY <1>5, InFlight DEF Inv, TypeOK
  <2>2. ASSUME NEW r \in sends, r.id \in WithFile PROVE PostOf(r, flight'[r.by], object'[r.id])
    <3>1. PostOf(r, flight[r.by], object[r.id]) /\ r.by \in Devices
      BY <2>2, FilePost
    <3>2. CASE r.by = d
      BY <1>2, <1>3, <1>5, <2>1, <2>2, <3>1, <3>2 DEF PostOf, Flights
    <3> QED
      BY <1>2, <3>1, <3>2
  <2> QED
    BY <1>5, <2>2 DEF FilePosts
<1> QED
  BY <1>1, <1>4, <1>5

\* A flush whose call or upload fails, and a page that is closed, has no post for a file.
LEMMA FaultPosts ==
  ASSUME Inv, FilePosts, NEW d \in Devices, SendLost(d) \/ Reload(d), PostsAreAnswered PROVE FilePosts'
<1>1. \A q \in sends : q.id \in WithFile => q.by # d
  BY NoPostOf DEF PostsAreAnswered
<1>2. \A r \in sends' : r.id \in WithFile => r \in sends
  <2>1. flight[d].id \in WithFile => flight[d].phase # "posted" \/ ~SendLost(d)
    BY DEF PostsAreAnswered
  <2>2. /\ Unanswered(d) \subseteq sends
        /\ Reload(d) => sends' = Unanswered(d)
        /\ SendLost(d) => \/ sends' = Unanswered(d) \/ UNCHANGED sends
                          \/ /\ flight[d].phase = "posted"
                             /\ sends' = Unanswered(d) \cup {Call(d, flight[d].id, flight[d].epoch, Number')}
    BY DEF SendLost, Reload, Unanswered
  <2> QED
    BY <2>1, <2>2 DEF Call
<1>3. UNCHANGED object /\ \A e \in Devices \ {d} : flight'[e] = flight[e]
  BY DEF SendLost, Reload, Inv, TypeOK
<1> QED
  BY <1>1, <1>2, <1>3, FilePost, PostsStay

\* What the Worker makes of a call.
Moved(q, stage, to) == [q EXCEPT !.stage = stage, !.to = to]

LEMMA ReplyMoves ==
  ASSUME Inv, NEW q \in sends, NEW code, Reply(q, code)
  PROVE  \/ sends' = sends \ {q} /\ ~Awaited(q)
         \/ sends' = (sends \ {q}) \cup {Moved(q, code, q.to)}
<1>1. q \in Calls
  BY DEF Inv, TypeOK
<1>2. [q EXCEPT !.stage = code] = Moved(q, code, q.to)
  BY <1>1 DEF Moved, Calls
<1> QED
  BY <1>2 DEF Reply

\* A call in sends' is another, or what the Worker made of q.
LEMMA SendMoves ==
  ASSUME Inv, NEW q \in sends, sendMessage(q)
  PROVE  /\ UNCHANGED <<flight, object>>
         /\ q.stage \in {"sent", "checked", "ready"}
         /\ \A r \in sends' : \/ r \in sends \ {q}
                              \/ /\ r.id = q.id /\ r.by = q.by /\ r.n = q.n /\ r.epoch = q.epoch
                                 /\ r.stage \in {"checked", "ready"} \cup Codes
         /\ \A r, s \in sends' : r \in sends \ {q} \/ s \in sends \ {q} \/ r = s
         /\ sends \ {q} \subseteq sends'
         /\ Awaited(q) => \E r \in sends' : r.id = q.id
<1>1. q \in Calls
  BY DEF Inv, TypeOK
<1>2. PICK stage \in {"checked", "ready"} \cup Codes : \E to :
        \/ sends' = sends \ {q} /\ ~Awaited(q)
        \/ sends' = (sends \ {q}) \cup {Moved(q, stage, to)}
  <2>1. CASE SendCheck(q)
    <3>1. [q EXCEPT !.stage = "checked"] = Moved(q, "checked", q.to)
      BY <1>1 DEF Moved, Calls
    <3>2. Verdict(q) \in Codes \/ Verdict(q) = "checked"
      BY DEF Verdict, Codes
    <3> QED
      BY <2>1, <3>1, <3>2, ReplyMoves DEF SendCheck
  <2>2. CASE SendRecipients(q)
    <3>1. \/ Reply(q, "ok") \/ Reply(q, "bad_request")
          \/ sends' = (sends \ {q}) \cup {Moved(q, "ready", messageRecipients(q.by))}
      BY <2>2 DEF SendRecipients, Moved
    <3>2. "ok" \in Codes /\ "bad_request" \in Codes
      BY DEF Codes
    <3> QED
      BY <3>1, <3>2, ReplyMoves
  <2>3. CASE SendBatch(q)
    <3>1. Reply(q, "ok") \/ Reply(q, "conflict")
      BY <2>3 DEF SendBatch
    <3>2. "ok" \in Codes /\ "conflict" \in Codes
      BY DEF Codes
    <3> QED
      BY <3>1, <3>2, ReplyMoves
  <2> QED
    BY <2>1, <2>2, <2>3 DEF sendMessage
<1>3. PICK to : \/ sends' = sends \ {q} /\ ~Awaited(q)
                \/ sends' = (sends \ {q}) \cup {Moved(q, stage, to)}
  BY <1>2
<1>4. PICK new : new = Moved(q, stage, to)
  OBVIOUS
<1>5. new.id = q.id /\ new.by = q.by /\ new.n = q.n /\ new.epoch = q.epoch /\ new.stage = stage
  BY <1>1, <1>4 DEF Calls, Moved
<1>6. UNCHANGED <<flight, object>> /\ q.stage \in {"sent", "checked", "ready"}
  BY DEF sendMessage, SendCheck, SendRecipients, SendBatch
<1>7. /\ \A r \in sends' : r \in sends \ {q} \/ r = new
      /\ sends \ {q} \subseteq sends'
      /\ Awaited(q) => new \in sends'
  BY <1>3, <1>4
<1> QED
  BY <1>5, <1>6, <1>7

LEMMA SendingPosts ==
  ASSUME Inv, FilePosts, NEW q \in sends, sendMessage(q) PROVE FilePosts'
<1>1. q.stage \notin Codes
  BY SendMoves DEF Codes
<1>2. \A r \in sends' : r.id \in WithFile =>
           \E s \in sends : /\ r.id = s.id /\ r.by = s.by /\ r.n = s.n /\ r.epoch = s.epoch
                            /\ r.stage \notin Codes => s.stage \notin Codes
                            /\ flight'[s.by] = flight[s.by] /\ object'[s.id] = object[s.id]
  BY <1>1, SendMoves
<1>3. \A r, s \in sends' : r.id = s.id /\ r.id \in WithFile => r = s
  BY SendMoves DEF FilePosts
<1> QED
  BY <1>2, <1>3, PostsKept

LEMMA DeleteObjectPosts ==
  ASSUME Inv, FileInv, NEW m \in Messages, DeleteObject(m) PROVE FilePosts'
<1>1. UNCHANGED <<sends, flight>> /\ \A x \in Messages \ {m} : object'[x] = object[x]
  BY DEF DeleteObject, Inv, TypeOK
<1>2. ASSUME NEW q \in sends, q.id \in WithFile, q.stage \notin Codes PROVE q.id # m
  BY <1>2 DEF DeleteObject, FileInv, Once, Pending, Touched, Codes
<1>3. ASSUME NEW q \in sends, q.id \in WithFile PROVE PostOf(q, flight[q.by], object'[q.id])
  <2>1. PostOf(q, flight[q.by], object[q.id]) /\ q.id \in Messages
    BY <1>3, FilePost DEF FileInv
  <2> QED
    BY <1>1, <1>2, <1>3, <2>1 DEF PostOf
<1> QED
  BY <1>1, <1>3 DEF FileInv, FilePosts

LEMMA PostsStepAll ==
  ASSUME Inv, PutsInv, FileInv, [Next]_vars, PostsAreAnswered, StaleUploadsEnd PROVE FilePosts'
<1>0. FilePosts
  BY DEF FileInv
<1>1. UNCHANGED <<sends, flight, object>> => FilePosts'
  BY <1>0 DEF FilePosts
<1>2. ASSUME NEW d \in Devices, User(d) PROVE FilePosts'
  BY <1>1, <1>2 DEF User, Compose, DeleteEverywhere, QueueDeletion, DeleteLocally, RetryMessage, Ack
<1>3. ASSUME NEW d \in Devices, Outbox(d) PROVE FilePosts'
  BY <1>0, <1>3, FlushBeginPosts, AnswersPosts DEF Outbox
<1>4. ASSUME NEW d \in Devices, Sync(d) PROVE FilePosts'
  <2>1. CASE \E j \in pass[d].jobs : JobBegin(d, j) \/ JobGot(d, j) \/ JobAcked(d, j)
    BY <1>1, <2>1 DEF JobBegin, JobGot, JobAcked
  <2>2. CASE \/ SyncPoll(d) \/ LoadDeletions(d) \/ TakePending(d) \/ LoopAcked(d) \/ SyncEnd(d)
             \/ UserAcked(d)
    BY <1>1, <2>2 DEF SyncPoll, LoadDeletions, TakePending, LoopAcked, SyncEnd, UserAcked
  <2> QED
    BY <1>4, <2>1, <2>2 DEF Sync
<1>5. ASSUME NEW d \in Devices, SendLost(d) \/ Reload(d) PROVE FilePosts'
  BY <1>0, <1>5, FaultPosts
<1>6. ASSUME NEW d \in Devices, Revoke(d) \/ Join(d) \/ \E j \in pass[d].jobs : JobFails(d, j)
      PROVE  FilePosts'
  BY <1>1, <1>6 DEF Revoke, Join, JobFails
<1>7. ASSUME Sending PROVE FilePosts'
  BY <1>0, <1>7, SendingPosts DEF Sending
<1>8. ASSUME Acking \/ PurgeDelivered PROVE FilePosts'
  BY <1>1, <1>8 DEF Acking, ackMessage, AckUpdate, AckCount, PurgeDelivered
<1>9. ASSUME (\E a \in acks : AckLost(a)) \/ Rotate \/ UNCHANGED vars PROVE FilePosts'
  BY <1>1, <1>9 DEF AckLost, Rotate, vars
<1>10. ASSUME NEW p \in puts, PutStep(p) PROVE FilePosts'
  BY <1>0, <1>10, PutPosts
<1> QED
  BY <1>2, <1>3, <1>4, <1>5, <1>6, <1>7, <1>8, <1>9, <1>10, DeleteObjectPosts DEF Next, PutStep, Purging

\* How a step may change a pass.
LEMMA PassMoves ==
  ASSUME Inv, [Next]_vars, NEW d \in Devices
  PROVE  /\ \A k \in DOMAIN pass'[d].batch :
              \/ \E i \in DOMAIN pass[d].batch : pass'[d].batch[k] = pass[d].batch[i]
              \/ \E i \in DOMAIN stored : pass'[d].batch[k] = stored[i]
         /\ \A j \in pass'[d].jobs :
              \/ \E l \in pass[d].jobs :
                   /\ j.id = l.id /\ j.epoch = l.epoch
                   /\ j.state = "lost" => l.state = "lost" \/ object[j.id] # j.epoch
              \/ \E i \in DOMAIN pass[d].batch :
                   /\ j.id = pass[d].batch[i].id /\ j.epoch = pass[d].batch[i].epoch
                   /\ j.state = "lost" => local[d][j.id] = "lost"
<1> DEFINE p == pass[d]
           q == pass'[d]
           Batch == \A k \in DOMAIN q.batch : \/ \E i \in DOMAIN p.batch : q.batch[k] = p.batch[i]
                                              \/ \E i \in DOMAIN stored : q.batch[k] = stored[i]
           Old(j) == \E l \in p.jobs : /\ j.id = l.id /\ j.epoch = l.epoch
                                       /\ j.state = "lost" => l.state = "lost" \/ object[j.id] # j.epoch
           Taken(j) == \E i \in DOMAIN p.batch : /\ j.id = p.batch[i].id /\ j.epoch = p.batch[i].epoch
                                                 /\ j.state = "lost" => local[d][j.id] = "lost"
           Right == Batch /\ \A j \in q.jobs : Old(j) \/ Taken(j)
<1>0. p \in Passes /\ p.batch \in Seq(Rows) /\ p.jobs \subseteq Jobs
  BY DEF Inv, TypeOK, Passes
<1>1. q = p => Right
  OBVIOUS
<1>2. ASSUME q.batch = p.batch \/ q.batch = <<>>, \A j \in q.jobs : j \in p.jobs \/ Old(j) PROVE Right
  BY <1>2
<1>3. ASSUME NEW e \in Devices, UNCHANGED pass \/ \E r : pass' = [pass EXCEPT ![e] = r], e # d PROVE Right
  BY <1>1, <1>3 DEF Inv, TypeOK
<1>4. ASSUME UNCHANGED pass PROVE Right
  BY <1>1, <1>4
<1>5. ASSUME SyncPoll(d) PROVE Right
  <2> DEFINE K == {i \in DOMAIN stored : <<stored[i].id, d>> \in waiting}
             mine == At(stored, K)
             r == [NoPass EXCEPT !.phase = "polled", !.batch = mine]
  <2>1. r.batch = mine /\ r.jobs = {}
    BY DEF NoPass
  <2>2. K \in SUBSET DOMAIN stored /\ stored \in Seq(Rows)
    BY DEF Inv, TypeOK
  <2>3. pass' = [pass EXCEPT ![d] = r]
    BY <1>5 DEF SyncPoll
  <2> HIDE DEF K
  <2>4. \A k \in DOMAIN mine : \E i \in DOMAIN stored : mine[k] = stored[i]
    BY <2>2, AtRows
  <2> HIDE DEF r, mine
  <2>5. q = r
    BY <2>3 DEF Inv, TypeOK
  <2> QED
    BY <2>1, <2>4, <2>5
<1>6. ASSUME LoadDeletions(d) PROVE Right
  <2>1. q = [p EXCEPT !.phase = "reading", !.dels = deleted[d]]
    BY <1>6 DEF LoadDeletions, Inv, TypeOK
  <2>2. q.batch = p.batch /\ q.jobs = p.jobs
    BY <1>0, <2>1 DEF Passes
  <2> HIDE DEF p, q, Right, Old
  <2> QED
    BY <1>2, <2>2
<1>7. ASSUME TakePending(d) PROVE Right
  <2> DEFINE x == Head(p.batch)
             done == [p EXCEPT !.batch = Tail(p.batch)]
             state == IF local[d][x.id] # "absent" THEN local[d][x.id]
                      ELSE IF x.id \in WithFile THEN "remote" ELSE "held"
             new == Job(x, state, x.id \in acked[d])
             more == [done EXCEPT !.jobs = @ \cup {new}]
  <2>1. p.batch # <<>>
    BY <1>7 DEF TakePending
  <2>2. /\ 1 \in DOMAIN p.batch /\ x = p.batch[1] /\ Tail(p.batch) \in Seq(Rows)
        /\ \A k \in DOMAIN Tail(p.batch) : k + 1 \in DOMAIN p.batch /\ Tail(p.batch)[k] = p.batch[k + 1]
    BY <1>0, <2>1, TailRows
  <2>3. done.batch = Tail(p.batch) /\ done.jobs = p.jobs /\ done \in Passes
    BY <1>0, <2>2 DEF Passes
  <2>4. more.batch = Tail(p.batch) /\ more.jobs = p.jobs \cup {new}
    <3> HIDE DEF done, new
    <3> QED
      BY <2>3 DEF Passes
  <2>5. new.id = x.id /\ new.epoch = x.epoch /\ new.state = state
    BY DEF Job
  <2>6. state = "lost" => local[d][x.id] = "lost"
    OBVIOUS
  <2>7. pass' = [pass EXCEPT ![d] = done] \/ pass' = [pass EXCEPT ![d] = more]
    BY <1>7 DEF TakePending
  <2> HIDE DEF x, done, state, new, more
  <2>8. q = done \/ q = more
    BY <2>7 DEF Inv, TypeOK
  <2>9. Taken(new)
    BY <2>2, <2>5, <2>6
  <2>10. Batch
    <3>1. q.batch = Tail(p.batch)
      BY <2>3, <2>4, <2>8
    <3> HIDE DEF p, q
    <3> QED
      BY <2>2, <3>1
  <2>11. \A j \in q.jobs : j \in p.jobs \/ j = new
    BY <2>3, <2>4, <2>8
  <2> QED
    BY <2>9, <2>10, <2>11
<1>8. ASSUME SyncEnd(d) \/ Reload(d) PROVE Right
  <2>1. q = NoPass
    BY <1>8 DEF SyncEnd, Reload, Inv, TypeOK
  <2> QED
    BY <2>1 DEF NoPass
<1>9. ASSUME NEW j \in p.jobs, JobBegin(d, j) \/ JobGot(d, j) \/ JobFails(d, j) \/ JobAcked(d, j)
      PROVE  Right
  <2>1. j \in Jobs
    BY <1>0
  <2>2. PICK new : JobBecomes(d, j, new) /\ \A l \in new : l \in p.jobs \/ Old(l)
    <3>1. CASE JobGot(d, j)
      <4> DEFINE k == [j EXCEPT !.state = IF object[j.id] = j.epoch THEN "held" ELSE "lost",
                                !.stage = "acking"]
      <4>1. k.id = j.id /\ k.epoch = j.epoch /\ k.state = IF object[j.id] = j.epoch THEN "held" ELSE "lost"
        BY <2>1 DEF Jobs
      <4>2. JobBecomes(d, j, {k})
        BY <3>1 DEF JobGot
      <4> HIDE DEF k
      <4>3. Old(k)
        BY <1>9, <4>1
      <4> QED
        BY <4>2, <4>3
    <3>2. CASE JobBegin(d, j)
      <4>1. ASSUME NEW stage PROVE Old([j EXCEPT !.stage = stage])
        <5>1. [j EXCEPT !.stage = stage].id = j.id /\ [j EXCEPT !.stage = stage].epoch = j.epoch
              /\ [j EXCEPT !.stage = stage].state = j.state
          BY <2>1 DEF Jobs
        <5> QED
          BY <1>9, <5>1
      <4>2. CASE JobBecomes(d, j, {})
        BY <4>2
      <4>3. ASSUME NEW stage, JobBecomes(d, j, {[j EXCEPT !.stage = stage]})
            PROVE  \E new : JobBecomes(d, j, new) /\ \A l \in new : l \in p.jobs \/ Old(l)
        <5>1. PICK k : k = [j EXCEPT !.stage = stage]
          OBVIOUS
        <5>2. Old(k) /\ JobBecomes(d, j, {k})
          BY <4>1, <4>3, <5>1
        <5> HIDE DEF Old, p
        <5> QED
          BY <5>2
      <4> HIDE DEF Old, p
      <4> QED
        BY <3>2, <4>2, <4>3 DEF JobBegin
    <3>3. CASE JobBecomes(d, j, {})
      BY <3>3
    <3> QED
      BY <1>9, <3>1, <3>2, <3>3 DEF JobFails, JobAcked
  <2>3. q = [p EXCEPT !.jobs = (@ \ {j}) \cup new]
    BY <2>2 DEF JobBecomes, Inv, TypeOK
  <2>4. q.batch = p.batch /\ q.jobs = (p.jobs \ {j}) \cup new
    BY <1>0, <2>3 DEF Passes
  <2> HIDE DEF p, q, Old, Right
  <2> QED
    BY <1>2, <2>2, <2>4
<1>10. ASSUME NEW e \in Devices, Sync(e) \/ Reload(e) \/ \E j \in pass[e].jobs : JobFails(e, j)
       PROVE  Right
  <2>1. CASE e = d
    <3>1. LoopAcked(d) \/ UserAcked(d) => UNCHANGED pass
      BY DEF LoopAcked, UserAcked
    <3>2. (\E j \in p.jobs : JobBegin(d, j) \/ JobGot(d, j) \/ JobFails(d, j) \/ JobAcked(d, j)) => Right
      <4> HIDE DEF Right, p
      <4> QED
        BY <1>9
    <3>3. \/ \E j \in p.jobs : JobBegin(d, j) \/ JobGot(d, j) \/ JobFails(d, j) \/ JobAcked(d, j)
          \/ SyncPoll(d) \/ LoadDeletions(d) \/ TakePending(d) \/ LoopAcked(d) \/ SyncEnd(d)
          \/ UserAcked(d) \/ Reload(d)
      BY <1>10, <2>1 DEF Sync
    <3> HIDE DEF Right, p
    <3> QED
      BY <1>4, <1>5, <1>6, <1>7, <1>8, <3>1, <3>2, <3>3
  <2>2. CASE e # d
    <3>1. UNCHANGED pass \/ \E r : pass' = [pass EXCEPT ![e] = r]
      <4>1. CASE \E j \in pass[e].jobs : JobBegin(e, j) \/ JobGot(e, j) \/ JobAcked(e, j) \/ JobFails(e, j)
        BY <4>1 DEF JobBegin, JobGot, JobAcked, JobFails, JobBecomes
      <4>2. CASE \/ SyncPoll(e) \/ LoadDeletions(e) \/ TakePending(e) \/ LoopAcked(e) \/ SyncEnd(e)
                 \/ UserAcked(e) \/ Reload(e)
        BY <4>2 DEF SyncPoll, LoadDeletions, TakePending, LoopAcked, SyncEnd, UserAcked, Reload
      <4> QED
        BY <1>10, <4>1, <4>2 DEF Sync
    <3> HIDE DEF Right
    <3> QED
      BY <1>3, <2>2, <3>1
  <2> QED
    BY <2>1, <2>2
<1>11. ASSUME NEW e \in Devices, User(e) \/ Outbox(e) \/ SendLost(e) \/ Revoke(e) \/ Join(e)
       PROVE  Right
  <2>1. UNCHANGED pass
    BY <1>11 DEF User, Compose, DeleteEverywhere, QueueDeletion, DeleteLocally, RetryMessage, Outbox, FlushBegin,
       SendAnswered, AnswerSaved, SendLost, Revoke, Join
  <2> HIDE DEF Right
  <2> QED
    BY <1>4, <2>1
<1>12. ASSUME Sending \/ Acking \/ Purging \/ (\E a \in acks : AckLost(a)) \/ Rotate \/ UNCHANGED vars
       PROVE  Right
  <2>1. UNCHANGED pass
    BY <1>12 DEF Sending, sendMessage, SendCheck, SendRecipients, SendBatch, Acking, ackMessage,
       AckUpdate, AckCount, Purging, PurgeDelivered, DeleteObject, AckLost, Rotate, vars
  <2> HIDE DEF Right
  <2> QED
    BY <1>4, <2>1
<1>13. ASSUME NEW r \in puts, PutStep(r) PROVE Right
  <2>1. UNCHANGED pass
    BY <1>13, PutKeeps
  <2> HIDE DEF Right
  <2> QED
    BY <1>4, <2>1
<1>14. Right
  <2> HIDE DEF Right
  <2> QED
    BY <1>10, <1>11, <1>12, <1>13 DEF Next, PutStep
<1> QED
  BY <1>14

\* The messages table and the doomed files: rows leave, and their files are doomed; only
\* the batch of a call adds a row, and only a call without recipients dooms its own file.
LEMMA TableMoves ==
  ASSUME Inv, [Next]_vars
  PROVE  \/ /\ UNCHANGED stored /\ waiting' \subseteq waiting /\ doomed' \subseteq doomed
         \/ \E S : /\ S \subseteq Ids(stored) /\ stored' = Without(stored, S)
                   /\ waiting' \subseteq {w \in waiting : w[1] \notin S}
                   /\ \/ doomed' \subseteq doomed \cup S
                      \/ \E q \in sends : SendRecipients(q) /\ Reply(q, "ok") /\ doomed' \subseteq doomed \cup S \cup {q.id}
                   /\ {w \in waiting : w[1] \notin S} \subseteq waiting'
         \/ \E q \in sends : /\ SendBatch(q) /\ Reply(q, "ok") /\ q.id \notin Ids(stored)
                             /\ stored' = Append(stored, [id |-> q.id, epoch |-> q.epoch])
                             /\ waiting' = waiting \cup ({q.id} \X q.to) /\ UNCHANGED doomed
<1> DEFINE Same == UNCHANGED stored /\ waiting' \subseteq waiting /\ doomed' \subseteq doomed
           Drops == \E S : /\ S \subseteq Ids(stored) /\ stored' = Without(stored, S)
                   /\ waiting' \subseteq {w \in waiting : w[1] \notin S}
                   /\ \/ doomed' \subseteq doomed \cup S
                      \/ \E q \in sends : SendRecipients(q) /\ Reply(q, "ok") /\ doomed' \subseteq doomed \cup S \cup {q.id}
                   /\ {w \in waiting : w[1] \notin S} \subseteq waiting'
           Adds == \E q \in sends : /\ SendBatch(q) /\ Reply(q, "ok") /\ q.id \notin Ids(stored)
                             /\ stored' = Append(stored, [id |-> q.id, epoch |-> q.epoch])
                             /\ waiting' = waiting \cup ({q.id} \X q.to) /\ UNCHANGED doomed
           Right == Same \/ Drops \/ Adds
<1>1. UNCHANGED <<stored, waiting, doomed>> => Right
  OBVIOUS
<1>2. ASSUME NEW S, S \subseteq Ids(stored), Drop(S) PROVE Right
  BY <1>2 DEF Drop
<1>3. ASSUME NEW q \in sends, SendRecipients(q) PROVE Right
  <2> DEFINE gone == {Target[q.id]} \cap Ids(stored)
  <2>1. /\ stored' = Without(stored, gone) /\ waiting' = {w \in waiting : w[1] \notin gone}
        /\ gone \subseteq Ids(stored)
    BY <1>3 DEF SendRecipients
  <2>2. \/ doomed' = doomed \cup (gone \cap WithFile)
        \/ Reply(q, "ok") /\ doomed' = doomed \cup (gone \cap WithFile) \cup ({q.id} \cap WithFile)
    BY <1>3 DEF SendRecipients
  <2> HIDE DEF gone
  <2> QED
    BY <1>3, <2>1, <2>2
<1>4. ASSUME NEW q \in sends, SendBatch(q) PROVE Right
  <2>1. Adds \/ UNCHANGED <<stored, waiting, doomed>>
    BY <1>4 DEF SendBatch
  <2> HIDE DEF Adds
  <2> QED
    BY <2>1
<1> HIDE DEF Right
<1>5. ASSUME NEW a \in acks, AckCount(a) PROVE Right
  BY <1>1, <1>2, <1>5 DEF AckCount
<1>6. ASSUME PurgeDelivered PROVE Right
  BY <1>2, <1>6 DEF PurgeDelivered
<1>7. ASSUME \/ \E a \in acks : AckUpdate(a)
             \/ \E m \in Messages : DeleteObject(m)
             \/ \E d \in Devices : Revoke(d)
      PROVE  Right
  BY <1>7 DEF AckUpdate, DeleteObject, Revoke, Right
<1>8. ASSUME NEW d \in Devices, User(d) \/ Outbox(d) \/ SendLost(d) \/ Reload(d) \/ Join(d)
      PROVE  Right
  BY <1>1, <1>8 DEF User, Compose, DeleteEverywhere, QueueDeletion, DeleteLocally, RetryMessage,
     Outbox, FlushBegin, SendAnswered, AnswerSaved, SendLost, Reload, Join
<1>9. ASSUME NEW d \in Devices, Sync(d) \/ \E j \in pass[d].jobs : JobFails(d, j) PROVE Right
  <2>1. CASE \E j \in pass[d].jobs : JobBegin(d, j) \/ JobGot(d, j) \/ JobAcked(d, j) \/ JobFails(d, j)
    BY <1>1, <2>1 DEF JobBegin, JobGot, JobAcked, JobFails
  <2>2. CASE \/ SyncPoll(d) \/ LoadDeletions(d) \/ TakePending(d) \/ LoopAcked(d) \/ SyncEnd(d)
             \/ UserAcked(d)
    BY <1>1, <2>2 DEF SyncPoll, LoadDeletions, TakePending, LoopAcked, SyncEnd, UserAcked
  <2> QED
    BY <1>9, <2>1, <2>2 DEF Sync
<1>10. ASSUME \/ \E a \in acks : AckLost(a)
              \/ \E q \in sends : SendCheck(q)
              \/ Rotate \/ UNCHANGED vars
       PROVE  Right
  BY <1>1, <1>10 DEF AckLost, SendCheck, Rotate, vars
<1>13. ASSUME NEW p \in puts, PutStep(p) PROVE Right
  BY <1>1, <1>13, PutKeeps
<1>11. Right
  BY <1>3, <1>4, <1>5, <1>6, <1>7, <1>8, <1>9, <1>10, <1>13
     DEF Next, PutStep, Sending, sendMessage, Acking, ackMessage, Purging
<1> HIDE DEF Same, Drops, Adds
<1>12. Same \/ Drops \/ Adds
  BY <1>11 DEF Right
<1> QED
  BY <1>12 DEF Same, Drops, Adds

\* The call that a file message has been stored, or doomed, by.
Settles(q, m) ==
  /\ q.id = m /\ q.stage \in {"checked", "ready"}
  /\ UNCHANGED <<flight, puts>>
  /\ \A r \in sends' : r.id = m => r.stage = "ok"
  /\ \E r \in sends' : r.id = m

LEMMA ReplySettles ==
  ASSUME Inv, FilePosts, NEW q \in sends, q.id \in WithFile, Reply(q, "ok"),
         SendRecipients(q) \/ SendBatch(q)
  PROVE  Settles(q, q.id)
<1>1. q \in Calls /\ Awaited(q)
  BY FilePost
<1>2. PICK new : new = Moved(q, "ok", q.to)
  OBVIOUS
<1>3. sends' = (sends \ {q}) \cup {new}
  BY <1>1, <1>2, ReplyMoves
<1>4. new.id = q.id /\ new.stage = "ok"
  BY <1>1, <1>2 DEF Moved, Calls
<1>5. \A r \in sends : r.id = q.id => r = q
  BY DEF FilePosts
<1>6. UNCHANGED <<flight, puts>> /\ q.stage \in {"checked", "ready"}
  BY DEF SendRecipients, SendBatch
<1> QED
  BY <1>3, <1>4, <1>5, <1>6 DEF Settles

\* A file message becomes known to more than its author by the one call it has.
LEMMA TouchedStep ==
  ASSUME Inv, FileInv, [Next]_vars, NEW m \in WithFile, Touched(m)'
  PROVE  Touched(m) \/ \E q \in sends : Settles(q, m)
<1> DEFINE Right == Touched(m) \/ \E q \in sends : Settles(q, m)
<1>0. FilePosts
  BY DEF FileInv
<1>1. ASSUME m \in Ids(stored)' \cup doomed' PROVE Right
  <2>1. CASE UNCHANGED stored /\ doomed' \subseteq doomed
    BY <1>1, <2>1 DEF Touched, Ids
  <2>2. ASSUME NEW S, S \subseteq Ids(stored), stored' = Without(stored, S), doomed' \subseteq doomed \cup S
        PROVE  Right
    <3>1. Ids(stored)' \subseteq Ids(stored)
      BY <2>2, DroppedIds DEF Ids
    <3> QED
      BY <1>1, <2>2, <3>1 DEF Touched
  <2>3. ASSUME NEW S, S \subseteq Ids(stored), stored' = Without(stored, S),
               NEW q \in sends, SendRecipients(q), Reply(q, "ok"), doomed' \subseteq doomed \cup S \cup {q.id}
        PROVE  Right
    <3>1. Ids(stored)' \subseteq Ids(stored)
      BY <2>3, DroppedIds DEF Ids
    <3>2. q.id = m => Settles(q, m)
      BY <1>0, <2>3, ReplySettles
    <3> QED
      BY <1>1, <2>3, <3>1, <3>2 DEF Touched
  <2>4. ASSUME NEW q \in sends, SendBatch(q), Reply(q, "ok"), UNCHANGED doomed,
               stored' = Append(stored, [id |-> q.id, epoch |-> q.epoch])
        PROVE  Right
    <3>1. Ids(stored)' \subseteq Ids(stored) \cup {q.id}
      <4>1. stored \in Seq(Rows) /\ [id |-> q.id, epoch |-> q.epoch] \in Rows
        BY FilePost, <1>0 DEF Inv, TypeOK, Calls, Rows
      <4> QED
        BY <2>4, <4>1, AppendRow DEF Ids
    <3>2. q.id = m => Settles(q, m)
      BY <1>0, <2>4, ReplySettles
    <3> QED
      BY <1>1, <2>4, <3>1, <3>2 DEF Touched
  <2> HIDE DEF Right
  <2> QED
    BY <2>1, <2>2, <2>3, <2>4, TableMoves
<1>2. ASSUME NEW d \in Devices, <<m, d>> \in seen' PROVE Right
  <2>1. CASE <<m, d>> \in seen
    BY <2>1 DEF Touched
  <2>2. ASSUME NEW e \in Devices, TakePending(e), <<m, d>> \notin seen PROVE Right
    <3>0. pass[e].batch # <<>> /\ seen' \in {seen, seen \cup {<<Head(pass[e].batch).id, e>>}}
      BY <2>2, ZenonT(90) DEF TakePending
    <3>1. pass[e].batch # <<>> /\ m = Head(pass[e].batch).id
      BY <1>2, <2>2, <3>0
    <3>2. pass[e].batch \in Seq(Rows)
      BY DEF Inv, TypeOK, Passes
    <3>3. m \in Ids(pass[e].batch)
      BY <3>1, <3>2, TailRows DEF Ids
    <3> QED
      BY <3>3 DEF Touched
  <2>3. UNCHANGED seen \/ \E e \in Devices : TakePending(e)
    <3>1. ASSUME NEW e \in Devices, User(e) \/ Outbox(e) \/ SendLost(e) \/ Reload(e) \/ Revoke(e) \/ Join(e)
          PROVE  UNCHANGED seen
      BY <3>1 DEF User, Compose, DeleteEverywhere, QueueDeletion, DeleteLocally, RetryMessage, Outbox, FlushBegin,
         SendAnswered, AnswerSaved, SendLost, Reload, Revoke, Join
    <3>2. ASSUME NEW e \in Devices, NEW j \in pass[e].jobs,
                 JobBegin(e, j) \/ JobGot(e, j) \/ JobFails(e, j) \/ JobAcked(e, j)
          PROVE  UNCHANGED seen
      BY <3>2 DEF JobBegin, JobGot, JobFails, JobAcked
    <3>3. ASSUME NEW e \in Devices, SyncPoll(e) \/ LoadDeletions(e) \/ LoopAcked(e) \/ SyncEnd(e) \/ UserAcked(e)
          PROVE  UNCHANGED seen
      BY <3>3 DEF SyncPoll, LoadDeletions, LoopAcked, SyncEnd, UserAcked
    <3>4. ASSUME Sending \/ Acking \/ Purging \/ (\E a \in acks : AckLost(a)) \/ Rotate \/ UNCHANGED vars
          PROVE  UNCHANGED seen
      BY <3>4 DEF Sending, sendMessage, SendCheck, SendRecipients, SendBatch, Acking, ackMessage,
         AckUpdate, AckCount, Purging, PurgeDelivered, DeleteObject, AckLost, Rotate, vars
    <3>5. ASSUME NEW p \in puts, PutStep(p) PROVE UNCHANGED seen
      BY <3>5, PutKeeps
    <3> QED
      BY <3>1, <3>2, <3>3, <3>4, <3>5 DEF Next, PutStep, Sync
  <2> QED
    BY <1>2, <2>1, <2>2, <2>3
<1>3. ASSUME NEW d \in Devices, m \in Ids(pass'[d].batch) PROVE Right
  <2>1. PICK k \in DOMAIN pass'[d].batch : pass'[d].batch[k].id = m
    BY <1>3 DEF Ids
  <2>2. m \in Ids(pass[d].batch) \/ m \in Ids(stored)
    BY <2>1, PassMoves DEF Ids
  <2> QED
    BY <2>2 DEF Touched
<1> QED
  BY <1>1, <1>2, <1>3 DEF Touched, Ids

\* A flush of d that begins is of a queued message, which has no call if it has a file.
LEMMA BeginIsPending ==
  ASSUME Inv, FilePosts, NEW d \in Devices, NEW m \in WithFile, FlushBegin(d, m)
  PROVE  Pending(m)
<1>1. m \in Messages /\ local[d][m] = "queued"
  BY DEF FlushBegin
<1>2. Author[m] = d
  BY <1>1 DEF Inv, HistoryInv, Cell, Incoming
<1>3. \A q \in sends : q.id # m
  BY <1>2, NoPostOf, FilePost DEF FlushBegin, NoFlight
<1> QED
  BY <1>1, <1>2, <1>3 DEF Pending

\* Only a flush that begins is uploading anew.
LEMMA UploadingStep ==
  ASSUME Inv, PutsInv, FilePosts, [Next]_vars, NEW d \in Devices, flight'[d].phase = "uploading",
         flight'[d].id \in WithFile
  PROVE  Pending(flight'[d].id)
<1> DEFINE m == flight'[d].id
           Right == Pending(m)
<1>1. flight'[d] = flight[d] => Right
  BY DEF Pending
<1>2. ASSUME NEW e \in Devices, NEW x \in Messages, FlushBegin(e, x) PROVE Right
  <2>1. CASE e # d
    BY <1>1, <1>2, <2>1 DEF FlushBegin, Inv, TypeOK
  <2>2. CASE e = d
    <3>1. m = x
      BY <1>2, <2>2 DEF FlushBegin, Inv, TypeOK
    <3> QED
      BY <1>2, <3>1, BeginIsPending
  <2> QED
    BY <2>1, <2>2
<1>3. ASSUME NEW e \in Devices, SendAnswered(e) \/ AnswerSaved(e) \/ SendLost(e) \/ Reload(e)
      PROVE  Right
  <2>1. CASE e # d
    <3>1. UNCHANGED flight[d]
      BY <1>3, <2>1 DEF SendAnswered, AnswerSaved, SendLost, Reload, Inv, TypeOK
    <3> QED
      BY <1>1, <3>1
  <2>2. CASE e = d
    <3>1. CASE flight'[d] = NoFlight \/ flight'[d] = flight[d]
      BY <1>1, <3>1 DEF NoFlight
    <3>2. CASE \E p \in {"posted", "saving"} : flight'[d] = [flight[d] EXCEPT !.phase = p] /\ flight[d] \in Flights
      BY <3>2 DEF Flights
    <3>3. CASE flight[d] \in Flights /\ flight'[d] = [flight[d] EXCEPT !.n = Number', !.try = flight[d].try + 1]
      <4>1. flight'[d].phase = flight[d].phase /\ flight'[d].id = flight[d].id
        BY <3>3 DEF Flights
      <4> QED
        BY <4>1 DEF Pending
    <3>4. flight[d].phase # "idle" => flight[d] \in Flights
      BY InFlight DEF Inv
    <3>6. CASE SendAnswered(d)
      <4>1. flight[d].phase # "idle"
            /\ (flight'[d] = [flight[d] EXCEPT !.phase = "saving"] \/ flight'[d] = NoFlight)
        BY <3>6 DEF SendAnswered, Inv, TypeOK
      <4> QED
        BY <3>1, <3>2, <3>4, <4>1
    <3>7. CASE AnswerSaved(d) \/ Reload(d)
      <4>1. flight'[d] = NoFlight
        BY <3>7 DEF AnswerSaved, Reload, Inv, TypeOK
      <4> QED
        BY <3>1, <4>1
    <3>8. CASE SendLost(d)
      <4>1. flight[d].phase # "idle" /\
            \/ flight'[d] = NoFlight
            \/ flight'[d] = [flight[d] EXCEPT !.n = Number', !.try = flight[d].try + 1]
        BY <3>8 DEF SendLost, Inv, TypeOK
      <4> QED
        BY <3>1, <3>3, <3>4, <4>1
    <3> QED
      BY <1>3, <2>2, <3>6, <3>7, <3>8
  <2> QED
    BY <2>1, <2>2
<1>4. ASSUME UNCHANGED flight PROVE Right
  BY <1>1, <1>4
<1> HIDE DEF Right
<1>5. ASSUME NEW e \in Devices, User(e) \/ Revoke(e) \/ Join(e) PROVE Right
  BY <1>4, <1>5 DEF User, Compose, DeleteEverywhere, QueueDeletion, DeleteLocally, RetryMessage, Revoke, Join
<1>6. ASSUME NEW e \in Devices, Sync(e) \/ \E j \in pass[e].jobs : JobFails(e, j) PROVE Right
  <2>1. CASE \E j \in pass[e].jobs : JobBegin(e, j) \/ JobGot(e, j) \/ JobAcked(e, j) \/ JobFails(e, j)
    BY <1>4, <2>1 DEF JobBegin, JobGot, JobAcked, JobFails
  <2>2. CASE \/ SyncPoll(e) \/ LoadDeletions(e) \/ TakePending(e) \/ LoopAcked(e) \/ SyncEnd(e)
             \/ UserAcked(e)
    BY <1>4, <2>2 DEF SyncPoll, LoadDeletions, TakePending, LoopAcked, SyncEnd, UserAcked
  <2> QED
    BY <1>6, <2>1, <2>2 DEF Sync
<1>7. ASSUME Sending \/ Acking \/ Purging \/ (\E a \in acks : AckLost(a)) \/ Rotate \/ UNCHANGED vars
      PROVE  Right
  BY <1>4, <1>7 DEF Sending, sendMessage, SendCheck, SendRecipients, SendBatch, Acking, ackMessage,
     AckUpdate, AckCount, Purging, PurgeDelivered, DeleteObject, AckLost, Rotate, vars
<1>9. ASSUME NEW p \in puts, PutStep(p) PROVE Right
  <2>1. CASE flight'[d] = flight[d]
    BY <1>1, <2>1 DEF Right
  <2>2. CASE flight'[d] # flight[d]
    <3>1. flight[d] \in Flights /\ FlightAfter(flight[d], flight'[d])
      BY <1>9, <2>2, PutFlight DEF Inv
    <3>2. flight'[d] = [flight[d] EXCEPT !.n = Number, !.try = flight[d].try + 1]
      <4>1. flight'[d] # NoFlight
        BY DEF NoFlight
      <4>2. /\ [flight[d] EXCEPT !.phase = "posted"].phase = "posted"
            /\ [flight[d] EXCEPT !.phase = "posted", !.try = 1].phase = "posted"
        BY <3>1 DEF Flights
      <4>3. flight'[d].phase = "uploading"
        OBVIOUS
      <4> QED
        BY <3>1, <4>1, <4>2, <4>3 DEF FlightAfter
    <3>3. flight'[d].phase = flight[d].phase /\ flight'[d].id = flight[d].id
      BY <3>1, <3>2 DEF Flights
    <3> QED
      BY <3>3 DEF Pending, Right
  <2> QED
    BY <2>1, <2>2
<1>8. Right
  BY <1>2, <1>3, <1>5, <1>6, <1>7, <1>9 DEF Next, PutStep, Outbox
<1> QED
  BY <1>8 DEF Right

\* Uploads of files come from flushes that begin, and from themselves.
LEMMA PutsMove ==
  ASSUME Inv, PutsInv, FilePosts, [Next]_vars, NEW r \in puts', r.id \in WithFile
  PROVE  Pending(r.id)
<1> DEFINE Right == Pending(r.id)
<1>1. r \in puts => Right
  BY DEF Pending
<1>2. ASSUME NEW d \in Devices, NEW m \in Messages, FlushBegin(d, m) PROVE Right
  <2>1. r \in puts \/ r.id = m
    BY <1>2 DEF FlushBegin, Put
  <2> QED
    BY <1>1, <1>2, <2>1, BeginIsPending
<1>3. ASSUME NEW p \in puts, PutStep(p) PROVE Right
  <2>1. [p EXCEPT !.stage = "broken"].id = p.id
    BY PutIs DEF Inv, Puts
  <2>2. r \in puts \/ r.id = p.id
    <3>1. Put(p.by, p.id, p.epoch, Number).id = p.id
      BY DEF Put
    <3>2. \/ puts' = puts \ {p}
          \/ puts' = (puts \ {p}) \cup {[p EXCEPT !.stage = "broken"]}
          \/ puts' = (puts \ {p}) \cup {Put(p.by, p.id, p.epoch, Number)}
      BY <1>3 DEF PutStep, uploadFile, UploadLands, UploadFails, UploadBreaks, UploadVanishes
    <3> QED
      BY <2>1, <3>1, <3>2
  <2> QED
    BY <1>1, <2>2 DEF Pending
<1>4. ASSUME NEW d \in Devices, SendLost(d) PROVE Right
  <2>1. r \in puts \/ (flight[d].phase = "uploading" /\ r.id = flight[d].id)
    BY <1>4 DEF SendLost, Put
  <2> QED
    BY <1>1, <2>1 DEF Pending
<1> HIDE DEF Right
<1>5. UNCHANGED puts => Right
  BY <1>1
<1>6. ASSUME NEW d \in Devices, \/ User(d) \/ Revoke(d) \/ Join(d) \/ SendAnswered(d) \/ AnswerSaved(d)
                                \/ Reload(d)
      PROVE  Right
  BY <1>5, <1>6 DEF User, Compose, DeleteEverywhere, QueueDeletion, DeleteLocally, RetryMessage, Revoke, Join,
     SendAnswered, AnswerSaved, Reload
<1>7. ASSUME NEW d \in Devices, Sync(d) \/ \E j \in pass[d].jobs : JobFails(d, j) PROVE Right
  <2>1. CASE \E j \in pass[d].jobs : JobBegin(d, j) \/ JobGot(d, j) \/ JobAcked(d, j) \/ JobFails(d, j)
    BY <1>5, <2>1 DEF JobBegin, JobGot, JobAcked, JobFails
  <2>2. CASE \/ SyncPoll(d) \/ LoadDeletions(d) \/ TakePending(d) \/ LoopAcked(d) \/ SyncEnd(d)
             \/ UserAcked(d)
    BY <1>5, <2>2 DEF SyncPoll, LoadDeletions, TakePending, LoopAcked, SyncEnd, UserAcked
  <2> QED
    BY <1>7, <2>1, <2>2 DEF Sync
<1>8. ASSUME Sending \/ Acking \/ Purging \/ (\E a \in acks : AckLost(a)) \/ Rotate \/ UNCHANGED vars
      PROVE  Right
  BY <1>5, <1>8 DEF Sending, sendMessage, SendCheck, SendRecipients, SendBatch, Acking, ackMessage,
     AckUpdate, AckCount, Purging, PurgeDelivered, DeleteObject, AckLost, Rotate, vars
<1>9. Right
  BY <1>2, <1>3, <1>4, <1>6, <1>7, <1>8 DEF Next, PutStep, Outbox
<1> QED
  BY <1>9 DEF Right

\* Calls of files come from uploads, and from themselves; they end with their answers.
LEMMA CallsStep ==
  ASSUME Inv, FilePosts, [Next]_vars, PostsAreAnswered, NEW m \in WithFile
  PROVE  /\ \A r \in sends' : r.id = m => r \in sends \/ Pending(m)
         /\ \A q \in sends : q.id = m /\ (\A r \in sends' : r.id # m) =>
              local'[Author[m]][m] \in {"absent", RowAfter(q.stage)}
<1> DEFINE Right == /\ \A r \in sends' : r.id = m => r \in sends \/ Pending(m)
                    /\ \A q \in sends : q.id = m /\ (\A r \in sends' : r.id # m) =>
                         local'[Author[m]][m] \in {"absent", RowAfter(q.stage)}
<1>1. ASSUME sends \subseteq sends', \A r \in sends' : r \in sends \/ r.id # m \/ Pending(m) PROVE Right
  BY <1>1
<1>2. ASSUME NEW p \in puts, PutStep(p) PROVE Right
  <2>1. p.id = m => Pending(m)
    BY DEF Pending
  <2>2. sends' = sends \/ \E q : sends' = sends \cup {q} /\ q.id = p.id
    BY <1>2, PutSends DEF Inv, PostedFor
  <2> QED
    BY <2>1, <2>2
<1>3. ASSUME NEW d \in Devices, NEW x \in Messages, FlushBegin(d, x) PROVE Right
  BY <1>3 DEF FlushBegin, Call
<1>4. ASSUME NEW d \in Devices, SendAnswered(d) PROVE Right
  <2>1. PICK q \in sends : \/ UNCHANGED sends
                           \/ q.by = d /\ sends' = sends \ {q} /\ local[d][q.id] = "absent" /\ UNCHANGED local
    BY <1>4 DEF SendAnswered
  <2> QED
    BY <2>1, FilePost
<1>5. ASSUME NEW d \in Devices, AnswerSaved(d) PROVE Right
  <2>1. PICK q \in sends : q.by = d /\ sends' = sends \ {q} /\ Sets(d, q.id, RowAfter(q.stage))
    BY <1>5 DEF AnswerSaved
  <2>2. q.id = m => local'[Author[m]][m] = RowAfter(q.stage)
    BY <2>1, FilePost DEF Inv, TypeOK
  <2> QED
    BY <2>1, <2>2
<1>6. ASSUME NEW d \in Devices, SendLost(d) \/ Reload(d) PROVE Right
  <2>1. \A q \in sends : q.id \in WithFile => q.by # d
    BY <1>6, NoPostOf DEF PostsAreAnswered
  <2>2. flight[d].id \in WithFile => flight[d].phase # "posted" \/ ~SendLost(d)
    BY DEF PostsAreAnswered
  <2>3. \/ sends' = Unanswered(d) \/ UNCHANGED sends
        \/ /\ flight[d].phase = "posted" /\ SendLost(d)
           /\ sends' = Unanswered(d) \cup {Call(d, flight[d].id, flight[d].epoch, Number')}
    BY <1>6 DEF SendLost, Reload
  <2>4. Unanswered(d) \subseteq sends /\ \A q \in sends : q.id = m => q \in Unanswered(d)
    BY <2>1 DEF Unanswered
  <2> QED
    BY <2>2, <2>3, <2>4 DEF Call
<1>7. ASSUME NEW q \in sends, sendMessage(q) PROVE Right
  <2>1. q.stage \in {"sent", "checked", "ready"}
    BY <1>7, SendMoves
  <2>2. q.id = m => Pending(m)
    BY <2>1 DEF Pending
  <2>3. q.id = m => \E r \in sends' : r.id = m
    BY <1>7, FilePost, SendMoves
  <2> QED
    BY <1>7, <2>2, <2>3, SendMoves
<1> HIDE DEF Right
<1>8. UNCHANGED sends => Right
  BY <1>1
<1>9. ASSUME NEW e \in Devices, User(e) \/ Revoke(e) \/ Join(e) PROVE Right
  BY <1>8, <1>9 DEF User, Compose, DeleteEverywhere, QueueDeletion, DeleteLocally, RetryMessage, Ack, Revoke, Join
<1>10. ASSUME NEW e \in Devices, Sync(e) \/ \E j \in pass[e].jobs : JobFails(e, j) PROVE Right
  <2>1. CASE \E j \in pass[e].jobs : JobBegin(e, j) \/ JobGot(e, j) \/ JobAcked(e, j) \/ JobFails(e, j)
    BY <1>8, <2>1 DEF JobBegin, JobGot, JobAcked, JobFails
  <2>2. CASE \/ SyncPoll(e) \/ LoadDeletions(e) \/ TakePending(e) \/ LoopAcked(e) \/ SyncEnd(e)
             \/ UserAcked(e)
    BY <1>8, <2>2 DEF SyncPoll, LoadDeletions, TakePending, LoopAcked, SyncEnd, UserAcked
  <2> QED
    BY <1>10, <2>1, <2>2 DEF Sync
<1>11. ASSUME Acking \/ Purging \/ (\E a \in acks : AckLost(a)) \/ Rotate \/ UNCHANGED vars
       PROVE  Right
  BY <1>8, <1>11 DEF Acking, ackMessage,
     AckUpdate, AckCount, Purging, PurgeDelivered, DeleteObject, AckLost, Rotate, vars
<1>12. Right
  BY <1>2, <1>3, <1>4, <1>5, <1>6, <1>7, <1>9, <1>10, <1>11 DEF Next, PutStep, Outbox, Sending
<1> QED
  BY <1>12 DEF Right

\* A file message that may still be stored was so before, or is composed now.
LEMMA PendingStep ==
  ASSUME Inv, PutsInv, FilePosts, [Next]_vars, PostsAreAnswered, NEW m \in WithFile, Pending(m)'
  PROVE  Pending(m) \/ m \notin born
<1> DEFINE a == Author[m]
<1>1. CASE \E d \in Devices : flight'[d].id = m /\ flight'[d].phase = "uploading"
  BY <1>1, UploadingStep
<1>2. CASE \E r \in sends' : r.id = m /\ r.stage \notin {"ok", "conflict"}
  BY <1>2, CallsStep DEF Pending
<1>3. CASE local'[a][m] \in {"queued", "failed"} /\ \A r \in sends' : r.id # m
  <2>1. m \in Messages
    OBVIOUS
  <2>2. CASE \E q \in sends : q.id = m
    <3>1. PICK q \in sends : q.id = m
      BY <2>2
    <3>2. local'[a][m] = RowAfter(q.stage)
      BY <1>3, <3>1, CallsStep
    <3>3. q.stage \notin {"ok", "conflict"}
      BY <1>3, <3>2 DEF RowAfter
    <3> QED
      BY <3>1, <3>3 DEF Pending
  <2>3. CASE \A q \in sends : q.id # m
    <3>1. m \notin Tombstones
      BY DEF Tombstones
    <3>2. local[a][m] \in {"queued", "failed"} \/ m \notin born
      BY <1>3, <2>1, <2>3, <3>1, OwnRow
    <3> QED
      BY <2>3, <3>2 DEF Pending
  <2> QED
    BY <2>2, <2>3
<1>4. CASE \E r \in puts' : r.id = m
  BY <1>4, PutsMove
<1> QED
  BY <1>1, <1>2, <1>3, <1>4 DEF Pending

\* What the call of a file message has settled may not be stored any more.
LEMMA SettledForGood ==
  ASSUME Inv, FilePosts, StaleUploadsEnd, NEW m \in WithFile, NEW q \in sends, Settles(q, m)
  PROVE  ~Pending(m)'
<1>1. q.id = m /\ UNCHANGED flight /\ q.by = Author[m] /\ flight[q.by].phase \in {"posted", "saving"}
  BY FilePost DEF Settles
<1>2. ~\E d \in Devices : flight'[d].id = m /\ flight'[d].phase = "uploading"
  BY <1>1 DEF Inv, ServerInv
<1>3. \A p \in puts' : p.id # m
  BY <1>1 DEF Settles, StaleUploadsEnd
<1> QED
  BY <1>2, <1>3 DEF Settles, Pending

LEMMA OnceStep ==
  ASSUME Inv, PutsInv, FileInv, [Next]_vars, PostsAreAnswered, StaleUploadsEnd PROVE Once'
<1>1. FilePosts /\ Once
  BY DEF FileInv
<1>2. SUFFICES ASSUME NEW m \in WithFile
               PROVE  (Touched(m)' => m \in born') /\ (Pending(m)' => ~Touched(m)')
  BY DEF Once
<1>3. Touched(m)' => Touched(m) \/ \E q \in sends : Settles(q, m)
  BY TouchedStep
<1>4. Touched(m)' => m \in born
  BY <1>1, <1>3 DEF Once, Settles, Inv, ServerInv
<1>5. born \subseteq born'
  BY Growing
<1>6. Pending(m)' => ~\E q \in sends : Settles(q, m)
  BY <1>1, SettledForGood
<1>7. Pending(m)' => Pending(m) \/ m \notin born
  BY <1>1, PendingStep
<1> QED
  BY <1>1, <1>3, <1>4, <1>5, <1>6, <1>7 DEF Once

LEMMA OfferedStep == ASSUME Inv, Offered, [Next]_vars PROVE Offered'
<1>1. stored \in Seq(Rows)
  BY DEF Inv, TypeOK
<1>2. SUFFICES ASSUME NEW w \in waiting' PROVE w[1] \in Ids(stored)'
  BY DEF Offered
<1>3. CASE UNCHANGED stored /\ waiting' \subseteq waiting
  BY <1>3 DEF Offered, Ids
<1>4. ASSUME NEW S, stored' = Without(stored, S), waiting' \subseteq {v \in waiting : v[1] \notin S}
      PROVE  w[1] \in Ids(stored)'
  <2>1. PICK i \in DOMAIN stored : stored[i].id = w[1] /\ w[1] \notin S
    BY <1>4 DEF Offered, Ids
  <2>2. PICK k \in DOMAIN Without(stored, S) : Without(stored, S)[k] = stored[i]
    BY <1>1, <2>1, WithoutKeeps
  <2> QED
    BY <1>4, <2>1, <2>2 DEF Ids
<1>5. ASSUME NEW q \in sends, stored' = Append(stored, [id |-> q.id, epoch |-> q.epoch]),
             waiting' = waiting \cup ({q.id} \X q.to)
      PROVE  w[1] \in Ids(stored)'
  <2>1. PICK x : x = [id |-> q.id, epoch |-> q.epoch]
    OBVIOUS
  <2>2. x.id = q.id /\ x \in Rows
    BY <2>1 DEF Inv, TypeOK, Calls, Rows
  <2>3. /\ \A i \in DOMAIN stored : i \in DOMAIN stored' /\ stored'[i] = stored[i]
        /\ Len(stored) + 1 \in DOMAIN stored' /\ stored'[Len(stored) + 1] = x
    BY <1>1, <1>5, <2>1, <2>2
  <2>4. w \in waiting \/ w[1] = q.id
    BY <1>5
  <2> QED
    BY <2>2, <2>3, <2>4 DEF Offered, Ids
<1> QED
  BY <1>3, <1>4, <1>5, TableMoves

LEMMA ObjectMoves ==
  ASSUME Inv, [Next]_vars
  PROVE  \/ UNCHANGED object
         \/ \E p \in puts : \A m \in Messages \ {p.id} : object'[m] = object[m]
         \/ \E m \in Messages : DeleteObject(m)
<1>1. ASSUME NEW d \in Devices, User(d) \/ Outbox(d) \/ SendLost(d) \/ Reload(d) \/ Revoke(d) \/ Join(d)
      PROVE  UNCHANGED object
  BY <1>1 DEF User, Compose, DeleteEverywhere, QueueDeletion, DeleteLocally, RetryMessage, Outbox, FlushBegin,
     SendAnswered, AnswerSaved, SendLost, Reload, Revoke, Join
<1>2. ASSUME NEW d \in Devices, Sync(d) \/ \E j \in pass[d].jobs : JobFails(d, j)
      PROVE  UNCHANGED object
  <2>1. CASE \E j \in pass[d].jobs : JobBegin(d, j) \/ JobGot(d, j) \/ JobAcked(d, j) \/ JobFails(d, j)
    BY <2>1 DEF JobBegin, JobGot, JobAcked, JobFails
  <2>2. CASE \/ SyncPoll(d) \/ LoadDeletions(d) \/ TakePending(d) \/ LoopAcked(d) \/ SyncEnd(d)
             \/ UserAcked(d)
    BY <2>2 DEF SyncPoll, LoadDeletions, TakePending, LoopAcked, SyncEnd, UserAcked
  <2> QED
    BY <1>2, <2>1, <2>2 DEF Sync
<1>3. ASSUME \/ Sending \/ Acking \/ PurgeDelivered
             \/ (\E a \in acks : AckLost(a)) \/ Rotate \/ UNCHANGED vars
      PROVE  UNCHANGED object
  BY <1>3 DEF Sending, sendMessage, SendCheck, SendRecipients, SendBatch, Acking, ackMessage,
     AckUpdate, AckCount, PurgeDelivered, AckLost, Rotate, vars
<1>4. ASSUME NEW p \in puts, PutStep(p)
      PROVE  \A m \in Messages \ {p.id} : object'[m] = object[m]
  BY <1>4 DEF PutStep, uploadFile, UploadLands, UploadFails, UploadBreaks, UploadVanishes, Inv, TypeOK
<1> QED
  BY <1>1, <1>2, <1>3, <1>4 DEF Next, PutStep, Purging

\* A row that stays keeps its file, and what passes know of it stays right.
LEMMA StoredFits ==
  ASSUME Inv, FileInv, [Next]_vars, NEW y, \E k \in DOMAIN stored : y = stored[k],
         y.id \in WithFile, y.id \notin doomed'
  PROVE  RowFits(y)'
<1>1. PICK k \in DOMAIN stored : y = stored[k]
  OBVIOUS
<1>2. /\ y.id \in WithFile /\ RowFits(y) /\ Touched(y.id) /\ ~Pending(y.id)
  BY <1>1 DEF FileInv, RowsFit, Once, Touched, Ids
<1>3. object'[y.id] = object[y.id]
  <2>1. CASE UNCHANGED object
    BY <2>1
  <2>2. ASSUME NEW p \in puts, \A m \in Messages \ {p.id} : object'[m] = object[m]
        PROVE  object'[y.id] = object[y.id]
    BY <1>2, <2>2 DEF Pending
  <2>3. ASSUME NEW m \in Messages, DeleteObject(m) PROVE object'[y.id] = object[y.id]
    BY <1>2, <2>3 DEF DeleteObject, RowFits, Inv, TypeOK
  <2> QED
    BY <2>1, <2>2, <2>3, ObjectMoves
<1>4. ASSUME NEW d \in Devices
      PROVE  /\ \A i \in DOMAIN pass'[d].batch : Copies(pass'[d].batch[i], y)
             /\ \A j \in pass'[d].jobs : Copies(j, y)
  <2>1. \A i \in DOMAIN stored : stored[i].id = y.id => stored[i] = y
    BY <1>1 DEF Inv, TypeOK
  <2>2. \A i \in DOMAIN pass[d].batch : Copies(pass[d].batch[i], y)
    BY <1>2 DEF RowFits
  <2>3. \A j \in pass[d].jobs : Copies(j, y)
    BY <1>2 DEF RowFits
  <2>4. \A i \in DOMAIN stored : Copies(stored[i], y)
    BY <2>1 DEF Copies
  <2>5. \A i \in DOMAIN pass'[d].batch : Copies(pass'[d].batch[i], y)
    BY <2>2, <2>4, PassMoves
  <2>6. ASSUME NEW j \in pass'[d].jobs PROVE Copies(j, y)
    <3>1. \/ \E l \in pass[d].jobs : j.id = l.id /\ j.epoch = l.epoch
          \/ \E i \in DOMAIN pass[d].batch : j.id = pass[d].batch[i].id /\ j.epoch = pass[d].batch[i].epoch
      BY PassMoves
    <3> QED
      BY <2>2, <2>3, <3>1 DEF Copies
  <2> QED
    BY <2>5, <2>6
<1>5. \A d \in Devices :
         /\ \A i \in DOMAIN pass'[d].batch : Copies(pass'[d].batch[i], y)
         /\ \A j \in pass'[d].jobs : Copies(j, y)
  BY <1>4
<1>6. y.epoch = object'[y.id]
  BY <1>2, <1>3 DEF RowFits
<1> QED
  BY <1>5, <1>6 DEF RowFits

\* A file message that is stored is stored once, with the file of its call.
LEMMA StoresFitting ==
  ASSUME Inv, FileInv, [Next]_vars, NEW q \in sends, SendBatch(q), q.id \in WithFile,
         NEW y, y = [id |-> q.id, epoch |-> q.epoch]
  PROVE  RowFits(y)'
<1>1. /\ UNCHANGED <<object, doomed, pass>> /\ q.stage = "ready"
  BY DEF SendBatch
<1>2. ~Touched(q.id)
  BY <1>1 DEF FileInv, Once, Pending
<1>3. object[q.id] = q.epoch
  BY <1>1, FilePost DEF FileInv, PostOf, Codes
<1>4. \A d \in Devices : \A j \in pass[d].jobs : j.id # q.id
  BY <1>2 DEF Touched, Inv, PassInv, PassFits, JobFits
<1>5. \A d \in Devices : \A k \in DOMAIN pass[d].batch : pass[d].batch[k].id # q.id
  BY <1>2 DEF Touched, Ids
<1>6. q.id \notin doomed
  BY <1>2 DEF Touched
<1> QED
  BY <1>1, <1>3, <1>4, <1>5, <1>6 DEF RowFits, Copies

LEMMA RowsFitStep == ASSUME Inv, FileInv, [Next]_vars PROVE RowsFit'
<1>1. stored \in Seq(Rows)
  BY DEF Inv, TypeOK
<1>2. SUFFICES ASSUME NEW i \in DOMAIN stored', stored'[i].id \in WithFile PROVE RowFits(stored[i])'
  BY DEF RowsFit
<1>3. PICK y : y = stored'[i]
  OBVIOUS
<1>4. SUFFICES RowFits(y)'
  BY <1>3
<1>5. ASSUME \E k \in DOMAIN stored : y = stored[k], y.id \notin doomed' PROVE RowFits(y)'
  BY <1>2, <1>3, <1>5, StoredFits
<1>6. (\E k \in DOMAIN stored : y = stored[k]) => y.id \notin doomed
  BY <1>2, <1>3 DEF FileInv, RowsFit, RowFits
<1>7. CASE UNCHANGED stored /\ doomed' \subseteq doomed
  BY <1>3, <1>5, <1>6, <1>7
<1>8. ASSUME NEW S, stored' = Without(stored, S),
             \/ doomed' \subseteq doomed \cup S
             \/ \E q \in sends : SendRecipients(q) /\ doomed' \subseteq doomed \cup S \cup {q.id}
      PROVE  RowFits(y)'
  <2>1. PICK k \in DOMAIN stored : y = stored[k] /\ y.id \notin S
    BY <1>1, <1>3, <1>8, WithoutRows
  <2>2. ASSUME NEW q \in sends, SendRecipients(q) PROVE q.id # y.id
    <3>1. q.stage = "checked"
      BY <2>2 DEF SendRecipients
    <3>2. Pending(q.id)
      BY <3>1 DEF Pending
    <3>3. Touched(y.id)
      BY <2>1 DEF Touched, Ids
    <3> QED
      BY <1>2, <1>3, <3>2, <3>3 DEF FileInv, Once
  <2> QED
    BY <1>5, <1>6, <1>8, <2>1, <2>2
<1>9. ASSUME NEW q \in sends, SendBatch(q), UNCHANGED doomed,
             stored' = Append(stored, [id |-> q.id, epoch |-> q.epoch])
      PROVE  RowFits(y)'
  <2>1. PICK x : x = [id |-> q.id, epoch |-> q.epoch]
    OBVIOUS
  <2>2. x \in Rows /\ x.id = q.id
    BY <2>1 DEF Inv, TypeOK, Calls, Rows
  <2>3. y = x \/ \E k \in DOMAIN stored : y = stored[k]
    BY <1>1, <1>3, <1>9, <2>1, <2>2, AppendRow
  <2> QED
    BY <1>2, <1>3, <1>5, <1>6, <1>9, <2>1, <2>2, <2>3, StoresFitting
<1>10. RowFits(y)'
  BY <1>7, <1>8, <1>9, TableMoves
<1> QED
  BY <1>10

\* Only a job makes a file of another's "lost".
LEMMA LostMoves ==
  ASSUME Inv, [Next]_vars, NEW d \in Devices, NEW m \in Messages, local'[d][m] = "lost"
  PROVE  \/ local[d][m] = "lost"
         \/ \E j \in pass[d].jobs : j.id = m /\ (j.state = "lost" \/ object[m] # j.epoch)
<1> DEFINE Right == \/ local[d][m] = "lost"
                    \/ \E j \in pass[d].jobs : j.id = m /\ (j.state = "lost" \/ object[m] # j.epoch)
<1>1. local' = local => Right
  OBVIOUS
<1>2. ASSUME NEW e \in Devices, NEW x \in Messages, NEW s, s # "lost" \/ s = local[e][x], Sets(e, x, s)
      PROVE  Right
  BY <1>2 DEF Inv, TypeOK
<1>3. ASSUME NEW e \in Devices, NEW x \in Messages,
             \/ Compose(e, x) \/ DeleteEverywhere(e, x) \/ QueueDeletion(e, x)
             \/ DeleteLocally(e, x) \/ RetryMessage(e, x)
      PROVE  Right
  <2>1. CASE DeleteEverywhere(e, x)
    BY <2>1 DEF DeleteEverywhere, Tombstones, Inv, TypeOK
  <2>2. CASE Compose(e, x) \/ QueueDeletion(e, x) \/ DeleteLocally(e, x) \/ RetryMessage(e, x)
    <3>1. local' = local \/ Sets(e, x, "queued") \/ Sets(e, x, "absent")
      BY <2>2 DEF Compose, QueueDeletion, DeleteLocally, RetryMessage
    <3> HIDE DEF Sets, Right
    <3> QED
      BY <1>1, <1>2, <3>1
  <2> QED
    BY <1>3, <2>1, <2>2
<1>4. ASSUME NEW e \in Devices, Outbox(e) PROVE Right
  <2>1. CASE AnswerSaved(e)
    <3>1. PICK q \in sends : Sets(e, q.id, RowAfter(q.stage))
      BY <2>1 DEF AnswerSaved
    <3>2. q.id \in Messages /\ RowAfter(q.stage) # "lost"
      BY DEF Inv, TypeOK, Calls, RowAfter
    <3> HIDE DEF Sets, Right
    <3> QED
      BY <1>2, <3>1, <3>2
  <2>2. CASE (\E x \in Messages : FlushBegin(e, x)) \/ SendAnswered(e)
    BY <1>1, <2>2 DEF FlushBegin, SendAnswered
  <2> QED
    BY <1>4, <2>1, <2>2 DEF Outbox
<1>5. ASSUME NEW e \in Devices, NEW j \in pass[e].jobs,
             JobBegin(e, j) \/ JobGot(e, j) \/ JobFails(e, j) \/ JobAcked(e, j)
      PROVE  Right
  <2>1. j \in Jobs /\ j.id \in Messages
    BY JobIs DEF Inv
  <2>2. PICK s : /\ UNCHANGED local \/ Sets(e, j.id, s)
                 /\ s = j.state \/ s = "held" \/ (s = "lost" /\ object[j.id] # j.epoch)
    <3>1. CASE JobGot(e, j)
      <4> DEFINE s == IF object[j.id] = j.epoch THEN "held" ELSE "lost"
      <4>1. /\ [j EXCEPT !.state = s, !.stage = "acking"].id = j.id
            /\ [j EXCEPT !.state = s, !.stage = "acking"].state = s
        BY <2>1 DEF Jobs
      <4>2. Upsert(e, [j EXCEPT !.state = s, !.stage = "acking"])
        BY <3>1 DEF JobGot
      <4> QED
        BY <4>1, <4>2 DEF Upsert
    <3>2. CASE JobAcked(e, j)
      <4>1. [j EXCEPT !.acked = TRUE].id = j.id /\ [j EXCEPT !.acked = TRUE].state = j.state
        BY <2>1 DEF Jobs
      <4> QED
        BY <3>2, <4>1 DEF JobAcked, Upsert
    <3> QED
      BY <1>5, <3>1, <3>2 DEF JobBegin, JobFails, Upsert
  <2>3. CASE UNCHANGED local
    BY <1>1, <2>3
  <2>4. CASE Sets(e, j.id, s)
    <3>1. local'[d][m] = local[d][m] \/ (e = d /\ j.id = m /\ s = "lost")
      BY <2>1, <2>4 DEF Inv, TypeOK
    <3> QED
      BY <1>5, <2>2, <3>1
  <2> QED
    BY <2>2, <2>3, <2>4
<1>6. ASSUME NEW e \in Devices, TakePending(e) PROVE Right
  <2> DEFINE x == Head(pass[e].batch)
             state == IF local[e][x.id] # "absent" THEN local[e][x.id]
                      ELSE IF x.id \in WithFile THEN "remote" ELSE "held"
  <2>1. /\ x.id \in Messages
        /\ x.id \in Tombstones => Target[x.id] \in Messages
    BY <1>6, Takes
  <2>2. \/ x.id \in Tombstones /\ Sets(e, Target[x.id], "absent")
        \/ UNCHANGED local
        \/ Sets(e, x.id, state)
    BY <1>6 DEF TakePending
  <2>3. state # "lost" \/ state = local[e][x.id]
    OBVIOUS
  <2> HIDE DEF x, state, Sets, Right
  <2> QED
    BY <1>1, <1>2, <2>1, <2>2, <2>3
<1>7. ASSUME NEW e \in Devices, UserAcked(e) PROVE Right
  <2>1. PICK k \in acks : UNCHANGED local \/ Sets(e, k.id, "absent")
    BY <1>7 DEF UserAcked
  <2>2. k.id \in Messages
    BY DEF Inv, TypeOK, Acks
  <2> HIDE DEF Sets, Right
  <2> QED
    BY <1>1, <1>2, <2>1, <2>2
<1>8. ASSUME NEW e \in Devices, \/ SyncPoll(e) \/ LoadDeletions(e) \/ LoopAcked(e) \/ SyncEnd(e)
                                \/ SendLost(e) \/ Reload(e) \/ Revoke(e) \/ Join(e)
      PROVE  Right
  BY <1>1, <1>8 DEF SyncPoll, LoadDeletions, LoopAcked, SyncEnd, SendLost, Reload, Revoke, Join
<1>9. ASSUME Sending \/ Acking \/ Purging PROVE Right
  BY <1>1, <1>9 DEF Sending, sendMessage, SendCheck, SendRecipients, SendBatch,
     Acking, ackMessage, AckUpdate, AckCount, Purging, PurgeDelivered, DeleteObject
<1>10. ASSUME (\E k \in acks : AckLost(k)) \/ Rotate \/ UNCHANGED vars PROVE Right
  BY <1>1, <1>10 DEF AckLost, Rotate, vars
<1>12. ASSUME NEW p \in puts, PutStep(p) PROVE Right
  BY <1>1, <1>12, PutKeeps
<1> HIDE DEF Right
<1>11. Right
  BY <1>3, <1>4, <1>5, <1>6, <1>7, <1>8, <1>9, <1>10, <1>12 DEF Next, PutStep, Sync, User
<1> QED
  BY <1>11 DEF Right

LEMMA NoneLostStep == ASSUME Inv, FileInv, [Next]_vars PROVE NoneLost'
<1>1. SUFFICES ASSUME NEW m \in WithFile, NEW d \in Devices, <<m, d>> \in waiting'
               PROVE  /\ local'[d][m] # "lost"
                      /\ \A j \in pass'[d].jobs : j.id = m => j.state # "lost"
  BY DEF NoneLost
<1>2. m \in Messages
  OBVIOUS
<1>3. ASSUME <<m, d>> \in waiting
      PROVE  /\ local[d][m] # "lost"
             /\ \A j \in pass[d].jobs : j.id = m => j.state # "lost" /\ object[m] = j.epoch
  <2>1. PICK k \in DOMAIN stored : stored[k].id = m
    BY <1>3 DEF FileInv, Offered, Ids
  <2>2. RowFits(stored[k])
    BY <2>1 DEF FileInv, RowsFit
  <2> QED
    BY <1>3, <2>1, <2>2 DEF FileInv, NoneLost, RowFits, Copies
<1>4. ASSUME <<m, d>> \notin waiting
      PROVE  /\ local[d][m] # "lost"
             /\ \A j \in pass[d].jobs : j.id # m
             /\ \A i \in DOMAIN pass[d].batch : pass[d].batch[i].id # m
  <2>1. PICK q \in sends : SendBatch(q) /\ q.id = m
    <3>1. ~(waiting' \subseteq waiting)
      BY <1>1, <1>4
    <3>2. ~\E S : waiting' \subseteq {w \in waiting : w[1] \notin S}
      BY <3>1
    <3>3. PICK q \in sends : SendBatch(q) /\ waiting' = waiting \cup ({q.id} \X q.to)
      BY <3>1, <3>2, TableMoves
    <3>4. q.id = m
      BY <1>1, <1>4, <3>3
    <3> QED
      BY <3>3, <3>4
  <2>2. q.stage = "ready"
    BY <2>1 DEF SendBatch
  <2>3. ~Touched(m)
    BY <2>1, <2>2 DEF FileInv, Once, Pending
  <2>4. <<m, d>> \notin seen /\ m \notin Ids(pass[d].batch)
    BY <2>3 DEF Touched
  <2>5. local[d][m] # "lost"
    BY <1>2, <2>4 DEF Inv, HistoryInv, Cell, Incoming
  <2>6. \A j \in pass[d].jobs : j.id # m
    BY <2>4 DEF Inv, PassInv, PassFits, JobFits
  <2> QED
    BY <2>4, <2>5, <2>6 DEF Ids
<1>5. local[d][m] # "lost" /\ \A j \in pass[d].jobs : j.id = m => j.state # "lost" /\ object[m] = j.epoch
  BY <1>3, <1>4
<1>6. local'[d][m] # "lost"
  BY <1>2, <1>5, LostMoves
<1>7. \A j \in pass'[d].jobs : j.id = m => j.state # "lost"
  <2> SUFFICES ASSUME NEW j \in pass'[d].jobs, j.id = m, j.state = "lost" PROVE FALSE
    OBVIOUS
  <2> QED
    BY <1>5, PassMoves
<1> QED
  BY <1>6, <1>7

LEMMA FileInit == Init => FileInv
<1> SUFFICES ASSUME Init PROVE FileInv
  OBVIOUS
<1>1. Offered /\ FilePosts /\ RowsFit /\ NoneLost
  BY DEF Init, Offered, FilePosts, RowsFit, NoneLost
<1>2. Once
  BY DEF Init, Once, Touched, Pending, Ids, NoPass, NoFlight
<1> QED
  BY <1>1, <1>2 DEF FileInv

LEMMA FileInvHolds == Spec /\ [][PostsAreAnswered]_vars /\ []StaleUploadsEnd => []FileInv
<1>1. Inv /\ PutsInv /\ FileInv /\ StaleUploadsEnd /\ [Next]_vars /\ [PostsAreAnswered]_vars => FileInv'
  <2> SUFFICES ASSUME Inv, PutsInv, FileInv, StaleUploadsEnd, [Next]_vars, [PostsAreAnswered]_vars
               PROVE  FileInv'
    OBVIOUS
  <2>1. CASE UNCHANGED vars
    BY <2>1 DEF vars, FileInv, Offered, FilePosts, Once, Pending, Touched, RowsFit, RowFits, NoneLost
  <2>2. CASE PostsAreAnswered
    BY <2>2, OfferedStep, PostsStepAll, OnceStep, RowsFitStep, NoneLostStep DEF FileInv
  <2> QED
    BY <2>1, <2>2
<1> QED
  BY <1>1, InvHolds, PutsInvHolds, FileInit, PTL DEF Spec

\* While a message is offered to a device of the space, its file is the one its row
\* describes (outbox.ts:293-305): a message that was refused for a superseded epoch is
\* encrypted and uploaded anew before it is posted again, and what was stored is neither
\* overwritten nor discarded.  Uploads may break, be discarded, be tried again and be given
\* up (files.ts:114-145, api.ts:114), downloads, acks and pages may fail, provided that an
\* upload given up has ended, one way or the other, when the message is posted, and that the
\* post itself is not given up.
THEOREM DeliveryFileMatchesRow ==
  Spec /\ [][PostsAreAnswered]_vars /\ []StaleUploadsEnd => []FileMatchesRow
<1>1. FileInv => FileMatchesRow
  BY DEF FileInv, RowsFit, RowFits, FileMatchesRow
<1> QED
  BY <1>1, FileInvHolds, PTL

\* A device marks a file unobtainable only when the server no longer waits for it
\* (sync.ts:570-620), under the same two conditions.
THEOREM DeliveryFileReadable ==
  Spec /\ [][PostsAreAnswered]_vars /\ []StaleUploadsEnd => []FileReadable
<1>1. FileInv => FileReadable
  BY DEF FileInv, NoneLost, FileReadable
<1> QED
  BY <1>1, FileInvHolds, PTL

=============================================================================
