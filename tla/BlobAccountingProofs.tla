------------------------- MODULE BlobAccountingProofs -------------------------
(***************************************************************************)
(* Proofs about BlobAccounting, for any blobs, sizes, failures and any      *)
(* number of attempts at a key.                                            *)
(***************************************************************************)
EXTENDS BlobAccounting, FiniteSetTheorems, WellFoundedInduction, TLAPS

Whys == {"discard", "release", "sweep"}

Shape ==
  /\ store \in Stores
  /\ row \in [Keys -> {"none", "fresh", "old", "reserved"}]
  /\ object \subseteq Keys /\ expiring \subseteq Keys /\ claimed \subseteq Keys /\ claims \subseteq Keys
  /\ puts \subseteq [key : Keys, n : Nat, stage : {"writing", "written"}]
  /\ dels \subseteq [key : Keys, why : Whys, stage : {"reserve", "object", "row"}]
  /\ client \in [Keys -> {"idle", "uploading", "uploaded", "posted"}]
  /\ tries \in [Keys -> Nat] /\ raced \subseteq Keys

\* A message file that has lost its row is about to get it back, to be deleted, or left
\* to the lifecycle rule.
File(k) ==
  /\ row[k] # "reserved"
  /\ \A x \in dels : x.key = k => x.stage = "object"
  /\ k \in object /\ row[k] = "none" =>
       \/ k \in expiring
       \/ \E p \in puts : p.key = k /\ p.stage = "written"
       \/ \E x \in dels : x.key = k

\* The life of a vault key: nothing yet,
Unused(k) ==
  /\ row[k] = "none" /\ k \notin object \cup claims \cup claimed /\ client[k] = "idle"
  /\ \A p \in puts : p.key # k
  /\ \A x \in dels : x.key # k

\* being received, while every deletion of it has yet to reserve its row,
Receives(k) ==
  /\ row[k] \in {"fresh", "old"}
  /\ \A p \in puts : p.key = k /\ p.stage = "written" => k \in object
  /\ \A x \in dels : x.key = k => x.stage = "reserve"

\* and kept or deleted.
Stays(k) ==
  /\ row[k] = "none" => k \notin object
  /\ client[k] \in {"uploaded", "posted"} /\ row[k] \in {"fresh", "old"} => k \in object
  /\ \A x \in dels : x.key = k =>
       /\ x.stage # "reserve" => row[k] \in {"reserved", "none"}
       /\ x.stage = "row" => k \notin object

Item(k) ==
  /\ tries[k] = 0 => Unused(k)
  /\ k \notin expiring
  /\ k \in claims \cup claimed => client[k] = "posted"
  /\ k \in claimed => row[k] \in {"fresh", "old"}
  /\ k \notin raced => (Writing(k) => Receives(k)) /\ Stays(k)

BlobInv == Shape /\ \A k \in Keys : IF Expires THEN File(k) ELSE Item(k)

(***************************************************************************)
(* Lemmas: a step is about one key, and leaves the others as they were.    *)
(***************************************************************************)
Kept(k, s, t) == \A x \in s \cup t : x.key = k => (x \in s <=> x \in t)

Untouched(k) ==
  /\ row'[k] = row[k] /\ client'[k] = client[k] /\ tries'[k] = tries[k]
  /\ k \in object' <=> k \in object
  /\ k \in expiring' <=> k \in expiring
  /\ k \in claimed' <=> k \in claimed
  /\ k \in claims' <=> k \in claims
  /\ k \in raced' <=> k \in raced
  /\ Kept(k, puts, puts') /\ Kept(k, dels, dels')

KeyInv(k) == IF Expires THEN File(k) ELSE Item(k)

LEMMA OneKey ==
  ASSUME BlobInv, Shape', store' = store, NEW j \in Keys,
         \A k \in Keys \ {j} : Untouched(k),
         Expires => File(j)', ~Expires => Item(j)'
  PROVE  BlobInv'
<1> SUFFICES ASSUME NEW k \in Keys, k # j PROVE KeyInv(k)'
  BY DEF BlobInv, KeyInv, Expires
<1>1. Untouched(k) /\ KeyInv(k) /\ (Expires' <=> Expires)
  BY DEF BlobInv, KeyInv, Expires
<1>2. CASE Expires
  BY <1>1, <1>2 DEF KeyInv, Untouched, File, Kept
<1>3. CASE ~Expires
  <2>1. Unused(k) => Unused(k)'
    BY <1>1 DEF Unused, Untouched, Kept
  <2>2. (Writing(k)' => Writing(k)) /\ (Receives(k) => Receives(k)')
    BY <1>1 DEF Writing, Receives, Untouched, Kept
  <2>3. Stays(k) => Stays(k)'
    BY <1>1 DEF Stays, Untouched, Kept
  <2> QED
    BY <1>1, <1>3, <2>1, <2>2, <2>3 DEF KeyInv, Item, Untouched
<1> QED
  BY <1>2, <1>3

LEMMA OfKey ==
  ASSUME BlobInv, NEW k \in Keys
  PROVE  (Expires => File(k)) /\ (~Expires => Item(k))
  BY DEF BlobInv

(***************************************************************************)
(* receiveBlob.                                                            *)
(***************************************************************************)
LEMMA UploadStep ==
  ASSUME BlobInv, NEW k \in Keys, Upload(k)
  PROVE  BlobInv'
<1> USE DEF Upload, Shape
<1>1. Shape /\ UNCHANGED <<store, object, expiring, claimed, claims, dels>>
      /\ tries' = [tries EXCEPT ![k] = @ + 1]
  BY DEF BlobInv
<1>2. ~Expires => Item(k) /\ tries'[k] # 0 /\ k \notin claims \cup claimed
  BY <1>1, OfKey DEF Item, Starting
<1>3. CASE ~Admitted(k)
  <2>1. client' = [client EXCEPT ![k] = "idle"] /\ UNCHANGED <<row, puts, raced>>
    BY <1>3
  <2>2. Shape'
    BY <1>1, <2>1
  <2>3. \A j \in Keys \ {k} : Untouched(j)
    BY <1>1, <2>1 DEF Untouched, Kept
  <2>4. Expires => File(k)'
    BY <1>1, <2>1, OfKey DEF File
  <2>5. (Writing(k)' => Writing(k)) /\ (Receives(k) => Receives(k)') /\ (Stays(k) => Stays(k)')
    BY <1>1, <2>1 DEF Writing, Receives, Stays
  <2>6. ~Expires => Item(k)'
    BY <1>1, <1>2, <2>1, <2>5 DEF Item
  <2> QED BY <1>1, <2>2, <2>3, <2>4, <2>6, OneKey
<1>4. CASE Admitted(k)
  <2> DEFINE p == [key |-> k, n |-> tries'[k], stage |-> "writing"]
  <2>1. /\ row' = [row EXCEPT ![k] = "fresh"] /\ puts' = puts \cup {p}
        /\ client' = [client EXCEPT ![k] = "uploading"]
        /\ raced' = IF Reserved(k) THEN raced \cup {k} ELSE raced
    BY <1>4
  <2>2. p.key = k /\ p.n = tries'[k] /\ p.stage = "writing"
        /\ p \in [key : Keys, n : Nat, stage : {"writing", "written"}]
    BY <1>1
  <2> HIDE DEF p
  <2>3. Shape'
    BY <1>1, <2>1, <2>2
  <2>4. \A j \in Keys \ {k} : Untouched(j)
    BY <1>1, <2>1, <2>2 DEF Untouched, Kept
  <2>5. Expires => File(k)'
    BY <1>1, <2>1, OfKey DEF File
  <2>6. ASSUME ~Expires, k \notin raced' PROVE Receives(k)' /\ Stays(k)'
    <3>1. (\A x \in dels : x.key = k => x.stage = "reserve") /\ k \notin raced
      BY <2>1, <2>6 DEF Reserved
    <3>2. (Writing(k) => Receives(k)) /\ row'[k] = "fresh" /\ client'[k] = "uploading"
      BY <1>1, <1>2, <2>1, <2>6, <3>1 DEF Item
    <3>3. \A q \in puts' : q.key = k /\ q.stage = "written" => k \in object'
      BY <1>1, <2>1, <2>2, <3>2 DEF Writing, Receives
    <3> QED BY <1>1, <3>1, <3>2, <3>3 DEF Receives, Stays
  <2>7. ~Expires => Item(k)'
    BY <1>1, <1>2, <2>6 DEF Item
  <2> QED BY <1>1, <2>3, <2>4, <2>5, <2>7, OneKey
<1> QED
  BY <1>3, <1>4

LEMMA PutDoneStep ==
  ASSUME BlobInv, NEW p \in puts, PutDone(p)
  PROVE  BlobInv'
<1> DEFINE k == p.key
           r == [p EXCEPT !.stage = "written"]
<1>1. /\ Shape /\ UNCHANGED <<store, row, claimed, claims, dels, client, tries, raced>>
      /\ puts' = (puts \ {p}) \cup {r}
      /\ object' = object \cup {k} /\ expiring' = expiring \ {k} /\ p.stage = "writing"
  BY DEF BlobInv, PutDone
<1>2. /\ k \in Keys /\ r.key = k /\ r.n = p.n /\ r.stage = "written"
      /\ r \in [key : Keys, n : Nat, stage : {"writing", "written"}]
  BY <1>1 DEF Shape
<1> HIDE DEF k, r
<1>3. Shape'
  BY <1>1, <1>2 DEF Shape
<1>4. \A j \in Keys \ {k} : Untouched(j)
  BY <1>1, <1>2 DEF Untouched, Kept, k
<1>5. Expires => File(k)'
  BY <1>1, <1>2, OfKey DEF File
<1>6. ASSUME ~Expires PROVE Item(k)'
  <2>1. Item(k) /\ Writing(k)
    BY <1>2, <1>6, OfKey DEF Writing, k
  <2>2. tries[k] # 0
    BY <2>1 DEF Item, Unused, Writing
  <2>3. Receives(k) => Receives(k)'
    BY <1>1, <1>2 DEF Receives
  <2>4. Receives(k) /\ Stays(k) => Stays(k)'
    BY <1>1 DEF Stays, Receives
  <2> QED BY <1>1, <2>1, <2>2, <2>3, <2>4 DEF Item
<1> QED
  BY <1>1, <1>2, <1>3, <1>4, <1>5, <1>6, OneKey

LEMMA AnsweredType ==
  ASSUME Shape, NEW p \in puts, NEW outcome \in {"idle", "uploading", "uploaded"}, Answered(p, outcome)
  PROVE  /\ client' \in [Keys -> {"idle", "uploading", "uploaded", "posted"}]
         /\ \A k \in Keys \ {p.key} : client'[k] = client[k]
         /\ client'[p.key] = client[p.key]
            \/ (client[p.key] = "uploading" /\ client'[p.key] = outcome)
  BY DEF Shape, Answered

LEMMA PutFailsStep ==
  ASSUME BlobInv, NEW p \in puts, PutFails(p)
  PROVE  BlobInv'
<1> DEFINE k == p.key
           x == Deletion(k, "discard", IF Expires THEN "object" ELSE "reserve")
<1>1. /\ Shape /\ UNCHANGED <<store, object, expiring, claimed, claims, tries, raced>>
      /\ puts' = puts \ {p} /\ dels' = dels \cup {x} /\ p.stage = "writing"
      /\ row' = IF Expires THEN [row EXCEPT ![k] = "none"] ELSE row
  BY DEF BlobInv, PutFails
<1>2. /\ k \in Keys /\ x.key = k /\ x.stage = IF Expires THEN "object" ELSE "reserve"
      /\ x \in [key : Keys, why : Whys, stage : {"reserve", "object", "row"}]
  BY <1>1 DEF Shape, Deletion, Whys
<1>3. /\ client' \in [Keys -> {"idle", "uploading", "uploaded", "posted"}]
      /\ \A j \in Keys \ {k} : client'[j] = client[j]
      /\ client'[k] = client[k] \/ (client[k] = "uploading" /\ client'[k] \in {"idle", "uploading"})
  <2>1. PICK heard \in {"idle", "uploading"} : Answered(p, heard)
    BY DEF PutFails
  <2> QED BY <1>1, <2>1, AnsweredType
<1> HIDE DEF x, k
<1>4. Shape'
  BY <1>1, <1>2, <1>3 DEF Shape
<1>5. \A j \in Keys \ {k} : Untouched(j)
  BY <1>1, <1>2, <1>3 DEF Untouched, Kept, Shape, k
<1>6. Expires => File(k)'
  BY <1>1, <1>2, OfKey DEF File, Shape
<1>7. ASSUME ~Expires PROVE Item(k)'
  <2>1. Item(k) /\ Writing(k)
    BY <1>2, <1>7, OfKey DEF Writing, k
  <2>2. tries[k] # 0
    BY <2>1 DEF Item, Unused, Writing
  <2>3. Receives(k) => Receives(k)'
    BY <1>1, <1>2, <1>7 DEF Receives
  <2>4. Stays(k) => Stays(k)'
    BY <1>1, <1>2, <1>3, <1>7 DEF Stays
  <2>5. k \in claims' \cup claimed' => client'[k] = "posted"
    BY <1>1, <1>3, <2>1 DEF Item
  <2> QED BY <1>1, <1>7, <2>1, <2>2, <2>3, <2>4, <2>5 DEF Item
<1> QED
  BY <1>1, <1>2, <1>4, <1>5, <1>6, <1>7, OneKey

LEMMA RecordStep ==
  ASSUME BlobInv, NEW p \in puts, Record(p)
  PROVE  BlobInv'
<1> DEFINE k == p.key
<1>1. /\ Shape /\ UNCHANGED <<store, object, expiring, claimed, claims, dels, tries, raced>>
      /\ puts' = puts \ {p} /\ p.stage = "written" /\ Answered(p, "uploaded")
      /\ row' = IF row[k] = "reserved" THEN row ELSE [row EXCEPT ![k] = "fresh"]
  BY DEF BlobInv, Record
<1>2. k \in Keys
  BY <1>1 DEF Shape
<1>3. /\ client' \in [Keys -> {"idle", "uploading", "uploaded", "posted"}]
      /\ \A j \in Keys \ {k} : client'[j] = client[j]
      /\ client'[k] = client[k] \/ (client[k] = "uploading" /\ client'[k] = "uploaded")
  BY <1>1, AnsweredType
<1> HIDE DEF k
<1>4. Shape'
  BY <1>1, <1>2, <1>3 DEF Shape
<1>5. \A j \in Keys \ {k} : Untouched(j)
  BY <1>1, <1>2, <1>3 DEF Untouched, Kept, Shape, k
<1>6. Expires => File(k)'
  BY <1>1, <1>2, OfKey DEF File, Shape
<1>7. ASSUME ~Expires PROVE Item(k)'
  <2>1. Item(k) /\ Writing(k)
    BY <1>2, <1>7, OfKey DEF Writing, k
  <2>2. tries[k] # 0
    BY <2>1 DEF Item, Unused, Writing
  <2>3. row'[k] = IF row[k] = "reserved" THEN "reserved" ELSE "fresh"
    BY <1>1, <1>2 DEF Shape
  <2>4. Receives(k) => k \in object' /\ row'[k] = "fresh" /\ Receives(k)'
    BY <1>1, <2>3 DEF Receives, k
  <2>5. Receives(k) /\ Stays(k) => Stays(k)'
    BY <1>1, <2>4 DEF Stays, Receives
  <2>6. k \in claims' \cup claimed' => client'[k] = "posted"
    BY <1>1, <1>3, <2>1 DEF Item
  <2> QED BY <1>1, <2>1, <2>2, <2>3, <2>4, <2>5, <2>6 DEF Item
<1> QED
  BY <1>1, <1>2, <1>4, <1>5, <1>6, <1>7, OneKey

(***************************************************************************)
(* What owns a blob.                                                       *)
(***************************************************************************)
\* A step that leaves the transfers, the deletions, the rows and the objects alone.
LEMMA OwnerStep ==
  ASSUME BlobInv, NEW k \in Keys, Shape',
         UNCHANGED <<store, row, object, expiring, puts, dels, tries, raced>>,
         \A j \in Keys \ {k} : /\ client'[j] = client[j]
                               /\ j \in claimed' <=> j \in claimed
                               /\ j \in claims' <=> j \in claims,
         ~Expires => /\ client[k] \in {"uploaded", "posted"}
                     /\ k \in claims' \cup claimed' => client'[k] = "posted"
                     /\ k \in claimed' => row[k] \in {"fresh", "old"}
  PROVE  BlobInv'
<1>1. \A j \in Keys \ {k} : Untouched(j)
  BY DEF Untouched, Kept
<1>2. Expires => File(k)'
  BY OfKey DEF File
<1>3. (Writing(k)' => Writing(k)) /\ (Receives(k) => Receives(k)')
  BY DEF Writing, Receives
<1>4. client[k] \in {"uploaded", "posted"} /\ Stays(k) => Stays(k)'
  BY DEF Stays
<1>5. ~Expires => Item(k)'
  BY <1>3, <1>4, OfKey DEF Item, Unused
<1> QED
  BY <1>1, <1>2, <1>5, OneKey

LEMMA ClaimCheckStep ==
  ASSUME BlobInv, NEW k \in Keys, ClaimCheck(k)
  PROVE  BlobInv'
<1>1. /\ Shape /\ UNCHANGED <<store, row, object, expiring, claimed, puts, dels, tries, raced>>
      /\ client[k] = "uploaded"
      /\ \/ claims' = claims /\ client' \in {[client EXCEPT ![k] = "posted"], [client EXCEPT ![k] = "idle"]}
         \/ claims' = claims \cup {k} /\ client' = [client EXCEPT ![k] = "posted"]
  BY DEF BlobInv, ClaimCheck
<1>2. Shape' /\ \A j \in Keys \ {k} : client'[j] = client[j] /\ (j \in claims' <=> j \in claims)
  BY <1>1 DEF Shape
<1>3. ~Expires => /\ k \in claims' \cup claimed' => client'[k] = "posted"
                  /\ k \in claimed' => row[k] \in {"fresh", "old"}
  BY <1>1, OfKey DEF Item, Shape
<1> QED
  BY <1>1, <1>2, <1>3, OwnerStep

LEMMA ClaimInsertStep ==
  ASSUME BlobInv, NEW k \in Keys, ClaimInsert(k)
  PROVE  BlobInv'
<1>1. /\ Shape /\ UNCHANGED <<store, row, object, expiring, puts, dels, client, tries, raced>>
      /\ k \in claims /\ claims' = claims \ {k}
      /\ claimed' = IF Claimable(k) THEN claimed \cup {k} ELSE claimed
  BY DEF BlobInv, ClaimInsert
<1>2. Shape' /\ \A j \in Keys \ {k} : (j \in claimed' <=> j \in claimed) /\ (j \in claims' <=> j \in claims)
  BY <1>1 DEF Shape
<1>3. ~Expires => client[k] = "posted" /\ (k \in claimed' => row[k] \in {"fresh", "old"})
  BY <1>1, OfKey DEF Item, Claimable, Shape
<1> QED
  BY <1>1, <1>2, <1>3, OwnerStep

\* The blob leaves its owner: a file loses its row, an item's content is to be reserved.
LEMMA LeaveStep ==
  ASSUME BlobInv, NEW k \in Keys, NEW why \in Whys, NEW x,
         x = Deletion(k, why, IF Expires THEN "object" ELSE "reserve"),
         row' = IF Expires THEN [row EXCEPT ![k] = "none"] ELSE row,
         dels' = dels \cup {x}, claimed' \in {claimed, claimed \ {k}},
         UNCHANGED <<store, object, expiring, puts, claims, client, tries, raced>>,
         ~Expires => k \in claimed \/ row[k] \in {"old", "reserved"}
  PROVE  BlobInv'
<1>1. /\ Shape /\ x.key = k /\ x.stage = IF Expires THEN "object" ELSE "reserve"
      /\ x \in [key : Keys, why : Whys, stage : {"reserve", "object", "row"}]
  BY DEF BlobInv, Deletion
<1>2. Shape'
  BY <1>1 DEF Shape
<1>3. \A j \in Keys \ {k} : Untouched(j)
  BY <1>1 DEF Untouched, Kept, Shape
<1>4. Expires => File(k)'
  BY <1>1, OfKey DEF File, Shape
<1>5. ASSUME ~Expires PROVE Item(k)'
  <2>1. Item(k) /\ tries[k] # 0
    BY <1>5, OfKey DEF Item, Unused
  <2>2. (Writing(k)' => Writing(k)) /\ (Receives(k) => Receives(k)')
    BY <1>1, <1>5 DEF Writing, Receives
  <2>3. Stays(k) => Stays(k)'
    BY <1>1, <1>5 DEF Stays
  <2> QED BY <1>5, <2>1, <2>2, <2>3 DEF Item
<1> QED
  BY <1>2, <1>3, <1>4, <1>5, OneKey

LEMMA ReleaseStep ==
  ASSUME BlobInv, NEW k \in Keys, Release(k)
  PROVE  BlobInv'
  BY LeaveStep DEF Release, Whys

LEMMA SweepStep ==
  ASSUME BlobInv, NEW k \in Keys, Sweep(k)
  PROVE  BlobInv'
  BY LeaveStep DEF Sweep, Whys

(***************************************************************************)
(* Deletions.                                                              *)
(***************************************************************************)
\* A deletion ends, or goes on.
Later(x) == {(dels \ {x}) \cup {[x EXCEPT !.stage = "object"]},
             (dels \ {x}) \cup {[x EXCEPT !.stage = "row"]}}

LEMMA DeletionStep ==
  ASSUME BlobInv, NEW x \in dels, dels' \in {dels \ {x}} \cup Later(x),
         UNCHANGED <<store, claimed, puts, claims, client, tries>>,
         raced' \in {raced, raced \cup {x.key}},
         row' \in [Keys -> {"none", "fresh", "old", "reserved"}],
         object' \in {object, object \ {x.key}},
         expiring' \in {expiring, expiring \ {x.key}, expiring \cup {x.key}},
         \A j \in Keys \ {x.key} : row'[j] = row[j],
         Expires => /\ row' = row /\ dels' = dels \ {x}
                    /\ x.key \notin object' \/ x.key \in expiring',
         ~Expires => /\ x.key \notin expiring'
                     /\ x.key \in claimed => row'[x.key] = row[x.key]
                     /\ x.key \notin raced' =>
                          /\ Stays(x.key)'
                          /\ Writing(x.key) => UNCHANGED <<row, object>> /\ dels' = dels \ {x}
  PROVE  BlobInv'
<1> DEFINE k == x.key
<1>1. Shape /\ k \in Keys /\ x \in [key : Keys, why : Whys, stage : {"reserve", "object", "row"}]
  BY DEF BlobInv, Shape
<1>2. dels' \subseteq [key : Keys, why : Whys, stage : {"reserve", "object", "row"}]
  BY <1>1 DEF Later, Shape
<1>3. \A y \in dels \cup dels' : y.key # k => (y \in dels' <=> y \in dels)
  BY <1>1 DEF Later
<1>4. Expires => dels' = dels \ {x}
  OBVIOUS
<1> HIDE DEF k
<1>5. Shape'
  BY <1>1, <1>2 DEF Shape, k
<1>6. \A j \in Keys \ {k} : Untouched(j)
  BY <1>1, <1>3 DEF Untouched, Kept, Shape, k
<1>7. Expires => File(k)'
  BY <1>1, OfKey DEF File, k
<1>8. ASSUME ~Expires PROVE Item(k)'
  <2>1. Item(k) /\ tries[k] # 0
    BY <1>1, <1>8, OfKey DEF Item, Unused, k
  <2>2. (k \in raced => k \in raced') /\ (Writing(k)' <=> Writing(k))
    BY DEF Writing, k
  <2>3. k \notin raced' /\ Writing(k) /\ Receives(k) => Receives(k)'
    BY <1>8 DEF Receives, k
  <2> QED BY <1>8, <2>1, <2>2, <2>3 DEF Item, k
<1> QED
  BY <1>1, <1>5, <1>6, <1>7, <1>8, OneKey

LEMMA ReserveStep ==
  ASSUME BlobInv, NEW x \in dels, ReserveForDeletion(x)
  PROVE  BlobInv'
<1> DEFINE k == x.key
<1>1. /\ Shape /\ UNCHANGED <<store, object, expiring, claimed, puts, claims, client, tries>>
      /\ k \in Keys /\ x \in [key : Keys, why : Whys, stage : {"reserve", "object", "row"}]
      /\ x.stage = "reserve"
  BY DEF BlobInv, ReserveForDeletion, Shape
<1>2. ~Expires /\ Item(k)
  BY <1>1, OfKey DEF File
<1>3. CASE row[k] # "none" /\ k \notin claimed
  <2> DEFINE y == [x EXCEPT !.stage = "object"]
  <2>1. /\ row' = [row EXCEPT ![k] = "reserved"] /\ dels' = (dels \ {x}) \cup {y}
        /\ raced' = IF Writing(k) THEN raced \cup {k} ELSE raced
    BY <1>3 DEF ReserveForDeletion
  <2>2. y.key = k /\ y.stage = "object"
    BY <1>1
  <2>3. dels' \in {dels \ {x}} \cup Later(x)
    BY <2>1 DEF Later
  <2> HIDE DEF k, y
  <2>4. k \notin raced' => Stays(k)' /\ ~Writing(k)
    BY <1>1, <1>2, <1>3, <2>1, <2>2 DEF Item, Stays, Shape
  <2>5. row' \in [Keys -> {"none", "fresh", "old", "reserved"}] /\ \A j \in Keys \ {k} : row'[j] = row[j]
    BY <1>1, <2>1 DEF Shape
  <2>6. k \notin expiring' /\ raced' \in {raced, raced \cup {k}}
    BY <1>1, <1>2, <2>1 DEF Item
  <2> QED BY <1>1, <1>2, <1>3, <2>3, <2>4, <2>5, <2>6, DeletionStep DEF k
<1>4. CASE ~(row[k] # "none" /\ k \notin claimed)
  <2>1. UNCHANGED <<row, raced>> /\ dels' = dels \ {x}
    BY <1>4 DEF ReserveForDeletion
  <2>2. (k \notin raced => Stays(k)') /\ k \notin expiring'
    BY <1>1, <1>2, <2>1 DEF Item, Stays
  <2> QED BY <1>1, <1>2, <2>1, <2>2, DeletionStep DEF Shape
<1> QED
  BY <1>3, <1>4

LEMMA DeleteObjectStep ==
  ASSUME BlobInv, NEW x \in dels, DeleteObject(x)
  PROVE  BlobInv'
<1> DEFINE k == x.key
           y == [x EXCEPT !.stage = "row"]
<1>1. /\ Shape /\ UNCHANGED <<store, row, claimed, puts, claims, client, tries, raced>>
      /\ k \in Keys /\ x \in [key : Keys, why : Whys, stage : {"reserve", "object", "row"}]
      /\ x.stage = "object" /\ dels' = (dels \ {x}) \cup (IF Expires THEN {} ELSE {y})
      /\ object' = object \ {k} /\ expiring' = expiring \ {k}
  BY DEF BlobInv, DeleteObject, Shape
<1>2. dels' \in {dels \ {x}} \cup Later(x) /\ (Expires => dels' = dels \ {x})
  BY <1>1 DEF Later
<1>3. y.key = k /\ y.stage = "row"
  BY <1>1
<1> HIDE DEF k, y
<1>4. ~Expires => k \notin expiring' /\ (k \notin raced => Stays(k)' /\ ~Writing(k))
  BY <1>1, <1>3, OfKey DEF Item, Receives, Stays, k
<1> QED
  BY <1>1, <1>2, <1>4, DeletionStep DEF k, Shape

LEMMA DeleteFailsStep ==
  ASSUME BlobInv, NEW x \in dels, DeleteFails(x)
  PROVE  BlobInv'
<1> DEFINE k == x.key
<1>1. /\ Shape /\ UNCHANGED <<store, row, object, claimed, puts, claims, client, tries, raced>>
      /\ k \in Keys /\ dels' = dels \ {x}
      /\ expiring' = IF Expires THEN expiring \cup ({k} \cap object) ELSE expiring
  BY DEF BlobInv, DeleteFails, Shape
<1>2. ~Expires => k \notin expiring' /\ (k \notin raced => Stays(k)')
  BY <1>1, OfKey DEF Item, Stays
<1>3. /\ expiring' \in {expiring, expiring \ {k}, expiring \cup {k}}
      /\ Expires => k \notin object' \/ k \in expiring'
  BY <1>1
<1> QED
  BY <1>1, <1>2, <1>3, DeletionStep DEF Shape

LEMMA ForgetRowStep ==
  ASSUME BlobInv, NEW x \in dels, ForgetRow(x)
  PROVE  BlobInv'
<1> DEFINE k == x.key
<1>1. /\ Shape /\ UNCHANGED <<store, object, expiring, claimed, puts, claims, client, tries, raced>>
      /\ k \in Keys /\ dels' = dels \ {x} /\ x.stage = "row"
      /\ row' = IF row[k] = "reserved" THEN [row EXCEPT ![k] = "none"] ELSE row
  BY DEF BlobInv, ForgetRow, Shape
<1>2. ~Expires
  BY <1>1, OfKey DEF File
<1>3. k \notin expiring' /\ (k \in claimed => row' = row)
      /\ (k \notin raced => Stays(k)' /\ ~Writing(k))
  BY <1>1, <1>2, OfKey DEF Item, Receives, Stays, Shape
<1>4. row' \in [Keys -> {"none", "fresh", "old", "reserved"}] /\ \A j \in Keys \ {k} : row'[j] = row[j]
  BY <1>1 DEF Shape
<1> QED
  BY <1>1, <1>2, <1>3, <1>4, DeletionStep

LEMMA ExpireStep ==
  ASSUME BlobInv, NEW k \in Keys, Expire(k)
  PROVE  BlobInv'
<1>1. /\ Shape /\ UNCHANGED <<store, row, claimed, puts, claims, dels, client, tries, raced>>
      /\ k \in expiring /\ expiring' = expiring \ {k} /\ object' = object \ {k}
  BY DEF BlobInv, Expire
<1>2. Shape' /\ \A j \in Keys \ {k} : Untouched(j)
  BY <1>1 DEF Shape, Untouched, Kept
<1>3. Expires => File(k)'
  BY <1>1, OfKey DEF File
<1>4. ~Expires => Item(k)'
  BY <1>1, OfKey DEF Item
<1> QED
  BY <1>1, <1>2, <1>3, <1>4, OneKey

LEMMA AgeStep ==
  ASSUME BlobInv, NEW k \in Keys, Age(k)
  PROVE  BlobInv'
<1>1. /\ Shape /\ UNCHANGED <<store, object, expiring, claimed, puts, claims, dels, client, tries, raced>>
      /\ row[k] = "fresh" /\ row' = [row EXCEPT ![k] = "old"] /\ \A p \in puts : p.key # k
  BY DEF BlobInv, Age
<1>2. Shape' /\ (\A j \in Keys \ {k} : Untouched(j)) /\ row'[k] = "old"
  BY <1>1 DEF Shape, Untouched, Kept
<1>3. Expires => File(k)'
  BY <1>1, <1>2, OfKey DEF File
<1>4. ~Expires => Item(k)'
  BY <1>1, <1>2, OfKey DEF Item, Unused, Stays, Writing
<1> QED
  BY <1>1, <1>2, <1>3, <1>4, OneKey

(***************************************************************************)
(* The theorems.                                                           *)
(***************************************************************************)
LEMMA BlobInvInit == Init => BlobInv
  BY DEF Init, BlobInv, Shape, File, Item, Unused, Writing, Stays, Expires

LEMMA BlobInvStep == ASSUME BlobInv, [Next]_vars PROVE BlobInv'
<1>1. CASE UNCHANGED vars
  BY <1>1 DEF vars, BlobInv, Shape, File, Item, Unused, Writing, Receives, Stays, Expires
<1>2. ASSUME NEW k \in Keys, Upload(k) \/ ClaimCheck(k) \/ ClaimInsert(k) \/ Release(k) \/ Cleaning(k)
      PROVE  BlobInv'
  BY <1>2, UploadStep, ClaimCheckStep, ClaimInsertStep, ReleaseStep, AgeStep, SweepStep, ExpireStep
     DEF Cleaning
<1>3. ASSUME NEW p \in puts, Receiving(p) \/ PutFails(p) PROVE BlobInv'
  BY <1>3, PutDoneStep, RecordStep, PutFailsStep DEF Receiving
<1>4. ASSUME NEW x \in dels, Deleting(x) \/ DeleteFails(x) PROVE BlobInv'
  BY <1>4, ReserveStep, DeleteObjectStep, DeleteFailsStep, ForgetRowStep DEF Deleting
<1> QED
  BY <1>1, <1>2, <1>3, <1>4 DEF Next

LEMMA BlobInvAlways == Spec => []BlobInv
<1>1. Init => BlobInv
  BY BlobInvInit
<1>2. BlobInv /\ [Next]_vars => BlobInv'
  BY BlobInvStep
<1> QED
  BY <1>1, <1>2, PTL DEF Spec

\* VaultClaimsHold: a live item's content is counted, and is in R2 unless a deletion of its
\* key raced a write of it, although overlapping attempts, failed transfers, a save and a
\* cleanup that chose the blob before interleave (blobs.ts:36-37, 59-61, 222).
THEOREM BlobVaultClaimsHold == Spec => []VaultClaimsHold
<1>1. BlobInv => VaultClaimsHold
  BY DEF BlobInv, Shape, Item, Stays, VaultClaimsHold, ClaimedIsCounted
<1>2. Spec => []BlobInv
  BY BlobInvAlways
<1> QED
  BY <1>1, <1>2, PTL

\* ObjectHasRow: no object is left in R2 without its row once the uploads and deletions of
\* its key are over, unless the lifecycle rule is to remove it: of message files whatever
\* overlaps, in the vault of every key whose deletion raced no write (blobs.ts:135, 230).
THEOREM BlobObjectHasRow == Spec => []ObjectHasRow
<1>1. BlobInv => ObjectHasRow
  BY DEF BlobInv, Shape, File, Item, Stays, ObjectHasRow, Quiet
<1>2. Spec => []BlobInv
  BY BlobInvAlways
<1> QED
  BY <1>1, <1>2, PTL

(***************************************************************************)
(* Bytes: a sum over a finite set of keys.                                 *)
(***************************************************************************)
\* Induction over the naturals, as a set of them has a least element.
LEMMA LeastNatural ==
  ASSUME NEW T \in SUBSET Nat, T # {} PROVE \E m \in T : \A k \in T : m <= k
<1>1. PICK m \in T : \A k \in T : <<k, m>> \notin OpToRel(<, Nat)
  BY NatLessThanWellFounded, WFMin
<1>2. \A k \in T : ~(k < m)
  BY <1>1 DEF OpToRel
<1> QED
  BY <1>2

Some(T) == CHOOSE k \in T : TRUE

\* f is the sum of every set of a family that has no set without its parts.
Sums(Family, f) ==
  f = [T \in Family |-> IF T = {} THEN 0 ELSE Size[Some(T)] + f[T \ {Some(T)}]]

LEMMA BytesIsSum == \A S : Bytes(S) = (CHOOSE f : Sums(SUBSET S, f))[S]
BY DEF Bytes, Sums, Some, MapThenSumSet, MapThenFoldSet

LEMMA SizeType == \A k \in Keys : Size[k] \in Nat \ {0}
BY BlobAssumption

LEMMA OneLess ==
  ASSUME NEW T, IsFiniteSet(T), NEW k \in T
  PROVE  /\ IsFiniteSet(T \ {k}) /\ Cardinality(T) \in Nat \ {0}
         /\ Cardinality(T \ {k}) = Cardinality(T) - 1 /\ Cardinality(T \ {k}) \in Nat
BY FS_RemoveElement, FS_CardinalityType, FS_EmptySet

\* Induction over finite sets.
LEMMA LeastSet ==
  ASSUME NEW S, IsFiniteSet(S), NEW Family \in SUBSET SUBSET S, Family # {}
  PROVE  \E T \in Family : \A V \in Family : Cardinality(T) <= Cardinality(V)
<1> DEFINE Counts == {Cardinality(T) : T \in Family}
<1>1. Counts \in SUBSET Nat /\ Counts # {}
  BY FS_Subset, FS_CardinalityType
<1>2. PICK m \in Counts : \A n \in Counts : m <= n
  <2> HIDE DEF Counts
  <2> QED
    BY <1>1, LeastNatural
<1> QED
  BY <1>2

LEMMA SumsExist ==
  ASSUME NEW S \in SUBSET Keys, IsFiniteSet(S)
  PROVE  \E f \in [SUBSET S -> Nat] : Sums(SUBSET S, f)
<1> DEFINE Upto(n) == {T \in SUBSET S : Cardinality(T) <= n}
           Has(n) == \E f \in [Upto(n) -> Nat] : Sums(Upto(n), f)
           Bad == {n \in Nat : ~Has(n)}
<1>1. ASSUME NEW T \in SUBSET S
      PROVE  IsFiniteSet(T) /\ Cardinality(T) \in Nat /\ Cardinality(T) <= Cardinality(S)
             /\ (T # {} => Some(T) \in T /\ Some(T) \in Keys)
  BY FS_Subset, FS_CardinalityType DEF Some
<1>2. Has(0)
  <2> DEFINE f == [T \in Upto(0) |-> 0]
  <2>1. \A T \in Upto(0) : T = {}
    BY <1>1, FS_EmptySet
  <2>2. f = [T \in Upto(0) |-> IF T = {} THEN 0 ELSE Size[Some(T)] + f[T \ {Some(T)}]]
    BY <2>1
  <2>3. f \in [Upto(0) -> Nat] /\ Sums(Upto(0), f)
    BY <2>2 DEF Sums
  <2> QED
    BY <2>3
<1>3. ASSUME NEW n \in Nat \ {0}, Has(n - 1) PROVE Has(n)
  <2>1. PICK f \in [Upto(n - 1) -> Nat] : Sums(Upto(n - 1), f)
    BY <1>3
  <2> DEFINE Plus(T) == IF T = {} THEN 0 ELSE Size[Some(T)] + f[T \ {Some(T)}]
             g == [T \in Upto(n) |-> Plus(T)]
  <2>2. ASSUME NEW T \in Upto(n), T # {}
        PROVE  T \ {Some(T)} \in Upto(n - 1) /\ T \ {Some(T)} \in Upto(n)
    BY <1>1, <2>2, OneLess
  <2>3. \A T \in Upto(n - 1) : T \in Upto(n) /\ f[T] = Plus(T)
    <3>1. f = [T \in Upto(n - 1) |-> Plus(T)]
      BY <2>1 DEF Sums
    <3>2. \A T \in Upto(n - 1) : T \in Upto(n)
      BY <1>1
    <3> HIDE DEF Plus, Upto
    <3> QED
      BY <3>1, <3>2
  <2>4. \A T \in Upto(n) : Plus(T) \in Nat
    BY <1>1, <2>1, <2>2, SizeType
  <2>5. \A T \in Upto(n) : T # {} => g[T \ {Some(T)}] = f[T \ {Some(T)}]
    <3> HIDE DEF Plus, Upto
    <3> QED
      BY <2>2, <2>3
  <2>6. \A T \in Upto(n) : Plus(T) = IF T = {} THEN 0 ELSE Size[Some(T)] + g[T \ {Some(T)}]
    <3> HIDE DEF g, Upto
    <3> QED
      BY <2>5
  <2>7. g = [T \in Upto(n) |-> IF T = {} THEN 0 ELSE Size[Some(T)] + g[T \ {Some(T)}]]
    <3> DEFINE h == [T \in Upto(n) |-> IF T = {} THEN 0 ELSE Size[Some(T)] + g[T \ {Some(T)}]]
    <3>1. g = [T \in Upto(n) |-> Plus(T)]
      OBVIOUS
    <3> HIDE DEF g, Plus, Upto
    <3>2. h = [T \in Upto(n) |-> Plus(T)]
      BY <2>6
    <3> QED
      BY <3>1, <3>2
  <2>8. g \in [Upto(n) -> Nat]
    <3> HIDE DEF Plus, Upto
    <3> QED
      BY <2>4
  <2> HIDE DEF g, Upto
  <2> QED
    BY <2>7, <2>8 DEF Sums
<1>4. Bad = {}
  <2> SUFFICES ASSUME Bad # {} PROVE FALSE
    OBVIOUS
  <2>1. Bad \in SUBSET Nat
    OBVIOUS
  <2>2. PICK n \in Bad : \A k \in Bad : n <= k
    <3> HIDE DEF Bad
    <3> QED
      BY <2>1, LeastNatural
  <2> HIDE DEF Has
  <2>3. n # 0 /\ n - 1 \in Nat /\ n - 1 \notin Bad
    BY <1>2, <2>2
  <2> QED
    BY <1>3, <2>2, <2>3
<1>5. Has(Cardinality(S)) /\ Upto(Cardinality(S)) = SUBSET S
  <2> HIDE DEF Has
  <2>1. Cardinality(S) \in Nat
    BY FS_CardinalityType
  <2>2. Has(Cardinality(S))
    BY <1>4, <2>1
  <2> QED
    BY <1>1, <2>2
<1> HIDE DEF Upto
<1> QED
  BY <1>5

\* Whatever set it is a part of, a set has one sum.
LEMMA SumsAgree ==
  ASSUME NEW R, NEW S, IsFiniteSet(R), NEW f, NEW g, Sums(SUBSET R, f), Sums(SUBSET S, g),
         NEW U, U \subseteq R, U \subseteq S
  PROVE  f[U] = g[U]
<1> DEFINE Differ == {T \in SUBSET U : f[T] # g[T]}
<1> SUFFICES ASSUME U \in Differ PROVE FALSE
  OBVIOUS
<1>1. ASSUME NEW T \in SUBSET U
      PROVE  /\ IsFiniteSet(T) /\ Cardinality(T) \in Nat
             /\ f[T] = IF T = {} THEN 0 ELSE Size[Some(T)] + f[T \ {Some(T)}]
             /\ g[T] = IF T = {} THEN 0 ELSE Size[Some(T)] + g[T \ {Some(T)}]
  <2>1. T \in SUBSET R /\ T \in SUBSET S
    OBVIOUS
  <2> QED
    BY <2>1, FS_Subset, FS_CardinalityType DEF Sums
<1>2. PICK T \in Differ : \A V \in Differ : Cardinality(T) <= Cardinality(V)
  <2>1. Differ \in SUBSET SUBSET R /\ Differ # {}
    OBVIOUS
  <2> HIDE DEF Differ
  <2> QED
    BY <2>1, LeastSet
<1>3. T # {}
  BY <1>1, <1>2
<1>4. Some(T) \in T
  BY <1>3 DEF Some
<1>5. T \ {Some(T)} \in SUBSET U /\ T \ {Some(T)} \notin Differ
  BY <1>1, <1>2, <1>4, OneLess
<1> QED
  BY <1>1, <1>2, <1>3, <1>5

LEMMA BytesSteps ==
  ASSUME NEW S \in SUBSET Keys, IsFiniteSet(S)
  PROVE  /\ Bytes({}) = 0 /\ Bytes(S) \in Nat
         /\ S # {} => Bytes(S) = Size[Some(S)] + Bytes(S \ {Some(S)})
<1>1. PICK f \in [SUBSET S -> Nat] : Sums(SUBSET S, f)
  BY SumsExist
<1>2. ASSUME NEW T \in SUBSET S PROVE Bytes(T) = f[T]
  <2> DEFINE g == CHOOSE g : Sums(SUBSET T, g)
  <2>1. IsFiniteSet(T) /\ T \in SUBSET Keys
    BY FS_Subset
  <2>2. Sums(SUBSET T, g)
    BY <2>1, SumsExist
  <2>3. Bytes(T) = g[T]
    BY BytesIsSum
  <2> HIDE DEF g
  <2> QED
    BY <1>1, <2>1, <2>2, <2>3, SumsAgree
<1>3. \A T \in SUBSET S : f[T] = IF T = {} THEN 0 ELSE Size[Some(T)] + f[T \ {Some(T)}]
  BY <1>1 DEF Sums
<1> QED
  BY <1>1, <1>2, <1>3

\* Any key may be taken out first.
LEMMA BytesWithout ==
  ASSUME NEW S \in SUBSET Keys, IsFiniteSet(S), NEW k \in S
  PROVE  Bytes(S) = Size[k] + Bytes(S \ {k})
<1> DEFINE Wrong == {T \in SUBSET S : \E j \in T : Bytes(T) # Size[j] + Bytes(T \ {j})}
<1> SUFFICES ASSUME S \in Wrong PROVE FALSE
  OBVIOUS
<1>1. ASSUME NEW T \in SUBSET S
      PROVE  /\ IsFiniteSet(T) /\ Cardinality(T) \in Nat /\ Bytes(T) \in Nat
             /\ T # {} => Some(T) \in T /\ Bytes(T) = Size[Some(T)] + Bytes(T \ {Some(T)})
  <2>1. IsFiniteSet(T) /\ T \in SUBSET Keys
    BY FS_Subset
  <2> QED
    BY <2>1, BytesSteps, FS_CardinalityType DEF Some
<1>2. PICK T \in Wrong : \A V \in Wrong : Cardinality(T) <= Cardinality(V)
  <2>1. Wrong \in SUBSET SUBSET S /\ Wrong # {}
    OBVIOUS
  <2> HIDE DEF Wrong
  <2> QED
    BY <2>1, LeastSet
<1>3. PICK j \in T : Bytes(T) # Size[j] + Bytes(T \ {j})
  BY <1>2
<1> DEFINE c == Some(T)
<1>4. c \in T /\ Bytes(T) = Size[c] + Bytes(T \ {c}) /\ c # j
  BY <1>1, <1>2, <1>3
<1> HIDE DEF c
<1>5. ASSUME NEW x \in T PROVE T \ {x} \in SUBSET S /\ T \ {x} \notin Wrong
  <2>1. Cardinality(T \ {x}) = Cardinality(T) - 1 /\ Cardinality(T) \in Nat
    BY <1>1, <1>2, OneLess
  <2>2. ~(Cardinality(T) <= Cardinality(T \ {x}))
    BY <2>1
  <2> HIDE DEF Wrong
  <2>3. T \ {x} \notin Wrong
    BY <1>2, <2>2
  <2> QED
    BY <1>2, <2>3 DEF Wrong
<1>6. Bytes(T \ {c}) = Size[j] + Bytes((T \ {c}) \ {j})
  BY <1>3, <1>4, <1>5
<1>7. Bytes(T \ {j}) = Size[c] + Bytes((T \ {j}) \ {c})
  BY <1>3, <1>4, <1>5
<1>8. (T \ {j}) \ {c} = (T \ {c}) \ {j} /\ (T \ {c}) \ {j} \in SUBSET S
  BY <1>2
<1>9. Bytes((T \ {c}) \ {j}) \in Nat /\ Size[c] \in Nat /\ Size[j] \in Nat
  BY <1>1, <1>2, <1>4, <1>8, SizeType
<1> QED
  BY <1>3, <1>4, <1>6, <1>7, <1>8, <1>9

LEMMA BytesMonotone ==
  ASSUME NEW S \in SUBSET Keys, IsFiniteSet(S), NEW A, A \subseteq S
  PROVE  Bytes(A) <= Bytes(S)
<1> DEFINE Wrong == {T \in SUBSET S : A \subseteq T /\ ~(Bytes(A) <= Bytes(T))}
<1> SUFFICES ASSUME S \in Wrong PROVE FALSE
  OBVIOUS
<1>1. ASSUME NEW T \in SUBSET S
      PROVE  /\ IsFiniteSet(T) /\ T \in SUBSET Keys /\ Cardinality(T) \in Nat /\ Bytes(T) \in Nat
  BY FS_Subset, BytesSteps, FS_CardinalityType
<1>2. PICK T \in Wrong : \A V \in Wrong : Cardinality(T) <= Cardinality(V)
  <2>1. Wrong \in SUBSET SUBSET S /\ Wrong # {}
    OBVIOUS
  <2> HIDE DEF Wrong
  <2> QED
    BY <2>1, LeastSet
<1>3. Bytes(A) \in Nat /\ Bytes(T) \in Nat /\ T \in SUBSET S /\ A \subseteq T
  BY <1>1, <1>2
<1>4. PICK k \in T : k \notin A
  BY <1>2, <1>3
<1>5. Bytes(T) = Size[k] + Bytes(T \ {k})
  BY <1>1, <1>3, <1>4, BytesWithout
<1>6. Bytes(T \ {k}) \in Nat /\ Size[k] \in Nat /\ T \ {k} \in SUBSET S /\ A \subseteq T \ {k}
  BY <1>1, <1>3, <1>4, SizeType
<1>7. ~(Cardinality(T) <= Cardinality(T \ {k}))
  BY <1>1, <1>3, OneLess
<1>8. T \ {k} \notin Wrong
  <2> HIDE DEF Wrong
  <2> QED
    BY <1>2, <1>7
<1>9. Bytes(A) <= Bytes(T \ {k})
  BY <1>6, <1>8
<1> QED
  BY <1>2, <1>3, <1>5, <1>6, <1>9

(***************************************************************************)
(* The cap.                                                                *)
(***************************************************************************)
\* What the rows count, of the keys whose deletion raced no write.
Settled == Counted \ raced

\* A settled blob stays, goes, or is admitted under the cap: a late record finds its row.
\* A step counts one blob at most.
LEMMA CountedStep ==
  ASSUME BlobInv, ~Expires, Next
  PROVE  /\ \E k \in Keys : Counted' \subseteq Counted \cup {k}
         /\ Settled' \subseteq Settled \/ \E k \in Keys : Admitted(k) /\ Settled' \subseteq Settled \cup {k}
<1>0. Shape
  BY DEF BlobInv
<1>1. ASSUME NEW k \in Keys, Upload(k)
      PROVE  /\ Counted' \subseteq Counted \cup {k} /\ raced \subseteq raced'
             /\ UNCHANGED row \/ Admitted(k)
  BY <1>0, <1>1 DEF Upload, Counted, Shape
<1>2. ASSUME NEW k \in Keys, ClaimCheck(k) \/ ClaimInsert(k) \/ Release(k) \/ Expire(k) \/ Sweep(k)
      PROVE  UNCHANGED <<row, raced>>
  BY <1>2 DEF ClaimCheck, ClaimInsert, Release, Expire, Sweep
<1>3. ASSUME NEW k \in Keys, Age(k) PROVE Counted' \subseteq Counted /\ UNCHANGED raced
  BY <1>0, <1>3 DEF Age, Counted, Shape
<1>4. ASSUME NEW p \in puts, PutDone(p) \/ PutFails(p) PROVE UNCHANGED <<row, raced>> /\ p.key \in Keys
  BY <1>0, <1>4 DEF PutDone, PutFails, Shape
<1>5. ASSUME NEW p \in puts, Record(p)
      PROVE  /\ p.key \in Keys /\ Counted' \subseteq Counted \cup {p.key} /\ UNCHANGED raced
             /\ p.key \notin raced => Counted' \subseteq Counted
  <2>1. p.key \in Keys /\ (p.key \notin raced => row[p.key] \in {"fresh", "old"})
    BY <1>0 DEF Shape, BlobInv, Item, Receives, Writing
  <2>2. UNCHANGED raced /\ Counted' \subseteq Counted \cup {p.key}
    BY <1>0, <1>5, <2>1 DEF Record, Counted, Shape
  <2>3. p.key \notin raced => Counted' \subseteq Counted
    BY <2>1, <2>2 DEF Counted
  <2> QED BY <2>1, <2>2, <2>3
<1>6. ASSUME NEW x \in dels, Deleting(x) \/ DeleteFails(x)
      PROVE  x.key \in Keys /\ Counted' \subseteq Counted /\ raced \subseteq raced'
  BY <1>0, <1>6 DEF Deleting, ReserveForDeletion, DeleteObject, ForgetRow, DeleteFails, Counted, Shape
<1> QED
  BY <1>1, <1>2, <1>3, <1>4, <1>5, <1>6 DEF Next, Receiving, Cleaning, Counted, Settled

\* What they count fits under the cap.
Capped == ~Expires => IsFiniteSet(Counted) /\ Bytes(Settled) <= Quota

LEMMA CappedInit == Init => Capped
<1> SUFFICES ASSUME Init PROVE Capped
  OBVIOUS
<1>1. Counted = {} /\ Settled = {} /\ IsFiniteSet({}) /\ {} \in SUBSET Keys /\ Quota \in Nat
  BY FS_EmptySet, BlobAssumption DEF Init, Counted, Settled
<1>2. Bytes({}) = 0
  BY <1>1, BytesSteps
<1> QED
  BY <1>1, <1>2 DEF Capped

LEMMA CappedStep == ASSUME BlobInv, Capped, [Next]_vars PROVE Capped'
<1> SUFFICES ASSUME ~Expires' PROVE IsFiniteSet(Counted') /\ Bytes(Settled') <= Quota
  BY DEF Capped
<1>1. store' = store
  BY DEF Next, Receiving, Cleaning, Deleting, vars, Upload, ClaimCheck, ClaimInsert, Release, Age,
         Sweep, Expire, PutDone, Record, PutFails, ReserveForDeletion, DeleteObject, ForgetRow,
         DeleteFails
<1>2. /\ ~Expires /\ IsFiniteSet(Counted) /\ Bytes(Settled) <= Quota /\ Quota \in Nat
      /\ Counted \in SUBSET Keys /\ Settled \in SUBSET Keys /\ Settled' \in SUBSET Keys
      /\ Settled \subseteq Counted
  BY <1>1, BlobAssumption DEF Expires, Capped, Counted, Settled
<1>3. CASE UNCHANGED vars
  BY <1>2, <1>3 DEF vars, Counted, Settled
<1>4. CASE Next
  <2>1. IsFiniteSet(Settled) /\ IsFiniteSet(Counted')
    <3>1. PICK k \in Keys : Counted' \subseteq Counted \cup {k}
      BY <1>2, <1>4, CountedStep
    <3> QED
      BY <1>2, <3>1, FS_AddElement, FS_Subset
  <2>2. CASE Settled' \subseteq Settled
    <3>1. Bytes(Settled') <= Bytes(Settled)
      BY <1>2, <2>1, <2>2, BytesMonotone
    <3>2. Bytes(Settled') \in Nat /\ Bytes(Settled) \in Nat
      BY <1>2, <2>1, <2>2, BytesSteps, FS_Subset
    <3> QED
      BY <1>2, <2>1, <3>1, <3>2
  <2>3. ASSUME NEW k \in Keys, Admitted(k), Settled' \subseteq Settled \cup {k}
        PROVE  Bytes(Settled') <= Quota
    <3> DEFINE S == Counted \cup {k}
    <3>1. S \in SUBSET Keys /\ IsFiniteSet(S) /\ Settled' \subseteq S /\ Bytes(S) <= Quota
      BY <1>2, <2>3, FS_AddElement DEF Admitted
    <3> HIDE DEF S
    <3>2. Bytes(Settled') <= Bytes(S) /\ Bytes(S) \in Nat
      BY <3>1, BytesMonotone, BytesSteps
    <3>3. Bytes(Settled') \in Nat
      BY <1>2, <3>1, BytesSteps, FS_Subset
    <3> QED
      BY <1>2, <3>1, <3>2, <3>3
  <2> QED
    BY <1>2, <1>4, <2>1, <2>2, <2>3, CountedStep
<1> QED
  BY <1>3, <1>4

\* VaultQuotaHeld: what the vault's store holds of keys whose deletion raced no write never
\* exceeds the cap, however many uploads that each fit are admitted together and whatever
\* is deleted, retried and recorded late meanwhile (blobs.ts:105, 135).
THEOREM BlobVaultQuotaHeld == Spec => []VaultQuotaHeld
<1>1. BlobInv /\ Capped => VaultQuotaHeld
  <2> SUFFICES ASSUME BlobInv, Capped, ~Expires PROVE Bytes(object \ raced) <= Quota
    BY DEF VaultQuotaHeld
  <2>1. object \ raced \subseteq Settled /\ Settled \in SUBSET Keys /\ Settled \subseteq Counted
    BY DEF BlobInv, Shape, Item, Stays, Counted, Settled
  <2>2. IsFiniteSet(Settled) /\ Bytes(Settled) <= Quota
    BY <2>1, FS_Subset DEF Capped
  <2>3. Bytes(object \ raced) <= Bytes(Settled)
    BY <2>1, <2>2, BytesMonotone
  <2>4. Bytes(object \ raced) \in Nat /\ Bytes(Settled) \in Nat /\ Quota \in Nat
    BY <2>1, <2>2, BytesSteps, FS_Subset, BlobAssumption
  <2> QED
    BY <2>2, <2>3, <2>4
<1>2. Init => Capped
  BY CappedInit
<1>3. BlobInv /\ Capped /\ [Next]_vars => Capped'
  BY CappedStep
<1>4. Spec => []BlobInv
  BY BlobInvAlways
<1> QED
  BY <1>1, <1>2, <1>3, <1>4, PTL DEF Spec
===============================================================================
