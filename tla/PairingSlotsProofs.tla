-------------------------- MODULE PairingSlotsProofs --------------------------
(***************************************************************************)
(* Proofs about PairingSlots, for devices that link with a code of their   *)
(* own, and whose slot no late copy of their request reserves anew once    *)
(* they are registered.  (With an invitation that several machines answer, *)
(* or with such a copy, the properties fail.)                              *)
(*                                                                         *)
(* Why one device never has two tokens: its row is written by a call that  *)
(* fills its slot, in one batch; a slot that was filled is emptied only by *)
(* going away, and only a flow that has not begun asks for a slot.         *)
(***************************************************************************)
EXTENDS PairingSlots, TLAPS

OwnSlots == \A a, b \in Attempts : SlotOf[a] = SlotOf[b] => a = b

Links  == {"new", "refused", "reserved", "waiting", "unwrapping", "error", "cancelled",
           "paused", "done"}
PollOf == [stage : {"asked", "opened", "begun", "persisted", "forgotten"},
           token : Calls \cup {Nil}, space : Nat]

Shape ==
  /\ slot \in [Slots -> [by : Attempts \cup {Nil}, package : Calls \cup {Nil}]]
  /\ device \in [Attempts -> [st : {"none", "active", "revoked"}, token : Calls \cup {Nil}]]
  /\ call \in [Calls -> [stage : {"new", "sent", "checked", "refused", "done"},
                       of : Attempts \cup {Nil}, epoch : Nat]]
  /\ epoch \in Nat
  /\ link \in [Attempts -> Links]
  /\ polls \in [Attempts -> Seq(PollOf)]
  /\ spaces \in [Attempts -> Seq(Calls \cup {Nil})]

\* A call that is under way is about a device whose flow has begun.
Begun ==
  /\ \A s \in Slots : slot[s] # NoSlot => \A a \in Attempts : SlotOf[a] = s => link[a] # "new"
  /\ \A c \in Calls : call[c].stage \in {"sent", "checked", "done"} =>
       call[c].of \in Attempts /\ link[call[c].of] # "new"

\* A device that has a row got it from the call that filled its slot, which is not open again.
Registered ==
  \A a \in Attempts : device[a].st # "none" =>
    /\ link[a] # "new"
    /\ device[a].token # Nil
    /\ slot[SlotOf[a]] # NoSlot => slot[SlotOf[a]].package = device[a].token

Packaged ==
  \A s \in Slots : slot[s].package # Nil =>
    LET c == slot[s].package IN
    /\ call[c].stage = "done" /\ SlotOf[call[c].of] = s
    /\ device[call[c].of].st # "none" /\ device[call[c].of].token = c

\* What token of whose the flow carries.
Carries(a, t) == t # Nil => device[a].st # "none" /\ device[a].token = t

Carried ==
  \A a \in Attempts :
    /\ \A i \in DOMAIN polls[a] : Carries(a, polls[a][i].token)
    /\ \A i \in DOMAIN spaces[a] : Carries(a, spaces[a][i])

PairInv == Shape /\ Begun /\ Registered /\ Packaged /\ Carried

(***************************************************************************)
(* Lemmas.                                                                 *)
(***************************************************************************)
\* Ending a poll takes it out of the list and leaves the others as they were.
LEMMA EndedKeeps ==
  ASSUME polls \in [Attempts -> Seq(PollOf)], NEW a \in Attempts, NEW i \in DOMAIN polls[a]
  PROVE  /\ Ended(a, i) \in [Attempts -> Seq(PollOf)]
         /\ \A b \in Attempts : \A j \in DOMAIN Ended(a, i)[b] :
              \E k \in DOMAIN polls[b] : Ended(a, i)[b][j] = polls[b][k]
<1> DEFINE s == polls[a]
           before == SubSeq(s, 1, i - 1)
           after == SubSeq(s, i + 1, Len(s))
           t == before \o after
<1>1. s \in Seq(PollOf) /\ i \in 1 .. Len(s)
  OBVIOUS
<1>2. /\ before \in Seq(PollOf) /\ Len(before) = i - 1
      /\ \A j \in 1 .. i - 1 : before[j] = s[j]
  BY <1>1
<1>3. /\ after \in Seq(PollOf) /\ Len(after) = Len(s) - i
      /\ \A j \in 1 .. Len(s) - i : after[j] = s[i + j]
  BY <1>1
<1> HIDE DEF before, after
<1>4. t \in Seq(PollOf) /\ Len(t) = Len(s) - 1
  BY <1>1, <1>2, <1>3
<1>5. \A j \in DOMAIN t : \E k \in DOMAIN s : t[j] = s[k]
  <2> TAKE j \in DOMAIN t
  <2>1. CASE j < i
    BY <2>1, <1>1, <1>2, <1>3, <1>4
  <2>2. CASE j >= i
    <3>1. t[j] = after[j - (i - 1)] /\ j - (i - 1) \in 1 .. Len(s) - i
      BY <2>2, <1>1, <1>2, <1>3, <1>4
    <3>2. i + (j - (i - 1)) = j + 1 /\ j + 1 \in DOMAIN s
      BY <2>2, <1>1, <1>4
    <3> QED BY <3>1, <3>2, <1>3
  <2> QED BY <2>1, <2>2, <1>1, <1>4
<1>6. Ended(a, i) = [polls EXCEPT ![a] = t]
  BY DEF Ended, before, after
<1> HIDE DEF t
<1> QED
  BY <1>4, <1>5, <1>6

\* What the page may do to its polls and spaces: carry tokens the device was given.
Carrying ==
  /\ polls' \in [Attempts -> Seq(PollOf)] /\ spaces' \in [Attempts -> Seq(Calls \cup {Nil})]
  /\ \A a \in Attempts :
       /\ \A i \in DOMAIN polls'[a] : Carries(a, polls'[a][i].token)
       /\ \A i \in DOMAIN spaces'[a] : Carries(a, spaces'[a][i])

\* No flow begins anew, and slots only go away.
Onward ==
  /\ link' \in [Attempts -> Links]
  /\ \A a \in Attempts : link[a] # "new" => link'[a] # "new"
Closing ==
  /\ DOMAIN slot' = Slots /\ slot' = [s \in Slots |-> slot'[s]]
  /\ \A s \in Slots : slot'[s] \in {slot[s], NoSlot}

LEMMA PageStep ==
  ASSUME PairInv, Carrying, Onward, Closing, UNCHANGED <<device, epoch, call>>
  PROVE  PairInv'
<1> USE DEF PairInv
<1>1. NoSlot \in [by : Attempts \cup {Nil}, package : Calls \cup {Nil}] /\ NoSlot.package = Nil
  BY DEF NoSlot
<1>2. Shape'
  BY <1>1, ZenonT(90) DEF Shape, Carrying, Onward, Closing
<1>3. Begun'
  BY DEF Begun, Onward, Closing
<1>4. Registered'
  BY PairingAssumption DEF Registered, Onward, Closing
<1>5. Packaged'
  BY <1>1 DEF Packaged, Closing
<1>6. Carried'
  BY DEF Carried, Carrying, Carries
<1> QED
  BY <1>2, <1>3, <1>4, <1>5, <1>6

\* The tokens of the polls and spaces a step leaves alone, or takes over from other polls.
LEMMA Taken ==
  ASSUME PairInv, NEW a \in Attempts, NEW i \in DOMAIN polls[a]
  PROVE  /\ polls[a][i] \in PollOf /\ Carries(a, polls[a][i].token)
         /\ \A p \in PollOf : Carries(a, p.token) =>
              LET ps == [polls EXCEPT ![a] = [@ EXCEPT ![i] = p]] IN
              /\ ps \in [Attempts -> Seq(PollOf)]
              /\ \A b \in Attempts : \A j \in DOMAIN ps[b] : Carries(b, ps[b][j].token)
<1>1. polls[a] \in Seq(PollOf) /\ i \in 1 .. Len(polls[a])
  BY DEF PairInv, Shape
<1>2. polls[a][i] \in PollOf /\ Carries(a, polls[a][i].token)
  BY <1>1 DEF PairInv, Carried
<1>3. ASSUME NEW p \in PollOf, Carries(a, p.token)
      PROVE  LET ps == [polls EXCEPT ![a] = [@ EXCEPT ![i] = p]] IN
             /\ ps \in [Attempts -> Seq(PollOf)]
             /\ \A b \in Attempts : \A j \in DOMAIN ps[b] : Carries(b, ps[b][j].token)
  <2> DEFINE q == [polls[a] EXCEPT ![i] = p]
             ps == [polls EXCEPT ![a] = q]
  <2>1. q \in Seq(PollOf) /\ DOMAIN q = DOMAIN polls[a]
        /\ \A j \in DOMAIN q : q[j] = IF j = i THEN p ELSE polls[a][j]
    BY <1>1
  <2> HIDE DEF q
  <2>2. ps \in [Attempts -> Seq(PollOf)]
    BY <2>1 DEF PairInv, Shape
  <2>3. ASSUME NEW b \in Attempts, NEW j \in DOMAIN ps[b] PROVE Carries(b, ps[b][j].token)
    <3>1. CASE b = a
      BY <3>1, <2>1, <1>3 DEF PairInv, Carried, Shape
    <3>2. CASE b # a
      BY <3>2 DEF PairInv, Carried, Shape
    <3> QED BY <3>1, <3>2
  <2>4. ps = [polls EXCEPT ![a] = [@ EXCEPT ![i] = p]]
    BY DEF q
  <2> QED BY <2>2, <2>3, <2>4
<1> QED
  BY <1>2, <1>3

\* The polls after one has ended.
LEMMA EndedCarries ==
  ASSUME PairInv, NEW a \in Attempts, NEW i \in DOMAIN polls[a]
  PROVE  /\ Ended(a, i) \in [Attempts -> Seq(PollOf)]
         /\ \A b \in Attempts : \A j \in DOMAIN Ended(a, i)[b] :
              Carries(b, Ended(a, i)[b][j].token)
  BY EndedKeeps DEF PairInv, Shape, Carried

(***************************************************************************)
(* The joining page's steps.                                               *)
(***************************************************************************)
\* A slot is reserved for a device without a row.
LEMMA ReserveStep ==
  ASSUME OwnSlots, PairInv, NEW a \in Attempts, Onward, link'[a] # "new",
         slot[SlotOf[a]] = NoSlot => device[a].st = "none",
         slot' = [slot EXCEPT ![SlotOf[a]] = IF @ = NoSlot THEN [NoSlot EXCEPT !.by = a] ELSE @],
         UNCHANGED <<device, epoch, call, polls, spaces>>
  PROVE  PairInv'
<1> USE DEF PairInv
<1> DEFINE s == SlotOf[a]
           mine == [NoSlot EXCEPT !.by = a]
<1>1. /\ s \in Slots
      /\ slot' = [slot EXCEPT ![s] = IF @ = NoSlot THEN mine ELSE @]
      /\ mine.by = a /\ mine.package = Nil
      /\ mine \in [by : Attempts \cup {Nil}, package : Calls \cup {Nil}]
  BY PairingAssumption DEF NoSlot
<1> HIDE DEF mine
<1>2. \A b \in Attempts : SlotOf[b] = s => b = a
  BY DEF OwnSlots
<1>3. Shape'
  BY <1>1 DEF Shape, Onward
<1>4. Begun'
  <2>1. \A t \in Slots : slot'[t] # NoSlot => \A b \in Attempts : SlotOf[b] = t => link'[b] # "new"
    BY <1>1, <1>2 DEF Begun, Shape, Onward
  <2>2. \A c \in Calls : call'[c].stage \in {"sent", "checked", "done"} =>
          call'[c].of \in Attempts /\ link'[call'[c].of] # "new"
    BY DEF Begun, Onward
  <2> QED BY <2>1, <2>2 DEF Begun
<1>5. Registered'
  <2>1. ASSUME NEW b \in Attempts, device[b].st # "none"
        PROVE  slot'[SlotOf[b]] = slot[SlotOf[b]]
    <3>1. CASE b = a
      BY <3>1, <2>1, <1>1 DEF Shape
    <3>2. CASE b # a
      BY <3>2, <1>1, <1>2, PairingAssumption DEF Shape
    <3> QED BY <3>1, <3>2
  <2> QED BY <2>1 DEF Registered, Onward
<1>6. Packaged'
  <2>1. \A t \in Slots : slot'[t] = slot[t] \/ slot'[t].package = Nil
    BY <1>1 DEF Shape
  <2> QED
    BY <2>1, ZenonT(90) DEF Packaged
<1>7. Carried'
  BY DEF Carried, Carries
<1> QED BY <1>3, <1>4, <1>5, <1>6, <1>7

LEMMA RequestStep ==
  ASSUME OwnSlots, PairInv, NEW a \in Attempts, Request(a)
  PROVE  PairInv'
<1> USE DEF PairInv
<1>1. UNCHANGED <<device, epoch, call, pending, polls, spaces>> /\ link[a] = "new"
  BY DEF Request
<1>2. Onward
  BY DEF Request, Onward, Shape, Links
<1>3. CASE SlotTaken(a)
  <2>1. Closing /\ Carrying
    BY <1>1, <1>3 DEF Request, Closing, Carrying, Shape, Carried
  <2> QED BY <2>1, <1>1, <1>2, PageStep
<1>4. CASE ~SlotTaken(a)
  <2>1. device[a].st = "none" /\ link'[a] # "new"
    BY <1>1, <1>4 DEF Request, Registered, Shape
  <2>2. slot' = [slot EXCEPT ![SlotOf[a]] = IF @ = NoSlot THEN [NoSlot EXCEPT !.by = a] ELSE @]
    BY <1>4 DEF Request
  <2> QED BY <1>1, <1>2, <2>1, <2>2, ReserveStep
<1> QED
  BY <1>3, <1>4

LEMMA RequestLandsStep ==
  ASSUME OwnSlots, ~Reopens, PairInv, NEW a \in Attempts, RequestLands(a)
  PROVE  PairInv'
<1>1. /\ UNCHANGED <<device, epoch, call, link, polls, spaces>> /\ link[a] # "new"
      /\ device[a].st = "none" /\ slot[SlotOf[a]] = NoSlot
  BY DEF RequestLands
<1>2. slot' = [slot EXCEPT ![SlotOf[a]] = IF @ = NoSlot THEN [NoSlot EXCEPT !.by = a] ELSE @]
  BY <1>1, PairingAssumption DEF RequestLands, PairInv, Shape
<1>3. Onward
  BY <1>1 DEF Onward, PairInv, Shape
<1> QED
  BY <1>1, <1>2, <1>3, ReserveStep

LEMMA WaitStep ==
  ASSUME PairInv, NEW a \in Attempts, Waits(a) \/ Cancel(a) \/ Pause(a) \/ Resume(a)
  PROVE  PairInv'
<1>1. UNCHANGED <<device, epoch, call, slot, polls, spaces>>
  BY DEF Waits, Cancel, Pause, Resume
<1>2. Onward
  BY DEF Waits, Cancel, Pause, Resume, Onward, PairInv, Shape, Links
<1>3. Closing /\ Carrying
  BY <1>1 DEF Closing, Carrying, PairInv, Shape, Carried
<1> QED
  BY <1>1, <1>2, <1>3, PageStep

LEMMA StartPollStep ==
  ASSUME PairInv, NEW a \in Attempts, StartPoll(a)
  PROVE  PairInv'
<1> DEFINE p == [stage |-> "asked", token |-> Nil, space |-> 0]
           q == Append(polls[a], p)
<1>1. UNCHANGED <<device, epoch, call, slot, link, spaces>> /\ polls' = [polls EXCEPT ![a] = q]
  BY DEF StartPoll
<1>2. p \in PollOf /\ polls[a] \in Seq(PollOf) /\ Carries(a, p.token)
  BY DEF PollOf, PairInv, Shape, Carries
<1> HIDE DEF p
<1>3. /\ q \in Seq(PollOf)
      /\ \A j \in DOMAIN q : (j \in DOMAIN polls[a] /\ q[j] = polls[a][j]) \/ q[j] = p
  BY <1>2
<1> HIDE DEF q
<1>4. Carrying
  BY <1>1, <1>2, <1>3 DEF Carrying, PairInv, Shape, Carried
<1>5. Onward /\ Closing
  BY <1>1 DEF Onward, Closing, PairInv, Shape
<1> QED
  BY <1>1, <1>4, <1>5, PageStep

LEMMA ReloadStep ==
  ASSUME PairInv, NEW a \in Attempts, Reload(a)
  PROVE  PairInv'
<1>1. UNCHANGED <<device, epoch, call, slot, spaces>> /\ polls' = [polls EXCEPT ![a] = <<>>]
  BY DEF Reload
<1>2. Onward
  BY DEF Reload, Onward, PairInv, Shape, Links
<1>3. Closing
  BY <1>1 DEF Closing, PairInv, Shape
<1>4. Carrying
  BY <1>1 DEF Carrying, PairInv, Shape, Carried
<1> QED
  BY <1>1, <1>2, <1>3, <1>4, PageStep

\* A poll moves on: what it carries it still carries.
LEMMA PollMoves ==
  ASSUME PairInv, NEW a \in Attempts, NEW i \in DOMAIN polls[a], NEW p \in PollOf,
         p.token = polls[a][i].token \/ Carries(a, p.token),
         polls' = [polls EXCEPT ![a] = [@ EXCEPT ![i] = p]],
         UNCHANGED spaces
  PROVE  Carrying
<1>1. Carries(a, p.token)
  BY Taken
<1> QED
  BY <1>1, Taken DEF Carrying, PairInv, Shape, Carried

LEMMA AnsweredStep ==
  ASSUME PairInv, NEW a \in Attempts, NEW i \in DOMAIN polls[a], Answered(a, i)
  PROVE  PairInv'
<1> DEFINE c == slot[SlotOf[a]].package
<1>1. UNCHANGED <<device, epoch, call, slot, spaces>>
  BY DEF Answered
<1>2. Onward /\ Closing
  BY <1>1 DEF Answered, Onward, Closing, PairInv, Shape, Links
<1>3. CASE polls' = Ended(a, i)
  BY <1>1, <1>2, <1>3, EndedCarries, PageStep DEF Carrying, PairInv, Shape, Carried
<1>4. CASE /\ c # Nil /\ call[c].of = a
           /\ polls' = [polls EXCEPT ![a][i] = [@ EXCEPT !.stage = "opened", !.token = c]]
  <2> DEFINE p == [polls[a][i] EXCEPT !.stage = "opened", !.token = c]
  <2>1. SlotOf[a] \in Slots /\ c \in Calls
    BY <1>4, PairingAssumption DEF PairInv, Shape
  <2>2. Carries(a, c)
    BY <1>4, <2>1 DEF PairInv, Packaged, Carries
  <2>3. p \in PollOf /\ p.token = c
    BY <2>1, Taken DEF PollOf
  <2>4. polls' = [polls EXCEPT ![a] = [@ EXCEPT ![i] = p]]
    BY <1>4, Taken DEF PollOf, PairInv, Shape
  <2> HIDE DEF p, c
  <2>5. Carrying
    BY <1>1, <2>2, <2>3, <2>4, PollMoves
  <2> QED BY <1>1, <1>2, <2>5, PageStep
<1> QED
  BY <1>3, <1>4 DEF Answered

LEMMA PollFailsStep ==
  ASSUME PairInv, NEW a \in Attempts, NEW i \in DOMAIN polls[a], PollFails(a, i)
  PROVE  PairInv'
<1>1. UNCHANGED <<device, epoch, call, slot, spaces>> /\ polls' = Ended(a, i)
  BY DEF PollFails
<1>2. Onward /\ Closing
  BY <1>1 DEF PollFails, Onward, Closing, PairInv, Shape, Links
<1>3. Carrying
  BY <1>1, EndedCarries DEF Carrying, PairInv, Shape, Carried
<1> QED
  BY <1>1, <1>2, <1>3, PageStep

LEMMA BeginSpaceStep ==
  ASSUME PairInv, NEW a \in Attempts, NEW i \in DOMAIN polls[a], BeginSpace(a, i)
  PROVE  PairInv'
<1> DEFINE p == [polls[a][i] EXCEPT !.stage = "begun", !.space = Len(spaces[a]) + 1]
           q == Append(spaces[a], Nil)
<1>1. UNCHANGED <<device, epoch, call, slot, link>> /\ spaces' = [spaces EXCEPT ![a] = q]
  BY DEF BeginSpace
<1>2. spaces[a] \in Seq(Calls \cup {Nil}) /\ Len(spaces[a]) + 1 \in Nat
  BY DEF PairInv, Shape
<1>3. p \in PollOf /\ p.token = polls[a][i].token
  BY <1>2, Taken DEF PollOf
<1>4. polls' = [polls EXCEPT ![a] = [@ EXCEPT ![i] = p]]
  BY Taken DEF BeginSpace, PollOf, PairInv, Shape
<1> HIDE DEF p
<1>5. /\ q \in Seq(Calls \cup {Nil})
      /\ \A j \in DOMAIN q : (j \in DOMAIN spaces[a] /\ q[j] = spaces[a][j]) \/ q[j] = Nil
  BY <1>2
<1> HIDE DEF q
<1>6. /\ spaces' \in [Attempts -> Seq(Calls \cup {Nil})]
      /\ \A b \in Attempts : \A j \in DOMAIN spaces'[b] : Carries(b, spaces'[b][j])
  BY <1>1, <1>5 DEF PairInv, Shape, Carried, Carries
<1>7. Carrying
  BY <1>3, <1>4, <1>6, Taken DEF Carrying
<1>8. Onward /\ Closing
  BY <1>1 DEF Onward, Closing, PairInv, Shape
<1> QED
  BY <1>1, <1>7, <1>8, PageStep

LEMMA PersistStep ==
  ASSUME PairInv, NEW a \in Attempts, NEW i \in DOMAIN polls[a], Persist(a, i)
  PROVE  PairInv'
<1> DEFINE p == [polls[a][i] EXCEPT !.stage = "persisted"]
           t == polls[a][i].token
           n == polls[a][i].space
           q == [spaces[a] EXCEPT ![n] = t]
<1>1. UNCHANGED <<device, epoch, call, slot, link>> /\ spaces' = [spaces EXCEPT ![a] = q]
  BY DEF Persist, PairInv, Shape
<1>2. p \in PollOf /\ p.token = polls[a][i].token
  BY Taken DEF PollOf
<1>3. polls' = [polls EXCEPT ![a] = [@ EXCEPT ![i] = p]]
  BY Taken DEF Persist, PollOf, PairInv, Shape
<1> HIDE DEF p
<1>4. spaces[a] \in Seq(Calls \cup {Nil}) /\ t \in Calls \cup {Nil} /\ Carries(a, t)
  BY Taken DEF PairInv, Shape, PollOf
<1> HIDE DEF t, n
<1>5. /\ q \in Seq(Calls \cup {Nil}) /\ DOMAIN q = DOMAIN spaces[a]
      /\ \A j \in DOMAIN q : q[j] = spaces[a][j] \/ q[j] = t
  <2>1. CASE n \in DOMAIN spaces[a]
    BY <1>4, <2>1
  <2>2. CASE n \notin DOMAIN spaces[a]
    <3>1. q = spaces[a]
      BY <1>4, <2>2
    <3> QED BY <1>4, <3>1
  <2> QED BY <2>1, <2>2
<1> HIDE DEF q
<1>6. /\ spaces' \in [Attempts -> Seq(Calls \cup {Nil})]
      /\ \A b \in Attempts : \A j \in DOMAIN spaces'[b] : Carries(b, spaces'[b][j])
  <2>1. spaces' \in [Attempts -> Seq(Calls \cup {Nil})]
    BY <1>1, <1>5 DEF PairInv, Shape
  <2>2. ASSUME NEW b \in Attempts, NEW j \in DOMAIN spaces'[b] PROVE Carries(b, spaces'[b][j])
    <3>1. CASE b = a
      BY <3>1, <1>1, <1>4, <1>5 DEF PairInv, Shape, Carried
    <3>2. CASE b # a
      BY <3>2, <1>1 DEF PairInv, Shape, Carried
    <3> QED BY <3>1, <3>2
  <2> QED BY <2>1, <2>2
<1>7. Carrying
  BY <1>2, <1>3, <1>6, Taken DEF Carrying
<1>8. Onward /\ Closing
  BY <1>1 DEF Onward, Closing, PairInv, Shape
<1> QED
  BY <1>1, <1>7, <1>8, PageStep

LEMMA ForgetPendingStep ==
  ASSUME PairInv, NEW a \in Attempts, NEW i \in DOMAIN polls[a], ForgetPending(a, i)
  PROVE  PairInv'
<1> DEFINE p == [polls[a][i] EXCEPT !.stage = "forgotten"]
<1>1. UNCHANGED <<device, epoch, call, slot, link, spaces>>
  BY DEF ForgetPending
<1>2. p \in PollOf /\ p.token = polls[a][i].token
  BY Taken DEF PollOf
<1>3. polls' = [polls EXCEPT ![a] = [@ EXCEPT ![i] = p]]
  BY Taken DEF ForgetPending, PollOf, PairInv, Shape
<1> HIDE DEF p
<1>4. Carrying
  BY <1>1, <1>2, <1>3, PollMoves
<1>5. Onward /\ Closing
  BY <1>1 DEF Onward, Closing, PairInv, Shape
<1> QED
  BY <1>1, <1>4, <1>5, PageStep

LEMMA JoinedStep ==
  ASSUME PairInv, NEW a \in Attempts, NEW i \in DOMAIN polls[a], Joined(a, i)
  PROVE  PairInv'
<1>1. UNCHANGED <<device, epoch, call, spaces>> /\ polls' = Ended(a, i)
  BY DEF Joined
<1>2. Onward /\ Closing
  BY DEF Joined, Onward, Closing, PairInv, Shape, Links
<1>3. Carrying
  BY <1>1, EndedCarries DEF Carrying, PairInv, Shape, Carried
<1> QED
  BY <1>1, <1>2, <1>3, PageStep

(***************************************************************************)
(* The server's steps.                                                     *)
(***************************************************************************)
LEMMA ExpireStep ==
  ASSUME PairInv, NEW s \in Slots, Expire(s)
  PROVE  PairInv'
<1>1. UNCHANGED <<device, epoch, call, link, polls, spaces>>
  BY DEF Expire
<1>2. Onward /\ Closing
  BY <1>1 DEF Expire, Onward, Closing, PairInv, Shape
<1>3. Carrying
  BY <1>1 DEF Carrying, PairInv, Shape, Carried
<1> QED
  BY <1>1, <1>2, <1>3, PageStep

\* A call that has deposited no package moves to another stage.
LEMMA CallStep ==
  ASSUME PairInv, NEW c \in Calls, call[c].stage # "done",
         NEW d \in [stage : {"new", "sent", "checked", "refused"},
                    of : Attempts \cup {Nil}, epoch : Nat],
         d.stage \in {"sent", "checked"} => d.of \in Attempts /\ link[d.of] # "new",
         call' = [call EXCEPT ![c] = d],
         UNCHANGED <<slot, device, epoch, link, polls, spaces>>
  PROVE  PairInv'
<1> USE DEF PairInv
<1>1. Shape'
  BY DEF Shape
<1>2. Begun'
  BY DEF Begun, Shape
<1>3. Registered'
  BY DEF Registered
<1>4. Packaged'
  BY DEF Packaged, Shape
<1>5. Carried'
  BY DEF Carried, Carries
<1> QED
  BY <1>1, <1>2, <1>3, <1>4, <1>5

LEMMA AddDeviceStep ==
  ASSUME PairInv, NEW c \in Calls, NEW a \in Attempts, AddDevice(c, a)
  PROVE  PairInv'
<1>1. PICK e \in 1 .. epoch : call' = [call EXCEPT ![c] = [stage |-> "sent", of |-> a, epoch |-> e]]
  BY DEF AddDevice
<1>2. e \in Nat
  BY DEF PairInv, Shape
<1> DEFINE d == [stage |-> "sent", of |-> a, epoch |-> e]
<1>3. /\ d \in [stage : {"new", "sent", "checked", "refused"}, of : Attempts \cup {Nil}, epoch : Nat]
      /\ d.of = a /\ call' = [call EXCEPT ![c] = d]
  BY <1>1, <1>2
<1> HIDE DEF d
<1> QED
  BY <1>3, CallStep DEF AddDevice

LEMMA CompleteCheckStep ==
  ASSUME PairInv, NEW c \in Calls, CompleteCheck(c)
  PROVE  PairInv'
<1>1. PICK stage \in {"checked", "refused"} : call' = [call EXCEPT ![c].stage = stage]
  BY DEF CompleteCheck, Stage
<1> DEFINE d == [call[c] EXCEPT !.stage = stage]
<1>2. /\ d \in [stage : {"new", "sent", "checked", "refused"}, of : Attempts \cup {Nil}, epoch : Nat]
      /\ d.of = call[c].of /\ call' = [call EXCEPT ![c] = d]
  BY <1>1 DEF PairInv, Shape
<1>3. call[c].of \in Attempts /\ link[call[c].of] # "new"
  BY DEF CompleteCheck, PairInv, Begun
<1> HIDE DEF d
<1> QED
  BY <1>2, <1>3, CallStep DEF CompleteCheck

\* A slot that is open is that of a device without a row.
LEMMA CompleteBatchStep ==
  ASSUME OwnSlots, PairInv, NEW c \in Calls, CompleteBatch(c)
  PROVE  PairInv' /\ (Open(c) => device[call[c].of].st = "none")
<1> USE DEF PairInv
<1> DEFINE a == call[c].of
           s == SlotOf[a]
<1>1. /\ UNCHANGED <<epoch, link, polls, spaces>> /\ call[c].stage = "checked"
      /\ a \in Attempts /\ link[a] # "new" /\ s \in Slots
  BY PairingAssumption DEF CompleteBatch, Begun
<1>2. CASE ~Open(c)
  <2> DEFINE d == [call[c] EXCEPT !.stage = "refused"]
  <2>1. /\ d \in [stage : {"new", "sent", "checked", "refused"}, of : Attempts \cup {Nil}, epoch : Nat]
        /\ d.stage = "refused" /\ call' = [call EXCEPT ![c] = d]
    BY <1>2 DEF CompleteBatch, Stage, Shape
  <2>2. UNCHANGED <<slot, device>>
    BY <1>2 DEF CompleteBatch
  <2> HIDE DEF d
  <2> QED BY <1>1, <1>2, <2>1, <2>2, CallStep
<1>3. CASE Open(c)
  <2> HIDE DEF a, s
  <2>1. /\ device' = [device EXCEPT ![a] = [st |-> "active", token |-> c]]
        /\ slot' = [slot EXCEPT ![s].package = c]
        /\ call' = [call EXCEPT ![c].stage = "done"]
    BY <1>3 DEF CompleteBatch, Stage, a, s
  <2>2. slot[s] # NoSlot /\ slot[s].package = Nil /\ c # Nil
    BY <1>3, PairingAssumption DEF Open, a, s
  <2>3. device[a].st = "none"
    BY <1>1, <2>2 DEF Registered, s
  <2>4. \A b \in Attempts : SlotOf[b] = s => b = a
    BY <1>1 DEF OwnSlots, s
  <2>5. Shape'
    BY <1>1, <2>1, ZenonT(90) DEF Shape
  <2>6. Begun'
    <3>1. \A t \in Slots : slot'[t] # NoSlot => \A b \in Attempts : SlotOf[b] = t => link'[b] # "new"
      BY <1>1, <2>1, <2>2 DEF Begun, Shape
    <3>2. \A d \in Calls : call'[d].stage \in {"sent", "checked", "done"} =>
            call'[d].of \in Attempts /\ link'[call'[d].of] # "new"
      BY <1>1, <2>1 DEF Begun, Shape, a
    <3> QED BY <3>1, <3>2 DEF Begun
  <2>7. Registered'
    <3>1. ASSUME NEW b \in Attempts, device'[b].st # "none"
          PROVE  /\ link'[b] # "new" /\ device'[b].token # Nil
                 /\ slot'[SlotOf[b]] # NoSlot => slot'[SlotOf[b]].package = device'[b].token
      <4>1. CASE b = a
        BY <4>1, <1>1, <2>1, <2>2 DEF Shape, s
      <4>2. CASE b # a
        <5>1. SlotOf[b] # s /\ SlotOf[b] \in Slots
          BY <4>2, <2>4, PairingAssumption
        <5> QED BY <5>1, <4>2, <3>1, <1>1, <2>1 DEF Registered, Shape
      <4> QED BY <4>1, <4>2
    <3> QED BY <3>1 DEF Registered
  <2>8. Packaged'
    <3> SUFFICES ASSUME NEW t \in Slots, slot'[t].package # Nil
                 PROVE  LET x == slot'[t].package IN
                        /\ call'[x].stage = "done" /\ SlotOf[call'[x].of] = t
                        /\ device'[call'[x].of].st # "none" /\ device'[call'[x].of].token = x
      BY DEF Packaged
    <3>1. CASE t = s
      <4>1. slot'[s].package = c /\ device'[a].st = "active" /\ device'[a].token = c
        BY <1>1, <2>1 DEF Shape
      <4>2. call'[c].stage = "done" /\ call'[c].of = a
        BY <2>1 DEF Shape, a
      <4> QED BY <3>1, <4>1, <4>2 DEF s
    <3>2. CASE t # s
      <4> DEFINE x == slot[t].package
      <4>1. /\ slot'[t] = slot[t] /\ x \in Calls /\ call[x].stage = "done" /\ SlotOf[call[x].of] = t
            /\ device[call[x].of].st # "none" /\ device[call[x].of].token = x
            /\ call[x].of \in Attempts
        BY <3>2, <2>1 DEF Shape, Packaged, Begun
      <4>2. x # c /\ call[x].of # a
        BY <4>1, <3>2, <1>1 DEF s
      <4> HIDE DEF x
      <4>3. call'[x] = call[x] /\ device'[call[x].of] = device[call[x].of]
        BY <4>1, <4>2, <2>1 DEF Shape
      <4> QED BY <4>1, <4>3 DEF x
    <3> QED BY <3>1, <3>2
  <2>9. Carried'
    BY <1>1, <2>1, <2>3 DEF Carried, Carries, Shape
  <2> QED BY <2>3, <2>5, <2>6, <2>7, <2>8, <2>9 DEF a
<1> QED
  BY <1>2, <1>3

LEMMA RevokeStep ==
  ASSUME PairInv, NEW a \in Attempts, Revoke(a)
  PROVE  PairInv'
<1> USE DEF PairInv
<1>1. /\ UNCHANGED <<slot, epoch, call, link, polls, spaces>> /\ device[a].st = "active"
      /\ device' = [device EXCEPT ![a].st = "revoked"]
  BY DEF Revoke
<1>2. \A b \in Attempts : /\ device'[b].token = device[b].token
                          /\ device'[b].st # "none" <=> device[b].st # "none"
  BY <1>1 DEF Shape
<1>3. Shape'
  BY <1>1 DEF Shape
<1>4. Begun'
  BY <1>1 DEF Begun
<1>5. Registered'
  BY <1>1, <1>2 DEF Registered
<1>6. Packaged'
  BY <1>1, <1>2 DEF Packaged, Begun, Shape
<1>7. Carried'
  BY <1>1, <1>2 DEF Carried, Carries
<1> QED
  BY <1>3, <1>4, <1>5, <1>6, <1>7

LEMMA RotateStep == ASSUME PairInv, Rotate PROVE PairInv'
  BY DEF PairInv, Rotate, Shape, Begun, Registered, Packaged, Carried, Carries

(***************************************************************************)
(* The theorems.                                                           *)
(***************************************************************************)
LEMMA PairInvInit == Init => PairInv
<1> SUFFICES ASSUME Init PROVE PairInv
  OBVIOUS
<1>1. Shape
  BY DEF Init, Shape, NoSlot, NoDevice, NoCall, Links
<1>2. Begun /\ Registered
  BY DEF Init, Begun, Registered, NoDevice, NoCall
<1>3. Packaged /\ Carried
  BY DEF Init, Packaged, Carried, NoSlot
<1> QED
  BY <1>1, <1>2, <1>3 DEF PairInv

LEMMA PairInvStep == ASSUME OwnSlots, ~Reopens, PairInv, [Next]_vars PROVE PairInv'
<1>1. CASE UNCHANGED vars
  BY <1>1 DEF vars, PairInv, Shape, Begun, Registered, Packaged, Carried, Carries
<1>2. ASSUME NEW a \in Attempts,
             \/ Request(a) \/ RequestLands(a) \/ Waits(a) \/ StartPoll(a) \/ PollSteps(a)
             \/ \E i \in DOMAIN polls[a] : PollFails(a, i)
             \/ Cancel(a) \/ Pause(a) \/ Resume(a) \/ Reload(a) \/ Revoke(a)
      PROVE  PairInv'
  <2>1. CASE PollSteps(a)
    BY <2>1, AnsweredStep, BeginSpaceStep, PersistStep, ForgetPendingStep, JoinedStep DEF PollSteps
  <2>2. CASE \E i \in DOMAIN polls[a] : PollFails(a, i)
    BY <2>2, PollFailsStep
  <2> QED
    BY <1>2, <2>1, <2>2, RequestStep, RequestLandsStep, WaitStep, StartPollStep, ReloadStep, RevokeStep
<1>3. ASSUME NEW s \in Slots, Expire(s) PROVE PairInv'
  BY <1>3, ExpireStep
<1>4. ASSUME NEW c \in Calls,
             (\E a \in Attempts : AddDevice(c, a)) \/ CompleteCheck(c) \/ CompleteBatch(c)
      PROVE  PairInv'
  BY <1>4, AddDeviceStep, CompleteCheckStep, CompleteBatchStep
<1>5. CASE Rotate
  BY <1>5, RotateStep
<1> QED
  BY <1>1, <1>2, <1>3, <1>4, <1>5 DEF Next

LEMMA PairInvAlways == OwnSlots /\ ~Reopens => (Spec => []PairInv)
<1> SUFFICES ASSUME OwnSlots, ~Reopens PROVE Spec => []PairInv
  OBVIOUS
<1>1. Init => PairInv
  BY PairInvInit
<1>2. PairInv /\ [Next]_vars => PairInv'
  BY PairInvStep
<1> QED
  BY <1>1, <1>2, PTL DEF Spec

\* TokenFits: while a device is active, the package in its slot and every session it
\* persisted carry the token of its row (pairing.ts:189-195), for any number of flows,
\* completions and polls in any order, when no two flows share a slot and no late copy of a
\* request (pairing.ts:55-68) reserves the slot of a device that is registered.
THEOREM PairingTokenFits == OwnSlots /\ ~Reopens => (Spec => []TokenFits)
<1> SUFFICES ASSUME OwnSlots, ~Reopens PROVE Spec => []TokenFits
  OBVIOUS
<1>1. PairInv => TokenFits
  BY DEF PairInv, Registered, Packaged, Carried, Carries, TokenFits
<1>2. Spec => []PairInv
  BY PairInvAlways
<1> QED
  BY <1>1, <1>2, PTL

\* RevocationStands: under the same conditions no completion, however late or repeated,
\* takes a revoked device back (the ON CONFLICT of completePairing).
THEOREM PairingRevocationStands == OwnSlots /\ ~Reopens => (Spec => RevocationStands)
<1> SUFFICES ASSUME OwnSlots, ~Reopens PROVE Spec => RevocationStands
  OBVIOUS
<1> DEFINE Stands == \A a \in Attempts : device[a].st = "revoked" => device'[a].st = "revoked"
<1>1. ASSUME PairInv, [Next]_vars PROVE [Stands]_vars
  <2>1. CASE UNCHANGED device
    BY <2>1
  <2>2. ASSUME NEW a \in Attempts, Revoke(a) PROVE Stands
    BY <1>1, <2>2 DEF Revoke, PairInv, Shape
  <2>3. ASSUME NEW c \in Calls, CompleteBatch(c), ~UNCHANGED device PROVE Stands
    <3>1. Open(c) /\ device' = [device EXCEPT ![call[c].of] = [st |-> "active", token |-> c]]
      BY <2>3 DEF CompleteBatch
    <3>2. device[call[c].of].st = "none"
      BY <1>1, <2>3, <3>1, CompleteBatchStep
    <3> QED BY <1>1, <3>1, <3>2 DEF PairInv, Shape
  <2>4. [Next]_vars => \/ UNCHANGED device
                       \/ \E a \in Attempts : Revoke(a)
                       \/ \E c \in Calls : CompleteBatch(c)
    <3>1. [Next]_vars => \/ UNCHANGED device
                         \/ \E a \in Attempts : Revoke(a)
                         \/ \E a \in Attempts : PollSteps(a)
                         \/ \E c \in Calls : CompleteBatch(c)
      BY DEF Next, vars, Request, RequestLands, Waits, StartPoll, PollFails, Cancel, Pause, Resume, Reload,
             Expire, AddDevice, CompleteCheck, Rotate
    <3>2. \A a \in Attempts : PollSteps(a) => UNCHANGED device
      BY DEF PollSteps, Answered, BeginSpace, Persist, ForgetPending, Joined
    <3> QED BY <3>1, <3>2
  <2> QED BY <1>1, <2>1, <2>2, <2>3, <2>4
<1>2. Spec => []PairInv
  BY PairInvAlways
<1> QED
  BY <1>1, <1>2, PTL DEF Spec, RevocationStands
===============================================================================
