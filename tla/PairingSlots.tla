----------------------------- MODULE PairingSlots -----------------------------
(***************************************************************************)
(* Pairing: a device that wants to join reserves a slot, an administrator  *)
(* who has seen its keys completes it, and the device polls the slot for   *)
(* the package (apps/worker/src/routes/pairing.ts, and the linking flow of *)
(* apps/web/src/actions.ts).                                               *)
(*                                                                         *)
(* An attempt is one linking flow: it mints a device id, keys and a slot   *)
(* id, or takes the slot id from an invitation, which several machines may *)
(* answer.  A call is one completePairing request: it mints the token that *)
(* the package carries, and goes on at the server if its caller gives up.  *)
(***************************************************************************)
EXTENDS Naturals, Sequences

CONSTANTS
  Attempts,   \* linking flows, each with the device it mints
  Slots,      \* pairing ids
  SlotOf,     \* the pairing id of each attempt
  Calls,      \* completePairing requests, each with the token it mints
  Nil,
  MaxEpoch,   \* bound on rotations
  MaxPolls,   \* bound on one attempt's polls in flight
  MaxFaults,  \* bound on lost answers, refused polls, late copies and pages killed
  Reopens     \* may a late copy of a request reserve the slot of a registered device?

ASSUME PairingAssumption ==
  /\ SlotOf \in [Attempts -> Slots] /\ Nil \notin Attempts \cup Calls
  /\ MaxEpoch \in Nat \ {0} /\ MaxPolls \in Nat \ {0} /\ MaxFaults \in Nat
  /\ Reopens \in BOOLEAN

VARIABLES
  slot,     \* the pairing table: who asked, and the call whose package it holds
  device,   \* the rows of the joining devices, with the call that registered each
  epoch,    \* groups.key_epoch
  call,     \* completePairing requests
  link,     \* the linking flow in the joining device's page
  pending,  \* GLOBAL_PENDING_PAIRING
  polls,    \* pollLink runs, in order
  spaces,   \* the spaces a flow created, each with the token persisted for it
  faults

vars == <<slot, device, epoch, call, link, pending, polls, spaces, faults>>

NoSlot   == [by |-> Nil, package |-> Nil]
NoDevice == [st |-> "none", token |-> Nil]
NoCall   == [stage |-> "new", of |-> Nil, epoch |-> 0]

Init ==
  /\ slot = [s \in Slots |-> NoSlot] /\ device = [a \in Attempts |-> NoDevice]
  /\ epoch = 1 /\ call = [c \in Calls |-> NoCall]
  /\ link = [a \in Attempts |-> "new"] /\ pending = [a \in Attempts |-> FALSE]
  /\ polls = [a \in Attempts |-> <<>>] /\ spaces = [a \in Attempts |-> <<>>]
  /\ faults = 0

Fault == faults < MaxFaults /\ faults' = faults + 1

-----------------------------------------------------------------------------
(***************************************************************************)
(* The joining device.                                                     *)
(***************************************************************************)
SlotTaken(a) == slot[SlotOf[a]] # NoSlot /\ slot[SlotOf[a]].by # a

\* startLinking, up to the answer of requestPairing, which keeps a slot that is there.
Request(a) ==
  /\ link[a] = "new"
  /\ IF SlotTaken(a)
     THEN link' = [link EXCEPT ![a] = "refused"] /\ UNCHANGED slot
     ELSE /\ link' = [link EXCEPT ![a] = "reserved"]
          /\ slot' = [slot EXCEPT ![SlotOf[a]] = IF @ = NoSlot THEN [NoSlot EXCEPT !.by = a] ELSE @]
  /\ UNCHANGED <<device, epoch, call, pending, polls, spaces, faults>>

\* A copy of the request whose answer never came lands when the slot is gone again.
RequestLands(a) ==
  /\ link[a] # "new" /\ slot[SlotOf[a]] = NoSlot
  /\ Reopens \/ device[a].st = "none"
  /\ Fault
  /\ slot' = [slot EXCEPT ![SlotOf[a]].by = a]
  /\ UNCHANGED <<device, epoch, call, link, pending, polls, spaces>>

\* The pairing is persisted, its code is shown and polling starts.
Waits(a) ==
  /\ link[a] = "reserved"
  /\ link' = [link EXCEPT ![a] = "waiting"] /\ pending' = [pending EXCEPT ![a] = TRUE]
  /\ UNCHANGED <<slot, device, epoch, call, polls, spaces, faults>>

\* The interval fires, whether or not an earlier poll is still in flight.
StartPoll(a) ==
  /\ link[a] = "waiting" /\ Len(polls[a]) < MaxPolls
  /\ polls' = [polls EXCEPT ![a] = Append(@, [stage |-> "asked", token |-> Nil, space |-> 0])]
  /\ UNCHANGED <<slot, device, epoch, call, link, pending, spaces, faults>>

Ended(a, i) == [polls EXCEPT ![a] = SubSeq(@, 1, i - 1) \o SubSeq(@, i + 1, Len(@))]
Poll(a, i, stage) == i \in DOMAIN polls[a] /\ polls[a][i].stage = stage

\* Mutant: the first answer ends the polling, ready or not.
FirstAnswerEnds(a, i) ==
  /\ Poll(a, i, "asked")
  /\ polls' = Ended(a, i) /\ link' = [link EXCEPT ![a] = "unwrapping"]
  /\ UNCHANGED <<slot, device, epoch, call, pending, spaces, faults>>

\* pollPairing's answer: not ready, or the package, which stops the interval and opens
\* for the device it was wrapped for only.
Answered(a, i) ==
  LET c == slot[SlotOf[a]].package IN
  /\ Poll(a, i, "asked")
  /\ IF c = Nil THEN polls' = Ended(a, i) /\ UNCHANGED link
     ELSE IF call[c].of # a
     THEN polls' = Ended(a, i) /\ link' = [link EXCEPT ![a] = IF @ = "waiting" THEN "error" ELSE @]
     ELSE /\ polls' = [polls EXCEPT ![a][i] = [@ EXCEPT !.stage = "opened", !.token = c]]
          /\ link' = [link EXCEPT ![a] = IF @ = "waiting" THEN "unwrapping" ELSE @]
  /\ UNCHANGED <<slot, device, epoch, call, pending, spaces, faults>>

\* The answer is lost, and the next tick tries again, or it is an error, and none does.
PollFails(a, i) ==
  /\ Poll(a, i, "asked") /\ Fault
  /\ polls' = Ended(a, i)
  /\ link' \in {link, [link EXCEPT ![a] = IF @ = "waiting" THEN "error" ELSE @]}
  /\ UNCHANGED <<slot, device, epoch, call, pending, spaces>>

\* beginSpace.
BeginSpace(a, i) ==
  /\ Poll(a, i, "opened")
  /\ spaces' = [spaces EXCEPT ![a] = Append(@, Nil)]
  /\ polls' = [polls EXCEPT ![a][i] = [@ EXCEPT !.stage = "begun", !.space = Len(spaces[a]) + 1]]
  /\ UNCHANGED <<slot, device, epoch, call, link, pending, faults>>

\* persistSession.
Persist(a, i) ==
  /\ Poll(a, i, "begun")
  /\ spaces' = [spaces EXCEPT ![a][polls[a][i].space] = polls[a][i].token]
  /\ polls' = [polls EXCEPT ![a][i].stage = "persisted"]
  /\ UNCHANGED <<slot, device, epoch, call, link, pending, faults>>

ForgetPending(a, i) ==
  /\ Poll(a, i, "persisted")
  /\ pending' = [pending EXCEPT ![a] = FALSE]
  /\ polls' = [polls EXCEPT ![a][i].stage = "forgotten"]
  /\ UNCHANGED <<slot, device, epoch, call, link, spaces, faults>>

\* pairingDelete, best effort, and the new space is shown.
Joined(a, i) ==
  /\ Poll(a, i, "forgotten")
  /\ slot' \in {slot, [slot EXCEPT ![SlotOf[a]] = NoSlot]}
  /\ polls' = Ended(a, i) /\ link' = [link EXCEPT ![a] = "done"]
  /\ UNCHANGED <<device, epoch, call, pending, spaces, faults>>

-----------------------------------------------------------------------------
(***************************************************************************)
(* What interrupts it.                                                     *)
(***************************************************************************)
\* cancelLinking: polls in flight go on.
Cancel(a) ==
  /\ link[a] \in {"waiting", "error"}
  /\ link' = [link EXCEPT ![a] = "cancelled"] /\ pending' = [pending EXCEPT ![a] = FALSE]
  /\ UNCHANGED <<slot, device, epoch, call, polls, spaces, faults>>

\* pauseLinking, when a space is entered.
Pause(a) ==
  /\ link[a] \in {"waiting", "error"}
  /\ link' = [link EXCEPT ![a] = "paused"]
  /\ UNCHANGED <<slot, device, epoch, call, pending, polls, spaces, faults>>

\* resumeLinking, when the list of spaces comes back.
Resume(a) ==
  /\ link[a] = "paused" /\ pending[a]
  /\ link' = [link EXCEPT ![a] = "waiting"]
  /\ UNCHANGED <<slot, device, epoch, call, pending, polls, spaces, faults>>

\* The page is killed; when it opens again, it is not yet at the list.
Reload(a) ==
  /\ link[a] \notin {"new", "refused"} /\ Fault
  /\ link' = [link EXCEPT ![a] = IF pending[a] THEN "paused" ELSE IF @ = "reserved" THEN "refused" ELSE "done"]
  /\ polls' = [polls EXCEPT ![a] = <<>>]
  /\ UNCHANGED <<slot, device, epoch, call, pending, spaces>>

\* runCleanup: the slot is ten minutes old.
Expire(s) ==
  /\ slot[s] # NoSlot
  /\ slot' = [slot EXCEPT ![s] = NoSlot]
  /\ UNCHANGED <<device, epoch, call, link, pending, polls, spaces, faults>>

-----------------------------------------------------------------------------
(***************************************************************************)
(* The administrators.                                                     *)
(***************************************************************************)
\* addDevice, for a device whose code was seen, with the caller's current key.
AddDevice(c, a) ==
  /\ call[c].stage = "new" /\ link[a] \notin {"new", "refused", "reserved"}
  /\ \E e \in 1 .. epoch : call' = [call EXCEPT ![c] = [stage |-> "sent", of |-> a, epoch |-> e]]
  /\ UNCHANGED <<slot, device, epoch, link, pending, polls, spaces, faults>>

Stage(c, stage) == call' = [call EXCEPT ![c].stage = stage]

\* completePairing, up to the batch: the caller's key, the slot, and the keys in it.
CompleteCheck(c) ==
  LET a == call[c].of
      s == slot[SlotOf[a]] IN
  /\ call[c].stage = "sent"
  /\ Stage(c, IF call[c].epoch = epoch /\ s.by = a /\ s.package = Nil THEN "checked" ELSE "refused")
  /\ UNCHANGED <<slot, device, epoch, link, pending, polls, spaces, faults>>

\* Mutants: the batch relies on the check.
AnySlot(c) == call[c].epoch = epoch
Unguarded(c) == slot[SlotOf[call[c].of]] # NoSlot

\* The statements' guard: the epoch, and a slot that is still open.
Open(c) == /\ call[c].epoch = epoch
           /\ slot[SlotOf[call[c].of]] # NoSlot /\ slot[SlotOf[call[c].of]].package = Nil

CompleteBatch(c) ==
  LET a == call[c].of IN
  /\ call[c].stage = "checked"
  /\ IF Open(c)
     THEN /\ device' = [device EXCEPT ![a] = [st |-> "active", token |-> c]]
          /\ slot' = [slot EXCEPT ![SlotOf[a]].package = c]
          /\ Stage(c, "done")
     ELSE Stage(c, "refused") /\ UNCHANGED <<device, slot>>
  /\ UNCHANGED <<epoch, link, pending, polls, spaces, faults>>

\* revokeDevice.
Revoke(a) ==
  /\ device[a].st = "active"
  /\ device' = [device EXCEPT ![a].st = "revoked"]
  /\ UNCHANGED <<slot, epoch, call, link, pending, polls, spaces, faults>>

\* rotateKey.
Rotate ==
  /\ epoch < MaxEpoch /\ epoch' = epoch + 1
  /\ UNCHANGED <<slot, device, call, link, pending, polls, spaces, faults>>

-----------------------------------------------------------------------------
PollSteps(a) == \E i \in DOMAIN polls[a] :
  Answered(a, i) \/ BeginSpace(a, i) \/ Persist(a, i) \/ ForgetPending(a, i) \/ Joined(a, i)

Next ==
  \/ \E a \in Attempts :
       \/ Request(a) \/ RequestLands(a) \/ Waits(a) \/ StartPoll(a) \/ PollSteps(a)
       \/ \E i \in DOMAIN polls[a] : PollFails(a, i)
       \/ Cancel(a) \/ Pause(a) \/ Resume(a) \/ Reload(a) \/ Revoke(a)
  \/ \E s \in Slots : Expire(s)
  \/ \E c \in Calls : (\E a \in Attempts : AddDevice(c, a)) \/ CompleteCheck(c) \/ CompleteBatch(c)
  \/ Rotate

\* A page that is open polls and goes on with what it started; requests are executed.
Fairness ==
  /\ \A a \in Attempts : WF_vars(StartPoll(a)) /\ WF_vars(PollSteps(a))
  /\ \A c \in Calls : WF_vars(CompleteCheck(c)) /\ WF_vars(CompleteBatch(c))

Spec == Init /\ [][Next]_vars /\ Fairness

-----------------------------------------------------------------------------
(***************************************************************************)
(* Properties.                                                             *)
(***************************************************************************)
\* While a device is active, the package in its slot and every session it persisted
\* carry the token of its row, whoever completed the pairing, twice or late
\* (pairing.ts:189-195): a device that joined is never locked out by a second answer.
TokenFits ==
  \A a \in Attempts : device[a].st = "active" =>
    /\ \A i \in DOMAIN spaces[a] : spaces[a][i] \in {Nil, device[a].token}
    /\ \A s \in Slots :
         slot[s].package # Nil /\ call[slot[s].package].of = a => slot[s].package = device[a].token

\* Completing a pairing reactivates a revoked row (ON CONFLICT ... revoked_at = NULL):
\* never one that was revoked since it joined, however late the second completion.
RevocationStands ==
  [][\A a \in Attempts : device[a].st = "revoked" => device'[a].st = "revoked"]_vars

\* A package deposited for a device that is waiting for it reaches it, over lost answers
\* and reloads, unless the slot expires first, the flow is left, or an error is shown.
PackageReachesJoiner ==
  \A a \in Attempts :
    link[a] = "waiting" /\ slot[SlotOf[a]].package # Nil
      ~> \/ \E i \in DOMAIN spaces[a] : spaces[a][i] # Nil
         \/ link[a] \in {"error", "paused", "cancelled", "done"} \/ slot[SlotOf[a]] = NoSlot

\* One linking flow, one space: the device is told of a space twice if two polls are in
\* flight when the package is there, or the page is killed before it forgets the flow.
JoinsOnce == \A a \in Attempts : Len(spaces[a]) <= 1

\* A cancelled flow joins nothing.
CancelledStays == [][\A a \in Attempts : link[a] = "cancelled" => Len(spaces'[a]) = Len(spaces[a])]_vars
=============================================================================
