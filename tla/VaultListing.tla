---------------------------- MODULE VaultListing ----------------------------
(***************************************************************************)
(* What GET /api/vault?since= promises the copy of one reader, whatever    *)
(* pages, resets and tombstones it takes (routes/vault.ts:163-167).        *)
(*                                                                         *)
(* The vault is the number of each item's last change and whether the item *)
(* is still there.  A copy holds versions, named by their numbers, and a   *)
(* cursor: of everything not changed since the cursor, it has exactly what *)
(* the vault has.  It may already hold later versions, never invented ones.*)
(***************************************************************************)
EXTENDS Naturals

CONSTANT Items

VARIABLES
  head,     \* the number of the vault's last change
  changed,  \* the number of each item's last change, 0 before it exists
  alive,    \* whether the item is in the vault
  copy,     \* the version of each item the reader holds, 0 for none
  at        \* the reader's cursor

vault == <<head, changed, alive>>
listing == <<vault, copy, at>>

Version(i) == IF alive[i] THEN changed[i] ELSE 0

Faithful ==
  /\ at \in 0..head
  /\ \A i \in Items : copy[i] <= changed[i]
  /\ \A i \in Items : changed[i] <= at => copy[i] = Version(i)

CaughtUp == at = head /\ \A i \in Items : copy[i] = Version(i)

Init == Faithful

\* A batch of writes: each changed row gets a number of its own.
Change ==
  /\ head' > head
  /\ \A i \in Items :
       IF changed'[i] = changed[i] THEN alive'[i] = alive[i]
       ELSE /\ changed'[i] \in head + 1..head'
            /\ \A j \in Items \ {i} : changed'[j] # changed'[i]
  /\ UNCHANGED <<copy, at>>

\* The copy moves on: by a listing, or by the answer to a write of the reader itself.
Learn == at' >= at /\ Faithful' /\ UNCHANGED vault

\* The reader starts over with nothing.
StartOver == at' = 0 /\ Faithful' /\ UNCHANGED vault

Spec == Init /\ [][Change \/ Learn \/ StartOver]_listing
=============================================================================
