---------------------------- MODULE SpaceKeyLog ----------------------------
(***************************************************************************)
(* What rotation promises the devices of a space that nobody joins: they   *)
(* read one log of keys, one key to an epoch (docs/security.md, "cannot    *)
(* create competing current epochs").                                      *)
(*                                                                         *)
(* A member's ring is what it stores.  A ring may run one epoch ahead of   *)
(* the log, with the key of a rotation that lost; while there are two      *)
(* members the log then stays as it is, since the next key could be        *)
(* another one.  A member that is left alone has nobody to disagree with.  *)
(***************************************************************************)
EXTENDS Naturals

VARIABLES
  epoch,  \* the newest epoch of the log
  log,    \* the keys that won, as entries of an epoch and a key
  rings   \* the entries each member stores

Members == DOMAIN rings
Alone   == \A d, e \in Members : d = e

OneKeyEach(ring) == \A x, y \in ring : x.epoch = y.epoch => x = y

\* The log starts with the key of its first epoch, and everyone has it.
Init ==
  /\ epoch \in Nat
  /\ \E x \in log : log = {x} /\ x.epoch = epoch
  /\ rings = [d \in Members |-> log]

\* A rotation wins the epoch to come.
Commit ==
  /\ Alone \/ \A d \in Members : \A x \in rings[d] : x.epoch <= epoch
  /\ epoch' = epoch + 1
  /\ \E x \in log' : x.epoch = epoch' /\ log' = log \cup {x}
  /\ UNCHANGED rings

\* A member stores keys of the log, or one of the epoch to come.
Store(d) ==
  /\ DOMAIN rings' = Members /\ rings' = [rings EXCEPT ![d] = rings'[d]]
  /\ OneKeyEach(rings'[d])
  /\ Alone \/ \A x \in rings'[d] \ rings[d] : x \in log \/ x.epoch = epoch + 1
  /\ UNCHANGED <<epoch, log>>

\* A member is revoked.
Leave(d) ==
  /\ rings' = [e \in Members \ {d} |-> rings[e]]
  /\ UNCHANGED <<epoch, log>>

Next == Commit \/ \E d \in Members : Store(d) \/ Leave(d)

Spec == Init /\ [][Next]_<<epoch, log, rings>>

\* What follows: up to the log's epoch two members that are left have its keys, no others.
Agreed == Alone \/ \A d \in Members : \A x \in rings[d] : x.epoch <= epoch => x \in log
=============================================================================
