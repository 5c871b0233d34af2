--------------------------- MODULE MC_PairingSlots ---------------------------
(* Instances of PairingSlots for TLC. *)
EXTENDS PairingSlots
SlotEach == [a \in {"a", "b"} |-> a]        \* QR codes: a slot of its own for each
SlotShared == [a \in {"a", "b"} |-> "a"]    \* an invitation two machines answer
SlotOne == [a \in {"a"} |-> "a"]
=============================================================================
