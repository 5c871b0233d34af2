------------------------- MODULE MC_MessageDelivery -------------------------
(* MessageDelivery on three devices: o writes, anybody retracts.            *)
EXTENDS MessageDelivery
CONSTANTS o, b, c, m, n, t
AuthorIs(who) == [x \in Messages |-> IF x = t THEN who ELSE IF x = n THEN b ELSE o]
AuthorO == AuthorIs(o)
AuthorB == AuthorIs(b)
TargetM == [x \in Messages |-> IF x = t THEN m ELSE None]
=============================================================================
