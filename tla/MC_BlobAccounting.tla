-------------------------- MODULE MC_BlobAccounting --------------------------
(* BlobAccounting with two blobs that do not fit together.                  *)
EXTENDS BlobAccounting
CONSTANTS k1, k2
SizeIs == [k \in Keys |-> IF k = k1 THEN 2 ELSE 1]
=============================================================================
