----------------------------- MODULE MCRetryDisk -----------------------------
(* RetryDisk with a file of two units and others of one: room for some of  *)
(* them only, so that calls race for the last of the space.                *)
EXTENDS RetryDisk

CONSTANTS b1, b2, b3

MCSize == [b \in Batches |-> IF b = b1 THEN 2 ELSE 1]
=============================================================================
