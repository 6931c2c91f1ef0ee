----------------------------- MODULE MCHashMap -----------------------------
(* Small instances of HashMap for TLC. *)
EXTENDS HashMap

\* Keys in two clusters, the second one wrapping around the end of the index.
MCHash == [k \in 0..MaxKey |-> IF k % 2 = 0 THEN 0 ELSE 7]
=============================================================================
