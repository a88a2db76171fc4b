---------------------------- MODULE PackedTable -----------------------------
(***************************************************************************)
(* The fixed tables of services 11, 12 and 19: an array of which the first *)
(* count rows are in use, here the sequence of those rows.  The code never *)
(* reads a row behind them, and writes every field of a row it adds.       *)
(***************************************************************************)
EXTENDS Naturals, Sequences

(* A seeded fault: the hole is not filled.                                 *)
BadRemoveAt(s, i) == [k \in 1 .. Len(s) - 1 |-> s[k]]

(* Removal: count goes down and the last row moves into the hole.          *)
RemoveAt(s, i) ==
  [k \in 1 .. Len(s) - 1 |-> IF k = i THEN s[Len(s)] ELSE s[k]]

=============================================================================
