------------------------- MODULE PackedTableProofs --------------------------
(***************************************************************************)
(* What removal does to a packed table, for every table and row.           *)
(***************************************************************************)
EXTENDS PackedTable, TLAPS

(* The table stays a table of the same kind of rows, one row shorter, and  *)
(* only the hole changes.                                                  *)
LEMMA RemoveAtShape ==
  ASSUME NEW S, NEW s \in Seq(S), NEW i \in DOMAIN s
  PROVE  /\ RemoveAt(s, i) \in Seq(S)
         /\ Len(RemoveAt(s, i)) = Len(s) - 1
         /\ DOMAIN RemoveAt(s, i) = 1 .. Len(s) - 1
         /\ \A k \in 1 .. Len(s) - 1 :
              RemoveAt(s, i)[k] = IF k = i THEN s[Len(s)] ELSE s[k]
<1>1. Len(s) \in Nat \ {0} /\ DOMAIN s = 1 .. Len(s) /\ \A k \in 1 .. Len(s) : s[k] \in S
  OBVIOUS
<1>2. RemoveAt(s, i) \in [1 .. Len(s) - 1 -> S]
  BY <1>1 DEF RemoveAt
<1>3. Len(s) - 1 \in Nat
  BY <1>1
<1> QED
  BY <1>1, <1>2, <1>3 DEF RemoveAt

=============================================================================
