------------------------- MODULE HousekeepingProofs -------------------------
(***************************************************************************)
(* Theorems about housekeeping, for every size of the set table and the    *)
(* parameter pool, every boot-time table and every set of telecommands,    *)
(* and for both ways of scheduling the tick unless a theorem names one.    *)
(***************************************************************************)
EXTENDS Housekeeping, WellFoundedInduction, TLAPS

(* Lists                                                                   *)
LEMMA ListShape ==
  ASSUME NEW s, IsList(s)
  PROVE  Len(s) \in Nat /\ DOMAIN s = 1 .. Len(s)
BY DEF IsList

LEMMA SeqShape ==
  ASSUME NEW S, NEW s \in Seq(S)
  PROVE  /\ Len(s) \in Nat /\ DOMAIN s = 1 .. Len(s)
         /\ s \in [1 .. Len(s) -> S]
OBVIOUS

LEMMA FunIsList ==
  ASSUME NEW n \in Nat, NEW s, s = [k \in 1 .. n |-> s[k]]
  PROVE  IsList(s) /\ Len(s) = n
<1> DEFINE S == {s[k] : k \in DOMAIN s}
<1>1. s \in [1 .. n -> S]
  OBVIOUS
<1> HIDE DEF S
<1>2. s \in Seq(S) /\ Len(s) = n
  BY <1>1
<1> QED
  BY <1>2 DEF IsList, S

LEMMA ListTail ==
  ASSUME NEW s, IsList(s), s # << >>
  PROVE  /\ IsList(Tail(s)) /\ 1 \in DOMAIN s /\ Head(s) = s[1]
         /\ \A k \in DOMAIN Tail(s) : k + 1 \in DOMAIN s /\ Tail(s)[k] = s[k + 1]
         /\ DOMAIN Tail(s) \subseteq Nat \ {0}
<1> DEFINE S == {s[k] : k \in DOMAIN s}
<1>1. s \in Seq(S)
  BY DEF IsList
<1> HIDE DEF S
<1>2. /\ Len(s) \in Nat /\ Len(s) > 0 /\ DOMAIN s = 1 .. Len(s)
      /\ Tail(s) \in Seq(S) /\ Len(Tail(s)) = Len(s) - 1
      /\ Head(s) = s[1]
  BY <1>1
<1>3. Tail(s) \in [1 .. Len(s) - 1 -> S] /\ DOMAIN Tail(s) = 1 .. Len(s) - 1
  BY <1>2, SeqShape
<1>4. \A k \in 1 .. Len(s) - 1 : Tail(s)[k] = s[k + 1]
  BY <1>1, <1>2
<1>5. Tail(s) = [k \in 1 .. Len(s) - 1 |-> Tail(s)[k]]
  BY <1>3
<1>6. IsList(Tail(s))
  <2>1. Len(s) - 1 \in Nat
    BY <1>2
  <2> QED
    BY <1>5, <2>1, FunIsList
<1> QED
  BY <1>2, <1>3, <1>4, <1>6
-----------------------------------------------------------------------------
(* The parts of the invariant                                              *)

TableTyped ==
  /\ sets \in [1 .. SetCap -> Rows]
  /\ \A r \in 1 .. SetCap : sets[r].countdown <= sets[r].interval
  /\ count \in 0 .. SetCap
  /\ pool \in [0 .. PoolLen - 1 -> Params \cup {None}]
  /\ used \in 0 .. PoolLen

TickTyped ==
  /\ pc \in {"idle", "row", "sid", "param", "reload"}
  /\ i \in 1 .. SetCap + 1
  /\ ReportRow

LEMMA InvParts ==
  HkIInv <=> TableTyped /\ TickTyped /\ PoolPacked /\ CreatedSets /\ DeletionChecked
<1>1. ASSUME HkIInv
      PROVE  TableTyped /\ TickTyped /\ PoolPacked /\ CreatedSets /\ DeletionChecked
  BY <1>1 DEF HkIInv, TypeOK, TableTyped, TickTyped
<1>2. ASSUME TableTyped, TickTyped, PoolPacked, CreatedSets, DeletionChecked
      PROVE  HkIInv
  <2>1. \A r \in 1 .. SetCap :
          /\ sets[r].off \in Offsets /\ sets[r].n \in Nat /\ sets[r].interval \in Nat
          /\ sets[r].countdown \in 0 .. sets[r].interval /\ sets[r].on \in BOOLEAN
    BY <1>2 DEF TableTyped, Rows
  <2>2. TypeOK
    BY <1>2, <2>1 DEF TableTyped, TickTyped, TypeOK
  <2> QED
    BY <1>2, <2>2 DEF HkIInv, TableTyped, TickTyped
<1> QED
  BY <1>1, <1>2

(* A set in the pool lies in the used part of it.                          *)
LEMMA CreatedInPool ==
  ASSUME TableTyped, PoolPacked, CreatedSets, NEW r \in Created
  PROVE  /\ r \in 1 .. count /\ r \in 1 .. SetCap
         /\ sets[r].off \in Nat /\ sets[r].n \in Nat /\ sets[r].n >= 1
         /\ sets[r].off + sets[r].n <= used
         /\ InPool(sets[r])
<1>1. r \in 1 .. count /\ r \in 1 .. SetCap
  BY StorageAssumption DEF TableTyped, Created
<1>2. sets[r].off \in Nat /\ sets[r].n \in Nat /\ sets[r].n >= 1
  BY <1>1, StorageAssumption DEF TableTyped, Rows, Offsets, CreatedSets, Created
<1>3. Run(r) \subseteq 0 .. used - 1
  BY DEF PoolPacked
<1>4. sets[r].off + sets[r].n - 1 \in Run(r) /\ sets[r].off \in Run(r)
  BY <1>2 DEF Run
<1>5. used \in Nat
  BY StorageAssumption DEF TableTyped
<1>6. sets[r].off + sets[r].n - 1 \in 0 .. used - 1 /\ sets[r].off \in 0 .. used - 1
  BY <1>3, <1>4
<1> QED
  BY <1>1, <1>2, <1>5, <1>6 DEF InPool

(* find_set returns a row with the identifier if there is one.             *)
LEMMA RowFound ==
  ASSUME NEW s, Find(s) # {}
  PROVE  Row(s) \in Find(s)
<1> DEFINE F == Find(s)
<1>1. F \in SUBSET Nat
  BY DEF Find
<1> HIDE DEF F
<1>2. PICK p \in F : \A q \in F : ~(<<q, p>> \in OpToRel(<, Nat))
  BY <1>1, NatLessThanWellFounded, WFMin DEF F
<1>3. \A q \in F : ~(q < p)
  BY <1>1, <1>2 DEF OpToRel
<1>4. \A q \in F : p <= q
  BY <1>1, <1>3
<1> QED
  BY <1>4 DEF F, Row

(* Its identifier leads to it and to nothing else.                         *)
LEMMA CreatedRow ==
  ASSUME CreatedSets, NEW r \in Created
  PROVE  Row(sets[r].sid) = r /\ Find(sets[r].sid) = {r}
<1>1. Find(sets[r].sid) = {r}
  BY DEF CreatedSets, Created, Find
<1>2. r <= r
  BY DEF Created
<1> QED
  BY <1>1, <1>2 DEF Row
-----------------------------------------------------------------------------
(* The table and the pool after each kind of change                        *)

TableOK == TableTyped /\ PoolPacked /\ CreatedSets /\ DeletionChecked

(* A row keeps its identifier and its parameters: TC(3,5), TC(3,6) and the *)
(* countdowns.                                                             *)
LEMMA RowChanged ==
  ASSUME TableOK, NEW r \in 1 .. SetCap, NEW row \in Rows,
         row.sid = sets[r].sid, row.off = sets[r].off, row.n = sets[r].n,
         row.countdown <= row.interval,
         sets' = [sets EXCEPT ![r] = row], UNCHANGED <<count, pool, used, todo>>
  PROVE  TableOK'
<1>1. /\ sets' \in [1 .. SetCap -> Rows]
      /\ \A q \in 1 .. SetCap : sets'[q].countdown <= sets'[q].interval
  BY DEF TableOK, TableTyped
<1>2. TableTyped'
  BY <1>1 DEF TableOK, TableTyped
<1>3. 1 .. count \subseteq 1 .. SetCap
  BY StorageAssumption DEF TableOK, TableTyped
<1>4. \A q \in 1 .. count : /\ sets'[q].sid = sets[q].sid
                            /\ sets'[q].off = sets[q].off /\ sets'[q].n = sets[q].n
  BY <1>3 DEF TableOK, TableTyped
<1>5. Created' = Created
  BY <1>4 DEF Created
<1>6. \A q \in Created : q \in 1 .. count /\ Run(q)' = Run(q)
  BY <1>4 DEF Created, Run
<1>7. {Run(q) : q \in Created}' = {Run(q) : q \in Created}
  BY <1>5, <1>6
<1>8. PoolPacked'
  BY <1>4, <1>5, <1>6, <1>7 DEF TableOK, PoolPacked
<1>9. CreatedSets'
  BY <1>4, <1>5, <1>6 DEF TableOK, CreatedSets
<1>10. DeletionChecked'
  BY <1>4, <1>5, <1>6 DEF TableOK, DeletionChecked
<1> QED
  BY <1>2, <1>8, <1>9, <1>10 DEF TableOK

(* TC(3,1): a set behind the others, at the end of the used part           *)
LEMMA RowAdded ==
  ASSUME TableOK, NEW r \in Requests, Define(r)
  PROVE  TableOK'
<1> DEFINE n == Len(r.params)
<1> DEFINE row == [sid |-> r.sid, off |-> used, n |-> n, interval |-> r.interval,
                   countdown |-> r.interval, on |-> FALSE]
<1>1. IsList(r.params) /\ r.interval \in Nat /\ r.sid \in Sids
  BY RequestAssumption DEF Define, Sids
<1>2. /\ n \in Nat /\ n >= 1 /\ DOMAIN r.params = 1 .. n
      /\ \A k \in 1 .. n : r.params[k] \in Params
  BY <1>1, ListShape, StorageAssumption DEF Define, DefineLegal
<1>3. /\ SetCap \in Nat /\ PoolLen \in Nat /\ count \in Nat /\ count + 1 \in 1 .. SetCap
      /\ used \in Nat /\ used + n <= PoolLen /\ used + n \in 0 .. PoolLen
  BY <1>2, StorageAssumption DEF TableOK, TableTyped, Define, HasStorage
<1>4. row \in Rows
  <2>1. used \in Offsets
    BY <1>2, <1>3 DEF Offsets
  <2> QED
    BY <1>1, <1>2, <2>1 DEF Rows
<1>5. /\ sets' = [sets EXCEPT ![count + 1] = row] /\ count' = count + 1
      /\ used' = used + n /\ todo' = todo
      /\ pool' = [k \in DOMAIN pool |->
                   IF k \in used .. used + n - 1 THEN r.params[k - used + 1] ELSE pool[k]]
      /\ Find(r.sid) = {}
  BY DEF Define, DefineLegal
<1>6. row.countdown <= row.interval /\ row.sid = r.sid /\ row.off = used /\ row.n = n
  BY <1>1
<1> HIDE DEF row, n
<1>7. TableTyped'
  <2>1. pool' \in [0 .. PoolLen - 1 -> Params \cup {None}]
    <3>1. pool \in [0 .. PoolLen - 1 -> Params \cup {None}] /\ DOMAIN pool = 0 .. PoolLen - 1
      BY DEF TableOK, TableTyped
    <3>2. \A k \in used .. used + n - 1 : k - used + 1 \in 1 .. n
      BY <1>2, <1>3
    <3> QED
      BY <1>2, <1>5, <3>1, <3>2
  <2>2. /\ sets' \in [1 .. SetCap -> Rows]
        /\ \A q \in 1 .. SetCap : sets'[q].countdown <= sets'[q].interval
    BY <1>3, <1>4, <1>5, <1>6 DEF TableOK, TableTyped
  <2> QED
    BY <1>3, <1>5, <2>1, <2>2 DEF TableTyped
<1>8. /\ \A q \in 1 .. count : sets'[q] = sets[q] /\ q # count + 1 /\ q \in 1 .. count + 1
      /\ sets'[count + 1] = row /\ count + 1 \in 1 .. count + 1
      /\ \A q \in 1 .. count + 1 : q \in 1 .. count \/ q = count + 1
  BY <1>3, <1>5 DEF TableOK, TableTyped
<1>9. Created' = Created \cup {count + 1} /\ Created \subseteq 1 .. count
  BY <1>3, <1>5, <1>6, <1>8 DEF Created
<1>10. \A q \in Created : Run(q)' = Run(q)
  BY <1>8, <1>9 DEF Run
<1>11. \A q \in 1 .. count + 1 : q = count + 1 => Run(q)' = used .. used + n - 1
  BY <1>6, <1>8 DEF Run
<1>12. PoolPacked'
  <2>1. ASSUME NEW x \in UNION {Run(q) : q \in Created}' PROVE x \in 0 .. used' - 1
    <3>1. PICK q \in Created' : x \in Run(q)'
      OBVIOUS
    <3>2. CASE q \in Created
      <4>1. x \in 0 .. used - 1
        BY <1>10, <3>1, <3>2 DEF TableOK, PoolPacked
      <4> QED
        BY <1>2, <1>3, <1>5, <4>1
    <3>3. CASE q = count + 1
      BY <1>2, <1>3, <1>5, <1>8, <1>11, <3>1, <3>3
    <3> QED
      BY <1>9, <3>2, <3>3
  <2>2. ASSUME NEW x \in 0 .. used' - 1 PROVE x \in UNION {Run(q) : q \in Created}'
    <3>1. CASE x < used
      <4>1. x \in UNION {Run(q) : q \in Created}
        <5>1. x \in 0 .. used - 1
          BY <1>2, <1>3, <1>5, <3>1
        <5> QED
          BY <5>1 DEF TableOK, PoolPacked
      <4>2. PICK q \in Created : x \in Run(q)
        BY <4>1
      <4>3. q \in Created' /\ x \in Run(q)'
        BY <1>9, <1>10, <4>2
      <4> QED
        BY <4>3
    <3>2. CASE ~(x < used)
      <4>1. x \in used .. used + n - 1
        BY <1>2, <1>3, <1>5, <3>2
      <4>2. PICK q \in Created' : x \in Run(q)'
        BY <1>8, <1>9, <1>11, <4>1
      <4> QED
        BY <4>2
    <3> QED
      BY <3>1, <3>2
  <2>3. ASSUME NEW q \in Created', NEW p \in Created', q < p
        PROVE  (sets[q].off + sets[q].n <= sets[p].off)'
    <3>1. q \in Created
      BY <1>3, <1>9, <2>3
    <3>2. sets[q].off + sets[q].n <= used /\ sets'[q] = sets[q]
      BY <1>8, <3>1, <1>9, CreatedInPool DEF TableOK
    <3>3. CASE p = count + 1
      BY <1>6, <1>8, <3>2, <3>3
    <3>4. CASE p \in Created
      BY <1>8, <1>9, <2>3, <3>1, <3>4 DEF TableOK, PoolPacked
    <3> QED
      BY <1>9, <3>3, <3>4
  <2> QED
    BY <2>1, <2>2, <2>3 DEF PoolPacked
<1>13. CreatedSets'
  <2>1. \A q \in 1 .. count : sets[q].sid # r.sid
    BY <1>5 DEF Find
  <2>2. ASSUME NEW q \in Created'
        PROVE  /\ sets'[q].n >= 1
               /\ \A p \in 1 .. count' : sets'[p].sid = sets'[q].sid => p = q
    <3>1. CASE q = count + 1
      BY <1>2, <1>5, <1>6, <1>8, <2>1, <3>1
    <3>2. CASE q \in Created
      BY <1>5, <1>6, <1>8, <1>9, <2>1, <3>2 DEF TableOK, CreatedSets
    <3> QED
      BY <1>9, <3>1, <3>2
  <2> QED
    BY <2>2 DEF CreatedSets
<1>14. DeletionChecked'
  BY <1>5, <1>8, <1>9 DEF TableOK, DeletionChecked
<1> QED
  BY <1>7, <1>12, <1>13, <1>14 DEF TableOK

(* The pointers follow the parameters that moved.                          *)
LEMMA MovedRow ==
  ASSUME NEW row \in Rows, NEW end \in Nat, NEW n \in Nat, n <= end
  PROVE  /\ Moved(row, end, n) \in Rows
         /\ Moved(row, end, n).sid = row.sid /\ Moved(row, end, n).n = row.n
         /\ Moved(row, end, n).interval = row.interval
         /\ Moved(row, end, n).countdown = row.countdown
         /\ Moved(row, end, n).off =
              IF row.off \in 0 .. used - 1 /\ row.off >= end THEN row.off - n ELSE row.off
<1>1. CASE InPool(row) /\ row.off >= end
  <2> DEFINE off == row.off - n
  <2>1. Moved(row, end, n) = [row EXCEPT !.off = off]
    BY <1>1 DEF Moved, Rows
  <2>2. off \in Offsets
    BY <1>1, StorageAssumption DEF Rows, Offsets, InPool
  <2> HIDE DEF off
  <2>3. /\ [row EXCEPT !.off = off] \in Rows /\ [row EXCEPT !.off = off].off = off
        /\ [row EXCEPT !.off = off].sid = row.sid /\ [row EXCEPT !.off = off].n = row.n
        /\ [row EXCEPT !.off = off].interval = row.interval
        /\ [row EXCEPT !.off = off].countdown = row.countdown
    BY <2>2 DEF Rows
  <2> QED
    BY <1>1, <2>1, <2>3 DEF off, InPool
<1>2. CASE ~(InPool(row) /\ row.off >= end)
  BY <1>2 DEF Moved, InPool
<1> QED
  BY <1>1, <1>2

(* remove_defined: rows and parameters above the gap move by the same      *)
(* order-preserving renaming.                                              *)
LEMMA RowRemoved ==
  ASSUME TableOK, RemoveDefined
  PROVE  TableOK'
<1>1. IsList(todo) /\ todo # << >> /\ todo' = Tail(todo)
  BY DEF TableOK, DeletionChecked, RemoveDefined
<1>2. PICK d \in Created : sets[d].sid = Head(todo)
  BY <1>1, ListTail DEF TableOK, DeletionChecked
<1>3. d = Row(Head(todo))
  BY <1>2, CreatedRow DEF TableOK
<1>4. PICK n \in Nat : n = sets[d].n
  BY <1>2, CreatedInPool DEF TableOK
<1>5. PICK off \in Nat : off = sets[d].off
  BY <1>2, CreatedInPool DEF TableOK
<1>6. /\ d \in 1 .. count /\ count \in Nat /\ count <= SetCap /\ SetCap \in Nat
      /\ PoolLen \in Nat /\ used \in Nat /\ used <= PoolLen
      /\ n >= 1 /\ off + n <= used
  BY <1>2, <1>4, <1>5, CreatedInPool, StorageAssumption DEF TableOK, TableTyped
<1> DEFINE moved == [r \in 1 .. SetCap |->
                      IF r \in 1 .. count /\ r # d
                      THEN Moved(sets[r], off + n, n) ELSE sets[r]]
<1>7. /\ pool' = [k \in DOMAIN pool |->
                   IF k \in off + n - n .. used - n - 1 THEN pool[k + n] ELSE pool[k]]
      /\ used' = used - n /\ count' = count - 1
      /\ sets' = [r \in 1 .. SetCap |->
                   IF r \in d .. count - 1 THEN moved[r + 1] ELSE moved[r]]
  BY <1>3, <1>4, <1>5, SMTT(30) DEF RemoveDefined
<1>8. \A r \in 1 .. SetCap :
        /\ moved[r] \in Rows /\ moved[r].countdown <= moved[r].interval
        /\ moved[r].sid = sets[r].sid /\ moved[r].n = sets[r].n
        /\ moved[r].off = IF /\ r \in 1 .. count /\ r # d
                             /\ sets[r].off \in 0 .. used - 1 /\ sets[r].off >= off + n
                          THEN sets[r].off - n ELSE sets[r].off
  <2> SUFFICES ASSUME NEW r \in 1 .. SetCap
               PROVE  /\ moved[r] \in Rows /\ moved[r].countdown <= moved[r].interval
                      /\ moved[r].sid = sets[r].sid /\ moved[r].n = sets[r].n
                      /\ moved[r].off =
                           IF /\ r \in 1 .. count /\ r # d
                              /\ sets[r].off \in 0 .. used - 1 /\ sets[r].off >= off + n
                           THEN sets[r].off - n ELSE sets[r].off
    OBVIOUS
  <2>1. sets[r] \in Rows /\ sets[r].countdown <= sets[r].interval
    BY DEF TableOK, TableTyped
  <2>2. CASE r \in 1 .. count /\ r # d
    <3>1. moved[r] = Moved(sets[r], off + n, n)
      BY <2>2
    <3>2. PICK end \in Nat : end = off + n /\ n <= end
      OBVIOUS
    <3> HIDE DEF moved
    <3>3. /\ moved[r] \in Rows
          /\ moved[r].sid = sets[r].sid /\ moved[r].n = sets[r].n
          /\ moved[r].interval = sets[r].interval /\ moved[r].countdown = sets[r].countdown
          /\ moved[r].off = IF sets[r].off \in 0 .. used - 1 /\ sets[r].off >= end
                            THEN sets[r].off - n ELSE sets[r].off
      <4> DEFINE row == sets[r]
      <4>1. row \in Rows /\ moved[r] = Moved(row, end, n)
        BY <2>1, <3>1, <3>2
      <4> HIDE DEF row
      <4>2. /\ Moved(row, end, n) \in Rows
            /\ Moved(row, end, n).sid = row.sid /\ Moved(row, end, n).n = row.n
            /\ Moved(row, end, n).interval = row.interval
            /\ Moved(row, end, n).countdown = row.countdown
            /\ Moved(row, end, n).off =
                 IF row.off \in 0 .. used - 1 /\ row.off >= end THEN row.off - n ELSE row.off
        BY <3>2, <4>1, MovedRow, ZenonT(30)
      <4> QED
        BY <4>1, <4>2 DEF row
    <3> QED
      BY <2>1, <2>2, <3>2, <3>3
  <2>3. CASE ~(r \in 1 .. count /\ r # d)
    BY <2>1, <2>3
  <2> QED
    BY <2>2, <2>3
<1> HIDE DEF moved
<1>9. TableTyped'
  <2>1. /\ sets' \in [1 .. SetCap -> Rows]
        /\ \A r \in 1 .. SetCap : sets'[r].countdown <= sets'[r].interval
    <3>1. \A r \in d .. count - 1 : r + 1 \in 1 .. SetCap
      BY <1>6
    <3> QED
      BY <1>7, <1>8, <3>1
  <2>2. pool' \in [0 .. PoolLen - 1 -> Params \cup {None}]
    <3>1. pool \in [0 .. PoolLen - 1 -> Params \cup {None}] /\ DOMAIN pool = 0 .. PoolLen - 1
      BY DEF TableOK, TableTyped
    <3>2. \A k \in off + n - n .. used - n - 1 : k + n \in 0 .. PoolLen - 1
      BY <1>6
    <3> QED
      BY <1>7, <3>1, <3>2
  <2>3. used' \in 0 .. PoolLen /\ count' \in 0 .. SetCap
    BY <1>6, <1>7
  <2> QED
    BY <2>1, <2>2, <2>3 DEF TableTyped
(* Where the other sets lie                                                *)
<1>10. ASSUME NEW r \in Created
       PROVE  /\ r \in 1 .. count /\ sets[r].off \in Nat /\ sets[r].n \in Nat
              /\ sets[r].n >= 1
              /\ sets[r].off + sets[r].n <= used /\ sets[r].off \in 0 .. used - 1
              /\ r < d => sets[r].off + sets[r].n <= off
              /\ r > d => sets[r].off >= off + n
  <2>1. /\ r < d => sets[r].off + sets[r].n <= off
        /\ r > d => off + n <= sets[r].off
    BY <1>2, <1>4, <1>5 DEF TableOK, PoolPacked, Created
  <2>2. /\ r \in 1 .. count /\ sets[r].off \in Nat /\ sets[r].n \in Nat /\ sets[r].n >= 1
        /\ sets[r].off + sets[r].n <= used
    BY CreatedInPool DEF TableOK
  <2> QED
    BY <1>6, <2>1, <2>2
<1>11. ASSUME NEW r \in 1 .. count, r # d
       PROVE  \E q \in 1 .. count' :
                /\ q = IF r < d THEN r ELSE r - 1
                /\ sets'[q].sid = sets[r].sid /\ sets'[q].n = sets[r].n
                /\ sets'[q].off = IF r \in Created /\ r > d THEN sets[r].off - n
                                                           ELSE sets[r].off
  <2>1. PICK q \in 1 .. count - 1 : q = IF r < d THEN r ELSE r - 1
    BY <1>6, <1>11
  <2>2. sets'[q] = moved[r]
    BY <1>6, <1>7, <1>11, <2>1
  <2>3. moved[r].off = IF r \in Created /\ r > d THEN sets[r].off - n ELSE sets[r].off
    <3>1. r \in 1 .. SetCap /\ sets[r].off \in Int
      BY <1>6 DEF TableOK, TableTyped, Rows, Offsets
    <3>2. CASE r \in Created
      BY <1>6, <1>8, <1>10, <1>11, <3>1, <3>2
    <3>3. CASE r \notin Created
      <4>1. ~(sets[r].off >= 0)
        BY <3>3 DEF Created
      <4> QED
        BY <1>8, <3>1, <3>3, <4>1
    <3> QED
      BY <3>2, <3>3
  <2>4. q \in 1 .. count' /\ sets'[q].sid = sets[r].sid /\ sets'[q].n = sets[r].n
    BY <1>6, <1>7, <1>8, <2>1, <2>2
  <2> QED
    BY <2>1, <2>2, <2>3, <2>4
<1>12. ASSUME NEW q \in 1 .. count'
       PROVE  \E r \in 1 .. count : r # d /\ q = IF r < d THEN r ELSE r - 1
  <2>1. CASE q < d
    <3>1. q \in 1 .. count /\ q # d
      BY <1>6, <1>7, <2>1
    <3> QED
      BY <2>1, <3>1
  <2>2. CASE ~(q < d)
    <3>1. q + 1 \in 1 .. count /\ q + 1 # d /\ ~(q + 1 < d) /\ q = (q + 1) - 1
      BY <1>6, <1>7, <2>2
    <3> QED
      BY <3>1
  <2> QED
    BY <2>1, <2>2
<1> DEFINE ren(r) == IF r < d THEN r ELSE r - 1
<1>13. ASSUME NEW r \in Created, r # d
       PROVE  /\ ren(r) \in Created' /\ sets'[ren(r)].sid = sets[r].sid
              /\ sets'[ren(r)].n = sets[r].n
              /\ sets'[ren(r)].off = IF r > d THEN sets[r].off - n ELSE sets[r].off
  <2>1. PICK q \in 1 .. count' :
               /\ q = ren(r)
               /\ sets'[q].sid = sets[r].sid /\ sets'[q].n = sets[r].n
               /\ sets'[q].off = IF r > d THEN sets[r].off - n ELSE sets[r].off
    BY <1>10, <1>11, <1>13
  <2>2. sets'[q].off >= 0
    BY <1>6, <1>10, <2>1
  <2>3. q \in Created'
    BY <2>2 DEF Created
  <2> QED
    BY <2>1, <2>3
<1>14. ASSUME NEW q \in Created'
       PROVE  \E r \in Created : r # d /\ q = ren(r)
  <2>1. q \in 1 .. count' /\ sets'[q].off >= 0
    BY DEF Created
  <2>2. PICK r \in 1 .. count : r # d /\ q = ren(r)
    BY <1>12, <2>1
  <2>3. sets'[q].off = IF r \in Created /\ r > d THEN sets[r].off - n ELSE sets[r].off
    BY <1>11, <2>2
  <2>4. CASE r \in Created
    BY <2>2, <2>4
  <2>5. CASE r \notin Created
    <3>1. sets[r].off >= 0
      BY <2>1, <2>3, <2>5
    <3> QED
      BY <2>5, <3>1 DEF Created
  <2> QED
    BY <2>4, <2>5
<1> HIDE DEF ren
<1>15. ASSUME NEW x \in UNION {Run(q) : q \in Created}'
       PROVE  x \in 0 .. used' - 1
  <2>1. PICK q \in Created' : x \in Run(q)'
    OBVIOUS
  <2>2. PICK r \in Created : r # d /\ q = ren(r)
    BY <1>14, <2>1
  <2>3. x \in sets'[q].off .. sets'[q].off + sets'[q].n - 1
    BY <2>1 DEF Run
  <2>4. /\ r \in 1 .. count /\ sets[r].off \in Nat /\ sets[r].n \in Nat
        /\ sets[r].off + sets[r].n <= used
        /\ r < d => sets[r].off + sets[r].n <= off
        /\ r > d => sets[r].off >= off + n
    BY <1>10, <2>2
  <2>5. /\ sets'[q].n = sets[r].n
        /\ sets'[q].off = IF r > d THEN sets[r].off - n ELSE sets[r].off
    BY <1>13, <2>2
  <2> QED
    <3>1. CASE r < d
      <4>1. x \in sets[r].off .. sets[r].off + sets[r].n - 1
        BY <1>6, <2>3, <2>4, <2>5, <3>1
      <4>2. used' = used - n
        BY <1>7, Zenon
      <4>3. PICK a \in Nat, b \in Nat : a = sets[r].off /\ b = sets[r].n
        BY <2>4, Zenon
      <4>4. x \in a .. a + b - 1 /\ a + b <= off
        BY <2>4, <3>1, <4>1, <4>3, Zenon
      <4>5. used \in Nat /\ off + n <= used
        BY <1>6, Zenon
      <4>6. x \in 0 .. used - n - 1
        BY <4>4, <4>5
      <4> QED
        BY <4>2, <4>6, Zenon
    <3>2. CASE r > d
      <4>1. x \in sets[r].off - n .. sets[r].off - n + sets[r].n - 1
        BY <2>3, <2>5, <3>2
      <4>2. sets[r].off >= off + n /\ sets[r].off \in Nat /\ sets[r].n \in Nat
        BY <2>4, <3>2
      <4>3. x \in Int /\ x >= 0
        BY <4>1, <4>2
      <4>4. x <= used - n - 1
        BY <1>6, <2>4, <4>1, <4>2
      <4> QED
        BY <1>6, <1>7, <4>3, <4>4
    <3> QED
      BY <1>6, <2>2, <2>4, <3>1, <3>2
<1>16. ASSUME NEW x \in 0 .. used' - 1
       PROVE  x \in UNION {Run(q) : q \in Created}'
  <2> DEFINE y == IF x < off THEN x ELSE x + n
  <2>1. y \in 0 .. used - 1
    BY <1>6, <1>7
  <2>2. PICK r \in Created : y \in sets[r].off .. sets[r].off + sets[r].n - 1
    BY <2>1 DEF TableOK, PoolPacked, Run
  <2>3. r # d
    BY <1>4, <1>5, <1>6, <2>2
  <2>4. x \in sets'[ren(r)].off .. sets'[ren(r)].off + sets'[ren(r)].n - 1
    <3>1. CASE x < off
      <4>1. r < d
        BY <1>6, <1>10, <2>2, <2>3, <3>1
      <4> QED
        BY <1>6, <1>10, <1>13, <2>2, <2>3, <3>1, <4>1
    <3>2. CASE ~(x < off)
      <4>1. r > d
        BY <1>6, <1>10, <2>2, <2>3, <3>2
      <4> QED
        BY <1>6, <1>10, <1>13, <2>2, <2>3, <3>2, <4>1
    <3> QED
      BY <3>1, <3>2
  <2>5. PICK q \in Created' : q = ren(r)
    BY <1>13, <2>3
  <2>6. x \in Run(q)'
    BY <2>4, <2>5 DEF Run
  <2> QED
    BY <2>5, <2>6
<1>17. ASSUME NEW q \in Created', NEW p \in Created', q < p
       PROVE  (sets[q].off + sets[q].n <= sets[p].off)'
  <2>1. PICK r \in Created : r # d /\ q = ren(r)
    BY <1>14
  <2>2. PICK s \in Created : s # d /\ p = ren(s)
    BY <1>14
  <2>3. r \in Nat /\ s \in Nat /\ d \in Nat
    BY <1>6, <1>10
  <2>4. r < s
    BY <1>17, <2>1, <2>2, <2>3 DEF ren
  <2>5. sets[r].off + sets[r].n <= sets[s].off
    BY <2>4 DEF TableOK, PoolPacked
  <2>6. /\ sets[r].off \in Nat /\ sets[s].off \in Nat /\ sets[r].n \in Nat
        /\ r > d => s > d
        /\ s > d => sets[s].off >= off + n
        /\ ~(r > d) => sets[r].off + sets[r].n <= off
    BY <1>10, <2>1, <2>3, <2>4
  <2>7. /\ sets'[q].off = IF r > d THEN sets[r].off - n ELSE sets[r].off
        /\ sets'[p].off = IF s > d THEN sets[s].off - n ELSE sets[s].off
        /\ sets'[q].n = sets[r].n
    BY <1>13, <2>1, <2>2
  <2> QED
    BY <2>5, <2>6, <2>7
<1>18. PoolPacked'
  BY <1>15, <1>16, <1>17 DEF PoolPacked
<1>19. CreatedSets'
  <2>1. ASSUME NEW q \in Created'
        PROVE  /\ sets'[q].n >= 1
               /\ \A p \in 1 .. count' : sets'[p].sid = sets'[q].sid => p = q
    <3>1. PICK r \in Created : r # d /\ q = ren(r)
      BY <1>14
    <3>2. sets'[q].n >= 1 /\ sets'[q].sid = sets[r].sid
      BY <1>10, <1>13, <3>1
    <3>3. ASSUME NEW p \in 1 .. count', sets'[p].sid = sets'[q].sid PROVE p = q
      <4>1. PICK s \in 1 .. count : s # d /\ p = ren(s)
        BY <1>12 DEF ren
      <4>2. sets'[p].sid = sets[s].sid
        BY <1>11, <4>1 DEF ren
      <4>3. s = r
        BY <3>2, <3>3, <4>2 DEF TableOK, CreatedSets
      <4> QED
        BY <3>1, <4>1, <4>3
    <3> QED
      BY <3>2, <3>3
  <2> QED
    BY <2>1 DEF CreatedSets
<1>20. DeletionChecked'
  <2>1. /\ IsList(Tail(todo)) /\ 1 \in DOMAIN todo /\ Head(todo) = todo[1]
        /\ \A k \in DOMAIN Tail(todo) : k + 1 \in DOMAIN todo /\ Tail(todo)[k] = todo[k + 1]
        /\ DOMAIN Tail(todo) \subseteq Nat \ {0}
    BY <1>1, ListTail
  <2>2. ASSUME NEW k \in DOMAIN Tail(todo)
        PROVE  /\ \E q \in Created' : sets'[q].sid = Tail(todo)[k]
               /\ \A j \in DOMAIN Tail(todo) : Tail(todo)[j] = Tail(todo)[k] => j = k
    <3>1. PICK r \in Created : sets[r].sid = todo[k + 1]
      BY <2>1 DEF TableOK, DeletionChecked
    <3>2. k + 1 # 1 /\ k \in Nat
      BY <2>1
    <3>3. todo[k + 1] # todo[1]
      BY <2>1, <3>2 DEF TableOK, DeletionChecked
    <3>4. r # d
      BY <1>2, <2>1, <3>1, <3>3
    <3>5. \E q \in Created' : sets'[q].sid = Tail(todo)[k]
      BY <1>13, <2>1, <3>1, <3>4
    <3>6. ASSUME NEW j \in DOMAIN Tail(todo), Tail(todo)[j] = Tail(todo)[k] PROVE j = k
      <4>1. j + 1 = k + 1
        BY <2>1, <3>6 DEF TableOK, DeletionChecked
      <4> QED
        BY <2>1, <4>1
    <3> QED
      BY <3>5, <3>6
  <2> QED
    BY <1>1, <2>1, <2>2 DEF DeletionChecked
<1> QED
  BY <1>9, <1>18, <1>19, <1>20 DEF TableOK
-----------------------------------------------------------------------------
(* The actions                                                             *)

LEMMA InitTable == Init => HkIInv
<1> SUFFICES ASSUME Init PROVE HkIInv
  OBVIOUS
<1>1. /\ Len(BootSets) \in Nat /\ DOMAIN BootSets = 1 .. Len(BootSets)
      /\ Len(BootSets) <= SetCap /\ SetCap \in Nat /\ PoolLen \in Nat
  BY BootAssumption, ListShape, StorageAssumption
<1>2. ASSUME NEW b \in DOMAIN BootSets
      PROVE  BootRow(b) \in Rows /\ BootRow(b).off < 0
             /\ BootRow(b).countdown <= BootRow(b).interval
  <2>1. -b \in Offsets /\ -b < 0
    BY <1>1 DEF Offsets
  <2>2. Len(BootSets[b].params) \in Nat /\ BootSets[b].interval \in Nat
        /\ BootSets[b].on \in BOOLEAN /\ BootSets[b].sid \in Sids
    BY BootAssumption, ListShape DEF Sids
  <2> QED
    BY <2>1, <2>2 DEF BootRow, Rows
<1>3. ASSUME NEW r \in 1 .. SetCap
      PROVE  NoSet \in Rows /\ NoSet.countdown <= NoSet.interval
  <2>1. -1 \in Offsets /\ 0 \in Sids
    BY <1>1 DEF Offsets, Sids
  <2> QED
    BY <2>1 DEF NoSet, Rows
<1>4. /\ sets \in [1 .. SetCap -> Rows]
      /\ \A r \in 1 .. SetCap : sets[r].countdown <= sets[r].interval
  BY <1>2, <1>3 DEF Init
<1>5. TableTyped
  BY <1>1, <1>4 DEF Init, TableTyped
<1>6. Created = {}
  <2>1. \A r \in 1 .. count : r \in DOMAIN BootSets /\ r \in 1 .. SetCap /\ sets[r] = BootRow(r)
    BY <1>1 DEF Init
  <2>2. \A r \in 1 .. count : ~(sets[r].off >= 0)
    <3>1. ASSUME NEW r \in 1 .. count PROVE ~(sets[r].off >= 0)
      <4>1. sets[r].off < 0 /\ sets[r].off \in Int
        BY <1>2, <2>1 DEF Rows, Offsets
      <4> QED
        BY <4>1
    <3> QED
      BY <3>1
  <2> QED
    BY <2>2 DEF Created
<1>7. PoolPacked /\ CreatedSets
  BY <1>6 DEF Init, PoolPacked, CreatedSets
<1>8. DeletionChecked
  <2>1. << >> \in Seq({}) /\ DOMAIN << >> = {}
    OBVIOUS
  <2>2. IsList(<< >>)
    BY <2>1 DEF IsList
  <2> QED
    BY <2>1, <2>2 DEF Init, DeletionChecked
<1>9. TickTyped
  BY <1>1 DEF Init, TickTyped, ReportRow
<1> QED
  BY <1>5, <1>7, <1>8, <1>9, InvParts

LEMMA TableKept ==
  ASSUME TableOK, UNCHANGED <<sets, count, pool, used, todo>>
  PROVE  TableOK'
BY DEF TableOK, TableTyped, PoolPacked, Created, Run, CreatedSets, DeletionChecked

(* The identifiers TC(3,3) checked are those of sets in the pool.          *)
LEMMA DeleteChecked ==
  ASSUME TableOK, NEW r \in Requests, Delete(r)
  PROVE  TableOK'
<1>1. IsList(r.sids) /\ DeleteLegal(r.sids) /\ todo' = r.sids
      /\ UNCHANGED <<sets, count, pool, used>>
  BY RequestAssumption DEF Delete, setVars
<1>2. DOMAIN r.sids = 1 .. Len(r.sids) /\ Len(r.sids) \in Nat
  BY <1>1, ListShape
<1>3. ASSUME NEW k \in DOMAIN r.sids
      PROVE  /\ \E q \in Created : sets[q].sid = r.sids[k]
             /\ \A j \in DOMAIN r.sids : r.sids[j] = r.sids[k] => j = k
  <2>1. Find(r.sids[k]) # {} /\ InPool(sets[Row(r.sids[k])])
    BY <1>1 DEF DeleteLegal
  <2>2. PICK q \in Find(r.sids[k]) : q = Row(r.sids[k])
    BY <2>1, RowFound
  <2>3. q \in Created
    BY <2>1, <2>2 DEF Find, InPool, Created
  <2>4. \A j \in DOMAIN r.sids : r.sids[j] = r.sids[k] => j = k
    BY <1>1, <1>2 DEF DeleteLegal
  <2> QED
    BY <2>2, <2>3, <2>4 DEF Find
<1>4. TableTyped' /\ PoolPacked' /\ CreatedSets' /\ Created' = Created
  BY <1>1 DEF TableOK, TableTyped, PoolPacked, Created, Run, CreatedSets
<1>5. DeletionChecked'
  BY <1>1, <1>3, <1>4 DEF DeletionChecked
<1> QED
  BY <1>4, <1>5 DEF TableOK

(* TC(3,5) and TC(3,6)                                                     *)
LEMMA SwitchTable ==
  ASSUME TableOK, NEW r \in Requests, Enable(r) \/ Disable(r)
  PROVE  TableOK'
<1>1. PICK q \in 1 .. SetCap : q = Row(r.sid)
  <2>1. Row(r.sid) \in Find(r.sid)
    BY RowFound DEF Enable, Disable
  <2> QED
    BY <2>1, StorageAssumption DEF Find, TableOK, TableTyped
<1> DEFINE row == sets[q]
<1>2. row \in Rows /\ row.countdown <= row.interval
  BY DEF TableOK, TableTyped
<1> HIDE DEF row
<1>3. UNCHANGED <<count, pool, used, todo>>
  BY DEF Enable, Disable
<1>4. CASE Enable(r)
  <2> DEFINE new == [row EXCEPT !.interval = r.interval, !.countdown = r.interval, !.on = TRUE]
  <2>1. r.interval \in Nat
    BY <1>4, RequestAssumption DEF Enable
  <2>2. /\ new \in Rows /\ new.sid = row.sid /\ new.off = row.off /\ new.n = row.n
        /\ new.countdown = r.interval /\ new.interval = r.interval
    BY <1>2, <2>1 DEF Rows
  <2>3. sets' = [sets EXCEPT ![q] = new]
    BY <1>1, <1>4 DEF Enable, row
  <2> HIDE DEF new
  <2>4. new.sid = sets[q].sid /\ new.off = sets[q].off /\ new.n = sets[q].n
        /\ new.countdown <= new.interval
    BY <2>1, <2>2 DEF row
  <2> QED
    BY <1>3, <2>2, <2>3, <2>4, RowChanged
<1>5. CASE Disable(r)
  <2> DEFINE new == [row EXCEPT !.on = FALSE]
  <2>2. /\ new \in Rows /\ new.sid = row.sid /\ new.off = row.off /\ new.n = row.n
        /\ new.countdown <= new.interval
    BY <1>2 DEF Rows
  <2>3. sets' = [sets EXCEPT ![q] = new]
    BY <1>1, <1>5 DEF Disable, row
  <2> HIDE DEF new
  <2>4. new.sid = sets[q].sid /\ new.off = sets[q].off /\ new.n = sets[q].n
    BY <2>2 DEF row
  <2> QED
    BY <1>3, <2>2, <2>3, <2>4, RowChanged
<1> QED
  BY <1>4, <1>5

(* The tick only moves countdowns.                                         *)
LEMMA Countdown ==
  ASSUME TableOK, NEW q \in 1 .. SetCap, NEW left \in Nat, left <= sets[q].interval,
         sets' = [sets EXCEPT ![q] = [sets[q] EXCEPT !.countdown = left]],
         UNCHANGED <<count, pool, used, todo>>
  PROVE  TableOK'
<1> DEFINE row == sets[q]
<1>1. row \in Rows
  BY DEF TableOK, TableTyped
<1> HIDE DEF row
<1> DEFINE new == [row EXCEPT !.countdown = left]
<1>2. /\ new \in Rows /\ new.sid = row.sid /\ new.off = row.off /\ new.n = row.n
      /\ new.countdown = left /\ new.interval = row.interval
  BY <1>1 DEF Rows
<1>3. sets' = [sets EXCEPT ![q] = new]
  BY DEF row
<1> HIDE DEF new
<1>4. new.sid = sets[q].sid /\ new.off = sets[q].off /\ new.n = sets[q].n
      /\ new.countdown <= new.interval
  BY <1>2 DEF row
<1> QED
  BY <1>2, <1>3, <1>4, RowChanged

LEMMA TickTable ==
  ASSUME TableOK, TickTyped, Tick
  PROVE  TableOK' /\ TickTyped'
<1>1. /\ count \in Nat /\ count <= SetCap /\ SetCap \in Nat /\ i \in Nat /\ i >= 1
      /\ i <= SetCap + 1
  BY StorageAssumption DEF TableOK, TableTyped, TickTyped
<1>2. CASE TickBegin
  BY <1>1, <1>2, TableKept DEF TickBegin, TickTyped, ReportRow, setVars
<1>3. CASE TickEnd
  BY <1>1, <1>3, TableKept DEF TickEnd, TickTyped, ReportRow, setVars
<1>4. CASE RowSkip
  <2>1. pc' = "row" /\ i' = i + 1 /\ i <= count
    BY <1>4 DEF RowSkip, Ticking
  <2> QED
    BY <1>1, <1>4, <2>1, TableKept DEF RowSkip, TickTyped, ReportRow, setVars
<1>5. CASE RowCount
  <2> DEFINE left == IF sets[i].countdown > 0 THEN sets[i].countdown - 1 ELSE 0
  <2>1. i \in 1 .. SetCap /\ i <= count /\ pc = "row"
    BY <1>1, <1>5 DEF RowCount, Ticking
  <2>2. left \in Nat /\ left <= sets[i].interval
    BY <2>1 DEF TableOK, TableTyped, Rows
  <2>3. /\ sets' = [sets EXCEPT ![i] = [sets[i] EXCEPT !.countdown = left]]
        /\ UNCHANGED <<count, pool, used, todo>>
    BY <1>5 DEF RowCount
  <2>4. (pc' = "sid" /\ i' = i) \/ (pc' = pc /\ i' = i + 1)
    BY <1>5 DEF RowCount
  <2> HIDE DEF left
  <2>5. TableOK'
    BY <2>1, <2>2, <2>3, Countdown
  <2> QED
    BY <1>1, <2>1, <2>4, <2>5 DEF TickTyped, ReportRow
<1>6. CASE ReadSid \/ ReadParam \/ Emit
  <2>1. /\ UNCHANGED <<sets, count, pool, used, todo, i>>
        /\ pc \in {"sid", "param"} /\ pc' \in {"sid", "param", "reload"}
    BY <1>6 DEF ReadSid, ReadParam, Emit, Ticking, setVars
  <2> QED
    BY <2>1, TableKept DEF TickTyped, ReportRow
<1>7. CASE Reload
  <2>1. i \in 1 .. SetCap /\ pc' = "row" /\ i' = i + 1
    BY <1>7 DEF Reload, Ticking, TickTyped, ReportRow
  <2>2. sets[i].interval \in Nat /\ sets[i].interval <= sets[i].interval
    BY <2>1 DEF TableOK, TableTyped, Rows
  <2>3. /\ sets' = [sets EXCEPT ![i] = [sets[i] EXCEPT !.countdown = sets[i].interval]]
        /\ UNCHANGED <<count, pool, used, todo>>
    BY <1>7 DEF Reload
  <2>4. TableOK'
    BY <2>1, <2>2, <2>3, Countdown
  <2> QED
    BY <1>1, <2>1, <2>4 DEF TickTyped, ReportRow
<1> QED
  BY <1>2, <1>3, <1>4, <1>5, <1>6, <1>7 DEF Tick

LEMMA NextTable ==
  ASSUME TableOK, TickTyped, [Next]_vars
  PROVE  TableOK' /\ TickTyped'
<1>1. TableOK /\ TickTyped
  OBVIOUS
<1>2. UNCHANGED tickVars \/ UNCHANGED <<pc, i>> => TickTyped'
  BY <1>1 DEF tickVars, TickTyped, ReportRow
<1>3. CASE UNCHANGED vars
  BY <1>1, <1>2, <1>3, TableKept DEF vars, setVars, tickVars
<1>4. ASSUME NEW r \in Requests, Telecommand(r) PROVE TableOK' /\ TickTyped'
  <2>1. CASE Malformed(r) \/ DefineIllegal(r) \/ DefineFull(r) \/ DeleteIllegal(r)
             \/ SwitchUnknown(r)
    <3>1. UNCHANGED <<sets, count, pool, used, todo>> /\ UNCHANGED tickVars
      BY <2>1 DEF Malformed, DefineIllegal, DefineFull, DeleteIllegal, SwitchUnknown, Reject,
                  setVars
    <3> QED
      BY <1>1, <1>2, <3>1, TableKept
  <2>2. CASE Define(r)
    BY <1>1, <1>2, <2>2, RowAdded DEF Define
  <2>3. CASE Delete(r)
    BY <1>1, <1>2, <2>3, DeleteChecked DEF Delete
  <2>4. CASE Enable(r) \/ Disable(r)
    BY <1>1, <1>2, <2>4, SwitchTable DEF Enable, Disable
  <2> QED
    BY <1>4, <2>1, <2>2, <2>3, <2>4 DEF Telecommand
<1>5. CASE RemoveDefined
  BY <1>1, <1>2, <1>5, RowRemoved DEF RemoveDefined
<1>6. CASE HandlerEnd
  BY <1>1, <1>2, <1>6, TableKept DEF HandlerEnd, setVars
<1>7. CASE Tick
  BY <1>1, <1>7, TickTable
<1> QED
  BY <1>3, <1>4, <1>5, <1>6, <1>7 DEF Next

(* The invariant the other results rest on: created sets own disjoint runs *)
(* of the pool, have identifiers of their own, and what TC(3,3) checked    *)
(* still holds of the sets it has yet to delete.                           *)
THEOREM HousekeepingInvariant == Spec => []HkIInv
<1>1. HkIInv <=> TableOK /\ TickTyped
  BY InvParts DEF TableOK
<1>2. (TableOK /\ TickTyped) /\ [Next]_vars => (TableOK /\ TickTyped)'
  BY NextTable
<1> QED
  BY <1>1, <1>2, InitTable, PTL DEF Spec

(* The set count, the pool index and the row of the tick stay within their *)
(* arrays, also when the tick is interrupted by a telecommand anywhere.    *)
THEOREM HousekeepingTypes == Spec => []TypeOK
<1>1. HkIInv => TypeOK
  BY DEF HkIInv
<1> QED
  BY <1>1, HousekeepingInvariant, PTL

(* TC(3,3) leaks no storage and leaves no pointer behind: after any number *)
(* of creations and deletions the created sets are exactly the used part   *)
(* of the pool, in the order of creation.                                  *)
THEOREM PoolStaysPacked == Spec => []PoolPacked
<1>1. HkIInv => PoolPacked
  BY DEF HkIInv
<1> QED
  BY <1>1, HousekeepingInvariant, PTL
-----------------------------------------------------------------------------
(* One thread: the report                                                  *)

LEMMA InitReporting == Init => Reporting
BY DEF Init, Reporting

(* Reading one parameter after the other                                   *)
LEMMA PrefixGrows ==
  ASSUME NEW s, IsList(s), NEW v
  PROVE  /\ IsList(Append(s, v)) /\ Len(Append(s, v)) = Len(s) + 1
         /\ DOMAIN Append(s, v) = 1 .. Len(s) + 1
         /\ \A k \in 1 .. Len(s) : Append(s, v)[k] = s[k]
         /\ Append(s, v)[Len(s) + 1] = v
<1> DEFINE S == {s[k] : k \in DOMAIN s} \cup {v}
<1> DEFINE t == Append(s, v)
<1>1. s \in Seq({s[k] : k \in DOMAIN s})
  BY DEF IsList
<1>2. s \in Seq(S) /\ v \in S
  BY <1>1
<1> HIDE DEF S
<1>3. /\ t \in Seq(S) /\ Len(t) = Len(s) + 1 /\ Len(s) \in Nat
      /\ \A k \in 1 .. Len(s) : t[k] = s[k]
      /\ t[Len(s) + 1] = v
  BY <1>2
<1> HIDE DEF t
<1>4. t \in [1 .. Len(s) + 1 -> S] /\ DOMAIN t = 1 .. Len(s) + 1
  BY <1>3, SeqShape
<1>5. t = [k \in 1 .. Len(s) + 1 |-> t[k]]
  BY <1>4
<1>6. IsList(t)
  <2>1. Len(s) + 1 \in Nat
    BY <1>3
  <2> QED
    BY <1>5, <2>1, FunIsList
<1> QED
  BY <1>3, <1>4, <1>6 DEF t

(* A countdown or a switch does not touch what a row reports.              *)
LEMMA SameDefinitions ==
  ASSUME TableOK, NEW q \in 1 .. SetCap, NEW left,
         sets' = [sets EXCEPT ![q] = [sets[q] EXCEPT !.countdown = left]],
         UNCHANGED pool
  PROVE  \A r \in 1 .. SetCap :
           /\ Definition(sets[r])' = Definition(sets[r])
           /\ sets'[r].sid = sets[r].sid /\ sets'[r].n = sets[r].n
<1>1. \A r \in 1 .. SetCap :
        /\ sets'[r].sid = sets[r].sid /\ sets'[r].off = sets[r].off
        /\ sets'[r].n = sets[r].n
  BY DEF TableOK, TableTyped, Rows
<1>2. ASSUME NEW r \in 1 .. SetCap
      PROVE  Definition(sets[r])' = Definition(sets[r])
  <2>1. \A k \in 1 .. sets[r].n : Param(sets[r], k)' = Param(sets[r], k)
    BY <1>1 DEF Param
  <2>2. sets'[r].n = sets[r].n /\ sets'[r].sid = sets[r].sid
    BY <1>1
  <2>3. ParamsOf(sets[r])' = ParamsOf(sets[r])
    BY <2>1, <2>2 DEF ParamsOf
  <2> QED
    BY <2>2, <2>3 DEF Definition
<1> QED
  BY <1>1, <1>2

LEMMA TickReporting ==
  ASSUME ~Interleaved, TableOK, TickTyped, Reporting, Tick
  PROVE  Reporting'
<1>1. /\ count \in Nat /\ count <= SetCap /\ SetCap \in Nat /\ i \in Nat
      /\ 1 .. count \subseteq 1 .. SetCap
  BY StorageAssumption DEF TableOK, TableTyped, TickTyped
<1>2. CASE TickBegin \/ TickEnd \/ RowSkip
  <2>1. pc' \in {"idle", "row"} /\ todo' = todo /\ reply' = reply
    BY <1>2 DEF TickBegin, TickEnd, RowSkip, Ticking
  <2>2. pc' # "idle" => reply' = None /\ todo' = << >>
    <3>1. CASE TickBegin
      <4>1. todo = << >> /\ reply = None
        BY <3>1 DEF TickBegin, Ticking
      <4> QED
        BY <2>1, <4>1
    <3>2. CASE TickEnd
      BY <3>2 DEF TickEnd
    <3>3. CASE RowSkip
      BY <2>1, <3>3 DEF RowSkip, Ticking, Reporting
    <3> QED
      BY <1>2, <3>1, <3>2, <3>3
  <2> QED
    BY <2>1, <2>2 DEF Reporting
<1>3. CASE RowCount
  <2> DEFINE left == IF sets[i].countdown > 0 THEN sets[i].countdown - 1 ELSE 0
  <2>1. i \in 1 .. count /\ pc = "row" /\ reply' = None /\ todo' = << >> /\ count' = count
    BY <1>1, <1>3 DEF RowCount, Ticking, Reporting, TickTyped
  <2>2. /\ sets' = [sets EXCEPT ![i] = [sets[i] EXCEPT !.countdown = left]]
        /\ UNCHANGED pool
    BY <1>3 DEF RowCount
  <2>3. (pc' = "sid" /\ i' = i /\ since' = Definitions) \/ pc' = "row"
    BY <1>3, <2>1 DEF RowCount
  <2> HIDE DEF left
  <2>4. \A r \in 1 .. SetCap : Definition(sets[r])' = Definition(sets[r])
    BY <1>1, <2>1, <2>2, SameDefinitions
  <2>5. CASE pc' = "sid"
    <3>1. Definition(sets[i]) \in Definitions
      BY <2>1 DEF Definitions
    <3>2. PICK r \in 1 .. SetCap : r = i /\ r = i'
      BY <1>1, <2>1, <2>3, <2>5
    <3>3. Definition(sets[r])' = Definition(sets[r])
      BY <2>4
    <3>4. Definition(sets[i])' \in since'
      BY <2>3, <2>5, <3>1, <3>2, <3>3
    <3> QED
      BY <2>1, <2>3, <2>5, <3>4 DEF Reporting
  <2>6. CASE pc' = "row"
    BY <2>1, <2>6 DEF Reporting
  <2> QED
    BY <2>3, <2>5, <2>6
<1>4. CASE ReadSid
  <2>1. /\ pc = "sid" /\ pc' = "param" /\ UNCHANGED <<sets, count, pool, todo, reply, i, since>>
        /\ buf' = [sid |-> sets[i].sid, params |-> << >>]
    BY <1>4 DEF ReadSid, Ticking, setVars
  <2>2. IsList(<< >>) /\ Len(<< >>) = 0 /\ DOMAIN << >> = {}
    <3>1. << >> \in Seq({}) /\ DOMAIN << >> = {}
      OBVIOUS
    <3> QED
      BY <3>1 DEF IsList
  <2>3. buf'.params = << >> /\ i \in 1 .. count /\ sets[i].n \in Nat
    BY <1>1, <2>1 DEF Reporting, TableOK, TableTyped, Rows
  <2> QED
    BY <2>1, <2>2, <2>3 DEF Reporting, Definition, ParamsOf, Param
<1>5. CASE ReadParam
  <2>1. /\ pc = "param" /\ pc' = "param" /\ Len(buf.params) < sets[i].n
        /\ UNCHANGED <<sets, count, pool, todo, reply, i, since>>
        /\ buf' = [buf EXCEPT !.params = Append(@, Param(sets[i], Len(@) + 1))]
    BY <1>5 DEF ReadParam, Ticking, setVars
  <2> DEFINE s == buf.params
  <2> DEFINE t == Append(s, Param(sets[i], Len(s) + 1))
  <2>2. /\ buf = [sid |-> sets[i].sid, params |-> s] /\ IsList(s)
        /\ \A k \in DOMAIN s : s[k] = Param(sets[i], k)
        /\ sets[i].n \in Nat
    BY <1>1, <2>1 DEF Reporting, TableOK, TableTyped, Rows
  <2>3. buf' = [buf EXCEPT !.params = t]
    BY <2>1
  <2>4. Len(s) \in Nat /\ DOMAIN s = 1 .. Len(s)
    BY <2>2, ListShape
  <2>5. /\ IsList(t) /\ Len(t) = Len(s) + 1 /\ DOMAIN t = 1 .. Len(s) + 1
        /\ \A k \in 1 .. Len(s) : t[k] = s[k]
        /\ t[Len(s) + 1] = Param(sets[i], Len(s) + 1)
    BY <2>2, PrefixGrows
  <2> HIDE DEF t
  <2>6. buf' = [sid |-> sets[i].sid, params |-> t] /\ buf'.params = t
    BY <2>2, <2>3
  <2>7. \A k \in DOMAIN t : t[k] = Param(sets[i], k)
    BY <2>2, <2>4, <2>5
  <2>8. Len(t) <= sets[i].n
    BY <2>1, <2>2, <2>4, <2>5
  <2> QED
    BY <2>1, <2>5, <2>6, <2>7, <2>8 DEF Reporting, Definition, ParamsOf, Param
<1>6. CASE Emit
  <2>1. /\ pc = "param" /\ pc' = "reload" /\ Len(buf.params) >= sets[i].n
        /\ report' = buf /\ UNCHANGED <<sets, count, pool, todo, reply, i, since>>
    BY <1>6 DEF Emit, Ticking, setVars
  <2> DEFINE s == buf.params
  <2>2. /\ buf = [sid |-> sets[i].sid, params |-> s] /\ IsList(s)
        /\ \A k \in DOMAIN s : s[k] = Param(sets[i], k)
        /\ sets[i].n \in Nat /\ Len(s) <= sets[i].n
    BY <1>1, <2>1 DEF Reporting, TableOK, TableTyped, Rows
  <2>3. Len(s) = sets[i].n /\ DOMAIN s = 1 .. sets[i].n
    BY <2>1, <2>2, ListShape
  <2>4. s = ParamsOf(sets[i])
    <3>1. s \in [1 .. sets[i].n -> {s[k] : k \in DOMAIN s}]
      BY <2>2, <2>3, SeqShape DEF IsList
    <3> QED
      BY <2>2, <2>3, <3>1 DEF ParamsOf
  <2>5. buf = Definition(sets[i])
    BY <2>2, <2>4 DEF Definition
  <2> QED
    BY <2>1, <2>5 DEF Reporting, Definition, ParamsOf, Param
<1>7. CASE Reload
  <2>1. pc = "reload" /\ pc' = "row" /\ UNCHANGED <<todo, reply>>
    BY <1>7 DEF Reload, Ticking
  <2> QED
    BY <2>1 DEF Reporting
<1> QED
  BY <1>2, <1>3, <1>4, <1>5, <1>6, <1>7 DEF Tick

LEMMA NextReporting ==
  ASSUME ~Interleaved, TableOK, TickTyped, Reporting, [Next]_vars
  PROVE  Reporting'
<1>1. CASE UNCHANGED vars
  BY <1>1 DEF vars, setVars, tickVars, Reporting, Definition, ParamsOf, Param
<1>2. CASE Tick
  BY <1>2, TickReporting
<1>3. CASE (\E r \in Requests : Telecommand(r)) \/ RemoveDefined
  <2>1. pc = "idle" /\ pc' = "idle"
    <3>1. ASSUME NEW r \in Requests, Telecommand(r) PROVE pc = "idle" /\ pc' = pc
      BY <3>1 DEF Telecommand, Malformed, DefineIllegal, DefineFull, Define, DeleteIllegal,
                  Delete, SwitchUnknown, Enable, Disable, Reject, Free, tickVars
    <3>2. ASSUME RemoveDefined PROVE pc = "idle" /\ pc' = pc
      BY <3>2 DEF RemoveDefined, tickVars, Reporting
    <3> QED
      BY <1>3, <3>1, <3>2
  <2> QED
    BY <2>1 DEF Reporting
<1>4. CASE HandlerEnd
  BY <1>4 DEF HandlerEnd, setVars, tickVars, Reporting, Definition, ParamsOf, Param
<1> QED
  BY <1>1, <1>2, <1>3, <1>4 DEF Next

(* SRS-092 where it holds: with the telecommands and the tick in one       *)
(* thread, a TM(3,25) carries the identifier and all the parameters of one *)
(* definition that was in force, whatever the pool went through.           *)
THEOREM ReportWhole ==
  ASSUME ~Interleaved
  PROVE  Spec => []ReportIsOneSet
<1>1. Reporting => ReportIsOneSet
  BY DEF Reporting, ReportIsOneSet
<1>2. HkIInv => TableOK /\ TickTyped
  BY InvParts DEF TableOK
<1>3. HkIInv /\ Reporting /\ [Next]_vars => Reporting'
  BY <1>2, NextReporting
<1> QED
  BY <1>1, <1>3, InitReporting, HousekeepingInvariant, PTL DEF Spec
=============================================================================
