--------------------------- MODULE ScheduleProofs ---------------------------
(***************************************************************************)
(* Proofs about Schedule for every capacity, every width of the request    *)
(* number that leaves one number spare, and every bound on time and        *)
(* insertions.                                                             *)
(***************************************************************************)
EXTENDS Schedule, PackedTableProofs, FiniteSetTheorems, WellFoundedInduction, TLAPS

-----------------------------------------------------------------------------
(* Request numbers: take_id                                                *)

(* A table of fewer than IdRange - 1 rows leaves a number other than 0     *)
(* free, so the search of take_id ends.                                    *)
LEMMA SomeIdIsFree ==
  ASSUME TypeOK
  PROVE  \E id \in Ids \ {0} : ~InUse(id)
<1> SUFFICES ASSUME \A id \in 1 .. IdRange - 1 : InUse(id)
             PROVE  FALSE
  BY IdAssumption, CapacityAssumption DEF Ids
<1> DEFINE row == [id \in 1 .. IdRange - 1 |->
                     CHOOSE i \in DOMAIN acts : acts[i].id = id]
<1>1. Len(acts) \in Nat /\ DOMAIN acts = 1 .. Len(acts) /\ Len(acts) < IdRange - 1
  BY IdAssumption, CapacityAssumption DEF TypeOK
<1>2. \A id \in 1 .. IdRange - 1 : row[id] \in DOMAIN acts /\ acts[row[id]].id = id
  BY DEF InUse
<1>3. row \in [1 .. IdRange - 1 -> 1 .. Len(acts)]
  BY <1>1, <1>2
<1>4. /\ IsFiniteSet(1 .. IdRange - 1) /\ IsFiniteSet(1 .. Len(acts))
      /\ Cardinality(1 .. Len(acts)) < Cardinality(1 .. IdRange - 1)
  <2>1. 1 \in Int /\ IdRange - 1 \in Int /\ Len(acts) \in Int /\ 1 <= IdRange - 1
    BY <1>1, IdAssumption, CapacityAssumption
  <2>2. IsFiniteSet(1 .. IdRange - 1) /\ Cardinality(1 .. IdRange - 1) = IdRange - 1
    BY <2>1, FS_Interval
  <2>3. IsFiniteSet(1 .. Len(acts)) /\ Cardinality(1 .. Len(acts)) = Len(acts)
    <3> DEFINE n == Len(acts)
    <3>1. n \in Nat BY <1>1
    <3> HIDE DEF n
    <3>2. /\ IsFiniteSet(1 .. n)
          /\ Cardinality(1 .. n) = IF 1 > n THEN 0 ELSE n - 1 + 1
      BY <3>1, FS_Interval
    <3>3. IsFiniteSet(1 .. n) /\ Cardinality(1 .. n) = n
      BY <3>1, <3>2
    <3> QED BY <3>3 DEF n
  <2> QED BY <1>1, <2>2, <2>3
<1> HIDE DEF row
<1>5. \E x, y \in 1 .. IdRange - 1 : x # y /\ row[x] = row[y]
  BY <1>3, <1>4, FS_PigeonHole, Zenon
<1> QED
  BY <1>2, <1>5

(* take_id returns a number that is in range, not 0 and not in use.        *)
LEMMA TakeIdIsFresh ==
  ASSUME TypeOK
  PROVE  TakeId \in Ids \ {0} /\ ~InUse(TakeId)
<1> DEFINE first == CHOOSE k \in Skips : \A j \in Skips : k <= j
<1>1. IdRange \in Nat \ {0} /\ nextId \in 0 .. IdRange - 1
  BY IdAssumption, CapacityAssumption DEF TypeOK, Ids
<1>2. PICK id \in Ids \ {0} : ~InUse(id)
  BY SomeIdIsFree
<1>3. Skips # {}
  <2>1. CASE id >= nextId
    <3>1. id - nextId \in Ids /\ (nextId + (id - nextId)) % IdRange = id
      BY <1>1, <1>2, <2>1 DEF Ids
    <3> QED BY <3>1, <1>2 DEF Skips
  <2>2. CASE id < nextId
    <3>1. id + IdRange - nextId \in Ids
      BY <1>1, <1>2, <2>2 DEF Ids
    <3>2. (nextId + (id + IdRange - nextId)) % IdRange = id
      BY <1>1, <1>2 DEF Ids
    <3> QED BY <3>1, <3>2, <1>2 DEF Skips
  <2> QED BY <2>1, <2>2, <1>1, <1>2 DEF Ids
<1>4. Skips \subseteq Nat
  BY <1>1 DEF Skips, Ids
<1>5. \E x \in Skips : \A y \in Skips : ~(<<y, x>> \in OpToRel(<, Nat))
  BY <1>3, <1>4, NatLessThanWellFounded, WFMin
<1>6. \E x \in Skips : \A y \in Skips : x <= y
  <2>1. \A x, y \in Nat : y < x => <<y, x>> \in OpToRel(<, Nat)
    BY DEF OpToRel
  <2>2. PICK x \in Skips : \A y \in Skips : ~(<<y, x>> \in OpToRel(<, Nat))
    BY <1>5
  <2>3. \A y \in Skips : ~(y < x)
    BY <1>4, <2>1, <2>2
  <2> QED BY <1>4, <2>3
<1>7. first \in Skips
  BY <1>6
<1> HIDE DEF first
<1>8. /\ (nextId + first) % IdRange # 0 /\ ~InUse((nextId + first) % IdRange)
      /\ first \in Nat
  BY <1>4, <1>7 DEF Skips
<1>9. (nextId + first) % IdRange \in 0 .. IdRange - 1
  BY <1>1, <1>8
<1>10. TakeId = (nextId + first) % IdRange
  BY DEF TakeId, first
<1> QED
  BY <1>8, <1>9, <1>10 DEF Ids

(* Before the first wrap it returns next_id itself.                        *)
LEMMA TakeIdInOrder ==
  ASSUME TypeOK, NumberedInOrder, accepted + 1 < IdRange
  PROVE  TakeId = accepted + 1
<1>1. accepted \in Nat /\ IdRange \in Nat /\ nextId = accepted + 1
  BY IdAssumption, BoundAssumption, SMTT(30) DEF TypeOK, NumberedInOrder
<1>2. ~InUse(nextId)
  BY <1>1, BoundAssumption, SMTT(30) DEF InUse, NumberedInOrder, TypeOK, Activities
<1>3. (nextId + 0) % IdRange = nextId /\ 0 \in Ids
  BY <1>1 DEF Ids
<1>4. 0 \in Skips
  BY <1>1, <1>2, <1>3 DEF Skips
<1>5. \A k \in Skips : k \in Nat
  BY <1>1 DEF Skips, Ids
<1>6. (CHOOSE k \in Skips : \A j \in Skips : k <= j) = 0
  BY <1>4, <1>5
<1> QED
  BY <1>1, <1>3, <1>6 DEF TakeId
-----------------------------------------------------------------------------
(* The table: remove_at and the set it represents                          *)

(* Unique numbers survive the move, and the set loses exactly row i.       *)
LEMMA HeldRemoved ==
  ASSUME TypeOK, UniqueIds, NEW i \in DOMAIN acts, acts' = RemoveAt(acts, i)
  PROVE  /\ UniqueIds'
         /\ Held' = Held \ {acts[i]}
         /\ acts' \in Seq(Activities) /\ Len(acts') = Len(acts) - 1
         /\ \A k \in DOMAIN acts' : \E j \in DOMAIN acts : acts'[k] = acts[j]
<1> DEFINE n == Len(acts)
<1>1. acts \in Seq(Activities) /\ n \in Nat \ {0} /\ DOMAIN acts = 1 .. n
  BY DEF TypeOK
<1>2. /\ acts' \in Seq(Activities) /\ Len(acts') = n - 1 /\ DOMAIN acts' = 1 .. n - 1
      /\ \A k \in 1 .. n - 1 : acts'[k] = IF k = i THEN acts[n] ELSE acts[k]
  BY <1>1, RemoveAtShape
<1>3. UniqueIds'
  BY <1>1, <1>2 DEF UniqueIds
<1>4. \A k \in DOMAIN acts' : \E j \in DOMAIN acts : acts'[k] = acts[j]
  BY <1>1, <1>2
<1>5. \A k \in DOMAIN acts' : acts'[k] # acts[i]
  BY <1>1, <1>2 DEF UniqueIds
<1>6. \A j \in DOMAIN acts : j # i => \E k \in DOMAIN acts' : acts'[k] = acts[j]
  <2> SUFFICES ASSUME NEW j \in DOMAIN acts, j # i
               PROVE  \E k \in DOMAIN acts' : acts'[k] = acts[j]
    OBVIOUS
  <2>1. CASE j = n
    BY <1>1, <1>2, <2>1
  <2>2. CASE j # n
    BY <1>1, <1>2, <2>2
  <2> QED BY <2>1, <2>2
<1>7. Held' = Held \ {acts[i]}
  BY <1>4, <1>5, <1>6 DEF Held
<1> QED
  BY <1>2, <1>3, <1>4, <1>7

(* The set has as many members as the table has rows.                      *)
LEMMA HeldCardinality ==
  ASSUME TypeOK, UniqueIds
  PROVE  Cardinality(Held) = Len(acts)
<1>1. Len(acts) \in Nat /\ DOMAIN acts = 1 .. Len(acts) /\ acts \in Seq(Activities)
  BY DEF TypeOK
<1>2. acts \in [1 .. Len(acts) -> Held]
  BY <1>1 DEF Held
<1>3. acts \in Bijection(1 .. Len(acts), Held)
  BY <1>1, <1>2 DEF Held, UniqueIds, Bijection, Injection, Surjection, IsInjective
<1>4. ExistsBijection(1 .. Len(acts), Held)
  BY <1>3 DEF ExistsBijection
<1> QED
  BY <1>1, <1>4, FS_CountingElements
-----------------------------------------------------------------------------
(* The inductive invariant                                                 *)

(* A telecommand is never fed inside a run of the schedule.                *)
LEMMA FedOutsideRun ==
  ASSUME TypeOK, Fed
  PROVE  /\ pc' \in {"copy", "s19"} /\ pc # "run"
         /\ batch' \in 0 .. MaxActions
  BY BoundAssumption DEF TypeOK, Fed

LEMMA InitIInv == Init => IInv
<1> SUFFICES ASSUME Init PROVE IInv
  OBVIOUS
<1>1. 1 % IdRange = 1 /\ 1 \in Ids
  BY IdAssumption, CapacityAssumption DEF Ids
<1>2. TypeOK
  BY <1>1, CapacityAssumption, BoundAssumption DEF Init, TypeOK, Times
<1>3. UniqueIds /\ NothingOverdue /\ RunInv
  BY DEF Init, UniqueIds, NothingOverdue, RunInv
<1>4. NumberedInOrder
  BY <1>1 DEF Init, NumberedInOrder
<1> QED
  BY <1>2, <1>3, <1>4 DEF IInv

(* An insertion appends a row with a fresh number.                         *)
LEMMA InsertStep ==
  ASSUME IInv, NEW tag \in Times, NEW tc \in Embedded, Insert(tag, tc)
  PROVE  /\ IInv'
         /\ Held' = Held \cup {[id |-> TakeId, ord |-> accepted + 1,
                                tag |-> tag, tc |-> tc]}
<1> DEFINE a == [id |-> TakeId, ord |-> accepted + 1, tag |-> tag, tc |-> tc]
           n == Len(acts)
<1>1. TakeId \in Ids \ {0} /\ ~InUse(TakeId)
  BY TakeIdIsFresh DEF IInv
<1>2. a \in Activities
  BY <1>1, BoundAssumption DEF Insert, IInv, TypeOK, Activities
<1>3. /\ n \in Nat /\ DOMAIN acts = 1 .. n /\ acts \in Seq(Activities)
      /\ n < Capacity /\ acts' = Append(acts, a)
  BY DEF IInv, TypeOK, Insert
<1>4. /\ acts' \in Seq(Activities) /\ Len(acts') = n + 1 /\ DOMAIN acts' = 1 .. n + 1
      /\ \A k \in 1 .. n : acts'[k] = acts[k]
      /\ acts'[n + 1] = a
  <2> HIDE DEF a
  <2> QED BY <1>2, <1>3
<1>5. TypeOK'
  <2>1. (TakeId + 1) % IdRange \in Ids
    BY <1>1, IdAssumption, CapacityAssumption DEF Ids
  <2>2. nextId' \in Ids /\ accepted' \in 0 .. MaxInserts
    BY <2>1, BoundAssumption DEF Insert, IInv, TypeOK
  <2> QED BY <1>3, <1>4, <2>2, FedOutsideRun, CapacityAssumption
  DEF Insert, IInv, TypeOK
<1>6. UniqueIds'
  <2>1. \A k \in 1 .. n : acts'[k].id # a.id
    BY <1>1, <1>3, <1>4 DEF InUse
  <2> HIDE DEF a
  <2> QED BY <1>3, <1>4, <2>1 DEF UniqueIds, IInv
<1>7. NothingOverdue' /\ RunInv'
  BY FedOutsideRun DEF Insert, IInv, NothingOverdue, RunInv
<1>8. NumberedInOrder'
  <2> SUFFICES ASSUME accepted' < IdRange
               PROVE  /\ nextId' = (accepted' + 1) % IdRange
                      /\ \A i \in DOMAIN acts' :
                           acts'[i].id = acts'[i].ord /\ acts'[i].ord <= accepted'
    BY DEF NumberedInOrder
  <2>1. accepted' = accepted + 1 /\ accepted \in Nat
    BY BoundAssumption DEF Insert, IInv, TypeOK
  <2>2. TakeId = accepted + 1 /\ accepted < IdRange
    BY <2>1, TakeIdInOrder, IdAssumption DEF IInv
  <2>3. nextId' = (accepted' + 1) % IdRange
    BY <2>1, <2>2 DEF Insert
  <2>4. a.id = accepted' /\ a.ord = accepted'
    BY <2>1, <2>2
  <2>5. \A k \in 1 .. n : acts[k].id = acts[k].ord /\ acts[k].ord <= accepted
    BY <1>3, <2>2 DEF IInv, NumberedInOrder
  <2>6. \A k \in 1 .. n : acts[k].ord \in Nat
    <3>1. \A b \in Activities : b.ord \in Nat
      BY BoundAssumption DEF Activities
    <3>2. \A k \in 1 .. n : acts[k] \in Activities
      BY <1>3
    <3> QED BY <3>1, <3>2
  <2> HIDE DEF a
  <2> QED BY <1>3, <1>4, <2>1, <2>3, <2>4, <2>5, <2>6
<1>9. Held' = Held \cup {a}
  <2> HIDE DEF a
  <2> QED BY <1>3, <1>4 DEF Held
<1> QED
  BY <1>5, <1>6, <1>7, <1>8, <1>9 DEF IInv

(* The two actions that take a row out: the rows that stay were there.     *)
LEMMA RemoveStep ==
  ASSUME IInv, NEW i \in DOMAIN acts, Delete(i) \/ Release(i)
  PROVE  IInv'
<1>1. acts' = RemoveAt(acts, i) /\ UNCHANGED <<nextId, enabled, accepted>>
  BY DEF Delete, Release
<1>2. /\ UniqueIds' /\ acts' \in Seq(Activities) /\ Len(acts') = Len(acts) - 1
      /\ \A k \in DOMAIN acts' : \E j \in DOMAIN acts : acts'[k] = acts[j]
  BY <1>1, HeldRemoved DEF IInv
<1>3. acts[i] \in Activities /\ Len(acts) \in Nat \ {0}
  BY DEF IInv, TypeOK
<1>4. TypeOK'
  BY <1>1, <1>2, <1>3, FedOutsideRun, CapacityAssumption
  DEF Delete, Release, IInv, TypeOK
<1>5. NothingOverdue' /\ RunInv'
  BY <1>1, <1>2, <1>3, FedOutsideRun
  DEF Delete, Release, IInv, TypeOK, NothingOverdue, RunInv
<1>6. NumberedInOrder'
  BY <1>1, <1>2 DEF IInv, NumberedInOrder
<1> QED
  BY <1>2, <1>4, <1>5, <1>6 DEF IInv

(* The end of a run: a run that has spent its limit has emptied the table. *)
LEMMA RunEndStep ==
  ASSUME IInv, RunEnd
  PROVE  IInv'
<1>1. \A i \in DOMAIN acts : acts[i].tag > now
  <2>1. Len(acts) + released = limit /\ Len(acts) \in Nat /\ released \in Nat
    BY DEF IInv, RunInv, RunEnd, TypeOK
  <2>2. CASE released = limit
    BY <2>1, <2>2 DEF IInv, TypeOK
  <2> QED BY <2>2 DEF RunEnd
<1>2. TypeOK' /\ RunInv'
  BY CapacityAssumption DEF RunEnd, IInv, TypeOK, RunInv
<1>3. UniqueIds' /\ NothingOverdue' /\ NumberedInOrder'
  BY <1>1 DEF RunEnd, IInv, UniqueIds, NothingOverdue, NumberedInOrder
<1> QED
  BY <1>2, <1>3 DEF IInv

(* The steps that leave the table alone.                                   *)
LEMMA OtherStep ==
  ASSUME IInv,
         \/ \E tc \in Embedded : InsertIllegal(tc) \/ InsertFull(tc)
         \/ \E id \in Ids : DeleteUnknown(id)
         \/ DeleteAll \/ Enable \/ Disable
         \/ \E t \in Times : SetObt(t)
         \/ NoTelecommand \/ CopyTime \/ TakeActions \/ ActionsEnd \/ ObtAdvance
  PROVE  IInv'
<1> USE CapacityAssumption, BoundAssumption DEF Times
<1>1. CASE \E tc \in Embedded : InsertIllegal(tc) \/ InsertFull(tc)
  BY <1>1, FedOutsideRun
  DEF InsertIllegal, InsertFull, IInv, TypeOK, UniqueIds, NothingOverdue,
      RunInv, NumberedInOrder
<1>2. CASE \E id \in Ids : DeleteUnknown(id)
  BY <1>2, FedOutsideRun
  DEF DeleteUnknown, IInv, TypeOK, UniqueIds, NothingOverdue, RunInv,
      NumberedInOrder
<1>3. CASE DeleteAll
  BY <1>3, FedOutsideRun
  DEF DeleteAll, IInv, TypeOK, UniqueIds, NothingOverdue, RunInv,
      NumberedInOrder
<1>4. CASE Enable \/ Disable
  BY <1>4, FedOutsideRun
  DEF Enable, Disable, IInv, TypeOK, UniqueIds, NothingOverdue, RunInv,
      NumberedInOrder
<1>5. CASE \E t \in Times : SetObt(t)
  BY <1>5, FedOutsideRun
  DEF SetObt, IInv, TypeOK, UniqueIds, NothingOverdue, RunInv, NumberedInOrder
<1>6. CASE NoTelecommand
  BY <1>6, FedOutsideRun
  DEF NoTelecommand, IInv, TypeOK, UniqueIds, NothingOverdue, RunInv,
      NumberedInOrder
<1>7. CASE CopyTime
  BY <1>7 DEF CopyTime, IInv, TypeOK, UniqueIds, NothingOverdue, RunInv, NumberedInOrder
<1>8. CASE ObtAdvance
  BY <1>8
  DEF ObtAdvance, IInv, TypeOK, UniqueIds, NothingOverdue, RunInv,
      NumberedInOrder
<1>9. CASE TakeActions \/ ActionsEnd
  BY <1>9 DEF TakeActions, ActionsEnd, IInv, TypeOK, UniqueIds, NothingOverdue, RunInv,
              NumberedInOrder
<1> QED
  BY <1>1, <1>2, <1>3, <1>4, <1>5, <1>6, <1>7, <1>8, <1>9

(* A reset puts the variables back to their initial values.                *)
LEMMA ResetStep ==
  ASSUME Reset
  PROVE  IInv'
<1>1. 1 % IdRange = 1 /\ 1 \in Ids
  BY IdAssumption, CapacityAssumption DEF Ids
<1>2. TypeOK'
  BY <1>1, CapacityAssumption, BoundAssumption DEF Reset, TypeOK, Times
<1>3. UniqueIds' /\ NothingOverdue' /\ RunInv'
  BY DEF Reset, UniqueIds, NothingOverdue, RunInv
<1>4. NumberedInOrder'
  BY <1>1 DEF Reset, NumberedInOrder
<1> QED
  BY <1>2, <1>3, <1>4 DEF IInv

LEMMA StepIInv == IInv /\ [Next]_vars => IInv'
<1> SUFFICES ASSUME IInv, [Next]_vars PROVE IInv'
  OBVIOUS
<1>1. CASE \E tag \in Times, tc \in Embedded : Insert(tag, tc)
  BY <1>1, InsertStep
<1>2. CASE \E i \in DOMAIN acts : Delete(i) \/ Release(i)
  BY <1>2, RemoveStep
<1>3. CASE RunEnd
  BY <1>3, RunEndStep
<1>4. CASE UNCHANGED vars
  BY <1>4 DEF vars, IInv, TypeOK, UniqueIds, NothingOverdue, RunInv, NumberedInOrder
<1>5. CASE Reset
  BY <1>5, ResetStep
<1> QED
  BY <1>1, <1>2, <1>3, <1>4, <1>5, OtherStep DEF Next, PusTask, Telecommand

(* The invariant holds for every capacity and every id width.              *)
THEOREM ScheduleInvariant == Spec => []IInv
<1> QED
  BY InitIInv, StepIInv, PTL DEF Spec

(* The table stays within its storage and every row is well formed.        *)
THEOREM ScheduleTypeCorrect == Spec => []TypeOK
<1>1. IInv => TypeOK
  BY DEF IInv
<1> QED
  BY <1>1, ScheduleInvariant, PTL

(* Request numbers in the table are unique, whatever has wrapped.          *)
THEOREM IdsAreUnique == Spec => []UniqueIds
<1>1. IInv => UniqueIds
  BY DEF IInv
<1> QED
  BY <1>1, ScheduleInvariant, PTL

(* A finished run has released every activity due at its time.             *)
THEOREM RunsAreComplete == Spec => []NothingOverdue
<1>1. IInv => NothingOverdue
  BY DEF IInv
<1> QED
  BY <1>1, ScheduleInvariant, PTL

-----------------------------------------------------------------------------
(* The order of release                                                    *)

LEMMA TieStep ==
  ASSUME IInv, [Next]_vars, accepted < IdRange, out' # out, out' # None
  PROVE  \A a \in Held : a.tag = out'.tag => out'.ord <= a.ord
<1>1. PICK i \in DOMAIN acts : Release(i)
  BY DEF Next, PusTask, Telecommand, vars, InsertIllegal, InsertFull, Insert,
         DeleteUnknown, Delete, DeleteAll, Enable, Disable, SetObt, NoTelecommand,
         CopyTime, RunEnd, TakeActions, ActionsEnd, ObtAdvance, Reset
<1>2. out' = acts[i] /\ Earliest(i)
  BY <1>1 DEF Release
<1> SUFFICES ASSUME NEW j \in DOMAIN acts, acts[j].tag = acts[i].tag
             PROVE  acts[i].ord <= acts[j].ord
  BY <1>2 DEF Held
<1>3. acts[i] \in Activities /\ acts[j] \in Activities
  BY DEF IInv, TypeOK
<1>4. /\ acts[i].id \in Nat /\ acts[j].id \in Nat
      /\ acts[i].ord = acts[i].id /\ acts[j].ord = acts[j].id
  BY <1>3, IdAssumption DEF IInv, NumberedInOrder, Activities, Ids
<1>5. ~Before(acts[j], acts[i])
  BY <1>2 DEF Earliest
<1> QED
  BY <1>4, <1>5 DEF Before

(* Until the request numbers wrap, equal tags go in insertion order.       *)
THEOREM TiesAreInOrder == Spec => TiesInOrderUntilWrap
<1>1. IInv /\ [Next]_vars =>
        [accepted < IdRange /\ out' # out /\ out' # None =>
           \A a \in Held : a.tag = out'.tag => out'.ord <= a.ord]_vars
  BY TieStep
<1> QED
  BY <1>1, ScheduleInvariant, PTL DEF Spec, TiesInOrderUntilWrap
-----------------------------------------------------------------------------
(* The table implements TimeTagged                                         *)

LEMMA InitRefines == Init => Promise!Init
<1> SUFFICES ASSUME Init PROVE Promise!Init
  OBVIOUS
<1>1. Held = {}
  BY DEF Init, Held
<1>2. obt \in Times
  BY BoundAssumption DEF Init, Times
<1> QED
  BY <1>1, <1>2 DEF Init, Promise!Init

(* The instance of TimeTagged counts with the same operator.               *)
LEMMA SameCardinality == Promise!Cardinality(Held) = Cardinality(Held)
  BY DEF Cardinality, Promise!Cardinality

(* A release maps to the release of a due activity with the smallest tag.  *)
LEMMA ReleaseRefines ==
  ASSUME IInv, NEW i \in DOMAIN acts, Release(i)
  PROVE  Promise!Next
<1> DEFINE a == acts[i]
<1>1. Held' = Held \ {a} /\ a \in Held
  BY HeldRemoved DEF Release, Held, IInv
<1>2. enabled
  BY DEF IInv, RunInv, Release
<1>3. \A j \in DOMAIN acts : acts[j].tag \in Nat
  <2>1. \A b \in Activities : b.tag \in Nat
    BY BoundAssumption DEF Activities, Times
  <2>2. \A j \in DOMAIN acts : acts[j] \in Activities
    BY DEF IInv, TypeOK
  <2> QED BY <2>1, <2>2
<1>4. now \in Nat
  BY BoundAssumption DEF IInv, TypeOK, Times
<1>5. acts[i].tag <= now /\ \A j \in DOMAIN acts : acts[i].tag <= acts[j].tag
  BY <1>3, <1>4 DEF Release, Earliest, Before
<1>6. \A b \in Held : a.tag <= b.tag
  BY <1>5 DEF Held
<1>7. obt' \in Times /\ (a.tc \notin {"setTime"} => obt' = obt)
  BY DEF Release, IInv, TypeOK
<1>8. Promise!Release(a)
  BY <1>1, <1>2, <1>5, <1>6, <1>7 DEF Release, Promise!Release
<1> QED
  BY <1>1, <1>8 DEF Promise!Next

LEMMA InsertRefines ==
  ASSUME IInv, NEW tag \in Times, NEW tc \in Embedded, Insert(tag, tc)
  PROVE  Promise!Next
<1>1. TakeId \in Ids \ {0} /\ ~InUse(TakeId)
  BY TakeIdIsFresh DEF IInv
<1>2. \A a \in Held : a.id # TakeId
  BY <1>1 DEF Held, InUse
<1>3. Cardinality(Held) < Capacity
  BY HeldCardinality DEF IInv, Insert
<1>4. Promise!Accept(TakeId, tag, tc)
  BY <1>2, <1>3, SameCardinality, InsertStep DEF Insert, Promise!Accept
<1>5. tc \in Schedulable
  BY DEF Insert
<1> QED
  BY <1>1, <1>4, <1>5 DEF Promise!Next

LEMMA StepRefines == IInv /\ [Next]_vars => [Promise!Next]_(Promise!vars)
<1> SUFFICES ASSUME IInv, [Next]_vars PROVE [Promise!Next]_(Promise!vars)
  OBVIOUS
<1>1. CASE \E tag \in Times, tc \in Embedded : Insert(tag, tc)
  BY <1>1, InsertRefines
<1>2. CASE \E i \in DOMAIN acts : Release(i)
  BY <1>2, ReleaseRefines
<1>3. CASE \E i \in DOMAIN acts : Delete(i)
  <2>1. PICK i \in DOMAIN acts : Delete(i)
    BY <1>3
  <2>2. Held' = Held \ {acts[i]} /\ acts[i] \in Held
    BY <2>1, HeldRemoved DEF Delete, Held, IInv
  <2>3. Promise!Delete(acts[i])
    BY <2>1, <2>2 DEF Delete, Promise!Delete
  <2> QED BY <2>2, <2>3 DEF Promise!Next
<1>4. CASE DeleteAll
  <2>1. Held' = {}
    BY <1>4 DEF DeleteAll, Held
  <2>2. Promise!DeleteAll
    BY <1>4, <2>1 DEF DeleteAll, Promise!DeleteAll
  <2> QED BY <2>2 DEF Promise!Next
<1>5. CASE \E tc \in Embedded : InsertFull(tc)
  <2>1. Cardinality(Held) = Capacity
    BY <1>5, HeldCardinality, CapacityAssumption DEF InsertFull, IInv, TypeOK
  <2>2. Promise!RefuseFull
    BY <1>5, <2>1, SameCardinality DEF InsertFull, Promise!RefuseFull, Held
  <2> QED BY <2>2 DEF Promise!Next
<1>6. CASE (\E tc \in Embedded : InsertIllegal(tc)) \/ (\E id \in Ids : DeleteUnknown(id))
  <2>1. Promise!RefuseData
    BY <1>6 DEF InsertIllegal, DeleteUnknown, Promise!RefuseData, Held
  <2> QED BY <2>1 DEF Promise!Next
<1>7. CASE Enable \/ Disable
  <2>1. Promise!Switch(TRUE) \/ Promise!Switch(FALSE)
    BY <1>7 DEF Enable, Disable, Promise!Switch, Held
  <2> QED BY <2>1 DEF Promise!Next
<1>8. CASE (\E t \in Times : SetObt(t)) \/ ObtAdvance
  <2>1. Promise!ObtChange
    BY <1>8, BoundAssumption
    DEF SetObt, ObtAdvance, Promise!ObtChange, Held, IInv, TypeOK, Times
  <2> QED BY <2>1 DEF Promise!Next
<1>9. CASE CopyTime
  <2>1. Promise!Sample
    BY <1>9 DEF CopyTime, Promise!Sample, Held
  <2> QED BY <2>1 DEF Promise!Next
<1>10. CASE RunEnd
  <2>1. Promise!EndRun
    BY <1>10 DEF RunEnd, Promise!EndRun, Held
  <2> QED BY <2>1 DEF Promise!Next
<1>11. CASE ActionsEnd
  <2>1. Promise!Forget
    BY <1>11 DEF ActionsEnd, Promise!Forget, Held
  <2> QED BY <2>1 DEF Promise!Next
<1>12. CASE NoTelecommand \/ TakeActions \/ UNCHANGED vars
  BY <1>12 DEF NoTelecommand, TakeActions, vars, Promise!vars, Held
<1>13. CASE Reset
  <2>1. Held' = {}
    BY <1>13 DEF Reset, Held
  <2>2. obt' \in Times /\ now' = obt'
    BY <1>13, BoundAssumption DEF Reset, Times
  <2>3. Promise!Restart
    BY <1>13, <2>1, <2>2 DEF Reset, Promise!Restart
  <2> QED BY <2>3 DEF Promise!Next
<1> QED
  BY <1>1, <1>2, <1>3, <1>4, <1>5, <1>6, <1>7, <1>8, <1>9, <1>10, <1>11, <1>12, <1>13
  DEF Next, PusTask, Telecommand

(* The unordered table of s11.c implements the schedule TimeTagged states. *)
THEOREM TableIsSchedule == Spec => RefinesTimeTagged
<1> QED
  BY InitRefines, StepRefines, ScheduleInvariant, PTL
  DEF Spec, RefinesTimeTagged, Promise!Spec

=============================================================================
