--------------------------- MODULE TmStoreProofs ----------------------------
(***************************************************************************)
(* Theorems about the telemetry ring for every number of slots, every set  *)
(* of writers and every set of packets, under the scheduler the            *)
(* architecture document assumes (Cooperative).                            *)
(***************************************************************************)
EXTENDS TmStore, TLAPS

(* next_slot stays inside the ring and only wraps after the last slot.     *)
LEMMA NextSlotValue ==
  ASSUME NEW i \in Index
  PROVE  /\ NextSlot(i) \in Index
         /\ NextSlot(i) = IF i = Slots - 1 THEN 0 ELSE i + 1
<1>1. CASE i = Slots - 1
  BY <1>1, SlotsAssumption DEF NextSlot, Index
<1>2. CASE i # Slots - 1
  <2>1. i + 1 \in 0 .. Slots - 1
    BY <1>2, SlotsAssumption DEF Index
  <2>2. (i + 1) % Slots = i + 1
    BY <2>1, SlotsAssumption
  <2> QED
    BY <1>2, <2>1, <2>2 DEF NextSlot, Index
<1> QED
  BY <1>1, <1>2

(* The distance from slot t to slot h around the ring.                     *)
LEMMA Distance ==
  ASSUME NEW h \in Index, NEW t \in Index
  PROVE  /\ (h - t) % Slots \in 0 .. Slots - 1
         /\ (h - t) % Slots = IF t <= h THEN h - t ELSE h - t + Slots
<1>1. CASE t <= h
  <2>1. h - t \in 0 .. Slots - 1
    BY <1>1, SlotsAssumption DEF Index
  <2> QED
    BY <1>1, <2>1, SlotsAssumption DEF Index
<1>2. CASE ~(t <= h)
  <2>1. h - t \in (1 - Slots) .. (-1)
    BY <1>2, SlotsAssumption DEF Index
  <2>2. (h - t) % Slots = h - t + Slots
    BY <2>1, SlotsAssumption
  <2> QED
    BY <1>2, <2>1, <2>2, SlotsAssumption DEF Index
<1> QED
  BY <1>1, <1>2

(* obsw_tm_store_count is the distance from tail to head around the ring.  *)
LEMMA CountValue ==
  ASSUME head \in Index, tail \in Index
  PROVE  /\ Count \in 0 .. Slots - 1
         /\ Count = IF tail <= head THEN head - tail ELSE head - tail + Slots
BY Distance DEF Count

(* The full test: the ring refuses a packet when all slots but one hold    *)
(* a packet.                                                               *)
LEMMA FullCount ==
  ASSUME head \in Index, tail \in Index, NextSlot(head) = tail
  PROVE  Count = Slots - 1
<1>1. head \in 0 .. Slots - 1 /\ Slots \in Nat \ {0, 1}
  BY SlotsAssumption DEF Index
<1>2. tail = IF head = Slots - 1 THEN 0 ELSE head + 1
  BY NextSlotValue
<1>3. Count = IF tail <= head THEN head - tail ELSE head - tail + Slots
  BY CountValue
<1> QED
  BY <1>1, <1>2, <1>3

(* Reduction modulo n of a number below 2n.                                *)
LEMMA ModWrap ==
  \A n \in Nat \ {0} : \A x \in 0 .. (2 * n - 1) :
    x % n = IF x < n THEN x ELSE x - n
<1>1. \A n \in Nat \ {0} : \A x \in 0 .. (n - 1) : x % n = x
  OBVIOUS
<1>2. \A n \in Nat \ {0} : \A x \in n .. (2 * n - 1) : x % n = x - n
  OBVIOUS
<1> QED
  BY <1>1, <1>2

(* The slot of the k-th oldest packet.                                     *)
LEMMA PositionValue ==
  ASSUME tail \in Index, NEW k \in 1 .. Slots
  PROVE  /\ Position(k) \in Index
         /\ Position(k) =
              IF tail + k - 1 < Slots THEN tail + k - 1 ELSE tail + k - 1 - Slots
<1>1. tail + k - 1 \in 0 .. (2 * Slots - 1)
  BY SlotsAssumption DEF Index
<1>2. Position(k) = IF tail + k - 1 < Slots THEN tail + k - 1 ELSE tail + k - 1 - Slots
  <2>1. \A x \in 0 .. (2 * Slots - 1) :
          x % Slots = IF x < Slots THEN x ELSE x - Slots
    BY ModWrap, SlotsAssumption
  <2>2. PICK x \in 0 .. (2 * Slots - 1) : x = tail + k - 1
    BY <1>1
  <2>3. x % Slots = IF x < Slots THEN x ELSE x - Slots
    BY <2>1
  <2>4. Position(k) = x % Slots
    BY <2>2 DEF Position
  <2> QED
    BY <2>2, <2>3, <2>4, SlotsAssumption DEF Index
<1> QED
  BY <1>2, SlotsAssumption DEF Index

(* Slot head is not one of the queued slots.                               *)
LEMMA HeadNotQueued ==
  ASSUME head \in Index, tail \in Index, NEW k \in 1 .. Count
  PROVE  /\ Position(k) \in Index
         /\ Position(k) # head
<1>1. k \in 1 .. Slots
  BY CountValue, SlotsAssumption
<1> QED
  BY <1>1, CountValue, PositionValue, SlotsAssumption DEF Index

(* A step that leaves the indices and every slot but head alone leaves the *)
(* queue alone.                                                            *)
LEMMA QueueSame ==
  ASSUME head \in Index, tail \in Index,
         head' = head, tail' = tail,
         \A i \in Index : i # head => Slot(i)' = Slot(i)
  PROVE  Count' = Count /\ Queue' = Queue
<1>1. Count' = Count
  BY DEF Count
<1>2. ASSUME NEW k \in 1 .. Count
      PROVE  Slot(Position(k))' = Slot(Position(k))
  BY <1>2, HeadNotQueued DEF Position
<1> QED
  BY <1>1, <1>2 DEF Queue

(* Publishing slot head appends it to the queue.                           *)
LEMMA QueueAppended ==
  ASSUME head \in Index, tail \in Index, NextSlot(head) # tail,
         head' = NextSlot(head), tail' = tail,
         UNCHANGED <<lo, hi, len>>
  PROVE  /\ Count' = Count + 1
         /\ Count < Slots - 1
         /\ Queue' = Append(Queue, Slot(head))
         /\ \A k \in 1 .. Count' :
              Queue'[k] = IF k = Count + 1 THEN Slot(head) ELSE Queue[k]
<1>1. head' \in Index /\ tail' \in Index
  BY NextSlotValue
<1>2. /\ Count' \in 0 .. Slots - 1
      /\ Count' = IF tail' <= head' THEN head' - tail' ELSE head' - tail' + Slots
  BY <1>1, Distance DEF Count
<1>3. Count' = Count + 1 /\ Count < Slots - 1
  BY <1>2, CountValue, NextSlotValue, SlotsAssumption DEF Index
<1>4. Position(Count + 1) = head
  <2>1. Count + 1 \in 1 .. Slots
    BY CountValue, SlotsAssumption
  <2> QED
    BY <2>1, CountValue, PositionValue, SlotsAssumption DEF Index
<1>5. \A k : Slot(Position(k))' = Slot(Position(k))
  BY DEF Slot, Position
<1>6. Queue' = [k \in 1 .. Count + 1 |-> Slot(Position(k))]
  BY <1>3, <1>5 DEF Queue
<1>7. Count \in Nat
  BY CountValue, SlotsAssumption
<1>8. Len(Queue) = Count
  BY <1>7 DEF Queue
<1>9. Append(Queue, Slot(head)) =
        [k \in 1 .. Count + 1 |-> IF k = Count + 1 THEN Slot(head) ELSE Queue[k]]
  BY <1>7, <1>8 DEF Queue
<1>10. \A k \in 1 .. Count + 1 :
         Slot(Position(k)) =
           IF k = Count + 1 THEN Slot(head) ELSE Queue[k]
  BY <1>4, <1>7 DEF Queue
<1> QED
  BY <1>3, <1>6, <1>9, <1>10

(* Freeing slot tail removes the oldest packet.                            *)
LEMMA QueueRemoved ==
  ASSUME head \in Index, tail \in Index, head # tail,
         head' = head, tail' = NextSlot(tail),
         UNCHANGED <<lo, hi, len>>
  PROVE  /\ Count' = Count - 1
         /\ Count > 0
         /\ Queue # << >>
         /\ Head(Queue) = Slot(tail)
         /\ Queue' = Tail(Queue)
         /\ \A k \in 1 .. Count' : Queue'[k] = Queue[k + 1]
<1>1. head' \in Index /\ tail' \in Index
  BY NextSlotValue
<1>2. /\ Count' \in 0 .. Slots - 1
      /\ Count' = IF tail' <= head' THEN head' - tail' ELSE head' - tail' + Slots
  BY <1>1, Distance DEF Count
<1>3. Count \in Nat /\ Count' = Count - 1 /\ Count > 0
  BY <1>2, CountValue, NextSlotValue, SlotsAssumption DEF Index
<1>4. Position(1) = tail
  <2>1. 1 \in 1 .. Slots
    BY SlotsAssumption
  <2> QED
    BY <2>1, PositionValue, SlotsAssumption DEF Index
<1>5. ASSUME NEW k \in 1 .. Count - 1
      PROVE  Position(k)' = Position(k + 1)
  <2>1. k \in 1 .. Slots /\ k + 1 \in 1 .. Slots
    BY <1>3, CountValue, SlotsAssumption
  <2>2. tail' + k - 1 \in 0 .. (2 * Slots - 1)
    BY <1>1, <2>1, SlotsAssumption DEF Index
  <2>3. PICK x \in 0 .. (2 * Slots - 1) : x = tail' + k - 1
    BY <2>2
  <2>4. x % Slots = IF x < Slots THEN x ELSE x - Slots
    BY ModWrap, SlotsAssumption
  <2>5. Position(k)' = x % Slots
    BY <2>3 DEF Position
  <2>6. Position(k + 1) =
          IF tail + k < Slots THEN tail + k ELSE tail + k - Slots
    BY <2>1, PositionValue, SlotsAssumption DEF Index
  <2> QED
    BY <2>1, <2>3, <2>4, <2>5, <2>6, NextSlotValue, SlotsAssumption DEF Index
<1>6. \A i : Slot(i)' = Slot(i)
  BY DEF Slot
<1>7. ASSUME NEW k \in 1 .. Count - 1
      PROVE  Slot(Position(k))' = Slot(Position(k + 1))
  BY <1>5, <1>6 DEF Slot
<1>8. Queue' = [k \in 1 .. Count - 1 |-> Slot(Position(k + 1))]
  BY <1>3, <1>7 DEF Queue
<1>9. Len(Queue) = Count /\ Queue # << >> /\ Head(Queue) = Slot(tail)
  BY <1>3, <1>4 DEF Queue
<1>10. \A k \in 1 .. Count - 1 : Queue[k + 1] = Slot(Position(k + 1))
  BY <1>3 DEF Queue
<1>11. Tail(Queue) = [k \in 1 .. Count - 1 |-> Queue[k + 1]]
  BY <1>3, <1>9 DEF Queue
<1> QED
  BY <1>3, <1>8, <1>9, <1>10, <1>11
-----------------------------------------------------------------------------
(* A writer that is scheduled finds every other writer outside enqueue.    *)
LEMMA RunsAlone ==
  ASSUME Cooperative, NEW w \in Writers, Scheduled(w)
  PROVE  \A v \in Writers : v # w => wpc[v] = "idle"
BY SchedulerAssumption DEF Cooperative, Scheduled

LEMMA InitIInv == Init => IInv
<1> SUFFICES ASSUME Init PROVE IInv
  OBVIOUS
<1>1. TypeOK
  BY SlotsAssumption, PacketAssumption DEF Init, TypeOK, Index
<1>2. Count = 0
  BY SlotsAssumption DEF Init, Count
<1>3. Exclusive /\ (\A w \in Writers : WriterInv(w)) /\ ReaderInv
  BY DEF Init, Exclusive, WriterInv, ReaderInv
<1>4. QueuedInv
  BY <1>2 DEF QueuedInv
<1> QED
  BY <1>1, <1>3, <1>4 DEF IInv

(* The steps of one enqueue.                                               *)
LEMMA WriterStep ==
  ASSUME Cooperative, IInv, NEW w \in Writers,
         EnqueueCall(w) \/ EnqueueStep(w)
  PROVE  IInv'
<1> USE DEF IInv
<1>0. head \in Index /\ tail \in Index /\ NextSlot(head) \in Index
  BY NextSlotValue DEF TypeOK
<1>1. ASSUME NEW p \in Packets, EnqueueTooLarge(w, p) \/ EnqueueFull(w, p)
      PROVE  IInv'
  <2>1. UNCHANGED <<ring, wpc, pkt, next, readerVars>>
    BY <1>1 DEF EnqueueTooLarge, EnqueueFull
  <2>2. TypeOK'
    BY <1>1, <2>1 DEF TypeOK, ring, readerVars, EnqueueTooLarge, EnqueueFull
  <2>3. Exclusive' /\ (\A v \in Writers : WriterInv(v)') /\ ReaderInv'
    BY <2>1 DEF ring, readerVars, Exclusive, WriterInv, ReaderInv, Empty, NextSlot
  <2>4. QueuedInv'
    BY <2>1 DEF ring, QueuedInv, Queue, Count, Position, Slot
  <2> QED
    BY <2>2, <2>3, <2>4
<1>2. ASSUME NEW p \in Packets, EnqueueStart(w, p)
      PROVE  IInv'
  <2>1. UNCHANGED <<head, tail, lo, hi, len, next, rpc, buf, out, outRc, rc>>
    BY <1>2 DEF EnqueueStart, ring, readerVars
  <2>2. TypeOK'
    BY <1>2, <2>1 DEF TypeOK, EnqueueStart
  <2>3. \A v \in Writers : v # w => wpc'[v] = "idle" /\ wpc[v] = "idle"
    BY <1>2, RunsAlone DEF TypeOK, EnqueueStart
  <2>4. Exclusive' /\ ReaderInv'
    BY <2>1, <2>3 DEF Exclusive, ReaderInv, Empty
  <2>5. \A v \in Writers : WriterInv(v)'
    <3>1. WriterInv(w)'
      BY <1>2, <2>1 DEF EnqueueStart, WriterInv, NextSlot, TypeOK
    <3> QED
      BY <2>3, <3>1 DEF WriterInv
  <2>6. QueuedInv'
    BY <2>1 DEF QueuedInv, Queue, Count, Position, Slot
  <2> QED
    BY <2>2, <2>4, <2>5, <2>6
<1>3. ASSUME CopyLo(w) \/ CopyHi(w) \/ SetLen(w)
      PROVE  IInv'
  <2>1. UNCHANGED <<head, tail, pkt, rc, rpc, buf, out, outRc>>
    BY <1>3 DEF CopyLo, CopyHi, SetLen, readerVars
  <2>2. /\ WriterInv(w) /\ wpc[w] # "idle" /\ pkt[w] \in Packets
        /\ CopyHi(w) => next[w] = head
    BY <1>3 DEF CopyLo, CopyHi, SetLen, WriterInv
  <2>3. pkt[w].lo \in Bytes /\ pkt[w].hi \in Bytes /\ pkt[w].len \in Nat
    BY <2>2, PacketAssumption
  <2>4. TypeOK'
    BY <1>0, <1>3, <2>1, <2>3 DEF TypeOK, CopyLo, CopyHi, SetLen
  <2>5. \A v \in Writers : v # w => wpc'[v] = "idle" /\ wpc[v] = "idle"
    BY <1>3, RunsAlone DEF TypeOK, CopyLo, CopyHi, SetLen
  <2>6. \A i \in Index : i # head =>
          lo'[i] = lo[i] /\ hi'[i] = hi[i] /\ len'[i] = len[i]
    BY <1>0, <1>3, <2>2 DEF TypeOK, CopyLo, CopyHi, SetLen
  <2>7. Exclusive'
    BY <2>5 DEF Exclusive
  <2>8. ReaderInv'
    BY <1>0, <2>1, <2>6 DEF ReaderInv, Empty
  <2>9. WriterInv(w)'
    BY <1>0, <1>3, <2>1, <2>2 DEF TypeOK, WriterInv, NextSlot, CopyLo, CopyHi, SetLen
  <2>10. Count' = Count /\ Queue' = Queue
    BY <1>0, <2>1, <2>6, QueueSame DEF Slot
  <2> QED
    BY <2>4, <2>5, <2>7, <2>8, <2>9, <2>10 DEF WriterInv, QueuedInv
<1>4. ASSUME LoadHead(w)
      PROVE  IInv'
  <2>1. UNCHANGED <<head, tail, lo, hi, len, pkt, rc, rpc, buf, out, outRc>>
    BY <1>4 DEF LoadHead, ring, readerVars
  <2>2. TypeOK'
    BY <1>0, <1>4, <2>1 DEF TypeOK, LoadHead
  <2>3. \A v \in Writers : v # w => wpc'[v] = "idle" /\ wpc[v] = "idle"
    BY <1>4, RunsAlone DEF TypeOK, LoadHead
  <2>4. Exclusive' /\ ReaderInv'
    BY <2>1, <2>3 DEF Exclusive, ReaderInv, Empty
  <2>5. WriterInv(w)'
    BY <1>4, <2>1 DEF TypeOK, WriterInv, NextSlot, LoadHead
  <2>6. QueuedInv'
    BY <2>1 DEF QueuedInv, Queue, Count, Position, Slot
  <2> QED
    BY <2>2, <2>3, <2>4, <2>5, <2>6 DEF WriterInv
<1>5. ASSUME StoreHead(w)
      PROVE  IInv'
  <2>1. UNCHANGED <<tail, lo, hi, len, rpc, buf, out, outRc>>
    BY <1>5 DEF StoreHead, readerVars
  <2>2. /\ head' = NextSlot(head)
        /\ NextSlot(head) # tail
        /\ Slot(head) = pkt[w]
    <3>1. /\ WriterInv(w) /\ wpc[w] = "storeHead" /\ head' = next[w]
      BY <1>5 DEF StoreHead
    <3>2. pkt[w] \in [lo : Bytes, hi : Bytes, len : Nat]
      BY <3>1, PacketAssumption DEF WriterInv
    <3> QED
      BY <3>1, <3>2 DEF WriterInv, Slot
  <2>3. pkt[w] \in Packets
    BY <1>5 DEF StoreHead, WriterInv
  <2>4. TypeOK'
    BY <1>0, <1>5, <2>1, <2>2, SlotsAssumption DEF TypeOK, StoreHead, Index
  <2>5. \A v \in Writers : wpc'[v] = "idle"
    BY <1>5, RunsAlone DEF TypeOK, StoreHead
  <2>6. Exclusive' /\ (\A v \in Writers : WriterInv(v)')
    BY <2>5 DEF Exclusive, WriterInv
  <2>7. ReaderInv'
    BY <2>1, <2>2 DEF ReaderInv, Empty
  <2>8. /\ Count' = Count + 1 /\ Count \in Nat
        /\ \A k \in 1 .. Count' :
             Queue'[k] = IF k = Count + 1 THEN Slot(head) ELSE Queue[k]
    BY <1>0, <2>1, <2>2, QueueAppended, CountValue
  <2>9. QueuedInv'
    BY <2>2, <2>3, <2>8 DEF QueuedInv
  <2> QED
    BY <2>4, <2>6, <2>7, <2>9
<1> QED
  BY <1>1, <1>2, <1>3, <1>4, <1>5 DEF EnqueueCall, EnqueueStep

(* The steps of one dequeue.                                               *)
LEMMA ReaderStep ==
  ASSUME IInv, DequeueEmpty \/ DequeueTooLarge \/ DequeueStep
  PROVE  IInv'
<1> USE DEF IInv
<1>0. head \in Index /\ tail \in Index /\ NextSlot(tail) \in Index
  BY NextSlotValue DEF TypeOK
<1>1. ASSUME DequeueEmpty \/ DequeueTooLarge
      PROVE  IInv'
  <2>1. UNCHANGED <<head, tail, lo, hi, len, wpc, pkt, next, rc, rpc, buf, out>>
    BY <1>1 DEF DequeueEmpty, DequeueTooLarge, ring, writerVars
  <2>2. TypeOK'
    BY <1>1, <2>1 DEF TypeOK, DequeueEmpty, DequeueTooLarge
  <2>3. Exclusive' /\ (\A v \in Writers : WriterInv(v)') /\ ReaderInv'
    BY <2>1 DEF Exclusive, WriterInv, ReaderInv, Empty, NextSlot
  <2>4. QueuedInv'
    BY <2>1 DEF QueuedInv, Queue, Count, Position, Slot
  <2> QED
    BY <2>2, <2>3, <2>4
<1>2. ASSUME DequeueStart \/ ReadLo \/ ReadHi
      PROVE  IInv'
  <2>1. UNCHANGED <<head, tail, lo, hi, len, wpc, pkt, next, rc, out, outRc>>
    BY <1>2 DEF DequeueStart, ReadLo, ReadHi, ring, writerVars
  <2>2. ReaderInv'
    BY <1>0, <1>2, <2>1, PacketAssumption
       DEF TypeOK, ReaderInv, Empty, DequeueStart, ReadLo, ReadHi
  <2>3. TypeOK'
    BY <1>2, <2>1, <2>2 DEF TypeOK, ReaderInv, DequeueStart, ReadLo, ReadHi
  <2>4. Exclusive' /\ (\A v \in Writers : WriterInv(v)')
    BY <2>1 DEF Exclusive, WriterInv, NextSlot
  <2>5. QueuedInv'
    BY <2>1 DEF QueuedInv, Queue, Count, Position, Slot
  <2> QED
    BY <2>2, <2>3, <2>4, <2>5
<1>3. ASSUME StoreTail
      PROVE  IInv'
  <2>1. UNCHANGED <<head, lo, hi, len, wpc, pkt, next, rc>> /\ tail' = NextSlot(tail)
    BY <1>3 DEF StoreTail, writerVars
  <2>2. head # tail /\ buf = Slot(tail)
    BY <1>3 DEF StoreTail, ReaderInv, Empty, Slot
  <2>3. /\ Count' = Count - 1 /\ Count > 0 /\ Count \in Nat
        /\ \A k \in 1 .. Count' : Queue'[k] = Queue[k + 1]
        /\ Queue[1] = Slot(tail)
    <3>1. Queue # << >> /\ Head(Queue) = Slot(tail) /\ Count \in Nat /\ Count > 0
      BY <1>0, <2>1, <2>2, QueueRemoved, CountValue
    <3>2. Queue[1] = Head(Queue)
      BY <3>1 DEF Queue
    <3> QED
      BY <1>0, <2>1, <2>2, <3>1, <3>2, QueueRemoved
  <2>4. buf \in Packets
    BY <2>2, <2>3 DEF QueuedInv
  <2>5. TypeOK'
    BY <1>0, <1>3, <2>1, <2>4 DEF TypeOK, StoreTail
  <2>6. ReaderInv'
    BY <1>3 DEF StoreTail, ReaderInv
  <2>7. NextSlot(head) # NextSlot(tail)
    BY <1>0, <2>2, NextSlotValue, SlotsAssumption DEF Index
  <2>8. Exclusive' /\ (\A v \in Writers : WriterInv(v)')
    BY <2>1, <2>7 DEF Exclusive, WriterInv, NextSlot
  <2>9. QueuedInv'
    BY <2>3 DEF QueuedInv
  <2> QED
    BY <2>5, <2>6, <2>8, <2>9
<1> QED
  BY <1>1, <1>2, <1>3 DEF DequeueStep

LEMMA StepIInv ==
  ASSUME Cooperative, IInv, [Next]_vars
  PROVE  IInv'
<1>1. CASE UNCHANGED vars
  <2>1. UNCHANGED <<head, tail, lo, hi, len, wpc, pkt, next, rc, rpc, buf, out, outRc>>
    BY <1>1 DEF vars, ring, writerVars, readerVars
  <2>2. TypeOK'
    BY <2>1 DEF IInv, TypeOK
  <2>3. Exclusive' /\ (\A v \in Writers : WriterInv(v)') /\ ReaderInv'
    BY <2>1 DEF IInv, Exclusive, WriterInv, ReaderInv, Empty, NextSlot
  <2>4. QueuedInv'
    BY <2>1 DEF IInv, QueuedInv, Queue, Count, Position, Slot
  <2> QED
    BY <2>2, <2>3, <2>4 DEF IInv
<1> QED
  BY <1>1, WriterStep, ReaderStep DEF Next

(* The ring of store.c keeps its inductive invariant for every number of   *)
(* slots, writers and packets, if enqueue calls do not overlap.            *)
THEOREM RingInvariant == Cooperative => (Spec => []IInv)
<1> SUFFICES ASSUME Cooperative PROVE Spec => []IInv
  OBVIOUS
<1>1. Init => IInv
  BY InitIInv
<1>2. IInv /\ [Next]_vars => IInv'
  BY StepIInv
<1> QED
  BY <1>1, <1>2, PTL DEF Spec

(* TypeOK of the ring, for every number of slots: head and tail never      *)
(* leave the array (store.c:16) and what dequeue delivers is a packet.     *)
THEOREM TypeCorrect == Cooperative => (Spec => []TypeOK)
<1>1. IInv => TypeOK
  BY DEF IInv
<1> QED
  BY <1>1, RingInvariant, PTL

(* NoSlotRace, for every number of slots: the memcpy of dequeue and the    *)
(* writes of enqueue never touch the same slot, although nothing locks.    *)
THEOREM LockFree == Cooperative => (Spec => []NoSlotRace)
<1>1. IInv => NoSlotRace
  BY DEF IInv, WriterInv, NoSlotRace, Target, ReaderInv, Empty
<1> QED
  BY <1>1, RingInvariant, PTL

-----------------------------------------------------------------------------
(* Initially the queue is empty.                                           *)
LEMMA InitRefines == Init => Fifo!Init
<1> SUFFICES ASSUME Init PROVE Fifo!Init
  OBVIOUS
<1>1. Count = 0
  BY SlotsAssumption DEF Init, Count
<1>2. Queue = << >>
  BY <1>1 DEF Queue
<1> QED
  BY <1>2 DEF Init, Fifo!Init

(* Every step of the ring is a step of the FIFO or leaves it unchanged.    *)
LEMMA StepRefines ==
  ASSUME Cooperative, IInv, [Next]_vars
  PROVE  [Fifo!Next]_(Fifo!vars)
<1> USE DEF IInv
<1>0. /\ head \in Index /\ tail \in Index
      /\ Count \in 0 .. Slots - 1 /\ Len(Queue) = Count
  <2>1. head \in Index /\ tail \in Index
    BY DEF TypeOK
  <2>2. Count \in 0 .. Slots - 1 /\ Count \in Nat
    BY <2>1, CountValue, SlotsAssumption
  <2> QED
    BY <2>1, <2>2 DEF Queue
<1>1. ASSUME NEW w \in Writers, NEW p \in Packets, EnqueueTooLarge(w, p)
      PROVE  Fifo!EnqueueTooLarge(w, p)
  BY <1>1 DEF EnqueueTooLarge, Fifo!EnqueueTooLarge, ring, readerVars,
              Queue, Count, Position, Slot
<1>2. ASSUME NEW w \in Writers, NEW p \in Packets, EnqueueFull(w, p)
      PROVE  Fifo!EnqueueFull(w, p)
  <2>1. Count = Slots - 1
    BY <1>0, <1>2, FullCount DEF EnqueueFull
  <2>2. Queue' = Queue
    BY <1>2 DEF EnqueueFull, ring, Queue, Count, Position, Slot
  <2> QED
    BY <1>0, <1>2, <2>1, <2>2 DEF EnqueueFull, Fifo!EnqueueFull, readerVars
<1>3. ASSUME NEW w \in Writers, NEW p \in Packets, EnqueueStart(w, p)
      PROVE  UNCHANGED Fifo!vars
  BY <1>3 DEF EnqueueStart, Fifo!vars, ring, readerVars, Queue, Count, Position, Slot
<1>4. ASSUME NEW w \in Writers, CopyLo(w) \/ CopyHi(w) \/ SetLen(w)
      PROVE  UNCHANGED Fifo!vars
  <2>1. \A i \in Index : i # head => Slot(i)' = Slot(i)
    BY <1>0, <1>4 DEF TypeOK, WriterInv, CopyLo, CopyHi, SetLen, Slot
  <2>2. Queue' = Queue
    BY <1>0, <1>4, <2>1, QueueSame DEF CopyLo, CopyHi, SetLen
  <2> QED
    BY <1>4, <2>2 DEF CopyLo, CopyHi, SetLen, Fifo!vars, readerVars
<1>5. ASSUME NEW w \in Writers, LoadHead(w)
      PROVE  UNCHANGED Fifo!vars
  BY <1>5 DEF LoadHead, Fifo!vars, ring, readerVars, Queue, Count, Position, Slot
<1>6. ASSUME NEW w \in Writers, StoreHead(w)
      PROVE  \E p \in Packets : Fifo!Enqueue(w, p)
  <2>1. /\ WriterInv(w) /\ wpc[w] = "storeHead"
        /\ head' = next[w] /\ UNCHANGED <<tail, lo, hi, len>>
    BY <1>6 DEF StoreHead
  <2>2. /\ pkt[w] \in Packets /\ pkt[w].len <= MaxLen
        /\ head' = NextSlot(head) /\ NextSlot(head) # tail
    BY <2>1 DEF WriterInv
  <2>3. pkt[w] \in [lo : Bytes, hi : Bytes, len : Nat]
    BY <2>2, PacketAssumption
  <2>4. Slot(head) = pkt[w]
    BY <2>1, <2>3 DEF WriterInv, Slot
  <2>5. Count < Slots - 1 /\ Queue' = Append(Queue, pkt[w])
    BY <1>0, <2>1, <2>2, <2>4, QueueAppended
  <2>6. Fifo!Enqueue(w, pkt[w])
    BY <1>0, <1>6, <2>2, <2>5 DEF StoreHead, readerVars, Fifo!Enqueue
  <2> QED
    BY <2>2, <2>6
<1>7. ASSUME DequeueEmpty
      PROVE  Fifo!DequeueEmpty
  <2>1. Queue = << >>
    <3>1. Count = 0
      BY <1>0, <1>7, CountValue, SlotsAssumption DEF DequeueEmpty, Empty, Index
    <3> QED
      BY <3>1 DEF Queue
  <2> QED
    BY <1>7, <2>1 DEF DequeueEmpty, Fifo!DequeueEmpty, ring, writerVars,
                      Queue, Count, Position, Slot
<1>8. ~Empty => Queue # << >> /\ Head(Queue) = Slot(tail) /\ Queue[1] = Slot(tail)
  <2> SUFFICES ASSUME ~Empty
               PROVE  Queue # << >> /\ Head(Queue) = Slot(tail) /\ Queue[1] = Slot(tail)
    OBVIOUS
  <2>1. Count > 0
    BY <1>0, CountValue, SlotsAssumption DEF Empty, Index
  <2>2. 1 \in 1 .. Slots /\ Position(1) = tail
    <3>1. 1 \in 1 .. Slots
      BY SlotsAssumption
    <3> QED
      BY <1>0, <3>1, PositionValue, SlotsAssumption DEF Index
  <2> QED
    BY <1>0, <2>1, <2>2 DEF Queue
<1>9. ASSUME DequeueTooLarge
      PROVE  Fifo!DequeueTooLarge
  <2>1. Queue # << >> /\ Head(Queue).len > BufLen
    BY <1>0, <1>8, <1>9, LengthAssumption DEF DequeueTooLarge, Slot, TypeOK
  <2>2. Queue' = Queue
    BY <1>9 DEF DequeueTooLarge, ring, Queue, Count, Position, Slot
  <2> QED
    BY <1>9, <2>1, <2>2 DEF DequeueTooLarge, Fifo!DequeueTooLarge, writerVars
<1>10. ASSUME DequeueStart \/ ReadLo \/ ReadHi
       PROVE  UNCHANGED Fifo!vars
  BY <1>10 DEF DequeueStart, ReadLo, ReadHi, Fifo!vars, ring, writerVars,
               Queue, Count, Position, Slot
<1>11. ASSUME StoreTail
       PROVE  Fifo!Dequeue
  <2>1. /\ ~Empty /\ buf = Slot(tail) /\ buf.len <= BufLen
        /\ tail' = NextSlot(tail) /\ UNCHANGED <<head, lo, hi, len>>
    BY <1>11 DEF StoreTail, ReaderInv, Slot
  <2>2. Queue' = Tail(Queue) /\ Queue # << >> /\ Head(Queue) = buf
    BY <1>0, <2>1, QueueRemoved DEF Empty
  <2> QED
    BY <1>11, <2>1, <2>2 DEF StoreTail, Fifo!Dequeue, writerVars
<1>12. CASE UNCHANGED vars
  BY <1>12 DEF vars, ring, writerVars, readerVars, Fifo!vars,
               Queue, Count, Position, Slot
<1> QED
  BY <1>1, <1>2, <1>3, <1>4, <1>5, <1>6, <1>7, <1>9, <1>10, <1>11, <1>12
     DEF Next, EnqueueCall, EnqueueStep, DequeueStep, Fifo!Next

(* RefinesFifo, for every number of slots: the ring of store.c is a FIFO   *)
(* of Slots - 1 whole packets for any number of writers, as long as their  *)
(* enqueue calls do not overlap; the reader may run at any point.          *)
THEOREM RingIsFifo == Cooperative => (Spec => RefinesFifo)
<1> SUFFICES ASSUME Cooperative PROVE Spec => RefinesFifo
  OBVIOUS
<1>1. Init => Fifo!Init
  BY InitRefines
<1>2. IInv /\ [Next]_vars => [Fifo!Next]_(Fifo!vars)
  BY StepRefines
<1>3. Spec => []IInv
  BY RingInvariant
<1> QED
  BY <1>1, <1>2, <1>3, PTL DEF Spec, RefinesFifo, Fifo!Spec

=============================================================================
