------------------------------ MODULE TmStore -------------------------------
(***************************************************************************)
(* The telemetry store of src/tm/store.c: a ring of Slots packets with a   *)
(* head index written by the enqueuing tasks and a tail index written by   *)
(* the dequeuing task, and no lock.                                        *)
(*                                                                         *)
(* obsw_tm_store_enqueue and _dequeue are not atomic.  Each is broken into *)
(* the accesses it makes to the shared ring: the two volatile reads of the *)
(* guard, the memcpy (two halves, so that a packet can be torn, into the   *)
(* slot it found at its start), the length, and the load and the store of  *)
(* the index (head is volatile: each statement reads s->head again).       *)
(*                                                                         *)
(* Which writer may run in the middle of another writer's call is decided  *)
(* by the scheduler: TimeSlicing is configUSE_TIME_SLICING and Prio the    *)
(* task priorities.  The reader is left free to run at every step, which   *)
(* covers the FreeRTOS build (TMTC preempts everybody) and more.           *)
(***************************************************************************)
EXTENDS Integers, Sequences

CONSTANTS
  Slots,        \* OBSW_TM_STORE_SLOTS
  MaxLen,       \* OBSW_TM_MAX_PACKET_LEN
  BufLen,       \* sizeof the buffer the reader passes to dequeue
  Bytes,        \* contents of one half of a packet
  Zero,         \* contents of static storage at reset
  Packets,      \* the packets the writers enqueue
  NoPacket,     \* the reader's buffer before the first delivery
  Writers,      \* tasks that call obsw_tm_store_enqueue
  Prio,         \* their FreeRTOS priorities
  TimeSlicing   \* configUSE_TIME_SLICING

Index == 0 .. Slots - 1

ASSUME SlotsAssumption == Slots \in Nat \ {0, 1}
ASSUME LengthAssumption == MaxLen \in Nat /\ BufLen \in Nat
ASSUME PacketAssumption ==
  /\ Zero \in Bytes
  /\ Packets \subseteq [lo : Bytes, hi : Bytes, len : Nat]
ASSUME SchedulerAssumption ==
  /\ Prio \in [Writers -> Nat]
  /\ TimeSlicing \in BOOLEAN

VARIABLES
  head,     \* next slot to write
  tail,     \* next slot to read
  lo,       \* first half of each slot's data
  hi,       \* second half of each slot's data
  len,      \* length field of each slot
  wpc,      \* where each writer is in obsw_tm_store_enqueue
  pkt,      \* the packet each writer is enqueuing
  next,     \* the index each writer holds: the destination of its memcpy,
            \* then the value it computed for s->head
  rc,       \* what each writer's last call returned
  rpc,      \* where the reader is in obsw_tm_store_dequeue
  buf,      \* what the reader has copied so far
  out,      \* the last packet dequeue handed to its caller
  outRc     \* what the reader's last call returned

ring == <<head, tail, lo, hi, len>>
writerVars == <<wpc, pkt, next, rc>>
readerVars == <<rpc, buf, out, outRc>>
vars == <<ring, writerVars, readerVars>>

-----------------------------------------------------------------------------
(* Seeded faults.  Each Bad definition is a plausible slip in the operator *)
(* it stands in for; no specification uses them.  They show that a         *)
(* property can fail.                                                      *)

BadNextSlot(i) == i + 1

BadEnqueueStart(w, p) ==       \* the full test is missing
  /\ wpc[w] = "idle"
  /\ p.len <= MaxLen
  /\ pkt' = [pkt EXCEPT ![w] = p]
  /\ wpc' = [wpc EXCEPT ![w] = "copyLo"]
  /\ UNCHANGED <<ring, readerVars, next, rc>>

BadDequeueTooLarge ==          \* discards the packet it cannot return
  /\ rpc = "idle"
  /\ head # tail
  /\ BufLen < len[tail]
  /\ tail' = (tail + 1) % Slots
  /\ outRc' = "TOO_LARGE"
  /\ UNCHANGED <<head, lo, hi, len, writerVars, rpc, buf, out>>

BadStoreTail ==                \* tail is not advanced
  /\ rpc = "storeTail"
  /\ out' = buf
  /\ outRc' = "OK"
  /\ buf' = NoPacket
  /\ rpc' = "idle"
  /\ UNCHANGED <<ring, writerVars>>
-----------------------------------------------------------------------------
(* next_slot: the mask is the remainder because Slots is a power of two.   *)
NextSlot(i) == (i + 1) % Slots

(* obsw_tm_store_count: size_t subtraction under the mask.                 *)
Count == (head - tail) % Slots

(* obsw_tm_store_empty                                                     *)
Empty == head = tail

Slot(i) == [lo |-> lo[i], hi |-> hi[i], len |-> len[i]]

(* The tasks in the middle of an enqueue decide whether w may run now: a   *)
(* lower priority always yields, an equal one only at a time-slice tick.   *)
Scheduled(w) ==
  \A v \in Writers \ {w} :
    wpc[v] # "idle" =>
      \/ Prio[w] > Prio[v]
      \/ Prio[w] = Prio[v] /\ TimeSlicing

Init ==
  /\ head = 0
  /\ tail = 0
  /\ lo = [i \in Index |-> Zero]
  /\ hi = [i \in Index |-> Zero]
  /\ len = [i \in Index |-> 0]
  /\ wpc = [w \in Writers |-> "idle"]
  /\ pkt = [w \in Writers |-> NoPacket]
  /\ next = [w \in Writers |-> 0]
  /\ rc = [w \in Writers |-> "NONE"]
  /\ rpc = "idle"
  /\ buf = NoPacket
  /\ out = NoPacket
  /\ outRc = "NONE"
-----------------------------------------------------------------------------
(* obsw_tm_store_enqueue                                                   *)

EnqueueTooLarge(w, p) ==
  /\ Scheduled(w)
  /\ wpc[w] = "idle"
  /\ p.len > MaxLen
  /\ rc' = [rc EXCEPT ![w] = "TOO_LARGE"]
  /\ UNCHANGED <<ring, readerVars, wpc, pkt, next>>

EnqueueFull(w, p) ==
  /\ Scheduled(w)
  /\ wpc[w] = "idle"
  /\ p.len <= MaxLen
  /\ NextSlot(head) = tail
  /\ rc' = [rc EXCEPT ![w] = "FULL"]
  /\ UNCHANGED <<ring, readerVars, wpc, pkt, next>>

(* Both checks passed: the packet will be accepted.                        *)
EnqueueStart(w, p) ==
  /\ Scheduled(w)
  /\ wpc[w] = "idle"
  /\ p.len <= MaxLen
  /\ NextSlot(head) # tail
  /\ pkt' = [pkt EXCEPT ![w] = p]
  /\ wpc' = [wpc EXCEPT ![w] = "copyLo"]
  /\ UNCHANGED <<ring, readerVars, next, rc>>

CopyLo(w) ==
  /\ Scheduled(w)
  /\ wpc[w] = "copyLo"
  /\ lo' = [lo EXCEPT ![head] = pkt[w].lo]
  /\ next' = [next EXCEPT ![w] = head]
  /\ wpc' = [wpc EXCEPT ![w] = "copyHi"]
  /\ UNCHANGED <<head, tail, hi, len, pkt, rc, readerVars>>

CopyHi(w) ==
  /\ Scheduled(w)
  /\ wpc[w] = "copyHi"
  /\ hi' = [hi EXCEPT ![next[w]] = pkt[w].hi]
  /\ wpc' = [wpc EXCEPT ![w] = "setLen"]
  /\ UNCHANGED <<head, tail, lo, len, pkt, next, rc, readerVars>>

SetLen(w) ==
  /\ Scheduled(w)
  /\ wpc[w] = "setLen"
  /\ len' = [len EXCEPT ![head] = pkt[w].len]
  /\ wpc' = [wpc EXCEPT ![w] = "loadHead"]
  /\ UNCHANGED <<head, tail, lo, hi, pkt, next, rc, readerVars>>

LoadHead(w) ==
  /\ Scheduled(w)
  /\ wpc[w] = "loadHead"
  /\ next' = [next EXCEPT ![w] = NextSlot(head)]
  /\ wpc' = [wpc EXCEPT ![w] = "storeHead"]
  /\ UNCHANGED <<ring, pkt, rc, readerVars>>

(* Publishes the slot and returns OBSW_TM_OK; the locals go out of scope.  *)
StoreHead(w) ==
  /\ Scheduled(w)
  /\ wpc[w] = "storeHead"
  /\ head' = next[w]
  /\ rc' = [rc EXCEPT ![w] = "OK"]
  /\ wpc' = [wpc EXCEPT ![w] = "idle"]
  /\ pkt' = [pkt EXCEPT ![w] = NoPacket]
  /\ next' = [next EXCEPT ![w] = 0]
  /\ UNCHANGED <<tail, lo, hi, len, readerVars>>
-----------------------------------------------------------------------------
(* obsw_tm_store_dequeue, called in a loop by flush_tm                     *)

DequeueEmpty ==
  /\ rpc = "idle"
  /\ Empty
  /\ outRc' = "EMPTY"
  /\ UNCHANGED <<ring, writerVars, rpc, buf, out>>

(* The packet stays in the ring: it heads the line at every later call.    *)
DequeueTooLarge ==
  /\ rpc = "idle"
  /\ ~Empty
  /\ BufLen < len[tail]
  /\ outRc' = "TOO_LARGE"
  /\ UNCHANGED <<ring, writerVars, rpc, buf, out>>

(* Reads the length; the buffer's old bytes are about to be overwritten.   *)
DequeueStart ==
  /\ rpc = "idle"
  /\ ~Empty
  /\ len[tail] <= BufLen
  /\ buf' = [lo |-> Zero, hi |-> Zero, len |-> len[tail]]
  /\ rpc' = "readLo"
  /\ UNCHANGED <<ring, writerVars, out, outRc>>

ReadLo ==
  /\ rpc = "readLo"
  /\ buf' = [buf EXCEPT !.lo = lo[tail]]
  /\ rpc' = "readHi"
  /\ UNCHANGED <<ring, writerVars, out, outRc>>

ReadHi ==
  /\ rpc = "readHi"
  /\ buf' = [buf EXCEPT !.hi = hi[tail]]
  /\ rpc' = "storeTail"
  /\ UNCHANGED <<ring, writerVars, out, outRc>>

(* Frees the slot and hands the packet to flush_tm.                        *)
StoreTail ==
  /\ rpc = "storeTail"
  /\ tail' = NextSlot(tail)
  /\ out' = buf
  /\ outRc' = "OK"
  /\ buf' = NoPacket
  /\ rpc' = "idle"
  /\ UNCHANGED <<head, lo, hi, len, writerVars>>
-----------------------------------------------------------------------------
EnqueueCall(w) ==
  \E p \in Packets :
    EnqueueTooLarge(w, p) \/ EnqueueFull(w, p) \/ EnqueueStart(w, p)

EnqueueStep(w) ==
  CopyLo(w) \/ CopyHi(w) \/ SetLen(w) \/ LoadHead(w) \/ StoreHead(w)

DequeueStep ==
  DequeueStart \/ ReadLo \/ ReadHi \/ StoreTail

Next ==
  \/ \E w \in Writers : EnqueueCall(w) \/ EnqueueStep(w)
  \/ DequeueEmpty
  \/ DequeueTooLarge
  \/ DequeueStep

Spec == Init /\ [][Next]_vars

(* flush_tm runs in the task of the highest priority, whenever a byte or a *)
(* notification wakes it and at the latest a millisecond after it went to  *)
(* sleep, and loops until dequeue fails, so a call that can proceed does.  *)
(* Only a frame that is never completed keeps the task from coming back to *)
(* it (the watchdog then resets the board: Uplink).                        *)
FairSpec == Spec /\ WF_vars(DequeueStep)
-----------------------------------------------------------------------------
(* Properties                                                              *)

(* The type invariant: indices stay inside the ring and every variable     *)
(* has its shape.                                                          *)
TypeOK ==
  /\ head \in Index /\ tail \in Index
  /\ lo \in [Index -> Bytes] /\ hi \in [Index -> Bytes]
  /\ len \in [Index -> Nat]
  /\ wpc \in [Writers -> {"idle", "copyLo", "copyHi", "setLen",
                          "loadHead", "storeHead"}]
  /\ pkt \in [Writers -> Packets \cup {NoPacket}]
  /\ next \in [Writers -> Index]
  /\ rc \in [Writers -> {"NONE", "OK", "FULL", "TOO_LARGE"}]
  /\ rpc \in {"idle", "readLo", "readHi", "storeTail"}
  /\ buf \in [lo : Bytes, hi : Bytes, len : Nat] \cup {NoPacket}
  /\ out \in Packets \cup {NoPacket}
  /\ outRc \in {"NONE", "OK", "EMPTY", "TOO_LARGE"}

(* The slot a writer is about to write                                     *)
Target(w) == IF wpc[w] = "copyHi" THEN next[w] ELSE head

(* No slot is written while it is being read: whenever a dequeue is copying *)
(* out slot tail (memcpy of store.c:52) and an enqueue is filling a slot    *)
(* (store.c:31-32), the two slots differ, although nothing locks the ring.  *)
NoSlotRace ==
  \A w \in Writers :
    (rpc # "idle" /\ wpc[w] \in {"copyLo", "copyHi", "setLen"})
      => Target(w) # tail

(* The packets in the ring, oldest first: the k-th is in slot Position(k). *)
Position(k) == (tail + k - 1) % Slots
Queue == [k \in 1 .. Count |-> Slot(Position(k))]

Fifo == INSTANCE TmFifo WITH Capacity <- Slots - 1, queue <- Queue

(* The ring implements the bounded FIFO of TmFifo: an enqueue that returns *)
(* OK appends exactly the caller's packet, FULL is returned only when      *)
(* Slots - 1 packets wait, and a dequeue delivers the oldest packet whole. *)
RefinesFifo == Fifo!Spec

(* A packet that fits the reader's buffer does not stay at the tail: the   *)
(* dequeue loop of flush_tm delivers it whatever the writers do meanwhile. *)
Drains ==
  \A i \in Index :
    (tail = i /\ ~Empty /\ len[i] <= BufLen) ~> (tail # i)

-----------------------------------------------------------------------------
(* The inductive invariant behind the theorems of TmStoreProofs            *)

(* The scheduler the architecture document describes: equal priorities     *)
(* and no time slice, so an enqueue runs to its end before the next one.   *)
Cooperative ==
  /\ ~TimeSlicing
  /\ \A v, w \in Writers : Prio[v] = Prio[w]

Exclusive ==
  \A v, w \in Writers : wpc[v] # "idle" /\ wpc[w] # "idle" => v = w

(* A writer past its checks owns slot head, which is not in the queue and  *)
(* stays free because tail only moves away from it.                        *)
WriterInv(w) ==
  wpc[w] # "idle" =>
    /\ pkt[w] \in Packets /\ pkt[w].len <= MaxLen
    /\ NextSlot(head) # tail
    /\ wpc[w] # "copyLo" => lo[head] = pkt[w].lo
    /\ wpc[w] = "copyHi" => next[w] = head
    /\ wpc[w] \notin {"copyLo", "copyHi"} => hi[head] = pkt[w].hi
    /\ wpc[w] \in {"loadHead", "storeHead"} => len[head] = pkt[w].len
    /\ wpc[w] = "storeHead" => next[w] = NextSlot(head)

(* A reader past its checks has copied from slot tail, which is queued.    *)
ReaderInv ==
  rpc # "idle" =>
    /\ ~Empty
    /\ buf \in [lo : Bytes, hi : Bytes, len : Nat]
    /\ buf.len = len[tail] /\ buf.len <= BufLen
    /\ rpc # "readLo" => buf.lo = lo[tail]
    /\ rpc = "storeTail" => buf.hi = hi[tail]

QueuedInv == \A k \in 1 .. Count : Queue[k] \in Packets

IInv ==
  /\ TypeOK
  /\ Exclusive
  /\ \A w \in Writers : WriterInv(w)
  /\ ReaderInv
  /\ QueuedInv

=============================================================================
