------------------------------- MODULE TmFifo -------------------------------
(***************************************************************************)
(* What the telemetry store promises to its callers: a bounded FIFO of     *)
(* whole packets.  A call either appends the caller's packet, or changes   *)
(* nothing and says why; the reader receives exactly the accepted packets, *)
(* whole, once each and in the order in which they were accepted.          *)
(*                                                                         *)
(* TmStore (the ring of src/tm/store.c) is shown to implement this module. *)
(***************************************************************************)
EXTENDS Naturals, Sequences

CONSTANTS
  Writers,    \* the tasks that enqueue
  Packets,    \* the packets they may enqueue: records with a length field len
  Capacity,   \* how many packets the store holds
  MaxLen,     \* the longest packet the store accepts
  BufLen,     \* the size of the reader's buffer
  NoPacket    \* the reader's buffer before the first delivery

VARIABLES
  queue,      \* accepted and not yet delivered, oldest first
  rc,         \* return code of each writer's last call
  out,        \* the last packet delivered to the reader
  outRc       \* return code of the reader's last call

vars == <<queue, rc, out, outRc>>

Init ==
  /\ queue = << >>
  /\ rc = [w \in Writers |-> "NONE"]
  /\ out = NoPacket
  /\ outRc = "NONE"

Enqueue(w, p) ==
  /\ p.len <= MaxLen
  /\ Len(queue) < Capacity
  /\ queue' = Append(queue, p)
  /\ rc' = [rc EXCEPT ![w] = "OK"]
  /\ UNCHANGED <<out, outRc>>

EnqueueFull(w, p) ==
  /\ p.len <= MaxLen
  /\ Len(queue) = Capacity
  /\ rc' = [rc EXCEPT ![w] = "FULL"]
  /\ UNCHANGED <<queue, out, outRc>>

EnqueueTooLarge(w, p) ==
  /\ p.len > MaxLen
  /\ rc' = [rc EXCEPT ![w] = "TOO_LARGE"]
  /\ UNCHANGED <<queue, out, outRc>>

Dequeue ==
  /\ queue # << >>
  /\ Head(queue).len <= BufLen
  /\ out' = Head(queue)
  /\ queue' = Tail(queue)
  /\ outRc' = "OK"
  /\ UNCHANGED rc

DequeueEmpty ==
  /\ queue = << >>
  /\ outRc' = "EMPTY"
  /\ UNCHANGED <<queue, rc, out>>

DequeueTooLarge ==
  /\ queue # << >>
  /\ Head(queue).len > BufLen
  /\ outRc' = "TOO_LARGE"
  /\ UNCHANGED <<queue, rc, out>>

Next ==
  \/ \E w \in Writers, p \in Packets :
       Enqueue(w, p) \/ EnqueueFull(w, p) \/ EnqueueTooLarge(w, p)
  \/ Dequeue
  \/ DequeueEmpty
  \/ DequeueTooLarge

Spec == Init /\ [][Next]_vars

=============================================================================
