---------------------------- MODULE UplinkProofs ----------------------------
(***************************************************************************)
(* Theorems about the uplink of the FreeRTOS build, for every ground, size *)
(* of the FIFO, the queue, the store and a frame, and every number of      *)
(* frames.                                                                 *)
(***************************************************************************)
EXTENDS Uplink, TLAPS

LEMMA Bounds ==
  /\ MaxFrames \in Nat /\ MaxLen \in Nat /\ FifoDepth \in Nat /\ NapTicks \in Nat
  /\ QueueDepth \in Nat /\ StoreCap \in Nat /\ PktTicks \in Nat /\ Patience \in Nat
  /\ MaxLen > 0 /\ FifoDepth > 0 /\ QueueDepth > 0 /\ Patience > 0
  /\ Replies \subseteq Nat /\ NapTicks + 2 <= FifoDepth
BY UplinkAssumption

(* Sequences                                                               *)
LEMMA TailShape ==
  ASSUME NEW S, NEW s \in Seq(S), s # << >>
  PROVE  /\ Tail(s) \in Seq(S) /\ Len(Tail(s)) = Len(s) - 1 /\ Len(s) \in Nat
         /\ Head(s) = s[1] /\ Head(s) \in S /\ Len(s) >= 1
         /\ \A k \in 1 .. Len(s) - 1 : Tail(s)[k] = s[k + 1]
OBVIOUS

LEMMA AppendShape ==
  ASSUME NEW S, NEW s \in Seq(S), NEW v \in S
  PROVE  /\ Append(s, v) \in Seq(S) /\ Len(Append(s, v)) = Len(s) + 1 /\ Len(s) \in Nat
         /\ \A k \in 1 .. Len(s) : Append(s, v)[k] = s[k]
         /\ Append(s, v)[Len(s) + 1] = v
OBVIOUS

LEMMA ConcatShape ==
  ASSUME NEW S, NEW s \in Seq(S), NEW t \in Seq(S)
  PROVE  /\ s \o t \in Seq(S) /\ Len(s \o t) = Len(s) + Len(t)
         /\ Len(s) \in Nat /\ Len(t) \in Nat
         /\ DOMAIN (s \o t) = 1 .. Len(s) + Len(t)
         /\ \A k \in 1 .. Len(s) : (s \o t)[k] = s[k]
         /\ \A k \in 1 .. Len(t) : (s \o t)[Len(s) + k] = t[k]
OBVIOUS

(* The bytes of a frame                                                    *)
LEMMA FrameBytes ==
  ASSUME NEW type \in Nat, NEW len \in Nat, NEW n \in Nat
  PROVE  LET b == <<type, len>> \o [i \in 1 .. len |-> n] IN
           /\ b \in Seq(Nat) /\ Len(b) = 2 + len /\ b[1] = type /\ b[2] = len
           /\ \A k \in 3 .. 2 + len : b[k] = n
<1> DEFINE h == <<type, len>>
<1> DEFINE d == [i \in 1 .. len |-> n]
<1>1. h \in Seq(Nat) /\ Len(h) = 2 /\ h[1] = type /\ h[2] = len
  OBVIOUS
<1>2. d \in Seq(Nat) /\ Len(d) = len /\ \A k \in 1 .. len : d[k] = n
  <2>1. d \in [1 .. len -> Nat]
    OBVIOUS
  <2> QED
    BY <2>1
<1> HIDE DEF h, d
<1>3. /\ h \o d \in Seq(Nat) /\ Len(h \o d) = 2 + len
      /\ \A k \in 1 .. 2 : (h \o d)[k] = h[k]
      /\ \A k \in 1 .. len : (h \o d)[2 + k] = d[k]
  <2>1. /\ h \o d \in Seq(Nat) /\ Len(h \o d) = Len(h) + Len(d)
        /\ \A k \in 1 .. Len(h) : (h \o d)[k] = h[k]
        /\ \A k \in 1 .. Len(d) : (h \o d)[Len(h) + k] = d[k]
    <3>1. h \in Seq(Nat) /\ d \in Seq(Nat)
      BY <1>1, <1>2
    <3> QED
      BY <3>1
  <2> QED
    BY <1>1, <1>2, <2>1
<1>4. ASSUME NEW k \in 3 .. 2 + len PROVE (h \o d)[k] = n
  <2>1. k - 2 \in 1 .. len /\ 2 + (k - 2) = k
    OBVIOUS
  <2> QED
    BY <1>2, <1>3, <2>1
<1> QED
  BY <1>1, <1>3, <1>4 DEF h, d
-----------------------------------------------------------------------------
(* Types                                                                   *)

TypedItem == TypeOK /\ ItemBounded

LEMMA InitTyped == Init => TypedItem
<1> SUFFICES ASSUME Init PROVE TypedItem
  OBVIOUS
<1>1. waits \in BOOLEAN /\ rxneie \in BOOLEAN /\ late \in BOOLEAN /\ busy \in BOOLEAN
      /\ crossed \in BOOLEAN
  BY Zenon DEF Init, LineInit, UartInit
<1> QED
  BY <1>1, Bounds DEF Init, LineInit, UartInit, TmtcInit, PusInit, NoItem, TypedItem, TypeOK,
                      ItemBounded

LEMMA SendTyped ==
  ASSUME TypedItem, NEW type \in 1 .. 2, NEW len \in 0 .. MaxLen + 1, SendFrame(type, len)
  PROVE  TypedItem'
<1> DEFINE n == Len(sent) + 1
<1>1. n \in Nat /\ type \in Nat /\ len \in Nat
  BY Bounds DEF TypedItem, TypeOK
<1>2. line' \in Seq(Nat)
  BY <1>1, FrameBytes DEF SendFrame
<1>3. sent' \in Seq(Nat)
  BY <1>1 DEF SendFrame, TypedItem, TypeOK
<1>4. waits' \in BOOLEAN
  BY Zenon DEF SendFrame
<1>5. frames' \in 0 .. MaxFrames /\ harm' \subseteq {"lost", "dropped", "reset", "unsynced"}
  <2>1. /\ frames \in 0 .. MaxFrames /\ frames < MaxFrames /\ frames' = frames + 1
        /\ harm \subseteq {"lost", "dropped", "reset", "unsynced"}
        /\ harm' = harm \/ harm' = harm \cup {"unsynced"}
    BY DEF SendFrame, TypedItem, TypeOK
  <2>2. frames' \in 0 .. MaxFrames
    BY <2>1, Bounds
  <2>3. harm' \subseteq {"lost", "dropped", "reset", "unsynced"}
    BY <2>1
  <2> QED
    BY <2>2, <2>3
<1>6. UNCHANGED <<ground, fifo, rxneie, pc, item, nap, tx, tmq, tcq, cur, handled, starved,
                  late, busy, crossed>>
  BY DEF SendFrame, pusVars
<1> QED
  BY <1>2, <1>3, <1>4, <1>5, <1>6 DEF TypedItem, TypeOK, ItemBounded

LEMMA TickTyped ==
  ASSUME TypedItem, NEW byte \in BOOLEAN, Tick(byte)
  PROVE  TypedItem'
<1>1. UNCHANGED <<ground, sent, frames, waits, rxneie, pc, item, tmq, tcq, cur, handled, crossed>>
  BY DEF Tick, pusVars
<1>2. late' \in BOOLEAN /\ busy' \in BOOLEAN
  BY Zenon DEF Tick
<1>3. /\ line' \in Seq(Nat) /\ fifo' \in Seq(Nat) /\ Len(fifo') <= FifoDepth
      /\ harm' \subseteq {"lost", "dropped", "reset", "unsynced"}
  <2>1. CASE byte = TRUE
    <3>1. line # << >> /\ line' = Tail(line)
          /\ fifo' = (IF Full(fifo) THEN fifo ELSE Append(fifo, Head(line)))
          /\ harm' = IF Full(fifo) THEN harm \cup {"lost"} ELSE harm
      BY <2>1 DEF Tick
    <3>2. Tail(line) \in Seq(Nat) /\ Head(line) \in Nat
      BY <3>1, TailShape DEF TypedItem, TypeOK
    <3>3. CASE Full(fifo)
      BY <3>1, <3>2, <3>3 DEF TypedItem, TypeOK
    <3>4. CASE ~Full(fifo)
      <4>1. Append(fifo, Head(line)) \in Seq(Nat) /\ Len(Append(fifo, Head(line))) <= FifoDepth
        BY <3>2, <3>4, AppendShape, Bounds DEF Full, TypedItem, TypeOK
      <4> QED
        BY <3>1, <3>2, <3>4, <4>1 DEF TypedItem, TypeOK
    <3> QED
      BY <3>3, <3>4
  <2>2. CASE byte = FALSE
    BY <2>2 DEF Tick, TypedItem, TypeOK
  <2> QED
    BY <2>1, <2>2
<1>4. tx' \in Nat /\ nap' \in 0 .. NapTicks /\ starved' \in 0 .. Patience
  BY Bounds DEF Tick, TypedItem, TypeOK
<1> QED
  BY <1>1, <1>2, <1>3, <1>4 DEF TypedItem, TypeOK, ItemBounded

LEMMA IsrTyped == ASSUME TypedItem, Isr PROVE TypedItem'
<1>1. rxneie' \in BOOLEAN
  BY Zenon DEF Isr
<1>2. /\ UNCHANGED <<ground, line, sent, frames, waits, fifo, item, nap, tx, tmq, tcq, cur,
                     handled, starved, late, busy, crossed, harm>>
      /\ pc' = pc \/ (pc = "block" /\ pc' = "flushIdle")
  BY DEF Isr, groundVars, pusVars
<1>3. TypeOK'
  BY <1>1, <1>2 DEF TypedItem, TypeOK
<1>4. ItemBounded'
  BY <1>2 DEF TypedItem, ItemBounded
<1> QED
  BY <1>3, <1>4 DEF TypedItem

LEMMA TmtcTyped == ASSUME TypedItem, Tmtc PROVE TypedItem'
<1>1. CASE Poll \/ Take \/ NapEnds
  <2>1. /\ UNCHANGED <<ground, line, sent, frames, waits, fifo, rxneie, item, tx, tmq, tcq, cur,
                       handled, starved, late, busy, crossed, harm>>
        /\ nap' = nap \/ nap' = NapTicks
        /\ pc \in {"poll", "take", "block"} /\ pc' \in {"arm", "type", "block", "flushIdle"}
    BY <1>1 DEF Poll, Take, NapEnds, groundVars, pusVars
  <2>2. nap' \in 0 .. NapTicks
    BY <2>1, Bounds, SMTT(30) DEF TypedItem, TypeOK
  <2>3. TypeOK'
    BY <2>1, <2>2 DEF TypedItem, TypeOK
  <2>4. ItemBounded'
    BY <2>1 DEF TypedItem, ItemBounded
  <2> QED
    BY <2>3, <2>4 DEF TypedItem
<1>2. CASE Arm
  <2>1. rxneie' \in BOOLEAN
    BY <1>2, Zenon DEF Arm
  <2>2. /\ UNCHANGED <<ground, line, sent, frames, waits, fifo, item, nap, tx, tmq, tcq, cur,
                       handled, starved, late, busy, crossed, harm>>
        /\ pc = "arm" /\ pc' = "take"
    BY <1>2 DEF Arm, groundVars, pusVars
  <2> QED
    <3>1. TypeOK'
      BY <2>1, <2>2 DEF TypedItem, TypeOK
    <3>2. ItemBounded'
      BY <2>2 DEF TypedItem, ItemBounded
    <3> QED
      BY <3>1, <3>2 DEF TypedItem
<1>3. CASE Flush
  <2>1. busy' \in BOOLEAN /\ crossed' \in BOOLEAN
    <3>1. busy \in BOOLEAN /\ crossed \in BOOLEAN
      BY DEF TypedItem, TypeOK
    <3>2. /\ busy' = TRUE \/ busy' = busy
          /\ crossed' = crossed
             \/ crossed' = (crossed \/ (ground = "lockstep" /\ Len(fifo) + Len(line) > FifoDepth))
      BY <1>3, Zenon DEF Flush
    <3> QED
      BY <3>1, <3>2, Zenon
  <2>2. tmq' \in 0 .. StoreCap /\ tx' \in Nat
    <3>1. \/ tmq > 0 /\ tmq' = tmq - 1 /\ tx' = PktTicks
          \/ tmq' = tmq /\ tx' = tx
      BY <1>3, Zenon DEF Flush
    <3>2. tmq \in 0 .. StoreCap /\ tx \in Nat
      BY DEF TypedItem, TypeOK
    <3> QED
      BY <3>1, <3>2, Bounds
  <2>3. /\ UNCHANGED <<ground, line, sent, frames, waits, fifo, rxneie, item, nap, tcq, cur,
                       handled, starved, late, harm>>
        /\ pc \in {"flushIdle", "flushFrame"}
        /\ pc' = pc \/ pc' = IF pc = "flushIdle" THEN "poll" ELSE "eot"
    BY <1>3 DEF Flush, groundVars, pusVars
  <2> QED
    BY <2>1, <2>2, <2>3 DEF TypedItem, TypeOK, ItemBounded
<1>4. CASE EndOfTick
  <2>1. busy' \in BOOLEAN /\ waits' \in BOOLEAN
    BY <1>4, Zenon DEF EndOfTick
  <2>2. NoItem \in [type : Nat, len : Nat, data : Seq(Nat)] /\ NoItem.data = << >>
        /\ Len(NoItem.data) <= MaxLen
    BY Bounds DEF NoItem
  <2>3. pc' = "poll" /\ tx' = 1 /\ item' = NoItem
        /\ UNCHANGED <<ground, line, sent, frames, fifo, rxneie, nap, tmq, tcq, cur, handled,
                       starved, late, crossed, harm>>
    BY <1>4 DEF EndOfTick, groundVars, pusVars
  <2> QED
    BY <2>1, <2>2, <2>3 DEF TypedItem, TypeOK, ItemBounded
<1>5. ASSUME GetC
      PROVE  /\ fifo' \in Seq(Nat) /\ Len(fifo') <= FifoDepth /\ Head(fifo) \in Nat
             /\ busy' \in BOOLEAN
  <2>1. fifo # << >> /\ fifo' = Tail(fifo)
    BY <1>5 DEF GetC
  <2>2. busy' \in BOOLEAN
    BY <1>5, Zenon DEF GetC
  <2> QED
    BY <2>1, <2>2, TailShape, Bounds, SMTT(30) DEF TypedItem, TypeOK
<1>6. CASE Header
  <2>1. /\ UNCHANGED <<ground, line, sent, frames, waits, rxneie, nap, tx, tmq, tcq, cur,
                       handled, starved, late, crossed, harm>>
        /\ GetC /\ pc \in {"type", "len"}
    BY <1>6 DEF Header, groundVars, pusVars
  <2>2. item \in [type : Nat, len : Nat, data : Seq(Nat)] /\ item.data = << >>
        /\ Head(fifo) \in Nat
    BY <1>5, <2>1 DEF TypedItem, TypeOK, ItemBounded
  <2> DEFINE v == Head(fifo)
  <2>3. \/ pc' = "len" /\ item' = [item EXCEPT !.type = v]
        \/ /\ item' = [item EXCEPT !.len = v]
           /\ pc' = IF Fits(v) THEN "data" ELSE "flushFrame"
    BY <1>6 DEF Header
  <2> HIDE DEF v
  <2>4. v \in Nat
    BY <2>2 DEF v
  <2>5. /\ item' \in [type : Nat, len : Nat, data : Seq(Nat)] /\ item'.data = << >>
        /\ pc' = "data" => Fits(item'.len)
        /\ pc' \in {"len", "data", "flushFrame"}
    BY <2>2, <2>3, <2>4
  <2>6. /\ Len(item'.data) = 0 /\ 0 <= MaxLen
        /\ pc' = "data" => 0 < item'.len
    BY <2>5, Bounds DEF Fits
  <2>7. /\ fifo' \in Seq(Nat) /\ Len(fifo') <= FifoDepth /\ busy' \in BOOLEAN
    BY <1>5, <2>1
  <2>8. ItemBounded'
    BY <2>5, <2>6 DEF ItemBounded
  <2>9. TypeOK'
    BY <2>1, <2>5, <2>6, <2>7 DEF TypedItem, TypeOK
  <2> QED
    BY <2>8, <2>9 DEF TypedItem
<1>7. CASE Data
  <2> DEFINE d == Append(item.data, Head(fifo))
  <2>1. /\ UNCHANGED <<ground, line, sent, frames, waits, rxneie, nap, tx, tmq, cur, handled,
                       starved, late, crossed>>
        /\ GetC /\ pc = "data" /\ item' = [item EXCEPT !.data = d]
        /\ \/ Len(item'.data) < item.len /\ UNCHANGED <<pc, tcq, harm>>
           \/ /\ pc' = "flushFrame" /\ (tcq' = tcq \/ tcq' = Queued(tcq, item'.data))
              /\ harm' \subseteq harm \cup {"dropped"}
    BY <1>7 DEF Data, groundVars
  <2>2. /\ item \in [type : Nat, len : Nat, data : Seq(Nat)] /\ Fits(item.len)
        /\ Len(item.data) < item.len /\ Head(fifo) \in Nat
    BY <1>5, <2>1 DEF TypedItem, TypeOK, ItemBounded
  <2>3. d \in Seq(Nat) /\ Len(d) = Len(item.data) + 1 /\ Len(item.data) \in Nat
    BY <2>2, AppendShape
  <2> HIDE DEF d
  <2>4. item' \in [type : Nat, len : Nat, data : Seq(Nat)] /\ item'.data = d
        /\ item'.len = item.len
    BY <2>1, <2>2, <2>3
  <2>5. Len(item'.data) <= MaxLen
    BY <2>2, <2>3, <2>4, Bounds DEF Fits
  <2>6. tcq' \in Seq(Seq(Nat)) /\ Len(tcq') <= QueueDepth
    <3>1. tcq \in Seq(Seq(Nat)) /\ Len(tcq) <= QueueDepth
      BY DEF TypedItem, TypeOK
    <3>2. Queued(tcq, d) \in Seq(Seq(Nat)) /\ Len(Queued(tcq, d)) <= QueueDepth
      BY <2>3, <3>1, AppendShape, Bounds DEF Queued
    <3> QED
      BY <2>1, <2>4, <3>1, <3>2
  <2>7. /\ fifo' \in Seq(Nat) /\ Len(fifo') <= FifoDepth /\ busy' \in BOOLEAN
    BY <1>5, <2>1
  <2>8. harm' \subseteq {"lost", "dropped", "reset", "unsynced"}
    BY <2>1 DEF TypedItem, TypeOK
  <2>9. pc' \in {"data", "flushFrame"} /\ (pc' = "data" => Len(item'.data) < item'.len)
    BY <2>1, <2>4
  <2>10. ItemBounded'
    BY <2>2, <2>4, <2>9 DEF ItemBounded
  <2>11. TypeOK'
    BY <2>1, <2>4, <2>5, <2>6, <2>7, <2>8, <2>9 DEF TypedItem, TypeOK
  <2> QED
    BY <2>10, <2>11 DEF TypedItem
<1> QED
  BY <1>1, <1>2, <1>3, <1>4, <1>6, <1>7 DEF Tmtc

LEMMA LowerTyped ==
  ASSUME TypedItem,
         \/ PusTake \/ (\E n \in Replies : PusDispatch(n))
         \/ (\E wakes \in BOOLEAN : Report(wakes)) \/ Reset
  PROVE  TypedItem'
<1>1. CASE PusTake
  <2>1. Head(tcq) \in Seq(Nat) /\ Tail(tcq) \in Seq(Seq(Nat)) /\ Len(Tail(tcq)) <= QueueDepth
    <3>1. tcq \in Seq(Seq(Nat)) /\ tcq # << >> /\ Len(tcq) <= QueueDepth
      BY <1>1 DEF PusTake, TypedItem, TypeOK
    <3> QED
      BY <3>1, TailShape, Bounds
  <2>2. cur' \in Seq(Seq(Nat))
    BY <1>1, <2>1 DEF PusTake
  <2> QED
    BY <1>1, <2>1, <2>2 DEF PusTake, groundVars, TypedItem, TypeOK, ItemBounded
<1>2. ASSUME NEW n \in Replies, PusDispatch(n) PROVE TypedItem'
  <2>1. cur[1] \in Seq(Nat)
    <3>1. cur \in Seq(Seq(Nat)) /\ cur # << >>
      BY <1>2 DEF PusDispatch, TypedItem, TypeOK
    <3> QED
      BY <3>1, TailShape
  <2>2. handled' \in Seq(Seq(Nat)) /\ cur' \in Seq(Seq(Nat))
    BY <1>2, <2>1, AppendShape DEF PusDispatch, TypedItem, TypeOK
  <2>3. tmq' \in 0 .. StoreCap
    BY <1>2, Bounds DEF PusDispatch, TypedItem, TypeOK
  <2> QED
    BY <1>2, <2>2, <2>3 DEF PusDispatch, groundVars, TypedItem, TypeOK, ItemBounded
<1>3. ASSUME NEW wakes \in BOOLEAN, Report(wakes) PROVE TypedItem'
  <2>1. tmq' \in 0 .. StoreCap
    BY <1>3, Bounds DEF Report, Room, TypedItem, TypeOK
  <2>2. pc' \in {"block", "flushIdle"} /\ pc = "block"
    BY <1>3 DEF Report
  <2> QED
    BY <1>3, <2>1, <2>2 DEF Report, groundVars, pusVars, TypedItem, TypeOK, ItemBounded
<1>4. CASE Reset
  <2>1. rxneie' \in BOOLEAN /\ late' \in BOOLEAN /\ busy' \in BOOLEAN
    BY <1>4, Zenon DEF Reset
  <2>2. NoItem \in [type : Nat, len : Nat, data : Seq(Nat)] /\ NoItem.data = << >>
        /\ Len(NoItem.data) <= MaxLen
    BY Bounds DEF NoItem
  <2>3. << >> \in Seq(Nat) /\ << >> \in Seq(Seq(Nat)) /\ Len(<< >>) = 0
    OBVIOUS
  <2> QED
    BY <1>4, <2>1, <2>2, <2>3, Bounds DEF Reset, groundVars, TypedItem, TypeOK, ItemBounded
<1> QED
  BY <1>1, <1>2, <1>3, <1>4

LEMMA NextTyped == TypedItem /\ [Next]_vars => TypedItem'
<1> SUFFICES ASSUME TypedItem, [Next]_vars PROVE TypedItem'
  OBVIOUS
<1>1. CASE UNCHANGED vars
  BY <1>1 DEF vars, TypedItem, TypeOK, ItemBounded
<1> QED
  BY <1>1, SendTyped, TickTyped, IsrTyped, TmtcTyped, LowerTyped DEF Next

LEMMA Typed == Spec => []TypedItem
BY InitTyped, NextTyped, PTL DEF Spec

(* The FIFO, the buffer of a frame, the queue and the store never exceed   *)
(* their sizes, whatever the ground sends.                                 *)
THEOREM UplinkTypes == Spec => []TypeOK
<1>1. TypedItem => TypeOK
  BY DEF TypedItem
<1> QED
  BY <1>1, Typed, PTL
-----------------------------------------------------------------------------
(* The sleep                                                               *)

LEMMA InitNap == Init => NapBound
<1> SUFFICES ASSUME Init PROVE NapBound
  OBVIOUS
<1>1. Len(fifo) = 0 /\ tx = 0 /\ pc = "poll"
  BY DEF Init, UartInit, TmtcInit
<1>2. Pileup = 1 + NapTicks + Overdue /\ Overdue \in 0 .. 1
  BY <1>1 DEF Pileup, Overdue
<1> QED
  BY <1>1, <1>2, Bounds DEF NapBound

(* What a step of the task or of one below does to the terms of Pileup     *)
LEMMA NapKept ==
  ASSUME TypedItem, NapBound, fifo' = fifo, tx' = tx, busy' = busy, late' = late,
         \/ pc' = pc /\ nap' = nap
         \/ pc \in {"arm", "take"} /\ pc' \in {"arm", "take"}
         \/ pc = "poll" /\ pc' = "arm" /\ fifo = << >>
         \/ pc = "take" /\ pc' = "block" /\ nap' = NapTicks
         \/ pc \notin {"arm", "take"}
            /\ pc' \notin {"arm", "take", "block"}
  PROVE  NapBound'
<1>1. /\ NapTicks \in Nat /\ nap \in 0 .. NapTicks /\ Len(fifo) \in Nat
      /\ Overdue \in 0 .. 1 /\ Overdue' = Overdue
  BY Bounds DEF TypedItem, TypeOK, Overdue
<1> SUFFICES ASSUME ~busy PROVE tx = 0 /\ Len(fifo) <= Pileup'
  BY DEF NapBound
<1>2. tx = 0 /\ Len(fifo) <= Pileup
  BY DEF NapBound
<1>3. CASE pc' = pc /\ nap' = nap
  BY <1>1, <1>2, <1>3 DEF Pileup
<1>4. CASE pc \in {"arm", "take"} /\ pc' \in {"arm", "take"}
  BY <1>1, <1>2, <1>4 DEF Pileup
<1>5. CASE pc = "poll" /\ pc' = "arm" /\ fifo = << >>
  <2>1. Len(fifo) = 0
    BY <1>5
  <2> QED
    BY <1>1, <1>2, <1>5, <2>1 DEF Pileup
<1>6. CASE pc = "take" /\ pc' = "block" /\ nap' = NapTicks
  BY <1>1, <1>2, <1>6, Bounds DEF Pileup
<1>7. CASE pc \notin {"arm", "take"} /\ pc' \notin {"arm", "take", "block"}
  BY <1>1, <1>2, <1>7 DEF Pileup
<1> QED
  BY <1>3, <1>4, <1>5, <1>6, <1>7

(* The byte that is too many finds something transmitted.                  *)
LEMMA TickNap ==
  ASSUME TypedItem, NapBound, NEW byte \in BOOLEAN, Tick(byte)
  PROVE  NapBound' /\ (~busy => harm' = harm)
<1>1. /\ NapTicks \in Nat /\ FifoDepth \in Nat /\ NapTicks + 2 <= FifoDepth /\ NapTicks > 0
      /\ nap \in 0 .. NapTicks /\ Len(fifo) \in Nat /\ late \in BOOLEAN /\ busy \in BOOLEAN
      /\ pc \in {"poll", "arm", "take", "block", "flushIdle", "flushFrame", "eot",
                 "type", "len", "data"}
  BY Bounds, UplinkAssumption DEF TypedItem, TypeOK
<1>2. pc' = pc
  BY DEF Tick
<1>9. ~busy' => ~busy \/ (~(tx > 0) /\ fifo = << >>)
  BY Zenon DEF Tick
<1>10. ASSUME ~(tx > 0), fifo = << >> PROVE tx = 0 /\ Len(fifo) <= Pileup
  <2>1. tx = 0 /\ Len(fifo) = 0
    BY <1>10 DEF TypedItem, TypeOK
  <2>2. Overdue \in 0 .. 1
    BY DEF Overdue
  <2>3. 0 <= Pileup
    BY <1>1, <2>2 DEF Pileup
  <2> QED
    BY <2>1, <2>3
<1> SUFFICES ASSUME tx = 0, Len(fifo) <= Pileup
             PROVE  tx' = 0 /\ Len(fifo') <= Pileup' /\ harm' = harm
  BY <1>9, <1>10 DEF NapBound
<1>3. tx = 0 /\ Len(fifo) <= Pileup
  OBVIOUS
<1>4. tx' = 0 /\ nap' = IF pc = "block" /\ nap > 0 THEN nap - 1 ELSE nap
  BY <1>3 DEF Tick
<1>5. (Waiting \/ ~late) /\ late' = ~Waiting
  BY DEF Tick
<1>6. ~Full(fifo) => Len(fifo') <= Len(fifo) + 1 /\ harm' = harm
  <2>1. CASE byte = TRUE
    <3>1. line # << >>
          /\ fifo' = (IF Full(fifo) THEN fifo ELSE Append(fifo, Head(line)))
          /\ harm' = IF Full(fifo) THEN harm \cup {"lost"} ELSE harm
      BY <2>1 DEF Tick
    <3>2. fifo \in Seq(Nat) /\ Head(line) \in Nat
      BY <3>1, TailShape DEF TypedItem, TypeOK
    <3> QED
      BY <3>1, <3>2, AppendShape
  <2>2. CASE byte = FALSE
    BY <1>1, <2>2 DEF Tick
  <2> QED
    BY <2>1, <2>2
<1>7. CASE Waiting
  <2>1. ~late'
    BY <1>5, <1>7, Zenon
  <2>2. Overdue' = 0
    BY <2>1 DEF Overdue
  <2>3. CASE pc = "block" /\ nap # 0
    <3>1. Len(fifo) <= 1 + NapTicks - nap
      BY <1>1, <1>3, <2>3 DEF Pileup
    <3>2. Pileup' = 1 + NapTicks - nap'
      BY <1>1, <1>2, <1>4, <2>2, <2>3 DEF Pileup
    <3>3. nap' = nap - 1 /\ ~Full(fifo)
      BY <1>1, <1>4, <2>3, <3>1 DEF Full
    <3> QED
      BY <1>1, <1>4, <1>6, <3>1, <3>2, <3>3
  <2>4. CASE pc \in {"type", "len", "data"} /\ fifo = << >>
    <3>1. Len(fifo) = 0 /\ ~Full(fifo)
      BY <1>1, <2>4 DEF Full
    <3>2. Pileup' = 1 + NapTicks
      BY <1>1, <1>2, <2>2, <2>4 DEF Pileup
    <3>3. Len(fifo') <= 1
      BY <1>6, <3>1
    <3> QED
      BY <1>1, <1>4, <1>6, <3>1, <3>2, <3>3
  <2> QED
    BY <1>3, <1>7, <2>3, <2>4 DEF Waiting, NapOver
<1>8. CASE ~Waiting
  <2>1. ~late /\ late'
    BY <1>5, <1>8, Zenon
  <2>2. Overdue = 0 /\ Overdue' = 1
    BY <2>1 DEF Overdue
  <2>3. CASE pc = "block"
    <3>1. nap = 0 /\ nap' = 0
      BY <1>1, <1>4, <1>8, <2>3 DEF Waiting, NapOver
    <3>2. Len(fifo) <= 1 + NapTicks /\ Pileup' = 2 + NapTicks
      BY <1>1, <1>2, <1>3, <2>2, <2>3, <3>1 DEF Pileup
    <3> QED
      BY <1>1, <1>4, <1>6, <3>2 DEF Full
  <2>4. CASE pc \in {"arm", "take"}
    <3>1. Len(fifo) = 0 /\ Pileup' = 1
      BY <1>1, <1>2, <1>3, <2>2, <2>4 DEF Pileup
    <3> QED
      BY <1>1, <1>4, <1>6, <3>1 DEF Full
  <2>5. CASE pc \notin {"arm", "take", "block"}
    <3>1. Len(fifo) <= 1 + NapTicks /\ Pileup' = 2 + NapTicks
      BY <1>1, <1>2, <1>3, <2>2, <2>5 DEF Pileup
    <3> QED
      BY <1>1, <1>4, <1>6, <3>1 DEF Full
  <2> QED
    BY <2>3, <2>4, <2>5
<1> QED
  BY <1>7, <1>8

LEMMA GetCNap ==
  ASSUME TypedItem, NapBound, GetC, pc \in {"type", "len", "data"},
         pc' \in {"len", "data", "flushFrame"}, UNCHANGED <<tx, late>>
  PROVE  NapBound'
<1>1. fifo # << >> /\ fifo' = Tail(fifo) /\ tx = 0 /\ NapTicks \in Nat
      /\ Overdue \in 0 .. 1 /\ Overdue' = Overdue
  BY Bounds DEF GetC, Runs, Overdue
<1>2. Len(fifo') = Len(fifo) - 1 /\ Len(fifo) \in Nat /\ fifo' \in Seq(Nat)
  BY <1>1, TailShape DEF TypedItem, TypeOK
<1>3. Pileup = 1 + NapTicks + Overdue /\ Pileup' = 1 + NapTicks + Overdue
  BY <1>1 DEF Pileup
<1> SUFFICES ASSUME ~busy' PROVE tx' = 0 /\ Len(fifo') <= Pileup'
  BY DEF NapBound
<1>4. ~busy \/ fifo' = << >>
  BY Zenon DEF GetC
<1>5. CASE fifo' = << >>
  <2>1. Len(fifo') = 0
    BY <1>5
  <2>2. 0 <= Pileup'
    BY <1>1, <1>3
  <2> QED
    BY <1>1, <2>1, <2>2
<1>6. CASE ~busy
  BY <1>1, <1>2, <1>3, <1>6 DEF NapBound
<1> QED
  BY <1>4, <1>5, <1>6

LEMMA NextNap ==
  ASSUME TypedItem, NapBound, [Next]_vars
  PROVE  NapBound' /\ (("lost" \in harm') /\ ("lost" \notin harm) => busy)
<1>1. CASE UNCHANGED vars
  BY <1>1 DEF vars, NapBound, Pileup, Overdue
<1>2. ASSUME NEW byte \in BOOLEAN, Tick(byte)
      PROVE  NapBound' /\ (("lost" \in harm') /\ ("lost" \notin harm) => busy)
  BY <1>2, TickNap
<1>3. ASSUME NEW type \in 1 .. 2, NEW len \in 0 .. MaxLen + 1, SendFrame(type, len)
      PROVE  NapBound' /\ ("lost" \in harm' => "lost" \in harm)
  BY <1>3, NapKept DEF SendFrame
<1>4. CASE Isr
  BY <1>4, NapKept DEF Isr
<1>5. CASE Poll \/ Arm \/ Take \/ NapEnds
  BY <1>5, NapKept DEF Poll, Arm, Take, NapEnds
<1>6. CASE Flush
  <2>1. harm' = harm
    BY <1>6 DEF Flush
  <2>2. \/ busy' = TRUE
        \/ /\ UNCHANGED <<fifo, tx, busy, late>> /\ pc \in {"flushIdle", "flushFrame"}
           /\ pc' \in {"poll", "eot"}
    BY <1>6, Zenon DEF Flush
  <2>3. CASE busy' = TRUE
    BY <2>1, <2>3, Zenon DEF NapBound
  <2>4. CASE busy' # TRUE
    BY <2>1, <2>2, <2>4, NapKept
  <2> QED
    BY <2>3, <2>4
<1>7. CASE EndOfTick
  <2>1. busy' = TRUE /\ harm' = harm
    BY <1>7, Zenon DEF EndOfTick
  <2> QED
    BY <2>1, Zenon DEF NapBound
<1>8. CASE Header
  BY <1>8, GetCNap DEF Header
<1>9. CASE Data
  <2>1. GetC /\ pc = "data" /\ pc' \in {"data", "flushFrame"} /\ UNCHANGED <<tx, late>>
        /\ harm' \subseteq harm \cup {"dropped"}
    BY <1>9 DEF Data
  <2>2. NapBound'
    BY <2>1, GetCNap
  <2> QED
    BY <2>1, <2>2
<1>10. CASE PusTake
  BY <1>10, NapKept DEF PusTake
<1>11. ASSUME NEW n \in Replies, PusDispatch(n) PROVE NapBound' /\ harm' = harm
  BY <1>11, NapKept DEF PusDispatch
<1>12. ASSUME NEW wakes \in BOOLEAN, Report(wakes) PROVE NapBound' /\ harm' = harm
  BY <1>12, NapKept DEF Report
<1>13. CASE Reset
  <2>1. fifo' = << >> /\ tx' = 0 /\ pc' = "poll" /\ harm' = harm \cup {"reset"}
    BY <1>13 DEF Reset
  <2>2. PICK o \in 0 .. 1 : Pileup' = 1 + NapTicks + o
    <3>1. Pileup' = 1 + NapTicks + Overdue'
      BY <2>1 DEF Pileup
    <3>2. Overdue' \in 0 .. 1
      BY DEF Overdue
    <3> QED
      BY <3>1, <3>2
  <2>3. Len(fifo') = 0
    BY <2>1
  <2>4. 0 <= Pileup'
    BY <2>2, Bounds
  <2> QED
    BY <2>1, <2>3, <2>4 DEF NapBound
<1> QED
  BY <1>1, <1>2, <1>3, <1>4, <1>5, <1>6, <1>7, <1>8, <1>9, <1>10, <1>11, <1>12, <1>13
     DEF Next, Tmtc

LEMMA NapInvariant == Spec => []NapBound
<1>1. TypedItem /\ NapBound /\ [Next]_vars => NapBound'
  BY NextNap
<1> QED
  BY <1>1, InitNap, Typed, PTL DEF Spec

(* The race between the last look at the FIFO and the sleep costs nothing: *)
(* a FIFO two bytes deeper than the sleep is long is enough, and a byte is *)
(* lost only behind a transmission.                                        *)
THEOREM SleepIsHarmless == Spec => NapLosesNothing
<1>1. TypedItem /\ NapBound /\ [Next]_vars
        => [("lost" \in harm') /\ ("lost" \notin harm) => busy]_vars
  BY NextNap
<1> QED
  BY <1>1, Typed, NapInvariant, PTL DEF Spec, NapLosesNothing
-----------------------------------------------------------------------------
(* The bytes on their way                                                  *)

LEMMA FlightShape ==
  ASSUME TypedItem
  PROVE  /\ InFlight \in Seq(Nat) /\ Len(InFlight) = Len(fifo) + Len(line)
         /\ Len(fifo) \in Nat /\ Len(line) \in Nat /\ Consumed \in Nat
         /\ \A k \in 1 .. Len(fifo) : InFlight[k] = fifo[k]
         /\ \A k \in 1 .. Len(line) : InFlight[Len(fifo) + k] = line[k]
<1>1. fifo \in Seq(Nat) /\ line \in Seq(Nat) /\ Len(item.data) \in Nat
  BY DEF TypedItem, TypeOK
<1>2. Consumed \in Nat
  BY <1>1 DEF Consumed
<1> QED
  BY <1>1, <1>2, ConcatShape DEF InFlight

(* Reading a byte                                                          *)
LEMMA GetCFlight ==
  ASSUME TypedItem, GetC, line' = line
  PROVE  /\ Len(InFlight') = Len(InFlight) - 1 /\ Len(InFlight) \in Nat
         /\ Len(InFlight) >= 1 /\ InFlight[1] = Head(fifo)
         /\ \A x \in 1 .. Len(InFlight) - 1 : InFlight'[x] = InFlight[x + 1]
<1>1. fifo \in Seq(Nat) /\ line \in Seq(Nat) /\ fifo # << >> /\ fifo' = Tail(fifo)
  BY DEF TypedItem, TypeOK, GetC
<1> DEFINE a == Len(fifo)
<1> DEFINE b == Len(line)
<1>2. /\ Tail(fifo) \in Seq(Nat) /\ Len(Tail(fifo)) = a - 1 /\ a \in Nat /\ a >= 1 /\ b \in Nat
      /\ Head(fifo) = fifo[1] /\ \A k \in 1 .. a - 1 : Tail(fifo)[k] = fifo[k + 1]
  BY <1>1, TailShape
<1>3. /\ Len(InFlight) = a + b
      /\ \A k \in 1 .. a : InFlight[k] = fifo[k]
      /\ \A k \in 1 .. b : InFlight[a + k] = line[k]
  BY FlightShape
<1>4. /\ Len(InFlight') = a - 1 + b
      /\ \A k \in 1 .. a - 1 : InFlight'[k] = Tail(fifo)[k]
      /\ \A k \in 1 .. b : InFlight'[a - 1 + k] = line[k]
  <2>1. InFlight' = Tail(fifo) \o line
    BY <1>1 DEF InFlight
  <2> QED
    BY <1>1, <1>2, <2>1, ConcatShape
<1> HIDE DEF a, b
<1>5. ASSUME NEW x \in 1 .. a + b - 1 PROVE InFlight'[x] = InFlight[x + 1]
  <2>1. CASE x <= a - 1
    BY <1>2, <1>3, <1>4, <2>1
  <2>2. CASE ~(x <= a - 1)
    <3>1. PICK k \in 1 .. b : x = a - 1 + k /\ x + 1 = a + k
      <4>1. x - a + 1 \in 1 .. b
        BY <1>2, <2>2
      <4> QED
        BY <1>2, <4>1
    <3> QED
      BY <1>3, <1>4, <3>1
  <2> QED
    BY <2>1, <2>2
<1> QED
  BY <1>2, <1>3, <1>4, <1>5

(* A byte that is not lost goes from the line to the FIFO.                 *)
LEMMA TickFlight ==
  ASSUME TypedItem, NEW byte \in BOOLEAN, Tick(byte), "lost" \notin harm'
  PROVE  /\ Len(InFlight') = Len(InFlight) /\ Len(InFlight) \in Nat
         /\ \A x \in 1 .. Len(InFlight) : InFlight'[x] = InFlight[x]
<1>1. fifo \in Seq(Nat) /\ line \in Seq(Nat)
  BY DEF TypedItem, TypeOK
<1>2. CASE byte = FALSE
  <2>1. fifo' = fifo /\ line' = line
    BY <1>2 DEF Tick
  <2> QED
    BY <2>1, FlightShape DEF InFlight
<1>3. CASE byte = TRUE
  <2>1. line # << >> /\ line' = Tail(line) /\ fifo' = Append(fifo, Head(line))
    <3>1. ~Full(fifo)
      BY <1>3 DEF Tick
    <3> QED
      BY <1>3, <3>1 DEF Tick
  <2> DEFINE a == Len(fifo)
  <2> DEFINE b == Len(line)
  <2> DEFINE g == Append(fifo, Head(line))
  <2>2. /\ Tail(line) \in Seq(Nat) /\ Len(Tail(line)) = b - 1 /\ b \in Nat /\ b >= 1
        /\ Head(line) = line[1] /\ Head(line) \in Nat
        /\ \A k \in 1 .. b - 1 : Tail(line)[k] = line[k + 1]
    BY <1>1, <2>1, TailShape
  <2>3. /\ g \in Seq(Nat) /\ Len(g) = a + 1 /\ a \in Nat
        /\ \A k \in 1 .. a : g[k] = fifo[k]
        /\ g[a + 1] = line[1]
    BY <1>1, <2>2, AppendShape
  <2>4. /\ Len(InFlight) = a + b
        /\ \A k \in 1 .. a : InFlight[k] = fifo[k]
        /\ \A k \in 1 .. b : InFlight[a + k] = line[k]
    BY FlightShape
  <2> HIDE DEF g
  <2>5. /\ Len(InFlight') = Len(g) + Len(Tail(line))
        /\ \A k \in 1 .. Len(g) : InFlight'[k] = g[k]
        /\ \A k \in 1 .. Len(Tail(line)) : InFlight'[Len(g) + k] = Tail(line)[k]
    <3>1. InFlight' = g \o Tail(line)
      BY <2>1 DEF InFlight, g
    <3> DEFINE l == Tail(line)
    <3>2. g \in Seq(Nat) /\ l \in Seq(Nat)
      BY <2>2, <2>3
    <3> HIDE DEF l
    <3>3. /\ Len(g \o l) = Len(g) + Len(l)
          /\ \A k \in 1 .. Len(g) : (g \o l)[k] = g[k]
          /\ \A k \in 1 .. Len(l) : (g \o l)[Len(g) + k] = l[k]
      BY <3>2
    <3> QED
      BY <3>1, <3>3 DEF l
  <2> HIDE DEF a, b
  <2>6. ASSUME NEW x \in 1 .. a + b PROVE InFlight'[x] = InFlight[x]
    <3>1. CASE x <= a
      BY <2>3, <2>4, <2>5, <3>1
    <3>2. CASE x = a + 1
      BY <2>2, <2>3, <2>4, <2>5, <3>2
    <3>3. CASE x > a + 1
      <4>1. PICK k \in 1 .. b - 1 : x = a + 1 + k /\ k + 1 \in 1 .. b /\ x = a + (k + 1)
        <5>1. x - a - 1 \in 1 .. b - 1 /\ x - a - 1 + 1 \in 1 .. b
          BY <2>2, <2>3, <3>3
        <5> QED
          BY <2>3, <5>1
      <4>2. InFlight'[x] = Tail(line)[k]
        BY <2>2, <2>3, <2>5, <4>1
      <4>3. InFlight[x] = line[k + 1]
        BY <2>4, <4>1
      <4> QED
        BY <2>2, <4>1, <4>2, <4>3
    <3> QED
      BY <2>2, <2>3, <3>1, <3>2, <3>3
  <2>7. Len(InFlight') = a + b /\ a + b \in Nat
    BY <2>2, <2>3, <2>5
  <2> QED
    BY <2>4, <2>6, <2>7
<1> QED
  BY <1>2, <1>3
-----------------------------------------------------------------------------
(* The frames on their way: nothing moves, a byte is read, a frame has been *)
(* read, a frame is sent                                                   *)

LEMMA Within ==
  ASSUME NEW a \in Nat, NEW l \in Nat, NEW c \in Nat, NEW size \in Nat,
         NEW x \in 1 .. 2 + l, a + 2 + l <= c + size
  PROVE  /\ x \in Nat /\ a + x <= c + size
         /\ a + x > c => a + x - c \in 1 .. size
OBVIOUS

LEMMA Shifted ==
  ASSUME NEW a \in Nat, NEW x \in Nat, NEW c \in Nat, NEW size \in Nat,
         a + x > c + 1, a + x > c => a + x - c \in 1 .. size
  PROVE  /\ a + x > c /\ a + x - (c + 1) + 1 = a + x - c
         /\ a + x - (c + 1) \in 1 .. size - 1
OBVIOUS

(* A frame starts c bytes earlier when the c bytes before it are gone.     *)
Offset(A, c, a) == A + c = a
Gap(a, b, l) == b = a + 2 + l
Past(a, x, c) == a + x > c
Same(i, j) == i = j

LEMMA MovedBy ==
  ASSUME NEW a \in Nat, NEW b \in Nat, NEW A \in Nat, NEW B \in Nat, NEW c \in Nat,
         NEW l \in Nat, Offset(A, c, a), Offset(B, c, b), Gap(a, b, l)
  PROVE  Gap(A, B, l)
BY DEF Offset, Gap

LEMMA MovedOrder ==
  ASSUME NEW a \in Nat, NEW b \in Nat, NEW A \in Nat, NEW B \in Nat, NEW c \in Nat,
         Offset(A, c, a), Offset(B, c, b), a <= b
  PROVE  A <= B
BY DEF Offset

LEMMA MovedByte ==
  ASSUME NEW a \in Nat, NEW A \in Nat, NEW c \in Nat, NEW x \in Nat \ {0}, Offset(A, c, a)
  PROVE  Past(a, x, c) /\ Same(A + x - 0, a + x - c)
BY DEF Offset, Past, Same

LEMMA Grown ==
  ASSUME NEW c \in Nat, NEW size \in Nat, NEW l \in Nat
  PROVE  Same(c + size + 2 + l, c + (size + 2 + l))
BY DEF Same

LEMMA Larger ==
  ASSUME NEW a \in Nat, NEW e \in Nat, a <= e
  PROVE  /\ \A l \in Nat : a <= e + 2 + l
         /\ \A d \in Nat : a <= e + d
OBVIOUS

LEMMA FlowIndex ==
  ASSUME NEW m \in Nat, NEW f \in [1 .. m -> Frames],
         NEW at \in [1 .. m + 1 -> Nat], NEW num \in [1 .. m + 1 -> Nat],
         NEW c \in Nat, NEW size \in Nat, NEW s, Flow(c, s, size, m, f, at, num),
         NEW k \in 1 .. m, NEW x \in 1 .. 2 + f[k].len
  PROVE  /\ at[k] \in Nat /\ f[k].len \in Nat /\ x \in Nat /\ at[k] + x <= c + size
         /\ at[k] + x > c => at[k] + x - c \in 1 .. size
<1>1. k \in 1 .. m + 1 /\ k + 1 \in 1 .. m + 1 /\ m + 1 \in 1 .. m + 1 /\ k + 1 <= m + 1
  OBVIOUS
<1>2. at[k] \in Nat /\ at[k + 1] \in Nat /\ at[m + 1] \in Nat
  BY <1>1
<1>3. f[k].len \in Nat
  <2>1. f[k] \in Frames
    OBVIOUS
  <2> QED
    BY <2>1 DEF Frames
<1>4. at[k + 1] = at[k] + 2 + f[k].len /\ at[k + 1] <= at[m + 1] /\ at[m + 1] = c + size
  BY <1>1 DEF Flow
<1>5. at[k] + 2 + f[k].len <= c + size
  BY <1>2, <1>3, <1>4
<1>6. /\ x \in Nat /\ at[k] + x <= c + size
      /\ at[k] + x > c => at[k] + x - c \in 1 .. size
  BY <1>2, <1>3, <1>5, Within, Zenon
<1> QED
  BY <1>2, <1>3, <1>6

LEMMA FlowSame ==
  ASSUME NEW m \in Nat, NEW f \in [1 .. m -> Frames],
         NEW at \in [1 .. m + 1 -> Nat], NEW num \in [1 .. m + 1 -> Nat],
         NEW c \in Nat, NEW size \in Nat, NEW s, NEW t, Flow(c, s, size, m, f, at, num),
         \A x \in 1 .. size : t[x] = s[x]
  PROVE  Flow(c, t, size, m, f, at, num)
<1>1. ASSUME NEW k \in 1 .. m, NEW x \in 1 .. 2 + f[k].len, at[k] + x > c
      PROVE  t[at[k] + x - c] = ByteOf(f[k], num[k] + 1, x)
  <2>1. at[k] + x - c \in 1 .. size
    BY <1>1, FlowIndex
  <2>2. s[at[k] + x - c] = ByteOf(f[k], num[k] + 1, x)
    BY <1>1 DEF Flow
  <2> QED
    BY <2>1, <2>2
<1> QED
  BY <1>1 DEF Flow

LEMMA FlowRead ==
  ASSUME NEW m \in Nat, NEW f \in [1 .. m -> Frames],
         NEW at \in [1 .. m + 1 -> Nat], NEW num \in [1 .. m + 1 -> Nat],
         NEW c \in Nat, NEW size \in Nat, NEW s, NEW t, Flow(c, s, size, m, f, at, num),
         size >= 1, \A x \in 1 .. size - 1 : t[x] = s[x + 1]
  PROVE  Flow(c + 1, t, size - 1, m, f, at, num)
<1>1. ASSUME NEW k \in 1 .. m, NEW x \in 1 .. 2 + f[k].len, at[k] + x > c + 1
      PROVE  t[at[k] + x - (c + 1)] = ByteOf(f[k], num[k] + 1, x)
  <2>1. /\ at[k] \in Nat /\ x \in Nat
        /\ at[k] + x > c => at[k] + x - c \in 1 .. size
    BY FlowIndex
  <2>2. /\ at[k] + x > c /\ at[k] + x - (c + 1) + 1 = at[k] + x - c
        /\ at[k] + x - (c + 1) \in 1 .. size - 1
    BY <1>1, <2>1, Shifted
  <2>3. s[at[k] + x - c] = ByteOf(f[k], num[k] + 1, x)
    BY <2>2 DEF Flow
  <2> QED
    BY <2>2, <2>3
<1>2. at[m + 1] = (c + 1) + (size - 1)
  BY DEF Flow
<1> QED
  BY <1>1, <1>2 DEF Flow

(* Whole frames, with telecommands b + 1 .. e among them                   *)
Whole(s, size, b, e) ==
  \E M \in Nat :
    \E F \in [1 .. M -> Frames], At, Num \in [1 .. M + 1 -> Nat] :
      Flow(0, s, size, M, F, At, Num) /\ Num[1] = b /\ Num[M + 1] = e

LEMMA FlowDone ==
  ASSUME NEW m \in Nat, NEW f \in [1 .. m -> Frames],
         NEW at \in [1 .. m + 1 -> Nat], NEW num \in [1 .. m + 1 -> Nat],
         NEW c \in Nat, NEW size \in Nat, NEW s, Flow(c, s, size, m, f, at, num),
         m > 0, Same(at[2], c)
  PROVE  Whole(s, size, num[1] + (IF IsTc(f[1]) THEN 1 ELSE 0), num[m + 1])
<1>1. PICK M \in Nat : m = M + 1
  <2>1. m - 1 \in Nat /\ m = (m - 1) + 1
    OBVIOUS
  <2> QED
    BY <2>1
<1> DEFINE F == [k \in 1 .. M |-> f[k + 1]]
<1> DEFINE At == [k \in 1 .. M + 1 |-> at[k + 1] - c]
<1> DEFINE Num == [k \in 1 .. M + 1 |-> num[k + 1]]
<1>2. 1 \in 1 .. m /\ 1 + 1 = 2 /\ 2 \in 1 .. m + 1
  BY <1>1
<1>3. at[2] = c
  BY DEF Same
<1>4. num[2] = num[1] + (IF IsTc(f[1]) THEN 1 ELSE 0)
  BY <1>2 DEF Flow
<1>5. ASSUME NEW k \in 1 .. m
      PROVE  k + 1 \in 1 .. m + 1 /\ at[k + 1] \in Nat /\ c <= at[k + 1] /\ num[k + 1] \in Nat
  <2>1. k + 1 \in 1 .. m + 1 /\ 2 <= k + 1
    OBVIOUS
  <2> QED
    BY <1>2, <1>3, <2>1 DEF Flow
<1>6. F \in [1 .. M -> Frames]
  BY <1>1
<1>7. At \in [1 .. M + 1 -> Nat] /\ Num \in [1 .. M + 1 -> Nat]
  <2>1. \A k \in 1 .. M + 1 : at[k + 1] - c \in Nat /\ num[k + 1] \in Nat
    BY <1>1, <1>5, SMTT(30)
  <2> QED
    BY <2>1
<1>8. /\ \A k \in 1 .. M : F[k] = f[k + 1] /\ k + 1 \in 1 .. m /\ k \in 1 .. m
      /\ \A k \in 1 .. m : At[k] \in Nat /\ Offset(At[k], c, at[k + 1]) /\ Num[k] = num[k + 1]
  <2>1. \A k \in 1 .. m : At[k] = at[k + 1] - c /\ Num[k] = num[k + 1]
    BY <1>1
  <2>2. \A k \in 1 .. m : at[k + 1] - c \in Nat /\ at[k + 1] - c + c = at[k + 1]
    BY <1>5, SMTT(30)
  <2>3. \A k \in 1 .. M : F[k] = f[k + 1] /\ k + 1 \in 1 .. m /\ k \in 1 .. m
    BY <1>1
  <2> HIDE DEF F, At, Num
  <2> QED
    BY <2>1, <2>2, <2>3 DEF Offset
<1> HIDE DEF F, At, Num
<1>9. At[1] = 0 /\ Num[1] = num[2]
  BY <1>2, <1>3, <1>4, <1>8, SMTT(30) DEF Offset
<1>10. At[M + 1] = 0 + size /\ Num[M + 1] = num[m + 1]
  <2>1. m \in 1 .. m /\ at[m + 1] = c + size
    BY <1>1 DEF Flow
  <2> QED
    BY <1>1, <1>8, <2>1, SMTT(30) DEF Offset
<1>11. ASSUME NEW k \in 1 .. M
       PROVE  /\ At[k + 1] = At[k] + 2 + F[k].len
              /\ Num[k + 1] = Num[k] + (IF IsTc(F[k]) THEN 1 ELSE 0)
  <2>1. PICK q \in 1 .. m : q = k + 1 /\ k \in 1 .. m /\ F[k] = f[q]
    BY <1>8
  <2>2. /\ Gap(at[q], at[q + 1], f[q].len)
        /\ num[q + 1] = num[q] + (IF IsTc(f[q]) THEN 1 ELSE 0)
    BY DEF Flow, Gap
  <2>3. /\ At[k] \in Nat /\ Offset(At[k], c, at[q]) /\ Num[k] = num[q]
        /\ At[q] \in Nat /\ Offset(At[q], c, at[q + 1]) /\ Num[q] = num[q + 1]
    BY <1>8, <2>1
  <2>4. at[q] \in Nat /\ f[q].len \in Nat
    <3>1. f[q] \in Frames /\ q \in 1 .. m + 1
      OBVIOUS
    <3> QED
      BY <3>1 DEF Frames
  <2>5. At[q] = At[k] + 2 + f[q].len
    <3>1. at[q + 1] \in Nat
      BY <1>5
    <3>2. Gap(At[k], At[q], f[q].len)
      BY <2>2, <2>3, <2>4, <3>1, MovedBy, Zenon
    <3> QED
      BY <3>2 DEF Gap
  <2> QED
    BY <2>1, <2>2, <2>3, <2>5
<1>12. ASSUME NEW k \in 1 .. M, NEW x \in 1 .. 2 + F[k].len
       PROVE  s[At[k] + x - 0] = ByteOf(F[k], Num[k] + 1, x)
  <2>1. PICK q \in 1 .. m : q = k + 1 /\ k \in 1 .. m /\ F[k] = f[q]
    BY <1>8
  <2>2. /\ At[k] \in Nat /\ Offset(At[k], c, at[q]) /\ Num[k] = num[q]
        /\ at[q] \in Nat /\ c <= at[q]
    BY <1>5, <1>8, <2>1
  <2>3. x \in 1 .. 2 + f[q].len /\ x \in Nat /\ x >= 1
    <3>1. x \in 1 .. 2 + f[q].len
      BY <2>1
    <3>2. f[q].len \in Nat
      BY DEF Frames
    <3> QED
      BY <3>1, <3>2
  <2>4. at[q] + x > c /\ At[k] + x - 0 = at[q] + x - c
    <3>1. x \in Nat \ {0}
      BY <2>3
    <3>2. Past(at[q], x, c) /\ Same(At[k] + x - 0, at[q] + x - c)
      BY <2>2, <3>1, MovedByte, Zenon
    <3> QED
      BY <3>2 DEF Past, Same
  <2>5. s[at[q] + x - c] = ByteOf(f[q], num[q] + 1, x)
    BY <2>3, <2>4 DEF Flow
  <2> QED
    BY <2>1, <2>2, <2>4, <2>5
<1>13. ASSUME NEW j \in 1 .. m, NEW k \in 1 .. m, j <= k
       PROVE  At[j] <= At[k] /\ Num[j] <= Num[k]
  <2>1. j + 1 <= k + 1
    BY <1>13
  <2>2. at[j + 1] <= at[k + 1] /\ num[j + 1] <= num[k + 1]
    BY <1>5, <2>1 DEF Flow
  <2>3. /\ At[j] \in Nat /\ Offset(At[j], c, at[j + 1]) /\ at[j + 1] \in Nat
        /\ At[k] \in Nat /\ Offset(At[k], c, at[k + 1]) /\ at[k + 1] \in Nat
        /\ Num[j] = num[j + 1] /\ Num[k] = num[k + 1]
    BY <1>5, <1>8
  <2>4. At[j] <= At[k]
    BY <2>2, <2>3, MovedOrder, Zenon
  <2> QED
    BY <2>2, <2>3, <2>4
<1>14. Flow(0, s, size, M, F, At, Num)
  BY <1>1, <1>9, <1>10, <1>11, <1>12, <1>13 DEF Flow
<1> QED
  BY <1>4, <1>6, <1>7, <1>9, <1>10, <1>14, Zenon DEF Whole

(* One frame more behind those of f                                        *)
Longer(c, s, size, m, f, b, e) ==
  \E F \in [1 .. m + 1 -> Frames], At, Num \in [1 .. m + 1 + 1 -> Nat] :
    /\ Flow(c, s, size, m + 1, F, At, Num)
    /\ \A k \in 1 .. m : F[k] = f[k]
    /\ Num[1] = b /\ Num[m + 1 + 1] = e

Prefix(s, t, size) == \A x \in 1 .. size : t[x] = s[x]
FrameAt(g, n, t, size) == \A x \in 1 .. 2 + g.len : t[size + x] = ByteOf(g, n, x)

LEMMA FlowSent ==
  ASSUME NEW m \in Nat, NEW f \in [1 .. m -> Frames],
         NEW at \in [1 .. m + 1 -> Nat], NEW num \in [1 .. m + 1 -> Nat],
         NEW c \in Nat, NEW size \in Nat, NEW s, Flow(c, s, size, m, f, at, num),
         NEW g \in Frames, NEW t, Prefix(s, t, size), FrameAt(g, num[m + 1] + 1, t, size)
  PROVE  Longer(c, t, size + 2 + g.len, m, f,
                num[1], num[m + 1] + (IF IsTc(g) THEN 1 ELSE 0))
<1> DEFINE M == m + 1
<1> DEFINE e == c + size
<1> DEFINE l == g.len
<1> DEFINE d == IF IsTc(g) THEN 1 ELSE 0
<1> DEFINE F == [k \in 1 .. M |-> IF k = M THEN g ELSE f[k]]
<1> DEFINE At == [k \in 1 .. M + 1 |-> IF k = M + 1 THEN e + 2 + l ELSE at[k]]
<1> DEFINE Num == [k \in 1 .. M + 1 |-> IF k = M + 1 THEN num[M] + d ELSE num[k]]
<1>1. /\ M \in Nat /\ M \in 1 .. M /\ M + 1 \in 1 .. M + 1 /\ M + 1 = m + 2 /\ 1 \in 1 .. M
      /\ \A k \in 1 .. M : k \in 1 .. M + 1 /\ k # M + 1 /\ k + 1 \in 1 .. M + 1
      /\ \A k \in 1 .. M : k # M => k \in 1 .. m /\ k + 1 \in 1 .. M
      /\ \A k \in 1 .. m : k \in 1 .. M /\ k # M
  OBVIOUS
<1>2. l \in Nat /\ d \in Nat /\ e \in Nat
  BY DEF Frames
<1>3. at[M] = e /\ num[M] \in Nat
  BY <1>1 DEF Flow
<1>4. F \in [1 .. M -> Frames]
  BY <1>1
<1>5. At \in [1 .. M + 1 -> Nat]
  <2>1. e + 2 + l \in Nat
    BY <1>2
  <2> HIDE DEF e, l
  <2> QED
    BY <1>1, <2>1
<1>6. Num \in [1 .. M + 1 -> Nat]
  <2>1. num[M] + d \in Nat
    BY <1>2, <1>3
  <2> HIDE DEF d
  <2> QED
    BY <1>1, <2>1
<1>7. /\ \A k \in 1 .. m : F[k] = f[k]
      /\ F[M] = g
  BY <1>1
<1>8. /\ \A k \in 1 .. M : At[k] = at[k] /\ Num[k] = num[k]
      /\ At[M + 1] = e + 2 + l /\ Num[M + 1] = num[M] + d
  BY <1>1
<1> HIDE DEF M, e, l, d, F, At, Num
<1>9. At[1] = 0 /\ Num[1] = num[1]
  BY <1>1, <1>8 DEF Flow
<1>10. At[M + 1] = c + (size + 2 + g.len)
  <2>1. g.len \in Nat
    BY <1>2 DEF l
  <2>2. Same(c + size + 2 + g.len, c + (size + 2 + g.len))
    BY <2>1, Grown, Zenon
  <2>3. At[M + 1] = c + size + 2 + g.len
    BY <1>8, Zenon DEF e, l
  <2> QED
    BY <2>2, <2>3, Zenon DEF Same
<1>11. ASSUME NEW k \in 1 .. M
       PROVE  /\ At[k + 1] = At[k] + 2 + F[k].len
              /\ Num[k + 1] = Num[k] + (IF IsTc(F[k]) THEN 1 ELSE 0)
  <2>1. CASE k = M
    <3>1. F[k].len = l /\ (IF IsTc(F[k]) THEN 1 ELSE 0) = d
      BY <1>7, <2>1 DEF l, d
    <3>2. At[k] = e /\ Num[k] = num[M]
      BY <1>3, <1>8, <2>1
    <3>3. At[k + 1] = e + 2 + l /\ Num[k + 1] = num[M] + d
      BY <1>8, <2>1
    <3> QED
      BY <3>1, <3>2, <3>3
  <2>2. CASE k # M
    <3>1. k \in 1 .. m /\ k + 1 \in 1 .. M
      BY <1>1, <2>2
    <3>2. F[k] = f[k] /\ At[k] = at[k] /\ Num[k] = num[k]
          /\ At[k + 1] = at[k + 1] /\ Num[k + 1] = num[k + 1]
      BY <1>7, <1>8, <3>1
    <3>3. at[k + 1] = at[k] + 2 + f[k].len /\ num[k + 1] = num[k] + (IF IsTc(f[k]) THEN 1 ELSE 0)
      BY <3>1 DEF Flow
    <3> QED
      BY <3>2, <3>3
  <2> QED
    BY <2>1, <2>2
<1>12. ASSUME NEW k \in 1 .. M, NEW x \in 1 .. 2 + F[k].len, At[k] + x > c
       PROVE  t[At[k] + x - c] = ByteOf(F[k], Num[k] + 1, x)
  <2>1. CASE k = M
    <3>1. F[k] = g /\ At[k] = c + size /\ Num[k] = num[m + 1]
      BY <1>3, <1>7, <1>8, <2>1 DEF M, e
    <3>2. x \in 1 .. 2 + g.len
      BY <3>1
    <3>3. c + size + x - c = size + x
      <4>1. x \in Nat
        BY <1>2, <3>2 DEF l
      <4> QED
        BY <4>1
    <3>4. t[size + x] = ByteOf(g, num[m + 1] + 1, x)
      BY <3>2 DEF FrameAt
    <3> QED
      BY <3>1, <3>3, <3>4
  <2>2. CASE k # M
    <3>1. k \in 1 .. m
      BY <1>1, <2>2
    <3>2. F[k] = f[k] /\ At[k] = at[k] /\ Num[k] = num[k]
      BY <1>7, <1>8, <3>1
    <3>3. x \in 1 .. 2 + f[k].len /\ at[k] + x > c
      BY <1>12, <3>2
    <3>4. at[k] + x - c \in 1 .. size
      BY <3>1, <3>3, FlowIndex
    <3>5. s[at[k] + x - c] = ByteOf(f[k], num[k] + 1, x)
      BY <3>1, <3>3 DEF Flow
    <3> QED
      BY <3>2, <3>4, <3>5 DEF Prefix
  <2> QED
    BY <2>1, <2>2
<1>13. ASSUME NEW j \in 1 .. M + 1, NEW k \in 1 .. M + 1, j <= k
       PROVE  At[j] <= At[k] /\ Num[j] <= Num[k]
  <2>1. CASE k \in 1 .. M
    <3>1. j \in 1 .. M
      BY <1>1, <1>13, <2>1
    <3>2. At[j] = at[j] /\ Num[j] = num[j] /\ At[k] = at[k] /\ Num[k] = num[k]
      BY <1>8, <2>1, <3>1
    <3>3. at[j] <= at[k] /\ num[j] <= num[k]
      BY <1>13, <2>1, <3>1 DEF Flow, M
    <3> QED
      BY <3>2, <3>3
  <2>2. CASE k = M + 1 /\ j \in 1 .. M
    <3>1. j <= M /\ M \in 1 .. M
      BY <1>1, <2>2
    <3>2. at[j] <= at[M] /\ num[j] <= num[M] /\ at[j] \in Nat /\ num[j] \in Nat
      BY <2>2, <3>1 DEF Flow, M
    <3>3. At[j] = at[j] /\ Num[j] = num[j] /\ At[k] = e + 2 + l /\ Num[k] = num[M] + d
      BY <1>8, <2>2
    <3>4. at[j] <= e + 2 + l
      BY <1>2, <1>3, <3>2, Larger, Zenon
    <3>5. num[j] <= num[M] + d
      BY <1>2, <1>3, <3>2, Larger, Zenon
    <3> QED
      BY <3>3, <3>4, <3>5
  <2>3. CASE k = M + 1 /\ j = M + 1
    <3>1. k \in 1 .. M + 1 /\ At[k] \in Nat /\ Num[k] \in Nat /\ j = k
      BY <1>5, <1>6, <2>3
    <3> QED
      BY <3>1
  <2> QED
    BY <1>1, <2>1, <2>2, <2>3
<1>14. Flow(c, t, size + 2 + g.len, M, F, At, Num)
  BY <1>9, <1>10, <1>11, <1>12, <1>13 DEF Flow
<1>15. /\ \A k \in 1 .. m : F[k] = f[k]
       /\ Num[1] = num[1]
       /\ Num[M + 1] = num[M] + (IF IsTc(g) THEN 1 ELSE 0)
  BY <1>7, <1>8, <1>9, Zenon DEF d
<1> QED
  BY <1>4, <1>5, <1>6, <1>14, <1>15, Zenon DEF M, Longer
-----------------------------------------------------------------------------
(* What the steps do to the frames on their way                            *)

LEMMA FramedSame ==
  ASSUME TypedItem, InFrames, Len(InFlight') = Len(InFlight),
         \A x \in 1 .. Len(InFlight) : InFlight'[x] = InFlight[x],
         Len(Tcs') = Len(Tcs), sent' = sent,
         \/ pc' = pc /\ item' = item
         \/ pc \notin {"len", "data"} /\ pc' \notin {"len", "data"}
  PROVE  InFrames'
<1>1. Len(InFlight) \in Nat /\ Consumed \in Nat
  BY FlightShape
<1>2. Consumed' = Consumed
  BY DEF Consumed
<1>3. PICK m \in Nat :
        \E f \in [1 .. m -> Frames], at, num \in [1 .. m + 1 -> Nat] : Framed(m, f, at, num)
  BY DEF InFrames
<1>4. PICK f \in [1 .. m -> Frames], at \in [1 .. m + 1 -> Nat], num \in [1 .. m + 1 -> Nat] :
        Framed(m, f, at, num)
  BY <1>3
<1>5. Flow(Consumed, InFlight', Len(InFlight), m, f, at, num)
  <2>1. Flow(Consumed, InFlight, Len(InFlight), m, f, at, num)
    BY <1>4 DEF Framed
  <2> QED
    BY <1>1, <2>1, FlowSame
<1>6. Flow(Consumed', InFlight', Len(InFlight'), m, f, at, num)
  BY <1>2, <1>5
<1>7. Framed(m, f, at, num)'
  <2>1. CASE pc' = pc /\ item' = item
    BY <1>4, <1>6, <2>1 DEF Framed
  <2>2. CASE pc \notin {"len", "data"} /\ pc' \notin {"len", "data"}
    BY <1>4, <1>6, <2>2 DEF Framed
  <2> QED
    BY <2>1, <2>2
<1> QED
  BY <1>7 DEF InFrames

(* The byte the task reads is the next one of the first frame.             *)
LEMMA NextByte ==
  ASSUME TypedItem, GetC, line' = line,
         NEW m \in Nat, NEW f \in [1 .. m -> Frames],
         NEW at \in [1 .. m + 1 -> Nat], NEW num \in [1 .. m + 1 -> Nat],
         NEW c \in Nat, Flow(c, InFlight, Len(InFlight), m, f, at, num),
         m > 0, c < 2 + f[1].len
  PROVE  /\ Head(fifo) = ByteOf(f[1], num[1] + 1, c + 1)
         /\ at[2] = 2 + f[1].len
         /\ num[2] = num[1] + (IF IsTc(f[1]) THEN 1 ELSE 0)
         /\ Flow(c + 1, InFlight', Len(InFlight'), m, f, at, num)
<1>1. /\ Len(InFlight) \in Nat /\ Len(InFlight) >= 1 /\ Head(fifo) = InFlight[1]
      /\ Len(InFlight') = Len(InFlight) - 1
      /\ \A x \in 1 .. Len(InFlight) - 1 : InFlight'[x] = InFlight[x + 1]
  BY GetCFlight
<1>2. 1 \in 1 .. m /\ 1 \in 1 .. m + 1 /\ f[1].len \in Nat
  BY DEF Frames
<1>3. at[1] = 0 /\ at[1 + 1] = at[1] + 2 + f[1].len
      /\ num[1 + 1] = num[1] + (IF IsTc(f[1]) THEN 1 ELSE 0)
      /\ \A x \in 1 .. 2 + f[1].len :
           at[1] + x > c => InFlight[at[1] + x - c] = ByteOf(f[1], num[1] + 1, x)
  BY <1>2 DEF Flow
<1>4. /\ c + 1 \in 1 .. 2 + f[1].len /\ 0 + (c + 1) > c /\ 0 + (c + 1) - c = 1
      /\ 0 + 2 + f[1].len = 2 + f[1].len /\ 1 + 1 = 2
  BY <1>2, SMTT(30)
<1>5. Head(fifo) = ByteOf(f[1], num[1] + 1, c + 1)
  BY <1>1, <1>3, <1>4
<1>6. Flow(c + 1, InFlight', Len(InFlight) - 1, m, f, at, num)
  BY <1>1, FlowRead
<1> QED
  BY <1>1, <1>3, <1>4, <1>5, <1>6

(* The telecommands received                                               *)
LEMMA Singleton ==
  ASSUME NEW S, NEW s \in Seq(S), Len(s) = 1
  PROVE  s[1] \in S /\ s = <<s[1]>>
<1>1. s[1] \in S
  OBVIOUS
<1>2. s = <<s[1]>>
  <2>1. DOMAIN s = 1 .. 1 /\ s = [k \in 1 .. 1 |-> s[k]]
    OBVIOUS
  <2>2. <<s[1]>> = [k \in 1 .. 1 |-> s[k]]
    OBVIOUS
  <2> QED
    BY <2>1, <2>2
<1> QED
  BY <1>1, <1>2

LEMMA TcsAppended ==
  ASSUME NEW a \in Seq(Seq(Nat)), NEW b \in Seq(Seq(Nat)), NEW c \in Seq(Seq(Nat)),
         NEW d \in Seq(Nat)
  PROVE  Same(a \o b \o Append(c, d), Append(a \o b \o c, d))
BY SMTT(30) DEF Same

LEMMA TcsShape ==
  ASSUME NEW a \in Seq(Seq(Nat)), NEW b \in Seq(Seq(Nat)), NEW c \in Seq(Seq(Nat))
  PROVE  /\ a \o b \o c \in Seq(Seq(Nat)) /\ Len(a \o b \o c) = Len(a) + Len(b) + Len(c)
         /\ c # << >> /\ b = << >> => a \o <<Head(c)>> \o Tail(c) = a \o b \o c
         /\ Len(b) = 1 => Append(a, b[1]) \o << >> \o c = a \o b \o c
<1>1. a \o b \o c \in Seq(Seq(Nat)) /\ Len(a \o b \o c) = Len(a) + Len(b) + Len(c)
  OBVIOUS
<1>2. ASSUME c # << >>, b = << >> PROVE a \o <<Head(c)>> \o Tail(c) = a \o b \o c
  BY <1>2, SMTT(30)
<1>3. ASSUME Len(b) = 1 PROVE Append(a, b[1]) \o << >> \o c = a \o b \o c
  <2>1. PICK v \in Seq(Nat) : v = b[1] /\ b = <<v>>
    BY <1>3, Singleton, Zenon
  <2>2. Append(a, v) = a \o <<v>> /\ Append(a, v) \in Seq(Seq(Nat))
    OBVIOUS
  <2>3. Append(a, v) \o << >> = Append(a, v)
    BY <2>2
  <2> QED
    BY <2>1, <2>2, <2>3
<1> QED
  BY <1>1, <1>2, <1>3

LEMMA OrderAppended ==
  ASSUME NEW s \in Seq(Seq(Nat)), NEW d \in Seq(Nat), InOrder(s), d # << >>,
         \A j \in DOMAIN d : d[j] = Len(s) + 1
  PROVE  InOrder(Append(s, d))
<1> DEFINE t == Append(s, d)
<1>1. /\ DOMAIN t = 1 .. Len(s) + 1 /\ Len(s) \in Nat /\ t[Len(s) + 1] = d
      /\ \A k \in 1 .. Len(s) : t[k] = s[k] /\ k \in DOMAIN s
  OBVIOUS
<1> HIDE DEF t
<1>2. ASSUME NEW k \in 1 .. Len(s) + 1
      PROVE  t[k] # << >> /\ \A j \in DOMAIN t[k] : t[k][j] = k
  <2>1. CASE k = Len(s) + 1
    <3>1. t[k] = d
      BY <1>1, <2>1
    <3>2. \A j \in DOMAIN d : d[j] = k
      BY <2>1
    <3> QED
      BY <3>1, <3>2, Zenon
  <2>2. CASE k # Len(s) + 1
    <3>1. k \in 1 .. Len(s)
      <4>1. PICK l \in Nat : l = Len(s)
        BY <1>1
      <4>2. k \in 1 .. l + 1 /\ k # l + 1
        BY <2>2, <4>1
      <4>3. k \in 1 .. l
        BY <4>2
      <4> QED
        BY <4>1, <4>3
    <3> QED
      BY <1>1, <3>1 DEF InOrder
  <2> QED
    BY <2>1, <2>2
<1> QED
  BY <1>1, <1>2 DEF InOrder, t

(* A step that moves no byte and takes no telecommand                      *)
LEMMA NumberedKept ==
  ASSUME TypedItem, Numbered, UNCHANGED <<fifo, line, sent>>, Tcs' = Tcs, Len(cur') <= 1,
         harm' = harm,
         \/ pc' = pc /\ item' = item
         \/ pc \notin {"len", "data"} /\ pc' \notin {"len", "data"}
  PROVE  Numbered'
<1>1. InFlight' = InFlight
  BY DEF InFlight
<1>2. ASSUME harm = {} PROVE InFrames'
  <2>1. InFrames
    BY <1>2 DEF Numbered
  <2> QED
    BY <1>1, <2>1, FramedSame
<1> QED
  BY <1>2 DEF Numbered

LEMMA QuietNumbered ==
  ASSUME TypedItem, Numbered,
         \/ Isr \/ Poll \/ Arm \/ Take \/ NapEnds \/ Flush \/ EndOfTick
         \/ \E wakes \in BOOLEAN : Report(wakes)
  PROVE  Numbered'
<1>1. UNCHANGED <<fifo, line, sent, handled, cur, tcq, harm>>
  BY DEF Isr, Poll, Arm, Take, NapEnds, Flush, EndOfTick, Report, groundVars, pusVars
<1>2. \/ pc' = pc /\ item' = item
      \/ pc \notin {"len", "data"} /\ pc' \notin {"len", "data"}
  <2>1. CASE Isr
    BY <2>1 DEF Isr
  <2>2. CASE Poll \/ Arm \/ Take \/ NapEnds
    BY <2>2 DEF Poll, Arm, Take, NapEnds
  <2>3. CASE Flush
    BY <2>3 DEF Flush
  <2>4. CASE EndOfTick
    BY <2>4 DEF EndOfTick
  <2>5. CASE \E wakes \in BOOLEAN : Report(wakes)
    BY <2>5 DEF Report
  <2> QED
    BY <2>1, <2>2, <2>3, <2>4, <2>5
<1>3. Tcs' = Tcs /\ Len(cur') <= 1
  BY <1>1 DEF Tcs, Numbered
<1> QED
  BY <1>1, <1>2, <1>3, NumberedKept

LEMMA TickNumbered ==
  ASSUME TypedItem, Numbered, NEW byte \in BOOLEAN, Tick(byte)
  PROVE  Numbered'
<1>1. UNCHANGED <<sent, pc, item, handled, cur, tcq>>
  BY DEF Tick, pusVars
<1>2. Tcs' = Tcs
  BY <1>1 DEF Tcs
<1>3. ASSUME harm' = {} PROVE harm = {} /\ InFrames'
  <2>1. harm = {} /\ "lost" \notin harm'
    BY <1>3 DEF Tick
  <2>2. InFrames
    BY <2>1 DEF Numbered
  <2> QED
    BY <1>1, <1>2, <2>1, <2>2, TickFlight, FramedSame
<1> QED
  BY <1>1, <1>2, <1>3 DEF Numbered

LEMMA LowerNumbered ==
  ASSUME TypedItem, Numbered, PusTake \/ \E n \in Replies : PusDispatch(n)
  PROVE  Numbered'
<1>1. handled \in Seq(Seq(Nat)) /\ cur \in Seq(Seq(Nat)) /\ tcq \in Seq(Seq(Nat))
  BY DEF TypedItem, TypeOK
<1>2. CASE PusTake
  <2>1. /\ cur = << >> /\ tcq # << >> /\ cur' = <<Head(tcq)>> /\ tcq' = Tail(tcq)
        /\ UNCHANGED <<fifo, line, sent, pc, item, handled, harm>>
    BY <1>2 DEF PusTake, groundVars
  <2>2. Tcs' = Tcs
    <3>1. Tcs' = handled \o <<Head(tcq)>> \o Tail(tcq)
      BY <2>1 DEF Tcs
    <3> QED
      BY <1>1, <2>1, <3>1, TcsShape DEF Tcs
  <2>3. Len(cur') <= 1
    BY <2>1
  <2> QED
    BY <2>1, <2>2, <2>3, NumberedKept
<1>3. CASE \E n \in Replies : PusDispatch(n)
  <2>1. /\ cur # << >> /\ cur' = << >> /\ handled' = Append(handled, cur[1])
        /\ UNCHANGED <<fifo, line, sent, item, tcq, harm>>
        /\ pc \notin {"len", "data"} /\ pc' \notin {"len", "data"}
    BY <1>3 DEF PusDispatch, groundVars
  <2>2. Len(cur) = 1
    <3>1. Len(cur) \in Nat /\ Len(cur) >= 1
      BY <1>1, <2>1, TailShape
    <3>2. Len(cur) <= 1
      BY DEF Numbered
    <3>3. PICK l \in Nat : l = Len(cur) /\ l >= 1 /\ l <= 1
      BY <3>1, <3>2, Zenon
    <3>4. l = 1
      BY <3>3
    <3> QED
      BY <3>3, <3>4
  <2>3. Tcs' = Tcs
    <3>1. Tcs' = Append(handled, cur[1]) \o << >> \o tcq
      BY <2>1 DEF Tcs
    <3> QED
      BY <1>1, <2>2, <3>1, TcsShape DEF Tcs
  <2>4. Len(cur') <= 1
    BY <2>1
  <2> QED
    BY <2>1, <2>3, <2>4, NumberedKept
<1> QED
  BY <1>2, <1>3

LEMMA ResetNumbered == ASSUME TypedItem, Numbered, Reset PROVE Numbered'
<1>1. sent' = sent /\ cur' = << >> /\ harm' # {}
  BY DEF Reset, groundVars
<1> QED
  BY <1>1 DEF Numbered

(* Between frames                                                          *)
LEMMA WholeFramed ==
  ASSUME Whole(InFlight', Len(InFlight'), Len(Tcs'), Len(sent')), pc' \notin {"len", "data"}
  PROVE  InFrames'
<1>1. Consumed' = 0
  BY DEF Consumed
<1>2. PICK m \in Nat :
        \E f \in [1 .. m -> Frames], at, num \in [1 .. m + 1 -> Nat] :
          /\ Flow(0, InFlight', Len(InFlight'), m, f, at, num)
          /\ num[1] = Len(Tcs') /\ num[m + 1] = Len(sent')
  BY Zenon DEF Whole
<1>3. PICK f \in [1 .. m -> Frames], at \in [1 .. m + 1 -> Nat], num \in [1 .. m + 1 -> Nat] :
        /\ Flow(0, InFlight', Len(InFlight'), m, f, at, num)
        /\ num[1] = Len(Tcs') /\ num[m + 1] = Len(sent')
  BY <1>2, Zenon
<1>4. Framed(m, f, at, num)'
  BY <1>1, <1>3 DEF Framed
<1> QED
  BY <1>4 DEF InFrames

(* A byte of a header is read, and perhaps the frame is empty.             *)
LEMMA HeaderNumbered == ASSUME TypedItem, Numbered, Header PROVE Numbered'
<1>1. /\ GetC /\ UNCHANGED <<line, sent, handled, cur, tcq, harm>>
  BY DEF Header, groundVars, pusVars
<1>2. Tcs' = Tcs
  BY <1>1 DEF Tcs
<1>3. ASSUME harm = {} PROVE InFrames'
  <2>1. PICK m \in Nat :
          \E f \in [1 .. m -> Frames], at, num \in [1 .. m + 1 -> Nat] : Framed(m, f, at, num)
    BY <1>3 DEF Numbered, InFrames
  <2>2. PICK f \in [1 .. m -> Frames], at \in [1 .. m + 1 -> Nat], num \in [1 .. m + 1 -> Nat] :
          Framed(m, f, at, num)
    BY <2>1
  <2>3. Flow(Consumed, InFlight, Len(InFlight), m, f, at, num)
    BY <2>2 DEF Framed
  <2>4. CASE pc = "type"
    <3>1. item' = [item EXCEPT !.type = Head(fifo)] /\ pc' = "len"
      BY <2>4 DEF Header
    <3>2. Consumed = 0 /\ Consumed' = 0 + 1
      BY <2>4, <3>1 DEF Consumed
    <3>3. m > 0
      <4>1. at[1] = 0 /\ at[m + 1] = 0 + Len(InFlight)
        BY <2>3, <3>2 DEF Flow
      <4>2. Len(InFlight) \in Nat /\ Len(InFlight) >= 1
        BY <1>1, GetCFlight
      <4> QED
        BY <4>1, <4>2
    <3>4. f[1].len \in Nat /\ 0 < 2 + f[1].len
      BY <3>3 DEF Frames
    <3>5. /\ Head(fifo) = ByteOf(f[1], num[1] + 1, 0 + 1)
          /\ Flow(0 + 1, InFlight', Len(InFlight'), m, f, at, num)
      BY <1>1, <2>3, <3>2, <3>3, <3>4, NextByte, ZenonT(30)
    <3>6. item'.type = f[1].type
      <4>1. Head(fifo) = f[1].type
        BY <3>5 DEF ByteOf
      <4> QED
        BY <3>1, <4>1 DEF TypedItem, TypeOK
    <3>7. Framed(m, f, at, num)'
      BY <1>1, <1>2, <2>2, <3>1, <3>2, <3>3, <3>5, <3>6 DEF Framed
    <3> QED
      BY <3>7 DEF InFrames
  <2>5. CASE pc = "len"
    <3>1. /\ item' = [item EXCEPT !.len = Head(fifo)]
          /\ pc' = IF Fits(Head(fifo)) THEN "data" ELSE "flushFrame"
      BY <2>5 DEF Header
    <3>2. Consumed = 1 /\ item.data = << >> /\ m > 0 /\ item.type = f[1].type
      BY <2>2, <2>5 DEF Consumed, TypedItem, ItemBounded, Framed
    <3>3. f[1].len \in 0 .. MaxLen /\ 1 < 2 + f[1].len
      BY <3>2, Bounds DEF Frames
    <3>4. /\ Head(fifo) = ByteOf(f[1], num[1] + 1, 1 + 1)
          /\ at[2] = 2 + f[1].len
          /\ num[2] = num[1] + (IF IsTc(f[1]) THEN 1 ELSE 0)
          /\ Flow(1 + 1, InFlight', Len(InFlight'), m, f, at, num)
      BY <1>1, <2>3, <3>2, <3>3, NextByte
    <3>5. Head(fifo) = f[1].len
      BY <3>4 DEF ByteOf
    <3>6. item'.len = f[1].len /\ item'.type = f[1].type /\ item'.data = << >>
      BY <3>1, <3>2, <3>5 DEF TypedItem, TypeOK
    <3>7. CASE Fits(Head(fifo))
      <4>1. pc' = "data" /\ Consumed' = 1 + 1
        BY <3>1, <3>6, <3>7 DEF Consumed
      <4>2. Framed(m, f, at, num)'
        BY <1>1, <1>2, <2>2, <3>2, <3>4, <3>6, <4>1 DEF Framed
      <4> QED
        BY <4>2 DEF InFrames
    <3>8. CASE ~Fits(Head(fifo))
      <4>1. pc' = "flushFrame" /\ Consumed' = 0
        BY <3>1, <3>8 DEF Consumed
      <4>2. f[1].len = 0
        <5>1. ~(f[1].len > 0 /\ f[1].len <= MaxLen)
          BY <3>5, <3>8 DEF Fits
        <5> QED
          BY <3>3, <5>1, Bounds
      <4>3. /\ at[2] = 2 /\ ~IsTc(f[1]) /\ Len(InFlight') \in Nat
            /\ Flow(2, InFlight', Len(InFlight'), m, f, at, num)
        <5>1. at[2] = 2
          BY <3>4, <4>2
        <5>2. ~IsTc(f[1])
          BY <4>2 DEF IsTc
        <5>3. Len(InFlight') \in Nat
          BY <1>1, GetCFlight
        <5>4. Flow(2, InFlight', Len(InFlight'), m, f, at, num)
          <6>1. 1 + 1 = 2
            OBVIOUS
          <6> QED
            BY <3>4, <6>1
        <5> QED
          BY <5>1, <5>2, <5>3, <5>4
      <4>4. Whole(InFlight', Len(InFlight'), num[1] + (IF IsTc(f[1]) THEN 1 ELSE 0), num[m + 1])
        <5>1. 2 \in Nat /\ m > 0 /\ Same(at[2], 2)
          BY <3>2, <4>3 DEF Same
        <5> QED
          BY <4>3, <5>1, FlowDone
      <4>5. num[1] + (IF IsTc(f[1]) THEN 1 ELSE 0) = Len(Tcs') /\ num[m + 1] = Len(sent')
        <5>1. 1 \in 1 .. m + 1 /\ num[1] \in Nat /\ num[1] = Len(Tcs) /\ num[m + 1] = Len(sent)
          BY <2>2 DEF Framed
        <5> QED
          BY <1>1, <1>2, <4>3, <5>1
      <4> QED
        BY <4>1, <4>4, <4>5, WholeFramed
    <3> QED
      BY <3>7, <3>8
  <2> QED
    BY <2>4, <2>5 DEF Header
<1> QED
  BY <1>1, <1>2, <1>3 DEF Numbered

(* A byte of the data is read, and with the last one the telecommand goes  *)
(* to the queue.                                                           *)
LEMMA DataNumbered == ASSUME TypedItem, Numbered, Data PROVE Numbered'
<1> DEFINE d == item.data
<1> DEFINE D == Append(item.data, Head(fifo))
<1>1. /\ GetC /\ pc = "data" /\ UNCHANGED <<line, sent, handled, cur>>
      /\ item' = [item EXCEPT !.data = D]
  BY DEF Data, groundVars
<1>2. /\ fifo \in Seq(Nat) /\ fifo # << >> /\ Head(fifo) \in Nat /\ d \in Seq(Nat)
      /\ item.type \in Nat /\ item.len \in Nat
  <2>1. fifo \in Seq(Nat) /\ fifo # << >>
    BY <1>1 DEF TypedItem, TypeOK, GetC
  <2>2. Head(fifo) \in Nat
    BY <2>1, TailShape
  <2>3. d \in Seq(Nat) /\ item.type \in Nat /\ item.len \in Nat
    BY DEF TypedItem, TypeOK
  <2> QED
    BY <2>1, <2>2, <2>3
<1>3. item'.data = D /\ item'.type = item.type /\ item'.len = item.len
  BY <1>1 DEF TypedItem, TypeOK
<1>4. /\ D \in Seq(Nat) /\ Len(D) = Len(d) + 1 /\ Len(d) \in Nat
      /\ \A k \in 1 .. Len(d) : D[k] = d[k]
      /\ D[Len(d) + 1] = Head(fifo)
  BY <1>2, AppendShape
<1>5. Fits(item.len) /\ Len(d) < item.len
  BY <1>1 DEF TypedItem, ItemBounded
<1> HIDE DEF D, d
<1>6. ASSUME harm' = {} PROVE InFrames' /\ InOrder(Tcs')
  <2>1. harm = {}
    BY <1>6 DEF Data
  <2>2. PICK m \in Nat :
          \E f \in [1 .. m -> Frames], at, num \in [1 .. m + 1 -> Nat] : Framed(m, f, at, num)
    BY <2>1 DEF Numbered, InFrames
  <2>3. PICK f \in [1 .. m -> Frames], at \in [1 .. m + 1 -> Nat], num \in [1 .. m + 1 -> Nat] :
          Framed(m, f, at, num)
    BY <2>2
  <2>4. /\ Flow(Consumed, InFlight, Len(InFlight), m, f, at, num)
        /\ num[1] = Len(Tcs) /\ num[m + 1] = Len(sent)
        /\ m > 0 /\ item.type = f[1].type /\ item.len = f[1].len
        /\ \A j \in DOMAIN d : d[j] = num[1] + 1
    BY <1>1, <2>3 DEF Framed, d
  <2>5. PICK c \in Nat : c = 2 + Len(d) /\ c = Consumed
    BY <1>1, <1>4 DEF Consumed, d
  <2>6. c < 2 + f[1].len
    <3>1. Len(d) \in Nat /\ item.len \in Nat /\ Len(d) < item.len
      BY <1>2, <1>4, <1>5
    <3>2. 2 + Len(d) < 2 + item.len
      BY <3>1
    <3> QED
      BY <2>4, <2>5, <3>2, Zenon
  <2>7. /\ Head(fifo) = ByteOf(f[1], num[1] + 1, c + 1)
        /\ at[2] = 2 + f[1].len
        /\ Flow(c + 1, InFlight', Len(InFlight'), m, f, at, num)
    <3>1. Flow(c, InFlight, Len(InFlight), m, f, at, num)
      BY <2>4, <2>5
    <3> QED
      BY <1>1, <2>4, <2>6, <3>1, NextByte
  <2>8. Head(fifo) = num[1] + 1
    <3>1. c + 1 # 1 /\ c + 1 # 2
      BY <1>4, <2>5
    <3> QED
      BY <2>7, <3>1 DEF ByteOf
  <2>9. \A j \in DOMAIN D : D[j] = num[1] + 1
    <3>1. DOMAIN D = 1 .. Len(d) + 1 /\ DOMAIN d = 1 .. Len(d)
      BY <1>2, <1>4
    <3>2. ASSUME NEW j \in 1 .. Len(d) + 1 PROVE D[j] = num[1] + 1
      <4>1. CASE j = Len(d) + 1
        BY <1>4, <2>8, <4>1
      <4>2. CASE j # Len(d) + 1
        <5>1. j \in 1 .. Len(d)
          BY <1>4, <4>2
        <5> QED
          BY <1>4, <2>4, <3>1, <5>1
      <4> QED
        BY <4>1, <4>2
    <3> QED
      BY <3>1, <3>2
  <2>10. InOrder(Tcs)
    BY <2>1 DEF Numbered
  <2>11. CASE Len(D) < item.len
    <3>1. pc' = pc /\ tcq' = tcq
      BY <1>3, <2>11 DEF Data
    <3>2. Tcs' = Tcs
      BY <1>1, <3>1 DEF Tcs
    <3>3. Consumed' = c + 1
      <4>1. Consumed' = 2 + Len(D)
        BY <1>1, <1>3, <3>1 DEF Consumed
      <4> QED
        BY <1>4, <2>5, <4>1
    <3>4. Framed(m, f, at, num)'
      BY <1>1, <1>3, <2>4, <2>7, <2>9, <3>1, <3>2, <3>3 DEF Framed
    <3> QED
      BY <2>10, <3>2, <3>4 DEF InFrames
  <2>12. CASE ~(Len(D) < item.len)
    <3>1. /\ pc' = "flushFrame"
          /\ tcq' = IF item.type = WIRE_TC THEN Queued(tcq, D) ELSE tcq
          /\ item.type = WIRE_TC => tcq' # tcq
      BY <1>3, <1>6, <2>12 DEF Data
    <3>2. Len(D) = f[1].len /\ f[1].len > 0 /\ at[2] = c + 1
      <4>1. item.len > 0
        BY <1>5 DEF Fits
      <4>2. Len(D) = item.len
        BY <1>2, <1>4, <1>5, <2>12
      <4>3. 2 + item.len = c + 1
        BY <1>4, <2>5, <4>2, SMTT(30)
      <4> QED
        BY <2>4, <2>7, <4>1, <4>2, <4>3, Zenon
    <3>3. Whole(InFlight', Len(InFlight'), num[1] + (IF IsTc(f[1]) THEN 1 ELSE 0), num[m + 1])
      <4>1. c + 1 \in Nat /\ Len(InFlight') \in Nat
        BY <1>1, GetCFlight
      <4>2. Same(at[2], c + 1)
        BY <3>2 DEF Same
      <4> QED
        BY <2>4, <2>7, <4>1, <4>2, FlowDone
    <3>4. /\ Len(Tcs') = num[1] + (IF IsTc(f[1]) THEN 1 ELSE 0)
          /\ InOrder(Tcs')
      <4>1. handled \in Seq(Seq(Nat)) /\ cur \in Seq(Seq(Nat)) /\ tcq \in Seq(Seq(Nat))
        BY DEF TypedItem, TypeOK
      <4>2. Tcs \in Seq(Seq(Nat)) /\ Len(Tcs) \in Nat
        BY <4>1, TcsShape DEF Tcs
      <4>3. CASE item.type = WIRE_TC
        <5>1. tcq' = Append(tcq, D)
          BY <3>1, <4>3 DEF Queued
        <5>2. Tcs' = Append(Tcs, D)
          <6>1. Tcs' = handled \o cur \o Append(tcq, D)
            BY <1>1, <5>1 DEF Tcs
          <6>2. Same(handled \o cur \o Append(tcq, D), Append(handled \o cur \o tcq, D))
            BY <1>4, <4>1, TcsAppended
          <6> QED
            BY <6>1, <6>2, Zenon DEF Tcs, Same
        <5>3. IsTc(f[1])
          BY <2>4, <3>2, <4>3 DEF IsTc
        <5>4. Len(Tcs') = Len(Tcs) + 1
          BY <1>4, <4>2, <5>2, AppendShape
        <5>5. InOrder(Append(Tcs, D))
          <6>1. D # << >>
            BY <1>4
          <6>2. \A j \in DOMAIN D : D[j] = Len(Tcs) + 1
            BY <2>4, <2>9
          <6> QED
            BY <1>4, <2>10, <4>2, <6>1, <6>2, OrderAppended
        <5> QED
          BY <2>4, <5>2, <5>3, <5>4, <5>5
      <4>4. CASE item.type # WIRE_TC
        <5>1. Tcs' = Tcs
          BY <1>1, <3>1, <4>4 DEF Tcs
        <5>2. ~IsTc(f[1])
          BY <2>4, <4>4 DEF IsTc
        <5>3. num[1] + (IF IsTc(f[1]) THEN 1 ELSE 0) = Len(Tcs)
          BY <2>4, <4>2, <5>2
        <5> QED
          BY <2>10, <5>1, <5>3
      <4> QED
        BY <4>3, <4>4
    <3>5. InFrames'
      BY <1>1, <2>4, <3>1, <3>3, <3>4, WholeFramed
    <3> QED
      BY <3>4, <3>5
  <2> QED
    BY <2>11, <2>12
<1> QED
  BY <1>1, <1>6 DEF Numbered

(* A frame is sent.                                                        *)
LEMMA SendNumbered ==
  ASSUME TypedItem, Numbered, NEW type \in 1 .. 2, NEW len \in 0 .. MaxLen + 1,
         SendFrame(type, len)
  PROVE  Numbered'
<1> DEFINE n == Len(sent) + 1
<1> DEFINE g == [type |-> type, len |-> len]
<1>1. /\ line = << >> /\ UNCHANGED <<fifo, pc, item, handled, cur, tcq>>
      /\ line' = <<type, len>> \o [i \in 1 .. len |-> n]
      /\ sent' = IF type = WIRE_TC /\ len \in 1 .. MaxLen THEN Append(sent, n) ELSE sent
      /\ harm' = IF len > MaxLen THEN harm \cup {"unsynced"} ELSE harm
  BY DEF SendFrame, pusVars
<1>2. /\ sent \in Seq(Nat) /\ Len(sent) \in Nat /\ n \in Nat /\ type \in Nat /\ len \in Nat
      /\ fifo \in Seq(Nat)
  BY Bounds DEF TypedItem, TypeOK
<1>3. \A k \in DOMAIN sent' : sent'[k] = k
  <2>1. \A k \in DOMAIN sent : sent[k] = k
    BY DEF Numbered
  <2>2. \A k \in DOMAIN Append(sent, n) : Append(sent, n)[k] = k
    BY <1>2, <2>1
  <2> QED
    BY <1>1, <2>1, <2>2
<1>4. /\ line' \in Seq(Nat) /\ Len(line') = 2 + len /\ line'[1] = type /\ line'[2] = len
      /\ \A k \in 3 .. 2 + len : line'[k] = n
  <2> HIDE DEF n
  <2> QED
    BY <1>1, <1>2, FrameBytes
<1>5. Tcs' = Tcs
  BY <1>1 DEF Tcs
<1>6. ASSUME harm' = {} PROVE harm = {} /\ InFrames'
  <2>1. harm = {} /\ len <= MaxLen
    <3>1. ~(len > MaxLen)
      BY <1>1, <1>6
    <3>2. len <= MaxLen
      BY <1>2, <3>1, Bounds
    <3> QED
      BY <1>1, <1>6, <3>1, <3>2
  <2>2. PICK m \in Nat :
          \E f \in [1 .. m -> Frames], at, num \in [1 .. m + 1 -> Nat] : Framed(m, f, at, num)
    BY <2>1 DEF Numbered, InFrames
  <2>3. PICK f \in [1 .. m -> Frames], at \in [1 .. m + 1 -> Nat], num \in [1 .. m + 1 -> Nat] :
          Framed(m, f, at, num)
    BY <2>2
  <2>4. /\ Flow(Consumed, InFlight, Len(InFlight), m, f, at, num)
        /\ num[1] = Len(Tcs) /\ num[m + 1] = Len(sent)
        /\ pc \in {"len", "data"} => m > 0 /\ item.type = f[1].type
        /\ pc = "data" => /\ item.len = f[1].len
                          /\ \A j \in DOMAIN item.data : item.data[j] = num[1] + 1
    BY <2>3 DEF Framed
  <2>5. /\ Consumed \in Nat /\ Len(InFlight) \in Nat /\ Len(InFlight) = Len(fifo)
        /\ \A x \in 1 .. Len(fifo) : InFlight[x] = fifo[x]
    BY <1>1, <1>2, FlightShape, SMTT(30)
  <2>6. g \in Frames /\ g.len = len /\ g.type = type
    BY <1>2, <2>1, Bounds DEF Frames
  <2>7. /\ Len(InFlight') = Len(fifo) + Len(line')
        /\ \A x \in 1 .. Len(fifo) : InFlight'[x] = fifo[x]
        /\ \A x \in 1 .. Len(line') : InFlight'[Len(fifo) + x] = line'[x]
    <3>1. InFlight' = fifo \o line'
      BY <1>1 DEF InFlight
    <3>2. fifo \in Seq(Nat) /\ line' \in Seq(Nat)
      BY <1>2, <1>4
    <3>3. ASSUME NEW s \in Seq(Nat), NEW u \in Seq(Nat)
          PROVE  /\ Len(s \o u) = Len(s) + Len(u)
                 /\ \A x \in 1 .. Len(s) : (s \o u)[x] = s[x]
                 /\ \A x \in 1 .. Len(u) : (s \o u)[Len(s) + x] = u[x]
      BY <3>3
    <3> QED
      BY <3>1, <3>2, <3>3, Zenon
  <2> HIDE DEF g
  <2>8. \A x \in 1 .. 2 + g.len : InFlight'[Len(InFlight) + x] = ByteOf(g, num[m + 1] + 1, x)
    <3> SUFFICES ASSUME NEW x \in 1 .. 2 + len
                 PROVE  line'[x] = ByteOf(g, n, x)
      BY <1>4, <2>4, <2>5, <2>6, <2>7
    <3>1. x = 1 \/ x = 2 \/ x \in 3 .. 2 + len
      BY <1>2
    <3> HIDE DEF n
    <3> QED
      BY <1>4, <2>6, <3>1 DEF ByteOf
  <2>9. PICK F \in [1 .. m + 1 -> Frames], At \in [1 .. m + 1 + 1 -> Nat],
             Num \in [1 .. m + 1 + 1 -> Nat] :
          /\ Flow(Consumed, InFlight', Len(InFlight) + 2 + g.len, m + 1, F, At, Num)
          /\ \A k \in 1 .. m : F[k] = f[k]
          /\ Num[1] = num[1]
          /\ Num[m + 1 + 1] = num[m + 1] + (IF IsTc(g) THEN 1 ELSE 0)
    <3>1. Prefix(InFlight, InFlight', Len(InFlight))
      BY <2>5, <2>7 DEF Prefix
    <3>2. FrameAt(g, num[m + 1] + 1, InFlight', Len(InFlight))
      BY <2>8 DEF FrameAt
    <3>3. Longer(Consumed, InFlight', Len(InFlight) + 2 + g.len, m, f,
                 num[1], num[m + 1] + (IF IsTc(g) THEN 1 ELSE 0))
      BY <2>4, <2>5, <2>6, <3>1, <3>2, FlowSent, Zenon
    <3> QED
      BY <3>3, Zenon DEF Longer
  <2>10. Consumed' = Consumed
    BY <1>1 DEF Consumed
  <2>11. Len(InFlight') = Len(InFlight) + 2 + g.len
    BY <1>2, <1>4, <2>5, <2>6, <2>7
  <2>12. num[m + 1] + (IF IsTc(g) THEN 1 ELSE 0) = Len(sent')
    <3>1. IsTc(g) <=> type = WIRE_TC /\ len \in 1 .. MaxLen
      BY <1>2, <2>1, <2>6, Bounds, SMTT(30) DEF IsTc
    <3>2. CASE IsTc(g)
      <4>1. sent' = Append(sent, n)
        BY <1>1, <3>1, <3>2
      <4>2. Len(sent') = Len(sent) + 1
        BY <1>2, <4>1, AppendShape
      <4> QED
        BY <2>4, <3>2, <4>2
    <3>3. CASE ~IsTc(g)
      <4>1. sent' = sent
        BY <1>1, <3>1, <3>3
      <4> QED
        BY <1>2, <2>4, <3>3, <4>1
    <3> QED
      BY <3>2, <3>3
  <2>13. m > 0 => F[1] = f[1]
    BY <2>9
  <2>14. m + 1 \in Nat /\ m + 1 > 0
    OBVIOUS
  <2>15. Flow(Consumed', InFlight', Len(InFlight'), m + 1, F, At, Num)
    BY <2>9, <2>10, <2>11
  <2>16. Num[1] = Len(Tcs') /\ Num[m + 1 + 1] = Len(sent')
    BY <1>5, <2>4, <2>9, <2>12
  <2>17. Framed(m + 1, F, At, Num)'
    BY <1>1, <2>4, <2>9, <2>13, <2>14, <2>15, <2>16 DEF Framed
  <2> QED
    BY <2>1, <2>14, <2>17 DEF InFrames
<1>7. Len(cur') <= 1
  BY <1>1 DEF Numbered
<1> QED
  BY <1>3, <1>5, <1>6, <1>7 DEF Numbered

LEMMA InitNumbered == Init => Numbered
<1> SUFFICES ASSUME Init PROVE Numbered
  OBVIOUS
<1>1. /\ line = << >> /\ sent = << >> /\ fifo = << >> /\ pc = "poll"
      /\ tcq = << >> /\ cur = << >> /\ handled = << >>
  BY DEF Init, LineInit, UartInit, TmtcInit, PusInit
<1>2. InFlight = << >> /\ Tcs = << >> /\ Consumed = 0
  BY <1>1 DEF InFlight, Tcs, Consumed
<1>3. InFrames
  <2> DEFINE f == [k \in 1 .. 0 |-> [type |-> 1, len |-> 0]]
  <2> DEFINE z == [k \in 1 .. 0 + 1 |-> 0]
  <2>1. /\ f \in [1 .. 0 -> Frames] /\ z \in [1 .. 0 + 1 -> Nat]
        /\ \A k \in 1 .. 0 + 1 : z[k] = 0
        /\ 1 \in 1 .. 0 + 1 /\ 0 + 1 \in 1 .. 0 + 1
    OBVIOUS
  <2> HIDE DEF f, z
  <2>2. Flow(Consumed, InFlight, Len(InFlight), 0, f, z, z)
    BY <1>2, <2>1 DEF Flow
  <2>3. Framed(0, f, z, z)
    BY <1>1, <1>2, <2>1, <2>2 DEF Framed
  <2> QED
    BY <2>1, <2>3 DEF InFrames
<1>4. InOrder(Tcs) /\ Len(cur) <= 1 /\ \A k \in DOMAIN sent : sent[k] = k
  BY <1>1, <1>2 DEF InOrder
<1> QED
  BY <1>3, <1>4 DEF Numbered

LEMMA NextNumbered == TypedItem /\ Numbered /\ [Next]_vars => Numbered'
<1> SUFFICES ASSUME TypedItem, Numbered, [Next]_vars PROVE Numbered'
  OBVIOUS
<1>1. CASE UNCHANGED vars
  <2>1. UNCHANGED <<fifo, line, sent, handled, cur, tcq, harm, pc, item>>
    BY <1>1 DEF vars
  <2>2. Tcs' = Tcs /\ Len(cur') <= 1
    BY <2>1 DEF Tcs, Numbered
  <2> QED
    BY <2>1, <2>2, NumberedKept
<1>2. CASE Next
  BY <1>2, SendNumbered, TickNumbered, QuietNumbered, HeaderNumbered, DataNumbered,
     LowerNumbered, ResetNumbered DEF Next, Tmtc
<1> QED
  BY <1>1, <1>2

(* As long as nothing is lost, dropped, reset or too long, the telecommands *)
(* that reach the PUS task are those the ground sent, whole and in order   *)
(* (tmtc.c:144-163), whatever the ground sends and however the tasks, the  *)
(* interrupt and the bytes interleave: the bytes between the ground and    *)
(* the task are always whole frames but for what it has read of the first. *)
THEOREM UplinkIsFaithful == Spec => []UplinkFaithful
<1>1. TypedItem /\ Numbered => UplinkFaithful
  <2> SUFFICES ASSUME TypedItem, Numbered, harm = {}
               PROVE  /\ Len(Tcs) <= Len(sent)
                      /\ \A i \in DOMAIN Tcs : /\ Tcs[i] # << >>
                                               /\ \A j \in DOMAIN Tcs[i] : Tcs[i][j] = sent[i]
    BY DEF UplinkFaithful
  <2>1. PICK m \in Nat :
          \E f \in [1 .. m -> Frames], at, num \in [1 .. m + 1 -> Nat] : Framed(m, f, at, num)
    BY DEF Numbered, InFrames
  <2>2. PICK f \in [1 .. m -> Frames], at \in [1 .. m + 1 -> Nat], num \in [1 .. m + 1 -> Nat] :
          Framed(m, f, at, num)
    BY <2>1
  <2>3. Len(Tcs) <= Len(sent)
    <3>1. 1 \in 1 .. m + 1 /\ m + 1 \in 1 .. m + 1 /\ 1 <= m + 1
      OBVIOUS
    <3>2. num[1] <= num[m + 1]
      BY <2>2, <3>1 DEF Framed, Flow
    <3> QED
      BY <2>2, <3>2 DEF Framed
  <2>4. /\ Tcs \in Seq(Seq(Nat)) /\ DOMAIN Tcs = 1 .. Len(Tcs) /\ Len(Tcs) \in Nat
        /\ DOMAIN sent = 1 .. Len(sent) /\ Len(sent) \in Nat
    <3>1. /\ handled \in Seq(Seq(Nat)) /\ cur \in Seq(Seq(Nat)) /\ tcq \in Seq(Seq(Nat))
          /\ sent \in Seq(Nat)
      BY DEF TypedItem, TypeOK
    <3>2. Tcs \in Seq(Seq(Nat))
      BY <3>1, TcsShape DEF Tcs
    <3> QED
      BY <3>1, <3>2
  <2>5. ASSUME NEW i \in DOMAIN Tcs PROVE sent[i] = i
    <3>1. i \in DOMAIN sent
      BY <2>3, <2>4
    <3> QED
      BY <3>1 DEF Numbered
  <2>6. InOrder(Tcs)
    BY DEF Numbered
  <2> QED
    BY <2>3, <2>5, <2>6 DEF InOrder
<1> QED
  BY <1>1, Typed, InitNumbered, NextNumbered, PTL DEF Spec
-----------------------------------------------------------------------------
(* A ground in lock-step: one frame at a time                              *)

LEMMA LoneKept ==
  ASSUME UNCHANGED <<pc, item>> \/ (UNCHANGED item /\ pc \notin {"len", "data"}
                                                  /\ pc' \notin {"len", "data"}),
         Len(InFlight') = Len(InFlight), NEW len \in Nat, Lone(len),
         \A x \in 1 .. Len(InFlight) : InFlight'[x] = InFlight[x], Len(InFlight) \in Nat
  PROVE  Lone(len)'
<1>1. Consumed' = Consumed
  BY DEF Consumed
<1>2. Consumed = 0 => Len(InFlight) = 2 + len
  BY DEF Lone
<1>3. Consumed = 1 => Len(InFlight) = 1 + len
  BY DEF Lone
<1>4. Consumed = 0 => InFlight'[2] = InFlight[2]
  BY <1>2
<1>5. ASSUME Consumed = 1, InFlight[1] = len PROVE InFlight'[1] = len
  <2>1. CASE Len(InFlight) >= 1
    BY <1>5, <2>1
  <2>2. CASE Len(InFlight) = 0
    BY <1>3, <1>5, <2>2
  <2> QED
    BY <2>1, <2>2
<1> QED
  BY <1>1, <1>4, <1>5 DEF Lone

LEMMA QuietOne ==
  ASSUME TypedItem, OneAtATime,
         \/ UNCHANGED vars \/ Isr \/ Poll \/ Arm \/ Take \/ NapEnds \/ Flush
         \/ \E wakes \in BOOLEAN : Report(wakes)
  PROVE  OneAtATime'
<1>1. UNCHANGED <<fifo, line, waits, tcq, cur, harm, item>>
  BY DEF vars, Isr, Poll, Arm, Take, NapEnds, Flush, Report, groundVars, pusVars
<1>2. \/ pc' = pc
      \/ /\ pc \in {"poll", "arm", "take", "block", "flushIdle"}
         /\ pc' \in {"poll", "arm", "take", "block", "flushIdle"}
      \/ pc = "poll" /\ pc' = "type" /\ fifo # << >>
      \/ pc = "flushFrame" /\ pc' = "eot"
  BY DEF vars, Isr, Poll, Arm, Take, NapEnds, Flush, Report
<1>3. InFlight' = InFlight /\ (Awaited' <=> Awaited) /\ Len(InFlight) \in Nat
  BY <1>1, FlightShape DEF InFlight, Awaited
<1>4. ASSUME NEW len \in Nat, Lone(len), pc' \notin {"flushFrame", "eot"} PROVE Lone(len)'
  BY <1>1, <1>2, <1>3, <1>4, LoneKept
<1>5. fifo # << >> => waits
  BY DEF OneAtATime
<1>6. pc' \in {"type", "len", "data", "flushFrame", "eot"} => waits
  BY <1>2, <1>5 DEF OneAtATime
<1>7. ASSUME waits, pc' \notin {"flushFrame", "eot"}
      PROVE  ~Awaited' /\ \E len \in Nat : Lone(len)'
  <2>1. pc \notin {"flushFrame", "eot"}
    BY <1>2, <1>7
  <2>2. ~Awaited /\ \E len \in Nat : Lone(len)
    BY <1>7, <2>1 DEF OneAtATime
  <2> QED
    BY <1>3, <1>4, <1>7, <2>2
<1>8. ~waits \/ pc' \in {"flushFrame", "eot"} => line = << >> /\ fifo = << >>
  BY <1>2 DEF OneAtATime
<1> QED
  BY <1>1, <1>6, <1>7, <1>8 DEF OneAtATime

(* The FIFO has room for the frame.                                        *)
LEMMA TickOne ==
  ASSUME TypedItem, NapBound, OneAtATime, Uncrossed, NEW byte \in BOOLEAN, Tick(byte)
  PROVE  OneAtATime'
<1>1. UNCHANGED <<pc, item, waits, tcq, cur>>
  BY DEF Tick, pusVars
<1>2. harm' = {}
  <2>1. CASE byte = FALSE
    BY <2>1 DEF Tick, OneAtATime
  <2>2. CASE byte = TRUE
    <3>1. line # << >>
      BY <2>2 DEF Tick
    <3>2. CASE ~busy
      BY <3>2, TickNap DEF OneAtATime
    <3>3. CASE busy
      <4>1. PICK a \in Nat, l \in Nat : a = Len(fifo) /\ l = Len(line) /\ l >= 1
        <5>1. Len(fifo) \in Nat /\ Len(line) \in Nat /\ Len(line) >= 1
          BY <3>1, TailShape DEF TypedItem, TypeOK
        <5> QED
          BY <5>1, Zenon
      <4>2. a < FifoDepth
        <5>1. CASE fifo = << >>
          <6>1. a = 0
            BY <4>1, <5>1
          <6> QED
            BY <6>1, Bounds
        <5>2. CASE fifo # << >>
          <6>1. a + l <= FifoDepth
            BY <3>3, <4>1, <5>2, Zenon DEF Uncrossed
          <6> QED
            BY <4>1, <6>1, Bounds
        <5> QED
          BY <5>1, <5>2
      <4>3. ~(a >= FifoDepth)
        BY <4>2, Bounds
      <4>4. ~Full(fifo)
        BY <4>1, <4>3, Zenon DEF Full
      <4> QED
        BY <2>2, <4>4 DEF Tick, OneAtATime
    <3> QED
      BY <3>2, <3>3
  <2> QED
    BY <2>1, <2>2
<1>3. /\ Len(InFlight') = Len(InFlight) /\ Len(InFlight) \in Nat
      /\ \A x \in 1 .. Len(InFlight) : InFlight'[x] = InFlight[x]
  BY <1>2, TickFlight
<1>4. Awaited' <=> Awaited
  BY <1>1 DEF Awaited
<1>5. ASSUME waits, pc \notin {"flushFrame", "eot"}
      PROVE  ~Awaited' /\ \E len \in Nat : Lone(len)'
  <2>1. PICK len \in Nat : ~Awaited /\ Lone(len)
    BY <1>5 DEF OneAtATime
  <2>2. Lone(len)'
    BY <1>1, <1>3, <2>1, LoneKept
  <2> QED
    BY <1>4, <2>1, <2>2
<1>6. ASSUME ~waits \/ pc \in {"flushFrame", "eot"} PROVE line' = << >> /\ fifo' = << >>
  <2>1. line = << >> /\ fifo = << >>
    BY <1>6 DEF OneAtATime
  <2>2. byte = FALSE
    BY <2>1 DEF Tick
  <2> QED
    BY <2>1, <2>2 DEF Tick
<1> QED
  BY <1>1, <1>2, <1>5, <1>6 DEF OneAtATime

LEMMA EndOne == ASSUME TypedItem, OneAtATime, EndOfTick PROVE OneAtATime'
<1>1. /\ pc = "eot" /\ pc' = "poll" /\ UNCHANGED <<fifo, line, tcq, cur, harm>>
  BY DEF EndOfTick, groundVars, pusVars
<1>2. ~waits'
  BY Zenon DEF EndOfTick
<1>3. line = << >> /\ fifo = << >>
  BY <1>1 DEF OneAtATime
<1> QED
  BY <1>1, <1>2, <1>3 DEF OneAtATime

(* The answers to a telecommand                                            *)
LEMMA LowerOne ==
  ASSUME TypedItem, OneAtATime, PusTake \/ \E n \in Replies : PusDispatch(n)
  PROVE  OneAtATime'
<1>1. /\ pc = "block" /\ pc' \in {"block", "flushIdle"} /\ Awaited
      /\ UNCHANGED <<fifo, line, waits, harm>>
  BY DEF PusTake, PusDispatch, groundVars, Awaited
<1>2. ~waits
  BY <1>1 DEF OneAtATime
<1>3. tcq \in Seq(Seq(Nat)) /\ cur \in Seq(Seq(Nat))
  BY DEF TypedItem, TypeOK
<1>4. PICK a \in Nat, b \in Nat : a = Len(tcq) /\ b = Len(cur) /\ a + b <= 1
  <2>1. Len(tcq) \in Nat /\ Len(cur) \in Nat
    BY <1>3
  <2>2. Len(tcq) + Len(cur) <= 1
    BY DEF OneAtATime
  <2> QED
    BY <2>1, <2>2, Zenon
<1>5. Len(tcq') + Len(cur') <= 1
  <2>1. CASE PusTake
    <3>1. tcq # << >> /\ tcq' = Tail(tcq) /\ Len(cur') = 1
      BY <2>1 DEF PusTake
    <3>2. Len(Tail(tcq)) = Len(tcq) - 1 /\ Len(tcq) >= 1
      BY <1>3, <3>1, TailShape
    <3>3. Len(tcq') = a - 1 /\ a >= 1
      BY <1>4, <3>1, <3>2, Zenon
    <3>4. a - 1 + 1 <= 1
      BY <1>4, <3>3
    <3> QED
      BY <3>1, <3>3, <3>4, Zenon
  <2>2. CASE \E n \in Replies : PusDispatch(n)
    <3>1. tcq' = tcq /\ Len(cur') = 0
      BY <2>2 DEF PusDispatch
    <3>2. a + 0 <= 1
      BY <1>4
    <3> QED
      BY <1>4, <3>1, <3>2, Zenon
  <2> QED
    BY <2>1, <2>2
<1>6. line = << >> /\ fifo = << >> /\ harm = {}
  BY <1>2 DEF OneAtATime
<1> QED
  BY <1>1, <1>2, <1>5, <1>6 DEF OneAtATime

(* Its bytes are read.                                                     *)
LEMMA NoBytes == ASSUME NEW S, NEW s \in Seq(S), Len(s) = 0 PROVE s = << >>
OBVIOUS

LEMMA GetCLone ==
  ASSUME TypedItem, GetC, line' = line
  PROVE  /\ Len(InFlight') \in Nat /\ Len(InFlight) \in Nat
         /\ Len(InFlight') + 1 = Len(InFlight) /\ InFlight[1] = Head(fifo)
         /\ \A x \in 1 .. Len(InFlight') : InFlight'[x] = InFlight[x + 1]
         /\ Len(InFlight') = 0 => line' = << >> /\ fifo' = << >>
<1>1. /\ Len(InFlight') = Len(InFlight) - 1 /\ Len(InFlight) \in Nat
      /\ Len(InFlight) >= 1 /\ InFlight[1] = Head(fifo)
      /\ \A x \in 1 .. Len(InFlight) - 1 : InFlight'[x] = InFlight[x + 1]
  BY GetCFlight
<1>2. PICK s \in Nat : s = Len(InFlight) /\ s >= 1 /\ Len(InFlight') = s - 1
  BY <1>1, Zenon
<1>3. s - 1 \in Nat /\ s - 1 + 1 = s
  BY <1>2
<1>4. ASSUME s - 1 = 0 PROVE line' = << >> /\ fifo' = << >>
  <2>1. fifo \in Seq(Nat) /\ fifo # << >> /\ line \in Seq(Nat) /\ fifo' = Tail(fifo)
    BY DEF GetC, TypedItem, TypeOK
  <2>2. PICK a \in Nat, b \in Nat : a = Len(fifo) /\ b = Len(line) /\ s = a + b
    BY <1>2, FlightShape
  <2>3. a >= 1
    BY <2>1, <2>2, TailShape
  <2>4. a = 1 /\ b = 0
    BY <1>4, <2>2, <2>3
  <2>5. Len(Tail(fifo)) = a - 1 /\ Tail(fifo) \in Seq(Nat)
    BY <2>1, <2>2, TailShape, Zenon
  <2>6. a - 1 = 0
    BY <2>4
  <2>7. Tail(fifo) = << >> /\ line = << >>
    BY <2>1, <2>2, <2>4, <2>5, <2>6, NoBytes, Zenon
  <2> QED
    BY <2>1, <2>7
<1> QED
  BY <1>1, <1>2, <1>3, <1>4

LEMMA HeaderOne == ASSUME TypedItem, OneAtATime, Header PROVE OneAtATime'
<1>1. GetC /\ UNCHANGED <<line, waits, tcq, cur, harm>>
  BY DEF Header, groundVars, pusVars
<1>2. pc \in {"type", "len"}
  BY DEF Header
<1>3. waits /\ ~Awaited
  BY <1>2 DEF OneAtATime
<1>4. PICK len \in Nat : Lone(len)
  BY <1>2, <1>3 DEF OneAtATime
<1>5. ~Awaited'
  BY <1>1, <1>3 DEF Awaited
<1>6. PICK s \in Nat, t \in Nat :
        /\ s = Len(InFlight) /\ t = Len(InFlight') /\ t + 1 = s /\ InFlight[1] = Head(fifo)
        /\ \A x \in 1 .. t : InFlight'[x] = InFlight[x + 1]
        /\ t = 0 => line' = << >> /\ fifo' = << >>
  BY <1>1, GetCLone
<1>7. CASE pc = "type"
  <2>1. pc' = "len" /\ Consumed = 0 /\ Consumed' = 1
    BY <1>7 DEF Header, Consumed
  <2>2. s = 2 + len /\ InFlight[2] = len
    BY <1>4, <1>6, <2>1 DEF Lone
  <2>3. 1 \in 1 .. t /\ 1 + t = 2 + len /\ 1 + 1 = 2
    BY <1>6, <2>2
  <2>4. InFlight'[1] = len
    BY <1>6, <2>2, <2>3
  <2>5. Lone(len)'
    BY <1>4, <1>6, <2>1, <2>3, <2>4 DEF Lone
  <2> QED
    BY <1>1, <1>3, <1>5, <2>1, <2>5 DEF OneAtATime
<1>8. CASE pc = "len"
  <2>1. /\ item' = [item EXCEPT !.len = Head(fifo)]
        /\ pc' = IF Fits(Head(fifo)) THEN "data" ELSE "flushFrame"
    BY <1>8 DEF Header
  <2>2. Consumed = 1 /\ item.data = << >>
    BY <1>8 DEF Consumed, TypedItem, ItemBounded
  <2>3. 1 + s = 2 + len /\ Head(fifo) = len /\ len <= MaxLen
    BY <1>4, <1>6, <2>2 DEF Lone
  <2>4. item'.len = len /\ item'.data = << >>
    BY <2>1, <2>2, <2>3 DEF TypedItem, TypeOK
  <2>5. CASE Fits(len)
    <3>1. pc' = "data" /\ Consumed' = 2
      BY <2>1, <2>3, <2>4, <2>5 DEF Consumed
    <3>2. 2 + t = 2 + len
      BY <1>6, <2>3
    <3>3. Lone(len)'
      BY <1>4, <1>6, <2>4, <3>1, <3>2 DEF Lone
    <3> QED
      BY <1>1, <1>3, <1>5, <3>1, <3>3 DEF OneAtATime
  <2>6. CASE ~Fits(len)
    <3>1. pc' = "flushFrame"
      BY <2>1, <2>3, <2>6
    <3>2. len = 0
      BY <2>3, <2>6, Bounds DEF Fits
    <3>3. t = 0
      BY <1>6, <2>3, <3>2
    <3> QED
      BY <1>1, <1>3, <1>6, <3>1, <3>3 DEF OneAtATime
  <2> QED
    BY <2>5, <2>6
<1> QED
  BY <1>2, <1>7, <1>8

LEMMA DataOne == ASSUME TypedItem, OneAtATime, Data PROVE OneAtATime'
<1> DEFINE D == Append(item.data, Head(fifo))
<1>1. /\ GetC /\ pc = "data" /\ UNCHANGED <<line, waits, cur>>
      /\ item' = [item EXCEPT !.data = D]
  BY DEF Data, groundVars
<1>2. item'.data = D /\ item'.len = item.len
  BY <1>1 DEF TypedItem, TypeOK
<1>3. PICK d \in Nat : d = Len(item.data) /\ Len(D) = d + 1
  <2>1. fifo \in Seq(Nat) /\ fifo # << >> /\ item.data \in Seq(Nat)
    BY <1>1 DEF GetC, TypedItem, TypeOK
  <2>2. Head(fifo) \in Nat
    BY <2>1, TailShape
  <2> QED
    BY <2>1, <2>2, AppendShape
<1> HIDE DEF D
<1>4. waits /\ tcq = << >> /\ cur = << >> /\ harm = {}
  BY <1>1 DEF OneAtATime, Awaited
<1>5. PICK len \in Nat : Lone(len)
  BY <1>1 DEF OneAtATime
<1>6. PICK s \in Nat, t \in Nat :
        /\ s = Len(InFlight) /\ t = Len(InFlight') /\ t + 1 = s
        /\ t = 0 => line' = << >> /\ fifo' = << >>
  BY <1>1, GetCLone
<1>7. item.len = len /\ 2 + d + s = 2 + len
  <2>1. Consumed = 2 + d
    BY <1>1, <1>3 DEF Consumed
  <2> QED
    BY <1>1, <1>5, <1>6, <2>1 DEF Lone
<1>8. CASE Len(D) < len
  <2>1. pc' = "data" /\ tcq' = tcq /\ harm' = harm
    BY <1>1, <1>2, <1>7, <1>8 DEF Data
  <2>2. Consumed' = 2 + (d + 1)
    BY <1>2, <1>3, <2>1 DEF Consumed
  <2>3. 2 + (d + 1) + t = 2 + len /\ 2 + (d + 1) # 0 /\ 2 + (d + 1) # 1
    BY <1>6, <1>7
  <2>4. Lone(len)'
    BY <1>2, <1>5, <1>6, <1>7, <2>2, <2>3 DEF Lone
  <2>5. ~Awaited'
    BY <1>1, <1>4, <2>1 DEF Awaited
  <2> QED
    BY <1>1, <1>4, <2>1, <2>4, <2>5 DEF OneAtATime
<1>9. CASE ~(Len(D) < len)
  <2>1. /\ pc' = "flushFrame"
        /\ tcq' = IF item.type = WIRE_TC THEN Queued(tcq, D) ELSE tcq
        /\ harm' = IF item.type = WIRE_TC /\ tcq' = tcq THEN harm \cup {"dropped"} ELSE harm
    BY <1>2, <1>7, <1>9 DEF Data
  <2>2. t = 0
    BY <1>3, <1>6, <1>7, <1>9
  <2>3. Queued(tcq, D) = <<D>>
    BY <1>4, Bounds DEF Queued
  <2>4. tcq' \in {<< >>, <<D>>} /\ harm' = {}
    BY <1>4, <2>1, <2>3
  <2>5. Len(tcq') + Len(cur') <= 1
    <3>1. (Len(tcq') = 0 \/ Len(tcq') = 1) /\ Len(cur') = 0
      BY <1>1, <1>4, <2>4
    <3>2. 0 + 0 <= 1 /\ 1 + 0 <= 1
      OBVIOUS
    <3> QED
      BY <3>1, <3>2, Zenon
  <2> QED
    BY <1>1, <1>4, <1>6, <2>1, <2>2, <2>4, <2>5 DEF OneAtATime
<1> QED
  BY <1>8, <1>9

LEMMA SendOne ==
  ASSUME TypedItem, OneAtATime, ground = "lockstep",
         NEW type \in 1 .. 2, NEW len \in 0 .. MaxLen + 1, SendFrame(type, len)
  PROVE  OneAtATime'
<1> DEFINE n == Len(sent) + 1
<1>1. /\ Quiet /\ len <= MaxLen
      /\ UNCHANGED <<fifo, pc, item, tcq, cur>>
      /\ line' = <<type, len>> \o [i \in 1 .. len |-> n]
      /\ harm' = IF len > MaxLen THEN harm \cup {"unsynced"} ELSE harm
  BY DEF SendFrame, pusVars
<1>2. n \in Nat /\ type \in Nat /\ len \in Nat
  BY Bounds DEF TypedItem, TypeOK
<1> HIDE DEF n
<1>3. line' \in Seq(Nat) /\ Len(line') = 2 + len /\ line'[2] = len
  BY <1>1, <1>2, FrameBytes
<1>4. fifo = << >> /\ harm = {} /\ ~Awaited /\ pc = "block"
  BY <1>1 DEF Quiet, OneAtATime, Awaited
<1>5. harm' = {}
  BY <1>1, <1>2, <1>4, Bounds
<1>6. InFlight' = line' /\ Consumed' = 0
  BY <1>1, <1>3, <1>4 DEF InFlight, Consumed
<1>7. 0 + (2 + len) = 2 + len
  BY <1>2
<1>8. Lone(len)'
  BY <1>1, <1>3, <1>4, <1>6, <1>7 DEF Lone
<1>9. waits'
  BY Zenon DEF SendFrame
<1>10. ~Awaited' /\ Len(tcq') + Len(cur') <= 1
  BY <1>1, <1>4 DEF Awaited, OneAtATime
<1> QED
  BY <1>1, <1>2, <1>4, <1>5, <1>8, <1>9, <1>10 DEF OneAtATime

(* A ground in lock-step: time                                             *)

LEMMA CostNat == /\ \A n \in Nat : Cost(n) \in Nat
                 /\ \A n \in Nat \ {0} : Cost(n) = Cost(n - 1) + PktTicks + 1
                 /\ \A n \in 0 .. StoreCap : Cost(n) <= Cost(StoreCap)
<1>1. PktTicks \in Nat /\ StoreCap \in Nat
  BY Bounds
<1>2. \A n \in Nat : Cost(n) \in Nat
  BY <1>1 DEF Cost
<1>3. \A n \in Nat \ {0} : Cost(n) = Cost(n - 1) + PktTicks + 1
  BY <1>1 DEF Cost
<1>4. \A n \in 0 .. StoreCap : Cost(n) <= Cost(StoreCap)
  BY <1>1 DEF Cost
<1> QED
  BY <1>2, <1>3, <1>4

LEMMA Times ==
  ASSUME TypedItem
  PROVE  /\ starved \in Nat /\ tx \in Nat /\ Len(line) \in Nat
         /\ Slack \in 0 .. 1 /\ Slack \in Nat
         /\ Cost(tmq) \in Nat /\ Cost(StoreCap) \in Nat /\ Cost(tmq) <= Cost(StoreCap)
         /\ ToCome \in Nat /\ ToCome <= 2 + Cost(StoreCap)
         /\ Debt = tx + Slack + Cost(tmq) + Len(line) + ToCome
         /\ Longest = 5 + MaxLen + 2 * Cost(StoreCap) /\ MaxLen \in Nat
         /\ Debt \in Nat /\ Longest \in Nat
<1>1. starved \in Nat /\ tx \in Nat /\ Len(line) \in Nat /\ MaxLen \in Nat
  BY Bounds DEF TypedItem, TypeOK
<1>2. Overdue \in 0 .. 1
  BY DEF Overdue
<1>3. Slack \in 0 .. 1 /\ Slack \in Nat
  <2>1. Slack \in 0 .. 1
    BY <1>2 DEF Slack
  <2> QED
    BY <2>1
<1>4. Cost(tmq) \in Nat /\ Cost(StoreCap) \in Nat /\ Cost(tmq) <= Cost(StoreCap)
  <2>1. tmq \in Nat /\ tmq \in 0 .. StoreCap /\ StoreCap \in Nat
    BY Bounds DEF TypedItem, TypeOK
  <2> QED
    BY <2>1, CostNat, Zenon
<1>5. ToCome \in Nat /\ ToCome <= 2 + Cost(StoreCap)
  BY <1>4 DEF ToCome
<1>6. /\ tx + Slack + Cost(tmq) + Len(line) + ToCome \in Nat
      /\ 5 + MaxLen + 2 * Cost(StoreCap) \in Nat
  BY <1>1, <1>3, <1>4, <1>5, SMTT(30)
<1> QED
  BY <1>1, <1>3, <1>4, <1>5, <1>6, Zenon DEF Debt, Longest

LEMMA NoLaterThan ==
  ASSUME NEW a \in Nat, NEW b \in Nat, NEW c \in Nat, a + b <= c PROVE a <= c
OBVIOUS

LEMMA InTime == ASSUME TypedItem, OnTime PROVE starved <= Longest
<1>1. CASE pc = "block"
  <2>1. starved + (IF Awaited THEN Slack + Cost(StoreCap) ELSE 0) <= Longest
    BY <1>1 DEF OnTime
  <2>2. /\ starved \in Nat /\ Longest \in Nat
        /\ (IF Awaited THEN Slack + Cost(StoreCap) ELSE 0) \in Nat
    <3>1. starved \in Nat /\ Longest \in Nat /\ Slack \in Nat /\ Cost(StoreCap) \in Nat
      BY Times
    <3> QED
      BY <3>1
  <2> QED
    BY <2>1, <2>2, NoLaterThan
<1>2. CASE pc # "block"
  <2>1. starved + Debt <= Longest
    BY <1>2 DEF OnTime
  <2>2. starved \in Nat /\ Debt \in Nat /\ Longest \in Nat
    BY Times
  <2> QED
    BY <2>1, <2>2
<1> QED
  BY <1>1, <1>2

LEMMA NoLater ==
  ASSUME NEW a \in Nat, NEW b \in Nat, NEW c \in Nat, NEW m \in Nat, a + b <= m, c <= b
  PROVE  a + c <= m
OBVIOUS

LEMMA AtMost ==
  ASSUME NEW v \in Nat, NEW k \in Nat, NEW l \in Nat, NEW u \in Nat, NEW d \in Nat, NEW K \in Nat,
         v <= 1, k <= K, l <= 2 + d, u <= 2 + K
  PROVE  0 + (0 + v + k + l + u) <= 5 + d + 2 * K
OBVIOUS

LEMMA Traded ==
  ASSUME NEW st \in Nat, NEW x \in Nat, NEW v \in Nat, NEW k \in Nat, NEW l \in Nat, NEW u \in Nat,
         NEW m \in Nat, NEW z \in Nat, NEW w \in Nat, NEW y \in Nat,
         st + (x + v + k + l + u) <= m, z + w + y + 1 <= x + v + l
  PROVE  st + 1 + (z + w + k + y + u) <= m
OBVIOUS

LEMMA TimesNext ==
  /\ Slack' \in 0 .. 1 /\ ToCome' \in Nat /\ ToCome' <= 2 + Cost(StoreCap)
  /\ Debt' = tx' + Slack' + Cost(tmq') + Len(line') + ToCome'
<1>1. Slack' \in 0 .. 1
  <2>1. Overdue' \in 0 .. 1
    BY DEF Overdue
  <2>2. PICK o \in 0 .. 1 : o = Overdue'
    BY <2>1
  <2>3. Slack' = 1 \/ Slack' = 1 - o
    BY <2>2 DEF Slack
  <2>4. 1 - o \in 0 .. 1 /\ 1 \in 0 .. 1
    OBVIOUS
  <2> QED
    BY <2>3, <2>4
<1>2. Cost(StoreCap) \in Nat
  BY CostNat, Bounds
<1>3. ToCome' \in Nat /\ ToCome' <= 2 + Cost(StoreCap)
  <2>1. \/ ToCome' = 2 + Cost(StoreCap) \/ ToCome' = Cost(StoreCap) \/ ToCome' = 0
    BY DEF ToCome
  <2> QED
    BY <1>2, <2>1
<1> QED
  BY <1>1, <1>3 DEF Debt

(* It is awake and nothing is added to what it has to do.                  *)
LEMMA AwakeOnTime ==
  ASSUME TypedItem, OnTime, pc # "block", pc' # "block", starved' = starved,
         Debt' <= Debt, Debt' \in Nat
  PROVE  OnTime'
<1>1. starved + Debt <= Longest
  BY DEF OnTime
<1>2. starved \in Nat /\ Debt \in Nat /\ Longest \in Nat
  BY Times
<1>3. starved' + Debt' <= Longest
  BY <1>1, <1>2, NoLater, Zenon
<1>4. Longest' = Longest
  BY DEF Longest, Cost
<1> QED
  BY <1>3, <1>4 DEF OnTime

LEMMA SameDebt ==
  ASSUME TypedItem, UNCHANGED <<tx, late, tmq, line, waits>>, waits \/ (Awaited' <=> Awaited)
  PROVE  Debt' = Debt /\ Slack' = Slack /\ ToCome' = ToCome /\ Debt \in Nat
<1>1. Overdue' = Overdue
  BY DEF Overdue
<1>2. Slack' = Slack
  BY <1>1 DEF Slack
<1>3. ToCome' = ToCome
  BY DEF ToCome
<1>4. Cost(tmq)' = Cost(tmq)
  BY DEF Cost
<1>5. Debt' = Debt
  BY <1>2, <1>3, <1>4 DEF Debt
<1> QED
  BY <1>2, <1>3, <1>5, Times

(* It wakes up when the tasks below have just run.                         *)
LEMMA WokenOnTime ==
  ASSUME TypedItem, TypedItem', OneAtATime', starved' = 0, tx' = 0, pc' # "block"
  PROVE  OnTime'
<1>1. PICK l \in Nat : l = Len(line') /\ l <= 2 + MaxLen
  <2>1. Len(line') \in Nat
    BY DEF TypedItem, TypeOK
  <2>2. CASE line' = << >>
    BY <2>2, Bounds
  <2>3. CASE line' # << >>
    <3>1. PICK len \in Nat : Lone(len)'
      BY <2>3 DEF OneAtATime
    <3>2. PICK a \in Nat, c \in Nat, s \in Nat :
            a = Len(fifo') /\ c = Consumed' /\ s = Len(InFlight')
      <4>1. Len(fifo') \in Nat /\ Consumed' \in Nat
        <5>1. Len(fifo') \in Nat /\ Len(item'.data) \in Nat
          <6>1. fifo' \in Seq(Nat) /\ item' \in [type : Nat, len : Nat, data : Seq(Nat)]
            BY DEF TypedItem, TypeOK
          <6>2. item'.data \in Seq(Nat)
            BY <6>1
          <6> QED
            BY <6>1, <6>2
        <5>2. Consumed' = 1 \/ Consumed' = 2 + Len(item'.data) \/ Consumed' = 0
          BY DEF Consumed
        <5> QED
          BY <5>1, <5>2
      <4>2. Len(InFlight') \in Nat
        BY DEF TypedItem, TypeOK, InFlight
      <4> QED
        BY <4>1, <4>2, Zenon
    <3>3. s = a + Len(line')
      <4>1. fifo' \in Seq(Nat) /\ line' \in Seq(Nat) /\ InFlight' = fifo' \o line'
        BY DEF TypedItem, TypeOK, InFlight
      <4> QED
        BY <3>2, <4>1
    <3>4. c + s = 2 + len /\ len <= MaxLen
      BY <3>1, <3>2 DEF Lone
    <3> QED
      BY <2>1, <3>2, <3>3, <3>4, Bounds
  <2> QED
    BY <2>2, <2>3
<1>2. tmq' \in 0 .. StoreCap /\ tmq' \in Nat /\ StoreCap \in Nat
  BY Bounds DEF TypedItem, TypeOK
<1>3. Cost(tmq') \in Nat /\ Cost(StoreCap) \in Nat /\ Cost(tmq') <= Cost(StoreCap)
  BY <1>2, CostNat, Zenon
<1>4. PICK k \in Nat, K \in Nat, v \in Nat, u \in Nat :
        /\ k = Cost(tmq') /\ K = Cost(StoreCap) /\ v = Slack' /\ u = ToCome'
        /\ k <= K /\ v <= 1 /\ u <= 2 + K
  <2>1. Slack' \in Nat /\ Slack' <= 1
    BY TimesNext
  <2> QED
    BY <1>3, <2>1, TimesNext, Zenon
<1>5. Debt' = 0 + v + k + l + u
  BY <1>1, <1>4, TimesNext, Zenon
<1>6. 0 + (0 + v + k + l + u) <= 5 + MaxLen + 2 * K
  BY <1>1, <1>4, Bounds, AtMost, Zenon
<1>7. Longest' = 5 + MaxLen + 2 * K
  BY <1>4 DEF Longest, Cost
<1>8. starved' + Debt' <= Longest'
  BY <1>5, <1>6, <1>7, Zenon
<1> QED
  BY <1>8 DEF OnTime

(* It is asleep and the tasks below have not yet run, or have.             *)
LEMMA AsleepOnTime ==
  ASSUME TypedItem, OnTime, pc = "block", UNCHANGED <<pc, tx, nap, starved, fifo, rxneie>>,
         Awaited' => Awaited /\ Slack' = Slack
  PROVE  OnTime'
<1>1. /\ tx = 0 /\ (nap < NapTicks => starved = 0) /\ (nap = NapTicks => ~Interrupt)
      /\ starved + (IF Awaited THEN Slack + Cost(StoreCap) ELSE 0) <= Longest
  BY DEF OnTime
<1>2. Interrupt' <=> Interrupt
  BY DEF Interrupt
<1>3. starved' + (IF Awaited' THEN Slack' + Cost(StoreCap) ELSE 0) <= Longest
  <2>1. CASE Awaited'
    BY <1>1, <2>1
  <2>2. CASE ~Awaited'
    <3>1. starved + 0 <= Longest
      <4>1. starved <= Longest /\ starved \in Nat
        BY InTime, Times
      <4> QED
        BY <4>1
    <3> QED
      BY <2>2, <3>1
  <2> QED
    BY <2>1, <2>2
<1>4. Longest' = Longest /\ Cost(StoreCap)' = Cost(StoreCap)
  BY DEF Longest, Cost
<1> QED
  BY <1>1, <1>2, <1>3, <1>4 DEF OnTime

LEMMA TickOnTime ==
  ASSUME TypedItem, TypedItem', OneAtATime, OnTime, ground = "lockstep",
         NEW byte \in BOOLEAN, Tick(byte)
  PROVE  OnTime'
<1>1. UNCHANGED <<pc, waits, tmq, tcq, cur, rxneie>>
  BY DEF Tick, pusVars
<1>2. tx' = (IF tx > 0 THEN tx - 1 ELSE 0) /\ starved' = IF pc = "block" THEN 0 ELSE starved + 1
  BY DEF Tick, Kicked
<1>3. (Awaited' <=> Awaited) /\ ToCome' = ToCome /\ Cost(tmq') = Cost(tmq)
  BY <1>1 DEF Awaited, ToCome, Cost
<1>4. Longest' = Longest /\ Cost(StoreCap)' = Cost(StoreCap)
  BY DEF Longest, Cost
<1>5. CASE pc = "block"
  <2>1. tx = 0 /\ nap \in 0 .. NapTicks /\ NapTicks > 0
    <3>1. tx = 0
      BY <1>5 DEF OnTime
    <3>2. nap \in 0 .. NapTicks
      BY DEF TypedItem, TypeOK
    <3>3. NapTicks > 0
      BY UplinkAssumption
    <3> QED
      BY <3>1, <3>2, <3>3
  <2>2. nap' = IF nap > 0 THEN nap - 1 ELSE nap
    BY <1>5 DEF Tick
  <2>3. nap' < NapTicks /\ nap' # NapTicks
    BY <2>1, <2>2, Bounds
  <2>4. tx' = 0 /\ starved' = 0
    BY <1>2, <1>5, <2>1
  <2>5. PICK K \in Nat, v \in Nat : K = Cost(StoreCap) /\ v = Slack' /\ v <= 1
    <3>1. Slack' \in Nat /\ Slack' <= 1
      BY TimesNext
    <3> QED
      BY <3>1, Times, Zenon
  <2>6. 0 + (v + K) <= 5 + MaxLen + 2 * K /\ 0 + 0 <= 5 + MaxLen + 2 * K
    BY <2>5, Bounds
  <2>7. Longest = 5 + MaxLen + 2 * K
    BY <2>5, Times, Zenon
  <2>8. starved' + (IF Awaited' THEN Slack' + Cost(StoreCap) ELSE 0) <= Longest
    BY <2>4, <2>5, <2>6, <2>7, Zenon
  <2> QED
    BY <1>1, <1>4, <1>5, <2>3, <2>4, <2>8 DEF OnTime
<1>6. CASE pc # "block"
  <2>1. starved + Debt <= Longest
    BY <1>6 DEF OnTime
  <2>2. PICK st \in Nat, x \in Nat, v \in Nat, k \in Nat, l \in Nat, u \in Nat, m \in Nat :
          /\ st = starved /\ x = tx /\ v = Slack /\ k = Cost(tmq) /\ l = Len(line)
          /\ u = ToCome /\ m = Longest
    <3>1. Slack \in Nat
      BY Times, Zenon
    <3> QED
      BY <3>1, Times, Zenon
  <2>3. st + (x + v + k + l + u) <= m
    BY <2>1, <2>2, Times, Zenon
  <2>4. PICK w \in Nat, y \in Nat : w = Slack' /\ w <= 1 /\ y = Len(line')
    <3>1. Slack' \in Nat /\ Slack' <= 1
      BY TimesNext
    <3>2. Len(line') \in Nat
      BY DEF TypedItem, TypeOK
    <3> QED
      BY <3>1, <3>2, Zenon
  <2>5. y <= l /\ (byte = TRUE => y + 1 = l)
    <3>1. CASE byte = TRUE
      <4>1. line # << >> /\ line' = Tail(line) /\ line \in Seq(Nat)
        BY <3>1 DEF Tick, TypedItem, TypeOK
      <4>2. y = l - 1
        BY <2>2, <2>4, <4>1, TailShape
      <4> QED
        BY <4>2
    <3>2. CASE byte = FALSE
      <4>1. line' = line
        BY <3>2 DEF Tick
      <4> QED
        BY <2>2, <2>4, <3>2, <4>1
    <3> QED
      BY <3>1, <3>2
  <2>6. PICK z \in Nat : z = tx' /\ z + w + y + 1 <= x + v + l
    <3>1. CASE tx > 0
      <4>1. tx' = tx - 1 /\ v = 1
        BY <1>2, <2>2, <3>1 DEF Slack
      <4>2. PICK z \in Nat : z = tx' /\ z + 1 = x
        BY <2>2, <3>1, <4>1
      <4>3. z + w + y + 1 <= x + v + l
        <5>1. w <= 1 /\ y <= l /\ v = 1 /\ z + 1 = x
          BY <2>4, <2>5, <4>1, <4>2, Zenon
        <5> QED
          BY <5>1
      <4> QED
        BY <4>2, <4>3
    <3>2. CASE ~(tx > 0) /\ line # << >>
      <4>1. tx' = 0 /\ v = 1 /\ x = 0
        BY <1>2, <2>2, <3>2 DEF Slack
      <4>2. byte = TRUE
        BY <3>2 DEF Tick
      <4>3. 0 + w + y + 1 <= x + v + l
        BY <2>4, <2>5, <4>1, <4>2
      <4> QED
        BY <4>1, <4>3
    <3>3. CASE ~(tx > 0) /\ line = << >>
      <4>1. tx' = 0 /\ x = 0
        BY <1>2, <2>2, <3>3
      <4>2. ~Waiting
        <5>1. ASSUME pc \in {"type", "len", "data"}, fifo = << >> PROVE FALSE
          <6>1. PICK len \in Nat : Lone(len)
            BY <5>1 DEF OneAtATime
          <6>2. InFlight = << >>
            BY <3>3, <5>1 DEF InFlight
          <6>3. Consumed + 0 = 2 + len /\ Consumed \in Nat
            BY <6>1, <6>2, FlightShape DEF Lone
          <6>4. pc = "data" => Consumed < 2 + item.len /\ item.len = len
            <7>1. ASSUME pc = "data" PROVE Consumed < 2 + item.len
              <8>1. PICK d \in Nat, e \in Nat : d = Len(item.data) /\ e = item.len /\ d < e
                <9>1. item \in [type : Nat, len : Nat, data : Seq(Nat)]
                  BY DEF TypedItem, TypeOK
                <9>2. Len(item.data) \in Nat /\ item.len \in Nat
                  BY <9>1
                <9>3. Len(item.data) < item.len
                  BY <7>1 DEF TypedItem, ItemBounded
                <9> QED
                  BY <9>2, <9>3, Zenon
              <8>2. Consumed = 2 + d
                BY <7>1, <8>1 DEF Consumed
              <8> QED
                BY <8>1, <8>2
            <7> QED
              BY <6>1, <7>1 DEF Lone
          <6>5. pc # "data" => Consumed <= 1
            BY <5>1 DEF Consumed
          <6> QED
            BY <6>3, <6>4, <6>5
        <5> QED
          BY <1>6, <3>3, <5>1 DEF Waiting
      <4>3. ~late /\ late'
        BY <4>2, Zenon DEF Tick
      <4>4. v = 1
        BY <2>2, <3>3, <4>3 DEF Slack, Overdue
      <4>5. w = 0
        <5>1. line' = << >>
          BY <3>3 DEF Tick
        <5> QED
          BY <2>4, <4>1, <4>3, <5>1 DEF Slack, Overdue
      <4>6. 0 + w + y + 1 <= x + v + l
        BY <2>5, <4>1, <4>4, <4>5
      <4> QED
        BY <4>1, <4>6
    <3> QED
      BY <3>1, <3>2, <3>3
  <2>7. st + 1 + (z + w + k + y + u) <= m
    <3>1. z + w + y + 1 <= x + v + l
      BY <2>6
    <3> QED
      BY <2>3, <3>1, Traded, ZenonT(30)
  <2>8. Debt' = z + w + k + y + u
    BY <1>3, <2>2, <2>4, <2>6, TimesNext, Zenon
  <2>9. starved' = st + 1
    BY <1>2, <1>6, <2>2
  <2>10. starved' + Debt' <= Longest'
    BY <1>4, <2>2, <2>7, <2>8, <2>9, Zenon
  <2> QED
    BY <1>1, <1>6, <2>10 DEF OnTime
<1> QED
  BY <1>5, <1>6

LEMMA QuietOnTime ==
  ASSUME TypedItem, TypedItem', OneAtATime, OneAtATime', OnTime,
         \/ UNCHANGED vars \/ Isr \/ Poll \/ Arm \/ NapEnds \/ Header \/ Data
         \/ Flush /\ tmq = 0
  PROVE  OnTime'
<1>1. UNCHANGED <<tx, late, tmq, line, waits, starved>>
  BY DEF vars, Isr, Poll, Arm, NapEnds, Header, Data, Flush, groundVars
<1>2. CASE pc # "block"
  <2>1. pc' # "block"
    BY <1>2 DEF vars, Isr, Poll, Arm, NapEnds, Header, Data, Flush
  <2>2. Data => waits
    BY DEF Data, OneAtATime
  <2>3. ~Data => UNCHANGED <<tcq, cur>>
    BY DEF vars, Isr, Poll, Arm, NapEnds, Header, Flush, pusVars
  <2>4. waits \/ (Awaited' <=> Awaited)
    BY <2>2, <2>3 DEF Awaited
  <2>5. Debt' = Debt /\ Debt \in Nat
    BY <1>1, <2>4, SameDebt
  <2>6. Debt' <= Debt /\ Debt' \in Nat
    BY <2>5
  <2> QED
    BY <1>1, <1>2, <2>1, <2>6, AwakeOnTime
<1>3. CASE pc = "block" /\ UNCHANGED vars
  <2>1. UNCHANGED <<pc, nap, fifo, rxneie, tcq, cur>>
    BY <1>3 DEF vars
  <2>2. Awaited' <=> Awaited
    BY <2>1 DEF Awaited
  <2>3. Slack' = Slack
    BY <1>1, <2>2, SameDebt
  <2> QED
    BY <1>1, <1>3, <2>1, <2>2, <2>3, AsleepOnTime
<1>4. CASE pc = "block" /\ (Isr \/ NapEnds)
  <2>1. tx = 0 /\ (nap < NapTicks => starved = 0) /\ (nap = NapTicks => ~Interrupt)
    BY <1>4 DEF OnTime
  <2>2. pc' # "block"
    BY <1>4 DEF Isr, NapEnds
  <2>3. nap \in 0 .. NapTicks /\ NapTicks > 0 /\ NapTicks \in Nat
    <3>1. nap \in 0 .. NapTicks
      BY DEF TypedItem, TypeOK
    <3>2. NapTicks > 0 /\ NapTicks \in Nat
      BY UplinkAssumption, Bounds
    <3> QED
      BY <3>1, <3>2
  <2>4. nap < NapTicks
    <3>1. CASE Isr
      <4>1. nap # NapTicks
        BY <2>1, <3>1 DEF Isr
      <4> QED
        BY <2>3, <4>1
    <3>2. CASE NapEnds
      <4>1. nap = 0
        BY <3>2 DEF NapEnds, NapOver
      <4> QED
        BY <2>3, <4>1
    <3> QED
      BY <1>4, <3>1, <3>2
  <2> QED
    BY <1>1, <2>1, <2>2, <2>4, WokenOnTime
<1> QED
  BY <1>2, <1>3, <1>4 DEF Poll, Arm, Header, Data, Flush

LEMMA Paid ==
  ASSUME NEW v \in Nat, NEW k \in Nat, NEW l \in Nat, NEW u \in Nat, NEW p \in Nat
  PROVE  /\ p + 1 + k + l + u <= 0 + v + (k + p + 1) + l + u
         /\ p + 1 + k + l + u \in Nat
OBVIOUS

(* A packet is transmitted.                                                *)
LEMMA FlushOnTime ==
  ASSUME TypedItem, OnTime, Flush, tmq > 0
  PROVE  OnTime'
<1>1. /\ tx = 0 /\ tmq' = tmq - 1 /\ tx' = PktTicks /\ pc' = pc /\ pc # "block"
      /\ UNCHANGED <<line, waits, starved, tcq, cur>>
  BY DEF Flush, Runs, groundVars, pusVars
<1>2. tmq \in Nat \ {0} /\ tmq - 1 \in Nat /\ PktTicks \in Nat \ {0}
  BY UplinkAssumption, Bounds DEF TypedItem, TypeOK
<1>3. Cost(tmq) = Cost(tmq - 1) + PktTicks + 1 /\ Cost(tmq - 1) \in Nat
  BY <1>2, CostNat, Zenon
<1>4. Slack' = 1
  BY <1>1, <1>2 DEF Slack
<1>5. ToCome' = ToCome
  BY <1>1 DEF ToCome, Awaited
<1>6. PICK v \in Nat, k \in Nat, l \in Nat, u \in Nat :
        v = Slack /\ k = Cost(tmq - 1) /\ l = Len(line) /\ u = ToCome
  <2>1. Slack \in Nat
    BY Times, Zenon
  <2> QED
    BY <1>3, <2>1, Times, Zenon
<1>7. Debt = 0 + v + (k + PktTicks + 1) + l + u
  BY <1>1, <1>3, <1>6, Times, Zenon
<1>8. Debt' = PktTicks + 1 + k + l + u
  BY <1>1, <1>4, <1>5, <1>6, TimesNext, Zenon
<1>9. Debt' <= Debt /\ Debt' \in Nat
  BY <1>2, <1>6, <1>7, <1>8, Paid, Zenon
<1> QED
  BY <1>1, <1>9, AwakeOnTime

LEMMA Acknowledged ==
  ASSUME NEW v \in Nat, NEW k \in Nat, NEW K \in Nat, NEW u \in Nat, u <= K
  PROVE  1 + 1 + k + 0 + u <= 0 + v + k + 0 + (2 + K) /\ 1 + 1 + k + 0 + u \in Nat
OBVIOUS

(* The end-of-tick byte                                                    *)
LEMMA EndOnTime ==
  ASSUME TypedItem, OneAtATime, OnTime, EndOfTick
  PROVE  OnTime'
<1>1. /\ tx = 0 /\ tx' = 1 /\ pc = "eot" /\ pc' = "poll"
      /\ UNCHANGED <<line, tmq, starved>>
  BY DEF EndOfTick, Runs, groundVars
<1>2. waits /\ line = << >> /\ Len(line) = 0
  BY <1>1 DEF OneAtATime
<1>3. ~waits'
  BY Zenon DEF EndOfTick
<1>4. PICK v \in Nat, k \in Nat, K \in Nat :
        v = Slack /\ k = Cost(tmq) /\ K = Cost(StoreCap)
  <2>1. Slack \in Nat
    BY Times, Zenon
  <2> QED
    BY <2>1, Times, Zenon
<1>5. ToCome = 2 + K
  BY <1>2, <1>4 DEF ToCome
<1>6. PICK u \in Nat : u = ToCome' /\ u <= K
  <2>1. ToCome' = K \/ ToCome' = 0
    BY <1>3, <1>4 DEF ToCome
  <2> QED
    BY <1>4, <2>1
<1>7. Slack' = 1
  BY <1>1 DEF Slack
<1>8. Debt = 0 + v + k + 0 + (2 + K)
  BY <1>1, <1>2, <1>4, <1>5, Times, Zenon
<1>9. Debt' = 1 + 1 + k + 0 + u
  BY <1>1, <1>2, <1>4, <1>6, <1>7, TimesNext, Zenon
<1>10. Debt' <= Debt /\ Debt' \in Nat
  BY <1>4, <1>6, <1>8, <1>9, Acknowledged, Zenon
<1> QED
  BY <1>1, <1>10, AwakeOnTime

LEMMA Retained ==
  ASSUME NEW st \in Nat, NEW v \in Nat, NEW k \in Nat, NEW l \in Nat, NEW u \in Nat,
         NEW K \in Nat, NEW m \in Nat, st + (0 + v + k + l + u) <= m, K <= u
  PROVE  st + (v + K) <= m
OBVIOUS

(* It goes to sleep, and the tasks below can run.                          *)
LEMMA TakeOnTime == ASSUME TypedItem, OnTime, Take PROVE OnTime'
<1>1. /\ pc = "take" /\ pc' = "block" /\ tx = 0 /\ nap' = NapTicks /\ ~Interrupt
      /\ UNCHANGED <<line, waits, tmq, tx, late, starved, tcq, cur, fifo, rxneie>>
  BY DEF Take, Runs, groundVars, pusVars
<1>2. starved + Debt <= Longest
  BY <1>1 DEF OnTime
<1>3. PICK st \in Nat, v \in Nat, k \in Nat, l \in Nat, u \in Nat, K \in Nat, m \in Nat :
        /\ st = starved /\ v = Slack /\ k = Cost(tmq) /\ l = Len(line) /\ u = ToCome
        /\ K = Cost(StoreCap) /\ m = Longest
  <2>1. Slack \in Nat
    BY Times, Zenon
  <2> QED
    BY <2>1, Times, Zenon
<1>4. st + (0 + v + k + l + u) <= m
  BY <1>1, <1>2, <1>3, Times, Zenon
<1>5. Awaited => K <= u
  BY <1>3 DEF ToCome
<1>6. Awaited => st + (v + K) <= m
  BY <1>3, <1>4, <1>5, Retained, Zenon
<1>7. st + 0 <= m
  <2>1. starved <= Longest
    BY InTime
  <2> QED
    BY <1>3, <2>1
<1>8. (Awaited' <=> Awaited) /\ (Interrupt' <=> Interrupt)
  BY <1>1 DEF Awaited, Interrupt
<1>9. Slack' = Slack
  BY <1>1, <1>8, SameDebt
<1>10. Longest' = Longest /\ Cost(StoreCap)' = Cost(StoreCap)
  BY DEF Longest, Cost
<1>11. starved' + (IF Awaited' THEN Slack' + Cost(StoreCap) ELSE 0) <= Longest
  BY <1>1, <1>3, <1>6, <1>7, <1>8, <1>9, Zenon
<1>12. ~(nap' < NapTicks)
  BY <1>1, Bounds
<1> QED
  BY <1>1, <1>8, <1>10, <1>11, <1>12 DEF OnTime

LEMMA Answered ==
  ASSUME NEW st \in Nat, NEW v \in Nat, NEW k \in Nat, NEW K \in Nat, NEW m \in Nat,
         st + (v + K) <= m, k <= K
  PROVE  st + (0 + v + k + 0 + 0) <= m
OBVIOUS

(* The answers are in the store and nothing else is on its way.            *)
LEMMA DispatchOnTime ==
  ASSUME TypedItem, TypedItem', OneAtATime, OnTime, NEW n \in Replies, PusDispatch(n)
  PROVE  OnTime'
<1>1. /\ pc = "block" /\ pc' = "flushIdle" /\ cur # << >> /\ cur' = << >>
      /\ UNCHANGED <<line, waits, tx, late, starved, tcq>>
  BY DEF PusDispatch, groundVars
<1>2. tcq = << >>
  <2>1. tcq \in Seq(Seq(Nat)) /\ cur \in Seq(Seq(Nat)) /\ Len(tcq) + Len(cur) <= 1
    BY DEF TypedItem, TypeOK, OneAtATime
  <2>2. Len(cur) >= 1
    BY <1>1, <2>1, TailShape
  <2>3. Len(tcq) = 0
    BY <2>1, <2>2
  <2> QED
    BY <2>1, <2>3, NoBytes
<1>3. Awaited /\ ~Awaited'
  BY <1>1, <1>2 DEF Awaited
<1>4. ~waits /\ line = << >> /\ Len(line') = 0
  BY <1>1, <1>3 DEF OneAtATime
<1>5. tx = 0 /\ starved + (IF Awaited THEN Slack + Cost(StoreCap) ELSE 0) <= Longest
  BY <1>1 DEF OnTime
<1>6. tmq' \in 0 .. StoreCap /\ tmq' \in Nat
  BY Bounds DEF TypedItem, TypeOK
<1>7. PICK st \in Nat, v \in Nat, k \in Nat, K \in Nat, m \in Nat :
        /\ st = starved /\ v = Slack /\ k = Cost(tmq') /\ K = Cost(StoreCap) /\ m = Longest
        /\ k <= K
  <2>1. Slack \in Nat
    BY Times, Zenon
  <2>2. Cost(tmq') \in Nat /\ Cost(tmq') <= Cost(StoreCap)
    BY <1>6, CostNat, Zenon
  <2> QED
    BY <2>1, <2>2, Times, Zenon
<1>8. st + (v + K) <= m
  BY <1>3, <1>5, <1>7, Zenon
<1>9. st + (0 + v + k + 0 + 0) <= m
  BY <1>7, <1>8, Answered, Zenon
<1>10. Slack' = Slack
  <2>1. Overdue' = Overdue
    BY <1>1 DEF Overdue
  <2> QED
    BY <1>1, <2>1 DEF Slack
<1>11. ToCome' = 0
  BY <1>1, <1>3, <1>4 DEF ToCome
<1>12. Debt' = 0 + v + k + 0 + 0
  BY <1>1, <1>4, <1>5, <1>7, <1>10, <1>11, TimesNext, Zenon
<1>13. Longest' = Longest
  BY DEF Longest, Cost
<1>14. starved' + Debt' <= Longest'
  BY <1>1, <1>7, <1>9, <1>12, <1>13, Zenon
<1> QED
  BY <1>1, <1>14 DEF OnTime

(* The other steps while it sleeps                                         *)
LEMMA SleepOnTime ==
  ASSUME TypedItem, TypedItem', OneAtATime, OneAtATime', OnTime, ground = "lockstep",
         \/ \E type \in 1 .. 2, len \in 0 .. MaxLen + 1 : SendFrame(type, len)
         \/ PusTake \/ \E wakes \in BOOLEAN : Report(wakes)
  PROVE  OnTime'
<1>1. pc = "block" /\ UNCHANGED <<tx, nap, starved, fifo, rxneie, late>>
  BY DEF SendFrame, Quiet, PusTake, Report
<1>2. CASE \E type \in 1 .. 2, len \in 0 .. MaxLen + 1 : SendFrame(type, len)
  <2>1. pc' = pc /\ ~Awaited'
    BY <1>2 DEF SendFrame, Quiet, Awaited, pusVars
  <2> QED
    BY <1>1, <2>1, AsleepOnTime
<1>3. CASE PusTake \/ Report(FALSE)
  <2>1. UNCHANGED <<pc, line>>
    BY <1>3 DEF PusTake, Report, groundVars
  <2>2. Awaited' => Awaited
    BY <1>3 DEF PusTake, Report, Awaited, pusVars
  <2>3. Overdue' = Overdue
    BY <1>1 DEF Overdue
  <2>4. Slack' = Slack
    BY <1>1, <2>1, <2>3 DEF Slack
  <2> QED
    BY <1>1, <2>1, <2>2, <2>4, AsleepOnTime
<1>4. CASE Report(TRUE)
  <2>1. nap < NapTicks /\ pc' # "block"
    BY <1>4 DEF Report
  <2>2. tx = 0 /\ starved = 0
    BY <1>1, <2>1 DEF OnTime
  <2> QED
    BY <1>1, <2>1, <2>2, WokenOnTime
<1> QED
  BY <1>2, <1>3, <1>4

LEMMA InitLock == Init => LockStep
<1> SUFFICES ASSUME Init PROVE OneAtATime /\ OnTime /\ Uncrossed
  BY DEF LockStep
<1>1. OneAtATime
  BY DEF Init, LineInit, UartInit, TmtcInit, PusInit, OneAtATime
<1>2. PICK K \in Nat : K = Cost(StoreCap)
  BY CostNat, Bounds
<1>3. Slack = 1 /\ ToCome = 0 /\ Cost(tmq) = 0
  BY Bounds DEF Init, LineInit, TmtcInit, PusInit, Slack, ToCome, Overdue, Awaited, Cost
<1>4. Debt = 1
  BY <1>3 DEF Init, LineInit, TmtcInit, Debt
<1>5. 0 + 1 <= 5 + MaxLen + 2 * K
  BY <1>2, Bounds
<1>6. starved + Debt <= Longest
  BY <1>2, <1>4, <1>5 DEF Init, Longest
<1>7. Uncrossed
  BY DEF Init, Uncrossed
<1> QED
  BY <1>1, <1>6, <1>7 DEF OnTime, Init, TmtcInit

LEMMA FewerBytes ==
  ASSUME NEW a \in Nat, NEW l \in Nat, NEW b \in Nat, NEW k \in Nat, NEW m \in Nat,
         a + l <= m, b + k <= a + l
  PROVE  b + k <= m
OBVIOUS

(* What comes while it transmits still fits the FIFO.                      *)
LEMMA StaysUncrossed ==
  ASSUME TypedItem, OneAtATime, OnTime, Uncrossed, ground = "lockstep", ~crossed', [Next]_vars,
         ~Reset
  PROVE  Uncrossed'
<1>1. CASE \/ UNCHANGED vars \/ Isr \/ Poll \/ Arm \/ Take \/ NapEnds \/ PusTake
           \/ (\E n \in Replies : PusDispatch(n)) \/ (\E wakes \in BOOLEAN : Report(wakes))
  <2>1. UNCHANGED <<fifo, line, tx, busy>>
    BY <1>1 DEF vars, Isr, Poll, Arm, Take, NapEnds, PusTake, PusDispatch, Report, groundVars
  <2> QED
    BY <2>1 DEF Uncrossed
<1>2. CASE Flush
  <2>1. UNCHANGED <<fifo, line>>
    BY <1>2 DEF Flush, groundVars
  <2>2. UNCHANGED <<tx, busy>> \/ ~(Len(fifo) + Len(line) > FifoDepth)
    BY <1>2, Zenon DEF Flush
  <2>3. PICK a \in Nat, l \in Nat : a = Len(fifo) /\ l = Len(line)
    BY DEF TypedItem, TypeOK
  <2>4. ~(a + l > FifoDepth) => a + l <= FifoDepth
    BY Bounds
  <2>5. UNCHANGED <<tx, busy>> \/ Len(fifo) + Len(line) <= FifoDepth
    BY <2>2, <2>3, <2>4, Zenon
  <2> QED
    BY <2>1, <2>5, Zenon DEF Uncrossed
<1>3. CASE EndOfTick
  <2>1. line' = << >> /\ fifo' = << >>
    BY <1>3 DEF EndOfTick, groundVars, OneAtATime
  <2>2. Len(fifo') + Len(line') = 0
    BY <2>1
  <2> QED
    BY <2>2, Bounds DEF Uncrossed
<1>4. CASE \E type \in 1 .. 2, len \in 0 .. MaxLen + 1 : SendFrame(type, len)
  <2>1. ~waits /\ pc = "block" /\ UNCHANGED <<tx, fifo>>
    BY <1>4 DEF SendFrame, Quiet
  <2>2. tx' = 0 /\ fifo' = << >>
    BY <2>1 DEF OnTime, OneAtATime
  <2>3. ~(0 > 0)
    OBVIOUS
  <2> QED
    BY <2>2, <2>3, Zenon DEF Uncrossed
<1>5. ASSUME busy' => busy /\ (tx > 0 \/ fifo # << >>),
             Len(fifo') + Len(line') <= Len(fifo) + Len(line),
             Len(fifo') \in Nat, Len(line') \in Nat
      PROVE  Uncrossed'
  <2>1. Len(fifo) \in Nat /\ Len(line) \in Nat
    BY DEF TypedItem, TypeOK
  <2>2. busy' => Len(fifo) + Len(line) <= FifoDepth
    BY <1>5, Zenon DEF Uncrossed
  <2>3. busy' => Len(fifo') + Len(line') <= FifoDepth
    BY <1>5, <2>1, <2>2, Bounds, FewerBytes, Zenon
  <2> QED
    BY <2>3, Zenon DEF Uncrossed
<1>6. CASE Header \/ Data
  <2>1. GetC /\ line' = line
    BY <1>6 DEF Header, Data, groundVars
  <2>2. fifo # << >> /\ fifo' = Tail(fifo)
    BY <2>1 DEF GetC
  <2>3. busy' => busy /\ (tx > 0 \/ fifo # << >>)
    BY <2>1, Zenon DEF GetC
  <2>4. PICK a \in Nat, l \in Nat : a = Len(fifo) /\ l = Len(line) /\ a >= 1
    BY <2>2, TailShape DEF TypedItem, TypeOK
  <2>5. Len(fifo') = a - 1 /\ Len(line') = l
    BY <2>1, <2>2, <2>4, TailShape DEF TypedItem, TypeOK
  <2>6. a - 1 \in Nat /\ (a - 1) + l <= a + l
    BY <2>4
  <2> QED
    BY <1>5, <2>3, <2>4, <2>5, <2>6, Zenon
<1>7. ASSUME NEW byte \in BOOLEAN, Tick(byte) PROVE Uncrossed'
  <2>1. busy' => busy /\ (tx > 0 \/ fifo # << >>)
    BY <1>7, Zenon DEF Tick
  <2>2. PICK a \in Nat, l \in Nat : a = Len(fifo) /\ l = Len(line)
    BY DEF TypedItem, TypeOK
  <2>3. CASE byte = FALSE
    <3>1. fifo' = fifo /\ line' = line
      BY <1>7, <2>3 DEF Tick
    <3>2. a + l <= a + l
      OBVIOUS
    <3> QED
      BY <1>5, <2>1, <2>2, <3>1, <3>2, Zenon
  <2>4. CASE byte = TRUE
    <3>1. /\ line # << >> /\ line' = Tail(line)
          /\ fifo' = IF Full(fifo) THEN fifo ELSE Append(fifo, Head(line))
      BY <1>7, <2>4 DEF Tick
    <3>2. Len(line') = l - 1 /\ l >= 1 /\ Head(line) \in Nat
      BY <2>2, <3>1, TailShape DEF TypedItem, TypeOK
    <3>3. Len(fifo') = a \/ Len(fifo') = a + 1
      BY <2>2, <3>1, <3>2, AppendShape DEF TypedItem, TypeOK
    <3>4. PICK b \in Nat, k \in Nat : b = Len(fifo') /\ k = Len(line') /\ b + k <= a + l
      <4>1. a + (l - 1) <= a + l /\ (a + 1) + (l - 1) <= a + l /\ a + 1 \in Nat /\ l - 1 \in Nat
        BY <3>2
      <4> QED
        BY <3>2, <3>3, <4>1, Zenon
    <3> QED
      BY <1>5, <2>1, <2>2, <3>4, Zenon
  <2> QED
    BY <2>3, <2>4
<1> QED
  BY <1>1, <1>2, <1>3, <1>4, <1>6, <1>7 DEF Next, Tmtc

LEMMA NextLock ==
  ASSUME Patience > Longest, TypedItem, TypedItem', NapBound, LockStep, [Next]_vars
  PROVE  LockStep'
<1>1. ground' = ground
  BY DEF Next, vars, SendFrame, Tick, Isr, Tmtc, Poll, Arm, Take, NapEnds, Flush, EndOfTick,
         Header, Data, PusTake, PusDispatch, Report, Reset, groundVars
<1>12. crossed => crossed'
  <2>1. UNCHANGED crossed \/ Flush
    BY DEF Next, vars, SendFrame, Tick, Isr, Tmtc, Poll, Arm, Take, NapEnds, Flush, EndOfTick,
           Header, Data, PusTake, PusDispatch, Report, Reset
  <2>2. Flush => UNCHANGED crossed
                 \/ crossed' = (crossed \/ (ground = "lockstep" /\ Len(fifo) + Len(line) > FifoDepth))
    BY Zenon DEF Flush
  <2> QED
    BY <2>1, <2>2, Zenon
<1> SUFFICES ASSUME ground = "lockstep", ~crossed' PROVE OneAtATime' /\ OnTime' /\ Uncrossed'
  BY <1>1 DEF LockStep
<1>2. OneAtATime /\ OnTime /\ Uncrossed
  BY <1>12 DEF LockStep
<1>3. ~Reset
  <2>1. starved <= Longest
    BY <1>2, InTime
  <2>2. starved \in Nat /\ Longest \in Nat /\ Patience \in Nat
    BY Times, Bounds
  <2>3. ~(starved >= Patience)
    BY <2>1, <2>2
  <2> QED
    BY <2>3 DEF Reset
<1>13. Uncrossed'
  BY <1>2, <1>3, StaysUncrossed
<1> SUFFICES OneAtATime' /\ OnTime'
  BY <1>13
<1>4. CASE \/ UNCHANGED vars \/ Isr \/ Poll \/ Arm \/ NapEnds \/ Flush
  <2>1. OneAtATime'
    BY <1>2, <1>4, QuietOne
  <2>2. tmq = 0 \/ tmq > 0
    BY Bounds DEF TypedItem, TypeOK
  <2> QED
    BY <1>2, <1>4, <2>1, <2>2, QuietOnTime, FlushOnTime
<1>5. CASE Header \/ Data
  <2>1. OneAtATime'
    BY <1>2, <1>5, HeaderOne, DataOne
  <2> QED
    BY <1>2, <1>5, <2>1, QuietOnTime
<1>6. CASE Take
  BY <1>2, <1>6, QuietOne, TakeOnTime
<1>7. CASE EndOfTick
  BY <1>2, <1>7, EndOne, EndOnTime
<1>8. CASE \E byte \in BOOLEAN : Tick(byte)
  BY <1>2, <1>8, TickOne, TickOnTime
<1>9. CASE \E n \in Replies : PusDispatch(n)
  BY <1>2, <1>9, LowerOne, DispatchOnTime
<1>10. CASE PusTake \/ \E wakes \in BOOLEAN : Report(wakes)
  <2>1. OneAtATime'
    BY <1>2, <1>10, LowerOne, QuietOne
  <2> QED
    BY <1>2, <1>10, <2>1, SleepOnTime
<1>11. CASE \E type \in 1 .. 2, len \in 0 .. MaxLen + 1 : SendFrame(type, len)
  <2>1. OneAtATime'
    BY <1>2, <1>11, SendOne
  <2> QED
    BY <1>2, <1>11, <2>1, SleepOnTime
<1> QED
  BY <1>3, <1>4, <1>5, <1>6, <1>7, <1>8, <1>9, <1>10, <1>11 DEF Next, Tmtc

(* A watchdog that waits longer than a full store takes to transmit before *)
(* and after the longest frame is received never resets the board of a     *)
(* ground in lock-step, and with any FIFO, queue and store no byte and no  *)
(* telecommand of such a ground is lost, as long as the board does not     *)
(* begin to transmit while more of a frame is to come than the FIFO holds. *)
THEOREM LockStepIsSafe == ASSUME Patience > Longest PROVE Spec => []LockStepUnharmed
<1>1. LockStep => LockStepUnharmed
  BY DEF LockStep, OneAtATime, LockStepUnharmed
<1>2. TypedItem /\ TypedItem' /\ NapBound /\ LockStep /\ [Next]_vars => LockStep'
  BY NextLock
<1> QED
  BY <1>1, <1>2, InitLock, Typed, NapInvariant, PTL DEF Spec
=============================================================================
