------------------------------- MODULE Uplink -------------------------------
(***************************************************************************)
(* The link of the FreeRTOS build: the UART with its receive FIFO          *)
(* (src/hal/stm32h7/uart.c), the TMTC task and its interrupt               *)
(* (src/task/tmtc.c), the queue to the PUS task (src/task/pus.c), and the  *)
(* hardware watchdog that the FDIR task kicks (src/task/fdir.c).           *)
(*                                                                         *)
(* Time is counted in byte times of the line.  In one the ground may send  *)
(* a byte and the board transmit one.  The TMTC task has the highest       *)
(* priority: the tasks below it run only while it is blocked, not while it *)
(* polls for a byte or transmits.                                          *)
(*                                                                         *)
(* A frame is <<type, length, data...>>, with one byte for the length.     *)
(* The data of a telecommand is its number, so that a payload which is     *)
(* taken for a header gives a type and a length.  A ground in lock-step    *)
(* sends a frame when it has the end-of-tick byte and all answers of the   *)
(* one before; a steady one sends frame after frame; neither pauses within *)
(* a frame or sends one that is too long.  A free ground may send any      *)
(* frames, and stop, at any time.                                          *)
(*                                                                         *)
(* What the TM store holds is counted in pieces that take PktTicks byte    *)
(* times to transmit: a report is one, a memory dump of TC(6,9) several.   *)
(***************************************************************************)
EXTENDS Integers, Sequences

CONSTANTS
  Grounds,      \* behaviours of the ground: "lockstep", "steady", "free"
  MaxFrames,    \* bound: frames the ground sends
  MaxLen,       \* OBSW_TC_FRAME_MAX
  FifoDepth,    \* bytes of the receive FIFO, 16
  NapTicks,     \* byte times in the 1 ms the task sleeps, 12
  QueueDepth,   \* TC_QUEUE_DEPTH, 4
  StoreCap,     \* pieces in a full TM store
  PktTicks,     \* byte times to transmit a piece, its header and its label
  Replies,      \* pieces of TM a telecommand may cause
  Patience      \* byte times until the hardware watchdog resets the board

ASSUME UplinkAssumption ==
  /\ {MaxFrames, MaxLen, FifoDepth, NapTicks, QueueDepth, StoreCap, PktTicks, Patience}
       \subseteq Nat \ {0}
  /\ Replies \subseteq Nat
  /\ NapTicks + 2 <= FifoDepth

VARIABLES
  ground,       \* how the ground behaves
  line,         \* bytes of the present frame still to be sent
  sent,         \* history: numbers of the telecommands sent
  frames,       \* history: frames sent
  waits,        \* the ground waits for an end-of-tick byte
  fifo,         \* receive FIFO
  rxneie,       \* the receive interrupt is enabled
  pc,           \* where the TMTC task is
  item,         \* type, length and data of the frame it reads
  nap,          \* byte times left of its sleep
  tx,           \* byte times left of the transmission it waits for
  tcq,          \* s_tc_queue
  cur,          \* the telecommand the PUS task has taken from it
  tmq,          \* pieces in the TM store
  handled,      \* history: telecommands dispatched
  starved,      \* byte times since a task below the TMTC task could run
  late,         \* a byte time has passed since the TMTC task had to act
  busy,         \* history: transmitted since the FIFO was last empty
  crossed,      \* history: began to transmit TM with more bytes of a ground
                \* in lock-step on their way than the FIFO holds
  harm          \* history: "lost" byte, "dropped" telecommand, "reset",
                \* "unsynced" by a frame that does not fit

vars == <<ground, line, sent, frames, waits, fifo, rxneie, pc, item, nap, tx, tcq, cur, tmq,
          handled, starved, late, busy, crossed, harm>>

groundVars == <<ground, line, sent, frames>>
pusVars == <<tcq, cur, handled>>

WIRE_TC == 1
NoItem == [type |-> 0, len |-> 0, data |-> << >>]

LineInit == line = << >> /\ sent = << >> /\ frames = 0 /\ waits = FALSE
UartInit == fifo = << >> /\ rxneie = FALSE
TmtcInit == pc = "poll" /\ item = NoItem /\ nap = 0 /\ tx = 0
PusInit == tcq = << >> /\ cur = << >> /\ handled = << >>

Init ==
  /\ ground \in Grounds
  /\ LineInit /\ UartInit /\ TmtcInit /\ PusInit
  /\ tmq = 0
  /\ starved = 0 /\ late = FALSE /\ busy = FALSE /\ crossed = FALSE
  /\ harm = {}
-----------------------------------------------------------------------------
(* Seeded faults: plausible slips in the definitions they stand in for;    *)
(* no specification uses them.                                             *)

BadFull(f) == Len(f) >= 1           \* the FIFO is not enabled
BadNapOver == FALSE                 \* portMAX_DELAY
BadKicked == TRUE                   \* the watchdog is kicked in the byte loop
BadQueued(q, d) == IF Len(q) + 1 < QueueDepth THEN Append(q, d) ELSE q    \* one less
BadFits(len) == len <= MaxLen       \* an empty frame is read as any other
BadRoom == TRUE                     \* the store is written without a test
-----------------------------------------------------------------------------
(* The line                                                                *)

(* The timeout of ulTaskNotifyTake                                         *)
NapOver == nap = 0

(* Polling for a byte, transmitting or blocked: time passes                *)
Waiting ==
  \/ pc = "block" /\ ~NapOver
  \/ pc \in {"type", "len", "data"} /\ fifo = << >>
  \/ tx > 0

Interrupt == rxneie /\ fifo # << >>

Full(f) == Len(f) >= FifoDepth

(* The ground begins a frame.                                              *)
Quiet == ~waits /\ pc = "block" /\ tcq = << >> /\ cur = << >> /\ tmq = 0

SendFrame(type, len) ==
  LET n == Len(sent) + 1 IN
  /\ line = << >> /\ frames < MaxFrames
  /\ ground = "lockstep" => Quiet
  /\ ground # "free" => len <= MaxLen
  /\ line' = <<type, len>> \o [i \in 1 .. len |-> n]
  /\ sent' = IF type = WIRE_TC /\ len \in 1 .. MaxLen THEN Append(sent, n) ELSE sent
  /\ frames' = frames + 1
  /\ waits' = TRUE
  /\ harm' = IF len > MaxLen THEN harm \cup {"unsynced"} ELSE harm
  /\ UNCHANGED <<ground, fifo, rxneie, pc, item, nap, tx, tmq, pusVars, starved, late, busy, crossed>>

(* A byte time passes.  A byte that finds the FIFO full is lost.           *)
Kicked == pc = "block"

Tick(byte) ==
  /\ ~Interrupt /\ starved < Patience
  /\ Waiting \/ ~late
  /\ late' = ~Waiting
  /\ byte => line # << >>
  /\ ground # "free" /\ line # << >> => byte
  /\ ground = "steady" /\ frames < MaxFrames => byte
  /\ IF byte
     THEN /\ line' = Tail(line)
          /\ fifo' = IF Full(fifo) THEN fifo ELSE Append(fifo, Head(line))
          /\ harm' = IF Full(fifo) THEN harm \cup {"lost"} ELSE harm
     ELSE UNCHANGED <<line, fifo, harm>>
  /\ tx' = IF tx > 0 THEN tx - 1 ELSE 0
  /\ nap' = IF pc = "block" /\ nap > 0 THEN nap - 1 ELSE nap
  /\ starved' = IF Kicked THEN 0 ELSE starved + 1
  /\ busy' = (busy /\ (tx > 0 \/ fifo # << >>))
  /\ UNCHANGED <<ground, sent, frames, waits, rxneie, pc, item, tmq, pusVars, crossed>>

(* USART3_IRQHandler.  The notification leaves the task's value at 0, so   *)
(* it ends a ulTaskNotifyTake that has begun to wait and is lost on one    *)
(* that has not.                                                           *)
Isr ==
  /\ Interrupt
  /\ rxneie' = FALSE
  /\ pc' = IF pc = "block" THEN "flushIdle" ELSE pc
  /\ UNCHANGED <<groundVars, waits, fifo, item, nap, tx, tmq, pusVars, starved, late, busy, crossed, harm>>
-----------------------------------------------------------------------------
(* tmtc_task                                                               *)

Runs == ~Interrupt /\ tx = 0 /\ starved < Patience

(* Nothing received: enable the interrupt, and only then block             *)
Poll ==
  /\ Runs /\ pc = "poll"
  /\ pc' = IF fifo = << >> THEN "arm" ELSE "type"
  /\ UNCHANGED <<groundVars, waits, fifo, rxneie, item, nap, tx, tmq, pusVars, starved, late, busy, crossed, harm>>

Arm ==
  /\ Runs /\ pc = "arm"
  /\ rxneie' = TRUE
  /\ pc' = "take"
  /\ UNCHANGED <<groundVars, waits, fifo, item, nap, tx, tmq, pusVars, starved, late, busy, crossed, harm>>

Take ==
  /\ Runs /\ pc = "take"
  /\ nap' = NapTicks
  /\ pc' = "block"
  /\ UNCHANGED <<groundVars, waits, fifo, rxneie, item, tx, tmq, pusVars, starved, late, busy, crossed, harm>>

NapEnds ==
  /\ Runs /\ pc = "block" /\ NapOver
  /\ pc' = "flushIdle"
  /\ UNCHANGED <<groundVars, waits, fifo, rxneie, item, nap, tx, tmq, pusVars, starved, late, busy, crossed, harm>>

(* flush_tm: transmit until the store is empty                             *)
Flush ==
  /\ Runs /\ pc \in {"flushIdle", "flushFrame"}
  /\ IF tmq > 0
     THEN /\ tmq' = tmq - 1 /\ tx' = PktTicks /\ busy' = TRUE
          /\ crossed' = (crossed \/ (ground = "lockstep" /\ Len(fifo) + Len(line) > FifoDepth))
          /\ UNCHANGED pc
     ELSE /\ pc' = IF pc = "flushIdle" THEN "poll" ELSE "eot"
          /\ UNCHANGED <<tmq, tx, busy, crossed>>
  /\ UNCHANGED <<groundVars, waits, fifo, rxneie, item, nap, pusVars, starved, late, harm>>

(* The end-of-tick byte; taskYIELD finds no other task of this priority.   *)
EndOfTick ==
  /\ Runs /\ pc = "eot"
  /\ tx' = 1 /\ busy' = TRUE
  /\ waits' = FALSE
  /\ item' = NoItem
  /\ pc' = "poll"
  /\ UNCHANGED <<groundVars, fifo, rxneie, nap, tmq, pusVars, starved, late, crossed, harm>>

(* uart_getc, three times; a frame that is empty or does not fit is        *)
(* answered without reading its data.                                      *)
Fits(len) == len > 0 /\ len <= MaxLen

GetC ==
  /\ Runs /\ fifo # << >>
  /\ fifo' = Tail(fifo)
  /\ busy' = (busy /\ fifo' # << >>)

Header ==
  /\ GetC
  /\ \/ /\ pc = "type"
        /\ item' = [item EXCEPT !.type = Head(fifo)]
        /\ pc' = "len"
     \/ /\ pc = "len"
        /\ item' = [item EXCEPT !.len = Head(fifo)]
        /\ pc' = IF Fits(Head(fifo)) THEN "data" ELSE "flushFrame"
  /\ UNCHANGED <<groundVars, waits, rxneie, nap, tx, tmq, pusVars, starved, late, crossed, harm>>

(* The last byte of the data, and xQueueSend: dropped if the queue is full *)
Queued(q, d) == IF Len(q) < QueueDepth THEN Append(q, d) ELSE q

Data ==
  /\ GetC /\ pc = "data"
  /\ item' = [item EXCEPT !.data = Append(@, Head(fifo))]
  /\ IF Len(item'.data) < item.len
     THEN UNCHANGED <<pc, tcq, harm>>
     ELSE /\ pc' = "flushFrame"
          /\ tcq' = IF item.type = WIRE_TC THEN Queued(tcq, item'.data) ELSE tcq
          /\ harm' = IF item.type = WIRE_TC /\ tcq' = tcq THEN harm \cup {"dropped"} ELSE harm
  /\ UNCHANGED <<groundVars, waits, rxneie, nap, tx, tmq, cur, handled, starved, late, crossed>>

Tmtc == Poll \/ Arm \/ Take \/ NapEnds \/ Flush \/ EndOfTick \/ Header \/ Data
-----------------------------------------------------------------------------
(* The tasks below, which run while the TMTC task is blocked               *)

(* pus_task: receive; dispatch, which may answer; wake the TMTC task       *)
PusTake ==
  /\ pc = "block" /\ ~Interrupt
  /\ cur = << >> /\ tcq # << >>
  /\ cur' = <<Head(tcq)>> /\ tcq' = Tail(tcq)
  /\ UNCHANGED <<groundVars, waits, fifo, rxneie, pc, item, nap, tx, tmq, handled, starved, late, busy, crossed, harm>>

Room == tmq < StoreCap

PusDispatch(replies) ==
  /\ pc = "block" /\ ~Interrupt
  /\ cur # << >>
  /\ handled' = Append(handled, cur[1])
  /\ cur' = << >>
  /\ tmq' = IF tmq + replies <= StoreCap THEN tmq + replies ELSE StoreCap
  /\ pc' = "flushIdle"
  /\ UNCHANGED <<groundVars, waits, fifo, rxneie, item, nap, tx, tcq, starved, late, busy, crossed, harm>>

(* The FDIR and mode tasks report something, and nobody is woken; or the   *)
(* PUS task, which polls every 100 ms for due activities and actions, has  *)
(* run one and wakes the TMTC task, which has slept since the poll before. *)
Report(wakes) ==
  /\ pc = "block" /\ ~Interrupt
  /\ Room
  /\ wakes => cur = << >> /\ tcq = << >> /\ nap < NapTicks
  /\ tmq' = tmq + 1
  /\ pc' = IF wakes THEN "flushIdle" ELSE pc
  /\ UNCHANGED <<groundVars, waits, fifo, rxneie, item, nap, tx, pusVars, starved, late, busy, crossed, harm>>

(* The FDIR task did not run for Patience byte times: start again          *)
Reset ==
  /\ starved >= Patience
  /\ fifo' = << >> /\ rxneie' = FALSE
  /\ pc' = "poll" /\ item' = NoItem /\ nap' = 0 /\ tx' = 0
  /\ tcq' = << >> /\ cur' = << >> /\ tmq' = 0
  /\ starved' = 0 /\ late' = FALSE /\ busy' = FALSE
  /\ harm' = harm \cup {"reset"}
  /\ UNCHANGED <<groundVars, waits, handled, crossed>>
-----------------------------------------------------------------------------
Next ==
  \/ \E type \in 1 .. 2, len \in 0 .. MaxLen + 1 : SendFrame(type, len)
  \/ \E byte \in BOOLEAN : Tick(byte)
  \/ Isr \/ Tmtc
  \/ PusTake \/ (\E n \in Replies : PusDispatch(n))
  \/ \E wakes \in BOOLEAN : Report(wakes)
  \/ Reset

(* The clock ticks, the interrupt is served and the processor runs the     *)
(* TMTC task whenever it is not blocked.  Nothing is assumed of the ground *)
(* or of the tasks below.                                                  *)
Fairness ==
  /\ WF_vars(\E byte \in BOOLEAN : Tick(byte))
  /\ WF_vars(Isr) /\ WF_vars(Tmtc) /\ WF_vars(Reset)

Spec == Init /\ [][Next]_vars /\ Fairness
-----------------------------------------------------------------------------
(* Properties                                                              *)

(* The type invariant: among it the bounds of FIFO, queue and store.       *)
TypeOK ==
  /\ ground \in Grounds /\ line \in Seq(Nat) /\ sent \in Seq(Nat)
  /\ frames \in 0 .. MaxFrames /\ waits \in BOOLEAN
  /\ fifo \in Seq(Nat) /\ Len(fifo) <= FifoDepth /\ rxneie \in BOOLEAN
  /\ pc \in {"poll", "arm", "take", "block", "flushIdle", "flushFrame", "eot",
             "type", "len", "data"}
  /\ item \in [type : Nat, len : Nat, data : Seq(Nat)] /\ Len(item.data) <= MaxLen
  /\ nap \in 0 .. NapTicks /\ tx \in Nat
  /\ tcq \in Seq(Seq(Nat)) /\ Len(tcq) <= QueueDepth
  /\ cur \in Seq(Seq(Nat)) /\ tmq \in 0 .. StoreCap
  /\ handled \in Seq(Seq(Nat))
  /\ starved \in 0 .. Patience /\ late \in BOOLEAN /\ busy \in BOOLEAN /\ crossed \in BOOLEAN
  /\ harm \subseteq {"lost", "dropped", "reset", "unsynced"}

(* As long as no byte was lost, no queue overran, nothing was reset and no *)
(* frame was too long, the telecommands that were dispatched, are being    *)
(* dispatched and wait are those the ground sent, whole and in order.      *)
Tcs == handled \o cur \o tcq

UplinkFaithful ==
  harm = {} => /\ Len(Tcs) <= Len(sent)
               /\ \A i \in DOMAIN Tcs : Tcs[i] # << >> /\ \A j \in DOMAIN Tcs[i] : Tcs[i][j] = sent[i]

(* The sleep of 1 ms never costs a byte, although a notification may be    *)
(* lost just before it: a byte is lost only behind a transmission          *)
(* (uart.c:92-95).                                                         *)
NapLosesNothing == [][("lost" \in harm') /\ ("lost" \notin harm) => busy]_vars

(* A ground in lock-step loses a byte or a telecommand, or starves the     *)
(* tasks below so long that the watchdog resets the board, only when the   *)
(* board began to transmit while more of a frame was to come than the FIFO *)
(* holds (flush_tm comes before the look at the FIFO, tmtc.c:131-134).     *)
LockStepUnharmed == ground = "lockstep" => harm = {} \/ crossed

(* What is received is read: a byte that arrives between the look at the   *)
(* FIFO and the sleep finds the task asleep and its notification lost, and *)
(* the timeout gets it (tmtc.c:128-137, 165-178).                          *)
FifoDrains == fifo # << >> ~> fifo = << >>

(* A frame that stops halfway does not hold the board for good: the task   *)
(* polls for the rest, keeps the FDIR task from kicking, and the watchdog  *)
(* starts the board again (fdir.c:31-34).                                  *)
LinkRecovers == pc \in {"type", "len", "data"} ~> pc = "poll"

(* docs/freertos-architecture.md:73-75: taskYIELD() after each frame is    *)
(* there "to guarantee FDIR and lower-priority tasks get a scheduling slot *)
(* even under continuous UART traffic", so that traffic causes no reset.   *)
NeverStarved == starved < Patience
-----------------------------------------------------------------------------
(* The inductive invariants (UplinkProofs)                                 *)

(* The buffer of the task is empty between frames and never overruns.      *)
ItemBounded ==
  /\ pc \notin {"data", "flushFrame", "eot"} => item.data = << >>
  /\ pc = "data" => Fits(item.len) /\ Len(item.data) < item.len

(* How many bytes the FIFO may hold when nothing was transmitted since it  *)
(* was empty: one that came before the sleep, one for each byte time of    *)
(* it, and one after it.                                                   *)
Overdue == IF late THEN 1 ELSE 0
Pileup ==
  CASE pc \in {"arm", "take"} -> Overdue
    [] pc = "block" -> 1 + NapTicks - nap + (IF nap = 0 THEN Overdue ELSE 0)
    [] OTHER -> 1 + NapTicks + Overdue

NapBound == ~busy => tx = 0 /\ Len(fifo) <= Pileup

(* The bytes on their way are whole frames, but for the c bytes of the     *)
(* first which the task has read: frame k starts behind at[k] bytes, and   *)
(* num[k] telecommands were sent before it.                                *)
Frames == [type : 1 .. 2, len : 0 .. MaxLen]
IsTc(f) == f.type = WIRE_TC /\ f.len > 0
ByteOf(f, n, k) == IF k = 1 THEN f.type ELSE IF k = 2 THEN f.len ELSE n

Flow(c, bytes, size, m, f, at, num) ==
  /\ at[1] = 0 /\ at[m + 1] = c + size
  /\ \A k \in 1 .. m : /\ at[k + 1] = at[k] + 2 + f[k].len
                       /\ num[k + 1] = num[k] + (IF IsTc(f[k]) THEN 1 ELSE 0)
  /\ \A k \in 1 .. m : \A x \in 1 .. 2 + f[k].len :
       at[k] + x > c => bytes[at[k] + x - c] = ByteOf(f[k], num[k] + 1, x)
  /\ \A j, k \in 1 .. m + 1 : j <= k => at[j] <= at[k] /\ num[j] <= num[k]

InFlight == fifo \o line
Consumed == CASE pc = "len" -> 1 [] pc = "data" -> 2 + Len(item.data) [] OTHER -> 0

Framed(m, f, at, num) ==
  /\ Flow(Consumed, InFlight, Len(InFlight), m, f, at, num)
  /\ num[1] = Len(Tcs) /\ num[m + 1] = Len(sent)
  /\ pc \in {"len", "data"} => m > 0 /\ item.type = f[1].type
  /\ pc = "data" => /\ item.len = f[1].len
                    /\ \A j \in DOMAIN item.data : item.data[j] = num[1] + 1

InFrames ==
  \E m \in Nat :
    \E f \in [1 .. m -> Frames], at, num \in [1 .. m + 1 -> Nat] : Framed(m, f, at, num)

InOrder(s) == \A k \in DOMAIN s : s[k] # << >> /\ \A j \in DOMAIN s[k] : s[k][j] = k

Numbered ==
  /\ \A k \in DOMAIN sent : sent[k] = k
  /\ Len(cur) <= 1
  /\ harm = {} => InFrames /\ InOrder(Tcs)

(* A ground in lock-step has one frame on its way, or one telecommand that *)
(* waits for its answers, and never both.                                  *)
Awaited == tcq # << >> \/ cur # << >>

Lone(len) ==
  /\ len <= MaxLen /\ Consumed + Len(InFlight) = 2 + len
  /\ Consumed = 0 => InFlight[2] = len
  /\ Consumed = 1 => InFlight[1] = len
  /\ pc = "data" => item.len = len

OneAtATime ==
  /\ harm = {} /\ Len(tcq) + Len(cur) <= 1
  /\ pc \in {"type", "len", "data", "flushFrame", "eot"} => waits
  /\ waits /\ pc \notin {"flushFrame", "eot"} => ~Awaited /\ \E len \in Nat : Lone(len)
  /\ ~waits \/ pc \in {"flushFrame", "eot"} => line = << >> /\ fifo = << >>

(* What comes while it transmits fits the FIFO.                            *)
Uncrossed == busy /\ (tx > 0 \/ fifo # << >>) => Len(fifo) + Len(line) <= FifoDepth

(* The byte times until it may let the tasks below run: to transmit what   *)
(* is in the store, and may be in it after the next dispatch; to receive   *)
(* the frame; and the one after each wait that may pass before it acts.    *)
Slack == IF tx > 0 \/ line # << >> THEN 1 ELSE 1 - Overdue
Cost(n) == n * (PktTicks + 1)
Longest == 5 + MaxLen + 2 * Cost(StoreCap)

ToCome == IF waits THEN 2 + Cost(StoreCap) ELSE IF Awaited THEN Cost(StoreCap) ELSE 0

Debt == tx + Slack + Cost(tmq) + Len(line) + ToCome

OnTime ==
  IF pc = "block"
  THEN /\ tx = 0
       /\ nap < NapTicks => starved = 0
       /\ nap = NapTicks => ~Interrupt
       /\ starved + (IF Awaited THEN Slack + Cost(StoreCap) ELSE 0) <= Longest
  ELSE starved + Debt <= Longest

LockStep == ground = "lockstep" => crossed \/ (OneAtATime /\ OnTime /\ Uncrossed)

=============================================================================
