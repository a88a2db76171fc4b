------------------------------ MODULE Superloop -----------------------------
(***************************************************************************)
(* The single-threaded builds: the ZynqMP, MSP430 and STM32H7 (without     *)
(* FreeRTOS) main loops and the telecommand and sensor frames of the host  *)
(* simulator.  A build is picked at the start and never changes.           *)
(*                                                                         *)
(* A step is one pass through the loop: a frame is read, handled and       *)
(* answered.  `out' is what the pass wrote: TM frames, an actuator frame   *)
(* and the end-of-tick byte.  Reading blocks, so nothing happens without   *)
(* a frame.  After a length that does not fit the buffer the loop takes    *)
(* the payload for headers, so any frame may come next; the model lets any *)
(* frame come next at any time.                                            *)
(*                                                                         *)
(* The telecommands of services 11, 12 and 19 are in Schedule and          *)
(* Autonomy and those that define HK sets in Housekeeping; here their      *)
(* tables stay as they are at start-up, so a tick of the simulator finds   *)
(* nothing to run or to check.                                             *)
(***************************************************************************)
EXTENDS Services

CONSTANTS
  Builds,       \* builds the run looks at
  Tcs,          \* telecommands that arrive
  Dts,          \* milliseconds between two sensor frames
  Oversize,     \* <<build, service>>: its packets exceed the drain buffer
  LoopsPerTick, \* MSP430: passes of the loop per tick, 1000
  WdTimeout,    \* timeout_ticks of the software watchdog
  Uptime        \* the parameter that follows the simulation time

ASSUME BuildAssumption == Builds \subseteq {"zynqmp", "msp430", "stm32", "sim"}
ASSUME DtAssumption == Dts \subseteq 0 .. FineUnits - 1
ASSUME LoopAssumption ==
  LoopsPerTick \in Nat \ {0, 1} /\ WdTimeout \in Nat \ {0} /\ StoreCap >= 3 /\ Uptime \in Params

(* The fields of a telecommand have the width the parser gives them.       *)
ASSUME TcAssumption ==
  \A tc \in Tcs : tc.arg # Short =>
    /\ Is(tc, 9, 128) => tc.arg[1] \in 0 .. CoarseRange - 1 /\ tc.arg[2] \in 0 .. FineUnits - 1
    /\ tc.svc = 6 => tc.arg[1] \in Addresses /\ tc.arg[2] \in Nat
    /\ Is(tc, 6, 2) => tc.arg[3] \in Seq(Bytes)
    /\ Is(tc, 6, 5) => \A s \in [1 .. tc.arg[2] -> Bytes] : Crc(s) \in Int
    /\ Is(tc, 20, 1) /\ tc.arg[1] \in Params => tc.arg[2] \in Values
    /\ Is(tc, 3, 5) => tc.arg[2] \in Nat

(* A memory load is not accepted outside NOMINAL.                          *)
ASSUME GateAssumption == <<6, 2>> \notin Whitelist

VARIABLES
  build,        \* which main() runs
  board,        \* what telecommands change, and the TM store
  wd,           \* the software watchdog
  loops,        \* MSP430: tick
  seen,         \* bdot_ctx.initialised
  out,          \* frames written by the last pass
  halted,       \* the simulator has left its loop
  asked,        \* history: the telecommand of the last pass and the number
                \* of packets that were in the TM store when it came
  clock         \* history: the instant on-board time should show

vars == <<build, board, wd, loops, seen, out, halted, asked, clock>>

(* The routing table and the S8 function table of each build               *)
ZynqRoutes == {<<17, 1>>, <<8, 1>>}
MspRoutes == {<<17, 1>>, <<8, 1>>, <<3, 5>>, <<3, 6>>}
Stm32Routes == {<<17, 1>>, <<20, 1>>, <<20, 3>>}
SimRoutes ==
  {<<17, 1>>, <<8, 1>>, <<3, 5>>, <<3, 6>>, <<20, 1>>, <<20, 3>>, <<9, 128>>,
   <<6, 2>>, <<6, 5>>, <<6, 9>>}

Routes ==
  [zynqmp |-> ZynqRoutes, msp430 |-> MspRoutes, stm32 |-> Stm32Routes, sim |-> SimRoutes]

ZynqFunctions == 1 .. 3
MspFunctions == {1}
SimFunctions == 1 .. 3

Functions ==
  [zynqmp |-> ZynqFunctions, msp430 |-> MspFunctions, stm32 |-> {}, sim |-> SimFunctions]

Gated(bd) == bd # "stm32"

(* The services whose packets a build makes: reports, events and what its  *)
(* handlers answer.  All of them fit the buffer of its drain loop.         *)
Makes(bd) == {1, 5} \cup {route[1] : route \in Routes[bd]}

ASSUME DrainAssumption ==
  \A bd \in Builds : \A svc \in Makes(bd) : <<bd, svc>> \notin Oversize

(* Frames on the wire                                                      *)
TM(pkt) == <<4, pkt[1], pkt[2], pkt[3]>>
Sync == <<255, 0, 0, << >>>>
Actuator(command) == <<3, 0, 0, <<command>>>>

(* Actuator commands: controller off, wheel torque, dipole of zero, dipole *)
Off == 0
Torque == 1
ZeroDipole == 2
Dipole == 3

NoTc == [tc |-> Malformed, pending |-> 0]
-----------------------------------------------------------------------------
(* Seeded faults: plausible slips in the definitions they stand in for;    *)
(* no specification uses them.                                             *)

BadSent(b) == IF b.store = << >> THEN 0 ELSE 1      \* if for while
-----------------------------------------------------------------------------
(* watchdog.c                                                              *)
WdInit == [countdown |-> WdTimeout, kicked |-> FALSE, expired |-> FALSE]
WdKick(w) == [w EXCEPT !.kicked = TRUE]
WdTick(w) ==
  IF w.expired THEN w
  ELSE IF w.kicked THEN WdInit                      \* reloaded
  ELSE LET left == IF w.countdown > 0 THEN w.countdown - 1 ELSE 0 IN
         [w EXCEPT !.countdown = left, !.expired = (left = 0)]
-----------------------------------------------------------------------------
(* The board as main() hands it to the loop                                *)
Fresh(fsm, store) ==
  [fsm   |-> fsm,
   mem   |-> [c \in Cells |-> 0],
   par   |-> [p \in Params |-> 0],
   obt   |-> ObtZero,
   hk    |-> [on |-> TRUE, every |-> HkInterval, left |-> HkInterval],
   store |-> store]

ZynqBoot == Fresh(FsmInit, << >>)
MspBoot == Fresh(FsmInit, <<<<5, 1, << >>>>>>)      \* the boot event
Stm32Boot == Fresh(FsmInit, << >>)
SimBoot == Fresh(FsmToSafe(FsmInit), << >>)

Boot == [zynqmp |-> ZynqBoot, msp430 |-> MspBoot, stm32 |-> Stm32Boot, sim |-> SimBoot]

Init ==
  /\ build \in Builds
  /\ board = Boot[build]
  /\ wd = WdInit
  /\ loops = 0
  /\ seen = FALSE
  /\ out = << >>
  /\ halted = FALSE
  /\ asked = NoTc
  /\ clock = 0
-----------------------------------------------------------------------------
(* The drain loop takes packets until the store is empty or the oldest     *)
(* does not fit its buffer; that one stays (obsw_tm_store_dequeue).        *)
TooLarge(pkt) == <<build, pkt[1]>> \in Oversize

Sent(b) ==
  CHOOSE n \in 0 .. Len(b.store) :
    /\ \A i \in 1 .. n : ~TooLarge(b.store[i])
    /\ n = Len(b.store) \/ TooLarge(b.store[n + 1])

TmFrames(b) == [i \in 1 .. Sent(b) |-> TM(b.store[i])]
Drained(b) == [b EXCEPT !.store = SubSeq(@, Sent(b) + 1, Len(@))]

Fed(tc) == Feed(board, tc, Routes[build], Gated(build), Functions[build])

(* History: what on-board time should show after a telecommand             *)
ClockAfter(tc) ==
  IF build = "sim" /\ Is(tc, 9, 128) /\ tc.arg # Short /\ Allowed(board, tc, TRUE)
  THEN (tc.arg[1] * FineUnits + tc.arg[2]) * Millis
  ELSE clock

(* A telecommand frame in the ZynqMP, STM32H7 and simulator loops          *)
TcFrame(tc) ==
  /\ build # "msp430" /\ ~halted
  /\ out' = Append(TmFrames(Fed(tc)), Sync)
  /\ board' = Drained(Fed(tc))
  /\ asked' = [tc |-> tc, pending |-> Len(board.store)]
  /\ clock' = ClockAfter(tc)
  /\ UNCHANGED <<build, wd, loops, seen, halted>>

(* The control laws by what they return: the PD law gives up on a null     *)
(* quaternion, B-dot is silent on its first sample.                        *)
AdcsStep(s) == IF s.att = "null" THEN Off ELSE Torque
BdotStep == IF seen THEN Dipole ELSE ZeroDipole

(* The controller of a sensor frame; the B-dot filter is never reset.      *)
Command(s) ==
  CASE board.fsm.mode = "NOMINAL" /\ s.att # "invalid" -> AdcsStep(s)
    [] board.fsm.mode = "SAFE" /\ s.mag -> BdotStep
    [] OTHER -> Off

Seen(s) == seen \/ (board.fsm.mode = "SAFE" /\ s.mag)

(* ZynqMP: the actuator frame goes out before the telemetry.  A frame that *)
(* is too short leaves what the buffer held before: any sample.            *)
ZynqSensor(s) ==
  /\ build = "zynqmp"
  /\ out' = <<Actuator(Command(s))>> \o Append(TmFrames(board), Sync)
  /\ board' = Drained(board)
  /\ seen' = Seen(s)
  /\ asked' = NoTc
  /\ UNCHANGED <<build, wd, loops, halted, clock>>

(* STM32H7: the sample only sets a parameter.                              *)
Stm32Sensor(s) ==
  /\ build = "stm32"
  /\ board' = IF s.long THEN [board EXCEPT !.par[Uptime] = s.time] ELSE board
  /\ out' = <<Sync>>
  /\ asked' = NoTc
  /\ UNCHANGED <<build, wd, loops, seen, halted, clock>>

(* Simulator: control step, parameters, on-board time, watchdog kick,      *)
(* housekeeping; then telemetry, actuator frame and end-of-tick.  A frame  *)
(* that is too short is only acknowledged.                                 *)
SimTicked(s) ==
  S3Tick([board EXCEPT !.par[Uptime] = s.time, !.obt = ObtAdvance(@, s.dt)])

SimSensor(s) ==
  /\ build = "sim" /\ ~halted
  /\ IF s.long
     THEN /\ board' = Drained(SimTicked(s))
          /\ out' = TmFrames(SimTicked(s)) \o <<Actuator(Command(s)), Sync>>
          /\ seen' = Seen(s)
          /\ wd' = WdKick(wd)
          /\ clock' = (clock + s.dt * FineUnits) % Span
     ELSE /\ out' = <<Sync>>
          /\ UNCHANGED <<board, seen, wd, clock>>
  /\ asked' = NoTc
  /\ UNCHANGED <<build, loops, halted>>

Sensors ==
  [long : BOOLEAN, att : {"invalid", "null", "good"}, mag : BOOLEAN,
   time : Values, dt : Dts]

SensorFrame == \E s \in Sensors : ZynqSensor(s) \/ Stm32Sensor(s) \/ SimSensor(s)

(* A frame of another type: the ZynqMP drains its store, all acknowledge.  *)
OtherFrame ==
  /\ build # "msp430" /\ ~halted
  /\ IF build = "zynqmp"
     THEN out' = Append(TmFrames(board), Sync) /\ board' = Drained(board)
     ELSE out' = <<Sync>> /\ UNCHANGED board
  /\ asked' = NoTc
  /\ UNCHANGED <<build, wd, loops, seen, halted, clock>>

(* A length that does not fit (ZynqMP: or type 0; STM32H7: or an empty     *)
(* frame): back to the header, without an acknowledgement.                 *)
SkipFrame ==
  /\ build \in {"zynqmp", "stm32"}
  /\ out' = << >>
  /\ asked' = NoTc
  /\ UNCHANGED <<build, board, wd, loops, seen, halted, clock>>

(* Simulator: end of input, an empty frame or one that does not fit ends   *)
(* the program.                                                            *)
SimHalt ==
  /\ build = "sim" /\ ~halted
  /\ halted' = TRUE
  /\ out' = << >>
  /\ asked' = NoTc
  /\ UNCHANGED <<build, board, wd, loops, seen, clock>>

Terminated == halted /\ UNCHANGED vars
-----------------------------------------------------------------------------
(* The rest of a pass of the MSP430 loop, which began with a watchdog      *)
(* kick: every LoopsPerTick passes the housekeeping and watchdog tick and  *)
(* the write to the sentinel address, for which the emulator sends an      *)
(* end-of-tick byte.  What the tick puts in the store stays there until    *)
(* the next telecommand.                                                   *)
MspPass(b, frames) ==
  LET kicked  == WdKick(wd)
      ticked  == WdTick(kicked)
      hk      == S3Tick(b)
  IN  /\ loops' = (loops + 1) % LoopsPerTick
      /\ IF loops + 1 >= LoopsPerTick
         THEN /\ wd' = ticked
              /\ board' = IF ticked.expired /\ ~wd.expired
                          THEN S5Report(hk, 4, TRUE) ELSE hk
              /\ out' = Append(frames, Sync)
         ELSE wd' = kicked /\ board' = b /\ out' = frames
      /\ UNCHANGED <<build, seen, halted, clock>>

MspTc(tc) ==
  /\ build = "msp430"
  /\ asked' = [tc |-> tc, pending |-> Len(board.store)]
  /\ MspPass(Drained(Fed(tc)), TmFrames(Fed(tc)))

(* An empty frame or one that does not fit is not read, and no telemetry   *)
(* is transmitted.                                                         *)
MspSkip ==
  /\ build = "msp430"
  /\ asked' = NoTc
  /\ MspPass(board, << >>)
-----------------------------------------------------------------------------
Next ==
  \/ \E tc \in Tcs : TcFrame(tc) \/ MspTc(tc)
  \/ SensorFrame \/ OtherFrame \/ SkipFrame \/ MspSkip \/ SimHalt \/ Terminated

Spec == Init /\ [][Next]_vars
-----------------------------------------------------------------------------
(* Properties                                                              *)

Packets == Nat \X Nat \X Seq(Int)

Boards ==
  [fsm : FsmContexts, mem : [Cells -> Bytes], par : [Params -> Values], obt : Times,
   hk : [on : BOOLEAN, every : Nat, left : Nat], store : Seq(Packets)]

(* The type invariant: among it, the TM store never exceeds its capacity,  *)
(* also on the MSP430 where housekeeping piles up between telecommands.    *)
TypeOK ==
  /\ build \in Builds
  /\ board \in Boards /\ Len(board.store) <= StoreCap
  /\ wd \in [countdown : 0 .. WdTimeout, kicked : BOOLEAN, expired : BOOLEAN]
  /\ loops \in 0 .. LoopsPerTick - 1
  /\ seen \in BOOLEAN /\ halted \in BOOLEAN
  /\ out \in Seq(Nat \X Nat \X Nat \X Seq(Int))
  /\ asked.tc \in Tcs \cup {Malformed} /\ asked.pending \in 0 .. StoreCap
  /\ clock \in 0 .. Span - 1

(* The TM(1,x) reports of the last pass                                    *)
Verification == {i \in DOMAIN out : out[i][1] = 4 /\ out[i][2] = 1}

(* One refusal, or an acceptance followed by one completion report         *)
Complete ==
  \/ \E i \in Verification : Verification = {i} /\ out[i][3] = 2
  \/ \E i, j \in Verification :
       /\ i < j /\ Verification = {i, j}
       /\ out[i][3] = 1 /\ out[j][3] \in {7, 8}

(* docs/SRS.md:192 (SRS-082), where it holds: a telecommand that parses is *)
(* answered in full by the pass that read it if the TM store was empty     *)
(* when it came; no handler sends more than the three packets that fit on  *)
(* the smallest board (targets/msp430-fr5969/CMakeLists.txt:47).           *)
AnsweredIfStoreEmpty ==
  asked.tc # Malformed /\ asked.pending = 0 => Complete

(* A telecommand that is refused has changed nothing: neither the mode nor *)
(* a parameter, the memory, the time or a reporting interval, whichever    *)
(* handler or the gate refused it (docs/SRS.md:192, 250).                  *)
RefusedHasNoEffect ==
  [][(\E i \in DOMAIN out' : out'[i][1] = 4 /\ out'[i][2] = 1 /\ out'[i][3] = 2)
       => /\ board'.fsm = board.fsm /\ board'.par = board.par
          /\ board'.mem = board.mem /\ board'.obt = board.obt
          /\ board'.hk.on = board.hk.on /\ board'.hk.every = board.hk.every]_vars

(* The ground address of a cell, in a region that grants an access         *)
Addressable(c, addr, access) ==
  \E i \in DOMAIN Regions :
    LET r == Regions[i] IN
      /\ access \in r.access
      /\ c \in r.base .. r.base + r.size - 1
      /\ addr = r.start + (c - r.base)

(* Memory changes only in NOMINAL, by a load, in cells of a writable       *)
(* region that the load addressed, and to the byte the load carried for    *)
(* that address; also for ranges that reach the top of the address space   *)
(* (docs/SRS.md:250 and 253, SRS-123 and SRS-124).                         *)
LoadStaysInRegion ==
  [][\A c \in Cells : board'.mem[c] # board.mem[c] =>
       /\ board.fsm.mode = "NOMINAL"
       /\ Is(asked'.tc, 6, 2)
       /\ \E k \in 1 .. asked'.tc.arg[2] :
            /\ Addressable(c, asked'.tc.arg[1] + k - 1, "write")
            /\ board'.mem[c] = asked'.tc.arg[3][k]]_vars

(* On-board time shows the time it was last set to plus every millisecond  *)
(* since, without rounding, until its seconds wrap (docs/SRS.md:277,       *)
(* SRS-151).                                                               *)
ClockExact == Instant(board.obt) = clock

(* When two telecommands in a row find packets waiting, the second leaves  *)
(* the store empty: with AnsweredIfStoreEmpty, ground that repeats at once *)
(* a telecommand whose reports were lost, to the boot event or to the      *)
(* housekeeping of the MSP430's tick, is answered in full the third time   *)
(* at the latest (targets/msp430-fr5969/main.c:268-286).                   *)
RetryFindsRoom ==
  [][asked.pending > 0 /\ asked'.pending > 0 => board'.store = << >>]_vars

-----------------------------------------------------------------------------
(* The inductive invariant behind the theorems of SuperloopProofs.         *)

(* The board has the fields main() sets up, whatever they hold.            *)
IsBoard(b) ==
  b = [fsm |-> b.fsm, mem |-> b.mem, par |-> b.par, obt |-> b.obt, hk |-> b.hk,
       store |-> b.store]

(* The watchdog never expires: no build ticks it without a kick.           *)
WdAlive == wd \in [countdown : 0 .. WdTimeout, kicked : BOOLEAN, expired : {FALSE}]

MspNeverSafe ==
  build = "msp430" => board.fsm \in [mode : {"STANDBY", "NOMINAL"}, entries : 0 .. EntryRange - 1]

(* What the MSP430 keeps are reports of housekeeping and events.           *)
KeepsNoRefusal ==
  \A i \in DOMAIN board.store : ~(board.store[i][1] = 1 /\ board.store[i][2] = 2)

(* Only the MSP430 keeps packets from one pass to the next, and after a    *)
(* telecommand only those of the tick that ended its pass.                 *)
StoreDrained == build # "msp430" => board.store = << >>
OnlyTicked == asked.pending > 0 /\ board.store # << >> => loops = 0

(* What is in the store was made by a service of the build.                *)
Own(b) == \A i \in DOMAIN b.store : b.store[i][1] \in Makes(build)

LoopIInv ==
  /\ build \in Builds /\ IsBoard(board) /\ board.obt \in Times
  /\ ClockExact /\ WdAlive /\ MspNeverSafe

=============================================================================
