# TLA+ models of openobsw

This directory holds a formal model of the on-board software in this
repository: TLA+ modules translated from the C source, TLC configurations that
check them on small instances, and TLAPS proofs that hold for every value of
the constants. Paths below are relative to the root of the repository.

## 1. The system

openobsw is flight software for a small satellite: a C library of PUS services
around a telecommand dispatcher and a telemetry store, built as a host
simulator (`sim/main.c`, one thread), as five FreeRTOS tasks on an STM32H7
(`src/task/*.c`), and as superloops for ZynqMP, MSP430 and, without FreeRTOS, the
STM32H7.

| Component | State | Operations | Used by |
|---|---|---|---|
| TM store `src/tm/store.c` | ring of slots, `head`, `tail` | enqueue, dequeue, count, empty | written by every service (PUS, FDIR and mode tasks), read by the TMTC task |
| Mode machine `src/fdir/fsm.c` | mode, SAFE entry counter | to STANDBY/SAFE/NOMINAL, TC gate | mode task; S5 and S8 in the host sim; dispatcher |
| Mode Manager `src/task/mode.c` | three request flags, STANDBY timer | request safe/nominal/standby, 1 s period | PUS task (S8), AOCS and FDIR read the mode |
| TC dispatcher `src/tc/dispatcher.c` | route table, gate | feed | uplink, S11, S19 |
| S1, S17, S20, `pus_tm.c` | counters, parameter table | reports, ping, set, get | every service |
| S5 `src/pus/s5.c` | safe-trigger list, event hook | report | S12, watchdog, tasks |
| S8 `src/pus/s8.c` | function table | perform | ground; changes the mode |
| S9, OBT | on-board time | set, advance | FDIR task advances, S11 compares |
| S11 `src/pus/s11.c` | table of time-tagged TCs, next request number, enabled | insert, delete, delete all, enable, disable, run | PUS task / control tick |
| S12 `src/pus/s12.c` | limit definitions with latches, enabled | add, delete, delete all, enable, disable, check | control tick / FDIR task |
| S19 `src/pus/s19.c` | event-action table, queue of events, enabled | add, delete, delete all, enable, disable, on_event, run | S5 hook, PUS task / control tick |
| S3 `src/pus/s3.c` | HK sets, parameter pool | define, delete, enable, disable, tick, report | PUS and FDIR tasks |
| S6 `src/pus/s6.c` | memory regions | load, check, dump | ground (host sim, FreeRTOS build) |
| TMTC task `src/task/tmtc.c` | UART with its FIFO, TC queue of 4, TM log | frame loop, interrupt, flush | PUS (queue, notify), FDIR (log) |
| FDIR task, watchdogs | HK mirrors, SAFE entry count, countdown | kick every 200 ms, full tick every second | S3, S12, OBT; resets the board when it does not run |
| AOCS task, control laws | B-dot filter, HK record | 100 ms period | mode, S20 gains |
| CCSDS packets and frames | none (pure) | encode, decode, build | dispatcher (space packets); the frames by tests only |
| Main loops `sim/main.c`, `src/platform/*/main.c`, `targets/msp430-fr5969/main.c` | receive buffer, tick counter | one frame per pass, answered | all of the above in one thread |

What makes it hard:

* five tasks share the TM store, the mode machine, the S20 table, the HK
  records and the on-board time, partly under a lock and partly not;
* telecommands come three ways (uplink, schedule, event action) and a gate
  judges each at the moment it is dispatched, not when it was prepared;
* everything is finite: store, tables, queues, 16-bit request numbers;
* requests, limit events and timeouts are latched in flags that one task sets
  and another clears;
* two tasks learn of mode changes only by comparing the mode with the one they
  saw in their last period;
* the task that reads the line has the highest priority, polls, and keeps the
  task that kicks the hardware watchdog from running.

`PROJECT.json` lists every component with its status, and every hazard at the
line where it bites with the properties that would catch it.

## 2. Modules

| Module | Models | Kind |
|---|---|---|
| `TmFifo` | what the TM store promises: a bounded FIFO | abstract specification |
| `TmStore` | `src/tm/store.c`, `flush_tm` of `src/task/tmtc.c`, FreeRTOS scheduling | detailed specification |
| `MCTmStore` | packets, writers and priorities for TLC | instance |
| `TmStoreProofs` | | proofs |
| `Fsm` | `src/fdir/fsm.c` as operators on its context | library |
| `ModeManager` | `src/task/mode.c` | specification |
| `Supervision` | `ModeManager` with `src/task/aocs.c` and the full tick of `src/task/fdir.c` | composed specification |
| `SupervisionProofs` | both of these | proofs |
| `PackedTable` | the "move the last row into the hole" removal that s11.c, s12.c and s19.c share | library |
| `PackedTableProofs` | what that removal returns | proofs |
| `TimeTagged` | what service 11 promises: a set of time-tagged activities | abstract specification |
| `Schedule` | `src/pus/s11.c` in the cycle of `src/task/pus.c` | detailed specification |
| `ScheduleProofs` | | proofs |
| `Autonomy` | dispatcher, S1/S5/S8/S12/S17/S19/S20 and the loop of `sim/main.c` | composed specification |
| `MCAutonomy` | parameters, limits, actions and telecommands for TLC | instance |
| `AutonomyProofs` | | proofs |
| `HkSets` | what service 3 promises: a list of sets, reported whole and on time | abstract specification |
| `Housekeeping` | `src/pus/s3.c` with the tick of `src/task/fdir.c` and the locks of `src/task/pus.c` | detailed specification |
| `MCHousekeeping` | sets, parameters and telecommands for TLC | instance |
| `HousekeepingProofs` | | proofs |
| `Obt` | `src/time/obt.c` as operators | library |
| `Services` | the handlers of S1, S3, S5, S6, S8, S9, S17, S20 and the dispatcher as operators on the board | library |
| `Superloop` | the main loops of the ZynqMP, MSP430, STM32H7 and host builds | composed specification |
| `MCSuperloop` | regions, whitelist and telecommands for TLC | instance |
| `SuperloopProofs` | `Obt`, the handlers of `Services`, the loops | proofs |
| `Uplink` | `src/task/tmtc.c`, `src/hal/stm32h7/uart.c`, the queue of `src/task/pus.c`, the hardware watchdog of `src/task/fdir.c` | composed specification |
| `UplinkProofs` | | proofs |

Definitions named `Bad...` are seeded faults. No specification uses them; each
replaces one definition by a plausible slip, to show that a property fails
when the code goes wrong (`PROJECT.json`, "mutants").

### TmStore

`obsw_tm_store_enqueue` and `_dequeue` are not atomic, so each is broken into
its accesses to the shared ring: the guard (`EnqueueTooLarge`, `EnqueueFull`,
`EnqueueStart`), the two halves of the `memcpy` (`CopyLo`, `CopyHi`), the length
(`SetLen`), the load and the store of the volatile `head` (`LoadHead`,
`StoreHead`); likewise for dequeue. A packet is two halves and a length, enough
to see it torn. `Scheduled(w)` is the FreeRTOS scheduler (external code): a
writer runs in the middle of another's call if its priority is higher, or equal
with time slicing on. The reader may run at every step. The
destination of the `memcpy` is worked out once (`store.c:31`): `CopyLo` notes it and
`CopyHi` writes to the same slot, whatever has become of `head` meanwhile.

`RefinesFifo` maps the ring to the sequence of packets between `tail` and
`head` and demands a step of `TmFifo` (or a stutter) for every step of the code.

### Fsm and ModeManager

`Fsm` keeps the mode and the SAFE entry counter (a `uint32_t`, modulo
`EntryRange`). `ModeManager` splits `mode_task` at each access to the three
`volatile` flags, since the PUS task has a higher priority and may set them
anywhere in between: `Wake`, `TestSafe`, `TestStandby`, `TestNominal`,
`ClearRequest`, `Transition`, `Timer`, `Report`. The requests are the three
setters called by the S8 functions of `src/task/pus.c:95-114`. In the FreeRTOS
build no other task moves the machine: the S5 context that is given the machine
(`src/task/fdir.c:329-337`) only reports BOOT_COMPLETE, an INFO event, and the
one used by S12 has none.

### Supervision

The AOCS task and the FDIR task beside the Mode Manager. `AocsWake` reads the mode
once and resets the filter on the edge NOMINAL to SAFE, `AocsSense` reads the
magnetometer (whose driver may fail), `AocsRecord` writes one field of the HK record
at a time, `AocsControl` writes `mag_valid` and runs the control law of the mode that
was read, and in SAFE `AocsCommand` writes the components of the command (`m_cmd`) into
the same record, one at a time. AOCS and mode task have equal priority and share time
slices, so their steps interleave; the FDIR task preempts both, so `FdirTick` is one step.

Time is not counted and nothing is assumed of how the periods fall: between two periods
of one task there may be any number of the others', none included, since the periods
jitter and a task that was held up runs its missed ones back to back. What a task that
only compares modes can then miss is stated by histories: `through` of the filter (the
modes the machine has been in since the sample was taken), `looked` (the AOCS task began
a period in the present visit to NOMINAL) and `visit` (whether the FDIR task ticked in
the present visit to SAFE and in another mode before it, and how often it counted).

### Schedule

The table is the sequence of its first `count` rows. Tags are the 48-bit keys of
`tag_key`. The PUS task's cycle is `tc` (at most one telecommand) -> `copy` (the
time, under the lock) -> `run` (one `Release` per turn of the loop of
`obsw_s11_run`) -> `take`/`s19` (the queued actions of service 19, which may be
S11 telecommands themselves). `ObtAdvance` is the FDIR task's tick. `Reset` is the
hardware watchdog's: it may come at any time and empties the table. The search
loop of `take_id` is the smallest number of increments that ends on a free
number (`Skips`, `TakeId`). `ord`, the insertion number of a row, is history.

### Autonomy

The host simulator is one thread, so an action is a whole handler, and the loop
is a sequence of phases: an uplinked frame (`Uplink`, `MalformedFrame`), or a
control tick with scheduled telecommands (`Scheduled`), event actions
(`TakeBatch`, `RunAction`), the control step, the limit checks (`CheckRow`,
`CheckEnd`) and the drain. `Feed` is the dispatcher: gate, route, handler.
Of the telemetry only the number of packets is kept; a packet that does not fit
is dropped, and only service 5 looks at that result. `raised` and `overflow`
are history. S11 is represented by what it does to the rest: up to
`MaxReleased` arbitrary telecommands per tick.

### Housekeeping

`sets` is the whole table, with what is left in the rows behind `count`; `off` is
the place of a set's parameters in `pool`, or minus the number of a boot-time set.
A telecommand handler is one action with its verdict in `reply`, up to
`HandlerEnd`; TC(3,3) is accepted in `Delete` and then removes one set per
`RemoveDefined`, inside the critical section. The tick is split where it
touches the table: `RowSkip`, `RowCount`, `ReadSid`, `ReadParam`, `Emit`,
`Reload`. `Interleaved` says whether telecommands may be handled during a tick:
not in the host simulator, but in the FreeRTOS build, where the PUS task locks
its side only. TC(3,5), TC(3,6) and the decrement of a countdown are whole steps,
so races on single words of a row are left out. A parameter is the variable its
descriptor points to; widths and byte order are abstracted, and so is
`obsw_s3_report`, which no build calls.

`RefinesHkSets` maps the rows in use, without the ones still to be removed, to the
list of sets of `HkSets`.

### Obt and Services

`Obt` keeps seconds, fine time and the remainder of the conversion from milliseconds;
the seconds wrap at `CoarseRange` and the intermediate sum at 2^32, written
`FineUnits * FineUnits`. `Instant` is what a time stands for.

`Services` has one operator per handler: it takes the board (mode machine, memory,
parameters, time, HK set, TM store) and returns it, with the order of the code
(data check, verdict, TM(1,1), effect, TM(1,7) or TM(1,8)). `Emit` is
`obsw_pus_tm_build` with a store that drops what does not fit. `Grants` is the bounds
test of `s6_resolve` as written. `Feed` is the dispatcher: parse, gate, route, handler.

### Superloop

Each build has its routes, functions, boot state and kinds of frame; `build` is picked
in `Init`. `Sent` is the drain loop: it stops at an empty store or at the first packet
that does not fit its buffer (`Oversize`), which stays; `DrainAssumption` says that no
service a build routes makes such a packet, and TLC evaluates it for the builds as they
are. A step is one pass through a loop: `TcFrame`, `ZynqSensor`, `Stm32Sensor`,
`SimSensor`, `OtherFrame`, `SkipFrame`, `SimHalt`, `MspTc`, `MspSkip`. `out` is what
the pass wrote. The MSP430 loop kicks its watchdog in every pass and ticks housekeeping
and the watchdog every `LoopsPerTick` passes (`MspPass`), after which it writes the
sentinel address, for which the emulator sends an end-of-cycle byte; what the tick
produces stays in the store, behind that byte, until the next telecommand. A frame that does not fit leaves its payload
on the line, where it is taken for headers: the model lets any frame come next at any
time. `clock` is history. The tables of S11, S12 and S19 stay as at start-up here;
their telecommands are in `Schedule` and `Autonomy`.

### Uplink

Time is counted in byte times. In each the ground may put a byte into the receive FIFO
(a byte that finds it full is lost) and the board transmit one. The steps of
`tmtc_task` are those between which a byte or an interrupt can come: `Poll`, `Arm`
(enable the interrupt), `Take` (begin to wait), `NapEnds`, `Header`, `Data`, `Flush`,
`EndOfTick`. `Isr` is `USART3_IRQHandler`: its notification ends a wait that has begun
and is lost on one that has not. The tasks below run only in `block`; `starved` counts
the byte times since they could, and at `Patience` the hardware watchdog starts the
board again (`Reset`). The ground (external) keeps lock-step (the next frame, of any
length the board accepts, after the end-of-tick byte and all answers), sends frame after
frame, or sends and stops at will. The TM store is counted in pieces of `PktTicks` byte
times: a report is one piece, a memory dump several. `crossed` is history: the board
began to transmit telemetry while a ground in lock-step had more bytes on their way than
the FIFO holds.

## 3. Runs

| Run | Expected | Question |
|---|---|---|
| `tm_store` | pass | is the unlocked ring a FIFO under the scheduling the architecture document describes? |
| `tm_store_timeslice` | violation | and under the scheduling `FreeRTOSConfig.h` configures? |
| `mode_manager` | pass | are requests honoured whenever they arrive, and what can the tasks that only watch the mode miss? |
| `mode_standby` | violation | does a STANDBY request served in SAFE enter STANDBY? |
| `schedule` | pass | does the table keep the promise of S11? |
| `autonomy` | pass | do the services keep their tables, the gate and SRS-111 when combined? |
| `autonomy_overflow` | violation | does SRS-111 hold when the TM store is full? |
| `housekeeping` | pass | do the table and its compacted pool keep the promise of S3? |
| `housekeeping_timeslice` | violation | is every report one set when the tick takes no lock? |
| `superloop` | pass | do the single-threaded builds answer, refuse, load memory and keep time as the SRS asks? |
| `uplink` | pass | what may be lost between the line and the PUS task, and when does the link recover? |
| `uplink_steady` | violation | do the tasks below get a slot under continuous traffic? |

Properties, by run:

* `tm_store`: `TypeOK`; `NoSlotRace` (a slot is never written while it is read);
  `RefinesFifo`; `Drains` (a packet that fits the buffer leaves the tail).
* `mode_manager`: `TypeOK` and `SupTypeOK`; `SafeServedThisPeriod`;
  `NominalOnlyWhenSafe` (action property); `SafeRequestHonoured` and `StandbyEnds` (once
  ground stops asking for modes, STANDBY ends; liveness); and, as action properties,
  `NominalSampleForgotten` (no B-dot sample from before a visit to NOMINAL that the AOCS
  task saw is used in the SAFE after it), `SafeEntryCounted` (a visit to SAFE is counted
  exactly once if the FDIR task ticked in it, and in another mode since the last one it
  ticked in; else not) and `RecordInOrder` (`mag_valid` turns 1 only beside a whole
  reading, and no part of a new `m_cmd` is seen without it).
* `schedule`: `TypeOK`; `UniqueIds`; `NothingOverdue` (a run leaves nothing that
  was due); `RefinesTimeTagged`; `TiesInOrderUntilWrap`; `DueIsReleased` (a due row is
  released or deleted, or the board is reset; liveness).
* `autonomy`: `TypeOK`; `OneDefinitionEach`; `DisabledMeansIdle`;
  `TriggerEntersSafe`; `ReconfiguredOnlyInNominal` (action property).
* `housekeeping`: `TypeOK`; `PoolPacked` (the created sets own the used part of the
  pool, without gap or overlap); `RefinesHkSets`.
* `superloop`: `TypeOK`; `AnsweredIfStoreEmpty` (one refusal, or acceptance and
  completion, in the pass that read the telecommand); `ClockExact` (no millisecond is
  lost); `RefusedHasNoEffect`, `LoadStaysInRegion` and `RetryFindsRoom` (of two
  telecommands in a row that find packets in the store, the second leaves it empty, so a
  telecommand repeated at once is answered in full the third time at the latest), action
  properties.
* `uplink`: `TypeOK`; `UplinkFaithful` (without loss, what is dispatched is what was
  sent, whole and in order); `LockStepUnharmed` (a ground in lock-step loses nothing and
  causes no reset, unless a transmission crossed a frame longer than the FIFO);
  `NapLosesNothing` (a byte is lost only
  behind a transmission; action property); `FifoDrains` and `LinkRecovers` (liveness).

### Bounds

* `tm_store`: 4 slots (the ring wraps, fills to 3 and empties), two writers, three
  packets: one that is delivered, one larger than the reader's buffer, one
  larger than the store accepts.
* `mode_manager`: a timeout of 2 periods (0, mid-count and expiry are distinct), a
  record of 2 fields (the first and the last write differ), an entry counter that
  wraps at once, since no property reads it.
* `schedule`: 3 rows (a hole at the front, in the middle and at the end), request
  numbers 0..4 and 5 insertions (the counter passes 0 and meets numbers in use),
  two times (due and not due, forward and backward jumps), one S19 action per
  cycle. `MaxTime` and `MaxInserts` are the only bounds the code does not have.
  A reset may come at any step.
* `autonomy`: two parameters (one commanded, one written by the control step), two
  rows per table, an S19 queue of 2, one scheduled telecommand per tick, a store
  of 4 packets: enough for an action with its three reports to crowd out an
  event.
* `housekeeping`: one boot-time set, two free slots and a pool of three for sets of
  one or two parameters, so that either runs out first and a deletion moves sets
  in the table and in the pool; intervals 0 (never), 1 (always) and 2.
* `superloop`: all four builds; 3 fine units and 2 milliseconds per second, so that an
  advance leaves a remainder, carries and wraps; 2 seconds until the time wraps; a store
  of 3 packets, the smallest board's; four addresses with a writable, a read-only and
  an unmapped cell and a writable one at the top of the address space; two passes per
  tick and a watchdog of 2. The drain buffer of the ZynqMP is too small for packets of
  services it does not have.
* `uplink`: two frames of up to 2 data bytes, one too long among them; a FIFO of 3 that
  a nap of 1 byte time cannot fill (`UplinkAssumption`, 16 and 12 in the code) but a frame
  of 4 bytes can, a queue and a store of 1, pieces of 3 byte times, a watchdog of 16, one
  more than `Longest`, the bound that `LockStepIsSafe` needs. Frame, FIFO and queue
  overruns, a transmission that crosses a long frame, a lost notification, a frame cut
  short and a reset all happen.
  `uplink_steady` needs traffic for longer than the watchdog is patient: 8 frames, 18
  byte times.

Distinct states of the larger runs: `tm_store` 664,608, `mode_manager` 693,594,
`schedule` 95,178, `superloop` 71,097, `uplink` 745,483.

### Fairness

* `FairSpec` of `TmStore`: weak fairness of a dequeue that can proceed. The TMTC
  task has the highest priority and sleeps at most a millisecond at a time. While it polls
  for the rest of a frame it does not look at the store; that ends with the frame or with a
  reset (`LinkRecovers` of `Uplink`), which is not a step of `TmStore`.
* `SupSpec` of `Supervision`: weak fairness of the mode task only. `vTaskDelayUntil`
  releases it every second and the tasks above block between frames and periods, except
  under the steady traffic of `uplink_steady`, which ends in a reset. Nothing is assumed of
  the AOCS task, the FDIR task or the requests.
* `Uplink`: weak fairness of the clock, of the interrupt, of the TMTC task (the
  highest priority, so it runs whenever it can) and of the watchdog reset. Nothing is
  assumed of the ground or of the tasks below.
* `Schedule`: weak fairness of the PUS task or a reset: the task wakes every
  `PUS_POLL_MS`, and if traffic keeps it from running for good, the FDIR task does not
  run either and the watchdog resets the board. Never of a particular telecommand, and
  none of the time.
* `Autonomy`, `Housekeeping` and `Superloop` have no liveness property and no
  fairness: their loops wait for frames, and nothing makes the ground send one.

### What the violations show

1. `tm_store_timeslice`: `docs/freertos-architecture.md:186` argues that the two
   writers of equal priority never preempt each other. Time slicing is on
   (`FreeRTOSConfig.h:13`) and the mode task is a third writer of lower
   priority; two enqueues can fill the same slot.
2. `mode_standby`: `standby_ticks` is not reset when the timeout fires
   (`mode.c:87`). A STANDBY request served in the next period is undone at once,
   against `docs/architecture.md:309`.
3. `autonomy_overflow`: `s5.c:45` commands SAFE only if the event packet fitted in
   the store, against SRS-111 (`docs/SRS.md:234`); the latch of S12 keeps the
   event from being raised again.
4. `housekeeping_timeslice`: `pus.c:132` puts TC(3,1) and TC(3,3) in a critical
   section, `fdir.c:295` calls the tick without one. A slice that ends between the
   set ID and the parameters lets a deletion move another set into the row: the
   report has the ID of one set and the parameters of another, against SRS-092
   (`docs/SRS.md:208`).
5. `uplink_steady`: `docs/freertos-architecture.md:73-75` and the comment at
   `tmtc.c:161` rely on `taskYIELD()` to give the tasks below a slot. It yields to tasks
   of equal priority only, and there is none at priority 4: under frames that follow
   each other the TMTC task never blocks, the FDIR task does not kick and the board is
   reset.

### Other disagreements noted

Seen while modelling, visible in the models, and without a run of their own:

* `s11.c:185` breaks ties by request number, which after the 16-bit wrap is not
  insertion order (SRS-282, `docs/SRS.md:404`); `TiesInOrderUntilWrap` states how far
  it holds.
* MSP430: the store has 4 slots, 3 usable (`CMakeLists.txt:47`), and the boot event
  takes one (`main.c:246`), so the first ping after boot loses its TM(1,7) (SRS-082,
  `docs/SRS.md:192`), which `renode/test_ping.py:80` and `docs/msp430-build.md:111-124`
  expect of exactly that ping; housekeeping has the same effect later. `RetryFindsRoom`
  says how long it can last.
* MSP430: the "~1 Hz" tick (`main.c:282`) advances only with traffic; the end-of-cycle
  byte (`main.c:291`) goes out while the housekeeping of that cycle is still in the store;
  functions 2 and 3 are missing (SRS-142, `docs/SRS.md:266`); and the software watchdog
  (`main.c:15`) is kicked in every pass before it is ticked, so it never expires (SRS-185,
  `docs/SRS.md:323`) and SAFE is unreachable: `WdAlive` and `MspNeverSafe` of `LoopIInv`.
* The STANDBY timer runs "without a ground command" by the comment at `mode.c:12-14`; in the
  code it runs from the entry to STANDBY whatever the ground sends. `StandbyEnds` claims
  only what both give.
* `aocs.c:67-69` and `docs/freertos-architecture.md:187` promise consistent data whenever
  `mag_valid` is 1. `m_cmd` is written after it, and in SAFE only, so a report can pair a
  reading with the command of an earlier one; and from one valid reading to the next, or
  to an invalid one, a report can mix two periods. `RecordInOrder` states what the order
  of the writes does give.
* A visit to SAFE, or to another mode, that falls between two ticks of the FDIR task is not
  seen by it: SAFE entries can be missing from `s_safe_mode_count` (`fdir.c:290`).
  `SafeEntryCounted` says exactly which.
* A B-dot sample survives NOMINAL to STANDBY to SAFE and a visit to NOMINAL that falls
  between two periods of the AOCS task, and the ZynqMP and host loops
  never reset the filter (SRS-200, `docs/SRS.md:333`, asks for consecutive samples).
* `tmtc.c:169-171` says a notification before the wait makes it return at once;
  `eNoAction` leaves the value 0 and the wait takes its 1 ms. `NapLosesNothing` shows
  that it costs nothing as long as 1 ms of bytes fits the FIFO.
* A ground in lock-step is safe only as long as no transmission crosses a frame longer than
  the 16-byte FIFO. Housekeeping and events are sent unasked, so one can: `flush_tm` blocks
  while the frame comes in, bytes are lost, the task polls for the rest of the frame, and
  the watchdog resets the board. TC(8,1) with its header is such a frame.
* The STM32H7 and ZynqMP loops skip a frame that does not fit without an end-of-tick
  byte, and the host loop ends on it; a ground in lock-step waits for ever.
* `main.c:244-248` starts the AOCS task's record after the FDIR task's sets, the
  comment at `fdir.c:340` says before; the addresses are static, so nothing follows.

## 4. Proofs

All proofs are checked by TLAPS, for every value of the constants that satisfies
the named assumptions.

**TmStoreProofs** (assuming `Cooperative`: no time slicing, equal priorities; at
least two slots). `RingInvariant` proves `IInv`: at most one writer is inside an
enqueue (`Exclusive`); that writer owns slot `head`, which is outside the queue,
and what it has written so far is a prefix of its packet (`WriterInv`); the reader
owns slot `tail`, which is inside, and has copied a prefix of it (`ReaderInv`);
every queued slot holds a whole packet (`QueuedInv`). `TypeOK` alone is not
inductive: that the delivered packet is one of `Packets` needs all of these.
From it follow `TypeCorrect`, `LockFree` and, with the modular arithmetic of the
ring in separate lemmas, `RingIsFifo`: only `StoreHead`, `StoreTail` and the
refusals change the abstract queue.

**SupervisionProofs**, the mode task (for every timeout). `ModeInvariant` proves what each point of the loop knows
about the requests seen at the wake-up: the mode read is still the mode
(`CurIsMode`), a SAFE flag that was up stays up until its branch is taken and
keeps the other branches out (`SafeTracked`, `StandbyTracked`). From it follow
`ModeTypeCorrect`, `SafeIsServed` and the action property `NominalIsGuarded`.

**ScheduleProofs** (a table at least two rows smaller than the range of request
numbers, so that a free number other than 0 exists; at 16 bits every build
satisfies this). `SomeIdIsFree` is a pigeonhole argument and makes the search of
`take_id` terminate; `TakeIdIsFresh` says what it returns. `HeldRemoved` says that
filling the hole removes exactly one activity from the set the table stands
for. `ScheduleInvariant` adds to the properties that a run shrinks the table by
one row per release (`RunInv`, hence a run that spends its limit has emptied the
table) and that numbers count insertions before the first wrap
(`NumberedInOrder`). From it follow `ScheduleTypeCorrect`, `IdsAreUnique`,
`RunsAreComplete`, `TiesAreInOrder` and the refinement `TableIsSchedule`.

**SupervisionProofs**, the watching tasks (for every timeout and number of fields, and
however the periods fall). `ModeManagerUndisturbed` shows that the watchers change nothing
of the Mode Manager, so its invariant holds here. `SupIInv` adds what the watchers know:
once the AOCS task has begun a period in NOMINAL it knows the mode until the next change
(`AocsCaughtUp`); what the FDIR task remembers is whether it ticked since the machine last
entered or left SAFE, and it has counted the present visit if and only if it should have
(`FdirRemembers`); a sample from before a visit to NOMINAL is held in SAFE only while the
AOCS task has the reset before it, after a detour, or if it never saw NOMINAL
(`ResetAhead`, `StandbyNoted`); the record is rewritten in the order of the phases
(`RecordPhase`). `SafeEntryCounted` speaks of the step that leaves SAFE and is not inductive:
the count of a visit depends on what the task remembers from before it. From `SupIInv`
follow `SupTypeCorrect`, `RecordIsInOrder`, `SampleIsForgotten` and `EntriesAreCounted`.

**SuperloopProofs** (for every set of telecommands whose fields have their
widths, `TcAssumption`; every region table, `RegionAssumption`; elapsed times below the
width of the fine time, `DtAssumption`: 65.535 s; a whitelist without TC(6,2),
`GateAssumption`, as every build's is; packets that fit the drain buffer,
`DrainAssumption`). `ObtAdvanceExact`: an advance moves the instant
by exactly the elapsed time, modulo the wrap of the seconds. The effect of each handler on mode, memory and
time is a lemma (`S6LoadEffect`, `S9Effect`, ..., `HandleEffect`, `FeedEffect`), so that
`LoopIInv` needs one short step per kind of pass; it says that time equals the history
clock, that the watchdog has not expired and that the MSP430 is never in SAFE. From it
follows `ClockIsExact`. `LoadsStayInRegion` rests on `ResolveSound` (the
first region that passes the test of `s6_resolve` contains the whole range, without
overflow) and `WrittenInRegion`.

What each handler puts in the store is a second family of lemmas. A handler that starts
with room for three packets ends in one of three shapes (`Answered`: one refusal;
acceptance and completion; the same with one packet of data between them), and a pass
copies the store to the line in order. `PassOK` adds to `LoopIInv` that the reports on
the line answer the telecommand of the pass and that what the MSP430 keeps from one
pass to the next holds no refusal (`KeepsNoRefusal`): without it an old refusal could be
flushed by a pass that changes something, and `RefusedHasNoEffect` would not follow. It
also says that what is in the store was made by a service of the build, so that the drain
loop stops only at an empty store (`AllSent`), that only the MSP430 keeps packets from one
pass to the next (`StoreDrained`), and that after a telecommand these are the ones of the
tick that ended its pass (`OnlyTicked`): two passes in a row do not both end in a tick, so
`RetriesFindRoom` follows. `LoopTypes`, `AnsweredInFull` and `RefusalHasNoEffect` rest on it
too. The assumption
`StoreCap >= 3` is the smallest board's.

**AutonomyProofs** (for every size of the tables, the queue and the store; arguments
that a telecommand refers to exist, `ArgumentAssumption`; a whitelist without S12 and S19,
`GateAssumption`). `AutIInv` adds to the checked properties that actions were
parsed when they were added (`ActionsParsed`), so that dispatching one stays well
typed, and that a safe trigger is raised by the checks only and has put the machine in
SAFE at once unless a packet was lost (`RaisedInSafe`): `TriggerEntersSafe` speaks of the
end of a tick only and is not inductive. `OneCandidate` needs the lemmas of
`PackedTableProofs` for the rows that fill a hole. `OnlyInNominal` follows the three ways
of a telecommand to the one gate.
`TriggerSafe` is SRS-111 for the ticks in which no packet was lost; the run
`autonomy_overflow` shows what follows when one is.

**HousekeepingProofs** (for every table, pool and set of telecommands, interleaved with the
tick or not). That the pool is packed is not inductive: the compaction of
`remove_defined` is right only if the set it removes is one of the pool and has
parameters, and if no other row has its identifier. So `HkIInv` adds that created sets are
not empty and have an identifier of their own (`CreatedSets`), and that what TC(3,3)
checked before it removed the first set is still true of those it has yet to remove
(`DeletionChecked`). `PoolStaysPacked` follows. `ReportWhole` assumes that telecommands and tick
run in one thread (`~Interleaved`): the row being reported stays in its place and the
buffer is a prefix of its parameters (`Reporting`).

**UplinkProofs** (for every ground, number of frames and size of FIFO, queue, store,
frame and packet; a FIFO at least two bytes deeper than the sleep is long,
`UplinkAssumption`).

* `UplinkTypes` needs what the frame buffer holds at each point (`ItemBounded`).
* `SleepIsHarmless`: as long as nothing was transmitted since the FIFO was empty it holds at most
  one byte that came before the sleep, one per byte time of it, and one that comes
  before the task acts (`NapBound`); hence the two bytes.
* `UplinkIsFaithful`: `Numbered` says that the bytes in FIFO and on the line are whole
  frames but for the bytes of the first that the task has read (`InFrames`, `Flow`), that each
  telecommand among them carries the next number, and that what is dispatched, being
  dispatched and queued carries the numbers before. Reading a byte, finishing a frame
  and sending one are lemmas on `Flow` alone (`FlowRead`, `FlowDone`, `FlowSent`).
* `LockStepIsSafe`: as long as no transmission has crossed a frame longer than the FIFO
  (`crossed`), the ground has one frame on its way or one telecommand that waits for its
  answers, never both (`OneAtATime`), and while the board transmits, what is on its way
  fits the FIFO (`Uncrossed`), so neither FIFO nor queue overruns. `OnTime` bounds the
  starvation of the tasks below: the byte times since they could run and those until they
  can (`Debt`: what is in the store, what the next dispatch may put there, the frame, and
  one byte time after each wait in which the task may not have acted yet) never exceed
  `Longest`. A step that is not a tick leaves the debt as it is or lowers it, a tick moves
  one from `Debt` to `starved`. The theorem assumes `Patience > Longest`, where `Longest` is
  5 + the longest frame + twice the time to send a full store.

  On the board: the watchdog takes 4 s and the FDIR task kicks every 200 ms, so `Patience`
  is 3.8 s, 43,776 byte times at 115,200 baud. The store has 31 usable slots. Reports and
  housekeeping take at most 120 byte times each with header and label, a piece; a dump of
  TC(6,9) has up to 1,024 bytes and takes 9 pieces. Each dump stands between the TM(1,1) and
  the TM(1,7) of its telecommand, so at most 11 of the 31 packets are dumps, and a full
  store is at most 11 * 9 + 20 = 119 pieces. With frames of up to 512 bytes `Longest` is
  5 + 512 + 2 * 119 * 121 = 29,315 byte times, 2.5 s.

**Only model-checked**: the liveness properties (`Drains`, `SafeRequestHonoured`,
`StandbyEnds`, `DueIsReleased`, `FifoDrains`, `LinkRecovers`), which rest on fairness, and
the refinement `RefinesHkSets`.

## 5. Not modelled

The floating-point B-dot and PD laws (only their verdicts are), I2C, SPI and LCD
drivers, vectors, clock set-up and linker scripts (pure I/O), the overrun flag of the
UART, the TM log ring (display only), the SRDB generator (a build-time tool whose
tables appear as constants), `tc_frame.c`, `tm_frame.c` and `contrib/svf_protocol` (called by
no build), the OrbitFabric adapter (off by default), `obsw_s3_report` (called by no
build). Encodings of packets are abstracted to what a property tells apart.

## 6. Plan

1. `RefinesHkSets` of `Housekeeping`: the rows in use, without those still to be removed, as
   the list of sets of `HkSets`. `HkIInv` has what it needs of the pool; missing are lemmas on
   the sequence of rows under the removal of one, and the tick's steps, which stutter
   or report.
2. Housekeeping with the tick in the critical section: `ReportWhole` for the
   FreeRTOS build with the lock that `housekeeping_timeslice` finds missing.
