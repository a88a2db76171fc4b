------------------------------ MODULE Autonomy ------------------------------
(***************************************************************************)
(* On-board autonomy in the host simulator (sim/main.c): a telecommand     *)
(* reaches its service through the dispatcher and its mode gate; each      *)
(* control tick runs the due telecommands of service 11, the actions that  *)
(* service 19 queued, the control step and the limit checks of service 12; *)
(* a check reports its event through service 5, which may command SAFE and *)
(* tells service 19.  The TM store is emptied when the frame is done.      *)
(*                                                                         *)
(* A telecommand is a record of service, subservice and a number: the      *)
(* function, parameter or event it names, or its place in one of the lists *)
(* MonDefs, EaDefs and SetArgs of argument records.  Of the telemetry only *)
(* the number of packets in the store is kept.                             *)
(* The telecommands of services 3, 6, 9 and 11 are left out: they touch    *)
(* none of this state, and their reports are those of Answer and Refuse.   *)
(***************************************************************************)
EXTENDS Fsm, PackedTable, Integers, FiniteSets

CONSTANTS
  Params,       \* parameters of the S20 table
  Live,         \* those the control step writes (uptime, counters)
  Values,       \* values of a parameter
  MonDefs,      \* arguments of TC(12,3)
  EaDefs,       \* arguments of TC(19,1)
  SetArgs,      \* arguments of TC(20,1)
  Tcs,          \* the telecommands ground may send
  Triggers,     \* safe_trigger_ids
  MonCapacity,  \* rows of the S12 table
  EaCapacity,   \* rows of the S19 table
  QueueLen,     \* OBSW_S19_QUEUE_LEN
  MaxReleased,  \* rows of the S11 table: activities due in one tick
  StoreCap      \* packets the TM store holds (OBSW_TM_STORE_SLOTS - 1)

ASSUME AutonomyBounds ==
  {MonCapacity, EaCapacity, QueueLen, MaxReleased, StoreCap} \subseteq Nat
ASSUME ValueAssumption == Values \subseteq Int

TcRecords == [svc : Nat, sub : Nat, arg : Nat]
EaRows == [event : Nat, action : TcRecords]

(* A telecommand with an argument record names one.                        *)
WellFormed(tc) ==
  /\ tc \in TcRecords
  /\ tc.svc = 12 /\ tc.sub = 3 => tc.arg \in DOMAIN MonDefs
  /\ tc.svc = 19 /\ tc.sub = 1 => tc.arg \in DOMAIN EaDefs
  /\ tc.svc = 20 /\ tc.sub = 1 => tc.arg \in DOMAIN SetArgs

(* The parsers give every field its width, and an action is parsed like    *)
(* any other telecommand.                                                  *)
ASSUME ArgumentAssumption ==
  /\ \A tc \in Tcs : WellFormed(tc)
  /\ \A k \in DOMAIN EaDefs : EaDefs[k] \in EaRows /\ WellFormed(EaDefs[k].action)
  /\ \A k \in DOMAIN MonDefs :
       {MonDefs[k].low, MonDefs[k].high, MonDefs[k].evLow, MonDefs[k].evHigh} \subseteq Nat
  /\ \A k \in DOMAIN SetArgs : SetArgs[k].param \in Params => SetArgs[k].value \in Values

(* No telecommand of services 12 and 19 is accepted outside NOMINAL (the   *)
(* safe_allowed column of the SRDB).                                       *)
ASSUME GateAssumption == \A w \in Whitelist : w[1] \notin {12, 19}

VARIABLES
  fsm,          \* the mode machine
  val,          \* values of the parameters
  mon,          \* S12: is it enabled, and its definitions with their latches
  ea,           \* S19: is it enabled, its definitions, its queue of events
  tm,           \* packets in the TM store
  overflow,     \* history: a packet of this frame did not fit
  pc,           \* the step of the main loop
  idx,          \* releases, actions or rows done in this step
  batch,        \* the events whose actions S19 is running
  raised        \* history: a HIGH safe-trigger event was raised in this tick

service == <<fsm, val, mon, ea>>
vars == <<service, tm, overflow, pc, idx, batch, raised>>

HIGH == 4       \* OBSW_S5_HIGH

Init ==
  /\ fsm = FsmToSafe(FsmInit)
  /\ val \in [Params -> Values]
  /\ mon = [on |-> TRUE, defs |-> << >>]
  /\ ea = [on |-> TRUE, defs |-> << >>, queue |-> << >>]
  /\ tm = 0
  /\ overflow = FALSE
  /\ pc = "idle"
  /\ idx = 0
  /\ batch = << >>
  /\ raised = FALSE
-----------------------------------------------------------------------------
(* Rows of the two tables; find_def of s12.c and of s19.c                  *)

MonRow(d) ==
  [param |-> d.param, low |-> d.low, high |-> d.high, evLow |-> d.evLow,
   evHigh |-> d.evHigh, sev |-> d.sev, inLow |-> FALSE, inHigh |-> FALSE]

Monitors(i, p) == i \in DOMAIN mon.defs /\ mon.defs[i].param = p
Reacts(i, e) == i \in DOMAIN ea.defs /\ ea.defs[i].event = e

HasMonitor(p) == \E i \in DOMAIN mon.defs : Monitors(i, p)
HasReaction(e) == \E i \in DOMAIN ea.defs : Reacts(i, e)
-----------------------------------------------------------------------------
(* Seeded faults: plausible slips in the definitions they stand in for;    *)
(* no specification uses them.                                             *)

BadEmit(n) == tm' = tm + n /\ overflow' = overflow         \* no full test

BadMonReplaces(p) == FALSE                  \* a second row for the parameter

BadEaDisable ==                             \* forgets the queued actions
  /\ ea' = [ea EXCEPT !.on = FALSE]
  /\ tm' = IF tm + 2 > StoreCap THEN StoreCap ELSE tm + 2
  /\ overflow' = (overflow \/ tm + 2 > StoreCap)
  /\ UNCHANGED <<fsm, val, mon>>

BadGate(tc) == fsm.mode # "SAFE" \/ <<tc.svc, tc.sub>> \in Whitelist   \* STANDBY

BadS5Mode(sev, e) == fsm                    \* the trigger is not looked up
-----------------------------------------------------------------------------
(* obsw_pus_tm_build as the services use it: n packets go to the store, as *)
(* far as they fit; no caller but service 5 looks at the result.           *)
Emit(n) ==
  /\ tm' = IF tm + n > StoreCap THEN StoreCap ELSE tm + n
  /\ overflow' = (overflow \/ tm + n > StoreCap)

(* A refused telecommand: TM(1,2) and nothing else.                        *)
Refuse == Emit(1) /\ UNCHANGED service
-----------------------------------------------------------------------------
(* The handlers.  A successful one sends TM(1,1) and TM(1,7).              *)

(* obsw_s17_ping, and obsw_s20_get, send a packet of their own in between. *)
Answer == Emit(3) /\ UNCHANGED service

(* obsw_s8_perform with the functions of sim/main.c: NOMINAL from any mode *)
S8Perform(fn) ==
  \/ /\ fn \notin 1 .. 3
     /\ Refuse
  \/ /\ fn \in 1 .. 3
     /\ fsm' = CASE fn = 1 -> FsmToNominal(fsm)
                 [] fn = 2 -> FsmToSafe(fsm)
                 [] fn = 3 -> FsmToStandby(fsm)
     /\ Emit(2)
     /\ UNCHANGED <<val, mon, ea>>

(* obsw_s20_set                                                            *)
S20Set(a) ==
  \/ a.param \notin Params /\ Refuse
  \/ /\ a.param \in Params
     /\ val' = [val EXCEPT ![a.param] = a.value]
     /\ Emit(2)
     /\ UNCHANGED <<fsm, mon, ea>>

(* obsw_s12_add: unknown parameter, severity out of range or limits        *)
(* crossed; then a row is replaced, or added if there is room.  A NaN      *)
(* limit is one that no value crosses.                                     *)
MonLegal(d) == d.param \in Params /\ d.sev \in 1 .. HIGH /\ d.low <= d.high
MonReplaces(p) == HasMonitor(p)

S12Add(d) ==
  \/ ~MonLegal(d) /\ Refuse
  \/ MonLegal(d) /\ ~MonReplaces(d.param) /\ Len(mon.defs) >= MonCapacity /\ Refuse
  \/ /\ MonLegal(d)
     /\ \/ /\ MonReplaces(d.param)
           /\ \E i \in DOMAIN mon.defs :
                Monitors(i, d.param) /\ mon' = [mon EXCEPT !.defs[i] = MonRow(d)]
        \/ /\ ~MonReplaces(d.param)
           /\ Len(mon.defs) < MonCapacity
           /\ mon' = [mon EXCEPT !.defs = Append(@, MonRow(d))]
     /\ Emit(2)
     /\ UNCHANGED <<fsm, val, ea>>

(* obsw_s12_delete                                                         *)
S12Delete(p) ==
  \/ ~HasMonitor(p) /\ Refuse
  \/ /\ \E i \in DOMAIN mon.defs :
          Monitors(i, p) /\ mon' = [mon EXCEPT !.defs = RemoveAt(@, i)]
     /\ Emit(2)
     /\ UNCHANGED <<fsm, val, ea>>

(* obsw_s12_delete_all                                                     *)
S12DeleteAll ==
  /\ mon' = [mon EXCEPT !.defs = << >>]
  /\ Emit(2)
  /\ UNCHANGED <<fsm, val, ea>>

(* obsw_s12_enable: every latch is cleared                                 *)
S12Enable ==
  /\ mon' = [on |-> TRUE,
             defs |-> [i \in DOMAIN mon.defs |->
                         [mon.defs[i] EXCEPT !.inLow = FALSE, !.inHigh = FALSE]]]
  /\ Emit(2)
  /\ UNCHANGED <<fsm, val, ea>>

(* obsw_s12_disable                                                        *)
S12Disable ==
  /\ mon' = [mon EXCEPT !.on = FALSE]
  /\ Emit(2)
  /\ UNCHANGED <<fsm, val, ea>>

(* obsw_s19_add: the action is a telecommand of any service but 19; one    *)
(* that action_valid cannot parse is refused the same way.                 *)
S19Add(d) ==
  \/ d.action.svc = 19 /\ Refuse
  \/ d.action.svc # 19 /\ ~HasReaction(d.event) /\ Len(ea.defs) >= EaCapacity /\ Refuse
  \/ /\ d.action.svc # 19
     /\ \/ \E i \in DOMAIN ea.defs :
             Reacts(i, d.event) /\ ea' = [ea EXCEPT !.defs[i] = d]
        \/ /\ ~HasReaction(d.event)
           /\ Len(ea.defs) < EaCapacity
           /\ ea' = [ea EXCEPT !.defs = Append(@, d)]
     /\ Emit(2)
     /\ UNCHANGED <<fsm, val, mon>>

(* obsw_s19_delete: queued events of the definition stay queued            *)
S19Delete(e) ==
  \/ ~HasReaction(e) /\ Refuse
  \/ /\ \E i \in DOMAIN ea.defs :
          Reacts(i, e) /\ ea' = [ea EXCEPT !.defs = RemoveAt(@, i)]
     /\ Emit(2)
     /\ UNCHANGED <<fsm, val, mon>>

(* obsw_s19_delete_all                                                     *)
S19DeleteAll ==
  /\ ea' = [ea EXCEPT !.defs = << >>]
  /\ Emit(2)
  /\ UNCHANGED <<fsm, val, mon>>

(* obsw_s19_enable                                                         *)
S19Enable ==
  /\ ea' = [ea EXCEPT !.on = TRUE]
  /\ Emit(2)
  /\ UNCHANGED <<fsm, val, mon>>

(* obsw_s19_disable: queued actions are dropped                            *)
S19Disable ==
  /\ ea' = [ea EXCEPT !.on = FALSE, !.queue = << >>]
  /\ Emit(2)
  /\ UNCHANGED <<fsm, val, mon>>
-----------------------------------------------------------------------------
(* obsw_tc_dispatcher_feed: gate, route, handler                           *)

Gate(tc) == FsmTcAllowed(fsm, <<tc.svc, tc.sub>>)

Is(tc, svc, sub) == tc.svc = svc /\ tc.sub = sub

Routed(tc) ==
  <<tc.svc, tc.sub>> \in
    {<<8, 1>>, <<17, 1>>, <<20, 1>>, <<20, 3>>} \cup ({12, 19} \X (1 .. 5))

Handle(tc) ==
  \/ (Is(tc, 17, 1) \/ Is(tc, 20, 3)) /\ Answer
  \/ Is(tc, 8, 1) /\ S8Perform(tc.arg)
  \/ Is(tc, 20, 1) /\ S20Set(SetArgs[tc.arg])
  \/ Is(tc, 12, 1) /\ S12Enable
  \/ Is(tc, 12, 2) /\ S12Disable
  \/ Is(tc, 12, 3) /\ S12Add(MonDefs[tc.arg])
  \/ Is(tc, 12, 4) /\ S12Delete(tc.arg)
  \/ Is(tc, 12, 5) /\ S12DeleteAll
  \/ Is(tc, 19, 1) /\ S19Add(EaDefs[tc.arg])
  \/ Is(tc, 19, 2) /\ S19Delete(tc.arg)
  \/ Is(tc, 19, 3) /\ S19DeleteAll
  \/ Is(tc, 19, 4) /\ S19Enable
  \/ Is(tc, 19, 5) /\ S19Disable

Feed(tc) ==
  \/ ~Gate(tc) /\ Refuse
  \/ Gate(tc) /\ ~Routed(tc) /\ Refuse
  \/ Gate(tc) /\ Handle(tc)
-----------------------------------------------------------------------------
(* Service 5 as the check uses it                                          *)

(* obsw_s5_report: a HIGH event on the trigger list commands SAFE only if  *)
(* its packet fitted into the store.                                       *)
S5Mode(sev, e) ==
  IF tm < StoreCap /\ sev = HIGH /\ e \in Triggers THEN FsmToSafe(fsm) ELSE fsm

(* obsw_s19_on_event, called whether or not the packet fitted; an action   *)
(* that finds the queue full is only counted.                              *)
OnEvent(e) ==
  IF ea.on /\ HasReaction(e) /\ Len(ea.queue) < QueueLen
  THEN [ea EXCEPT !.queue = Append(@, e)]
  ELSE ea

S5Report(sev, e) ==
  /\ fsm' = S5Mode(sev, e)
  /\ ea' = OnEvent(e)
  /\ raised' = (raised \/ (sev = HIGH /\ e \in Triggers))
  /\ Emit(1)
-----------------------------------------------------------------------------
(* The main loop                                                           *)

(* A TC frame                                                              *)
Uplink(tc) ==
  /\ pc = "idle"
  /\ Feed(tc)
  /\ pc' = "drain"
  /\ UNCHANGED <<idx, batch, raised>>

(* A TC frame that does not parse: no report, the frame is forgotten.      *)
MalformedFrame ==
  /\ pc = "idle"
  /\ pc' = "drain"
  /\ UNCHANGED <<service, tm, overflow, idx, batch, raised>>

(* A sensor frame: the control tick begins.                                *)
SensorFrame ==
  /\ pc = "idle"
  /\ pc' = "s11"
  /\ UNCHANGED <<service, tm, overflow, idx, batch, raised>>

(* obsw_s11_run dispatches a due telecommand of any service but 11.        *)
Scheduled(tc) ==
  /\ pc = "s11"
  /\ idx < MaxReleased
  /\ Feed(tc)
  /\ idx' = idx + 1
  /\ UNCHANGED <<pc, batch, raised>>

(* obsw_s19_run takes the whole queue, enabled or not,                     *)
TakeBatch ==
  /\ pc = "s11"
  /\ batch' = ea.queue
  /\ ea' = [ea EXCEPT !.queue = << >>]
  /\ idx' = 0
  /\ pc' = "s19"
  /\ UNCHANGED <<fsm, val, mon, tm, overflow, raised>>

(* and feeds the action the event has now; a deleted one is skipped.       *)
RunAction ==
  /\ pc = "s19"
  /\ idx < Len(batch)
  /\ \/ \E i \in DOMAIN ea.defs : Reacts(i, batch[idx + 1]) /\ Feed(ea.defs[i].action)
     \/ ~HasReaction(batch[idx + 1]) /\ UNCHANGED <<service, tm, overflow>>
  /\ idx' = idx + 1
  /\ UNCHANGED <<pc, batch, raised>>

(* The control step: of this state it only writes the live parameters.     *)
ControlStep ==
  /\ pc = "s19"
  /\ idx = Len(batch)
  /\ val' \in [Params -> Values]
  /\ \A p \in Params \ Live : val'[p] = val[p]
  /\ idx' = 0
  /\ batch' = << >>
  /\ pc' = "s12"
  /\ UNCHANGED <<fsm, mon, ea, tm, overflow, raised>>

(* obsw_s12_check, one row: the latch follows the value, and an event is   *)
(* reported when it rises.  At most one of the two limits is crossed.      *)
CheckRow ==
  LET d == mon.defs[idx + 1]
      below == val[d.param] < d.low
      above == val[d.param] > d.high
  IN  /\ pc = "s12"
      /\ mon.on
      /\ idx < Len(mon.defs)
      /\ mon' = [mon EXCEPT !.defs[idx + 1] = [d EXCEPT !.inLow = below, !.inHigh = above]]
      /\ \/ below /\ ~d.inLow /\ S5Report(d.sev, d.evLow)
         \/ above /\ ~d.inHigh /\ S5Report(d.sev, d.evHigh)
         \/ /\ (below => d.inLow) /\ (above => d.inHigh)
            /\ UNCHANGED <<fsm, ea, tm, overflow, raised>>
      /\ idx' = idx + 1
      /\ UNCHANGED <<val, pc, batch>>

(* obsw_s3_tick comes next: its packets are the last before the drain and  *)
(* are left out.                                                           *)
CheckEnd ==
  /\ pc = "s12"
  /\ ~mon.on \/ idx = Len(mon.defs)
  /\ idx' = 0
  /\ pc' = "drain"
  /\ UNCHANGED <<service, tm, overflow, batch, raised>>

(* The store is written out until it is empty.                             *)
Drain ==
  /\ pc = "drain"
  /\ tm' = 0
  /\ overflow' = FALSE
  /\ raised' = FALSE
  /\ pc' = "idle"
  /\ UNCHANGED <<service, idx, batch>>

Next ==
  \/ \E tc \in Tcs : Uplink(tc) \/ Scheduled(tc)
  \/ MalformedFrame
  \/ SensorFrame
  \/ TakeBatch
  \/ RunAction
  \/ ControlStep
  \/ CheckRow
  \/ CheckEnd
  \/ Drain

Spec == Init /\ [][Next]_vars
-----------------------------------------------------------------------------
(* Properties                                                              *)

MonRows ==
  [param : Params, low : Nat, high : Nat, evLow : Nat, evHigh : Nat,
   sev : 1 .. HIGH, inLow : BOOLEAN, inHigh : BOOLEAN]

(* The type invariant: no table, queue or batch outgrows its array, and no *)
(* action is a telecommand of service 19.                                  *)
TypeOK ==
  /\ fsm \in FsmContexts
  /\ val \in [Params -> Values]
  /\ mon \in [on : BOOLEAN, defs : Seq(MonRows)] /\ Len(mon.defs) <= MonCapacity
  /\ ea \in [on : BOOLEAN, defs : Seq(EaRows), queue : Seq(Nat)]
  /\ Len(ea.defs) <= EaCapacity /\ Len(ea.queue) <= QueueLen
  /\ \A i \in DOMAIN ea.defs : ea.defs[i].action.svc # 19
  /\ tm \in 0 .. StoreCap
  /\ overflow \in BOOLEAN
  /\ pc \in {"idle", "s11", "s19", "s12", "drain"}
  /\ idx \in Nat
  /\ batch \in Seq(Nat) /\ Len(batch) <= QueueLen
  /\ raised \in BOOLEAN

(* One definition per parameter and one per event, however rows were       *)
(* added, replaced and moved into holes: the find_def of s12.c and s19.c   *)
(* name the only candidate, and a check reports a crossing once.           *)
OneDefinitionEach ==
  /\ \A i, j \in DOMAIN mon.defs : mon.defs[i].param = mon.defs[j].param => i = j
  /\ \A i, j \in DOMAIN ea.defs : ea.defs[i].event = ea.defs[j].event => i = j

(* SRS-304: while service 19 is disabled no action is queued and none is   *)
(* running, although obsw_s19_run never looks at the flag.                 *)
DisabledMeansIdle ==
  ~ea.on => ea.queue = << >> /\ (pc = "s19" => batch = << >>)

(* SRS-182 end to end: the definitions and switches of services 12 and 19  *)
(* change only in NOMINAL, by whichever way the telecommand came - uplink, *)
(* schedule, or an action queued before the mode changed.                  *)
ReconfiguredOnlyInNominal ==
  [][<<mon.on, ea.on, ea.defs, [i \in DOMAIN mon.defs |-> mon.defs[i].param]>>'
       # <<mon.on, ea.on, ea.defs, [i \in DOMAIN mon.defs |-> mon.defs[i].param]>>
     => fsm.mode = "NOMINAL"]_vars

(* SRS-111 and SRS-295 as far as the code keeps them: at the end of a tick *)
(* in which a limit check raised a HIGH safe-trigger event the machine is  *)
(* in SAFE, unless the TM store overflowed in that tick.                   *)
TriggerEntersSafe ==
  pc = "drain" /\ raised /\ ~overflow => fsm.mode = "SAFE"

(* SRS-111 (docs/SRS.md:234) as it is written: "A high-severity event      *)
(* whose ID is in the configured safe-trigger list shall command the mode  *)
(* machine to SAFE".                                                       *)
TriggerAlwaysEntersSafe ==
  pc = "drain" /\ raised => fsm.mode = "SAFE"

-----------------------------------------------------------------------------
(* The inductive invariant behind the theorems of AutonomyProofs.          *)

(* An action in the table was parsed when it was added.                    *)
ActionsParsed == \A i \in DOMAIN ea.defs : WellFormed(ea.defs[i].action)

(* A trigger is raised by the checks only, and as long as nothing was lost *)
(* it has taken the machine to SAFE at once; nothing leaves SAFE until the *)
(* frame is done.                                                          *)
RaisedInSafe ==
  /\ raised => pc \in {"s12", "drain"}
  /\ raised /\ ~overflow => fsm.mode = "SAFE"

AutIInv ==
  /\ TypeOK /\ ActionsParsed /\ OneDefinitionEach /\ DisabledMeansIdle /\ RaisedInSafe

=============================================================================
