------------------------- MODULE SupervisionProofs --------------------------
(***************************************************************************)
(* Theorems about the Mode Manager, for every timeout, and about the AOCS  *)
(* and FDIR tasks beside it, for every number of fields of the record.     *)
(***************************************************************************)
EXTENDS Supervision, TLAPS

(* The Mode Manager                                                        *)

(* What the transitions of fsm.c return.                                   *)
LEMMA FsmTransitions ==
  ASSUME NEW f \in FsmContexts
  PROVE  /\ FsmToSafe(f) \in FsmContexts /\ FsmToSafe(f).mode = "SAFE"
         /\ FsmToStandby(f) \in FsmContexts /\ FsmToStandby(f).mode = "STANDBY"
         /\ FsmToNominal(f) \in FsmContexts /\ FsmToNominal(f).mode = "NOMINAL"
<1>1. (f.entries + 1) % EntryRange \in 0 .. EntryRange - 1
  BY EntryAssumption DEF FsmContexts
<1> QED
  BY <1>1 DEF FsmContexts, FsmToSafe, FsmToStandby, FsmToNominal, Modes

LEMMA InitIInv == Init => IInv
BY EntryAssumption, TimeoutAssumption
   DEF Init, FsmInit, NoRequest, Requests, IInv, TypeOK, FsmContexts, Modes,
       CurIsMode, SafeTracked, StandbyTracked, ServingBranch

(* A request function raises its flag and lowers at most the NOMINAL one.  *)
LEMMA RequestStep ==
  ASSUME IInv, Requested
  PROVE  IInv'
<1>1. /\ UNCHANGED <<fsm, pc, cur, branch, ticks, last, woke>>
      /\ req' \in [Requests -> BOOLEAN]
      /\ req["SAFE"] => req'["SAFE"]
      /\ req["STANDBY"] => req'["STANDBY"]
  BY DEF IInv, TypeOK, Requests, Requested, RequestSafe, RequestNominal, RequestStandby
<1> QED
  BY <1>1 DEF IInv, TypeOK, CurIsMode, SafeTracked, StandbyTracked, ServingBranch

(* The steps of one period of mode_task.                                   *)
LEMMA TaskStep ==
  ASSUME IInv, ModeTask
  PROVE  IInv'
<1> USE DEF IInv, CurIsMode, SafeTracked, StandbyTracked, ServingBranch
<1>1. CASE Wake
  BY <1>1 DEF Wake, TypeOK, FsmContexts
<1>2. CASE TestSafe
  BY <1>2 DEF TestSafe, TypeOK, Requests
<1>3. CASE TestStandby
  BY <1>3 DEF TestStandby, TypeOK, Requests
<1>4. CASE TestNominal
  BY <1>4 DEF TestNominal, TypeOK, Requests
<1>5. CASE ClearRequest
  BY <1>5 DEF ClearRequest, TypeOK, Requests
<1>6. CASE Transition
  BY <1>6, FsmTransitions DEF Transition, TypeOK
<1>7. CASE Timer
  BY <1>7, FsmTransitions, TimeoutAssumption DEF Timer, TypeOK
<1>8. CASE Report
  BY <1>8 DEF Report, TypeOK, FsmContexts
<1> QED
  BY <1>1, <1>2, <1>3, <1>4, <1>5, <1>6, <1>7, <1>8 DEF ModeTask

LEMMA StepIInv ==
  ASSUME IInv, [Next]_vars
  PROVE  IInv'
<1>1. CASE UNCHANGED vars
  BY <1>1 DEF vars, IInv, TypeOK, CurIsMode, SafeTracked, StandbyTracked, ServingBranch
<1> QED
  BY <1>1, RequestStep, TaskStep DEF Next

(* The Mode Manager keeps its inductive invariant for every timeout.       *)
THEOREM ModeInvariant == Spec => []IInv
<1>1. Init => IInv
  BY InitIInv
<1>2. IInv /\ [Next]_vars => IInv'
  BY StepIInv
<1> QED
  BY <1>1, <1>2, PTL DEF Spec

(* TypeOK, for every timeout: standby_ticks never passes it (mode.c:87).   *)
THEOREM ModeTypeCorrect == Spec => []TypeOK
<1>1. IInv => TypeOK
  BY DEF IInv
<1> QED
  BY <1>1, ModeInvariant, PTL

(* SafeServedThisPeriod, for every timeout: no interleaving of request     *)
(* functions with the flag handling of mode.c:71-81 delays a SAFE request  *)
(* that was pending at the wake-up beyond that period.                     *)
THEOREM SafeIsServed == Spec => []SafeServedThisPeriod
<1>1. IInv => SafeServedThisPeriod
  BY DEF IInv, SafeTracked, SafeServedThisPeriod
<1> QED
  BY <1>1, ModeInvariant, PTL

(* NominalOnlyWhenSafe, for every timeout: NOMINAL is entered only from    *)
(* SAFE and never in a period that began with a SAFE or STANDBY request.   *)
THEOREM NominalIsGuarded == Spec => NominalOnlyWhenSafe
<1>1. ASSUME IInv, [Next]_vars
      PROVE  [fsm'.mode = "NOMINAL" /\ fsm.mode # "NOMINAL"
                => fsm.mode = "SAFE" /\ "SAFE" \notin woke /\ "STANDBY" \notin woke]_vars
  <2>1. CASE Transition
    BY <1>1, <2>1, FsmTransitions
       DEF Transition, IInv, TypeOK, Requests, CurIsMode, SafeTracked,
           StandbyTracked, ServingBranch
  <2>2. CASE Timer
    BY <1>1, <2>2, FsmTransitions DEF Timer, IInv, TypeOK
  <2>3. CASE ~Transition /\ ~Timer
    BY <1>1, <2>3
       DEF Next, Requested, ModeTask, RequestSafe, RequestNominal, RequestStandby, Wake,
           TestSafe, TestStandby, TestNominal, ClearRequest, Report, vars
  <2> QED
    BY <2>1, <2>2, <2>3
<1> QED
  BY <1>1, ModeInvariant, PTL DEF Spec, NominalOnlyWhenSafe
-----------------------------------------------------------------------------
(* The AOCS and FDIR tasks beside it                                       *)

(* Only the transition and the timer move the machine; how they may.       *)
LEMMA MachineMoves ==
  ASSUME IInv, Next
  PROVE  /\ fsm.mode \in Modes /\ fsm'.mode \in Modes
         /\ fsm'.mode = "NOMINAL" /\ fsm.mode # "NOMINAL" => fsm.mode = "SAFE"
<1>1. IInv' /\ fsm.mode \in Modes
  BY StepIInv DEF IInv, TypeOK, FsmContexts
<1>2. fsm'.mode \in Modes
  BY <1>1 DEF IInv, TypeOK, FsmContexts
<1>3. CASE Transition
  BY <1>1, <1>2, <1>3, FsmTransitions
     DEF Transition, IInv, TypeOK, Requests, CurIsMode, ServingBranch
<1>4. CASE Timer
  BY <1>1, <1>2, <1>4, FsmTransitions DEF Timer, IInv, TypeOK
<1>5. CASE ~Transition /\ ~Timer
  BY <1>1, <1>2, <1>5
     DEF Next, Requested, ModeTask, RequestSafe, RequestNominal, RequestStandby, Wake,
         TestSafe, TestStandby, TestNominal, ClearRequest, Report
<1> QED
  BY <1>3, <1>4, <1>5

LEMMA InitSupIInv == SupInit => SupIInv
<1> SUFFICES ASSUME SupInit PROVE SupIInv
  OBVIOUS
<1>1. IInv
  BY InitIInv DEF SupInit
<1>2. fsm.mode = "STANDBY"
  BY DEF SupInit, Init, FsmInit
<1>3. filter \in [held : BOOLEAN, through : SUBSET Seen] /\ ~filter.held
  BY DEF SupInit, AocsInit, NoSample
<1>4. /\ hk \in [fresh : 0 .. Axes, cmd : 0 .. Axes, valid : BOOLEAN]
      /\ hk.fresh = Axes /\ hk.cmd = 0
  BY AxesAssumption DEF SupInit, AocsInit
<1>5. /\ visit \in [before : BOOLEAN, during : BOOLEAN, counted : 0 .. 1]
      /\ visit.before /\ ~visit.during /\ visit.counted = 0
  BY DEF SupInit
<1>6. SupTypeOK
  BY <1>2, <1>3, <1>4, <1>5 DEF SupInit, AocsInit, FdirInit, MagInit, SupTypeOK, Modes
<1> QED
  BY <1>1, <1>2, <1>3, <1>4, <1>5, <1>6
     DEF SupInit, AocsInit, FdirInit, SupIInv, AocsCaughtUp, FdirRemembers, ResetAhead,
         StandbyNoted, RecordPhase

(* A step of the mode task that leaves the mode as it is, or a request     *)
LEMMA QuietModeStep ==
  ASSUME SupIInv, ModeStep, IInv', fsm'.mode = fsm.mode
  PROVE  SupIInv'
<1>1. UNCHANGED supVars
  BY DEF ModeStep, supVars
<1> QED
  BY <1>1
     DEF SupIInv, SupTypeOK, AocsCaughtUp, FdirRemembers, ResetAhead, StandbyNoted,
         RecordPhase, supVars

(* A change of the mode, and what the two tasks have yet to see of it      *)
LEMMA MoveStep ==
  ASSUME SupIInv, ModeStep, IInv', fsm'.mode # fsm.mode
  PROVE  SupIInv'
<1>1. /\ fsm.mode \in Modes /\ fsm'.mode \in Modes
      /\ fsm'.mode = "NOMINAL" => fsm.mode = "SAFE"
  BY MachineMoves DEF SupIInv, ModeStep
<1>2. /\ UNCHANGED <<fitted, apc, aMode, magOk, hk, fLast>>
      /\ looked' = (fsm'.mode # "NOMINAL")
  BY DEF ModeStep
<1>3. /\ visit \in [before : BOOLEAN, during : BOOLEAN, counted : 0 .. 1]
      /\ visit' = IF fsm.mode = "SAFE"
                  THEN [before |-> visit.before /\ ~visit.during, during |-> FALSE,
                        counted |-> 0]
                  ELSE visit
  BY DEF SupIInv, SupTypeOK, ModeStep, NextVisit
<1>4. /\ visit' \in [before : BOOLEAN, during : BOOLEAN, counted : 0 .. 1]
      /\ FdirRemembers'
  <2>1. CASE fsm.mode = "SAFE"
    <3>1. /\ visit'.before = (visit.before /\ ~visit.during)
          /\ visit'.during = FALSE /\ visit'.counted = 0
          /\ visit' \in [before : BOOLEAN, during : BOOLEAN, counted : 0 .. 1]
      <4> DEFINE new == [before |-> visit.before /\ ~visit.during, during |-> FALSE,
                         counted |-> 0]
      <4>1. /\ new.before = (visit.before /\ ~visit.during)
            /\ new.during = FALSE /\ new.counted = 0
        OBVIOUS
      <4>2. (visit.before /\ ~visit.during) \in BOOLEAN /\ 0 \in 0 .. 1
        OBVIOUS
      <4>3. new \in [before : BOOLEAN, during : BOOLEAN, counted : 0 .. 1]
        BY <4>2, Zenon
      <4>4. visit' = new
        BY <1>3, <2>1
      <4> HIDE DEF new
      <4> QED
        BY <4>1, <4>3, <4>4
    <3>2. fLast = "SAFE" <=> visit.during \/ ~visit.before
      BY <2>1 DEF SupIInv, FdirRemembers
    <3> QED
      BY <1>2, <2>1, <3>1, <3>2 DEF FdirRemembers
  <2>2. CASE fsm.mode # "SAFE"
    BY <1>2, <1>3, <2>2 DEF SupIInv, FdirRemembers
  <2> QED
    BY <2>1, <2>2
<1>5. /\ filter \in [held : BOOLEAN, through : SUBSET Seen]
      /\ filter' = IF filter.held THEN [filter EXCEPT !.through = @ \cup Passed] ELSE filter
  BY DEF SupIInv, SupTypeOK, ModeStep
<1>6. Passed \subseteq Seen
  BY <1>1 DEF Passed, Seen
<1>7. /\ filter' \in [held : BOOLEAN, through : SUBSET Seen]
      /\ filter'.held = filter.held
      /\ filter.held => filter'.through = filter.through \cup Passed
  BY <1>5, <1>6
<1>8. ResetAhead' /\ StandbyNoted' /\ AocsCaughtUp'
  <2>1. fsm'.mode = "STANDBY" => "STANDBY" \in Passed
    BY DEF Passed
  <2>2. fsm'.mode = "SAFE" /\ fsm.mode = "NOMINAL" => "unseen" \in Passed \/ aMode = "NOMINAL"
    BY DEF Passed, SupIInv, SupTypeOK, AocsCaughtUp
  <2>3. StandbyNoted' /\ AocsCaughtUp'
    BY <1>2, <1>7, <2>1 DEF StandbyNoted, AocsCaughtUp
  <2>4. ASSUME filter'.held, fsm'.mode = "SAFE"
        PROVE  filter'.through \cap {"STANDBY", "unseen"} # {} \/ aMode' = "NOMINAL"
    <3>1. CASE fsm.mode = "STANDBY"
      BY <1>7, <2>4, <3>1 DEF SupIInv, StandbyNoted
    <3>2. CASE fsm.mode = "NOMINAL"
      BY <1>2, <1>7, <2>2, <2>4, <3>2
    <3> QED
      BY <1>1, <2>4, <3>1, <3>2 DEF Modes
  <2> QED
    BY <2>3, <2>4 DEF ResetAhead
<1>9. SupTypeOK' /\ RecordPhase'
  BY <1>2, <1>4, <1>7 DEF SupIInv, SupTypeOK, RecordPhase
<1> QED
  BY <1>4, <1>8, <1>9 DEF SupIInv

(* The steps of the AOCS task                                              *)
LEMMA AocsStep ==
  ASSUME SupIInv, Aocs, IInv'
  PROVE  SupIInv'
<1>0. UNCHANGED vars /\ UNCHANGED <<fitted, fLast, visit>> /\ fsm.mode \in Modes
  BY DEF Aocs, AocsWake, AocsSense, AocsRecord, AocsControl, AocsCommand, SupIInv, IInv,
         TypeOK, FsmContexts
<1>1. FdirRemembers'
  BY <1>0 DEF SupIInv, FdirRemembers, vars
<1>2. CASE AocsWake
  <2>1. /\ apc = "sleep" /\ apc' \in {"sleep", "sense"}
        /\ aMode' = fsm.mode /\ looked' = TRUE /\ UNCHANGED <<magOk, hk>>
        /\ filter' = IF fsm.mode = "SAFE" /\ aMode = "NOMINAL" THEN NoSample ELSE filter
    BY <1>2 DEF AocsWake, Reset
  <2>2. SupTypeOK' /\ AocsCaughtUp'
    BY <1>0, <2>1 DEF SupIInv, SupTypeOK, AocsCaughtUp, NoSample, Modes, vars
  <2>3. ResetAhead' /\ StandbyNoted' /\ RecordPhase'
    BY <1>0, <2>1 DEF SupIInv, ResetAhead, StandbyNoted, RecordPhase, NoSample, vars
  <2> QED
    BY <1>1, <2>2, <2>3 DEF SupIInv
<1>3. CASE \E ok \in BOOLEAN : AocsSense(ok)
  <2>1. PICK ok \in BOOLEAN : AocsSense(ok)
    BY <1>3
  <2>2. /\ hk \in [fresh : 0 .. Axes, cmd : 0 .. Axes, valid : BOOLEAN]
        /\ hk' = [fresh |-> 0, cmd |-> 0, valid |-> hk.valid]
    BY <2>1 DEF SupIInv, SupTypeOK, AocsSense
  <2>3. /\ hk' \in [fresh : 0 .. Axes, cmd : 0 .. Axes, valid : BOOLEAN]
        /\ hk'.fresh = 0 /\ hk'.cmd = 0
    BY <2>2, AxesAssumption
  <2>4. SupTypeOK' /\ RecordPhase'
    BY <1>0, <2>1, <2>3, AxesAssumption DEF SupIInv, SupTypeOK, RecordPhase, AocsSense
  <2> QED
    BY <1>0, <1>1, <2>1, <2>4
       DEF AocsSense, SupIInv, AocsCaughtUp, ResetAhead, StandbyNoted, vars
<1>4. CASE AocsRecord
  <2>1. SupTypeOK' /\ RecordPhase'
    BY <1>0, <1>4, AxesAssumption DEF SupIInv, SupTypeOK, RecordPhase, AocsRecord
  <2> QED
    BY <1>0, <1>1, <1>4, <2>1
       DEF AocsRecord, SupIInv, AocsCaughtUp, ResetAhead, StandbyNoted, vars
<1>5. CASE AocsControl
  <2>1. /\ filter' = filter \/ filter' = Sample
        /\ UNCHANGED <<aMode, looked>>
    BY <1>5 DEF AocsControl
  <2>2. Sample = [held |-> TRUE, through |-> {fsm.mode} \ {"SAFE"}]
    BY DEF Sample
  <2>3. SupTypeOK' /\ RecordPhase'
    <3>1. /\ hk \in [fresh : 0 .. Axes, cmd : 0 .. Axes, valid : BOOLEAN]
          /\ filter \in [held : BOOLEAN, through : SUBSET Seen]
          /\ magOk \in BOOLEAN /\ hk.fresh = Axes /\ hk.cmd = 0
      BY <1>5 DEF SupIInv, SupTypeOK, RecordPhase, AocsControl
    <3>2. /\ hk' = [hk EXCEPT !.valid = magOk] /\ magOk' = FALSE
          /\ apc' \in {"sleep", "command"} /\ (apc' = "command" => magOk)
      BY <1>5 DEF AocsControl
    <3>3. /\ hk' \in [fresh : 0 .. Axes, cmd : 0 .. Axes, valid : BOOLEAN]
          /\ hk'.fresh = Axes /\ hk'.cmd = 0 /\ hk'.valid = magOk
      BY <3>1, <3>2
    <3>4. filter' \in [held : BOOLEAN, through : SUBSET Seen]
      <4>1. {fsm.mode} \ {"SAFE"} \in SUBSET Seen
        BY <1>0 DEF Seen
      <4>2. Sample \in [held : BOOLEAN, through : SUBSET Seen]
        BY <2>2, <4>1, Zenon
      <4> QED
        BY <2>1, <3>1, <4>2, Zenon
    <3>5. SupTypeOK'
      BY <1>0, <2>1, <3>2, <3>3, <3>4 DEF SupIInv, SupTypeOK
    <3> QED
      BY <3>2, <3>3, <3>5, AxesAssumption DEF RecordPhase
  <2>4. ResetAhead' /\ StandbyNoted' /\ AocsCaughtUp'
    BY <1>0, <2>1, <2>2 DEF SupIInv, ResetAhead, StandbyNoted, AocsCaughtUp, vars
  <2> QED
    BY <1>1, <2>3, <2>4 DEF SupIInv
<1>6. CASE AocsCommand
  <2>1. SupTypeOK' /\ RecordPhase'
    BY <1>0, <1>6, AxesAssumption DEF SupIInv, SupTypeOK, RecordPhase, AocsCommand
  <2> QED
    BY <1>0, <1>1, <1>6, <2>1
       DEF AocsCommand, SupIInv, AocsCaughtUp, ResetAhead, StandbyNoted, vars
<1> QED
  BY <1>2, <1>3, <1>4, <1>5, <1>6 DEF Aocs

(* The tick of the FDIR task                                               *)
LEMMA FdirStep ==
  ASSUME SupIInv, FdirTick, IInv'
  PROVE  SupIInv'
<1>1. /\ UNCHANGED vars /\ UNCHANGED <<fitted, apc, aMode, magOk, filter, hk, looked>>
      /\ fsm.mode \in Modes /\ fLast' = fsm.mode
      /\ visit \in [before : BOOLEAN, during : BOOLEAN, counted : 0 .. 1]
  BY DEF FdirTick, SupIInv, SupTypeOK, IInv, TypeOK, FsmContexts
<1>2. /\ visit' \in [before : BOOLEAN, during : BOOLEAN, counted : 0 .. 1]
      /\ FdirRemembers'
  <2>1. CASE fsm.mode = "SAFE"
    <3>1. /\ fLast = "SAFE" <=> visit.during \/ ~visit.before
          /\ visit.counted = IF visit.before /\ visit.during THEN 1 ELSE 0
      BY <2>1 DEF SupIInv, FdirRemembers
    <3>2. visit' = [visit EXCEPT !.during = TRUE,
                                 !.counted = IF fLast # "SAFE" THEN @ + 1 ELSE @]
      BY <2>1 DEF FdirTick, Entered
    <3>3. /\ visit'.before = visit.before /\ visit'.during
          /\ visit'.counted = IF visit.before THEN 1 ELSE 0
          /\ visit' \in [before : BOOLEAN, during : BOOLEAN, counted : 0 .. 1]
      <4>1. (IF fLast # "SAFE" THEN visit.counted + 1 ELSE visit.counted)
              = IF visit.before THEN 1 ELSE 0
        BY <1>1, <3>1
      <4>2. visit' = [visit EXCEPT !.during = TRUE,
                                   !.counted = IF visit.before THEN 1 ELSE 0]
        BY <1>1, <3>2, <4>1
      <4>3. PICK n \in 0 .. 1 : n = IF visit.before THEN 1 ELSE 0
        OBVIOUS
      <4>4. visit' = [visit EXCEPT !.during = TRUE, !.counted = n]
        BY <4>2, <4>3
      <4> QED
        BY <1>1, <4>3, <4>4
    <3> QED
      BY <1>1, <2>1, <3>3 DEF FdirRemembers, vars
  <2>2. CASE fsm.mode # "SAFE"
    <3>1. visit' = [visit EXCEPT !.before = TRUE]
      BY <2>2 DEF FdirTick
    <3>2. ~visit.during /\ visit.counted = 0
      BY <2>2 DEF SupIInv, FdirRemembers
    <3> QED
      BY <1>1, <2>2, <3>1, <3>2 DEF FdirRemembers, vars
  <2> QED
    BY <2>1, <2>2
<1>3. SupTypeOK'
  BY <1>1, <1>2 DEF SupIInv, SupTypeOK
<1> QED
  BY <1>1, <1>2, <1>3
     DEF SupIInv, AocsCaughtUp, ResetAhead, StandbyNoted, RecordPhase, vars

(* The steps of the two tasks are stuttering steps of the Mode Manager.    *)
LEMMA WatchersOnlyWatch ==
  ASSUME [SupNext]_allVars
  PROVE  [Next]_vars
BY DEF SupNext, ModeStep, Aocs, AocsWake, AocsSense, AocsRecord, AocsControl, AocsCommand,
       FdirTick, allVars

LEMMA StepSupIInv ==
  ASSUME SupIInv, [SupNext]_allVars
  PROVE  SupIInv'
<1>1. IInv'
  BY WatchersOnlyWatch, StepIInv DEF SupIInv
<1>2. CASE UNCHANGED allVars
  BY <1>1, <1>2
     DEF SupIInv, SupTypeOK, AocsCaughtUp, FdirRemembers, ResetAhead, StandbyNoted,
         RecordPhase, allVars, vars, supVars
<1>3. CASE ModeStep
  BY <1>1, <1>3, QuietModeStep, MoveStep
<1> QED
  BY <1>1, <1>2, <1>3, AocsStep, FdirStep DEF SupNext

(* With the AOCS and FDIR tasks beside it, the Mode Manager still does     *)
(* only what its own specification allows: they read its mode and write    *)
(* nothing of it (aocs.c:38, fdir.c:287).                                  *)
THEOREM ModeManagerUndisturbed == SupSpec => Init /\ [][Next]_vars
<1>1. SupInit => Init
  BY DEF SupInit
<1>2. [SupNext]_allVars => [Next]_vars
  BY WatchersOnlyWatch
<1> QED
  BY <1>1, <1>2, PTL DEF SupSpec

(* The composition keeps its inductive invariant for every timeout and     *)
(* every size of the record.                                               *)
THEOREM SupervisionInvariant == SupSpec => []SupIInv
<1>1. SupInit => SupIInv
  BY InitSupIInv
<1>2. SupIInv /\ [SupNext]_allVars => SupIInv'
  BY StepSupIInv
<1> QED
  BY <1>1, <1>2, PTL DEF SupSpec

(* SupTypeOK: among it, no visit to SAFE is counted twice by               *)
(* fdir.c:288-292.                                                         *)
THEOREM SupTypeCorrect == SupSpec => []SupTypeOK
<1>1. SupIInv => SupTypeOK
  BY DEF SupIInv
<1> QED
  BY <1>1, SupervisionInvariant, PTL

(* RecordInOrder, for every number of fields: what the order in which      *)
(* aocs.c:70-85 writes the record gives a reader between any two writes.   *)
THEOREM RecordIsInOrder == SupSpec => RecordInOrder
<1>1. ASSUME SupIInv, SupIInv', [SupNext]_allVars
      PROVE  [/\ hk'.valid /\ ~hk.valid => hk'.fresh = Axes
              /\ hk'.cmd > 0 => hk'.fresh = Axes /\ hk'.valid]_allVars
  <2>1. hk'.cmd > 0 => hk'.fresh = Axes /\ hk'.valid
    BY <1>1 DEF SupIInv, SupTypeOK, RecordPhase
  <2>2. hk'.valid /\ ~hk.valid => hk'.fresh = Axes
    <3>1. CASE AocsControl
      BY <1>1, <3>1 DEF AocsControl, SupIInv, RecordPhase
    <3>2. CASE ~AocsControl
      <4>1. hk'.valid = hk.valid
        BY <1>1, <3>2
           DEF SupNext, ModeStep, Aocs, AocsWake, AocsSense, AocsRecord, AocsCommand,
               FdirTick, allVars, supVars, SupIInv, SupTypeOK
      <4> QED
        BY <4>1
    <3> QED
      BY <3>1, <3>2
  <2> QED
    BY <2>1, <2>2
<1> QED
  BY <1>1, SupervisionInvariant, PTL DEF SupSpec, RecordInOrder

(* NominalSampleForgotten, for every timeout: whatever the phase of the    *)
(* 100 ms task, if it began a period in NOMINAL it sees the change to SAFE *)
(* and resets its filter (aocs.c:40-42).                                   *)
THEOREM SampleIsForgotten == SupSpec => NominalSampleForgotten
<1>1. ASSUME SupIInv, [SupNext]_allVars
      PROVE  [apc = "sleep" /\ apc' = "sense" /\ aMode' = "SAFE" /\ filter'.held
                => ("NOMINAL" \in filter'.through
                      => filter'.through \cap {"STANDBY", "unseen"} # {})]_allVars
  <2>1. CASE AocsWake
    BY <1>1, <2>1 DEF AocsWake, Reset, NoSample, SupIInv, ResetAhead
  <2>2. CASE ~AocsWake
    BY <1>1, <2>2
       DEF SupNext, ModeStep, Aocs, AocsSense, AocsRecord, AocsControl, AocsCommand,
           FdirTick, allVars, supVars
  <2> QED
    BY <2>1, <2>2
<1> QED
  BY <1>1, SupervisionInvariant, PTL DEF SupSpec, NominalSampleForgotten

(* SafeEntryCounted, for every timeout and every way the periods of the    *)
(* mode and FDIR tasks can fall: which visits to SAFE fdir.c:288-292       *)
(* counts, and that it counts none of them twice.                          *)
THEOREM EntriesAreCounted == SupSpec => SafeEntryCounted
<1>1. ASSUME SupIInv, [SupNext]_allVars
      PROVE  [fsm.mode = "SAFE" /\ fsm'.mode # "SAFE"
                => visit.counted = IF visit.before /\ visit.during THEN 1 ELSE 0]_allVars
  BY <1>1 DEF SupIInv, FdirRemembers
<1> QED
  BY <1>1, SupervisionInvariant, PTL DEF SupSpec, SafeEntryCounted

=============================================================================
