---------------------------- MODULE Supervision -----------------------------
(***************************************************************************)
(* The two periodic tasks that watch the mode machine without being told   *)
(* of its changes: the AOCS task (src/task/aocs.c, every 100 ms), which    *)
(* resets its B-dot filter when it sees NOMINAL turn to SAFE, and the FDIR *)
(* task (src/task/fdir.c, a full tick every second), which counts SAFE     *)
(* entries for housekeeping and reports the record the AOCS task writes.   *)
(*                                                                         *)
(* The AOCS task has the priority of the mode task and shares its time     *)
(* slices; the FDIR task preempts both, and neither runs during its tick.  *)
(*                                                                         *)
(* The periods are not in step: they jitter, and after the tasks above     *)
(* have held the processor, vTaskDelayUntil lets the missed periods of a   *)
(* task run back to back.  Any number of periods of one task may therefore *)
(* fall between two of another.                                            *)
(***************************************************************************)
EXTENDS ModeManager

CONSTANTS
  Axes          \* fields of the magnetometer record, 3 in the code

ASSUME AxesAssumption == Axes \in Nat \ {0}

VARIABLES
  fitted,       \* s_qmc_ok: a magnetometer was found at start-up
  apc,          \* where the AOCS task is in its period
  aMode,        \* the mode it read, which is also its last_mode
  magOk,        \* the local mag_valid, until its last use in the period
  filter,       \* B-dot: held says whether b_prev is a sample (initialised);
                \* history: through, the modes other than SAFE the machine
                \* has been in since that sample was taken, and "unseen" if
                \* it left NOMINAL before the AOCS task looked
  hk,           \* s_hk: fresh and cmd count the magnetometer and the m_cmd
                \* fields written since the last reading; valid is mag_valid
  fLast,        \* last_mode of the FDIR task
  looked,       \* history: the AOCS task has begun a period in the present
                \* visit to NOMINAL (TRUE outside NOMINAL)
  visit         \* history of the present or next visit to SAFE: whether the
                \* FDIR task ticked in another mode since the last visit it
                \* ticked in (before), and in this one (during), and how
                \* often s_safe_mode_count went up in it (counted)

supVars == <<fitted, apc, aMode, magOk, filter, hk, fLast, looked, visit>>
allVars == <<vars, supVars>>

NoSample == [held |-> FALSE, through |-> {}]
Sample == [held |-> TRUE, through |-> {fsm.mode} \ {"SAFE"}]

(* obsw_qmc5883l_init fails if a transfer does or the chip is another one. *)
MagInit == fitted \in BOOLEAN

AocsInit ==
  /\ MagInit
  /\ apc = "sleep" /\ aMode = fsm.mode /\ magOk = FALSE
  /\ filter = NoSample
  /\ hk = [fresh |-> Axes, cmd |-> 0, valid |-> FALSE]

FdirInit == fLast = fsm.mode

SupInit ==
  /\ Init /\ AocsInit /\ FdirInit
  /\ looked = TRUE
  /\ visit = [before |-> TRUE, during |-> FALSE, counted |-> 0]
-----------------------------------------------------------------------------
(* Seeded faults: plausible slips in the definitions they stand in for;    *)
(* no specification uses them.                                             *)

BadReset(mode) == mode = "SAFE" /\ aMode = "STANDBY"    \* the other edge

BadEntered(mode) == mode = "SAFE" /\ fLast = "NOMINAL"  \* misses STANDBY to SAFE

BadEnteredLevel(mode) == mode = "SAFE"                  \* counts ticks, not entries

BadAocsSense(ok) ==                 \* mag_valid is written first
  /\ apc = "sense" /\ (ok => fitted)
  /\ magOk' = ok
  /\ hk' = [fresh |-> 0, cmd |-> 0, valid |-> ok]
  /\ apc' = "record"
  /\ UNCHANGED <<vars, fitted, aMode, filter, fLast, looked, visit>>
-----------------------------------------------------------------------------
(* aocs_task                                                               *)

(* The filter is reset when the task itself sees NOMINAL turn to SAFE.     *)
Reset(mode) == mode = "SAFE" /\ aMode = "NOMINAL"

(* The period begins: the mode is read once; in STANDBY nothing follows    *)
(* and the record keeps its values.                                        *)
AocsWake ==
  /\ apc = "sleep"
  /\ aMode' = fsm.mode
  /\ filter' = IF Reset(fsm.mode) THEN NoSample ELSE filter
  /\ apc' = IF fsm.mode = "STANDBY" THEN "sleep" ELSE "sense"
  /\ looked' = TRUE
  /\ UNCHANGED <<vars, fitted, magOk, hk, fLast, visit>>

(* obsw_qmc5883l_read: a transfer may fail, or there is no new sample.     *)
MagRead(ok) == ok => fitted

(* The gains are copied and the magnetometer is read.                      *)
AocsSense(ok) ==
  /\ apc = "sense" /\ MagRead(ok)
  /\ magOk' = ok
  /\ hk' = [fresh |-> 0, cmd |-> 0, valid |-> hk.valid]
  /\ apc' = "record"
  /\ UNCHANGED <<vars, fitted, aMode, filter, fLast, looked, visit>>

(* The next field of the record: the sample, or zero if there is none      *)
AocsRecord ==
  /\ apc = "record"
  /\ hk' = [hk EXCEPT !.fresh = @ + 1]
  /\ apc' = IF hk.fresh + 1 = Axes THEN "control" ELSE "record"
  /\ UNCHANGED <<vars, fitted, aMode, magOk, filter, fLast, looked, visit>>

(* mag_valid, then the control law of the mode read at the beginning.  No  *)
(* attitude sensor is connected, so NOMINAL commands nothing, and without  *)
(* a command m_cmd keeps its values.                                       *)
AocsControl ==
  /\ apc = "control"
  /\ hk' = [hk EXCEPT !.valid = magOk]
  /\ LET detumble == aMode = "SAFE" /\ magOk
     IN  /\ filter' = IF detumble THEN Sample ELSE filter
         /\ apc' = IF detumble THEN "command" ELSE "sleep"
  /\ magOk' = FALSE
  /\ UNCHANGED <<vars, fitted, aMode, fLast, looked, visit>>

(* The next component of the B-dot command, m_cmd, goes into the record.   *)
AocsCommand ==
  /\ apc = "command"
  /\ hk' = [hk EXCEPT !.cmd = @ + 1]
  /\ apc' = IF hk.cmd + 1 = Axes THEN "sleep" ELSE "command"
  /\ UNCHANGED <<vars, fitted, aMode, magOk, filter, fLast, looked, visit>>

Aocs ==
  \/ AocsWake \/ (\E ok \in BOOLEAN : AocsSense(ok))
  \/ AocsRecord \/ AocsControl \/ AocsCommand
-----------------------------------------------------------------------------
(* fdir_task: what the full tick does with the mode.  On-board time, the   *)
(* S12 check and the S3 tick are in Obt, Autonomy and Housekeeping; the    *)
(* boot event of the first tick and the display are left out.              *)
Entered(mode) == mode = "SAFE" /\ fLast # "SAFE"

FdirTick ==
  /\ visit' = IF fsm.mode = "SAFE"
              THEN [visit EXCEPT !.during = TRUE,
                                 !.counted = IF Entered(fsm.mode) THEN @ + 1 ELSE @]
              ELSE [visit EXCEPT !.before = TRUE]
  /\ fLast' = fsm.mode
  /\ UNCHANGED <<vars, fitted, apc, aMode, magOk, filter, hk, looked>>
-----------------------------------------------------------------------------
(* What a change of the mode means for the histories                       *)

(* The modes the machine passes through from here, for a held sample       *)
Passed == ({fsm'.mode} \ {"SAFE"})
            \cup (IF ~looked THEN {"unseen"} ELSE {})

(* The time before a visit to SAFE begins when the machine leaves the last *)
(* one; what the FDIR task did in that one matters if it ticked there.     *)
NextVisit ==
  IF fsm.mode = "SAFE"
  THEN [before |-> visit.before /\ ~visit.during, during |-> FALSE, counted |-> 0]
  ELSE visit

(* A step of the mode task, or a request                                   *)
ModeStep ==
  /\ Next
  /\ IF fsm'.mode = fsm.mode
     THEN UNCHANGED <<filter, looked, visit>>
     ELSE /\ filter' = IF filter.held
                       THEN [filter EXCEPT !.through = @ \cup Passed] ELSE filter
          /\ looked' = (fsm'.mode # "NOMINAL")
          /\ visit' = NextVisit
  /\ UNCHANGED <<fitted, apc, aMode, magOk, hk, fLast>>

SupNext == ModeStep \/ Aocs \/ FdirTick

(* The mode task is released periodically by the tick interrupt; nothing   *)
(* is assumed of when the two others run.                                  *)
SupSpec == SupInit /\ [][SupNext]_allVars /\ WF_allVars(ModeStep /\ ModeTask)
-----------------------------------------------------------------------------
(* Properties                                                              *)

Seen == (Modes \ {"SAFE"}) \cup {"unseen"}

(* The type invariant of the two tasks.                                    *)
SupTypeOK ==
  /\ fitted \in BOOLEAN
  /\ apc \in {"sleep", "sense", "record", "control", "command"}
  /\ aMode \in Modes /\ magOk \in BOOLEAN
  /\ filter \in [held : BOOLEAN, through : SUBSET Seen]
  /\ hk \in [fresh : 0 .. Axes, cmd : 0 .. Axes, valid : BOOLEAN]
  /\ fLast \in Modes /\ looked \in BOOLEAN
  /\ visit \in [before : BOOLEAN, during : BOOLEAN, counted : 0 .. 1]

(* When the AOCS task begins a period in SAFE, its filter holds no sample  *)
(* from before a visit to NOMINAL from which the machine went straight to  *)
(* SAFE, whatever phase the two tasks run in ("Reset B-dot derivative      *)
(* accumulator on every SAFE entry from NOMINAL", aocs.c:40).  The old     *)
(* sample is used after a detour through STANDBY, or when the task did not *)
(* begin a single period in the visit to NOMINAL.                          *)
NominalSampleForgotten ==
  [][apc = "sleep" /\ apc' = "sense" /\ aMode' = "SAFE" /\ filter'.held
       => ("NOMINAL" \in filter'.through
             => filter'.through \cap {"STANDBY", "unseen"} # {})]_allVars

(* When the machine leaves SAFE, s_safe_mode_count has gone up by one for  *)
(* that visit if the FDIR task ticked in it, and in another mode since the *)
(* last visit it ticked in, and else not at all (fdir.c:288-292): however  *)
(* the periods of the two tasks fall, no visit is counted twice and no     *)
(* other visit is missed.                                                  *)
SafeEntryCounted ==
  [][fsm.mode = "SAFE" /\ fsm'.mode # "SAFE"
       => visit.counted = IF visit.before /\ visit.during THEN 1 ELSE 0]_allVars

(* What the order of the writes gives a report made between any two of     *)
(* them: mag_valid turns to 1 only beside magnetometer fields that are all *)
(* of the present reading, and no part of a new m_cmd is seen without the  *)
(* whole reading it was computed from.  "mag_valid is written last so the  *)
(* reader [...] always sees consistent data when valid=1" (aocs.c:67-69)   *)
(* goes further than this: m_cmd is written after mag_valid and only in    *)
(* SAFE, and one valid reading replaces another field by field.            *)
RecordInOrder ==
  [][/\ hk'.valid /\ ~hk.valid => hk'.fresh = Axes
     /\ hk'.cmd > 0 => hk'.fresh = Axes /\ hk'.valid]_allVars
-----------------------------------------------------------------------------
(* The inductive invariant behind the theorems of SupervisionProofs.       *)

(* Once the AOCS task has begun a period in NOMINAL, it knows the mode     *)
(* until the next change.                                                  *)
AocsCaughtUp == fsm.mode = "NOMINAL" /\ looked => aMode = "NOMINAL"

(* What the FDIR task remembers is whether it ticked since the machine     *)
(* last entered, or left, SAFE.                                            *)
FdirRemembers ==
  IF fsm.mode = "SAFE"
  THEN /\ fLast = "SAFE" <=> visit.during \/ ~visit.before
       /\ visit.counted = IF visit.before /\ visit.during THEN 1 ELSE 0
  ELSE /\ fLast = "SAFE" <=> ~visit.before
       /\ ~visit.during /\ visit.counted = 0

(* A sample from before a visit to NOMINAL is still held in SAFE only if   *)
(* the AOCS task has yet to see the change, after a detour, or if it never *)
(* saw NOMINAL.                                                            *)
ResetAhead ==
  filter.held /\ "NOMINAL" \in filter.through /\ fsm.mode = "SAFE"
    => filter.through \cap {"STANDBY", "unseen"} # {} \/ aMode = "NOMINAL"

StandbyNoted == filter.held /\ fsm.mode = "STANDBY" => "STANDBY" \in filter.through

(* The record between two readings                                         *)
RecordPhase ==
  /\ apc = "record" => hk.fresh < Axes
  /\ apc # "record" => hk.fresh = Axes
  /\ apc \in {"record", "control"} => hk.cmd = 0
  /\ apc = "command" => hk.cmd < Axes /\ hk.valid
  /\ hk.cmd > 0 => hk.valid

SupIInv ==
  /\ IInv /\ SupTypeOK
  /\ AocsCaughtUp /\ FdirRemembers /\ ResetAhead /\ StandbyNoted /\ RecordPhase

=============================================================================
