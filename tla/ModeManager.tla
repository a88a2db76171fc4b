---------------------------- MODULE ModeManager -----------------------------
(***************************************************************************)
(* The Mode Manager task of the FreeRTOS build (src/task/mode.c) and the   *)
(* mode requests that reach it from the PUS task.                          *)
(*                                                                         *)
(* The task wakes once a second, looks at three request flags, runs the    *)
(* STANDBY timer and reports the mode change, if any.  It has priority 2   *)
(* and the PUS task priority 3, so a request function can run between any  *)
(* two of its accesses to the flags, while it never runs in the middle of  *)
(* a request function.  Each access of the task is an action of its own.   *)
(***************************************************************************)
EXTENDS Fsm

CONSTANTS
  Timeout       \* STANDBY_SAFE_TIMEOUT_S, in wake-ups of the task

ASSUME TimeoutAssumption == Timeout \in Nat \ {0}

VARIABLES
  fsm,          \* s_fsm
  req,          \* s_req_safe, s_req_standby and s_req_nominal
  pc,           \* where the task is in its loop
  cur,          \* the mode it read when it woke
  branch,       \* the request it is serving in this period
  ticks,        \* standby_ticks
  last,         \* the mode it last reported
  woke          \* history: which of the requests SAFE and STANDBY were
                \* pending when it woke

vars == <<fsm, req, pc, cur, branch, ticks, last, woke>>

Requests == {"SAFE", "STANDBY", "NOMINAL"}
NoRequest == [r \in Requests |-> FALSE]

Init ==
  /\ fsm = FsmInit
  /\ req = NoRequest
  /\ pc = "sleep"
  /\ cur = "STANDBY"
  /\ branch = "none"
  /\ ticks = 0
  /\ last = "STANDBY"
  /\ woke = {}
-----------------------------------------------------------------------------
(* Seeded faults: plausible slips in the definitions they stand in for;    *)
(* no specification uses them.                                             *)

BadRequestNominal ==            \* takes over a pending SAFE request
  /\ req' = [req EXCEPT !["NOMINAL"] = TRUE, !["SAFE"] = FALSE]
  /\ UNCHANGED <<fsm, pc, cur, branch, ticks, last, woke>>

BadTransition ==                \* NOMINAL from any mode
  /\ pc = "transition"
  /\ fsm' = CASE branch = "SAFE"    -> FsmToSafe(fsm)
              [] branch = "STANDBY" -> FsmToStandby(fsm)
              [] OTHER              -> FsmToNominal(fsm)
  /\ pc' = "timer"
  /\ UNCHANGED <<req, cur, branch, ticks, last, woke>>

BadTestSafe ==                  \* a STANDBY request is served first
  /\ pc = "testSafe"
  /\ IF req["SAFE"] /\ ~req["STANDBY"]
     THEN branch' = "SAFE" /\ pc' = "clear"
     ELSE pc' = "testStandby" /\ UNCHANGED branch
  /\ UNCHANGED <<fsm, req, cur, ticks, last, woke>>

BadTimerStale ==                \* tests ==: a count left at the timeout never fires
  /\ pc = "timer"
  /\ IF fsm.mode = "STANDBY"
     THEN /\ ticks' = IF ticks < Timeout THEN ticks + 1 ELSE ticks
          /\ fsm' = IF ticks + 1 = Timeout THEN FsmToSafe(fsm) ELSE fsm
     ELSE ticks' = 0 /\ UNCHANGED fsm
  /\ pc' = "report"
  /\ UNCHANGED <<req, cur, branch, last, woke>>

BadTimerEquals ==               \* tests ==, and the count runs past the timeout
  /\ pc = "timer"
  /\ IF fsm.mode = "STANDBY"
     THEN /\ ticks' = ticks + 1
          /\ fsm' = IF ticks + 1 = Timeout THEN FsmToSafe(fsm) ELSE fsm
     ELSE ticks' = 0 /\ UNCHANGED fsm
  /\ pc' = "report"
  /\ UNCHANGED <<req, cur, branch, last, woke>>
-----------------------------------------------------------------------------
(* The requests, from the S8 functions of the PUS task                     *)

(* obsw_mode_request_safe: a pending STANDBY request survives              *)
RequestSafe ==
  /\ req' = [req EXCEPT !["SAFE"] = TRUE, !["NOMINAL"] = FALSE]
  /\ UNCHANGED <<fsm, pc, cur, branch, ticks, last, woke>>

(* obsw_mode_request_nominal                                               *)
RequestNominal ==
  /\ req' = [req EXCEPT !["NOMINAL"] = TRUE]
  /\ UNCHANGED <<fsm, pc, cur, branch, ticks, last, woke>>

(* obsw_mode_request_standby: a pending SAFE request survives              *)
RequestStandby ==
  /\ req' = [req EXCEPT !["STANDBY"] = TRUE, !["NOMINAL"] = FALSE]
  /\ UNCHANGED <<fsm, pc, cur, branch, ticks, last, woke>>
-----------------------------------------------------------------------------
(* mode_task                                                               *)

(* vTaskDelayUntil returns; the mode is read.                              *)
Wake ==
  /\ pc = "sleep"
  /\ cur' = fsm.mode
  /\ woke' = {r \in {"SAFE", "STANDBY"} : req[r]}
  /\ pc' = "testSafe"
  /\ UNCHANGED <<fsm, req, branch, ticks, last>>

TestSafe ==
  /\ pc = "testSafe"
  /\ IF req["SAFE"]
     THEN branch' = "SAFE" /\ pc' = "clear"
     ELSE pc' = "testStandby" /\ UNCHANGED branch
  /\ UNCHANGED <<fsm, req, cur, ticks, last, woke>>

TestStandby ==
  /\ pc = "testStandby"
  /\ IF req["STANDBY"]
     THEN branch' = "STANDBY" /\ pc' = "clear"
     ELSE pc' = "testNominal" /\ UNCHANGED branch
  /\ UNCHANGED <<fsm, req, cur, ticks, last, woke>>

TestNominal ==
  /\ pc = "testNominal"
  /\ IF req["NOMINAL"]
     THEN branch' = "NOMINAL" /\ pc' = "clear"
     ELSE pc' = "timer" /\ UNCHANGED branch
  /\ UNCHANGED <<fsm, req, cur, ticks, last, woke>>

(* The flag is cleared before the machine moves: a request that arrives    *)
(* from here on is kept for the next period.                               *)
ClearRequest ==
  /\ pc = "clear"
  /\ req' = [req EXCEPT ![branch] = FALSE]
  /\ pc' = "transition"
  /\ UNCHANGED <<fsm, cur, branch, ticks, last, woke>>

(* A NOMINAL request outside SAFE is dropped without a word.               *)
Transition ==
  /\ pc = "transition"
  /\ fsm' = CASE branch = "SAFE"    -> FsmToSafe(fsm)
              [] branch = "STANDBY" -> FsmToStandby(fsm)
              [] OTHER              -> IF cur = "SAFE" THEN FsmToNominal(fsm) ELSE fsm
  /\ pc' = "timer"
  /\ UNCHANGED <<req, cur, branch, ticks, last, woke>>

(* The STANDBY timer.  standby_ticks is only compared with the timeout, so *)
(* it is not counted beyond it; it keeps its value when it fires and is    *)
(* reset in the next period that is not in STANDBY.                        *)
Timer ==
  /\ pc = "timer"
  /\ IF fsm.mode = "STANDBY"
     THEN /\ ticks' = IF ticks < Timeout THEN ticks + 1 ELSE ticks
          /\ fsm' = IF ticks + 1 >= Timeout THEN FsmToSafe(fsm) ELSE fsm
     ELSE ticks' = 0 /\ UNCHANGED fsm
  /\ pc' = "report"
  /\ UNCHANGED <<req, cur, branch, last, woke>>

(* An S5 event per change of the mode seen at the end of the period; the   *)
(* task goes on the same whether or not the TM store had room for it.      *)
Report ==
  /\ pc = "report"
  /\ cur' = fsm.mode
  /\ last' = fsm.mode
  /\ branch' = "none"
  /\ pc' = "sleep"
  /\ UNCHANGED <<fsm, req, ticks, woke>>
-----------------------------------------------------------------------------
ModeTask ==
  \/ Wake \/ TestSafe \/ TestStandby \/ TestNominal
  \/ ClearRequest \/ Transition \/ Timer \/ Report

(* The S8 functions of the PUS task                                        *)
Requested == RequestNominal \/ RequestSafe \/ RequestStandby

Next == Requested \/ ModeTask

(* The task is released every second by the tick interrupt and the tasks   *)
(* above it block between frames and periods.  Nothing obliges the ground  *)
(* to send a request.                                                      *)
Spec == Init /\ [][Next]_vars /\ WF_vars(ModeTask)
-----------------------------------------------------------------------------
(* Properties                                                              *)

(* The type invariant of the Mode Manager's state.                         *)
TypeOK ==
  /\ fsm \in FsmContexts
  /\ req \in [Requests -> BOOLEAN]
  /\ pc \in {"sleep", "testSafe", "testStandby", "testNominal", "clear",
             "transition", "timer", "report"}
  /\ cur \in Modes
  /\ branch \in Requests \cup {"none"}
  /\ ticks \in 0 .. Timeout
  /\ last \in Modes
  /\ woke \subseteq {"SAFE", "STANDBY"}

(* A SAFE request that is pending when the task wakes has taken the        *)
(* machine to SAFE when the task sleeps again, whichever requests arrive   *)
(* while it is reading and clearing the flags (mode.c:71-81).              *)
SafeServedThisPeriod ==
  pc = "sleep" /\ "SAFE" \in woke => fsm.mode = "SAFE"

(* NOMINAL is entered only from SAFE, in a period that began without a     *)
(* SAFE or STANDBY request (mode.h:34, mode.c:77-81).                      *)
NominalOnlyWhenSafe ==
  [][fsm'.mode = "NOMINAL" /\ fsm.mode # "NOMINAL"
       => fsm.mode = "SAFE" /\ "SAFE" \notin woke /\ "STANDBY" \notin woke]_vars

(* A SAFE request is never lost: neither a later request nor the task's    *)
(* clearing of the flags can keep the machine from reaching SAFE.          *)
SafeRequestHonoured == req["SAFE"] ~> fsm.mode = "SAFE"

(* Once the ground has stopped asking for modes, STANDBY does not last:    *)
(* "STANDBY -> SAFE after STANDBY_SAFE_TIMEOUT_S seconds without a ground  *)
(* command" (mode.c:12-14), also from a count that an earlier timeout left *)
(* behind.  That requests hold the timer off, as this comment has it, is   *)
(* not in the code.                                                        *)
StandbyEnds == <>[](req = NoRequest) => []<>(fsm.mode # "STANDBY")

(* What docs/architecture.md:309 says: a STANDBY request served in SAFE    *)
(* ("SAFE --> STANDBY : obsw_mode_request_standby()") leaves the machine   *)
(* in STANDBY.                                                             *)
StandbyRequestEntersStandby ==
  pc = "report" /\ branch = "STANDBY" /\ cur = "SAFE" => fsm.mode = "STANDBY"

-----------------------------------------------------------------------------
(* The inductive invariant behind the theorems of SupervisionProofs: what  *)
(* each point of the loop knows of the requests seen at the wake-up.       *)

(* Until the machine moves it is in the mode the task read.                *)
CurIsMode ==
  pc \in {"testSafe", "testStandby", "testNominal", "clear", "transition"}
    => cur = fsm.mode

(* A flag stays up until the branch that serves it lowers it.              *)
SafeTracked ==
  "SAFE" \in woke =>
    /\ pc = "testSafe" => req["SAFE"]
    /\ pc \notin {"testStandby", "testNominal"}
    /\ pc \in {"clear", "transition"} => branch = "SAFE"
    /\ pc \in {"timer", "report", "sleep"} => fsm.mode = "SAFE"

StandbyTracked ==
  "STANDBY" \in woke =>
    /\ pc \in {"testSafe", "testStandby"} => req["STANDBY"]
    /\ pc # "testNominal"
    /\ pc \in {"clear", "transition"} => branch # "NOMINAL"

ServingBranch == pc \in {"clear", "transition"} => branch \in Requests

IInv == TypeOK /\ CurIsMode /\ SafeTracked /\ StandbyTracked /\ ServingBranch

=============================================================================
