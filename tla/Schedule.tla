------------------------------ MODULE Schedule ------------------------------
(***************************************************************************)
(* PUS service 11, time-based scheduling (src/pus/s11.c), driven by the    *)
(* PUS task: each cycle takes at most one telecommand, copies the on-board *)
(* time under the lock, runs the schedule against that copy and then feeds *)
(* the actions that service 19 has queued, which are telecommands of any   *)
(* service but 19.  The FDIR task goes on advancing the time.              *)
(*                                                                         *)
(* The table is the sequence of its first count rows; the rows behind them *)
(* are never read.  A time tag is the 48-bit key of tag_key.  An embedded  *)
(* telecommand is one of four kinds: the service-11 and the malformed ones *)
(* are refused, TC(9,128) sets the on-board time when it is dispatched and *)
(* the others leave the schedule's state alone.                            *)
(***************************************************************************)
EXTENDS PackedTable, FiniteSets

CONSTANTS
  Capacity,     \* rows of the table
  IdRange,      \* values of the 16-bit request number
  MaxTime,      \* bound: largest on-board time and tag
  MaxInserts,   \* bound: insertions accepted since boot
  MaxActions,   \* actions service 19 queues (OBSW_S19_QUEUE_LEN)
  None          \* nothing dispatched yet in this run

ASSUME CapacityAssumption == Capacity \in Nat \ {0}
ASSUME IdAssumption == IdRange \in Nat /\ Capacity + 1 < IdRange
ASSUME BoundAssumption == MaxTime \in Nat /\ MaxInserts \in Nat /\ MaxActions \in Nat

Ids == 0 .. IdRange - 1
Times == 0 .. MaxTime
Schedulable == {"other", "setTime"}
Embedded == Schedulable \cup {"s11", "malformed"}

VARIABLES
  acts,         \* the activities, in table order
  nextId,       \* next_id
  enabled,      \* is the schedule enabled
  obt,          \* the on-board time, advanced by the FDIR task
  pc,           \* the PUS task: waiting for a TC, copying the time, running
                \* the schedule, taking and feeding the S19 actions
  now,          \* its copy of the on-board time
  limit,        \* activities in the table when the run began
  released,     \* activities released in this run
  batch,        \* S19 actions still to be fed in this cycle
  reply,        \* the S1 verdict on the last telecommand of this cycle
  accepted,     \* history: activities accepted since boot
  out           \* history: the activity last dispatched in this run

vars == <<acts, nextId, enabled, obt, pc, now, limit, released, batch,
          reply, accepted, out>>

Activities ==
  [id : Ids \ {0}, ord : 1 .. MaxInserts, tag : Times, tc : Schedulable]

Init ==
  /\ acts = << >>
  /\ nextId = 1
  /\ enabled = TRUE
  /\ obt = 0
  /\ pc = "tc"
  /\ now = 0
  /\ limit = 0
  /\ released = 0
  /\ batch = 0
  /\ reply = "NONE"
  /\ accepted = 0
  /\ out = None
-----------------------------------------------------------------------------
(* A telecommand reaches the dispatcher from the queue, at the start of a  *)
(* cycle, or as one of the actions at its end.                             *)
Fed ==
  \/ pc = "tc" /\ pc' = "copy" /\ UNCHANGED batch
  \/ pc = "s19" /\ batch > 0 /\ batch' = batch - 1 /\ UNCHANGED pc
-----------------------------------------------------------------------------
(* Seeded faults: plausible slips in the definitions they stand in for;    *)
(* no specification uses them.                                             *)

BadTakeId == IF nextId = 0 THEN 1 ELSE nextId      \* ids in use are not skipped

BadBefore(a, b) == a.tag < b.tag              \* ties left to table order

BadRunEnd ==                                  \* one activity per run
  /\ pc = "run"
  /\ released > 0 \/ \A i \in DOMAIN acts : acts[i].tag > now
  /\ pc' = "take"
  /\ out' = None
  /\ limit' = 0
  /\ released' = 0
  /\ UNCHANGED <<acts, nextId, enabled, obt, now, batch, reply, accepted>>

BadInsert(tag, tc) ==                         \* writes one row too many
  /\ Fed
  /\ accepted < MaxInserts
  /\ tc \in {"other", "setTime"}
  /\ Len(acts) <= Capacity
  /\ acts' = Append(acts, [id |-> nextId, ord |-> accepted + 1, tag |-> tag, tc |-> tc])
  /\ nextId' = (nextId + 1) % IdRange
  /\ accepted' = accepted + 1
  /\ reply' = "OK"
  /\ UNCHANGED <<enabled, obt, now, limit, released, out>>

BadCopyTime ==                                \* the copy goes stale
  /\ pc = "copy"
  /\ now' = 0
  /\ reply' = "NONE"
  /\ pc' = IF enabled THEN "run" ELSE "take"
  /\ limit' = IF enabled THEN Len(acts) ELSE 0
  /\ released' = 0
  /\ UNCHANGED <<acts, nextId, enabled, obt, batch, accepted, out>>
-----------------------------------------------------------------------------
(* find_act: is the request number in use                                  *)
InUse(id) == \E i \in DOMAIN acts : acts[i].id = id

(* take_id: from next_id onward, the first number that is neither 0 nor in *)
(* use; the counter wraps at 16 bits.                                      *)
Skips == {k \in Ids : (nextId + k) % IdRange # 0 /\ ~InUse((nextId + k) % IdRange)}
TakeId == (nextId + (CHOOSE k \in Skips : \A j \in Skips : k <= j)) % IdRange

(* The order of release: by tag, then by request number                    *)
Before(a, b) == a.tag < b.tag \/ (a.tag = b.tag /\ a.id < b.id)

(* The row the scan of obsw_s11_run ends with: the first of the due rows   *)
(* that no due row comes before                                            *)
Earliest(i) ==
  /\ acts[i].tag <= now
  /\ \A j \in DOMAIN acts :
       acts[j].tag <= now =>
         /\ ~Before(acts[j], acts[i])
         /\ j < i => Before(acts[i], acts[j])
-----------------------------------------------------------------------------
(* The telecommands                                                        *)

(* obsw_s11_insert, the two refusals and the insertion                     *)
InsertIllegal(tc) ==
  /\ Fed
  /\ tc \notin Schedulable
  /\ reply' = "ILLEGAL_APP_DATA"
  /\ UNCHANGED <<acts, nextId, enabled, obt, now, limit, released, accepted, out>>

InsertFull(tc) ==
  /\ Fed
  /\ tc \in Schedulable
  /\ Len(acts) >= Capacity
  /\ reply' = "EXEC_ERROR"
  /\ UNCHANGED <<acts, nextId, enabled, obt, now, limit, released, accepted, out>>

Insert(tag, tc) ==
  /\ Fed
  /\ accepted < MaxInserts
  /\ tc \in Schedulable
  /\ Len(acts) < Capacity
  /\ acts' = Append(acts, [id |-> TakeId, ord |-> accepted + 1, tag |-> tag, tc |-> tc])
  /\ nextId' = (TakeId + 1) % IdRange
  /\ accepted' = accepted + 1
  /\ reply' = "OK"
  /\ UNCHANGED <<enabled, obt, now, limit, released, out>>

(* obsw_s11_delete                                                         *)
DeleteUnknown(id) ==
  /\ Fed
  /\ ~InUse(id)
  /\ reply' = "ILLEGAL_APP_DATA"
  /\ UNCHANGED <<acts, nextId, enabled, obt, now, limit, released, accepted, out>>

Delete(i) ==
  /\ Fed
  /\ \A j \in 1 .. i - 1 : acts[j].id # acts[i].id
  /\ acts' = RemoveAt(acts, i)
  /\ reply' = "OK"
  /\ UNCHANGED <<nextId, enabled, obt, now, limit, released, accepted, out>>

(* obsw_s11_delete_all                                                     *)
DeleteAll ==
  /\ Fed
  /\ acts' = << >>
  /\ reply' = "OK"
  /\ UNCHANGED <<nextId, enabled, obt, now, limit, released, accepted, out>>

(* obsw_s11_enable, obsw_s11_disable                                       *)
Enable ==
  /\ Fed
  /\ enabled' = TRUE
  /\ reply' = "OK"
  /\ UNCHANGED <<acts, nextId, obt, now, limit, released, accepted, out>>

Disable ==
  /\ Fed
  /\ enabled' = FALSE
  /\ reply' = "OK"
  /\ UNCHANGED <<acts, nextId, obt, now, limit, released, accepted, out>>

(* obsw_s9_set_obt: time may jump forward or back                          *)
SetObt(t) ==
  /\ Fed
  /\ obt' = t
  /\ reply' = "OK"
  /\ UNCHANGED <<acts, nextId, enabled, now, limit, released, accepted, out>>

Telecommand ==
  \/ \E tc \in Embedded : InsertIllegal(tc) \/ InsertFull(tc)
  \/ \E tag \in Times, tc \in Embedded : Insert(tag, tc)
  \/ \E id \in Ids : DeleteUnknown(id)
  \/ \E i \in DOMAIN acts : Delete(i)
  \/ DeleteAll
  \/ Enable
  \/ Disable
  \/ \E t \in Times : SetObt(t)
-----------------------------------------------------------------------------
(* The rest of the PUS task's cycle, and the FDIR task's tick              *)

(* xQueueReceive times out, the telecommand is of another service or the   *)
(* mode gate refuses it, or the action's definition has been deleted.      *)
NoTelecommand ==
  /\ Fed
  /\ UNCHANGED <<acts, nextId, enabled, obt, now, limit, released, reply, accepted, out>>

(* The time is copied under the lock; a disabled schedule does not run.    *)
CopyTime ==
  /\ pc = "copy"
  /\ now' = obt
  /\ reply' = "NONE"
  /\ pc' = IF enabled THEN "run" ELSE "take"
  /\ limit' = IF enabled THEN Len(acts) ELSE 0
  /\ released' = 0
  /\ UNCHANGED <<acts, nextId, enabled, obt, batch, accepted, out>>

(* One turn of the loop of obsw_s11_run: copied out, removed, dispatched.  *)
Release(i) ==
  /\ pc = "run"
  /\ released < limit
  /\ Earliest(i)
  /\ acts' = RemoveAt(acts, i)
  /\ out' = acts[i]
  /\ obt' \in IF acts[i].tc = "setTime" THEN Times ELSE {obt}
  /\ released' = released + 1
  /\ UNCHANGED <<nextId, enabled, pc, now, limit, batch, reply, accepted>>

(* The counters are locals of obsw_s11_run.                                *)
RunEnd ==
  /\ pc = "run"
  /\ released = limit \/ \A i \in DOMAIN acts : acts[i].tag > now
  /\ pc' = "take"
  /\ out' = None
  /\ limit' = 0
  /\ released' = 0
  /\ UNCHANGED <<acts, nextId, enabled, obt, now, batch, reply, accepted>>

(* obsw_s19_run takes its queue and feeds it, in one critical section.     *)
TakeActions ==
  /\ pc = "take"
  /\ batch' \in 0 .. MaxActions
  /\ pc' = "s19"
  /\ UNCHANGED <<acts, nextId, enabled, obt, now, limit, released, reply, accepted, out>>

ActionsEnd ==
  /\ pc = "s19"
  /\ batch = 0
  /\ pc' = "tc"
  /\ reply' = "NONE"
  /\ UNCHANGED <<acts, nextId, enabled, obt, now, limit, released, batch, accepted, out>>

(* obsw_pus_obt_advance, called by the FDIR task outside that section      *)
ObtAdvance ==
  /\ pc # "s19"
  /\ obt < MaxTime
  /\ obt' = obt + 1
  /\ UNCHANGED <<acts, nextId, enabled, pc, now, limit, released, batch, reply,
                 accepted, out>>

(* The watchdog resets the board when the tasks above keep the FDIR task    *)
(* from kicking it: the schedule lives in RAM, so it is lost with the time. *)
Reset ==
  /\ acts' = << >>
  /\ nextId' = 1
  /\ enabled' = TRUE
  /\ obt' = 0
  /\ pc' = "tc"
  /\ now' = 0
  /\ limit' = 0
  /\ released' = 0
  /\ batch' = 0
  /\ reply' = "NONE"
  /\ accepted' = 0
  /\ out' = None

PusTask ==
  \/ Telecommand
  \/ NoTelecommand
  \/ CopyTime
  \/ \E i \in DOMAIN acts : Release(i)
  \/ RunEnd
  \/ TakeActions
  \/ ActionsEnd

Next == PusTask \/ ObtAdvance \/ Reset

(* The PUS task wakes at least every PUS_POLL_MS, but the uplink task above *)
(* it can keep it from running (NeverStarved of Uplink).  It shares         *)
(* its priority, and so the processor, with the FDIR task that kicks the    *)
(* watchdog: either the PUS task takes a step or the board is reset.        *)
Spec == Init /\ [][Next]_vars /\ WF_vars(PusTask \/ Reset)
-----------------------------------------------------------------------------
(* Properties                                                              *)

(* The type invariant: the table never outgrows its storage and no row has *)
(* request number 0.                                                       *)
TypeOK ==
  /\ acts \in Seq(Activities) /\ Len(acts) <= Capacity
  /\ nextId \in Ids
  /\ enabled \in BOOLEAN
  /\ obt \in Times
  /\ pc \in {"tc", "copy", "run", "take", "s19"}
  /\ now \in Times
  /\ limit \in 0 .. Capacity
  /\ released \in 0 .. limit
  /\ batch \in 0 .. MaxActions
  /\ reply \in {"NONE", "OK", "ILLEGAL_APP_DATA", "EXEC_ERROR"}
  /\ accepted \in 0 .. MaxInserts
  /\ out \in Activities \cup {None}

(* Two rows never share a request number, also after the 16-bit counter    *)
(* has wrapped onto numbers still in the table: TC(11,5) names one         *)
(* activity (take_id, find_act).                                           *)
UniqueIds ==
  \A i, j \in DOMAIN acts : acts[i].id = acts[j].id => i = j

(* A run leaves nothing behind: whichever way the loop of obsw_s11_run    *)
(* stops, by its limit or because the scan finds no row, an enabled        *)
(* schedule goes on to the S19 actions without a row that was due at the   *)
(* time the run was given, although rows moved under the scan.             *)
NothingOverdue ==
  pc = "take" /\ enabled => \A i \in DOMAIN acts : acts[i].tag > now

Held == {acts[i] : i \in DOMAIN acts}

Promise == INSTANCE TimeTagged WITH
  held <- Held, Tcs <- Schedulable, SetsTime <- {"setTime"}, Ids <- Ids \ {0}

(* The table implements the set of TimeTagged: moving rows into holes      *)
(* neither loses nor repeats an activity, a deletion removes the one that  *)
(* was named, and a release takes a due activity with the smallest tag.    *)
RefinesTimeTagged == Promise!Spec

(* Equal tags go in insertion order as long as the request numbers have    *)
(* not wrapped (the comment in obsw_s11_run: "insertion (ID) order").      *)
TiesInOrderUntilWrap ==
  [][accepted < IdRange /\ out' # out /\ out' # None =>
       \A a \in Held : a.tag = out'.tag => out'.ord <= a.ord]_vars

(* An activity that is due does not stay in the table, unless the schedule *)
(* is disabled or the time is set back before its tag: it is released or   *)
(* deleted by the PUS task, whatever telecommands, activities and actions  *)
(* that task serves meanwhile, or it is lost with a reset of the board     *)
(* (obsw_s11_run called once in every cycle of the PUS task).              *)
DueIsReleased ==
  \A k \in 1 .. MaxInserts :
    (\E a \in Held : a.ord = k /\ a.tag <= obt) ~>
      (~enabled \/ \A a \in Held : a.ord = k => a.tag > obt)

-----------------------------------------------------------------------------
(* The inductive invariant behind the theorems of ScheduleProofs           *)

(* During a run the table only shrinks, by one row per release.            *)
RunInv ==
  IF pc = "run"
  THEN enabled /\ Len(acts) + released = limit
  ELSE limit = 0 /\ released = 0 /\ out = None

(* Before the first wrap the request number is the insertion number.       *)
NumberedInOrder ==
  accepted < IdRange =>
    /\ nextId = (accepted + 1) % IdRange
    /\ \A i \in DOMAIN acts : acts[i].id = acts[i].ord /\ acts[i].ord <= accepted

IInv == TypeOK /\ UniqueIds /\ NothingOverdue /\ RunInv /\ NumberedInOrder

=============================================================================
