---------------------------- MODULE Housekeeping ----------------------------
(***************************************************************************)
(* PUS service 3, housekeeping (src/pus/s3.c): a table of sets, boot-time  *)
(* ones first, and a pool that holds the parameters of the sets created by *)
(* TC(3,1), which TC(3,3) compacts.  One actor handles telecommands, the   *)
(* other ticks the table and builds the TM(3,25) reports.                  *)
(*                                                                         *)
(* Interleaved is FALSE for the host simulator and the superloops, where   *)
(* both are one thread.  It is TRUE for the FreeRTOS build: the PUS task   *)
(* handles telecommands, TC(3,1) and TC(3,3) in a critical section, and    *)
(* the FDIR task of the same priority ticks without one, so that a time    *)
(* slice may end between any two of its accesses to the table.  A report   *)
(* is split into these accesses; TC(3,5) and the decrement of a countdown  *)
(* are kept whole, which leaves out races on the words of one row.         *)
(*                                                                         *)
(* A parameter stands for the variable its descriptor points to, and a     *)
(* report is the list of the variables it was read from.  Whether the TM   *)
(* store has room for the report is the store's concern: the result of     *)
(* obsw_pus_tm_build is ignored.                                           *)
(***************************************************************************)
EXTENDS Integers, Sequences, FiniteSets

CONSTANTS
  SetCap,       \* set_capacity
  PoolLen,      \* param_pool_len
  MaxParams,    \* parameters that fit one TM(3,25)
  Params,       \* the S20 parameter table
  BootSets,     \* the boot-time sets: [sid, params, interval, on]
  Requests,     \* the telecommands, by operation and arguments
  Interleaved,  \* may telecommands be handled during a tick
  None          \* nothing yet

IsList(s) == s \in Seq({s[k] : k \in DOMAIN s})

ASSUME StorageAssumption ==
  /\ SetCap \in Nat /\ PoolLen \in Nat /\ MaxParams \in Nat
  /\ Len(BootSets) <= SetCap
ASSUME BootAssumption ==
  /\ IsList(BootSets)
  /\ \A b \in DOMAIN BootSets :
       /\ IsList(BootSets[b].params)
       /\ BootSets[b].interval \in Nat /\ BootSets[b].on \in BOOLEAN
ASSUME RequestAssumption ==
  \A r \in Requests :
    /\ r.op = "define" => IsList(r.params) /\ r.interval \in Nat
    /\ r.op = "delete" => IsList(r.sids)
    /\ r.op = "enable" => r.interval \in Nat
ASSUME InterleavedAssumption == Interleaved \in BOOLEAN

VARIABLES
  sets,         \* the set table, the rows behind the count too
  count,        \* set_count
  pool,         \* param_pool
  used,         \* param_pool_used
  todo,         \* identifiers TC(3,3) has checked and still has to delete
  pc,           \* where obsw_s3_tick is
  i,            \* its row
  buf,          \* the report it is building
  report,       \* the last report this tick handed to the TM store
  reply,        \* the telecommand being handled and the S1 verdict on it
  since         \* history: the sets defined at some time since this report began

setVars == <<sets, count, pool, used>>
tickVars == <<pc, i, buf, report, since>>
vars == <<setVars, tickVars, todo, reply>>
-----------------------------------------------------------------------------
(* Seeded faults: plausible slips in the definitions they stand in for;    *)
(* no specification uses them.                                             *)

BadMoved(row, end, n) == row              \* descriptors move, pointers stay

BadHasStorage(r) == count <= SetCap /\ PoolLen - used >= Len(r.params)

BadReload ==                              \* the interval is not reloaded
  /\ pc = "reload"
  /\ pc' = "row"
  /\ i' = i + 1
  /\ since' = {}
  /\ UNCHANGED <<setVars, todo, reply, buf, report>>
-----------------------------------------------------------------------------
(* A set descriptor.  off is the place of its parameters: in the pool, or  *)
(* the boot-time set with the number -off.                                 *)
NoSet == [sid |-> 0, off |-> -1, n |-> 0, interval |-> 0, countdown |-> 0, on |-> FALSE]

BootRow(b) ==
  [sid |-> BootSets[b].sid, off |-> -b, n |-> Len(BootSets[b].params),
   interval |-> BootSets[b].interval, countdown |-> BootSets[b].interval,
   on |-> BootSets[b].on]

Init ==
  /\ sets = [r \in 1 .. SetCap |-> IF r \in DOMAIN BootSets THEN BootRow(r) ELSE NoSet]
  /\ count = Len(BootSets)
  /\ pool = [k \in 0 .. PoolLen - 1 |-> None]
  /\ used = 0
  /\ todo = << >>
  /\ pc = "idle"
  /\ i = 1
  /\ buf = None
  /\ report = None
  /\ reply = None
  /\ since = {}

(* find_set: the rows in use with this identifier                          *)
Find(s) == {r \in 1 .. count : sets[r].sid = s}
Row(s) == CHOOSE r \in Find(s) : \A q \in Find(s) : r <= q

(* pool_offset: was the set created by TC(3,1)                             *)
InPool(row) == row.off \in 0 .. used - 1

(* The k-th parameter descriptor of a set                                  *)
Param(row, k) == IF row.off >= 0 THEN pool[row.off + k - 1]
                                 ELSE BootSets[-row.off].params[k]
ParamsOf(row) == [k \in 1 .. row.n |-> Param(row, k)]

Definition(row) == [sid |-> row.sid, params |-> ParamsOf(row)]
Definitions == {Definition(sets[r]) : r \in 1 .. count}
-----------------------------------------------------------------------------
(* The telecommands.  In a critical section nothing else runs until it is  *)
(* over, so the deletions that follow the checks of TC(3,3) are steps that *)
(* nothing comes between.                                                  *)

Free == reply = None /\ (Interleaved \/ pc = "idle")

Answer(r, verdict) == reply' = [req |-> r, verdict |-> verdict]

Reject(r, verdict) ==
  /\ Free
  /\ Answer(r, verdict)
  /\ UNCHANGED <<setVars, tickVars, todo>>

Malformed(r) == r.op = "malformed" /\ Reject(r, "ILLEGAL_APP_DATA")

(* obsw_s3_define                                                          *)
DefineLegal(r) ==
  /\ Len(r.params) \in 1 .. MaxParams
  /\ Find(r.sid) = {}
  /\ \A k \in DOMAIN r.params : r.params[k] \in Params

HasStorage(r) == count < SetCap /\ PoolLen - used >= Len(r.params)

DefineIllegal(r) ==
  r.op = "define" /\ ~DefineLegal(r) /\ Reject(r, "ILLEGAL_APP_DATA")

DefineFull(r) ==
  /\ r.op = "define"
  /\ DefineLegal(r)
  /\ ~HasStorage(r)
  /\ Reject(r, "EXEC_ERROR")

Define(r) ==
  /\ r.op = "define"
  /\ Free
  /\ DefineLegal(r)
  /\ HasStorage(r)
  /\ pool' = [k \in DOMAIN pool |->
               IF k \in used .. used + Len(r.params) - 1
               THEN r.params[k - used + 1] ELSE pool[k]]
  /\ used' = used + Len(r.params)
  /\ sets' = [sets EXCEPT ![count + 1] =
               [sid |-> r.sid, off |-> used, n |-> Len(r.params),
                interval |-> r.interval, countdown |-> r.interval, on |-> FALSE]]
  /\ count' = count + 1
  /\ since' = IF since = {} THEN {}
              ELSE since \cup {[sid |-> r.sid, params |-> r.params]}
  /\ Answer(r, "OK")
  /\ UNCHANGED <<todo, pc, i, buf, report>>

(* obsw_s3_delete: every identifier is checked before any set goes.        *)
DeleteLegal(sids) ==
  /\ Len(sids) > 0
  /\ \A k \in DOMAIN sids :
       /\ Find(sids[k]) # {}
       /\ ~sets[Row(sids[k])].on
       /\ InPool(sets[Row(sids[k])])
       /\ \A j \in 1 .. k - 1 : sids[j] # sids[k]

DeleteIllegal(r) ==
  r.op = "delete" /\ ~DeleteLegal(r.sids) /\ Reject(r, "ILLEGAL_APP_DATA")

Delete(r) ==
  /\ r.op = "delete"
  /\ Free
  /\ DeleteLegal(r.sids)
  /\ todo' = r.sids
  /\ Answer(r, "OK")
  /\ UNCHANGED <<setVars, tickVars>>

(* remove_defined: the parameters above the gap move down, the pointers to *)
(* them follow, and the rows behind the set move up.  The last row stays   *)
(* in memory behind the count.                                             *)
Moved(row, end, n) ==
  IF InPool(row) /\ row.off >= end THEN [row EXCEPT !.off = @ - n] ELSE row

RemoveDefined ==
  /\ todo # << >>
  /\ LET d   == Row(Head(todo))
         n   == sets[d].n
         end == sets[d].off + n
         moved == [r \in 1 .. SetCap |->
                    IF r \in 1 .. count /\ r # d
                    THEN Moved(sets[r], end, n) ELSE sets[r]]
     IN /\ pool' = [k \in DOMAIN pool |->
                     IF k \in end - n .. used - n - 1 THEN pool[k + n] ELSE pool[k]]
        /\ used' = used - n
        /\ sets' = [r \in 1 .. SetCap |->
                     IF r \in d .. count - 1 THEN moved[r + 1] ELSE moved[r]]
        /\ count' = count - 1
  /\ todo' = Tail(todo)
  /\ UNCHANGED <<tickVars, reply>>

(* obsw_s3_enable, obsw_s3_disable                                         *)
SwitchUnknown(r) ==
  /\ r.op \in {"enable", "disable"}
  /\ Find(r.sid) = {}
  /\ Reject(r, "EXEC_ERROR")

Enable(r) ==
  /\ r.op = "enable"
  /\ Free
  /\ Find(r.sid) # {}
  /\ sets' = [sets EXCEPT ![Row(r.sid)] =
               [@ EXCEPT !.interval = r.interval, !.countdown = r.interval, !.on = TRUE]]
  /\ Answer(r, "OK")
  /\ UNCHANGED <<count, pool, used, tickVars, todo>>

Disable(r) ==
  /\ r.op = "disable"
  /\ Free
  /\ Find(r.sid) # {}
  /\ sets' = [sets EXCEPT ![Row(r.sid)] = [@ EXCEPT !.on = FALSE]]
  /\ Answer(r, "OK")
  /\ UNCHANGED <<count, pool, used, tickVars, todo>>

Telecommand(r) ==
  \/ Malformed(r)
  \/ DefineIllegal(r) \/ DefineFull(r) \/ Define(r)
  \/ DeleteIllegal(r) \/ Delete(r)
  \/ SwitchUnknown(r) \/ Enable(r) \/ Disable(r)
(* The handler returns to the dispatcher.                                  *)
HandlerEnd ==
  /\ reply # None
  /\ todo = << >>
  /\ reply' = None
  /\ UNCHANGED <<setVars, tickVars, todo>>
-----------------------------------------------------------------------------
(* obsw_s3_tick.  The loop tests the count and reads the row again at      *)
(* every turn; emit_hk_report keeps a pointer to the row and reads through *)
(* it.                                                                     *)

Ticking(at) == pc = at /\ todo = << >> /\ (Interleaved \/ reply = None)

TickBegin ==
  /\ Ticking("idle")
  /\ pc' = "row"
  /\ i' = 1
  /\ UNCHANGED <<setVars, todo, reply, buf, report, since>>

TickEnd ==
  /\ Ticking("row")
  /\ i > count
  /\ pc' = "idle"
  /\ i' = 1
  /\ report' = None
  /\ UNCHANGED <<setVars, todo, reply, buf, since>>

Dormant(row) == ~row.on \/ row.interval = 0

RowSkip ==
  /\ Ticking("row")
  /\ i <= count
  /\ Dormant(sets[i])
  /\ i' = i + 1
  /\ UNCHANGED <<setVars, todo, reply, pc, buf, report, since>>

RowCount ==
  /\ Ticking("row")
  /\ i <= count
  /\ ~Dormant(sets[i])
  /\ LET left == IF sets[i].countdown > 0 THEN sets[i].countdown - 1 ELSE 0 IN
       /\ sets' = [sets EXCEPT ![i] = [@ EXCEPT !.countdown = left]]
       /\ IF left = 0 THEN /\ pc' = "sid"
                           /\ since' = Definitions
                           /\ UNCHANGED i
                      ELSE /\ i' = i + 1
                           /\ UNCHANGED <<pc, since>>
  /\ UNCHANGED <<count, pool, used, todo, reply, buf, report>>

ReadSid ==
  /\ Ticking("sid")
  /\ buf' = [sid |-> sets[i].sid, params |-> << >>]
  /\ pc' = "param"
  /\ UNCHANGED <<setVars, todo, reply, i, report, since>>

ReadParam ==
  /\ Ticking("param")
  /\ Len(buf.params) < sets[i].n
  /\ buf' = [buf EXCEPT !.params = Append(@, Param(sets[i], Len(@) + 1))]
  /\ UNCHANGED <<setVars, todo, reply, pc, i, report, since>>

Emit ==
  /\ Ticking("param")
  /\ Len(buf.params) >= sets[i].n
  /\ report' = buf
  /\ buf' = None
  /\ pc' = "reload"
  /\ UNCHANGED <<setVars, todo, reply, i, since>>

Reload ==
  /\ Ticking("reload")
  /\ sets' = [sets EXCEPT ![i] = [@ EXCEPT !.countdown = sets[i].interval]]
  /\ pc' = "row"
  /\ i' = i + 1
  /\ since' = {}
  /\ UNCHANGED <<count, pool, used, todo, reply, buf, report>>

Tick ==
  \/ TickBegin \/ RowSkip \/ RowCount
  \/ ReadSid \/ ReadParam \/ Emit \/ Reload
  \/ TickEnd

Next ==
  \/ \E r \in Requests : Telecommand(r)
  \/ RemoveDefined
  \/ HandlerEnd
  \/ Tick

Spec == Init /\ [][Next]_vars
-----------------------------------------------------------------------------
(* Type correctness: in particular the count and the pool index of the     *)
(* code stay within the arrays they index.                                 *)
Offsets == -SetCap .. PoolLen - 1

TypeOK ==
  /\ DOMAIN sets = 1 .. SetCap
  /\ \A r \in 1 .. SetCap :
       /\ sets[r].off \in Offsets
       /\ sets[r].n \in Nat
       /\ sets[r].interval \in Nat
       /\ sets[r].countdown \in 0 .. sets[r].interval
       /\ sets[r].on \in BOOLEAN
  /\ count \in 0 .. SetCap
  /\ pool \in [0 .. PoolLen - 1 -> Params \cup {None}]
  /\ used \in 0 .. PoolLen
  /\ pc \in {"idle", "row", "sid", "param", "reload"}
  /\ i \in 1 .. SetCap + 1

(* The pool is packed: the sets created by TC(3,1) own disjoint runs of    *)
(* parameters that together are exactly the used part of the pool, later   *)
(* sets above earlier ones, so that no deletion leaks storage and none     *)
(* leaves a pointer behind.                                                *)
Created == {r \in 1 .. count : sets[r].off >= 0}
Run(r) == sets[r].off .. sets[r].off + sets[r].n - 1

PoolPacked ==
  /\ UNION {Run(r) : r \in Created} = 0 .. used - 1
  /\ \A r, q \in Created : r < q => sets[r].off + sets[r].n <= sets[q].off

(* SRS-092: a report carries the identifier of a set and the parameters of *)
(* its definition, in order: of a definition that was in force at some     *)
(* time while the report was built.                                        *)
ReportIsOneSet == pc = "reload" => report \in since

(* The inductive invariants (HousekeepingProofs).  A set created by        *)
(* TC(3,1) has parameters and an identifier of its own, and what TC(3,3)   *)
(* has checked stays true of the sets it still has to delete.              *)
Sids ==
  {0} \cup {BootSets[b].sid : b \in DOMAIN BootSets}
      \cup {r.sid : r \in {q \in Requests : q.op = "define"}}
Rows ==
  [sid : Sids, off : Offsets, n : Nat, interval : Nat, countdown : Nat, on : BOOLEAN]

CreatedSets ==
  \A r \in Created :
    /\ sets[r].n >= 1
    /\ \A q \in 1 .. count : sets[q].sid = sets[r].sid => q = r

DeletionChecked ==
  /\ IsList(todo)
  /\ \A k \in DOMAIN todo :
       /\ \E r \in Created : sets[r].sid = todo[k]
       /\ \A j \in DOMAIN todo : todo[j] = todo[k] => j = k

ReportRow == pc \in {"sid", "param", "reload"} => i \in 1 .. SetCap

HkIInv ==
  /\ TypeOK /\ sets \in [1 .. SetCap -> Rows]
  /\ PoolPacked /\ CreatedSets /\ DeletionChecked /\ ReportRow

(* In one thread the row that is being reported stays where it is, and the *)
(* report is a prefix of its parameters.                                   *)
Reporting ==
  /\ pc # "idle" => reply = None /\ todo = << >>
  /\ pc \in {"sid", "param", "reload"} => i \in 1 .. count /\ Definition(sets[i]) \in since
  /\ pc = "param" =>
       /\ buf = [sid |-> sets[i].sid, params |-> buf.params]
       /\ IsList(buf.params) /\ Len(buf.params) <= sets[i].n
       /\ \A k \in DOMAIN buf.params : buf.params[k] = Param(sets[i], k)
  /\ pc = "reload" => report = Definition(sets[i])

(* The table and the pool implement the list of sets of HkSets.  A set is  *)
(* gone from the list once TC(3,3) is accepted; the set being reported has *)
(* one tick to go until the report is handed over.                         *)
Left(r) ==
  CASE r = i /\ pc \in {"sid", "param"} -> 1
    [] r = i /\ pc = "reload" -> sets[r].interval
    [] OTHER -> sets[r].countdown

Listed ==
  SelectSeq([r \in 1 .. count |->
              [sid |-> sets[r].sid, params |-> ParamsOf(sets[r]),
               boot |-> sets[r].off < 0, interval |-> sets[r].interval,
               age |-> sets[r].interval - Left(r), on |-> sets[r].on]],
            LAMBDA d : \A k \in DOMAIN todo : todo[k] # d.sid)

Hk == INSTANCE HkSets WITH
  defs <- Listed,
  pos <- CASE pc = "idle" -> 0 [] pc = "reload" -> i + 1 [] OTHER -> i

(* Every step of the code is a step of HkSets or changes nothing of it:    *)
(* the verdicts, the order of the sets, the time of each report and its    *)
(* contents are as promised whatever the pool went through.                *)
RefinesHkSets == Hk!Spec

=============================================================================
