------------------------------- MODULE HkSets -------------------------------
(***************************************************************************)
(* What PUS service 3 promises (SRS-090 to SRS-096): a list of             *)
(* housekeeping sets, each an identifier and a list of parameters, that    *)
(* ground creates, deletes, enables and disables.  A tick visits every set *)
(* once, in the order of creation, and an enabled set is reported whole    *)
(* when its interval has elapsed.  A creation is refused for want of       *)
(* storage only when the sets that exist fill it.                          *)
(*                                                                         *)
(* Housekeeping (the set table and parameter pool of src/pus/s3.c)         *)
(* implements this module.                                                 *)
(***************************************************************************)
EXTENDS Integers, Sequences, FiniteSets, Functions

CONSTANTS
  SetCap,       \* sets the list holds
  PoolLen,      \* parameters the created sets hold between them
  MaxParams,    \* parameters that fit one report
  Params,       \* the parameters that may be reported
  BootSets,     \* the sets that exist at boot
  Requests,     \* the telecommands
  None          \* no telecommand being handled, no report yet

VARIABLES
  defs,         \* the sets: [sid, params, boot, interval, age, on]
  pos,          \* the set the tick visits next, 0 between ticks
  report,       \* the last TM(3,25) of this tick: [sid, params]
  reply         \* the telecommand being handled and the verdict on it

vars == <<defs, pos, report, reply>>

Init ==
  /\ defs = [b \in DOMAIN BootSets |->
              [sid |-> BootSets[b].sid, params |-> BootSets[b].params,
               boot |-> TRUE, interval |-> BootSets[b].interval,
               age |-> 0, on |-> BootSets[b].on]]
  /\ pos = 0
  /\ report = None
  /\ reply = None
-----------------------------------------------------------------------------
Sid(s) == {d \in DOMAIN defs : defs[d].sid = s}
Stored == SumFunctionOnSet([d \in DOMAIN defs |-> Len(defs[d].params)],
                           {d \in DOMAIN defs : ~defs[d].boot})

Deletable(s) == \E d \in Sid(s) : ~defs[d].on /\ ~defs[d].boot

Legal(r) ==
  CASE r.op = "define" -> /\ Len(r.params) \in 1 .. MaxParams
                          /\ \A k \in DOMAIN r.params : r.params[k] \in Params
                          /\ Sid(r.sid) = {}
    [] r.op = "delete" -> /\ Len(r.sids) > 0
                          /\ IsInjective(r.sids)
                          /\ \A k \in DOMAIN r.sids : Deletable(r.sids[k])
    [] r.op = "malformed" -> FALSE
    [] OTHER -> TRUE

Executable(r) ==
  CASE r.op = "define" -> /\ Len(defs) < SetCap
                          /\ Stored + Len(r.params) <= PoolLen
    [] r.op \in {"enable", "disable"} -> Sid(r.sid) # {}
    [] OTHER -> TRUE

Verdict(r) ==
  CASE ~Legal(r) -> "ILLEGAL_APP_DATA"
    [] Legal(r) /\ ~Executable(r) -> "EXEC_ERROR"
    [] OTHER -> "OK"

(* The sets once the request r is carried out                              *)
After(r) ==
  CASE r.op = "define" ->
         Append(defs, [sid |-> r.sid, params |-> r.params, boot |-> FALSE,
                       interval |-> r.interval, age |-> 0, on |-> FALSE])
    [] r.op = "delete" ->
         SelectSeq(defs, LAMBDA d : \A k \in DOMAIN r.sids : d.sid # r.sids[k])
    [] r.op = "enable" ->
         [d \in DOMAIN defs |->
            IF defs[d].sid = r.sid
            THEN [defs[d] EXCEPT !.interval = r.interval, !.age = 0, !.on = TRUE]
            ELSE defs[d]]
    [] r.op = "disable" ->
         [d \in DOMAIN defs |->
            IF defs[d].sid = r.sid THEN [defs[d] EXCEPT !.on = FALSE] ELSE defs[d]]

Handle(r) ==
  /\ pos = 0
  /\ reply = None
  /\ reply' = [req |-> r, verdict |-> Verdict(r)]
  /\ defs' = IF Verdict(r) = "OK" THEN After(r) ELSE defs
  /\ UNCHANGED <<pos, report>>

HandlerEnd ==
  /\ reply' = None
  /\ UNCHANGED <<defs, pos, report>>
-----------------------------------------------------------------------------
TickBegin ==
  /\ pos = 0
  /\ reply = None
  /\ pos' = 1
  /\ UNCHANGED <<defs, report, reply>>

Idle(d) == ~d.on \/ d.interval = 0

TickSet ==
  /\ pos \in DOMAIN defs
  /\ pos' = pos + 1
  /\ LET d == defs[pos] IN
       \/ /\ Idle(d)
          /\ UNCHANGED <<defs, report>>
       \/ /\ ~Idle(d)
          /\ d.age + 1 < d.interval
          /\ defs' = [defs EXCEPT ![pos].age = @ + 1]
          /\ UNCHANGED report
       \/ /\ ~Idle(d)
          /\ d.age + 1 = d.interval
          /\ defs' = [defs EXCEPT ![pos].age = 0]
          /\ report' = [sid |-> d.sid, params |-> d.params]
  /\ UNCHANGED reply

TickEnd ==
  /\ pos > Len(defs)
  /\ pos' = 0
  /\ report' = None
  /\ UNCHANGED <<defs, reply>>

Next ==
  \/ \E r \in Requests : Handle(r)
  \/ HandlerEnd
  \/ TickBegin
  \/ TickSet
  \/ TickEnd

Spec == Init /\ [][Next]_vars

=============================================================================
