----------------------------- MODULE TimeTagged -----------------------------
(***************************************************************************)
(* What the time-based schedule of PUS service 11 promises (SRS-280 to     *)
(* SRS-284): a set of at most Capacity activities, each under a request    *)
(* number that no other held activity has.  An activity leaves the set     *)
(* because ground deletes it or because it is dispatched, and the one that *)
(* is dispatched is a due one with the smallest time tag.  A reset of the  *)
(* board starts again with an empty set.                                   *)
(*                                                                         *)
(* Schedule (the unordered table of src/pus/s11.c) implements this module. *)
(***************************************************************************)
EXTENDS Naturals, FiniteSets

CONSTANTS
  Capacity,     \* activities the schedule holds
  Ids,          \* request numbers an activity may have
  Times,        \* time tags and values of the on-board time
  Tcs,          \* telecommands that may be scheduled
  SetsTime,     \* those among them that set the on-board time
  None          \* no activity

VARIABLES
  held,         \* the activities: [id, ord, tag, tc]
  accepted,     \* activities accepted since boot: ord numbers them
  enabled,      \* is the schedule enabled
  obt,          \* on-board time
  now,          \* the on-board time as last sampled for a run
  out,          \* the activity last dispatched in the current run, if any
  reply         \* the verdict on the last telecommand, if it is recent

vars == <<held, accepted, enabled, obt, now, out, reply>>

Init ==
  /\ held = {}
  /\ accepted = 0
  /\ enabled = TRUE
  /\ obt \in Times
  /\ now = obt
  /\ out = None
  /\ reply = "NONE"

Accept(id, tag, tc) ==
  /\ Cardinality(held) < Capacity
  /\ \A a \in held : a.id # id
  /\ held' = held \cup {[id |-> id, ord |-> accepted + 1, tag |-> tag, tc |-> tc]}
  /\ accepted' = accepted + 1
  /\ reply' = "OK"
  /\ UNCHANGED <<enabled, obt, now, out>>

RefuseFull ==
  /\ Cardinality(held) = Capacity
  /\ reply' = "EXEC_ERROR"
  /\ UNCHANGED <<held, accepted, enabled, obt, now, out>>

RefuseData ==
  /\ reply' = "ILLEGAL_APP_DATA"
  /\ UNCHANGED <<held, accepted, enabled, obt, now, out>>

Delete(a) ==
  /\ held' = held \ {a}
  /\ reply' = "OK"
  /\ UNCHANGED <<accepted, enabled, obt, now, out>>

DeleteAll ==
  /\ held' = {}
  /\ reply' = "OK"
  /\ UNCHANGED <<accepted, enabled, obt, now, out>>

Switch(on) ==
  /\ enabled' = on
  /\ reply' = "OK"
  /\ UNCHANGED <<held, accepted, obt, now, out>>

ObtChange ==
  /\ obt' \in Times
  /\ reply' \in {reply, "OK"}
  /\ UNCHANGED <<held, accepted, enabled, now, out>>

Sample ==
  /\ now' = obt
  /\ reply' = "NONE"
  /\ UNCHANGED <<held, accepted, enabled, obt, out>>

Release(a) ==
  /\ enabled
  /\ a.tag <= now
  /\ \A b \in held : a.tag <= b.tag
  /\ held' = held \ {a}
  /\ out' = a
  /\ a.tc \notin SetsTime => obt' = obt
  /\ obt' \in Times
  /\ UNCHANGED <<accepted, enabled, now, reply>>

EndRun ==
  /\ out' = None
  /\ UNCHANGED <<held, accepted, enabled, obt, now, reply>>

Forget ==
  /\ reply' = "NONE"
  /\ UNCHANGED <<held, accepted, enabled, obt, now, out>>

Restart ==
  /\ held' = {}
  /\ accepted' = 0
  /\ enabled' = TRUE
  /\ obt' \in Times
  /\ now' = obt'
  /\ out' = None
  /\ reply' = "NONE"

Next ==
  \/ \E id \in Ids, tag \in Times, tc \in Tcs : Accept(id, tag, tc)
  \/ RefuseFull
  \/ RefuseData
  \/ \E a \in held : Delete(a) \/ Release(a)
  \/ DeleteAll
  \/ \E on \in BOOLEAN : Switch(on)
  \/ ObtChange
  \/ Sample
  \/ EndRun
  \/ Forget
  \/ Restart

Spec == Init /\ [][Next]_vars

=============================================================================
