----------------------------- MODULE MCAutonomy -----------------------------
(***************************************************************************)
(* An instance of Autonomy for TLC.  Parameter 1 is set by TC(20,1) only,  *)
(* parameter 2 is written by the control step.  Event 2 is a safe trigger; *)
(* events 1 and 3 are not.                                                 *)
(***************************************************************************)
EXTENDS Autonomy

Tc(svc, sub, arg) == [svc |-> svc, sub |-> sub, arg |-> arg]

MCParams == {1, 2}
MCLive == {2}
MCValues == 0 .. 1
MCTriggers == {2}
MCWhitelist == {<<17, 1>>, <<8, 1>>, <<9, 128>>, <<20, 3>>}

Mon(p, l, h, el, eh, s) ==
  [param |-> p, low |-> l, high |-> h, evLow |-> el, evHigh |-> eh, sev |-> s]

(* A HIGH limit on each parameter, a low limit that replaces the first,    *)
(* and one with its limits crossed.                                        *)
MCMonDefs ==
  << Mon(1, 0, 0, 1, 2, 4), Mon(2, 0, 0, 1, 3, 1), Mon(2, 0, 0, 3, 2, 4),
     Mon(1, 1, 0, 1, 2, 4) >>

(* Recover on the trigger event; drop all limits on event 3; and an action *)
(* of service 19, which is refused.                                        *)
MCEaDefs ==
  << [event |-> 2, action |-> Tc(8, 1, 1)],
     [event |-> 3, action |-> Tc(12, 5, 0)],
     [event |-> 3, action |-> Tc(8, 1, 3)],
     [event |-> 2, action |-> Tc(19, 5, 0)] >>

MCSetArgs ==
  << [param |-> 1, value |-> 0], [param |-> 1, value |-> 1], [param |-> 9, value |-> 0] >>

MCTcs ==
  {Tc(8, 1, fn) : fn \in 1 .. 4}
    \cup {Tc(12, s, 0) : s \in {1, 2, 5}} \cup {Tc(12, 3, k) : k \in 1 .. 4}
    \cup {Tc(12, 4, p) : p \in 1 .. 2}
    \cup {Tc(17, 1, 0), Tc(20, 3, 0), Tc(17, 9, 0)} \cup {Tc(20, 1, k) : k \in 1 .. 3}
    \cup {Tc(19, 1, k) : k \in 1 .. 4} \cup {Tc(19, 2, e) : e \in 2 .. 3}
    \cup {Tc(19, s, 0) : s \in 3 .. 5}

=============================================================================
