-------------------------------- MODULE Fsm ---------------------------------
(***************************************************************************)
(* The mode machine of src/fdir/fsm.c as operators on its context: the     *)
(* mode and the number of SAFE entries, a uint32_t whose range is          *)
(* EntryRange.  The hooks of every build only count or print, so they are  *)
(* left out.                                                               *)
(***************************************************************************)
EXTENDS Naturals

CONSTANTS
  EntryRange,   \* safe_entry_count counts modulo this (2^32 in the code)
  Whitelist     \* the TCs accepted outside NOMINAL (srdb safe_allowed)

ASSUME EntryAssumption == EntryRange \in Nat \ {0}

Modes == {"STANDBY", "SAFE", "NOMINAL"}

FsmContexts == [mode : Modes, entries : 0 .. EntryRange - 1]
-----------------------------------------------------------------------------
(* obsw_fsm_init                                                           *)
FsmInit == [mode |-> "STANDBY", entries |-> 0]

(* obsw_fsm_to_standby                                                     *)
FsmToStandby(f) == [f EXCEPT !.mode = "STANDBY"]

(* obsw_fsm_to_safe: no-op in SAFE                                         *)
FsmToSafe(f) ==
  IF f.mode = "SAFE"
  THEN f
  ELSE [mode |-> "SAFE", entries |-> (f.entries + 1) % EntryRange]

(* obsw_fsm_to_nominal                                                     *)
FsmToNominal(f) == [f EXCEPT !.mode = "NOMINAL"]

(* obsw_fsm_tc_allowed, installed as the dispatcher's gate                 *)
FsmTcAllowed(f, tc) == f.mode = "NOMINAL" \/ tc \in Whitelist

=============================================================================
