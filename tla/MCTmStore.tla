----------------------------- MODULE MCTmStore ------------------------------
(***************************************************************************)
(* Instances of TmStore for TLC.  Lengths are scaled down: 1 and 2 fit     *)
(* everywhere, 3 fits the store and not the reader's buffer (the ZynqMP    *)
(* loop drains a 1024-byte store through 128 bytes), 4 fits nowhere.       *)
(***************************************************************************)
EXTENDS TmStore

MCBytes == 0 .. 2

MCPackets ==
  { [lo |-> 1, hi |-> 1, len |-> 1],
    [lo |-> 2, hi |-> 2, len |-> 2],
    [lo |-> 1, hi |-> 2, len |-> 3],
    [lo |-> 2, hi |-> 1, len |-> 4] }

(* The two writers the architecture document names.                        *)
DocWriters == {"PUS", "FDIR"}
DocPrio == [w \in DocWriters |-> 3]

(* Every task of the STM32H7 image that reports telemetry.                 *)
TaskWriters == {"PUS", "FDIR", "MODE"}
TaskPrio == [w \in TaskWriters |-> IF w = "MODE" THEN 2 ELSE 3]

=============================================================================
