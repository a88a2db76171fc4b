-------------------------------- MODULE Obt ---------------------------------
(***************************************************************************)
(* On-board time, src/time/obt.c: whole seconds, a fraction in FineUnits-  *)
(* ths of a second and the remainder of the conversion from milliseconds.  *)
(* The unsigned words of the code wrap: the seconds at CoarseRange and the *)
(* intermediate sum at 2^32, which is FineUnits * FineUnits.               *)
(***************************************************************************)
EXTENDS Integers

CONSTANTS
  FineUnits,    \* 65536
  Millis,       \* milliseconds in a second, 1000
  CoarseRange   \* 2^32

ASSUME ObtAssumption ==
  /\ FineUnits \in Nat /\ Millis \in Nat /\ 0 < Millis /\ Millis <= FineUnits
  /\ CoarseRange \in Nat \ {0}

Word == FineUnits * FineUnits

Times == [coarse : 0 .. CoarseRange - 1, fine : 0 .. FineUnits - 1, rem : 0 .. Millis - 1]

ObtZero == [coarse |-> 0, fine |-> 0, rem |-> 0]
-----------------------------------------------------------------------------
(* Seeded fault: the remainder of the conversion is dropped.               *)
BadObtAdvance(o, dt) ==
  LET fine == o.fine + (dt * FineUnits) \div Millis IN
    [coarse |-> (o.coarse + fine \div FineUnits) % CoarseRange,
     fine   |-> fine % FineUnits,
     rem    |-> 0]
-----------------------------------------------------------------------------
(* obsw_obt_advance                                                        *)
ObtAdvance(o, dt) ==
  LET scaled == (dt * FineUnits + o.rem) % Word
      fine   == o.fine + scaled \div Millis IN
    [coarse |-> (o.coarse + fine \div FineUnits) % CoarseRange,
     fine   |-> fine % FineUnits,
     rem    |-> scaled % Millis]

(* obsw_obt_set                                                            *)
ObtSet(coarse, fine) == [coarse |-> coarse, fine |-> fine, rem |-> 0]

(* The instant a time stands for, in units of 1 / (FineUnits * Millis) s,  *)
(* and the span after which the seconds have wrapped.                      *)
Instant(o) == (o.coarse * FineUnits + o.fine) * Millis + o.rem
Span == CoarseRange * FineUnits * Millis

=============================================================================
