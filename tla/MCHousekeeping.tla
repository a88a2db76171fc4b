--------------------------- MODULE MCHousekeeping ---------------------------
(***************************************************************************)
(* One boot-time set, enabled, and three sets that ground may create with  *)
(* one or two parameters.  There are two free slots and room for three     *)
(* parameters, so either can run out first.                                *)
(***************************************************************************)
EXTENDS Housekeeping

CONSTANTS
  a, b, c,      \* parameters of the S20 table
  h,            \* the parameter of the boot-time set
  unknown,      \* a parameter that is not in the table
  Intervals     \* collection intervals of TC(3,5)

MCParams == {a, b, c}
MCBootSets == <<[sid |-> 1, params |-> <<h>>, interval |-> 1, on |-> TRUE]>>

DefineRequests ==
  {[op |-> "define", sid |-> x[1], params |-> x[2], interval |-> 2] :
     x \in {<<2, <<a>>>>, <<3, <<b>>>>, <<3, <<b, c>>>>, <<4, <<c>>>>, <<4, <<c, a>>>>,
            <<1, <<a>>>>, <<2, << >>>>, <<2, <<a, unknown>>>>, <<2, <<a, b, c>>>>}}

DeleteRequests ==
  {[op |-> "delete", sids |-> s] :
     s \in {<<2>>, <<3, 2>>, <<4, 3>>, << >>, <<1>>, <<2, 2>>}}

MCRequests ==
  DefineRequests
  \cup DeleteRequests
  \cup {[op |-> "enable", sid |-> s, interval |-> t] : s \in 2 .. 4, t \in Intervals}
  \cup {[op |-> "disable", sid |-> s] : s \in 1 .. 3}
  \cup {[op |-> "malformed"]}

=============================================================================
